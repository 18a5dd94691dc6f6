------------------------------ MODULE LogQueue ------------------------------
(***************************************************************************)
(* Core::LogQueue (engine/Core): the lock-free ring of log entries between *)
(* the one network thread that pushes to it and the one worker that pops   *)
(* from it, with its overflow profiles and its high-watermark flag.  The   *)
(* calls of Telemetry are steps here; the counters they move, which all    *)
(* queues share, are in Telemetry.                                         *)
(*                                                                         *)
(* Every access to a variable the other thread writes is an action of its  *)
(* own.  A thread's own cursor needs none: only push() stores head and     *)
(* only pop() stores tail, so the relaxed loads of push() (current_head)   *)
(* and of pop() (current_tail) return the value the thread stored last.    *)
(*                                                                         *)
(* published, delivered, refused, submitted and lapped are history: the    *)
(* code does not keep them and no action reads them in a guard, except     *)
(* submitted, which numbers the logs and bounds the behaviours.            *)
(***************************************************************************)
EXTENDS Bits, Sequences

CONSTANTS Capacity,  \* slots of log_array, CapacityMask + 1
          Profiles,  \* the overflow profiles the queue may be configured with
          Levels,    \* the levels logs have: push() tells only Critical apart
          MaxLogs    \* bound on the logs the sessions submit

AllProfiles == {"Block", "DropAll", "DropNonCritical", "PassCriticalDropElse"}

(* std::bit_ceil of at least two raw slots: "& CapacityMask" is the        *)
(* remainder that Wrap takes.                                              *)
ASSUME CapacityAssumption == Capacity \in Nat /\ Capacity >= 2
ASSUME PowerOfTwoAssumption == \E k \in 1..63 : Capacity = Pow2[k]
ASSUME BoundsAssumption == MaxLogs \in Nat /\ Profiles \subseteq AllProfiles
ASSUME LevelsAssumption == "Other" \in Levels /\ Levels \subseteq {"Critical", "Other"}

VARIABLES
  log_array,               \* the ring
  head,                    \* where the next log is written
  tail,                    \* where the next log is read
  allocated,               \* log_array is not null
  is_running,
  overflow,                \* the profile
  high_watermark_tripped,
  ppc, log_line,           \* push(): its next step and its argument
  cpc, out_log,            \* pop(): its next step and its result
  submitted, published, delivered, refused, lapped

ringVars  == <<log_array, head, tail, allocated, is_running, overflow>>
stateVars == <<high_watermark_tripped>>
histVars  == <<submitted, published, delivered, refused, lapped>>
vars == <<log_array, head, tail, allocated, is_running, overflow,
          high_watermark_tripped, ppc, log_line, cpc, out_log,
          submitted, published, delivered, refused, lapped>>

-----------------------------------------------------------------------------
WrapMutant(i) == i % (Capacity + 1)
Wrap(i) == i % Capacity
Index   == 0 .. Capacity - 1

LogEntry == [log_id : 0..MaxLogs, level : Levels]
NoLog    == [log_id |-> 0, level |-> "Other"]   \* a value-initialised entry

HighWatermark == (Capacity * 8) \div 10
LowWatermark  == (Capacity * 2) \div 10

Occupied == Wrap(head - tail)
Contents == [k \in 1..Occupied |-> log_array[Wrap(tail + k - 1)]]

Init ==
  /\ log_array = [i \in Index |-> NoLog]
  /\ head = 0 /\ tail = 0
  /\ allocated \in BOOLEAN   \* FALSE: InitializeSharedMemory failed
  /\ is_running = TRUE
  /\ overflow \in Profiles
  /\ high_watermark_tripped = FALSE
  /\ ppc = "idle" /\ log_line = NoLog
  /\ cpc = "idle" /\ out_log = NoLog
  /\ submitted = 0 /\ published = << >> /\ delivered = << >>
  /\ refused = {} /\ lapped = FALSE

-----------------------------------------------------------------------------
(* push(), on the network thread of the queue.                             *)

popVars == <<cpc, out_log>>

AcceptsMutant == is_running
Accepts == allocated /\ is_running

PushCall(level) ==
  LET log == [log_id |-> submitted + 1, level |-> level] IN
  /\ ppc = "idle"
  /\ submitted < MaxLogs
  /\ submitted' = submitted + 1
  /\ \/ /\ Accepts
        /\ ppc' = "full?" /\ log_line' = log
        /\ UNCHANGED refused
     \/ /\ ~Accepts
        /\ refused' = refused \cup {log}
        /\ UNCHANGED <<ppc, log_line>>
  /\ UNCHANGED <<ringVars, stateVars, popVars, published, delivered, lapped>>

PushGiveUp ==
  /\ ppc' = "idle"
  /\ refused' = refused \cup {log_line}
  /\ UNCHANGED <<ringVars, stateVars, popVars, log_line,
                 submitted, published, delivered, lapped>>

PushGoTo(step) ==
  /\ ppc' = step
  /\ UNCHANGED <<ringVars, stateVars, popVars, log_line, histVars>>

FullMutant == Wrap(head + 2) = tail
Full == Wrap(head + 1) = tail

DroppableMutant1 == /\ overflow \in {"DropAll", "DropNonCritical", "PassCriticalDropElse"}
                    /\ log_line.level # "Critical"
DroppableMutant2 == overflow \in {"DropAll", "DropNonCritical", "PassCriticalDropElse"}
Droppable == \/ overflow = "DropAll"
             \/ /\ overflow \in {"DropNonCritical", "PassCriticalDropElse"}
                /\ log_line.level # "Critical"

PushHasRoom  == ppc = "full?" /\ ~Full /\ PushGoTo("running?")

PushOverflow ==
  /\ ppc = "full?" /\ Full
  /\ \/ Droppable /\ PushGiveUp
     \/ ~Droppable /\ overflow = "PassCriticalDropElse" /\ PushGoTo("running?")
     \/ ~Droppable /\ overflow # "PassCriticalDropElse" /\ PushGoTo("spin")

(* The loop spins on current_head = tail and not on next_head = tail.      *)
PushSpinEnds == ppc = "spin" /\ head # tail /\ PushGoTo("running?")

PushRecheck == /\ ppc = "running?"
               /\ \/ is_running /\ PushGoTo("write")
                  \/ ~is_running /\ PushGiveUp

PushWrite ==
  /\ ppc = "write"
  /\ ppc' = "publish"
  /\ log_array' = [log_array EXCEPT ![head] = log_line]
  /\ UNCHANGED <<head, tail, allocated, is_running, overflow, stateVars,
                 popVars, log_line, histVars>>

PushPublish ==
  /\ ppc = "publish"
  /\ ppc' = "notify"
  /\ head' = Wrap(head + 1)
  /\ published' = Append(published, log_line)
  /\ lapped' = IF head' = tail THEN TRUE ELSE lapped
  /\ UNCHANGED <<log_array, tail, allocated, is_running, overflow, stateVars,
                 popVars, log_line, submitted, delivered, refused>>

(* head.notify_one(): its effect on a parked worker is in ThreadManager.   *)
PushNotify == ppc = "notify" /\ PushGoTo("register")

(* telemetry_.RegisterPushed(), likewise in Telemetry.                     *)
PushRegister == ppc = "register" /\ PushGoTo("watermark")

(* The flag is set after the load of tail, not with it.                    *)
PushWatermark == /\ ppc = "watermark"
                 /\ PushGoTo(IF Occupied >= HighWatermark THEN "trip" ELSE "idle")

PushTrip ==
  /\ ppc = "trip"
  /\ ppc' = "idle"
  /\ high_watermark_tripped' = TRUE
  /\ UNCHANGED <<ringVars, popVars, log_line, histVars>>

Push == \/ \E level \in Levels : PushCall(level)
        \/ PushHasRoom \/ PushOverflow \/ PushSpinEnds \/ PushRecheck
        \/ PushWrite \/ PushPublish \/ PushNotify \/ PushRegister
        \/ PushWatermark \/ PushTrip

-----------------------------------------------------------------------------
(* pop(), on the worker of the queue.  cpc ends as "true" or "false", the  *)
(* value returned, and PopReturn hands it to the caller.                   *)

pushVars == <<ppc, log_line>>

PopGoTo(step) ==
  /\ cpc' = step
  /\ UNCHANGED <<ringVars, stateVars, pushVars, out_log, histVars>>

PopCall    == /\ cpc = "idle"
              /\ PopGoTo(IF is_running THEN "empty?" ELSE "false")
PopIsEmptyMutant == cpc = "empty?" /\ PopGoTo("running?")
PopIsEmpty == /\ cpc = "empty?"
              /\ PopGoTo(IF head = tail THEN "false" ELSE "running?")
PopRecheck == /\ cpc = "running?"
              /\ PopGoTo(IF is_running THEN "copy" ELSE "false")

(* A copy that races with the write of the same slot may mix their fields. *)
PopCopy ==
  /\ cpc = "copy"
  /\ cpc' = "free"
  /\ \E a, b \in {log_array[tail]} \cup (IF ppc = "write" /\ head = tail THEN {log_line} ELSE {}) :
       out_log' = [log_id |-> a.log_id, level |-> b.level]
  /\ UNCHANGED <<ringVars, stateVars, pushVars, histVars>>

PopFree ==
  /\ cpc = "free"
  /\ cpc' = "register"
  /\ tail' = Wrap(tail + 1)
  /\ delivered' = Append(delivered, out_log)
  /\ UNCHANGED <<log_array, head, allocated, is_running, overflow, stateVars,
                 pushVars, out_log, submitted, published, refused, lapped>>

PopRegister == cpc = "register" /\ PopGoTo("watermark")

(* occupied_slots counts from current_tail, the slot this call has freed.  *)
PopWatermark ==
  LET current_tail == Wrap(tail - 1)
      freed_slots  == Capacity - Wrap(head - current_tail) IN
  /\ cpc = "watermark"
  /\ PopGoTo(IF freed_slots <= LowWatermark THEN "reset" ELSE "true")

PopReset ==
  /\ cpc = "reset"
  /\ cpc' = "true"
  /\ high_watermark_tripped' = FALSE
  /\ UNCHANGED <<ringVars, pushVars, out_log, histVars>>

PopReturn == cpc \in {"true", "false"} /\ PopGoTo("idle")

Pop == \/ PopCall \/ PopIsEmpty \/ PopRecheck \/ PopCopy
       \/ PopFree \/ PopRegister \/ PopWatermark \/ PopReset \/ PopReturn

SetFinished ==
  /\ is_running
  /\ is_running' = FALSE
  /\ UNCHANGED <<log_array, head, tail, allocated, overflow, stateVars,
                 pushVars, popVars, histVars>>

Next == Push \/ Pop \/ SetFinished

Spec == Init /\ [][Next]_vars

-----------------------------------------------------------------------------
(* Every variable keeps its type (members of LogQueue.h:65-86 and locals). *)
TypeOK ==
  /\ log_array \in [Index -> LogEntry]
  /\ head \in Index /\ tail \in Index
  /\ allocated \in BOOLEAN /\ is_running \in BOOLEAN
  /\ overflow \in Profiles
  /\ high_watermark_tripped \in BOOLEAN
  /\ ppc \in {"idle", "full?", "spin", "running?", "write", "publish",
              "notify", "register", "watermark", "trip"}
  /\ log_line \in LogEntry
  /\ cpc \in {"idle", "empty?", "running?", "copy", "free", "register",
              "watermark", "reset", "true", "false"}
  /\ out_log \in LogEntry
  /\ submitted \in 0..MaxLogs
  /\ published \in Seq(LogEntry) /\ delivered \in Seq(LogEntry)
  /\ refused \subseteq LogEntry
  /\ lapped \in BOOLEAN

(* Until a push falls through a full ring, the worker receives exactly the *)
(* logs that were published, in order, and the rest are in the ring: none  *)
(* is lost, duplicated, reordered or read half-written, whatever the       *)
(* profile and however push() and pop() interleave.                        *)
FifoUntilLapped == ~lapped => published = delivered \o Contents

(* log_array is not atomic: push() must not write the slot pop() copies.   *)
NoSlotRace == ~lapped => ~(ppc = "write" /\ cpc = "copy" /\ head = tail)

(* DropAll keeps the ring from ever being lapped: the room push() saw at   *)
(* line 44 is still there when it stores head at line 75.                  *)
DropAllNeverLaps == overflow = "DropAll" => ~lapped

(* A queue whose constructor gave up has no log_array.  push() tests for   *)
(* it, pop() does not: it must find such a queue empty.                    *)
NoUnallocatedAccess ==
  ~allocated => ppc \notin {"write", "publish"} /\ cpc \notin {"copy", "free"}

(* While the queue runs, only DropAll refuses a Critical log and Block     *)
(* refuses no log at all.                                                  *)
RefusalsJustified ==
  allocated /\ is_running =>
    /\ overflow = "Block" => refused = {}
    /\ overflow # "DropAll" => \A log \in refused : log.level # "Critical"

(* The flag falls when the queue is "stabilised again" (LogQueue.cpp:125),  *)
(* not while the ring is still as full as the flag was raised for.         *)
FlagFallsWhenStable ==
  [][high_watermark_tripped /\ ~high_watermark_tripped' => Occupied < HighWatermark]_vars

(* Block waits until a slot is free, so it never overwrites an unread log  *)
(* (LogQueue.cpp:48-53, README.md:113).                                    *)
BlockNeverLaps == overflow = "Block" => ~lapped

-----------------------------------------------------------------------------
(* The promise of the queue under DropAll.                                 *)
Fifo == INSTANCE BoundedFifo WITH
          Bound <- Capacity - 1, Logs <- LogEntry,
          queue <- Contents, open <- allocated /\ is_running

(* As long as push() drops on overflow the ring is a bounded FIFO that     *)
(* refuses a log only when it is full or finished (LogQueue.cpp:36-130).   *)
ImplementsFifo == Fifo!Spec
=============================================================================
