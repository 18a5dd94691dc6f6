---------------------------- MODULE LogQueueProof ----------------------------
(***************************************************************************)
(* The log queue is correct for every capacity, every number of logs and   *)
(* every interleaving of push(), pop() and set_finished().  The second     *)
(* half is about the worker, the network thread and stop_threads() around  *)
(* it, for every spin limit and number of sessions: the worker sleeps      *)
(* through no push, and the teardown is in order.                          *)
(***************************************************************************)
EXTENDS ThreadManager, BitsProof, SequenceTheorems

(* Wrap on the range the cursors reach: the mask as a conditional.         *)
LEMMA WrapValue ==
  ASSUME NEW x \in (1 - Capacity) .. (2 * Capacity - 1)
  PROVE  /\ Wrap(x) = IF x < 0 THEN x + Capacity
                      ELSE IF x < Capacity THEN x ELSE x - Capacity
         /\ Wrap(x) \in Index
  BY CapacityAssumption DEF Wrap, Index

(* The distance from tail to head, and what it becomes as either moves on. *)
LEMMA Distance ==
  ASSUME NEW h \in Index, NEW t \in Index
  PROVE  /\ Wrap(h - t) \in 0 .. Capacity - 1
         /\ Wrap(h - t) = 0 <=> h = t
         /\ Wrap(h + 1) # t => Wrap(Wrap(h + 1) - t) = Wrap(h - t) + 1
         /\ h # t => Wrap(h - Wrap(t + 1)) = Wrap(h - t) - 1
         /\ Wrap(h + 1) = t => Wrap(h - t) = Capacity - 1
<1>1. /\ h - t \in (1 - Capacity) .. (2 * Capacity - 1)
      /\ h + 1 \in (1 - Capacity) .. (2 * Capacity - 1)
      /\ t + 1 \in (1 - Capacity) .. (2 * Capacity - 1)
  BY CapacityAssumption DEF Index
<1>2. /\ Wrap(h - t) = IF h - t < 0 THEN h - t + Capacity ELSE h - t
      /\ Wrap(h + 1) = IF h + 1 < Capacity THEN h + 1 ELSE 0
      /\ Wrap(t + 1) = IF t + 1 < Capacity THEN t + 1 ELSE 0
  BY <1>1, WrapValue, CapacityAssumption DEF Index
<1>3. /\ Wrap(h + 1) - t \in (1 - Capacity) .. (2 * Capacity - 1)
      /\ h - Wrap(t + 1) \in (1 - Capacity) .. (2 * Capacity - 1)
  BY <1>2, CapacityAssumption DEF Index
<1>4. /\ Wrap(Wrap(h + 1) - t) = IF Wrap(h + 1) - t < 0 THEN Wrap(h + 1) - t + Capacity
                                 ELSE Wrap(h + 1) - t
      /\ Wrap(h - Wrap(t + 1)) = IF h - Wrap(t + 1) < 0 THEN h - Wrap(t + 1) + Capacity
                                 ELSE h - Wrap(t + 1)
  BY <1>2, <1>3, WrapValue, CapacityAssumption DEF Index
<1>5. h \in Nat /\ t \in Nat /\ h < Capacity /\ t < Capacity /\ Capacity \in Nat /\ Capacity >= 2
  BY CapacityAssumption DEF Index
<1>6. Wrap(h - t) \in 0 .. Capacity - 1 /\ (Wrap(h - t) = 0 <=> h = t)
  BY <1>2, <1>5
<1>7. ASSUME Wrap(h + 1) # t PROVE Wrap(Wrap(h + 1) - t) = Wrap(h - t) + 1
  BY <1>2, <1>4, <1>5, <1>7
<1>8. ASSUME h # t PROVE Wrap(h - Wrap(t + 1)) = Wrap(h - t) - 1
  BY <1>2, <1>4, <1>5, <1>8
<1>9. ASSUME Wrap(h + 1) = t PROVE Wrap(h - t) = Capacity - 1
  BY <1>2, <1>5, <1>9
<1> QED BY <1>6, <1>7, <1>8, <1>9

(* The slots counted from tail: which one is head, and how they are        *)
(* renumbered when tail moves on.                                          *)
LEMMA Slots ==
  ASSUME NEW h \in Index, NEW t \in Index, NEW k \in 0 .. Capacity - 1
  PROVE  /\ Wrap(t + k) \in Index
         /\ Wrap(t + k) = h <=> k = Wrap(h - t)
         /\ k < Capacity - 1 => Wrap(Wrap(t + 1) + k) = Wrap(t + (k + 1))
<1>1. /\ h - t \in (1 - Capacity) .. (2 * Capacity - 1)
      /\ t + 1 \in (1 - Capacity) .. (2 * Capacity - 1)
      /\ t + k \in (1 - Capacity) .. (2 * Capacity - 1)
  BY CapacityAssumption DEF Index
<1>2. /\ Wrap(h - t) = IF h - t < 0 THEN h - t + Capacity ELSE h - t
      /\ Wrap(t + 1) = IF t + 1 < Capacity THEN t + 1 ELSE 0
      /\ Wrap(t + k) = IF t + k < Capacity THEN t + k ELSE t + k - Capacity
  BY <1>1, WrapValue, CapacityAssumption DEF Index
<1>3. ASSUME k < Capacity - 1 PROVE Wrap(Wrap(t + 1) + k) = Wrap(t + (k + 1))
  <2>1. /\ Wrap(t + 1) + k \in (1 - Capacity) .. (2 * Capacity - 1)
        /\ t + (k + 1) \in (1 - Capacity) .. (2 * Capacity - 1)
    BY <1>2, <1>3, CapacityAssumption DEF Index
  <2>2. /\ Wrap(Wrap(t + 1) + k) = IF Wrap(t + 1) + k < Capacity THEN Wrap(t + 1) + k
                                   ELSE Wrap(t + 1) + k - Capacity
        /\ Wrap(t + (k + 1)) = IF t + (k + 1) < Capacity THEN t + (k + 1)
                               ELSE t + (k + 1) - Capacity
    BY <1>2, <2>1, WrapValue, CapacityAssumption DEF Index
  <2>3. QED BY <1>2, <2>2, CapacityAssumption DEF Index
<1>4. Wrap(t + k) \in Index
  BY <1>1, WrapValue
<1>5. Wrap(t + k) = h <=> k = Wrap(h - t)
  BY <1>2, CapacityAssumption DEF Index
<1>6. QED BY <1>3, <1>4, <1>5

(* The type invariant, by the parts of the state that a step changes       *)
(* together: the ring, the flag, and what each operation has to itself.     *)
RingTypes ==
  /\ log_array \in [Index -> LogEntry]
  /\ head \in Index /\ tail \in Index
  /\ allocated \in BOOLEAN /\ is_running \in BOOLEAN
  /\ overflow \in Profiles
FlagTypes == high_watermark_tripped \in BOOLEAN
PushTypes ==
  /\ ppc \in {"idle", "full?", "spin", "running?", "write", "publish",
              "notify", "register", "watermark", "trip"}
  /\ log_line \in LogEntry
PopTypes ==
  /\ cpc \in {"idle", "empty?", "running?", "copy", "free", "register",
              "watermark", "reset", "true", "false"}
  /\ out_log \in LogEntry
HistoryTypes ==
  /\ submitted \in 0..MaxLogs
  /\ published \in Seq(LogEntry) /\ delivered \in Seq(LogEntry)
  /\ refused \subseteq LogEntry
  /\ lapped \in BOOLEAN

LEMMA TypeParts ==
  /\ TypeOK <=> RingTypes /\ FlagTypes /\ PushTypes /\ PopTypes /\ HistoryTypes
  /\ TypeOK' <=> RingTypes' /\ FlagTypes' /\ PushTypes' /\ PopTypes' /\ HistoryTypes'
  BY Zenon DEF TypeOK, RingTypes, FlagTypes, PushTypes, PopTypes, HistoryTypes

(* A step keeps the type of what it leaves alone.                          *)
LEMMA TypeFrame ==
  /\ RingTypes /\ UNCHANGED ringVars => RingTypes'
  /\ FlagTypes /\ UNCHANGED stateVars => FlagTypes'
  /\ PushTypes /\ UNCHANGED pushVars => PushTypes'
  /\ PopTypes /\ UNCHANGED popVars => PopTypes'
  /\ HistoryTypes /\ UNCHANGED histVars => HistoryTypes'
<1>1. RingTypes /\ UNCHANGED ringVars => RingTypes'
  BY DEF RingTypes, ringVars
<1>2. FlagTypes /\ UNCHANGED stateVars => FlagTypes'
  BY DEF FlagTypes, stateVars
<1>3. PushTypes /\ UNCHANGED pushVars => PushTypes'
  BY DEF PushTypes, pushVars
<1>4. PopTypes /\ UNCHANGED popVars => PopTypes'
  BY DEF PopTypes, popVars
<1>5. HistoryTypes /\ UNCHANGED histVars => HistoryTypes'
  BY DEF HistoryTypes, histVars
<1> QED BY <1>1, <1>2, <1>3, <1>4, <1>5, Zenon

(* The type invariant, for every value of the constants.                   *)
LEMMA InitTypeOK == Init => TypeOK
<1>1. NoLog \in LogEntry
  BY BoundsAssumption, LevelsAssumption DEF NoLog, LogEntry
<1> SUFFICES ASSUME Init PROVE TypeOK
  OBVIOUS
<1>2. RingTypes
  <2>1. /\ log_array = [i \in Index |-> NoLog] /\ head = 0 /\ tail = 0
        /\ allocated \in BOOLEAN /\ is_running \in BOOLEAN /\ overflow \in Profiles
    BY DEF Init
  <2>2. 0 \in Index
    BY CapacityAssumption DEF Index
  <2> QED BY <1>1, <2>1, <2>2 DEF RingTypes
<1>3. FlagTypes /\ PushTypes /\ PopTypes
  BY <1>1 DEF Init, FlagTypes, PushTypes, PopTypes
<1>4. HistoryTypes
  <2>1. /\ submitted = 0 /\ published = << >> /\ delivered = << >>
        /\ refused = {} /\ lapped = FALSE
    BY DEF Init
  <2>2. 0 \in 0 .. MaxLogs /\ << >> \in Seq(LogEntry) /\ {} \subseteq LogEntry
    BY BoundsAssumption
  <2> QED BY <2>1, <2>2 DEF HistoryTypes
<1> QED BY <1>2, <1>3, <1>4, TypeParts, Zenon

(* The steps that only move a program counter.                             *)
LEMMA PushGoToType ==
  ASSUME TypeOK, NEW step \in {"idle", "full?", "spin", "running?", "write", "publish",
                               "notify", "register", "watermark", "trip"},
         PushGoTo(step)
  PROVE  TypeOK'
<1>1. /\ UNCHANGED <<ringVars, stateVars, popVars, histVars>>
      /\ ppc' = step /\ log_line' = log_line
  BY DEF PushGoTo
<1>2. PushTypes'
  BY <1>1, TypeParts DEF PushTypes
<1> QED BY <1>1, <1>2, TypeParts, TypeFrame

LEMMA PushGiveUpType == ASSUME TypeOK, PushGiveUp PROVE TypeOK'
<1>1. /\ UNCHANGED <<ringVars, stateVars, popVars>>
      /\ ppc' = "idle" /\ log_line' = log_line
      /\ refused' = refused \cup {log_line}
      /\ UNCHANGED <<submitted, published, delivered, lapped>>
  BY DEF PushGiveUp
<1>2. PushTypes'
  BY <1>1, TypeParts DEF PushTypes
<1>3. HistoryTypes'
  BY <1>1, TypeParts DEF PushTypes, HistoryTypes
<1> QED BY <1>1, <1>2, <1>3, TypeParts, TypeFrame

LEMMA PopGoToType ==
  ASSUME TypeOK, NEW step \in {"idle", "empty?", "running?", "copy", "free", "register",
                               "watermark", "reset", "true", "false"},
         PopGoTo(step)
  PROVE  TypeOK'
<1>1. /\ UNCHANGED <<ringVars, stateVars, pushVars, histVars>>
      /\ cpc' = step /\ out_log' = out_log
  BY DEF PopGoTo
<1>2. PopTypes'
  BY <1>1, TypeParts DEF PopTypes
<1> QED BY <1>1, <1>2, TypeParts, TypeFrame

LEMMA StepTypeOK == TypeOK /\ [Next]_vars => TypeOK'
<1> SUFFICES ASSUME TypeOK, [Next]_vars PROVE TypeOK'
  OBVIOUS
<1>0. RingTypes /\ FlagTypes /\ PushTypes /\ PopTypes /\ HistoryTypes
  BY TypeParts
<1>1. ASSUME NEW level \in Levels, PushCall(level) PROVE TypeOK'
  <2> DEFINE log == [log_id |-> submitted + 1, level |-> level]
  <2>1. /\ submitted < MaxLogs /\ submitted' = submitted + 1
        /\ \/ /\ ppc' = "full?" /\ log_line' = log /\ refused' = refused
           \/ /\ refused' = refused \cup {log} /\ ppc' = ppc /\ log_line' = log_line
        /\ UNCHANGED <<ringVars, stateVars, popVars, published, delivered, lapped>>
    BY <1>1 DEF PushCall
  <2>2. submitted' \in 0 .. MaxLogs /\ submitted' \in 1 .. MaxLogs
    BY <1>0, <2>1, BoundsAssumption DEF HistoryTypes
  <2>3. log \in LogEntry
    BY <2>1, <2>2 DEF LogEntry
  <2> HIDE DEF log
  <2>4. PushTypes'
    BY <1>0, <2>1, <2>3 DEF PushTypes
  <2>5. HistoryTypes'
    BY <1>0, <2>1, <2>2, <2>3 DEF HistoryTypes
  <2> QED BY <1>0, <2>1, <2>4, <2>5, TypeParts, TypeFrame
<1>2. CASE PushHasRoom
  BY <1>2, PushGoToType DEF PushHasRoom
<1>3. CASE PushOverflow
  BY <1>3, PushGoToType, PushGiveUpType DEF PushOverflow
<1>4. CASE PushSpinEnds
  BY <1>4, PushGoToType DEF PushSpinEnds
<1>5. CASE PushRecheck
  BY <1>5, PushGoToType, PushGiveUpType DEF PushRecheck
<1>6. CASE PushNotify
  BY <1>6, PushGoToType DEF PushNotify
<1>7. CASE PushWatermark
  <2>1. PushGoTo("trip") \/ PushGoTo("idle")
    BY <1>7 DEF PushWatermark
  <2> QED BY <2>1, PushGoToType
<1>8. CASE PushWrite
  <2>1. /\ ppc' = "publish" /\ log_line' = log_line
        /\ log_array' = [log_array EXCEPT ![head] = log_line]
        /\ UNCHANGED <<head, tail, allocated, is_running, overflow, stateVars, popVars, histVars>>
    BY <1>8 DEF PushWrite
  <2>2. PushTypes'
    BY <1>0, <2>1 DEF PushTypes
  <2>3. log_array' \in [Index -> LogEntry]
    BY <1>0, <2>1 DEF RingTypes, PushTypes
  <2>4. RingTypes'
    BY <1>0, <2>1, <2>3 DEF RingTypes
  <2> QED BY <1>0, <2>1, <2>2, <2>4, TypeParts, TypeFrame
<1>9. CASE PushPublish
  <2>1. /\ ppc' = "notify" /\ log_line' = log_line
        /\ head' = Wrap(head + 1) /\ published' = Append(published, log_line)
        /\ lapped' = IF head' = tail THEN TRUE ELSE lapped
        /\ UNCHANGED <<log_array, tail, allocated, is_running, overflow, stateVars, popVars,
                       submitted, delivered, refused>>
    BY <1>9 DEF PushPublish
  <2>2. head + 1 \in (1 - Capacity) .. (2 * Capacity - 1)
    BY <1>0, CapacityAssumption DEF RingTypes, Index
  <2>3. head' \in Index
    BY <2>1, <2>2, WrapValue
  <2>4. RingTypes'
    BY <1>0, <2>1, <2>3 DEF RingTypes
  <2>5. PushTypes'
    BY <1>0, <2>1 DEF PushTypes
  <2>6. published' \in Seq(LogEntry) /\ lapped' \in BOOLEAN
    <3>1. published \in Seq(LogEntry) /\ log_line \in LogEntry /\ lapped \in BOOLEAN
      BY <1>0, Zenon DEF PushTypes, HistoryTypes
    <3>2. published' \in Seq(LogEntry)
      BY <2>1, <3>1
    <3>3. lapped' \in BOOLEAN
      BY <2>1, <3>1
    <3> QED BY <3>2, <3>3
  <2>7. HistoryTypes'
    BY <1>0, <2>1, <2>6 DEF HistoryTypes
  <2> QED BY <1>0, <2>1, <2>4, <2>5, <2>7, TypeParts, TypeFrame
<1>10. CASE PushRegister
  BY <1>10, PushGoToType DEF PushRegister
<1>11. CASE PushTrip
  <2>1. /\ ppc' = "idle" /\ log_line' = log_line /\ high_watermark_tripped' = TRUE
        /\ UNCHANGED <<ringVars, popVars, histVars>>
    BY <1>11 DEF PushTrip
  <2>2. PushTypes' /\ FlagTypes'
    BY <1>0, <2>1 DEF PushTypes, FlagTypes
  <2> QED BY <1>0, <2>1, <2>2, TypeParts, TypeFrame
<1>12. CASE PopCall
  <2>1. PopGoTo("empty?") \/ PopGoTo("false")
    BY <1>12 DEF PopCall
  <2> QED BY <2>1, PopGoToType
<1>13. CASE PopIsEmpty
  <2>1. PopGoTo("running?") \/ PopGoTo("false")
    BY <1>13 DEF PopIsEmpty
  <2> QED BY <2>1, PopGoToType
<1>14. CASE PopRecheck
  <2>1. PopGoTo("copy") \/ PopGoTo("false")
    BY <1>14 DEF PopRecheck
  <2> QED BY <2>1, PopGoToType
<1>15. CASE PopWatermark
  <2>1. PopGoTo("reset") \/ PopGoTo("true")
    BY <1>15 DEF PopWatermark
  <2> QED BY <2>1, PopGoToType
<1>16. CASE PopReturn
  BY <1>16, PopGoToType DEF PopReturn
<1>17. CASE PopCopy
  <2>1. /\ cpc' = "free"
        /\ UNCHANGED <<ringVars, stateVars, pushVars, histVars>>
        /\ \E a, b \in {log_array[tail], log_line} :
             out_log' = [log_id |-> a.log_id, level |-> b.level]
    BY <1>17 DEF PopCopy
  <2>2. log_array[tail] \in LogEntry /\ log_line \in LogEntry
    BY <1>0 DEF RingTypes, PushTypes
  <2>3. \A a, b \in LogEntry : [log_id |-> a.log_id, level |-> b.level] \in LogEntry
    BY DEF LogEntry
  <2>4. out_log' \in LogEntry
    BY <2>1, <2>2, <2>3
  <2>5. PopTypes'
    BY <2>1, <2>4 DEF PopTypes
  <2> QED BY <1>0, <2>1, <2>5, TypeParts, TypeFrame
<1>18. CASE PopFree
  <2>1. /\ cpc' = "register" /\ out_log' = out_log
        /\ tail' = Wrap(tail + 1) /\ delivered' = Append(delivered, out_log)
        /\ UNCHANGED <<log_array, head, allocated, is_running, overflow, stateVars, pushVars,
                       submitted, published, refused, lapped>>
    BY <1>18 DEF PopFree
  <2>2. tail + 1 \in (1 - Capacity) .. (2 * Capacity - 1)
    BY <1>0, CapacityAssumption DEF RingTypes, Index
  <2>3. tail' \in Index
    BY <2>1, <2>2, WrapValue
  <2>4. RingTypes'
    BY <1>0, <2>1, <2>3 DEF RingTypes
  <2>5. PopTypes'
    BY <1>0, <2>1 DEF PopTypes
  <2>6. delivered' \in Seq(LogEntry)
    <3>1. delivered \in Seq(LogEntry) /\ out_log \in LogEntry
      BY <1>0, Zenon DEF PopTypes, HistoryTypes
    <3> QED BY <2>1, <3>1
  <2>7. HistoryTypes'
    BY <1>0, <2>1, <2>6 DEF HistoryTypes
  <2> QED BY <1>0, <2>1, <2>4, <2>5, <2>7, TypeParts, TypeFrame
<1>19. CASE PopRegister
  BY <1>19, PopGoToType DEF PopRegister
<1>20. CASE PopReset
  <2>1. /\ cpc' = "true" /\ out_log' = out_log /\ high_watermark_tripped' = FALSE
        /\ UNCHANGED <<ringVars, pushVars, histVars>>
    BY <1>20 DEF PopReset
  <2>2. PopTypes' /\ FlagTypes'
    BY <1>0, <2>1 DEF PopTypes, FlagTypes
  <2> QED BY <1>0, <2>1, <2>2, TypeParts, TypeFrame
<1>21. CASE SetFinished
  <2>1. /\ is_running' = FALSE
        /\ UNCHANGED <<log_array, head, tail, allocated, overflow, stateVars, pushVars,
                       popVars, histVars>>
    BY <1>21 DEF SetFinished
  <2>2. RingTypes'
    BY <1>0, <2>1 DEF RingTypes
  <2> QED BY <1>0, <2>1, <2>2, TypeParts, TypeFrame
<1>22. CASE UNCHANGED vars
  <2>1. UNCHANGED <<ringVars, stateVars, pushVars, popVars, histVars>>
    BY <1>22 DEF vars, ringVars, stateVars, pushVars, popVars, histVars
  <2> QED BY <1>0, <2>1, TypeParts, TypeFrame
<1> QED
  BY <1>1, <1>2, <1>3, <1>4, <1>5, <1>6, <1>7, <1>8, <1>9, <1>10, <1>11, <1>12, <1>13,
     <1>14, <1>15, <1>16, <1>17, <1>18, <1>19, <1>20, <1>21, <1>22 DEF Next, Push, Pop

(* The members of LogQueue (LogQueue.h:65-86) and the locals of push() and *)
(* pop() keep their types.                                                 *)
THEOREM TypeCorrect == Spec => []TypeOK
<1>1. QED BY InitTypeOK, StepTypeOK, PTL DEF Spec

-----------------------------------------------------------------------------
(* What the ring holds while no push has fallen through a full one: the    *)
(* cursors measure the distance between the two histories, the slots from  *)
(* tail on hold the published logs not yet delivered, and each thread's    *)
(* local view of the ring is still true when it acts on it.                *)
RingInv ==
  /\ Len(published) = Len(delivered) + Occupied
  /\ \A i \in 1..Len(delivered) : delivered[i] = published[i]
  /\ \A k \in 0..Occupied-1 : log_array[Wrap(tail + k)] = published[Len(delivered) + 1 + k]
  /\ ppc = "publish" => log_array[head] = log_line
  /\ cpc \in {"running?", "copy", "free"} => head # tail
  /\ cpc = "free" => out_log = log_array[tail]

(* Under DropAll the free slot push() has found cannot be taken from it.   *)
RoomInv ==
  overflow = "DropAll" =>
    /\ ~lapped
    /\ ppc # "spin"
    /\ ppc \in {"running?", "write", "publish"} => ~Full

IInv == TypeOK /\ RoomInv /\ (~lapped => RingInv)

(* The actions that move neither a cursor nor a slot and record no history *)
(* of the ring.                                                            *)
LEMMA Bookkeeping ==
  ASSUME TypeOK, RoomInv, ~lapped => RingInv,
         UNCHANGED <<log_array, head, tail, overflow, published, delivered, lapped>>,
         ppc' = "publish" => UNCHANGED <<ppc, log_line>>,
         ~lapped /\ cpc' \in {"running?", "copy", "free"} => head # tail,
         ~lapped /\ cpc' = "free" => out_log' = log_array[tail],
         ppc' \in {"spin", "running?", "write"} =>
           \/ UNCHANGED ppc
           \/ overflow # "DropAll"
           \/ ppc' # "spin" /\ ~Full
           \/ ppc' = "write" /\ ppc = "running?"
  PROVE  RoomInv' /\ (~lapped' => RingInv')
<1>1. Full' <=> Full
  BY DEF Full
<1>2. Occupied' = Occupied
  BY DEF Occupied
<1>3. RoomInv'
  BY <1>1 DEF RoomInv
<1>4. ASSUME ~lapped' PROVE RingInv'
  BY <1>2, <1>4 DEF RingInv
<1>5. QED BY <1>3, <1>4

(* push() stores the log in the slot at head, which holds nothing yet.     *)
LEMMA WriteStep ==
  ASSUME TypeOK, RoomInv, ~lapped => RingInv, PushWrite
  PROVE  RoomInv' /\ (~lapped' => RingInv')
<1>1. Full' <=> Full
  BY DEF Full, PushWrite, ringVars
<1>2. Occupied' = Occupied /\ Occupied \in 0 .. Capacity - 1
  BY Distance DEF Occupied, PushWrite, TypeOK
<1>3. RoomInv'
  BY <1>1 DEF RoomInv, PushWrite, histVars
<1>4. ASSUME ~lapped' PROVE RingInv'
  <2>1. RingInv
    BY <1>4 DEF PushWrite, histVars
  <2>2. \A k \in 0 .. Occupied - 1 : Wrap(tail + k) \in Index /\ Wrap(tail + k) # head
    <3>1. TAKE k \in 0 .. Occupied - 1
    <3>2. k \in 0 .. Capacity - 1 /\ k # Occupied
      BY <1>2, <3>1, CapacityAssumption
    <3>3. QED BY <3>2, Slots DEF TypeOK, Occupied
  <2>3. \A k \in 0 .. Occupied - 1 : log_array'[Wrap(tail + k)] = log_array[Wrap(tail + k)]
    BY <2>2 DEF PushWrite, TypeOK
  <2>4. log_array'[head] = log_line
    BY DEF PushWrite, TypeOK
  <2>5. cpc = "free" => log_array'[tail] = log_array[tail]
    BY <2>1 DEF PushWrite, TypeOK, RingInv
  <2>6. QED
    BY <1>2, <2>1, <2>3, <2>4, <2>5 DEF RingInv, PushWrite, histVars, popVars
<1>5. QED BY <1>3, <1>4

(* push() publishes the slot: one more log between tail and head.          *)
LEMMA PublishStep ==
  ASSUME TypeOK, RoomInv, ~lapped => RingInv, PushPublish
  PROVE  RoomInv' /\ (~lapped' => RingInv')
<1>1. lapped' = FALSE => ~Full /\ ~lapped
  BY DEF PushPublish, Full, TypeOK
<1>2. RoomInv'
  BY DEF RoomInv, PushPublish, Full
<1>3. ASSUME ~lapped' PROVE RingInv'
  <2>1. RingInv /\ ~Full
    BY <1>1, <1>3 DEF PushPublish, TypeOK
  <2>2. /\ Occupied \in 0 .. Capacity - 1
        /\ Occupied' = Occupied + 1
        /\ Wrap(tail + Occupied) = head
    BY <2>1, Distance, Slots DEF PushPublish, TypeOK, Occupied, Full
  <2>3. /\ Len(published') = Len(published) + 1
        /\ published'[Len(published) + 1] = log_line
        /\ \A i \in 1 .. Len(published) : published'[i] = published[i]
    BY DEF PushPublish, TypeOK
  <2>4. Len(delivered) \in Nat /\ Len(published) \in Nat
    BY DEF TypeOK
  <2>5. Len(published') = Len(delivered') + Occupied'
    BY <2>1, <2>2, <2>3, <2>4 DEF RingInv, PushPublish
  <2>6. \A i \in 1 .. Len(delivered') : delivered'[i] = published'[i]
    BY <2>1, <2>2, <2>3, <2>4 DEF RingInv, PushPublish
  <2>7. \A k \in 0 .. Occupied' - 1 :
          log_array'[Wrap(tail' + k)] = published'[Len(delivered') + 1 + k]
    <3>1. TAKE k \in 0 .. Occupied' - 1
    <3>2. CASE k = Occupied
      BY <2>1, <2>2, <2>3, <2>4, <3>2 DEF RingInv, PushPublish
    <3>3. CASE k \in 0 .. Occupied - 1
      <4>1. Len(delivered) + 1 + k \in 1 .. Len(published)
        BY <2>1, <2>2, <2>4, <3>3 DEF RingInv
      <4>2. QED BY <2>1, <2>3, <3>3, <4>1 DEF RingInv, PushPublish
    <3>4. QED BY <2>2, <3>1, <3>2, <3>3
  <2>8. head' # tail'
    BY <1>3 DEF PushPublish
  <2>9. QED
    BY <2>1, <2>5, <2>6, <2>7, <2>8 DEF RingInv, PushPublish, popVars
<1>4. QED BY <1>2, <1>3

(* pop() frees the oldest slot, whose log it has copied.                   *)
LEMMA FreeStep ==
  ASSUME TypeOK, RoomInv, ~lapped => RingInv, PopFree
  PROVE  RoomInv' /\ (~lapped' => RingInv')
<1>1. lapped' = lapped
  BY DEF PopFree
<1>2. ASSUME ~lapped
      PROVE  /\ head # tail
             /\ Occupied \in 1 .. Capacity - 1
             /\ Occupied' = Occupied - 1
             /\ tail' \in Index
             /\ ~Full'
  <2>1. head # tail
    BY <1>2 DEF RingInv, PopFree
  <2>2. tail' = Wrap(tail + 1) /\ head' = head /\ tail' \in Index
    <3>. tail + 1 \in (1 - Capacity) .. (2 * Capacity - 1)
      BY CapacityAssumption DEF Index, TypeOK
    <3>. QED BY WrapValue DEF PopFree
  <2>3. Occupied \in 1 .. Capacity - 1 /\ Occupied' = Occupied - 1
    BY <2>1, <2>2, Distance DEF Occupied, TypeOK
  <2>4. ~Full'
    BY <2>2, <2>3, Distance, CapacityAssumption DEF Full, Occupied, TypeOK
  <2>5. QED BY <2>1, <2>2, <2>3, <2>4
<1>3. RoomInv'
  BY <1>2 DEF RoomInv, PopFree, pushVars
<1>4. ASSUME ~lapped' PROVE RingInv'
  <2>1. RingInv /\ ~lapped
    BY <1>1, <1>4
  <2>2. Len(delivered) \in Nat /\ Len(published) \in Nat
    BY DEF TypeOK
  <2>3. Wrap(tail + 0) = tail
    <3>1. tail \in 0 .. Capacity - 1 /\ Capacity \in Nat
      BY CapacityAssumption DEF Index, TypeOK
    <3>2. tail + 0 \in (1 - Capacity) .. (2 * Capacity - 1) /\ tail + 0 = tail
      BY <3>1
    <3>. QED BY <3>1, <3>2, WrapValue
  <2>4. out_log = published[Len(delivered) + 1]
    <3>1. log_array[Wrap(tail + 0)] = published[Len(delivered) + 1 + 0]
      BY <1>2, <2>1 DEF RingInv
    <3>2. QED BY <2>1, <2>2, <2>3, <3>1 DEF RingInv, PopFree
  <2>5. /\ Len(delivered') = Len(delivered) + 1
        /\ delivered'[Len(delivered) + 1] = out_log
        /\ \A i \in 1 .. Len(delivered) : delivered'[i] = delivered[i]
    BY DEF PopFree, TypeOK
  <2>6. Len(published') = Len(delivered') + Occupied'
    BY <1>2, <2>1, <2>2, <2>5 DEF RingInv, PopFree
  <2>7. \A i \in 1 .. Len(delivered') : delivered'[i] = published'[i]
    BY <2>1, <2>2, <2>4, <2>5 DEF RingInv, PopFree
  <2>8. \A k \in 0 .. Occupied' - 1 :
          log_array'[Wrap(tail' + k)] = published'[Len(delivered') + 1 + k]
    <3>1. TAKE k \in 0 .. Occupied' - 1
    <3>2. k \in 0 .. Capacity - 1 /\ k < Capacity - 1 /\ k + 1 \in 0 .. Occupied - 1
      BY <1>2, <2>1, <3>1, CapacityAssumption
    <3>3. Wrap(tail' + k) = Wrap(tail + (k + 1))
      BY <3>2, Slots DEF PopFree, TypeOK
    <3>4. log_array[Wrap(tail + (k + 1))] = published[Len(delivered) + 1 + (k + 1)]
      BY <2>1, <3>2 DEF RingInv
    <3>5. Len(delivered') + 1 + k = Len(delivered) + 1 + (k + 1)
      BY <2>2, <2>5, <3>2
    <3>6. QED BY <3>3, <3>4, <3>5 DEF PopFree
  <2>9. QED
    BY <2>1, <2>6, <2>7, <2>8 DEF RingInv, PopFree, pushVars
<1>5. QED BY <1>3, <1>4

(* Init satisfies the invariant and every action preserves it.             *)
LEMMA InitIInv == Init => IInv
<1>. SUFFICES ASSUME Init PROVE IInv
  OBVIOUS
<1>1. TypeOK
  BY InitTypeOK
<1>2. RoomInv
  BY DEF Init, RoomInv
<1>3. Occupied = 0
  BY <1>1, Distance DEF Init, Occupied, TypeOK
<1>4. RingInv
  BY <1>3 DEF Init, RingInv
<1>5. QED BY <1>1, <1>2, <1>4 DEF IInv

LEMMA StepIInv == IInv /\ [Next]_vars => IInv'
<1>. SUFFICES ASSUME IInv, [Next]_vars PROVE IInv'
  OBVIOUS
<1>1. TypeOK'
  BY StepTypeOK DEF IInv
<1>2. TypeOK /\ RoomInv /\ (~lapped => RingInv)
  BY DEF IInv
<1>. SUFFICES RoomInv' /\ (~lapped' => RingInv')
  BY <1>1 DEF IInv
<1>3. ASSUME NEW level \in Levels, PushCall(level) PROVE RoomInv' /\ (~lapped' => RingInv')
  BY <1>2, <1>3, Bookkeeping DEF PushCall, ringVars, popVars, RingInv
<1>4. CASE PushWrite
  BY <1>2, <1>4, WriteStep
<1>5. CASE PushPublish
  BY <1>2, <1>5, PublishStep
<1>6. CASE PopFree
  BY <1>2, <1>6, FreeStep
<1>7. CASE PushHasRoom
  BY <1>2, <1>7, Bookkeeping
     DEF PushHasRoom, PushGoTo, ringVars, popVars, pushVars, histVars, RingInv
<1>8. CASE PushOverflow
  BY <1>2, <1>8, Bookkeeping
     DEF PushOverflow, PushGoTo, PushGiveUp, Droppable, ringVars, popVars, pushVars, histVars, RingInv
<1>9. CASE PushSpinEnds
  BY <1>2, <1>9, Bookkeeping
     DEF PushSpinEnds, PushGoTo, ringVars, popVars, pushVars, histVars, RingInv, RoomInv
<1>10. CASE PushRecheck
  BY <1>2, <1>10, Bookkeeping
     DEF PushRecheck, PushGoTo, PushGiveUp, ringVars, popVars, pushVars, histVars, RingInv
<1>11. CASE PushNotify
  BY <1>2, <1>11, Bookkeeping
     DEF PushNotify, PushGoTo, ringVars, popVars, pushVars, histVars, RingInv
<1>12. CASE PushRegister
  BY <1>2, <1>12, Bookkeeping
     DEF PushRegister, PushGoTo, ringVars, popVars, pushVars, histVars, RingInv
<1>13. CASE PushWatermark
  BY <1>2, <1>13, Bookkeeping
     DEF PushWatermark, PushGoTo, ringVars, popVars, pushVars, histVars, RingInv
<1>14. CASE PushTrip
  BY <1>2, <1>14, Bookkeeping
     DEF PushTrip, ringVars, popVars, pushVars, histVars, RingInv
<1>15. CASE PopCall
  BY <1>2, <1>15, Bookkeeping
     DEF PopCall, PopGoTo, ringVars, popVars, pushVars, histVars, RingInv
<1>16. CASE PopIsEmpty
  BY <1>2, <1>16, Bookkeeping
     DEF PopIsEmpty, PopGoTo, ringVars, popVars, pushVars, histVars, RingInv
<1>17. CASE PopRecheck
  BY <1>2, <1>17, Bookkeeping
     DEF PopRecheck, PopGoTo, ringVars, popVars, pushVars, histVars, RingInv
<1>18. CASE PopCopy
  <2>1. ASSUME ~lapped PROVE head # tail /\ out_log' = log_array[tail]
    <3>1. head # tail
      BY <1>2, <1>18, <2>1 DEF PopCopy, RingInv
    <3>2. log_array[tail] \in LogEntry
      BY <1>2 DEF TypeOK
    <3>3. out_log' = [log_id |-> log_array[tail].log_id, level |-> log_array[tail].level]
      BY <1>18, <3>1 DEF PopCopy
    <3>4. QED BY <3>1, <3>2, <3>3 DEF LogEntry
  <2>2. QED
    BY <1>2, <1>18, <2>1, Bookkeeping DEF PopCopy, ringVars, pushVars, histVars
<1>19. CASE PopRegister
  BY <1>2, <1>19, Bookkeeping
     DEF PopRegister, PopGoTo, ringVars, popVars, pushVars, histVars, RingInv
<1>20. CASE PopWatermark
  BY <1>2, <1>20, Bookkeeping
     DEF PopWatermark, PopGoTo, ringVars, popVars, pushVars, histVars, RingInv
<1>21. CASE PopReset
  BY <1>2, <1>21, Bookkeeping
     DEF PopReset, ringVars, popVars, pushVars, histVars, RingInv
<1>22. CASE PopReturn
  BY <1>2, <1>22, Bookkeeping
     DEF PopReturn, PopGoTo, ringVars, popVars, pushVars, histVars, RingInv
<1>23. CASE SetFinished
  BY <1>2, <1>23, Bookkeeping
     DEF SetFinished, ringVars, popVars, pushVars, histVars, RingInv
<1>24. CASE UNCHANGED vars
  BY <1>2, <1>24, Bookkeeping DEF vars, RingInv
<1>25. QED
  BY <1>3, <1>4, <1>5, <1>6, <1>7, <1>8, <1>9, <1>10, <1>11, <1>12, <1>13,
     <1>14, <1>15, <1>16, <1>17, <1>18, <1>19, <1>20, <1>21, <1>22, <1>23, <1>24 DEF Next, Push, Pop

THEOREM InductiveInvariant == Spec => []IInv
<1>1. QED BY InitIInv, StepIInv, PTL DEF Spec

(* While no push has fallen through a full ring, the worker has received   *)
(* exactly the oldest of the published logs, in order, and log_array holds *)
(* the rest (LogQueue.cpp:73-75, 104-113).                                 *)
THEOREM NothingIsLost == Spec => []FifoUntilLapped
<1>1. IInv => FifoUntilLapped
  <2>. SUFFICES ASSUME IInv, ~lapped PROVE published = delivered \o Contents
    BY DEF FifoUntilLapped
  <2>1. TypeOK /\ RingInv
    BY DEF IInv
  <2>2. Occupied \in 0 .. Capacity - 1
    BY <2>1, Distance DEF Occupied, TypeOK
  <2>3. \A k \in 1 .. Occupied : log_array[Wrap(tail + k - 1)] \in LogEntry
    <3>1. TAKE k \in 1 .. Occupied
    <3>2. k - 1 \in 0 .. Capacity - 1 /\ tail + k - 1 = tail + (k - 1)
      BY <2>1, <2>2, <3>1, CapacityAssumption DEF TypeOK, Index
    <3>3. Wrap(tail + k - 1) \in Index
      BY <2>1, <3>2, Slots DEF TypeOK
    <3>4. QED BY <2>1, <3>3 DEF TypeOK
  <2>4. Contents \in Seq(LogEntry) /\ Len(Contents) = Occupied
    BY <2>2, <2>3 DEF Contents
  <2>5. /\ delivered \o Contents \in Seq(LogEntry)
        /\ Len(delivered \o Contents) = Len(delivered) + Occupied
    <3>1. delivered \in Seq(LogEntry)
      BY <2>1 DEF TypeOK
    <3> HIDE DEF Contents
    <3> QED BY <2>4, <3>1
  <2>6. \A i \in 1 .. Len(published) : (delivered \o Contents)[i] = published[i]
    <3>1. TAKE i \in 1 .. Len(published)
    <3>2. Len(published) = Len(delivered) + Occupied /\ Len(delivered) \in Nat
      BY <2>1 DEF RingInv, TypeOK
    <3>3. CASE i <= Len(delivered)
      BY <2>1, <2>4, <3>1, <3>2, <3>3 DEF RingInv, TypeOK
    <3>4. CASE i > Len(delivered)
      <4>. DEFINE k == i - Len(delivered)
      <4>1. k \in 1 .. Occupied /\ k - 1 \in 0 .. Occupied - 1
        BY <2>2, <3>1, <3>2, <3>4
      <4>2. (delivered \o Contents)[i] = Contents[k]
        BY <2>1, <2>4, <3>1, <3>2, <3>4 DEF TypeOK
      <4>3. Contents[k] = log_array[Wrap(tail + k - 1)]
        BY <4>1 DEF Contents
      <4>4. tail + k - 1 = tail + (k - 1) /\ Len(delivered) + 1 + (k - 1) = i
        BY <2>1, <3>2, <4>1 DEF TypeOK, Index
      <4>5. log_array[Wrap(tail + (k - 1))] = published[Len(delivered) + 1 + (k - 1)]
        BY <2>1, <4>1 DEF RingInv
      <4>6. QED BY <4>2, <4>3, <4>4, <4>5
    <3>5. i <= Len(delivered) \/ i > Len(delivered)
      BY <2>2, <3>1, <3>2
    <3>6. QED BY Zenon, <3>3, <3>4, <3>5
  <2>7. published \in Seq(LogEntry) /\ Len(published) = Len(delivered) + Occupied
    BY <2>1 DEF RingInv, TypeOK
  <2>8. QED BY <2>5, <2>6, <2>7, SeqEqual
<1>2. QED BY InductiveInvariant, <1>1, PTL

(* push() and pop() never touch the same slot of log_array at the same     *)
(* time (LogQueue.cpp:73 and 111).                                         *)
THEOREM SlotsAreNotShared == Spec => []NoSlotRace
<1>1. IInv => NoSlotRace
  BY DEF IInv, RingInv, NoSlotRace
<1>2. QED BY InductiveInvariant, <1>1, PTL

(* Under DropAll head never catches up with tail (LogQueue.cpp:44-56, 75). *)
THEOREM DropAllIsLossless == Spec => []DropAllNeverLaps
<1>1. IInv => DropAllNeverLaps
  BY DEF IInv, RoomInv, DropAllNeverLaps
<1>2. QED BY InductiveInvariant, <1>1, PTL

-----------------------------------------------------------------------------
(* A queue without memory takes no log, so that its cursors never move.    *)
NullInv ==
  ~allocated => ppc = "idle" /\ head = tail /\ cpc \in {"idle", "empty?", "false"}

(* pop(), which does not test log_array, finds such a queue empty          *)
(* (LogQueue.cpp:14-17, 38, 106).                                          *)
THEOREM NullIsNotTouched == Spec => []NoUnallocatedAccess
<1>1. Init => NullInv
  BY DEF Init, NullInv
<1>2. NullInv /\ [Next]_vars => NullInv'
  <2> SUFFICES ASSUME NullInv, [Next]_vars, ~allocated' PROVE NullInv'
    BY DEF NullInv
  <2> USE DEF NullInv, ringVars, stateVars, pushVars, popVars, histVars
  <2>1. ~allocated
    BY DEF Next, Push, Pop, PushCall, PushHasRoom, PushOverflow, PushSpinEnds, PushRecheck,
           PushWrite, PushPublish, PushNotify, PushRegister, PushWatermark, PushTrip, PushGoTo,
           PushGiveUp, PopCall, PopIsEmpty, PopRecheck, PopCopy, PopFree, PopRegister,
           PopWatermark, PopReset, PopReturn, PopGoTo, SetFinished, vars
  <2>2. ASSUME NEW level \in Levels, PushCall(level) PROVE NullInv'
    BY <2>1, <2>2 DEF PushCall, Accepts
  <2>3. CASE PushHasRoom \/ PushOverflow \/ PushSpinEnds \/ PushRecheck \/ PushWrite \/ PushPublish
             \/ PushNotify \/ PushRegister \/ PushWatermark \/ PushTrip
    BY <2>1, <2>3 DEF PushHasRoom, PushOverflow, PushSpinEnds, PushRecheck, PushWrite,
                      PushPublish, PushNotify, PushRegister, PushWatermark, PushTrip
  <2>4. CASE Pop
    BY <2>1, <2>4 DEF Pop, PopCall, PopIsEmpty, PopRecheck, PopCopy, PopFree, PopRegister,
                      PopWatermark, PopReset, PopReturn, PopGoTo
  <2>5. CASE SetFinished
    BY <2>1, <2>5 DEF SetFinished
  <2>6. CASE UNCHANGED vars
    BY <2>1, <2>6 DEF vars
  <2> QED BY <2>2, <2>3, <2>4, <2>5, <2>6 DEF Next, Push
<1>3. NullInv => NoUnallocatedAccess
  BY DEF NullInv, NoUnallocatedAccess
<1> QED BY <1>1, <1>2, <1>3, PTL DEF Spec

(* While the queue runs a log is turned away by its profile only           *)
(* (LogQueue.cpp:44-70).                                                   *)
THEOREM RefusalsAreJustified == Spec => []RefusalsJustified
<1>1. Init => RefusalsJustified
  BY DEF Init, RefusalsJustified
<1>2. RefusalsJustified /\ [Next]_vars => RefusalsJustified'
  <2> SUFFICES ASSUME RefusalsJustified, [Next]_vars PROVE RefusalsJustified'
    OBVIOUS
  <2> USE DEF RefusalsJustified, ringVars, stateVars, pushVars, popVars, histVars
  <2>1. ASSUME NEW level \in Levels, PushCall(level) PROVE RefusalsJustified'
    BY <2>1 DEF PushCall, Accepts
  <2>2. CASE PushOverflow
    BY <2>2 DEF PushOverflow, Droppable, PushGoTo, PushGiveUp
  <2>3. CASE PushRecheck
    BY <2>3 DEF PushRecheck, PushGoTo, PushGiveUp
  <2>4. CASE PushHasRoom \/ PushSpinEnds \/ PushWrite \/ PushPublish \/ PushNotify
             \/ PushRegister \/ PushWatermark \/ PushTrip
    BY <2>4 DEF PushHasRoom, PushSpinEnds, PushWrite, PushPublish, PushNotify, PushRegister,
                PushWatermark, PushTrip, PushGoTo
  <2>5. CASE Pop
    BY <2>5 DEF Pop, PopCall, PopIsEmpty, PopRecheck, PopCopy, PopFree, PopRegister,
                PopWatermark, PopReset, PopReturn, PopGoTo
  <2>6. CASE SetFinished
    BY <2>6 DEF SetFinished
  <2>7. CASE UNCHANGED vars
    BY <2>7 DEF vars
  <2> QED BY <2>1, <2>2, <2>3, <2>4, <2>5, <2>6, <2>7 DEF Next, Push
<1> QED BY <1>1, <1>2, PTL DEF Spec

-----------------------------------------------------------------------------
(* The ring under DropAll implements the bounded FIFO: what the ring holds *)
(* is what has been published and not delivered.                           *)
DropAllInv == IInv /\ overflow = "DropAll"

Pending ==
  /\ Contents \in Seq(LogEntry) /\ Len(Contents) = Len(published) - Len(delivered)
  /\ \A k \in 1 .. Len(Contents) : Contents[k] = published[Len(delivered) + k]

LEMMA ContentsOfRing ==
  ASSUME TypeOK, RingInv
  PROVE  /\ Occupied \in 0 .. Capacity - 1 /\ Len(Contents) = Occupied
         /\ Pending
<1>1. Occupied \in 0 .. Capacity - 1
  BY Distance DEF Occupied, TypeOK
<1>2. \A k \in 1 .. Occupied :
        /\ log_array[Wrap(tail + k - 1)] \in LogEntry
        /\ log_array[Wrap(tail + k - 1)] = published[Len(delivered) + k]
  <2>1. TAKE k \in 1 .. Occupied
  <2>2. /\ k - 1 \in 0 .. Capacity - 1 /\ k - 1 \in 0 .. Occupied - 1
        /\ tail + k - 1 = tail + (k - 1) /\ Len(delivered) + 1 + (k - 1) = Len(delivered) + k
    BY <1>1, <2>1, CapacityAssumption DEF TypeOK, Index
  <2>3. Wrap(tail + k - 1) \in Index
    BY <2>2, Slots DEF TypeOK
  <2>4. log_array[Wrap(tail + (k - 1))] = published[Len(delivered) + 1 + (k - 1)]
    BY <2>2 DEF RingInv
  <2> QED BY <2>2, <2>3, <2>4 DEF TypeOK
<1>3. Contents \in Seq(LogEntry) /\ Len(Contents) = Occupied
  BY <1>1, <1>2 DEF Contents
<1>4. Len(published) - Len(delivered) = Occupied
  BY <1>1 DEF TypeOK, RingInv
<1> QED BY <1>1, <1>2, <1>3, <1>4 DEF Contents, Pending

LEMMA PendingHolds == DropAllInv => TypeOK /\ RingInv /\ Pending
  BY ContentsOfRing DEF DropAllInv, IInv, RoomInv

LEMMA PendingNext == DropAllInv' => TypeOK' /\ RingInv' /\ Pending'
  BY PendingHolds, PTL

(* A step that adds to neither history leaves the queue as it is.          *)
LEMMA SameContents ==
  ASSUME DropAllInv, DropAllInv', UNCHANGED <<published, delivered>>
  PROVE  Contents' = Contents
<1>1. Pending /\ Pending'
  BY PendingHolds, PendingNext
<1>2. /\ Contents' \in Seq(LogEntry) /\ Contents \in Seq(LogEntry)
      /\ Len(Contents') = Len(Contents)
      /\ \A k \in 1 .. Len(Contents) : Contents'[k] = Contents[k]
  BY <1>1 DEF Pending
<1> QED BY <1>2, SeqEqual

LEMMA Shift ==
  ASSUME NEW m \in Nat, NEW n \in Nat, NEW l \in Nat, l = m - n,
         NEW k \in 1 .. l + 1, k # l + 1
  PROVE  k \in 1 .. l /\ n + k \in 1 .. m
OBVIOUS

(* One log more published, or one more delivered.                          *)
Extended(s, last, t) == t = Append(s, last)

(* The sequence c is what p holds behind its first n elements.             *)
Behind(c, p, n) == Len(c) = Len(p) - n /\ \A k \in 1 .. Len(c) : c[k] = p[n + k]

LEMMA OneMore ==
  ASSUME NEW S, NEW p \in Seq(S), NEW p1 \in Seq(S), NEW n \in Nat, NEW x \in S,
         NEW c \in Seq(S), NEW c1 \in Seq(S),
         Extended(p, x, p1), Behind(c, p, n), Behind(c1, p1, n)
  PROVE  Extended(c, x, c1)
<1> USE DEF Behind
<1>1. /\ Len(p1) = Len(p) + 1 /\ p1[Len(p) + 1] = x
      /\ \A i \in 1 .. Len(p) : p1[i] = p[i]
  BY AppendProperties DEF Extended
<1>2. PICK a \in Seq(S) : /\ a = Append(c, x)
                          /\ Len(a) = Len(c) + 1 /\ a[Len(c) + 1] = x
                          /\ \A i \in 1 .. Len(c) : a[i] = c[i]
  <2>1. /\ Append(c, x) \in Seq(S) /\ Len(Append(c, x)) = Len(c) + 1
        /\ Append(c, x)[Len(c) + 1] = x
        /\ \A i \in 1 .. Len(c) : Append(c, x)[i] = c[i]
    BY AppendProperties
  <2> QED BY Zenon, <2>1
<1>3. PICK m \in Nat, l \in Nat :
        m = Len(p) /\ l = Len(c) /\ l = m - n /\ Len(c1) = l + 1
  <2>1. Len(p) \in Nat /\ Len(c) \in Nat
    BY Zenon, LenProperties
  <2>2. Len(c1) = Len(c) + 1
    BY <1>1, <2>1
  <2> QED BY Zenon, <2>1, <2>2
<1>4. ASSUME NEW k \in 1 .. Len(c1) PROVE c1[k] = a[k]
  <2>0. k \in 1 .. l + 1
    BY Zenon, <1>3
  <2>1. c1[k] = p1[n + k]
    BY Zenon, <1>3
  <2>2. CASE k = l + 1
    <3>1. n + k = m + 1
      BY <1>3, <2>2
    <3> QED BY Zenon, <1>1, <1>2, <1>3, <2>1, <2>2, <3>1
  <2>3. CASE k # l + 1
    <3>1. k \in 1 .. l /\ n + k \in 1 .. m
      BY Zenon, <1>3, <2>0, <2>3, Shift
    <3> QED BY Zenon, <1>1, <1>2, <1>3, <2>1, <3>1
  <2> QED BY Zenon, <2>2, <2>3
<1>5. c1 = a
  <2>1. Len(c1) = Len(a)
    BY Zenon, <1>2, <1>3
  <2> QED BY Zenon, <1>4, <2>1, SeqEqual
<1> QED BY Zenon, <1>2, <1>5 DEF Extended

Splits(s, first, rest) == s # << >> /\ rest = Tail(s) /\ first = Head(s)

LEMMA OneLess ==
  ASSUME NEW S, NEW p \in Seq(S), NEW n \in Nat, NEW c \in Seq(S), NEW c1 \in Seq(S),
         Len(c) = Len(p) - n, Len(c1) = Len(p) - (n + 1),
         \A k \in 1 .. Len(c) : c[k] = p[n + k],
         \A k \in 1 .. Len(c1) : c1[k] = p[(n + 1) + k]
  PROVE  Splits(c, p[n + 1], c1)
<1>1. Len(p) \in Nat /\ Len(c) \in Nat /\ Len(c1) \in Nat
  BY Zenon, LenProperties
<1>2. PICK l \in Nat : l = Len(c1) /\ Len(c) = l + 1
  <2>1. Len(c) = Len(c1) + 1
    BY <1>1
  <2> QED BY Zenon, <1>1, <2>1
<1>3. c # << >>
  BY <1>2, EmptySeq
<1>4. PICK t \in Seq(S) : /\ t = Tail(c) /\ Len(t) = Len(c) - 1
                          /\ \A i \in 1 .. Len(t) : t[i] = c[i + 1]
  <2>1. /\ Tail(c) \in Seq(S) /\ Len(Tail(c)) = Len(c) - 1
        /\ \A i \in 1 .. Len(Tail(c)) : Tail(c)[i] = c[i + 1]
    BY <1>3, HeadTailProperties
  <2> QED BY Zenon, <2>1
<1>5. p[n + 1] = Head(c)
  <2>1. Head(c) = c[1]
    BY ONLY <1>3, c \in Seq(S)
  <2>2. 1 \in 1 .. Len(c)
    BY <1>2
  <2> QED BY Zenon, <2>1, <2>2
<1>6. Len(t) = l
  BY <1>2, <1>4
<1>7. ASSUME NEW k \in 1 .. Len(c1) PROVE c1[k] = t[k]
  <2>1. k \in 1 .. l
    BY Zenon, <1>2
  <2>2. k + 1 \in 1 .. l + 1 /\ (n + 1) + k = n + (k + 1)
    BY <2>1
  <2>3. c1[k] = p[n + (k + 1)] /\ t[k] = c[k + 1] /\ c[k + 1] = p[n + (k + 1)]
    BY Zenon, <1>2, <1>4, <1>6, <2>1, <2>2
  <2> QED BY Zenon, <2>3
<1>8. c1 = t
  BY Zenon, <1>2, <1>6, <1>7, SeqEqual
<1> QED BY Zenon, <1>3, <1>4, <1>5, <1>8 DEF Splits

LEMMA OfferStep ==
  ASSUME DropAllInv, DropAllInv', PushPublish PROVE Fifo!Offer(log_line)
<1>1. TypeOK /\ RingInv /\ Pending /\ Pending' /\ ~Full
  BY PendingHolds, PendingNext DEF DropAllInv, RoomInv, IInv, PushPublish
<1>2. Contents' = Append(Contents, log_line)
  <2>1. /\ published \in Seq(LogEntry) /\ delivered \in Seq(LogEntry) /\ log_line \in LogEntry
        /\ published' = Append(published, log_line) /\ delivered' = delivered
    BY <1>1 DEF TypeOK, PushPublish
  <2>2. published' \in Seq(LogEntry) /\ Len(delivered) \in Nat
    BY <2>1
  <2>3. /\ published \in Seq(LogEntry) /\ published' \in Seq(LogEntry)
        /\ Len(delivered) \in Nat /\ log_line \in LogEntry
        /\ Extended(published, log_line, published')
        /\ Contents \in Seq(LogEntry) /\ Contents' \in Seq(LogEntry)
        /\ Behind(Contents, published, Len(delivered))
        /\ Behind(Contents', published', Len(delivered))
    BY Zenon, <1>1, <2>1, <2>2 DEF Pending, Extended, Behind
  <2>4. Extended(Contents, log_line, Contents')
    BY Zenon, <2>3, OneMore
  <2> QED BY Zenon, <2>4 DEF Extended
<1>3. Len(Contents) < Capacity - 1
  <2>1. Len(Contents) = Occupied /\ Occupied \in 0 .. Capacity - 1
    BY <1>1, ContentsOfRing
  <2>2. head + 1 \in (1 - Capacity) .. (2 * Capacity - 1) /\ head \in Index /\ tail \in Index
    BY <1>1, CapacityAssumption DEF TypeOK, Index
  <2>3. Wrap(Wrap(head + 1) - tail) = Occupied + 1 /\ Wrap(head + 1) \in Index
    BY <1>1, <2>2, Distance, WrapValue DEF Full, Occupied
  <2>4. Occupied + 1 \in 0 .. Capacity - 1
    BY <2>2, <2>3, Distance
  <2> QED BY <2>1, <2>4, CapacityAssumption
<1>4. /\ UNCHANGED <<delivered, refused>>
      /\ (allocated /\ is_running)' = (allocated /\ is_running)
  BY DEF PushPublish
<1> QED BY <1>2, <1>3, <1>4 DEF Fifo!Offer

LEMMA TakeStep ==
  ASSUME DropAllInv, DropAllInv', PopFree PROVE Fifo!Take
<1>1. TypeOK /\ RingInv /\ RingInv' /\ Pending /\ Pending'
  BY PendingHolds, PendingNext
<1>2. /\ published \in Seq(LogEntry) /\ delivered \in Seq(LogEntry) /\ out_log \in LogEntry
      /\ published' = published /\ delivered' = Append(delivered, out_log)
  BY <1>1 DEF TypeOK, PopFree
<1>3. published[Len(delivered) + 1] = out_log
  <2>1. Len(delivered) + 1 \in 1 .. Len(delivered') /\ delivered'[Len(delivered) + 1] = out_log
    BY <1>2, AppendProperties
  <2>2. delivered'[Len(delivered) + 1] = published'[Len(delivered) + 1]
    BY Zenon, <1>1, <2>1 DEF RingInv
  <2> QED BY Zenon, <1>2, <2>1, <2>2
<1>4. Contents # << >> /\ Contents' = Tail(Contents) /\ out_log = Head(Contents)
  <2>1. Len(delivered) \in Nat /\ Len(delivered') = Len(delivered) + 1
    BY <1>2, AppendProperties
  <2>2. /\ published \in Seq(LogEntry) /\ Len(delivered) \in Nat
        /\ Contents \in Seq(LogEntry) /\ Contents' \in Seq(LogEntry)
        /\ Len(Contents) = Len(published) - Len(delivered)
        /\ Len(Contents') = Len(published) - (Len(delivered) + 1)
        /\ \A k \in 1 .. Len(Contents) : Contents[k] = published[Len(delivered) + k]
        /\ \A k \in 1 .. Len(Contents') : Contents'[k] = published[(Len(delivered) + 1) + k]
    BY Zenon, <1>1, <1>2, <2>1 DEF Pending
  <2>3. Splits(Contents, published[Len(delivered) + 1], Contents')
    BY Zenon, <2>2, OneLess
  <2> QED BY Zenon, <1>3, <2>3 DEF Splits
<1>5. refused' = refused /\ (allocated /\ is_running)' = (allocated /\ is_running)
  BY DEF PopFree
<1> QED BY <1>2, <1>4, <1>5 DEF Fifo!Take

(* A log is refused by a full ring or by a queue that is not open.         *)
LEMMA RefuseStep ==
  ASSUME DropAllInv, DropAllInv', NEW log \in LogEntry,
         refused' = refused \cup {log},
         UNCHANGED <<published, delivered, allocated, is_running>>,
         Full \/ ~(allocated /\ is_running)
  PROVE  Fifo!Refuse(log)
<1>1. Contents' = Contents
  BY SameContents
<1>2. Full => Len(Contents) = Capacity - 1
  <2>1. TypeOK /\ RingInv
    BY DEF DropAllInv, IInv, RoomInv
  <2> QED BY <2>1, ContentsOfRing, Distance DEF Full, Occupied, TypeOK
<1> QED BY <1>1, <1>2 DEF Fifo!Refuse

(* The other steps: bookkeeping of push() and pop().                       *)
LEMMA StutterStep ==
  ASSUME DropAllInv, DropAllInv',
         UNCHANGED <<published, delivered, refused, allocated, is_running>>
  PROVE  UNCHANGED Fifo!vars
<1>1. Contents' = Contents
  BY SameContents
<1> QED BY <1>1 DEF Fifo!vars

LEMMA FifoStep ==
  ASSUME DropAllInv, DropAllInv', [Next]_vars PROVE [Fifo!Next]_(Fifo!vars)
<1> USE DEF ringVars, stateVars, pushVars, popVars, histVars
<1>1. ASSUME NEW level \in Levels, PushCall(level) PROVE [Fifo!Next]_(Fifo!vars)
  <2> DEFINE log == [log_id |-> submitted + 1, level |-> level]
  <2>1. log \in LogEntry
    BY <1>1, BoundsAssumption DEF PushCall, LogEntry, DropAllInv, IInv, TypeOK
  <2>2. UNCHANGED <<published, delivered, allocated, is_running>>
    BY <1>1 DEF PushCall
  <2>3. \/ refused' = refused
        \/ refused' = refused \cup {log} /\ ~(allocated /\ is_running)
    BY <1>1 DEF PushCall, Accepts
  <2>4. CASE refused' = refused
    BY <2>2, <2>4, StutterStep
  <2>5. CASE refused' = refused \cup {log} /\ ~(allocated /\ is_running)
    BY <2>1, <2>2, <2>5, RefuseStep DEF Fifo!Next
  <2> QED BY <2>3, <2>4, <2>5
<1>2. CASE PushOverflow
  <2>1. \/ UNCHANGED <<published, delivered, refused, allocated, is_running>>
        \/ /\ Full /\ refused' = refused \cup {log_line}
           /\ UNCHANGED <<published, delivered, allocated, is_running>>
    BY <1>2 DEF PushOverflow, PushGiveUp, PushGoTo
  <2>2. log_line \in LogEntry
    BY DEF DropAllInv, IInv, TypeOK
  <2> QED BY <2>1, <2>2, StutterStep, RefuseStep DEF Fifo!Next
<1>3. CASE PushRecheck
  <2>1. \/ UNCHANGED <<published, delivered, refused, allocated, is_running>>
        \/ /\ ~is_running /\ refused' = refused \cup {log_line}
           /\ UNCHANGED <<published, delivered, allocated, is_running>>
    BY <1>3 DEF PushRecheck, PushGiveUp, PushGoTo
  <2>2. log_line \in LogEntry
    BY DEF DropAllInv, IInv, TypeOK
  <2> QED BY <2>1, <2>2, StutterStep, RefuseStep DEF Fifo!Next
<1>4. CASE PushPublish
  <2>1. log_line \in LogEntry
    BY DEF DropAllInv, IInv, TypeOK
  <2> QED BY <1>4, <2>1, OfferStep DEF Fifo!Next
<1>5. CASE PopFree
  BY <1>5, TakeStep DEF Fifo!Next
<1>6. CASE SetFinished
  <2>1. /\ UNCHANGED <<published, delivered, refused>>
        /\ (allocated /\ is_running)' = FALSE
    BY <1>6 DEF SetFinished
  <2> QED BY <2>1, SameContents DEF Fifo!Next, Fifo!Close
<1>7. CASE PushHasRoom \/ PushSpinEnds \/ PushWrite \/ PushNotify \/ PushRegister
           \/ PushWatermark \/ PushTrip
  <2>1. UNCHANGED <<published, delivered, refused, allocated, is_running>>
    BY <1>7 DEF PushHasRoom, PushSpinEnds, PushWrite, PushNotify, PushRegister, PushWatermark,
                PushTrip, PushGoTo
  <2> QED BY <2>1, StutterStep
<1>8. CASE PopCall \/ PopIsEmpty \/ PopRecheck \/ PopCopy \/ PopRegister \/ PopWatermark
           \/ PopReset \/ PopReturn
  <2>1. UNCHANGED <<published, delivered, refused, allocated, is_running>>
    BY <1>8 DEF PopCall, PopIsEmpty, PopRecheck, PopCopy, PopRegister, PopWatermark, PopReset,
                PopReturn, PopGoTo
  <2> QED BY <2>1, StutterStep
<1>9. CASE UNCHANGED vars
  BY <1>9, StutterStep DEF vars
<1> QED BY <1>1, <1>2, <1>3, <1>4, <1>5, <1>6, <1>7, <1>8, <1>9 DEF Next, Push, Pop

LEMMA DropAllStep ==
  ASSUME Profiles = {"DropAll"}, DropAllInv, [Next]_vars PROVE DropAllInv'
<1>1. IInv'
  BY StepIInv DEF DropAllInv
<1>2. overflow' \in Profiles
  BY <1>1 DEF IInv, TypeOK
<1> QED BY <1>1, <1>2 DEF DropAllInv

(* With DropAll the only profile, every step of push(), pop() and          *)
(* set_finished() is a step of the bounded FIFO or none at all             *)
(* (LogQueue.cpp:36-130).                                                  *)
THEOREM RingIsFifo ==
  ASSUME Profiles = {"DropAll"} PROVE Spec => ImplementsFifo
<1>1. Init => DropAllInv /\ Fifo!Init
  <2> SUFFICES ASSUME Init PROVE DropAllInv /\ Fifo!Init
    OBVIOUS
  <2>1. DropAllInv
    BY InitIInv DEF Init, DropAllInv
  <2>2. Contents = << >>
    <3>1. TypeOK /\ RingInv
      BY <2>1 DEF DropAllInv, IInv, RoomInv
    <3>2. Occupied = 0
      BY <3>1, Distance DEF Init, Occupied, TypeOK
    <3>3. Contents \in Seq(LogEntry) /\ Len(Contents) = 0
      BY <3>1, <3>2, ContentsOfRing DEF Pending
    <3> QED BY <3>3, EmptySeq
  <2>3. delivered = << >> /\ refused = {} /\ (allocated /\ is_running) \in BOOLEAN
    BY DEF Init
  <2> QED BY <2>1, <2>2, <2>3 DEF Fifo!Init
<1>2. DropAllInv /\ [Next]_vars => DropAllInv'
  BY DropAllStep
<1>3. DropAllInv /\ DropAllInv' /\ [Next]_vars => [Fifo!Next]_(Fifo!vars)
  BY FifoStep
<1> QED BY <1>1, <1>2, <1>3, PTL DEF Spec, ImplementsFifo, Fifo!Spec

-----------------------------------------------------------------------------
(* pop() on its way to clear the flag has found the ring nearly full, and  *)
(* pushes can only fill it more.                                           *)
ResetInv == cpc = "reset" => Occupied + 1 >= Capacity - LowWatermark

LEMMA WatermarkStep ==
  ASSUME DropAllInv, PopWatermark, cpc' = "reset"
  PROVE  Occupied + 1 >= Capacity - LowWatermark
<1> DEFINE t == Wrap(tail - 1)
<1>1. head \in Index /\ tail \in Index
  BY DEF DropAllInv, IInv, TypeOK
<1>2. t \in Index /\ Wrap(t + 1) = tail
  <2>1. tail - 1 \in (1 - Capacity) .. (2 * Capacity - 1)
    BY <1>1, CapacityAssumption DEF Index
  <2>2. t = (IF tail = 0 THEN Capacity - 1 ELSE tail - 1) /\ t \in Index
    BY <1>1, <2>1, WrapValue, CapacityAssumption DEF Index
  <2>3. t + 1 \in (1 - Capacity) .. (2 * Capacity - 1)
    BY <2>2, CapacityAssumption DEF Index
  <2>4. Wrap(t + 1) = IF t + 1 < Capacity THEN t + 1 ELSE t + 1 - Capacity
    BY <2>2, <2>3, WrapValue, CapacityAssumption DEF Index
  <2> HIDE DEF t
  <2> QED BY <1>1, <2>2, <2>4, CapacityAssumption DEF Index
<1>3. Capacity - Wrap(head - t) <= LowWatermark
  BY DEF PopWatermark, PopGoTo
<1> HIDE DEF t
<1>4. Wrap(head - t) \in 0 .. Capacity - 1 /\ Wrap(head - t) # 0
  <2>1. Wrap(head - t) \in 0 .. Capacity - 1
    BY <1>1, <1>2, Distance
  <2>2. LowWatermark < Capacity
    BY CapacityAssumption DEF LowWatermark
  <2>3. LowWatermark \in Nat
    BY CapacityAssumption DEF LowWatermark
  <2> QED BY <1>3, <2>1, <2>2, <2>3, CapacityAssumption
<1>5. head # t
  BY <1>1, <1>2, <1>4, Distance
<1>6. Wrap(head - tail) = Wrap(head - t) - 1
  BY <1>1, <1>2, <1>5, Distance
<1>7. LowWatermark \in Nat
  BY CapacityAssumption DEF LowWatermark
<1> QED BY <1>3, <1>4, <1>6, <1>7, CapacityAssumption DEF Occupied

LEMMA ResetStep ==
  ASSUME DropAllInv, ResetInv, [Next]_vars PROVE ResetInv'
<1> SUFFICES ASSUME cpc' = "reset" PROVE Occupied' + 1 >= Capacity - LowWatermark
  BY DEF ResetInv, LowWatermark
<1>1. Occupied \in 0 .. Capacity - 1 /\ LowWatermark \in Nat /\ Capacity \in Nat
  BY Distance, CapacityAssumption DEF DropAllInv, IInv, TypeOK, Occupied, LowWatermark
<1>2. CASE PopWatermark
  <2>1. Occupied' = Occupied
    BY <1>2 DEF PopWatermark, PopGoTo, ringVars, Occupied
  <2> QED BY <1>2, <2>1, WatermarkStep
<1>3. CASE PushPublish
  <2>1. cpc = "reset" /\ ~Full
    BY <1>3 DEF PushPublish, popVars, DropAllInv, IInv, RoomInv
  <2>2. Occupied' = Occupied + 1
    BY <1>3, <2>1, Distance DEF PushPublish, Full, Occupied, DropAllInv, IInv, TypeOK
  <2> QED BY <1>1, <2>1, <2>2 DEF ResetInv
<1>4. ASSUME UNCHANGED <<head, tail>>, ~PopWatermark PROVE cpc = "reset" \/ ~[Next]_vars
  BY <1>4 DEF Next, Push, Pop, PushCall, PushHasRoom, PushOverflow, PushSpinEnds, PushRecheck,
              PushWrite, PushPublish, PushNotify, PushRegister, PushWatermark, PushTrip, PushGoTo,
              PushGiveUp, PopCall, PopIsEmpty, PopRecheck, PopCopy, PopFree, PopRegister,
              PopReset, PopReturn, PopGoTo, SetFinished, vars, popVars
<1>5. PushPublish \/ UNCHANGED <<head, tail>>
  BY DEF Next, Push, Pop, PushCall, PushHasRoom, PushOverflow, PushSpinEnds, PushRecheck,
         PushWrite, PushNotify, PushRegister, PushWatermark, PushTrip, PushGoTo,
         PushGiveUp, PopCall, PopIsEmpty, PopRecheck, PopCopy, PopFree, PopRegister,
         PopWatermark, PopReset, PopReturn, PopGoTo, SetFinished, vars, ringVars
<1>6. ASSUME ~PopWatermark, UNCHANGED <<head, tail>>
      PROVE  Occupied' + 1 >= Capacity - LowWatermark
  BY <1>4, <1>6 DEF ResetInv, Occupied
<1> QED BY <1>2, <1>3, <1>5, <1>6

(* Four fifths of a power of two are never a whole number of slots.        *)
LEMMA FiveDoesNotDivide == Capacity % 5 # 0
<1> DEFINE S == {k \in Nat : Pow2[k] % 5 # 0}
<1>1. 0 \in S
  BY Pow2Def
<1>2. ASSUME NEW k \in Nat, k \in S PROVE k + 1 \in S
  <2>1. \A n \in Nat : n % 5 # 0 => (2 * n) % 5 # 0
    OBVIOUS
  <2>2. Pow2[k] \in Nat /\ Pow2[k + 1] = 2 * Pow2[k] /\ k + 1 \in Nat
    BY Pow2Def
  <2> DEFINE p == Pow2[k]  p1 == Pow2[k + 1]
  <2>3. p % 5 # 0
    BY <1>2
  <2>4. p \in Nat /\ p1 = 2 * p
    BY <2>2
  <2> HIDE DEF p, p1
  <2>5. p1 % 5 # 0
    BY <2>1, <2>3, <2>4
  <2> QED BY <2>2, <2>5 DEF p1
<1>3. \A k \in Nat : k \in S
  <2> HIDE DEF S
  <2> QED BY <1>1, <1>2, SetInduction
<1> QED BY <1>3, PowerOfTwoAssumption

(* freed_slots <= LowWatermark holds of a ring that is nearly full, not of *)
(* one that has been drained, and no push between the load of head and the *)
(* exchange makes it otherwise.                                            *)
ClearedOnlyWhileHigh ==
  [][high_watermark_tripped /\ ~high_watermark_tripped' => Occupied >= HighWatermark]_vars

(* Each time the flag falls the ring is still above HighWatermark, so that *)
(* FlagFallsWhenStable fails whenever it falls (LogQueue.cpp:117-127).     *)
THEOREM FlagFallsWhileHigh ==
  ASSUME Profiles = {"DropAll"} PROVE Spec => ClearedOnlyWhileHigh
<1> DEFINE Falls == high_watermark_tripped /\ ~high_watermark_tripped' => Occupied >= HighWatermark
<1>1. Init => DropAllInv /\ ResetInv
  BY InitIInv DEF Init, DropAllInv, ResetInv
<1>2. DropAllInv /\ [Next]_vars => DropAllInv'
  BY DropAllStep
<1>3. DropAllInv /\ ResetInv /\ [Next]_vars => ResetInv'
  BY ResetStep
<1>4. DropAllInv /\ ResetInv /\ [Next]_vars => [Falls]_vars
  <2> SUFFICES ASSUME DropAllInv, ResetInv, Next,
                      high_watermark_tripped, ~high_watermark_tripped'
               PROVE  Occupied >= HighWatermark
    OBVIOUS
  <2>1. PopReset
    BY DEF Next, Push, Pop, PushCall, PushHasRoom, PushOverflow, PushSpinEnds, PushRecheck,
           PushWrite, PushPublish, PushNotify, PushRegister, PushWatermark, PushTrip, PushGoTo,
           PushGiveUp, PopCall, PopIsEmpty, PopRecheck, PopCopy, PopFree, PopRegister,
           PopWatermark, PopReturn, PopGoTo, SetFinished, stateVars
  <2>2. Occupied + 1 >= Capacity - LowWatermark
    BY <2>1 DEF PopReset, ResetInv
  <2>3. Occupied \in Nat
    BY Distance DEF DropAllInv, IInv, TypeOK, Occupied
  <2>4. Capacity - LowWatermark >= HighWatermark + 1
    BY FiveDoesNotDivide, CapacityAssumption DEF LowWatermark, HighWatermark
  <2>5. LowWatermark \in Nat /\ HighWatermark \in Nat
    BY CapacityAssumption DEF LowWatermark, HighWatermark
  <2> QED BY <2>2, <2>3, <2>4, <2>5, CapacityAssumption
<1> QED BY <1>1, <1>2, <1>3, <1>4, PTL DEF Spec, ClearedOnlyWhileHigh

----------------------------------------------------------------------------
(* The threads around the queue.                                           *)

(* To the queue a step of the threads is a step of its own, or none.       *)
LEMMA QueueStep == [TMNext]_allVars => [Next]_vars
<1>1. SessionPushes => Next
  BY DEF SessionPushes, Next, Push
<1>2. PushStep => Next
  BY DEF PushStep, NotifyWorker, Next, Push
<1>3. Worker => Next \/ UNCHANGED vars
  BY DEF Worker, WorkerCallsPop, WorkerInPop, PopReturns, WorkerIdles, WorkerLoadsHead,
         WorkerWaits, Next, Pop
<1>4. StopBegins \/ Stop => Next \/ UNCHANGED vars
  BY DEF StopBegins, Stop, StopJoinsNetwork, StopFinishes, StopTurnsOff, StopJoinsWorkers,
         StopJoinsSamplers, Next
<1>5. AcceptBegins \/ Connect \/ Leave \/ NetworkExits \/ SamplerExits => UNCHANGED vars
  BY DEF AcceptBegins, Connect, Leave, NetworkExits, SamplerExits
<1>6. UNCHANGED allVars => UNCHANGED vars
  BY DEF allVars
<1> QED BY <1>1, <1>2, <1>3, <1>4, <1>5, <1>6 DEF TMNext

(* Among its threads the queue behaves as LogQueue specifies, so that all  *)
(* LogQueueProof proves of it holds in ThreadManager as well: the worker   *)
(* and stop_threads() only choose which of its operations comes next       *)
(* (ThreadManager.cpp:97-128, 134-166).                                    *)
THEOREM ThreadsRunTheQueue == TMSpec => Spec /\ []FifoUntilLapped
<1>1. TMInit => Init
  BY DEF TMInit
<1>2. TMSpec => Spec
  BY <1>1, QueueStep, PTL DEF TMSpec, Spec
<1> QED BY <1>2, NothingIsLost, PTL

(* Hence the threads see a bounded FIFO, and a flag that falls while the   *)
(* ring is high (LogQueue.cpp:36-130).                                     *)
THEOREM ThreadsShareAFifo ==
  ASSUME Profiles = {"DropAll"}
  PROVE  TMSpec => ImplementsFifo /\ ClearedOnlyWhileHigh
<1>1. Spec => ImplementsFifo
  BY RingIsFifo
<1>2. Spec => ClearedOnlyWhileHigh
  BY FlagFallsWhileHigh
<1> QED BY <1>1, <1>2, ThreadsRunTheQueue, PTL

----------------------------------------------------------------------------
(* Which thread can be where, by the steps of stop_threads().              *)
Users ==
  /\ cpc # "idle" => wpc \in {"loop", "recheck", "drain"}
  /\ wpc = "drain" => ~is_running /\ cpc \in {"idle", "false"}
  /\ network \/ ppc = "idle"
  /\ spc \notin {"none", "join network"} => ~network
  /\ is_running <=> spc \in {"none", "join network", "finish"}
  /\ spc \in {"join samplers", "stopped"} => wpc = "exited"

(* On its way to sleep the worker has loaded a head that is not ahead of   *)
(* the ring's, and once pop() has found the ring empty, that head is tail. *)
Parking ==
  is_running /\ ~lapped =>
    /\ wpc = "recheck" /\ cpc \in {"idle", "empty?"} => Wrap(currenthead - tail) <= Occupied
    /\ wpc = "recheck" /\ cpc = "false" => currenthead = tail
    /\ wpc \in {"wait", "parked"} => currenthead = tail
    /\ wpc = "parked" => head = tail \/ ppc = "notify"

(* Where the worker goes on when pop() returns.                            *)
LEMMA Resumes ==
  ASSUME Users, TypeOK, PopReturns
  PROVE  /\ wpc = "loop"    => wpc' = (IF cpc = "true" THEN "loop" ELSE "running?")
         /\ wpc = "recheck" => wpc' = (IF cpc = "true" THEN "loop" ELSE "wait")
         /\ wpc = "drain"   => wpc' = "exited"
         /\ wpc \in {"loop", "recheck", "drain"} /\ cpc \in {"true", "false"}
         /\ cpc' = "idle"
<1>1. cpc \in {"true", "false"} /\ cpc' = "idle" /\ wpc' = Resume[wpc][cpc]
  BY DEF PopReturns, PopReturn, PopGoTo
<1>2. wpc \in {"loop", "recheck", "drain"}
  BY <1>1 DEF Users
<1>3. wpc = "drain" => cpc = "false"
  BY <1>1 DEF Users
<1> QED BY <1>1, <1>2, <1>3 DEF Resume

----------------------------------------------------------------------------
(* The locals of the worker and the members of ThreadManager.              *)
Locals ==
  /\ wpc \in {"loop", "running?", "load", "recheck", "wait", "parked", "drain", "exited"}
  /\ spincounter \in 0..SpinLimit /\ currenthead \in Index /\ clients \in 0..MaxClients
  /\ accepting \in BOOLEAN /\ network \in BOOLEAN /\ is_on \in BOOLEAN
  /\ accepting => clients < MaxClients
  /\ spc \in {"none", "join network", "finish", "turn off", "join workers",
              "join samplers", "stopped"}
  /\ samplers \subseteq {"time_thread", "telemetry_thread"}

(* The inductive invariant.                                                *)
TMInv == TypeOK /\ Locals /\ Users /\ Parking

LEMMA SessionsStep ==
  ASSUME TMInv, AcceptBegins \/ Connect \/ Leave
  PROVE  (Locals /\ Users /\ Parking)'
<1>1. /\ UNCHANGED <<wpc, spincounter, currenthead, network, is_on, spc, samplers>>
      /\ UNCHANGED <<head, tail, is_running, ppc, cpc, lapped>>
  BY DEF AcceptBegins, Connect, Leave, vars, workerVars, stopVars
<1>2. /\ clients' \in 0..MaxClients /\ accepting' \in BOOLEAN
      /\ accepting' => clients' < MaxClients
  <2>1. \/ accepting' = TRUE /\ clients < MaxClients /\ clients' = clients
        \/ accepting /\ accepting' = FALSE /\ clients' \in {clients, clients + 1}
        \/ accepting' = accepting /\ clients > 0 /\ clients' = clients - 1
    BY DEF AcceptBegins, Connect, Leave
  <2>2. /\ clients \in 0..MaxClients /\ accepting \in BOOLEAN
        /\ accepting => clients < MaxClients
    BY Zenon DEF TMInv, Locals
  <2>3. CASE accepting' = TRUE /\ clients < MaxClients /\ clients' = clients
    BY <2>2, <2>3
  <2>4. CASE accepting /\ accepting' = FALSE /\ clients' \in {clients, clients + 1}
    <3>1. clients < MaxClients /\ ~accepting' /\ accepting' \in BOOLEAN
      BY <2>2, <2>4, Zenon
    <3> QED BY <2>2, <2>4, <3>1, SpinAssumption
  <2>5. CASE accepting' = accepting /\ clients > 0 /\ clients' = clients - 1
    <3>1. clients' \in 0..MaxClients /\ (clients < MaxClients => clients' < MaxClients)
      BY <2>2, <2>5, SpinAssumption
    <3> QED BY <2>2, <2>5, <3>1, Zenon
  <2> QED BY <2>1, <2>3, <2>4, <2>5, Zenon
<1>3. Locals'
  BY <1>1, <1>2, Zenon DEF TMInv, Locals, Index
<1>4. Users'
  BY <1>1, Zenon DEF TMInv, Users
<1>5. Parking'
  BY <1>1, Zenon DEF TMInv, Parking, Occupied
<1> QED BY <1>3, <1>4, <1>5

LEMMA NetworkStep ==
  ASSUME TMInv, NetworkExits \/ SamplerExits
  PROVE  (Locals /\ Users /\ Parking)'
<1>1. /\ UNCHANGED <<wpc, spincounter, currenthead, is_on, spc, accepting, clients>>
      /\ UNCHANGED <<head, tail, is_running, ppc, cpc, lapped>>
      /\ samplers' \subseteq samplers
      /\ \/ UNCHANGED network
         \/ network' = FALSE /\ ~network' /\ ppc = "idle"
  BY DEF NetworkExits, SamplerExits, vars, workerVars, netVars, stopVars
<1>2. Locals'
  BY <1>1, Zenon DEF TMInv, Locals, Index
<1>3. Users'
  <2>1. CASE UNCHANGED network
    BY <1>1, <2>1, Zenon DEF TMInv, Users
  <2>2. CASE ~network' /\ ppc = "idle"
    BY <1>1, <2>2, Zenon DEF TMInv, Users
  <2> QED BY <1>1, <2>1, <2>2, Zenon
<1>4. Parking'
  BY <1>1, Zenon DEF TMInv, Parking, Occupied
<1> QED BY <1>2, <1>3, <1>4

(* push(), but for the store of head and for notify_one().                 *)
LEMMA QuietPushStep ==
  ASSUME TMInv, SessionPushes \/ (PushStep /\ ~PushPublish /\ ~PushNotify)
  PROVE  (Locals /\ Users /\ Parking)'
<1>1. /\ UNCHANGED tmVars
      /\ UNCHANGED <<head, tail, is_running, cpc, lapped>>
      /\ ppc # "notify"
      /\ SessionPushes => network
      /\ ~SessionPushes => ppc # "idle"
  <2>1. CASE SessionPushes
    BY <2>1 DEF SessionPushes, PushCall, ringVars, popVars, TMInv
  <2>2. CASE PushStep /\ ~PushPublish /\ ~PushNotify
    <3>1. /\ UNCHANGED tmVars
          /\ \/ PushHasRoom \/ PushOverflow \/ PushSpinEnds \/ PushRecheck \/ PushWrite
             \/ PushRegister \/ PushWatermark \/ PushTrip
      BY <2>2, Zenon DEF PushStep, NotifyWorker
    <3>2. /\ UNCHANGED <<head, tail, is_running, cpc, lapped>>
          /\ ppc # "notify" /\ ppc # "idle"
      BY <3>1 DEF PushHasRoom, PushOverflow, PushSpinEnds, PushRecheck, PushWrite,
              PushRegister, PushWatermark, PushTrip, PushGoTo, PushGiveUp,
              ringVars, popVars, histVars
    <3>3. ~SessionPushes
      BY <3>2 DEF SessionPushes, PushCall
    <3> QED BY <3>1, <3>2, <3>3
  <2> QED BY <2>1, <2>2
<1>2. UNCHANGED <<wpc, spincounter, currenthead, accepting, clients, network, spc, is_on, samplers>>
  BY <1>1 DEF tmVars
<1>4. Locals'
  BY <1>2, Zenon DEF TMInv, Locals, Index
<1>5. Users'
  BY <1>1, <1>2, Zenon DEF TMInv, Users
<1>6. Parking'
  BY <1>1, <1>2, Zenon DEF TMInv, Parking, Occupied
<1> QED BY <1>4, <1>5, <1>6

(* The store of head makes the loaded head fall behind.                    *)
LEMMA PublishesStep ==
  ASSUME TMInv, PushStep, PushPublish
  PROVE  (Locals /\ Users /\ Parking)'
<1>1. /\ ppc = "publish" /\ ppc' = "notify" /\ head' = Wrap(head + 1)
      /\ head' = tail => lapped'
      /\ lapped => lapped'
      /\ UNCHANGED <<tail, is_running, cpc>>
  BY DEF PushPublish, popVars
<1>2. UNCHANGED tmVars
  BY <1>1 DEF PushStep, NotifyWorker, PushNotify
<1>3. UNCHANGED <<wpc, spincounter, currenthead, accepting, clients, network, spc, is_on, samplers>>
  BY <1>2 DEF tmVars
<1>4. Locals'
  BY <1>3, Zenon DEF TMInv, Locals, Index
<1>5. Users'
  BY <1>1, <1>3, Zenon DEF TMInv, Users
<1>6. Parking'
  <2>1. ASSUME Wrap(head + 1) # tail, Wrap(currenthead - tail) <= Occupied
        PROVE  Wrap(currenthead - tail) <= Occupied'
    <3>1. head \in Index /\ tail \in Index /\ currenthead \in Index
      BY Zenon DEF TMInv, TypeOK, Locals
    <3>2. Occupied' = Occupied + 1
      BY <1>1, <2>1, <3>1, Distance DEF Occupied
    <3>3. Wrap(currenthead - tail) \in 0 .. Capacity - 1 /\ Occupied \in 0 .. Capacity - 1
      BY <3>1, Distance DEF Occupied
    <3> QED BY <2>1, <3>2, <3>3, CapacityAssumption
  <2> QED BY <1>1, <1>3, <2>1, Zenon DEF TMInv, Parking
<1> QED BY <1>4, <1>5, <1>6

(* notify_one() sends the worker back to its wait.                         *)
LEMMA NotifiesStep ==
  ASSUME TMInv, NotifyWorker
  PROVE  (Locals /\ Users /\ Parking)'
<1>1. /\ UNCHANGED <<spincounter, currenthead, is_on, spc, accepting, clients, network, samplers>>
      /\ UNCHANGED <<head, tail, is_running, cpc, lapped>>
      /\ ppc = "notify" /\ ppc' = "register"
      /\ wpc' = IF wpc = "parked" THEN "wait" ELSE wpc
  BY DEF NotifyWorker, PushNotify, PushGoTo, ringVars, popVars, histVars, netVars, stopVars
<1>2. Locals'
  BY <1>1, Zenon DEF TMInv, Locals, Index
<1>3. Users'
  BY <1>1, Zenon DEF TMInv, Users
<1>4. Parking'
  BY <1>1, Zenon DEF TMInv, Parking, Occupied
<1> QED BY <1>2, <1>3, <1>4

(* pop(), but for its return.  Only a queue that finishes, or an empty     *)
(* ring, makes it answer false, and only its caller moves tail.            *)
LEMMA PopStep ==
  ASSUME TMInv, WorkerCallsPop \/ WorkerInPop
  PROVE  (Locals /\ Users /\ Parking)'
<1>1. /\ UNCHANGED <<wpc, spincounter, currenthead, accepting, clients, network, spc, is_on, samplers>>
      /\ UNCHANGED <<head, is_running, ppc, lapped>>
      /\ wpc \in {"loop", "recheck", "drain"}
  <2>1. UNCHANGED tmVars
    BY DEF WorkerCallsPop, WorkerInPop
  <2>2. UNCHANGED <<head, is_running, ppc, lapped>>
    BY DEF WorkerCallsPop, WorkerInPop, PopCall, PopIsEmpty, PopRecheck, PopCopy, PopFree,
           PopRegister, PopWatermark, PopReset, PopGoTo, ringVars, pushVars, histVars
  <2>3. wpc \in {"loop", "recheck", "drain"}
    <3>1. CASE WorkerCallsPop
      BY <3>1 DEF WorkerCallsPop, Resume
    <3>2. CASE WorkerInPop
      <4>1. cpc # "idle"
        BY <3>2 DEF WorkerInPop, PopIsEmpty, PopRecheck, PopCopy, PopFree, PopRegister,
                    PopWatermark, PopReset
      <4> QED BY <4>1, Zenon DEF TMInv, Users
    <3> QED BY <3>1, <3>2
  <2> QED BY <2>1, <2>2, <2>3 DEF tmVars
<1>2. \/ cpc = "idle"   /\ UNCHANGED tail /\ is_running /\ cpc' = "empty?"
      \/ cpc = "idle"   /\ UNCHANGED tail /\ ~is_running /\ cpc' = "false"
      \/ cpc = "empty?" /\ UNCHANGED tail /\ (cpc' = "running?" \/ (cpc' = "false" /\ head = tail))
      \/ cpc = "running?" /\ (cpc' = "copy" \/ (cpc' = "false" /\ ~is_running))
      \/ /\ cpc \in {"copy", "free", "register", "watermark", "reset"}
         /\ cpc' \in {"free", "register", "watermark", "reset", "true"}
  <2>1. CASE WorkerCallsPop
    BY <2>1, Zenon DEF WorkerCallsPop, PopCall, PopGoTo, ringVars
  <2>2. CASE PopIsEmpty \/ PopRecheck
    BY <2>2 DEF PopIsEmpty, PopRecheck, PopGoTo, ringVars
  <2>3. CASE PopCopy \/ PopFree \/ PopRegister \/ PopWatermark \/ PopReset
    BY <2>3 DEF PopCopy, PopFree, PopRegister, PopWatermark, PopReset, PopGoTo
  <2> QED BY <2>1, <2>2, <2>3 DEF WorkerInPop
<1>3. Locals'
  BY <1>1, Zenon DEF TMInv, Locals, Index
<1>4. Users'
  <2>1. wpc = "drain" => ~is_running /\ cpc \in {"idle", "false"}
    BY Zenon DEF TMInv, Users
  <2>2. wpc = "drain" => cpc' = "false"
    BY <1>2, <2>1
  <2> QED BY <1>1, <2>1, <2>2, Zenon DEF TMInv, Users
<1>5. Parking'
  <2>1. head = tail => Occupied = 0
    BY Distance DEF TMInv, TypeOK, Occupied
  <2>2. Wrap(currenthead - tail) <= 0 => currenthead = tail
    <3>1. currenthead \in Index /\ tail \in Index
      BY Zenon DEF TMInv, TypeOK, Locals
    <3> QED BY <3>1, Distance, CapacityAssumption
  <2> QED BY <1>1, <1>2, <2>1, <2>2 DEF TMInv, Parking, Occupied
<1> QED BY <1>3, <1>4, <1>5

LEMMA PopReturnsStep ==
  ASSUME TMInv, PopReturns
  PROVE  (Locals /\ Users /\ Parking)'
<1>1. /\ UNCHANGED <<spincounter, currenthead, accepting, clients, network, spc, is_on, samplers>>
      /\ UNCHANGED <<head, tail, is_running, ppc, lapped>>
  BY DEF PopReturns, PopReturn, PopGoTo, ringVars, pushVars, histVars, netVars, stopVars
<1>2. /\ wpc = "loop"    => wpc' = (IF cpc = "true" THEN "loop" ELSE "running?")
      /\ wpc = "recheck" => wpc' = (IF cpc = "true" THEN "loop" ELSE "wait")
      /\ wpc = "drain"   => wpc' = "exited"
      /\ wpc \in {"loop", "recheck", "drain"} /\ cpc \in {"true", "false"}
      /\ cpc' = "idle"
  BY Resumes DEF TMInv
<1>3. wpc' \in {"loop", "running?", "wait", "exited"} /\ (wpc' = "wait" => wpc = "recheck" /\ cpc = "false")
  BY <1>2
<1>4. Locals'
  BY <1>1, <1>3, Zenon DEF TMInv, Locals, Index
<1>5. Users'
  <2>1. spc \in {"join samplers", "stopped"} => wpc = "exited"
    BY Zenon DEF TMInv, Users
  <2> QED BY <1>1, <1>2, <1>3, <2>1, Zenon DEF TMInv, Users
<1>6. Parking'
  <2>1. wpc' # "recheck" /\ wpc' # "parked"
    BY <1>3
  <2> QED BY <1>1, <1>3, <2>1, Zenon DEF TMInv, Parking
<1> QED BY <1>4, <1>5, <1>6

(* The worker between two calls of pop().                                  *)
LEMMA WorkerStep ==
  ASSUME TMInv, WorkerIdles \/ WorkerLoadsHead \/ WorkerWaits
  PROVE  (Locals /\ Users /\ Parking)'
<1>1. /\ UNCHANGED <<accepting, clients, network, spc, is_on, samplers>>
      /\ UNCHANGED <<head, tail, is_running, ppc, cpc, lapped>>
  BY DEF WorkerIdles, WorkerLoadsHead, WorkerWaits, vars, netVars, stopVars
<1>2. \/ /\ wpc = "running?" /\ currenthead' = currenthead
         /\ (wpc' = "drain" /\ ~is_running) \/ wpc' = "loop" \/ wpc' = "load"
      \/ wpc = "load" /\ wpc' = "recheck" /\ currenthead' = head
      \/ /\ wpc = "wait" /\ currenthead' = currenthead
         /\ (wpc' = "parked" /\ head = currenthead) \/ wpc' = "loop"
  BY Zenon DEF WorkerIdles, WorkerLoadsHead, WorkerWaits
<1>3. spincounter' \in 0..SpinLimit
  <2>1. spincounter' = spincounter \/ spincounter' = 0
        \/ (spincounter < SpinLimit /\ spincounter' = spincounter + 1)
    BY Zenon DEF WorkerIdles, WorkerLoadsHead, WorkerWaits, Patient
  <2>2. spincounter \in 0..SpinLimit
    BY Zenon DEF TMInv, Locals
  <2> QED BY <2>1, <2>2, SpinAssumption
<1>4. head \in Index
  BY Zenon DEF TMInv, TypeOK
<1>5. cpc = "idle"
  BY <1>2, Zenon DEF TMInv, Users
<1>6. Locals'
  BY <1>1, <1>2, <1>3, <1>4, Zenon DEF TMInv, Locals, Index
<1>7. Users'
  <2>1. spc \notin {"join samplers", "stopped"}
    BY <1>2, Zenon DEF TMInv, Users
  <2> QED BY <1>1, <1>2, <1>5, <2>1, Zenon DEF TMInv, Users
<1>8. Parking'
  <2>1. Wrap(head - tail) <= Occupied
    BY <1>4, Distance DEF TMInv, TypeOK, Occupied
  <2> QED BY <1>1, <1>2, <1>5, <2>1, Zenon DEF TMInv, Parking, Occupied
<1> QED BY <1>6, <1>7, <1>8

(* stop_threads().                                                         *)
LEMMA StopStep ==
  ASSUME TMInv, StopBegins \/ Stop
  PROVE  (Locals /\ Users /\ Parking)'
<1>1. /\ UNCHANGED <<wpc, spincounter, currenthead, accepting, clients, network, samplers>>
      /\ UNCHANGED <<head, tail, ppc, cpc, lapped>>
      /\ is_on' = is_on \/ is_on' = FALSE
  BY DEF StopBegins, Stop, StopJoinsNetwork, StopFinishes, StopTurnsOff, StopJoinsWorkers,
         StopJoinsSamplers, StopGoTo, SetFinished, vars, pushVars, popVars, histVars,
         workerVars, netVars
<1>2. \/ spc = "none" /\ spc' = "join network" /\ UNCHANGED is_running
      \/ spc = "join network" /\ ~network /\ spc' = "finish" /\ UNCHANGED is_running
      \/ spc = "finish" /\ spc' = "turn off" /\ is_running /\ ~is_running'
      \/ spc = "turn off" /\ spc' = "join workers" /\ UNCHANGED is_running
      \/ /\ spc = "join workers" /\ wpc = "exited" /\ spc' = "join samplers"
         /\ UNCHANGED is_running
      \/ spc = "join samplers" /\ spc' = "stopped" /\ UNCHANGED is_running
  BY DEF StopBegins, Stop, StopJoinsNetwork, StopFinishes, StopTurnsOff, StopJoinsWorkers,
         StopJoinsSamplers, StopGoTo, SetFinished, vars
<1>3. Locals'
  BY <1>1, <1>2, Zenon DEF TMInv, Locals, Index
<1>4. Users'
  <2>1. /\ spc' \notin {"none", "join network"} => ~network'
        /\ spc' \in {"join samplers", "stopped"} => wpc' = "exited"
    BY <1>1, <1>2, Zenon DEF TMInv, Users
  <2>2. is_running <=> spc \in {"none", "join network", "finish"}
    BY Zenon DEF TMInv, Users
  <2>3. is_running' <=> spc' \in {"none", "join network", "finish"}
    <3>1. CASE spc = "finish" /\ spc' = "turn off" /\ ~is_running'
      BY <3>1
    <3>2. CASE UNCHANGED is_running /\ (spc \in {"none", "join network", "finish"}
                                          <=> spc' \in {"none", "join network", "finish"})
      BY <2>2, <3>2, Zenon
    <3> QED BY <1>2, <3>1, <3>2, Zenon
  <2>4. is_running' => is_running
    BY <1>2, Zenon
  <2>5. wpc' = "drain" => ~is_running'
    BY <1>1, <2>4, Zenon DEF TMInv, Users
  <2> QED BY <1>1, <2>1, <2>3, <2>5, Zenon DEF TMInv, Users
<1>5. Parking'
  BY <1>1, <1>2, Zenon DEF TMInv, Parking, Occupied
<1> QED BY <1>3, <1>4, <1>5

----------------------------------------------------------------------------
LEMMA InitTMInv == TMInit => TMInv
<1> SUFFICES ASSUME TMInit PROVE TMInv
  OBVIOUS
<1>1. Init /\ TypeOK
  BY InitTypeOK DEF TMInit
<1>2. /\ cpc = "idle" /\ ppc = "idle" /\ is_running = TRUE /\ is_running
      /\ wpc = "loop" /\ spc = "none"
      /\ network = TRUE /\ network
  BY <1>1, Zenon DEF TMInit, Init
<1>3. Locals
  <2>1. ~accepting /\ accepting \in BOOLEAN
    BY Zenon DEF TMInit
  <2> QED BY <2>1, CapacityAssumption, SpinAssumption DEF TMInit, Locals, Index
<1>4. Users /\ Parking
  BY <1>2, Zenon DEF Users, Parking
<1> QED BY <1>1, <1>3, <1>4 DEF TMInv

LEMMA StepTMInv == TMInv /\ [TMNext]_allVars => TMInv'
<1> SUFFICES ASSUME TMInv, [TMNext]_allVars PROVE TMInv'
  OBVIOUS
<1>1. TypeOK'
  BY QueueStep, StepTypeOK DEF TMInv
<1>2. CASE UNCHANGED allVars
  <2>1. /\ UNCHANGED <<wpc, spincounter, currenthead, accepting, clients, network, spc, is_on, samplers>>
        /\ UNCHANGED <<head, tail, is_running, ppc, cpc, lapped>>
    BY <1>2 DEF allVars, vars, tmVars
  <2>2. Locals'
    BY <2>1, Zenon DEF TMInv, Locals, Index
  <2>3. Users'
    BY <2>1, Zenon DEF TMInv, Users
  <2>4. Parking'
    BY <2>1, Zenon DEF TMInv, Parking, Occupied
  <2> QED BY <1>1, <2>2, <2>3, <2>4 DEF TMInv
<1>3. PushStep => \/ PushStep /\ ~PushPublish /\ ~PushNotify
                  \/ PushStep /\ PushPublish
                  \/ NotifyWorker
  <2>1. ASSUME PushStep, PushNotify, ~NotifyWorker PROVE FALSE
    BY <2>1 DEF PushStep, PushNotify, PushHasRoom, PushOverflow, PushSpinEnds, PushRecheck,
                PushWrite, PushPublish, PushRegister, PushWatermark, PushTrip
  <2> QED BY <2>1
<1>4. CASE TMNext
  BY <1>1, <1>3, <1>4, SessionsStep, NetworkStep, QuietPushStep, PublishesStep,
     NotifiesStep, PopStep, PopReturnsStep, WorkerStep, StopStep, Zenon
     DEF TMNext, Worker, TMInv
<1> QED BY <1>2, <1>4

LEMMA TMInvariant == TMSpec => []TMInv
<1> QED BY InitTMInv, StepTMInv, PTL DEF TMSpec

(* The locals of the worker and the members of ThreadManager keep their    *)
(* types (ThreadManager.h:24-34).                                          *)
THEOREM ThreadsTypeCorrect == TMSpec => []TMTypeOK
<1>1. TMInv => TMTypeOK
  BY Zenon DEF TMInv, Locals, TMTypeOK
<1> QED BY <1>1, TMInvariant, PTL

(* The worker sleeps through no push: however its last pop(), its load of  *)
(* head and its wait interleave with push() (ThreadManager.cpp:111-115).   *)
THEOREM NoWakeupIsLost == TMSpec => []NoLostWakeup
<1>1. TMInv => NoLostWakeup
  BY Zenon DEF TMInv, Parking, NoLostWakeup
<1> QED BY <1>1, TMInvariant, PTL

(* set_finished() comes after the last push() (ThreadManager.cpp:136-144). *)
THEOREM PushesEndFirst == TMSpec => []FinishedQueueIsQuiet
<1>1. TMInv => FinishedQueueIsQuiet
  <2>1. TMInv /\ ~is_running => spc \notin {"none", "join network"}
    BY Zenon DEF TMInv, Users
  <2> QED BY <2>1, Zenon DEF TMInv, Users, FinishedQueueIsQuiet
<1> QED BY <1>1, TMInvariant, PTL

(* The queues are destroyed when no thread can use them any more           *)
(* (ThreadManager.cpp:148-156).                                            *)
THEOREM TeardownIsInOrder == TMSpec => []QueuesOutliveUsers
<1>1. TMInv => QueuesOutliveUsers
  <2> SUFFICES ASSUME TMInv, spc \in {"join samplers", "stopped"}
               PROVE  /\ wpc = "exited" /\ cpc = "idle"
                      /\ ~network /\ ppc = "idle"
    BY Zenon DEF QueuesOutliveUsers
  <2>1. wpc = "exited" /\ spc \notin {"none", "join network"}
    BY Zenon DEF TMInv, Users
  <2> QED BY <2>1, Zenon DEF TMInv, Users
<1> QED BY <1>1, TMInvariant, PTL

(* The loop that is to empty a finished queue calls a pop() that looks at  *)
(* is_running first.                                                       *)
DrainFindsNothing == [][wpc = "drain" => delivered' = delivered]_allVars

(* A worker that is parked when the queue finishes.                        *)
LeftBehind == wpc = "parked" /\ ~is_running

(* The loop that is to empty a finished queue delivers nothing, whatever   *)
(* is left in the ring (ThreadManager.cpp:123-127, LogQueue.cpp:98).       *)
THEOREM DrainDeliversNothing == TMSpec => DrainFindsNothing
<1>1. TMInv /\ [TMNext]_allVars => [wpc = "drain" => delivered' = delivered]_allVars
  <2> SUFFICES ASSUME TMInv, TMNext, wpc = "drain" PROVE delivered' = delivered
    OBVIOUS
  <2>1. cpc \in {"idle", "false"}
    BY Zenon DEF TMInv, Users
  <2>2. [Next]_vars
    BY QueueStep
  <2>3. ~PopFree
    BY <2>1 DEF PopFree
  <2> QED BY <2>2, <2>3 DEF Next, Push, Pop, PushCall, PushHasRoom, PushOverflow, PushSpinEnds,
             PushRecheck, PushWrite, PushPublish, PushNotify, PushRegister, PushWatermark,
             PushTrip, PushGoTo, PushGiveUp, PopCall, PopIsEmpty, PopRecheck, PopCopy,
             PopRegister, PopWatermark, PopReset, PopReturn, PopGoTo, SetFinished,
             vars, histVars
<1> QED BY <1>1, TMInvariant, PTL DEF TMSpec, DrainFindsNothing

(* A worker that is parked when the queue finishes is left behind: nobody  *)
(* notifies it again, and stop_threads() never returns                     *)
(* (LogQueue.cpp:93-96, ThreadManager.cpp:115, 148-154).                   *)
THEOREM ParkedForGood == TMSpec => [](LeftBehind => [](spc # "stopped"))
<1>1. TMInv /\ LeftBehind /\ [TMNext]_allVars => LeftBehind'
  <2> SUFFICES ASSUME TMInv, wpc = "parked", ~is_running, [TMNext]_allVars
               PROVE  wpc' = "parked" /\ ~is_running'
    BY DEF LeftBehind
  <2>1. ppc = "idle" /\ spc # "finish" /\ cpc = "idle" /\ ~network
    BY Zenon DEF TMInv, Users
  <2>2. CASE AcceptBegins \/ Connect \/ Leave \/ NetworkExits \/ SamplerExits
    BY <2>2 DEF AcceptBegins, Connect, Leave, NetworkExits, SamplerExits, vars, workerVars
  <2>3. ~SessionPushes
    BY <2>1 DEF SessionPushes
  <2>4. ~PushStep
    BY <2>1 DEF PushStep, NotifyWorker, PushHasRoom, PushOverflow, PushSpinEnds, PushRecheck,
            PushWrite, PushPublish, PushNotify, PushRegister, PushWatermark, PushTrip
  <2>5. ~Worker
    BY <2>1 DEF Worker, WorkerCallsPop, WorkerInPop, PopReturns, WorkerIdles, WorkerLoadsHead,
            WorkerWaits, Resume, PopIsEmpty, PopRecheck, PopCopy, PopFree, PopRegister,
            PopWatermark, PopReset, PopReturn
  <2>6. CASE StopBegins \/ Stop
    <3>1. wpc' = wpc /\ (StopFinishes \/ is_running' = is_running)
      BY <2>6 DEF StopBegins, Stop, StopJoinsNetwork, StopFinishes, StopTurnsOff,
              StopJoinsWorkers, StopJoinsSamplers, StopGoTo, vars, workerVars
    <3>2. ~StopFinishes
      BY <2>1 DEF StopFinishes
    <3>3. wpc' = "parked"
      BY <3>1
    <3>4. ~is_running'
      BY <3>1, <3>2
    <3> QED BY <3>3, <3>4
  <2>7. CASE UNCHANGED allVars
    BY <2>7 DEF allVars, vars, tmVars
  <2> QED BY <2>2, <2>3, <2>4, <2>5, <2>6, <2>7 DEF TMNext
<1>2. TMInv /\ LeftBehind => spc # "stopped"
  BY Zenon DEF TMInv, Users, LeftBehind
<1> QED BY <1>1, <1>2, TMInvariant, PTL DEF TMSpec
=============================================================================
