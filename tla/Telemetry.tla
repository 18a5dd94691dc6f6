------------------------------- MODULE Telemetry -------------------------------
(***************************************************************************)
(* Telemetry::Telemetry: the two counters, one object for all queues, that *)
(* every network thread and every worker moves, and the thread that        *)
(* samples them.                                                           *)
(*                                                                         *)
(* The network threads are those of LogServer: a handler pushes into the   *)
(* queue of its session.  Each queue has its worker.  Of push() and pop()  *)
(* there is what the counters depend on, the order in which the cursors,   *)
(* then the counters move; the rest is in LogQueue.  A push() that returns *)
(* without storing its log takes no step here.                             *)
(***************************************************************************)
EXTENDS LogServer, FiniteSets

CONSTANTS Capacity,  \* slots of a ring
          MaxLogs    \* bound on the logs the sessions push

ASSUME TelemetryAssumption == Capacity \in Nat /\ Capacity >= 2 /\ MaxLogs \in Nat

VARIABLES
  pushed_logs, eliminated_logs,
  ahead,      \* of each queue: how many slots head has moved further than tail
  storing,    \* the contexts whose push() has stored head and not counted it
  popping,    \* the queues whose pop() has found a log and not freed its slot
  freeing,    \* the queues whose pop() has stored tail and not counted it
  sampler, pushed,            \* update_telemetry(): its next step and its local
  last_pushed, last_popped

counters == <<pushed_logs, eliminated_logs>>
queues   == <<ahead, storing, popping, freeing>>
samples  == <<sampler, pushed, last_pushed, last_popped>>
telemetryVars == <<counters, queues, samples>>
sharedVars == <<serverVars, telemetryVars>>

Queues == 0 .. ThreadNum - 1

(* What the cursors say of a ring: they wrap around it.                    *)
Occupied(q) == ahead[q] % Capacity

(* The logs that have been stored and not been freed.                      *)
Outstanding == {log \in Queues \X (1 .. MaxLogs) : log[2] <= ahead[log[1]]}

TelemetryInit ==
  /\ ServerInit
  /\ pushed_logs = 0 /\ eliminated_logs = 0
  /\ ahead = [q \in Queues |-> 0]
  /\ storing = {} /\ popping = {} /\ freeing = {}
  /\ sampler = "load pushed" /\ pushed = 0
  /\ last_pushed = 0 /\ last_popped = 0

----------------------------------------------------------------------------
(* push(), in a handler of a session: head.store(), also into a ring that  *)
(* is full, and RegisterPushed() behind it.                                *)
StoreHead(c) ==
  LET q == sessions[busy[c]].queue IN
  /\ busy[c] # 0 /\ c \notin storing
  /\ pushed_logs + Cardinality(storing) < MaxLogs
  /\ ahead' = [ahead EXCEPT ![q] = @ + 1]
  /\ storing' = storing \cup {c}
  /\ UNCHANGED <<serverVars, counters, popping, freeing, samples>>

RegisterPushed(c) ==
  /\ c \in storing /\ storing' = storing \ {c}
  /\ pushed_logs' = pushed_logs + 1
  /\ UNCHANGED <<serverVars, eliminated_logs, ahead, popping, freeing, samples>>

(* pop(), by the worker of the queue: the test of the cursors, tail.store()*)
(* and RegisterEliminated().                                               *)
FindLog(q) ==
  /\ q \notin popping \cup freeing /\ Occupied(q) # 0
  /\ popping' = popping \cup {q}
  /\ UNCHANGED <<serverVars, counters, ahead, storing, freeing, samples>>

StoreTail(q) ==
  /\ q \in popping /\ popping' = popping \ {q}
  /\ ahead' = [ahead EXCEPT ![q] = @ - 1]
  /\ freeing' = freeing \cup {q}
  /\ UNCHANGED <<serverVars, counters, storing, samples>>

RegisterEliminatedMutant(q) ==
  /\ q \in freeing /\ freeing' = freeing \ {q}
  /\ UNCHANGED <<serverVars, counters, ahead, storing, popping, samples>>
RegisterEliminated(q) ==
  /\ q \in freeing /\ freeing' = freeing \ {q}
  /\ eliminated_logs' = eliminated_logs + 1
  /\ UNCHANGED <<serverVars, pushed_logs, ahead, storing, popping, samples>>

(* update_telemetry(), every two seconds: two loads, one after the other,  *)
(* and GetVelocity(), whose differences wrap if they are negative.         *)
LoadPushed ==
  /\ sampler = "load pushed" /\ sampler' = "load eliminated"
  /\ pushed' = pushed_logs
  /\ UNCHANGED <<serverVars, counters, queues, last_pushed, last_popped>>

GetVelocityMutant ==
  /\ sampler = "load eliminated" /\ sampler' = "load pushed"
  /\ last_pushed' = eliminated_logs /\ last_popped' = pushed
  /\ UNCHANGED <<serverVars, counters, queues, pushed>>
GetVelocity ==
  /\ sampler = "load eliminated" /\ sampler' = "load pushed"
  /\ last_pushed' = pushed /\ last_popped' = eliminated_logs
  /\ UNCHANGED <<serverVars, counters, queues, pushed>>

----------------------------------------------------------------------------
(* The server, in which a handler does not end before its push() does.     *)
ServerStep ==
  /\ ServerNext
  /\ \A c \in storing : busy'[c] = busy[c]
  /\ UNCHANGED telemetryVars

TelemetryNext ==
  \/ ServerStep
  \/ \E c \in Contexts : StoreHead(c) \/ RegisterPushed(c)
  \/ \E q \in Queues : FindLog(q) \/ StoreTail(q) \/ RegisterEliminated(q)
  \/ LoadPushed \/ GetVelocity

NetworkThread(c) ==
  \/ RegisterPushed(c)
  \/ Thread(c) /\ c \notin storing /\ UNCHANGED telemetryVars

(* The fairness of ServerSpec.  A handler pushes what its read has brought,*)
(* which is finite, as is MaxLogs.                                         *)
TelemetrySpec ==
  /\ TelemetryInit /\ [][TelemetryNext]_sharedVars
  /\ WF_sharedVars((StartSession \/ ReportError) /\ UNCHANGED telemetryVars)
  /\ WF_sharedVars(StopGoesOn /\ UNCHANGED telemetryVars)
  /\ \A c \in Contexts : WF_sharedVars(NetworkThread(c))

----------------------------------------------------------------------------
(* The counters and the locals have their types (Telemetry.h:14-18).       *)
TelemetryTypeOK ==
  /\ pushed_logs \in Nat /\ eliminated_logs \in Nat
  /\ ahead \in [Queues -> 0 .. MaxLogs]
  /\ storing \subseteq Contexts /\ popping \subseteq Queues /\ freeing \subseteq Queues
  /\ sampler \in {"load pushed", "load eliminated"}
  /\ pushed \in Nat /\ last_pushed \in Nat /\ last_popped \in Nat

(* The counters move after the cursors, on as many threads as there are    *)
(* contexts and queues: their difference is the logs that wait in all the  *)
(* rings together, give or take one for each thread between its two        *)
(* stores, whatever ring is overrun; and more logs are eliminated than     *)
(* pushed only by as many as are being pushed (LogQueue.cpp:75-78, 113-115)*)
TelemetryAgrees ==
  /\ pushed_logs + Cardinality(storing)
       = eliminated_logs + Cardinality(freeing) + Cardinality(Outstanding)
  /\ eliminated_logs <= pushed_logs + Cardinality(storing)

(* The velocities are of numbers that have not gone down, and a sample     *)
(* shows no fewer logs pushed than the one before it showed popped, but    *)
(* for one that each network thread may be about to count: unlike the two  *)
(* loads of one sample, between which any number of logs may come and go   *)
(* (Telemetry.cpp:9-10, 29-38).                                            *)
SamplesAdvance ==
  /\ last_pushed <= pushed_logs /\ last_popped <= eliminated_logs
  /\ sampler = "load eliminated" =>
       last_pushed <= pushed /\ last_popped <= pushed + Cardinality(Contexts)
=============================================================================
