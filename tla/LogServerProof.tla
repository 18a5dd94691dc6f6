---------------------------- MODULE LogServerProof ----------------------------
(***************************************************************************)
(* The pairing of sessions, contexts and queues, for every thread_num and  *)
(* any number of connections, accepted or failed; and what the counters    *)
(* that all queues share say, for any number of queues and logs.           *)
(***************************************************************************)
EXTENDS Telemetry, FiniteSetTheorems, TLAPS

SessionRecord == [context : Contexts, queue : Nat, open : BOOLEAN]

(* The part of the types the argument needs.                               *)
Shape == /\ next_worker_index \in Nat /\ worker_index \in Contexts
         /\ sessions \in Seq(SessionRecord)
         /\ busy \in [Contexts -> Nat]

(* A session has the queue of its context, by number.                      *)
QueueOfContext == \A s \in 1 .. Len(sessions) : sessions[s].queue = sessions[s].context

(* A thread is in a handler of a session of its own context.               *)
OwnSessions == \A c \in Contexts : busy[c] # 0 => /\ busy[c] \in 1 .. Len(sessions)
                                                  /\ sessions[busy[c]].context = c

Pairing == Shape /\ QueueOfContext /\ OwnSessions

(* next_worker_index++ % 2 is the number of a context.                     *)
LEMMA WorkerIndexRange == ASSUME NEW n \in Nat PROVE WorkerIndex(n) \in Contexts
BY DEF WorkerIndex, Contexts

(* The server starts without sessions.                                     *)
LEMMA InitPairing == ServerInit => Pairing
<1> SUFFICES ASSUME ServerInit PROVE Pairing
  OBVIOUS
<1>1. Shape
  BY WorkerIndexRange DEF ServerInit, Shape
<1>2. QueueOfContext /\ OwnSessions
  BY DEF ServerInit, QueueOfContext, OwnSessions
<1> QED BY <1>1, <1>2 DEF Pairing

(* The accept loop leaves the threads alone and captures a new index.      *)
LEMMA AcceptingStep ==
  ASSUME Pairing, StartAccept, UNCHANGED <<sessions, busy>>
  PROVE  Pairing'
BY WorkerIndexRange DEF Pairing, Shape, QueueOfContext, OwnSessions, StartAccept

(* A new session gets context and queue from one captured index, and the   *)
(* sessions before it keep theirs.                                         *)
LEMMA SessionStep == ASSUME Pairing, StartSession PROVE Pairing'
<1> DEFINE new == [context |-> worker_index, queue |-> worker_index, open |-> TRUE]
<1>1. new \in SessionRecord
  BY DEF Pairing, Shape, SessionRecord, Contexts
<1>2. /\ sessions' = Append(sessions, new) /\ busy' = busy
      /\ worker_index' = WorkerIndex(next_worker_index)
      /\ next_worker_index' = next_worker_index + 1
  BY DEF StartSession, AssignedQueue, StartAccept, threads
<1>3. Shape'
  BY <1>1, <1>2, WorkerIndexRange DEF Pairing, Shape
<1>4. /\ Len(sessions') = Len(sessions) + 1
      /\ \A s \in 1 .. Len(sessions) : sessions'[s] = sessions[s]
      /\ sessions'[Len(sessions) + 1] = new
  BY <1>2 DEF Pairing, Shape
<1>5. Len(sessions) \in Nat
  BY DEF Pairing, Shape
<1> HIDE DEF new
<1>6. new.queue = new.context
  BY DEF new
<1>7. QueueOfContext'
  BY <1>4, <1>5, <1>6 DEF Pairing, QueueOfContext
<1>8. OwnSessions'
  BY <1>2, <1>4, <1>5 DEF Pairing, OwnSessions
<1> QED BY <1>3, <1>7, <1>8 DEF Pairing

(* What is in a session's record.                                          *)
LEMMA SessionsAreRecords ==
  ASSUME Pairing, NEW s \in 1 .. Len(sessions)
  PROVE  /\ Len(sessions) \in Nat /\ sessions[s].context \in Contexts
         /\ sessions[s].queue = sessions[s].context
<1>1. Len(sessions) \in Nat /\ sessions[s] \in SessionRecord
  BY DEF Pairing, Shape
<1>2. sessions[s].context \in Contexts
  BY <1>1 DEF SessionRecord
<1> QED BY <1>1, <1>2 DEF Pairing, QueueOfContext

(* A thread takes up a handler of a session of its own context.            *)
LEMMA BeginStep ==
  ASSUME Pairing, NEW s \in 1 .. Len(sessions), HandlerBegins(s)
  PROVE  Pairing'
<1>1. /\ busy' = [busy EXCEPT ![sessions[s].context] = s]
      /\ UNCHANGED <<sessions, next_worker_index, worker_index>>
  BY DEF HandlerBegins, accept
<1>2. Len(sessions) \in Nat /\ sessions[s].context \in Contexts
  BY SessionsAreRecords
<1>3. Shape'
  BY <1>1, <1>2 DEF Pairing, Shape
<1>4. QueueOfContext'
  BY <1>1 DEF Pairing, QueueOfContext
<1>5. OwnSessions'
  BY <1>1, <1>2 DEF Pairing, Shape, OwnSessions
<1> QED BY <1>3, <1>4, <1>5 DEF Pairing

(* Closing a session changes neither its context nor its queue.            *)
LEMMA EndStep ==
  ASSUME Pairing, NEW c \in Contexts, HandlerEnds(c)
  PROVE  Pairing'
<1>1. /\ busy' = [busy EXCEPT ![c] = 0] /\ busy[c] # 0
      /\ UNCHANGED <<next_worker_index, worker_index>>
      /\ sessions' = sessions \/ sessions' = [sessions EXCEPT ![busy[c]].open = FALSE]
  BY DEF HandlerEnds, accept
<1>2. busy[c] \in 1 .. Len(sessions) /\ sessions \in Seq(SessionRecord)
  BY <1>1 DEF Pairing, Shape, OwnSessions
<1>3. /\ sessions' \in Seq(SessionRecord) /\ Len(sessions') = Len(sessions)
      /\ \A s \in 1 .. Len(sessions) : /\ sessions'[s].context = sessions[s].context
                                       /\ sessions'[s].queue = sessions[s].queue
  <2>1. CASE sessions' = sessions
    BY <2>1, <1>2
  <2>2. CASE sessions' = [sessions EXCEPT ![busy[c]].open = FALSE]
    <3> DEFINE closed == [sessions[busy[c]] EXCEPT !.open = FALSE]
    <3>1. sessions[busy[c]] \in SessionRecord
      BY <1>2
    <3>2. /\ closed \in SessionRecord
          /\ closed.context = sessions[busy[c]].context
          /\ closed.queue = sessions[busy[c]].queue
      BY <3>1 DEF SessionRecord
    <3>3. sessions' = [sessions EXCEPT ![busy[c]] = closed]
      BY <2>2
    <3> HIDE DEF closed
    <3>4. /\ sessions' \in Seq(SessionRecord) /\ Len(sessions') = Len(sessions)
          /\ \A s \in 1 .. Len(sessions) :
               sessions'[s] = IF s = busy[c] THEN closed ELSE sessions[s]
      BY <3>2, <3>3, <1>2
    <3> QED BY <3>2, <3>4
  <2> QED BY <1>1, <2>1, <2>2
<1>4. Shape'
  BY <1>1, <1>3 DEF Pairing, Shape
<1>5. QueueOfContext'
  BY <1>3 DEF Pairing, QueueOfContext
<1>6. OwnSessions'
  BY <1>1, <1>2, <1>3 DEF Pairing, Shape, OwnSessions
<1> QED BY <1>4, <1>5, <1>6 DEF Pairing

(* Every step of the server keeps the pairing.                             *)
LEMMA StepPairing == Pairing /\ [ServerNext]_serverVars => Pairing'
<1> SUFFICES ASSUME Pairing, [ServerNext]_serverVars PROVE Pairing'
  OBVIOUS
<1>1. ASSUME UNCHANGED <<next_worker_index, worker_index, sessions, busy>> PROVE Pairing'
  BY <1>1 DEF Pairing, Shape, QueueOfContext, OwnSessions
<1>2. CASE \E outcome \in {"accepted", "failed"} : Accept(outcome)
  BY <1>1, <1>2 DEF Accept, threads
<1>3. CASE StartSession
  BY <1>3, SessionStep
<1>4. CASE ReportError
  BY <1>4, AcceptingStep DEF ReportError, threads
<1>5. CASE \E s \in 1 .. Len(sessions) : HandlerBegins(s)
  BY <1>5, BeginStep
<1>6. CASE \E c \in Contexts : HandlerEnds(c)
  BY <1>6, EndStep
<1>7. CASE \E c \in Contexts : ThreadExits(c)
  BY <1>1, <1>7 DEF ThreadExits, accept
<1>8. CASE StopClosesAcceptor \/ StopGoesOn
  BY <1>1, <1>8 DEF StopClosesAcceptor, StopGoesOn, StopsContext, StopDropsGuards,
                    StopJoins, accept, threads
<1>9. CASE UNCHANGED serverVars
  BY <1>1, <1>9 DEF serverVars, accept, threads
<1> QED BY <1>2, <1>3, <1>4, <1>5, <1>6, <1>7, <1>8, <1>9 DEF ServerNext, Thread

(* In every behaviour of the server, sessions, contexts and queues stay    *)
(* paired as start_accept() (LogServer.cpp:65-86) pairs them.              *)
THEOREM SessionsStayPaired == ServerSpec => []Pairing
<1>1. ServerInit => Pairing
  BY InitPairing
<1>2. Pairing /\ [ServerNext]_serverVars => Pairing'
  BY StepPairing
<1> QED BY <1>1, <1>2, PTL DEF ServerSpec

(* Two threads are never in handlers of sessions that push into one queue  *)
(* (LogServer.cpp:75), for any number of queues and of connections: this   *)
(* is what LogQueue's single pusher rests on.                              *)
THEOREM OneProducer == ServerSpec => []OneThreadPerQueue
<1>1. Pairing => OneThreadPerQueue
  <2> SUFFICES ASSUME Pairing, NEW c \in Contexts, NEW d \in Contexts,
                      c # d, busy[c] # 0, busy[d] # 0
               PROVE  sessions[busy[c]].queue # sessions[busy[d]].queue
    BY DEF OneThreadPerQueue
  <2> QED BY DEF Pairing, QueueOfContext, OwnSessions
<1> QED BY <1>1, SessionsStayPaired, PTL

(* With two threads or more every session is given a queue that exists     *)
(* (LogServer.cpp:75); the default, one thread, is the run                 *)
(* LogServerOneThread.                                                     *)
THEOREM TwoThreadsAreEnough == ThreadNum >= 2 => (ServerSpec => []QueueExists)
<1> SUFFICES ASSUME ThreadNum >= 2 PROVE ServerSpec => []QueueExists
  OBVIOUS
<1>1. Pairing => QueueExists
  <2> SUFFICES ASSUME Pairing, NEW s \in 1 .. Len(sessions)
               PROVE  sessions[s].queue < ThreadNum
    BY DEF QueueExists
  <2>1. sessions[s].queue \in Contexts
    BY SessionsAreRecords
  <2> QED BY <2>1, ServerAssumption DEF Contexts
<1> QED BY <1>1, SessionsStayPaired, PTL

----------------------------------------------------------------------------
(* The accept loop and stop() are at one of their steps, and the flags of  *)
(* stop() are flags.                                                       *)
Control ==
  /\ apc \in {"listening", "accepted", "failed"}
  /\ spc \in {"none", "stop context", "drop guards", "join", "stopped"}
  /\ acceptor_open \in BOOLEAN /\ io_running \in BOOLEAN /\ guarded \in BOOLEAN

LEMMA StepControl == Control /\ [ServerNext]_serverVars => Control'
<1> SUFFICES ASSUME Control, [ServerNext]_serverVars PROVE Control'
  OBVIOUS
<1> USE DEF Control
<1>1. CASE \E outcome \in {"accepted", "failed"} : Accept(outcome)
  BY <1>1 DEF Accept, stopping
<1>2. CASE StartSession \/ ReportError
  BY <1>2 DEF StartSession, ReportError, StartAccept, stopping
<1>3. CASE \E s \in 1 .. Len(sessions) : HandlerBegins(s)
  BY <1>3 DEF HandlerBegins, accept, stopping
<1>4. CASE \E c \in Contexts : Thread(c)
  BY <1>4 DEF Thread, HandlerEnds, ThreadExits, accept, stopping
<1>5. CASE StopClosesAcceptor \/ StopGoesOn
  BY <1>5 DEF StopClosesAcceptor, StopGoesOn, StopsContext, StopDropsGuards, StopJoins,
              accept, threads
<1>6. CASE UNCHANGED serverVars
  BY <1>6 DEF serverVars, accept, stopping
<1> QED BY <1>1, <1>2, <1>3, <1>4, <1>5, <1>6 DEF ServerNext

(* A thread in a handler lives, for the handler's session is open and does *)
(* not let run() return; stop() returns when no thread lives.              *)
Joining ==
  /\ alive \subseteq Contexts
  /\ \A c \in Contexts : busy[c] # 0 => c \in alive /\ sessions[busy[c]].open
  /\ spc = "stopped" => alive = {}

LEMMA StepJoining == Pairing /\ Joining /\ [ServerNext]_serverVars => Joining'
<1> SUFFICES ASSUME Pairing, Joining, [ServerNext]_serverVars PROVE Joining'
  OBVIOUS
<1>0. /\ Len(sessions) \in Nat /\ busy \in [Contexts -> Nat] /\ sessions \in Seq(SessionRecord)
      /\ \A c \in Contexts : busy[c] # 0 => busy[c] \in 1 .. Len(sessions)
      /\ \A c \in Contexts : busy[c] # 0 => sessions[busy[c]].context = c
  BY DEF Pairing, Shape, OwnSessions
<1>1. CASE UNCHANGED <<busy, alive, sessions>> /\ (spc' = "stopped" => spc = "stopped" \/ alive = {})
  BY <1>1 DEF Joining
<1>2. ASSUME NEW outcome \in {"accepted", "failed"}, Accept(outcome) PROVE Joining'
  BY <1>1, <1>2 DEF Accept, threads, stopping
<1>3. CASE StartSession
  <2>1. /\ UNCHANGED <<busy, alive, spc>>
        /\ \A s \in 1 .. Len(sessions) : sessions'[s] = sessions[s]
    BY <1>0, <1>3 DEF StartSession, threads, stopping
  <2> QED BY <1>0, <2>1 DEF Joining
<1>4. CASE ReportError
  BY <1>1, <1>4 DEF ReportError, threads, stopping
<1>5. ASSUME NEW s \in 1 .. Len(sessions), HandlerBegins(s) PROVE Joining'
  <2>1. /\ sessions[s].open /\ sessions[s].context \in alive
        /\ busy' = [busy EXCEPT ![sessions[s].context] = s]
        /\ UNCHANGED <<sessions, alive, spc>>
    BY <1>5 DEF HandlerBegins, stopping
  <2> QED BY <1>0, <2>1 DEF Joining
<1>6. ASSUME NEW c \in Contexts, HandlerEnds(c) PROVE Joining'
  <2>1. /\ busy[c] # 0 /\ busy' = [busy EXCEPT ![c] = 0]
        /\ UNCHANGED <<alive, spc>>
        /\ sessions' = sessions \/ sessions' = [sessions EXCEPT ![busy[c]].open = FALSE]
    BY <1>6 DEF HandlerEnds, stopping
  <2>2. ASSUME NEW d \in Contexts, busy'[d] # 0
        PROVE  /\ d # c /\ busy'[d] = busy[d] /\ busy[d] # busy[c]
    BY <1>0, <2>1, <2>2
  <2>3. ASSUME NEW d \in Contexts, busy'[d] # 0
        PROVE  sessions'[busy'[d]].open = sessions[busy[d]].open
    BY <1>0, <2>1, <2>2, <2>3
  <2> QED BY <2>1, <2>2, <2>3 DEF Joining
<1>7. ASSUME NEW c \in Contexts, ThreadExits(c) PROVE Joining'
  <2>1. /\ \A s \in 1 .. Len(sessions) : sessions[s].open => sessions[s].context # c
        /\ alive' = alive \ {c} /\ UNCHANGED <<busy, sessions, spc>>
    BY <1>7 DEF ThreadExits, OpenSessions, stopping
  <2>2. busy[c] = 0
    BY <1>0, <2>1 DEF Joining
  <2> QED BY <2>1, <2>2 DEF Joining
<1>8. CASE StopClosesAcceptor \/ StopGoesOn
  BY <1>1, <1>8 DEF StopClosesAcceptor, StopGoesOn, StopsContext, StopDropsGuards, StopJoins,
              accept, threads
<1>9. CASE UNCHANGED serverVars
  BY <1>1, <1>9 DEF serverVars, threads, stopping
<1> QED BY <1>2, <1>3, <1>4, <1>5, <1>6, <1>7, <1>8, <1>9 DEF ServerNext, Thread

LEMMA ServerInvariant == ServerSpec => [](Pairing /\ Control /\ Joining)
<1>1. ServerInit => Pairing /\ Control /\ Joining
  BY InitPairing DEF ServerInit, Control, Joining
<1>2. Pairing /\ Control /\ Joining /\ [ServerNext]_serverVars
        => (Pairing /\ Control /\ Joining)'
  BY StepPairing, StepControl, StepJoining
<1> QED BY <1>1, <1>2, PTL DEF ServerSpec

(* The members and the captured index have their types (LogServer.h:209 to *)
(* 229).                                                                   *)
THEOREM ServerTypeCorrect == ServerSpec => []ServerTypeOK
<1>1. Pairing /\ Control /\ Joining => ServerTypeOK
  <2> SUFFICES ASSUME Pairing, Control, Joining PROVE ServerTypeOK
    OBVIOUS
  <2>1. busy \in [Contexts -> 0 .. Len(sessions)]
    BY DEF Pairing, Shape, OwnSessions
  <2> QED BY <2>1 DEF Pairing, Shape, SessionRecord, Control, Joining, ServerTypeOK
<1> QED BY <1>1, ServerInvariant, PTL

(* stop() returns to a server none of whose threads is in a handler, with  *)
(* any number of connections and whenever it is called                     *)
(* (LogServer.cpp:44-63).                                                  *)
THEOREM StopIsQuiet == ServerSpec => []NothingRunsAfterStop
<1>1. Joining => NothingRunsAfterStop
  BY DEF Joining, NothingRunsAfterStop
<1> QED BY <1>1, ServerInvariant, PTL

----------------------------------------------------------------------------
(* Telemetry.                                                              *)

(* What moves the counters does not move the server.                       *)
LEMMA ServerMovesAlone ==
  /\ TelemetryInit => ServerInit
  /\ [TelemetryNext]_sharedVars => [ServerNext]_serverVars
<1>1. TelemetryInit => ServerInit
  BY DEF TelemetryInit
<1>2. ASSUME TelemetryNext PROVE ServerNext \/ UNCHANGED serverVars
  <2>1. CASE ServerStep
    BY <2>1 DEF ServerStep
  <2>2. CASE \E c \in Contexts : StoreHead(c) \/ RegisterPushed(c)
    BY <2>2 DEF StoreHead, RegisterPushed
  <2>3. CASE \E q \in Queues : FindLog(q) \/ StoreTail(q) \/ RegisterEliminated(q)
    BY <2>3 DEF FindLog, StoreTail, RegisterEliminated
  <2>4. CASE LoadPushed \/ GetVelocity
    BY <2>4 DEF LoadPushed, GetVelocity
  <2> QED BY <1>2, <2>1, <2>2, <2>3, <2>4 DEF TelemetryNext
<1>3. UNCHANGED sharedVars => UNCHANGED serverVars
  BY DEF sharedVars
<1> QED BY <1>1, <1>2, <1>3

(* Hence, among pushes, pops and samples too, a queue is pushed to by one  *)
(* thread and stop() returns to a quiet server (LogServer.cpp:44-63, 75).  *)
THEOREM CountersDisturbNothing ==
  TelemetrySpec => [](OneThreadPerQueue /\ NothingRunsAfterStop)
<1>1. Pairing => OneThreadPerQueue
  <2> SUFFICES ASSUME Pairing, NEW c \in Contexts, NEW d \in Contexts,
                      c # d, busy[c] # 0, busy[d] # 0
               PROVE  sessions[busy[c]].queue # sessions[busy[d]].queue
    BY DEF OneThreadPerQueue
  <2> QED BY DEF Pairing, QueueOfContext, OwnSessions
<1>2. Joining => NothingRunsAfterStop
  BY DEF Joining, NothingRunsAfterStop
<1>3. TelemetryInit => Pairing /\ Joining
  BY ServerMovesAlone, InitPairing DEF ServerInit, Joining
<1>4. Pairing /\ Joining /\ [TelemetryNext]_sharedVars => (Pairing /\ Joining)'
  BY ServerMovesAlone, StepPairing, StepJoining
<1> QED BY <1>1, <1>2, <1>3, <1>4, PTL DEF TelemetrySpec

(* The logs of the rings are counted, but for those between the store of a *)
(* cursor and the count behind it; a worker that has found a log has one.  *)
Counted ==
  /\ pushed_logs \in Nat /\ eliminated_logs \in Nat
  /\ ahead \in [Queues -> 0 .. MaxLogs]
  /\ storing \subseteq Contexts /\ popping \subseteq Queues /\ freeing \subseteq Queues
  /\ \A q \in popping : ahead[q] # 0 /\ q \notin freeing
  /\ pushed_logs + Cardinality(storing)
       = eliminated_logs + Cardinality(freeing) + Cardinality(Outstanding)

(* What the sampler has seen was so.                                       *)
Sampled ==
  /\ sampler \in {"load pushed", "load eliminated"}
  /\ pushed \in Nat /\ last_pushed \in Nat /\ last_popped \in Nat
  /\ last_pushed <= pushed_logs /\ last_popped <= eliminated_logs
  /\ sampler = "load eliminated" =>
       /\ last_pushed <= pushed /\ pushed <= pushed_logs
       /\ last_popped <= pushed + Cardinality(Contexts)

(* The sets that are counted are finite.                                   *)
LEMMA CountedSets ==
  ASSUME Counted
  PROVE  /\ IsFiniteSet(storing) /\ Cardinality(storing) \in Nat
         /\ Cardinality(Contexts) \in Nat /\ Cardinality(storing) <= Cardinality(Contexts)
         /\ IsFiniteSet(freeing) /\ Cardinality(freeing) \in Nat
         /\ IsFiniteSet(Outstanding) /\ Cardinality(Outstanding) \in Nat
<1>1. IsFiniteSet(Contexts)
  <2>1. 0 \in Int /\ 1 \in Int
    OBVIOUS
  <2>2. IsFiniteSet(0 .. 1)
    BY <2>1, FS_Interval, Zenon
  <2> QED BY <2>2 DEF Contexts
<1>2. ThreadNum - 1 \in Int
  BY ServerAssumption
<1>3. IsFiniteSet(Queues) /\ IsFiniteSet(1 .. MaxLogs)
  BY <1>2, FS_Interval, TelemetryAssumption DEF Queues
<1>4. IsFiniteSet(Queues \X (1 .. MaxLogs))
  BY <1>3, FS_Product
<1>5. Outstanding \in SUBSET (Queues \X (1 .. MaxLogs))
  BY DEF Outstanding
<1>6. storing \in SUBSET Contexts /\ freeing \in SUBSET Queues
  BY DEF Counted
<1> QED BY <1>1, <1>3, <1>4, <1>5, <1>6, FS_Subset, FS_CardinalityType

(* No ring holds more logs than all the rings do.                          *)
LEMMA AheadIsCounted ==
  ASSUME Counted, NEW q \in Queues
  PROVE  ahead[q] <= Cardinality(Outstanding)
<1> DEFINE f == [n \in 1 .. ahead[q] |-> <<q, n>>]
<1>1. ahead[q] \in 0 .. MaxLogs /\ MaxLogs \in Nat
  BY TelemetryAssumption DEF Counted
<1>2. ASSUME NEW n \in 1 .. ahead[q] PROVE <<q, n>> \in Outstanding
  <2>1. n \in 1 .. MaxLogs /\ n <= ahead[q]
    BY <1>1
  <2> QED BY <2>1 DEF Outstanding
<1>3. f \in Injection(1 .. ahead[q], Outstanding)
  BY <1>2 DEF Injection, IsInjective
<1>4. Cardinality(1 .. ahead[q]) <= Cardinality(Outstanding)
  BY <1>3, CountedSets, FS_Injection
<1>5. Cardinality(1 .. ahead[q]) = ahead[q]
  BY <1>1, FS_Interval, SMT
<1> QED BY <1>4, <1>5

(* A log is stored into the slot behind those that are occupied.           *)
LEMMA StoreHeadStep ==
  ASSUME ThreadNum >= 2, Pairing, Counted, NEW c \in Contexts, StoreHead(c)
  PROVE  Counted'
<1> DEFINE q == sessions[busy[c]].queue  slot == <<q, ahead[q] + 1>>
<1>1. /\ busy[c] # 0 /\ c \notin storing
      /\ pushed_logs + Cardinality(storing) < MaxLogs
      /\ ahead' = [ahead EXCEPT ![q] = @ + 1] /\ storing' = storing \cup {c}
      /\ UNCHANGED <<pushed_logs, eliminated_logs, popping, freeing>>
  BY DEF StoreHead, counters
<1>2. q \in Queues
  <2>1. busy[c] \in 1 .. Len(sessions) /\ sessions[busy[c]].context = c
    BY <1>1 DEF Pairing, OwnSessions
  <2>2. q = c
    BY <2>1, SessionsAreRecords
  <2> QED BY <2>2, ServerAssumption DEF Queues, Contexts
<1> HIDE DEF q
<1>3. /\ pushed_logs \in Nat /\ eliminated_logs \in Nat /\ MaxLogs \in Nat
      /\ ahead \in [Queues -> 0 .. MaxLogs] /\ ahead[q] \in 0 .. MaxLogs
  BY <1>2, TelemetryAssumption DEF Counted
<1>4. ahead[q] + 1 \in 1 .. MaxLogs
  BY <1>1, <1>2, <1>3, AheadIsCounted, CountedSets DEF Counted
<1>5. Outstanding' = Outstanding \cup {slot}
  <2>1. ASSUME NEW p \in Queues, NEW n \in 1 .. MaxLogs
        PROVE  n <= ahead'[p] <=> n <= ahead[p] \/ <<p, n>> = slot
    BY <1>1, <1>2, <1>3, <2>1
  <2>2. slot \in Queues \X (1 .. MaxLogs)
    BY <1>2, <1>4
  <2>3. ASSUME NEW log \in Queues \X (1 .. MaxLogs)
        PROVE  log \in Outstanding' <=> log \in Outstanding \/ log = slot
    <3>1. log[1] \in Queues /\ log[2] \in 1 .. MaxLogs /\ log = <<log[1], log[2]>>
      BY <2>3
    <3>2. log[2] <= ahead'[log[1]] <=> log[2] <= ahead[log[1]] \/ log = slot
      BY <2>1, <3>1
    <3> QED BY <3>2 DEF Outstanding
  <2>4. /\ Outstanding \subseteq Queues \X (1 .. MaxLogs)
        /\ Outstanding' \subseteq Queues \X (1 .. MaxLogs)
    BY DEF Outstanding
  <2> QED BY <2>2, <2>3, <2>4, Zenon
<1>6. slot \notin Outstanding
  BY <1>3 DEF Outstanding
<1> HIDE DEF slot
<1>7. /\ Cardinality(Outstanding') = Cardinality(Outstanding) + 1
      /\ Cardinality(storing') = Cardinality(storing) + 1
  BY <1>1, <1>5, <1>6, CountedSets, FS_AddElement
<1>8. /\ ahead' \in [Queues -> 0 .. MaxLogs] /\ storing' \subseteq Contexts
      /\ \A p \in popping' : ahead'[p] # 0 /\ p \notin freeing'
  BY <1>1, <1>2, <1>3, <1>4 DEF Counted
<1>9. pushed_logs' + Cardinality(storing')
        = eliminated_logs' + Cardinality(freeing') + Cardinality(Outstanding')
  BY <1>1, <1>3, <1>7, CountedSets DEF Counted
<1> QED BY <1>1, <1>8, <1>9 DEF Counted

(* The slot that is freed is the last of those that are occupied.          *)
LEMMA StoreTailStep ==
  ASSUME Counted, NEW q \in Queues, StoreTail(q)
  PROVE  Counted'
<1> DEFINE slot == <<q, ahead[q]>>
<1>1. /\ q \in popping /\ popping' = popping \ {q} /\ freeing' = freeing \cup {q}
      /\ ahead' = [ahead EXCEPT ![q] = @ - 1]
      /\ UNCHANGED <<pushed_logs, eliminated_logs, storing>>
  BY DEF StoreTail, counters
<1>2. /\ pushed_logs \in Nat /\ eliminated_logs \in Nat /\ MaxLogs \in Nat
      /\ ahead \in [Queues -> 0 .. MaxLogs] /\ ahead[q] \in 1 .. MaxLogs /\ q \notin freeing
  BY <1>1, TelemetryAssumption DEF Counted
<1>3. Outstanding' = Outstanding \ {slot}
  <2>1. ASSUME NEW p \in Queues, NEW n \in 1 .. MaxLogs
        PROVE  n <= ahead'[p] <=> n <= ahead[p] /\ <<p, n>> # slot
    BY <1>1, <1>2, <2>1
  <2>2. ASSUME NEW log \in Queues \X (1 .. MaxLogs)
        PROVE  log \in Outstanding' <=> log \in Outstanding /\ log # slot
    <3>1. log[1] \in Queues /\ log[2] \in 1 .. MaxLogs /\ log = <<log[1], log[2]>>
      BY <2>2
    <3>2. log[2] <= ahead'[log[1]] <=> log[2] <= ahead[log[1]] /\ log # slot
      BY <2>1, <3>1
    <3> QED BY <3>2 DEF Outstanding
  <2>3. /\ Outstanding \subseteq Queues \X (1 .. MaxLogs)
        /\ Outstanding' \subseteq Queues \X (1 .. MaxLogs)
    BY DEF Outstanding
  <2> QED BY <2>2, <2>3, Zenon
<1>4. slot \in Outstanding
  BY <1>2 DEF Outstanding
<1> HIDE DEF slot
<1>5. /\ Cardinality(Outstanding') = Cardinality(Outstanding) - 1
      /\ Cardinality(freeing') = Cardinality(freeing) + 1
  BY <1>1, <1>2, <1>3, <1>4, CountedSets, FS_AddElement, FS_RemoveElement
<1>6. /\ ahead' \in [Queues -> 0 .. MaxLogs] /\ freeing' \subseteq Queues
      /\ popping' \subseteq Queues /\ \A p \in popping' : ahead'[p] # 0 /\ p \notin freeing'
  BY <1>1, <1>2 DEF Counted
<1>7. pushed_logs' + Cardinality(storing')
        = eliminated_logs' + Cardinality(freeing') + Cardinality(Outstanding')
  BY <1>1, <1>2, <1>5, CountedSets DEF Counted
<1> QED BY <1>1, <1>2, <1>6, <1>7 DEF Counted

(* Each count follows its store.                                           *)
LEMMA CountingStep ==
  ASSUME Counted,
         \/ \E c \in Contexts : RegisterPushed(c)
         \/ \E q \in Queues : RegisterEliminated(q)
  PROVE  /\ Counted' /\ UNCHANGED samples
         /\ pushed_logs' \in Nat /\ pushed_logs <= pushed_logs'
         /\ eliminated_logs' \in Nat /\ eliminated_logs <= eliminated_logs'
<1>0. pushed_logs \in Nat /\ eliminated_logs \in Nat
  BY DEF Counted
<1>1. ASSUME NEW c \in Contexts, RegisterPushed(c)
      PROVE  /\ Counted' /\ UNCHANGED samples
             /\ pushed_logs' = pushed_logs + 1 /\ eliminated_logs' = eliminated_logs
  <2>1. /\ c \in storing /\ storing' = storing \ {c} /\ pushed_logs' = pushed_logs + 1
        /\ UNCHANGED <<eliminated_logs, ahead, popping, freeing>> /\ UNCHANGED samples
    BY <1>1 DEF RegisterPushed
  <2>2. Outstanding' = Outstanding
    BY <2>1 DEF Outstanding
  <2>3. Cardinality(storing') = Cardinality(storing) - 1
    BY <2>1, CountedSets, FS_RemoveElement
  <2> QED BY <1>0, <2>1, <2>2, <2>3, CountedSets DEF Counted
<1>2. ASSUME NEW q \in Queues, RegisterEliminated(q)
      PROVE  /\ Counted' /\ UNCHANGED samples
             /\ pushed_logs' = pushed_logs /\ eliminated_logs' = eliminated_logs + 1
  <2>1. /\ q \in freeing /\ freeing' = freeing \ {q} /\ eliminated_logs' = eliminated_logs + 1
        /\ UNCHANGED <<pushed_logs, ahead, storing, popping>> /\ UNCHANGED samples
    BY <1>2 DEF RegisterEliminated
  <2>2. Outstanding' = Outstanding
    BY <2>1 DEF Outstanding
  <2>3. Cardinality(freeing') = Cardinality(freeing) - 1
    BY <2>1, CountedSets, FS_RemoveElement
  <2> QED BY <1>0, <2>1, <2>2, <2>3, CountedSets DEF Counted
<1> QED BY <1>0, <1>1, <1>2

(* No log is popped before it is stored: the counters are never further out*)
(* of order than by the pushes under way.                                  *)
LEMMA EliminatedBounded ==
  ASSUME Counted PROVE eliminated_logs <= pushed_logs + Cardinality(storing)
BY CountedSets DEF Counted

(* The invariant.                                                          *)
CountersInv == Pairing /\ Counted /\ Sampled

(* What the sampler saw stays true while the counters grow.                *)
LEMMA SampledStays ==
  ASSUME Counted, Sampled, UNCHANGED samples,
         pushed_logs' \in Nat, pushed_logs <= pushed_logs',
         eliminated_logs' \in Nat, eliminated_logs <= eliminated_logs'
  PROVE  Sampled'
<1> DEFINE all == Cardinality(Contexts)
<1>1. sampler' = sampler /\ pushed' = pushed
  BY DEF samples
<1>2. last_pushed' = last_pushed /\ last_popped' = last_popped
  BY DEF samples
<1>3. pushed_logs \in Nat /\ eliminated_logs \in Nat
  BY DEF Counted
<1>4. /\ pushed \in Nat /\ last_pushed \in Nat /\ last_popped \in Nat
      /\ last_pushed <= pushed_logs /\ last_popped <= eliminated_logs
  BY DEF Sampled
<1>5. last_pushed <= pushed_logs' /\ last_popped <= eliminated_logs'
  BY <1>3, <1>4
<1>6. ASSUME sampler = "load eliminated"
      PROVE  last_pushed <= pushed /\ pushed <= pushed_logs' /\ last_popped <= pushed + all
  <2>1. last_pushed <= pushed /\ pushed <= pushed_logs /\ last_popped <= pushed + all
    BY <1>6 DEF Sampled
  <2>2. pushed <= pushed_logs'
    BY <1>3, <1>4, <2>1
  <2> QED BY <2>1, <2>2
<1> HIDE DEF all
<1>7. sampler \in {"load pushed", "load eliminated"}
  BY DEF Sampled
<1> QED BY <1>1, <1>2, <1>4, <1>5, <1>6, <1>7, Zenon DEF Sampled, all

LEMMA CountersStep ==
  ASSUME ThreadNum >= 2, CountersInv, [TelemetryNext]_sharedVars
  PROVE  CountersInv'
<1>0. Pairing /\ Counted /\ Sampled /\ Pairing'
  BY ServerMovesAlone, StepPairing DEF CountersInv
<1> SUFFICES Counted' /\ Sampled'
  BY <1>0 DEF CountersInv
<1>s. Sampled
  BY <1>0
<1>c. Counted
  BY <1>0
<1>a. pushed_logs \in Nat /\ eliminated_logs \in Nat
  BY <1>c DEF Counted
<1>b. /\ last_pushed \in Nat /\ last_popped \in Nat /\ pushed \in Nat
      /\ last_pushed <= pushed_logs /\ last_popped <= eliminated_logs
  BY <1>s DEF Sampled
<1>1. ASSUME UNCHANGED samples, Counted', UNCHANGED counters PROVE Counted' /\ Sampled'
  <2>1. pushed_logs' = pushed_logs /\ eliminated_logs' = eliminated_logs
    BY <1>1 DEF counters
  <2>2. pushed_logs <= pushed_logs' /\ eliminated_logs <= eliminated_logs'
    BY <1>a, <2>1
  <2>3. pushed_logs' \in Nat /\ eliminated_logs' \in Nat
    BY <1>a, <2>1
  <2>4. Sampled'
    BY <1>s, <1>c, <1>1, <2>2, <2>3, SampledStays, Zenon
  <2> QED BY <1>1, <2>4, Zenon
<1>2. ASSUME UNCHANGED counters, UNCHANGED queues PROVE Counted'
  <2>1. UNCHANGED <<pushed_logs, eliminated_logs, ahead, storing, popping, freeing>>
    BY <1>2 DEF counters, queues
  <2>2. Outstanding' = Outstanding
    BY <2>1 DEF Outstanding
  <2> QED BY <1>0, <2>1, <2>2 DEF Counted
<1>3. ASSUME NEW c \in Contexts, StoreHead(c) PROVE Counted' /\ Sampled'
  <2>1. Counted'
    BY <1>0, <1>3, StoreHeadStep
  <2> QED BY <1>1, <1>3, <2>1 DEF StoreHead
<1>4. ASSUME NEW q \in Queues, FindLog(q) PROVE Counted' /\ Sampled'
  <2>1. /\ q \notin freeing /\ popping' = popping \cup {q} /\ ahead[q] % Capacity # 0
        /\ UNCHANGED <<ahead, storing, freeing>>
        /\ UNCHANGED counters /\ UNCHANGED samples
    BY <1>4 DEF FindLog, Occupied
  <2>2. ahead[q] # 0
    <3>1. Capacity \in Nat \ {0}
      BY TelemetryAssumption
    <3>2. 0 % Capacity = 0
      BY <3>1
    <3> QED BY <2>1, <3>2
  <2>3. /\ pushed_logs' = pushed_logs /\ eliminated_logs' = eliminated_logs
        /\ Outstanding' = Outstanding
    BY <2>1 DEF counters, Outstanding
  <2>4. \A p \in popping' : ahead'[p] # 0 /\ p \notin freeing'
    BY <1>0, <2>1, <2>2 DEF Counted
  <2>5. Counted'
    BY <1>0, <2>1, <2>3, <2>4 DEF Counted
  <2> QED BY <1>1, <2>1, <2>5
<1>5. ASSUME NEW q \in Queues, StoreTail(q) PROVE Counted' /\ Sampled'
  <2>1. Counted'
    BY <1>0, <1>5, StoreTailStep
  <2> QED BY <1>1, <1>5, <2>1 DEF StoreTail
<1>6. CASE \/ \E c \in Contexts : RegisterPushed(c)
           \/ \E q \in Queues : RegisterEliminated(q)
  <2>1. /\ Counted' /\ UNCHANGED samples
        /\ pushed_logs' \in Nat /\ pushed_logs <= pushed_logs'
        /\ eliminated_logs' \in Nat /\ eliminated_logs <= eliminated_logs'
    BY <1>c, <1>6, CountingStep
  <2>2. Sampled'
    BY <1>s, <1>c, <2>1, SampledStays, Zenon
  <2> QED BY <2>1, <2>2, Zenon
<1>7. CASE LoadPushed
  <2>1. /\ sampler' = "load eliminated" /\ pushed' = pushed_logs
        /\ last_pushed' = last_pushed /\ last_popped' = last_popped
        /\ UNCHANGED counters /\ UNCHANGED queues
    BY <1>7 DEF LoadPushed
  <2>2. pushed_logs' = pushed_logs /\ eliminated_logs' = eliminated_logs
    BY <2>1 DEF counters
  <2>3. last_popped <= pushed_logs + Cardinality(Contexts)
    <3>1. eliminated_logs <= pushed_logs + Cardinality(storing)
      BY <1>0, EliminatedBounded
    <3>2. /\ Cardinality(storing) \in Nat /\ Cardinality(Contexts) \in Nat
          /\ Cardinality(storing) <= Cardinality(Contexts)
      BY <1>0, CountedSets
    <3> QED BY <1>a, <1>b, <3>1, <3>2
  <2>4. pushed_logs <= pushed_logs
    BY <1>a
  <2>a. sampler' \in {"load pushed", "load eliminated"} /\ Contexts' = Contexts
    BY <2>1 DEF Contexts
  <2>b. /\ pushed' = pushed_logs
        /\ last_pushed' = last_pushed /\ last_popped' = last_popped
    BY <2>1
  <2>5. Sampled'
    BY <1>a, <1>b, <2>a, <2>b, <2>2, <2>3, <2>4, Zenon DEF Sampled
  <2> QED BY <1>2, <2>1, <2>5
<1>8. CASE GetVelocity
  <2>1. /\ sampler = "load eliminated" /\ sampler' = "load pushed"
        /\ last_pushed' = pushed /\ last_popped' = eliminated_logs /\ pushed' = pushed
        /\ UNCHANGED counters /\ UNCHANGED queues
    BY <1>8 DEF GetVelocity
  <2>2. pushed_logs' = pushed_logs /\ eliminated_logs' = eliminated_logs
    BY <2>1 DEF counters
  <2>a. sampler = "load eliminated"
    BY <2>1
  <2>b. sampler' \in {"load pushed", "load eliminated"} /\ sampler' # "load eliminated"
    BY <2>1
  <2>c. last_pushed' = pushed /\ last_popped' = eliminated_logs /\ pushed' = pushed
    BY <2>1
  <2>3. pushed <= pushed_logs
    BY <1>s, <2>a DEF Sampled
  <2>4. eliminated_logs <= eliminated_logs
    BY <1>a
  <2>5. Sampled'
    BY <1>a, <1>b, <2>b, <2>c, <2>2, <2>3, <2>4, Zenon DEF Sampled
  <2> QED BY <1>2, <2>1, <2>5
<1>9. CASE ServerStep \/ UNCHANGED sharedVars
  <2>1. UNCHANGED telemetryVars
    BY <1>9 DEF ServerStep, sharedVars
  <2>2. UNCHANGED counters /\ UNCHANGED queues /\ UNCHANGED samples
    BY <2>1 DEF telemetryVars
  <2>3. Counted'
    BY <1>2, <2>2
  <2> QED BY <1>1, <2>2, <2>3
<1> QED BY <1>0, <1>3, <1>4, <1>5, <1>6, <1>7, <1>8, <1>9 DEF TelemetryNext

(* With two queues or more.                                                *)
LEMMA CountersInvariant == ThreadNum >= 2 => (TelemetrySpec => []CountersInv)
<1> SUFFICES ASSUME ThreadNum >= 2 PROVE TelemetrySpec => []CountersInv
  OBVIOUS
<1>1. TelemetryInit => CountersInv
  <2> SUFFICES ASSUME TelemetryInit PROVE CountersInv
    OBVIOUS
  <2>1. Pairing
    BY ServerMovesAlone, InitPairing
  <2>a. /\ pushed_logs = 0 /\ eliminated_logs = 0 /\ ahead = [q \in Queues |-> 0]
        /\ storing = {} /\ popping = {} /\ freeing = {}
    BY DEF TelemetryInit
  <2>2. Outstanding = {}
    <3>1. ASSUME NEW log \in Queues \X (1 .. MaxLogs) PROVE ~ (log[2] <= ahead[log[1]])
      <4>1. log[1] \in Queues /\ log[2] \in 1 .. MaxLogs
        BY <3>1
      <4>2. ahead[log[1]] = 0
        BY <2>a, <4>1
      <4> QED BY <4>1, <4>2, TelemetryAssumption
    <3> QED BY <3>1 DEF Outstanding
  <2>3. Counted
    <3>1. Cardinality(storing) = 0 /\ Cardinality(freeing) = 0 /\ Cardinality(Outstanding) = 0
      BY <2>a, <2>2, FS_EmptySet
    <3>2. 0 \in 0 .. MaxLogs
      BY TelemetryAssumption
    <3>3. ahead \in [Queues -> 0 .. MaxLogs]
      BY <2>a, <3>2
    <3> QED BY <2>a, <3>1, <3>3 DEF Counted
  <2>4. Sampled
    <3>1. /\ sampler = "load pushed" /\ pushed = 0 /\ last_pushed = 0 /\ last_popped = 0
      BY DEF TelemetryInit
    <3>2. sampler # "load eliminated"
      BY <3>1
    <3>3. 0 \in Nat /\ 0 <= 0
      OBVIOUS
    <3> QED BY <2>a, <3>1, <3>2, <3>3, Zenon DEF Sampled
  <2> QED BY <2>1, <2>3, <2>4 DEF CountersInv
<1>2. CountersInv /\ [TelemetryNext]_sharedVars => CountersInv'
  BY CountersStep
<1> QED BY <1>1, <1>2, PTL DEF TelemetrySpec

(* The counters and the locals keep their types (Telemetry.h:14-18).       *)
THEOREM TelemetryTypeCorrect == ThreadNum >= 2 => (TelemetrySpec => []TelemetryTypeOK)
<1>1. CountersInv => TelemetryTypeOK
  BY DEF CountersInv, Counted, Sampled, TelemetryTypeOK
<1> QED BY <1>1, CountersInvariant, PTL

(* Whatever queues there are, and whether or not they are overrun, the     *)
(* shared counters differ by what waits in all of them, up to the calls    *)
(* that are between a cursor and its count (LogQueue.cpp:75-78, 113-115).  *)
THEOREM CountersAgree == ThreadNum >= 2 => (TelemetrySpec => []TelemetryAgrees)
<1>1. CountersInv => TelemetryAgrees
  BY EliminatedBounded DEF CountersInv, Counted, TelemetryAgrees
<1> QED BY <1>1, CountersInvariant, PTL

(* update_telemetry() never finds a counter below what it saw before, and  *)
(* never prints fewer logs pushed than it printed popped before, but for   *)
(* one for each network thread (Telemetry.cpp:9-10, 29-38).                *)
THEOREM VelocitiesAreSound == ThreadNum >= 2 => (TelemetrySpec => []SamplesAdvance)
<1>1. CountersInv => SamplesAdvance
  BY DEF CountersInv, Sampled, SamplesAdvance
<1> QED BY <1>1, CountersInvariant, PTL
=============================================================================
