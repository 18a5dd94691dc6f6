------------------------------- MODULE LogServer -------------------------------
(***************************************************************************)
(* Network::LogServer: the accept loop on its own io_context, the two      *)
(* worker contexts with a thread each, the queue each session is given,    *)
(* and stop().                                                             *)
(*                                                                         *)
(* What a session does in a handler is in NetworkSession and LogQueue; all *)
(* that counts here is that the thread of its context runs it, one handler *)
(* at a time, and that a handler may push into the session's queue.  Any   *)
(* thread but the one inside io_context_.run() may call stop().            *)
(***************************************************************************)
EXTENDS Integers, Sequences

CONSTANTS ThreadNum,   \* thread_num: the queues of the ThreadManager
          MaxAccepts   \* bound on next_worker_index

ASSUME ServerAssumption == ThreadNum \in Nat \ {0} /\ MaxAccepts \in Nat

VARIABLES
  next_worker_index,
  apc, worker_index,     \* the accept loop: its state, the captured index
  sessions,              \* in the order of their acceptance: [context, queue, open]
  busy,                  \* the session whose handler a context's thread runs, or 0
  alive,                 \* the contexts whose run() has not returned
  spc,                   \* the step stop() has reached
  acceptor_open, io_running, guarded

accept == <<next_worker_index, apc, worker_index>>
threads == <<busy, alive>>
stopping == <<spc, acceptor_open, io_running, guarded>>
serverVars == <<accept, sessions, threads, stopping>>

(* The server has two contexts, whatever thread_num is.                    *)
Contexts == 0 .. 1

WorkerIndex(n) == n % 2

(* start(), up to io_context_.run().                                       *)
ServerInit ==
  /\ next_worker_index = 1 /\ apc = "listening" /\ worker_index = WorkerIndex(0)
  /\ sessions = <<>>
  /\ busy = [c \in Contexts |-> 0] /\ alive = Contexts
  /\ spc = "none" /\ acceptor_open = TRUE /\ io_running = TRUE /\ guarded = TRUE

----------------------------------------------------------------------------
(* start_accept(): the context is chosen before the connection is there.   *)
StartAccept ==
  /\ worker_index' = WorkerIndex(next_worker_index)
  /\ next_worker_index' = next_worker_index + 1
  /\ apc' = "listening"

(* The strand's handler is taken up, with a connection or with an error;   *)
(* once it runs, stop() does not stop it.                                  *)
Accept(outcome) ==
  /\ apc = "listening" /\ io_running /\ next_worker_index < MaxAccepts
  /\ outcome = "accepted" => acceptor_open
  /\ apc' = outcome
  /\ UNCHANGED <<next_worker_index, worker_index, sessions, threads, stopping>>

AssignedQueueMutant == Len(sessions) % ThreadNum
AssignedQueue == worker_index

StartSession ==
  /\ apc = "accepted"
  /\ sessions' = Append(sessions, [context |-> worker_index,
                                   queue |-> AssignedQueue, open |-> TRUE])
  /\ StartAccept
  /\ UNCHANGED <<threads, stopping>>

ReportErrorMutant ==
  /\ apc = "failed" /\ apc' = "returned"
  /\ UNCHANGED <<next_worker_index, worker_index, sessions, threads, stopping>>
ReportError ==
  /\ apc = "failed" /\ StartAccept
  /\ UNCHANGED <<sessions, threads, stopping>>

----------------------------------------------------------------------------
(* The thread of a context: handlers of its sessions, one at a time.       *)

HandlerBegins(s) ==
  LET c == sessions[s].context IN
  /\ sessions[s].open /\ c \in alive /\ busy[c] = 0
  /\ busy' = [busy EXCEPT ![c] = s]
  /\ UNCHANGED <<accept, sessions, alive, stopping>>

(* The session has started its next read, or it is gone.                   *)
HandlerEnds(c) ==
  /\ busy[c] # 0
  /\ busy' = [busy EXCEPT ![c] = 0]
  /\ \/ UNCHANGED sessions
     \/ sessions' = [sessions EXCEPT ![busy[c]].open = FALSE]
  /\ UNCHANGED <<accept, alive, stopping>>

OpenSessions == {s \in 1 .. Len(sessions) : sessions[s].open}

(* run() returns when neither a guard nor a session keeps it.              *)
ThreadExits(c) ==
  /\ c \in alive /\ ~ guarded
  /\ \A s \in OpenSessions : sessions[s].context # c
  /\ alive' = alive \ {c}
  /\ UNCHANGED <<accept, sessions, busy, stopping>>

----------------------------------------------------------------------------
(* stop(), step by step; stop_threads() destroys the queues behind it.     *)

StopClosesAcceptor ==
  /\ spc = "none" /\ spc' = "stop context" /\ acceptor_open' = FALSE
  /\ UNCHANGED <<accept, sessions, threads, io_running, guarded>>

StopsContext ==
  /\ spc = "stop context" /\ spc' = "drop guards" /\ io_running' = FALSE
  /\ UNCHANGED <<accept, sessions, threads, acceptor_open, guarded>>

StopDropsGuardsMutant ==
  /\ spc = "drop guards" /\ spc' = "join"
  /\ UNCHANGED <<accept, sessions, threads, acceptor_open, io_running, guarded>>
StopDropsGuards ==
  /\ spc = "drop guards" /\ spc' = "join" /\ guarded' = FALSE
  /\ UNCHANGED <<accept, sessions, threads, acceptor_open, io_running>>

StopJoinsMutant ==
  /\ spc = "join" /\ spc' = "stopped"
  /\ UNCHANGED <<accept, sessions, threads, acceptor_open, io_running, guarded>>
StopJoins ==
  /\ spc = "join" /\ alive = {} /\ spc' = "stopped"
  /\ UNCHANGED <<accept, sessions, threads, acceptor_open, io_running, guarded>>

Thread(c) == HandlerEnds(c) \/ ThreadExits(c)
StopGoesOn == StopsContext \/ StopDropsGuards \/ StopJoins

ServerNext ==
  \/ \E outcome \in {"accepted", "failed"} : Accept(outcome)
  \/ StartSession \/ ReportError
  \/ \E s \in 1 .. Len(sessions) : HandlerBegins(s)
  \/ \E c \in Contexts : Thread(c)
  \/ StopClosesAcceptor \/ StopGoesOn

(* Handlers end, threads without work return, stop() goes on once called.  *)
(* Clients need neither come nor send nor leave.                           *)
ServerSpec ==
  /\ ServerInit /\ [][ServerNext]_serverVars
  /\ WF_serverVars(StartSession \/ ReportError) /\ WF_serverVars(StopGoesOn)
  /\ \A c \in Contexts : WF_serverVars(Thread(c))

----------------------------------------------------------------------------
(* The members and the captured index have their types (LogServer.h:209-229)*)
ServerTypeOK ==
  /\ next_worker_index \in Nat /\ worker_index \in Contexts
  /\ apc \in {"listening", "accepted", "failed"}
  /\ sessions \in Seq([context : Contexts, queue : Nat, open : BOOLEAN])
  /\ busy \in [Contexts -> 0 .. Len(sessions)] /\ alive \subseteq Contexts
  /\ spc \in {"none", "stop context", "drop guards", "join", "stopped"}
  /\ acceptor_open \in BOOLEAN /\ io_running \in BOOLEAN /\ guarded \in BOOLEAN

(* push() is written for one thread (LogQueue.cpp:41-75): the sessions that*)
(* share a queue share the thread that runs them, in whatever order they   *)
(* are accepted and whatever accepts fail in between.                      *)
OneThreadPerQueue ==
  \A c, d \in Contexts :
    c # d /\ busy[c] # 0 /\ busy[d] # 0
      => sessions[busy[c]].queue # sessions[busy[d]].queue

(* ptr_queue[worker_index] (LogServer.cpp:75) is one of the queues that    *)
(* ThreadManager has made, of which there are thread_num.                  *)
QueueExists == \A s \in 1 .. Len(sessions) : sessions[s].queue < ThreadNum

(* When stop() returns every thread is past its last handler, and so is    *)
(* every session, one accepted behind the back of stop() included, whose   *)
(* context nobody runs any more: the queues may go (LogServer.cpp:44-63,   *)
(* ThreadManager.cpp:155-156).                                             *)
NothingRunsAfterStop ==
  spc = "stopped" => \A c \in Contexts : busy[c] = 0 /\ c \notin alive

(* Neither an accepted connection nor a failed accept ends the accept loop *)
(* (LogServer.cpp:71-85): the server listens again.                        *)
AcceptLoopGoesOn == apc # "listening" ~> apc = "listening"

(* stop() waits for nothing but clients: it returns, unless a client is    *)
(* connected, whose session it does not close (LogServer.cpp:44-63).       *)
StopWaitsForClientsOnly ==
  spc = "join" ~> (spc = "stopped" \/ OpenSessions # {})
=============================================================================
