---------------------------- MODULE ThreadManager ----------------------------
(***************************************************************************)
(* ThreadManager::ThreadManager: one log queue with the worker that empties*)
(* it, the network thread whose sessions fill it, and stop_threads().      *)
(*                                                                         *)
(* The worker calls pop() from three places of its body, spins, and parks  *)
(* on head with std::atomic::wait, which blocks only while head still holds*)
(* the value the worker loaded.  stop_threads() is the class's operation   *)
(* and may be called at any time; in this program only ~ThreadManager()    *)
(* calls it, and main() never gets there (README.md).                      *)
(***************************************************************************)
EXTENDS LogQueue

CONSTANTS SpinLimit,  \* spincounter at which the worker parks: 500
          MaxClients  \* bound on the sessions of the network thread

ASSUME SpinAssumption == SpinLimit \in Nat /\ MaxClients \in Nat

VARIABLES
  wpc, spincounter, currenthead,  \* the worker: its next step and its locals
  accepting,                      \* the server's accept handler is running
  clients,                        \* sessions of the network thread's context
  network,                        \* the network thread is running
  spc,                            \* the step stop_threads() has reached
  is_on,
  samplers                        \* time_thread and telemetry_thread, while they run

workerVars == <<wpc, spincounter, currenthead>>
stopVars   == <<spc, is_on, samplers>>
netVars    == <<accepting, clients, network>>
tmVars == <<wpc, spincounter, currenthead, accepting, clients, network,
            spc, is_on, samplers>>
allVars == <<vars, tmVars>>

TMInit ==
  /\ Init
  /\ wpc = "loop" /\ spincounter = 0 /\ currenthead = 0
  /\ accepting = FALSE /\ clients = 0 /\ network = TRUE
  /\ spc = "none" /\ is_on = TRUE
  /\ samplers = {"time_thread", "telemetry_thread"}

-----------------------------------------------------------------------------
(* The accept handler, on the thread inside io_context_.run().  stop()     *)
(* keeps the next one from running and does not wait for this one, which   *)
(* may open a session at any step of stop_threads().                       *)

AcceptBegins == /\ spc = "none" /\ ~accepting /\ clients < MaxClients
                /\ accepting' = TRUE
                /\ UNCHANGED <<vars, workerVars, clients, network, stopVars>>

Connect == /\ accepting /\ accepting' = FALSE
           /\ clients' \in {clients, clients + 1}   \* the former on an error
           /\ UNCHANGED <<vars, workerVars, network, stopVars>>

(* The network thread.  A session reads and pushes inside one handler, so  *)
(* that it leaves only between calls of push(); once the thread has left   *)
(* raw_ctx->run() nobody runs the handlers of a session that comes late.   *)

Leave == /\ network /\ clients > 0 /\ ppc = "idle"
         /\ clients' = clients - 1
         /\ UNCHANGED <<vars, workerVars, accepting, network, stopVars>>

SessionPushes == \E level \in Levels : /\ network /\ clients > 0
                                       /\ PushCall(level)
                                       /\ UNCHANGED tmVars

(* head.notify_one() makes a parked worker look at head again.             *)
NotifyWorkerMutant == PushNotify /\ UNCHANGED tmVars
NotifyWorker ==
  /\ PushNotify
  /\ wpc' = IF wpc = "parked" THEN "wait" ELSE wpc
  /\ UNCHANGED <<spincounter, currenthead, netVars, stopVars>>

PushStep == \/ NotifyWorker
            \/ /\ \/ PushHasRoom \/ PushOverflow \/ PushSpinEnds \/ PushRecheck
                  \/ PushWrite \/ PushPublish \/ PushRegister
                  \/ PushWatermark \/ PushTrip
               /\ UNCHANGED tmVars

(* raw_ctx->run() returns when the guards are gone and no session is left. *)
NetworkExits == /\ network /\ spc # "none"
                /\ clients = 0 /\ ppc = "idle"
                /\ network' = FALSE
                /\ UNCHANGED <<vars, workerVars, accepting, clients, stopVars>>

-----------------------------------------------------------------------------
(* The worker.  Its steps "loop", "recheck" and "drain" are calls of pop().*)

Resume == [loop    |-> [true |-> "loop",  false |-> "running?"],
           recheck |-> [true |-> "loop",  false |-> "wait"],
           drain   |-> [true |-> "drain", false |-> "exited"]]

WorkerCallsPop == /\ wpc \in DOMAIN Resume
                  /\ PopCall
                  /\ UNCHANGED tmVars

WorkerInPop == /\ \/ PopIsEmpty \/ PopRecheck \/ PopCopy \/ PopFree
                  \/ PopRegister \/ PopWatermark \/ PopReset
               /\ UNCHANGED tmVars

PopReturns == /\ PopReturn
              /\ wpc' = Resume[wpc][cpc]
              /\ UNCHANGED <<spincounter, currenthead, netVars, stopVars>>

Patient == spincounter < SpinLimit

WorkerIdles ==
  /\ wpc = "running?"
  /\ \/ ~is_running /\ wpc' = "drain" /\ UNCHANGED spincounter
     \/ /\ is_running /\ Patient
        /\ wpc' = "loop" /\ spincounter' = spincounter + 1
     \/ is_running /\ ~Patient /\ wpc' = "load" /\ UNCHANGED spincounter
  /\ UNCHANGED <<vars, currenthead, netVars, stopVars>>

WorkerLoadsHead ==
  /\ wpc = "load"
  /\ wpc' = "recheck"
  /\ currenthead' = head
  /\ UNCHANGED <<vars, spincounter, netVars, stopVars>>

WorkerWaits ==
  /\ wpc = "wait"
  /\ \/ head = currenthead /\ wpc' = "parked" /\ UNCHANGED spincounter
     \/ head # currenthead /\ wpc' = "loop" /\ spincounter' = 0
  /\ UNCHANGED <<vars, currenthead, netVars, stopVars>>

Worker == \/ WorkerCallsPop \/ WorkerInPop \/ PopReturns
          \/ WorkerIdles \/ WorkerLoadsHead \/ WorkerWaits

-----------------------------------------------------------------------------
(* stop_threads().  Its first step is LogServer::stop() up to the joins.   *)

StopGoTo(step) == /\ spc' = step
                  /\ UNCHANGED <<workerVars, netVars, samplers>>

StopBegins == /\ spc = "none" /\ StopGoTo("join network")
              /\ UNCHANGED <<vars, is_on>>

StopJoinsNetworkMutant == /\ spc = "join network" /\ StopGoTo("finish")
                          /\ UNCHANGED <<vars, is_on>>
StopJoinsNetwork == /\ spc = "join network" /\ ~network /\ StopGoTo("finish")
                    /\ UNCHANGED <<vars, is_on>>

StopFinishes == /\ spc = "finish" /\ StopGoTo("turn off")
                /\ SetFinished
                /\ UNCHANGED is_on

StopTurnsOffMutant == /\ spc = "turn off" /\ StopGoTo("join workers")
                      /\ UNCHANGED <<vars, is_on>>
StopTurnsOff == /\ spc = "turn off" /\ StopGoTo("join workers")
                /\ is_on' = FALSE
                /\ UNCHANGED vars

(* The queues are destroyed in this step, with their rings and slab pools. *)
StopJoinsWorkersMutant == /\ spc = "join workers" /\ StopGoTo("join samplers")
                          /\ UNCHANGED <<vars, is_on>>
StopJoinsWorkers == /\ spc = "join workers" /\ wpc = "exited" /\ StopGoTo("join samplers")
                    /\ UNCHANGED <<vars, is_on>>

StopJoinsSamplers == /\ spc = "join samplers" /\ samplers = {} /\ StopGoTo("stopped")
                     /\ UNCHANGED <<vars, is_on>>

SamplerExits == /\ ~is_on
                /\ \E thread \in samplers : samplers' = samplers \ {thread}
                /\ UNCHANGED <<vars, workerVars, netVars, spc, is_on>>

Stop == \/ StopJoinsNetwork \/ StopFinishes \/ StopTurnsOff
        \/ StopJoinsWorkers \/ StopJoinsSamplers

-----------------------------------------------------------------------------
TMNext == \/ AcceptBegins \/ Connect \/ Leave \/ SessionPushes \/ PushStep \/ NetworkExits
          \/ Worker
          \/ StopBegins \/ Stop \/ SamplerExits

TMSpec == TMInit /\ [][TMNext]_allVars

(* The operating system runs every thread that can run: a push() in        *)
(* progress, the worker, the end of the network thread, an accept handler, *)
(* stop_threads() once called, and the samplers.  Nothing makes a client   *)
(* connect, send, or leave, nor anyone call stop_threads().                *)
Fairness == /\ WF_allVars(PushStep) /\ WF_allVars(NetworkExits)
            /\ WF_allVars(Worker) /\ WF_allVars(Connect)
            /\ WF_allVars(Stop) /\ WF_allVars(SamplerExits)

FairSpec == TMSpec /\ Fairness

-----------------------------------------------------------------------------
(* The locals of the worker and the members of ThreadManager keep their    *)
(* types (ThreadManager.h:24-34).                                          *)
TMTypeOK ==
  /\ TypeOK
  /\ wpc \in {"loop", "running?", "load", "recheck", "wait", "parked", "drain", "exited"}
  /\ spincounter \in 0..SpinLimit
  /\ currenthead \in Index
  /\ clients \in 0..MaxClients
  /\ accepting \in BOOLEAN /\ network \in BOOLEAN /\ is_on \in BOOLEAN
  /\ spc \in {"none", "join network", "finish", "turn off", "join workers",
              "join samplers", "stopped"}
  /\ samplers \subseteq {"time_thread", "telemetry_thread"}

(* No wakeup is lost: while the queue runs, a worker is parked on an empty *)
(* ring, or on one whose push() is about to notify it, although it loaded  *)
(* head, called pop() and waited in three steps (ThreadManager.cpp:111-115)*)
NoLostWakeup ==
  wpc = "parked" /\ is_running /\ ~lapped => head = tail \/ ppc = "notify"

(* stop_threads() joins the network threads before set_finished(), so no   *)
(* push() is under way in a queue that finishes (ThreadManager.cpp:136-144)*)
FinishedQueueIsQuiet == ~is_running => ppc = "idle" /\ ~network

(* The queues are cleared only when neither thread can touch them again,   *)
(* also if a session has come while stop_threads() was at work: nobody     *)
(* runs its handlers (ThreadManager.cpp:148-156, LogServer.cpp:49).        *)
QueuesOutliveUsers ==
  spc \in {"join samplers", "stopped"} =>
    /\ wpc = "exited" /\ cpc = "idle"
    /\ ~network /\ ppc = "idle"

(* Every log that is published is delivered, unless the queue is finished  *)
(* first: the worker neither stays parked nor spins past it.               *)
EventuallyDelivered ==
  \A n \in 1..MaxLogs :
    Len(published) >= n ~> Len(delivered) >= n \/ ~is_running

(* stop_threads() gets through the join of the network threads once no     *)
(* client is left and no accept handler can bring one; and it returns if   *)
(* the worker is not on its way to park when the queue is finished, as     *)
(* set_finished() wakes nobody (ThreadManager.cpp:111-115, 134-166,        *)
(* LogQueue.cpp:93-96).                                                    *)
StopGetsOn ==
  /\ spc = "join network" /\ clients = 0 /\ ~accepting ~> spc = "turn off"
  /\ spc = "turn off" /\ wpc \notin {"load", "recheck", "wait", "parked"} ~> spc = "stopped"
=============================================================================
