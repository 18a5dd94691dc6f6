----------------------------- MODULE BoundedFifo -----------------------------
(***************************************************************************)
(* What a log queue promises to the session that feeds it and to the       *)
(* worker that empties it: a FIFO of at most Bound logs.  A log offered    *)
(* to it is taken in or refused, and it is refused only when the queue is  *)
(* full or closed.  Core::LogQueue under the profile DropAll (the one      *)
(* engine/VortexEngine/config.json selects) implements this module: see    *)
(* ImplementsFifo in LogQueue.tla.                                         *)
(***************************************************************************)
EXTENDS Naturals, Sequences

CONSTANTS Bound,  \* the most logs the queue holds
          Logs    \* the logs that can be offered

VARIABLES queue,      \* the logs inside, oldest first
          delivered,  \* the logs taken out, in the order they were
          refused,    \* the logs that were turned away
          open        \* FALSE once the owner has finished the queue
vars == <<queue, delivered, refused, open>>

Init == /\ queue = << >>
        /\ delivered = << >>
        /\ refused = {}
        /\ open \in BOOLEAN   \* a queue whose memory cannot be had is born closed

(* A log that is being put in when the queue closes may still get in.      *)
Offer(log) == /\ Len(queue) < Bound
              /\ queue' = Append(queue, log)
              /\ UNCHANGED <<delivered, refused, open>>

Refuse(log) == /\ Len(queue) = Bound \/ ~open
               /\ refused' = refused \cup {log}
               /\ UNCHANGED <<queue, delivered, open>>

Take == /\ queue # << >>
        /\ queue' = Tail(queue)
        /\ delivered' = Append(delivered, Head(queue))
        /\ UNCHANGED <<refused, open>>

Close == /\ open' = FALSE
         /\ UNCHANGED <<queue, delivered, refused>>

Next == \/ \E log \in Logs : Offer(log) \/ Refuse(log)
        \/ Take
        \/ Close

Spec == Init /\ [][Next]_vars
=============================================================================
