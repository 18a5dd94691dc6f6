-------------------------------- MODULE Stash --------------------------------
(***************************************************************************)
(* A NetworkSession on its MagicRingBuffer.  The session asks for Size     *)
(* bytes, runs once they are mapped, commits what each read has brought,   *)
(* consumes what it has parsed, and frees the ring when its last handler   *)
(* is gone.  A ring that cannot be had throws in a noexcept constructor:   *)
(* there is no session then.                                               *)
(*                                                                         *)
(* NetworkSession counts positions in the stream; the ring has the bytes   *)
(* and cursors that wrap.  That the two agree is what is to be shown.      *)
(***************************************************************************)
EXTENDS NetworkSession, RingSizes

VARIABLES size, portal, held, memory, write_cursor, read_cursor, received, consumed

Ring == INSTANCE MagicRing WITH head <- write_cursor, tail <- read_cursor

ringVars == <<size, portal, held, memory, write_cursor, read_cursor, received, consumed>>
stashVars == <<sessionVars, ringVars>>

StashInit == SessionInit /\ Ring!MagicRingInit

(* The constructor of the session, as far as it is that of the ring.       *)
MapStash ==
  /\ \/ Ring!CheckSize \/ Ring!ReserveRange \/ Ring!SplitRange
     \/ Ring!CreateSection \/ Ring!MapViewA \/ Ring!MapViewB
  /\ UNCHANGED sessionVars

Running == portal = "ready" /\ size = Size

CommitRead    == Running /\ HandleRead /\ Ring!Receive(transferred)
ParseInPlace  == Running /\ ParseAndConsume /\ Ring!Consume(Consumed(Upcoming))
HandlerAround ==
  /\ Running
  /\ ReadHeader \/ ReadHeaderAgain \/ HandleError \/ Refuse \/ AwaitMore
  /\ UNCHANGED ringVars

(* The client, the kernel and the posted close do not touch the cursors.   *)
KernelAround == Running /\ Kernel /\ UNCHANGED ringVars
CloseAround  == Running /\ PostedClose /\ UNCHANGED ringVars
ClientAround == Running /\ ((\E m \in Shapes : Send(m)) \/ Disappear) /\ UNCHANGED ringVars

(* The handlers own the session; the destructor runs behind the last.      *)
FreeStash ==
  /\ Running /\ pc = "gone" /\ ~ close_posted
  /\ Ring!FreePortal /\ UNCHANGED sessionVars

StashHandler == CommitRead \/ ParseInPlace \/ HandlerAround

StashNext == \/ MapStash \/ StashHandler \/ FreeStash
             \/ ClientAround \/ KernelAround \/ CloseAround

(* The fairness of FairSessionSpec.  A ring owes nothing: it may fail.     *)
StashSpec ==
  /\ StashInit /\ [][StashNext]_stashVars
  /\ WF_stashVars(StashHandler) /\ WF_stashVars(KernelAround) /\ WF_stashVars(CloseAround)

----------------------------------------------------------------------------
(* What the parser is given of the ring, however the reads fell and the    *)
(* session consumed, is the stream from tail on, in place                  *)
(* (LogServer.cpp:149-180, 414-417).                                       *)
ViewIsStream == Ring!ViewIsStream

(* The room a read of the session is started with lies in the ring and has *)
(* no byte that waits for the parser (LogServer.cpp:99-115, 394-402).      *)
RoomIsFree == Ring!RoomIsFree

(* Neither a ring that could not be mapped nor a session that has ended    *)
(* leaves memory behind (LogServer.cpp:443-467, 470-475).                  *)
NoMemoryLost == Ring!NoMemoryLost
=============================================================================
