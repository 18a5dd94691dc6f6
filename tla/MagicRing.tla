------------------------------ MODULE MagicRing ------------------------------
(***************************************************************************)
(* Network::MagicRingBuffer: the stash of a session.  One section of       *)
(* memory is mapped twice, side by side, so that what lies between the     *)
(* cursors is contiguous wherever it begins; the cursors only grow, in an  *)
(* unsigned type that wraps.                                               *)
(*                                                                         *)
(* An address is an offset from base_ptr.  A byte of the stream is its     *)
(* number in the stream.  Stash puts the ring under a session.             *)
(***************************************************************************)
EXTENDS RingSizes

VARIABLES size,
          portal,              \* how far start_portal() is, or what became of it
          held,                \* what the process holds for the ring
          memory,              \* the bytes of the section
          head, tail,
          received, consumed   \* history: bytes that came in and that were used up

ringVars == <<size, portal, held, memory, head, tail, received, consumed>>
unportal == <<size, memory, head, tail, received, consumed>>

Views == {"viewA", "viewB"}

----------------------------------------------------------------------------
(* The constructor and start_portal(): any of the calls may fail, and what *)
(* follows throws.                                                         *)

MagicRingInit ==
  /\ size \in Sizes /\ portal = "new" /\ held = {}
  /\ memory = [a \in 0 .. size - 1 |-> 0]
  /\ head = 0 /\ tail = 0 /\ received = 0 /\ consumed = 0

Attempt(from, holding, to, succeeded, failed) ==
  /\ portal = from
  /\ \/ holding /\ portal' = to /\ held' = succeeded
     \/ portal' = "threw" /\ held' = failed
  /\ UNCHANGED unportal

CheckSize ==
  Attempt("new", size # 0 /\ size % Granularity = 0, "checked", held, held)

ReserveRange == Attempt("checked", TRUE, "reserved", {"range"}, {})

SplitRange == Attempt("reserved", TRUE, "split", {"lower", "upper"}, {})

CreateSection ==
  Attempt("split", size % DwordRange # 0, "section", held \cup {"section"}, held)

(* A view takes the place of a half of the range.                          *)
MapViewA ==
  Attempt("section", size % DwordRange = size, "mapped A",
          (held \ {"lower"}) \cup {"viewA"}, held \ {"section"})

MapViewBMutant ==
  Attempt("mapped A", TRUE, "ready", (held \ {"upper"}) \cup {"viewB"},
          held \ {"section"})
MapViewB ==
  Attempt("mapped A", TRUE, "ready", (held \ {"upper"}) \cup {"viewB"},
          held \ {"viewA", "section"})

(* free_portal(), by the destructor, which a constructor that throws does  *)
(* not get to.                                                             *)
FreePortal ==
  /\ portal = "ready" /\ portal' = "freed"
  /\ held' = held \ {"viewB", "viewA", "section"}
  /\ UNCHANGED unportal

----------------------------------------------------------------------------
(* The operations of a ring that is there.                                 *)

Wrap(cursor) == cursor % CursorRange
BytesAvailable == Wrap(head - tail)
WriteSpaceMutant == size - BytesAvailable + 1
WriteSpace == size - BytesAvailable

AddressOfMutant(cursor) == cursor % (size + 1)
AddressOf(cursor) == cursor % size

(* Both views show the one section.                                        *)
Mapped(address) == address \in 0 .. 2 * size - 1
ByteAt(address) == IF address < size THEN address ELSE address - size

(* async_read_some() fills get_write_ptr() .. with some of the bytes there *)
(* is room for; commit_write().                                            *)
Receive(n) ==
  /\ portal = "ready" /\ n <= WriteSpace /\ received + n <= MaxReceived
  /\ memory' = [b \in DOMAIN memory |->
                  IF \E k \in 0 .. n - 1 : b = ByteAt(AddressOf(head) + k)
                    THEN 1 + received + (CHOOSE k \in 0 .. n - 1 :
                                           b = ByteAt(AddressOf(head) + k))
                    ELSE memory[b]]
  /\ head' = Wrap(head + n) /\ received' = received + n
  /\ UNCHANGED <<size, portal, held, tail, consumed>>

(* consume(), of what there is.                                            *)
Consume(n) ==
  /\ portal = "ready" /\ n <= BytesAvailable
  /\ tail' = Wrap(tail + n) /\ consumed' = consumed + n
  /\ UNCHANGED <<size, portal, held, memory, head, received>>

MagicRingNext ==
  \/ CheckSize \/ ReserveRange \/ SplitRange \/ CreateSection \/ MapViewA \/ MapViewB
  \/ FreePortal
  \/ \E n \in 1 .. size : Receive(n)
  \/ \E n \in 1 .. size : Consume(n)

MagicRingSpec == MagicRingInit /\ [][MagicRingNext]_ringVars

----------------------------------------------------------------------------
(* get_view(len) and peek(usize): the bytes from an address on.            *)
Bytes(address, len) == [k \in 0 .. len - 1 |-> memory[ByteAt(address + k)]]
View(len) == Bytes(AddressOf(tail), len)
Peek(usize) == Bytes(AddressOf(tail + usize), Word)

(* The bytes of the stream behind those that were used up.                 *)
Stream(from, len) == [k \in 0 .. len - 1 |-> 1 + consumed + from + k]

Portals == {"new", "checked", "reserved", "split", "section", "mapped A", "ready",
            "threw", "freed"}

(* The cursors are of the unsigned type, the section is size bytes, the    *)
(* portal is at one of its steps (LogServer.h:242-249).                    *)
MagicRingTypeOK ==
  /\ size \in Sizes /\ portal \in Portals
  /\ held \subseteq {"range", "lower", "upper", "section"} \cup Views
  /\ memory \in [0 .. size - 1 -> Nat]
  /\ head \in 0 .. CursorRange - 1 /\ tail \in 0 .. CursorRange - 1
  /\ received \in 0 .. MaxReceived /\ consumed \in Nat

(* The view of all there is lies within the two views of the section and   *)
(* is the stream in its order, no byte of it overwritten, whatever the     *)
(* position of the cursors and also when they have wrapped                 *)
(* (LogServer.cpp:394-417).                                                *)
ViewIsStream ==
  portal = "ready" =>
    /\ \A k \in 0 .. BytesAvailable - 1 : Mapped(AddressOf(tail) + k)
    /\ View(BytesAvailable) = Stream(0, BytesAvailable)

(* The bytes the kernel is given to write to lie within the two views,     *)
(* and none of them is a byte of the view (LogServer.cpp:101-115, 394-402).*)
RoomIsFree ==
  portal = "ready" =>
    \A k \in 0 .. WriteSpace - 1 :
      /\ Mapped(AddressOf(head) + k)
      /\ \A j \in 0 .. BytesAvailable - 1 :
           ByteAt(AddressOf(head) + k) # ByteAt(AddressOf(tail) + j)

(* The signature and the length of a frame are read where the stream has   *)
(* them, also across the end of the section (LogServer.cpp:135, 141, 425). *)
PeekIsStream ==
  portal = "ready" =>
    \A usize \in {0, Word} : usize + Word <= BytesAvailable =>
      /\ \A k \in 0 .. Word - 1 : Mapped(AddressOf(tail + usize) + k)
      /\ Peek(usize) = Stream(usize, Word)

(* A ring that could not be made, or that is gone, holds no memory: what a *)
(* failed constructor keeps is at most reserved addresses                  *)
(* (LogServer.cpp:443-467, 470-475).                                       *)
NoMemoryLost ==
  /\ portal \in {"threw", "freed"} => held \cap (Views \cup {"section"}) = {}
  /\ portal = "freed" => held = {}
=============================================================================
