---------------------------- MODULE NetworkSession ----------------------------
(***************************************************************************)
(* Network::NetworkSession with its MagicRingBuffer: one client's byte     *)
(* stream, cut into reads at arbitrary places, put together in the stash   *)
(* buffer and cut into logs again; and the end of the session.             *)
(*                                                                         *)
(* A session runs on one network thread, one handler at a time.  The steps *)
(* of a handler are the actions below; the client, the kernel and the      *)
(* posted close come in between where the code lets them.                  *)
(*                                                                         *)
(* What the bytes are is left out: a message is a frame (signature,        *)
(* length, payload) or a line of text, of some length, and the parser      *)
(* accepts it or disconnects.  The stash is the two cumulative indices     *)
(* head and tail into the stream; the mirrored mapping makes any Size      *)
(* bytes from either of them on contiguous.                                *)
(***************************************************************************)
EXTENDS Integers, Sequences

CONSTANTS Size,         \* of the stash, std::bit_floor(max_size * 1024 * 1024)
          Slack,        \* 32: what max_log_size is smaller by
          MinSpace,     \* 1024: the least room a read is started with
          SigBytes,     \* 4: the signature of a frame
          HeaderBytes,  \* 8: the signature and the length
          Shapes,       \* the messages clients send
          MaxMessages   \* bound on the messages of the client

ASSUME SessionAssumption ==
  /\ Size \in Nat /\ MaxMessages \in Nat
  /\ HeaderBytes \in Nat /\ SigBytes \in 1 .. HeaderBytes
  /\ Slack \in HeaderBytes .. Size
  /\ MinSpace \in Nat /\ Slack <= MinSpace /\ MinSpace + HeaderBytes <= Size
  /\ Shapes \subseteq [kind : {"frame", "text"}, len : Nat, valid : BOOLEAN]

VARIABLES
  sent, connected,              \* the client: its messages; FALSE once it has left
  bounds,                       \* where in the stream each message starts, and the end
  head, tail,                   \* the stash
  parsed,                       \* history: the messages handed to CurrentParser
  pc,                           \* what the session does next
  space, transferred,           \* the read under way: its room, the bytes it brought
  is_closing, close_posted, socket_open

client  == <<sent, bounds, connected>>
stash   == <<head, tail, parsed>>
read    == <<space, transferred>>
closing == <<is_closing, close_posted, socket_open>>
sessionVars == <<client, stash, pc, read, closing>>

max_log_size == Size - Slack

(* The bytes of a message in the stream, its header or newline included.   *)
Bytes(m) == IF m.kind = "frame" THEN HeaderBytes + m.len ELSE m.len + 1
StreamEnd == bounds[Len(sent) + 1]

Available == head - tail

WriteSpaceMutant == Size - Available + 1
WriteSpace == Size - Available

(* The message whose first byte is at tail.                                *)
Pending  == parsed < Len(sent)
Upcoming == sent[parsed + 1]

Oversized(m) == m.len = 0 \/ m.len > max_log_size

SessionInit ==
  /\ sent = <<>> /\ bounds = <<0>> /\ connected = TRUE
  /\ head = 0 /\ tail = 0 /\ parsed = 0
  /\ pc = "header" /\ space = 0 /\ transferred = 0
  /\ is_closing = FALSE /\ close_posted = FALSE /\ socket_open = TRUE

----------------------------------------------------------------------------
(* The client.  A message is appended to the stream as a whole; how much   *)
(* of it a read brings, and whether the rest ever comes, is left open.     *)

Send(m) ==
  /\ connected /\ Len(sent) < MaxMessages
  /\ sent' = Append(sent, m) /\ bounds' = Append(bounds, StreamEnd + Bytes(m))
  /\ UNCHANGED <<connected, stash, pc, read, closing>>

Disappear ==
  /\ connected /\ connected' = FALSE
  /\ UNCHANGED <<sent, bounds, stash, pc, read, closing>>

----------------------------------------------------------------------------
(* disconnect() and handle_error(): the first to set is_closing posts the  *)
(* close, which runs as a handler of its own.                              *)
DisconnectMutant ==
  /\ is_closing' = TRUE
  /\ close_posted' = (close_posted \/ is_closing)
  /\ UNCHANGED socket_open
Disconnect ==
  /\ is_closing' = TRUE
  /\ close_posted' = (close_posted \/ ~ is_closing)
  /\ UNCHANGED socket_open

PostedClose ==
  /\ close_posted /\ pc \in {"reading", "completed", "gone"}
  /\ close_posted' = FALSE /\ socket_open' = FALSE
  /\ UNCHANGED <<client, stash, pc, read, is_closing>>

----------------------------------------------------------------------------
(* read_header(): a read is started with all the room there is, or the     *)
(* stash is gone through once more, or the session is given up.            *)

StartRead ==
  /\ WriteSpace >= MinSpace
  /\ space' = WriteSpace /\ pc' = "reading"
  /\ UNCHANGED <<client, stash, transferred, closing>>

ReadHeader ==
  /\ pc = "header"
  /\ \/ StartRead
     \/ /\ WriteSpace < MinSpace
        /\ pc' = "restash"
        /\ UNCHANGED <<client, stash, read, closing>>

(* The second test.  RestashIsFutile below: there is never more room now.  *)
ReadHeaderAgain ==
  /\ pc = "header2"
  /\ IF WriteSpace >= MinSpace
       THEN StartRead
       ELSE pc' = "gone" /\ Disconnect /\ UNCHANGED <<client, stash, read>>

(* The kernel completes the read, with as many bytes as it likes of those  *)
(* that are there, or with an error once the socket is closed on either    *)
(* side.  The handler runs later: the posted close may come first.         *)
Receive ==
  /\ pc = "reading" /\ socket_open
  /\ \E n \in 1 .. space : head + n <= StreamEnd /\ transferred' = n
  /\ pc' = "completed"
  /\ UNCHANGED <<client, stash, space, closing>>

ReadFails ==
  /\ pc = "reading" /\ ~ (socket_open /\ connected)
  /\ transferred' = 0 /\ pc' = "completed"
  /\ UNCHANGED <<client, stash, space, closing>>

HandleRead ==
  /\ pc = "completed" /\ transferred > 0
  /\ head' = head + transferred /\ pc' = "stash"
  /\ space' = 0 /\ transferred' = 0
  /\ UNCHANGED <<client, tail, parsed, closing>>

HandleError ==
  /\ pc = "completed" /\ transferred = 0
  /\ pc' = "gone" /\ Disconnect
  /\ space' = 0 /\ UNCHANGED <<client, stash, transferred>>

----------------------------------------------------------------------------
(* process_stash(): one action per turn of its loop.  Whatever the parser  *)
(* does, disconnecting included, the loop goes on behind the message.      *)

InStash == pc \in {"stash", "restash"}
Return  == pc' = IF pc = "stash" THEN "header" ELSE "header2"

HasSignature == Available >= SigBytes

RefusedFrame ==
  /\ HasSignature /\ Upcoming.kind = "frame"
  /\ Available >= HeaderBytes /\ Oversized(Upcoming)

RefusedTextMutant ==
  /\ HasSignature /\ Upcoming.kind = "text"
  /\ Available > max_log_size
RefusedText ==
  /\ HasSignature /\ Upcoming.kind = "text"
  /\ Available < Bytes(Upcoming) /\ Available > max_log_size

ParsableMutant ==
  /\ HasSignature /\ ~ RefusedFrame /\ ~ RefusedText
  /\ Available > Bytes(Upcoming)
Parsable ==
  /\ HasSignature /\ ~ RefusedFrame /\ ~ RefusedText
  /\ Available >= Bytes(Upcoming)

ConsumedMutant(m) == IF m.kind = "frame" THEN HeaderBytes + m.len ELSE m.len
Consumed(m) == IF m.kind = "frame" THEN HeaderBytes + m.len ELSE m.len + 1

ParseAndConsumeMutant ==
  /\ InStash /\ Parsable
  /\ tail' = tail + Consumed(Upcoming) /\ parsed' = parsed + 1
  /\ IF Upcoming.valid THEN UNCHANGED closing ELSE Disconnect
  /\ Return
  /\ UNCHANGED <<client, head, read>>
ParseAndConsume ==
  /\ InStash /\ Parsable
  /\ tail' = tail + Consumed(Upcoming) /\ parsed' = parsed + 1
  /\ IF Upcoming.valid THEN UNCHANGED closing ELSE Disconnect
  /\ UNCHANGED <<client, head, pc, read>>

Refuse ==
  /\ InStash /\ (RefusedFrame \/ RefusedText)
  /\ Return /\ Disconnect
  /\ UNCHANGED <<client, stash, read>>

AwaitMore ==
  /\ InStash /\ ~ RefusedFrame /\ ~ RefusedText /\ ~ Parsable
  /\ Return
  /\ UNCHANGED <<client, stash, read, closing>>

Handler == \/ ReadHeader \/ ReadHeaderAgain \/ HandleRead \/ HandleError
           \/ ParseAndConsume \/ Refuse \/ AwaitMore
Kernel == Receive \/ ReadFails

SessionNext ==
  \/ \E m \in Shapes : Send(m)
  \/ Disappear \/ Kernel \/ Handler \/ PostedClose

SessionSpec == SessionInit /\ [][SessionNext]_sessionVars

(* The network thread runs what is ready, in the end, and TCP delivers.    *)
(* The client owes nothing.                                                *)
FairSessionSpec == SessionSpec /\ WF_sessionVars(Handler)
                     /\ WF_sessionVars(Kernel) /\ WF_sessionVars(PostedClose)

----------------------------------------------------------------------------
(* The indices and the flags have their types.                             *)
SessionTypeOK ==
  /\ sent \in Seq(Shapes) /\ Len(sent) <= MaxMessages /\ connected \in BOOLEAN
  /\ bounds \in Seq(Nat) /\ Len(bounds) = Len(sent) + 1
  /\ head \in Nat /\ tail \in Nat /\ parsed \in 0 .. Len(sent)
  /\ pc \in {"header", "reading", "completed", "stash", "restash", "header2", "gone"}
  /\ space \in 0 .. Size /\ transferred \in 0 .. Size
  /\ is_closing \in BOOLEAN /\ close_posted \in BOOLEAN /\ socket_open \in BOOLEAN

(* However the stream is cut into reads, tail is at the first byte of the  *)
(* first message not yet parsed: process_stash() (LogServer.cpp:128-183)   *)
(* never loses step with the client.                                       *)
InStep == tail = bounds[parsed + 1] /\ head \in tail .. StreamEnd

(* A read is started with the room of that moment and completes later: it  *)
(* never brings more than the stash still has room for, so the mirrored    *)
(* mapping never folds new bytes over unparsed ones (LogServer.cpp:99-117).*)
UnparsedBytesSurvive ==
  /\ Available <= Size
  /\ pc \in {"reading", "completed"} => transferred <= space /\ space <= Size - Available

(* No read is started while a whole log lies in the stash: a client that   *)
(* waits for nothing more to be sent would otherwise wait for ever         *)
(* (LogServer.cpp:118-119).                                                *)
NoWholeLogWaits ==
  pc = "reading" /\ Pending /\ HasSignature /\ Available >= Bytes(Upcoming)
    => Upcoming.kind = "frame" /\ Oversized(Upcoming)

(* The second process_stash() of read_header() (LogServer.cpp:102) never   *)
(* frees anything: a stash without room for a read holds one log that is   *)
(* not whole or not legal, and the session has to go.                      *)
RestashIsFutile == pc = "header2" => WriteSpace < MinSpace

(* What gives the session a reason to close: a log the parser rejects, a   *)
(* frame of illegal length, or a log of which all but the last byte does   *)
(* not leave room for a read.  The last one is narrower than the limit     *)
(* max_log_size that the code states: see the README.                      *)
Culprit(m) == \/ ~ m.valid
              \/ m.kind = "frame" /\ Oversized(m)
              \/ Bytes(m) > Size - MinSpace + 1

(* A session of a client that is there and has sent nothing wrong is never *)
(* closed: every disconnect() and handle_error() has its culprit among the *)
(* logs up to the one at tail.                                             *)
DisconnectsJustified ==
  is_closing => \/ ~ connected
                \/ \E i \in 1 .. Len(sent) : i <= parsed + 1 /\ Culprit(sent[i])

(* What a client that stays has sent gets parsed, unless the session is    *)
(* closed first; except that process_stash() leaves a last line of fewer   *)
(* than four bytes, newline included, where it is (LogServer.cpp:133).     *)
LogsAreParsed ==
  \A i \in 1 .. MaxMessages :
    i <= Len(sent) ~> \/ parsed >= i \/ is_closing \/ ~ connected
                      \/ StreamEnd - tail < SigBytes

(* A session that is closing, or whose client is gone, ends: its socket    *)
(* gets closed and its last handler returns without starting a read        *)
(* (LogServer.cpp:320-355).                                                *)
SessionsEnd == (is_closing \/ ~ connected) ~> (pc = "gone" /\ ~ socket_open)
=============================================================================
