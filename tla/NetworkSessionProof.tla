-------------------------- MODULE NetworkSessionProof --------------------------
(***************************************************************************)
(* The safety properties of NetworkSession for every size of the stash,    *)
(* every set of messages and every way of cutting the stream into reads.   *)
(*                                                                         *)
(* The inductive invariant adds to the properties themselves: where the    *)
(* messages lie in the stream; that nothing parsable is left in the stash  *)
(* outside process_stash(); that the second pass over the stash is only    *)
(* reached when it is crowded; and what a read that failed says about the  *)
(* socket.  At the end, that the session on its ring is a session, and     *)
(* drives the ring by its operations.                                      *)
(***************************************************************************)
EXTENDS Stash, TLAPS

Layout == \A i \in 1 .. Len(sent) : bounds[i + 1] = bounds[i] + Bytes(sent[i])

NothingParsable ==
  pc \in {"header", "restash", "header2", "reading", "completed"} => ~ Parsable

Crowded == pc \in {"restash", "header2"} => WriteSpace < MinSpace

ReadResult == /\ pc # "completed" => transferred = 0
              /\ pc = "completed" /\ transferred = 0 => ~ connected \/ is_closing
              /\ pc = "completed" => head + transferred <= StreamEnd
              /\ close_posted \/ ~ socket_open => is_closing

Stashed == SessionTypeOK /\ Layout /\ InStep /\ UnparsedBytesSurvive

IInv == Stashed /\ NothingParsable /\ Crowded /\ ReadResult /\ DisconnectsJustified

----------------------------------------------------------------------------
(* Every message takes at least a byte of the stream.                      *)
LEMMA BytesOfMessage ==
  ASSUME NEW m \in Shapes
  PROVE  /\ Bytes(m) \in Nat \ {0} /\ Consumed(m) = Bytes(m)
         /\ m.len \in Nat /\ m.kind \in {"frame", "text"}
<1>1. m \in [kind : {"frame", "text"}, len : Nat, valid : BOOLEAN]
  BY SessionAssumption
<1>2. m.len \in Nat /\ m.kind \in {"frame", "text"}
  BY <1>1
<1> QED BY <1>2, SessionAssumption DEF Bytes, Consumed

(* Bytes in the stash belong to a message of the client's that ends where  *)
(* the next one begins.                                                    *)
LEMMA UpcomingMessage ==
  ASSUME Stashed, Available > 0
  PROVE  /\ Pending /\ Upcoming \in Shapes
         /\ bounds[parsed + 2] = tail + Bytes(Upcoming)
<1>1. /\ Len(sent) \in Nat /\ parsed \in 0 .. Len(sent) /\ tail \in Nat /\ head \in Nat
      /\ sent \in Seq(Shapes)
  BY DEF Stashed, SessionTypeOK
<1>2. tail = bounds[parsed + 1] /\ head <= bounds[Len(sent) + 1]
  BY DEF Stashed, InStep, StreamEnd
<1>3. Pending
  BY <1>1, <1>2 DEF Available, Pending
<1>4. parsed + 1 \in 1 .. Len(sent)
  BY <1>1, <1>3 DEF Pending
<1>5. Upcoming \in Shapes
  BY <1>1, <1>4 DEF Upcoming
<1>6. bounds[(parsed + 1) + 1] = bounds[parsed + 1] + Bytes(sent[parsed + 1])
  BY <1>4 DEF Stashed, Layout
<1>7. (parsed + 1) + 1 = parsed + 2
  BY <1>1
<1> QED BY <1>2, <1>3, <1>5, <1>6, <1>7 DEF Upcoming

(* What process_stash() finds depends on the client's messages and on the  *)
(* stash alone.                                                            *)
LEMMA SameStash ==
  ASSUME UNCHANGED <<sent, bounds, head, tail, parsed>>
  PROVE  /\ Parsable' <=> Parsable
         /\ Layout' <=> Layout
         /\ InStep' <=> InStep
         /\ WriteSpace' = WriteSpace
         /\ Available' = Available
         /\ StreamEnd' = StreamEnd
<1>1. WriteSpace' = WriteSpace /\ Available' = Available /\ Upcoming' = Upcoming
  BY DEF WriteSpace, Available, Upcoming
<1>2. Parsable' <=> Parsable
  BY <1>1 DEF Parsable, RefusedFrame, RefusedText, HasSignature
<1>3. Layout' <=> Layout
  BY DEF Layout
<1>4. InStep' <=> InStep
  BY DEF InStep, StreamEnd
<1>5. StreamEnd' = StreamEnd
  BY DEF StreamEnd
<1> QED BY <1>1, <1>2, <1>3, <1>4, <1>5

(* The initial state satisfies the invariant.                              *)
LEMMA InitIInv == SessionInit => IInv
<1> SUFFICES ASSUME SessionInit PROVE IInv
  OBVIOUS
<1>1. Stashed
  <2>1. /\ sent = <<>> /\ Len(sent) = 0 /\ bounds = <<0>> /\ bounds[1] = 0
        /\ head = 0 /\ tail = 0 /\ parsed = 0 /\ space = 0 /\ transferred = 0
    BY DEF SessionInit
  <2>2. SessionTypeOK
    <3>1. sent \in Seq(Shapes) /\ bounds \in Seq(Nat) /\ Len(bounds) = 1
      BY <2>1
    <3>2. 0 \in 0 .. Size /\ 0 <= MaxMessages
      BY SessionAssumption
    <3>3. /\ Len(sent) <= MaxMessages /\ Len(bounds) = Len(sent) + 1
          /\ head \in Nat /\ tail \in Nat /\ parsed \in 0 .. Len(sent)
          /\ space \in 0 .. Size /\ transferred \in 0 .. Size
      BY <2>1, <3>1, <3>2
    <3>4. /\ pc = "header" /\ connected = TRUE
          /\ is_closing = FALSE /\ close_posted = FALSE /\ socket_open = TRUE
      BY DEF SessionInit
    <3> QED BY <3>1, <3>3, <3>4 DEF SessionTypeOK
  <2>3. Layout /\ InStep
    BY <2>1 DEF Layout, InStep, StreamEnd
  <2>4. UnparsedBytesSurvive
    BY <2>1, SessionAssumption DEF SessionInit, UnparsedBytesSurvive, Available
  <2> QED BY <2>2, <2>3, <2>4 DEF Stashed
<1>2. NothingParsable
  BY SessionAssumption DEF SessionInit, NothingParsable, Parsable, HasSignature, Available
<1> QED BY <1>1, <1>2 DEF SessionInit, IInv, Crowded, ReadResult, DisconnectsJustified

----------------------------------------------------------------------------
(* A message more at the end of the stream changes nothing for those that  *)
(* are in the stash.                                                       *)
LEMMA SendStep == ASSUME IInv, NEW m \in Shapes, Send(m) PROVE IInv'
<1>1. /\ sent \in Seq(Shapes) /\ bounds \in Seq(Nat) /\ Len(bounds) = Len(sent) + 1
      /\ parsed \in 0 .. Len(sent) /\ head \in Nat /\ tail \in Nat
      /\ Len(sent) \in Nat /\ MaxMessages \in Nat /\ Len(sent) < MaxMessages
  BY SessionAssumption DEF IInv, Stashed, SessionTypeOK, Send
<1>2. StreamEnd \in Nat /\ Bytes(m) \in Nat
  BY <1>1, BytesOfMessage DEF StreamEnd
<1>3. /\ sent' \in Seq(Shapes) /\ Len(sent') = Len(sent) + 1
      /\ sent'[Len(sent) + 1] = m
      /\ \A i \in 1 .. Len(sent) : sent'[i] = sent[i]
  <2>1. sent' = Append(sent, m)
    BY DEF Send
  <2> QED BY <1>1, <2>1
<1>4. /\ bounds' \in Seq(Nat) /\ Len(bounds') = Len(sent) + 2
      /\ bounds'[Len(sent) + 2] = StreamEnd + Bytes(m)
      /\ \A i \in 1 .. Len(sent) + 1 : bounds'[i] = bounds[i]
  <2> DEFINE end == StreamEnd + Bytes(m)
  <2>1. bounds' = Append(bounds, end)
    BY DEF Send
  <2>2. end \in Nat
    BY <1>2
  <2> HIDE DEF end
  <2>3. /\ bounds' \in Seq(Nat) /\ Len(bounds') = Len(bounds) + 1
        /\ bounds'[Len(bounds) + 1] = end
        /\ \A i \in 1 .. Len(bounds) : bounds'[i] = bounds[i]
    BY <1>1, <2>1, <2>2
  <2>4. Len(bounds) + 1 = Len(sent) + 2
    BY <1>1
  <2> QED BY <1>1, <2>3, <2>4, Zenon DEF end
<1>5. UNCHANGED <<connected, head, tail, parsed, pc, space, transferred,
                  is_closing, close_posted, socket_open>>
  BY DEF Send, stash, read, closing
<1>6. SessionTypeOK'
  <2>1. SessionTypeOK
    BY Zenon DEF IInv, Stashed
  <2>2. /\ Len(sent') <= MaxMessages /\ Len(bounds') = Len(sent') + 1
        /\ parsed' \in 0 .. Len(sent')
    <3> DEFINE l == Len(sent)  l1 == Len(sent')  b1 == Len(bounds')
    <3>1. /\ l \in Nat /\ MaxMessages \in Nat /\ l < MaxMessages /\ parsed \in 0 .. l
          /\ l1 = l + 1 /\ b1 = l + 2 /\ parsed' = parsed
      BY <1>1, <1>3, <1>4, <1>5, Zenon
    <3> HIDE DEF l, l1, b1
    <3>2. l1 <= MaxMessages /\ b1 = l1 + 1 /\ parsed' \in 0 .. l1
      BY <3>1
    <3> QED BY <3>2 DEF l1, b1
  <2> QED BY <2>1, <2>2, <1>3, <1>4, <1>5, Zenon DEF SessionTypeOK
<1>7. Layout'
  <2> SUFFICES ASSUME NEW i \in 1 .. Len(sent) + 1
               PROVE  bounds'[i + 1] = bounds'[i] + Bytes(sent'[i])
    BY <1>3 DEF Layout, Bytes
  <2>1. CASE i \in 1 .. Len(sent)
    <3>1. bounds[i + 1] = bounds[i] + Bytes(sent[i])
      BY <2>1 DEF IInv, Stashed, Layout
    <3>2. i + 1 \in 1 .. Len(sent) + 1 /\ i \in 1 .. Len(sent) + 1
      <4> DEFINE l == Len(sent)
      <4>1. l \in Nat /\ i \in 1 .. l
        BY <2>1, <1>1
      <4> HIDE DEF l
      <4>2. i + 1 \in 1 .. l + 1 /\ i \in 1 .. l + 1
        BY <4>1
      <4> QED BY <4>2 DEF l
    <3>4. sent'[i] = sent[i]
      BY <2>1, <1>3, Zenon
    <3>3. bounds'[i + 1] = bounds[i + 1] /\ bounds'[i] = bounds[i]
      BY <3>2, <1>4
    <3> QED BY <3>1, <3>3, <3>4, Zenon
  <2>2. CASE i = Len(sent) + 1
    <3>1. i + 1 = Len(sent) + 2 /\ i \in 1 .. Len(sent) + 1
      BY <2>2, <1>1
    <3>2. sent'[i] = m /\ bounds'[i + 1] = StreamEnd + Bytes(m)
      BY <2>2, <3>1, <1>3, <1>4
    <3>3. bounds'[i] = bounds[Len(sent) + 1]
      BY <2>2, <3>1, <1>4
    <3>4. StreamEnd = bounds[Len(sent) + 1]
      BY <1>1 DEF StreamEnd
    <3> QED BY <3>2, <3>3, <3>4, Zenon
  <2> QED BY <2>1, <2>2, <1>1
<1>8. InStep'
  <2>1. tail = bounds[parsed + 1] /\ head \in tail .. StreamEnd
    BY DEF IInv, Stashed, InStep
  <2>2. bounds'[parsed + 1] = bounds[parsed + 1]
    BY <1>1, <1>4
  <2>3. StreamEnd' = StreamEnd + Bytes(m)
    <3>1. StreamEnd' = bounds'[(Len(sent) + 1) + 1]
      BY <1>3 DEF StreamEnd
    <3> QED BY <3>1, <1>1, <1>4
  <2>4. head \in tail .. StreamEnd + Bytes(m)
    <3>1. \A e, n, h, t \in Nat : h \in t .. e => h \in t .. e + n
      OBVIOUS
    <3> QED BY <3>1, <2>1, <1>1, <1>2, Zenon
  <2> QED BY <2>1, <2>2, <2>3, <2>4, <1>5 DEF InStep
<1>9. UnparsedBytesSurvive'
  BY <1>5 DEF IInv, Stashed, UnparsedBytesSurvive, Available
<1>10. Parsable' => Parsable
  <2>1. Available' = Available /\ HasSignature' = HasSignature
    BY <1>5 DEF Available, HasSignature
  <2>2. CASE Available > 0
    <3>1. parsed + 1 \in 1 .. Len(sent)
      BY <2>2, <1>1, UpcomingMessage DEF IInv, Pending
    <3>2. Upcoming' = Upcoming
      BY <3>1, <1>3, <1>5 DEF Upcoming
    <3> QED BY <2>1, <3>2 DEF Parsable, RefusedFrame, RefusedText
  <2>3. CASE ~ (Available > 0)
    BY <2>1, <2>3, <1>1, SessionAssumption DEF Parsable, HasSignature, Available
  <2> QED BY <2>2, <2>3
<1>11. NothingParsable' /\ Crowded'
  BY <1>5, <1>10 DEF IInv, NothingParsable, Crowded, WriteSpace, Available
<1>13. ReadResult'
  <2>1. transferred \in Nat /\ transferred' = transferred /\ head' = head
    BY <1>5, SessionAssumption DEF IInv, Stashed, SessionTypeOK
  <2>2. StreamEnd' = StreamEnd + Bytes(m)
    <3>1. StreamEnd' = bounds'[(Len(sent) + 1) + 1]
      BY <1>3 DEF StreamEnd
    <3> QED BY <3>1, <1>1, <1>4
  <2>3. head + transferred <= StreamEnd => head + transferred <= StreamEnd + Bytes(m)
    BY <2>1, <1>1, <1>2
  <2>4. pc' = "completed" => head' + transferred' <= StreamEnd'
    BY <2>1, <2>2, <2>3, <1>5 DEF IInv, ReadResult
  <2> QED BY <2>4, <1>5 DEF IInv, ReadResult
<1>12. DisconnectsJustified'
  <2> SUFFICES ASSUME is_closing', connected'
               PROVE  \E i \in 1 .. Len(sent') : i <= parsed' + 1 /\ Culprit(sent'[i])
    BY DEF DisconnectsJustified, Culprit
  <2>1. is_closing /\ connected /\ parsed' = parsed
    BY <1>5
  <2>2. PICK i \in 1 .. Len(sent) : i <= parsed + 1 /\ Culprit(sent[i])
    BY <2>1 DEF IInv, DisconnectsJustified
  <2>3. i \in 1 .. Len(sent') /\ sent'[i] = sent[i]
    BY <1>1, <1>3
  <2>4. Culprit(sent'[i])
    BY <2>2, <2>3
  <2> QED BY <2>1, <2>2, <2>3, <2>4
<1> QED BY <1>6, <1>7, <1>8, <1>9, <1>11, <1>12, <1>13 DEF IInv, Stashed

(* A client that is gone is a reason to disconnect.                        *)
LEMMA DisappearStep == ASSUME IInv, Disappear PROVE IInv'
<1>1. /\ UNCHANGED <<sent, bounds, head, tail, parsed, pc, space, transferred,
                     is_closing, close_posted, socket_open>>
      /\ connected' = FALSE
  BY DEF Disappear, stash, read, closing
<1>2. Stashed'
  BY <1>1, SameStash DEF IInv, Stashed, SessionTypeOK, UnparsedBytesSurvive
<1>3. NothingParsable' /\ Crowded' /\ ReadResult' /\ DisconnectsJustified'
  BY <1>1, SameStash DEF IInv, NothingParsable, Crowded, ReadResult, DisconnectsJustified
<1> QED BY <1>2, <1>3 DEF IInv

(* The posted close needs no reason of its own: it was posted with one.    *)
LEMMA CloseStep == ASSUME IInv, PostedClose PROVE IInv'
<1>1. /\ UNCHANGED <<sent, bounds, connected, head, tail, parsed, pc, space, transferred,
                     is_closing>>
      /\ close_posted' = FALSE /\ socket_open' = FALSE
  BY DEF PostedClose, client, stash, read
<1>2. is_closing
  BY DEF PostedClose, IInv, ReadResult
<1>3. Stashed'
  BY <1>1, SameStash DEF IInv, Stashed, SessionTypeOK, UnparsedBytesSurvive
<1>4. NothingParsable' /\ Crowded' /\ ReadResult' /\ DisconnectsJustified'
  BY <1>1, <1>2, SameStash DEF IInv, NothingParsable, Crowded, ReadResult, DisconnectsJustified
<1> QED BY <1>3, <1>4 DEF IInv

----------------------------------------------------------------------------
(* disconnect() and handle_error() leave a closing session behind.         *)
LEMMA Disconnecting ==
  ASSUME Disconnect, close_posted \in BOOLEAN, is_closing \in BOOLEAN
  PROVE  /\ is_closing' = TRUE /\ close_posted' \in BOOLEAN
         /\ socket_open' = socket_open
<1>1. close_posted' = (close_posted \/ ~ is_closing)
  BY DEF Disconnect
<1> QED BY <1>1 DEF Disconnect

(* A handler that leaves the stash alone keeps what is known of it.        *)
LEMMA QuietStep ==
  ASSUME IInv, UNCHANGED <<client, stash>>,
         pc' \in {"header", "reading", "completed", "restash", "header2", "gone"},
         space' \in 0 .. Size, transferred' \in 0 .. Size,
         pc' \in {"reading", "completed"} =>
             transferred' <= space' /\ space' <= Size - Available,
         is_closing' \in BOOLEAN, close_posted' \in BOOLEAN, socket_open' \in BOOLEAN
  PROVE  Stashed'
<1>1. UNCHANGED <<sent, bounds, connected, head, tail, parsed>>
  BY DEF client, stash
<1>2. SessionTypeOK' /\ UnparsedBytesSurvive'
  BY <1>1, SameStash DEF IInv, Stashed, SessionTypeOK, UnparsedBytesSurvive
<1> QED BY <1>1, <1>2, SameStash DEF IInv, Stashed

(* A read is started with no more than the room there is.                  *)
LEMMA StartReadStep ==
  ASSUME IInv, StartRead, pc \in {"header", "header2"}
  PROVE  IInv'
<1>1. /\ UNCHANGED <<sent, bounds, connected, head, tail, parsed, transferred,
                     is_closing, close_posted, socket_open>>
      /\ space' = WriteSpace /\ WriteSpace >= MinSpace /\ pc' = "reading"
  BY DEF StartRead, client, stash, closing
<1>2. /\ head \in Nat /\ tail \in Nat /\ Available <= Size /\ tail <= head
      /\ Size \in Nat /\ MinSpace \in Nat /\ transferred = 0
  BY SessionAssumption DEF IInv, Stashed, SessionTypeOK, UnparsedBytesSurvive, InStep, ReadResult
<1>3. space' \in 0 .. Size /\ space' = Size - Available /\ transferred' = 0 /\ 0 <= space'
  BY <1>1, <1>2 DEF WriteSpace, Available
<1>4. Stashed'
  <2>1. is_closing' \in BOOLEAN /\ close_posted' \in BOOLEAN /\ socket_open' \in BOOLEAN
    BY <1>1 DEF IInv, Stashed, SessionTypeOK
  <2>2. Available \in Int
    BY <1>2 DEF Available
  <2> QED BY <1>1, <1>2, <1>3, <2>1, <2>2, QuietStep DEF client, stash
<1>5. NothingParsable' /\ Crowded' /\ ReadResult' /\ DisconnectsJustified'
  BY <1>1, <1>2, SameStash DEF IInv, NothingParsable, Crowded, ReadResult, DisconnectsJustified
<1> QED BY <1>4, <1>5 DEF IInv

(* Without room, the stash is gone through again.                          *)
LEMMA ReadHeaderStep == ASSUME IInv, ReadHeader PROVE IInv'
<1>1. CASE StartRead
  BY <1>1, StartReadStep DEF ReadHeader
<1>2. CASE WriteSpace < MinSpace /\ pc' = "restash" /\ UNCHANGED <<client, stash, read, closing>>
  <2>1. /\ UNCHANGED <<sent, bounds, connected, head, tail, parsed, space, transferred,
                       is_closing, close_posted, socket_open>>
        /\ pc = "header" /\ pc' = "restash" /\ WriteSpace < MinSpace
    BY <1>2 DEF ReadHeader, client, stash, read, closing
  <2>2. Stashed'
    BY <2>1, SameStash DEF IInv, Stashed, SessionTypeOK, UnparsedBytesSurvive
  <2>3. NothingParsable' /\ Crowded' /\ ReadResult' /\ DisconnectsJustified'
    BY <2>1, SameStash DEF IInv, NothingParsable, Crowded, ReadResult, DisconnectsJustified
  <2> QED BY <2>2, <2>3 DEF IInv
<1> QED BY <1>1, <1>2 DEF ReadHeader

(* A stash that has no room for a read holds a log that is not parsable,   *)
(* and that log is a culprit.                                              *)
LEMMA CrowdedByCulprit ==
  ASSUME IInv, WriteSpace < MinSpace, ~ Parsable
  PROVE  Pending /\ Culprit(Upcoming)
<1>1. /\ head \in Nat /\ tail \in Nat /\ Size \in Nat /\ MinSpace \in Nat
      /\ Slack \in Nat /\ SigBytes \in Nat /\ HeaderBytes \in Nat
      /\ Slack <= MinSpace /\ MinSpace + HeaderBytes <= Size /\ SigBytes <= HeaderBytes
  BY SessionAssumption DEF IInv, Stashed, SessionTypeOK
<1>2. Available \in Int /\ Available > Size - MinSpace
  BY <1>1 DEF WriteSpace, Available
<1>3. HasSignature /\ Available > 0
  BY <1>1, <1>2, SessionAssumption DEF HasSignature
<1>4. Pending /\ Upcoming \in Shapes
  BY <1>3, UpcomingMessage DEF IInv
<1>5. Bytes(Upcoming) \in Nat
  BY <1>4, BytesOfMessage
<1>6. CASE RefusedFrame
  BY <1>4, <1>6 DEF RefusedFrame, Culprit
<1>7. CASE RefusedText \/ Available < Bytes(Upcoming)
  BY <1>1, <1>2, <1>4, <1>5, <1>7 DEF RefusedText, Culprit
<1> QED BY <1>2, <1>3, <1>5, <1>6, <1>7 DEF Parsable

(* The upcoming log is among the first parsed + 1.                         *)
LEMMA UpcomingJustifies ==
  ASSUME Stashed, Pending, Culprit(Upcoming)
  PROVE  \E i \in 1 .. Len(sent) : i <= parsed + 1 /\ Culprit(sent[i])
<1>1. parsed + 1 \in 1 .. Len(sent) /\ parsed + 1 <= parsed + 1
  BY DEF Stashed, SessionTypeOK, Pending
<1> QED BY <1>1 DEF Upcoming

(* The session is given up: there is a culprit.                            *)
LEMMA ReadHeaderAgainStep == ASSUME IInv, ReadHeaderAgain PROVE IInv'
<1>1. CASE WriteSpace >= MinSpace
  BY <1>1, StartReadStep DEF ReadHeaderAgain
<1>2. CASE ~ (WriteSpace >= MinSpace)
  <2>1. /\ UNCHANGED <<sent, bounds, connected, head, tail, parsed, space, transferred>>
        /\ pc = "header2" /\ pc' = "gone" /\ Disconnect
    BY <1>2 DEF ReadHeaderAgain, client, stash, read
  <2>2. is_closing' = TRUE /\ close_posted' \in BOOLEAN /\ socket_open' = socket_open
    BY <2>1, Disconnecting DEF IInv, Stashed, SessionTypeOK
  <2>3. WriteSpace < MinSpace /\ ~ Parsable
    BY <2>1 DEF IInv, Crowded, NothingParsable
  <2>4. \E i \in 1 .. Len(sent) : i <= parsed + 1 /\ Culprit(sent[i])
    BY <2>3, CrowdedByCulprit, UpcomingJustifies DEF IInv
  <2>5. Stashed'
    BY <2>1, <2>2, SameStash DEF IInv, Stashed, SessionTypeOK, UnparsedBytesSurvive
  <2>6. NothingParsable' /\ Crowded' /\ ReadResult'
    BY <2>1, <2>2 DEF IInv, NothingParsable, Crowded, ReadResult
  <2>7. DisconnectsJustified'
    BY <2>1, <2>4 DEF DisconnectsJustified, Culprit
  <2> QED BY <2>5, <2>6, <2>7 DEF IInv
<1> QED BY <1>1, <1>2

(* The kernel brings no more than the read has room for.                   *)
LEMMA ReceiveStep == ASSUME IInv, Receive PROVE IInv'
<1>1. PICK n \in 1 .. space : head + n <= StreamEnd /\ transferred' = n
  BY DEF Receive
<1>2. /\ UNCHANGED <<sent, bounds, connected, head, tail, parsed, space,
                     is_closing, close_posted, socket_open>>
      /\ pc = "reading" /\ pc' = "completed"
  BY DEF Receive, client, stash, closing
<1>3. /\ space \in 0 .. Size /\ Size \in Nat /\ n \in 0 .. Size /\ n <= space /\ n # 0
  BY <1>1, SessionAssumption DEF IInv, Stashed, SessionTypeOK
<1>4. Stashed'
  BY <1>1, <1>2, <1>3, SameStash DEF IInv, Stashed, SessionTypeOK, UnparsedBytesSurvive
<1>5. NothingParsable' /\ Crowded' /\ ReadResult' /\ DisconnectsJustified'
  BY <1>1, <1>2, <1>3, SameStash
     DEF IInv, NothingParsable, Crowded, ReadResult, DisconnectsJustified
<1> QED BY <1>4, <1>5 DEF IInv

(* A read fails only when one side has closed.                             *)
LEMMA ReadFailsStep == ASSUME IInv, ReadFails PROVE IInv'
<1>1. /\ UNCHANGED <<sent, bounds, connected, head, tail, parsed, space,
                     is_closing, close_posted, socket_open>>
      /\ pc = "reading" /\ pc' = "completed" /\ transferred' = 0
      /\ ~ connected \/ ~ socket_open
  BY DEF ReadFails, client, stash, closing
<1>2. space \in 0 .. Size /\ Size \in Nat /\ 0 \in 0 .. Size /\ 0 <= space
  BY SessionAssumption DEF IInv, Stashed, SessionTypeOK
<1>3. Stashed'
  BY <1>1, <1>2, SameStash DEF IInv, Stashed, SessionTypeOK, UnparsedBytesSurvive
<1>5. head + 0 <= StreamEnd
  BY DEF IInv, Stashed, InStep, SessionTypeOK
<1>4. NothingParsable' /\ Crowded' /\ ReadResult' /\ DisconnectsJustified'
  BY <1>1, <1>5, SameStash
     DEF IInv, NothingParsable, Crowded, ReadResult, DisconnectsJustified
<1> QED BY <1>3, <1>4 DEF IInv

(* The bytes are in the stash now, behind those that were there.           *)
LEMMA HandleReadStep == ASSUME IInv, HandleRead PROVE IInv'
<1>1. /\ UNCHANGED <<sent, bounds, connected, tail, parsed,
                     is_closing, close_posted, socket_open>>
      /\ head' = head + transferred /\ space' = 0 /\ transferred' = 0
      /\ pc = "completed" /\ pc' = "stash" /\ transferred > 0
  BY DEF HandleRead, client, closing
<1>2. /\ head \in Nat /\ tail \in Nat /\ transferred \in Nat /\ space \in Nat
      /\ transferred <= space /\ space <= Size - Available
      /\ Size \in Nat /\ tail <= head /\ head + transferred <= StreamEnd
      /\ tail = bounds[parsed + 1]
  BY <1>1, SessionAssumption
     DEF IInv, Stashed, SessionTypeOK, UnparsedBytesSurvive, InStep, ReadResult
<1>3. StreamEnd' = StreamEnd
  BY <1>1 DEF StreamEnd
<1>4. SessionTypeOK'
  BY <1>1, <1>2 DEF IInv, Stashed, SessionTypeOK
<1>5. Layout' /\ InStep'
  BY <1>1, <1>2, <1>3 DEF IInv, Stashed, Layout, InStep
<1>6. UnparsedBytesSurvive'
  BY <1>1, <1>2 DEF UnparsedBytesSurvive, Available
<1>7. NothingParsable' /\ Crowded' /\ ReadResult' /\ DisconnectsJustified'
  BY <1>1 DEF IInv, NothingParsable, Crowded, ReadResult, DisconnectsJustified
<1> QED BY <1>4, <1>5, <1>6, <1>7 DEF IInv, Stashed

(* A read fails because the client is gone or the session is closing.      *)
LEMMA HandleErrorStep == ASSUME IInv, HandleError PROVE IInv'
<1>1. /\ UNCHANGED <<sent, bounds, connected, head, tail, parsed, transferred>>
      /\ space' = 0 /\ pc = "completed" /\ pc' = "gone" /\ transferred = 0 /\ Disconnect
  BY DEF HandleError, client, stash
<1>2. is_closing' = TRUE /\ close_posted' \in BOOLEAN /\ socket_open' = socket_open
  BY <1>1, Disconnecting DEF IInv, Stashed, SessionTypeOK
<1>3. Size \in Nat /\ 0 \in 0 .. Size
  BY SessionAssumption
<1>4. Stashed'
  BY <1>1, <1>2, <1>3, SameStash DEF IInv, Stashed, SessionTypeOK, UnparsedBytesSurvive
<1>5. NothingParsable' /\ Crowded' /\ ReadResult'
  BY <1>1, <1>2 DEF IInv, NothingParsable, Crowded, ReadResult
<1>6. DisconnectsJustified'
  BY <1>1 DEF IInv, ReadResult, DisconnectsJustified
<1> QED BY <1>4, <1>5, <1>6 DEF IInv

----------------------------------------------------------------------------
(* A parsed log is consumed to its last byte; a rejected one is a culprit. *)
LEMMA ParseStep == ASSUME IInv, ParseAndConsume PROVE IInv'
<1>1. /\ UNCHANGED <<sent, bounds, connected, head, pc, space, transferred>>
      /\ tail' = tail + Consumed(Upcoming) /\ parsed' = parsed + 1
      /\ Parsable /\ pc \in {"stash", "restash"}
      /\ IF Upcoming.valid THEN UNCHANGED closing ELSE Disconnect
  BY DEF ParseAndConsume, client, read, InStash
<1>2. /\ head \in Nat /\ tail \in Nat /\ parsed \in 0 .. Len(sent) /\ Len(sent) \in Nat
      /\ SigBytes \in Nat \ {0} /\ Size \in Nat
  BY SessionAssumption DEF IInv, Stashed, SessionTypeOK
<1>3. Available > 0 /\ Available >= Bytes(Upcoming)
  BY <1>1, <1>2 DEF Parsable, HasSignature, Available
<1>4. /\ Pending /\ Upcoming \in Shapes
      /\ bounds[parsed + 2] = tail + Bytes(Upcoming)
  BY <1>3, UpcomingMessage DEF IInv
<1>5. Bytes(Upcoming) \in Nat \ {0} /\ Consumed(Upcoming) = Bytes(Upcoming)
  BY <1>4, BytesOfMessage
<1>6. /\ tail' = tail + Bytes(Upcoming) /\ tail' \in Nat /\ tail' <= head
      /\ parsed' \in 0 .. Len(sent) /\ parsed' + 1 = parsed + 2
  BY <1>1, <1>2, <1>3, <1>4, <1>5 DEF Available, Pending
<1>7. /\ is_closing' \in BOOLEAN /\ close_posted' \in BOOLEAN /\ socket_open' = socket_open
      /\ is_closing => is_closing'
      /\ is_closing' => is_closing \/ ~ Upcoming.valid
      /\ close_posted' => close_posted \/ is_closing'
  BY <1>1, Disconnecting DEF IInv, Stashed, SessionTypeOK, closing
<1>8. SessionTypeOK'
  BY <1>1, <1>6, <1>7 DEF IInv, Stashed, SessionTypeOK
<1>9. Layout' /\ InStep'
  <2>1. StreamEnd' = StreamEnd /\ head <= StreamEnd
    BY <1>1 DEF StreamEnd, IInv, Stashed, InStep
  <2>2. bounds'[parsed' + 1] = tail'
    BY <1>1, <1>4, <1>6
  <2>3. head' \in tail' .. StreamEnd'
    BY <2>1, <1>1, <1>2, <1>6 DEF IInv, Stashed, InStep
  <2>4. Layout' /\ InStep'
    <3>1. Layout
      BY Zenon DEF IInv, Stashed
    <3>2. Layout'
      BY <1>1, <3>1, Zenon DEF Layout
    <3> QED BY <2>2, <2>3, <3>2, Zenon DEF InStep
  <2> QED BY <2>4
<1>10. UnparsedBytesSurvive'
  <2>1. UnparsedBytesSurvive
    BY Zenon DEF IInv, Stashed
  <2>2. pc' \notin {"reading", "completed"}
    BY <1>1
  <2>3. Available' <= Available
    BY <1>1, <1>2, <1>5, <1>6 DEF Available
  <2>4. Available \in Int /\ Available' \in Int
    BY <1>2, <1>1, <1>6 DEF Available
  <2> QED BY <1>2, <2>1, <2>2, <2>3, <2>4 DEF UnparsedBytesSurvive
<1>11. ~ (pc = "restash")
  BY <1>1 DEF IInv, NothingParsable
<1>12. NothingParsable' /\ Crowded' /\ ReadResult'
  BY <1>1, <1>7, <1>11 DEF IInv, NothingParsable, Crowded, ReadResult
<1>13. DisconnectsJustified'
  <2> SUFFICES ASSUME is_closing', connected
               PROVE  \E i \in 1 .. Len(sent) : i <= parsed + 2 /\ Culprit(sent[i])
    BY <1>1, <1>6 DEF DisconnectsJustified, Culprit
  <2>1. CASE is_closing
    <3>1. PICK i \in 1 .. Len(sent) : i <= parsed + 1 /\ Culprit(sent[i])
      BY <2>1 DEF IInv, DisconnectsJustified
    <3> QED BY <3>1, <1>2
  <2>2. CASE ~ Upcoming.valid
    <3>1. PICK i \in 1 .. Len(sent) : i <= parsed + 1 /\ Culprit(sent[i])
      BY <2>2, <1>4, UpcomingJustifies DEF IInv, Culprit
    <3> QED BY <3>1, <1>2
  <2> QED BY <2>1, <2>2, <1>7
<1> QED BY <1>8, <1>9, <1>10, <1>12, <1>13 DEF IInv, Stashed

(* What process_stash() leaves behind when it returns is not parsable, and *)
(* a second pass has found the stash as crowded as the first one left it.  *)
LEMMA ReturnStep ==
  ASSUME IInv, InStash, Return, ~ Parsable,
         UNCHANGED <<sent, bounds, connected, head, tail, parsed, space, transferred>>,
         is_closing' \in BOOLEAN, close_posted' \in BOOLEAN, socket_open' = socket_open,
         is_closing => is_closing', close_posted' => close_posted \/ is_closing'
  PROVE  Stashed' /\ NothingParsable' /\ Crowded' /\ ReadResult'
<1>1. \/ pc = "stash" /\ pc' = "header"
      \/ pc = "restash" /\ pc' = "header2"
  BY DEF InStash, Return
<1>2. Stashed'
  BY <1>1, SameStash DEF IInv, Stashed, SessionTypeOK, UnparsedBytesSurvive
<1>3. NothingParsable' /\ Crowded' /\ ReadResult'
  BY <1>1, SameStash DEF IInv, NothingParsable, Crowded, ReadResult
<1> QED BY <1>2, <1>3

(* A log that is refused is a culprit.                                     *)
LEMMA RefuseStep == ASSUME IInv, Refuse PROVE IInv'
<1>1. /\ UNCHANGED <<sent, bounds, connected, head, tail, parsed, space, transferred>>
      /\ InStash /\ Return /\ Disconnect
  BY DEF Refuse, client, stash, read
<1>2. is_closing' = TRUE /\ close_posted' \in BOOLEAN /\ socket_open' = socket_open
  BY <1>1, Disconnecting DEF IInv, Stashed, SessionTypeOK
<1>3. ~ Parsable
  BY <1>1 DEF Refuse, Parsable
<1>4. /\ head \in Nat /\ tail \in Nat /\ Size \in Nat /\ MinSpace \in Nat /\ Slack \in Nat
      /\ Slack <= MinSpace /\ SigBytes \in Nat \ {0}
  BY SessionAssumption DEF IInv, Stashed, SessionTypeOK
<1>5. Available \in Int /\ Available > 0
  BY <1>1, <1>4 DEF Refuse, RefusedFrame, RefusedText, HasSignature, Available
<1>6. Pending /\ Upcoming \in Shapes
  BY <1>5, UpcomingMessage DEF IInv
<1>7. Bytes(Upcoming) \in Nat
  BY <1>6, BytesOfMessage
<1>8. Culprit(Upcoming)
  <2>1. CASE RefusedFrame
    BY <2>1 DEF RefusedFrame, Culprit
  <2>2. CASE RefusedText
    <3>1. Available < Bytes(Upcoming) /\ Available > Size - Slack
      BY <2>2 DEF RefusedText, max_log_size
    <3>2. Bytes(Upcoming) > Size - MinSpace + 1
      BY <3>1, <1>4, <1>5, <1>7
    <3> QED BY <3>2 DEF Culprit
  <2> QED BY <2>1, <2>2 DEF Refuse
<1>9. Stashed' /\ NothingParsable' /\ Crowded' /\ ReadResult'
  BY <1>1, <1>2, <1>3, ReturnStep
<1>10. \E i \in 1 .. Len(sent) : i <= parsed + 1 /\ Culprit(sent[i])
  BY <1>6, <1>8, UpcomingJustifies DEF IInv
<1>11. DisconnectsJustified'
  BY <1>1, <1>10 DEF DisconnectsJustified, Culprit
<1> QED BY <1>9, <1>11 DEF IInv

(* Nothing to parse: the handler goes on to read.                          *)
LEMMA AwaitMoreStep == ASSUME IInv, AwaitMore PROVE IInv'
<1>1. /\ UNCHANGED <<sent, bounds, connected, head, tail, parsed, space, transferred,
                     is_closing, close_posted, socket_open>>
      /\ InStash /\ Return /\ ~ Parsable
  BY DEF AwaitMore, client, stash, read, closing
<1>2. Stashed' /\ NothingParsable' /\ Crowded' /\ ReadResult'
  BY <1>1, ReturnStep DEF IInv, Stashed, SessionTypeOK
<1>3. DisconnectsJustified'
  BY <1>1 DEF IInv, DisconnectsJustified
<1> QED BY <1>2, <1>3 DEF IInv

(* A step of nobody.                                                       *)
LEMMA StutterStep == ASSUME IInv, UNCHANGED sessionVars PROVE IInv'
<1>1. UNCHANGED <<sent, bounds, connected, head, tail, parsed, pc, space, transferred,
                  is_closing, close_posted, socket_open>>
  BY DEF sessionVars, client, stash, read, closing
<1>2. Stashed'
  BY <1>1, SameStash DEF IInv, Stashed, SessionTypeOK, UnparsedBytesSurvive
<1>3. NothingParsable' /\ Crowded' /\ ReadResult' /\ DisconnectsJustified'
  BY <1>1, SameStash DEF IInv, NothingParsable, Crowded, ReadResult, DisconnectsJustified
<1> QED BY <1>2, <1>3 DEF IInv

(* Every step of the session keeps the invariant.                          *)
LEMMA StepIInv == IInv /\ [SessionNext]_sessionVars => IInv'
<1> SUFFICES ASSUME IInv, [SessionNext]_sessionVars PROVE IInv'
  OBVIOUS
<1>1. CASE \E m \in Shapes : Send(m)
  BY <1>1, SendStep
<1>2. CASE Disappear \/ PostedClose
  BY <1>2, DisappearStep, CloseStep
<1>3. CASE Kernel
  BY <1>3, ReceiveStep, ReadFailsStep DEF Kernel
<1>4. CASE Handler
  BY <1>4, ReadHeaderStep, ReadHeaderAgainStep, HandleReadStep, HandleErrorStep,
     ParseStep, RefuseStep, AwaitMoreStep DEF Handler
<1>5. CASE UNCHANGED sessionVars
  BY <1>5, StutterStep
<1> QED BY <1>1, <1>2, <1>3, <1>4, <1>5 DEF SessionNext

----------------------------------------------------------------------------
(* The invariant holds in every state of every session.                    *)
THEOREM SessionInvariant == SessionSpec => []IInv
<1>1. SessionInit => IInv
  BY InitIInv
<1>2. IInv /\ [SessionNext]_sessionVars => IInv'
  BY StepIInv
<1> QED BY <1>1, <1>2, PTL DEF SessionSpec

(* Type correctness, for every Size, Slack, MinSpace and set of messages.  *)
THEOREM SessionTypeCorrect == SessionSpec => []SessionTypeOK
<1>1. IInv => SessionTypeOK
  BY DEF IInv, Stashed
<1> QED BY <1>1, SessionInvariant, PTL

(* The session never loses step with the stream (LogServer.cpp:128-183):   *)
(* it parses the client's messages, all of each, one after the other,      *)
(* wherever TCP cuts them.                                                 *)
THEOREM NeverOutOfStep == SessionSpec => []InStep
<1>1. IInv => InStep
  BY DEF IInv, Stashed
<1> QED BY <1>1, SessionInvariant, PTL

(* A read never reaches bytes that are not parsed yet, for every size of   *)
(* the stash (LogServer.cpp:99-117).                                       *)
THEOREM ReadsFitTheStash == SessionSpec => []UnparsedBytesSurvive
<1>1. IInv => UnparsedBytesSurvive
  BY DEF IInv, Stashed
<1> QED BY <1>1, SessionInvariant, PTL

(* While a read is awaited no whole and legal log lies in the stash        *)
(* (LogServer.cpp:118-119).                                                *)
THEOREM NoLogIsForgotten == SessionSpec => []NoWholeLogWaits
<1>1. IInv => NoWholeLogWaits
  <2> SUFFICES ASSUME IInv, pc = "reading", HasSignature, Available >= Bytes(Upcoming)
               PROVE  RefusedFrame
    BY DEF NoWholeLogWaits, RefusedFrame
  <2>1. ~ Parsable
    BY DEF IInv, NothingParsable
  <2>2. Available \in Int /\ Available > 0
    BY SessionAssumption DEF IInv, Stashed, SessionTypeOK, HasSignature, Available
  <2>3. Bytes(Upcoming) \in Nat
    BY <2>2, UpcomingMessage, BytesOfMessage DEF IInv
  <2>4. ~ RefusedText
    BY <2>2, <2>3 DEF RefusedText
  <2> QED BY <2>1, <2>4 DEF Parsable
<1> QED BY <1>1, SessionInvariant, PTL

(* The second process_stash() of read_header() never makes room            *)
(* (LogServer.cpp:100-111).                                                *)
THEOREM SecondPassIsFutile == SessionSpec => []RestashIsFutile
<1>1. IInv => RestashIsFutile
  BY DEF IInv, Crowded, RestashIsFutile
<1> QED BY <1>1, SessionInvariant, PTL

(* Only a client that is gone or has sent a culprit loses its session      *)
(* (LogServer.cpp:320-355).                                                *)
THEOREM GoodClientsStay == SessionSpec => []DisconnectsJustified
<1>1. IInv => DisconnectsJustified
  BY DEF IInv
<1> QED BY <1>1, SessionInvariant, PTL

----------------------------------------------------------------------------
(* The ring stands in the way of no step's being a step of the session.    *)
LEMMA StashStepsTheSession ==
  /\ StashInit => SessionInit
  /\ [StashNext]_stashVars => [SessionNext]_sessionVars
<1>1. StashInit => SessionInit
  BY DEF StashInit
<1>2. ASSUME StashNext PROVE SessionNext \/ UNCHANGED sessionVars
  <2>1. CASE MapStash \/ FreeStash
    BY <2>1 DEF MapStash, FreeStash
  <2>2. CASE StashHandler
    BY <2>2 DEF StashHandler, CommitRead, ParseInPlace, HandlerAround, SessionNext, Handler
  <2>3. CASE ClientAround \/ KernelAround \/ CloseAround
    BY <2>3 DEF ClientAround, KernelAround, CloseAround, SessionNext
  <2> QED BY <1>2, <2>1, <2>2, <2>3 DEF StashNext
<1>3. UNCHANGED stashVars => UNCHANGED sessionVars
  BY DEF stashVars
<1> QED BY <1>1, <1>2, <1>3

(* A read commits, and a turn of process_stash() consumes, a number of     *)
(* bytes that the ring has.                                                *)
LEMMA StashStepsTheRing ==
  ASSUME IInv, [StashNext]_stashVars
  PROVE  [Ring!MagicRingNext]_ringVars
<1>1. ASSUME CommitRead PROVE Ring!MagicRingNext
  <2>1. transferred \in 1 .. size /\ Ring!Receive(transferred)
    BY <1>1 DEF CommitRead, Running, HandleRead, IInv, Stashed, SessionTypeOK
  <2> QED BY <2>1 DEF Ring!MagicRingNext
<1>2. ASSUME ParseInPlace PROVE Ring!MagicRingNext
  <2>1. /\ HasSignature /\ Available >= Bytes(Upcoming) /\ size = Size
        /\ Ring!Consume(Consumed(Upcoming))
    BY <1>2 DEF ParseInPlace, Running, ParseAndConsume, Parsable
  <2>2. Available \in Int /\ Available > 0 /\ Available <= Size /\ Size \in Nat
    BY <2>1, SessionAssumption
       DEF IInv, Stashed, SessionTypeOK, UnparsedBytesSurvive, HasSignature, Available
  <2>3. Consumed(Upcoming) = Bytes(Upcoming) /\ Bytes(Upcoming) \in Nat \ {0}
    BY <2>2, UpcomingMessage, BytesOfMessage DEF IInv
  <2>4. Consumed(Upcoming) \in 1 .. size
    BY <2>1, <2>2, <2>3
  <2> QED BY <2>1, <2>4 DEF Ring!MagicRingNext
<1>3. CASE MapStash \/ FreeStash
  BY <1>3 DEF MapStash, FreeStash, Ring!MagicRingNext
<1>4. CASE HandlerAround \/ ClientAround \/ KernelAround \/ CloseAround
  BY <1>4 DEF HandlerAround, ClientAround, KernelAround, CloseAround
<1>5. CASE UNCHANGED stashVars
  BY <1>5 DEF stashVars
<1> QED BY <1>1, <1>2, <1>3, <1>4, <1>5 DEF StashNext, StashHandler

(* A session on its ring is a session, so that all of the above holds of   *)
(* it; and it drives its ring by the operations of MagicRingBuffer only,   *)
(* within what they ask for, so that all that is proved of MagicRing holds *)
(* of its stash (LogServer.cpp:88-183, 389-475).                           *)
THEOREM SessionOnItsRing == StashSpec => SessionSpec /\ Ring!MagicRingSpec
<1>1. StashInit => SessionInit /\ Ring!MagicRingInit
  BY DEF StashInit
<1>2. [StashNext]_stashVars => [SessionNext]_sessionVars
  BY StashStepsTheSession
<1>3. IInv /\ [StashNext]_stashVars => [Ring!MagicRingNext]_ringVars
  BY StashStepsTheRing
<1>4. IInv /\ [SessionNext]_sessionVars => IInv'
  BY StepIInv
<1>5. SessionInit => IInv
  BY InitIInv
<1>6. Ring!ringVars = ringVars
  BY DEF Ring!ringVars, ringVars
<1> QED BY <1>1, <1>2, <1>3, <1>4, <1>5, <1>6, PTL
        DEF StashSpec, SessionSpec, Ring!MagicRingSpec, Ring!ringVars, ringVars

----------------------------------------------------------------------------
(* The theorems of MagicRingProof, of the ring under a session: its        *)
(* definitions are those of Ring.                                          *)
Alone == INSTANCE MagicRingProof WITH head <- write_cursor, tail <- read_cursor

(* The calls that map and free the ring.                                   *)
LEMMA SameMapping ==
  /\ Ring!MagicRingInit => Alone!MagicRingInit
  /\ Ring!ringVars = Alone!ringVars
  /\ Ring!CheckSize \/ Ring!ReserveRange \/ Ring!SplitRange => Alone!MagicRingNext
  /\ Ring!CreateSection \/ Ring!MapViewA \/ Ring!MapViewB => Alone!MagicRingNext
  /\ Ring!FreePortal => Alone!MagicRingNext
<1>1. Ring!MagicRingInit => Alone!MagicRingInit
  BY DEF Ring!MagicRingInit, Alone!MagicRingInit
<1>2. Ring!ringVars = Alone!ringVars
  BY DEF Ring!ringVars, Alone!ringVars
<1>3. ASSUME Ring!CheckSize \/ Ring!ReserveRange \/ Ring!SplitRange
      PROVE  Alone!CheckSize \/ Alone!ReserveRange \/ Alone!SplitRange
  BY <1>3 DEF Ring!CheckSize, Alone!CheckSize, Ring!ReserveRange, Alone!ReserveRange,
           Ring!SplitRange, Alone!SplitRange, Ring!Attempt, Alone!Attempt, Ring!unportal,
           Alone!unportal
<1>4. ASSUME Ring!CreateSection \/ Ring!MapViewA \/ Ring!MapViewB
      PROVE  Alone!CreateSection \/ Alone!MapViewA \/ Alone!MapViewB
  BY <1>4, Zenon DEF Ring!CreateSection, Alone!CreateSection, Ring!MapViewA, Alone!MapViewA,
           Ring!MapViewB, Alone!MapViewB, Ring!Attempt, Alone!Attempt, Ring!unportal,
           Alone!unportal
<1>5. Ring!FreePortal => Alone!FreePortal
  BY DEF Ring!FreePortal, Alone!FreePortal, Ring!unportal, Alone!unportal
<1> QED BY <1>1, <1>2, <1>3, <1>4, <1>5 DEF Alone!MagicRingNext

(* commit_write() and consume().                                           *)
LEMMA SameOperations ==
  ASSUME NEW n PROVE (Ring!Receive(n) => Alone!Receive(n)) /\ (Ring!Consume(n) => Alone!Consume(n))
<1>1. Ring!Receive(n) => Alone!Receive(n)
  BY DEF Ring!Receive, Alone!Receive, Ring!Wrap, Alone!Wrap, Ring!BytesAvailable,
           Alone!BytesAvailable, Ring!WriteSpace, Alone!WriteSpace, Ring!AddressOf,
           Alone!AddressOf, Ring!ByteAt, Alone!ByteAt
<1>2. Ring!Consume(n) => Alone!Consume(n)
  BY DEF Ring!Consume, Alone!Consume, Ring!Wrap, Alone!Wrap, Ring!BytesAvailable,
           Alone!BytesAvailable
<1> QED BY <1>1, <1>2

(* The properties of the ring, by their names in Stash.                    *)
LEMMA SameInvariants ==
  /\ Alone!ViewIsStream => ViewIsStream
  /\ Alone!RoomIsFree => RoomIsFree
  /\ Alone!NoMemoryLost => NoMemoryLost
<1>1. Alone!ViewIsStream => ViewIsStream
  BY DEF ViewIsStream, Ring!ViewIsStream, Alone!ViewIsStream, Ring!Wrap, Alone!Wrap,
           Ring!BytesAvailable, Alone!BytesAvailable, Ring!AddressOf, Alone!AddressOf,
           Ring!Mapped, Alone!Mapped, Ring!ByteAt, Alone!ByteAt, Ring!View, Alone!View,
           Ring!Bytes, Alone!Bytes, Ring!Stream, Alone!Stream
<1>2. Alone!RoomIsFree => RoomIsFree
  BY DEF RoomIsFree, Ring!RoomIsFree, Alone!RoomIsFree, Ring!Wrap, Alone!Wrap, Ring!BytesAvailable,
           Alone!BytesAvailable, Ring!WriteSpace, Alone!WriteSpace, Ring!AddressOf,
           Alone!AddressOf, Ring!Mapped, Alone!Mapped, Ring!ByteAt, Alone!ByteAt
<1>3. Alone!NoMemoryLost => NoMemoryLost
  BY DEF NoMemoryLost, Ring!NoMemoryLost, Alone!NoMemoryLost, Ring!Views, Alone!Views
<1> QED BY <1>1, <1>2, <1>3

(* A behaviour of the one is one of the other.                             *)
LEMMA RingAlone == Ring!MagicRingSpec => Alone!MagicRingSpec
<1>1. Ring!MagicRingInit => Alone!MagicRingInit
  BY SameMapping
<1>2. [Ring!MagicRingNext]_(Ring!ringVars) => [Alone!MagicRingNext]_(Alone!ringVars)
  <2>1. CASE Ring!MagicRingNext
    BY <2>1, SameMapping, SameOperations DEF Ring!MagicRingNext, Alone!MagicRingNext
  <2>2. CASE UNCHANGED Ring!ringVars
    BY <2>2 DEF Ring!ringVars, Alone!ringVars
  <2> QED BY <2>1, <2>2
<1> QED BY <1>1, <1>2, PTL DEF Ring!MagicRingSpec, Alone!MagicRingSpec

(* A session parses the stream, in place: what the ring shows of what its  *)
(* reads committed and its turns consumed (LogServer.cpp:149-180, 414-417).*)
THEOREM SessionViewsItsStream == StashSpec => []ViewIsStream
<1>1. Alone!MagicRingSpec => []Alone!ViewIsStream
  BY RingAssumption, Alone!RingViewIsStream
<1>2. Alone!ViewIsStream => ViewIsStream
  BY SameInvariants
<1> QED BY <1>1, <1>2, SessionOnItsRing, RingAlone, PTL

(* No read of a session harms a byte that waits for the parser             *)
(* (LogServer.cpp:99-115, 394-402).                                        *)
THEOREM SessionReadsIntoRoom == StashSpec => []RoomIsFree
<1>1. Alone!MagicRingSpec => []Alone!RoomIsFree
  BY RingAssumption, Alone!RingRoomIsFree
<1>2. Alone!RoomIsFree => RoomIsFree
  BY SameInvariants
<1> QED BY <1>1, <1>2, SessionOnItsRing, RingAlone, PTL

(* A session that cannot be had or has ended leaves no memory behind       *)
(* (LogServer.cpp:443-467, 470-475).                                       *)
THEOREM SessionLosesNoMemory == StashSpec => []NoMemoryLost
<1>1. Alone!MagicRingSpec => []Alone!NoMemoryLost
  BY RingAssumption, Alone!RingNoMemoryLost
<1>2. Alone!NoMemoryLost => NoMemoryLost
  BY SameInvariants
<1> QED BY <1>1, <1>2, SessionOnItsRing, RingAlone, PTL
=============================================================================
