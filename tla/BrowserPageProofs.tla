-------------------------- MODULE BrowserPageProofs -------------------------
(***************************************************************************)
(* Proofs about PageSocket, for every set of sizes and number of messages,  *)
(* and about BrowserLink, for every number of pages, callers and sessions.  *)
(***************************************************************************)
EXTENDS PageSocket, BrowserLink, SequenceTheorems, FiniteSetTheorems, TLAPS

(***************************************************************************)
(* The events on their way, oldest first: one that a woken reader has in    *)
(* its hand, those in the channel's buffer, those of blocked senders, those *)
(* of senders that have not run.  `First' messages have left that way.      *)
(***************************************************************************)
First == Len(delivered) + IF readBuf.left > 0 THEN 1 ELSE 0
InHand == IF reader = "woken" THEN 1 ELSE 0
Sent == First + InHand + Len(buffer) + Len(sendQueue)

\* The close event comes after every message.
place(e) == IF e.num = 0 THEN Len(accepted) + 1 ELSE e.num

\* The event e of the nth that ever arrived.
Is(e, n) ==
  /\ place(e) = n /\ e.num <= Len(accepted)
  /\ e.num = 0 => readyState = "closed"

InOrder ==
  /\ reader = "woken" => Is(got, First + 1)
  /\ \A i \in 1 .. Len(buffer) : Is(buffer[i], First + InHand + i)
  /\ \A i \in 1 .. Len(sendQueue) : Is(sendQueue[i], First + InHand + Len(buffer) + i)
  /\ \A i \in 1 .. Len(scheduled) : Is(scheduled[i], Sent + i)

Complete ==
  Sent + Len(scheduled) = Len(accepted) + IF readyState = "closed" /\ ~chClosed THEN 1 ELSE 0

\* What is read is what was accepted, and the message being read is the next.
Prefix ==
  /\ \A i \in 1 .. Len(delivered) : delivered[i] = accepted[i]
  /\ readBuf.left > 0 => readBuf.num = Len(delivered) + 1 /\ readBuf.num <= Len(accepted)

\* A channel is full before a sender blocks and empty before a reader waits.
Channel ==
  /\ Len(buffer) <= Capacity
  /\ sendQueue # <<>> => Len(buffer) = Capacity
  /\ reader = "waiting" => buffer = <<>> /\ sendQueue = <<>>
  /\ reader # "idle" => readBuf.left = 0 /\ ~chClosed

Closed ==
  /\ chClosed => readyState = "closed" /\ readBuf.left = 0 /\ First = Len(accepted)
  /\ result = "EOF" => chClosed
  /\ ~thrown

SocketInv == SocketTypeOK /\ InOrder /\ Complete /\ Prefix /\ Channel /\ Closed

LEMMA Counts == SocketTypeOK => First \in Nat /\ InHand \in Nat /\ Sent \in Nat
  <1> SUFFICES ASSUME SocketTypeOK PROVE First \in Nat /\ InHand \in Nat /\ Sent \in Nat
    OBVIOUS
  <1>1. Len(delivered) \in Nat /\ Len(buffer) \in Nat /\ Len(sendQueue) \in Nat
    BY DEF SocketTypeOK
  <1>2. First \in Nat /\ InHand \in Nat
    BY <1>1 DEF First, InHand
  <1> QED
    BY <1>1, <1>2 DEF Sent

LEMMA SocketStarts == SocketInit => SocketInv
  <1> SUFFICES ASSUME SocketInit PROVE SocketInv
    OBVIOUS
  <1> USE DEF SocketInit
  <1>1. CloseEvent \in Event
    BY DEF Event
  <1>2. [num |-> 0, left |-> 0] \in [num : 0 .. MaxMessages, left : Nat]
    BY SocketAssumption
  <1>3. SocketTypeOK
    <2>1. /\ scheduled \in Seq(Event) /\ buffer \in Seq(Event) /\ sendQueue \in Seq(Event)
          /\ accepted \in Seq(Message) /\ delivered \in Seq(Message)
      OBVIOUS
    <2>2. readBuf \in [num : 0 .. MaxMessages, left : Nat] /\ got \in Event
      BY <1>1, <1>2
    <2> QED
      BY <2>1, <2>2 DEF SocketTypeOK
  <1>4. InOrder /\ Complete /\ Prefix
    BY DEF InOrder, Complete, Prefix, First, InHand, Sent
  <1>5. Channel /\ Closed
    BY DEF Channel, Closed, Capacity
  <1> QED
    BY <1>3, <1>4, <1>5 DEF SocketInv

-----------------------------------------------------------------------------
(* Copying *)

\* Copying out of the next message, in whatever portions, delivers it or keeps
\* the rest of it.
LEMMA CopyOut ==
  ASSUME SocketTypeOK, Prefix, NEW left \in Nat, NEW n \in ReadSizes, NEW num \in 1 .. MaxMessages,
         num = Len(delivered) + 1, num <= Len(accepted), accepted' = accepted,
         copyOut(num, left, n)
  PROVE  /\ readBuf' \in [num : 0 .. MaxMessages, left : Nat]
         /\ delivered' \in Seq(Message) /\ result' = "nil"
         /\ Prefix' /\ First' = Len(delivered) + 1
  <1> USE DEF SocketTypeOK
  <1>1. n \in Nat \ {0}
    BY SocketAssumption
  <1>2. readBuf' = [num |-> num, left |-> left - AtMost(left, n)] /\ result' = "nil"
    BY DEF copyOut
  <1>3. readBuf'.num = num /\ readBuf'.left = left - AtMost(left, n) /\ AtMost(left, n) \in Nat
        /\ AtMost(left, n) <= left
    BY <1>1, <1>2 DEF AtMost
  <1>4. readBuf' \in [num : 0 .. MaxMessages, left : Nat]
    BY <1>2, <1>3, SocketAssumption
  <1>5. CASE left <= n
    <2>1. delivered' = Append(delivered, accepted[num]) /\ readBuf'.left = 0
      BY <1>1, <1>3, <1>5 DEF copyOut, AtMost
    <2>2. accepted[num] \in Message
      OBVIOUS
    <2>3. /\ delivered' \in Seq(Message) /\ Len(delivered') = Len(delivered) + 1
          /\ \A i \in 1 .. Len(delivered) : delivered'[i] = delivered[i]
          /\ delivered'[num] = accepted[num]
      BY <2>1, <2>2
    <2>4. ASSUME NEW i \in 1 .. Len(delivered') PROVE delivered'[i] = accepted[i]
      <3>1. i \in 1 .. Len(delivered) \/ i = num
        BY <2>3
      <3> QED
        BY <2>3, <3>1 DEF Prefix
    <2> QED
      BY <1>2, <1>4, <2>1, <2>3, <2>4 DEF Prefix, First
  <1>6. CASE ~(left <= n)
    <2>1. delivered' = delivered /\ readBuf'.left > 0
      BY <1>1, <1>3, <1>6 DEF copyOut, AtMost
    <2> QED
      BY <1>2, <1>3, <1>4, <2>1 DEF Prefix, First
  <1> QED
    BY <1>5, <1>6

\* The event that is next either closes the channel, and then nothing is left,
\* or is copied out.
LEMMA HandleFrame ==
  ASSUME SocketInv, NEW e \in Event, readBuf.left = 0, ~chClosed, Is(e, First + 1),
         UNCHANGED <<accepted, readyState>>, handleFrame(e)
  PROVE  /\ readBuf' \in [num : 0 .. MaxMessages, left : Nat] /\ delivered' \in Seq(Message)
         /\ Prefix' /\ chClosed' \in BOOLEAN /\ result' \in {"nil", "EOF"}
         /\ (result' = "EOF" => chClosed') /\ (chClosed' => readyState' = "closed")
         /\ \/ ~chClosed' /\ First' = First + 1
            \/ chClosed' /\ readyState = "closed" /\ First' = First /\ First = Len(accepted)
               /\ readBuf'.left = 0
  <1> USE DEF SocketInv, Closed
  <1>1. First = Len(delivered)
    BY DEF First, SocketTypeOK
  <1>2. CASE e.num = 0
    <2>1. chClosed' = TRUE /\ result' = "EOF" /\ UNCHANGED <<readBuf, delivered>>
      BY <1>2 DEF handleFrame
    <2>2. First + 1 = Len(accepted) + 1 /\ readyState = "closed"
      BY <1>2 DEF Is, place
    <2>3. First = Len(accepted)
      BY <2>2, <1>1 DEF SocketTypeOK
    <2>4. First' = First /\ readBuf'.left = 0
      BY <2>1 DEF First
    <2>5. Prefix'
      BY <2>1 DEF Prefix
    <2>6. readBuf' \in [num : 0 .. MaxMessages, left : Nat] /\ delivered' \in Seq(Message)
      BY <2>1 DEF SocketTypeOK
    <2> QED
      BY <2>1, <2>2, <2>3, <2>4, <2>5, <2>6
  <1>3. CASE e.num # 0
    <2>1. e \in Message
      BY <1>3 DEF Event, CloseEvent
    <2>2. PICK n \in ReadSizes : copyOut(e.num, e.size, n) /\ chClosed' = chClosed
      BY <1>3 DEF handleFrame
    <2>3. e.num = Len(delivered) + 1 /\ e.num <= Len(accepted)
      BY <1>1, <1>3 DEF Is, place
    <2>4. e.num \in 1 .. MaxMessages /\ e.size \in Nat
      BY <2>1, SocketAssumption DEF Message
    <2>5. /\ readBuf' \in [num : 0 .. MaxMessages, left : Nat]
          /\ delivered' \in Seq(Message) /\ result' = "nil"
          /\ Prefix' /\ First' = Len(delivered) + 1
      BY <2>2, <2>3, <2>4, CopyOut
    <2> QED
      BY <1>1, <2>2, <2>5 DEF SocketTypeOK
  <1> QED
    BY <1>2, <1>3

-----------------------------------------------------------------------------
(* One lemma per group of actions *)

\* New, Open and Close change no event and no message.
LEMMA SocketMoves == SocketInv /\ (New \/ onOpen \/ Close) => SocketInv'
  <1> SUFFICES ASSUME SocketInv, New \/ onOpen \/ Close PROVE SocketInv'
    OBVIOUS
  <1>1. /\ UNCHANGED <<scheduled, chan, reader, got, readBuf, result, thrown, accepted, delivered>>
        /\ readyState # "closed" /\ readyState' # "closed"
        /\ readyState' \in {"none", "connecting", "open", "closing", "closed"}
        /\ dial' \in {"none", "dialing", "ok", "err"}
    BY DEF New, onOpen, Close, SocketInv, SocketTypeOK
  <1>2. SocketTypeOK'
    BY <1>1 DEF SocketInv, SocketTypeOK, chan
  <1>3. First' = First /\ InHand' = InHand /\ Sent' = Sent
    BY <1>1 DEF First, InHand, Sent, chan
  <1>4. ASSUME NEW e, NEW n, Is(e, n) PROVE Is(e, n)'
    BY <1>1, <1>4 DEF Is, place
  <1>5. InOrder'
    BY <1>1, <1>3, <1>4 DEF SocketInv, InOrder, chan, Is, place
  <1>6. Complete' /\ Prefix' /\ Channel' /\ Closed'
    BY <1>1, <1>3 DEF SocketInv, Complete, Prefix, Channel, Closed, chan
  <1> QED
    BY <1>2, <1>5, <1>6 DEF SocketInv

\* A message or the close event starts a sender: it is the last to arrive.
LEMMA SocketArrives == SocketInv /\ (onClose \/ \E size \in Sizes : onMessage(size)) => SocketInv'
  <1> SUFFICES ASSUME SocketInv, onClose \/ \E size \in Sizes : onMessage(size) PROVE SocketInv'
    OBVIOUS
  <1> USE DEF SocketInv
  <1>1. PICK e \in Event :
          /\ scheduled' = Append(scheduled, e) /\ readyState # "closed"
          /\ UNCHANGED <<chan, reader, got, readBuf, result, thrown, delivered>>
          /\ readyState' \in {"none", "connecting", "open", "closing", "closed"}
          /\ dial' \in {"none", "dialing", "ok", "err"}
          /\ \/ e.num = 0 /\ accepted' = accepted /\ readyState' = "closed"
             \/ /\ e \in Message /\ e.num = Len(accepted) + 1 /\ accepted' = Append(accepted, e)
                /\ readyState' = readyState
    <2>1. CASE onClose
      <3>1. CloseEvent \in Event /\ CloseEvent.num = 0
        BY DEF Event, CloseEvent
      <3>2. dial' \in {"none", "dialing", "ok", "err"}
        BY <2>1 DEF onClose, SocketTypeOK
      <3> QED
        BY <2>1, <3>1, <3>2 DEF onClose, go
    <2>2. ASSUME NEW size \in Sizes, onMessage(size)
          PROVE  LET m == [num |-> Len(accepted) + 1, size |-> size] IN
                 m \in Message /\ m \in Event
      BY <2>2, SocketAssumption DEF onMessage, Message, Event, SocketTypeOK
    <2> QED
      BY <2>1, <2>2 DEF onMessage, go, SocketTypeOK
  <1>2. /\ scheduled' \in Seq(Event) /\ Len(scheduled') = Len(scheduled) + 1
        /\ \A i \in 1 .. Len(scheduled) : scheduled'[i] = scheduled[i]
        /\ scheduled'[Len(scheduled) + 1] = e
    BY <1>1 DEF SocketTypeOK
  <1>3. /\ accepted' \in Seq(Message) /\ Len(accepted') \in {Len(accepted), Len(accepted) + 1}
        /\ \A i \in 1 .. Len(accepted) : accepted'[i] = accepted[i]
        /\ Len(accepted') = IF e.num = 0 THEN Len(accepted) ELSE Len(accepted) + 1
    <2>1. CASE e.num = 0
      BY <1>1, <2>1 DEF SocketTypeOK
    <2>2. CASE e.num # 0
      <3>1. e \in Message /\ accepted' = Append(accepted, e) /\ accepted \in Seq(Message)
        BY <1>1, <2>2 DEF SocketTypeOK
      <3> QED
        BY <2>2, <3>1
    <2> QED
      BY <2>1, <2>2
  <1>4. SocketTypeOK'
    BY <1>1, <1>2, <1>3 DEF SocketTypeOK, chan
  <1>5. First' = First /\ InHand' = InHand /\ Sent' = Sent /\ ~chClosed
    BY <1>1 DEF First, InHand, Sent, chan, Closed
  <1>6. Sent \in Nat /\ First \in Nat /\ InHand \in Nat
    BY Counts
  <1>7. ASSUME NEW d \in Event, NEW n, Is(d, n) PROVE Is(d, n)'
    BY <1>1, <1>3, <1>7 DEF Is, place, Event, Message, CloseEvent
  <1>8. Sent + Len(scheduled) = Len(accepted)
    BY <1>1 DEF Complete
  <1>9. /\ place(e)' = Sent' + Len(scheduled) + 1 /\ e.num <= Len(accepted')
        /\ e.num = 0 => readyState' = "closed"
    BY <1>1, <1>3, <1>5, <1>8 DEF place, SocketTypeOK
  <1>10. InOrder'
    <2>1. reader' = "woken" => Is(got, First + 1)'
      BY <1>1, <1>5, <1>7 DEF InOrder, SocketTypeOK
    <2>2. \A i \in 1 .. Len(buffer') : Is(buffer[i], First + InHand + i)'
      BY <1>1, <1>5, <1>7 DEF InOrder, SocketTypeOK, chan
    <2>3. \A i \in 1 .. Len(sendQueue') : Is(sendQueue[i], First + InHand + Len(buffer) + i)'
      BY <1>1, <1>5, <1>7 DEF InOrder, SocketTypeOK, chan
    <2>4. ASSUME NEW i \in 1 .. Len(scheduled') PROVE Is(scheduled[i], Sent + i)'
      <3>1. CASE i = Len(scheduled) + 1
        BY <3>1, <1>2, <1>5, <1>6, <1>9 DEF Is, place, SocketTypeOK
      <3>2. CASE i \in 1 .. Len(scheduled)
        BY <3>2, <1>2, <1>5, <1>7 DEF InOrder, SocketTypeOK
      <3> QED
        BY <1>2, <3>1, <3>2 DEF SocketTypeOK
    <2> QED
      BY <2>1, <2>2, <2>3, <2>4 DEF InOrder
  <1>11. Complete'
    <2>1. Len(accepted) \in Nat /\ Len(scheduled) \in Nat /\ chClosed' = chClosed
      BY <1>1 DEF SocketTypeOK, chan
    <2>2. CASE e.num = 0
      <3>1. readyState' = "closed" /\ Len(accepted') = Len(accepted) /\ ~chClosed'
        BY <1>3, <1>5, <1>9, <2>1, <2>2
      <3> QED
        BY <1>2, <1>5, <1>6, <1>8, <2>1, <3>1, SMTT(30) DEF Complete
    <2>3. CASE e.num # 0
      BY <1>1, <1>2, <1>3, <1>5, <1>6, <1>8, <2>1, <2>3 DEF Complete, Message
    <2> QED
      BY <2>2, <2>3
  <1>12. Prefix'
    <2>1. Len(delivered) \in Nat /\ Len(buffer) \in Nat /\ Len(sendQueue) \in Nat
          /\ Len(scheduled) \in Nat
      BY DEF SocketTypeOK
    <2>2. Len(delivered) <= First
      BY <2>1 DEF First
    <2>3. First <= Sent
      BY <1>6, <2>1 DEF Sent
    <2>4. Len(delivered) <= Len(accepted)
      BY <1>6, <1>8, <2>1, <2>2, <2>3
    <2> QED
      BY <1>1, <1>3, <2>1, <2>4 DEF Prefix
  <1>13. Channel' /\ Closed'
    BY <1>1 DEF Channel, Closed, chan
  <1> QED
    BY <1>4, <1>10, <1>11, <1>12, <1>13

\* The sender at the head of $scheduled runs: its event is the next one that
\* was not sent, and it goes where the next one belongs.
LEMMA SenderRuns == SocketInv /\ runSender => SocketInv'
  <1> SUFFICES ASSUME SocketInv, runSender PROVE SocketInv'
    OBVIOUS
  <1> USE DEF SocketInv
  <1> DEFINE e == Head(scheduled)
  <1>1. /\ send(e) /\ scheduled # <<>> /\ scheduled' = Tail(scheduled)
        /\ UNCHANGED <<readyState, dial, readBuf, result, accepted, delivered>>
    BY DEF runSender
  <1>0. scheduled \in Seq(Event) /\ buffer \in Seq(Event) /\ sendQueue \in Seq(Event)
    BY DEF SocketTypeOK
  <1>2. /\ Len(buffer) \in Nat /\ Len(sendQueue) \in Nat /\ Len(accepted) \in Nat
        /\ First \in Nat /\ InHand \in Nat /\ Sent \in Nat
    BY Counts DEF SocketTypeOK
  <1>3. /\ e \in Event /\ scheduled' \in Seq(Event) /\ Len(scheduled) \in Nat \ {0}
        /\ Len(scheduled') = Len(scheduled) - 1
        /\ \A i \in 1 .. Len(scheduled') : scheduled'[i] = scheduled[i + 1]
        /\ e = scheduled[1]
    BY <1>0, <1>1
  <1>4. Is(e, Sent + 1)
    BY <1>3 DEF InOrder
  <1>5. First <= Sent
    BY <1>2 DEF Sent
  <1>6. ~chClosed
    BY <1>2, <1>3, <1>5 DEF Complete, Closed
  <1>7. First' = First /\ chClosed' = chClosed /\ thrown' = FALSE
    <2>1. chClosed' = chClosed
      BY <1>1 DEF send, chan
    <2>2. thrown' = FALSE
      BY <1>1, <1>6 DEF send, Closed
    <2> QED
      BY <1>1, <2>1, <2>2 DEF First
  <1>8. \A d, n : Is(d, n)' <=> place(d) = n /\ d.num <= Len(accepted) /\ (d.num = 0 => readyState = "closed")
    BY <1>1 DEF Is, place
  <1>9. ASSUME InHand' \in Nat, buffer' \in Seq(Event), sendQueue' \in Seq(Event),
               InHand' + Len(buffer') + Len(sendQueue') = InHand + Len(buffer) + Len(sendQueue) + 1
        PROVE  (\A i \in 1 .. Len(scheduled') : Is(scheduled[i], Sent + i)') /\ Complete'
    <2>1. Sent' = Sent + 1
      <3>1. /\ Len(buffer') \in Nat /\ Len(sendQueue') \in Nat
            /\ Len(buffer) \in Nat /\ Len(sendQueue) \in Nat
        BY <1>0, <1>9
      <3> QED
        BY <1>2, <1>7, <1>9, <3>1, SMTT(30) DEF Sent
    <2>2. ASSUME NEW i \in 1 .. Len(scheduled') PROVE Is(scheduled[i], Sent + i)'
      <3>1. Is(scheduled[i + 1], Sent + (i + 1))
        BY <1>3 DEF InOrder
      <3>2. Sent' + i = Sent + (i + 1) /\ scheduled'[i] = scheduled[i + 1]
        BY <1>2, <1>3, <2>1
      <3> QED
        BY <1>1, <3>1, <3>2 DEF Is, place
    <2>3. Complete'
      <3> DEFINE close == IF readyState = "closed" /\ ~chClosed THEN 1 ELSE 0
      <3>1. close' = close /\ close \in Nat /\ Sent + Len(scheduled) = Len(accepted) + close
        BY <1>1, <1>7 DEF Complete
      <3>2. Sent' + Len(scheduled') = Len(accepted') + close'
        BY <1>1, <1>2, <1>3, <2>1, <3>1
      <3> QED
        BY <3>2 DEF Complete
    <2> QED
      BY <2>2, <2>3
  <1>10. CASE reader = "waiting"
    <2>1. /\ reader' = "woken" /\ got' = e /\ UNCHANGED <<buffer, sendQueue>>
          /\ buffer = <<>> /\ sendQueue = <<>> /\ InHand = 0 /\ InHand' = 1
      BY <1>1, <1>10 DEF send, chan, Channel, InHand
    <2>2. Sent = First
      BY <1>2, <2>1 DEF Sent
    <2>3. SocketTypeOK'
      BY <1>1, <1>3, <1>7, <2>1 DEF SocketTypeOK
    <2>4. (\A i \in 1 .. Len(scheduled') : Is(scheduled[i], Sent + i)') /\ Complete'
      BY <1>0, <1>2, <1>9, <2>1
    <2>5. Is(got, First + 1)'
      BY <1>1, <1>4, <1>7, <2>1, <2>2 DEF Is, place
    <2>6. InOrder'
      BY <2>1, <2>4, <2>5 DEF InOrder
    <2>7. Prefix' /\ Channel' /\ Closed'
      BY <1>1, <1>6, <1>7, <1>10, <2>1 DEF Prefix, Channel, Closed
    <2> QED
      BY <2>3, <2>4, <2>6, <2>7
  <1>11. CASE reader # "waiting" /\ Len(buffer) < Capacity
    <2>1. buffer' = Append(buffer, e) /\ UNCHANGED <<sendQueue, reader, got>> /\ InHand' = InHand
      BY <1>1, <1>2, <1>11 DEF send, InHand, chan, Capacity
    <2>2. sendQueue = <<>>
      <3>1. Len(buffer) # Capacity
        BY <1>2, <1>11 DEF Capacity
      <3> QED
        BY <3>1 DEF Channel
    <2>3. /\ buffer' \in Seq(Event) /\ Len(buffer') = Len(buffer) + 1
          /\ \A i \in 1 .. Len(buffer) : buffer'[i] = buffer[i]
          /\ buffer'[Len(buffer) + 1] = e
      BY <1>0, <1>2, <1>3, <2>1
    <2>4. SocketTypeOK'
      BY <1>1, <1>3, <1>7, <2>1, <2>3 DEF SocketTypeOK
    <2>5. (\A i \in 1 .. Len(scheduled') : Is(scheduled[i], Sent + i)') /\ Complete'
      BY <1>0, <1>2, <1>9, <2>1, <2>3
    <2>6. ASSUME NEW i \in 1 .. Len(buffer') PROVE Is(buffer[i], First + InHand + i)'
      <3>1. CASE i \in 1 .. Len(buffer)
        BY <1>1, <1>7, <2>1, <2>3, <3>1 DEF InOrder, Is, place
      <3>2. CASE i = Len(buffer) + 1
        <4>1. Sent + 1 = First + InHand + i
          BY <1>2, <2>2, <3>2 DEF Sent
        <4> QED
          BY <1>1, <1>4, <1>7, <2>1, <2>3, <3>2, <4>1 DEF Is, place
      <3> QED
        BY <1>2, <2>3, <3>1, <3>2
    <2>7. reader' = "woken" => Is(got, First + 1)'
      BY <1>1, <1>7, <2>1 DEF InOrder, Is, place
    <2>8. InOrder'
      BY <2>1, <2>2, <2>5, <2>6, <2>7 DEF InOrder
    <2>9. Prefix' /\ Channel' /\ Closed'
      BY <1>1, <1>2, <1>6, <1>7, <1>11, <2>1, <2>2, <2>3 DEF Prefix, Channel, Closed, Capacity
    <2> QED
      BY <2>4, <2>5, <2>8, <2>9
  <1>12. CASE reader # "waiting" /\ Len(buffer) = Capacity
    <2>1. sendQueue' = Append(sendQueue, e) /\ UNCHANGED <<buffer, reader, got>> /\ InHand' = InHand
      BY <1>1, <1>2, <1>12 DEF send, InHand, chan, Capacity
    <2>2. /\ sendQueue' \in Seq(Event) /\ Len(sendQueue') = Len(sendQueue) + 1
          /\ \A i \in 1 .. Len(sendQueue) : sendQueue'[i] = sendQueue[i]
          /\ sendQueue'[Len(sendQueue) + 1] = e
      BY <1>0, <1>2, <1>3, <2>1
    <2>3. SocketTypeOK'
      BY <1>1, <1>3, <1>7, <2>1, <2>2 DEF SocketTypeOK
    <2>4. (\A i \in 1 .. Len(scheduled') : Is(scheduled[i], Sent + i)') /\ Complete'
      BY <1>0, <1>2, <1>9, <2>1, <2>2
    <2>5. ASSUME NEW i \in 1 .. Len(sendQueue')
          PROVE  Is(sendQueue[i], First + InHand + Len(buffer) + i)'
      <3>1. CASE i \in 1 .. Len(sendQueue)
        BY <1>1, <1>7, <2>1, <2>2, <3>1 DEF InOrder, Is, place
      <3>2. CASE i = Len(sendQueue) + 1
        <4>1. Sent + 1 = First + InHand + Len(buffer) + i
          BY <1>2, <3>2 DEF Sent
        <4> QED
          BY <1>1, <1>4, <1>7, <2>1, <2>2, <3>2, <4>1 DEF Is, place
      <3> QED
        BY <1>2, <2>2, <3>1, <3>2
    <2>6. reader' = "woken" => Is(got, First + 1)'
      BY <1>1, <1>7, <2>1 DEF InOrder, Is, place
    <2>7. \A i \in 1 .. Len(buffer') : Is(buffer[i], First + InHand + i)'
      BY <1>1, <1>7, <2>1 DEF InOrder, Is, place
    <2>8. InOrder'
      BY <2>4, <2>5, <2>6, <2>7 DEF InOrder
    <2>9. Prefix' /\ Channel' /\ Closed'
      BY <1>1, <1>6, <1>7, <1>12, <2>1 DEF Prefix, Channel, Closed
    <2> QED
      BY <2>3, <2>4, <2>8, <2>9
  <1> QED
    <2>1. Len(buffer) < Capacity \/ Len(buffer) = Capacity
      BY <1>2 DEF Channel, Capacity
    <2> QED
      BY <1>10, <1>11, <1>12, <2>1

\* Read while a message is half read: no event moves.
LEMMA ReadsRest == SocketInv /\ ReadRest => SocketInv'
  <1> SUFFICES ASSUME SocketInv, ReadRest PROVE SocketInv'
    OBVIOUS
  <1> USE DEF SocketInv
  <1>1. PICK n \in ReadSizes : copyOut(readBuf.num, readBuf.left, n)
    BY DEF ReadRest
  <1>2. /\ UNCHANGED <<readyState, dial, scheduled, chan, reader, got, thrown, accepted>>
        /\ reader = "idle" /\ readBuf.left > 0
    BY DEF ReadRest
  <1>3. /\ readBuf.num = Len(delivered) + 1 /\ readBuf.num <= Len(accepted)
        /\ readBuf.left \in Nat /\ Len(delivered) \in Nat /\ readBuf.num \in 0 .. MaxMessages
    BY <1>2 DEF Prefix, SocketTypeOK
  <1>4. readBuf.num \in 1 .. MaxMessages
    BY <1>3, SocketAssumption
  <1>5. /\ readBuf' \in [num : 0 .. MaxMessages, left : Nat]
        /\ delivered' \in Seq(Message) /\ result' = "nil"
        /\ Prefix' /\ First' = Len(delivered) + 1
    BY <1>1, <1>2, <1>3, <1>4, CopyOut
  <1>6. First' = First /\ InHand' = InHand /\ Sent' = Sent /\ ~chClosed
    BY <1>2, <1>3, <1>5 DEF First, InHand, Sent, chan, Closed
  <1>7. SocketTypeOK'
    BY <1>2, <1>5 DEF SocketTypeOK, chan
  <1>8. InOrder' /\ Complete'
    BY <1>2, <1>6 DEF InOrder, Complete, Is, place, chan
  <1>9. Channel' /\ Closed'
    BY <1>2, <1>5, <1>6 DEF Channel, Closed, chan
  <1> QED
    BY <1>5, <1>7, <1>8, <1>9

\* A woken reader handles the event in its hand.
LEMMA ReaderRuns == SocketInv /\ runReader => SocketInv'
  <1> SUFFICES ASSUME SocketInv, runReader PROVE SocketInv'
    OBVIOUS
  <1> USE DEF SocketInv
  <1>1. /\ reader = "woken" /\ reader' = "idle" /\ handleFrame(got)
        /\ UNCHANGED <<readyState, dial, scheduled, buffer, sendQueue, got, thrown, accepted>>
    BY DEF runReader
  <1>2. got \in Event /\ readBuf.left = 0 /\ ~chClosed /\ Is(got, First + 1)
    BY <1>1 DEF SocketTypeOK, InOrder, Channel
  <1>3. /\ readBuf' \in [num : 0 .. MaxMessages, left : Nat] /\ delivered' \in Seq(Message)
        /\ Prefix' /\ chClosed' \in BOOLEAN /\ result' \in {"nil", "EOF"}
        /\ (result' = "EOF" => chClosed') /\ (chClosed' => readyState' = "closed")
        /\ \/ ~chClosed' /\ First' = First + 1
           \/ chClosed' /\ readyState = "closed" /\ First' = First /\ First = Len(accepted)
              /\ readBuf'.left = 0
    BY <1>1, <1>2, HandleFrame
  <1>4. SocketTypeOK'
    BY <1>1, <1>3 DEF SocketTypeOK
  <1>5. /\ Len(buffer) \in Nat /\ Len(sendQueue) \in Nat /\ Len(scheduled) \in Nat
        /\ Len(accepted) \in Nat /\ First \in Nat
    BY Counts DEF SocketTypeOK
  <1>6. InHand = 1 /\ InHand' = 0
    BY <1>1 DEF InHand
  <1>7. Channel'
    BY <1>1 DEF Channel
  <1>8. CASE ~chClosed'
    <2>1. First' = First + 1
      BY <1>3, <1>8
    <2>2. First' + InHand' = First + InHand /\ Sent' = Sent
      BY <1>1, <1>5, <1>6, <2>1 DEF Sent
    <2>3. InOrder'
      BY <1>1, <2>2 DEF InOrder, Is, place
    <2>4. Complete'
      BY <1>1, <1>2, <1>8, <2>2 DEF Complete
    <2> QED
      BY <1>1, <1>3, <1>4, <1>7, <1>8, <2>3, <2>4 DEF Closed
  <1>9. CASE chClosed'
    <2>1. First' = First /\ First = Len(accepted) /\ readyState = "closed" /\ readBuf'.left = 0
      BY <1>3, <1>9
    <2>2. First + 1 + Len(buffer) + Len(sendQueue) + Len(scheduled) = First + 1
      BY <1>2, <1>6, <2>1 DEF Complete, Sent
    <2>3. Len(buffer) = 0 /\ Len(sendQueue) = 0 /\ Len(scheduled) = 0
      BY <1>5, <2>2
    <2>4. InOrder'
      BY <1>1, <2>3 DEF InOrder
    <2>5. Complete'
      BY <1>1, <1>5, <1>6, <1>9, <2>1, <2>3 DEF Complete, Sent
    <2>6. Closed'
      BY <1>1, <1>3, <1>9, <2>1 DEF Closed
    <2> QED
      BY <1>3, <1>4, <1>7, <2>4, <2>5, <2>6
  <1> QED
    BY <1>8, <1>9

\* Read finds the channel empty: it waits, or it is told EOF again.
LEMMA ReadsNothing == SocketInv /\ ReadNothing => SocketInv'
  <1> SUFFICES ASSUME SocketInv, ReadNothing PROVE SocketInv'
    OBVIOUS
  <1> USE DEF SocketInv
  <1>1. /\ UNCHANGED <<readyState, dial, scheduled, chan, got, readBuf, thrown, accepted, delivered>>
        /\ reader = "idle" /\ readBuf.left = 0 /\ buffer = <<>> /\ sendQueue = <<>>
        /\ \/ chClosed /\ result' = "EOF" /\ reader' = reader
           \/ ~chClosed /\ reader' = "waiting" /\ result' = result
    BY DEF ReadNothing
  <1>2. SocketTypeOK'
    BY <1>1 DEF SocketTypeOK, chan
  <1>3. First' = First /\ InHand' = InHand /\ Sent' = Sent
    BY <1>1 DEF First, InHand, Sent, chan
  <1>4. InOrder' /\ Complete' /\ Prefix'
    BY <1>1, <1>3 DEF InOrder, Complete, Prefix, Is, place, chan
  <1>5. Channel' /\ Closed'
    BY <1>1, <1>3 DEF Channel, Closed, chan
  <1> QED
    BY <1>2, <1>4, <1>5

LEMMA OneOnly == \A k \in Nat : k # 0 /\ k <= 1 => k = 1
  OBVIOUS

LEMMA TailOfTwo ==
  ASSUME NEW S, NEW s \in Seq(S), Len(s) = 2
  PROVE  Head(s) = s[1] /\ Tail(s) \in Seq(S) /\ Len(Tail(s)) = 1 /\ Tail(s)[1] = s[2]
  <1>1. s # <<>> /\ Head(s) = s[1]
    OBVIOUS
  <1>2. /\ Tail(s) \in Seq(S) /\ Len(Tail(s)) = Len(s) - 1
        /\ \A i \in 1 .. Len(Tail(s)) : Tail(s)[i] = s[i + 1]
    BY <1>1, HeadTailProperties
  <1>3. Len(Tail(s)) = 1
    BY <1>2
  <1>4. Tail(s)[1] = s[1 + 1]
    BY <1>2, <1>3
  <1> QED
    BY <1>1, <1>2, <1>3, <1>4

LEMMA LastOfAppend ==
  ASSUME NEW S, NEW s \in Seq(S), NEW e \in S
  PROVE  Append(s, e)[Len(s) + 1] = e
  OBVIOUS

LEMMA AppendToOne ==
  ASSUME NEW S, NEW s \in Seq(S), NEW e \in S, Len(s) = 1
  PROVE  /\ Append(s, e) \in Seq(S) /\ Len(Append(s, e)) = 2
         /\ Append(s, e)[1] = s[1] /\ Append(s, e)[2] = e
  <1>1. Append(s, e) \in Seq(S)
    OBVIOUS
  <1>2. Len(Append(s, e)) = Len(s) + 1
    OBVIOUS
  <1>3. \A i \in 1 .. Len(s) : Append(s, e)[i] = s[i]
    OBVIOUS
  <1>4. Append(s, e)[Len(s) + 1] = e
    BY LastOfAppend
  <1>5. Append(s, e)[1] = s[1] /\ Append(s, e)[1 + 1] = e
    BY <1>3, <1>4
  <1> QED
    BY <1>1, <1>2, <1>5

\* Receiving takes the oldest event of the channel and lets a blocked sender
\* put its own in the place.
LEMMA Receive ==
  ASSUME SocketTypeOK, Channel, NEW e \in Event, recv(e)
  PROVE  /\ Len(buffer) = 1 /\ e = buffer[1]
         /\ buffer' \in Seq(Event) /\ sendQueue' \in Seq(Event)
         /\ \/ sendQueue = <<>> /\ buffer' = <<>> /\ sendQueue' = <<>>
            \/ /\ Len(sendQueue) > 0 /\ Len(buffer') = 1 /\ buffer'[1] = sendQueue[1]
               /\ Len(sendQueue') = Len(sendQueue) - 1
               /\ \A i \in 1 .. Len(sendQueue') : sendQueue'[i] = sendQueue[i + 1]
  <1>1. buffer \in Seq(Event) /\ sendQueue \in Seq(Event)
    BY DEF SocketTypeOK
  <1>2. CASE sendQueue = <<>>
    <2>1. buffer # <<>> /\ e = Head(buffer) /\ buffer' = Tail(buffer) /\ sendQueue' = <<>>
      BY <1>2 DEF recv
    <2>2. Len(buffer) = 1
      <3>1. Len(buffer) \in Nat /\ Len(buffer) # 0 /\ Len(buffer) <= 1
        BY <1>1, <2>1 DEF Channel, Capacity
      <3> QED
        BY <3>1, OneOnly
    <2>3. buffer' \in Seq(Event) /\ Len(buffer') = 0
      BY <1>1, <2>1, <2>2
    <2>4. buffer' = <<>>
      BY <2>3
    <2> QED
      BY <1>1, <1>2, <2>1, <2>2, <2>3, <2>4
  <1>3. CASE sendQueue # <<>>
    <2> DEFINE filled == Append(buffer, Head(sendQueue))
    <2>1. e = Head(filled) /\ buffer' = Tail(filled) /\ sendQueue' = Tail(sendQueue)
      BY <1>3 DEF recv
    <2>2. Len(buffer) = 1
      BY <1>3 DEF Channel, Capacity
    <2>3. Head(sendQueue) \in Event /\ Head(sendQueue) = sendQueue[1] /\ Len(sendQueue) > 0
      BY <1>1, <1>3
    <2>4. /\ filled \in Seq(Event) /\ Len(filled) = 2
          /\ filled[1] = buffer[1] /\ filled[2] = sendQueue[1]
      BY <1>1, <2>2, <2>3, AppendToOne
    <2>5. /\ buffer' \in Seq(Event) /\ Len(buffer') = 1 /\ buffer'[1] = sendQueue[1]
          /\ e = buffer[1]
      BY <2>1, <2>4, TailOfTwo
    <2>6. /\ sendQueue' \in Seq(Event) /\ Len(sendQueue') = Len(sendQueue) - 1
          /\ \A i \in 1 .. Len(sendQueue') : sendQueue'[i] = sendQueue[i + 1]
      BY <1>1, <1>3, <2>1
    <2> QED
      BY <2>2, <2>3, <2>5, <2>6
  <1> QED
    BY <1>2, <1>3

\* Read of an event that is in the channel: everything behind it moves up.
LEMMA ReadsEvent == SocketInv /\ ReadEvent => SocketInv'
  <1> SUFFICES ASSUME SocketInv, ReadEvent PROVE SocketInv'
    OBVIOUS
  <1> USE DEF SocketInv
  <1>1. PICK e \in Event : recv(e) /\ handleFrame(e)
    BY DEF ReadEvent
  <1>2. /\ UNCHANGED <<readyState, dial, scheduled, reader, got, thrown, accepted>>
        /\ reader = "idle" /\ readBuf.left = 0 /\ InHand = 0 /\ InHand' = 0
    BY DEF ReadEvent, InHand
  <1>3. /\ Len(buffer) = 1 /\ e = buffer[1]
        /\ buffer' \in Seq(Event) /\ sendQueue' \in Seq(Event)
        /\ \/ sendQueue = <<>> /\ buffer' = <<>> /\ sendQueue' = <<>>
           \/ /\ Len(sendQueue) > 0 /\ Len(buffer') = 1 /\ buffer'[1] = sendQueue[1]
              /\ Len(sendQueue') = Len(sendQueue) - 1
              /\ \A i \in 1 .. Len(sendQueue') : sendQueue'[i] = sendQueue[i + 1]
    BY <1>1, Receive
  <1>4. /\ Len(sendQueue) \in Nat /\ Len(scheduled) \in Nat
        /\ Len(accepted) \in Nat /\ First \in Nat /\ Sent \in Nat
    BY Counts DEF SocketTypeOK
  <1>5. Is(e, First + 1)
    <2>1. Is(buffer[1], First + InHand + 1)
      BY <1>3 DEF InOrder
    <2> QED
      BY <1>2, <1>3, <1>4, <2>1
  <1>6. Sent = First + 1 + Len(sendQueue)
    BY <1>2, <1>3, <1>4 DEF Sent
  <1>7. ~chClosed
    <2>1. CASE chClosed
      <3>1. First + 1 + Len(sendQueue) + Len(scheduled) = First
        BY <1>6, <2>1 DEF Complete, Closed
      <3> QED
        BY <1>4, <3>1
    <2> QED
      BY <2>1
  <1>8. /\ readBuf' \in [num : 0 .. MaxMessages, left : Nat] /\ delivered' \in Seq(Message)
        /\ Prefix' /\ chClosed' \in BOOLEAN /\ result' \in {"nil", "EOF"}
        /\ (result' = "EOF" => chClosed') /\ (chClosed' => readyState' = "closed")
        /\ \/ ~chClosed' /\ First' = First + 1
           \/ chClosed' /\ readyState = "closed" /\ First' = First /\ First = Len(accepted)
              /\ readBuf'.left = 0
    BY <1>1, <1>2, <1>5, <1>7, HandleFrame
  <1>9. SocketTypeOK'
    BY <1>2, <1>3, <1>8 DEF SocketTypeOK
  <1>10. Len(buffer') + Len(sendQueue') = Len(sendQueue)
    <2>1. CASE sendQueue = <<>>
      <3>1. sendQueue' = <<>> /\ buffer' = <<>>
        BY <1>3, <2>1
      <3>2. Len(buffer') = 0 /\ Len(sendQueue') = 0 /\ Len(sendQueue) = 0
        BY <2>1, <3>1
      <3> QED
        BY <3>2
    <2>2. CASE sendQueue # <<>>
      <3>1. Len(buffer') = 1 /\ Len(sendQueue') = Len(sendQueue) - 1
        BY <1>3, <2>2
      <3> QED
        BY <1>4, <3>1
    <2> QED
      BY <2>1, <2>2
  <1>11. Channel'
    <2>1. CASE sendQueue = <<>>
      BY <1>2, <1>3, <2>1 DEF Channel, Capacity
    <2>2. CASE sendQueue # <<>>
      BY <1>2, <1>3, <2>2 DEF Channel, Capacity
    <2> QED
      BY <2>1, <2>2
  <1>12. CASE ~chClosed'
    <2>1. First' = First + 1
      BY <1>8, <1>12
    <2>2. Sent' = Sent
      <3>1. Len(buffer') \in Nat /\ Len(sendQueue') \in Nat
        BY <1>3
      <3>2. Sent' = First' + InHand' + Len(buffer') + Len(sendQueue')
        BY DEF Sent
      <3>3. Sent' = (First + 1) + (Len(buffer') + Len(sendQueue'))
        BY <1>2, <1>4, <2>1, <3>1, <3>2
      <3> QED
        BY <1>4, <1>6, <1>10, <3>3
    <2>3. ASSUME NEW i \in 1 .. Len(buffer') PROVE Is(buffer[i], First + InHand + i)'
      <3>0. Len(sendQueue) > 0 /\ Len(buffer') = 1 /\ buffer'[1] = sendQueue[1]
        <4>1. CASE buffer' = <<>>
          <5>1. Len(buffer') = 0
            BY <4>1
          <5> QED
            BY <5>1
        <4>2. CASE buffer' # <<>>
          BY <1>3, <4>2
        <4> QED
          BY <4>1, <4>2
      <3>1. Is(sendQueue[1], First + InHand + Len(buffer) + 1) /\ i = 1 /\ buffer'[i] = sendQueue[1]
        <4>1. i = 1
          BY <3>0
        <4>2. 1 \in 1 .. Len(sendQueue)
          BY <1>4, <3>0
        <4>3. Is(sendQueue[1], First + InHand + Len(buffer) + 1)
          BY <4>2 DEF InOrder
        <4> QED
          BY <3>0, <4>1, <4>3
      <3>2. First + InHand + Len(buffer) + 1 = First' + InHand' + i
        BY <1>2, <1>3, <1>4, <2>1, <3>1
      <3> QED
        BY <1>2, <3>1, <3>2 DEF Is, place
    <2>4. ASSUME NEW i \in 1 .. Len(sendQueue')
          PROVE  Is(sendQueue[i], First + InHand + Len(buffer) + i)'
      <3>1. /\ Is(sendQueue[i + 1], First + InHand + Len(buffer) + (i + 1))
            /\ sendQueue'[i] = sendQueue[i + 1] /\ Len(buffer') = 1
        BY <1>3, <1>4 DEF InOrder
      <3>2. First + InHand + Len(buffer) + (i + 1) = First' + InHand' + Len(buffer') + i
        BY <1>2, <1>3, <1>4, <2>1, <3>1
      <3> QED
        BY <1>2, <3>1, <3>2 DEF Is, place
    <2>5. InOrder'
      <3>1. \A i \in 1 .. Len(scheduled') : Is(scheduled[i], Sent + i)'
        BY <1>2, <2>2 DEF InOrder, Is, place
      <3> QED
        BY <1>2, <2>3, <2>4, <3>1 DEF InOrder
    <2>6. Complete'
      BY <1>2, <1>7, <1>12, <2>2 DEF Complete
    <2> QED
      BY <1>2, <1>7, <1>8, <1>9, <1>11, <1>12, <2>5, <2>6 DEF Closed
  <1>13. CASE chClosed'
    <2>1. First' = First /\ First = Len(accepted) /\ readyState = "closed" /\ readBuf'.left = 0
      BY <1>8, <1>13
    <2>2. First + 1 + Len(sendQueue) + Len(scheduled) = First + 1
      BY <1>6, <1>7, <2>1 DEF Complete
    <2>3. Len(sendQueue) = 0 /\ Len(scheduled) = 0
      BY <1>4, <2>2
    <2>4. Len(buffer') = 0 /\ Len(sendQueue') = 0
      BY <1>3, <2>3
    <2>5. InOrder'
      BY <1>2, <2>3, <2>4 DEF InOrder
    <2>6. Complete'
      BY <1>2, <1>4, <1>13, <2>1, <2>3, <2>4 DEF Complete, Sent
    <2>7. Closed'
      BY <1>2, <1>8, <1>13, <2>1 DEF Closed
    <2> QED
      BY <1>8, <1>9, <1>11, <2>5, <2>6, <2>7
  <1> QED
    BY <1>12, <1>13

-----------------------------------------------------------------------------
LEMMA SocketStep == SocketInv /\ [SocketNext]_socketVars => SocketInv'
  <1>1. SocketInv /\ UNCHANGED socketVars => SocketInv'
    <2> SUFFICES ASSUME SocketInv, UNCHANGED socketVars PROVE SocketInv'
      OBVIOUS
    <2> USE DEF SocketInv, socketVars, chan
    <2>1. SocketTypeOK'
      BY DEF SocketTypeOK
    <2>2. First' = First /\ InHand' = InHand /\ Sent' = Sent
      BY DEF First, InHand, Sent
    <2>3. InOrder' /\ Complete' /\ Prefix'
      BY <2>2 DEF InOrder, Complete, Prefix, Is, place
    <2>4. Channel' /\ Closed'
      BY <2>2 DEF Channel, Closed
    <2> QED
      BY <2>1, <2>3, <2>4
  <1> QED
    BY <1>1, SocketMoves, SocketArrives, SenderRuns, ReadsRest, ReadsEvent, ReadsNothing, ReaderRuns
       DEF SocketNext

LEMMA SocketInvariant == SocketSpec => []SocketInv
  <1> QED
    BY SocketStarts, SocketStep, PTL DEF SocketSpec

\* The queue of senders, the channel and the reader of a socket are well typed.
THEOREM TypeCorrect == SocketSpec => []SocketTypeOK
  <1>1. SocketInv => SocketTypeOK
    BY DEF SocketInv
  <1> QED
    BY <1>1, SocketInvariant, PTL

\* The goroutine of the close event is scheduled behind those of the messages,
\* and the channel keeps that order (onClose, $send, $recv, handleFrame): a
\* reader is told EOF when it has read everything, and closing the channel finds
\* no goroutine that would still send to it.
THEOREM EOFComesLast == SocketSpec => []EOFIsLast
  <1>1. SocketInv => EOFIsLast
    <2> SUFFICES ASSUME SocketInv PROVE EOFIsLast
      OBVIOUS
    <2>1. ASSUME result = "EOF" PROVE readyState = "closed" /\ delivered = accepted
      <3>1. readyState = "closed" /\ readBuf.left = 0 /\ First = Len(accepted)
        BY <2>1 DEF SocketInv, Closed
      <3>2. Len(delivered) = Len(accepted) /\ delivered \in Seq(Message) /\ accepted \in Seq(Message)
        BY <3>1 DEF SocketInv, SocketTypeOK, First
      <3>3. \A i \in 1 .. Len(delivered) : delivered[i] = accepted[i]
        BY DEF SocketInv, Prefix
      <3> QED
        BY <3>1, <3>2, <3>3
    <2> QED
      BY <2>1 DEF SocketInv, Closed, EOFIsLast
  <1> QED
    BY <1>1, SocketInvariant, PTL
-----------------------------------------------------------------------------
(* The socket implements the stream *)

\* A copy takes nothing, or the next message that was accepted.
LEMMA CopyTakes ==
  ASSUME SocketInv, NEW left \in Nat, NEW n \in ReadSizes, NEW num \in 1 .. MaxMessages,
         num = Len(delivered) + 1, num <= Len(accepted),
         UNCHANGED <<accepted, readyState>>, copyOut(num, left, n)
  PROVE  delivered' = delivered \/ Abstract!Take
  <1> USE DEF SocketInv
  <1>1. CASE ~(left <= n)
    BY <1>1 DEF copyOut
  <1>2. CASE left <= n
    <2>1. delivered' = Append(delivered, accepted[num])
      BY <1>2 DEF copyOut
    <2>2. /\ delivered \in Seq(Message) /\ accepted \in Seq(Message) /\ accepted[num] \in Message
          /\ Len(delivered) \in Nat /\ Len(accepted) \in Nat
      BY DEF SocketTypeOK
    <2>3. /\ delivered' \in Seq(Message) /\ Len(delivered') = num
          /\ \A i \in 1 .. Len(delivered) : delivered'[i] = delivered[i]
          /\ delivered'[num] = accepted[num]
      BY <2>1, <2>2
    <2>4. \A i \in 1 .. num : delivered'[i] = accepted[i]
      BY <2>2, <2>3 DEF Prefix
    <2>5. /\ SubSeq(accepted, 1, num) \in Seq(Message) /\ Len(SubSeq(accepted, 1, num)) = num
          /\ \A i \in 1 .. num : SubSeq(accepted, 1, num)[i] = accepted[i]
      BY <2>2
    <2>6. delivered' = SubSeq(accepted, 1, num)
      BY <2>3, <2>4, <2>5
    <2>7. num \in Len(delivered) + 1 .. Len(accepted)
      BY <2>2
    <2> QED
      BY <2>6, <2>7 DEF Abstract!Take
  <1> QED
    BY <1>1, <1>2

LEMMA HandleTakes ==
  ASSUME SocketInv, NEW e \in Event, readBuf.left = 0, Is(e, First + 1),
         UNCHANGED <<accepted, readyState>>, handleFrame(e)
  PROVE  delivered' = delivered \/ Abstract!Take
  <1>1. CASE e.num = 0
    BY <1>1 DEF handleFrame
  <1>2. CASE e.num # 0
    <2>1. PICK n \in ReadSizes : copyOut(e.num, e.size, n)
      BY <1>2 DEF handleFrame
    <2>2. First = Len(delivered)
      BY DEF First, SocketInv, SocketTypeOK
    <2>3. e.num = Len(delivered) + 1 /\ e.num <= Len(accepted)
      BY <1>2, <2>2 DEF Is, place
    <2>4. e \in Message
      BY <1>2 DEF Event, CloseEvent
    <2>5. e.num \in 1 .. MaxMessages /\ e.size \in Nat
      BY <2>4, SocketAssumption DEF Message
    <2> QED
      BY <2>1, <2>3, <2>5, CopyTakes
  <1> QED
    BY <1>1, <1>2

LEMMA StepImplements ==
  ASSUME SocketInv, [SocketNext]_socketVars
  PROVE  [Abstract!StreamNext]_Abstract!streamVars
  <1> USE DEF Abstract!streamVars
  <1>1. ASSUME New \/ onOpen \/ Close
        PROVE  UNCHANGED Abstract!streamVars
    BY <1>1 DEF New, onOpen, Close
  <1>2. CASE onClose
    <2>1. readyState # "closed" /\ readyState' = "closed" /\ UNCHANGED <<accepted, delivered>>
      BY <1>2 DEF onClose
    <2> QED
      BY <2>1 DEF Abstract!StreamNext, Abstract!CloseStream
  <1>3. ASSUME NEW size \in Sizes, onMessage(size)
        PROVE  Abstract!Put
    <2> DEFINE arrived == [num |-> Len(accepted) + 1, size |-> size]
    <2>1. /\ accepted' = Append(accepted, arrived) /\ readyState # "closed"
          /\ readyState' = readyState /\ delivered' = delivered
      BY <1>3 DEF onMessage
    <2>2. arrived \in Message /\ accepted \in Seq(Message)
      BY <1>3, SocketAssumption DEF onMessage, Message, SocketInv, SocketTypeOK
    <2>3. Len(accepted') = Len(accepted) + 1 /\ SubSeq(accepted', 1, Len(accepted)) = accepted
      BY <2>1, <2>2, AppendProperties
    <2> QED
      BY <2>1, <2>3 DEF Abstract!Put
  <1>4. ASSUME runSender \/ ReadNothing
        PROVE  UNCHANGED Abstract!streamVars
    BY <1>4 DEF runSender, ReadNothing
  <1>5. ASSUME ReadRest
        PROVE  UNCHANGED Abstract!streamVars \/ Abstract!Take
    <2>1. PICK n \in ReadSizes : copyOut(readBuf.num, readBuf.left, n)
      BY <1>5 DEF ReadRest
    <2>2. UNCHANGED <<accepted, readyState>> /\ readBuf.left > 0
      BY <1>5 DEF ReadRest
    <2>3. /\ readBuf.num = Len(delivered) + 1 /\ readBuf.num <= Len(accepted)
          /\ readBuf.left \in Nat /\ Len(delivered) \in Nat /\ readBuf.num \in 0 .. MaxMessages
      BY <2>2 DEF SocketInv, Prefix, SocketTypeOK
    <2>4. readBuf.num \in 1 .. MaxMessages
      BY <2>3, SocketAssumption
    <2>5. delivered' = delivered \/ Abstract!Take
      BY <2>1, <2>2, <2>3, <2>4, CopyTakes
    <2> QED
      BY <2>2, <2>5
  <1>6. ASSUME ReadEvent
        PROVE  UNCHANGED Abstract!streamVars \/ Abstract!Take
    <2>1. PICK e \in Event : recv(e) /\ handleFrame(e)
      BY <1>6 DEF ReadEvent
    <2>2. UNCHANGED <<accepted, readyState>> /\ readBuf.left = 0 /\ InHand = 0
      BY <1>6 DEF ReadEvent, InHand
    <2>3. Len(buffer) = 1 /\ e = buffer[1]
      BY <2>1, Receive DEF SocketInv
    <2>4. Is(buffer[1], First + InHand + 1)
      BY <2>3 DEF SocketInv, InOrder
    <2>5. Is(e, First + 1)
      BY <2>2, <2>3, <2>4, Counts DEF SocketInv
    <2> QED
      BY <2>1, <2>2, <2>5, HandleTakes
  <1>7. ASSUME runReader
        PROVE  UNCHANGED Abstract!streamVars \/ Abstract!Take
    <2>1. handleFrame(got) /\ UNCHANGED <<accepted, readyState>> /\ reader = "woken"
      BY <1>7 DEF runReader
    <2>2. got \in Event /\ readBuf.left = 0 /\ Is(got, First + 1)
      BY <2>1 DEF SocketInv, SocketTypeOK, InOrder, Channel
    <2> QED
      BY <2>1, <2>2, HandleTakes
  <1>8. ASSUME UNCHANGED socketVars
        PROVE  UNCHANGED Abstract!streamVars
    BY <1>8 DEF socketVars
  <1> QED
    BY <1>1, <1>2, <1>3, <1>4, <1>5, <1>6, <1>7, <1>8 DEF SocketNext, Abstract!StreamNext

\* Every behaviour of a page's socket is a behaviour of the stream: neither the
\* goroutine per message nor the channel of one place nor partial reads show.
THEOREM SocketIsStream == SocketSpec => ImplementsStream
  <1>1. SocketInit => Abstract!StreamInit
    BY DEF SocketInit, Abstract!StreamInit
  <1>2. SocketInv /\ [SocketNext]_socketVars => [Abstract!StreamNext]_Abstract!streamVars
    BY StepImplements
  <1> QED
    BY <1>1, <1>2, SocketInvariant, PTL DEF SocketSpec, ImplementsStream, Abstract!StreamSpec

-----------------------------------------------------------------------------
(***************************************************************************)
(* The link of the pages to the forwarder: BrowserLink.                    *)
(***************************************************************************)

\* TypeOK and what the types of waits, conn and via leave open.
LinkType ==
  /\ TypeOK
  /\ waits \in [Sessions -> Sessions \cup {Nil}] /\ conn \in [Pages -> Sessions \cup {Nil}]
  /\ \A c \in Clients : client[c] \in {"opening", "writing"} => via[c] \in Sessions

LEMMA LinkTypeInit == Init => LinkType
  <1> SUFFICES ASSUME Init PROVE LinkType
    OBVIOUS
  <1>1. losses \in 0 .. MaxLosses
    BY LinkAssumption DEF Init
  <1>2. /\ bridgemux \in Sessions \cup {Nil}
        /\ alive \in [Sessions -> BOOLEAN] /\ written \in [Clients -> BOOLEAN]
        /\ {crashed, raced} \subseteq BOOLEAN
    BY DEF Init
  <1>3. QED
    BY <1>1, <1>2 DEF Init, LinkType, TypeOK

LEMMA LinkTypeStep == LinkType /\ [Next]_vars => LinkType'
  <1> SUFFICES ASSUME LinkType, [Next]_vars PROVE LinkType'
    OBVIOUS
  <1> USE DEF LinkType, TypeOK, serverVars, pageVars, clientVars
  <1>1. ASSUME NEW p \in Pages, Load(p) PROVE LinkType'
    BY <1>1 DEF Load
  <1>2. ASSUME NEW p \in Pages, Main(p) PROVE LinkType'
    BY <1>2 DEF Main
  <1>3. ASSUME NEW p \in Pages, AcceptEnds(p) PROVE LinkType'
    BY <1>3 DEF AcceptEnds
  <1>4. ASSUME NEW p \in Pages, TimerFires(p) PROVE LinkType'
    BY <1>4 DEF TimerFires
  <1>5. ASSUME NEW p \in Pages, ServeBridge(p) PROVE LinkType'
    <2>1. CASE bridgemux # Nil
      BY <1>5, <2>1 DEF ServeBridge
    <2>2. ASSUME NEW s \in Sessions, enter(p, s) PROVE LinkType'
      <3>1. raced' \in BOOLEAN
        BY <2>2 DEF enter, overlap
      <3>2. QED
        BY <1>5, <2>2, <3>1 DEF ServeBridge, enter, unused
    <2>3. QED
      BY <1>5, <2>1, <2>2 DEF ServeBridge
  <1>6. ASSUME NEW s \in Sessions, Upgrade(s) PROVE LinkType'
    <2>1. ASSUME NEW p \in Pages, conn[p] = s, page' = [page EXCEPT ![p] = "up"],
                 alive' = [alive EXCEPT ![s] = TRUE], handler' = [handler EXCEPT ![s] = "upgraded"],
                 handler[s] = "checked",
                 UNCHANGED <<bridgemux, waits, conn, clientVars, work, crashed, losses, raced>>
          PROVE  LinkType'
      BY <2>1
    <2>2. ASSUME handler' = [handler EXCEPT ![s] = "free"], UNCHANGED <<page, alive>>,
                 handler[s] = "checked",
                 UNCHANGED <<bridgemux, waits, conn, clientVars, work, crashed, losses, raced>>
          PROVE  LinkType'
      BY <2>2
    <2>3. QED
      BY <1>6, <2>1, <2>2 DEF Upgrade
  <1>7. ASSUME NEW s \in Sessions, Assign(s) PROVE LinkType'
    BY <1>7 DEF Assign
  <1>8. ASSUME NEW s \in Sessions, Accept(s) PROVE LinkType'
    BY <1>8 DEF Accept
  <1>9. ASSUME NEW s \in Sessions, AcceptFails(s) PROVE LinkType'
    BY <1>9 DEF AcceptFails
  <1>10. ASSUME NEW c \in Clients, Check(c) PROVE LinkType'
    BY <1>10 DEF Check
  <1>11. ASSUME NEW c \in Clients, Open(c) PROVE LinkType'
    BY <1>11 DEF Open
  <1>12. ASSUME NEW c \in Clients, OpenReturns(c) PROVE LinkType'
    BY <1>12 DEF OpenReturns
  <1>13. ASSUME NEW c \in Clients, WriteRequest(c) PROVE LinkType'
    <2>1. alive[via[c]] \in BOOLEAN
      BY <1>13 DEF WriteRequest
    <2>2. written' \in [Clients -> BOOLEAN]
      BY <1>13, <2>1 DEF WriteRequest
    <2>3. QED
      BY <1>13, <2>2 DEF WriteRequest
  <1>14. ASSUME NEW c \in Clients, CloseStream(c) PROVE LinkType'
    BY <1>14 DEF CloseStream
  <1>15. ASSUME NEW c \in Clients, StreamRuns(c) PROVE LinkType'
    <2>1. work' \in [Clients -> {"none", "reading", "dialing", "copying", "done"}]
      BY <1>15 DEF StreamRuns, AcceptStream, ReadRequest, DialDestination,
           CopyEnds
    <2>2. UNCHANGED <<serverVars, alive, pageVars, clientVars, crashed, losses,
         raced>>
      BY <1>15 DEF StreamRuns, AcceptStream, ReadRequest, DialDestination,
           CopyEnds
    <2>3. QED
      BY <2>1, <2>2
  <1>16. ASSUME NEW p \in Pages, CloseTab(p) PROVE LinkType'
    BY <1>16, LinkAssumption DEF CloseTab
  <1>17. ASSUME NEW s \in Sessions, Lose(s) PROVE LinkType'
    BY <1>17, LinkAssumption DEF Lose
  <1>18. CASE UNCHANGED vars
    BY <1>18 DEF vars
  <1>19. QED
    BY <1>1, <1>2, <1>3, <1>4, <1>5, <1>6, <1>7, <1>8, <1>9, <1>10, <1>11, <1>12, <1>13,
       <1>14, <1>15, <1>16, <1>17, <1>18
       DEF Next, PageRuns, HandlerRuns, DialRuns

(***************************************************************************)
(* While no two requests were let in at once, a handler between the check   *)
(* of bridgemux and its assignment is alone and there is no bridgemux; one  *)
(* past the assignment finds its own session there.  So AcceptFails takes   *)
(* away the session whose end it saw, and a session that holds has a        *)
(* handler.                                                                *)
(***************************************************************************)
Entering == {s \in Sessions : handler[s] \in {"checked", "upgraded"}}
Entered == {s \in Sessions : handler[s] \in {"assigned", "accepting"}}

OneIn ==
  ~raced /\ ~crashed =>
    /\ \A s \in Entering : bridgemux = Nil /\ \A t \in Entering : s = t
    /\ \A s \in Entered : bridgemux = s /\ (handler[s] = "accepting" => waits[s] = s)
    /\ \A s \in Sessions : alive[s] => handler[s] \in {"upgraded", "assigned", "accepting"}

LEMMA LinkInit == Init => OneIn
  BY DEF Init, OneIn, Entering, Entered

\* A set of which every element is t.
LEMMA Alone == ASSUME NEW S, NEW t \in S, \A r \in S : r = t PROVE S = {t}
  OBVIOUS

\* Two elements are two.
LEMMA Pair == ASSUME NEW s, NEW t, s # t PROVE Cardinality({s, t}) = 2
  <1>1. IsFiniteSet({t}) /\ Cardinality({t}) = 1
    BY FS_Singleton
  <1>2. Cardinality({t} \cup {s}) = Cardinality({t}) + 1
    BY <1>1, FS_AddElement
  <1>3. {t} \cup {s} = {s, t}
    OBVIOUS
  <1>4. QED
    BY <1>1, <1>2, <1>3

LEMMA LinkStep == LinkType /\ OneIn /\ [Next]_vars => OneIn'
  <1> SUFFICES ASSUME LinkType, OneIn, [Next]_vars, ~raced', ~crashed' PROVE OneIn'
    BY DEF OneIn
  <1> USE LinkAssumption DEF LinkType, TypeOK, serverVars, pageVars,
       clientVars, OneIn, Entering, Entered
  <1>0. ~crashed /\ ~raced
    <2>1. crashed => UNCHANGED crashed
      BY DEF Next, vars
    <2>2. ASSUME NEW p \in Pages,
         Load(p) \/ PageRuns(p) \/ CloseTab(p) PROVE raced => raced'
      <3>1. CASE Load(p) \/ CloseTab(p)
        BY <3>1 DEF Load, CloseTab
      <3>2. CASE PageRuns(p)
        BY <3>2 DEF PageRuns, Main, AcceptEnds, TimerFires, ServeBridge,
             enter
      <3>3. QED
        BY <2>2, <3>1, <3>2
    <2>3. ASSUME NEW s \in Sessions, HandlerRuns(s) \/ Lose(s) PROVE raced => raced'
      BY <2>3 DEF HandlerRuns, Upgrade, Assign, Accept, AcceptFails,
           Lose
    <2>4. ASSUME NEW c \in Clients,
         Check(c) \/ DialRuns(c) \/ CloseStream(c) \/ StreamRuns(c)
          PROVE  raced => raced'
      BY <2>4 DEF Check, DialRuns, Open, OpenReturns, WriteRequest,
           CloseStream, StreamRuns,
         AcceptStream, ReadRequest, DialDestination, CopyEnds
    <2>5. raced => raced'
      BY <2>2, <2>3, <2>4 DEF Next, vars
    <2>6. QED
      BY <2>1, <2>5
  <1>1. CASE UNCHANGED <<serverVars, alive>>
    BY <1>1, <1>0
  <1>2. ASSUME NEW p \in Pages, NEW s \in Sessions, enter(p, s), bridgemux = Nil,
       UNCHANGED alive
         PROVE  OneIn'
    <2>1. Entering = {}
      <3>1. SUFFICES ASSUME NEW t \in Entering PROVE FALSE
        OBVIOUS
      <3>2. s # t
        BY <1>2, <3>1 DEF enter, unused
      <3>3. Entering = {t}
        <4>1. \A r \in Entering : r = t
          BY <1>0, <3>1
        <4>2. QED
          BY <3>1, <4>1, Alone
      <3>4. Entering' = {s, t}
        BY <1>2, <3>1, <3>3 DEF enter
      <3>5. Cardinality(Entering') = 2
        <4> HIDE DEF Entering, OneIn, LinkType, TypeOK
        <4>1. QED
          BY <3>2, <3>4, Pair
      <3>6. QED
        <4>1. overlap(handler')
          BY <3>5 DEF overlap
        <4>2. raced' = (raced \/ overlap(handler'))
          BY <1>2 DEF enter
        <4>3. QED
          BY <4>1, <4>2, Zenon
    <2>2. handler[s] = "free" /\ ~alive[s] /\ handler' = [handler EXCEPT ![s] = "checked"]
      BY <1>2 DEF enter, unused
    <2>3. UNCHANGED <<bridgemux, waits, alive>>
      BY <1>2 DEF enter
    <2>4. Entering' = {s}
      BY <2>1, <2>2
    <2>5. Entered' = Entered
      BY <2>2
    <2>6. QED
      BY <1>0, <1>2, <2>2, <2>3, <2>4, <2>5
  <1>3. ASSUME NEW p \in Pages, ServeBridge(p) PROVE OneIn'
    BY <1>1, <1>2, <1>3 DEF ServeBridge
  <1>4. ASSUME NEW s \in Sessions, Upgrade(s) PROVE OneIn'
    BY <1>4, <1>0 DEF Upgrade
  <1>5. ASSUME NEW s \in Sessions, Assign(s) PROVE OneIn'
    <2>1. /\ handler[s] = "upgraded" /\ handler' = [handler EXCEPT ![s] = "assigned"]
          /\ bridgemux' = s /\ UNCHANGED <<waits, alive>>
      BY <1>5 DEF Assign
    <2>2. s \in Entering
      BY <2>1
    <2>3. bridgemux = Nil /\ \A t \in Entering : t = s
      BY <1>0, <2>2
    <2>4. Entered = {}
      BY <1>0, <2>3 DEF Nil
    <2>5. Entering' = {}
      <3>1. \A t \in Sessions : t # s => t \notin Entering /\ handler'[t] = handler[t]
        BY <2>1, <2>3
      <3>2. QED
        BY <2>1, <3>1
    <2>6. Entered' = {s}
      <3>1. \A t \in Entered' : t = s
        BY <2>1, <2>4
      <3>2. s \in Entered'
        BY <2>1
      <3>3. QED
        BY <3>1, <3>2, Alone
    <2>7. QED
      BY <1>0, <2>1, <2>5, <2>6
  <1>6. ASSUME NEW s \in Sessions, Accept(s) PROVE OneIn'
    <2>1. s \in Entered
      BY <1>6 DEF Accept
    <2>2. bridgemux = s /\ bridgemux # Nil
      BY <1>0, <2>1 DEF Nil
    <2>3. /\ waits' = [waits EXCEPT ![s] = s] /\ handler' = [handler EXCEPT ![s] = "accepting"]
          /\ UNCHANGED <<bridgemux, alive>>
      BY <1>6, <2>2 DEF Accept
    <2>4. Entering' = Entering /\ Entered' = Entered
      BY <2>1, <2>3
    <2>5. QED
      BY <1>0, <2>1, <2>2, <2>3, <2>4
  <1>7. ASSUME NEW s \in Sessions, AcceptFails(s) PROVE OneIn'
    BY <1>7, <1>0 DEF AcceptFails
  <1>8. ASSUME NEW c \in Clients, OpenReturns(c) PROVE OneIn'
    BY <1>8, <1>1, <1>0 DEF OpenReturns
  <1>9. ASSUME NEW p \in Pages, CloseTab(p) PROVE OneIn'
    BY <1>9, <1>0 DEF CloseTab
  <1>10. ASSUME NEW s \in Sessions, Lose(s) PROVE OneIn'
    BY <1>10, <1>0 DEF Lose
  <1>11. ASSUME NEW p \in Pages,
       Load(p) \/ Main(p) \/ AcceptEnds(p) \/ TimerFires(p) PROVE OneIn'
    BY <1>1, <1>11 DEF Load, Main, AcceptEnds, TimerFires
  <1>12. ASSUME NEW c \in Clients,
                Check(c) \/ Open(c) \/ WriteRequest(c) \/ CloseStream(c)
                  \/ StreamRuns(c)
         PROVE  OneIn'
    BY <1>1, <1>12 DEF Check, Open, WriteRequest, CloseStream, StreamRuns,
         AcceptStream,
       ReadRequest, DialDestination, CopyEnds
  <1>13. QED
    BY <1>1, <1>3, <1>4, <1>5, <1>6, <1>7, <1>8, <1>9, <1>10, <1>11, <1>12
       DEF Next, PageRuns, HandlerRuns, DialRuns, vars

LEMMA LinkHolds == Spec => [](LinkType /\ OneIn)
  <1>1. Init => LinkType /\ OneIn
    BY LinkTypeInit, LinkInit
  <1>2. LinkType /\ OneIn /\ [Next]_vars => (LinkType /\ OneIn)'
    BY LinkTypeStep, LinkStep
  <1>3. QED
    BY <1>1, <1>2, PTL DEF Spec

\* Whatever pages, handlers and callers do to bridgemux without a lock, it is a
\* session or nil, a handler waits for a session only in Accept, and a page that
\* is connected has its session.
THEOREM LinkTyped == Spec => []TypeOK
  BY LinkHolds, PTL DEF LinkType

\* For any number of pages, handlers and callers: while ServeBridge let in one
\* request at a time, a connected page's session is bridgemux until its handler
\* takes it away.
THEOREM NoOrphans == Spec => []OrphansNeedARace
  <1>1. LinkType /\ OneIn => OrphansNeedARace
    BY DEF LinkType, TypeOK, OneIn, Entered, OrphansNeedARace
  <1>2. QED
    BY <1>1, LinkHolds, PTL
=============================================================================
