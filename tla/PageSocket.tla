----------------------------- MODULE PageSocket -----------------------------
(***************************************************************************)
(* A WebSocket of the browser page (release/extra/browserforwarder), as the *)
(* Go code compiled into it sees one.  The browser calls back once for each *)
(* message and once for the close; a callback must not block, so each one   *)
(* starts a goroutine that sends the event into a channel of capacity 1,    *)
(* and Read takes the events out again.                                     *)
(*                                                                         *)
(* Goroutines of the page share one thread: $scheduled is the queue of      *)
(* those that can run, and one runs until it blocks.  Callbacks come        *)
(* between any two goroutines here, which is more than a browser does       *)
(* unless a goroutine panics ($runScheduled then goes on from a timer).     *)
(* The queue is kept for the senders, whose order is what matters; the one  *)
(* goroutine that reads may come at any place in it.                        *)
(*                                                                         *)
(* Names are chosen apart from BrowserLink's: the proofs extend both.       *)
(***************************************************************************)
EXTENDS Naturals, Sequences

CONSTANTS
  Sizes,        \* the sizes a message may have
  ReadSizes,    \* the sizes of the buffers Read is called with
  MaxMessages   \* bound: messages the socket receives

ASSUME SocketAssumption == /\ Sizes \subseteq Nat
                           /\ ReadSizes \subseteq Nat \ {0}
                           /\ MaxMessages \in Nat

Capacity == 1   \* of b.ch

VARIABLES
  readyState,  \* WebSocket.readyState
  dial,        \* what has become of Dial
  scheduled,   \* $scheduled: the events whose senders have not run yet
  buffer,      \* b.ch: $buffer,
  sendQueue,   \*   $sendQueue: what blocked senders bring,
  chClosed,    \*   $closed
  reader,      \* "idle", "waiting" in b.ch.$recvQueue, or "woken"
  got,         \* the event a woken reader was handed
  readBuf,     \* the message being read, and how much of it is left
  result,      \* what the last Read returned
  thrown,      \* a goroutine has sent to a closed channel
  accepted,    \* history: the messages that arrived
  delivered    \* history: the messages that were read to their end

chan == <<buffer, sendQueue, chClosed>>
socketVars == <<readyState, dial, scheduled, chan, reader, got, readBuf, result, thrown,
          accepted, delivered>>

Message == [num : 1 .. MaxMessages, size : Sizes]
CloseEvent == [num |-> 0, size |-> 0]   \* the nil an onClose sends
Event == Message \cup {CloseEvent}

SocketInit ==
  /\ readyState = "none" /\ dial = "none"
  /\ scheduled = <<>> /\ buffer = <<>> /\ sendQueue = <<>> /\ chClosed = FALSE
  /\ reader = "idle" /\ got = CloseEvent
  /\ readBuf = [num |-> 0, left |-> 0]
  /\ result = "nil" /\ thrown = FALSE
  /\ accepted = <<>> /\ delivered = <<>>

-----------------------------------------------------------------------------
(* The browser's side: Dial and the event listeners *)

\* websocketjs.New: the WebSocket's constructor may throw.
New ==
  /\ readyState = "none" /\ dial = "none"
  /\ \/ readyState' = "connecting" /\ dial' = "dialing"
     \/ readyState' = readyState /\ dial' = "err"
  /\ UNCHANGED <<scheduled, chan, reader, got, readBuf, result, thrown, accepted, delivered>>

\* Dial returns when the socket opens, with the connection ...
onOpen ==
  /\ readyState = "connecting"
  /\ readyState' = "open" /\ dial' = "ok"
  /\ UNCHANGED <<scheduled, chan, reader, got, readBuf, result, thrown, accepted, delivered>>

\* A bug: the goroutine that was started last runs first.
goFirst(e) == <<e>> \o scheduled

\* $go and $schedule: the sender of an event goes to the end of $scheduled.
go(e) == Append(scheduled, e)

\* conn.onMessage.  A closing socket still delivers what was on its way.
onMessage(size) ==
  LET m == [num |-> Len(accepted) + 1, size |-> size] IN
  /\ readyState \in {"open", "closing"}
  /\ Len(accepted) < MaxMessages
  /\ accepted' = Append(accepted, m)
  /\ scheduled' = go(m)
  /\ UNCHANGED <<readyState, dial, chan, reader, got, readBuf, result, thrown, delivered>>

\* ... or when it closes before that, with an error; conn.onClose listens too.
onClose ==
  /\ readyState \in {"connecting", "open", "closing"}
  /\ readyState' = "closed"
  /\ dial' = IF dial = "dialing" THEN "err" ELSE dial
  /\ scheduled' = go(CloseEvent)
  /\ UNCHANGED <<chan, reader, got, readBuf, result, thrown, accepted, delivered>>

\* websocketjs.Close; the close event follows.
Close ==
  /\ dial = "ok" /\ readyState = "open"
  /\ readyState' = "closing"
  /\ UNCHANGED <<dial, scheduled, chan, reader, got, readBuf, result, thrown, accepted, delivered>>

-----------------------------------------------------------------------------
(* The channel *)

\* A bug: a full buffer drops its event instead of blocking the sender.
sendDrops(e) ==
  \/ /\ reader = "waiting"
     /\ reader' = "woken" /\ got' = e
     /\ UNCHANGED <<chan, thrown>>
  \/ /\ reader # "waiting"
     /\ buffer' = IF Len(buffer) < Capacity THEN Append(buffer, e) ELSE buffer
     /\ UNCHANGED <<sendQueue, chClosed, reader, got, thrown>>

\* $send, by the goroutine at the head of $scheduled: it hands its event to a
\* waiting reader, puts it in the buffer, or blocks.  (A sender whose event is
\* taken later only ends.)  On a closed channel it throws: `thrown' records it.
send(e) ==
  /\ thrown' = (thrown \/ chClosed)
  /\ \/ /\ reader = "waiting"
        /\ reader' = "woken" /\ got' = e
        /\ UNCHANGED chan
     \/ /\ reader # "waiting" /\ Len(buffer) < Capacity
        /\ buffer' = Append(buffer, e)
        /\ UNCHANGED <<sendQueue, chClosed, reader, got>>
     \/ /\ reader # "waiting" /\ Len(buffer) >= Capacity
        /\ sendQueue' = Append(sendQueue, e)
        /\ UNCHANGED <<buffer, chClosed, reader, got>>

runSender ==
  /\ scheduled # <<>>
  /\ send(Head(scheduled))
  /\ scheduled' = Tail(scheduled)
  /\ UNCHANGED <<readyState, dial, readBuf, result, accepted, delivered>>

\* A bug: $recv takes from a blocked sender before it takes from the buffer.
recvSender(e) ==
  IF sendQueue # <<>>
    THEN e = Head(sendQueue) /\ sendQueue' = Tail(sendQueue) /\ buffer' = buffer
    ELSE buffer # <<>> /\ e = Head(buffer) /\ buffer' = Tail(buffer) /\ sendQueue' = sendQueue

\* $recv from a channel that has something: the first blocked sender fills up
\* the buffer, and the oldest event leaves it.
recv(e) ==
  LET filled == IF sendQueue = <<>> THEN buffer ELSE Append(buffer, Head(sendQueue)) IN
  /\ filled # <<>> /\ e = Head(filled)
  /\ buffer' = Tail(filled)
  /\ sendQueue' = IF sendQueue = <<>> THEN <<>> ELSE Tail(sendQueue)

-----------------------------------------------------------------------------
(* conn.Read *)

AtMost(a, b) == IF a < b THEN a ELSE b

\* Copying out of message num, of which `left' is left, into a buffer of n:
\* bytes.Reader keeps the rest.
copyOut(num, left, n) ==
  /\ readBuf' = [num |-> num, left |-> left - AtMost(left, n)]
  /\ delivered' = IF left <= n THEN Append(delivered, accepted[num]) ELSE delivered
  /\ result' = "nil"

\* handleFrame for an event that was received, and the copy that follows it in
\* Read: a nil closes the channel, which makes every later Read return EOF.
handleFrame(e) ==
  \/ /\ e.num = 0
     /\ chClosed' = TRUE /\ result' = "EOF"
     /\ UNCHANGED <<readBuf, delivered>>
  \/ /\ e.num # 0
     /\ \E n \in ReadSizes : copyOut(e.num, e.size, n)
     /\ UNCHANGED chClosed

\* Read while a message is half read.
ReadRest ==
  /\ dial = "ok" /\ reader = "idle" /\ readBuf.left > 0
  /\ \E n \in ReadSizes : copyOut(readBuf.num, readBuf.left, n)
  /\ UNCHANGED <<readyState, dial, scheduled, chan, reader, got, thrown, accepted>>

\* Read when the channel has an event, in its buffer or with a blocked sender.
ReadEvent ==
  /\ dial = "ok" /\ reader = "idle" /\ readBuf.left = 0
  /\ \E e \in Event : recv(e) /\ handleFrame(e)
  /\ UNCHANGED <<readyState, dial, scheduled, reader, got, thrown, accepted>>

\* Read on the closed channel, and on one that has nothing.
ReadNothing ==
  /\ dial = "ok" /\ reader = "idle" /\ readBuf.left = 0
  /\ buffer = <<>> /\ sendQueue = <<>>
  /\ \/ chClosed /\ result' = "EOF" /\ reader' = reader
     \/ ~chClosed /\ reader' = "waiting" /\ result' = result
  /\ UNCHANGED <<readyState, dial, scheduled, chan, got, readBuf, thrown, accepted, delivered>>

\* The reader that was handed an event runs.
runReader ==
  /\ reader = "woken"
  /\ reader' = "idle"
  /\ handleFrame(got)
  /\ UNCHANGED <<readyState, dial, scheduled, buffer, sendQueue, got, thrown, accepted>>

-----------------------------------------------------------------------------
Read == ReadRest \/ ReadEvent \/ ReadNothing \/ runReader

SocketNext == \/ New \/ onOpen \/ onClose \/ Close
        \/ \E size \in Sizes : onMessage(size)
        \/ runSender \/ runReader
        \/ ReadRest \/ ReadEvent \/ ReadNothing

\* $runScheduled runs what is scheduled, and the reader (recvLoop, or Copy)
\* reads on; nothing is asked of the socket.
SocketFairness == WF_socketVars(runSender) /\ WF_socketVars(Read)

SocketSpec == SocketInit /\ [][SocketNext]_socketVars /\ SocketFairness

-----------------------------------------------------------------------------
(* Properties *)

SocketTypeOK ==
  /\ readyState \in {"none", "connecting", "open", "closing", "closed"}
  /\ dial \in {"none", "dialing", "ok", "err"}
  /\ scheduled \in Seq(Event) /\ buffer \in Seq(Event) /\ sendQueue \in Seq(Event)
  /\ chClosed \in BOOLEAN /\ thrown \in BOOLEAN
  /\ reader \in {"idle", "waiting", "woken"} /\ got \in Event
  /\ readBuf \in [num : 0 .. MaxMessages, left : Nat]
  /\ result \in {"nil", "EOF"}
  /\ accepted \in Seq(Message) /\ delivered \in Seq(Message)

\* A reader is told EOF only when the socket has closed and every message that
\* came before was read to its end, although the close event has a goroutine of
\* its own that races with those of the messages; and closing the channel never
\* makes a goroutine that still sends panic.
EOFIsLast == /\ result = "EOF" => readyState = "closed" /\ delivered = accepted
             /\ ~thrown

\* The socket is an abstract stream: one goroutine for each message, a channel
\* and partial reads neither lose, repeat nor reorder a message.
Abstract == INSTANCE Stream WITH
  status <- IF readyState = "closed" THEN "closed" ELSE "open"
ImplementsStream == Abstract!StreamSpec

\* Every message that arrived is read, and after a close Read returns EOF, if
\* the reader only reads on: no sender is left blocked, no wake-up is lost.
ReadsEverything ==
  /\ \A n \in 1 .. MaxMessages : Len(accepted) = n ~> Len(delivered) >= n
  /\ (readyState = "closed" /\ dial = "ok") ~> result = "EOF"
=============================================================================
