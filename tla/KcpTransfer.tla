---------------------------- MODULE KcpTransfer ----------------------------
(***************************************************************************)
(* transport/internet/kcp: reliable transfer over UDP, one direction of a   *)
(* connection: one endpoint's SendingWorker, the other's ReceivingWorker,   *)
(* and a network that loses, duplicates and reorders packets.  Each method  *)
(* of a worker runs under its mutex and is one step.  The connection stays  *)
(* active; closing it is KcpLifecycle.                                      *)
(*                                                                         *)
(* A segment's payload is its position in the stream: 1, 2, 3...  Its       *)
(* number is a uint32 in the code and lives in 0 .. Modulus - 1 here; the   *)
(* comparisons that ignore wrap-around in the code ignore it here.          *)
(*                                                                         *)
(* Time is a choice: a segment that was sent before may or may not be due   *)
(* again, a ping may come at any moment.  A list of acknowledgements is a   *)
(* set: at most 128 fit a packet in the code, and the instances stay below. *)
(***************************************************************************)
EXTENDS Integers, FiniteSets, Sequences

CONSTANTS
  Modulus,         \* 2^32 in the code
  InFlightSize,    \* Config.GetSendingInFlightSize
  BufferSize,      \* Config.GetSendingBufferSize
  WindowSize,      \* Config.GetReceivingInFlightSize of the peer
  InitialRemote,   \* 32 in the code
  Magic,           \* 20 in the code
  MaxPush,         \* bound: segments the writer pushes
  NetCap           \* bound: packets in flight each way; more are lost

ASSUME KcpAssumption ==
  /\ {InFlightSize, BufferSize, WindowSize, InitialRemote, Magic, MaxPush, NetCap} \subseteq Nat
  /\ Modulus \in Nat /\ Modulus > 2 * (BufferSize + 1 + WindowSize)
  /\ InitialRemote < Modulus
  /\ WindowSize > 0

VARIABLES
  \* SendingWorker; its window's cache is a set of segments, the oldest first by pos
  cache, firstUnacknowledged, nextNumber, remoteNextNumber, firstUnacknowledgedUpdated,
  \* ReceivingWorker; rcvNext is its nextNumber
  window, acklist, dirty, rcvNext,
  \* packets in flight
  toReceiver, toSender,
  \* history: how many segments were pushed, and what was read
  pushed, delivered

sender   == <<cache, firstUnacknowledged, nextNumber, remoteNextNumber,
              firstUnacknowledgedUpdated, pushed>>
receiver == <<window, acklist, dirty, rcvNext, delivered>>
vars     == <<sender, receiver, toReceiver, toSender>>

\* uint32 arithmetic.
Minus(a, b) == (a - b) % Modulus
Plus(a, b)  == (a + b) % Modulus
Half == Modulus \div 2 - 1      \* 0x7FFFFFFF

Numbers == 0 .. Modulus - 1
Segments == [num: Numbers, pos: Nat \ {0}, sent: BOOLEAN]
Received == [num: Numbers, pos: Nat \ {0}]

DataPacket(s)    == [kind |-> "data", num |-> s.num, pos |-> s.pos, next |-> firstUnacknowledged]
PingPacket(next) == [kind |-> "ping", next |-> next]
AckPacket(nums)  == [kind |-> "ack", una |-> rcvNext, wnd |-> Plus(rcvNext, WindowSize),
                     nums |-> nums]

\* What may be in flight after new packets join: any of them may be lost by then.
Carry(net, packets) == {n \in SUBSET (net \cup packets) : Cardinality(n) <= NetCap}

\* Receiving a packet consumes it, or a duplicate stays in flight.
Consumed(net, p) == {net, net \ {p}}

-----------------------------------------------------------------------------
(* SendingWorker *)

Min(c) == CHOOSE s \in c : \A t \in c : s.pos <= t.pos

First(c) == IF c = {} THEN nextNumber ELSE Min(c).num

FindFirstUnacknowledged(c) ==
  /\ firstUnacknowledged' = First(c)
  /\ firstUnacknowledgedUpdated' = (firstUnacknowledgedUpdated \/ First(c) # firstUnacknowledged)

\* A bug: the segment the receiver waits for counts as received.
ClearThrough(c, una) == {s \in c : \E t \in c : t.pos <= s.pos /\ t.num > una}

\* SendingWindow.Clear: drop from the front while the number is below una.
Clear(c, una) == {s \in c : \E t \in c : t.pos <= s.pos /\ t.num >= una}

\* processAck for every number of the list, first ones first.
\* (SendingWindow.Remove gives up at a number above the one it looks for.)
processAck(c, nums) ==
  LET Acked(s) == /\ s.num \in nums
                  /\ Minus(s.num, First(c)) <= Half
                  /\ Minus(s.num, nextNumber) >= Half
  IN  {s \in c : ~ Acked(s) \/ \E t \in c : t.pos < s.pos /\ t.num > s.num /\ ~ Acked(t)}

\* Push, called by Connection.Write.
Push ==
  /\ pushed < MaxPush
  /\ Cardinality(cache) <= BufferSize
  /\ cache' = cache \cup {[num |-> nextNumber, pos |-> pushed + 1, sent |-> FALSE]}
  /\ nextNumber' = Plus(nextNumber, 1)
  /\ pushed' = pushed + 1
  /\ UNCHANGED <<firstUnacknowledged, remoteNextNumber, firstUnacknowledgedUpdated,
                 receiver, toReceiver, toSender>>

\* The limit of one Flush.
Cwnd == LET allowed == Minus(remoteNextNumber, firstUnacknowledged)
        IN  (IF InFlightSize > allowed THEN allowed ELSE InFlightSize) * Magic

Before(s, due) == Cardinality({t \in due : t.pos < s.pos})

\* A bug: a Flush of a closed window sends nothing.
BatchNoProbe(due) == {s \in due : Before(s, due) < Cwnd}

\* The segments a Flush sends: of those due, the first ones, at least one.
Batch(due) == {s \in due : Before(s, due) = 0 \/ Before(s, due) < Cwnd}

\* Flush with segments: all unsent ones and any of the others are due.
FlushData ==
  /\ cache # {}
  /\ \E again \in SUBSET {s \in cache : s.sent} :
       LET batch == Batch(again \cup {s \in cache : ~ s.sent})
       IN  /\ cache' = (cache \ batch) \cup {[s EXCEPT !.sent = TRUE] : s \in batch}
           /\ toReceiver' \in Carry(toReceiver, {DataPacket(s) : s \in batch})
  /\ firstUnacknowledgedUpdated' = FALSE
  /\ UNCHANGED <<firstUnacknowledged, nextNumber, remoteNextNumber, pushed, receiver, toSender>>

\* Flush without: Ping tells the receiver how far its acknowledgements got.
FlushEmpty ==
  /\ cache = {} /\ firstUnacknowledgedUpdated
  /\ firstUnacknowledgedUpdated' = FALSE
  /\ toReceiver' \in Carry(toReceiver, {PingPacket(firstUnacknowledged)})
  /\ UNCHANGED <<cache, firstUnacknowledged, nextNumber, remoteNextNumber, pushed,
                 receiver, toSender>>

\* The ping every three seconds of Connection.flush, at the sender.
PingReceiver ==
  /\ toReceiver' \in Carry(toReceiver, {PingPacket(firstUnacknowledged)})
  /\ UNCHANGED <<sender, receiver, toSender>>

\* ProcessSegment(AckSegment).
ProcessAckSegment ==
  \E p \in toSender :
    /\ p.kind = "ack"
    /\ remoteNextNumber' = IF remoteNextNumber < p.wnd THEN p.wnd ELSE remoteNextNumber
    /\ cache' = processAck(Clear(cache, p.una), p.nums)
    /\ FindFirstUnacknowledged(cache')
    /\ toSender' \in Consumed(toSender, p)
    /\ UNCHANGED <<nextNumber, pushed, receiver, toReceiver>>

\* Input(CmdOnlySegment): ProcessReceivingNext.
ProcessReceivingNext ==
  \E p \in toSender :
    /\ p.kind = "ping"
    /\ cache' = Clear(cache, p.next)
    /\ FindFirstUnacknowledged(cache')
    /\ toSender' \in Consumed(toSender, p)
    /\ UNCHANGED <<nextNumber, remoteNextNumber, pushed, receiver, toReceiver>>

-----------------------------------------------------------------------------
(* ReceivingWorker *)

\* A bug: the acknowledgement the sender waits for is forgotten too.
ClearAcksThrough(next) == {n \in acklist : n > next}

\* AckList.Clear: forget the acknowledgements the sender does not wait for.
ClearAcks(next) == {n \in acklist : n >= next}

\* A bug: a signed difference lets segments through that were read before.
InWindowSigned(num) == num - rcvNext < WindowSize

\* The window has room for the segment.
InWindow(num) == Minus(num, rcvNext) < WindowSize

\* ProcessSegment(DataSegment), of the segment numbered n.
ProcessDataSegment(n) ==
  \E p \in toReceiver :
    /\ p.kind = "data" /\ p.num = n
    /\ IF InWindow(p.num)
         THEN /\ acklist' = ClearAcks(p.next) \cup {p.num}
              /\ dirty' = TRUE
              /\ window' = IF \E r \in window : r.num = p.num
                             THEN window
                             ELSE window \cup {[num |-> p.num, pos |-> p.pos]}
         ELSE UNCHANGED <<acklist, dirty, window>>
    /\ toReceiver' \in Consumed(toReceiver, p)
    /\ UNCHANGED <<rcvNext, delivered, sender, toSender>>

\* Input(CmdOnlySegment): ProcessSendingNext.
ProcessSendingNext ==
  \E p \in toReceiver :
    /\ p.kind = "ping"
    /\ acklist' = ClearAcks(p.next)
    /\ dirty' = (dirty \/ acklist' # acklist)
    /\ toReceiver' \in Consumed(toReceiver, p)
    /\ UNCHANGED <<window, rcvNext, delivered, sender, toSender>>

\* A bug: a read skips a gap.
RunWithGaps == window

\* The segments a read takes: those whose predecessors are there up to rcvNext.
Run == {r \in window : \A i \in 0 .. Minus(r.num, rcvNext) :
                          \E q \in window : q.num = Plus(rcvNext, i)}

\* The payload a read puts at place i.
Taken(i) == (CHOOSE r \in Run :
               Cardinality({q \in Run : Minus(q.num, rcvNext) < Minus(r.num, rcvNext)}) = i - 1).pos

\* ReadMultiBuffer.
Read ==
  /\ Run # {}
  /\ window' = window \ Run
  /\ rcvNext' = Plus(rcvNext, Cardinality(Run))
  /\ delivered' = delivered \o [i \in 1 .. Cardinality(Run) |-> Taken(i)]
  /\ UNCHANGED <<acklist, dirty, sender, toReceiver, toSender>>

\* AckList.Flush: what was never sent is due, and so is any of the rest.
\* Whatever is due, the packet is filled with the other candidates.
FlushAcks ==
  /\ dirty \/ acklist # {}
  /\ toSender' \in Carry(toSender, {AckPacket(acklist)})
  /\ dirty' = FALSE
  /\ UNCHANGED <<window, acklist, rcvNext, delivered, sender, toReceiver>>

\* The ping every three seconds of Connection.flush, at the receiver.
PingSender ==
  /\ toSender' \in Carry(toSender, {PingPacket(rcvNext)})
  /\ UNCHANGED <<sender, receiver, toReceiver>>

-----------------------------------------------------------------------------
Init ==
  /\ cache = {} /\ firstUnacknowledged = 0 /\ nextNumber = 0
  /\ remoteNextNumber = InitialRemote /\ firstUnacknowledgedUpdated = FALSE
  /\ window = {} /\ acklist = {} /\ dirty = FALSE /\ rcvNext = 0
  /\ toReceiver = {} /\ toSender = {}
  /\ pushed = 0 /\ delivered = <<>>

Next ==
  \/ Push \/ FlushData \/ FlushEmpty \/ PingReceiver
  \/ ProcessAckSegment \/ ProcessReceivingNext
  \/ (\E n \in Numbers : ProcessDataSegment(n)) \/ ProcessSendingNext \/ Read
  \/ FlushAcks \/ PingSender

Spec == Init /\ [][Next]_vars

\* The endpoints keep flushing, reading and receiving, and the network does not
\* lose every copy of a packet that is sent again and again.
LiveSpec ==
  /\ Spec
  /\ WF_vars(Read)
  /\ SF_vars(FlushAcks /\ \E p \in toSender' : p.kind = "ack")
  /\ SF_vars(ProcessAckSegment)
  /\ SF_vars(FlushData /\ \E p \in toReceiver' : p.kind = "data" /\ p.num = firstUnacknowledged)
  /\ SF_vars(ProcessDataSegment(firstUnacknowledged))

-----------------------------------------------------------------------------
(* Properties *)

HasArrived(i) == \/ \E r \in window : r.pos = i
                 \/ \E k \in DOMAIN delivered : delivered[k] = i

\* Every variable has its type; the windows keep within their sizes, and while
\* its first segment is missing the sender runs ahead by no more than its buffer
\* and the peer's window, which keeps the uint32 comparisons of processAck
\* meaningful (sending.go Push, receiving.go ProcessSegment).
TypeOK ==
  /\ cache \subseteq Segments /\ Cardinality(cache) <= BufferSize + 1
  /\ Minus(nextNumber, firstUnacknowledged) <= BufferSize + 1 + WindowSize
  /\ {firstUnacknowledged, nextNumber, remoteNextNumber, rcvNext} \subseteq Numbers
  /\ {firstUnacknowledgedUpdated, dirty} \subseteq BOOLEAN
  /\ window \subseteq Received
  /\ \A r \in window : Minus(r.num, rcvNext) < WindowSize
  /\ acklist \subseteq Numbers
  /\ pushed \in 0 .. MaxPush
  /\ delivered \in Seq(1 .. pushed)

\* A segment the writer got rid of is in the cache until the receiver has it:
\* no acknowledgement, however late or repeated, makes the sender drop a
\* segment that has not arrived (SendingWindow.Clear and Remove against what
\* ReceivingWorker.ProcessSegment takes).
NothingAckedIsLost == \A i \in 1 .. pushed : HasArrived(i) \/ \E s \in cache : s.pos = i

\* The receiver never forgets to acknowledge: while the sender still holds a
\* segment that the receiver has, in its window or already read, the segment's
\* number is on the list (AckList.Clear, driven by the sender's SendingNext).
AckNotForgotten == \A s \in cache : HasArrived(s.pos) => s.num \in acklist

\* A pushed segment is read by the receiver and the sender learns of it, so it
\* stops sending it, even when the window looked closed or acknowledgements
\* were lost (Flush sends at least one segment, Ping carries ReceivingNext).
EverySegmentArrives ==
  \A i \in 1 .. MaxPush :
    pushed >= i ~> Len(delivered) >= i /\ \A s \in cache : s.pos # i

\* The transfer is a stream: what is read is what was written, in order.
Abstract == INSTANCE Stream WITH accepted <- [i \in 1 .. pushed |-> i], status <- "open"
ImplementsStream == Abstract!StreamSpec
=============================================================================
