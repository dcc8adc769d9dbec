------------------------- MODULE KcpTransferProofs -------------------------
(***************************************************************************)
(* Proofs about KcpTransfer, for every size of its windows and every        *)
(* network, while the segment numbers do not wrap.                         *)
(***************************************************************************)
EXTENDS KcpTransfer, FiniteSetTheorems, SequenceTheorems, WellFoundedInduction, TLAPS

(***************************************************************************)
(* A number stands for one segment only, and the receiver's window does not *)
(* reach round to those it had before: the code takes both for granted by   *)
(* comparing uint32 numbers with <.  2^32 segments are some four terabytes. *)
(***************************************************************************)
NoWrap == MaxPush + WindowSize <= Modulus

(***************************************************************************)
(* The receiver has the segment numbered n.                                *)
(***************************************************************************)
Got(n) == n < rcvNext \/ \E r \in window : r.num = n

InCache(n) == \E s \in cache : s.num = n

(***************************************************************************)
(* A segment is numbered by its place in the stream, and the sender waits   *)
(* for the acknowledgement of the first one it holds.                      *)
(***************************************************************************)
SenderOK ==
  /\ pushed \in 0 .. MaxPush /\ nextNumber = pushed
  /\ cache \subseteq Segments
  /\ \A s \in cache : s.pos <= pushed /\ s.num = s.pos - 1
  /\ \A s, t \in cache : s.num = t.num => s = t
  /\ Cardinality(cache) <= BufferSize + 1
  /\ firstUnacknowledged = First(cache)
  /\ remoteNextNumber \in Numbers /\ firstUnacknowledgedUpdated \in BOOLEAN

(***************************************************************************)
(* What was read are the first segments, those of the window come next, and *)
(* the list acknowledges only what the receiver has.                       *)
(***************************************************************************)
ReceiverOK ==
  /\ rcvNext \in 0 .. pushed
  /\ delivered = [i \in 1 .. rcvNext |-> i]
  /\ window \subseteq Received
  /\ \A r \in window : r.pos <= pushed /\ r.num = r.pos - 1
  /\ \A r \in window : rcvNext <= r.num /\ r.num < rcvNext + WindowSize
  /\ \A n \in acklist : n \in Nat /\ n < rcvNext + WindowSize /\ Got(n)
  /\ dirty \in BOOLEAN

(***************************************************************************)
(* A packet of any age knows no more of the other end than is true now: of  *)
(* the sender's SendingNext, of the receiver's ReceivingNext, and of what   *)
(* the receiver has.                                                       *)
(***************************************************************************)
FromSender(p) ==
  /\ p.kind \in {"data", "ping"}
  /\ p.next \in Nat /\ p.next <= firstUnacknowledged
  /\ p.kind = "data" => p.num \in Nat /\ p.pos = p.num + 1 /\ p.pos <= pushed

FromReceiver(p) ==
  /\ p.kind \in {"ack", "ping"}
  /\ p.kind = "ping" => p.next \in Nat /\ p.next <= rcvNext
  /\ p.kind = "ack" =>
       /\ p.una \in Nat /\ p.una <= rcvNext /\ p.wnd \in Numbers
       /\ \A n \in p.nums : n \in Nat /\ n < p.una + WindowSize /\ Got(n)

NetworkOK ==
  /\ \A p \in toReceiver : FromSender(p)
  /\ \A p \in toSender : FromReceiver(p)

(***************************************************************************)
(* Every segment that was pushed is held by one of the two ends.           *)
(***************************************************************************)
Kept == \A n \in 0 .. pushed - 1 : Got(n) \/ InCache(n)

(***************************************************************************)
(* A segment that both ends hold is on the list.                           *)
(***************************************************************************)
Listed == \A s \in cache : Got(s.num) => s.num \in acklist

(***************************************************************************)
(* The sender got rid of a segment out of turn only within the window the   *)
(* receiver has behind the first one that is missing.                      *)
(***************************************************************************)
Ahead ==
  \A n \in Nat : firstUnacknowledged <= n /\ n < pushed =>
                   InCache(n) \/ n < firstUnacknowledged + WindowSize

TransferInv == SenderOK /\ ReceiverOK /\ NetworkOK /\ Kept /\ Listed /\ Ahead

-----------------------------------------------------------------------------
(* Numbers *)

LEMMA Constants ==
  /\ Modulus \in Nat /\ MaxPush \in Nat /\ BufferSize \in Nat
  /\ WindowSize \in Nat \ {0} /\ InitialRemote \in 0 .. Modulus - 1
  BY KcpAssumption

LEMMA PlusIs ==
  ASSUME NEW a \in Nat, NEW b \in Nat, a + b < Modulus
  PROVE  Plus(a, b) = a + b
  BY Constants DEF Plus

LEMMA PlusType ==
  ASSUME NEW a \in Nat, NEW b \in Nat
  PROVE  Plus(a, b) \in Numbers
  BY KcpAssumption DEF Plus, Numbers

LEMMA MinusIs ==
  ASSUME NEW a \in Nat, NEW b \in Nat, b <= a, a < Modulus
  PROVE  Minus(a, b) = a - b
  BY Constants DEF Minus

LEMMA MinusBelow ==
  ASSUME NEW a \in Nat, NEW b \in Nat, a < b, b <= Modulus
  PROVE  Minus(a, b) = Modulus - (b - a)
  BY Constants DEF Minus

\* A set of numbers has a least one.
LEMMA LeastIs ==
  ASSUME NEW N \in SUBSET Nat, N # {}
  PROVE  \E m \in N : \A n \in N : m <= n
  <1> DEFINE below == {0 .. n : n \in N}
  <1>1. below \subseteq FiniteSubsetsOf(Nat) /\ below # {}
    <2>1. \A n \in N : 0 .. n \in SUBSET Nat /\ IsFiniteSet(0 .. n)
      BY FS_Interval
    <2> QED
      BY <2>1 DEF FiniteSubsetsOf
  <1>2. PICK x \in below : \A y \in below : <<y, x>> \notin StrictSubsetOrdering(Nat)
    BY <1>1, WFMin, FS_StrictSubsetOrderingWellFounded
  <1>3. PICK m \in N : x = 0 .. m
    OBVIOUS
  <1>4. ASSUME NEW n \in N, n < m PROVE FALSE
    <2>1. m \in 0 .. m /\ m \notin 0 .. n
      BY <1>4
    <2>2. 0 .. n \in below /\ 0 .. n \subseteq 0 .. m /\ 0 .. n # 0 .. m /\ 0 .. m \subseteq Nat
      BY <1>4, <2>1
    <2> QED
      BY <2>2, <1>2, <1>3 DEF StrictSubsetOrdering
  <1> QED
    BY <1>4

LEMMA MinIs ==
  ASSUME NEW c, c # {}, \A s \in c : s.pos \in Nat
  PROVE  Min(c) \in c /\ \A t \in c : Min(c).pos <= t.pos
  <1>1. PICK m \in {s.pos : s \in c} : \A n \in {s.pos : s \in c} : m <= n
    BY LeastIs
  <1> QED
    BY <1>1 DEF Min

\* The number Flush and Clear go by: that of the first segment held.
LEMMA FirstIs ==
  ASSUME NEW c, \A s \in c : s.pos \in Nat /\ s.num = s.pos - 1
  PROVE  /\ c = {} => First(c) = nextNumber
         /\ c # {} => \E s \in c : First(c) = s.num
         /\ \A s \in c : First(c) <= s.num
  <1>1. CASE c = {}
    BY <1>1 DEF First
  <1>2. CASE c # {}
    <2>1. Min(c) \in c /\ (\A t \in c : Min(c).pos <= t.pos) /\ First(c) = Min(c).num
      BY <1>2, MinIs DEF First
    <2> QED
      BY <1>2, <2>1
  <1> QED
    BY <1>1, <1>2

-----------------------------------------------------------------------------
(* The sets are finite *)

LEMMA CacheFinite ==
  ASSUME SenderOK
  PROVE  IsFiniteSet(cache) /\ Cardinality(cache) \in Nat
  <1> DEFINE f == [s \in cache |-> s.num]
  <1>1. f \in Injection(cache, 0 .. pushed)
    BY DEF SenderOK, Segments, Numbers, Injection, IsInjective
  <1>2. IsFiniteSet(0 .. pushed)
    BY FS_Interval DEF SenderOK
  <1> QED
    BY <1>1, <1>2, FS_Injection, FS_CardinalityType

LEMMA WindowFinite ==
  ASSUME ReceiverOK, pushed \in Nat
  PROVE  IsFiniteSet(window)
  <1> DEFINE f == [r \in window |-> r.num]
  <1>1. \A r, q \in window : r.num = q.num => r = q
    BY DEF ReceiverOK, Received, Numbers
  <1>2. f \in Injection(window, 0 .. pushed)
    BY <1>1 DEF ReceiverOK, Received, Numbers, Injection, IsInjective
  <1>3. IsFiniteSet(0 .. pushed)
    BY FS_Interval
  <1> QED
    BY <1>2, <1>3, FS_Injection


-----------------------------------------------------------------------------
(* The initial states, and what a step leaves alone *)

LEMMA Start == Init => TransferInv
  <1> SUFFICES ASSUME Init PROVE TransferInv
    OBVIOUS
  <1>1. SenderOK
    <2>1. Cardinality(cache) = 0
      BY FS_EmptySet DEF Init
    <2>2. 0 \in 0 .. MaxPush /\ 0 <= BufferSize + 1 /\ InitialRemote \in Numbers
      BY Constants DEF Numbers
    <2>3. First(cache) = 0
      BY DEF Init, First
    <2>4. cache = {} /\ pushed = 0 /\ nextNumber = 0 /\ firstUnacknowledged = 0
          /\ remoteNextNumber = InitialRemote /\ firstUnacknowledgedUpdated = FALSE
      BY DEF Init
    <2> QED
      BY <2>1, <2>2, <2>3, <2>4 DEF SenderOK
  <1>2. ReceiverOK
    <2>1. delivered = [i \in 1 .. rcvNext |-> i]
      BY DEF Init
    <2>2. rcvNext = 0 /\ pushed = 0 /\ window = {} /\ acklist = {} /\ dirty = FALSE
      BY DEF Init
    <2>3. rcvNext \in 0 .. pushed
      BY <2>2
    <2> QED
      BY <2>1, <2>2, <2>3, Zenon DEF ReceiverOK
  <1>3. NetworkOK
    BY DEF Init, NetworkOK
  <1>4. Kept /\ Listed /\ Ahead
    BY DEF Init, Kept, Listed, Ahead
  <1> QED
    BY <1>1, <1>2, <1>3, <1>4 DEF TransferInv

LEMMA ReceiverKept ==
  ASSUME ReceiverOK, pushed \in Nat, pushed' \in Nat, pushed <= pushed', UNCHANGED receiver
  PROVE  ReceiverOK' /\ \A n : Got(n)' <=> Got(n)
  <1>1. UNCHANGED <<window, acklist, dirty, rcvNext, delivered>>
    BY DEF receiver
  <1>2. \A n : Got(n)' <=> Got(n)
    BY <1>1 DEF Got
  <1>3. ReceiverOK'
    <2>1. rcvNext \in 0 .. pushed'
      BY DEF ReceiverOK
    <2>2. \A r \in window : r.pos \in Nat /\ r.pos <= pushed'
      BY DEF ReceiverOK, Received
    <2> QED
      BY <1>1, <1>2, <2>1, <2>2 DEF ReceiverOK
  <1> QED
    BY <1>2, <1>3

LEMMA SenderKept ==
  ASSUME SenderOK, UNCHANGED sender
  PROVE  SenderOK' /\ \A n : InCache(n)' <=> InCache(n)
  BY DEF SenderOK, sender, First, Min, InCache

\* The first unacknowledged segment is one of those pushed, or the next.
LEMMA FirstType ==
  ASSUME SenderOK
  PROVE  /\ firstUnacknowledged \in 0 .. pushed
         /\ \A s \in cache : s.num \in Nat /\ s.pos \in Nat \ {0} /\ s.num < pushed
                             /\ firstUnacknowledged <= s.num
  <1>1. \A s \in cache : s.num \in Nat /\ s.pos \in Nat \ {0} /\ s.num < pushed /\ s.num = s.pos - 1
    BY DEF SenderOK, Segments, Numbers
  <1> QED
    BY <1>1, FirstIs DEF SenderOK

\* What the packets in flight know stays true while both ends only advance.
LEMMA PacketsAge ==
  ASSUME NetworkOK, SenderOK, ReceiverOK,
         firstUnacknowledged' \in Nat, firstUnacknowledged <= firstUnacknowledged',
         pushed' \in Nat, pushed <= pushed', rcvNext' \in Nat, rcvNext <= rcvNext',
         \A n \in Nat : Got(n) => Got(n)'
  PROVE  (\A p \in toReceiver : FromSender(p)') /\ (\A p \in toSender : FromReceiver(p)')
  <1>0. firstUnacknowledged \in Nat /\ pushed \in Nat /\ rcvNext \in Nat
    BY FirstType DEF SenderOK, ReceiverOK
  <1>1. ASSUME NEW p \in toReceiver PROVE FromSender(p)'
    BY <1>0, <1>1 DEF NetworkOK, FromSender
  <1>2. ASSUME NEW p \in toSender PROVE FromReceiver(p)'
    <2>1. FromReceiver(p)
      BY <1>2 DEF NetworkOK
    <2>2. p.kind = "ping" => p.next \in Nat /\ p.next <= rcvNext'
      BY <2>1, <1>0 DEF FromReceiver
    <2>3. p.kind = "ack" => /\ p.una \in Nat /\ p.una <= rcvNext' /\ p.wnd \in Numbers
                            /\ \A n \in p.nums : n \in Nat /\ n < p.una + WindowSize /\ Got(n)'
      BY <2>1, <1>0 DEF FromReceiver
    <2> QED
      BY <2>1, <2>2, <2>3 DEF FromReceiver
  <1> QED
    BY <1>1, <1>2

LEMMA CarryIs ==
  ASSUME NEW net, NEW packets, NEW m \in Carry(net, packets)
  PROVE  m \subseteq net \cup packets
  BY DEF Carry

LEMMA ConsumedIs ==
  ASSUME NEW net, NEW p, NEW m \in Consumed(net, p)
  PROVE  m \subseteq net
  BY DEF Consumed

-----------------------------------------------------------------------------
(* The sender's steps *)

LEMMA PushKeeps ==
  ASSUME NoWrap, TransferInv, Push
  PROVE  TransferInv'
  <1> DEFINE new == [num |-> nextNumber, pos |-> pushed + 1, sent |-> FALSE]
  <1> USE DEF TransferInv
  <1>1. /\ pushed' = pushed + 1 /\ cache' = cache \cup {new} /\ nextNumber = pushed
        /\ UNCHANGED <<firstUnacknowledged, remoteNextNumber, firstUnacknowledgedUpdated,
                       receiver, toReceiver, toSender>>
        /\ pushed \in 0 .. MaxPush /\ pushed < MaxPush /\ pushed \in Nat /\ pushed + 1 < Modulus
    BY Constants DEF Push, SenderOK, NoWrap
  <1>2. nextNumber' = pushed + 1
    BY <1>1, PlusIs DEF Push
  <1>3. new \in Segments
    BY <1>1, Constants DEF Segments, Numbers
  <1>4. \A s \in cache : s.num # pushed
    BY FirstType
  <1>5. ReceiverOK' /\ \A n : Got(n)' <=> Got(n)
    BY <1>1, ReceiverKept, Constants
  <1>6. SenderOK'
    <2>1. \A s \in cache' : s.pos \in Nat /\ s.pos <= pushed' /\ s.num = s.pos - 1
      BY <1>1, FirstType, Constants DEF SenderOK
    <2>2. \A s, t \in cache' : s.num = t.num => s = t
      <3>1. \A s, t \in cache : s.num = t.num => s = t
        BY DEF SenderOK
      <3>2. new.num = pushed
        BY <1>1
      <3> QED
        BY <3>1, <3>2, <1>1, <1>4
    <2>3. Cardinality(cache') <= BufferSize + 1
      <3>1. new \notin cache
        BY <1>4, <1>1
      <3>2. Cardinality(cache') = Cardinality(cache) + 1
        BY <1>1, <3>1, CacheFinite, FS_AddElement
      <3> QED
        BY <3>2, CacheFinite, Constants DEF Push
    <2>4. firstUnacknowledged = First(cache)'
      <3>0. cache' # {} /\ \A s \in cache' : s.pos \in Nat /\ s.num = s.pos - 1
        BY <2>1, <1>1
      <3>1. Min(cache') \in cache' /\ \A t \in cache' : Min(cache').pos <= t.pos
        BY <3>0, MinIs
      <3>2. First(cache)' = Min(cache').num
        BY <3>0 DEF First, Min
      <3>3. CASE cache = {}
        <4>1. Min(cache') = new
          BY <1>1, <3>1, <3>3
        <4> QED
          BY <3>2, <3>3, <4>1 DEF SenderOK, First
      <3>4. CASE cache # {}
        <4>1. Min(cache) \in cache /\ \A t \in cache : Min(cache).pos <= t.pos
          BY <3>4, FirstType, MinIs
        <4>2. firstUnacknowledged = Min(cache).num
          BY <3>4 DEF SenderOK, First
        <4>3. new.pos = pushed + 1 /\ Min(cache).pos \in Nat /\ Min(cache).pos <= pushed
          BY <4>1, <1>1, FirstType DEF SenderOK
        <4>4. Min(cache').pos <= Min(cache).pos /\ Min(cache').pos \in Nat
          BY <4>1, <3>1, <3>0, <1>1
        <4>5. Min(cache') \in cache
          BY <4>3, <4>4, <3>1, <1>1
        <4>6. Min(cache').pos = Min(cache).pos
          BY <4>1, <4>3, <4>4, <4>5
        <4>7. Min(cache').num = Min(cache).num
          BY <4>1, <4>5, <4>6 DEF SenderOK
        <4> QED
          BY <3>2, <4>2, <4>7
      <3> QED
        BY <3>3, <3>4
    <2> QED
      BY <1>1, <1>2, <1>3, <2>1, <2>2, <2>3, <2>4, Constants DEF SenderOK
  <1>7. NetworkOK'
    BY <1>1, <1>5, <1>6, PacketsAge, FirstType DEF NetworkOK, ReceiverOK, receiver
  <1>8. \A n : InCache(n)' <=> InCache(n) \/ n = pushed
    <2>1. cache' = cache \cup {new} /\ new.num = pushed
      BY <1>1
    <2> QED
      BY <2>1 DEF InCache
  <1>9. Kept'
    BY <1>1, <1>5, <1>8 DEF Kept
  <1>10. Listed'
    <2>1. ~ Got(pushed)
      BY <1>1 DEF Got, ReceiverOK, Received
    <2> QED
      BY <2>1, <1>1, <1>5 DEF Listed, receiver
  <1>11. Ahead'
    BY <1>1, <1>8 DEF Ahead
  <1> QED
    BY <1>5, <1>6, <1>7, <1>9, <1>10, <1>11

\* A step that changes no segment of the sender's but for sent.
LEMMA SenderSends ==
  ASSUME TransferInv, SenderOK', \A n : InCache(n)' <=> InCache(n),
         UNCHANGED <<firstUnacknowledged, pushed, receiver, toSender>>,
         \A p \in toReceiver' : p \in toReceiver \/ FromSender(p)'
  PROVE  TransferInv'
  <1> USE DEF TransferInv
  <1>1. pushed \in Nat /\ rcvNext \in Nat /\ UNCHANGED <<rcvNext, acklist>> /\ firstUnacknowledged \in Nat
    BY FirstType DEF SenderOK, ReceiverOK, receiver
  <1>2. ReceiverOK' /\ \A n : Got(n)' <=> Got(n)
    BY <1>1, ReceiverKept
  <1>3. NetworkOK'
    <2>1. (\A p \in toReceiver : FromSender(p)') /\ (\A p \in toSender : FromReceiver(p)')
      BY <1>1, <1>2, PacketsAge
    <2> QED
      BY <2>1 DEF NetworkOK
  <1>4. Kept'
    BY <1>2 DEF Kept
  <1>5. Listed'
    <2>1. \A n : InCache(n) /\ Got(n) => n \in acklist
      BY DEF Listed, InCache
    <2>2. \A n : InCache(n)' /\ Got(n)' => n \in acklist'
      BY <2>1, <1>1, <1>2
    <2> QED
      BY <2>2 DEF Listed, InCache
  <1>6. Ahead'
    BY DEF Ahead
  <1> QED
    BY <1>2, <1>3, <1>4, <1>5, <1>6

LEMMA FlushDataKeeps ==
  ASSUME TransferInv, FlushData
  PROVE  TransferInv'
  <1> USE DEF TransferInv
  <1>1. PICK again \in SUBSET {s \in cache : s.sent} :
          LET batch == Batch(again \cup {s \in cache : ~ s.sent})
          IN  /\ cache' = (cache \ batch) \cup {[s EXCEPT !.sent = TRUE] : s \in batch}
              /\ toReceiver' \in Carry(toReceiver, {DataPacket(s) : s \in batch})
    BY DEF FlushData
  <1> DEFINE batch == Batch(again \cup {s \in cache : ~ s.sent})
             f == [s \in cache |-> IF s \in batch THEN [s EXCEPT !.sent = TRUE] ELSE s]
  <1>2. batch \subseteq cache
    BY DEF Batch
  <1>3. UNCHANGED <<firstUnacknowledged, nextNumber, remoteNextNumber, pushed, receiver, toSender>>
        /\ firstUnacknowledgedUpdated' = FALSE
    BY DEF FlushData
  <1>4. \A s \in cache : f[s] \in Segments /\ f[s].num = s.num /\ f[s].pos = s.pos
    BY DEF SenderOK, Segments
  <1>5. cache' = {f[s] : s \in cache}
    BY <1>1, <1>2
  <1> HIDE DEF f, batch
  <1>6. SenderOK'
    <2>1. cache' \subseteq Segments
      BY <1>4, <1>5
    <2>2. \A s \in cache' : s.pos \in Nat /\ s.pos <= pushed /\ s.num = s.pos - 1
      BY <1>4, <1>5, FirstType DEF SenderOK
    <2>3. \A s, t \in cache' : s.num = t.num => s = t
      <3> SUFFICES ASSUME NEW s \in cache, NEW t \in cache, f[s].num = f[t].num
                   PROVE  f[s] = f[t]
        BY <1>5
      <3> QED
        BY <1>4 DEF SenderOK
    <2>4. Cardinality(cache') <= Cardinality(cache) /\ Cardinality(cache') \in Nat
      <3>1. f \in Surjection(cache, cache')
        <4>1. f \in [cache -> cache']
          BY <1>5 DEF f
        <4> QED
          BY <4>1, <1>5 DEF Surjection
      <3> QED
        BY <3>1, CacheFinite, FS_Surjection, FS_CardinalityType
    <2>5. firstUnacknowledged = First(cache')
      <3>1. /\ cache' = {} => First(cache') = nextNumber
            /\ cache' # {} => \E s \in cache' : First(cache') = s.num
            /\ \A s \in cache' : First(cache') <= s.num
        BY <2>2, FirstIs
      <3>2. /\ cache = {} => First(cache) = nextNumber
            /\ cache # {} => \E s \in cache : First(cache) = s.num
            /\ \A s \in cache : First(cache) <= s.num
        BY FirstType, FirstIs DEF SenderOK
      <3>3. cache' = {} <=> cache = {}
        BY <1>5
      <3>4. CASE cache # {}
        <4>1. PICK s \in cache : First(cache) = s.num
          BY <3>2, <3>4
        <4>2. PICK t \in cache : First(cache') = f[t].num
          BY <3>1, <3>3, <3>4, <1>5
        <4>3. First(cache) = s.num /\ First(cache') = t.num /\ s.num \in Nat /\ t.num \in Nat
          BY <4>1, <4>2, <1>4, FirstType
        <4>4. First(cache) <= t.num /\ First(cache') <= f[s].num /\ f[s].num = s.num
          BY <3>1, <3>2, <1>4, <1>5
        <4>5. First(cache) = First(cache')
          BY <4>3, <4>4
        <4> QED
          BY <4>5 DEF SenderOK
      <3> QED
        BY <3>1, <3>2, <3>3, <3>4 DEF SenderOK
    <2>6. First(cache)' = First(cache')
      BY <1>3 DEF First, Min
    <2>7. Cardinality(cache') <= BufferSize + 1
      BY <2>4, CacheFinite, Constants DEF SenderOK
    <2>8. firstUnacknowledged' = First(cache)'
      BY <1>3, <2>5, <2>6
    <2> QED
      BY <1>3, <2>1, <2>2, <2>3, <2>7, <2>8 DEF SenderOK
  <1>7. \A n : InCache(n)' <=> InCache(n)
    BY <1>4, <1>5 DEF InCache
  <1>8. ASSUME NEW s \in batch, NEW p, p = DataPacket(s) PROVE FromSender(p)'
    <2>1. s.num \in Nat /\ s.pos = s.num + 1 /\ s.pos <= pushed /\ firstUnacknowledged \in Nat
      BY <1>2, FirstType DEF SenderOK
    <2> QED
      BY <1>3, <1>8, <2>1 DEF FromSender, DataPacket
  <1>9. toReceiver' \subseteq toReceiver \cup {DataPacket(s) : s \in batch}
    BY <1>1, CarryIs DEF batch
  <1>10. \A p \in toReceiver' : p \in toReceiver \/ FromSender(p)'
    BY <1>8, <1>9
  <1> QED
    BY <1>3, <1>6, <1>7, <1>10, SenderSends

LEMMA PingReceiverKeeps ==
  ASSUME TransferInv, FlushEmpty \/ PingReceiver
  PROVE  TransferInv'
  <1> USE DEF TransferInv
  <1>1. UNCHANGED <<cache, firstUnacknowledged, nextNumber, remoteNextNumber, pushed, receiver, toSender>>
        /\ firstUnacknowledgedUpdated' \in BOOLEAN
        /\ toReceiver' \in Carry(toReceiver, {PingPacket(firstUnacknowledged)})
    BY DEF FlushEmpty, PingReceiver, sender, SenderOK
  <1>2. SenderOK' /\ \A n : InCache(n)' <=> InCache(n)
    BY <1>1 DEF SenderOK, First, Min, InCache
  <1>3. FromSender(PingPacket(firstUnacknowledged))'
    BY <1>1, FirstType DEF FromSender, PingPacket
  <1>4. \A p \in toReceiver' : p \in toReceiver \/ FromSender(p)'
    BY <1>1, <1>3, CarryIs
  <1> QED
    BY <1>1, <1>2, <1>4, SenderSends

\* The sender drops segments the receiver has, those below una and some of the
\* window behind it.
LEMMA Drops ==
  ASSUME TransferInv, NEW una \in Nat, una <= rcvNext,
         cache' \subseteq cache,
         \A s \in cache' : una <= s.num,
         \A s \in cache : s \in cache' \/ (Got(s.num) /\ s.num < una + WindowSize),
         firstUnacknowledged' = First(cache'),
         remoteNextNumber' \in Numbers, firstUnacknowledgedUpdated' \in BOOLEAN,
         UNCHANGED <<nextNumber, pushed, receiver, toReceiver>>, toSender' \subseteq toSender
  PROVE  TransferInv'
  <1> USE DEF TransferInv
  <1>1. pushed \in Nat /\ rcvNext \in Nat /\ rcvNext <= pushed /\ nextNumber = pushed
        /\ firstUnacknowledged \in Nat /\ firstUnacknowledged <= pushed
        /\ UNCHANGED <<rcvNext, acklist>>
    BY FirstType DEF SenderOK, ReceiverOK, receiver
  <1>2. ReceiverOK' /\ \A n : Got(n)' <=> Got(n)
    BY <1>1, ReceiverKept
  <1>3. /\ cache' = {} => First(cache') = nextNumber
        /\ cache' # {} => \E s \in cache' : First(cache') = s.num
    BY FirstType, FirstIs DEF SenderOK
  <1>4. /\ firstUnacknowledged' \in Nat /\ firstUnacknowledged <= firstUnacknowledged'
        /\ una <= firstUnacknowledged'
    <2>1. CASE cache' = {}
      BY <1>1, <1>3, <2>1
    <2>2. CASE cache' # {}
      <3>1. PICK s \in cache' : firstUnacknowledged' = s.num
        BY <1>3, <2>2
      <3>2. s \in cache /\ una <= s.num
        BY <3>1
      <3> QED
        BY <3>1, <3>2, FirstType
    <2> QED
      BY <2>1, <2>2
  <1>5. SenderOK'
    <2>1. Cardinality(cache') <= BufferSize + 1
      <3>1. Cardinality(cache') <= Cardinality(cache) /\ IsFiniteSet(cache')
        BY CacheFinite, FS_Subset
      <3>2. Cardinality(cache) <= BufferSize + 1
        BY DEF SenderOK
      <3> QED
        BY <3>1, <3>2, CacheFinite, FS_CardinalityType, Constants
    <2>2. firstUnacknowledged' = First(cache)'
      BY DEF First, Min
    <2>3. /\ pushed \in 0 .. MaxPush /\ nextNumber = pushed /\ cache \subseteq Segments
          /\ \A s \in cache : s.pos <= pushed /\ s.num = s.pos - 1
          /\ \A s, t \in cache : s.num = t.num => s = t
      BY DEF SenderOK
    <2> QED
      BY <2>1, <2>2, <2>3 DEF SenderOK
  <1>6. NetworkOK'
    <2>1. (\A p \in toReceiver : FromSender(p)') /\ (\A p \in toSender : FromReceiver(p)')
      BY <1>1, <1>2, <1>4, PacketsAge
    <2> QED
      BY <2>1 DEF NetworkOK
  <1>7. \A n : InCache(n) => InCache(n)' \/ (Got(n) /\ n < una + WindowSize)
    BY DEF InCache
  <1>8. Kept'
    BY <1>2, <1>7 DEF Kept
  <1>9. Listed'
    BY <1>1, <1>2 DEF Listed
  <1>10. Ahead'
    <2>1. \A n \in Nat : firstUnacknowledged' <= n /\ n < pushed =>
                           InCache(n)' \/ n < firstUnacknowledged' + WindowSize
      BY <1>1, <1>4, <1>7, Constants DEF Ahead
    <2> QED
      BY <2>1 DEF Ahead
  <1> QED
    BY <1>2, <1>5, <1>6, <1>8, <1>9, <1>10

\* What SendingWindow.Clear leaves.
LEMMA ClearIs ==
  ASSUME SenderOK, NEW una \in Nat
  PROVE  /\ Clear(cache, una) \subseteq cache
         /\ \A s \in Clear(cache, una) : una <= s.num
         /\ \A s \in cache : s \in Clear(cache, una) \/ s.num < una
  <1>1. \A s \in cache : s.num \in Nat /\ s.pos \in Nat /\ s.num = s.pos - 1
    BY FirstType DEF SenderOK
  <1> QED
    BY <1>1 DEF Clear

\* What processAck drops is on the list it was given.
LEMMA AckIs ==
  ASSUME NEW c, NEW nums
  PROVE  /\ processAck(c, nums) \subseteq c
         /\ \A s \in c : s \in processAck(c, nums) \/ s.num \in nums
  BY DEF processAck

LEMMA ProcessAckKeeps ==
  ASSUME TransferInv, ProcessAckSegment
  PROVE  TransferInv'
  <1> USE DEF TransferInv
  <1>1. PICK p \in toSender :
          /\ p.kind = "ack"
          /\ remoteNextNumber' = IF remoteNextNumber < p.wnd THEN p.wnd ELSE remoteNextNumber
          /\ cache' = processAck(Clear(cache, p.una), p.nums)
          /\ FindFirstUnacknowledged(cache')
          /\ toSender' \in Consumed(toSender, p)
          /\ UNCHANGED <<nextNumber, pushed, receiver, toReceiver>>
    BY DEF ProcessAckSegment
  <1>2. p.una \in Nat /\ p.una <= rcvNext /\ p.wnd \in Numbers
        /\ \A n \in p.nums : n \in Nat /\ n < p.una + WindowSize /\ Got(n)
    BY <1>1 DEF NetworkOK, FromReceiver
  <1>3. remoteNextNumber' \in Numbers
    BY <1>1, <1>2 DEF SenderOK
  <1>4. firstUnacknowledged' = First(cache') /\ firstUnacknowledgedUpdated' \in BOOLEAN
    <2>1. First(cache') = First(cache)'
      BY <1>1 DEF First, Min
    <2> QED
      BY <1>1 DEF FindFirstUnacknowledged, SenderOK
  <1> DEFINE kept == Clear(cache, p.una)
  <1>5. kept \subseteq cache /\ (\A s \in kept : p.una <= s.num)
        /\ \A s \in cache : s \in kept \/ s.num < p.una
    BY <1>2, ClearIs
  <1>6. cache' \subseteq kept /\ \A s \in kept : s \in cache' \/ s.num \in p.nums
    BY <1>1, AckIs
  <1> HIDE DEF kept
  <1>7. \A s \in cache : s \in cache' \/ (Got(s.num) /\ s.num < p.una + WindowSize)
    <2> SUFFICES ASSUME NEW s \in cache, s \notin cache'
                 PROVE  Got(s.num) /\ s.num < p.una + WindowSize
      OBVIOUS
    <2>1. s.num \in Nat /\ rcvNext \in Nat
      BY FirstType DEF ReceiverOK, SenderOK
    <2>2. CASE s.num < p.una
      BY <1>2, <2>1, <2>2, Constants DEF Got
    <2>3. CASE s.num \in p.nums
      BY <1>2, <2>3
    <2> QED
      BY <1>5, <1>6, <2>2, <2>3
  <1>8. toSender' \subseteq toSender
    BY <1>1, ConsumedIs
  <1>9. cache' \subseteq cache /\ \A s \in cache' : p.una <= s.num
    BY <1>5, <1>6
  <1> QED
    BY <1>1, <1>2, <1>3, <1>4, <1>7, <1>8, <1>9, Drops

LEMMA ProcessNextKeeps ==
  ASSUME TransferInv, ProcessReceivingNext
  PROVE  TransferInv'
  <1> USE DEF TransferInv
  <1>1. PICK p \in toSender :
          /\ p.kind = "ping"
          /\ cache' = Clear(cache, p.next)
          /\ FindFirstUnacknowledged(cache')
          /\ toSender' \in Consumed(toSender, p)
          /\ UNCHANGED <<nextNumber, remoteNextNumber, pushed, receiver, toReceiver>>
    BY DEF ProcessReceivingNext
  <1>2. p.next \in Nat /\ p.next <= rcvNext
    BY <1>1 DEF NetworkOK, FromReceiver
  <1>3. firstUnacknowledged' = First(cache') /\ firstUnacknowledgedUpdated' \in BOOLEAN
    <2>1. First(cache') = First(cache)'
      BY <1>1 DEF First, Min
    <2> QED
      BY <1>1 DEF FindFirstUnacknowledged, SenderOK
  <1>4. cache' \subseteq cache /\ (\A s \in cache' : p.next <= s.num)
        /\ \A s \in cache : s \in cache' \/ s.num < p.next
    BY <1>1, <1>2, ClearIs
  <1>5. \A s \in cache : s \in cache' \/ (Got(s.num) /\ s.num < p.next + WindowSize)
    <2>1. \A s \in cache : s.num \in Nat /\ rcvNext \in Nat
      BY FirstType DEF ReceiverOK, SenderOK
    <2> QED
      BY <1>2, <1>4, <2>1, Constants DEF Got
  <1>6. toSender' \subseteq toSender /\ remoteNextNumber' \in Numbers
    BY <1>1, ConsumedIs DEF SenderOK
  <1> QED
    BY <1>1, <1>2, <1>3, <1>4, <1>5, <1>6, Drops

-----------------------------------------------------------------------------
(* The receiver's steps *)

LEMMA ReceiverSteps ==
  ASSUME TransferInv, UNCHANGED sender, ReceiverOK', rcvNext <= rcvNext',
         \A n \in Nat : Got(n) => Got(n)', Listed',
         toReceiver' \subseteq toReceiver,
         \A p \in toSender' : p \in toSender \/ FromReceiver(p)'
  PROVE  TransferInv'
  <1> USE DEF TransferInv
  <1>1. SenderOK' /\ \A n : InCache(n)' <=> InCache(n)
    BY SenderKept
  <1>2. UNCHANGED <<pushed, firstUnacknowledged>> /\ pushed \in Nat /\ firstUnacknowledged \in Nat
    BY FirstType DEF sender, SenderOK
  <1>3. NetworkOK'
    <2>1. rcvNext' \in Nat
      BY DEF ReceiverOK
    <2>2. (\A p \in toReceiver : FromSender(p)') /\ (\A p \in toSender : FromReceiver(p)')
      BY <1>2, <2>1, PacketsAge
    <2> QED
      BY <2>2 DEF NetworkOK
  <1>4. Kept'
    BY <1>1, <1>2 DEF Kept
  <1>5. Ahead'
    BY <1>1, <1>2 DEF Ahead
  <1> QED
    BY <1>1, <1>3, <1>4, <1>5

\* What ClearAcks forgets the sender does not hold.
LEMMA ClearAcksIs ==
  ASSUME SenderOK, ReceiverOK, Listed, NEW next \in Nat, next <= firstUnacknowledged
  PROVE  /\ ClearAcks(next) \subseteq acklist
         /\ \A s \in cache : Got(s.num) => s.num \in ClearAcks(next)
  BY FirstType DEF ClearAcks, Listed, ReceiverOK

\* A segment that fits the window is not one that was read.
LEMMA InWindowIs ==
  ASSUME NoWrap, SenderOK, ReceiverOK, NEW num \in Nat, num < pushed, InWindow(num)
  PROVE  rcvNext <= num /\ num < rcvNext + WindowSize
  <1>1. rcvNext \in Nat /\ rcvNext <= pushed /\ pushed <= MaxPush /\ pushed \in Nat
    BY Constants DEF SenderOK, ReceiverOK
  <1>2. CASE rcvNext <= num
    <2>1. Minus(num, rcvNext) = num - rcvNext
      BY <1>1, <1>2, MinusIs, Constants DEF NoWrap
    <2> QED
      BY <1>1, <1>2, <2>1, Constants DEF InWindow
  <1>3. CASE num < rcvNext
    <2>1. Minus(num, rcvNext) = Modulus - (rcvNext - num)
      BY <1>1, <1>3, MinusBelow, Constants DEF NoWrap
    <2> QED
      BY <1>1, <1>3, <2>1, Constants DEF InWindow, NoWrap
  <1> QED
    BY <1>1, <1>2, <1>3

LEMMA ProcessDataKeeps ==
  ASSUME NoWrap, TransferInv, NEW n \in Numbers, ProcessDataSegment(n)
  PROVE  TransferInv'
  <1> USE DEF TransferInv
  <1>1. PICK p \in toReceiver :
          /\ p.kind = "data" /\ p.num = n
          /\ IF InWindow(p.num)
               THEN /\ acklist' = ClearAcks(p.next) \cup {p.num}
                    /\ dirty' = TRUE
                    /\ window' = IF \E r \in window : r.num = p.num
                                   THEN window
                                   ELSE window \cup {[num |-> p.num, pos |-> p.pos]}
               ELSE UNCHANGED <<acklist, dirty, window>>
          /\ toReceiver' \in Consumed(toReceiver, p)
          /\ UNCHANGED <<rcvNext, delivered, sender, toSender>>
    BY DEF ProcessDataSegment
  <1>2. p.next \in Nat /\ p.next <= firstUnacknowledged
        /\ p.num \in Nat /\ p.pos = p.num + 1 /\ p.pos <= pushed
    BY <1>1 DEF NetworkOK, FromSender
  <1>3. toReceiver' \subseteq toReceiver /\ toSender' = toSender
    BY <1>1, ConsumedIs
  <1>4. pushed \in Nat /\ pushed <= MaxPush /\ rcvNext \in Nat /\ UNCHANGED <<rcvNext, pushed, cache>>
    BY <1>1, Constants DEF SenderOK, ReceiverOK, sender
  <1>5. CASE InWindow(p.num)
    <2> DEFINE new == [num |-> p.num, pos |-> p.pos]
    <2>1. rcvNext <= p.num /\ p.num < rcvNext + WindowSize
      BY <1>2, <1>4, <1>5, InWindowIs
    <2>2. new \in Received /\ new.num = p.num /\ new.pos = p.num + 1
      BY <1>2, <1>4, Constants DEF Received, Numbers, NoWrap
    <2>3. \A r \in window : r \in Received /\ r.pos <= pushed /\ r.num = r.pos - 1
                            /\ rcvNext <= r.num /\ r.num < rcvNext + WindowSize
      BY DEF ReceiverOK
    <2>4. window \subseteq window' /\ window' \subseteq window \cup {new} /\ \E r \in window' : r.num = p.num
      BY <1>1, <1>5, <2>2
    <2> HIDE DEF new
    <2>5. \A m : Got(m)' <=> Got(m) \/ m = p.num
      BY <1>4, <2>2, <2>4 DEF Got
    <2>6. acklist' = ClearAcks(p.next) \cup {p.num} /\ dirty' = TRUE
      BY <1>1, <1>5
    <2>7. ClearAcks(p.next) \subseteq acklist /\ \A s \in cache : Got(s.num) => s.num \in ClearAcks(p.next)
      BY <1>2, ClearAcksIs
    <2>8. ReceiverOK'
      <3>1. window' \subseteq Received
        BY <2>2, <2>3, <2>4
      <3>2. \A r \in window' : /\ r.pos <= pushed /\ r.num = r.pos - 1
                               /\ rcvNext <= r.num /\ r.num < rcvNext + WindowSize
        BY <1>2, <2>1, <2>2, <2>3, <2>4
      <3>3. \A m \in acklist' : m \in Nat /\ m < rcvNext + WindowSize /\ Got(m)'
        BY <1>2, <2>1, <2>5, <2>6, <2>7 DEF ReceiverOK
      <3>4. rcvNext \in 0 .. pushed /\ delivered' = [i \in 1 .. rcvNext |-> i]
        BY <1>1 DEF ReceiverOK
      <3> QED
        BY <1>4, <2>6, <3>1, <3>2, <3>3, <3>4 DEF ReceiverOK
    <2>9. Listed'
      BY <1>4, <2>5, <2>6, <2>7 DEF Listed
    <2> QED
      BY <1>1, <1>3, <1>4, <2>5, <2>8, <2>9, ReceiverSteps
  <1>6. CASE ~ InWindow(p.num)
    <2>1. UNCHANGED receiver
      BY <1>1, <1>6 DEF receiver
    <2>2. ReceiverOK' /\ \A m : Got(m)' <=> Got(m)
      BY <1>4, <2>1, ReceiverKept
    <2>3. Listed'
      BY <1>4, <2>1, <2>2 DEF Listed, receiver
    <2> QED
      BY <1>1, <1>3, <1>4, <2>2, <2>3, ReceiverSteps
  <1> QED
    BY <1>5, <1>6

LEMMA ProcessSendingNextKeeps ==
  ASSUME TransferInv, ProcessSendingNext
  PROVE  TransferInv'
  <1> USE DEF TransferInv
  <1>1. PICK p \in toReceiver :
          /\ p.kind = "ping"
          /\ acklist' = ClearAcks(p.next)
          /\ dirty' = (dirty \/ acklist' # acklist)
          /\ toReceiver' \in Consumed(toReceiver, p)
          /\ UNCHANGED <<window, rcvNext, delivered, sender, toSender>>
    BY DEF ProcessSendingNext
  <1>2. p.next \in Nat /\ p.next <= firstUnacknowledged
    BY <1>1 DEF NetworkOK, FromSender
  <1>3. acklist' \subseteq acklist /\ \A s \in cache : Got(s.num) => s.num \in acklist'
    BY <1>1, <1>2, ClearAcksIs
  <1>4. UNCHANGED <<cache, pushed>> /\ rcvNext \in Nat /\ \A n : Got(n)' <=> Got(n)
    BY <1>1 DEF sender, Got, ReceiverOK
  <1>5. dirty' \in BOOLEAN
    BY <1>1 DEF ReceiverOK
  <1>6. ReceiverOK'
    <2>1. /\ rcvNext \in 0 .. pushed /\ delivered = [i \in 1 .. rcvNext |-> i] /\ window \subseteq Received
          /\ \A r \in window : r.pos <= pushed /\ r.num = r.pos - 1
          /\ \A r \in window : rcvNext <= r.num /\ r.num < rcvNext + WindowSize
          /\ \A n \in acklist' : n \in Nat /\ n < rcvNext + WindowSize /\ Got(n)
      BY <1>3 DEF ReceiverOK
    <2> QED
      BY <1>1, <1>4, <1>5, <2>1 DEF ReceiverOK
  <1>7. Listed'
    BY <1>3, <1>4 DEF Listed
  <1>8. toReceiver' \subseteq toReceiver
    BY <1>1, ConsumedIs
  <1> QED
    BY <1>1, <1>4, <1>6, <1>7, <1>8, ReceiverSteps

LEMMA ReceiverSends ==
  ASSUME TransferInv, FlushAcks \/ PingSender
  PROVE  TransferInv'
  <1> USE DEF TransferInv
  <1>1. UNCHANGED <<window, acklist, rcvNext, delivered, sender, toReceiver>> /\ dirty' \in BOOLEAN
    BY DEF FlushAcks, PingSender, receiver, ReceiverOK
  <1>2. rcvNext \in Nat /\ UNCHANGED <<cache, pushed>> /\ \A n : Got(n)' <=> Got(n)
    BY <1>1 DEF sender, Got, ReceiverOK
  <1>3. ReceiverOK' /\ Listed'
    BY <1>1, <1>2 DEF ReceiverOK, Listed
  <1>4. ASSUME NEW p \in toSender', p \notin toSender PROVE FromReceiver(p)'
    <2>1. CASE FlushAcks
      <3>1. p = AckPacket(acklist)
        BY <1>4, <2>1, CarryIs DEF FlushAcks
      <3>2. p.kind = "ack" /\ p.una = rcvNext /\ p.wnd \in Numbers /\ p.nums = acklist
        BY <1>2, <3>1, PlusType, Constants DEF AckPacket
      <3>3. \A n \in acklist : n \in Nat /\ n < rcvNext + WindowSize /\ Got(n)
        BY DEF ReceiverOK
      <3> QED
        BY <1>1, <1>2, <3>2, <3>3 DEF FromReceiver
    <2>2. CASE PingSender
      <3>1. p = PingPacket(rcvNext)
        BY <1>4, <2>2, CarryIs DEF PingSender
      <3>2. p.kind = "ping" /\ p.next = rcvNext
        BY <3>1 DEF PingPacket
      <3> QED
        BY <1>1, <1>2, <3>2 DEF FromReceiver
    <2> QED
      BY <2>1, <2>2
  <1> QED
    BY <1>1, <1>2, <1>3, <1>4, ReceiverSteps

-----------------------------------------------------------------------------
(* Reading *)

LEMMA WindowIs ==
  ASSUME NoWrap, SenderOK, ReceiverOK, NEW r \in window
  PROVE  /\ r.num \in Nat /\ rcvNext \in Nat /\ pushed \in Nat /\ pushed < Modulus
         /\ rcvNext <= r.num /\ r.num < pushed /\ r.pos = r.num + 1
         /\ Minus(r.num, rcvNext) = r.num - rcvNext
  <1>1. /\ r.num \in Nat /\ rcvNext \in Nat /\ pushed \in Nat /\ pushed < Modulus
        /\ rcvNext <= r.num /\ r.num < pushed /\ r.pos = r.num + 1
    BY Constants DEF SenderOK, ReceiverOK, Received, Numbers, NoWrap
  <1> QED
    BY <1>1, MinusIs, Constants

\* A read takes the segments below the first number that is missing.
LEMMA RunIs ==
  ASSUME NoWrap, SenderOK, ReceiverOK
  PROVE  \E end \in rcvNext .. pushed :
           /\ Run = {r \in window : r.num < end}
           /\ \A m \in rcvNext .. end - 1 : \E r \in window : r.num = m
  <1> DEFINE missing == {m \in Nat : rcvNext <= m /\ \A r \in window : r.num # m}
  <1>1. rcvNext \in Nat /\ pushed \in Nat /\ rcvNext <= pushed /\ pushed < Modulus
    BY Constants DEF SenderOK, ReceiverOK, NoWrap
  <1>2. pushed \in missing
    BY <1>1, WindowIs
  <1>3. PICK end \in missing : \A m \in missing : end <= m
    BY <1>2, LeastIs
  <1>4. end \in rcvNext .. pushed
    BY <1>1, <1>2, <1>3
  <1>5. \A m \in rcvNext .. end - 1 : \E r \in window : r.num = m
    BY <1>1, <1>3, <1>4
  <1>6. ASSUME NEW r \in window
        PROVE  r \in Run <=> r.num < end
    <2>1. r.num \in Nat /\ rcvNext <= r.num /\ r.num < pushed /\ Minus(r.num, rcvNext) = r.num - rcvNext
      BY WindowIs
    <2>2. \A i \in 0 .. r.num - rcvNext : Plus(rcvNext, i) = rcvNext + i
      <3> SUFFICES ASSUME NEW i \in 0 .. r.num - rcvNext PROVE Plus(rcvNext, i) = rcvNext + i
        OBVIOUS
      <3>1. i \in Nat /\ rcvNext + i < Modulus
        BY <1>1, <2>1, Constants
      <3> QED
        BY <1>1, <3>1, PlusIs
    <2>3. r \in Run <=> \A i \in 0 .. r.num - rcvNext : \E q \in window : q.num = rcvNext + i
      BY <2>1, <2>2 DEF Run
    <2>4. ASSUME r.num < end, NEW i \in 0 .. r.num - rcvNext
          PROVE  \E q \in window : q.num = rcvNext + i
      <3>1. rcvNext + i \in rcvNext .. end - 1
        BY <2>1, <2>4, <1>1, <1>4
      <3> QED
        BY <3>1, <1>5
    <2>5. ASSUME ~ (r.num < end)
          PROVE  \E i \in 0 .. r.num - rcvNext : ~ \E q \in window : q.num = rcvNext + i
      <3>1. end - rcvNext \in 0 .. r.num - rcvNext /\ rcvNext + (end - rcvNext) = end
        BY <2>1, <2>5, <1>1, <1>4
      <3>2. ~ \E q \in window : q.num = end
        BY <1>3
      <3> QED
        BY <3>1, <3>2
    <2> QED
      BY <2>3, <2>4, <2>5
  <1>7. Run = {r \in window : r.num < end}
    BY <1>6 DEF Run
  <1> QED
    BY <1>4, <1>5, <1>7

\* How many segments come before a number.
LEMMA CountBelow ==
  ASSUME NoWrap, SenderOK, ReceiverOK, NEW end \in Nat, rcvNext <= end,
         \A m \in rcvNext .. end - 1 : \E r \in window : r.num = m
  PROVE  Cardinality({r \in window : r.num < end}) = end - rcvNext
  <1> DEFINE S == {r \in window : r.num < end}
             f == [r \in S |-> r.num]
  <1>1. rcvNext \in Nat
    BY DEF ReceiverOK
  <1>2. f \in [S -> rcvNext .. end - 1]
    BY WindowIs
  <1>3. \A r, q \in S : f[r] = f[q] => r = q
    BY DEF ReceiverOK, Received
  <1>4. \A m \in rcvNext .. end - 1 : \E r \in S : f[r] = m
    BY <1>1
  <1>5. f \in Bijection(S, rcvNext .. end - 1)
    BY <1>2, <1>3, <1>4 DEF Bijection, Injection, Surjection, IsInjective
  <1>6. IsFiniteSet(S)
    BY WindowFinite, FS_Subset DEF SenderOK
  <1>7. Cardinality(rcvNext .. end - 1) = Cardinality(S)
    BY <1>5, <1>6, FS_Bijection DEF ExistsBijection
  <1>8. Cardinality(rcvNext .. end - 1) = end - rcvNext
    BY <1>1, FS_Interval
  <1> QED
    BY <1>7, <1>8

\* A read takes the next segments in order.
LEMMA ReadTakes ==
  ASSUME NoWrap, SenderOK, ReceiverOK, Read
  PROVE  /\ rcvNext' \in rcvNext + 1 .. pushed
         /\ window' = {r \in window : rcvNext' <= r.num}
         /\ \A m \in rcvNext .. rcvNext' - 1 : \E r \in window : r.num = m
         /\ delivered' = [i \in 1 .. rcvNext' |-> i]
  <1>1. rcvNext \in Nat /\ pushed \in Nat /\ rcvNext <= pushed /\ pushed < Modulus
        /\ delivered = [i \in 1 .. rcvNext |-> i]
    BY Constants DEF SenderOK, ReceiverOK, NoWrap
  <1>2. PICK end \in rcvNext .. pushed :
           /\ Run = {r \in window : r.num < end}
           /\ \A m \in rcvNext .. end - 1 : \E r \in window : r.num = m
    BY RunIs
  <1>3. Cardinality(Run) = end - rcvNext
    BY <1>1, <1>2, CountBelow
  <1>4. rcvNext < end
    <2>1. PICK r \in Run : TRUE
      BY DEF Read
    <2>2. r \in window /\ r.num < end
      BY <2>1, <1>2
    <2> QED
      BY <2>2, <1>1, WindowIs
  <1>5. rcvNext' = end
    <2>1. end - rcvNext \in Nat /\ rcvNext + (end - rcvNext) = end /\ end < Modulus
      BY <1>1, <1>4, Constants
    <2>2. rcvNext' = Plus(rcvNext, end - rcvNext)
      BY <1>3 DEF Read
    <2> QED
      BY <1>1, <2>1, <2>2, PlusIs
  <1>6. window' = {r \in window : end <= r.num}
    BY <1>1, <1>2, WindowIs DEF Read
  <1> DEFINE k == end - rcvNext
  <1>7. k \in Nat /\ k > 0
    BY <1>1, <1>2, <1>4
  <1>8. ASSUME NEW i \in 1 .. k PROVE Taken(i) = rcvNext + i
    <2>1. ASSUME NEW r \in Run
          PROVE  Cardinality({q \in Run : Minus(q.num, rcvNext) < Minus(r.num, rcvNext)}) = r.num - rcvNext
      <3>1. r \in window /\ r.num < end
        BY <1>2
      <3>2. {q \in Run : Minus(q.num, rcvNext) < Minus(r.num, rcvNext)} = {q \in window : q.num < r.num}
        BY <1>1, <1>2, <3>1, WindowIs
      <3>3. r.num \in Nat /\ rcvNext <= r.num /\ r.num < end
        BY <3>1, WindowIs
      <3>4. \A m \in rcvNext .. r.num - 1 : \E q \in window : q.num = m
        BY <1>1, <1>2, <3>3
      <3> QED
        BY <3>2, <3>3, <3>4, CountBelow
    <2>2. PICK r \in window : r.num = rcvNext + i - 1
      BY <1>1, <1>2
    <2>3. r \in Run /\ r.num - rcvNext = i - 1
      BY <1>1, <1>2, <2>2
    <2>4. ASSUME NEW q \in Run, q.num - rcvNext = i - 1 PROVE q.pos = rcvNext + i
      BY <1>1, <1>2, <2>4, WindowIs
    <2> DEFINE place(q) == Cardinality({s \in Run : Minus(s.num, rcvNext) < Minus(q.num, rcvNext)})
    <2>5. \E q \in Run : place(q) = i - 1
      BY <2>1, <2>3
    <2>6. \A q \in Run : place(q) = i - 1 => q.pos = rcvNext + i
      BY <2>1, <2>4
    <2>7. Taken(i) = (CHOOSE q \in Run : place(q) = i - 1).pos
      BY DEF Taken
    <2> HIDE DEF place
    <2> QED
      BY <2>5, <2>6, <2>7
  <1>9. delivered' = [i \in 1 .. end |-> i]
    <2> DEFINE t == [i \in 1 .. Cardinality(Run) |-> Taken(i)]
               d == [i \in 1 .. rcvNext |-> i]
               u == [i \in 1 .. k |-> rcvNext + i]
    <2>1. t = u
      BY <1>3, <1>8
    <2>2. d \in Seq(Nat) /\ Len(d) = rcvNext /\ u \in Seq(Nat) /\ Len(u) = k
      BY <1>1, <1>7
    <2>3. delivered' = d \o u
      BY <1>1, <2>1 DEF Read
    <2>4. \A i \in 1 .. rcvNext + k : (IF i <= rcvNext THEN d[i] ELSE u[i - rcvNext]) = i
      BY <1>1, <1>7
    <2> DEFINE all == [i \in 1 .. end |-> i]
    <2>5. rcvNext + k = end /\ end \in Nat
      BY <1>1
    <2>6. all \in Seq(Nat) /\ Len(all) = end
      BY <2>5
    <2> HIDE DEF d, u, k
    <2>7. d \o u \in Seq(Nat) /\ Len(d \o u) = end
          /\ \A i \in 1 .. end : (d \o u)[i] = IF i <= rcvNext THEN d[i] ELSE u[i - rcvNext]
      BY <2>2, <2>5, ConcatProperties
    <2>8. d \o u = all
      BY <2>4, <2>5, <2>6, <2>7, SeqEqual
    <2> QED
      BY <2>3, <2>8
  <1> QED
    BY <1>1, <1>2, <1>4, <1>5, <1>6, <1>9

LEMMA ReadKeeps ==
  ASSUME NoWrap, TransferInv, Read
  PROVE  TransferInv'
  <1> USE DEF TransferInv
  <1>1. /\ rcvNext' \in rcvNext + 1 .. pushed
        /\ window' = {r \in window : rcvNext' <= r.num}
        /\ \A m \in rcvNext .. rcvNext' - 1 : \E r \in window : r.num = m
        /\ delivered' = [i \in 1 .. rcvNext' |-> i]
    BY ReadTakes
  <1>2. UNCHANGED <<acklist, dirty, sender, toReceiver, toSender, cache, pushed>>
    BY DEF Read, sender
  <1>3. rcvNext \in Nat /\ rcvNext' \in Nat /\ pushed \in Nat
    BY <1>1 DEF ReceiverOK, SenderOK
  <1>4. \A n \in Nat : Got(n)' <=> Got(n)
    <2> SUFFICES ASSUME NEW n \in Nat PROVE Got(n)' <=> Got(n)
      OBVIOUS
    <2>1. Got(n)' <=> n < rcvNext' \/ \E r \in window' : r.num = n
      BY DEF Got
    <2>2. CASE rcvNext <= n /\ n < rcvNext'
      <3>1. n \in rcvNext .. rcvNext' - 1
        <4>1. \A a, b \in Nat : a <= n /\ n < b => n \in a .. b - 1
          OBVIOUS
        <4> QED
          BY <1>3, <2>2, <4>1
      <3> QED
        BY <1>1, <2>1, <2>2, <3>1 DEF Got
    <2>3. CASE n < rcvNext
      BY <1>1, <1>3, <2>1, <2>3 DEF Got
    <2>4. CASE rcvNext' <= n
      <3>1. ~ (n < rcvNext) /\ ~ (n < rcvNext')
        BY <1>1, <1>3, <2>4
      <3> QED
        BY <1>1, <2>1, <2>4, <3>1 DEF Got
    <2> QED
      BY <1>3, <2>2, <2>3, <2>4
  <1>5. ReceiverOK'
    <2>1. \A r \in window : r \in Received /\ r.num \in Nat /\ r.pos <= pushed /\ r.num = r.pos - 1
                            /\ r.num < rcvNext + WindowSize
      BY DEF ReceiverOK, Received, Numbers
    <2>2. \A r \in window' : r \in Received /\ r.pos <= pushed /\ r.num = r.pos - 1
                             /\ rcvNext' <= r.num /\ r.num < rcvNext' + WindowSize
      BY <1>1, <1>3, <2>1, Constants
    <2>3. \A n \in acklist : n \in Nat /\ n < rcvNext' + WindowSize /\ Got(n)'
      <3>1. \A n \in acklist : n \in Nat /\ n < rcvNext + WindowSize /\ Got(n)
        BY DEF ReceiverOK
      <3> QED
        BY <1>1, <1>3, <1>4, <3>1, Constants
    <2>4. rcvNext' \in 0 .. pushed /\ dirty \in BOOLEAN
      BY <1>1, <1>3 DEF ReceiverOK
    <2> QED
      BY <1>1, <1>2, <2>2, <2>3, <2>4 DEF ReceiverOK
  <1>6. Listed'
    <2>1. \A s \in cache : s.num \in Nat
      BY FirstType
    <2> QED
      BY <1>2, <1>4, <2>1 DEF Listed
  <1> QED
    BY <1>1, <1>2, <1>3, <1>4, <1>5, <1>6, ReceiverSteps

-----------------------------------------------------------------------------
(* The invariant and what follows from it *)

\* Every state is one of TransferInv.
LEMMA Invariant ==
  ASSUME NoWrap
  PROVE  Spec => []TransferInv
  <1>1. TransferInv /\ [Next]_vars => TransferInv'
    <2> SUFFICES ASSUME TransferInv, [Next]_vars PROVE TransferInv'
      OBVIOUS
    <2>1. CASE Push
      BY <2>1, PushKeeps
    <2>2. CASE FlushData
      BY <2>2, FlushDataKeeps
    <2>3. CASE FlushEmpty \/ PingReceiver
      BY <2>3, PingReceiverKeeps
    <2>4. CASE ProcessAckSegment
      BY <2>4, ProcessAckKeeps
    <2>5. CASE ProcessReceivingNext
      BY <2>5, ProcessNextKeeps
    <2>6. ASSUME NEW n \in Numbers, ProcessDataSegment(n) PROVE TransferInv'
      BY <2>6, ProcessDataKeeps
    <2>7. CASE ProcessSendingNext
      BY <2>7, ProcessSendingNextKeeps
    <2>8. CASE Read
      BY <2>8, ReadKeeps
    <2>9. CASE FlushAcks \/ PingSender
      BY <2>9, ReceiverSends
    <2>10. CASE UNCHANGED vars
      <3>1. /\ UNCHANGED sender /\ UNCHANGED receiver /\ UNCHANGED <<toReceiver, toSender>>
            /\ UNCHANGED <<pushed, rcvNext, cache, acklist>>
        BY <2>10 DEF vars, sender, receiver
      <3>2. pushed \in Nat /\ rcvNext \in Nat
        BY DEF TransferInv, SenderOK, ReceiverOK
      <3>3. ReceiverOK' /\ \A n : Got(n)' <=> Got(n)
        BY <3>1, <3>2, ReceiverKept DEF TransferInv
      <3>4. Listed'
        BY <3>1, <3>3 DEF TransferInv, Listed
      <3> QED
        BY <3>1, <3>2, <3>3, <3>4, ReceiverSteps
    <2> QED
      BY <2>1, <2>2, <2>3, <2>4, <2>5, <2>6, <2>7, <2>8, <2>9, <2>10 DEF Next
  <1> QED
    BY <1>1, Start, PTL DEF Spec

\* How far the sender runs ahead: the segments past the receiver's window are
\* all in its cache.
LEMMA AheadBounded ==
  ASSUME TransferInv
  PROVE  pushed - firstUnacknowledged <= BufferSize + 1 + WindowSize
  <1> USE DEF TransferInv
  <1> DEFINE edge == firstUnacknowledged + WindowSize
             held == {s \in cache : edge <= s.num}
             f == [s \in held |-> s.num]
  <1>1. pushed \in Nat /\ firstUnacknowledged \in Nat /\ edge \in Nat
        /\ Cardinality(cache) \in Nat /\ Cardinality(cache) <= BufferSize + 1
    BY FirstType, CacheFinite, Constants DEF SenderOK
  <1>2. CASE pushed <= edge
    BY <1>1, <1>2, Constants
  <1>3. CASE edge < pushed
    <2>1. \A n \in edge .. pushed - 1 : InCache(n)
      BY <1>1, <1>3, Constants DEF Ahead
    <2>2. f \in [held -> edge .. pushed - 1]
      BY <1>1, FirstType
    <2>3. \A n \in edge .. pushed - 1 : \E s \in held : f[s] = n
      BY <1>1, <2>1 DEF InCache
    <2>4. f \in Surjection(held, edge .. pushed - 1)
      BY <2>2, <2>3 DEF Surjection
    <2>5. IsFiniteSet(held) /\ Cardinality(held) <= Cardinality(cache) /\ Cardinality(held) \in Nat
      BY CacheFinite, FS_Subset, FS_CardinalityType
    <2>6. Cardinality(edge .. pushed - 1) <= Cardinality(held)
      BY <2>4, <2>5, FS_Surjection
    <2>7. Cardinality(edge .. pushed - 1) = pushed - edge
      BY <1>1, <1>3, FS_Interval
    <2> QED
      BY <1>1, <2>5, <2>6, <2>7, Constants
  <1> QED
    BY <1>1, <1>2, <1>3

LEMMA TypeFollows ==
  ASSUME NoWrap, TransferInv
  PROVE  TypeOK
  <1> USE DEF TransferInv
  <1>1. pushed \in Nat /\ pushed < Modulus /\ nextNumber = pushed /\ rcvNext \in Nat /\ rcvNext <= pushed
        /\ firstUnacknowledged \in Nat /\ firstUnacknowledged <= pushed /\ remoteNextNumber \in Numbers
    BY FirstType, Constants DEF SenderOK, ReceiverOK, NoWrap
  <1>2. Minus(nextNumber, firstUnacknowledged) <= BufferSize + 1 + WindowSize
    <2>1. Minus(nextNumber, firstUnacknowledged) = pushed - firstUnacknowledged
      BY <1>1, MinusIs
    <2> QED
      BY <2>1, AheadBounded
  <1>3. {firstUnacknowledged, nextNumber, remoteNextNumber, rcvNext} \subseteq Numbers
    BY <1>1, Constants DEF Numbers
  <1>4. \A r \in window : Minus(r.num, rcvNext) < WindowSize
    <2> SUFFICES ASSUME NEW r \in window PROVE Minus(r.num, rcvNext) < WindowSize
      OBVIOUS
    <2>1. r.num \in Nat /\ Minus(r.num, rcvNext) = r.num - rcvNext
      BY WindowIs
    <2>2. r.num < rcvNext + WindowSize
      BY DEF ReceiverOK
    <2> QED
      BY <1>1, <2>1, <2>2, Constants
  <1>5. acklist \subseteq Numbers
    <2> SUFFICES ASSUME NEW n \in acklist PROVE n \in Numbers
      OBVIOUS
    <2>1. n \in Nat /\ Got(n)
      BY DEF ReceiverOK
    <2>2. n < pushed
      BY <1>1, <2>1, WindowIs DEF Got
    <2> QED
      BY <1>1, <2>1, <2>2, Constants DEF Numbers
  <1>6. delivered \in Seq(1 .. pushed)
    BY <1>1 DEF ReceiverOK
  <1> QED
    BY <1>2, <1>3, <1>4, <1>5, <1>6 DEF TypeOK, SenderOK, ReceiverOK

\* What was read and what is in the window has arrived, and nothing else.
LEMMA ArrivedIs ==
  ASSUME TransferInv, NEW n \in Nat
  PROVE  HasArrived(n + 1) <=> Got(n)
  <1> USE DEF TransferInv
  <1>1. rcvNext \in Nat /\ delivered = [i \in 1 .. rcvNext |-> i]
    BY DEF ReceiverOK
  <1>2. \A r \in window : r.num \in Nat /\ (r.pos = n + 1 <=> r.num = n)
    BY DEF ReceiverOK, Received, Numbers
  <1>3. (\E k \in DOMAIN delivered : delivered[k] = n + 1) <=> n < rcvNext
    <2>1. DOMAIN delivered = 1 .. rcvNext /\ \A k \in 1 .. rcvNext : delivered[k] = k
      BY <1>1
    <2>2. n + 1 \in 1 .. rcvNext <=> n < rcvNext
      BY <1>1
    <2> QED
      BY <2>1, <2>2
  <1> QED
    BY <1>2, <1>3 DEF HasArrived, Got

LEMMA KeptFollows ==
  ASSUME TransferInv
  PROVE  NothingAckedIsLost /\ AckNotForgotten
  <1> USE DEF TransferInv
  <1>1. \A s \in cache : s.num \in Nat /\ s.pos = s.num + 1
    BY FirstType DEF SenderOK
  <1>2. ASSUME NEW i \in 1 .. pushed
        PROVE  HasArrived(i) \/ \E s \in cache : s.pos = i
    <2>1. i - 1 \in 0 .. pushed - 1 /\ i - 1 \in Nat /\ (i - 1) + 1 = i
      BY DEF SenderOK
    <2>2. Got(i - 1) \/ InCache(i - 1)
      BY <2>1 DEF Kept
    <2>3. Got(i - 1) <=> HasArrived(i)
      BY <2>1, ArrivedIs
    <2>4. InCache(i - 1) => \E s \in cache : s.pos = i
      BY <1>1, <2>1 DEF InCache
    <2> QED
      BY <2>2, <2>3, <2>4
  <1>3. ASSUME NEW s \in cache, HasArrived(s.pos)
        PROVE  s.num \in acklist
    <2>1. Got(s.num)
      BY <1>1, <1>3, ArrivedIs
    <2> QED
      BY <2>1 DEF Listed
  <1> QED
    BY <1>2, <1>3 DEF NothingAckedIsLost, AckNotForgotten

\* The transfer is well-typed, keeps within its windows, and the sender runs
\* ahead of the segment it waits for by no more than its buffer and the peer's
\* window, however packets are lost, repeated and reordered: SendingWorker.Push,
\* Flush and ProcessSegment against ReceivingWorker.ProcessSegment and Read.
THEOREM TypeCorrect ==
  ASSUME NoWrap
  PROVE  Spec => []TypeOK
  <1>1. TransferInv => TypeOK
    BY TypeFollows
  <1> QED
    BY <1>1, Invariant, PTL

\* A segment the writer pushed is in the sender's cache until the receiver has
\* it: no acknowledgement and no ReceivingNext, however old, makes
\* SendingWindow.Clear or Remove drop a segment that has not arrived.
THEOREM NothingIsLost ==
  ASSUME NoWrap
  PROVE  Spec => []NothingAckedIsLost
  <1>1. TransferInv => NothingAckedIsLost
    BY KeptFollows
  <1> QED
    BY <1>1, Invariant, PTL

\* The number of a segment that the receiver has and the sender still holds is
\* on the receiver's AckList: no SendingNext, however old or new, makes
\* AckList.Clear forget an acknowledgement the sender waits for.
THEOREM AcksAreKept ==
  ASSUME NoWrap
  PROVE  Spec => []AckNotForgotten
  <1>1. TransferInv => AckNotForgotten
    BY KeptFollows
  <1> QED
    BY <1>1, Invariant, PTL

-----------------------------------------------------------------------------
(* The transfer is a stream *)

LEMMA StepImplements ==
  ASSUME NoWrap, TransferInv, [Next]_vars
  PROVE  [Abstract!StreamNext]_Abstract!streamVars
  <1> USE DEF Abstract!streamVars, TransferInv
  <1> DEFINE all(n) == [i \in 1 .. n |-> i]
  <1>1. pushed \in Nat /\ rcvNext \in Nat /\ delivered = all(rcvNext)
    BY DEF SenderOK, ReceiverOK
  <1>2. \A n \in Nat : all(n) \in Seq(Nat) /\ Len(all(n)) = n
    OBVIOUS
  <1>3. ASSUME NEW n \in Nat, NEW m \in Nat, n <= m
        PROVE  SubSeq(all(m), 1, n) = all(n)
    BY <1>3
  <1>4. CASE Push
    <2>1. pushed' = pushed + 1 /\ delivered' = delivered
      BY <1>4 DEF Push, receiver
    <2>2. Len(all(pushed')) = Len(all(pushed)) + 1 /\ SubSeq(all(pushed'), 1, Len(all(pushed))) = all(pushed)
      BY <1>1, <1>2, <1>3, <2>1
    <2> QED
      BY <2>1, <2>2 DEF Abstract!StreamNext, Abstract!Put
  <1>5. CASE Read
    <2>1. rcvNext' \in rcvNext + 1 .. pushed /\ delivered' = all(rcvNext')
      BY <1>5, ReadTakes
    <2>2. UNCHANGED pushed
      BY <1>5 DEF Read, sender
    <2>3. rcvNext' \in Len(delivered) + 1 .. Len(all(pushed)) /\ delivered' = SubSeq(all(pushed), 1, rcvNext')
      BY <1>1, <1>2, <1>3, <2>1
    <2> QED
      BY <2>2, <2>3 DEF Abstract!StreamNext, Abstract!Take
  <1>6. ASSUME \/ FlushData \/ FlushEmpty \/ PingReceiver
               \/ ProcessAckSegment \/ ProcessReceivingNext
               \/ (\E n \in Numbers : ProcessDataSegment(n)) \/ ProcessSendingNext
               \/ FlushAcks \/ PingSender \/ UNCHANGED vars
        PROVE  UNCHANGED Abstract!streamVars
    <2>1. UNCHANGED <<pushed, delivered>>
      BY <1>6 DEF FlushData, FlushEmpty, PingReceiver, ProcessAckSegment, ProcessReceivingNext,
                  ProcessDataSegment, ProcessSendingNext, FlushAcks, PingSender, vars, sender, receiver
    <2> QED
      BY <2>1
  <1> QED
    BY <1>4, <1>5, <1>6 DEF Next

\* What is read is what was written, in order, without gaps or repeats: every
\* behaviour of the transfer is one of a byte stream, whatever the network does.
THEOREM TransferIsStream ==
  ASSUME NoWrap
  PROVE  Spec => ImplementsStream
  <1>1. Init => Abstract!StreamInit
    BY DEF Init, Abstract!StreamInit
  <1>2. TransferInv /\ [Next]_vars => [Abstract!StreamNext]_Abstract!streamVars
    BY StepImplements
  <1> QED
    BY <1>1, <1>2, Invariant, PTL DEF Spec, ImplementsStream, Abstract!StreamSpec
=============================================================================
