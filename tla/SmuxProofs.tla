----------------------------- MODULE SmuxProofs -----------------------------
(***************************************************************************)
(* Proofs about Smux, for every set of streams, every size of a bucket and  *)
(* of a frame, and either side that may disappear.                         *)
(***************************************************************************)
EXTENDS Smux, FiniteSetTheorems, SequenceTheorems, WellFoundedInduction, TLAPS

(***************************************************************************)
(* A request in the shaper's heap is that of the one goroutine that waits   *)
(* for its result, and a session that gave up has none.                    *)
(***************************************************************************)
Pending(x, r) ==
  LET f == r.frame
      s == f.sid IN
  /\ f.cmd = "SYN" => x = "server" /\ opener[s] = "syn" /\ f.num = 0 /\ r.prio = 0
  /\ f.cmd = "FIN" => closer[x][s] = "fin" /\ f.num = 0 /\ r.prio = 0
  /\ f.cmd = "PSH" => writer[x][s] = "sending" /\ f.num = numWritten[x][s] /\ r.prio = f.num - 1

(***************************************************************************)
(* A stream is read only once it is open, written only after a first frame, *)
(* and closed by the FIN of one goroutine.                                 *)
(***************************************************************************)
Orderly ==
  /\ \A x \in Sides : (\A r \in reqs[x] : Pending(x, r)) /\ (gaveUp(x) => reqs[x] = {})
  /\ \A x \in Sides, s \in Streams :
       /\ writer[x][s] # "idle" => numWritten[x][s] > 0
       /\ closer[x][s] # "no" => dead[x][s]
       /\ reader[x][s] # "return" => taken[x][s] = 0
  /\ \A s \in Streams :
       /\ opener[s] # "open" => reader["server"][s] = "no"
       /\ reader["page"][s] # "return"

(***************************************************************************)
(* Only the first buffer of a stream can have been read in part.            *)
(***************************************************************************)
whole(b) == \A i \in 2 .. Len(b) : b[i].left = FrameSize
WholeFrames == \A x \in Sides, s \in Streams : whole(buffers[x][s])

-----------------------------------------------------------------------------
(* The types *)

Buffer == [num : Nat, left : 1 .. FrameSize]

SessionTypes ==
  /\ wire \in [Sides -> Seq(Frame)] /\ reqs \in [Sides -> SUBSET Request]
  /\ gone \in Sides \cup {"none"} /\ dropped \in BOOLEAN
  /\ sendErr \in [Sides -> BOOLEAN] /\ readErr \in [Sides -> BOOLEAN]
  /\ bucketNotify \in [Sides -> BOOLEAN] /\ die \in [Sides -> BOOLEAN]
  /\ bucket \in [Sides -> Int]
  /\ recv \in [Sides -> {"loop", "wait", "store", "done"}]
  /\ hand \in [Sides -> Frame \cup {None}]
  /\ \A x \in Sides : hand[x] \in Frame <=> ~streamLockFree(x)
  /\ table \in [Sides -> SUBSET Streams] /\ accepts \in Seq(Streams)

StreamTypes ==
  /\ buffers \in [Sides -> [Streams -> Seq(Buffer)]]
  /\ event \in [Sides -> [Streams -> BOOLEAN]] /\ fin \in [Sides -> [Streams -> BOOLEAN]]
  /\ dead \in [Sides -> [Streams -> BOOLEAN]]
  /\ opener \in [Streams -> {"no", "syn", "sent", "open", "failed"}]
  /\ writer \in [Sides -> [Streams -> {"idle", "sending", "err"}]]
  /\ closer \in [Sides -> [Streams -> {"no", "fin", "sent", "done"}]]
  /\ reader \in [Sides -> [Streams -> {"no", "try", "return", "wait", "EOF", "err", "closed"}]]
  /\ numWritten \in [Sides -> [Streams -> Nat]] /\ promised \in [Sides -> [Streams -> Nat]]
  /\ taken \in [Sides -> [Streams -> Nat]]
  /\ got \in [Sides -> [Streams -> Seq(Nat)]]

LEMMA TypesAre == SessionTypes /\ StreamTypes => TypeOK
  BY DEF TypeOK, SessionTypes, StreamTypes, Buffer

LEMMA Constants ==
  /\ MaxReceiveBuffer \in Nat \ {0} /\ FrameSize \in Nat \ {0}
  /\ ReadSizes \subseteq Nat \ {0} /\ IsFiniteSet(Streams)
  /\ "server" \in Sides /\ "page" \in Sides /\ \A x \in Sides : peer(x) \in Sides /\ peer(x) # x
  BY SmuxAssumption DEF Sides, peer

\* A change of one side's entry for one stream.
LEMMA OfType ==
  ASSUME NEW T, NEW f \in [Sides -> [Streams -> T]], NEW x \in Sides, NEW s \in Streams, NEW v \in T
  PROVE  of(f, x, s, v) \in [Sides -> [Streams -> T]]
  BY DEF of

LEMMA OfIs ==
  ASSUME NEW T, NEW f \in [Sides -> [Streams -> T]], NEW x \in Sides, NEW s \in Streams, NEW v
  PROVE  \A y \in Sides, t \in Streams :
           of(f, x, s, v)[y][t] = IF y = x /\ t = s THEN v ELSE f[y][t]
  BY DEF of

LEMMA NoneIs == None \notin Frame
  BY DEF None, Frame

LEMMA InitTypes == Init => SessionTypes /\ StreamTypes
  <1> SUFFICES ASSUME Init PROVE SessionTypes /\ StreamTypes
    OBVIOUS
  <1>1. SessionTypes
    <2>1. \A x \in Sides : hand[x] \notin Frame /\ streamLockFree(x)
      BY NoneIs DEF Init, streamLockFree
    <2>4. hand \in [Sides -> Frame \cup {None}]
      BY DEF Init
    <2>2. wire \in [Sides -> Seq(Frame)] /\ accepts \in Seq(Streams) /\ bucket \in [Sides -> Int]
      BY Constants DEF Init
    <2>3. /\ reqs \in [Sides -> SUBSET Request] /\ table \in [Sides -> SUBSET Streams]
          /\ gone \in Sides \cup {"none"} /\ dropped \in BOOLEAN
      BY DEF Init
    <2> QED
      BY <2>1, <2>2, <2>3, <2>4 DEF Init, SessionTypes
  <1>2. StreamTypes
    BY DEF Init, StreamTypes
  <1> QED
    BY <1>1, <1>2

LEMMA InitOrderly == Init => Orderly
  BY Constants DEF Init, Orderly

\* The frame a request carries.
LEMMA RequestType ==
  ASSUME SessionTypes, NEW x \in Sides, NEW prio \in Nat, NEW cmd \in {"SYN", "FIN", "PSH"},
         NEW s \in Streams, NEW num \in Nat, request(x, prio, cmd, s, num)
  PROVE  reqs' \in [Sides -> SUBSET Request]
  <1>1. [prio |-> prio, frame |-> [cmd |-> cmd, sid |-> s, num |-> num]] \in Request
    BY DEF Request, Frame
  <1> QED
    BY <1>1 DEF request, SessionTypes

LEMMA FinishTypes ==
  ASSUME StreamTypes, NEW x \in Sides, NEW f \in Frame, NEW ok \in BOOLEAN, finish(x, f, ok)
  PROVE  /\ opener' \in [Streams -> {"no", "syn", "sent", "open", "failed"}]
         /\ writer' \in [Sides -> [Streams -> {"idle", "sending", "err"}]]
         /\ closer' \in [Sides -> [Streams -> {"no", "fin", "sent", "done"}]]
         /\ UNCHANGED <<numWritten, promised>>
  <1>1. f.sid \in Streams /\ f.cmd \in {"SYN", "FIN", "PSH"}
    BY DEF Frame
  <1>2. CASE f.cmd = "SYN"
    BY <1>1, <1>2 DEF finish, StreamTypes, writeVars, closeVars
  <1>3. CASE f.cmd = "PSH"
    <2>1. /\ writer' = of(writer, x, f.sid, IF ok THEN "idle" ELSE "err")
          /\ UNCHANGED <<opener, numWritten, closer, promised>>
      BY <1>3 DEF finish, closeVars
    <2>2. writer' \in [Sides -> [Streams -> {"idle", "sending", "err"}]]
      BY <1>1, <2>1, OfType DEF StreamTypes
    <2> QED
      BY <2>1, <2>2 DEF StreamTypes
  <1>4. CASE f.cmd = "FIN"
    <2>1. closer' = of(closer, x, f.sid, "sent") /\ UNCHANGED <<opener, writer, numWritten, promised>>
      BY <1>4 DEF finish, writeVars
    <2>2. closer' \in [Sides -> [Streams -> {"no", "fin", "sent", "done"}]]
      BY <1>1, <2>1, OfType DEF StreamTypes
    <2> QED
      BY <2>1, <2>2 DEF StreamTypes
  <1> QED
    BY <1>1, <1>2, <1>3, <1>4

\* Steps that leave a stream's own state alone, or the session's.
LEMMA StreamTypesKept ==
  ASSUME StreamTypes,
         UNCHANGED <<buffers, event, fin, dead, opener, writer, closer, reader, numWritten, promised, taken, got>>
  PROVE  StreamTypes'
  BY DEF StreamTypes

LEMMA SendTypes ==
  ASSUME SessionTypes, StreamTypes, NEW x \in Sides, sendLoop(x)
  PROVE  SessionTypes' /\ StreamTypes'
  <1>1. PICK r \in reqs[x] :
          /\ \/ /\ wire' = IF cut(x) THEN wire ELSE [wire EXCEPT ![x] = Append(@, r.frame)]
                /\ reqs' = [reqs EXCEPT ![x] = @ \ {r}]
                /\ finish(x, r.frame, TRUE)
                /\ UNCHANGED sendErr
             \/ /\ sendErr' = [sendErr EXCEPT ![x] = TRUE]
                /\ reqs' = [reqs EXCEPT ![x] = {}]
                /\ finish(x, r.frame, FALSE)
                /\ UNCHANGED wire
          /\ UNCHANGED <<linkVars, tokenVars, recvVars, table, accepts, streamVars, readVars, dropped>>
    BY DEF sendLoop
  <1>2. r.frame \in Frame
    BY DEF SessionTypes, Request
  <1>3. StreamTypes'
    <2>1. /\ opener' \in [Streams -> {"no", "syn", "sent", "open", "failed"}]
          /\ writer' \in [Sides -> [Streams -> {"idle", "sending", "err"}]]
          /\ closer' \in [Sides -> [Streams -> {"no", "fin", "sent", "done"}]]
          /\ UNCHANGED <<numWritten, promised>>
      BY <1>1, <1>2, FinishTypes
    <2>2. UNCHANGED <<buffers, event, fin, dead, reader, taken, got>>
      BY <1>1 DEF streamVars, readVars
    <2> QED
      BY <2>1, <2>2 DEF StreamTypes
  <1>4. SessionTypes'
    <2>1. wire' \in [Sides -> Seq(Frame)] /\ reqs' \in [Sides -> SUBSET Request] /\ sendErr' \in [Sides -> BOOLEAN]
      <3>1. Append(wire[x], r.frame) \in Seq(Frame)
        BY <1>2 DEF SessionTypes
      <3>2. wire' = wire \/ wire' = [wire EXCEPT ![x] = Append(wire[x], r.frame)]
        BY <1>1
      <3>3. reqs' = [reqs EXCEPT ![x] = reqs[x] \ {r}] \/ reqs' = [reqs EXCEPT ![x] = {}]
        BY <1>1
      <3>4. sendErr' = sendErr \/ sendErr' = [sendErr EXCEPT ![x] = TRUE]
        BY <1>1
      <3>5. wire' \in [Sides -> Seq(Frame)]
        BY <3>1, <3>2 DEF SessionTypes
      <3>6. reqs' \in [Sides -> SUBSET Request]
        BY <3>3 DEF SessionTypes
      <3>7. sendErr' \in [Sides -> BOOLEAN]
        BY <3>4 DEF SessionTypes
      <3> QED
        BY <3>5, <3>6, <3>7
    <2>2. UNCHANGED <<gone, dropped, readErr, bucketNotify, die, bucket, recv, hand, table, accepts>>
      BY <1>1 DEF linkVars, tokenVars, recvVars
    <2> QED
      BY <2>1, <2>2 DEF SessionTypes, streamLockFree
  <1> QED
    BY <1>3, <1>4

LEMMA OpenTypes ==
  ASSUME SessionTypes, StreamTypes, NEW s \in Streams, OpenStream(s) \/ Register(s)
  PROVE  SessionTypes' /\ StreamTypes'
  <1>1. CASE OpenStream(s)
    <2>1. reqs' \in [Sides -> SUBSET Request]
      BY <1>1, RequestType, Constants DEF OpenStream, SessionTypes
    <2>2. opener' \in [Streams -> {"no", "syn", "sent", "open", "failed"}]
      BY <1>1 DEF OpenStream, StreamTypes
    <2>3. UNCHANGED <<wire, sendErr, gone, dropped, readErr, bucketNotify, die, bucket, recv, hand, table, accepts,
                      buffers, event, fin, dead, writer, closer, reader, numWritten, promised, taken, got>>
      BY <1>1 DEF OpenStream, linkVars, tokenVars, recvVars, streamVars, writeVars, closeVars, readVars
    <2> QED
      BY <2>1, <2>2, <2>3 DEF SessionTypes, StreamTypes, streamLockFree
  <1>2. CASE Register(s)
    <2>0. \/ /\ opener' = [opener EXCEPT ![s] = "failed"]
             /\ UNCHANGED <<table, reader>>
          \/ /\ opener' = [opener EXCEPT ![s] = "open"]
             /\ table' = [table EXCEPT !["server"] = table["server"] \cup {s}]
             /\ reader' = of(reader, "server", s, "try")
      BY <1>2 DEF Register
    <2>1. opener' \in [Streams -> {"no", "syn", "sent", "open", "failed"}]
      BY <2>0 DEF StreamTypes
    <2>2. table' \in [Sides -> SUBSET Streams]
      <3>1. CASE table' = table
        BY <3>1 DEF SessionTypes
      <3>2. CASE table' = [table EXCEPT !["server"] = table["server"] \cup {s}]
        <4>1. table["server"] \cup {s} \in SUBSET Streams
          BY Constants DEF SessionTypes
        <4> QED
          BY <3>2, <4>1 DEF SessionTypes
      <3> QED
        BY <2>0, <3>1, <3>2
    <2>3. reader' \in [Sides -> [Streams -> {"no", "try", "return", "wait", "EOF", "err", "closed"}]]
      <3>1. "try" \in {"no", "try", "return", "wait", "EOF", "err", "closed"}
        OBVIOUS
      <3>2. of(reader, "server", s, "try") \in [Sides -> [Streams -> {"no", "try", "return", "wait", "EOF", "err", "closed"}]]
        BY <3>1, OfType, Constants DEF StreamTypes
      <3> QED
        BY <2>0, <3>2 DEF StreamTypes
    <2>4. UNCHANGED <<wire, reqs, sendErr, gone, dropped, readErr, bucketNotify, die, bucket, recv, hand, accepts,
                      buffers, event, fin, dead, writer, closer, numWritten, promised, taken, got>>
      BY <1>2 DEF Register, sendVars, linkVars, tokenVars, recvVars, streamVars, writeVars, closeVars
    <2> QED
      BY <2>1, <2>2, <2>3, <2>4 DEF SessionTypes, StreamTypes, streamLockFree
  <1> QED
    BY <1>1, <1>2

LEMMA AcceptTypes ==
  ASSUME SessionTypes, StreamTypes, AcceptStream
  PROVE  SessionTypes' /\ StreamTypes'
  <1>1. accepts # <<>> /\ accepts' = Tail(accepts) /\ reader' = of(reader, "page", Head(accepts), "try")
        /\ UNCHANGED <<wire, reqs, sendErr, gone, dropped, readErr, bucketNotify, die, bucket, recv, hand, table,
                       buffers, event, fin, dead, opener, writer, closer, numWritten, promised, taken, got>>
    BY DEF AcceptStream, sendVars, linkVars, tokenVars, recvVars, streamVars, writeVars, closeVars
  <1>2. Head(accepts) \in Streams /\ accepts' \in Seq(Streams)
    BY <1>1 DEF SessionTypes
  <1>3. reader' \in [Sides -> [Streams -> {"no", "try", "return", "wait", "EOF", "err", "closed"}]]
    BY <1>1, <1>2, OfType, Constants DEF StreamTypes
  <1> QED
    BY <1>1, <1>2, <1>3 DEF SessionTypes, StreamTypes, streamLockFree

LEMMA WriteTypes ==
  ASSUME SessionTypes, StreamTypes, NEW x \in Sides, NEW s \in Streams, Write(x, s)
  PROVE  SessionTypes' /\ StreamTypes'
  <1>1. numWritten[x][s] \in Nat /\ numWritten[x][s] + 1 \in Nat
    BY DEF StreamTypes
  <1>2. reqs' \in [Sides -> SUBSET Request]
    BY <1>1, RequestType DEF Write
  <1>3. writer' \in [Sides -> [Streams -> {"idle", "sending", "err"}]]
    BY OfType DEF Write, StreamTypes
  <1>4. numWritten' \in [Sides -> [Streams -> Nat]]
    BY <1>1, OfType DEF Write, StreamTypes
  <1>5. UNCHANGED <<wire, sendErr, gone, dropped, readErr, bucketNotify, die, bucket, recv, hand, table, accepts,
                    buffers, event, fin, dead, opener, closer, reader, promised, taken, got>>
    BY DEF Write, linkVars, tokenVars, recvVars, streamVars, closeVars, readVars
  <1> QED
    BY <1>2, <1>3, <1>4, <1>5 DEF SessionTypes, StreamTypes, streamLockFree

LEMMA WrittenType ==
  ASSUME StreamTypes, Orderly, NEW x \in Sides, NEW s \in Streams
  PROVE  written(x, s) \in Nat /\ written(x, s) <= numWritten[x][s]
  BY DEF written, StreamTypes, Orderly

LEMMA CloseTypes ==
  ASSUME SessionTypes, StreamTypes, Orderly, NEW x \in Sides, NEW s \in Streams, CloseBegins(x, s)
  PROVE  SessionTypes' /\ StreamTypes'
  <1>1. reqs' \in [Sides -> SUBSET Request]
    BY RequestType DEF CloseBegins
  <1>2. dead' \in [Sides -> [Streams -> BOOLEAN]]
    BY OfType DEF CloseBegins, StreamTypes
  <1>3. closer' \in [Sides -> [Streams -> {"no", "fin", "sent", "done"}]]
    BY OfType DEF CloseBegins, StreamTypes
  <1>4. promised' \in [Sides -> [Streams -> Nat]]
    BY WrittenType, OfType DEF CloseBegins, StreamTypes
  <1>5. UNCHANGED <<wire, sendErr, gone, dropped, readErr, bucketNotify, die, bucket, recv, hand, table, accepts,
                    buffers, event, fin, opener, writer, numWritten, reader, taken, got>>
    BY DEF CloseBegins, linkVars, tokenVars, recvVars, writeVars, readVars
  <1> QED
    BY <1>1, <1>2, <1>3, <1>4, <1>5 DEF SessionTypes, StreamTypes, streamLockFree

LEMMA GiveUpTypes ==
  ASSUME SessionTypes, StreamTypes, NEW x \in Sides, NEW s \in Streams, GiveUp(x, s)
  PROVE  SessionTypes' /\ StreamTypes'
  <1>1. opener' \in [Streams -> {"no", "syn", "sent", "open", "failed"}]
    BY DEF GiveUp, StreamTypes
  <1>2. writer' \in [Sides -> [Streams -> {"idle", "sending", "err"}]]
    <2>1. writer' = writer \/ writer' = of(writer, x, s, "err")
      BY DEF GiveUp
    <2>2. of(writer, x, s, "err") \in [Sides -> [Streams -> {"idle", "sending", "err"}]]
      BY OfType DEF StreamTypes
    <2> QED
      BY <2>1, <2>2 DEF StreamTypes
  <1>3. closer' \in [Sides -> [Streams -> {"no", "fin", "sent", "done"}]]
    <2>1. closer' = closer \/ closer' = of(closer, x, s, "sent")
      BY DEF GiveUp
    <2>2. of(closer, x, s, "sent") \in [Sides -> [Streams -> {"no", "fin", "sent", "done"}]]
      BY OfType DEF StreamTypes
    <2> QED
      BY <2>1, <2>2 DEF StreamTypes
  <1>4. UNCHANGED <<wire, reqs, sendErr, gone, dropped, readErr, bucketNotify, die, bucket, recv, hand, table, accepts,
                    buffers, event, fin, dead, numWritten, promised, reader, taken, got>>
    BY DEF GiveUp, sendVars, linkVars, tokenVars, recvVars, streamVars, readVars
  <1> QED
    BY <1>1, <1>2, <1>3, <1>4 DEF SessionTypes, StreamTypes, streamLockFree

LEMMA ReturnTypes ==
  ASSUME SessionTypes, NEW x \in Sides, NEW n \in Int, return(x, n)
  PROVE  bucket' \in [Sides -> Int] /\ bucketNotify' \in [Sides -> BOOLEAN]
  <1>1. bucket[x] + n \in Int
    BY DEF SessionTypes
  <1> QED
    BY <1>1 DEF return, AddInt32, SessionTypes

LEMMA UnitsType ==
  ASSUME StreamTypes, NEW x \in Sides, NEW s \in Streams
  PROVE  Units(x, s) \in Nat
  <1> DEFINE b == buffers[x][s]
  <1>1. b \in Seq(Buffer)
    BY DEF StreamTypes
  <1>2. CASE b = <<>>
    BY <1>2 DEF Units
  <1>3. CASE b # <<>>
    <2>1. Head(b).left \in Nat /\ Len(b) - 1 \in Nat
      <3>1. Head(b) \in Buffer /\ Len(b) - 1 \in Nat
        BY <1>1, <1>3
      <3> QED
        BY <3>1, Constants DEF Buffer
    <2>2. \A m, n \in Nat : m * n \in Nat
      OBVIOUS
    <2>3. (Len(b) - 1) * FrameSize \in Nat
      BY <2>1, <2>2, Constants
    <2>4. Units(x, s) = Head(b).left + (Len(b) - 1) * FrameSize
      BY <1>3 DEF Units
    <2> QED
      BY <2>1, <2>3, <2>4
  <1> QED
    BY <1>2, <1>3

LEMMA ClosedTypes ==
  ASSUME SessionTypes, StreamTypes, NEW x \in Sides, NEW s \in Streams, streamClosed(x, s)
  PROVE  SessionTypes' /\ StreamTypes'
  <1>1. bucket' \in [Sides -> Int] /\ bucketNotify' \in [Sides -> BOOLEAN]
    <2>1. return(x, Units(x, s)) \/ UNCHANGED <<bucket, bucketNotify>>
      BY DEF streamClosed, tokenVars
    <2> QED
      BY <2>1, UnitsType, ReturnTypes DEF SessionTypes
  <1>2. closer' \in [Sides -> [Streams -> {"no", "fin", "sent", "done"}]]
    BY OfType DEF streamClosed, StreamTypes
  <1>3. buffers' \in [Sides -> [Streams -> Seq(Buffer)]]
    <2>1. <<>> \in Seq(Buffer)
      OBVIOUS
    <2> QED
      BY <2>1, OfType DEF streamClosed, StreamTypes
  <1>4. table' \in [Sides -> SUBSET Streams]
    <2>1. table[x] \ {s} \in SUBSET Streams /\ table' = [table EXCEPT ![x] = table[x] \ {s}]
      BY DEF SessionTypes, streamClosed
    <2> QED
      BY <2>1 DEF SessionTypes
  <1>5. UNCHANGED <<wire, reqs, sendErr, gone, dropped, readErr, die, recv, hand, accepts,
                    event, fin, dead, opener, writer, numWritten, promised, reader, taken, got>>
    BY DEF streamClosed, sendVars, linkVars, recvVars, writeVars, readVars
  <1> QED
    BY <1>1, <1>2, <1>3, <1>4, <1>5 DEF SessionTypes, StreamTypes, streamLockFree

\* A step of recvLoop that stays outside the lock.
LEMMA GotoTypes ==
  ASSUME SessionTypes, NEW x \in Sides, recv[x] # "store", UNCHANGED hand,
         NEW l \in {"loop", "wait", "done"}, goto(x, l)
  PROVE  /\ recv' \in [Sides -> {"loop", "wait", "store", "done"}]
         /\ hand' \in [Sides -> Frame \cup {None}]
         /\ \A y \in Sides : hand'[y] \in Frame <=> ~streamLockFree(y)'
         /\ \A y \in Sides : recv'[y] = IF y = x THEN l ELSE recv[y]
  <1>1. recv' = [recv EXCEPT ![x] = l]
    BY DEF goto
  <1>2. recv' \in [Sides -> {"loop", "wait", "store", "done"}]
    BY <1>1 DEF SessionTypes
  <1>5. hand' \in [Sides -> Frame \cup {None}]
    BY DEF SessionTypes
  <1>3. \A y \in Sides : recv'[y] = IF y = x THEN l ELSE recv[y]
    BY <1>1 DEF SessionTypes
  <1>4. ASSUME NEW y \in Sides PROVE hand'[y] \in Frame <=> ~streamLockFree(y)'
    <2>1. recv'[y] = "store" <=> recv[y] = "store"
      BY <1>3
    <2> QED
      BY <2>1 DEF SessionTypes, streamLockFree
  <1> QED
    BY <1>2, <1>3, <1>4, <1>5

LEMMA RecvWaitTypes ==
  ASSUME SessionTypes, StreamTypes, NEW x \in Sides, recvSleep(x) \/ recvWait(x) \/ recvError(x)
  PROVE  SessionTypes' /\ StreamTypes'
  <1>1. /\ recv' \in [Sides -> {"loop", "wait", "store", "done"}]
        /\ hand' \in [Sides -> Frame \cup {None}]
        /\ \A y \in Sides : hand'[y] \in Frame <=> ~streamLockFree(y)'
    BY GotoTypes DEF recvSleep, recvWait, recvError
  <1>2. bucketNotify' \in [Sides -> BOOLEAN] /\ readErr' \in [Sides -> BOOLEAN]
    BY DEF recvSleep, recvWait, recvError, SessionTypes, tokenVars, linkVars
  <1>3. UNCHANGED <<wire, reqs, sendErr, gone, dropped, die, bucket, table, accepts, buffers, event, fin, dead,
                    opener, writer, closer, reader, numWritten, promised, taken, got>>
    BY DEF recvSleep, recvWait, recvError, others, linkVars, tokenVars, streamVars, writeVars, closeVars, readVars
  <1> QED
    BY <1>1, <1>2, <1>3 DEF SessionTypes, StreamTypes

\* The frame recvLoop reads, and what stays on the wire.
LEMMA HeadTypes ==
  ASSUME SessionTypes, NEW x \in Sides, wire[peer(x)] # <<>>,
         wire' = [wire EXCEPT ![peer(x)] = Tail(@)]
  PROVE  /\ Head(wire[peer(x)]) \in Frame
         /\ wire' \in [Sides -> Seq(Frame)]
         /\ \A y \in Sides : wire'[y] = IF y = peer(x) THEN Tail(wire[y]) ELSE wire[y]
  <1>1. wire[peer(x)] \in Seq(Frame)
    BY Constants DEF SessionTypes
  <1>2. Head(wire[peer(x)]) \in Frame /\ Tail(wire[peer(x)]) \in Seq(Frame)
    BY <1>1
  <1> QED
    BY <1>2, Constants DEF SessionTypes

LEMMA RecvFrameTypes ==
  ASSUME SessionTypes, StreamTypes, NEW x \in Sides, recvFrame(x)
  PROVE  SessionTypes' /\ StreamTypes'
  <1> DEFINE f == Head(wire[peer(x)])
  <1>1. /\ recv[x] = "loop" /\ wire[peer(x)] # <<>>
        /\ wire' = [wire EXCEPT ![peer(x)] = Tail(@)]
        /\ \/ f.cmd = "SYN" /\ recvSyn(x, f)
           \/ f.cmd = "FIN" /\ recvFin(x, f)
           \/ f.cmd = "PSH" /\ recvPsh(x, f)
        /\ UNCHANGED <<reqs, sendErr, gone, readErr, die, bucketNotify, dead,
                       opener, writer, closer, reader, numWritten, promised, taken, got>>
    BY DEF recvFrame, others, linkVars, writeVars, closeVars, readVars
  <1>2. f \in Frame /\ wire' \in [Sides -> Seq(Frame)]
    BY <1>1, HeadTypes
  <1>3. f.sid \in Streams /\ f.num \in Nat
    BY <1>2 DEF Frame
  <1> HIDE DEF f
  <1>4. CASE recvFin(x, f)
    <2>1. /\ recv' \in [Sides -> {"loop", "wait", "store", "done"}]
          /\ hand' \in [Sides -> Frame \cup {None}]
          /\ \A y \in Sides : hand'[y] \in Frame <=> ~streamLockFree(y)'
      BY <1>1, <1>4, GotoTypes DEF recvFin
    <2>2. fin' \in [Sides -> [Streams -> BOOLEAN]] /\ event' \in [Sides -> [Streams -> BOOLEAN]]
      <3>1. of(fin, x, f.sid, TRUE) \in [Sides -> [Streams -> BOOLEAN]]
            /\ of(event, x, f.sid, TRUE) \in [Sides -> [Streams -> BOOLEAN]]
        BY <1>3, OfType DEF StreamTypes
      <3>2. \/ fin' = of(fin, x, f.sid, TRUE) /\ event' = of(event, x, f.sid, TRUE)
            \/ UNCHANGED <<fin, event>>
        BY <1>4 DEF recvFin
      <3> QED
        BY <3>1, <3>2 DEF StreamTypes
    <2> QED
      BY <1>1, <1>2, <1>4, <2>1, <2>2 DEF SessionTypes, StreamTypes, recvFin
  <1>5. CASE recvSyn(x, f)
    <2>1. /\ recv' \in [Sides -> {"loop", "wait", "store", "done"}]
          /\ hand' \in [Sides -> Frame \cup {None}]
          /\ \A y \in Sides : hand'[y] \in Frame <=> ~streamLockFree(y)'
      BY <1>1, <1>5, GotoTypes DEF recvSyn
    <2>2. \/ table' = [table EXCEPT ![x] = table[x] \cup {f.sid}] /\ accepts' = Append(accepts, f.sid)
          \/ UNCHANGED <<table, accepts>>
      BY <1>5 DEF recvSyn
    <2>3. table[x] \cup {f.sid} \in SUBSET Streams /\ Append(accepts, f.sid) \in Seq(Streams)
      BY <1>3 DEF SessionTypes
    <2>4. table' \in [Sides -> SUBSET Streams] /\ accepts' \in Seq(Streams)
      BY <2>2, <2>3 DEF SessionTypes
    <2> QED
      BY <1>1, <1>2, <1>5, <2>1, <2>4 DEF SessionTypes, StreamTypes, recvSyn
  <1>6. CASE recvPsh(x, f)
    <2> DEFINE B == Seq(Buffer)
               stored == of(buffers, x, f.sid, Append(buffers[x][f.sid], [num |-> f.num, left |-> FrameSize]))
    <2>1. Append(buffers[x][f.sid], [num |-> f.num, left |-> FrameSize]) \in B
      <3>1. [num |-> f.num, left |-> FrameSize] \in Buffer
        BY <1>3, Constants DEF Buffer
      <3>2. buffers[x][f.sid] \in B
        BY <1>3 DEF StreamTypes
      <3> QED
        BY <3>1, <3>2
    <2>2. stored \in [Sides -> [Streams -> B]]
      BY <1>3, <2>1, OfType DEF StreamTypes
    <2>3. of(event, x, f.sid, TRUE) \in [Sides -> [Streams -> BOOLEAN]]
      BY <1>3, OfType DEF StreamTypes
    <2>4. bucket[x] + (-FrameSize) \in Int
      BY Constants DEF SessionTypes
    <2>5. [bucket EXCEPT ![x] = AddInt32(x, -FrameSize)] \in [Sides -> Int]
      BY <2>4 DEF SessionTypes, AddInt32
    <2>6. UNCHANGED <<table, accepts, fin>>
      BY <1>6 DEF recvPsh
    <2>7. CASE f.sid \in table[x] /\ x = "page"
      <3>1. /\ buffers' = stored /\ event' = of(event, x, f.sid, TRUE) /\ dropped' = dropped
            /\ bucket' = [bucket EXCEPT ![x] = AddInt32(x, -FrameSize)]
            /\ goto(x, "loop") /\ hand' = hand
        BY <1>6, <2>7 DEF recvPsh
      <3>2. /\ recv' \in [Sides -> {"loop", "wait", "store", "done"}]
            /\ hand' \in [Sides -> Frame \cup {None}]
            /\ \A y \in Sides : hand'[y] \in Frame <=> ~streamLockFree(y)'
        BY <1>1, <3>1, GotoTypes
      <3> HIDE DEF stored
      <3> QED
        BY <1>1, <1>2, <2>2, <2>3, <2>5, <2>6, <3>1, <3>2 DEF SessionTypes, StreamTypes
    <2>8. CASE f.sid \in table[x] /\ x # "page"
      <3>1. /\ buffers' = stored /\ dropped' = dropped /\ UNCHANGED <<bucket, event>>
            /\ recv' = [recv EXCEPT ![x] = "store"] /\ hand' = [hand EXCEPT ![x] = f]
        BY <1>6, <2>8 DEF recvPsh, goto
      <3>2. recv' \in [Sides -> {"loop", "wait", "store", "done"}] /\ hand' \in [Sides -> Frame \cup {None}]
        BY <1>2, <3>1 DEF SessionTypes
      <3>3. ASSUME NEW y \in Sides PROVE hand'[y] \in Frame <=> ~streamLockFree(y)'
        <4>1. y # x => recv'[y] = recv[y] /\ hand'[y] = hand[y]
          BY <3>1
        <4>2. y = x => recv'[y] = "store"
          BY <3>1 DEF SessionTypes
        <4>3. y = x => hand'[y] \in Frame
          BY <3>1, <1>2 DEF SessionTypes
        <4> QED
          BY <4>1, <4>2, <4>3 DEF SessionTypes, streamLockFree
      <3> HIDE DEF stored
      <3> QED
        BY <1>1, <1>2, <2>2, <2>6, <3>1, <3>2, <3>3 DEF SessionTypes, StreamTypes
    <2>9. CASE f.sid \notin table[x]
      <3>1. /\ dropped' = (dropped \/ ~dead[x][f.sid])
            /\ goto(x, "loop") /\ UNCHANGED <<buffers, hand, bucket, event>>
        BY <1>6, <2>9 DEF recvPsh
      <3>2. /\ recv' \in [Sides -> {"loop", "wait", "store", "done"}]
            /\ hand' \in [Sides -> Frame \cup {None}]
            /\ \A y \in Sides : hand'[y] \in Frame <=> ~streamLockFree(y)'
        BY <1>1, <3>1, GotoTypes
      <3>3. dropped' \in BOOLEAN
        BY <1>3, <3>1 DEF StreamTypes, SessionTypes
      <3> QED
        BY <1>1, <1>2, <2>6, <3>1, <3>2, <3>3 DEF SessionTypes, StreamTypes
    <2> QED
      BY <2>7, <2>8, <2>9
  <1> QED
    BY <1>1, <1>4, <1>5, <1>6

LEMMA RecvStoreTypes ==
  ASSUME SessionTypes, StreamTypes, NEW x \in Sides, recvStore(x)
  PROVE  SessionTypes' /\ StreamTypes'
  <1>1. hand[x] \in Frame /\ hand[x].sid \in Streams
    BY DEF recvStore, SessionTypes, streamLockFree, Frame
  <1>2. event' \in [Sides -> [Streams -> BOOLEAN]]
    <2>1. of(event, x, hand[x].sid, TRUE) \in [Sides -> [Streams -> BOOLEAN]]
      BY <1>1, OfType DEF StreamTypes
    <2> QED
      BY <2>1 DEF recvStore
  <1>3. bucket' \in [Sides -> Int]
    <2>1. bucket[x] + (-FrameSize) \in Int
      BY Constants DEF SessionTypes
    <2> QED
      BY <2>1 DEF recvStore, AddInt32, SessionTypes
  <1>4. hand' = [hand EXCEPT ![x] = None] /\ recv' = [recv EXCEPT ![x] = "loop"]
    BY DEF recvStore, goto
  <1>5. hand' \in [Sides -> Frame \cup {None}] /\ recv' \in [Sides -> {"loop", "wait", "store", "done"}]
    BY <1>4 DEF SessionTypes
  <1>6. ASSUME NEW y \in Sides PROVE hand'[y] \in Frame <=> ~streamLockFree(y)'
    <2>1. y # x => recv'[y] = recv[y] /\ hand'[y] = hand[y]
      BY <1>4
    <2>2. y = x => recv'[y] = "loop" /\ hand'[y] = None
      BY <1>4 DEF SessionTypes
    <2> QED
      BY <2>1, <2>2, NoneIs DEF SessionTypes, streamLockFree
  <1>7. UNCHANGED <<wire, reqs, sendErr, gone, dropped, readErr, die, bucketNotify, table, accepts, buffers, fin, dead,
                    opener, writer, closer, reader, numWritten, promised, taken, got>>
    BY DEF recvStore, others, linkVars, writeVars, closeVars, readVars
  <1> QED
    BY <1>2, <1>3, <1>5, <1>6, <1>7 DEF SessionTypes, StreamTypes

\* What a read leaves of the buffers, and how much it took.
LEMMA RestTypes ==
  ASSUME NEW b \in Seq(Buffer), b # <<>>, NEW n \in Nat \ {0}, NEW k,
         k = (IF n < Head(b).left THEN n ELSE Head(b).left)
  PROVE  /\ rest(b, k) \in Seq(Buffer) /\ k \in Nat \ {0} /\ k <= Head(b).left
         /\ Head(b) \in Buffer /\ Head(b).num \in Nat /\ Tail(b) \in Seq(Buffer)
         /\ Head(b) = b[1]
  <1>1. Head(b) \in Buffer /\ Tail(b) \in Seq(Buffer) /\ Head(b) = b[1]
    OBVIOUS
  <1>2. Head(b).num \in Nat /\ Head(b).left \in 1 .. FrameSize
    BY <1>1 DEF Buffer
  <1>3. k \in Nat \ {0} /\ k <= Head(b).left
    BY <1>2, Constants
  <1>4. k # Head(b).left => [Head(b) EXCEPT !.left = @ - k] \in Buffer
    <2>1. k # Head(b).left => Head(b).left - k \in 1 .. FrameSize
      BY <1>2, <1>3, Constants
    <2> QED
      BY <1>1, <2>1 DEF Buffer
  <1>5. rest(b, k) \in Seq(Buffer)
    <2>1. CASE k = Head(b).left
      BY <1>1, <2>1 DEF rest
    <2>2. CASE k # Head(b).left
      <3>1. <<[Head(b) EXCEPT !.left = @ - k]>> \in Seq(Buffer)
        BY <1>4, <2>2
      <3> QED
        BY <1>1, <2>2, <3>1, ConcatProperties DEF rest
    <2> QED
      BY <2>1, <2>2
  <1> QED
    BY <1>1, <1>2, <1>3, <1>5

Readers == {"no", "try", "return", "wait", "EOF", "err", "closed"}

\* What Take does, by side.
LEMMA TakeIs ==
  ASSUME StreamTypes, NEW x \in Sides, NEW s \in Streams, Take(x, s)
  PROVE  \E k \in Nat \ {0} :
           /\ k <= Head(buffers[x][s]).left /\ buffers[x][s] # <<>>
           /\ rest(buffers[x][s], k) \in Seq(Buffer)
           /\ Head(buffers[x][s]).num \in Nat
           /\ buffers' = of(buffers, x, s, rest(buffers[x][s], k))
           /\ got' = IF k = Head(buffers[x][s]).left
                       THEN of(got, x, s, Append(got[x][s], Head(buffers[x][s]).num)) ELSE got
           /\ \/ x = "page" /\ return(x, k) /\ UNCHANGED <<taken, reader>>
              \/ /\ x = "server" /\ taken' = of(taken, x, s, k) /\ reader' = of(reader, x, s, "return")
                 /\ UNCHANGED <<bucket, bucketNotify>>
  <1> DEFINE b == buffers[x][s]
             h == Head(b)
  <1>1. PICK n \in (IF x = "server" THEN ReadSizes ELSE {FrameSize}) :
          LET k == IF n < h.left THEN n ELSE h.left IN
          /\ buffers' = of(buffers, x, s, rest(buffers[x][s], k))
          /\ got' = IF k = h.left THEN of(got, x, s, Append(got[x][s], h.num)) ELSE got
          /\ IF x = "page"
               THEN return(x, k) /\ UNCHANGED <<taken, reader>>
               ELSE /\ taken' = of(taken, x, s, k)
                    /\ reader' = of(reader, x, s, "return")
                    /\ UNCHANGED tokenVars
    BY DEF Take
  <1> DEFINE k == IF n < h.left THEN n ELSE h.left
  <1>2. b # <<>> /\ b \in Seq(Buffer) /\ n \in Nat \ {0}
    <2>1. n \in ReadSizes \/ n = FrameSize
      OBVIOUS
    <2>2. n \in Nat \ {0}
      BY <2>1, Constants
    <2> QED
      BY <2>2 DEF Take, StreamTypes
  <1>3. rest(b, k) \in Seq(Buffer) /\ k \in Nat \ {0} /\ k <= h.left /\ h.num \in Nat
    <2> HIDE DEF b, h
    <2>1. h = Head(b)
      BY DEF h
    <2> QED
      BY <1>2, <2>1, RestTypes
  <1>4. x = "page" \/ x = "server"
    BY DEF Sides
  <1> HIDE DEF k
  <1> QED
    BY <1>1, <1>2, <1>3, <1>4 DEF tokenVars, k

LEMMA TakeTypes ==
  ASSUME SessionTypes, StreamTypes, NEW x \in Sides, NEW s \in Streams, Take(x, s)
  PROVE  SessionTypes' /\ StreamTypes'
  <1>1. PICK k \in Nat \ {0} :
           /\ k <= Head(buffers[x][s]).left /\ buffers[x][s] # <<>>
           /\ rest(buffers[x][s], k) \in Seq(Buffer)
           /\ Head(buffers[x][s]).num \in Nat
           /\ buffers' = of(buffers, x, s, rest(buffers[x][s], k))
           /\ got' = IF k = Head(buffers[x][s]).left
                       THEN of(got, x, s, Append(got[x][s], Head(buffers[x][s]).num)) ELSE got
           /\ \/ x = "page" /\ return(x, k) /\ UNCHANGED <<taken, reader>>
              \/ /\ x = "server" /\ taken' = of(taken, x, s, k) /\ reader' = of(reader, x, s, "return")
                 /\ UNCHANGED <<bucket, bucketNotify>>
    BY TakeIs
  <1>2. buffers' \in [Sides -> [Streams -> Seq(Buffer)]]
    BY <1>1, OfType DEF StreamTypes
  <1>3. got' \in [Sides -> [Streams -> Seq(Nat)]]
    <2>1. got[x][s] \in Seq(Nat)
      BY DEF StreamTypes
    <2>2. Append(got[x][s], Head(buffers[x][s]).num) \in Seq(Nat)
      BY <1>1, <2>1
    <2>3. of(got, x, s, Append(got[x][s], Head(buffers[x][s]).num)) \in [Sides -> [Streams -> Seq(Nat)]]
      BY <2>2, OfType DEF StreamTypes
    <2> QED
      BY <1>1, <2>3 DEF StreamTypes
  <1>4. bucket' \in [Sides -> Int] /\ bucketNotify' \in [Sides -> BOOLEAN]
    BY <1>1, ReturnTypes DEF SessionTypes
  <1>5. taken' \in [Sides -> [Streams -> Nat]]
    <2>1. of(taken, x, s, k) \in [Sides -> [Streams -> Nat]]
      BY OfType DEF StreamTypes
    <2> QED
      BY <1>1, <2>1 DEF StreamTypes
  <1>6. reader' \in [Sides -> [Streams -> Readers]]
    <2>1. of(reader, x, s, "return") \in [Sides -> [Streams -> Readers]]
      BY OfType DEF StreamTypes, Readers
    <2> QED
      BY <1>1, <2>1 DEF StreamTypes, Readers
  <1>7. UNCHANGED <<wire, reqs, sendErr, gone, dropped, readErr, die, recv, hand, table, accepts, event, fin, dead,
                    opener, writer, numWritten, closer, promised>>
    BY DEF Take, sendVars, linkVars, recvVars, writeVars, closeVars
  <1> QED
    BY <1>2, <1>3, <1>4, <1>5, <1>6, <1>7 DEF SessionTypes, StreamTypes, streamLockFree, Readers

LEMMA ReadTypes ==
  ASSUME SessionTypes, StreamTypes, NEW x \in Sides, NEW s \in Streams,
         returnTokens(x, s) \/ TakeNothing(x, s) \/ waitRead(x, s)
  PROVE  SessionTypes' /\ StreamTypes'
  <1>0. taken[x][s] \in Nat
    BY DEF StreamTypes
  <1>1. bucket' \in [Sides -> Int] /\ bucketNotify' \in [Sides -> BOOLEAN]
    <2>1. return(x, taken[x][s]) \/ UNCHANGED <<bucket, bucketNotify>>
      BY DEF returnTokens, TakeNothing, waitRead, tokenVars
    <2> QED
      BY <1>0, <2>1, ReturnTypes DEF SessionTypes
  <1>2. taken' \in [Sides -> [Streams -> Nat]]
    <2>1. of(taken, x, s, 0) \in [Sides -> [Streams -> Nat]]
      BY OfType DEF StreamTypes
    <2>2. taken' = of(taken, x, s, 0) \/ taken' = taken
      BY DEF returnTokens, TakeNothing, waitRead
    <2> QED
      BY <2>1, <2>2 DEF StreamTypes
  <1>3. event' \in [Sides -> [Streams -> BOOLEAN]]
    <2>1. of(event, x, s, FALSE) \in [Sides -> [Streams -> BOOLEAN]]
      BY OfType DEF StreamTypes
    <2>2. event' = of(event, x, s, FALSE) \/ event' = event
      BY DEF returnTokens, TakeNothing, waitRead, streamVars
    <2> QED
      BY <2>1, <2>2 DEF StreamTypes
  <1>4. reader' \in [Sides -> [Streams -> Readers]]
    <2>1. PICK v \in Readers : reader' = of(reader, x, s, v)
      BY DEF returnTokens, TakeNothing, waitRead, finSeen, Readers
    <2>2. of(reader, x, s, v) \in [Sides -> [Streams -> Readers]]
      BY OfType DEF StreamTypes, Readers
    <2> QED
      BY <2>1, <2>2
  <1>5. UNCHANGED <<wire, reqs, sendErr, gone, dropped, readErr, die, recv, hand, table, accepts, buffers, fin, dead,
                    opener, writer, numWritten, closer, promised, got>>
    BY DEF returnTokens, TakeNothing, waitRead, sendVars, linkVars, recvVars, writeVars, closeVars, streamVars
  <1> QED
    BY <1>1, <1>2, <1>3, <1>4, <1>5 DEF SessionTypes, StreamTypes, streamLockFree, Readers

\* What a side that disappears leaves behind.
Vanished(x) ==
  /\ gone = "none" /\ gone' = x /\ wire' = [y \in Sides |-> <<>>]
  /\ reqs' = [reqs EXCEPT ![x] = {}] /\ hand' = [hand EXCEPT ![x] = None]
  /\ recv' = [recv EXCEPT ![x] = "loop"]
  /\ bucket' = [bucket EXCEPT ![x] = MaxReceiveBuffer]
  /\ bucketNotify' = [bucketNotify EXCEPT ![x] = FALSE]
  /\ table' = [table EXCEPT ![x] = {}]
  /\ buffers' = [buffers EXCEPT ![x] = [s \in Streams |-> <<>>]]
  /\ event' = [event EXCEPT ![x] = [s \in Streams |-> FALSE]]
  /\ fin' = [fin EXCEPT ![x] = [s \in Streams |-> FALSE]]
  /\ dead' = [dead EXCEPT ![x] = [s \in Streams |-> FALSE]]
  /\ writer' = [writer EXCEPT ![x] = [s \in Streams |-> "idle"]]
  /\ numWritten' = [numWritten EXCEPT ![x] = [s \in Streams |-> 0]]
  /\ closer' = [closer EXCEPT ![x] = [s \in Streams |-> "no"]]
  /\ promised' = [promised EXCEPT ![x] = [s \in Streams |-> 0]]
  /\ reader' = [reader EXCEPT ![x] = [s \in Streams |-> "no"]]
  /\ taken' = [taken EXCEPT ![x] = [s \in Streams |-> 0]]
  /\ got' = [got EXCEPT ![x] = [s \in Streams |-> <<>>]]
  /\ \/ x = "page" /\ accepts' = <<>> /\ opener' = opener
     \/ x = "server" /\ accepts' = accepts /\ opener' = [s \in Streams |-> "no"]
  /\ UNCHANGED <<sendErr, readErr, die, dropped>>

LEMMA VanishIs ==
  ASSUME NEW x \in Sides, Vanish(x)
  PROVE  Vanished(x)
  <1>1. x = "page" \/ x = "server"
    BY DEF Sides
  <1> QED
    BY <1>1 DEF Vanish, Vanished

LEMMA VanishTypes ==
  ASSUME SessionTypes, StreamTypes, NEW x \in Sides, Vanish(x)
  PROVE  SessionTypes' /\ StreamTypes'
  <1>0. Vanished(x)
    BY VanishIs
  <1>1. SessionTypes'
    <2>1. wire' \in [Sides -> Seq(Frame)] /\ reqs' \in [Sides -> SUBSET Request]
          /\ gone' \in Sides \cup {"none"} /\ dropped' \in BOOLEAN
      BY <1>0 DEF Vanished, SessionTypes
    <2>2. /\ sendErr' \in [Sides -> BOOLEAN] /\ readErr' \in [Sides -> BOOLEAN]
          /\ bucketNotify' \in [Sides -> BOOLEAN] /\ die' \in [Sides -> BOOLEAN]
          /\ bucket' \in [Sides -> Int]
      BY <1>0, Constants DEF Vanished, SessionTypes
    <2>3. recv' = [recv EXCEPT ![x] = "loop"] /\ hand' = [hand EXCEPT ![x] = None]
      BY <1>0 DEF Vanished
    <2>4. recv' \in [Sides -> {"loop", "wait", "store", "done"}] /\ hand' \in [Sides -> Frame \cup {None}]
      BY <2>3 DEF SessionTypes
    <2>5. ASSUME NEW y \in Sides PROVE hand'[y] \in Frame <=> ~streamLockFree(y)'
      <3>1. y # x => recv'[y] = recv[y] /\ hand'[y] = hand[y]
        BY <2>3
      <3>2. y = x => recv'[y] = "loop" /\ hand'[y] = None
        BY <2>3 DEF SessionTypes
      <3> QED
        BY <3>1, <3>2, NoneIs DEF SessionTypes, streamLockFree
    <2>6. table' \in [Sides -> SUBSET Streams] /\ accepts' \in Seq(Streams)
      <3>1. table' \in [Sides -> SUBSET Streams]
        BY <1>0 DEF Vanished, SessionTypes
      <3>2. <<>> \in Seq(Streams)
        OBVIOUS
      <3>3. accepts' = <<>> \/ accepts' = accepts
        BY <1>0 DEF Vanished
      <3> QED
        BY <3>1, <3>2, <3>3 DEF SessionTypes
    <2> QED
      BY <2>1, <2>2, <2>4, <2>5, <2>6 DEF SessionTypes
  <1>2. StreamTypes'
    <2>1. ASSUME NEW T, NEW f \in [Sides -> [Streams -> T]], NEW v \in T
          PROVE  [f EXCEPT ![x] = [s \in Streams |-> v]] \in [Sides -> [Streams -> T]]
      OBVIOUS
    <2>2. buffers' \in [Sides -> [Streams -> Seq(Buffer)]] /\ got' \in [Sides -> [Streams -> Seq(Nat)]]
      <3>1. <<>> \in Seq(Buffer) /\ <<>> \in Seq(Nat)
        OBVIOUS
      <3> QED
        BY <2>1, <3>1, <1>0 DEF Vanished, StreamTypes
    <2>3. /\ event' \in [Sides -> [Streams -> BOOLEAN]] /\ fin' \in [Sides -> [Streams -> BOOLEAN]]
          /\ dead' \in [Sides -> [Streams -> BOOLEAN]]
      BY <2>1, <1>0 DEF Vanished, StreamTypes
    <2>4. /\ opener' \in [Streams -> {"no", "syn", "sent", "open", "failed"}]
          /\ writer' \in [Sides -> [Streams -> {"idle", "sending", "err"}]]
          /\ closer' \in [Sides -> [Streams -> {"no", "fin", "sent", "done"}]]
          /\ reader' \in [Sides -> [Streams -> {"no", "try", "return", "wait", "EOF", "err", "closed"}]]
      BY <1>0 DEF Vanished, StreamTypes
    <2>5. /\ numWritten' \in [Sides -> [Streams -> Nat]] /\ promised' \in [Sides -> [Streams -> Nat]]
          /\ taken' \in [Sides -> [Streams -> Nat]]
      BY <1>0 DEF Vanished, StreamTypes
    <2> QED
      BY <2>2, <2>3, <2>4, <2>5 DEF StreamTypes
  <1> QED
    BY <1>1, <1>2

LEMMA KeepaliveTypes ==
  ASSUME SessionTypes, StreamTypes, NEW x \in Sides, keepalive(x) \/ sessionClose(x)
  PROVE  SessionTypes' /\ StreamTypes'
  <1>1. die' \in [Sides -> BOOLEAN] /\ reqs' \in [Sides -> SUBSET Request]
    BY DEF keepalive, sessionClose, sendVars, linkVars, SessionTypes
  <1>2. dead' \in [Sides -> [Streams -> BOOLEAN]]
    <2>1. CASE keepalive(x)
      BY <2>1 DEF keepalive, streamVars, StreamTypes
    <2>2. CASE sessionClose(x)
      BY <2>2 DEF sessionClose, StreamTypes
    <2> QED
      BY <2>1, <2>2
  <1>3. UNCHANGED <<wire, sendErr, gone, dropped, readErr, bucketNotify, bucket, recv, hand, table, accepts,
                    buffers, event, fin, opener, writer, closer, reader, numWritten, promised, taken, got>>
    BY DEF keepalive, sessionClose, sendVars, linkVars, tokenVars, recvVars, streamVars, writeVars, closeVars, readVars
  <1> QED
    BY <1>1, <1>2, <1>3 DEF SessionTypes, StreamTypes, streamLockFree

SessionInv == SessionTypes /\ StreamTypes /\ Orderly

LEMMA StepTypes ==
  ASSUME SessionInv, [Next]_vars
  PROVE  SessionTypes' /\ StreamTypes'
  <1> USE DEF SessionInv
  <1>1. ASSUME NEW x \in Sides, sendLoop(x) \/ recvLoop(x) \/ keepalive(x) \/ sessionClose(x) \/ Vanish(x)
        PROVE  SessionTypes' /\ StreamTypes'
    BY <1>1, SendTypes, RecvWaitTypes, RecvFrameTypes, RecvStoreTypes, KeepaliveTypes, VanishTypes DEF recvLoop
  <1>2. ASSUME NEW x \in Sides, NEW s \in Streams,
               Write(x, s) \/ CloseBegins(x, s) \/ GiveUp(x, s) \/ streamClosed(x, s) \/ Reads(x, s)
        PROVE  SessionTypes' /\ StreamTypes'
    BY <1>2, WriteTypes, CloseTypes, GiveUpTypes, ClosedTypes, TakeTypes, ReadTypes DEF Reads
  <1>3. ASSUME NEW s \in Streams, OpenStream(s) \/ Register(s)
        PROVE  SessionTypes' /\ StreamTypes'
    BY <1>3, OpenTypes
  <1>4. CASE AcceptStream
    BY <1>4, AcceptTypes
  <1>5. CASE UNCHANGED vars
    <2>1. UNCHANGED <<wire, reqs, sendErr, gone, readErr, die, bucket, bucketNotify, recv, hand, table, accepts,
                      dropped, buffers, event, fin, dead, opener, writer, numWritten, closer, promised,
                      reader, taken, got>>
      BY <1>5 DEF vars, sendVars, linkVars, tokenVars, recvVars, streamVars, writeVars, closeVars, readVars
    <2> QED
      BY <2>1 DEF SessionTypes, StreamTypes, streamLockFree
  <1> QED
    BY <1>1, <1>2, <1>3, <1>4, <1>5 DEF Next

-----------------------------------------------------------------------------
(* The order of things *)

\* A goroutine has one request at a time.
LEMMA OneRequest ==
  ASSUME SessionInv, NEW x \in Sides, NEW q \in reqs[x], NEW r \in reqs[x],
         q.frame.cmd = r.frame.cmd, q.frame.sid = r.frame.sid
  PROVE  q = r
  <1>1. q \in Request /\ r \in Request
    BY DEF SessionInv, SessionTypes
  <1>2. Pending(x, q) /\ Pending(x, r)
    BY DEF SessionInv, Orderly
  <1>3. q.frame \in Frame /\ r.frame \in Frame
    BY <1>1 DEF Request
  <1>4. r.frame.cmd \in {"SYN", "FIN", "PSH"}
    BY <1>3 DEF Frame
  <1>5. q.frame.num = r.frame.num /\ q.prio = r.prio
    BY <1>2, <1>4 DEF Pending
  <1>6. q.frame = r.frame
    BY <1>3, <1>5 DEF Frame
  <1> QED
    BY <1>1, <1>5, <1>6 DEF Request

\* A step that sends nothing and moves no goroutine that waits for a result.
LEMMA OrderlyKept ==
  ASSUME SessionInv, UNCHANGED <<reqs, sendErr, die, opener, writer, numWritten, dead>>,
         \A x \in Sides, s \in Streams :
           /\ closer'[x][s] = closer[x][s] \/ (closer[x][s] = "sent" /\ closer'[x][s] = "done")
           /\ reader'[x][s] # "return" => taken'[x][s] = 0,
         \A s \in Streams :
           /\ reader'["server"][s] = reader["server"][s] \/ opener[s] = "open" \/ reader'["server"][s] = "no"
           /\ reader'["page"][s] # "return"
  PROVE  Orderly'
  <1>1. ASSUME NEW x \in Sides, NEW r \in reqs'[x] PROVE Pending(x, r)'
    <2>1. r \in reqs[x] /\ Pending(x, r)
      BY <1>1 DEF SessionInv, Orderly
    <2>2. r.frame.sid \in Streams
      BY <2>1 DEF SessionInv, SessionTypes, Request, Frame
    <2> QED
      BY <2>1, <2>2 DEF Pending
  <1>2. ASSUME NEW x \in Sides, gaveUp(x)' PROVE reqs'[x] = {}
    BY <1>2 DEF gaveUp, SessionInv, Orderly
  <1>3. ASSUME NEW x \in Sides, NEW s \in Streams
        PROVE  /\ writer'[x][s] # "idle" => numWritten'[x][s] > 0
               /\ closer'[x][s] # "no" => dead'[x][s]
    BY DEF SessionInv, Orderly
  <1>4. \A s \in Streams : opener'[s] # "open" => reader'["server"][s] = "no"
    BY DEF SessionInv, Orderly
  <1> QED
    BY <1>1, <1>2, <1>3, <1>4 DEF Orderly

LEMMA SendOrderly ==
  ASSUME SessionInv, NEW x \in Sides, sendLoop(x)
  PROVE  Orderly'
  <1> USE DEF SessionInv
  <1>1. PICK r \in reqs[x] : \E ok \in BOOLEAN :
          /\ finish(x, r.frame, ok)
          /\ \/ reqs' = [reqs EXCEPT ![x] = @ \ {r}] /\ UNCHANGED sendErr
             \/ reqs' = [reqs EXCEPT ![x] = {}] /\ sendErr' = [sendErr EXCEPT ![x] = TRUE]
    BY DEF sendLoop
  <1>2. UNCHANGED <<die, dead, reader, taken>>
    BY DEF sendLoop, linkVars, streamVars, readVars
  <1> DEFINE f == r.frame
             s == f.sid
  <1>3. f \in Frame /\ s \in Streams /\ f.cmd \in {"SYN", "FIN", "PSH"} /\ Pending(x, r)
    BY DEF SessionTypes, Request, Frame, Orderly
  <1>4. PICK ok \in BOOLEAN : finish(x, f, ok)
    BY <1>1
  <1>5. \A y \in Sides : reqs'[y] = IF y = x THEN reqs'[x] ELSE reqs[y]
    BY <1>1 DEF SessionTypes
  <1>6. reqs'[x] \subseteq reqs[x] \ {r}
    BY <1>1 DEF SessionTypes
  <1>7. /\ f.cmd = "SYN" => /\ x = "server" /\ opener[s] = "syn" /\ UNCHANGED <<writer, numWritten, closer>>
                            /\ opener' = [opener EXCEPT ![s] = IF ok THEN "sent" ELSE "failed"]
        /\ f.cmd = "PSH" => /\ writer[x][s] = "sending" /\ UNCHANGED <<opener, numWritten, closer>>
                            /\ writer' = of(writer, x, s, IF ok THEN "idle" ELSE "err")
        /\ f.cmd = "FIN" => /\ closer[x][s] = "fin" /\ UNCHANGED <<opener, writer, numWritten>>
                            /\ closer' = of(closer, x, s, "sent")
    BY <1>3, <1>4 DEF finish, Pending, writeVars, closeVars
  <1>8. /\ \A t \in Streams : opener'[t] = opener[t] \/ (f.cmd = "SYN" /\ t = s /\ opener'[t] # "open")
        /\ \A y \in Sides, t \in Streams : writer'[y][t] = writer[y][t] \/ (f.cmd = "PSH" /\ y = x /\ t = s)
        /\ \A y \in Sides, t \in Streams : closer'[y][t] = closer[y][t] \/ (f.cmd = "FIN" /\ y = x /\ t = s)
        /\ UNCHANGED numWritten
    <2>1. ASSUME NEW v PROVE \A y \in Sides, t \in Streams : of(writer, x, s, v)[y][t] = IF y = x /\ t = s THEN v ELSE writer[y][t]
      BY <1>3 DEF of, StreamTypes
    <2>2. ASSUME NEW v PROVE \A y \in Sides, t \in Streams : of(closer, x, s, v)[y][t] = IF y = x /\ t = s THEN v ELSE closer[y][t]
      BY <1>3 DEF of, StreamTypes
    <2>3. CASE f.cmd = "SYN"
      <3>1. \A t \in Streams : opener'[t] = IF t = s THEN IF ok THEN "sent" ELSE "failed" ELSE opener[t]
        BY <1>7, <2>3 DEF StreamTypes
      <3> QED
        BY <1>7, <2>3, <3>1
    <2>4. CASE f.cmd = "PSH"
      BY <1>7, <2>1, <2>4
    <2>5. CASE f.cmd = "FIN"
      BY <1>7, <2>2, <2>5
    <2> QED
      BY <1>3, <2>3, <2>4, <2>5
  <1> HIDE DEF f, s
  <1>9. ASSUME NEW y \in Sides, NEW q \in reqs'[y] PROVE Pending(y, q)'
    <2>0. q \in reqs[y]
      BY <1>5, <1>6, <1>9
    <2>1. q \in reqs[y] /\ Pending(y, q) /\ q.frame.sid \in Streams
      BY <2>0 DEF Orderly, SessionTypes, Request, Frame
    <2>2. y = x => q # r
      BY <1>6, <1>9
    <2>3. y # x \/ q.frame.cmd # f.cmd \/ q.frame.sid # s
      BY <2>1, <2>2, OneRequest DEF f, s
    <2>4. y # x /\ f.cmd = "SYN" => q.frame.cmd # "SYN"
      BY <2>1, <1>7 DEF Pending
    <2> QED
      BY <1>8, <2>1, <2>3, <2>4 DEF Pending
  <1>10. ASSUME NEW y \in Sides, gaveUp(y)' PROVE reqs'[y] = {}
    <2>1. CASE gaveUp(y)
      BY <2>1, <1>5, <1>6 DEF Orderly
    <2>2. CASE ~gaveUp(y)
      <3>1. y = x /\ reqs' = [reqs EXCEPT ![x] = {}]
        BY <1>1, <1>2, <1>10, <2>2 DEF gaveUp, SessionTypes
      <3> QED
        BY <3>1 DEF SessionTypes
    <2> QED
      BY <2>1, <2>2
  <1>11. ASSUME NEW y \in Sides, NEW t \in Streams
         PROVE  /\ writer'[y][t] # "idle" => numWritten'[y][t] > 0
                /\ closer'[y][t] # "no" => dead'[y][t]
                /\ reader'[y][t] # "return" => taken'[y][t] = 0
    BY <1>2, <1>7, <1>8 DEF Orderly
  <1>12. ASSUME NEW t \in Streams
         PROVE  /\ opener'[t] # "open" => reader'["server"][t] = "no"
                /\ reader'["page"][t] # "return"
    BY <1>2, <1>7, <1>8 DEF Orderly
  <1> QED
    BY <1>9, <1>10, <1>11, <1>12 DEF Orderly

\* Steps of recvLoop and of the page's acceptor.
LEMMA RecvOrderly ==
  ASSUME SessionInv, NEW x \in Sides, recvLoop(x) \/ AcceptStream
  PROVE  Orderly'
  <1> USE DEF SessionInv
  <1>1. CASE recvLoop(x)
    <2>1. UNCHANGED <<reqs, sendErr, die, opener, writer, numWritten, dead, closer, reader, taken>>
      BY <1>1 DEF recvLoop, recvSleep, recvWait, recvFrame, recvFin, recvSyn, recvPsh, recvError, recvStore,
                  others, linkVars, streamVars, writeVars, closeVars, readVars
    <2> QED
      BY <2>1, OrderlyKept DEF Orderly
  <1>2. CASE AcceptStream
    <2>1. /\ UNCHANGED <<reqs, sendErr, die, opener, writer, numWritten, dead, closer, taken>>
          /\ reader' = of(reader, "page", Head(accepts), "try") /\ Head(accepts) \in Streams
      BY <1>2 DEF AcceptStream, sendVars, linkVars, streamVars, writeVars, closeVars, SessionTypes
    <2>2. \A y \in Sides, t \in Streams : reader'[y][t] = IF y = "page" /\ t = Head(accepts) THEN "try" ELSE reader[y][t]
      BY <2>1, Constants DEF of, StreamTypes
    <2>3. \A t \in Streams : reader'["server"][t] = reader["server"][t] /\ reader'["page"][t] # "return"
      BY <2>2, Constants DEF Orderly
    <2>4. \A y \in Sides, t \in Streams : reader'[y][t] # "return" => taken[y][t] = 0
      BY <2>2 DEF Orderly
    <2> QED
      BY <2>1, <2>3, <2>4, OrderlyKept
  <1> QED
    BY <1>1, <1>2

\* Steps of readers and of streamClosed.
LEMMA QuietOrderly ==
  ASSUME SessionInv, NEW x \in Sides, NEW s \in Streams, streamClosed(x, s) \/ Reads(x, s)
  PROVE  Orderly'
  <1> USE DEF SessionInv
  <1>0. ASSUME NEW v PROVE \A y \in Sides, t \in Streams : of(closer, x, s, v)[y][t] = IF y = x /\ t = s THEN v ELSE closer[y][t]
    BY DEF of, StreamTypes
  <1>3. CASE streamClosed(x, s)
    <2>1. /\ UNCHANGED <<reqs, sendErr, die, opener, writer, numWritten, dead, reader, taken>>
          /\ closer[x][s] = "sent" /\ closer' = of(closer, x, s, "done")
      BY <1>3 DEF streamClosed, sendVars, linkVars, streamVars, writeVars, readVars
    <2>2. \A y \in Sides, t \in Streams :
            closer'[y][t] = closer[y][t] \/ (closer[y][t] = "sent" /\ closer'[y][t] = "done")
      BY <1>0, <2>1
    <2> QED
      BY <2>1, <2>2, OrderlyKept DEF Orderly
  <1>4. CASE Take(x, s)
    <2>1. /\ UNCHANGED <<reqs, sendErr, die, opener, writer, numWritten, dead, closer>>
          /\ reader[x][s] = "try"
      BY <1>4 DEF Take, sendVars, linkVars, writeVars, closeVars
    <2>2. PICK k \in Nat \ {0} :
            \/ x = "page" /\ UNCHANGED <<taken, reader>>
            \/ x = "server" /\ taken' = of(taken, x, s, k) /\ reader' = of(reader, x, s, "return")
      BY <1>4, TakeIs
    <2>3. CASE x = "page" /\ UNCHANGED <<taken, reader>>
      BY <2>1, <2>3, OrderlyKept DEF Orderly
    <2>4. CASE x = "server" /\ taken' = of(taken, x, s, k) /\ reader' = of(reader, x, s, "return")
      <3>1. \A y \in Sides, t \in Streams : /\ reader'[y][t] = IF y = x /\ t = s THEN "return" ELSE reader[y][t]
                                            /\ taken'[y][t] = IF y = x /\ t = s THEN k ELSE taken[y][t]
        BY <2>4 DEF of, StreamTypes
      <3>2. \A t \in Streams : reader'["server"][t] = reader["server"][t] \/ opener[t] = "open"
        BY <2>1, <2>4, <3>1, Constants DEF Orderly
      <3>3. \A t \in Streams : reader'["page"][t] # "return"
        BY <2>4, <3>1, Constants DEF Orderly
      <3>4. \A y \in Sides, t \in Streams : reader'[y][t] # "return" => taken'[y][t] = 0
        BY <3>1 DEF Orderly
      <3> QED
        BY <2>1, <3>2, <3>3, <3>4, OrderlyKept
    <2> QED
      BY <2>2, <2>3, <2>4
  <1>5. CASE returnTokens(x, s) \/ TakeNothing(x, s) \/ waitRead(x, s)
    <2>1. /\ UNCHANGED <<reqs, sendErr, die, opener, writer, numWritten, dead, closer>>
          /\ reader[x][s] \in {"return", "try", "wait"}
      BY <1>5 DEF returnTokens, TakeNothing, waitRead, sendVars, linkVars, writeVars, closeVars, streamVars
    <2>2. PICK v \in Readers \ {"return"} : reader' = of(reader, x, s, v)
      BY <1>5 DEF returnTokens, TakeNothing, waitRead, finSeen, Readers
    <2>3. (taken' = of(taken, x, s, 0)) \/ (taken' = taken /\ reader[x][s] # "return")
      BY <1>5 DEF returnTokens, TakeNothing, waitRead
    <2>4. \A y \in Sides, t \in Streams : reader'[y][t] = IF y = x /\ t = s THEN v ELSE reader[y][t]
      BY <2>2 DEF of, StreamTypes
    <2>5. \A y \in Sides, t \in Streams : of(taken, x, s, 0)[y][t] = IF y = x /\ t = s THEN 0 ELSE taken[y][t]
      BY DEF of, StreamTypes
    <2>6. \A y \in Sides, t \in Streams : reader'[y][t] # "return" => taken'[y][t] = 0
      BY <2>3, <2>4, <2>5 DEF Orderly
    <2>7. \A t \in Streams : reader'["server"][t] = reader["server"][t] \/ opener[t] = "open"
      BY <2>1, <2>4, Constants DEF Orderly
    <2>8. \A t \in Streams : reader'["page"][t] # "return"
      BY <2>2, <2>4, Constants DEF Orderly
    <2> QED
      BY <2>1, <2>6, <2>7, <2>8, OrderlyKept
  <1> QED
    BY <1>3, <1>4, <1>5 DEF Reads

\* Steps that may add one request, of a goroutine that had none.
LEMMA RequestOrderly ==
  ASSUME SessionInv, NEW x \in Sides, NEW prio \in Nat, NEW cmd \in {"SYN", "FIN", "PSH"},
         NEW s \in Streams, NEW num \in Nat, request(x, prio, cmd, s, num),
         UNCHANGED <<sendErr, die>>,
         \A r : r = [prio |-> prio, frame |-> [cmd |-> cmd, sid |-> s, num |-> num]] => Pending(x, r)',
         \A y \in Sides : \A r \in reqs[y] : Pending(y, r)'
  PROVE  \A y \in Sides : (\A r \in reqs'[y] : Pending(y, r)') /\ (gaveUp(y)' => reqs'[y] = {})
  <1> DEFINE new == [prio |-> prio, frame |-> [cmd |-> cmd, sid |-> s, num |-> num]]
  <1>1. \A y \in Sides : reqs'[y] = IF y = x /\ ~gaveUp(x) THEN reqs[x] \cup {new} ELSE reqs[y]
    BY DEF request, SessionInv, SessionTypes
  <1>2. \A y \in Sides : gaveUp(y)' = gaveUp(y) /\ (gaveUp(y) => reqs[y] = {})
    BY DEF gaveUp, SessionInv, Orderly
  <1>3. \A r : r = new => Pending(x, r)'
    OBVIOUS
  <1> HIDE DEF new
  <1>4. ASSUME NEW y \in Sides, NEW r \in reqs'[y] PROVE Pending(y, r)'
    <2>1. r \in reqs[y] \/ (y = x /\ r = new)
      BY <1>1, <1>4
    <2> QED
      BY <1>3, <2>1
  <1> QED
    BY <1>1, <1>2, <1>4

LEMMA StartOrderly ==
  ASSUME SessionInv, NEW x \in Sides, NEW s \in Streams, OpenStream(s) \/ Write(x, s) \/ CloseBegins(x, s)
  PROVE  Orderly'
  <1> USE DEF SessionInv
  <1>0. ASSUME NEW y \in Sides, NEW r \in reqs[y] PROVE r.frame.sid \in Streams /\ Pending(y, r)
    BY DEF SessionTypes, Request, Frame, Orderly
  <1>1. CASE OpenStream(s)
    <2>1. /\ opener[s] = "no"
          /\ UNCHANGED <<sendErr, die, writer, numWritten, closer, dead, reader, taken>>
      BY <1>1 DEF OpenStream, linkVars, streamVars, writeVars, closeVars, readVars
    <2>2. PICK v \in {"syn", "failed"} : opener' = [opener EXCEPT ![s] = v]
      BY <1>1 DEF OpenStream
    <2>3. \A t \in Streams : opener'[t] = IF t = s THEN v ELSE opener[t]
      BY <2>2 DEF StreamTypes
    <2>4. \A y \in Sides : \A r \in reqs[y] : Pending(y, r)'
      BY <1>0, <2>1, <2>3 DEF Pending
    <2>5. \A y \in Sides : (\A r \in reqs'[y] : Pending(y, r)') /\ (gaveUp(y)' => reqs'[y] = {})
      <3>1. CASE die["server"]
        <4>1. reqs' = reqs
          BY <1>1, <3>1 DEF OpenStream
        <4> QED
          BY <2>1, <2>4, <4>1 DEF Orderly, gaveUp
      <3>2. CASE ~die["server"]
        <4>1. opener' = [opener EXCEPT ![s] = "syn"] /\ request("server", 0, "SYN", s, 0)
          BY <1>1, <3>2 DEF OpenStream
        <4>2. opener'[s] = "syn"
          BY <4>1 DEF StreamTypes
        <4>3. \A r : r = [prio |-> 0, frame |-> [cmd |-> "SYN", sid |-> s, num |-> 0]] => Pending("server", r)'
          BY <4>2 DEF Pending
        <4> QED
          BY <2>1, <2>4, <4>1, <4>3, RequestOrderly, Constants
      <3> QED
        BY <3>1, <3>2
    <2> QED
      BY <2>1, <2>2, <2>3, <2>5 DEF Orderly
  <1>2. CASE Write(x, s)
    <2>1. /\ writer[x][s] = "idle" /\ UNCHANGED <<sendErr, die, opener, closer, dead, reader, taken>>
          /\ request(x, numWritten[x][s], "PSH", s, numWritten[x][s] + 1)
          /\ writer' = of(writer, x, s, "sending")
          /\ numWritten' = of(numWritten, x, s, numWritten[x][s] + 1)
      BY <1>2 DEF Write, linkVars, streamVars, closeVars, readVars
    <2>2. numWritten[x][s] \in Nat
      BY DEF StreamTypes
    <2>3. \A y \in Sides, t \in Streams :
            /\ writer'[y][t] = IF y = x /\ t = s THEN "sending" ELSE writer[y][t]
            /\ numWritten'[y][t] = IF y = x /\ t = s THEN numWritten[x][s] + 1 ELSE numWritten[y][t]
      BY <2>1 DEF of, StreamTypes
    <2>4. \A y \in Sides : \A r \in reqs[y] : Pending(y, r)'
      BY <1>0, <2>1, <2>3 DEF Pending
    <2>5. ASSUME NEW r, r = [prio |-> numWritten[x][s], frame |-> [cmd |-> "PSH", sid |-> s, num |-> numWritten[x][s] + 1]]
          PROVE  Pending(x, r)'
      <3>1. writer'[x][s] = "sending" /\ numWritten'[x][s] = numWritten[x][s] + 1
        BY <2>3
      <3> QED
        BY <2>2, <2>5, <3>1 DEF Pending
    <2>6. \A y \in Sides : (\A r \in reqs'[y] : Pending(y, r)') /\ (gaveUp(y)' => reqs'[y] = {})
      BY <2>1, <2>2, <2>4, <2>5, RequestOrderly
    <2>7. \A y \in Sides, t \in Streams : writer'[y][t] # "idle" => numWritten'[y][t] > 0
      BY <2>2, <2>3 DEF Orderly
    <2> QED
      BY <2>1, <2>6, <2>7 DEF Orderly
  <1>3. CASE CloseBegins(x, s)
    <2>1. /\ ~dead[x][s] /\ UNCHANGED <<sendErr, die, opener, writer, numWritten, reader, taken>>
          /\ request(x, 0, "FIN", s, 0) /\ closer' = of(closer, x, s, "fin") /\ dead' = of(dead, x, s, TRUE)
      BY <1>3 DEF CloseBegins, linkVars, writeVars, readVars
    <2>2. closer[x][s] = "no"
      BY <2>1 DEF Orderly
    <2>3. \A y \in Sides, t \in Streams :
            /\ closer'[y][t] = IF y = x /\ t = s THEN "fin" ELSE closer[y][t]
            /\ dead'[y][t] = IF y = x /\ t = s THEN TRUE ELSE dead[y][t]
      BY <2>1 DEF of, StreamTypes
    <2>4. ASSUME NEW y \in Sides, NEW r \in reqs[y] PROVE Pending(y, r)'
      <3>1. r.frame.sid \in Streams /\ Pending(y, r)
        BY <1>0
      <3>2. r.frame.cmd = "FIN" => closer[y][r.frame.sid] = "fin"
        BY <3>1 DEF Pending
      <3>3. r.frame.cmd = "FIN" => closer'[y][r.frame.sid] = "fin"
        BY <2>2, <2>3, <3>1, <3>2
      <3> QED
        BY <2>1, <3>1, <3>3 DEF Pending
    <2>5. \A r : r = [prio |-> 0, frame |-> [cmd |-> "FIN", sid |-> s, num |-> 0]] => Pending(x, r)'
      <3>1. closer'[x][s] = "fin"
        BY <2>3
      <3> QED
        BY <3>1 DEF Pending
    <2>6. \A y \in Sides : (\A r \in reqs'[y] : Pending(y, r)') /\ (gaveUp(y)' => reqs'[y] = {})
      BY <2>1, <2>4, <2>5, RequestOrderly
    <2>7. \A y \in Sides, t \in Streams : closer'[y][t] # "no" => dead'[y][t]
      <3> SUFFICES ASSUME NEW y \in Sides, NEW t \in Streams, closer'[y][t] # "no" PROVE dead'[y][t]
        OBVIOUS
      <3>1. CASE y = x /\ t = s
        BY <2>3, <3>1
      <3>2. CASE ~(y = x /\ t = s)
        <4>1. closer[y][t] # "no" /\ dead'[y][t] = dead[y][t]
          BY <2>3, <3>2
        <4> QED
          BY <4>1 DEF Orderly
      <3> QED
        BY <3>1, <3>2
    <2> QED
      BY <2>1, <2>6, <2>7 DEF Orderly
  <1> QED
    BY <1>1, <1>2, <1>3

LEMMA EndOrderly ==
  ASSUME SessionInv, NEW x \in Sides, NEW s \in Streams, Register(s) \/ GiveUp(x, s)
  PROVE  Orderly'
  <1> USE DEF SessionInv
  <1>0. ASSUME NEW y \in Sides, NEW r \in reqs[y] PROVE r.frame.sid \in Streams /\ Pending(y, r)
    BY DEF SessionTypes, Request, Frame, Orderly
  <1>1. CASE Register(s)
    <2>1. /\ opener[s] = "sent"
          /\ UNCHANGED <<reqs, sendErr, die, writer, numWritten, closer, dead, taken>>
      BY <1>1 DEF Register, sendVars, linkVars, streamVars, writeVars, closeVars
    <2>2. \/ opener' = [opener EXCEPT ![s] = "failed"] /\ reader' = reader
          \/ opener' = [opener EXCEPT ![s] = "open"] /\ reader' = of(reader, "server", s, "try")
      BY <1>1 DEF Register
    <2>3. \A t \in Streams : opener'[t] = opener[t] \/ t = s
      BY <2>2 DEF StreamTypes
    <2>4. ASSUME NEW y \in Sides, NEW r \in reqs'[y] PROVE Pending(y, r)'
      BY <1>0, <2>1, <2>3, <2>4 DEF Pending
    <2>5. ASSUME NEW y \in Sides, gaveUp(y)' PROVE reqs'[y] = {}
      BY <2>1, <2>5 DEF gaveUp, Orderly
    <2>6. CASE opener' = [opener EXCEPT ![s] = "failed"] /\ reader' = reader
      <3>1. \A t \in Streams : opener'[t] # "open" => opener[t] # "open"
        BY <2>1, <2>6 DEF StreamTypes
      <3> QED
        BY <2>1, <2>4, <2>5, <2>6, <3>1 DEF Orderly
    <2>7. CASE opener' = [opener EXCEPT ![s] = "open"] /\ reader' = of(reader, "server", s, "try")
      <3>1. \A y \in Sides, t \in Streams : reader'[y][t] = IF y = "server" /\ t = s THEN "try" ELSE reader[y][t]
        BY <2>7, Constants DEF of, StreamTypes
      <3>2. \A t \in Streams : opener'[t] = IF t = s THEN "open" ELSE opener[t]
        BY <2>7 DEF StreamTypes
      <3>3. taken["server"][s] = 0
        BY <2>1, Constants DEF Orderly
      <3>4. \A y \in Sides, t \in Streams : reader'[y][t] # "return" => taken'[y][t] = 0
        BY <2>1, <3>1, <3>3 DEF Orderly
      <3>5. \A t \in Streams : /\ opener'[t] # "open" => reader'["server"][t] = "no"
                               /\ reader'["page"][t] # "return"
        BY <3>1, <3>2, Constants DEF Orderly
      <3> QED
        BY <2>1, <2>4, <2>5, <3>4, <3>5 DEF Orderly
    <2> QED
      BY <2>2, <2>6, <2>7
  <1>2. CASE GiveUp(x, s)
    <2>1. gaveUp(x) /\ UNCHANGED <<reqs, sendErr, die, numWritten, dead, reader, taken>>
      BY <1>2 DEF GiveUp, sendVars, linkVars, streamVars, readVars
    <2>2. reqs[x] = {}
      BY <2>1 DEF Orderly
    <2>3. \/ /\ x = "server" /\ opener[s] = "syn" /\ opener' = [opener EXCEPT ![s] = "failed"]
             /\ UNCHANGED <<writer, closer>>
          \/ /\ writer[x][s] = "sending" /\ writer' = of(writer, x, s, "err") /\ UNCHANGED <<opener, closer>>
          \/ /\ closer[x][s] = "fin" /\ closer' = of(closer, x, s, "sent") /\ UNCHANGED <<opener, writer>>
      BY <1>2 DEF GiveUp
    <2>4. /\ \A t \in Streams : opener'[t] = opener[t] \/ (x = "server" /\ opener[t] = "syn" /\ opener'[t] = "failed")
          /\ \A y \in Sides, t \in Streams : writer'[y][t] = writer[y][t] \/ (y = x /\ writer[y][t] = "sending")
          /\ \A y \in Sides, t \in Streams : closer'[y][t] = closer[y][t] \/ (y = x /\ closer[y][t] = "fin")
      <3>1. \A y \in Sides, t \in Streams : of(writer, x, s, "err")[y][t] = IF y = x /\ t = s THEN "err" ELSE writer[y][t]
        BY DEF StreamTypes, of
      <3>2. \A y \in Sides, t \in Streams : of(closer, x, s, "sent")[y][t] = IF y = x /\ t = s THEN "sent" ELSE closer[y][t]
        BY DEF StreamTypes, of
      <3>3. \A t \in Streams : [opener EXCEPT ![s] = "failed"][t] = IF t = s THEN "failed" ELSE opener[t]
        BY DEF StreamTypes
      <3>4. CASE x = "server" /\ opener[s] = "syn" /\ opener' = [opener EXCEPT ![s] = "failed"] /\ UNCHANGED <<writer, closer>>
        BY <3>3, <3>4
      <3>5. CASE writer[x][s] = "sending" /\ writer' = of(writer, x, s, "err") /\ UNCHANGED <<opener, closer>>
        BY <3>1, <3>5
      <3>6. CASE closer[x][s] = "fin" /\ closer' = of(closer, x, s, "sent") /\ UNCHANGED <<opener, writer>>
        BY <3>2, <3>6
      <3> QED
        BY <2>3, <3>4, <3>5, <3>6
    <2>5. ASSUME NEW y \in Sides, NEW r \in reqs'[y] PROVE Pending(y, r)'
      <3>1. y # x /\ r.frame.sid \in Streams /\ Pending(y, r)
        BY <1>0, <2>1, <2>2, <2>5
      <3>2. x = "server" => r.frame.cmd # "SYN"
        BY <3>1 DEF Pending
      <3> QED
        BY <2>1, <2>4, <3>1, <3>2 DEF Pending
    <2>6. ASSUME NEW y \in Sides, gaveUp(y)' PROVE reqs'[y] = {}
      BY <2>1, <2>6 DEF gaveUp, Orderly
    <2>7. ASSUME NEW y \in Sides, NEW t \in Streams
          PROVE  /\ writer'[y][t] # "idle" => numWritten'[y][t] > 0
                 /\ closer'[y][t] # "no" => dead'[y][t]
                 /\ reader'[y][t] # "return" => taken'[y][t] = 0
      BY <2>1, <2>4 DEF Orderly
    <2>8. ASSUME NEW t \in Streams
          PROVE  /\ opener'[t] # "open" => reader'["server"][t] = "no"
                 /\ reader'["page"][t] # "return"
      BY <2>1, <2>4 DEF Orderly
    <2> QED
      BY <2>5, <2>6, <2>7, <2>8 DEF Orderly
  <1> QED
    BY <1>1, <1>2

LEMMA KeepaliveOrderly ==
  ASSUME SessionInv, NEW x \in Sides, keepalive(x) \/ sessionClose(x)
  PROVE  Orderly'
  <1> USE DEF SessionInv
  <1>1. UNCHANGED <<sendErr, opener, writer, numWritten, closer, reader, taken>>
    BY DEF keepalive, sessionClose, sendVars, linkVars, writeVars, closeVars, readVars
  <1>2. \A y \in Sides : reqs'[y] = reqs[y] \/ (y = x /\ reqs'[y] = {})
    BY DEF keepalive, sessionClose, sendVars, linkVars, SessionTypes
  <1>3. \A y \in Sides : die'[y] = die[y] \/ reqs'[y] = {}
    BY DEF keepalive, sessionClose, sendVars, linkVars, SessionTypes
  <1>4. \A y \in Sides, t \in Streams : dead[y][t] => dead'[y][t]
    <2>1. CASE keepalive(x)
      BY <2>1 DEF keepalive, streamVars
    <2>2. CASE sessionClose(x)
      BY <2>2 DEF sessionClose, StreamTypes
    <2> QED
      BY <2>1, <2>2
  <1>5. ASSUME NEW y \in Sides, NEW r \in reqs'[y] PROVE Pending(y, r)'
    <2>1. r \in reqs[y]
      BY <1>2, <1>5
    <2>2. r.frame.sid \in Streams /\ Pending(y, r)
      BY <2>1 DEF SessionTypes, Request, Frame, Orderly
    <2> QED
      BY <1>1, <2>2 DEF Pending
  <1>6. ASSUME NEW y \in Sides, gaveUp(y)' PROVE reqs'[y] = {}
    BY <1>1, <1>2, <1>3, <1>6 DEF gaveUp, Orderly
  <1> QED
    BY <1>1, <1>4, <1>5, <1>6 DEF Orderly

LEMMA VanishOrderly ==
  ASSUME SessionInv, NEW x \in Sides, Vanish(x)
  PROVE  Orderly'
  <1> USE DEF SessionInv
  <1>0. Vanished(x)
    BY VanishIs
  <1>1. \A y \in Sides, t \in Streams :
          /\ writer'[y][t] = IF y = x THEN "idle" ELSE writer[y][t]
          /\ numWritten'[y][t] = IF y = x THEN 0 ELSE numWritten[y][t]
          /\ closer'[y][t] = IF y = x THEN "no" ELSE closer[y][t]
    BY <1>0 DEF Vanished, StreamTypes
  <1>2. \A y \in Sides, t \in Streams :
          /\ dead'[y][t] = IF y = x THEN FALSE ELSE dead[y][t]
          /\ reader'[y][t] = IF y = x THEN "no" ELSE reader[y][t]
          /\ taken'[y][t] = IF y = x THEN 0 ELSE taken[y][t]
    BY <1>0 DEF Vanished, StreamTypes
  <1>3. \A y \in Sides : reqs'[y] = IF y = x THEN {} ELSE reqs[y]
    BY <1>0 DEF Vanished, SessionTypes
  <1>4. ASSUME NEW y \in Sides, NEW r \in reqs'[y] PROVE Pending(y, r)'
    <2>1. y # x /\ r \in reqs[y]
      BY <1>3, <1>4
    <2>2. r.frame.sid \in Streams /\ Pending(y, r)
      BY <2>1 DEF SessionTypes, Request, Frame, Orderly
    <2>3. r.frame.cmd = "SYN" => x # "server" /\ opener' = opener
      BY <1>0, <2>1, <2>2 DEF Pending, Vanished
    <2> QED
      BY <1>1, <2>1, <2>2, <2>3 DEF Pending
  <1>5. ASSUME NEW y \in Sides, gaveUp(y)' PROVE reqs'[y] = {}
    BY <1>0, <1>3, <1>5 DEF Vanished, gaveUp, Orderly
  <1>6. ASSUME NEW y \in Sides, NEW t \in Streams
        PROVE  /\ writer'[y][t] # "idle" => numWritten'[y][t] > 0
               /\ closer'[y][t] # "no" => dead'[y][t]
               /\ reader'[y][t] # "return" => taken'[y][t] = 0
    <2>1. CASE y = x
      BY <1>1, <1>2, <2>1
    <2>2. CASE y # x
      <3>1. /\ writer'[y][t] = writer[y][t] /\ numWritten'[y][t] = numWritten[y][t]
            /\ closer'[y][t] = closer[y][t] /\ dead'[y][t] = dead[y][t]
            /\ reader'[y][t] = reader[y][t] /\ taken'[y][t] = taken[y][t]
        BY <1>1, <1>2, <2>2
      <3> QED
        BY <3>1 DEF Orderly
    <2> QED
      BY <2>1, <2>2
  <1>7. ASSUME NEW t \in Streams
        PROVE  /\ opener'[t] # "open" => reader'["server"][t] = "no"
               /\ reader'["page"][t] # "return"
    <2>1. x = "server" \/ opener' = opener
      BY <1>0 DEF Vanished
    <2>2. reader'["page"][t] \in {"no", reader["page"][t]} /\ reader'["server"][t] \in {"no", reader["server"][t]}
      BY <1>2, Constants
    <2>3. x = "server" => reader'["server"][t] = "no"
      BY <1>2, Constants
    <2> QED
      BY <2>1, <2>2, <2>3 DEF Orderly
  <1> QED
    BY <1>4, <1>5, <1>6, <1>7 DEF Orderly

LEMMA SessionInvariant == Spec => []SessionInv
  <1>1. Init => SessionInv
    BY InitTypes, InitOrderly DEF SessionInv
  <1>2. SessionInv /\ [Next]_vars => SessionInv'
    <2> SUFFICES ASSUME SessionInv, [Next]_vars PROVE SessionInv'
      OBVIOUS
    <2>1. SessionTypes' /\ StreamTypes'
      BY StepTypes
    <2>2. ASSUME NEW x \in Sides, sendLoop(x) \/ recvLoop(x) \/ AcceptStream \/ keepalive(x) \/ sessionClose(x) \/ Vanish(x)
          PROVE  Orderly'
      BY <2>2, SendOrderly, RecvOrderly, KeepaliveOrderly, VanishOrderly
    <2>3. ASSUME NEW x \in Sides, NEW s \in Streams,
                 Write(x, s) \/ CloseBegins(x, s) \/ GiveUp(x, s) \/ streamClosed(x, s) \/ Reads(x, s)
                 \/ OpenStream(s) \/ Register(s)
          PROVE  Orderly'
      BY <2>3, QuietOrderly, StartOrderly, EndOrderly
    <2>7. CASE UNCHANGED vars
      <3>1. UNCHANGED <<reqs, sendErr, die, opener, writer, numWritten, dead, closer, reader, taken>>
        BY <2>7 DEF vars, sendVars, linkVars, streamVars, writeVars, closeVars, readVars
      <3>2. Orderly
        BY DEF SessionInv
      <3>3. \A x \in Sides, s \in Streams :
              /\ closer'[x][s] = closer[x][s] \/ (closer[x][s] = "sent" /\ closer'[x][s] = "done")
              /\ reader'[x][s] # "return" => taken'[x][s] = 0
        BY <3>1, <3>2 DEF Orderly
      <3>4. \A s \in Streams :
              /\ reader'["server"][s] = reader["server"][s] \/ opener[s] = "open" \/ reader'["server"][s] = "no"
              /\ reader'["page"][s] # "return"
        BY <3>1, <3>2 DEF Orderly
      <3> QED
        BY <2>1, <3>1, <3>3, <3>4, OrderlyKept DEF SessionInv
    <2> QED
      BY <2>1, <2>2, <2>3, <2>7, Constants DEF Next, SessionInv
  <1> QED
    BY <1>1, <1>2, PTL DEF Spec

\* The variables of the forwarder's and the page's sessions have their types:
\* in particular a buffer is never empty, so Read returns data when it returns
\* (stream.go tryRead), and what Close promises is a count of frames.
THEOREM TypeCorrect == Spec => []TypeOK
  <1>1. SessionInv => TypeOK
    BY TypesAre DEF SessionInv
  <1> QED
    BY <1>1, SessionInvariant, PTL

-----------------------------------------------------------------------------
(* Wake-ups *)

LoopsAwake ==
  \A x \in Sides : recv[x] = "wait" /\ bucket[x] > 0 => bucketNotify[x] \/ die[x]

ReadersAwake ==
  \A x \in Sides, s \in Streams :
    reader[x][s] = "wait" /\ buffers[x][s] # <<>> =>
      event[x][s] \/ fin[x][s] \/ (~streamLockFree(x) /\ hand[x].sid = s)

LEMMA AwakeIs == NoLostWakeup <=> LoopsAwake /\ ReadersAwake
  BY DEF NoLostWakeup, LoopsAwake, ReadersAwake

\* Tokens that are returned come with a notice.
LEMMA ReturnWakes ==
  ASSUME SessionInv, LoopsAwake, NEW x \in Sides, NEW n \in Int, return(x, n), UNCHANGED <<recv, die>>
  PROVE  LoopsAwake'
  <1>1. /\ \A y \in Sides : y # x => bucket'[y] = bucket[y] /\ bucketNotify'[y] = bucketNotify[y]
        /\ bucketNotify'[x] = (bucketNotify[x] \/ bucket'[x] > 0)
    BY DEF SessionInv, SessionTypes, return, AddInt32
  <1> QED
    BY <1>1 DEF LoopsAwake

\* Steps that touch neither tokens nor data.
LEMMA QuietLoops ==
  ASSUME LoopsAwake, UNCHANGED <<recv, bucket, bucketNotify>>, \A y \in Sides : die[y] => die'[y]
  PROVE  LoopsAwake'
  BY DEF LoopsAwake

LEMMA QuietReaders ==
  ASSUME ReadersAwake, UNCHANGED <<recv, hand>>,
         \A y \in Sides, t \in Streams :
           /\ event[y][t] => event'[y][t]
           /\ fin[y][t] => fin'[y][t]
           /\ reader'[y][t] = "wait" /\ buffers'[y][t] # <<>> => reader[y][t] = "wait" /\ buffers[y][t] # <<>>
  PROVE  ReadersAwake'
  BY DEF ReadersAwake, streamLockFree

LEMMA SendWakes ==
  ASSUME SessionInv, LoopsAwake, ReadersAwake, NEW x \in Sides, NEW s,
         \/ sendLoop(x) \/ keepalive(x) \/ sessionClose(x) \/ AcceptStream \/ Write(x, s) \/ CloseBegins(x, s) \/ GiveUp(x, s)
         \/ OpenStream(s) \/ (s \in Streams /\ Register(s)) \/ UNCHANGED vars
  PROVE  LoopsAwake' /\ ReadersAwake'
  <1>1. UNCHANGED <<recv, hand, bucket, bucketNotify, buffers, event, fin>>
    BY DEF sendLoop, keepalive, sessionClose, AcceptStream, Write, CloseBegins, GiveUp, OpenStream, Register, vars,
           recvVars, tokenVars, streamVars
  <1>2. \A y \in Sides : die[y] => die'[y]
    <2>1. die' = die \/ die' = [die EXCEPT ![x] = TRUE]
      BY DEF sendLoop, keepalive, sessionClose, AcceptStream, Write, CloseBegins, GiveUp, OpenStream, Register, vars, linkVars
    <2> QED
      BY <2>1 DEF SessionInv, SessionTypes
  <1>3. \A y \in Sides, t \in Streams : reader'[y][t] = "wait" => reader[y][t] = "wait"
    <2>1. reader' = reader \/ \E y \in Sides, t \in Streams : reader' = of(reader, y, t, "try")
      <3>1. CASE AcceptStream
        <4>1. Head(accepts) \in Streams
          BY <3>1 DEF AcceptStream, SessionInv, SessionTypes
        <4> QED
          BY <3>1, <4>1, Constants DEF AcceptStream
      <3>2. CASE s \in Streams /\ Register(s)
        BY <3>2, Constants DEF Register
      <3> QED
        BY <3>1, <3>2 DEF sendLoop, keepalive, sessionClose, Write, CloseBegins, GiveUp, OpenStream, vars, readVars
    <2>2. ASSUME NEW y \in Sides, NEW t \in Streams, reader' = of(reader, y, t, "try")
          PROVE  \A z \in Sides, u \in Streams : reader'[z][u] = IF z = y /\ u = t THEN "try" ELSE reader[z][u]
      BY <2>2 DEF of, SessionInv, StreamTypes
    <2> QED
      BY <2>1, <2>2
  <1> QED
    BY <1>1, <1>2, <1>3, QuietLoops, QuietReaders

LEMMA RecvWakes ==
  ASSUME SessionInv, LoopsAwake, ReadersAwake, NEW x \in Sides, recvSleep(x) \/ recvWait(x) \/ recvError(x)
  PROVE  LoopsAwake' /\ ReadersAwake'
  <1>1. UNCHANGED <<hand, bucket, buffers, event, fin, reader, die>>
    BY DEF recvSleep, recvWait, recvError, tokenVars, streamVars, others, readVars, linkVars
  <1>2. PICK l \in {"loop", "wait", "done"} : recv' = [recv EXCEPT ![x] = l]
    BY DEF recvSleep, recvWait, recvError, goto
  <1>3. \A y \in Sides : recv'[y] = IF y = x THEN l ELSE recv[y]
    BY <1>2 DEF SessionInv, SessionTypes
  <1>4. l = "wait" => bucket[x] <= 0
    BY <1>3 DEF recvSleep, recvWait, recvError, goto, mayRead, SessionInv, SessionTypes
  <1>5. \A y \in Sides : y # x => bucketNotify'[y] = bucketNotify[y]
    BY DEF recvSleep, recvWait, recvError, tokenVars, SessionInv, SessionTypes
  <1>6. LoopsAwake'
    <2> SUFFICES ASSUME NEW y \in Sides, recv'[y] = "wait", bucket'[y] > 0 PROVE bucketNotify'[y] \/ die'[y]
      BY DEF LoopsAwake
    <2>1. bucket[x] \in Int
      BY DEF SessionInv, SessionTypes
    <2>2. y # x
      BY <1>1, <1>3, <1>4, <2>1
    <2> QED
      BY <1>1, <1>3, <1>5, <2>2 DEF LoopsAwake
  <1>7. recv[x] # "store"
    BY DEF recvSleep, recvWait, recvError
  <1>8. ReadersAwake'
    BY <1>1, <1>3, <1>7 DEF ReadersAwake, streamLockFree
  <1> QED
    BY <1>6, <1>8

LEMMA StoreWakes ==
  ASSUME SessionInv, LoopsAwake, ReadersAwake, NEW x \in Sides, recvStore(x)
  PROVE  LoopsAwake' /\ ReadersAwake'
  <1>1. UNCHANGED <<bucketNotify, buffers, fin, reader, die>> /\ recv[x] = "store"
    BY DEF recvStore, others, readVars, linkVars
  <1>2. \A y \in Sides : /\ recv'[y] = IF y = x THEN "loop" ELSE recv[y]
                         /\ y # x => bucket'[y] = bucket[y] /\ hand'[y] = hand[y]
    BY DEF recvStore, goto, SessionInv, SessionTypes
  <1>3. hand[x].sid \in Streams
    BY <1>1 DEF SessionInv, SessionTypes, streamLockFree, Frame
  <1>4. \A y \in Sides, t \in Streams : event'[y][t] = IF y = x /\ t = hand[x].sid THEN TRUE ELSE event[y][t]
    BY <1>3 DEF recvStore, of, SessionInv, StreamTypes
  <1>5. LoopsAwake'
    BY <1>1, <1>2 DEF LoopsAwake
  <1>6. ReadersAwake'
    <2> SUFFICES ASSUME NEW y \in Sides, NEW t \in Streams, reader'[y][t] = "wait", buffers'[y][t] # <<>>
                 PROVE  event'[y][t] \/ fin'[y][t] \/ (recv'[y] = "store" /\ hand'[y].sid = t)
      BY DEF ReadersAwake, streamLockFree
    <2>1. event[y][t] \/ fin[y][t] \/ (recv[y] = "store" /\ hand[y].sid = t)
      BY <1>1 DEF ReadersAwake, streamLockFree
    <2> QED
      BY <1>1, <1>2, <1>4, <2>1
  <1> QED
    BY <1>5, <1>6

LEMMA FrameWakes ==
  ASSUME SessionInv, LoopsAwake, ReadersAwake, NEW x \in Sides, recvFrame(x)
  PROVE  LoopsAwake' /\ ReadersAwake'
  <1> DEFINE f == Head(wire[peer(x)])
  <1>1. /\ recv[x] = "loop" /\ UNCHANGED <<reader, die, bucketNotify>>
        /\ \/ recvSyn(x, f)
           \/ recvFin(x, f)
           \/ recvPsh(x, f)
    BY DEF recvFrame, others, linkVars, readVars
  <1>2. f.sid \in Streams
    <2>1. wire[peer(x)] # <<>> /\ wire' = [wire EXCEPT ![peer(x)] = Tail(@)]
      BY DEF recvFrame
    <2> QED
      BY <2>1, HeadTypes DEF SessionInv, Frame
  <1> HIDE DEF f
  <1>5. \A y \in Sides, t \in Streams : /\ event[y][t] => of(event, x, f.sid, TRUE)[y][t]
                                        /\ fin[y][t] => of(fin, x, f.sid, TRUE)[y][t]
    BY <1>2 DEF of, SessionInv, StreamTypes
  <1>6. ASSUME NEW v PROVE \A y \in Sides, t \in Streams :
          of(buffers, x, f.sid, v)[y][t] = IF y = x /\ t = f.sid THEN v ELSE buffers[y][t]
    BY <1>2 DEF of, SessionInv, StreamTypes
  <1>3. CASE recvSyn(x, f) \/ recvFin(x, f)
    <2>1. UNCHANGED <<bucket, hand, buffers>>
      BY <1>3 DEF recvSyn, recvFin
    <2>2. \A y \in Sides : recv'[y] = IF y = x THEN "loop" ELSE recv[y]
      BY <1>3 DEF recvSyn, recvFin, goto, SessionInv, SessionTypes
    <2>3. \A y \in Sides, t \in Streams : (event[y][t] => event'[y][t]) /\ (fin[y][t] => fin'[y][t])
      <3>1. (event' = event /\ fin' = fin) \/ (event' = of(event, x, f.sid, TRUE) /\ fin' = of(fin, x, f.sid, TRUE))
        BY <1>3 DEF recvSyn, recvFin
      <3> QED
        BY <1>5, <3>1
    <2>4. LoopsAwake'
      BY <1>1, <2>1, <2>2 DEF LoopsAwake
    <2>5. ReadersAwake'
      BY <1>1, <2>1, <2>2, <2>3 DEF ReadersAwake, streamLockFree
    <2> QED
      BY <2>4, <2>5
  <1>4. CASE recvPsh(x, f)
    <2>1. PICK l \in {"loop", "store"} : \A y \in Sides : recv'[y] = IF y = x THEN l ELSE recv[y]
      BY <1>4 DEF recvPsh, goto, SessionInv, SessionTypes
    <2>2. fin' = fin /\ \A y \in Sides : y # x => bucket'[y] = bucket[y] /\ hand'[y] = hand[y]
      BY <1>4 DEF recvPsh, SessionInv, SessionTypes
    <2>3. LoopsAwake'
      BY <1>1, <2>1, <2>2 DEF LoopsAwake
    <2>4. \A y \in Sides, t \in Streams :
            /\ event[y][t] => event'[y][t]
            /\ buffers'[y][t] = buffers[y][t] \/ (y = x /\ t = f.sid)
      <3>1. event' = event \/ event' = of(event, x, f.sid, TRUE)
        BY <1>4 DEF recvPsh
      <3>2. buffers' = buffers \/ \E v : buffers' = of(buffers, x, f.sid, v)
        BY <1>4 DEF recvPsh
      <3>3. \A y \in Sides, t \in Streams : event[y][t] => event'[y][t]
        BY <1>5, <3>1
      <3>4. \A y \in Sides, t \in Streams : buffers'[y][t] = buffers[y][t] \/ (y = x /\ t = f.sid)
        BY <1>6, <3>2
      <3> QED
        BY <3>3, <3>4
    <2>5. buffers' = buffers \/ event'[x][f.sid] \/ (recv'[x] = "store" /\ hand'[x].sid = f.sid)
      <3>1. CASE x = "page"
        BY <1>2, <1>4, <3>1 DEF recvPsh, of, SessionInv, StreamTypes
      <3>2. CASE x # "page"
        BY <1>4, <3>2 DEF recvPsh, goto, SessionInv, SessionTypes
      <3> QED
        BY <3>1, <3>2
    <2>6. ReadersAwake'
      <3> SUFFICES ASSUME NEW y \in Sides, NEW t \in Streams, reader'[y][t] = "wait", buffers'[y][t] # <<>>
                   PROVE  event'[y][t] \/ fin'[y][t] \/ (recv'[y] = "store" /\ hand'[y].sid = t)
        BY DEF ReadersAwake, streamLockFree
      <3>1. CASE y = x /\ t = f.sid /\ buffers' # buffers
        BY <2>5, <3>1
      <3>2. CASE buffers'[y][t] = buffers[y][t]
        <4>1. event[y][t] \/ fin[y][t] \/ (recv[y] = "store" /\ hand[y].sid = t)
          BY <1>1, <3>2 DEF ReadersAwake, streamLockFree
        <4> QED
          BY <1>1, <2>1, <2>2, <2>4, <4>1
      <3> QED
        BY <2>4, <3>1, <3>2
    <2> QED
      BY <2>3, <2>6
  <1> QED
    BY <1>1, <1>3, <1>4

LEMMA ReadWakes ==
  ASSUME SessionInv, LoopsAwake, ReadersAwake, NEW x \in Sides, NEW s \in Streams, streamClosed(x, s) \/ Reads(x, s)
  PROVE  LoopsAwake' /\ ReadersAwake'
  <1>0. /\ \A v : \A y \in Sides, t \in Streams : of(buffers, x, s, v)[y][t] = IF y = x /\ t = s THEN v ELSE buffers[y][t]
        /\ \A v : \A y \in Sides, t \in Streams : of(reader, x, s, v)[y][t] = IF y = x /\ t = s THEN v ELSE reader[y][t]
        /\ \A y \in Sides, t \in Streams : event[y][t] => of(event, x, s, FALSE)[y][t] \/ (y = x /\ t = s)
    BY DEF of, SessionInv, StreamTypes
  <1>1. CASE streamClosed(x, s)
    <2>1. UNCHANGED <<recv, hand, die, event, fin, reader>> /\ buffers' = of(buffers, x, s, <<>>)
      BY <1>1 DEF streamClosed, recvVars, linkVars, readVars
    <2>2. LoopsAwake'
      <3>1. return(x, Units(x, s)) \/ UNCHANGED <<bucket, bucketNotify>>
        BY <1>1 DEF streamClosed, tokenVars
      <3>2. Units(x, s) \in Int
        BY UnitsType DEF SessionInv
      <3> QED
        BY <2>1, <3>1, <3>2, ReturnWakes, QuietLoops
    <2> QED
      BY <1>0, <2>1, <2>2, QuietReaders
  <1>2. CASE Take(x, s)
    <2>1. PICK k \in Nat \ {0} :
             /\ \/ return(x, k) /\ UNCHANGED <<taken, reader>>
                \/ reader' = of(reader, x, s, "return") /\ UNCHANGED <<bucket, bucketNotify>>
             /\ \E b : buffers' = of(buffers, x, s, b)
      BY <1>2, TakeIs DEF SessionInv
    <2>2. UNCHANGED <<recv, hand, die, event, fin>> /\ reader[x][s] = "try"
      BY <1>2 DEF Take, recvVars, linkVars
    <2>3. LoopsAwake'
      BY <2>1, <2>2, ReturnWakes, QuietLoops
    <2>4. \A y \in Sides, t \in Streams :
            /\ reader'[y][t] = "wait" => reader[y][t] = "wait"
            /\ reader[y][t] = "wait" => buffers'[y][t] = buffers[y][t]
      BY <1>0, <2>1, <2>2
    <2> QED
      BY <2>2, <2>3, <2>4, QuietReaders
  <1>3. CASE returnTokens(x, s)
    <2>1. /\ UNCHANGED <<recv, hand, die, event, fin, buffers>> /\ reader' = of(reader, x, s, "try")
          /\ return(x, taken[x][s])
      BY <1>3 DEF returnTokens, recvVars, linkVars, streamVars
    <2>2. taken[x][s] \in Int
      BY DEF SessionInv, StreamTypes
    <2>3. LoopsAwake'
      BY <2>1, <2>2, ReturnWakes
    <2> QED
      BY <1>0, <2>1, <2>3, QuietReaders
  <1>4. CASE TakeNothing(x, s)
    <2>1. /\ UNCHANGED <<recv, hand, die, event, fin, buffers, bucket, bucketNotify>> /\ buffers[x][s] = <<>>
          /\ \E v : reader' = of(reader, x, s, v)
      BY <1>4 DEF TakeNothing, recvVars, linkVars, streamVars, tokenVars
    <2>2. LoopsAwake'
      BY <2>1, QuietLoops
    <2> QED
      BY <1>0, <2>1, <2>2, QuietReaders
  <1>5. CASE waitRead(x, s)
    <2>1. /\ UNCHANGED <<recv, hand, die, fin, buffers, bucket, bucketNotify>>
          /\ \E v : v # "wait" /\ reader' = of(reader, x, s, v)
          /\ event' = event \/ event' = of(event, x, s, FALSE)
      BY <1>5 DEF waitRead, recvVars, linkVars, tokenVars, finSeen
    <2>2. LoopsAwake'
      BY <2>1, QuietLoops
    <2>3. ReadersAwake'
      <3> SUFFICES ASSUME NEW y \in Sides, NEW t \in Streams, reader'[y][t] = "wait", buffers'[y][t] # <<>>
                   PROVE  event'[y][t] \/ fin'[y][t] \/ (recv'[y] = "store" /\ hand'[y].sid = t)
        BY DEF ReadersAwake, streamLockFree
      <3>1. ~(y = x /\ t = s) /\ reader[y][t] = "wait"
        BY <1>0, <2>1
      <3>2. event[y][t] => event'[y][t]
        <4>1. CASE event' = of(event, x, s, FALSE)
          BY <1>0, <3>1, <4>1
        <4> QED
          BY <2>1, <4>1
      <3> QED
        BY <2>1, <3>1, <3>2 DEF ReadersAwake, streamLockFree
    <2> QED
      BY <2>2, <2>3
  <1> QED
    BY <1>1, <1>2, <1>3, <1>4, <1>5 DEF Reads

LEMMA VanishWakes ==
  ASSUME SessionInv, LoopsAwake, ReadersAwake, NEW x \in Sides, Vanish(x)
  PROVE  LoopsAwake' /\ ReadersAwake'
  <1>0. Vanished(x)
    BY VanishIs
  <1>1. \A y \in Sides : /\ recv'[y] = IF y = x THEN "loop" ELSE recv[y]
                         /\ y # x => /\ bucket'[y] = bucket[y] /\ bucketNotify'[y] = bucketNotify[y]
                                     /\ hand'[y] = hand[y] /\ die'[y] = die[y]
    BY <1>0 DEF Vanished, SessionInv, SessionTypes
  <1>2. \A y \in Sides, t \in Streams :
          /\ reader'[y][t] = IF y = x THEN "no" ELSE reader[y][t]
          /\ y # x => buffers'[y] = buffers[y] /\ event'[y] = event[y] /\ fin'[y] = fin[y]
    BY <1>0 DEF Vanished, SessionInv, StreamTypes
  <1>3. LoopsAwake'
    BY <1>1 DEF LoopsAwake
  <1>4. ReadersAwake'
    <2> SUFFICES ASSUME NEW y \in Sides, NEW t \in Streams, reader'[y][t] = "wait", buffers'[y][t] # <<>>
                 PROVE  event'[y][t] \/ fin'[y][t] \/ (recv'[y] = "store" /\ hand'[y].sid = t)
      BY DEF ReadersAwake, streamLockFree
    <2>1. y # x
      BY <1>2
    <2> QED
      BY <1>1, <1>2, <2>1 DEF ReadersAwake, streamLockFree
  <1> QED
    BY <1>3, <1>4

\* Nobody sleeps beside what it waits for, however the goroutines of a session
\* interleave: tokens are added before the notice is looked for, a frame is in
\* the stream's buffers before its reader is told, and what recvLoop has not yet
\* told it will (session.go recvLoop, returnTokens; stream.go waitRead).
THEOREM WakeUps == Spec => []NoLostWakeup
  <1>1. Init => LoopsAwake /\ ReadersAwake
    BY DEF Init, LoopsAwake, ReadersAwake
  <1>2. SessionInv /\ LoopsAwake /\ ReadersAwake /\ [Next]_vars => LoopsAwake' /\ ReadersAwake'
    <2> SUFFICES ASSUME SessionInv, LoopsAwake, ReadersAwake, [Next]_vars PROVE LoopsAwake' /\ ReadersAwake'
      OBVIOUS
    <2>1. ASSUME NEW x \in Sides, sendLoop(x) \/ recvLoop(x) \/ AcceptStream \/ keepalive(x) \/ sessionClose(x) \/ Vanish(x) \/ UNCHANGED vars
          PROVE  LoopsAwake' /\ ReadersAwake'
      <3>1. CASE sendLoop(x) \/ AcceptStream \/ keepalive(x) \/ sessionClose(x) \/ UNCHANGED vars
        BY <3>1, SendWakes
      <3> QED
        BY <2>1, <3>1, RecvWakes, StoreWakes, FrameWakes, VanishWakes DEF recvLoop
    <2>2. ASSUME NEW x \in Sides, NEW s \in Streams,
                 Write(x, s) \/ CloseBegins(x, s) \/ GiveUp(x, s) \/ streamClosed(x, s) \/ Reads(x, s)
                 \/ OpenStream(s) \/ Register(s)
          PROVE  LoopsAwake' /\ ReadersAwake'
      BY <2>2, SendWakes, ReadWakes
    <2> QED
      BY <2>1, <2>2, Constants DEF Next
  <1> QED
    BY <1>1, <1>2, SessionInvariant, AwakeIs, PTL DEF Spec

-----------------------------------------------------------------------------
(* Sums over a finite set *)

one(s) == CHOOSE e \in s : TRUE

\* it has the sum of w over every subset of T.
Sums(w, T, it) == it = [s \in SUBSET T |-> IF s = {} THEN 0 ELSE w[one(s)] + it[s \ {one(s)}]]
Sum(w, T) == (CHOOSE it : Sums(w, T, it))[T]

LEMMA SmallestSet ==
  ASSUME NEW T, IsFiniteSet(T), NEW B \in SUBSET SUBSET T, B # {}
  PROVE  \E m \in B : \A s \in B : s \subseteq m => s = m
  <1>1. FiniteSubsetsOf(T) = SUBSET T
    BY FS_FiniteSubsetsOfFinite
  <1>2. PICK m \in B : \A s \in B : <<s, m>> \notin StrictSubsetOrdering(T)
    BY <1>1, FS_StrictSubsetOrderingWellFounded, WFMin
  <1>3. ASSUME NEW s \in B, s \subseteq m, s # m PROVE FALSE
    BY <1>2, <1>3 DEF StrictSubsetOrdering
  <1> QED
    BY <1>3

Adds(w, T, it) ==
  /\ it[{}] = 0
  /\ \A s \in SUBSET T : s # {} => one(s) \in s /\ it[s] = w[one(s)] + it[s \ {one(s)}]

LEMMA SumsIs ==
  ASSUME NEW w, NEW T, NEW it, Sums(w, T, it)
  PROVE  Adds(w, T, it)
  BY DEF Adds, Sums, one

LEMMA SumsAgree ==
  ASSUME NEW w, NEW T, NEW U, NEW f, NEW g, IsFiniteSet(U), U \subseteq T, Sums(w, T, f), Sums(w, U, g)
  PROVE  \A s \in SUBSET U : f[s] = g[s]
  <1> DEFINE B == {s \in SUBSET U : f[s] # g[s]}
  <1> SUFFICES ASSUME B # {} PROVE FALSE
    OBVIOUS
  <1>1. PICK m \in B : \A s \in B : s \subseteq m => s = m
    <2>1. B \in SUBSET SUBSET U
      OBVIOUS
    <2> HIDE DEF B
    <2> QED
      BY <2>1, SmallestSet
  <1>2. Adds(w, T, f) /\ Adds(w, U, g) /\ m \in SUBSET U /\ m \in SUBSET T
    BY <1>1, SumsIs
  <1>3. m # {}
    BY <1>1, <1>2 DEF Adds
  <1>5. one(m) \in m /\ f[m] = w[one(m)] + f[m \ {one(m)}] /\ g[m] = w[one(m)] + g[m \ {one(m)}]
    BY <1>2, <1>3 DEF Adds
  <1>4. m \ {one(m)} \notin B /\ m \ {one(m)} \in SUBSET U
    BY <1>1, <1>5
  <1> QED
    BY <1>1, <1>5, <1>4

LEMMA SumsExist ==
  ASSUME NEW w, NEW S, IsFiniteSet(S)
  PROVE  \E it : Sums(w, S, it)
  <1> DEFINE B == {T \in SUBSET S : ~\E it : Sums(w, T, it)}
  <1> SUFFICES ASSUME B # {} PROVE FALSE
    OBVIOUS
  <1>1. PICK T \in B : \A s \in B : s \subseteq T => s = T
    <2>1. B \in SUBSET SUBSET S
      OBVIOUS
    <2> HIDE DEF B
    <2> QED
      BY <2>1, SmallestSet
  <1> DEFINE H(s) == CHOOSE it : Sums(w, s, it)
             it == [s \in SUBSET T |-> IF s = {} THEN 0 ELSE w[one(s)] + H(s \ {one(s)})[s \ {one(s)}]]
  <1>2. ASSUME NEW s \in SUBSET T, s # T PROVE Sums(w, s, H(s)) /\ IsFiniteSet(s)
    <2>1. s \notin B /\ s \in SUBSET S
      BY <1>1, <1>2
    <2>2. \E h : Sums(w, s, h)
      BY <2>1
    <2>3. IsFiniteSet(s)
      BY <2>1, FS_Subset
    <2> QED
      BY <2>2, <2>3
  <1> HIDE DEF H
  <1>3. ASSUME NEW s \in SUBSET T, s # T PROVE it[s] = H(s)[s]
    <2>0. Sums(w, s, H(s))
      BY <1>2, <1>3
    <2>1. CASE s = {}
      BY <2>0, <2>1, SumsIs DEF Adds
    <2>2. CASE s # {}
      <3> DEFINE r == s \ {one(s)}
      <3>1. one(s) \in s /\ H(s)[s] = w[one(s)] + H(s)[r]
        BY <2>0, <2>2, SumsIs DEF Adds
      <3>2. r \in SUBSET T /\ r # T /\ r \subseteq s
        BY <3>1
      <3>3. Sums(w, r, H(r)) /\ IsFiniteSet(r)
        BY <1>2, <3>2
      <3>4. H(s)[r] = H(r)[r]
        BY <2>0, <3>2, <3>3, SumsAgree
      <3> QED
        BY <2>2, <3>1, <3>4
    <2> QED
      BY <2>1, <2>2
  <1>4. ASSUME NEW s \in SUBSET T
        PROVE  it[s] = IF s = {} THEN 0 ELSE w[one(s)] + it[s \ {one(s)}]
    <2>1. CASE s = {}
      BY <2>1
    <2>2. CASE s # {}
      <3>1. one(s) \in s
        BY <2>2 DEF one
      <3>2. it[s \ {one(s)}] = H(s \ {one(s)})[s \ {one(s)}]
        BY <1>3, <3>1
      <3> QED
        BY <2>2, <3>2
    <2> QED
      BY <2>1, <2>2
  <1>5. Sums(w, T, it)
    <2>1. it = [s \in SUBSET T |-> it[s]]
      OBVIOUS
    <2> HIDE DEF it
    <2> QED
      BY <1>4, <2>1 DEF Sums
  <1> QED
    BY <1>1, <1>5

LEMMA SumIs ==
  ASSUME NEW w, NEW T, IsFiniteSet(T)
  PROVE  \E it : Adds(w, T, it) /\ Sum(w, T) = it[T]
  BY SumsExist, SumsIs DEF Sum

LEMMA SumType ==
  ASSUME NEW T, IsFiniteSet(T), NEW w \in [T -> Nat]
  PROVE  Sum(w, T) \in Nat
  <1>1. PICK it : Adds(w, T, it) /\ Sum(w, T) = it[T]
    BY SumIs
  <1> DEFINE B == {s \in SUBSET T : it[s] \notin Nat}
  <1> SUFFICES ASSUME B # {} PROVE FALSE
    BY <1>1
  <1>2. PICK m \in B : \A s \in B : s \subseteq m => s = m
    <2>1. B \in SUBSET SUBSET T
      OBVIOUS
    <2> HIDE DEF B
    <2> QED
      BY <2>1, SmallestSet
  <1>3. m # {} /\ m \in SUBSET T
    <2>1. it[{}] \in Nat /\ it[{}] = 0
      BY <1>1 DEF Adds
    <2>2. {} \notin B /\ m \in SUBSET T
      BY <1>2, <2>1
    <2> HIDE DEF B
    <2> QED
      BY <1>2, <2>2
  <1>4. one(m) \in m /\ it[m] = w[one(m)] + it[m \ {one(m)}]
    BY <1>1, <1>3 DEF Adds
  <1>5. it[m \ {one(m)}] \in Nat /\ w[one(m)] \in Nat
    BY <1>2, <1>4
  <1> QED
    BY <1>4, <1>5

LEMMA SumZero ==
  ASSUME NEW T, IsFiniteSet(T), NEW w, \A e \in T : w[e] = 0
  PROVE  Sum(w, T) = 0
  <1>1. PICK it : Adds(w, T, it) /\ Sum(w, T) = it[T]
    BY SumIs
  <1> DEFINE B == {s \in SUBSET T : it[s] # 0}
  <1> SUFFICES ASSUME B # {} PROVE FALSE
    BY <1>1
  <1>2. PICK m \in B : \A s \in B : s \subseteq m => s = m
    <2>1. B \in SUBSET SUBSET T
      OBVIOUS
    <2> HIDE DEF B
    <2> QED
      BY <2>1, SmallestSet
  <1>3. m # {} /\ m \in SUBSET T
    <2>1. it[{}] \in Nat /\ it[{}] = 0
      BY <1>1 DEF Adds
    <2>2. {} \notin B /\ m \in SUBSET T
      BY <1>2, <2>1
    <2> HIDE DEF B
    <2> QED
      BY <1>2, <2>2
  <1>4. one(m) \in m /\ it[m] = w[one(m)] + it[m \ {one(m)}]
    BY <1>1, <1>3 DEF Adds
  <1>5. it[m \ {one(m)}] = 0 /\ w[one(m)] = 0
    BY <1>2, <1>4
  <1> QED
    BY <1>4, <1>5

\* Changing one value changes the sum by as much.
LEMMA SumChange ==
  ASSUME NEW T, IsFiniteSet(T), NEW v \in [T -> Nat], NEW w \in [T -> Nat],
         NEW d \in T, \A e \in T : e # d => w[e] = v[e]
  PROVE  Sum(w, T) = Sum(v, T) + w[d] - v[d]
  <1>1. PICK f : Adds(v, T, f) /\ Sum(v, T) = f[T]
    BY SumIs
  <1>2. PICK g : Adds(w, T, g) /\ Sum(w, T) = g[T]
    BY SumIs
  <1> DEFINE k(s) == IF d \in s THEN w[d] - v[d] ELSE 0
             good(s) == f[s] \in Int /\ g[s] = f[s] + k(s)
             B == {s \in SUBSET T : ~good(s)}
  <1> SUFFICES ASSUME B # {} PROVE FALSE
    <2>1. good(T)
      OBVIOUS
    <2>2. f[T] \in Int /\ g[T] = f[T] + (w[d] - v[d])
      BY <2>1
    <2> QED
      BY <1>1, <1>2, <2>2
  <1>3. PICK m \in B : \A s \in B : s \subseteq m => s = m
    <2>1. B \in SUBSET SUBSET T
      OBVIOUS
    <2> HIDE DEF B
    <2> QED
      BY <2>1, SmallestSet
  <1>4. m # {}
    <2>1. f[{}] = 0 /\ g[{}] = 0
      BY <1>1, <1>2 DEF Adds
    <2>2. good({})
      BY <2>1
    <2> QED
      BY <2>2
  <1> DEFINE e == one(m)
             r == m \ {e}
  <1>5. e \in m /\ f[m] = v[e] + f[r] /\ g[m] = w[e] + g[r]
    BY <1>1, <1>2, <1>4 DEF Adds
  <1>6. good(r) /\ r \in SUBSET T /\ m \in SUBSET T /\ ~good(m)
    BY <1>3, <1>5
  <1> HIDE DEF e
  <1>7. v[e] \in Nat /\ w[e] \in Nat /\ v[d] \in Nat /\ w[d] \in Nat
    BY <1>5, <1>6
  <1>8. CASE e = d
    <2>1. d \in m /\ d \notin r
      BY <1>5, <1>8
    <2>2. f[r] \in Int /\ g[r] = f[r]
      BY <1>6, <2>1
    <2>3. f[m] \in Int /\ g[m] = f[m] + (w[d] - v[d])
      BY <1>5, <1>7, <1>8, <2>2
    <2> QED
      BY <1>6, <2>1, <2>3
  <1>9. CASE e # d
    <2>1. (d \in m <=> d \in r) /\ w[e] = v[e]
      BY <1>5, <1>6, <1>9
    <2>2. f[r] \in Int /\ g[r] = f[r] + k(r) /\ k(r) = k(m) /\ k(m) \in Int
      BY <1>6, <1>7, <2>1
    <2> HIDE DEF k
    <2>3. f[m] \in Int /\ g[m] = f[m] + k(m)
      BY <1>5, <1>7, <2>1, <2>2
    <2> QED
      BY <1>6, <2>3
  <1> QED
    BY <1>8, <1>9

-----------------------------------------------------------------------------
(* Tokens *)

units(b) == IF b = <<>> THEN 0 ELSE Head(b).left + (Len(b) - 1) * FrameSize
weight(x, s) == units(buffers[x][s]) + taken[x][s]
stored(x) == IF recv[x] = "store" THEN FrameSize ELSE 0

Balanced ==
  \A x \in Sides :
    bucket[x] + Sum([s \in Streams |-> weight(x, s)], Streams) = MaxReceiveBuffer + stored(x)

LEMMA TokensAre == Balanced => TokensConserved
  <1>1. ASSUME NEW x \in Sides
        PROVE  MapThenSumSet(LAMBDA s : Units(x, s) + taken[x][s], Streams)
                 = Sum([s \in Streams |-> weight(x, s)], Streams)
    <2>1. \A s \in Streams : weight(x, s) = Units(x, s) + taken[x][s]
      BY DEF weight, units, Units
    <2>2. [s \in Streams |-> weight(x, s)] = [s \in Streams |-> Units(x, s) + taken[x][s]]
      BY <2>1
    <2>3. ASSUME NEW w, w = [s \in Streams |-> Units(x, s) + taken[x][s]]
          PROVE  MapThenSumSet(LAMBDA s : Units(x, s) + taken[x][s], Streams) = Sum(w, Streams)
      BY <2>3 DEF MapThenSumSet, MapThenFoldSet, Sum, Sums, one
    <2> QED
      BY <2>2, <2>3
  <1> QED
    BY <1>1 DEF Balanced, TokensConserved, stored

LEMMA UnitsNat ==
  ASSUME NEW b \in Seq(Buffer)
  PROVE  units(b) \in Nat
  <1>1. CASE b = <<>>
    BY <1>1 DEF units
  <1>2. CASE b # <<>>
    <2>1. Head(b).left \in Nat /\ Len(b) - 1 \in Nat
      <3>1. Head(b) \in Buffer /\ Len(b) - 1 \in Nat
        BY <1>2
      <3> QED
        BY <3>1 DEF Buffer
    <2>2. \A n \in Nat : n * FrameSize \in Nat
      BY Constants
    <2>3. (Len(b) - 1) * FrameSize \in Nat
      BY <2>1, <2>2
    <2>4. units(b) = Head(b).left + (Len(b) - 1) * FrameSize
      BY <1>2 DEF units
    <2> QED
      BY <2>1, <2>3, <2>4
  <1> QED
    BY <1>1, <1>2

LEMMA AppendUnits ==
  ASSUME NEW b \in Seq(Buffer), NEW n \in Nat, whole(b)
  PROVE  LET c == Append(b, [num |-> n, left |-> FrameSize]) IN units(c) = units(b) + FrameSize /\ whole(c)
  <1> DEFINE e == [num |-> n, left |-> FrameSize]
             c == Append(b, e)
  <1>1. c # <<>> /\ Len(c) = Len(b) + 1 /\ c[Len(c)] = e /\ \A i \in 1 .. Len(b) : c[i] = b[i]
    OBVIOUS
  <1>2. c \in Seq(Buffer)
    BY Constants DEF Buffer
  <1>3. Head(c) = c[1] /\ (b # <<>> => Head(b) = b[1]) /\ Len(b) \in Nat /\ (b # <<>> => Len(b) > 0)
    BY <1>1, <1>2
  <1> HIDE DEF c
  <1>4. whole(c)
    BY <1>1, <1>3 DEF whole
  <1>5. units(c) = units(b) + FrameSize
    <2>1. CASE b = <<>>
      <3>1. Len(c) = 1 /\ Head(c).left = FrameSize
        BY <1>1, <1>3, <2>1
      <3> QED
        BY <1>1, <2>1, <3>1, Constants DEF units
    <2>2. CASE b # <<>>
      <3>1. Head(c).left = Head(b).left /\ Head(b).left \in Nat
        <4>1. Head(b) \in Buffer
          BY <2>2
        <4> QED
          BY <1>1, <1>3, <2>2, <4>1 DEF Buffer
      <3>2. \A h, l \in Nat : h + (l + 1 - 1) * FrameSize = h + (l - 1) * FrameSize + FrameSize
        BY Constants
      <3> QED
        BY <1>1, <1>3, <2>2, <3>1, <3>2 DEF units
    <2> QED
      BY <2>1, <2>2
  <1> QED
    BY <1>4, <1>5 DEF c

LEMMA RestUnits ==
  ASSUME NEW b \in Seq(Buffer), b # <<>>, whole(b), NEW k \in Nat \ {0}, k <= Head(b).left
  PROVE  units(rest(b, k)) = units(b) - k /\ whole(rest(b, k))
  <1>1. Head(b) \in Buffer /\ Head(b).left \in Nat /\ Head(b) = b[1] /\ Len(b) \in Nat \ {0}
    <2>1. Head(b) \in Buffer /\ Head(b) = b[1] /\ Len(b) \in Nat \ {0}
      OBVIOUS
    <2> QED
      BY <2>1 DEF Buffer
  <1>2. Tail(b) \in Seq(Buffer) /\ Len(Tail(b)) = Len(b) - 1 /\ \A i \in 1 .. Len(b) - 1 : Tail(b)[i] = b[i + 1]
    BY <1>1
  <1>3. CASE k = Head(b).left
    <2>1. rest(b, k) = Tail(b)
      BY <1>3 DEF rest
    <2>2. whole(Tail(b))
      BY <1>1, <1>2 DEF whole
    <2>3. CASE Tail(b) = <<>>
      <3>1. Len(Tail(b)) = 0
        <4>1. Len(<<>>) = 0
          OBVIOUS
        <4> QED
          BY <2>3, <4>1, Zenon
      <3>2. Len(b) = 1
        <4>1. Len(b) \in Nat /\ Len(b) - 1 = 0
          BY <1>1, <1>2, <3>1, Zenon
        <4> QED
          BY <4>1
      <3>3. \A h \in Nat : h + (1 - 1) * FrameSize = h
        BY Constants
      <3>4. units(b) = Head(b).left + (1 - 1) * FrameSize
        BY <3>2 DEF units
      <3>5. units(b) = Head(b).left /\ units(Tail(b)) = 0
        BY <1>1, <2>3, <3>3, <3>4 DEF units
      <3>6. Head(b).left - k = 0
        BY <1>1, <1>3
      <3>7. units(rest(b, k)) = 0 /\ units(b) - k = 0 /\ whole(rest(b, k))
        BY <2>1, <2>2, <3>5, <3>6, Zenon
      <3> QED
        BY <3>7
    <2>4. CASE Tail(b) # <<>>
      <3>1. Len(Tail(b)) > 0 /\ Head(Tail(b)) = Tail(b)[1]
        BY <1>2, <2>4
      <3>2. Head(Tail(b)).left = FrameSize
        <4>1. Len(b) >= 2 /\ Tail(b)[1] = b[2]
          BY <1>1, <1>2, <3>1
        <4> QED
          BY <1>1, <3>1, <4>1 DEF whole
      <3>3. \A l \in Nat : FrameSize + (l - 1 - 1) * FrameSize = (l - 1) * FrameSize
        BY Constants
      <3>4. \A l \in Nat : (l - 1) * FrameSize \in Int
        BY Constants
      <3>5. units(Tail(b)) = FrameSize + (Len(b) - 1 - 1) * FrameSize
        BY <1>2, <2>4, <3>2 DEF units
      <3>6. units(b) = Head(b).left + (Len(b) - 1) * FrameSize
        BY DEF units
      <3>7. units(Tail(b)) = (Len(b) - 1) * FrameSize /\ (Len(b) - 1) * FrameSize \in Int
        BY <1>1, <3>3, <3>4, <3>5
      <3>8. units(Tail(b)) = units(b) - k
        BY <1>1, <1>3, <3>6, <3>7
      <3> QED
        BY <2>1, <2>2, <3>8
    <2> QED
      BY <2>3, <2>4
  <1>4. CASE k # Head(b).left
    <2> DEFINE h == [Head(b) EXCEPT !.left = @ - k]
               c == <<h>> \o Tail(b)
    <2>1. rest(b, k) = c
      BY <1>4 DEF rest
    <2>2. h.left = Head(b).left - k /\ h \in Buffer
      <3>1. h = [num |-> Head(b).num, left |-> Head(b).left - k]
        BY <1>1 DEF Buffer
      <3>2. Head(b).left - k \in 1 .. FrameSize /\ Head(b).num \in Nat
        BY <1>1, <1>4, Constants DEF Buffer
      <3> QED
        BY <3>1, <3>2 DEF Buffer
    <2>3. Len(c) = Len(b) /\ c[1] = h /\ \A i \in 2 .. Len(b) : c[i] = b[i]
      <3>1. Len(<<h>>) = 1 /\ <<h>> \in Seq(Buffer)
        BY <2>2
      <3>2. Len(c) = 1 + Len(Tail(b)) /\ \A i \in 1 .. Len(c) : c[i] = IF i <= 1 THEN <<h>>[i] ELSE Tail(b)[i - 1]
        BY <1>2, <3>1
      <3> QED
        BY <1>1, <1>2, <3>2
    <2>4. c # <<>> /\ Head(c) = c[1]
      BY <1>1, <1>2, <2>2, <2>3
    <2> HIDE DEF c, h
    <2>5. whole(c)
      BY <2>3 DEF whole
    <2>6. \A l \in Nat : (l - 1) * FrameSize \in Int
      BY Constants
    <2>7. units(c) = units(b) - k
      BY <1>1, <2>2, <2>3, <2>4, <2>6 DEF units
    <2> QED
      BY <2>1, <2>5, <2>7
  <1> QED
    BY <1>3, <1>4

TokenInv == Balanced /\ WholeFrames

\* Steps that leave tokens and data alone.
LEMMA TokensKept ==
  ASSUME TokenInv, UNCHANGED <<buffers, taken, bucket>>, \A y \in Sides : stored(y)' = stored(y)
  PROVE  TokenInv'
  <1>1. \A y \in Sides, t \in Streams : weight(y, t)' = weight(y, t)
    BY DEF weight
  <1>2. ASSUME NEW y \in Sides
        PROVE  [t \in Streams |-> weight(y, t)'] = [t \in Streams |-> weight(y, t)]
    BY <1>1
  <1>3. Balanced'
    BY <1>2 DEF TokenInv, Balanced
  <1> QED
    BY <1>3 DEF TokenInv, WholeFrames

\* A step about one stream of one side: what the bucket gains, the stream loses,
\* and what recvLoop has stored it owes to the bucket.
LEMMA TokensMove ==
  ASSUME SessionInv, StreamTypes', TokenInv, NEW x \in Sides, NEW s \in Streams,
         \A y \in Sides, t \in Streams : ~(y = x /\ t = s) => weight(y, t)' = weight(y, t),
         \A y \in Sides : y # x => bucket'[y] = bucket[y] /\ stored(y)' = stored(y),
         \E d, e \in Int : /\ weight(x, s)' = weight(x, s) + d
                           /\ stored(x)' = stored(x) + e
                           /\ bucket'[x] = bucket[x] + e - d
  PROVE  Balanced'
  <1>1. ASSUME NEW y \in Sides, y # x
        PROVE  [t \in Streams |-> weight(y, t)'] = [t \in Streams |-> weight(y, t)]
    BY <1>1
  <1> DEFINE v == [t \in Streams |-> weight(x, t)]
             w == [t \in Streams |-> weight(x, t)']
  <1>2. v \in [Streams -> Nat] /\ w \in [Streams -> Nat]
    <2>1. \A t \in Streams : weight(x, t) \in Nat
      <3>1. \A t \in Streams : buffers[x][t] \in Seq(Buffer) /\ taken[x][t] \in Nat
        BY DEF SessionInv, StreamTypes
      <3> QED
        BY <3>1, UnitsNat DEF weight
    <2>2. \A t \in Streams : weight(x, t)' \in Nat
      <3>1. \A t \in Streams : buffers'[x][t] \in Seq(Buffer) /\ taken'[x][t] \in Nat
        BY DEF StreamTypes
      <3>2. \A t \in Streams : units(buffers'[x][t]) \in Nat
        BY <3>1, UnitsNat
      <3> QED
        BY <3>1, <3>2 DEF weight
    <2> QED
      BY <2>1, <2>2
  <1>3. \A t \in Streams : t # s => w[t] = v[t]
    OBVIOUS
  <1>4. PICK d, e \in Int : w[s] = v[s] + d /\ stored(x)' = stored(x) + e /\ bucket'[x] = bucket[x] + e - d
    OBVIOUS
  <1> HIDE DEF v, w
  <1>5. Sum(w, Streams) = Sum(v, Streams) + w[s] - v[s] /\ Sum(v, Streams) \in Nat
    BY <1>2, <1>3, SumChange, SumType, Constants
  <1>6. bucket[x] \in Int /\ stored(x) \in Int /\ v[s] \in Nat
    BY <1>2, Constants DEF SessionInv, SessionTypes, stored
  <1>7. bucket[x] + Sum(v, Streams) = MaxReceiveBuffer + stored(x)
    BY DEF TokenInv, Balanced, v
  <1>8. bucket'[x] + Sum(w, Streams) = MaxReceiveBuffer + stored(x)'
    BY <1>4, <1>5, <1>6, <1>7, Constants
  <1>9. ASSUME NEW y \in Sides
        PROVE  bucket'[y] + Sum([t \in Streams |-> weight(y, t)'], Streams) = MaxReceiveBuffer + stored(y)'
    <2>1. CASE y = x
      BY <1>8, <2>1 DEF w
    <2>2. CASE y # x
      <3>1. bucket[y] + Sum([t \in Streams |-> weight(y, t)], Streams) = MaxReceiveBuffer + stored(y)
        BY DEF TokenInv, Balanced
      <3> QED
        BY <1>1, <2>2, <3>1
    <2> QED
      BY <2>1, <2>2
  <1> QED
    BY <1>9 DEF Balanced

LEMMA QuietTokens ==
  ASSUME SessionInv, TokenInv, NEW x \in Sides, NEW s,
         \/ sendLoop(x) \/ keepalive(x) \/ sessionClose(x) \/ AcceptStream \/ Write(x, s) \/ CloseBegins(x, s) \/ GiveUp(x, s)
         \/ OpenStream(s) \/ Register(s) \/ TakeNothing(x, s) \/ waitRead(x, s) \/ UNCHANGED vars
  PROVE  TokenInv'
  <1>1. UNCHANGED <<recv, bucket, buffers, taken>>
    BY DEF sendLoop, keepalive, sessionClose, AcceptStream, Write, CloseBegins, GiveUp, OpenStream, Register, TakeNothing, waitRead,
           vars, recvVars, tokenVars, streamVars, readVars
  <1>2. \A y \in Sides : stored(y)' = stored(y)
    BY <1>1 DEF stored
  <1> QED
    BY <1>1, <1>2, TokensKept

LEMMA RecvTokens ==
  ASSUME SessionInv, TokenInv, NEW x \in Sides, recvSleep(x) \/ recvWait(x) \/ recvError(x)
  PROVE  TokenInv'
  <1>1. UNCHANGED <<bucket, buffers, taken>> /\ recv[x] # "store"
    BY DEF recvSleep, recvWait, recvError, tokenVars, streamVars, others, readVars
  <1>2. PICK l \in {"loop", "wait", "done"} : recv' = [recv EXCEPT ![x] = l]
    BY DEF recvSleep, recvWait, recvError, goto
  <1>3. \A y \in Sides : recv'[y] = IF y = x THEN l ELSE recv[y]
    BY <1>2 DEF SessionInv, SessionTypes
  <1>4. \A y \in Sides : stored(y)' = stored(y)
    BY <1>1, <1>3 DEF stored
  <1> QED
    BY <1>1, <1>4, TokensKept

LEMMA StoreTokens ==
  ASSUME SessionInv, StreamTypes', TokenInv, NEW x \in Sides, recvStore(x)
  PROVE  TokenInv'
  <1>1. UNCHANGED <<buffers, taken>> /\ recv[x] = "store"
    BY DEF recvStore, others, readVars
  <1>2. \A y \in Sides : /\ recv'[y] = IF y = x THEN "loop" ELSE recv[y]
                         /\ bucket'[y] = IF y = x THEN bucket[y] + (-FrameSize) ELSE bucket[y]
    BY DEF recvStore, goto, AddInt32, SessionInv, SessionTypes
  <1>3. \A y \in Sides, t \in Streams : weight(y, t)' = weight(y, t)
    BY <1>1 DEF weight
  <1>4. stored(x) = FrameSize /\ stored(x)' = 0 /\ \A y \in Sides : y # x => stored(y)' = stored(y)
    BY <1>1, <1>2 DEF stored
  <1>5. PICK s \in Streams : TRUE
    BY <1>1 DEF SessionInv, SessionTypes, streamLockFree, Frame
  <1>6. weight(x, s) \in Nat /\ bucket[x] \in Int
    <2>1. buffers[x][s] \in Seq(Buffer) /\ taken[x][s] \in Nat /\ bucket[x] \in Int
      BY DEF SessionInv, StreamTypes, SessionTypes
    <2> QED
      BY <2>1, UnitsNat DEF weight
  <1>7. \E d, e \in Int : /\ weight(x, s)' = weight(x, s) + d
                          /\ stored(x)' = stored(x) + e
                          /\ bucket'[x] = bucket[x] + e - d
    <2>1. weight(x, s)' = weight(x, s) + 0
      BY <1>3, <1>6
    <2>2. stored(x)' = stored(x) + (-FrameSize)
      BY <1>4, Constants
    <2>3. bucket'[x] = bucket[x] + (-FrameSize) - 0
      BY <1>2, <1>6, Constants
    <2>4. 0 \in Int /\ -FrameSize \in Int
      BY Constants
    <2> QED
      BY <2>1, <2>2, <2>3, <2>4
  <1>8. Balanced'
    BY <1>2, <1>3, <1>4, <1>7, TokensMove
  <1> QED
    BY <1>1, <1>8 DEF TokenInv, WholeFrames

LEMMA FrameTokens ==
  ASSUME SessionInv, StreamTypes', TokenInv, NEW x \in Sides, recvFrame(x)
  PROVE  TokenInv'
  <1> DEFINE f == Head(wire[peer(x)])
  <1>1. /\ recv[x] = "loop" /\ taken' = taken
        /\ \/ recvSyn(x, f)
           \/ recvFin(x, f)
           \/ recvPsh(x, f)
    BY DEF recvFrame, others, readVars
  <1>2. PICK s \in Streams : s = f.sid /\ f.num \in Nat
    <2>1. wire[peer(x)] # <<>> /\ wire' = [wire EXCEPT ![peer(x)] = Tail(@)]
      BY DEF recvFrame
    <2> QED
      BY <2>1, HeadTypes DEF SessionInv, Frame
  <1> HIDE DEF f
  <1>3. CASE UNCHANGED <<bucket, buffers>> /\ goto(x, "loop")
    <2>1. \A y \in Sides : recv'[y] = IF y = x THEN "loop" ELSE recv[y]
      BY <1>3 DEF goto, SessionInv, SessionTypes
    <2>2. \A y \in Sides : stored(y)' = stored(y)
      BY <1>1, <2>1 DEF stored
    <2> QED
      BY <1>1, <1>3, <2>2, TokensKept
  <1>4. CASE recvPsh(x, f) /\ s \in table[x]
    <2> DEFINE b == buffers[x][s]
               c == Append(b, [num |-> f.num, left |-> FrameSize])
    <2>1. b \in Seq(Buffer) /\ whole(b) /\ taken[x][s] \in Nat /\ bucket[x] \in Int
      BY DEF SessionInv, StreamTypes, SessionTypes, TokenInv, WholeFrames
    <2>2. units(c) = units(b) + FrameSize /\ whole(c) /\ units(b) \in Nat
      BY <1>2, <2>1, AppendUnits, UnitsNat
    <2>3. \A y \in Sides, t \in Streams : buffers'[y][t] = IF y = x /\ t = s THEN c ELSE buffers[y][t]
      <3>1. buffers' = of(buffers, x, s, c)
        BY <1>2, <1>4 DEF recvPsh
      <3>2. \A v : \A y \in Sides, t \in Streams : of(buffers, x, s, v)[y][t] = IF y = x /\ t = s THEN v ELSE buffers[y][t]
        BY <1>2 DEF of, SessionInv, StreamTypes
      <3> HIDE DEF c
      <3> QED
        BY <3>1, <3>2
    <2> HIDE DEF c
    <2>4. \A y \in Sides, t \in Streams : ~(y = x /\ t = s) => weight(y, t)' = weight(y, t)
      BY <1>1, <2>3 DEF weight
    <2>5. weight(x, s)' = weight(x, s) + FrameSize
      <3>1. weight(x, s)' = units(c) + taken[x][s]
        BY <1>1, <2>3 DEF weight
      <3>2. weight(x, s) = units(b) + taken[x][s]
        BY DEF weight
      <3> QED
        BY <2>1, <2>2, <3>1, <3>2, Constants
    <2>6. \/ /\ bucket' = [bucket EXCEPT ![x] = AddInt32(x, -FrameSize)]
             /\ goto(x, "loop")
          \/ goto(x, "store") /\ bucket' = bucket
      BY <1>2, <1>4 DEF recvPsh
    <2>7. \E e \in Int : /\ stored(x)' = stored(x) + e /\ bucket'[x] = bucket[x] + e - FrameSize
      <3>0. stored(x) = 0
        BY <1>1 DEF stored
      <3>1. CASE bucket' = [bucket EXCEPT ![x] = AddInt32(x, -FrameSize)] /\ goto(x, "loop")
        <4>1. bucket'[x] = bucket[x] + (-FrameSize) /\ recv'[x] = "loop"
          BY <3>1 DEF goto, AddInt32, SessionInv, SessionTypes
        <4>2. stored(x)' = stored(x) + 0
          BY <3>0, <4>1 DEF stored
        <4>3. bucket'[x] = bucket[x] + 0 - FrameSize
          BY <2>1, <4>1, Constants
        <4> QED
          BY <4>2, <4>3
      <3>2. CASE goto(x, "store") /\ bucket' = bucket
        <4>1. recv'[x] = "store"
          BY <3>2 DEF goto, SessionInv, SessionTypes
        <4>2. stored(x)' = stored(x) + FrameSize
          BY <3>0, <4>1, Constants DEF stored
        <4>3. bucket'[x] = bucket[x] + FrameSize - FrameSize
          BY <2>1, <3>2, Constants
        <4> QED
          BY <4>2, <4>3, Constants
      <3> QED
        BY <2>6, <3>1, <3>2
    <2>8. \A y \in Sides : y # x => bucket'[y] = bucket[y] /\ stored(y)' = stored(y)
      <3>1. \A y \in Sides : y # x => bucket'[y] = bucket[y] /\ recv'[y] = recv[y]
        BY <2>6 DEF goto, SessionInv, SessionTypes
      <3> QED
        BY <3>1 DEF stored
    <2>9. Balanced'
      <3>1. \E d, e \in Int : /\ weight(x, s)' = weight(x, s) + d
                              /\ stored(x)' = stored(x) + e
                              /\ bucket'[x] = bucket[x] + e - d
        BY <2>5, <2>7, Constants
      <3> QED
        BY <1>2, <2>4, <2>8, <3>1, TokensMove
    <2>10. WholeFrames'
      BY <2>2, <2>3 DEF TokenInv, WholeFrames
    <2> QED
      BY <2>9, <2>10 DEF TokenInv
  <1>5. recvSyn(x, f) \/ recvFin(x, f) \/ (recvPsh(x, f) /\ s \notin table[x]) => UNCHANGED <<bucket, buffers>> /\ goto(x, "loop")
    BY <1>2 DEF recvSyn, recvFin, recvPsh
  <1> QED
    BY <1>1, <1>3, <1>4, <1>5

\* A step of a stream that moves n tokens from the stream to the bucket.
LEMMA TokensBack ==
  ASSUME SessionInv, StreamTypes', TokenInv, NEW x \in Sides, NEW s \in Streams, NEW n \in Nat,
         recv' = recv, bucket' = [bucket EXCEPT ![x] = @ + n],
         \A y \in Sides, t \in Streams :
           ~(y = x /\ t = s) => buffers'[y][t] = buffers[y][t] /\ taken'[y][t] = taken[y][t],
         weight(x, s)' = weight(x, s) - n,
         \A b : b = buffers'[x][s] => whole(b)
  PROVE  TokenInv'
  <1>1. \A y \in Sides, t \in Streams : ~(y = x /\ t = s) => weight(y, t)' = weight(y, t)
    BY DEF weight
  <1>2. \A y \in Sides : stored(y)' = stored(y) /\ stored(y) \in Int
    BY Constants DEF stored
  <1>3. bucket'[x] = bucket[x] + n /\ bucket[x] \in Int /\ \A y \in Sides : y # x => bucket'[y] = bucket[y]
    BY DEF SessionInv, SessionTypes
  <1>4. weight(x, s) \in Nat
    <2>1. buffers[x][s] \in Seq(Buffer) /\ taken[x][s] \in Nat
      BY DEF SessionInv, StreamTypes
    <2> QED
      BY <2>1, UnitsNat DEF weight
  <1>5. \E d, e \in Int : /\ weight(x, s)' = weight(x, s) + d
                          /\ stored(x)' = stored(x) + e
                          /\ bucket'[x] = bucket[x] + e - d
    <2>1. weight(x, s)' = weight(x, s) + (-n)
      BY <1>4
    <2>2. stored(x)' = stored(x) + 0
      BY <1>2
    <2>3. bucket'[x] = bucket[x] + 0 - (-n)
      BY <1>3
    <2>4. 0 \in Int /\ -n \in Int
      OBVIOUS
    <2> QED
      BY <2>1, <2>2, <2>3, <2>4
  <1>6. Balanced'
    BY <1>1, <1>2, <1>3, <1>5, TokensMove
  <1>7. WholeFrames'
    <2>1. ASSUME NEW y \in Sides, NEW t \in Streams PROVE whole(buffers'[y][t])
      <3>1. CASE y = x /\ t = s
        BY <3>1
      <3>2. CASE ~(y = x /\ t = s)
        BY <3>2 DEF TokenInv, WholeFrames
      <3> QED
        BY <3>1, <3>2
    <2> QED
      BY <2>1 DEF WholeFrames
  <1> QED
    BY <1>6, <1>7 DEF TokenInv

LEMMA ReadTokens ==
  ASSUME SessionInv, StreamTypes', TokenInv, NEW x \in Sides, NEW s \in Streams,
         streamClosed(x, s) \/ Take(x, s) \/ returnTokens(x, s)
  PROVE  TokenInv'
  <1> DEFINE b == buffers[x][s]
  <1>0. /\ \A v : \A y \in Sides, t \in Streams : of(buffers, x, s, v)[y][t] = IF y = x /\ t = s THEN v ELSE buffers[y][t]
        /\ \A v : \A y \in Sides, t \in Streams : of(taken, x, s, v)[y][t] = IF y = x /\ t = s THEN v ELSE taken[y][t]
    BY DEF of, SessionInv, StreamTypes
  <1>1. b \in Seq(Buffer) /\ whole(b) /\ taken[x][s] \in Nat /\ bucket[x] \in Int /\ units(b) \in Nat
    <2>1. b \in Seq(Buffer) /\ whole(b) /\ taken[x][s] \in Nat /\ bucket[x] \in Int
      BY DEF SessionInv, StreamTypes, SessionTypes, TokenInv, WholeFrames
    <2> QED
      BY <2>1, UnitsNat
  <1>2. weight(x, s) = units(b) + taken[x][s]
    BY DEF weight
  <1>3. CASE streamClosed(x, s)
    <2>1. recv' = recv /\ taken' = taken /\ buffers' = of(buffers, x, s, <<>>)
      BY <1>3 DEF streamClosed, recvVars, readVars
    <2>2. bucket' = [bucket EXCEPT ![x] = @ + units(b)]
      <3>1. Units(x, s) = units(b)
        BY DEF Units, units
      <3>2. CASE Units(x, s) > 0
        BY <1>3, <3>1, <3>2 DEF streamClosed, return, AddInt32
      <3>3. CASE ~(Units(x, s) > 0)
        <4>1. units(b) = 0 /\ bucket[x] + 0 = bucket[x]
          BY <1>1, <3>1, <3>3
        <4>2. bucket' = bucket
          BY <1>3, <3>3 DEF streamClosed, tokenVars
        <4> QED
          BY <4>1, <4>2 DEF SessionInv, SessionTypes
      <3> QED
        BY <3>2, <3>3
    <2>3. \A y \in Sides, t \in Streams :
            ~(y = x /\ t = s) => buffers'[y][t] = buffers[y][t] /\ taken'[y][t] = taken[y][t]
      BY <1>0, <2>1
    <2>4. buffers'[x][s] = <<>>
      BY <1>0, <2>1
    <2>5. weight(x, s)' = weight(x, s) - units(b)
      <3>1. weight(x, s)' = 0 + taken[x][s]
        BY <2>1, <2>4 DEF weight, units
      <3> QED
        BY <1>1, <1>2, <3>1
    <2>6. \A c : c = buffers'[x][s] => whole(c)
      BY <2>4 DEF whole
    <2> QED
      BY <1>1, <2>1, <2>2, <2>3, <2>5, <2>6, TokensBack
  <1>4. CASE returnTokens(x, s)
    <2>1. recv' = recv /\ taken' = of(taken, x, s, 0) /\ buffers' = buffers
          /\ bucket' = [bucket EXCEPT ![x] = @ + taken[x][s]]
      BY <1>4 DEF returnTokens, recvVars, streamVars, return, AddInt32
    <2>2. \A y \in Sides, t \in Streams :
            ~(y = x /\ t = s) => buffers'[y][t] = buffers[y][t] /\ taken'[y][t] = taken[y][t]
      BY <1>0, <2>1
    <2>3. weight(x, s)' = weight(x, s) - taken[x][s]
      <3>1. weight(x, s)' = units(b) + 0
        BY <1>0, <2>1 DEF weight
      <3> QED
        BY <1>1, <1>2, <3>1
    <2>4. \A c : c = buffers'[x][s] => whole(c)
      BY <1>1, <2>1
    <2> QED
      BY <1>1, <2>1, <2>2, <2>3, <2>4, TokensBack
  <1>5. CASE Take(x, s)
    <2>1. PICK k \in Nat \ {0} :
             /\ k <= Head(buffers[x][s]).left /\ buffers[x][s] # <<>>
             /\ buffers' = of(buffers, x, s, rest(buffers[x][s], k))
             /\ \/ x = "page" /\ return(x, k) /\ UNCHANGED <<taken, reader>>
                \/ /\ x = "server" /\ taken' = of(taken, x, s, k) /\ reader' = of(reader, x, s, "return")
                   /\ UNCHANGED <<bucket, bucketNotify>>
      BY <1>5, TakeIs DEF SessionInv
    <2>2. recv' = recv /\ reader[x][s] = "try"
      BY <1>5 DEF Take, recvVars
    <2>3. taken[x][s] = 0
      BY <2>2 DEF SessionInv, Orderly
    <2>4. units(rest(b, k)) = units(b) - k /\ whole(rest(b, k))
      BY <1>1, <2>1, RestUnits
    <2>5. buffers'[x][s] = rest(b, k)
      BY <1>0, <2>1
    <2>6. \A c : c = buffers'[x][s] => whole(c)
      BY <2>4, <2>5
    <2>7. CASE return(x, k) /\ UNCHANGED <<taken, reader>>
      <3>1. bucket' = [bucket EXCEPT ![x] = @ + k]
        BY <2>7 DEF return, AddInt32
      <3>2. \A y \in Sides, t \in Streams :
              ~(y = x /\ t = s) => buffers'[y][t] = buffers[y][t] /\ taken'[y][t] = taken[y][t]
        BY <1>0, <2>1, <2>7
      <3>3. weight(x, s)' = weight(x, s) - k
        <4>1. weight(x, s)' = units(rest(b, k)) + taken[x][s]
          BY <2>5, <2>7 DEF weight
        <4> QED
          BY <1>1, <1>2, <2>4, <4>1
      <3>4. k \in Nat
        OBVIOUS
      <3> QED
        BY <2>2, <2>6, <3>1, <3>2, <3>3, <3>4, TokensBack
    <2>8. CASE taken' = of(taken, x, s, k) /\ UNCHANGED bucket
      <3>0. PICK n \in Nat : n = 0
        OBVIOUS
      <3>1. bucket' = [bucket EXCEPT ![x] = @ + n]
        <4>1. bucket[x] + n = bucket[x]
          BY <1>1, <3>0
        <4> QED
          BY <2>8, <4>1 DEF SessionInv, SessionTypes
      <3>2. \A y \in Sides, t \in Streams :
              ~(y = x /\ t = s) => buffers'[y][t] = buffers[y][t] /\ taken'[y][t] = taken[y][t]
        BY <1>0, <2>1, <2>8
      <3>3. weight(x, s)' = weight(x, s) - n
        <4>1. weight(x, s)' = units(rest(b, k)) + k
          BY <1>0, <2>5, <2>8 DEF weight
        <4> QED
          BY <1>1, <1>2, <2>3, <3>0, <2>4, <4>1
      <3> QED
        BY <2>2, <2>6, <3>1, <3>2, <3>3, TokensBack
    <2> QED
      BY <2>1, <2>7, <2>8
  <1> QED
    BY <1>3, <1>4, <1>5

LEMMA VanishTokens ==
  ASSUME SessionInv, TokenInv, NEW x \in Sides, Vanish(x)
  PROVE  TokenInv'
  <1>0. Vanished(x)
    BY VanishIs
  <1>1. \A y \in Sides : /\ recv'[y] = IF y = x THEN "loop" ELSE recv[y]
                         /\ bucket'[y] = IF y = x THEN MaxReceiveBuffer ELSE bucket[y]
    BY <1>0 DEF Vanished, SessionInv, SessionTypes
  <1>2. \A y \in Sides, t \in Streams :
          /\ buffers'[y][t] = IF y = x THEN <<>> ELSE buffers[y][t]
          /\ taken'[y][t] = IF y = x THEN 0 ELSE taken[y][t]
    BY <1>0 DEF Vanished, SessionInv, StreamTypes
  <1>3. ASSUME NEW y \in Sides
        PROVE  bucket'[y] + Sum([t \in Streams |-> weight(y, t)'], Streams) = MaxReceiveBuffer + stored(y)'
    <2>1. CASE y = x
      <3> DEFINE w == [t \in Streams |-> weight(y, t)']
      <3>1. \A t \in Streams : w[t] = 0
        BY <1>2, <2>1 DEF weight, units
      <3> HIDE DEF w
      <3>2. Sum(w, Streams) = 0
        BY <3>1, SumZero, Constants
      <3>3. bucket'[y] = MaxReceiveBuffer /\ stored(y)' = 0
        BY <1>1, <2>1 DEF stored
      <3>4. bucket'[y] + Sum(w, Streams) = MaxReceiveBuffer + stored(y)'
        BY <3>2, <3>3
      <3> QED
        BY <3>4 DEF w
    <2>2. CASE y # x
      <3>1. \A t \in Streams : weight(y, t)' = weight(y, t)
        BY <1>2, <2>2 DEF weight
      <3>2. [t \in Streams |-> weight(y, t)'] = [t \in Streams |-> weight(y, t)]
        BY <3>1
      <3>3. bucket'[y] = bucket[y] /\ stored(y)' = stored(y)
        BY <1>1, <2>2 DEF stored
      <3>4. bucket[y] + Sum([t \in Streams |-> weight(y, t)], Streams) = MaxReceiveBuffer + stored(y)
        BY DEF TokenInv, Balanced
      <3> QED
        BY <3>2, <3>3, <3>4
    <2> QED
      BY <2>1, <2>2
  <1>4. ASSUME NEW y \in Sides, NEW t \in Streams PROVE whole(buffers'[y][t])
    <2>1. CASE y = x
      BY <1>2, <2>1 DEF whole
    <2>2. CASE y # x
      BY <1>2, <2>2 DEF TokenInv, WholeFrames
    <2> QED
      BY <2>1, <2>2
  <1> QED
    BY <1>3, <1>4 DEF TokenInv, Balanced, WholeFrames

LEMMA InitTokens == Init => TokenInv
  <1> SUFFICES ASSUME Init PROVE TokenInv
    OBVIOUS
  <1>1. ASSUME NEW x \in Sides
        PROVE  /\ bucket[x] + Sum([t \in Streams |-> weight(x, t)], Streams) = MaxReceiveBuffer + stored(x)
               /\ \A t \in Streams : whole(buffers[x][t])
    <2>1. \A t \in Streams : buffers[x][t] = <<>> /\ taken[x][t] = 0
      BY DEF Init
    <2> DEFINE w == [t \in Streams |-> weight(x, t)]
    <2>2. \A t \in Streams : w[t] = 0
      BY <2>1 DEF weight, units
    <2> HIDE DEF w
    <2>3. Sum(w, Streams) = 0
      BY <2>2, SumZero, Constants
    <2>4. bucket[x] = MaxReceiveBuffer /\ stored(x) = 0
      BY DEF Init, stored
    <2>5. bucket[x] + Sum(w, Streams) = MaxReceiveBuffer + stored(x)
      BY <2>3, <2>4
    <2> QED
      BY <2>1, <2>5 DEF w, whole
  <1> QED
    BY <1>1 DEF TokenInv, Balanced, WholeFrames

\* No token is lost or made, however many streams share the bucket: a frame that
\* a closed stream can no longer give to a reader gives its tokens back in
\* streamClosed, a reader that was overtaken by Close returns what it took, and
\* recvLoop deducts what it stored (session.go recvLoop, streamClosed,
\* returnTokens; stream.go tryRead, recycleTokens).
THEOREM TokensAreConserved == Spec => []TokensConserved
  <1>1. SessionInv /\ TokenInv /\ [Next]_vars => TokenInv'
    <2> SUFFICES ASSUME SessionInv, TokenInv, [Next]_vars PROVE TokenInv'
      OBVIOUS
    <2>0. StreamTypes'
      BY StepTypes
    <2>1. ASSUME NEW x \in Sides, sendLoop(x) \/ recvLoop(x) \/ AcceptStream \/ keepalive(x) \/ sessionClose(x) \/ Vanish(x) \/ UNCHANGED vars
          PROVE  TokenInv'
      <3>1. CASE sendLoop(x) \/ AcceptStream \/ keepalive(x) \/ sessionClose(x) \/ UNCHANGED vars
        BY <3>1, QuietTokens
      <3> QED
        BY <2>0, <2>1, <3>1, RecvTokens, StoreTokens, FrameTokens, VanishTokens DEF recvLoop
    <2>2. ASSUME NEW x \in Sides, NEW s \in Streams,
                 Write(x, s) \/ CloseBegins(x, s) \/ GiveUp(x, s) \/ streamClosed(x, s) \/ Reads(x, s)
                 \/ OpenStream(s) \/ Register(s)
          PROVE  TokenInv'
      BY <2>0, <2>2, QuietTokens, ReadTokens DEF Reads
    <2> QED
      BY <2>1, <2>2, Constants DEF Next
  <1>2. TokenInv => TokensConserved
    BY TokensAre DEF TokenInv
  <1> QED
    BY <1>1, <1>2, InitTokens, SessionInvariant, PTL DEF Spec

-----------------------------------------------------------------------------
(* Frames on their way *)

\* Where frames of one kind for stream s are among the frames w.
on(w, cmd, s) == {i \in 1 .. Len(w) : w[i].cmd = cmd /\ w[i].sid = s}

\* Frames of stream s that have reached x, and were not thrown away.
base(x, s) == Len(got[x][s]) + Len(buffers[x][s])

\* Frames were read in order, and those that can be read come next.
ordered(g, b) ==
  /\ \A i \in 1 .. Len(g) : g[i] = i
  /\ \A j \in 1 .. Len(b) : b[j].num = Len(g) + j

InOrder == \A x \in Sides, s \in Streams : ordered(got[x][s], buffers[x][s])

\* Once a side disappeared nothing is on its way, and the side is silent.
Broken ==
  gone # "none" =>
    /\ \A x \in Sides : wire[x] = <<>> /\ (gone = x => reqs[x] = {})
    /\ \A s \in Streams : /\ gone = "server" => opener[s] = "no"
                          /\ gone = "page" => base("page", s) = 0

\* Nothing fails before.
Working ==
  gone = "none" =>
    \A x \in Sides : ~gaveUp(x) /\ ~readErr[x] /\ \A s \in Streams : writer[x][s] # "err"

\* A stream that is not yet open has no data, and its SYN goes before its data.
Opened(s) ==
  /\ opener[s] # "open" =>
       /\ base("page", s) = 0 /\ s \notin table["server"]
       /\ \A x \in Sides : numWritten[x][s] = 0 /\ closer[x][s] = "no" /\ on(wire[x], "PSH", s) = {}
  /\ opener[s] = "open" => s \in table["server"] \/ closer["server"][s] = "done"
  /\ Len(got["page"][s]) = 0 => closer["page"][s] = "no"
  /\ \A x \in Sides : s \in table[x] => closer[x][s] # "done"

Announced(s) ==
  LET w == wire["server"] IN
  /\ on(wire["page"], "SYN", s) = {}
  /\ s \in table["page"] => opener[s] \in {"sent", "open"}
  /\ \A j \in on(w, "SYN", s) :
       /\ opener[s] \in {"sent", "open"} /\ s \notin table["page"] /\ base("page", s) = 0
       /\ \A i \in on(w, "SYN", s) : i = j
  /\ opener[s] \in {"sent", "open"} =>
       s \in table["page"] \/ closer["page"][s] = "done" \/ on(w, "SYN", s) # {}
  /\ \A i \in on(w, "PSH", s) :
       s \in table["page"] \/ closer["page"][s] = "done" \/ \E j \in on(w, "SYN", s) : j < i

\* A FIN is that of a Close, ...
Closing(x, s) ==
  LET y == peer(x) IN
  /\ closer[y][s] # "no" => promised[y][s] <= written(y, s)
  /\ closer[y][s] = "no" => on(wire[y], "FIN", s) = {} /\ ~fin[x][s]
  /\ reader[x][s] = "EOF" => fin[x][s] /\ (~dead[x][s] => promised[y][s] <= Len(got[x][s]))

\* ... and what was written is at x, or on its way, in order, and what Close
\* promises is before the FIN.
Arriving(x, s) ==
  LET y == peer(x)
      w == wire[y] IN
  /\ base(x, s) <= written(y, s)
  /\ \A i \in on(w, "PSH", s) : base(x, s) < w[i].num /\ w[i].num <= written(y, s)
  /\ \A n \in Nat : base(x, s) < n /\ n <= written(y, s) => \E i \in on(w, "PSH", s) : w[i].num = n
  /\ \A i, j \in on(w, "PSH", s) : i < j => w[i].num < w[j].num
  /\ \A j \in on(w, "FIN", s), n \in Nat :
       base(x, s) < n /\ n <= promised[y][s] => \E i \in on(w, "PSH", s) : i < j /\ w[i].num = n
  /\ fin[x][s] => promised[y][s] <= base(x, s)

Joined(s) ==
  /\ Opened(s) /\ Announced(s)
  /\ \A x \in Sides : Closing(x, s) /\ (closer[x][s] # "done" => Arriving(x, s))

Connected == gone = "none" => \A s \in Streams : Joined(s)

CleanInv == InOrder /\ Broken /\ Working /\ Connected /\ ~dropped

\* Frames of one kind for s in w2 come from those in w, d places later, ...
Comes(w, w2, d, cmd, s) ==
  \A i \in on(w2, cmd, s) : i + d \in on(w, cmd, s) /\ w2[i] = w[i + d]

\* ... and none is missing.
Moved(w, w2, d, cmd, s) ==
  /\ Comes(w, w2, d, cmd, s)
  /\ \A j \in on(w, cmd, s) : j - d \in on(w2, cmd, s) /\ w2[j - d] = w[j]

LEMMA OnIs ==
  ASSUME NEW w \in Seq(Frame), NEW cmd, NEW s, NEW i \in on(w, cmd, s)
  PROVE  i \in Nat /\ i > 0 /\ w[i] \in Frame /\ w[i].num \in Nat /\ w[i].cmd = cmd /\ w[i].sid = s
  <1>1. i \in 1 .. Len(w) /\ w[i].cmd = cmd /\ w[i].sid = s /\ Len(w) \in Nat
    BY DEF on
  <1>2. w[i] \in Frame
    BY <1>1
  <1> QED
    BY <1>1, <1>2 DEF Frame

LEMMA OnTail ==
  ASSUME NEW w \in Seq(Frame), w # <<>>, NEW v, v = Tail(w), NEW cmd, NEW s
  PROVE  /\ \A i \in on(v, cmd, s) : i + 1 \in on(w, cmd, s) /\ v[i] = w[i + 1]
         /\ \A j \in on(w, cmd, s) : j # 1 => j - 1 \in on(v, cmd, s) /\ v[j - 1] = w[j]
         /\ 1 \in on(w, cmd, s) <=> Head(w).cmd = cmd /\ Head(w).sid = s
         /\ Head(w) = w[1]
  <1>1. Len(w) \in Nat \ {0} /\ Len(v) = Len(w) - 1 /\ Head(w) = w[1] /\ \A i \in 1 .. Len(w) - 1 : v[i] = w[i + 1]
    OBVIOUS
  <1> QED
    BY <1>1 DEF on

\* Frames of another kind, or another stream, keep their order.
LEMMA AppendMoved ==
  ASSUME NEW w \in Seq(Frame), NEW f \in Frame, NEW v, v = Append(w, f), NEW cmd, NEW s, f.cmd # cmd \/ f.sid # s
  PROVE  Moved(w, v, 0, cmd, s)
  <1>1. Len(w) \in Nat /\ Len(v) = Len(w) + 1 /\ v[Len(w) + 1] = f /\ \A i \in 1 .. Len(w) : v[i] = w[i]
    OBVIOUS
  <1>2. on(v, cmd, s) = on(w, cmd, s)
    BY <1>1 DEF on
  <1>3. \A i \in on(w, cmd, s) : v[i] = w[i] /\ i + 0 = i /\ i - 0 = i
    BY <1>1 DEF on
  <1> QED
    BY <1>2, <1>3 DEF Moved, Comes

LEMMA TailMoved ==
  ASSUME NEW w \in Seq(Frame), w # <<>>, NEW v, v = Tail(w), NEW cmd, NEW s, Head(w).cmd # cmd \/ Head(w).sid # s
  PROVE  Moved(w, v, 1, cmd, s)
  <1>1. Len(w) \in Nat \ {0} /\ Len(v) = Len(w) - 1 /\ Head(w) = w[1] /\ \A i \in 1 .. Len(w) - 1 : v[i] = w[i + 1]
    OBVIOUS
  <1>2. \A i \in on(v, cmd, s) : i + 1 \in on(w, cmd, s) /\ v[i] = w[i + 1]
    BY <1>1 DEF on
  <1>3. \A j \in on(w, cmd, s) : j - 1 \in on(v, cmd, s) /\ v[j - 1] = w[j]
    BY <1>1 DEF on
  <1> QED
    BY <1>2, <1>3 DEF Moved, Comes

LEMMA SameMoved ==
  ASSUME NEW w \in Seq(Frame), NEW cmd, NEW s
  PROVE  Moved(w, w, 0, cmd, s)
  <1>1. \A i \in on(w, cmd, s) : i \in Nat
    BY OnIs
  <1> QED
    BY <1>1 DEF Moved, Comes

LEMMA BaseType ==
  ASSUME SessionInv, NEW x \in Sides, NEW s \in Streams
  PROVE  /\ base(x, s) \in Nat /\ Len(got[x][s]) \in Nat /\ Len(buffers[x][s]) \in Nat
         /\ written(x, s) \in Nat /\ promised[x][s] \in Nat /\ wire[x] \in Seq(Frame)
  <1>1. Len(got[x][s]) \in Nat /\ Len(buffers[x][s]) \in Nat
    <2>1. got[x][s] \in Seq(Nat) /\ buffers[x][s] \in Seq(Buffer)
      BY DEF SessionInv, StreamTypes
    <2> QED
      BY <2>1
  <1>2. written(x, s) \in Nat /\ promised[x][s] \in Nat /\ wire[x] \in Seq(Frame)
    BY WrittenType DEF SessionInv, StreamTypes, SessionTypes
  <1>3. base(x, s) \in Nat
    <2>1. \A m, n \in Nat : m + n \in Nat
      OBVIOUS
    <2> QED
      BY <1>1, <2>1, Zenon DEF base
  <1> QED
    BY <1>1, <1>2, <1>3

-----------------------------------------------------------------------------
(* What is kept when a stream's ingredients are *)

\* closer is at another place, if at all, only between its beginning and its end.
Beyond(c, c2) == (c2 = "no" <=> c = "no") /\ (c2 = "done" <=> c = "done")

LEMMA OpenedKept ==
  ASSUME SessionInv, NEW s \in Streams, Opened(s), opener'[s] = "open" <=> opener[s] = "open",
         base("page", s)' = base("page", s), Len(got["page"][s]) <= Len(got'["page"][s]),
         Len(got'["page"][s]) \in Nat,
         \A x \in Sides : /\ s \in table'[x] <=> s \in table[x]
                          /\ Beyond(closer[x][s], closer'[x][s])
                          /\ opener[s] # "open" => numWritten'[x][s] = 0
                          /\ \E d \in {0, 1} : Comes(wire[x], wire'[x], d, "PSH", s)
  PROVE  Opened(s)'
  <1>1. \A x \in Sides : on(wire[x], "PSH", s) = {} => on(wire'[x], "PSH", s) = {}
    BY DEF Comes
  <1>2. Len(got'["page"][s]) = 0 => Len(got["page"][s]) = 0
    <2>1. \A m, n \in Nat : m <= n /\ n = 0 => m = 0
      OBVIOUS
    <2> QED
      BY <2>1, BaseType, Constants, Zenon
  <1> QED
    BY <1>1, <1>2, Constants DEF Opened, Beyond

LEMMA AnnouncedKept ==
  ASSUME SessionInv, NEW s \in Streams, Announced(s), opener'[s] \in {"sent", "open"} <=> opener[s] \in {"sent", "open"},
         on(wire["server"], "SYN", s) # {} => base("page", s)' = base("page", s),
         s \in table'["page"] <=> s \in table["page"], Beyond(closer["page"][s], closer'["page"][s]),
         \E d \in {0, 1} : Comes(wire["page"], wire'["page"], d, "SYN", s),
         \E d \in {0, 1} : /\ Moved(wire["server"], wire'["server"], d, "SYN", s)
                           /\ Comes(wire["server"], wire'["server"], d, "PSH", s)
  PROVE  Announced(s)'
  <1> DEFINE w == wire["server"]
             v == wire'["server"]
  <1>0. PICK d \in {0, 1} : Moved(w, v, d, "SYN", s) /\ Comes(w, v, d, "PSH", s)
    OBVIOUS
  <1>1. w \in Seq(Frame)
    BY BaseType, Constants
  <1>2. \A i \in on(w, "SYN", s) \cup on(w, "PSH", s) : i \in Nat
    BY <1>1, OnIs
  <1>6. on(wire'["page"], "SYN", s) = {}
    BY DEF Announced, Comes
  <1> HIDE DEF w, v
  <1>3. on(v, "SYN", s) = {} <=> on(w, "SYN", s) = {}
    BY <1>0 DEF Moved, Comes
  <1>4. ASSUME NEW j \in on(v, "SYN", s)
        PROVE  /\ opener[s] \in {"sent", "open"} /\ s \notin table["page"] /\ base("page", s) = 0
               /\ \A i \in on(v, "SYN", s) : i = j
    <2>1. j + d \in on(w, "SYN", s) /\ \A i \in on(v, "SYN", s) : i + d \in on(w, "SYN", s) /\ i \in Int /\ j \in Int
      BY <1>0, <1>4 DEF Moved, Comes, on
    <2> QED
      BY <2>1 DEF Announced, w
  <1>5. ASSUME NEW i \in on(v, "PSH", s)
        PROVE  s \in table["page"] \/ closer["page"][s] = "done" \/ \E j \in on(v, "SYN", s) : j < i
    <2>1. i + d \in on(w, "PSH", s) /\ i \in Int
      BY <1>0, <1>5 DEF Comes, on
    <2>2. s \in table["page"] \/ closer["page"][s] = "done" \/ \E j \in on(w, "SYN", s) : j < i + d
      BY <2>1 DEF Announced, w
    <2>3. ASSUME NEW j \in on(w, "SYN", s), j < i + d PROVE \E k \in on(v, "SYN", s) : k < i
      BY <1>0, <1>2, <2>1, <2>3 DEF Moved
    <2> QED
      BY <2>2, <2>3
  <1>7. ASSUME NEW j \in on(v, "SYN", s) PROVE base("page", s)' = 0
    BY <1>3, <1>4, <1>7 DEF w
  <1> QED
    BY <1>3, <1>4, <1>5, <1>6, <1>7 DEF Announced, Beyond, w, v

LEMMA ClosingKept ==
  ASSUME SessionInv, NEW x \in Sides, NEW s \in Streams, Closing(x, s),
         Beyond(closer[peer(x)][s], closer'[peer(x)][s]), promised'[peer(x)][s] = promised[peer(x)][s],
         promised[peer(x)][s] <= written(peer(x), s) => promised[peer(x)][s] <= written(peer(x), s)',
         closer[peer(x)][s] = "no" =>
           (\E d \in {0, 1} : Comes(wire[peer(x)], wire'[peer(x)], d, "FIN", s)) /\ (fin'[x][s] => fin[x][s]),
         reader'[x][s] = "EOF" => reader[x][s] = "EOF" /\ fin'[x][s],
         dead[x][s] => dead'[x][s],
         promised[peer(x)][s] <= Len(got[x][s]) => promised[peer(x)][s] <= Len(got'[x][s])
  PROVE  Closing(x, s)'
  <1>1. closer[peer(x)][s] = "no" /\ on(wire[peer(x)], "FIN", s) = {} => on(wire'[peer(x)], "FIN", s) = {}
    BY DEF Comes
  <1> QED
    BY <1>1 DEF Closing, Beyond

LEMMA ArrivingKept ==
  ASSUME SessionInv, NEW x \in Sides, NEW s \in Streams, Arriving(x, s),
         base(x, s)' = base(x, s), written(peer(x), s)' = written(peer(x), s),
         promised'[peer(x)][s] = promised[peer(x)][s], fin'[x][s] => fin[x][s],
         \E d \in {0, 1} : /\ Moved(wire[peer(x)], wire'[peer(x)], d, "PSH", s)
                           /\ Comes(wire[peer(x)], wire'[peer(x)], d, "FIN", s)
  PROVE  Arriving(x, s)'
  <1> DEFINE y == peer(x)
             w == wire[y]
             v == wire'[y]
             b == base(x, s)
  <1>0. PICK d \in {0, 1} : Comes(w, v, d, "FIN", s) /\ Moved(w, v, d, "PSH", s)
    OBVIOUS
  <1>1. w \in Seq(Frame) /\ y \in Sides
    BY BaseType, Constants
  <1>2. \A i \in on(w, "FIN", s) \cup on(w, "PSH", s) : i \in Nat
    BY <1>1, OnIs
  <1>3. \A i \in on(v, "FIN", s) \cup on(v, "PSH", s) : i \in Int
    BY DEF on
  <1>4. /\ b <= written(y, s)
        /\ \A i \in on(w, "PSH", s) : b < w[i].num /\ w[i].num <= written(y, s)
        /\ \A n \in Nat : b < n /\ n <= written(y, s) => \E i \in on(w, "PSH", s) : w[i].num = n
        /\ \A i, j \in on(w, "PSH", s) : i < j => w[i].num < w[j].num
        /\ \A j \in on(w, "FIN", s), n \in Nat :
             b < n /\ n <= promised[y][s] => \E i \in on(w, "PSH", s) : i < j /\ w[i].num = n
        /\ fin[x][s] => promised[y][s] <= b
    BY DEF Arriving
  <1> HIDE DEF y, w, v, b
  <1>5. \A i \in on(v, "PSH", s) : b < v[i].num /\ v[i].num <= written(y, s)
    BY <1>0, <1>4 DEF Moved, Comes
  <1>6. \A n \in Nat : b < n /\ n <= written(y, s) => \E i \in on(v, "PSH", s) : v[i].num = n
    BY <1>0, <1>4 DEF Moved, Comes
  <1>7. ASSUME NEW i \in on(v, "PSH", s), NEW j \in on(v, "PSH", s), i < j PROVE v[i].num < v[j].num
    <2>1. i + d < j + d
      BY <1>3, <1>7
    <2> QED
      BY <1>0, <1>4, <1>7, <2>1 DEF Moved, Comes
  <1>8. ASSUME NEW j \in on(v, "FIN", s), NEW n \in Nat, b < n, n <= promised[y][s]
        PROVE  \E i \in on(v, "PSH", s) : i < j /\ v[i].num = n
    <2>1. j + d \in on(w, "FIN", s) /\ j \in Int
      BY <1>0, <1>3 DEF Moved, Comes
    <2>2. PICK i \in on(w, "PSH", s) : i < j + d /\ w[i].num = n
      BY <1>4, <1>8, <2>1
    <2>3. i - d \in on(v, "PSH", s) /\ v[i - d] = w[i]
      BY <1>0 DEF Moved, Comes
    <2>4. i - d < j
      BY <1>2, <2>1, <2>2
    <2> QED
      BY <2>2, <2>3, <2>4
  <1> QED
    BY <1>4, <1>5, <1>6, <1>7, <1>8 DEF Arriving, y, w, v, b

LEMMA InitClean == Init => CleanInv
  <1> SUFFICES ASSUME Init PROVE CleanInv
    OBVIOUS
  <1>1. \A x \in Sides, s \in Streams :
          /\ got[x][s] = <<>> /\ buffers[x][s] = <<>> /\ numWritten[x][s] = 0 /\ promised[x][s] = 0
          /\ writer[x][s] = "idle" /\ closer[x][s] = "no" /\ reader[x][s] = "no" /\ ~fin[x][s] /\ opener[s] = "no"
    BY DEF Init
  <1>2. \A x \in Sides : wire[x] = <<>> /\ table[x] = {} /\ ~gaveUp(x) /\ ~readErr[x]
    BY DEF Init, gaveUp
  <1>3. gone = "none" /\ ~dropped
    BY DEF Init
  <1>4. \A cmd, s : on(<<>>, cmd, s) = {}
    BY DEF on
  <1>5. \A x \in Sides, s \in Streams : base(x, s) = 0 /\ written(x, s) = 0
    <2>1. Len(<<>>) = 0 /\ 0 + 0 = 0 /\ 0 - 0 = 0
      OBVIOUS
    <2> QED
      BY <1>1, <2>1 DEF base, written
  <1>6. InOrder
    BY <1>1 DEF InOrder, ordered
  <1>7. Working
    BY <1>1, <1>2 DEF Working
  <1>8. ASSUME NEW s \in Streams PROVE Opened(s) /\ Announced(s)
    BY <1>1, <1>2, <1>4, <1>5, Constants DEF Opened, Announced
  <1>9. ASSUME NEW x \in Sides, NEW s \in Streams PROVE Closing(x, s) /\ Arriving(x, s)
    BY <1>1, <1>2, <1>4, <1>5, Constants DEF Closing, Arriving
  <1> QED
    BY <1>3, <1>6, <1>7, <1>8, <1>9 DEF CleanInv, Broken, Connected, Joined

\* A frame read to its end moves from the buffers to what was got.
LEMMA TakeOrder ==
  ASSUME SessionInv, InOrder, NEW x \in Sides, NEW s \in Streams, Take(x, s)
  PROVE  /\ InOrder'
         /\ \A y \in Sides, t \in Streams : base(y, t)' = base(y, t) /\ Len(got[y][t]) <= Len(got'[y][t])
  <1> DEFINE b == buffers[x][s]
             g == got[x][s]
             h == Head(b)
  <1>1. PICK k \in Nat \ {0} :
          /\ k <= h.left /\ b # <<>> /\ rest(b, k) \in Seq(Buffer)
          /\ buffers' = of(buffers, x, s, rest(b, k))
          /\ got' = IF k = h.left THEN of(got, x, s, Append(g, h.num)) ELSE got
    BY TakeIs DEF SessionInv
  <1>2. \A y \in Sides, t \in Streams : ~(y = x /\ t = s) => buffers'[y][t] = buffers[y][t] /\ got'[y][t] = got[y][t]
    <2>1. \A v : \A y \in Sides, t \in Streams : of(buffers, x, s, v)[y][t] = IF y = x /\ t = s THEN v ELSE buffers[y][t]
      BY DEF of, SessionInv, StreamTypes
    <2>2. \A v : \A y \in Sides, t \in Streams : of(got, x, s, v)[y][t] = IF y = x /\ t = s THEN v ELSE got[y][t]
      BY DEF of, SessionInv, StreamTypes
    <2> QED
      BY <1>1, <2>1, <2>2
  <1>3. buffers'[x][s] = rest(b, k) /\ got'[x][s] = IF k = h.left THEN Append(g, h.num) ELSE g
    BY <1>1 DEF of, SessionInv, StreamTypes
  <1>4. b \in Seq(Buffer) /\ g \in Seq(Nat)
    BY DEF SessionInv, StreamTypes
  <1>5. /\ \A i \in 1 .. Len(g) : g[i] = i
        /\ \A j \in 1 .. Len(b) : b[j].num = Len(g) + j
    BY DEF InOrder, ordered
  <1>6. Len(b) \in Nat \ {0} /\ h = b[1] /\ Len(g) \in Nat /\ h \in Buffer
    BY <1>1, <1>4
  <1> DEFINE c == buffers'[x][s]
             q == got'[x][s]
  <1>7. /\ \A i \in 1 .. Len(q) : q[i] = i
        /\ \A j \in 1 .. Len(c) : c[j].num = Len(q) + j
        /\ Len(q) + Len(c) = Len(g) + Len(b) /\ Len(g) <= Len(q)
    <2>1. CASE k = h.left
      <3>1. c = Tail(b) /\ q = Append(g, h.num)
        BY <1>3, <2>1 DEF rest
      <3>2. Len(c) = Len(b) - 1 /\ \A j \in 1 .. Len(b) - 1 : c[j] = b[j + 1]
        <4>1. Len(Tail(b)) = Len(b) - 1 /\ \A j \in 1 .. Len(b) - 1 : Tail(b)[j] = b[j + 1]
          BY <1>1, <1>4
        <4> HIDE DEF b, c
        <4> QED
          BY <3>1, <4>1
      <3>3. Len(q) = Len(g) + 1 /\ q[Len(g) + 1] = h.num /\ \A i \in 1 .. Len(g) : q[i] = g[i]
        <4>1. h.num \in Nat
          BY <1>6 DEF Buffer
        <4> QED
          BY <1>4, <3>1, <4>1
      <3>4. h.num = Len(g) + 1
        BY <1>5, <1>6
      <3> HIDE DEF b, g, h, c, q
      <3>5. \A i \in 1 .. Len(q) : q[i] = i
        BY <1>5, <1>6, <3>3, <3>4
      <3>6. \A j \in 1 .. Len(c) : c[j].num = Len(q) + j
        BY <1>5, <1>6, <3>2, <3>3
      <3> QED
        BY <1>6, <3>2, <3>3, <3>5, <3>6
    <2>2. CASE k # h.left
      <3> DEFINE e == [h EXCEPT !.left = @ - k]
      <3>1. c = <<e>> \o Tail(b) /\ q = g
        BY <1>3, <2>2 DEF rest
      <3>2. e.num = h.num
        BY <1>6 DEF Buffer
      <3>3. Tail(b) \in Seq(Buffer) /\ Len(Tail(b)) = Len(b) - 1 /\ \A j \in 1 .. Len(b) - 1 : Tail(b)[j] = b[j + 1]
        BY <1>1, <1>4
      <3> HIDE DEF e
      <3>4. Len(c) = Len(b) /\ \A j \in 1 .. Len(c) : c[j] = IF j = 1 THEN e ELSE b[j]
        BY <1>6, <3>1, <3>3
      <3> HIDE DEF b, g, h, c, q
      <3> QED
        BY <1>5, <1>6, <3>1, <3>2, <3>4
    <2> QED
      BY <2>1, <2>2
  <1>8. InOrder'
    <2>1. ordered(q, c)
      BY <1>7 DEF ordered
    <2>2. ASSUME NEW y \in Sides, NEW t \in Streams PROVE ordered(got'[y][t], buffers'[y][t])
      <3>1. CASE y = x /\ t = s
        BY <2>1, <3>1
      <3>2. CASE ~(y = x /\ t = s)
        BY <1>2, <3>2 DEF InOrder
      <3> QED
        BY <3>1, <3>2
    <2> QED
      BY <2>2 DEF InOrder
  <1>9. ASSUME NEW y \in Sides, NEW t \in Streams
        PROVE  base(y, t)' = base(y, t) /\ Len(got[y][t]) <= Len(got'[y][t])
    <2>1. CASE y = x /\ t = s
      BY <1>7, <2>1 DEF base
    <2>2. CASE ~(y = x /\ t = s)
      <3>1. Len(got[y][t]) \in Nat /\ Len(got[y][t]) <= Len(got[y][t])
        <4>1. \A n \in Nat : n <= n
          OBVIOUS
        <4> QED
          BY <4>1, BaseType
      <3>2. got'[y][t] = got[y][t] /\ buffers'[y][t] = buffers[y][t]
        BY <1>2, <2>2
      <3> QED
        BY <3>1, <3>2, Zenon DEF base
    <2> QED
      BY <2>1, <2>2
  <1> QED
    BY <1>8, <1>9

\* A stream that is closed forgets its data.
LEMMA ClosedOrder ==
  ASSUME SessionInv, InOrder, NEW x \in Sides, NEW s \in Streams, streamClosed(x, s)
  PROVE  /\ InOrder' /\ got' = got
         /\ \A y \in Sides, t \in Streams : base(y, t)' = IF y = x /\ t = s THEN Len(got[x][s]) ELSE base(y, t)
  <1>1. \A y \in Sides, t \in Streams : buffers'[y][t] = IF y = x /\ t = s THEN <<>> ELSE buffers[y][t]
    BY DEF streamClosed, of, SessionInv, StreamTypes
  <1>2. got' = got
    BY DEF streamClosed, readVars
  <1>3. \A n \in Nat : n + 0 = n
    OBVIOUS
  <1>4. \A y \in Sides, t \in Streams : Len(got[y][t]) \in Nat
    BY BaseType
  <1>5. \A y \in Sides, t \in Streams : base(y, t)' = IF y = x /\ t = s THEN Len(got[x][s]) ELSE base(y, t)
    BY <1>1, <1>2, <1>3, <1>4 DEF base
  <1>6. InOrder'
    <2>1. \A y \in Sides, t \in Streams : ordered(got[y][t], <<>>) /\ ordered(got[y][t], buffers[y][t])
      BY DEF InOrder, ordered
    <2>2. ASSUME NEW y \in Sides, NEW t \in Streams PROVE ordered(got'[y][t], buffers'[y][t])
      BY <1>1, <1>2, <2>1
    <2> QED
      BY <2>2 DEF InOrder
  <1> QED
    BY <1>2, <1>5, <1>6

LEMMA SameOrder ==
  ASSUME InOrder, UNCHANGED <<got, buffers>>
  PROVE  InOrder' /\ \A y \in Sides, t \in Streams : base(y, t)' = base(y, t)
  BY DEF InOrder, base

-----------------------------------------------------------------------------
(* After a side disappeared *)

LEMMA BrokenKept ==
  ASSUME CleanInv, gone # "none", UNCHANGED <<gone, wire, dropped>>, InOrder', reqs'[gone] = {},
         gone = "server" => \A s \in Streams : opener'[s] = "no",
         gone = "page" => \A s \in Streams : base("page", s)' = 0
  PROVE  CleanInv'
  BY DEF CleanInv, Broken, Working, Connected

LEMMA GoneIsSilent ==
  ASSUME SessionInv, CleanInv, gone # "none"
  PROVE  /\ gone \in Sides /\ reqs[gone] = {}
         /\ \A x \in Sides : x # gone => cut(x)
         /\ \A x \in Sides : wire[x] = <<>>
         /\ \A s \in Streams : /\ ~usable(gone, s)
                               /\ gone = "server" => opener[s] = "no"
                               /\ gone = "page" => base("page", s) = 0 /\ Len(got["page"][s]) = 0
  <1>1. gone \in Sides
    BY DEF SessionInv, SessionTypes
  <1>2. /\ reqs[gone] = {} /\ \A x \in Sides : wire[x] = <<>>
        /\ \A s \in Streams : (gone = "server" => opener[s] = "no") /\ (gone = "page" => base("page", s) = 0)
    BY <1>1 DEF CleanInv, Broken
  <1>3. \A x \in Sides : x # gone => cut(x)
    BY <1>1 DEF cut, peer, Sides
  <1>4. \A s \in Streams : gone = "page" => Len(got["page"][s]) = 0
    <2>1. ASSUME NEW s \in Streams, gone = "page" PROVE Len(got["page"][s]) = 0
      <3>1. Len(got["page"][s]) \in Nat /\ Len(buffers["page"][s]) \in Nat
        BY BaseType, Constants
      <3>2. Len(got["page"][s]) + Len(buffers["page"][s]) = 0
        BY <1>2, <2>1 DEF base
      <3>3. \A m, n \in Nat : m + n = 0 => m = 0
        OBVIOUS
      <3> QED
        BY <3>1, <3>2, <3>3, Zenon
    <2> QED
      BY <2>1
  <1>5. \A s \in Streams : ~usable(gone, s)
    BY <1>1, <1>2, <1>4 DEF usable, Sides
  <1> QED
    BY <1>1, <1>2, <1>3, <1>4, <1>5

\* A step of a side leaves the requests of the other alone.
LEMMA OthersRequests ==
  ASSUME SessionInv, NEW x \in Sides, NEW y \in Sides, y # x,
         \/ \E prio, cmd, s, num : request(x, prio, cmd, s, num)
         \/ \E v : reqs' = [reqs EXCEPT ![x] = v]
         \/ reqs' = reqs
  PROVE  reqs'[y] = reqs[y]
  BY DEF request, SessionInv, SessionTypes

LEMMA BrokenStep ==
  ASSUME SessionInv, CleanInv, gone # "none", [Next]_vars
  PROVE  CleanInv'
  <1>0. /\ gone \in Sides /\ reqs[gone] = {}
        /\ \A x \in Sides : x # gone => cut(x)
        /\ \A x \in Sides : wire[x] = <<>>
        /\ \A s \in Streams : /\ ~usable(gone, s)
                              /\ gone = "server" => opener[s] = "no"
                              /\ gone = "page" => base("page", s) = 0 /\ Len(got["page"][s]) = 0
    BY GoneIsSilent
  <1>i. InOrder
    BY DEF CleanInv
  <1>s. ASSUME UNCHANGED <<gone, wire, dropped, got, buffers>>, reqs'[gone] = {},
               gone = "server" => \A s \in Streams : opener'[s] = "no"
        PROVE  CleanInv'
    <2>1. InOrder' /\ \A y \in Sides, t \in Streams : base(y, t)' = base(y, t)
      BY <1>i, <1>s, SameOrder
    <2>2. gone = "page" => \A s \in Streams : base("page", s)' = 0
      BY <1>0, <2>1, Constants
    <2> QED
      BY <1>s, <2>1, <2>2, BrokenKept
  <1>1. ASSUME NEW x \in Sides, sendLoop(x) PROVE CleanInv'
    <2>1. PICK r \in reqs[x] : \E ok \in BOOLEAN :
            /\ cut(x) => wire' = wire
            /\ \E v : reqs' = [reqs EXCEPT ![x] = v]
            /\ finish(x, r.frame, ok)
      BY <1>1 DEF sendLoop
    <2>2. x # gone /\ wire' = wire
      BY <1>0, <2>1
    <2>3. reqs'[gone] = {}
      BY <1>0, <2>1, <2>2, OthersRequests
    <2>4. UNCHANGED <<gone, dropped, got, buffers>>
      BY <1>1 DEF sendLoop, linkVars, readVars, streamVars
    <2>5. gone = "server" => opener' = opener
      <3>1. r.frame.cmd \in {"SYN", "FIN", "PSH"} /\ Pending(x, r)
        BY <2>1 DEF SessionInv, SessionTypes, Orderly, Request, Frame
      <3>2. gone = "server" => r.frame.cmd # "SYN"
        BY <2>2, <3>1 DEF Pending
      <3> QED
        BY <2>1, <3>1, <3>2 DEF finish
    <2> QED
      BY <1>0, <1>s, <2>2, <2>3, <2>4, <2>5
  <1>2. ASSUME NEW x \in Sides, recvLoop(x) PROVE CleanInv'
    <2>1. ~recvFrame(x)
      BY <1>0, Constants DEF recvFrame
    <2>2. UNCHANGED <<gone, wire, dropped, got, buffers, reqs, opener>>
      BY <1>2, <2>1 DEF recvLoop, recvSleep, recvWait, recvError, recvStore, others, linkVars, readVars, streamVars
    <2> QED
      BY <1>0, <1>s, <2>2
  <1>3. ASSUME NEW x \in Sides, keepalive(x) \/ sessionClose(x) PROVE CleanInv'
    <2>1. UNCHANGED <<gone, wire, dropped, got, buffers, opener>>
          /\ (reqs' = reqs \/ reqs' = [reqs EXCEPT ![x] = {}])
      BY <1>3 DEF keepalive, sessionClose, sendVars, linkVars, streamVars, readVars
    <2>2. reqs'[gone] = {}
      BY <1>0, <2>1 DEF SessionInv, SessionTypes
    <2> QED
      BY <1>0, <1>s, <2>1, <2>2
  <1>4. ASSUME NEW x \in Sides, NEW s \in Streams, Write(x, s) \/ CloseBegins(x, s) PROVE CleanInv'
    <2>1. UNCHANGED <<gone, wire, dropped, got, buffers, opener>> /\ usable(x, s)
          /\ \E prio, cmd, t, num : request(x, prio, cmd, t, num)
      BY <1>4 DEF Write, CloseBegins, linkVars, readVars, streamVars
    <2>2. x # gone
      BY <1>0, <2>1
    <2>3. reqs'[gone] = {}
      BY <1>0, <2>1, <2>2, OthersRequests
    <2> QED
      BY <1>0, <1>s, <2>1, <2>3
  <1>5. ASSUME NEW x \in Sides, NEW s \in Streams, GiveUp(x, s) PROVE CleanInv'
    <2>1. UNCHANGED <<gone, wire, dropped, got, buffers, reqs>>
      BY <1>5 DEF GiveUp, sendVars, linkVars, readVars, streamVars
    <2>2. gone = "server" => opener' = opener
      BY <1>0, <1>5 DEF GiveUp
    <2> QED
      BY <1>0, <1>s, <2>1, <2>2
  <1>6. ASSUME NEW x \in Sides, NEW s \in Streams, streamClosed(x, s) PROVE CleanInv'
    <2>1. UNCHANGED <<gone, wire, dropped, reqs, opener>>
      BY <1>6 DEF streamClosed, sendVars, linkVars
    <2>2. InOrder' /\ \A y \in Sides, t \in Streams :
                        base(y, t)' = IF y = x /\ t = s THEN Len(got[x][s]) ELSE base(y, t)
      BY <1>6, <1>i, ClosedOrder
    <2>3. gone = "page" => \A t \in Streams : base("page", t)' = 0
      BY <1>0, <2>2, Constants
    <2> QED
      BY <1>0, <2>1, <2>2, <2>3, BrokenKept
  <1>7. ASSUME NEW x \in Sides, NEW s \in Streams, Reads(x, s) PROVE CleanInv'
    <2>1. UNCHANGED <<gone, wire, dropped, reqs, opener>>
      BY <1>7 DEF Reads, Take, returnTokens, TakeNothing, waitRead, sendVars, linkVars
    <2>2. CASE Take(x, s)
      <3>1. InOrder' /\ \A y \in Sides, t \in Streams : base(y, t)' = base(y, t)
        BY <1>i, <2>2, TakeOrder
      <3>2. gone = "page" => \A t \in Streams : base("page", t)' = 0
        BY <1>0, <3>1, Constants
      <3> QED
        BY <1>0, <2>1, <3>1, <3>2, BrokenKept
    <2>3. CASE ~Take(x, s)
      <3>1. UNCHANGED <<got, buffers>>
        BY <1>7, <2>3 DEF Reads, returnTokens, TakeNothing, waitRead, streamVars
      <3> QED
        BY <1>0, <1>s, <2>1, <3>1
    <2> QED
      BY <2>2, <2>3
  <1>8. ASSUME NEW s \in Streams, OpenStream(s) \/ Register(s) PROVE CleanInv'
    <2>1. UNCHANGED <<gone, wire, dropped, got, buffers>> /\ gone # "server"
      BY <1>0, <1>8 DEF OpenStream, Register, sendVars, linkVars, readVars, streamVars
    <2>2. reqs' = reqs \/ \E prio, cmd, t, num : request("server", prio, cmd, t, num)
      BY <1>8 DEF OpenStream, Register, sendVars
    <2>3. reqs'[gone] = {}
      BY <1>0, <2>1, <2>2, OthersRequests, Constants
    <2> QED
      BY <1>s, <2>1, <2>3
  <1>9. CASE AcceptStream \/ UNCHANGED vars
    <2>1. UNCHANGED <<gone, wire, dropped, got, buffers, reqs, opener>>
      BY <1>9 DEF AcceptStream, vars, sendVars, linkVars, readVars, streamVars
    <2> QED
      BY <1>0, <1>s, <2>1
  <1>10. \A x \in Sides : ~Vanish(x)
    BY DEF Vanish
  <1> QED
    BY <1>1, <1>2, <1>3, <1>4, <1>5, <1>6, <1>7, <1>8, <1>9, <1>10 DEF Next

-----------------------------------------------------------------------------
(* While both sides are there *)

\* A step that leaves a stream alone, but for what may happen to it at any time.
Calm(s) ==
  /\ opener'[s] = "open" <=> opener[s] = "open"
  /\ opener'[s] \in {"sent", "open"} <=> opener[s] \in {"sent", "open"}
  /\ \A x \in Sides :
       /\ opener[s] # "open" => numWritten'[x][s] = numWritten[x][s]
       /\ base(x, s)' = base(x, s)
       /\ Len(got'[x][s]) \in Nat /\ Len(got[x][s]) <= Len(got'[x][s])
       /\ s \in table'[x] <=> s \in table[x]
       /\ Beyond(closer[x][s], closer'[x][s])
       /\ written(x, s)' = written(x, s) /\ promised'[x][s] = promised[x][s]
       /\ fin'[x][s] <=> fin[x][s]
       /\ dead[x][s] => dead'[x][s]
       /\ reader'[x][s] = "EOF" => reader[x][s] = "EOF"
       /\ \E d \in {0, 1} : \A cmd \in {"SYN", "PSH", "FIN"} : Moved(wire[x], wire'[x], d, cmd, s)

LEMMA LessKept ==
  ASSUME NEW l \in Nat, NEW m \in Nat, NEW n \in Nat, l <= m, m <= n
  PROVE  l <= n
  OBVIOUS

LEMMA CalmKept ==
  ASSUME SessionInv, NEW s \in Streams, Joined(s), Calm(s)
  PROVE  Joined(s)'
  <1>1. \A x \in Sides : \E d \in {0, 1} : \A cmd \in {"SYN", "PSH", "FIN"} :
          Moved(wire[x], wire'[x], d, cmd, s) /\ Comes(wire[x], wire'[x], d, cmd, s)
    BY DEF Calm, Moved
  <1>2. Opened(s)'
    <2>1. opener[s] # "open" => \A x \in Sides : numWritten'[x][s] = 0
      BY DEF Joined, Opened, Calm
    <2> QED
      BY <1>1, <2>1, OpenedKept, Constants DEF Joined, Calm
  <1>3. Announced(s)'
    BY <1>1, AnnouncedKept, Constants DEF Joined, Calm
  <1>4. ASSUME NEW x \in Sides PROVE Closing(x, s)'
    <2>1. peer(x) \in Sides
      BY Constants
    <2>2. promised[peer(x)][s] <= Len(got[x][s]) => promised[peer(x)][s] <= Len(got'[x][s])
      BY <2>1, LessKept, BaseType DEF Calm
    <2>3. reader'[x][s] = "EOF" => reader[x][s] = "EOF" /\ fin'[x][s]
      BY DEF Calm, Joined, Closing
    <2>4. closer[peer(x)][s] = "no" =>
           (\E d \in {0, 1} : Comes(wire[peer(x)], wire'[peer(x)], d, "FIN", s)) /\ (fin'[x][s] => fin[x][s])
      BY <1>1, <2>1 DEF Calm
    <2>5. /\ Beyond(closer[peer(x)][s], closer'[peer(x)][s]) /\ promised'[peer(x)][s] = promised[peer(x)][s]
          /\ promised[peer(x)][s] <= written(peer(x), s) => promised[peer(x)][s] <= written(peer(x), s)'
          /\ dead[x][s] => dead'[x][s]
      BY <2>1 DEF Calm
    <2> QED
      BY <2>2, <2>3, <2>4, <2>5, ClosingKept DEF Joined
  <1>5. ASSUME NEW x \in Sides, closer'[x][s] # "done" PROVE Arriving(x, s)'
    <2>1. peer(x) \in Sides
      BY Constants
    <2>2. Arriving(x, s)
      BY <1>5 DEF Joined, Calm, Beyond
    <2>3. \E d \in {0, 1} : /\ Moved(wire[peer(x)], wire'[peer(x)], d, "PSH", s)
                            /\ Comes(wire[peer(x)], wire'[peer(x)], d, "FIN", s)
      BY <1>1, <2>1
    <2>4. /\ base(x, s)' = base(x, s) /\ written(peer(x), s)' = written(peer(x), s)
          /\ promised'[peer(x)][s] = promised[peer(x)][s] /\ (fin'[x][s] => fin[x][s])
      BY <2>1 DEF Calm
    <2> QED
      BY <2>2, <2>3, <2>4, ArrivingKept
  <1> QED
    BY <1>2, <1>3, <1>4, <1>5 DEF Joined

LEMMA StillCalm ==
  ASSUME SessionInv, NEW s \in Streams, opener'[s] = opener[s],
         \A x \in Sides :
           /\ got'[x][s] = got[x][s] /\ buffers'[x][s] = buffers[x][s]
           /\ numWritten'[x][s] = numWritten[x][s] /\ writer'[x][s] = writer[x][s]
           /\ promised'[x][s] = promised[x][s] /\ closer'[x][s] = closer[x][s]
           /\ fin'[x][s] = fin[x][s] /\ (dead[x][s] => dead'[x][s])
           /\ s \in table'[x] <=> s \in table[x]
           /\ reader'[x][s] = "EOF" => reader[x][s] = "EOF"
           /\ \E d \in {0, 1} : \A cmd \in {"SYN", "PSH", "FIN"} : Moved(wire[x], wire'[x], d, cmd, s)
  PROVE  Calm(s)
  <1>1. \A x \in Sides : base(x, s)' = base(x, s) /\ written(x, s)' = written(x, s)
    BY DEF base, written
  <1>2. \A x \in Sides : Len(got'[x][s]) \in Nat /\ Len(got[x][s]) <= Len(got'[x][s])
    <2>1. \A n \in Nat : n <= n
      OBVIOUS
    <2>2. \A x \in Sides : Len(got[x][s]) \in Nat /\ Len(got'[x][s]) = Len(got[x][s])
      BY BaseType
    <2> QED
      BY <2>1, <2>2, Zenon
  <1> QED
    BY <1>1, <1>2 DEF Calm, Beyond

\* Nothing was sent or received.
LEMMA SameWire ==
  ASSUME SessionInv, wire' = wire
  PROVE  \A s : \A x \in Sides : \E d \in {0, 1} : \A cmd \in {"SYN", "PSH", "FIN"} : Moved(wire[x], wire'[x], d, cmd, s)
  BY SameMoved DEF SessionInv, SessionTypes

LEMMA CleanStep ==
  ASSUME gone' = "none", InOrder', Working', ~dropped', \A s \in Streams : Joined(s)'
  PROVE  CleanInv'
  BY DEF CleanInv, Broken, Connected

LEMMA WorkingKept ==
  ASSUME CleanInv, gone = "none", UNCHANGED <<die, sendErr, readErr>>,
         \A x \in Sides, s \in Streams : writer'[x][s] = "err" => writer[x][s] = "err"
  PROVE  Working'
  BY DEF CleanInv, Working, gaveUp

LEMMA AllCalm ==
  ASSUME SessionInv, CleanInv, gone = "none", UNCHANGED <<gone, die, sendErr, readErr, dropped>>, InOrder',
         \A x \in Sides, s \in Streams : writer'[x][s] = "err" => writer[x][s] = "err",
         \A s \in Streams : Calm(s)
  PROVE  CleanInv'
  <1>1. \A s \in Streams : Joined(s)'
    BY CalmKept DEF CleanInv, Connected
  <1>2. Working'
    BY WorkingKept
  <1> QED
    BY <1>1, <1>2, CleanStep DEF CleanInv

LEMMA QuietClean ==
  ASSUME SessionInv, CleanInv, gone = "none",
         UNCHANGED <<gone, die, sendErr, readErr, dropped, wire, table, buffers, fin, dead, opener, writer,
                     numWritten, closer, promised, got>>,
         \A x \in Sides, s \in Streams : reader'[x][s] = "EOF" => reader[x][s] = "EOF"
  PROVE  CleanInv'
  <1>1. InOrder'
    BY SameOrder DEF CleanInv
  <1>2. \A s \in Streams : Calm(s)
    BY StillCalm, SameWire
  <1> QED
    BY <1>1, <1>2, AllCalm

LEMMA ReaderOnly ==
  ASSUME SessionInv, NEW x \in Sides, NEW s \in Streams, NEW l, reader' = of(reader, x, s, l)
  PROVE  \A y \in Sides, t \in Streams : reader'[y][t] = IF y = x /\ t = s THEN l ELSE reader[y][t]
  BY DEF of, SessionInv, StreamTypes

LEMMA IdleClean ==
  ASSUME SessionInv, CleanInv, gone = "none",
         \/ AcceptStream \/ UNCHANGED vars
         \/ \E x \in Sides : recvSleep(x) \/ recvWait(x) \/ recvStore(x)
         \/ \E x \in Sides, s \in Streams : returnTokens(x, s) \/ TakeNothing(x, s)
  PROVE  CleanInv'
  <1>1. UNCHANGED <<gone, die, sendErr, readErr, dropped, wire, table, buffers, fin, dead, opener, writer,
                    numWritten, closer, promised, got>>
    BY DEF AcceptStream, vars, recvSleep, recvWait, recvStore, returnTokens, TakeNothing, others, sendVars, linkVars,
           streamVars, writeVars, closeVars, readVars
  <1>2. \A y \in Sides, t \in Streams : reader'[y][t] = "EOF" => reader[y][t] = "EOF"
    <2>1. CASE AcceptStream
      <3>1. Head(accepts) \in Streams /\ reader' = of(reader, "page", Head(accepts), "try")
        BY <2>1 DEF AcceptStream, SessionInv, SessionTypes
      <3> QED
        BY <3>1, ReaderOnly, Constants
    <2>2. CASE \E x \in Sides, s \in Streams : returnTokens(x, s) \/ TakeNothing(x, s)
      <3>1. PICK x \in Sides, s \in Streams : returnTokens(x, s) \/ TakeNothing(x, s)
        BY <2>2
      <3>2. \E l \in {"try", "closed", "wait"} : reader' = of(reader, x, s, l)
        BY <3>1 DEF returnTokens, TakeNothing
      <3> QED
        BY <3>2, ReaderOnly
    <2>3. CASE UNCHANGED vars \/ \E x \in Sides : recvSleep(x) \/ recvWait(x) \/ recvStore(x)
      BY <2>3 DEF vars, recvSleep, recvWait, recvStore, others, readVars
    <2> QED
      BY <2>1, <2>2, <2>3
  <1> QED
    BY <1>1, <1>2, QuietClean

\* A reader is told EOF when everything the FIN follows has been read.
LEMMA WaitClean ==
  ASSUME SessionInv, CleanInv, gone = "none", NEW x \in Sides, NEW s \in Streams, waitRead(x, s)
  PROVE  CleanInv'
  <1>1. UNCHANGED <<gone, die, sendErr, readErr, dropped, wire, table, buffers, fin, dead, opener, writer,
                    numWritten, closer, promised, got>>
    BY DEF waitRead, sendVars, linkVars, writeVars, closeVars
  <1>2. PICK l : reader' = of(reader, x, s, l) /\ (l = "EOF" => fin[x][s] /\ buffers[x][s] = <<>>)
    <2>1. \E l \in {"try", "err", "closed", finSeen(x, s)} :
             reader' = of(reader, x, s, l) /\ (l \notin {"try", "err", "closed"} => fin[x][s])
      BY DEF waitRead
    <2>2. PICK l \in {"try", "err", "closed", finSeen(x, s)} :
             reader' = of(reader, x, s, l) /\ (l \notin {"try", "err", "closed"} => fin[x][s])
      BY <2>1
    <2>3. l = "EOF" => fin[x][s] /\ buffers[x][s] = <<>>
      BY <2>2 DEF finSeen
    <2> QED
      BY <2>2, <2>3
  <1>3. \A y \in Sides, t \in Streams : reader'[y][t] = IF y = x /\ t = s THEN l ELSE reader[y][t]
    BY <1>2, ReaderOnly
  <1>4. CASE l # "EOF"
    BY <1>1, <1>3, <1>4, QuietClean
  <1>5. CASE l = "EOF"
    <2>1. InOrder' /\ \A y \in Sides, t \in Streams : base(y, t)' = base(y, t)
      BY <1>1, SameOrder DEF CleanInv
    <2>2. \A t \in Streams : Joined(t)
      BY DEF CleanInv, Connected
    <2>3. \A y \in Sides, t \in Streams : written(y, t)' = written(y, t)
      BY <1>1 DEF written
    <2>4. ASSUME ~dead[x][s] PROVE promised[peer(x)][s] <= Len(got[x][s])
      <3>1. closer[x][s] # "done"
        BY <2>4 DEF SessionInv, Orderly
      <3>2. promised[peer(x)][s] <= base(x, s)
        BY <1>2, <1>5, <2>2, <3>1 DEF Joined, Arriving
      <3>3. base(x, s) = Len(got[x][s])
        <4>1. \A n \in Nat : n + Len(<<>>) = n
          OBVIOUS
        <4> QED
          BY <1>2, <1>5, <4>1, BaseType DEF base
      <3> QED
        BY <3>2, <3>3
    <2>5. ASSUME NEW t \in Streams PROVE Joined(t)'
      <3>1. Opened(t)' /\ Announced(t)'
        <4>1. Opened(t) /\ Announced(t) /\ base("page", t)' = base("page", t)
          BY <2>1, <2>2, Constants DEF Joined
        <4>2. Opened(t)'
          BY <1>1, <4>1 DEF Opened
        <4>3. Announced(t)'
          BY <1>1, <4>1 DEF Announced
        <4> QED
          BY <4>2, <4>3
      <3>2. ASSUME NEW y \in Sides PROVE Closing(y, t)'
        <4>1. CASE y = x /\ t = s
          BY <1>1, <1>2, <1>5, <2>2, <2>3, <2>4, <4>1, Constants DEF Joined, Closing
        <4>2. CASE ~(y = x /\ t = s)
          BY <1>1, <1>3, <2>2, <2>3, <4>2, Constants DEF Joined, Closing
        <4> QED
          BY <4>1, <4>2
      <3>3. ASSUME NEW y \in Sides, closer'[y][t] # "done" PROVE Arriving(y, t)'
        BY <1>1, <2>1, <2>2, <2>3, <3>3, Constants DEF Joined, Arriving
      <3> QED
        BY <3>1, <3>2, <3>3 DEF Joined
    <2>6. Working'
      BY <1>1, WorkingKept
    <2> QED
      BY <1>1, <2>1, <2>5, <2>6, CleanStep DEF CleanInv
  <1> QED
    BY <1>4, <1>5

LEMMA TakeClean ==
  ASSUME SessionInv, CleanInv, gone = "none", NEW x \in Sides, NEW s \in Streams, Take(x, s)
  PROVE  CleanInv'
  <1>1. UNCHANGED <<gone, die, sendErr, readErr, dropped, wire, table, fin, dead, opener, writer,
                    numWritten, closer, promised>>
    BY DEF Take, sendVars, linkVars, writeVars, closeVars
  <1>2. \A y \in Sides, t \in Streams : reader'[y][t] = "EOF" => reader[y][t] = "EOF"
    <2>1. reader' = reader \/ reader' = of(reader, x, s, "return")
      BY DEF Take, readVars
    <2> QED
      BY <2>1, ReaderOnly
  <1>3. InOrder' /\ \A y \in Sides, t \in Streams : base(y, t)' = base(y, t) /\ Len(got[y][t]) <= Len(got'[y][t])
    BY TakeOrder DEF CleanInv
  <1>4. \A y \in Sides, t \in Streams : Len(got'[y][t]) \in Nat
    <2>1. got' \in [Sides -> [Streams -> Seq(Nat)]]
      BY TakeTypes DEF SessionInv, StreamTypes
    <2>2. \A y \in Sides, t \in Streams : got'[y][t] \in Seq(Nat)
      BY <2>1
    <2> QED
      BY <2>2
  <1>5. \A t \in Streams : Calm(t)
    <2>1. \A y \in Sides, t \in Streams : written(y, t)' = written(y, t)
      BY <1>1 DEF written
    <2> QED
      BY <1>1, <1>2, <1>3, <1>4, <2>1, SameWire DEF Calm, Beyond
  <1> QED
    BY <1>1, <1>3, <1>5, AllCalm

-----------------------------------------------------------------------------
(* Opening, writing and closing a stream *)

\* A stream in use is open, and the page has a frame of one it uses.
LEMMA UsableIsOpen ==
  ASSUME SessionInv, NEW x \in Sides, NEW s \in Streams, Opened(s), usable(x, s)
  PROVE  opener[s] = "open" /\ (x = "page" => Len(got["page"][s]) # 0)
  <1>1. CASE x = "server"
    BY <1>1 DEF usable
  <1>2. CASE x = "page"
    <2>1. Len(got["page"][s]) > 0
      BY <1>2 DEF usable
    <2>2. base("page", s) # 0
      <3>1. \A m, n \in Nat : m > 0 => m + n # 0
        OBVIOUS
      <3> QED
        BY <2>1, <3>1, BaseType, Constants, Zenon DEF base
    <2> QED
      BY <2>1, <2>2, BaseType, Constants DEF Opened
  <1> QED
    BY <1>1, <1>2 DEF Sides

LEMMA OpenClean ==
  ASSUME SessionInv, CleanInv, gone = "none", NEW s \in Streams, OpenStream(s)
  PROVE  CleanInv'
  <1>1. UNCHANGED <<gone, die, sendErr, readErr, dropped, wire, table, buffers, fin, dead, writer,
                    numWritten, closer, promised, reader, got>>
    BY DEF OpenStream, linkVars, streamVars, writeVars, closeVars, readVars
  <1>2. \A t \in Streams : opener'[t] = opener[t] \/ (opener[t] = "no" /\ opener'[t] \in {"syn", "failed"})
    BY DEF OpenStream, SessionInv, StreamTypes
  <1>3. InOrder' /\ \A y \in Sides, t \in Streams : base(y, t)' = base(y, t)
    BY <1>1, SameOrder DEF CleanInv
  <1>4. ASSUME NEW t \in Streams PROVE Calm(t)
    <2>1. \A y \in Sides : written(y, t)' = written(y, t)
      BY <1>1 DEF written
    <2>2. \A y \in Sides : Len(got'[y][t]) \in Nat /\ Len(got[y][t]) <= Len(got'[y][t])
      <3>1. \A n \in Nat : n <= n
        OBVIOUS
      <3> QED
        BY <1>1, <3>1, BaseType
    <2> QED
      BY <1>1, <1>2, <1>3, <2>1, <2>2, SameWire DEF Calm, Beyond
  <1> QED
    BY <1>1, <1>3, <1>4, AllCalm

LEMMA WriteClean ==
  ASSUME SessionInv, CleanInv, gone = "none", NEW x \in Sides, NEW s \in Streams, Write(x, s)
  PROVE  CleanInv'
  <1>1. UNCHANGED <<gone, die, sendErr, readErr, dropped, wire, table, buffers, fin, dead, opener,
                    closer, promised, reader, got>>
    BY DEF Write, linkVars, streamVars, closeVars, readVars
  <1>2. writer[x][s] = "idle" /\ opener[s] = "open"
    BY UsableIsOpen DEF Write, CleanInv, Connected, Joined
  <1>3. \A y \in Sides, t \in Streams :
          /\ numWritten'[y][t] = IF y = x /\ t = s THEN numWritten[x][s] + 1 ELSE numWritten[y][t]
          /\ writer'[y][t] = IF y = x /\ t = s THEN "sending" ELSE writer[y][t]
    BY DEF Write, of, SessionInv, StreamTypes
  <1>4. InOrder' /\ \A y \in Sides, t \in Streams : base(y, t)' = base(y, t)
    BY <1>1, SameOrder DEF CleanInv
  <1>5. ASSUME NEW y \in Sides, NEW t \in Streams PROVE written(y, t)' = written(y, t)
    <2>1. CASE y = x /\ t = s
      <3>1. \A n \in Nat : n + 1 - 1 = n - 0
        OBVIOUS
      <3>2. numWritten[x][s] \in Nat
        BY DEF SessionInv, StreamTypes
      <3> QED
        BY <1>2, <1>3, <2>1, <3>1, <3>2 DEF written
    <2>2. CASE ~(y = x /\ t = s)
      BY <1>3, <2>2 DEF written
    <2> QED
      BY <2>1, <2>2
  <1>6. ASSUME NEW t \in Streams PROVE Calm(t)
    <2>1. \A y \in Sides : Len(got'[y][t]) \in Nat /\ Len(got[y][t]) <= Len(got'[y][t])
      <3>1. \A n \in Nat : n <= n
        OBVIOUS
      <3> QED
        BY <1>1, <3>1, BaseType
    <2>2. opener[t] # "open" => \A y \in Sides : numWritten'[y][t] = numWritten[y][t]
      BY <1>2, <1>3
    <2> QED
      BY <1>1, <1>4, <1>5, <2>1, <2>2, SameWire DEF Calm, Beyond
  <1> QED
    BY <1>1, <1>3, <1>4, <1>6, AllCalm

LEMMA RegisterClean ==
  ASSUME SessionInv, CleanInv, gone = "none", NEW s \in Streams, Register(s)
  PROVE  CleanInv'
  <1>1. UNCHANGED <<gone, die, sendErr, readErr, dropped, wire, buffers, fin, dead, writer,
                    numWritten, closer, promised, got>>
    BY DEF Register, sendVars, linkVars, streamVars, writeVars, closeVars
  <1>2. ~readErr["server"] /\ ~sendErr["server"] /\ ~die["server"]
    BY Constants DEF CleanInv, Working, gaveUp
  <1>3. /\ opener[s] = "sent" /\ opener' = [opener EXCEPT ![s] = "open"]
        /\ table' = [table EXCEPT !["server"] = @ \cup {s}] /\ reader' = of(reader, "server", s, "try")
    BY <1>2 DEF Register
  <1>4. /\ \A t \in Streams : opener'[t] = IF t = s THEN "open" ELSE opener[t]
        /\ \A y \in Sides, t \in Streams : t \in table'[y] <=> t \in table[y] \/ (y = "server" /\ t = s)
        /\ \A y \in Sides, t \in Streams : reader'[y][t] = IF y = "server" /\ t = s THEN "try" ELSE reader[y][t]
    <2>1. \A t \in Streams : opener'[t] = IF t = s THEN "open" ELSE opener[t]
      BY <1>3 DEF SessionInv, StreamTypes
    <2>2. \A y \in Sides, t \in Streams : t \in table'[y] <=> t \in table[y] \/ (y = "server" /\ t = s)
      BY <1>3, Constants DEF SessionInv, SessionTypes
    <2>3. \A y \in Sides, t \in Streams : reader'[y][t] = IF y = "server" /\ t = s THEN "try" ELSE reader[y][t]
      BY <1>3, ReaderOnly, Constants
    <2> QED
      BY <2>1, <2>2, <2>3
  <1>5. InOrder' /\ \A y \in Sides, t \in Streams : base(y, t)' = base(y, t) /\ written(y, t)' = written(y, t)
    BY <1>1, SameOrder DEF CleanInv, written
  <1>6. \A t \in Streams : Joined(t)
    BY DEF CleanInv, Connected
  <1>7. ASSUME NEW t \in Streams, t # s PROVE Joined(t)'
    BY <1>1, <1>4, <1>6, <1>7, StillCalm, SameWire, CalmKept
  <1>8. Joined(s)'
    <2>1. Opened(s) /\ Announced(s) /\ \A y \in Sides : Closing(y, s) /\ (closer[y][s] # "done" => Arriving(y, s))
      BY <1>6 DEF Joined
    <2>2. Opened(s)'
      BY <1>1, <1>3, <1>4, <1>5, <2>1, Constants DEF Opened
    <2>3. Announced(s)'
      BY <1>1, <1>3, <1>4, <1>5, <2>1, Constants DEF Announced
    <2>4. ASSUME NEW y \in Sides PROVE Closing(y, s)'
      BY <1>1, <1>4, <1>5, <2>1, Constants DEF Closing
    <2>5. ASSUME NEW y \in Sides, closer'[y][s] # "done" PROVE Arriving(y, s)'
      BY <1>1, <1>5, <2>1, <2>5, Constants DEF Arriving
    <2> QED
      BY <2>2, <2>3, <2>4, <2>5 DEF Joined
  <1>9. Working'
    BY <1>1, WorkingKept
  <1> QED
    BY <1>1, <1>5, <1>7, <1>8, <1>9, CleanStep DEF CleanInv

LEMMA CloseClean ==
  ASSUME SessionInv, CleanInv, gone = "none", NEW x \in Sides, NEW s \in Streams, CloseBegins(x, s)
  PROVE  CleanInv'
  <1>1. UNCHANGED <<gone, die, sendErr, readErr, dropped, wire, table, buffers, fin, opener, writer,
                    numWritten, reader, got>>
    BY DEF CloseBegins, linkVars, writeVars, readVars
  <1>2. /\ \A y \in Sides, t \in Streams : closer'[y][t] = IF y = x /\ t = s THEN "fin" ELSE closer[y][t]
        /\ \A y \in Sides, t \in Streams : promised'[y][t] = IF y = x /\ t = s THEN written(x, s) ELSE promised[y][t]
        /\ \A y \in Sides, t \in Streams : dead[y][t] => dead'[y][t]
    <2>1. \A y \in Sides, t \in Streams : closer'[y][t] = IF y = x /\ t = s THEN "fin" ELSE closer[y][t]
      BY DEF CloseBegins, of, SessionInv, StreamTypes
    <2>2. \A y \in Sides, t \in Streams : promised'[y][t] = IF y = x /\ t = s THEN written(x, s) ELSE promised[y][t]
      BY DEF CloseBegins, of, SessionInv, StreamTypes
    <2>3. \A y \in Sides, t \in Streams : dead[y][t] => dead'[y][t]
      BY DEF CloseBegins, of, SessionInv, StreamTypes
    <2> QED
      BY <2>1, <2>2, <2>3
  <1>3. InOrder' /\ \A y \in Sides, t \in Streams : base(y, t)' = base(y, t) /\ written(y, t)' = written(y, t)
    BY <1>1, SameOrder DEF CleanInv, written
  <1>4. \A t \in Streams : Joined(t)
    BY DEF CleanInv, Connected
  <1>5. closer[x][s] = "no"
    BY DEF CloseBegins, SessionInv, Orderly
  <1>6. opener[s] = "open" /\ (x = "page" => Len(got["page"][s]) # 0)
    BY <1>4, UsableIsOpen DEF CloseBegins, Joined
  <1>7. ASSUME NEW t \in Streams, t # s PROVE Joined(t)'
    <2>1. opener'[t] = opener[t] /\ \A y \in Sides :
            /\ promised'[y][t] = promised[y][t] /\ closer'[y][t] = closer[y][t]
            /\ dead[y][t] => dead'[y][t]
      BY <1>1, <1>2, <1>7
    <2>2. Calm(t)
      BY <1>1, <2>1, StillCalm, SameWire
    <2> QED
      BY <1>4, <2>2, CalmKept
  <1>8. Joined(s)'
    <2>1. Opened(s) /\ Announced(s) /\ \A y \in Sides : Closing(y, s) /\ (closer[y][s] # "done" => Arriving(y, s))
      BY <1>4 DEF Joined
    <2>2. Opened(s)'
      BY <1>1, <1>2, <1>3, <1>5, <1>6, <2>1, Constants DEF Opened
    <2>3. Announced(s)'
      BY <1>1, <1>2, <1>3, <1>5, <2>1, Constants DEF Announced
    <2>4. ASSUME NEW y \in Sides, peer(y) # x
          PROVE  Closing(y, s)' /\ (closer'[y][s] # "done" => Arriving(y, s)')
      <3>1. closer'[peer(y)][s] = closer[peer(y)][s] /\ promised'[peer(y)][s] = promised[peer(y)][s]
        BY <1>2, <2>4, Constants
      <3>2. Closing(y, s)'
        BY <1>1, <1>2, <1>3, <2>1, <3>1, Constants DEF Closing
      <3>3. closer'[y][s] # "done" => closer[y][s] # "done"
        BY <1>2, <1>5
      <3>4. closer'[y][s] # "done" => Arriving(y, s)'
        BY <1>1, <1>3, <2>1, <3>1, <3>3, Constants DEF Arriving
      <3> QED
        BY <3>2, <3>4
    <2>5. ASSUME NEW y \in Sides, peer(y) = x
          PROVE  Closing(y, s)' /\ (closer'[y][s] # "done" => Arriving(y, s)')
      <3>1. on(wire[x], "FIN", s) = {} /\ ~fin[y][s] /\ reader[y][s] # "EOF"
        BY <1>5, <2>1, <2>5 DEF Closing
      <3>2. closer'[x][s] = "fin" /\ promised'[x][s] = written(x, s) /\ y # x
        BY <1>2, <2>5, Constants
      <3>3. Closing(y, s)'
        <4>1. written(x, s) <= written(x, s)' /\ reader'[y][s] # "EOF"
          BY <1>1, <1>3, <3>1, BaseType
        <4> QED
          BY <2>5, <3>2, <4>1 DEF Closing
      <3>4. closer'[y][s] # "done" => Arriving(y, s)
        BY <1>2, <2>1, <3>2
      <3>5. Arriving(y, s) => Arriving(y, s)'
        BY <1>1, <1>3, <2>5, <3>1, Constants DEF Arriving
      <3> QED
        BY <3>3, <3>4, <3>5
    <2> QED
      BY <2>2, <2>3, <2>4, <2>5 DEF Joined
  <1>9. Working'
    BY <1>1, WorkingKept
  <1> QED
    BY <1>1, <1>3, <1>7, <1>8, <1>9, CleanStep DEF CleanInv

LEMMA ClosedClean ==
  ASSUME SessionInv, CleanInv, gone = "none", NEW x \in Sides, NEW s \in Streams, streamClosed(x, s)
  PROVE  CleanInv'
  <1>1. UNCHANGED <<gone, die, sendErr, readErr, dropped, wire, fin, dead, opener, writer,
                    numWritten, promised, reader, got>>
    BY DEF streamClosed, sendVars, linkVars, writeVars, readVars
  <1>2. closer[x][s] = "sent"
    BY DEF streamClosed
  <1>3. \A y \in Sides, t \in Streams : closer'[y][t] = IF y = x /\ t = s THEN "done" ELSE closer[y][t]
    BY DEF streamClosed, of, SessionInv, StreamTypes
  <1>4. \A y \in Sides, t \in Streams : t \in table'[y] <=> t \in table[y] /\ ~(y = x /\ t = s)
    BY DEF streamClosed, SessionInv, SessionTypes
  <1>5. \A y \in Sides, t \in Streams : ~(y = x /\ t = s) => buffers'[y][t] = buffers[y][t]
    BY DEF streamClosed, of, SessionInv, StreamTypes
  <1>6. InOrder' /\ \A y \in Sides, t \in Streams : base(y, t)' = IF y = x /\ t = s THEN Len(got[x][s]) ELSE base(y, t)
    BY ClosedOrder DEF CleanInv
  <1>7. \A t \in Streams : Joined(t)
    BY DEF CleanInv, Connected
  <1>8. ASSUME NEW t \in Streams, t # s PROVE Joined(t)'
    BY <1>1, <1>3, <1>4, <1>5, <1>7, <1>8, StillCalm, SameWire, CalmKept
  <1>9. Joined(s)'
    <2>1. Opened(s) /\ Announced(s) /\ \A y \in Sides : Closing(y, s) /\ (closer[y][s] # "done" => Arriving(y, s))
      BY <1>7 DEF Joined
    <2>2. opener[s] = "open" /\ (x = "page" => Len(got["page"][s]) # 0)
      BY <1>2, <2>1 DEF Opened
    <2>3. Opened(s)'
      BY <1>1, <1>3, <1>4, <2>1, <2>2, Constants DEF Opened
    <2>4. Announced(s)'
      <3>1. CASE x = "server"
        <4>1. closer'["page"][s] = closer["page"][s] /\ base("page", s)' = base("page", s)
              /\ (s \in table'["page"] <=> s \in table["page"])
          BY <1>3, <1>4, <1>6, <3>1, Constants
        <4> QED
          BY <1>1, <2>1, <4>1 DEF Announced
      <3>2. CASE x = "page"
        <4>1. base("page", s) # 0
          <5>1. \A m, n \in Nat : m # 0 => m + n # 0
            OBVIOUS
          <5> QED
            BY <2>2, <3>2, <5>1, BaseType, Constants, Zenon DEF base
        <4>2. on(wire["server"], "SYN", s) = {}
          BY <2>1, <4>1 DEF Announced
        <4>3. closer'["page"][s] = "done" /\ s \notin table'["page"]
          BY <1>3, <1>4, <3>2
        <4> QED
          BY <1>1, <2>1, <4>2, <4>3 DEF Announced
      <3> QED
        BY <3>1, <3>2 DEF Sides
    <2>5. \A y \in Sides : written(y, s)' = written(y, s)
      BY <1>1 DEF written
    <2>6. ASSUME NEW y \in Sides PROVE Closing(y, s)'
      <3>1. closer'[peer(y)][s] = "no" <=> closer[peer(y)][s] = "no"
        BY <1>2, <1>3, Constants
      <3> QED
        BY <1>1, <2>1, <2>5, <3>1, Constants DEF Closing
    <2>7. ASSUME NEW y \in Sides, closer'[y][s] # "done" PROVE Arriving(y, s)'
      <3>1. y # x /\ closer[y][s] # "done" /\ base(y, s)' = base(y, s)
        BY <1>3, <1>6, <2>7
      <3> QED
        BY <1>1, <2>1, <2>5, <3>1, Constants DEF Arriving
    <2> QED
      BY <2>3, <2>4, <2>6, <2>7 DEF Joined
  <1>10. Working'
    BY <1>1, WorkingKept
  <1> QED
    BY <1>1, <1>6, <1>8, <1>9, <1>10, CleanStep DEF CleanInv

\* The frame at the end of the wire is the one of the request.
LEMMA SendClean ==
  ASSUME SessionInv, CleanInv, gone = "none", NEW x \in Sides, sendLoop(x)
  PROVE  CleanInv'
  <1>0. ~cut(x)
    BY Constants DEF cut, Sides, peer
  <1>1. PICK r \in reqs[x] :
          /\ wire' = [wire EXCEPT ![x] = Append(@, r.frame)]
          /\ finish(x, r.frame, TRUE)
          /\ UNCHANGED sendErr
    BY <1>0 DEF sendLoop
  <1> DEFINE f == r.frame
             s == f.sid
             w == wire[x]
             v == wire'[x]
  <1>2. /\ f \in Frame /\ s \in Streams /\ f.cmd \in {"SYN", "PSH", "FIN"} /\ f.num \in Nat /\ Pending(x, r)
        /\ w \in Seq(Frame) /\ v = Append(w, f) /\ \A y \in Sides : y # x => wire'[y] = wire[y]
    <2>1. r \in Request /\ Pending(x, r)
      BY DEF SessionInv, SessionTypes, Orderly
    <2>2. f \in Frame /\ s \in Streams /\ f.cmd \in {"SYN", "PSH", "FIN"} /\ f.num \in Nat
      BY <2>1 DEF Request, Frame
    <2>3. w \in Seq(Frame) /\ v = Append(w, f) /\ \A y \in Sides : y # x => wire'[y] = wire[y]
      BY <1>1 DEF SessionInv, SessionTypes
    <2> QED
      BY <2>1, <2>2, <2>3
  <1>3. UNCHANGED <<gone, die, readErr, sendErr, dropped, table, buffers, fin, dead, reader, got, numWritten, promised>>
    BY <1>1, <1>2 DEF sendLoop, finish, linkVars, streamVars, readVars, writeVars, closeVars
  <1>4. /\ \A t \in Streams : opener'[t] = IF f.cmd = "SYN" /\ t = s THEN "sent" ELSE opener[t]
        /\ \A y \in Sides, t \in Streams : writer'[y][t] = IF f.cmd = "PSH" /\ y = x /\ t = s THEN "idle" ELSE writer[y][t]
        /\ \A y \in Sides, t \in Streams : closer'[y][t] = IF f.cmd = "FIN" /\ y = x /\ t = s THEN "sent" ELSE closer[y][t]
    <2>1. CASE f.cmd = "SYN"
      BY <1>1, <1>2, <2>1 DEF finish, writeVars, closeVars, SessionInv, StreamTypes
    <2>2. CASE f.cmd = "PSH"
      <3>1. writer' = of(writer, x, s, "idle") /\ opener' = opener /\ closer' = closer
        BY <1>1, <2>2 DEF finish, closeVars
      <3>2. \A y \in Sides, t \in Streams : writer'[y][t] = IF y = x /\ t = s THEN "idle" ELSE writer[y][t]
        BY <1>2, <3>1 DEF of, SessionInv, StreamTypes
      <3> QED
        BY <2>2, <3>1, <3>2
    <2>3. CASE f.cmd = "FIN"
      <3>1. closer' = of(closer, x, s, "sent") /\ opener' = opener /\ writer' = writer
        BY <1>1, <2>3 DEF finish, writeVars
      <3>2. \A y \in Sides, t \in Streams : closer'[y][t] = IF y = x /\ t = s THEN "sent" ELSE closer[y][t]
        BY <1>2, <3>1 DEF of, SessionInv, StreamTypes
      <3> QED
        BY <2>3, <3>1, <3>2
    <2> QED
      BY <1>2, <2>1, <2>2, <2>3
  <1>5. InOrder' /\ \A y \in Sides, t \in Streams : base(y, t)' = base(y, t)
    BY <1>3, SameOrder DEF CleanInv
  <1>6. \A t \in Streams : Joined(t)
    BY DEF CleanInv, Connected
  <1>7. ASSUME NEW cmd, NEW t, f.cmd # cmd \/ s # t
        PROVE  \A y \in Sides : Moved(wire[y], wire'[y], 0, cmd, t)
    <2>1. Moved(w, v, 0, cmd, t)
      BY <1>2, <1>7, AppendMoved
    <2>2. \A y \in Sides : y # x => Moved(wire[y], wire'[y], 0, cmd, t)
      BY <1>2, SameMoved, BaseType DEF SessionInv, SessionTypes
    <2> QED
      BY <2>1, <2>2
  <1>8. ASSUME NEW cmd, NEW y \in Sides, y # x
        PROVE  Moved(wire[y], wire'[y], 0, cmd, s)
    BY <1>2, <1>8, SameMoved DEF SessionInv, SessionTypes
  <1>9. /\ \A cmd : \A i : i \in on(v, cmd, s) <=> i \in on(w, cmd, s) \/ (i = Len(w) + 1 /\ f.cmd = cmd)
        /\ \A cmd : \A i \in on(w, cmd, s) : v[i] = w[i] /\ i <= Len(w) /\ i \in Nat
        /\ v[Len(w) + 1] = f /\ Len(w) \in Nat
    <2>1. w \in Seq(Frame) /\ f \in Frame /\ v = Append(w, f) /\ f.sid = s
      BY <1>2
    <2> HIDE DEF w, v, f, s
    <2>2. ASSUME NEW cmd
          PROVE  /\ \A i : i \in on(v, cmd, s) <=> i \in on(w, cmd, s) \/ (i = Len(w) + 1 /\ f.cmd = cmd)
                 /\ \A i \in on(w, cmd, s) : v[i] = w[i] /\ i <= Len(w) /\ i \in Nat
                 /\ v[Len(w) + 1] = f /\ Len(w) \in Nat
      <3>0. Len(w) \in Nat /\ Len(v) = Len(w) + 1 /\ v[Len(w) + 1] = f /\ \A i \in 1 .. Len(w) : v[i] = w[i]
        BY <2>1
      <3>1. \A i : i \in on(v, cmd, s) <=> i \in on(w, cmd, s) \/ (i = Len(w) + 1 /\ f.cmd = cmd /\ f.sid = s)
        BY <3>0 DEF on
      <3>2. \A i \in on(w, cmd, s) : v[i] = w[i] /\ i <= Len(w)
        BY <3>0 DEF on
      <3>4. \A i \in on(w, cmd, s) : i \in Nat
        BY <2>1, OnIs
      <3> QED
        BY <2>1, <3>0, <3>1, <3>2, <3>4
    <2> QED
      BY <2>2
  <1>a. ASSUME NEW t \in Streams, t # s PROVE Joined(t)'
    <2>1. \A y \in Sides : \E d \in {0, 1} : \A cmd \in {"SYN", "PSH", "FIN"} : Moved(wire[y], wire'[y], d, cmd, t)
      BY <1>7, <1>a
    <2>2. Calm(t)
      BY <1>3, <1>4, <1>a, <2>1, StillCalm
    <2> QED
      BY <1>6, <2>2, CalmKept
  <1>b. /\ Opened(s) /\ Announced(s) /\ \A y \in Sides : Closing(y, s) /\ (closer[y][s] # "done" => Arriving(y, s))
        /\ \A y \in Sides : peer(y) \in Sides /\ peer(peer(y)) = y /\ (peer(y) # x => y = x) /\ peer(y) # y
    BY <1>2, <1>6 DEF Joined, Sides, peer
  <1>c. \A y \in Sides : Len(got'[y][s]) \in Nat /\ Len(got[y][s]) <= Len(got'[y][s])
    <2>1. \A n \in Nat : n <= n
      OBVIOUS
    <2> QED
      BY <1>2, <1>3, <2>1, BaseType
  <1> HIDE DEF f, s, w, v
  <1>d. ASSUME f.cmd = "SYN" PROVE Joined(s)'
    <2>1. x = "server" /\ opener[s] = "syn" /\ opener'[s] = "sent"
      BY <1>2, <1>4, <1>d DEF Pending, f, s
    <2>2. \A y \in Sides : writer'[y][s] = writer[y][s] /\ closer'[y][s] = closer[y][s] /\ written(y, s)' = written(y, s)
      BY <1>2, <1>3, <1>4, <1>d DEF written
    <2>3. \A y \in Sides : Moved(wire[y], wire'[y], 0, "PSH", s) /\ Moved(wire[y], wire'[y], 0, "FIN", s)
      BY <1>7, <1>d
    <2>4. Opened(s)'
      <3>1. \A y \in Sides : on(wire[y], "PSH", s) = {} => on(wire'[y], "PSH", s) = {}
        BY <2>3 DEF Moved, Comes
      <3> QED
        BY <1>2, <1>3, <1>5, <1>b, <2>1, <2>2, <3>1, Constants DEF Opened
    <2>5. Announced(s)'
      <3>1. on(wire'["page"], "SYN", s) = {}
        BY <1>2, <1>b, <2>1, Constants DEF Announced
      <3>2. on(w, "SYN", s) = {} /\ s \notin table["page"] /\ base("page", s) = 0
        BY <1>b, <2>1 DEF Announced, Opened, w
      <3>3. on(w, "PSH", s) = {}
        BY <1>b, <2>1, Constants DEF Opened, w
      <3>4. on(v, "SYN", s) = {Len(w) + 1} /\ on(v, "PSH", s) = {}
        <4>1. \A i : i \in on(v, "SYN", s) <=> i = Len(w) + 1
          BY <1>9, <1>d, <3>2
        <4>2. \A i : i \notin on(v, "PSH", s)
          BY <1>9, <1>d, <3>3
        <4> QED
          BY <4>1, <4>2
      <3>5. wire'["server"] = v /\ s \notin table'["page"] /\ base("page", s)' = 0
        BY <1>2, <1>3, <1>5, <2>1, <3>2, Constants DEF v
      <3> QED
        BY <2>1, <3>1, <3>4, <3>5 DEF Announced
    <2>6. ASSUME NEW y \in Sides PROVE Closing(y, s)'
      <3>1. on(wire[peer(y)], "FIN", s) = {} => on(wire'[peer(y)], "FIN", s) = {}
        BY <1>b, <2>3 DEF Moved, Comes
      <3> QED
        BY <1>2, <1>3, <1>b, <2>2, <3>1 DEF Closing
    <2>7. ASSUME NEW y \in Sides, closer'[y][s] # "done" PROVE Arriving(y, s)'
      <3>1. /\ Moved(wire[peer(y)], wire'[peer(y)], 0, "PSH", s)
            /\ Comes(wire[peer(y)], wire'[peer(y)], 0, "FIN", s)
        BY <1>b, <2>3 DEF Moved
      <3>2. Arriving(y, s) /\ base(y, s)' = base(y, s) /\ written(peer(y), s)' = written(peer(y), s)
            /\ promised'[peer(y)][s] = promised[peer(y)][s] /\ (fin'[y][s] => fin[y][s])
        BY <1>2, <1>3, <1>5, <1>b, <2>2, <2>7
      <3> QED
        BY <1>2, <3>1, <3>2, ArrivingKept
    <2> QED
      BY <2>4, <2>5, <2>6, <2>7 DEF Joined
  <1>e. ASSUME f.cmd = "PSH" PROVE Joined(s)'
    <2>1. writer[x][s] = "sending" /\ f.num = numWritten[x][s] /\ writer'[x][s] = "idle" /\ opener'[s] = opener[s]
      BY <1>2, <1>4, <1>e DEF Pending, f, s
    <2>2. \A y \in Sides : closer'[y][s] = closer[y][s] /\ promised'[y][s] = promised[y][s]
      BY <1>2, <1>3, <1>4, <1>e
    <2>3. written(x, s) \in Nat /\ f.num = written(x, s) + 1 /\ written(x, s)' = written(x, s) + 1
      <3>1. numWritten[x][s] \in Nat /\ numWritten[x][s] > 0 /\ numWritten'[x][s] = numWritten[x][s]
        BY <1>2, <1>3, <2>1 DEF SessionInv, StreamTypes, Orderly
      <3> QED
        BY <2>1, <3>1 DEF written
    <2>4. opener[s] = "open"
      BY <1>b, <2>1, <1>2 DEF Opened, SessionInv, Orderly
    <2>5. \A y \in Sides : Moved(wire[y], wire'[y], 0, "SYN", s) /\ Moved(wire[y], wire'[y], 0, "FIN", s)
      BY <1>7, <1>e
    <2>6. Opened(s)'
      BY <1>2, <1>3, <1>5, <1>b, <2>1, <2>2, <2>4, Constants DEF Opened
    <2>7. Announced(s)'
      <3>1. on(wire'["page"], "SYN", s) = {} /\ on(wire'["server"], "SYN", s) = on(wire["server"], "SYN", s)
        <4>1. \A y \in Sides : on(wire'[y], "SYN", s) = on(wire[y], "SYN", s)
          <5>1. \A i : i \in on(v, "SYN", s) <=> i \in on(w, "SYN", s)
            BY <1>9, <1>e
          <5>2. on(v, "SYN", s) = on(w, "SYN", s)
            BY <5>1
          <5> QED
            BY <1>2, <5>2 DEF w, v
        <4> QED
          BY <1>b, <4>1, Constants DEF Announced
      <3>2. ASSUME NEW i \in on(wire'["server"], "PSH", s)
            PROVE  s \in table["page"] \/ closer["page"][s] = "done" \/ \E j \in on(wire["server"], "SYN", s) : j < i
        <4>1. CASE i \in on(wire["server"], "PSH", s)
          BY <1>b, <4>1 DEF Announced
        <4>2. CASE i \notin on(wire["server"], "PSH", s)
          <5>1. x = "server"
            BY <1>2, <3>2, <4>2, Constants
          <5>2. i = Len(w) + 1
            BY <1>9, <3>2, <4>2, <5>1 DEF w, v
          <5>3. \A j \in on(w, "SYN", s) : j < Len(w) + 1
            BY <1>9
          <5>4. s \in table["page"] \/ closer["page"][s] = "done" \/ on(w, "SYN", s) # {}
            BY <1>b, <2>4, <5>1 DEF Announced, w
          <5> QED
            BY <5>1, <5>2, <5>3, <5>4 DEF w
        <4> QED
          BY <4>1, <4>2
      <3> QED
        BY <1>2, <1>3, <1>5, <1>b, <2>1, <2>2, <3>1, <3>2, Constants DEF Announced
    <2>8. ASSUME NEW y \in Sides PROVE Closing(y, s)'
      <3>1. on(wire[peer(y)], "FIN", s) = {} => on(wire'[peer(y)], "FIN", s) = {}
        BY <1>b, <2>5 DEF Moved, Comes
      <3>2. promised[peer(y)][s] <= written(peer(y), s) => promised[peer(y)][s] <= written(peer(y), s)'
        <4>1. CASE peer(y) = x
          BY <1>2, <2>3, <4>1, BaseType
        <4>2. CASE peer(y) # x
          <5>1. written(peer(y), s)' = written(peer(y), s)
            BY <1>2, <1>3, <1>4, <1>b, <4>2 DEF written
          <5> QED
            BY <5>1
        <4> QED
          BY <4>1, <4>2
      <3> QED
        BY <1>2, <1>3, <1>b, <2>2, <3>1, <3>2 DEF Closing
    <2>9. ASSUME NEW y \in Sides, closer'[y][s] # "done", peer(y) # x PROVE Arriving(y, s)'
      <3>1. /\ Moved(wire[peer(y)], wire'[peer(y)], 0, "PSH", s)
            /\ Comes(wire[peer(y)], wire'[peer(y)], 0, "FIN", s)
        BY <1>8, <1>b, <2>9 DEF Moved
      <3>2. Arriving(y, s) /\ base(y, s)' = base(y, s) /\ written(peer(y), s)' = written(peer(y), s)
            /\ promised'[peer(y)][s] = promised[peer(y)][s] /\ (fin'[y][s] => fin[y][s])
        BY <1>2, <1>3, <1>4, <1>5, <1>b, <2>2, <2>9 DEF written
      <3> QED
        BY <1>2, <3>1, <3>2, ArrivingKept
    <2>10. ASSUME NEW y \in Sides, closer'[y][s] # "done", peer(y) = x PROVE Arriving(y, s)'
      <3> DEFINE n0 == written(x, s)
                 b == base(y, s)
                 p == promised[x][s]
      <3>1. /\ b <= n0
            /\ \A i \in on(w, "PSH", s) : b < w[i].num /\ w[i].num <= n0
            /\ \A n \in Nat : b < n /\ n <= n0 => \E i \in on(w, "PSH", s) : w[i].num = n
            /\ \A i, j \in on(w, "PSH", s) : i < j => w[i].num < w[j].num
            /\ \A j \in on(w, "FIN", s), n \in Nat : b < n /\ n <= p => \E i \in on(w, "PSH", s) : i < j /\ w[i].num = n
            /\ fin[y][s] => p <= b
        BY <1>b, <2>2, <2>10 DEF Arriving, w
      <3>2. /\ \A i : i \in on(v, "PSH", s) <=> i \in on(w, "PSH", s) \/ i = Len(w) + 1
            /\ on(v, "FIN", s) = on(w, "FIN", s)
            /\ \A i \in on(w, "PSH", s) : v[i] = w[i] /\ i <= Len(w) /\ i \in Nat /\ w[i].num \in Nat
            /\ v[Len(w) + 1].num = n0 + 1 /\ Len(w) \in Nat /\ b \in Nat /\ n0 \in Nat /\ p \in Nat
        <4>1. \A i : i \in on(v, "FIN", s) <=> i \in on(w, "FIN", s)
          BY <1>9, <1>e
        <4>2. \A i \in on(w, "PSH", s) : w[i].num \in Nat
          BY <1>2, OnIs
        <4>3. b \in Nat /\ n0 \in Nat /\ p \in Nat
          BY <1>2, BaseType
        <4> QED
          BY <1>9, <1>e, <2>3, <4>1, <4>2, <4>3
      <3>3. base(y, s)' = b /\ written(x, s)' = n0 + 1 /\ promised'[x][s] = p /\ fin'[y][s] = fin[y][s] /\ v = wire'[x]
        BY <1>2, <1>3, <1>5, <2>2, <2>3 DEF v
      <3> HIDE DEF n0, b, p
      <3>4. b <= n0 + 1 /\ \A i \in on(v, "PSH", s) : b < v[i].num /\ v[i].num <= n0 + 1
        BY <3>1, <3>2
      <3>5. ASSUME NEW n \in Nat, b < n, n <= n0 + 1 PROVE \E i \in on(v, "PSH", s) : v[i].num = n
        <4>1. CASE n <= n0
          BY <3>1, <3>2, <3>5, <4>1
        <4>2. CASE n = n0 + 1
          BY <3>2, <4>2
        <4> QED
          BY <3>2, <3>5, <4>1, <4>2
      <3>6. ASSUME NEW i \in on(v, "PSH", s), NEW j \in on(v, "PSH", s), i < j PROVE v[i].num < v[j].num
        <4>1. i \in on(w, "PSH", s)
          BY <3>2, <3>6
        <4>2. CASE j \in on(w, "PSH", s)
          BY <3>1, <3>2, <3>6, <4>1, <4>2
        <4>3. CASE j = Len(w) + 1
          <5>1. v[i].num \in Nat /\ v[i].num <= n0
            BY <3>1, <3>2, <4>1
          <5> QED
            BY <3>2, <4>3, <5>1
        <4> QED
          BY <3>2, <4>2, <4>3
      <3>7. \A j \in on(v, "FIN", s), n \in Nat : b < n /\ n <= p => \E i \in on(v, "PSH", s) : i < j /\ v[i].num = n
        BY <3>1, <3>2
      <3> QED
        BY <2>10, <3>1, <3>3, <3>4, <3>5, <3>6, <3>7 DEF Arriving
    <2> QED
      BY <2>6, <2>7, <2>8, <2>9, <2>10 DEF Joined
  <1>f. ASSUME f.cmd = "FIN" PROVE Joined(s)'
    <2>1. closer[x][s] = "fin" /\ closer'[x][s] = "sent" /\ opener'[s] = opener[s]
      BY <1>2, <1>4, <1>f DEF Pending, f, s
    <2>2. \A y \in Sides : /\ Beyond(closer[y][s], closer'[y][s]) /\ promised'[y][s] = promised[y][s]
                           /\ written(y, s)' = written(y, s) /\ numWritten'[y][s] = numWritten[y][s]
      BY <1>2, <1>3, <1>4, <1>f, <2>1 DEF Beyond, written
    <2>3. \A y \in Sides : Moved(wire[y], wire'[y], 0, "SYN", s) /\ Moved(wire[y], wire'[y], 0, "PSH", s)
      BY <1>7, <1>f
    <2>4. Opened(s)'
      <3>1. \A y \in Sides : \E d \in {0, 1} : Comes(wire[y], wire'[y], d, "PSH", s)
        BY <2>3 DEF Moved
      <3>2. opener[s] # "open" => \A y \in Sides : numWritten'[y][s] = 0
        BY <1>b, <2>2 DEF Opened
      <3> QED
        BY <1>2, <1>3, <1>5, <1>b, <1>c, <2>1, <2>2, <3>1, <3>2, OpenedKept, Constants
    <2>5. Announced(s)'
      <3>1. \E d \in {0, 1} : Comes(wire["page"], wire'["page"], d, "SYN", s)
        BY <2>3, Constants DEF Moved
      <3>2. \E d \in {0, 1} : /\ Moved(wire["server"], wire'["server"], d, "SYN", s)
                              /\ Comes(wire["server"], wire'["server"], d, "PSH", s)
        BY <2>3, Constants DEF Moved
      <3> QED
        BY <1>2, <1>3, <1>5, <1>b, <2>1, <2>2, <3>1, <3>2, AnnouncedKept, Constants
    <2>6. ASSUME NEW y \in Sides PROVE Closing(y, s)'
      <3>1. closer[peer(y)][s] = "no" => on(wire'[peer(y)], "FIN", s) = on(wire[peer(y)], "FIN", s)
        BY <1>2, <1>b, <2>1
      <3> QED
        BY <1>2, <1>3, <1>b, <2>2, <3>1 DEF Closing, Beyond
    <2>7. ASSUME NEW y \in Sides, closer'[y][s] # "done", peer(y) # x PROVE Arriving(y, s)'
      <3>1. /\ Moved(wire[peer(y)], wire'[peer(y)], 0, "PSH", s)
            /\ Comes(wire[peer(y)], wire'[peer(y)], 0, "FIN", s)
        BY <1>8, <1>b, <2>7 DEF Moved
      <3>2. Arriving(y, s) /\ base(y, s)' = base(y, s) /\ written(peer(y), s)' = written(peer(y), s)
            /\ promised'[peer(y)][s] = promised[peer(y)][s] /\ (fin'[y][s] => fin[y][s])
        BY <1>2, <1>3, <1>5, <1>b, <2>2, <2>7 DEF Beyond
      <3> QED
        BY <1>2, <3>1, <3>2, ArrivingKept
    <2>8. ASSUME NEW y \in Sides, closer'[y][s] # "done", peer(y) = x PROVE Arriving(y, s)'
      <3> DEFINE n0 == written(x, s)
                 b == base(y, s)
                 p == promised[x][s]
      <3>1. /\ b <= n0 /\ p <= n0
            /\ \A i \in on(w, "PSH", s) : b < w[i].num /\ w[i].num <= n0
            /\ \A n \in Nat : b < n /\ n <= n0 => \E i \in on(w, "PSH", s) : w[i].num = n
            /\ \A i, j \in on(w, "PSH", s) : i < j => w[i].num < w[j].num
            /\ \A j \in on(w, "FIN", s), n \in Nat : b < n /\ n <= p => \E i \in on(w, "PSH", s) : i < j /\ w[i].num = n
            /\ fin[y][s] => p <= b
        <4>1. p <= n0
          BY <1>b, <2>1, <2>8 DEF Closing
        <4>2. Arriving(y, s)
          BY <1>b, <2>2, <2>8 DEF Beyond
        <4> QED
          BY <2>8, <4>1, <4>2 DEF Arriving, w
      <3>2. /\ on(v, "PSH", s) = on(w, "PSH", s)
            /\ \A i : i \in on(v, "FIN", s) <=> i \in on(w, "FIN", s) \/ i = Len(w) + 1
            /\ \A i \in on(w, "PSH", s) : v[i] = w[i] /\ i <= Len(w) /\ i \in Nat
            /\ Len(w) \in Nat /\ b \in Nat /\ n0 \in Nat /\ p \in Nat
        <4>1. \A i : i \in on(v, "PSH", s) <=> i \in on(w, "PSH", s)
          BY <1>9, <1>f
        <4>2. b \in Nat /\ n0 \in Nat /\ p \in Nat
          BY <1>2, BaseType
        <4> QED
          BY <1>9, <1>f, <4>1, <4>2
      <3>3. base(y, s)' = b /\ written(x, s)' = n0 /\ promised'[x][s] = p /\ fin'[y][s] = fin[y][s] /\ v = wire'[x]
        BY <1>2, <1>3, <1>5, <2>2 DEF v
      <3> HIDE DEF n0, b, p
      <3>4. ASSUME NEW j \in on(v, "FIN", s), NEW n \in Nat, b < n, n <= p
            PROVE  \E i \in on(v, "PSH", s) : i < j /\ v[i].num = n
        <4>1. CASE j \in on(w, "FIN", s)
          <5>1. PICK i \in on(w, "PSH", s) : i < j /\ w[i].num = n
            BY <3>1, <3>4, <4>1
          <5> QED
            BY <3>2, <5>1
        <4>2. CASE j = Len(w) + 1
          <5>1. n <= n0
            BY <3>1, <3>2, <3>4
          <5>2. PICK i \in on(w, "PSH", s) : w[i].num = n
            BY <3>1, <3>4, <5>1
          <5> QED
            BY <3>2, <4>2, <5>2
        <4> QED
          BY <3>2, <3>4, <4>1, <4>2
      <3>5. /\ \A i \in on(v, "PSH", s) : b < v[i].num /\ v[i].num <= n0
            /\ \A n \in Nat : b < n /\ n <= n0 => \E i \in on(v, "PSH", s) : v[i].num = n
            /\ \A i, j \in on(v, "PSH", s) : i < j => v[i].num < v[j].num
        BY <3>1, <3>2
      <3> QED
        BY <2>8, <3>1, <3>3, <3>4, <3>5 DEF Arriving
    <2> QED
      BY <2>4, <2>5, <2>6, <2>7, <2>8 DEF Joined
  <1>g. Working'
    BY <1>3, <1>4, WorkingKept
  <1> QED
    BY <1>2, <1>3, <1>5, <1>a, <1>d, <1>e, <1>f, <1>g, CleanStep DEF CleanInv

-----------------------------------------------------------------------------
(* A frame arrives *)

\* The first frame that can be read is the one after those that arrived.
LEMMA NextFrame ==
  ASSUME SessionInv, NEW x \in Sides, NEW s \in Streams, Arriving(x, s), 1 \in on(wire[peer(x)], "PSH", s)
  PROVE  wire[peer(x)][1].num = base(x, s) + 1
  <1> DEFINE w == wire[peer(x)]
             b == base(x, s)
             n0 == written(peer(x), s)
  <1>1. w \in Seq(Frame) /\ b \in Nat /\ n0 \in Nat
    BY BaseType, Constants
  <1>2. /\ \A i \in on(w, "PSH", s) : b < w[i].num /\ w[i].num <= n0
        /\ \A n \in Nat : b < n /\ n <= n0 => \E i \in on(w, "PSH", s) : w[i].num = n
        /\ \A i, j \in on(w, "PSH", s) : i < j => w[i].num < w[j].num
    BY DEF Arriving
  <1>3. \A i \in on(w, "PSH", s) : i \in Nat /\ i > 0 /\ w[i].num \in Nat
    BY <1>1, OnIs
  <1>4. 1 \in on(w, "PSH", s)
    OBVIOUS
  <1> HIDE DEF w, b, n0
  <1>5. b < w[1].num /\ w[1].num <= n0 /\ w[1].num \in Nat
    BY <1>2, <1>3, <1>4
  <1>6. PICK i \in on(w, "PSH", s) : w[i].num = b + 1
    BY <1>1, <1>2, <1>5
  <1>7. i = 1
    <2>1. CASE i > 1
      <3>1. w[1].num < b + 1
        BY <1>2, <1>4, <1>6, <2>1
      <3> QED
        BY <1>1, <1>5, <3>1
    <2> QED
      BY <1>3, <2>1
  <1> QED
    BY <1>6, <1>7 DEF w, b

LEMMA FrameClean ==
  ASSUME SessionInv, CleanInv, gone = "none", NEW x \in Sides, recvFrame(x),
         NEW f, f = Head(wire[peer(x)]), NEW s, s = f.sid
  PROVE  CleanInv'
  <1> DEFINE y == peer(x)
             w == wire[y]
             v == wire'[y]
  <1>1. UNCHANGED <<gone, die, sendErr, readErr, dead, opener, writer, numWritten, closer, promised, reader, got>>
    BY DEF recvFrame, others, linkVars, writeVars, closeVars, readVars
  <1>2. /\ y \in Sides /\ y # x /\ peer(y) = x /\ (\A z \in Sides : z = x \/ z = y)
        /\ w \in Seq(Frame) /\ w # <<>> /\ v = Tail(w) /\ wire'[x] = wire[x]
        /\ f \in Frame /\ s \in Streams
    <2>1. y \in Sides /\ y # x /\ peer(y) = x /\ \A z \in Sides : z = x \/ z = y
      BY DEF Sides, peer
    <2>2. w \in Seq(Frame) /\ w # <<>> /\ wire' = [wire EXCEPT ![y] = Tail(w)]
      BY <2>1 DEF recvFrame, SessionInv, SessionTypes
    <2>3. v = Tail(w) /\ wire'[x] = wire[x]
      BY <2>1, <2>2 DEF SessionInv, SessionTypes
    <2>4. f \in Frame
      BY <2>2
    <2> QED
      BY <2>1, <2>2, <2>3, <2>4 DEF Frame
  <1>3. /\ \/ f.cmd = "SYN" /\ recvSyn(x, f)
           \/ f.cmd = "FIN" /\ recvFin(x, f)
           \/ f.cmd = "PSH" /\ recvPsh(x, f)
    BY DEF recvFrame
  <1>4. Len(w) \in Nat \ {0} /\ Len(v) = Len(w) - 1 /\ f = w[1] /\ \A i \in 1 .. Len(w) - 1 : v[i] = w[i + 1]
    BY <1>2
  <1>5. \A t \in Streams : Joined(t)
    BY DEF CleanInv, Connected
  <1>6. /\ Opened(s) /\ Announced(s) /\ \A z \in Sides : Closing(z, s) /\ (closer[z][s] # "done" => Arriving(z, s))
    BY <1>2, <1>5 DEF Joined
  <1>7. \A z \in Sides, t \in Streams : written(z, t)' = written(z, t)
    BY <1>1 DEF written
  <1>8. \A z \in Sides : Len(got'[z][s]) \in Nat /\ Len(got[z][s]) <= Len(got'[z][s])
    <2>1. \A n \in Nat : n <= n
      OBVIOUS
    <2> QED
      BY <1>1, <1>2, <2>1, BaseType
  <1> HIDE DEF y, w, v
  <1>9. \A cmd, t : Comes(w, v, 1, cmd, t)
    BY <1>4 DEF Comes, on
  <1>10. \A cmd, t : f.cmd # cmd \/ f.sid # t => Moved(w, v, 1, cmd, t)
    <2>1. ASSUME NEW cmd, NEW t, f.cmd # cmd \/ f.sid # t
          PROVE  \A j \in on(w, cmd, t) : j - 1 \in on(v, cmd, t) /\ v[j - 1] = w[j]
      BY <1>4, <2>1 DEF on
    <2> QED
      BY <1>9, <2>1 DEF Moved
  <1>11. \A cmd, t : Moved(wire[x], wire'[x], 0, cmd, t) /\ Comes(wire[x], wire'[x], 0, cmd, t)
    BY <1>2, SameMoved DEF SessionInv, SessionTypes, Moved
  <1>12. 1 \in on(w, f.cmd, s) /\ \A cmd : \A i \in on(v, cmd, s) : i \in Nat /\ i > 0
    BY <1>4 DEF on
  <1>13. Working'
    BY <1>1, WorkingKept
  <1>14. ASSUME NEW t \in Streams, t # s,
                \A z \in Sides : /\ buffers'[z][t] = buffers[z][t] /\ fin'[z][t] = fin[z][t]
                                 /\ t \in table'[z] <=> t \in table[z]
         PROVE  Joined(t)'
    <2>1. \A z \in Sides : \E d \in {0, 1} : \A cmd \in {"SYN", "PSH", "FIN"} : Moved(wire[z], wire'[z], d, cmd, t)
      <3>1. \A cmd : Moved(wire[y], wire'[y], 1, cmd, t)
        BY <1>10, <1>14 DEF w, v
      <3> QED
        BY <1>2, <1>11, <3>1
    <2>2. Calm(t)
      BY <1>1, <2>1, <1>14, StillCalm
    <2> QED
      BY <1>5, <2>2, CalmKept
  <1>15. ASSUME f.cmd # "PSH", buffers' = buffers, NEW z \in Sides, fin'[z][s] => fin[z][s], closer'[z][s] # "done"
         PROVE  Arriving(z, s)'
    <2>1. \E d \in {0, 1} : /\ Moved(wire[peer(z)], wire'[peer(z)], d, "PSH", s)
                            /\ Comes(wire[peer(z)], wire'[peer(z)], d, "FIN", s)
      BY <1>2, <1>9, <1>10, <1>11, <1>15 DEF w, v, y
    <2>2. Arriving(z, s) /\ base(z, s)' = base(z, s)
      BY <1>1, <1>6, <1>15 DEF base
    <2> QED
      BY <1>1, <1>2, <1>7, <1>15, <2>1, <2>2, ArrivingKept, Constants
  <1>16. ASSUME f.cmd # "FIN", fin' = fin, NEW z \in Sides PROVE Closing(z, s)'
    <2>1. on(wire[peer(z)], "FIN", s) = {} => on(wire'[peer(z)], "FIN", s) = {}
      BY <1>2, <1>9, <1>11 DEF w, v, y, Comes
    <2> QED
      BY <1>1, <1>2, <1>6, <1>7, <1>16, <2>1, Constants DEF Closing
  <1>17. CASE f.cmd = "SYN"
    <2>1. x = "page" /\ y = "server"
      <3>1. y # "page"
        BY <1>6, <1>12, <1>17 DEF Announced, w
      <3> QED
        BY <1>2, <3>1 DEF Sides, y, peer
    <2>2. /\ opener[s] \in {"sent", "open"} /\ s \notin table["page"] /\ base("page", s) = 0
          /\ \A i \in on(w, "SYN", s) : i = 1
      BY <1>6, <1>12, <1>17, <2>1 DEF Announced, w
    <2>3. recvSyn(x, f) /\ f.sid \notin table[x]
      BY <1>3, <1>17, <2>1, <2>2
    <2>4. UNCHANGED <<buffers, fin, dropped>>
          /\ \A z \in Sides, t \in Streams : t \in table'[z] <=> t \in table[z] \/ (z = x /\ t = s)
      <3>1. UNCHANGED <<buffers, fin, dropped>> /\ table' = [table EXCEPT ![x] = table[x] \cup {s}]
        BY <2>3 DEF recvSyn
      <3> QED
        BY <3>1 DEF SessionInv, SessionTypes
    <2>5. InOrder' /\ \A z \in Sides, t \in Streams : base(z, t)' = base(z, t)
      BY <1>1, <2>4, SameOrder DEF CleanInv
    <2>6. \A t \in Streams : t # s => Joined(t)'
      BY <1>14, <2>4
    <2>7. Len(got["page"][s]) = 0
      <3>1. \A m, n \in Nat : m + n = 0 => m = 0
        OBVIOUS
      <3> QED
        BY <1>2, <2>2, <3>1, BaseType, Constants, Zenon DEF base
    <2>8. Opened(s)'
      <3>1. \A z \in Sides : on(wire[z], "PSH", s) = {} => on(wire'[z], "PSH", s) = {}
        BY <1>2, <1>9, <1>11 DEF Comes, w, v
      <3> QED
        BY <1>1, <1>2, <1>6, <2>1, <2>2, <2>4, <2>5, <2>7, <3>1, Constants DEF Opened
    <2>9. Announced(s)'
      <3>1. on(v, "SYN", s) = {}
        <4>1. ASSUME NEW i \in on(v, "SYN", s) PROVE FALSE
          <5>1. i + 1 = 1 /\ i \in Nat /\ i > 0
            BY <1>9, <1>12, <2>2 DEF Comes
          <5> QED
            BY <5>1
        <4> QED
          BY <4>1
      <3> QED
        BY <1>1, <1>2, <1>6, <2>1, <2>2, <2>4, <3>1 DEF Announced, v
    <2> QED
      BY <1>1, <1>2, <1>13, <1>15, <1>16, <1>17, <2>4, <2>5, <2>6, <2>8, <2>9, CleanStep DEF Joined, CleanInv
  <1>18. CASE f.cmd = "FIN"
    <2>1. UNCHANGED <<buffers, table, dropped>> /\ recvFin(x, f)
      BY <1>3, <1>18 DEF recvFin
    <2>2. InOrder' /\ \A z \in Sides, t \in Streams : base(z, t)' = base(z, t)
      BY <1>1, <2>1, SameOrder DEF CleanInv
    <2>3. /\ \A z \in Sides, t \in Streams : ~(z = x /\ t = s) => fin'[z][t] = fin[z][t]
          /\ fin[x][s] => fin'[x][s]
      <3>1. fin' = of(fin, x, s, TRUE) \/ fin' = fin
        BY <2>1 DEF recvFin
      <3>2. CASE fin' = of(fin, x, s, TRUE)
        BY <1>2, <3>2 DEF of, SessionInv, StreamTypes
      <3> QED
        BY <3>1, <3>2
    <2>4. \A t \in Streams : t # s => Joined(t)'
      BY <1>14, <2>1, <2>3
    <2>5. Opened(s)'
      <3>1. \A z \in Sides : on(wire[z], "PSH", s) = {} => on(wire'[z], "PSH", s) = {}
        BY <1>2, <1>9, <1>11 DEF Comes, w, v
      <3> QED
        BY <1>1, <1>2, <1>6, <2>1, <2>2, <3>1, Constants DEF Opened
    <2>6. Announced(s)'
      <3>1. \E d \in {0, 1} : Comes(wire["page"], wire'["page"], d, "SYN", s)
        BY <1>2, <1>9, <1>11, Constants DEF w, v
      <3>2. \E d \in {0, 1} : /\ Moved(wire["server"], wire'["server"], d, "SYN", s)
                              /\ Comes(wire["server"], wire'["server"], d, "PSH", s)
        BY <1>2, <1>9, <1>10, <1>11, <1>18, Constants DEF w, v
      <3> QED
        BY <1>1, <1>2, <1>6, <2>1, <2>2, <3>1, <3>2, AnnouncedKept, Constants DEF Beyond
    <2>7. closer[y][s] # "no"
      BY <1>6, <1>12, <1>18 DEF Closing, w, y
    <2>8. ASSUME NEW z \in Sides PROVE Closing(z, s)'
      <3>1. CASE z = x
        BY <1>1, <1>2, <1>6, <1>7, <2>3, <2>7, <3>1 DEF Closing, y
      <3>2. CASE z # x
        <4>1. peer(z) = x /\ fin'[z][s] = fin[z][s]
          BY <1>2, <2>3, <3>2
        <4> QED
          BY <1>1, <1>2, <1>6, <1>7, <4>1 DEF Closing
      <3> QED
        BY <3>1, <3>2
    <2>9. ASSUME NEW z \in Sides, closer'[z][s] # "done" PROVE Arriving(z, s)'
      <3>1. CASE z # x
        BY <1>2, <1>15, <1>18, <2>1, <2>3, <2>9, <3>1
      <3>2. CASE z = x
        <4>1. promised[y][s] <= base(x, s)
          <5>1. \A n \in Nat : base(x, s) < n /\ n <= promised[y][s] => \E i \in on(w, "PSH", s) : i < 1
            BY <1>1, <1>6, <1>12, <1>18, <2>9, <3>2 DEF Arriving, y, w
          <5>2. \A i \in on(w, "PSH", s) : i \in Nat /\ i > 0
            BY <1>2, OnIs
          <5>3. base(x, s) \in Nat /\ promised[y][s] \in Nat
            BY <1>2, BaseType
          <5>4. ~(base(x, s) < base(x, s) + 1 /\ base(x, s) + 1 <= promised[y][s])
            BY <5>1, <5>2, <5>3
          <5> QED
            BY <5>3, <5>4
        <4>2. CASE fin[x][s]
          BY <1>15, <1>18, <2>1, <2>9, <3>2, <4>2
        <4> DEFINE b == base(x, s)
                   n0 == written(y, s)
                   p == promised[y][s]
        <4>3. /\ b <= n0
              /\ \A i \in on(w, "PSH", s) : b < w[i].num /\ w[i].num <= n0
              /\ \A n \in Nat : b < n /\ n <= n0 => \E i \in on(w, "PSH", s) : w[i].num = n
              /\ \A i, j \in on(w, "PSH", s) : i < j => w[i].num < w[j].num
          BY <1>1, <1>6, <2>9, <3>2 DEF Arriving, y, w
        <4>4. base(x, s)' = b /\ written(y, s)' = n0 /\ promised'[y][s] = p /\ v = wire'[y]
          BY <1>1, <1>2, <1>7, <2>2 DEF v
        <4>5. p <= b /\ b \in Nat /\ p \in Nat
          BY <1>2, <4>1, BaseType
        <4>6. Moved(w, v, 1, "PSH", s) /\ \A i \in on(v, "PSH", s) : i \in Nat
          BY <1>10, <1>12, <1>18
        <4> HIDE DEF b, n0, p
        <4>7. \A i \in on(v, "PSH", s) : b < v[i].num /\ v[i].num <= n0
          BY <4>3, <4>6 DEF Moved, Comes
        <4>8. \A n \in Nat : b < n /\ n <= n0 => \E i \in on(v, "PSH", s) : v[i].num = n
          BY <4>3, <4>6 DEF Moved
        <4>9. ASSUME NEW i \in on(v, "PSH", s), NEW j \in on(v, "PSH", s), i < j PROVE v[i].num < v[j].num
          BY <4>3, <4>6, <4>9 DEF Moved, Comes
        <4>10. \A n \in Nat : ~(b < n /\ n <= p)
          BY <4>5
        <4> QED
          BY <3>2, <4>3, <4>4, <4>5, <4>7, <4>8, <4>9, <4>10 DEF Arriving, y
      <3> QED
        BY <3>1, <3>2
    <2> QED
      BY <1>1, <1>2, <1>13, <2>1, <2>2, <2>4, <2>5, <2>6, <2>8, <2>9, CleanStep DEF Joined, CleanInv
  <1>19. CASE f.cmd = "PSH"
    <2>1. opener[s] = "open"
      BY <1>2, <1>6, <1>12, <1>19 DEF Opened, w
    <2>2. recvPsh(x, f) /\ UNCHANGED <<table, fin>>
      BY <1>3, <1>19 DEF recvPsh
    <2>3. \A z \in Sides : Closing(z, s)'
      BY <1>16, <1>19, <2>2
    <2>4. /\ \E d \in {0, 1} : Comes(wire["page"], wire'["page"], d, "SYN", s)
          /\ \E d \in {0, 1} : /\ Moved(wire["server"], wire'["server"], d, "SYN", s)
                               /\ Comes(wire["server"], wire'["server"], d, "PSH", s)
      BY <1>2, <1>9, <1>10, <1>11, <1>19, Constants DEF w, v
    <2>5. ASSUME base(y, s)' = base(y, s), closer'[y][s] # "done" PROVE Arriving(y, s)'
      BY <1>1, <1>2, <1>6, <1>7, <1>11, <2>2, <2>5, ArrivingKept DEF Moved
    <2>6. CASE s \notin table[x]
      <3>1. UNCHANGED buffers /\ dropped' = (dropped \/ ~dead[x][s])
        BY <2>2, <2>6 DEF recvPsh
      <3>2. closer[x][s] = "done"
        <4>1. CASE x = "server"
          BY <1>6, <2>1, <2>6, <4>1 DEF Opened
        <4>2. CASE x = "page"
          <5>1. 1 \in on(wire["server"], "PSH", s) /\ wire["server"] \in Seq(Frame)
            BY <1>2, <1>12, <1>19, <4>2, Constants DEF w, y, peer
          <5>2. ~ \E j \in on(wire["server"], "SYN", s) : j < 1
            <6>1. \A j \in on(wire["server"], "SYN", s) : j \in Nat /\ j > 0
              BY <5>1, OnIs
            <6> QED
              BY <6>1
          <5> QED
            BY <1>6, <2>6, <4>2, <5>1, <5>2 DEF Announced
        <4> QED
          BY <4>1, <4>2 DEF Sides
      <3>3. ~dropped'
        BY <1>2, <3>1, <3>2 DEF CleanInv, SessionInv, Orderly
      <3>4. InOrder' /\ \A z \in Sides, t \in Streams : base(z, t)' = base(z, t)
        BY <1>1, <3>1, SameOrder DEF CleanInv
      <3>5. \A t \in Streams : t # s => Joined(t)'
        BY <1>14, <2>2, <3>1
      <3>6. Opened(s)'
        BY <1>1, <1>2, <1>6, <2>1, <2>2, <3>4, Constants DEF Opened
      <3>7. Announced(s)'
        BY <1>1, <1>2, <1>6, <2>2, <2>4, <3>4, AnnouncedKept, Constants DEF Beyond
      <3>8. \A z \in Sides : closer'[z][s] # "done" => Arriving(z, s)'
        BY <1>1, <1>2, <2>5, <3>2, <3>4
      <3> QED
        BY <1>1, <1>2, <1>13, <2>3, <3>3, <3>4, <3>5, <3>6, <3>7, <3>8, CleanStep DEF Joined
    <2>7. CASE s \in table[x]
      <3> DEFINE c == buffers[x][s]
                 e == [num |-> f.num, left |-> FrameSize]
                 g == got[x][s]
                 b == base(x, s)
                 n0 == written(y, s)
                 p == promised[y][s]
      <3>1. buffers' = of(buffers, x, s, Append(c, e)) /\ dropped' = dropped
        BY <2>2, <2>7 DEF recvPsh
      <3>2. \A z \in Sides, t \in Streams : buffers'[z][t] = IF z = x /\ t = s THEN Append(c, e) ELSE buffers[z][t]
        BY <1>2, <3>1 DEF of, SessionInv, StreamTypes
      <3>3. closer[x][s] # "done"
        BY <1>6, <2>7 DEF Opened
      <3>4. Arriving(x, s) /\ f.num = b + 1
        BY <1>2, <1>4, <1>6, <1>12, <1>19, <3>3, NextFrame DEF w, y
      <3>0. b \in Nat /\ n0 \in Nat /\ p \in Nat
        BY <1>2, BaseType
      <3>5. Len(g) \in Nat /\ Len(c) \in Nat /\ b = Len(g) + Len(c)
        BY <1>2, BaseType DEF base
      <3>6. Len(Append(c, e)) = Len(c) + 1 /\ \A j \in 1 .. Len(c) + 1 : Append(c, e)[j] = IF j <= Len(c) THEN c[j] ELSE e
        <4>1. c \in Seq(Buffer) /\ e \in Buffer
          <5>1. f.num \in Nat /\ FrameSize \in 1 .. FrameSize
            BY <3>0, <3>4, Constants
          <5>2. e \in Buffer
            BY <3>4, <5>1 DEF Buffer
          <5>3. c \in Seq(Buffer)
            BY <1>2 DEF SessionInv, StreamTypes
          <5> QED
            BY <5>2, <5>3
        <4> HIDE DEF c, e
        <4> QED
          BY <4>1
      <3>7. base(x, s)' = b + 1 /\ \A z \in Sides, t \in Streams : ~(z = x /\ t = s) => base(z, t)' = base(z, t)
        <4>1. base(x, s)' = Len(g) + (Len(c) + 1)
          BY <1>1, <1>2, <3>2, <3>6 DEF base
        <4>2. \A z \in Sides, t \in Streams : ~(z = x /\ t = s) => base(z, t)' = base(z, t)
          BY <1>1, <3>2 DEF base
        <4>3. \A k, m, n \in Nat : k = m + n => m + (n + 1) = k + 1
          OBVIOUS
        <4>4. base(x, s)' = b + 1
          <5> HIDE DEF b, g, c
          <5>1. Len(g) + (Len(c) + 1) = b + 1
            BY <3>0, <3>5, <4>3
          <5> QED
            BY <4>1, <5>1
        <4> QED
          BY <4>2, <4>4
      <3>8. InOrder'
        <4>1. ordered(g, c) /\ e.num = Len(g) + Len(c) + 1
          BY <1>2, <3>4, <3>5 DEF CleanInv, InOrder
        <4>2. ordered(g, Append(c, e))
          <5> DEFINE a == Append(c, e)
          <5>1. Len(a) = Len(c) + 1 /\ \A j \in 1 .. Len(c) + 1 : a[j] = IF j <= Len(c) THEN c[j] ELSE e
            BY <3>6
          <5> HIDE DEF a, c, e, g
          <5>2. /\ \A i \in 1 .. Len(g) : g[i] = i
                /\ \A j \in 1 .. Len(c) : c[j].num = Len(g) + j
            BY <4>1 DEF ordered
          <5>3. Len(g) \in Nat /\ Len(c) \in Nat /\ e.num = Len(g) + Len(c) + 1
            BY <3>5, <4>1
          <5>4. \A j \in 1 .. Len(a) : a[j].num = Len(g) + j
            <6>1. ASSUME NEW j \in 1 .. Len(a) PROVE a[j].num = Len(g) + j
              <7>1. CASE j <= Len(c)
                BY <5>1, <5>2, <5>3, <6>1, <7>1
              <7>2. CASE j > Len(c)
                BY <5>1, <5>3, <6>1, <7>2
              <7> QED
                BY <5>1, <5>3, <6>1, <7>1, <7>2
            <6> QED
              BY <6>1
          <5>5. ordered(g, a)
            BY <5>2, <5>4 DEF ordered
          <5> QED
            BY <5>5 DEF a
        <4>3. ASSUME NEW z \in Sides, NEW t \in Streams PROVE ordered(got'[z][t], buffers'[z][t])
          <5>1. CASE z = x /\ t = s
            BY <1>1, <3>2, <4>2, <5>1
          <5>2. CASE ~(z = x /\ t = s)
            BY <1>1, <3>2, <5>2 DEF CleanInv, InOrder
          <5> QED
            BY <5>1, <5>2
        <4> QED
          BY <4>3 DEF InOrder
      <3>9. \A t \in Streams : t # s => Joined(t)'
        BY <1>14, <2>2, <3>2
      <3>10. Opened(s)'
        BY <1>1, <1>2, <1>6, <2>1, <2>2, Constants DEF Opened
      <3>11. Announced(s)'
        <4>1. on(wire["server"], "SYN", s) # {} => base("page", s)' = base("page", s)
          BY <1>2, <1>6, <2>7, <3>7, Constants DEF Announced
        <4> QED
          BY <1>1, <1>2, <1>6, <2>2, <2>4, <4>1, AnnouncedKept, Constants DEF Beyond
      <3>12. Arriving(x, s)'
        <4>1. /\ \A i \in on(w, "PSH", s) : b < w[i].num /\ w[i].num <= n0
              /\ \A n \in Nat : b < n /\ n <= n0 => \E i \in on(w, "PSH", s) : w[i].num = n
              /\ \A i, j \in on(w, "PSH", s) : i < j => w[i].num < w[j].num
              /\ \A j \in on(w, "FIN", s), n \in Nat : b < n /\ n <= p => \E i \in on(w, "PSH", s) : i < j /\ w[i].num = n
              /\ fin[x][s] => p <= b
          BY <3>4 DEF Arriving, w, y
        <4>2. /\ base(x, s)' = b + 1 /\ written(y, s)' = n0 /\ promised'[y][s] = p /\ v = wire'[y] /\ fin'[x][s] = fin[x][s]
          BY <1>1, <1>2, <1>7, <2>2, <3>7 DEF v
        <4>3. /\ 1 \in on(w, "PSH", s) /\ w[1].num = b + 1 /\ Comes(w, v, 1, "PSH", s) /\ Comes(w, v, 1, "FIN", s)
              /\ \A i \in on(v, "PSH", s) \cup on(v, "FIN", s) : i \in Nat /\ i > 0
              /\ \A i \in on(w, "PSH", s) : i \in Nat /\ i > 0 /\ w[i].num \in Nat
          BY <1>2, <1>4, <1>9, <1>12, <1>19, <3>4, OnIs
        <4>4. \A j \in on(w, "PSH", s) : j # 1 => j - 1 \in on(v, "PSH", s) /\ v[j - 1] = w[j]
          BY <1>4 DEF on
        <4> HIDE DEF b, n0, p
        <4>5. b + 1 <= n0
          BY <4>1, <4>3
        <4>6. ASSUME NEW i \in on(v, "PSH", s) PROVE b + 1 < v[i].num /\ v[i].num <= n0
          <5>1. i + 1 \in on(w, "PSH", s) /\ v[i] = w[i + 1] /\ 1 < i + 1
            BY <4>3 DEF Comes
          <5> QED
            BY <4>1, <4>3, <5>1
        <4>7. ASSUME NEW n \in Nat, b + 1 < n, n <= n0 PROVE \E i \in on(v, "PSH", s) : v[i].num = n
          <5>1. PICK i \in on(w, "PSH", s) : w[i].num = n
            BY <3>0, <4>1, <4>7
          <5>2. i # 1
            BY <3>0, <4>3, <4>7, <5>1
          <5> QED
            BY <4>4, <5>1, <5>2
        <4>8. ASSUME NEW i \in on(v, "PSH", s), NEW j \in on(v, "PSH", s), i < j PROVE v[i].num < v[j].num
          BY <4>1, <4>3, <4>8 DEF Comes
        <4>9. ASSUME NEW j \in on(v, "FIN", s), NEW n \in Nat, b + 1 < n, n <= p
              PROVE  \E i \in on(v, "PSH", s) : i < j /\ v[i].num = n
          <5>1. j + 1 \in on(w, "FIN", s) /\ j \in Nat
            BY <4>3 DEF Comes
          <5>2. PICK i \in on(w, "PSH", s) : i < j + 1 /\ w[i].num = n
            BY <3>0, <4>1, <4>9, <5>1
          <5>3. i # 1 /\ i \in Nat
            BY <3>0, <4>3, <4>9, <5>2
          <5>4. i - 1 \in on(v, "PSH", s) /\ v[i - 1].num = n /\ i - 1 < j
            BY <4>4, <5>1, <5>2, <5>3
          <5> QED
            BY <5>4
        <4>10. fin[x][s] => p <= b + 1
          BY <3>0, <4>1
        <4> QED
          BY <4>2, <4>5, <4>6, <4>7, <4>8, <4>9, <4>10 DEF Arriving, y
      <3>13. base(y, s)' = base(y, s) /\ (closer'[y][s] # "done" => Arriving(y, s)')
        BY <1>2, <2>5, <3>7
      <3> QED
        BY <1>1, <1>2, <1>13, <2>3, <3>1, <3>8, <3>9, <3>10, <3>11, <3>12, <3>13, CleanStep DEF Joined, CleanInv
    <2> QED
      BY <2>6, <2>7
  <1> QED
    BY <1>3, <1>17, <1>18, <1>19

-----------------------------------------------------------------------------
(* The end *)

LEMMA VanishClean ==
  ASSUME SessionInv, CleanInv, NEW x \in Sides, Vanish(x)
  PROVE  CleanInv'
  <1>1. Vanished(x)
    BY VanishIs
  <1>2. gone' = x /\ x # "none" /\ dropped' = dropped /\ \A y \in Sides : wire'[y] = <<>>
    BY <1>1 DEF Vanished, Sides
  <1>3. reqs'[x] = {}
    BY <1>1 DEF Vanished, SessionInv, SessionTypes
  <1>4. \A y \in Sides, s \in Streams :
          /\ got'[y][s] = IF y = x THEN <<>> ELSE got[y][s]
          /\ buffers'[y][s] = IF y = x THEN <<>> ELSE buffers[y][s]
    BY <1>1 DEF Vanished, SessionInv, StreamTypes
  <1>5. InOrder'
    <2>1. ordered(<<>>, <<>>)
      BY DEF ordered
    <2>2. ASSUME NEW y \in Sides, NEW s \in Streams PROVE ordered(got'[y][s], buffers'[y][s])
      BY <1>4, <2>1 DEF CleanInv, InOrder
    <2> QED
      BY <2>2 DEF InOrder
  <1>6. x = "page" => \A s \in Streams : base("page", s)' = 0
    <2>1. ASSUME x = "page", NEW s \in Streams PROVE base("page", s)' = 0
      <3>1. got'["page"][s] = <<>> /\ buffers'["page"][s] = <<>>
        BY <1>4, <2>1
      <3>2. Len(<<>>) = 0 /\ 0 + 0 = 0
        OBVIOUS
      <3> QED
        BY <3>1, <3>2 DEF base
    <2> QED
      BY <2>1
  <1>7. x = "server" => \A s \in Streams : opener'[s] = "no"
    BY <1>1 DEF Vanished
  <1> QED
    BY <1>2, <1>3, <1>5, <1>6, <1>7 DEF CleanInv, Broken, Working, Connected

LEMMA CleanStays ==
  ASSUME SessionInv, CleanInv, [Next]_vars
  PROVE  CleanInv'
  <1>1. CASE gone # "none"
    BY <1>1, BrokenStep
  <1>2. CASE gone = "none"
    <2>0. \A x \in Sides : ~cut(x) /\ ~gaveUp(x)
      BY <1>2, Constants DEF cut, Sides, peer, CleanInv, Working
    <2>1. ASSUME NEW x \in Sides, sendLoop(x) \/ recvLoop(x) \/ keepalive(x) \/ sessionClose(x) \/ Vanish(x) PROVE CleanInv'
      <3>1. ~recvError(x) /\ ~keepalive(x) /\ ~sessionClose(x)
        BY <2>0 DEF recvError, keepalive, sessionClose, gaveUp
      <3>2. CASE recvFrame(x)
        BY <1>2, <3>2, FrameClean
      <3>3. CASE sendLoop(x) \/ Vanish(x)
        BY <1>2, <3>3, SendClean, VanishClean
      <3>4. CASE recvSleep(x) \/ recvWait(x) \/ recvStore(x)
        BY <1>2, <3>4, IdleClean
      <3> QED
        BY <2>1, <3>1, <3>2, <3>3, <3>4 DEF recvLoop
    <2>2. ASSUME NEW x \in Sides, NEW s \in Streams,
                 Write(x, s) \/ CloseBegins(x, s) \/ GiveUp(x, s) \/ streamClosed(x, s) \/ Reads(x, s)
          PROVE  CleanInv'
      <3>1. ~GiveUp(x, s)
        BY <2>0 DEF GiveUp
      <3>2. CASE Write(x, s)
        BY <1>2, <3>2, WriteClean
      <3>3. CASE CloseBegins(x, s)
        BY <1>2, <3>3, CloseClean
      <3>4. CASE streamClosed(x, s)
        BY <1>2, <3>4, ClosedClean
      <3>5. CASE Take(x, s)
        BY <1>2, <3>5, TakeClean
      <3>6. CASE waitRead(x, s)
        BY <1>2, <3>6, WaitClean
      <3>7. CASE returnTokens(x, s) \/ TakeNothing(x, s)
        BY <1>2, <3>7, IdleClean
      <3> QED
        BY <2>2, <3>1, <3>2, <3>3, <3>4, <3>5, <3>6, <3>7 DEF Reads
    <2>3. ASSUME NEW s \in Streams, OpenStream(s) \/ Register(s) PROVE CleanInv'
      BY <1>2, <2>3, OpenClean, RegisterClean
    <2>4. CASE AcceptStream \/ UNCHANGED vars
      BY <1>2, <2>4, IdleClean
    <2> QED
      BY <2>1, <2>2, <2>3, <2>4 DEF Next
  <1> QED
    BY <1>1, <1>2

LEMMA CleanIs == SessionInv /\ CleanInv => CleanEnd
  <1> SUFFICES ASSUME SessionInv, CleanInv PROVE CleanEnd
    OBVIOUS
  <1>1. ASSUME NEW x \in Sides, NEW s \in Streams PROVE \A i \in 1 .. Len(got[x][s]) : got[x][s][i] = i
    BY DEF CleanInv, InOrder, ordered
  <1>2. ASSUME NEW x \in Sides, NEW s \in Streams, reader[x][s] = "EOF", ~dead[x][s], gone = "none"
        PROVE  Len(got[x][s]) >= promised[peer(x)][s]
    <2>1. promised[peer(x)][s] <= Len(got[x][s])
      BY <1>2 DEF CleanInv, Connected, Joined, Closing
    <2> QED
      BY <2>1
  <1> QED
    BY <1>1, <1>2 DEF CleanEnd, CleanInv

\* A stream ends cleanly on every schedule: what a reader gets is in order and
\* without gaps, EOF comes only after everything a Close promises (session.go
\* recvLoop, stream.go tryRead and waitRead, shaper.go's priorities), and data
\* finds its stream (OpenStream's SYN goes before the stream is registered).
THEOREM EndsAreClean == Spec => []CleanEnd
  <1>1. Init => CleanInv
    BY InitClean
  <1>2. SessionInv /\ CleanInv /\ [Next]_vars => CleanInv'
    BY CleanStays
  <1>3. SessionInv /\ CleanInv => CleanEnd
    BY CleanIs
  <1> QED
    BY <1>1, <1>2, <1>3, SessionInvariant, PTL DEF Spec
=============================================================================
