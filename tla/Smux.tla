-------------------------------- MODULE Smux --------------------------------
(***************************************************************************)
(* smux: the streams that join the forwarder to the browser page            *)
(* (app/browserforwarder/handler/smux; the page runs the same library,      *)
(* compiled into release/extra/browserforwarder/index.js).  The forwarder   *)
(* opens streams, the page accepts them; protocol version 1, as the nil     *)
(* Config of both ends selects.                                            *)
(*                                                                         *)
(* A side x has a session: recvLoop, which reads frames only while the      *)
(* bucket has tokens; shaperLoop and sendLoop, which write the request of   *)
(* the least priority value next; and for each of its streams a goroutine   *)
(* that reads, one that writes and one that closes.  An atomic operation, a *)
(* channel operation or a critical section is one step.                     *)
(*                                                                         *)
(* The websocket between the two is reliable and in order while both exist.  *)
(* Pings (NOP frames) are left out, with the notice keepalive gives recvLoop *)
(* beside each (a wake-up that no property needs), and so is dataReady:     *)
(* whether keepalive finds it set is a choice.                              *)
(***************************************************************************)
EXTENDS Integers, Sequences, FiniteSets, FiniteSetsExt

CONSTANTS
  Streams,           \* ids of the streams the forwarder opens
  MaxReceiveBuffer,  \* tokens of a bucket
  FrameSize,         \* units of data in a PSH frame; a unit costs a token
  ReadSizes,         \* units a Read of the forwarder may ask for
  MaxFrames,         \* bound: PSH frames both ends write to a stream
  MayVanish          \* the sides that may disappear

Sides == {"server", "page"}
peer(x) == IF x = "server" THEN "page" ELSE "server"

ASSUME SmuxAssumption ==
  /\ MaxReceiveBuffer \in Nat \ {0} /\ FrameSize \in Nat \ {0}
  /\ ReadSizes \subseteq Nat \ {0} /\ ReadSizes # {}
  /\ MaxFrames \in Nat /\ IsFiniteSet(Streams)
  /\ MayVanish \subseteq Sides

VARIABLES
  wire,      \* wire[x]: frames x sent, not yet read by its peer
  gone,      \* the side that disappeared for the other, or "none"
  reqs,      \* reqs[x]: the requests in shaperLoop's heap
  sendErr,   \* sendErr[x]: chSocketWriteError is closed
  readErr,   \* readErr[x]: chSocketReadError is closed
  bucket,    \* bucket[x]: Session.bucket
  bucketNotify,  \* bucketNotify[x]: the channel holds its token
  die,       \* die[x]: Session.die is closed
  recv,      \* recv[x]: where recvLoop is
  hand,      \* hand[x]: the PSH frame recvLoop is storing
  table,     \* table[x]: the ids in Session.streams
  accepts,   \* accepts[x]: Session.chAccepts
  buffers,   \* buffers[x][s]: Stream.buffers, [num, left] for each
  event,     \* event[x][s]: chReadEvent holds its token
  fin,       \* fin[x][s]: chFinEvent is closed
  dead,      \* dead[x][s]: Stream.die is closed
  opener,    \* opener[s]: where OpenStream is
  writer,    \* writer[x][s]: where the goroutine that writes is
  numWritten,\* numWritten[x][s]: Stream.numWritten
  closer,    \* closer[x][s]: where Close is
  reader,    \* reader[x][s]: where the goroutine that reads is
  taken,     \* taken[x][s]: units it took and has not returned the tokens of
  promised,  \* history: written when Close was called
  got,       \* history: numbers of the frames that were read to their end
  dropped    \* history: a PSH met no stream although its receiver closed none

recvVars   == <<recv, hand>>
tokenVars  == <<bucket, bucketNotify>>
streamVars == <<buffers, event, fin, dead>>
sendVars   == <<wire, reqs, sendErr>>
readVars   == <<reader, taken, got>>
writeVars  == <<writer, numWritten>>
closeVars  == <<closer, promised>>
linkVars   == <<gone, readErr, die>>
vars == <<sendVars, linkVars, tokenVars, recvVars, table, accepts, streamVars, opener,
          writeVars, closeVars, readVars, dropped>>

Frame == [cmd : {"SYN", "FIN", "PSH"}, sid : Streams, num : Nat]
Request == [prio : Nat, frame : Frame]
None == [cmd |-> "none"]

of(f, x, s, v) == [f EXCEPT ![x][s] = v]

Init ==
  /\ wire = [x \in Sides |-> <<>>] /\ gone = "none"
  /\ reqs = [x \in Sides |-> {}]
  /\ sendErr = [x \in Sides |-> FALSE] /\ readErr = [x \in Sides |-> FALSE]
  /\ bucket = [x \in Sides |-> MaxReceiveBuffer]
  /\ bucketNotify = [x \in Sides |-> FALSE]
  /\ die = [x \in Sides |-> FALSE]
  /\ recv = [x \in Sides |-> "loop"] /\ hand = [x \in Sides |-> None]
  /\ table = [x \in Sides |-> {}] /\ accepts = <<>>
  /\ buffers = [x \in Sides |-> [s \in Streams |-> <<>>]]
  /\ event = [x \in Sides |-> [s \in Streams |-> FALSE]]
  /\ fin = event /\ dead = event
  /\ opener = [s \in Streams |-> "no"]
  /\ writer = [x \in Sides |-> [s \in Streams |-> "idle"]]
  /\ numWritten = [x \in Sides |-> [s \in Streams |-> 0]]
  /\ closer = [x \in Sides |-> [s \in Streams |-> "no"]]
  /\ reader = [x \in Sides |-> [s \in Streams |-> "no"]]
  /\ taken = numWritten /\ promised = numWritten /\ got = buffers
  /\ dropped = FALSE

\* The websocket of x is broken.
cut(x) == gone = peer(x)

\* streamLock: recvLoop holds it while it stores a frame; all else that takes
\* it is one step.
streamLockFree(x) == recv[x] # "store"

-----------------------------------------------------------------------------
(* Sending *)

\* When writeFrameInternal gives up and the loops that send have ended.
gaveUp(x) == die[x] \/ sendErr[x]

\* writeFrameInternal, first half: the request reaches shaperLoop, if it runs.
request(x, prio, cmd, s, num) ==
  reqs' = [reqs EXCEPT ![x] = IF gaveUp(x) THEN @ ELSE @ \cup
             {[prio |-> prio, frame |-> [cmd |-> cmd, sid |-> s, num |-> num]]}]

\* What heap.Pop of the shaperHeap may return: Less compares priorities, and
\* among equal ones the order is the heap's.
next(x, r) == r \in reqs[x] /\ \A q \in reqs[x] : r.prio <= q.prio

\* Who waits for the result of a request, and what it goes on with.
finish(x, f, ok) ==
  LET s == f.sid IN
  CASE f.cmd = "SYN" -> /\ opener' = [opener EXCEPT ![s] = IF ok THEN "sent" ELSE "failed"]
                        /\ UNCHANGED <<writeVars, closeVars>>
    [] f.cmd = "PSH" -> /\ writer' = of(writer, x, s, IF ok THEN "idle" ELSE "err")
                        /\ UNCHANGED <<opener, numWritten, closeVars>>
    [] f.cmd = "FIN" -> /\ closer' = of(closer, x, s, "sent")
                        /\ UNCHANGED <<opener, writeVars, promised>>

\* sendLoop: the next request is written and its result returned.  On a broken
\* websocket the forwarder's Write fails, which ends sendLoop; the page's Write
\* does not, the browser drops what is sent on a socket that is not open.
sendLoop(x) ==
  \E r \in reqs[x] :
    /\ next(x, r)
    /\ \/ /\ cut(x) => x = "page"
          /\ wire' = IF cut(x) THEN wire ELSE [wire EXCEPT ![x] = Append(@, r.frame)]
          /\ reqs' = [reqs EXCEPT ![x] = @ \ {r}]
          /\ finish(x, r.frame, TRUE)
          /\ UNCHANGED sendErr
       \/ /\ cut(x) /\ x = "server"
          /\ sendErr' = [sendErr EXCEPT ![x] = TRUE]
          /\ reqs' = [reqs EXCEPT ![x] = {}]
          /\ finish(x, r.frame, FALSE)
          /\ UNCHANGED wire
    /\ UNCHANGED <<linkVars, tokenVars, recvVars, table, accepts, streamVars, readVars, dropped>>

\* OpenStream: SYN is written first, ...
OpenStream(s) ==
  /\ opener[s] = "no" /\ gone # "server"
  /\ IF die["server"] THEN opener' = [opener EXCEPT ![s] = "failed"] /\ reqs' = reqs
     ELSE opener' = [opener EXCEPT ![s] = "syn"] /\ request("server", 0, "SYN", s, 0)
  /\ UNCHANGED <<wire, sendErr, linkVars, tokenVars, recvVars, table, accepts, streamVars,
                 writeVars, closeVars, readVars, dropped>>

\* ... and only then the stream enters the table.
Register(s) ==
  /\ opener[s] = "sent" /\ streamLockFree("server")
  /\ IF readErr["server"] \/ sendErr["server"] \/ die["server"]
       THEN /\ opener' = [opener EXCEPT ![s] = "failed"]
            /\ UNCHANGED <<table, reader>>
       ELSE /\ opener' = [opener EXCEPT ![s] = "open"]
            /\ table' = [table EXCEPT !["server"] = @ \cup {s}]
            /\ reader' = of(reader, "server", s, "try")
  /\ UNCHANGED <<sendVars, linkVars, tokenVars, recvVars, accepts, streamVars, writeVars,
                 closeVars, taken, got, dropped>>

\* AcceptStream, on the page.
AcceptStream ==
  /\ accepts # <<>>
  /\ accepts' = Tail(accepts)
  /\ reader' = of(reader, "page", Head(accepts), "try")
  /\ UNCHANGED <<sendVars, linkVars, tokenVars, recvVars, table, streamVars, opener, writeVars,
                 closeVars, taken, got, dropped>>

\* The forwarder uses a stream when it has opened it, the page when it has read
\* the request, the first frame.
usable(x, s) ==
  IF x = "server" THEN opener[s] = "open" ELSE Len(got[x][s]) > 0

\* Writes that returned nil; after one that failed there are no more.
written(x, s) == numWritten[x][s] - IF writer[x][s] = "idle" THEN 0 ELSE 1

\* Write of one frame.  A Write that Close overtakes goes on.
Write(x, s) ==
  /\ usable(x, s) /\ writer[x][s] = "idle" /\ ~dead[x][s]
  /\ numWritten[x][s] + numWritten[peer(x)][s] < MaxFrames
  /\ writer' = of(writer, x, s, "sending")
  /\ numWritten' = of(numWritten, x, s, numWritten[x][s] + 1)
  /\ request(x, numWritten[x][s], "PSH", s, numWritten[x][s] + 1)
  /\ UNCHANGED <<wire, sendErr, linkVars, tokenVars, recvVars, table, accepts, streamVars, opener,
                 closeVars, readVars, dropped>>

\* When Close is called: by the forwarder's user at any time once its request is
\* written, by the page's Bridge when its Copy from the stream ends or, before it
\* answers, when it cannot reach the destination.
mayClose(x, s) ==
  IF x = "server" THEN written(x, s) > 0
  ELSE reader[x][s] \in {"EOF", "err", "closed"} \/ numWritten[x][s] = 0

\* Close: die, then a FIN through the shaper, ...
CloseBegins(x, s) ==
  /\ usable(x, s) /\ mayClose(x, s) /\ ~dead[x][s]
  /\ dead' = of(dead, x, s, TRUE)
  /\ closer' = of(closer, x, s, "fin")
  /\ promised' = of(promised, x, s, written(x, s))
  /\ request(x, 0, "FIN", s, 0)
  /\ UNCHANGED <<wire, sendErr, linkVars, tokenVars, recvVars, table, accepts, buffers, event, fin,
                 opener, writeVars, readVars, dropped>>

\* Those that wait for a result when the session ends or a write fails return
\* without it.
GiveUp(x, s) ==
  /\ gaveUp(x)
  /\ \/ /\ x = "server" /\ opener[s] = "syn"
        /\ opener' = [opener EXCEPT ![s] = "failed"]
        /\ UNCHANGED <<writer, closer>>
     \/ /\ writer[x][s] = "sending"
        /\ writer' = of(writer, x, s, "err")
        /\ UNCHANGED <<opener, closer>>
     \/ /\ closer[x][s] = "fin"
        /\ closer' = of(closer, x, s, "sent")
        /\ UNCHANGED <<opener, writer>>
  /\ UNCHANGED <<sendVars, linkVars, tokenVars, recvVars, table, accepts, streamVars, numWritten,
                 promised, readVars, dropped>>

-----------------------------------------------------------------------------
(* Tokens *)

\* atomic.AddInt32 on the bucket, which returns the new value.
AddInt32(x, n) == bucket[x] + n

\* The data in a stream's buffers: only the first can have been read in part.
Units(x, s) ==
  LET b == buffers[x][s] IN
  IF b = <<>> THEN 0 ELSE Head(b).left + (Len(b) - 1) * FrameSize

\* A bug: tokens are returned without a look at the bucket's waiter.
returnSilently(x, n) ==
  /\ bucket' = [bucket EXCEPT ![x] = AddInt32(x, n)]
  /\ bucketNotify' = bucketNotify

\* Tokens are added and, if there are some now, notifyBucket.
return(x, n) ==
  /\ bucket' = [bucket EXCEPT ![x] = AddInt32(x, n)]
  /\ bucketNotify' = [bucketNotify EXCEPT ![x] = @ \/ AddInt32(x, n) > 0]

\* A bug: closing a stream forgets the tokens of what nobody read.
streamClosedKeepsTokens(x, s) ==
  /\ closer[x][s] = "sent" /\ streamLockFree(x)
  /\ closer' = of(closer, x, s, "done")
  /\ UNCHANGED tokenVars
  /\ buffers' = of(buffers, x, s, <<>>)
  /\ table' = [table EXCEPT ![x] = @ \ {s}]
  /\ UNCHANGED <<sendVars, linkVars, recvVars, accepts, event, fin, dead, opener, writeVars,
                 promised, readVars, dropped>>

\* ... and, when the FIN is written or cannot be, streamClosed: what is left in
\* the buffers turns into tokens again.
streamClosed(x, s) ==
  LET n == Units(x, s) IN
  /\ closer[x][s] = "sent" /\ streamLockFree(x)
  /\ closer' = of(closer, x, s, "done")
  /\ IF n > 0 THEN return(x, n) ELSE UNCHANGED tokenVars
  /\ buffers' = of(buffers, x, s, <<>>)
  /\ table' = [table EXCEPT ![x] = @ \ {s}]
  /\ UNCHANGED <<sendVars, linkVars, recvVars, accepts, event, fin, dead, opener, writeVars,
                 promised, readVars, dropped>>

-----------------------------------------------------------------------------
(* recvLoop *)

goto(x, l) == recv' = [recv EXCEPT ![x] = l]
others == <<sendErr, reqs, opener, writeVars, closeVars, readVars>>

\* recvLoop sleeps while there is no token.  Only recvLoop takes tokens, so it
\* may still read when it does so later.
mayRead(x) == bucket[x] > 0 \/ die[x]

recvSleep(x) ==
  /\ recv[x] = "loop" /\ ~mayRead(x)
  /\ goto(x, "wait")
  /\ UNCHANGED <<others, wire, linkVars, tokenVars, hand, table, accepts, streamVars, dropped>>

recvWait(x) ==
  /\ recv[x] = "wait"
  /\ \/ /\ bucketNotify[x]
        /\ bucketNotify' = [bucketNotify EXCEPT ![x] = FALSE]
        /\ goto(x, "loop")
     \/ /\ die[x]
        /\ goto(x, "done")
        /\ UNCHANGED bucketNotify
  /\ UNCHANGED <<others, wire, linkVars, bucket, hand, table, accepts, streamVars, dropped>>

recvFin(x, f) ==
  /\ IF f.sid \in table[x]
       THEN fin' = of(fin, x, f.sid, TRUE) /\ event' = of(event, x, f.sid, TRUE)
       ELSE UNCHANGED <<fin, event>>
  /\ goto(x, "loop")
  /\ UNCHANGED <<bucket, hand, table, accepts, buffers, dropped>>

recvSyn(x, f) ==
  /\ IF f.sid \notin table[x]
       THEN table' = [table EXCEPT ![x] = @ \cup {f.sid}] /\ accepts' = Append(accepts, f.sid)
       ELSE UNCHANGED <<table, accepts>>
  /\ goto(x, "loop")
  /\ UNCHANGED <<bucket, hand, buffers, fin, event, dropped>>

\* Data goes to the stream if it is in the table: pushBytes, and streamLock is
\* kept until the tokens are deducted and the reader is told, which on the page
\* no other goroutine comes between.
recvPsh(x, f) ==
  LET s == f.sid IN
  /\ IF s \in table[x]
       THEN /\ buffers' = of(buffers, x, s,
                             Append(buffers[x][s], [num |-> f.num, left |-> FrameSize]))
            /\ dropped' = dropped
            /\ IF x = "page"
                 THEN /\ bucket' = [bucket EXCEPT ![x] = AddInt32(x, -FrameSize)]
                      /\ event' = of(event, x, s, TRUE)
                      /\ goto(x, "loop") /\ hand' = hand
                 ELSE /\ goto(x, "store") /\ hand' = [hand EXCEPT ![x] = f]
                      /\ UNCHANGED <<bucket, event>>
       ELSE /\ dropped' = (dropped \/ ~dead[x][s])
            /\ goto(x, "loop")
            /\ UNCHANGED <<buffers, hand, bucket, event>>
  /\ UNCHANGED <<table, accepts, fin>>

\* ReadFull: the next frame, ...
recvFrame(x) ==
  LET f == Head(wire[peer(x)]) IN
  /\ recv[x] = "loop" /\ bucket[x] > 0 /\ ~die[x] /\ wire[peer(x)] # <<>>
  /\ wire' = [wire EXCEPT ![peer(x)] = Tail(@)]
  /\ \/ f.cmd = "SYN" /\ recvSyn(x, f)
     \/ f.cmd = "FIN" /\ recvFin(x, f)
     \/ f.cmd = "PSH" /\ recvPsh(x, f)
  /\ UNCHANGED <<others, linkVars, bucketNotify, dead>>

\* ... or an error, once the websocket is broken and has nothing left.
recvError(x) ==
  /\ recv[x] = "loop" /\ mayRead(x) /\ cut(x)
  /\ readErr' = [readErr EXCEPT ![x] = TRUE]
  /\ goto(x, "done")
  /\ UNCHANGED <<others, wire, gone, die, tokenVars, hand, table, accepts, streamVars, dropped>>

\* A bug: the reader is not told that there is data.
recvStoreSilently(x) ==
  /\ recv[x] = "store"
  /\ bucket' = [bucket EXCEPT ![x] = AddInt32(x, -FrameSize)]
  /\ hand' = [hand EXCEPT ![x] = None]
  /\ goto(x, "loop")
  /\ UNCHANGED <<others, wire, linkVars, bucketNotify, table, accepts, streamVars, dropped>>

\* The forwarder deducts the tokens and tells the reader in a step of its own:
\* its readers take data without the lock.
recvStore(x) ==
  /\ recv[x] = "store"
  /\ bucket' = [bucket EXCEPT ![x] = AddInt32(x, -FrameSize)]
  /\ event' = of(event, x, hand[x].sid, TRUE)
  /\ hand' = [hand EXCEPT ![x] = None]
  /\ goto(x, "loop")
  /\ UNCHANGED <<others, wire, linkVars, bucketNotify, table, accepts, buffers, fin, dead, dropped>>

-----------------------------------------------------------------------------
(* Reading a stream: Read of the forwarder, WriteTo of the page *)

\* A bug: a reader that sees the FIN does not look at the buffers again.
finSeenAtOnce(x, s) == "EOF"

\* The stream was told of the FIN: data that came before it is still read.
finSeen(x, s) == IF buffers[x][s] # <<>> THEN "try" ELSE "EOF"

\* A bug: a buffer that was read to its end stays.
restKeepsEmpty(b, k) == <<[Head(b) EXCEPT !.left = @ - k]>> \o Tail(b)

\* What is left of buffers b when k was copied out of the first.
rest(b, k) ==
  IF k = Head(b).left THEN Tail(b) ELSE <<[Head(b) EXCEPT !.left = @ - k]>> \o Tail(b)

\* One turn of the loop, with data: the forwarder copies what it asked for out
\* of the first buffer, the page takes all of it (ReadRequest reads all of the
\* first frame) and returns its tokens before another goroutine runs.
Take(x, s) ==
  /\ reader[x][s] = "try" /\ buffers[x][s] # <<>>
  /\ LET b == Head(buffers[x][s]) IN
     \E n \in IF x = "server" THEN ReadSizes ELSE {FrameSize} :
       LET k == IF n < b.left THEN n ELSE b.left IN
       /\ buffers' = of(buffers, x, s, rest(buffers[x][s], k))
       /\ got' = IF k = b.left THEN of(got, x, s, Append(got[x][s], b.num)) ELSE got
       /\ IF x = "page"
            THEN return(x, k) /\ UNCHANGED <<taken, reader>>
            ELSE /\ taken' = of(taken, x, s, k)
                 /\ reader' = of(reader, x, s, "return")
                 /\ UNCHANGED tokenVars
  /\ UNCHANGED <<sendVars, linkVars, recvVars, table, accepts, event, fin, dead, opener,
                 writeVars, closeVars, dropped>>

\* returnTokens, once the data is in the caller's buffer.
returnTokens(x, s) ==
  /\ reader[x][s] = "return"
  /\ return(x, taken[x][s])
  /\ taken' = of(taken, x, s, 0)
  /\ reader' = of(reader, x, s, "try")
  /\ UNCHANGED <<sendVars, linkVars, recvVars, table, accepts, streamVars, opener, writeVars,
                 closeVars, got, dropped>>

\* Without data: tryRead asks whether the stream is closed, WriteTo does not.
TakeNothing(x, s) ==
  /\ reader[x][s] = "try" /\ buffers[x][s] = <<>>
  /\ reader' = of(reader, x, s, IF x = "server" /\ dead[x][s] THEN "closed" ELSE "wait")
  /\ UNCHANGED <<sendVars, linkVars, tokenVars, recvVars, table, accepts, streamVars, opener,
                 writeVars, closeVars, taken, got, dropped>>

\* waitRead: a select, so any case that is ready may be chosen.
waitRead(x, s) ==
  /\ reader[x][s] = "wait"
  /\ \/ /\ event[x][s]
        /\ event' = of(event, x, s, FALSE)
        /\ reader' = of(reader, x, s, "try")
     \/ /\ fin[x][s]
        /\ reader' = of(reader, x, s, finSeen(x, s))
        /\ UNCHANGED event
     \/ /\ readErr[x]
        /\ reader' = of(reader, x, s, "err")
        /\ UNCHANGED event
     \/ /\ dead[x][s]
        /\ reader' = of(reader, x, s, "closed")
        /\ UNCHANGED event
  /\ UNCHANGED <<sendVars, linkVars, tokenVars, recvVars, table, accepts, buffers, fin, dead, opener,
                 writeVars, closeVars, taken, got, dropped>>

-----------------------------------------------------------------------------
(* The end of the session *)

\* A side disappears: the tab is closed or reloaded, or the forwarder is killed.
\* Nothing of it is left, nor of what was on its way; frames that still arrive
\* are those that were read before.
\*
\* It is the same for the side that stays when the link between them is lost, or
\* when keepalive closes a session that works: pings came too late, or recvLoop
\* was out of tokens for a whole timeout and has some again when it expires.
\* Nothing passes between the sides from then on, so what each does is what it
\* does when the other disappears, with keepalive next where it was the cause.
Vanish(x) ==
  LET reset(f, v) == [f EXCEPT ![x] = v]
      each(v) == [s \in Streams |-> v] IN
  /\ x \in MayVanish /\ gone = "none"
  /\ gone' = x
  /\ wire' = [y \in Sides |-> <<>>]
  /\ reqs' = reset(reqs, {}) /\ hand' = reset(hand, None) /\ recv' = reset(recv, "loop")
  /\ bucket' = reset(bucket, MaxReceiveBuffer) /\ bucketNotify' = reset(bucketNotify, FALSE)
  /\ table' = reset(table, {}) /\ buffers' = reset(buffers, each(<<>>))
  /\ event' = reset(event, each(FALSE)) /\ fin' = reset(fin, each(FALSE))
  /\ dead' = reset(dead, each(FALSE))
  /\ writer' = reset(writer, each("idle")) /\ numWritten' = reset(numWritten, each(0))
  /\ closer' = reset(closer, each("no")) /\ promised' = reset(promised, each(0))
  /\ reader' = reset(reader, each("no")) /\ taken' = reset(taken, each(0))
  /\ got' = reset(got, each(<<>>))
  /\ IF x = "page" THEN accepts' = <<>> /\ UNCHANGED opener
                   ELSE opener' = each("no") /\ UNCHANGED accepts
  /\ UNCHANGED <<sendErr, readErr, die, dropped>>

\* keepalive's timeout, with no frame read and tokens in the bucket: Session.Close,
\* which closes die, ...
keepalive(x) ==
  /\ cut(x) /\ ~die[x] /\ bucket[x] > 0
  /\ die' = [die EXCEPT ![x] = TRUE] /\ reqs' = [reqs EXCEPT ![x] = {}]
  /\ UNCHANGED <<wire, sendErr, gone, readErr, tokenVars, recvVars, table, accepts, streamVars,
                 opener, writeVars, closeVars, readVars, dropped>>

\* ... and then each stream, under streamLock.
sessionClose(x) ==
  /\ die[x] /\ streamLockFree(x)
  /\ \E s \in table[x] : ~dead[x][s]
  /\ dead' = [dead EXCEPT ![x] = [s \in Streams |-> @[s] \/ s \in table[x]]]
  /\ UNCHANGED <<sendVars, linkVars, tokenVars, recvVars, table, accepts, buffers, event, fin,
                 opener, writeVars, closeVars, readVars, dropped>>

-----------------------------------------------------------------------------
recvLoop(x) == \/ recvSleep(x) \/ recvWait(x) \/ recvFrame(x) \/ recvError(x)
               \/ recvStore(x)
Reads(x, s) == Take(x, s) \/ returnTokens(x, s) \/ TakeNothing(x, s) \/ waitRead(x, s)

\* What the page does when its Copy from the stream ends.
PageCloses(s) == reader["page"][s] \in {"EOF", "err", "closed"} /\ CloseBegins("page", s)

Next == \/ \E x \in Sides : \/ sendLoop(x) \/ recvLoop(x) \/ keepalive(x) \/ sessionClose(x)
                            \/ \E s \in Streams : \/ Write(x, s) \/ CloseBegins(x, s) \/ GiveUp(x, s)
                                                  \/ streamClosed(x, s) \/ Reads(x, s)
                            \/ Vanish(x)
        \/ \E s \in Streams : OpenStream(s) \/ Register(s)
        \/ AcceptStream

\* The work that goroutines have before them; all of it comes to an end, so it
\* is enough that some goroutine runs while one can.
System ==
  \/ \E x \in Sides : \/ sendLoop(x) \/ recvLoop(x) \/ sessionClose(x)
                      \/ \E s \in Streams : GiveUp(x, s) \/ streamClosed(x, s) \/ Reads(x, s)
  \/ \E s \in Streams : Register(s) \/ PageCloses(s)
  \/ AcceptStream

Fairness == WF_vars(System)

Spec == Init /\ [][Next]_vars /\ Fairness

-----------------------------------------------------------------------------
(* Properties *)

TypeOK ==
  /\ wire \in [Sides -> Seq(Frame)] /\ reqs \in [Sides -> SUBSET Request]
  /\ gone \in Sides \cup {"none"} /\ dropped \in BOOLEAN
  /\ {sendErr, readErr, bucketNotify, die} \subseteq [Sides -> BOOLEAN]
  /\ bucket \in [Sides -> Int]
  /\ recv \in [Sides -> {"loop", "wait", "store", "done"}]
  /\ \A x \in Sides : hand[x] \in Frame <=> ~streamLockFree(x)
  /\ table \in [Sides -> SUBSET Streams] /\ accepts \in Seq(Streams)
  /\ buffers \in [Sides -> [Streams -> Seq([num : Nat, left : 1 .. FrameSize])]]
  /\ {event, fin, dead} \subseteq [Sides -> [Streams -> BOOLEAN]]
  /\ opener \in [Streams -> {"no", "syn", "sent", "open", "failed"}]
  /\ writer \in [Sides -> [Streams -> {"idle", "sending", "err"}]]
  /\ closer \in [Sides -> [Streams -> {"no", "fin", "sent", "done"}]]
  /\ reader \in [Sides -> [Streams -> {"no", "try", "return", "wait", "EOF", "err", "closed"}]]
  /\ {numWritten, promised, taken} \subseteq [Sides -> [Streams -> Nat]]
  /\ got \in [Sides -> [Streams -> Seq(Nat)]]

\* No token is lost or made: those in the bucket, those of buffered data and
\* those of readers that still have to return them are all there are.  A stream
\* that is closed, cut or raced by its data may not keep any, or recvLoop would
\* in the end stop for every stream of the session.
TokensConserved ==
  \A x \in Sides :
    bucket[x] + MapThenSumSet(LAMBDA s : Units(x, s) + taken[x][s], Streams)
      = MaxReceiveBuffer + IF recv[x] = "store" THEN FrameSize ELSE 0

\* No lost wake-up: recvLoop does not sleep beside tokens without a notice, nor
\* does a reader beside data.
NoLostWakeup ==
  \A x \in Sides :
    /\ recv[x] = "wait" /\ bucket[x] > 0 => bucketNotify[x] \/ die[x]
    /\ \A s \in Streams : reader[x][s] = "wait" /\ buffers[x][s] # <<>> =>
         \/ event[x][s] \/ fin[x][s]
         \/ ~streamLockFree(x) /\ hand[x].sid = s

\* A reader gets the frames of its stream in order without gaps, and when it is
\* told EOF on a stream it has not closed it has got every frame whose Write
\* had returned before its peer called Close, although a FIN has a better
\* priority than data; and no data finds its stream missing unless the receiver
\* closed it, although OpenStream sends SYN before it registers the stream.
CleanEnd ==
  /\ \A x \in Sides, s \in Streams :
       /\ \A i \in 1 .. Len(got[x][s]) : got[x][s][i] = i
       /\ reader[x][s] = "EOF" /\ ~dead[x][s] /\ gone = "none"
            => Len(got[x][s]) >= promised[peer(x)][s]
  /\ ~dropped

\* What is written is read, while neither end closes the stream and the link
\* holds, however few tokens there are; and once it breaks every reader returns.
Delivers ==
  \A x \in Sides, s \in Streams :
    /\ \A n \in 1 .. MaxFrames :
         (written(peer(x), s) = n)
           ~> (Len(got[x][s]) >= n \/ dead[x][s] \/ dead[peer(x)][s] \/ gone # "none")
    /\ cut(x) ~> reader[x][s] \in {"no", "EOF", "err", "closed"}
=============================================================================
