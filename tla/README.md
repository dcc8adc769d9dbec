# Verification of gzv2ray-v4

TLA+ models of the concurrent core of this proxy platform, checked with TLC and,
in part, proved with TLAPS. Everything is translated from the Go sources; paths
below are relative to the repository.

## 1. The system

A v2ray instance carries connections from *inbounds* to *outbounds*. An inbound
proxy (`proxy/*`) accepts a connection through a transport
(`transport/internet/*`), the dispatcher (`app/dispatcher`) makes a *link* of two
pipes (`transport/pipe`) and routes it (`app/router`) to an outbound, which may
send it through the multiplexer (`common/mux`). Two goroutines copy the two
directions of each link, and an `ActivityTimer` (`common/signal`) ends a link that
is silent. mKCP (`transport/internet/kcp`) is the one transport protocol that is
implemented here rather than in a library. The browser forwarder
(`app/browserforwarder`) lets a page of a browser make the connections: the page runs
`release/extra/browserforwarder/index.js`, the repository's one JavaScript file, which
is Go code compiled with its runtime (goroutines, channels, the websocket connection)
into one file; its websocket to the forwarder carries smux streams.

| Component | State | Operations | Talks to | Hard because | Correct when |
|---|---|---|---|---|---|
| pipe | buffer, state, two one-token notifiers, done flag | WriteMultiBuffer, ReadMultiBuffer(Timeout), Close, Interrupt | every link, mux, dispatcher | signals are sent after the lock is released; any number of writers; close races with both ends | a stream: in order, bounded, truthful results, nobody sleeps for ever |
| kcp transfer | sending window, receiving window, list of acknowledgements | Push, Flush, ProcessSegment, Ping, Read | the peer over UDP | loss, duplication, reordering; windows; uint32 numbers | every segment arrives, once and in order; nothing unreceived is forgotten |
| kcp connection | a state word, timestamps, updaters | Close, Input, flush, Terminate | listener, both workers | four goroutines read and store the state without a lock | it ends, and is released only when it has ended |
| kcp listener | table of sessions | OnReceive, Terminate, Close | connections | removal by id from another goroutine | packets reach the live connection of their peer |
| mux | tables of sessions, goroutines per session | Dispatch, frame handlers, monitor | pipes, outbound | four goroutines per connection, one shared way, crossing End frames | each connection gets its own data; idle workers close, busy ones do not |
| activity timer, Periodic | running flag, pending timer, one token | SetTimeout, Update, check, finish | all proxies, udp, dns, mux | tasks are replaced while they run | a silent connection is given up, once, not early |
| udp worker of an inbound | table of connections by source and destination, one checker | getConnection, clean, removeConn | Periodic, pipe | removal by id of what was replaced; a task that ends while it is started | a source has one connection, idle ones are closed |
| udp dispatcher | entries by destination | getInboundRay, removeRay | ActivityTimer, pipe | removal by key of what was replaced | no live entry is dropped |
| browser forwarder, bridge link | bridgemux, one smux session | ServeBridge, Dial | pages, smux | one pointer, any number of requests and callers, no lock | a page that dials gets in, the session in use is the one that holds |
| smux | table of streams, token bucket, heap of requests | OpenStream, Write, Read, Close, recvLoop, sendLoop | both ends of the websocket | priorities, half-made streams, one bucket for all | order, clean ends, no token lost |
| browser page | runtime's queue, a channel per socket | Load, Bridge, Dial, callbacks, Read | browser, smux | a callback cannot block, so a goroutine carries each event | a stream: in order, complete, EOF last |
| dns | pending requests, records, subscribers | QueryIP, HandleResponse, Cleanup | udp dispatcher, pubsub | late answers, expiring records | an answer reaches the query it is for |
| fakedns, cache | LRU list with two indexes | GetFakeIPForDomain, Put, Get | dns, sniffer | unlocked check-then-act | addresses and domains are one to one |
| stats channel | subscribers, closed signal | Publish, Subscribe, Start, Close | observers | broadcasts outlive Close | no send to a closed subscriber |
| reverse | workers, draining flags | heartbeat, PickAvailable, monitor | mux, Periodic | unlocked flags | a drained worker gets nothing new |
| dispatcher | cached payload of a sniffed link | Cache, Read, Interrupt | pipe | cache and pipe have different locks | no byte lost or doubled by sniffing |
| router, policy, log, commander, config, core, features, proxies, other transports | none after start, or in libraries | | | sequential or I/O | |

`PROJECT.json` lists every component with its status, and the hazards, each at
its line. Hazards with properties are covered by a run. The others name the
module of the plan (section 7).

## 2. Modules

| Module | Models | Notes |
|---|---|---|
| `Stream` | an abstract stream: messages accepted while open, delivered in order, dropped only by an interrupt | the specification `Pipe`, `KcpTransfer` and `PageSocket` implement |
| `Pipe` | `transport/pipe`, `signal.Notifier`, `done.Instance` | a critical section is a step, the signal after it another |
| `PipeProofs` | theorems about `Pipe` | |
| `KcpTransfer`, `KcpTransferProofs` | `kcp/sending.go`, `kcp/receiving.go`, one direction | implements `Stream`; the network is two sets of packets |
| `KcpLifecycle` | `kcp/connection.go` state machine | every read and every store of the state word is a step |
| `KcpListener` | `kcp/listener.go` session table | |
| `KcpConnectionProofs` | theorems about `KcpListener` and `KcpLifecycle` | extends both |
| `Mux`, `MuxProofs` | `common/mux` client and server workers, with the pipes of their links | both sides share their actions |
| `ActivityTimer`, `ActivityTimerProofs` | `common/signal/timer.go` on `common/task/periodic.go` | a Periodic is named after the SetTimeout that made it |
| `BrowserLink` | `browserforwarder/handler/{bridge,client}.go`, main, Bridge and request of `index.js` | sessions hold or are broken |
| `Smux`, `SmuxProofs` | `browserforwarder/handler/smux`: both ends of a session, version 1 | the inside of one session of `BrowserLink` |
| `PageSocket` | `$go`, `$send`, `$recv`, `$close` of `index.js` and its websocket connection | the socket of a page to a destination or the forwarder |
| `BrowserPageProofs` | theorems about `PageSocket` and `BrowserLink` | extends both |
| `UdpInbound`, `UdpInboundProofs` | `proxyman/inbound/worker.go` udpWorker on `common/task/periodic.go` | |
| `MC*` | the instances TLC checks | |

Operators starting with "A bug:" are plausible mistakes in the definition that
follows them. No specification uses them; putting one in place of the definition
must make the property that guards it fail.

### Pipe
`data`, `dataLen`, `state`, `readSignal`, `writeSignal` and `done` are the fields of
`pipe`; a notifier is whether it holds its token. A writer stores or is told *full* in one step
(`WriteMultiBuffer`), waits in `WakeWriter`, and signals in `SignalReader`; a
reader likewise. `ReadMultiBufferTimeout` is a reader that may give up. The
contents of a message are its identity and size.

### KCP
`KcpTransfer` has one segment per written payload, and a payload is its position
in the stream. Numbers are modulo `Modulus`, and `Clear`, `processAck` and
`InWindow` compare them exactly as the code does, with or without wrap-around.
Retransmission timers are choices: any segment sent before may be due. A packet
may be lost, stay in flight after it was received, or be overtaken.
`KcpLifecycle` splits `SetState` in the store of the state and the store of
`stateBeginTime`, `flush` in one step per test, and `Input` in option, command
and payload. Timestamps are ages; a flush that read the clock before a timestamp
was renewed computes the huge difference a `uint32` gives.

### Mux
A frame is one element of `link[x]`; the chunk it carries is taken by the receiver
in `Pieces` reads. Senders and receivers are those of `fetchInput`/`handle` and
`fetchOutput`/`run`. `buf.Copy` returns nil for `io.EOF` and, because it compares
the error's text, for `io: read/write on closed pipe` too; `Copy` and `CopyPiece`
say so. Outputs are assumed to be read, so writes to them do not wait. Finishing
and aborting applications are the environment.

The model has an end: when an output closes within a chunk, the code parses the rest of
the chunk as frame headers (observation 3 of section 4). What comes of it depends on the bytes of
an application, a parse error being the likely outcome. `CopyPiece` stops such a receiver
(`lost`), and each property of `Mux` that frames have to do with speaks only of the time
before (`Aligned`).

### ActivityTimer
The three SetTimeout calls of a proxied connection: `CancelAfterInactivity` makes
the first, and each copying goroutine makes one when its direction ended. The
chain from `Start` or a fired timer through `hasClosed`, `check`, `finish` and
rearming is one step per critical section or channel operation.

### Browser forwarder
Three modules, from the outside in. `BrowserLink` has the pages, each where its loop
is (dial, accept, pause, dial again), the goroutines of `ServeBridge` and of `Dial`, and
`bridgemux`; each read or write of that pointer is a step, as nothing guards it. A session
there only holds or is broken. `Smux` is one session: both sides have the same actions,
where the code of the two differs (Read against WriteTo, open against accept) `x` says
which. `Vanish` takes a side away; a link that is lost, or that keepalive closes although
it works (observation 10 of section 4), is the same for each side as the disappearance of
the other, since nothing passes between them from then on. `keepalive` closes `die`,
`sessionClose` the streams. The heap of `shaperLoop` is a set whose least priority goes first. Data is counted
in units; a frame costs as many tokens. `PageSocket` is one websocket of the page: an
event that arrives is appended to `$scheduled`, a sender runs in that order and either
hands its event to a waiting reader, buffers it, or queues up blocked. Lines of `index.js`
are long: the map names the line a function is on.

### Udp worker
A critical section of `udpWorker` or of `Periodic` is one step, as is the moment `clean`
reads the clock; `due` are the connections that were idle then and have not spoken since.
`late` and `missed` record the two races the properties name.

## 3. Runs

| Run | Shows | Bounds |
|---|---|---|
| `pipe` | truthful outcomes, EOF only when drained, no lost wake-up; writers return, accepted data is delivered, readers of a closed pipe return; implements `Stream` | 2 writers, 1 reader, 2 writes each, limit 0, discarding or blocking |
| `kcp_transfer` | no unreceived segment is dropped by the sender, no acknowledgement forgotten; implements `Stream` | 3 segments, buffer 2, window 2, 2 packets each way, numbers mod 12 |
| `kcp_transfer_live` | every segment arrives and is acknowledged | the same with window 1 and 1 packet each way |
| `kcp_life` | released only when over; every closing state is left | ping updater, Input and Close; times of 0 and 1 ticks, no tick within a flush |
| `kcp_listener` | a released connection is never fed; a live one stays in the table | 2 peers, 4 connections, each terminated up to twice |
| `mux` | own data in order; a clean end is complete; only idle workers close; sessions leave both tables | 2 connections, one of which may finish or abort; chunks taken in 2 reads; the link may fail until 1 session was opened |
| `mux_mutual_wait` | the finding of section 4 | one frame each way |
| `activity_timer` | a silent connection is given up, once; not early; the running task is the known one; no timer left over | 3 tasks, timeouts of 0, 1 and 2 ticks in four combinations |
| `browser_link` | only two requests let in at once orphan a session; no session that is over keeps pages out; every Dial and every copy ends | 2 pages, 1 caller of Dial, 3 sessions, 1 loss |
| `smux` | tokens conserved, no lost wake-up, order and clean ends, what is written is read | 1 stream, bucket 3, frames of 2, 3 frames, either side may vanish |
| `page_socket` | EOF last and nothing sent to a closed channel; implements `Stream`; everything is read | 4 messages of sizes 0, 1 and 3, reads of 1 and 2 |
| `udp_inbound` | one connection per source and no panic, idle ones are closed, but for the two races | 2 ids, 3 connections |

Why these bounds are enough:

* *pipe.* The races are between a writer that is told *full*, one that gets in,
  and the reader that makes room; two writers and two messages each give all of
  them, including a second signal dropped by a notifier that still holds one.
  Limit 0 makes one message fill the pipe. Every pipe in the code has a single
  reader; the proofs cover any number.
* *kcp transfer.* Window and buffer both fill up, a gap can open and close, and a
  packet can be delayed past a later one. The modulus is large enough for the
  comparisons not to be ambiguous (named in `KcpAssumption`) and small enough
  not to matter: 3 segments do not wrap. Past a wrap at 2^32 the plain `>=` of
  `Clear` is wrong in the code too (hazard at `sending.go:65`); at 1 KB a segment
  that takes 4 TB on one connection, and no run is kept for it. Up to the wrap the
  properties are proved for every window, buffer and number of segments and packets.
* *kcp life.* With time abstracted to order, a threshold of zero or one tick
  still separates "not yet" from "too late". One updater suffices for the
  interleavings with Input and Close; the data updater runs the same flush.
  `MaxLag = 0` keeps observation 1 of section 4 out, which would hide the rest.
* *mux.* `LinkLimit = 12` holds every frame the bounds allow, so it never waits
  and a wait is left to `mux_mutual_wait`. With `Pieces = 2` an output may close before,
  within and after a chunk; within, the properties stop (`Aligned`). Two connections are what
  crossing frames and reused ids need. The safety properties are proved for any number of
  connections, any `LinkLimit` and any `Pieces`, up to the same point.
* *activity timer.* Four timeouts combinations have each copy's timeout shorter,
  longer, equal and zero. Periods of more ticks only repeat the checks.
* *browser link.* Two pages are what a race of requests needs, and three session
  numbers let a third begin while two are left over; a number is used again when
  nothing knows it. One loss, at any point, breaks the session in use. Two losses
  multiply the states beyond TLC's reach.
* *smux.* The bucket holds less than two frames, so it goes below zero, recvLoop sleeps,
  and tokens come back from each of the ways a stream can end. Three frames fill it again
  after that. Streams of a session share the bucket and the two loops and nothing else;
  two of them have more than six million states. The safety properties are proved for any
  number of streams.
* *page socket.* Four messages and the close are more than a waiting reader, the buffer
  and one blocked sender hold. A message may be empty, read whole, or read in pieces.
  The proofs cover every number.
* *udp inbound.* Three connections let one replace another of its id while a third lives;
  the checker stops and is started again. Safety is proved for any number.

`CHECK_DEADLOCK FALSE` is set where the modelled work is finite (pushes, writes,
connections, messages) and the system rightly stops.

### Fairness
`WF` of a goroutine's step means that a goroutine which can run does.
`Pipe`: writers, the reader and pending signals; nobody has to write, close or
interrupt. `KcpTransfer`: strong fairness for sending and receiving the packet
that matters, which is the assumption that the network does not lose *every* copy
of a packet that is sent again and again; pings and losses are not fair.
`KcpLifecycle`: goroutines, the ticker and time; nothing is asked of the peer, the
network or the application. `Mux`: only that *some* goroutine with work runs, since that
work is finite; applications owe nothing and the monitor's tick is not relied on. `ActivityTimer`: time and goroutines; no data
has to come and no direction has to end. `BrowserLink`: pages, handlers and callers run, and a
broken session is noticed (keepalive sees to it, except on a side whose bucket stays empty
because a reader stalls: `session.go:401`); nobody has to load a page, call Dial
or close. `Smux`: only that *some* goroutine with work runs, since that work is finite;
writing, closing (but for the page's own end) and keepalive's timeout are not fair.
`PageSocket`: senders run and the reader reads; the browser owes no event.
`UdpInbound`: the loop's start of a connection, the task with its timer, and handlers
that are ending; no packet has to come and no proxy has to end.

## 4. Findings

One run shows a disagreement: **both mux receivers may wait for each other**
(`client.go:351`, `server.go:176`). Each answers a frame of an unknown session by writing
to the way the other one has stopped reading, so that the peer which line 350 says is
notified never is.

Other disagreements that the models can show, or that are plain from the text, and that
have no run of their own. Each either is an exception the properties name, or is kept
out of the runs by a bound that section 3 gives:

1. An active mKCP connection may be closed for silence (`connection.go:629`).
   `flush` reads the clock first; `Input` may renew `lastIncomingTime` afterwards, and
   the `uint32` difference of the two is huge when a millisecond passed in between.
2. A local close of an mKCP connection may be lost (`connection.go:569`).
   `OnPeerClosed` and `Close` both decide on `StateActive`; the later store wins. In
   `StatePeerClosed` no timer runs, so with the peer gone the connection stays.
3. A mux chunk may be left half read (`client.go:359`, `copy.go:113`). When the
   output is closed during a chunk, `buf.Copy` returns nil for `io.ErrClosedPipe`, the
   drain of the rest does not happen, and the rest is parsed as a frame header.
   `Mux` reaches that state (`lost`) and says nothing of what follows.
4. A new timeout may be over before it began (`timer.go:71`). A check of the old
   periodic task takes the token that `SetTimeout` put for the new task; and a
   `SetTimeout` that meets another one leaves a Periodic nobody closes (`raced`).
5. `listener.go:151` says that closing the listener does not close accepted connections,
   and line 160 terminates all of them; a second `Terminate` removes a peer's new session
   (`OneConnectionPerPeer`).
6. `Dial` reads `bridgemux` twice and goes on after a failed `Open` with a nil stream
   (`handler/client.go:53`): either panics in the caller's goroutine (`crashed` in
   `BrowserLink`). `ServeBridge` lets two requests in between its test and its assignment
   (`bridge.go:17`); the session that is overwritten serves nobody but holds its page (`raced`).
7. `removeConn` removes by id (`worker.go:339`): a handler that ends late takes away the
   connection that replaced its own, which then gets no packets and is never closed; and
   if the table is empty when the checker starts, `Must` panics (`worker.go:311`). `UdpInbound`
   proves that the second needs the first (`late`).
8. `Periodic.Start` returns without starting when the task is about to say that it no
   longer runs (`periodic.go:33`); connections then idle until another one is made (`missed`).
9. The page closes its stream but not its websocket to the destination, and does not
   tell the forwarder when the destination closes first (`index.js:50`).
10. A starved smux session may be closed although `session.go:399` says that it "should
   not be": the bucket is tested when the timeout expires, and `recvLoop` may have been out
   of tokens, and so have read nothing, for all the time before. One reader that stalls
   for a whole timeout and reads on then ends every stream of the session. `Delivers`
   excepts it, as it does every loss of the link.

Several properties name the race behind an observation and speak of behaviours without it:
`OneConnectionPerPeer` (5), the four of run `mux` (3), `NotEarly` and `OneTask` (4),
`OrphansNeedARace` and `Ends` (6), and those of `UdpInbound` (7, 8). They show that nothing else goes wrong; the race
itself they do not catch.

## 5. Proofs

`PipeProofs` proves, for every set of writers and readers, every limit and every
size, type correctness (`TypeCorrect`), `OrderKept`, `LimitKept`, `EOFIsFinal`,
`OutcomeIsTrue`, `WakeupsKept`, and that a pipe implements the abstract stream
(`PipeIsStream`). `TypeOK`, `InOrder` and `BoundedBuffer` are only proved: no run repeats them. The assumptions are the three named ones of `Pipe`: sizes are
positive and at most `MaxSize`, a limit is -1 or more, the bound on writes is a natural.

* The invariant behind four of them is `PipeInv`: `TypeInv`, `DoneIsClosed` (the done flag
  and the state agree), `InOrder`, `BoundedBuffer`, `EOFMeansDrained` and `NoLostWakeup`
  together. Alone none is inductive: `BoundedBuffer`, for one, needs that the length is zero
  exactly when the buffer is empty (in the types), `EOFMeansDrained` needs that a pipe told
  *EOF* is closed for good, and `NoLostWakeup` that only *done* wakes sleepers of a closed pipe.
* `OutcomeIsTrue` needs `Distinct` (a message is stored once) and `Truthful` (what a
  blocked writer knows about its message), because a write retries.
* `PipeIsStream` maps every step to a stream step or a stutter, with `PipeInv` for the
  source state.

`KcpConnectionProofs` proves `NeverFedAfterRelease` and `LiveConnectionKept` for every set
of peers and connections. `ListenerInv` adds to the types `Counted` (the Terminates
to come of a connection are at most its ends and one more for the listener's close) and
`PlaceHeld` (a live connection holds the place of its id). `ReleasedNotFed` is not
inductive alone: that a second `Terminate` finds nothing of its connection in the
table follows from the table's place and the id.

Of `KcpLifecycle` the same module proves `LifeTyped` (`TypeOK`) and `OverWhenReleased`
(`ReleasedIsOver`), for all four times, any updaters and any length of a flush; only the first uses
`LifecycleAssumption`.
`LifeInv` adds to the types:

* `Reasons`: whatever a thread is about to store has a reason, a peer that ends one in what it
  said, `Terminated` one in what it said or may know. The decision and its store are steps apart and
  other threads store in between; the reasons last because nothing is unsaid.
* `NoWayBack`: a thread that has stored its state has left *Active* for good. `Terminate` is
  started after the store, when another state may have been stored over it.

`ActivityTimerProofs` proves, for every longest timeout and every set of timeouts up to
it, `TypeCorrect`, `CalledAtMostOnce`, `RunningIsKnown` (`OneTask`) and `TimeoutIsKept`
(`NotEarly`). The callers stay the three the proxies have. `TimerInv` adds to the four:

* `InPlace`: where a caller is says what its task can be doing. It holds in races too,
  and without it nothing is known of the task a `Replace` installs.
* `Known`, unless raced: a task that is started, due or looking for activity is the task
  the timer knows. `OneTask` speaks only of running ones, and a task just closed, or one
  whose `Start` is still to come, is not running.
* `Quiet`, unless raced: activity since the task last looked has left its token, or the
  silence covers what has gone of the interval. `NotEarly` speaks only of the moment of
  the call; `Quiet` carries it there through the interval and the check.

`Closed` says once what closing a task does, for the three actions that close one.

`BrowserPageProofs` proves `TypeCorrect`, `EOFComesLast` and `SocketIsStream` for all sizes
of messages and of reads. All follow from `SocketInv`, which adds to the types:

* `InOrder`: the events in the hand of a woken reader, in the channel's buffer, of blocked
  senders and of senders that have not run are, in this order, the next ones to be read,
  the close event after every message. `EOFIsLast` speaks of the reader only, and the
  order is made three places earlier.
* `Complete`: none of them is missing. `Prefix`: what was delivered is what arrived first.
* `Channel`: a sender is blocked only by a full channel, and a reader waits only at an
  empty one.
* `Closed`: the channel is closed only when every message has been read, and nobody has
  sent to it since.

`SocketIsStream` maps the arrival of a message to `Put`, that of the close event to
`CloseStream`, and a Read that takes the end of a message to `Take`.

Of `BrowserLink` the same module proves `LinkTyped` (`TypeOK`) and `NoOrphans`
(`OrphansNeedARace`) for any pages, callers, session numbers and losses, under
`LinkAssumption`. `OneIn`, unless requests raced or the process is gone: a handler between the
test of `bridgemux` and its assignment is alone and finds none, one past it finds its own session
and waits for that, and a session that holds has a handler. Each part needs the others: that
`AcceptFails` takes away only its own session follows from the second, which the first keeps.

`UdpInboundProofs` proves `TypeCorrect` and `OnlyRemovalByIdHarms` for every set of ids and
every number of connections. `UdpInv` adds to the types `Owned` (a handler removes only
after it has closed its connection, and a connection that was not made has none), `Unused`
(the connection the loop is about to start is as it was made), that due connections are
idle, and, unless a removal was late, `InTable` (a connection in use is in the table) and
`NoFailure` (a task that runs within the loop does not fail). The last needs the others:
`clean` cannot find the table empty because the connection `Start` is called for is in
it, new, and therefore not due.

`KcpTransferProofs` proves `TypeCorrect`, `NothingIsLost` (`NothingAckedIsLost`), `AcksAreKept`
(`AckNotForgotten`) and that a transfer implements the abstract stream (`TransferIsStream`), for
every window, every buffer, every number of segments and packets and any losses, repetitions and
delays. Each theorem has the hypothesis `NoWrap`: segment numbers and the window behind them stay
below `Modulus`. The code takes it for granted by comparing `uint32` numbers with `<`, and it is
false only after some 4 TB on one connection (hazard at `sending.go:65`); the run's constants
satisfy it. `TransferInv` is, besides the types and windows of the two ends
(`SenderOK`, `ReceiverOK`):

* `NetworkOK`: a packet, however old, knows no more of the other end than is true now. Since
  packets are never forgotten by the network, nothing else bounds what arrives.
* `Kept` and `Listed`, which are the two properties for every number rather than for the cache:
  each segment is held by one end, and one that both hold is on the list of acknowledgements.
* `Ahead`: the sender got rid of a segment out of turn only within the receiver's window. It
  is what makes an acknowledgement of a segment beyond the window impossible.

`NothingAckedIsLost` alone is not inductive: an old packet's `ReceivingNext` clears the cache, and
only `NetworkOK` says that the receiver is past it.

`SmuxProofs` proves `TypeCorrect`, `WakeUps` (`NoLostWakeup`), `TokensAreConserved` and
`EndsAreClean` for every finite set of streams, every bucket and every frame size. That the set is
finite (`SmuxAssumption`) is what a Go map is; a sum of tokens over it is needed.

* `SessionInv` adds to the types `Orderly`: a request in the shaper's heap is that of the one
  goroutine which waits for its result, and a stream is opened, used and closed in this order.
* `NoLostWakeup` is inductive beside it, its halves being `LoopsAwake` and `ReadersAwake`.
* `TokensConserved` sums over streams. The library's inductions cannot be applied, so
  sums are defined by a function on the subsets of a finite set, and that one stream's change
  changes the sum by as much is proved from a set of least cardinality for which it fails.
  `WholeFrames` (only a stream's first buffer was read in part) makes the tokens of a stream's
  buffers a product instead of a second sum.
* `CleanInv` has `InOrder` (what was read and what can be read are the first frames),
  `Broken` and `Working` (what cannot happen after, or before, a side is gone) and `Connected`:
  for each stream whose session holds, the frames on the wire are the next ones, a FIN comes after
  everything its Close promised, and data is never ahead of its SYN. The last is why
  nothing is dropped, and depends on the priorities of the heap.

`MuxProofs` proves `TypeCorrect`, `DataIsOwn` (`OwnDataInOrder`), `IdleOnly` (`OnlyIdleCloses`)
and `EndsAreClean` (`CleanEnd`) for every finite set of connections, any number of chunks and any
number of reads a chunk takes, until an output closes within a chunk: the three properties,
and of the types that a session is under its own id, have the hypothesis `Aligned`. They say nothing
of what the code does with the rest of a torn chunk. If chunks are taken in one read
(`Pieces = 1`) none is torn, and the hypothesis is always true. `MuxInv` adds to the types:

* `Numbered` and `Placed`: an id is given out once, and a session is found under its own. With
  ids used again, a frame of an ended session would be written to another one.
* `Framed`: every frame names the connection its id belongs to, and the New frame of a connection
  comes once, before its data, to a server that does not know it.
* `Flowing`: while a connection has its place in the receiver's table, or its New frame has still
  to arrive, the chunks on their way are exactly those between what arrived and what was
  sent. A session that left the table never comes back, so a gap is never followed by data.
* `Arrived` and `Ended`: what was written to an output, and the chunk in hand, come next; a closed
  manager belongs to a worker that is over.

`OwnDataInOrder` is one conjunct of `Arrived`, and says nothing of frames on their way. `IdleOnly`
adds `IdleInv`: in a client that is open, a connection whose output is open is in the table, hence
an empty table has none. `EndsAreClean` adds `EndInv`: ids in frames were given out (`Dated`), the
server's sender stops only when its input is over (`Answered`), End frames of a connection that still
asks come from a server that is over and after all its data (`Told`), such a connection is in both
tables until then (`Kept`), so that a server never answers its data with an End frame, and a closed
output has everything (`Complete`).

Every safety invariant a run checks is a theorem. Only model-checked: all liveness, of every
module. Liveness under fairness and `ENABLED` are beyond the prover, as are the library's induction
theorems: what needs induction is proved from a least counterexample, or not at all.

## 6. Not modelled

Contents of buffers, pooling, encryption, packet and message formats, sockets, library
transports, command-line and build tools, and generated code. In mKCP: deadlines, the
blocking loops of `Read` and `Write`, round-trip estimation and congestion control
beyond the window (they change when a segment is due, which is a choice here), the
dialer. In mux: what follows a torn chunk, UDP framing, and the worker pickers. Periodic with a failing Execute.
Buffers that nobody reads, in mux: such an application stops the receiver and every
session behind it, by design of the protocol.

In the browser forwarder: version 2 of smux, which a nil `Config` does not select;
deadlines, which nobody sets; pings beyond what their absence does; `ServeClient`, which
the program does not register. Of `index.js` the runtime's strings, maps, reflection and
interfaces and the packages of the standard library: these convert data, and what they do
to the messages is the identity as far as order and completeness go. Where a line of that
file holds functions of both kinds, only the control is modelled.

In the udp worker: `Close` of the worker, which closes the hub and the task and leaves
connections to their handlers; the pipe of a connection, which is `Pipe`.

The components of the plan below (udp dispatcher, dns, fakedns, stats, reverse, cached
reader, dynamic ports) can be modelled the same way and are not yet. Router, policy, log,
commander, configuration, core, features, crypto, serialisation, string matchers and
proxies are sequential, or conversions of data, or keep no state after start.

## 7. Plan

Order of importance; each module EXTENDS or INSTANCEs those it names.

1. `Pipe`, `Stream`, proofs: done.
2. `KcpTransfer`, `KcpListener` and their proofs, `KcpLifecycle`: done. Next, `KcpRead`: Read's EOF against
   the last segments and the closing states (`connection.go:278`), composing both; WakeUp
   of an updater that leaves its loop (`connection.go:146`).
3. `Mux`, proofs: done for one worker pair. Next, `MuxPicker`: `IncrementalWorkerPicker` and
   `Dispatch` (IsFull is read before Allocate, `client.go:311`), and its cleanup task.
4. `ActivityTimer`, proofs: done. Next, `Periodic` on its own, with an Execute that fails and
   Starts that race with its end (`periodic.go:33`, `:47`, `:58`), as an abstract
   specification for `ActivityTimer` and `UdpInbound`.
5. `BrowserLink`, `Smux`, `PageSocket`, `UdpInbound`, and the proofs of the last three: done.
   Next, the composition of `BrowserLink` and `Smux` for two streams, with an abstract
   session in place of the inside of one.
6. `UdpDispatcher` on ActivityTimer: entries by destination; an entry's end removes only
   that entry, an entry handed out is usable (`dispatcher.go:47`, `:85`).
7. `NameServer`: pending requests by 16-bit id, record cache with Cleanup, pubsub;
   an answer is stored under the domain it answers, every query returns.
8. `FakeDns` on an LRU cache (`lru.go:42`, `:61`): one address per domain and back,
   against an abstract one-to-one map.
9. `StatsChannel`: subscribers, blocking and non-blocking broadcasts, Close and restart
   (`channel.go:106`, `:121`).
10. `CachedReader` on Pipe, the links of `outbound/handler.go:143`; `CopyTasks`
    (task.Run with its pair of goroutines); `Reverse` (drain, `portal.go:256`);
    `DynamicPorts`; router balancing as operators.

Abstract specifications worth stating: `Stream` (used three times; a direction of `Smux` next), a one-to-one map with
eviction for `FakeDns`, a table whose entries end independently for `UdpInbound`,
`UdpDispatcher` and `KcpListener`.

Theorems to prove next: those of the new modules, first of all the table theorems of 6; in the
present ones everything that is not liveness is proved.

Runs stay few: a run of a new module takes the place of one whose question a theorem
has answered, and the findings of a module share instances.
