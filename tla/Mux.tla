---------------------------------- MODULE Mux ----------------------------------
(***************************************************************************)
(* common/mux: many connections over one.  A ClientWorker and a             *)
(* ServerWorker each keep a table of sessions, one goroutine per session    *)
(* that sends (fetchInput, handle), and one that receives (fetchOutput,     *)
(* run).  Both receivers have the same handlers and both senders end the    *)
(* same way, so most actions are written once for a side x.                 *)
(*                                                                         *)
(* A connection's link is a pair of pipes: its sender reads `input' and the  *)
(* receiver writes its output.  A frame of data is one chunk, which the      *)
(* receiver takes in `Pieces' reads.  The reader of an output keeps up with  *)
(* it: a write there never waits.                                           *)
(*                                                                         *)
(* A limit: an output may close while a chunk is being copied to it.  The   *)
(* code then takes what is left of the chunk, an application's bytes, for   *)
(* the next frame's header.  The model stops that receiver there and says   *)
(* nothing of what follows: each property is about behaviours up to the     *)
(* first chunk that is torn (`Aligned').                                    *)
(***************************************************************************)
EXTENDS Integers, Sequences, FiniteSets

CONSTANTS
  Conns,           \* connections to carry, each dispatched by its own goroutine
  None,
  MaxChunks,       \* bound: chunks an application gives to its input, by connection
  MaxBeforeFailure,  \* bound: the network fails before more sessions were opened
  Finishers,       \* <<side, connection>> whose application may finish
  Aborters,        \* and those that may abort
  Pieces,          \* reads it takes to take one chunk from the mux connection
  LinkLimit,       \* frames the way to the peer holds before a writer waits
  MaxConcurrency,  \* ClientStrategy, 0 for no limit
  MaxConnection

Sides == {"client", "server"}

ASSUME ConstantsAssumption ==
  /\ None \notin Conns /\ IsFiniteSet(Conns)
  /\ MaxChunks \in [Sides -> [Conns -> Nat]] /\ MaxBeforeFailure \in Nat /\ Pieces \in Nat \ {0} /\ LinkLimit \in Nat \ {0}
  /\ Finishers \cup Aborters \subseteq Sides \X Conns
  /\ MaxConcurrency \in Nat /\ MaxConnection \in Nat

Peer(x) == IF x = "client" THEN "server" ELSE "client"
Ids == 1 .. Cardinality(Conns)

VARIABLES
  count,      \* the client's SessionManager.count
  table,      \* each side's SessionManager.sessions
  closed,     \* each side's SessionManager.closed
  id,         \* Session.ID of a connection, 0 before it has one
  sender,     \* each side's sending goroutine of a connection
  sent,       \* chunks its sender took from the connection's input
  waiting,    \* chunks still in an input that is closed
  input,      \* state of the pipe s.input
  output,     \* state of the pipe s.output
  got,        \* the chunks written to s.output
  link,       \* frames each side sent and the peer did not receive yet
  receiver,   \* what each side's receiving goroutine is doing
  linkUp,     \* the mux connection works
  done,       \* ClientWorker.done is closed
  monitor     \* where monitor is

tables   == <<count, table, closed, id>>
flows    == <<sent, waiting, input, output, got>>
worker   == <<linkUp, done, monitor>>
vars     == <<tables, sender, flows, link, receiver, worker>>

Frame(i, status, c, n, error) == [id |-> i, status |-> status, conn |-> c, num |-> n, error |-> error]
EndFrame(i, error) == Frame(i, "End", None, 0, error)

\* Interrupt and Close of a pipe (see Pipe): both work on an open one only.
Shut(pipe, x, c, how) == [pipe EXCEPT ![x][c] = IF @ = "open" THEN how ELSE @]

\* A write to the mux connection: it waits while the way is full, and goes
\* nowhere when the connection is gone.
CanSend(x) == ~linkUp \/ Len(link[x]) < LinkLimit
Send(x, frame) == link' = IF linkUp THEN [link EXCEPT ![x] = Append(@, frame)] ELSE link

\* SessionManager.Get.
Get(x, i) == IF closed[x] \/ i \notin Ids THEN None ELSE table[x][i]

\* SessionManager.Remove.
Remove(x, i) == IF closed[x] THEN table ELSE [table EXCEPT ![x][i] = None]

\* Session.Close: the output is closed, the input (a pipe.Reader, which has no
\* Close) is not, and the session leaves the table.
SessionClose(x, c) ==
  /\ output' = Shut(output, x, c, "closed")
  /\ table' = Remove(x, id[c])

\* SessionManager.Close, on a side that is not closed.
ManagerClose(x) ==
  LET live == {table[x][i] : i \in Ids} \ {None} IN
  /\ closed' = [closed EXCEPT ![x] = TRUE]
  /\ table' = [table EXCEPT ![x] = [i \in Ids |-> None]]
  /\ output' = [output EXCEPT ![x] = [c \in Conns |->
                  IF c \in live /\ @[c] = "open" /\ sender[x][c] # "allocated"
                    THEN "closed" ELSE @[c]]]

-----------------------------------------------------------------------------
(* ClientWorker.Dispatch *)

Size(x) == Cardinality({i \in Ids : table[x][i] # None})

IsFull ==
  \/ MaxConnection > 0 /\ count >= MaxConnection
  \/ done
  \/ MaxConcurrency > 0 /\ Size("client") >= MaxConcurrency

DispatchBegins(c) ==
  /\ sender["client"][c] = "none"
  /\ ~IsFull
  /\ sender' = [sender EXCEPT !["client"][c] = "dispatching"]
  /\ UNCHANGED <<tables, flows, link, receiver, worker>>

\* Bugs: an id is taken again as soon as it is free; the id given out is the
\* count before it is raised.
AllocateFree(c) ==
  LET i == CHOOSE i \in Ids : table["client"][i] = None IN
  /\ sender["client"][c] = "dispatching" /\ ~closed["client"]
  /\ id' = [id EXCEPT ![c] = i]
  /\ table' = [table EXCEPT !["client"][i] = c]
  /\ sender' = [sender EXCEPT !["client"][c] = "allocated"]
  /\ UNCHANGED <<count, closed, flows, link, receiver, worker>>
AllocateBeforeCount(c) ==
  /\ sender["client"][c] = "dispatching" /\ ~closed["client"]
  /\ count' = count + 1
  /\ id' = [id EXCEPT ![c] = count]
  /\ table' = [table EXCEPT !["client"][count + 1] = c]
  /\ sender' = [sender EXCEPT !["client"][c] = "allocated"]
  /\ UNCHANGED <<closed, flows, link, receiver, worker>>

\* A closed manager allocates nothing, and the connection goes elsewhere.
Allocate(c) ==
  /\ sender["client"][c] = "dispatching"
  /\ \/ /\ closed["client"]
        /\ sender' = [sender EXCEPT !["client"][c] = "none"]
        /\ UNCHANGED tables
     \/ /\ ~closed["client"]
        /\ count' = count + 1
        /\ id' = [id EXCEPT ![c] = count + 1]
        /\ table' = [table EXCEPT !["client"][count + 1] = c]
        /\ sender' = [sender EXCEPT !["client"][c] = "allocated"]
        /\ UNCHANGED closed
  /\ UNCHANGED <<flows, link, receiver, worker>>

\* s.input and s.output are set after the manager's lock is released.
Launch(c) ==
  /\ sender["client"][c] = "allocated"
  /\ sender' = [sender EXCEPT !["client"][c] = "first"]
  /\ UNCHANGED <<tables, flows, link, receiver, worker>>

-----------------------------------------------------------------------------
(* The sending goroutines: fetchInput and handle *)

\* What a read of the input finds: data that is left, or, if the application
\* still writes, data it has just written.
HasData(x, c) == waiting[x][c] > 0 \/ (input[x][c] = "open" /\ sent[x][c] < MaxChunks[x][c])
InputOver(x, c) == input[x][c] # "open" /\ waiting[x][c] = 0

\* One read of the input and one write of what was read.
SendData(x, c, status) ==
  /\ CanSend(x)
  /\ HasData(x, c)
  /\ Send(x, Frame(id[c], status, c, sent[x][c] + 1, FALSE))
  /\ sent' = [sent EXCEPT ![x][c] = @ + 1]
  /\ waiting' = [waiting EXCEPT ![x][c] = IF @ > 0 THEN @ - 1 ELSE 0]

\* writeFirstPayload: the New frame with the first chunk, or without it if
\* there is none within 100 ms.  A failed read or write is remembered.
FirstPayload(c) ==
  /\ sender["client"][c] = "first"
  /\ \/ /\ SendData("client", c, "New")
        /\ sender' = [sender EXCEPT !["client"][c] = IF linkUp THEN "copy" ELSE "error"]
        /\ input' = IF linkUp THEN input ELSE Shut(input, "client", c, "errord")
     \/ /\ input["client"][c] = "open" /\ CanSend("client")
        /\ Send("client", Frame(id[c], "New", c, 0, FALSE))
        /\ sender' = [sender EXCEPT !["client"][c] = IF linkUp THEN "copy" ELSE "error"]
        /\ input' = IF linkUp THEN input ELSE Shut(input, "client", c, "errord")
        /\ UNCHANGED <<sent, waiting>>
     \/ /\ InputOver("client", c)
        /\ sender' = [sender EXCEPT !["client"][c] = "error"]
        /\ UNCHANGED <<input, sent, waiting, link>>
  /\ UNCHANGED <<tables, output, got, receiver, worker>>

\* A bug: the end of the input is taken for the end of its data.
CopyStopsAtClose(x, c) ==
  /\ sender[x][c] = "copy"
  /\ \/ /\ input[x][c] = "open"
        /\ SendData(x, c, "Keep")
        /\ sender' = [sender EXCEPT ![x][c] = IF linkUp THEN "copy" ELSE "end"]
     \/ /\ input[x][c] # "open"
        /\ sender' = [sender EXCEPT ![x][c] = "end"]
        /\ UNCHANGED <<sent, waiting, link>>
  /\ UNCHANGED <<tables, input, output, got, receiver, worker>>

\* buf.Copy(s.input, writer): it returns nil at EOF, and also when the input
\* was interrupted or the mux connection is gone, because their error texts
\* begin with "io".
Copy(x, c) ==
  /\ sender[x][c] = "copy"
  /\ \/ /\ SendData(x, c, "Keep")
        /\ sender' = [sender EXCEPT ![x][c] = IF linkUp THEN "copy" ELSE "end"]
     \/ /\ InputOver(x, c)
        /\ sender' = [sender EXCEPT ![x][c] = "end"]
        /\ UNCHANGED <<sent, waiting, link>>
  /\ UNCHANGED <<tables, input, output, got, receiver, worker>>

\* writer.Close, which tells the peer.
WriterClose(x, c) ==
  /\ sender[x][c] \in {"end", "error"}
  /\ CanSend(x)
  /\ Send(x, EndFrame(id[c], sender[x][c] = "error"))
  /\ sender' = [sender EXCEPT ![x][c] = "close"]
  /\ UNCHANGED <<tables, flows, receiver, worker>>

\* A bug: the session stays in the table.
SenderLeaves(x, c) ==
  /\ sender[x][c] = "close"
  /\ output' = Shut(output, x, c, "closed")
  /\ sender' = [sender EXCEPT ![x][c] = "gone"]
  /\ UNCHANGED <<tables, sent, waiting, input, got, link, receiver, worker>>

\* s.Close at the end of fetchInput and handle.
SenderCloses(x, c) ==
  /\ sender[x][c] = "close"
  /\ SessionClose(x, c)
  /\ sender' = [sender EXCEPT ![x][c] = "gone"]
  /\ UNCHANGED <<count, closed, id, sent, waiting, input, got, link, receiver, worker>>

-----------------------------------------------------------------------------
(* The receiving goroutines: fetchOutput and run *)

Header == [pc |-> "header", conn |-> None, id |-> 0, chunk |-> <<>>, left |-> 0]
Copying(c, f) == [pc |-> "copy", conn |-> c, id |-> f.id, chunk |-> <<f.conn, f.num>>, left |-> Pieces]
Replying(f)   == [Copying(None, f) EXCEPT !.pc = "reply"]

NextFrame(x) == link[Peer(x)][1]
HasFrame(x, status) ==
  /\ receiver[x].pc = "header"
  /\ link[Peer(x)] # <<>>
  /\ NextFrame(x).status = status
Take(x) == link' = [link EXCEPT ![Peer(x)] = Tail(@)]

\* ServerWorker.handleStatusNew: the target is dispatched, the session added,
\* its sender started, and the data of the frame copied.  (A target that cannot
\* be dispatched ends the whole mux connection, as LinkFails does.)
handleStatusNew ==
  LET f == NextFrame("server") IN
  /\ HasFrame("server", "New")
  /\ Take("server")
  /\ table' = [table EXCEPT !["server"][f.id] = f.conn]
  /\ sender' = [sender EXCEPT !["server"][f.conn] = "copy"]
  /\ receiver' = [receiver EXCEPT !["server"] = IF f.num = 0 THEN Header ELSE Copying(f.conn, f)]
  /\ UNCHANGED <<count, closed, id, flows, worker>>

\* handleStatusKeep: data of a session, or of none, which is answered.
handleStatusKeep(x) ==
  LET f == NextFrame(x)
      c == Get(x, f.id) IN
  /\ HasFrame(x, "Keep")
  /\ Take(x)
  /\ receiver' = [receiver EXCEPT ![x] = IF c = None THEN Replying(f) ELSE Copying(c, f)]
  /\ UNCHANGED <<tables, sender, flows, worker>>

\* closingWriter.Close for an unknown session; its chunk is then discarded.
Reply(x) ==
  /\ receiver[x].pc = "reply"
  /\ CanSend(x)
  /\ Send(x, EndFrame(receiver[x].id, FALSE))
  /\ receiver' = [receiver EXCEPT ![x] = Header]
  /\ UNCHANGED <<tables, sender, flows, worker>>

\* One turn of buf.Copy(rr, s.output).  A write to a closed output fails with
\* io.ErrClosedPipe, for which Copy returns nil: nobody is notified, the rest of
\* the chunk is not drained, and the next header is read from it.  Here the
\* model ends ("lost"); if nothing is left the next header is what it should be.
CopyPiece(x) ==
  LET r == receiver[x] IN
  /\ r.pc = "copy"
  /\ \/ /\ output[x][r.conn] = "open"
        /\ got' = IF r.left > 1 THEN got ELSE [got EXCEPT ![x][r.conn] = Append(@, r.chunk)]
        /\ receiver' = [receiver EXCEPT ![x] = IF r.left > 1 THEN [r EXCEPT !.left = @ - 1] ELSE Header]
     \/ /\ output[x][r.conn] # "open"
        /\ receiver' = [receiver EXCEPT ![x] = IF r.left > 1 THEN [r EXCEPT !.pc = "lost"] ELSE Header]
        /\ UNCHANGED got
  /\ UNCHANGED <<tables, sender, sent, waiting, input, output, link, worker>>

\* handleStatusEnd: with an error, the session is interrupted first.
handleStatusEnd(x) ==
  LET f == NextFrame(x)
      c == Get(x, f.id) IN
  /\ HasFrame(x, "End")
  /\ Take(x)
  /\ \/ c = None /\ UNCHANGED <<input, output, table>>
     \/ /\ c # None /\ f.error
        /\ input' = Shut(input, x, c, "errord")
        /\ output' = Shut(output, x, c, "errord")
        /\ table' = Remove(x, f.id)
     \/ c # None /\ ~f.error /\ SessionClose(x, c) /\ UNCHANGED input
  /\ UNCHANGED <<count, closed, id, sender, sent, waiting, got, receiver, worker>>

\* The receiver finds the mux connection gone: fetchOutput closes done, run
\* closes the manager.
ReceiverEnds(x) ==
  /\ ~linkUp /\ receiver[x].pc = "header"
  /\ receiver' = [receiver EXCEPT ![x] = [Header EXCEPT !.pc = "ended"]]
  /\ \/ x = "client" /\ done' = TRUE /\ UNCHANGED <<table, closed, output>>
     \/ x = "server" /\ ManagerClose(x) /\ UNCHANGED done
  /\ UNCHANGED <<count, id, sender, sent, waiting, input, got, link, linkUp, monitor>>

-----------------------------------------------------------------------------
(* ClientWorker.monitor *)

\* A tick that finds no session; the manager is asked again below.  (Once done
\* is closed a tick changes nothing more.)
MonitorTick ==
  /\ monitor = "wait" /\ ~done
  /\ Size("client") = 0
  /\ monitor' = "idle"
  /\ UNCHANGED <<tables, sender, flows, link, receiver, linkUp, done>>

\* A bug: the table is not looked at again under the lock.
CloseAnyway ==
  /\ monitor = "idle"
  /\ closed' = [closed EXCEPT !["client"] = TRUE]
  /\ done' = TRUE
  /\ monitor' = "wait"
  /\ UNCHANGED <<count, table, id, sender, flows, link, receiver, linkUp>>

CloseIfNoSession ==
  /\ monitor = "idle"
  /\ monitor' = "wait"
  /\ IF closed["client"] \/ Size("client") = 0
       THEN closed' = [closed EXCEPT !["client"] = TRUE] /\ done' = TRUE
       ELSE UNCHANGED <<closed, done>>
  /\ UNCHANGED <<count, table, id, sender, flows, link, receiver, linkUp>>

\* sessionManager.Close, which does nothing if CloseIfNoSession came first.
MonitorCloses ==
  /\ monitor = "wait" /\ done
  /\ IF closed["client"] THEN UNCHANGED <<table, closed, output>> ELSE ManagerClose("client")
  /\ monitor' = "closing"
  /\ UNCHANGED <<count, id, sender, sent, waiting, input, got, link, receiver, linkUp, done>>

\* The link's writer is closed and its reader interrupted: the outbound that
\* carries the mux connection ends, and what is under way is lost.
Disconnect == linkUp' = FALSE /\ link' = [x \in Sides |-> <<>>]

MonitorDisconnects ==
  /\ monitor = "closing"
  /\ Disconnect
  /\ monitor' = "over"
  /\ UNCHANGED <<tables, sender, flows, receiver, done>>

\* The network ends the mux connection.
LinkFails ==
  /\ linkUp /\ count <= MaxBeforeFailure
  /\ Disconnect
  /\ UNCHANGED <<tables, sender, flows, receiver, done, monitor>>

-----------------------------------------------------------------------------
(* The applications: the inbound on the client's side, the outbound of the
   target on the server's, which exists once its session does. *)

Alive(x, c) == sender[x][c] \notin {"none", "dispatching"}

\* The input is closed, with some chunks still in it.
Finish(x, c) ==
  /\ <<x, c>> \in Finishers
  /\ Alive(x, c)
  /\ input[x][c] = "open"
  /\ input' = Shut(input, x, c, "closed")
  /\ \E n \in 0 .. MaxChunks[x][c] - sent[x][c] : waiting' = [waiting EXCEPT ![x][c] = n]
  /\ UNCHANGED <<tables, sender, sent, output, got, link, receiver, worker>>

\* Both pipes are interrupted: the inbound or the outbound failed.
Abort(x, c) ==
  /\ <<x, c>> \in Aborters
  /\ Alive(x, c)
  /\ input[x][c] = "open" \/ output[x][c] = "open"
  /\ input' = Shut(input, x, c, "errord")
  /\ output' = Shut(output, x, c, "errord")
  /\ UNCHANGED <<tables, sender, sent, waiting, got, link, receiver, worker>>

-----------------------------------------------------------------------------
Init ==
  /\ count = 0
  /\ table = [x \in Sides |-> [i \in Ids |-> None]]
  /\ closed = [x \in Sides |-> FALSE]
  /\ id = [c \in Conns |-> 0]
  /\ sender = [x \in Sides |-> [c \in Conns |-> "none"]]
  /\ sent = [x \in Sides |-> [c \in Conns |-> 0]] /\ waiting = sent
  /\ input = [x \in Sides |-> [c \in Conns |-> "open"]] /\ output = input
  /\ got = [x \in Sides |-> [c \in Conns |-> <<>>]]
  /\ link = [x \in Sides |-> <<>>]
  /\ receiver = [x \in Sides |-> Header]
  /\ linkUp = TRUE /\ done = FALSE /\ monitor = "wait"

SenderStep(x, c) ==
  \/ x = "client" /\ FirstPayload(c)
  \/ Copy(x, c) \/ WriterClose(x, c) \/ SenderCloses(x, c)
ReceiverStep(x) ==
  \/ x = "server" /\ handleStatusNew
  \/ handleStatusKeep(x) \/ handleStatusEnd(x) \/ Reply(x) \/ CopyPiece(x) \/ ReceiverEnds(x)
MonitorStep == MonitorTick \/ CloseIfNoSession \/ MonitorCloses \/ MonitorDisconnects
Application(x, c) == Finish(x, c) \/ Abort(x, c)

Next ==
  \/ \E c \in Conns : DispatchBegins(c) \/ Allocate(c) \/ Launch(c)
  \/ \E x \in Sides, c \in Conns : SenderStep(x, c) \/ Application(x, c)
  \/ \E x \in Sides : ReceiverStep(x)
  \/ MonitorStep
  \/ LinkFails

Spec == Init /\ [][Next]_vars

\* The work goroutines have before them, that of a begun Dispatch too.  All of it
\* comes to an end, so it is enough that some goroutine runs while one can.
\* Applications owe nothing, and the monitor's 16 s tick is not relied on.
System ==
  \/ \E c \in Conns : Allocate(c) \/ Launch(c)
  \/ \E x \in Sides, c \in Conns : SenderStep(x, c)
  \/ \E x \in Sides : ReceiverStep(x)
  \/ CloseIfNoSession \/ MonitorCloses \/ MonitorDisconnects

Fairness == WF_vars(System)

LiveSpec == Spec /\ Fairness

-----------------------------------------------------------------------------
(* Properties *)

\* Both receivers are where a frame begins, or within one they know: no chunk
\* was torn.  What a receiver does with the rest of one is not modelled.
Aligned == \A x \in Sides : receiver[x].pc # "lost"

States == {"none", "dispatching", "allocated", "first", "copy", "end", "error", "close", "gone"}

\* Every variable has its type, and while frames are told apart a session is in
\* a table under its own id.
TypeOK ==
  /\ count \in 0 .. Cardinality(Conns)
  /\ table \in [Sides -> [Ids -> Conns \cup {None}]]
  /\ Aligned => \A x \in Sides, i \in Ids : table[x][i] # None => id[table[x][i]] = i
  /\ closed \in [Sides -> BOOLEAN] /\ id \in [Conns -> Ids \cup {0}]
  /\ sender \in [Sides -> [Conns -> States]]
  /\ \A x \in Sides, c \in Conns : sent[x][c] + waiting[x][c] <= MaxChunks[x][c]
  /\ input \in [Sides -> [Conns -> {"open", "closed", "errord"}]]
  /\ output \in [Sides -> [Conns -> {"open", "closed", "errord"}]]
  /\ \A x \in Sides : receiver[x].pc \in {"header", "copy", "reply", "lost", "ended"}
  /\ linkUp \in BOOLEAN /\ done \in BOOLEAN /\ monitor \in {"wait", "idle", "closing", "over"}

\* A connection is handed its own data, in order and without gaps, whatever
\* sessions share the mux connection, ended before it or ended meanwhile, as
\* long as no chunk was torn.
OwnDataInOrder ==
  Aligned => \A x \in Sides, c \in Conns :
    /\ Len(got[x][c]) <= sent[Peer(x)][c]
    /\ \A k \in 1 .. Len(got[x][c]) : got[x][c][k] = <<c, k>>

\* When the client's side of a connection sees the end of the answer while it
\* still asks and the mux connection works, the answer is complete, unless the
\* target's side was interrupted or a chunk was torn before.
CleanEnd ==
  Aligned => \A c \in Conns :
    output["client"][c] = "closed" /\ sender["client"][c] \in {"first", "copy"}
      /\ ~done /\ linkUp /\ input["server"][c] # "errord"
    => /\ sender["server"][c] \in {"close", "gone"}
       /\ waiting["server"][c] = 0 /\ Len(got["client"][c]) = sent["server"][c]

\* An idle client is closed, a busy one never: as long as the mux connection
\* works and no chunk was torn, closing it cuts no connection that still waits
\* for its answer.
OnlyIdleCloses ==
  Aligned /\ closed["client"] /\ receiver["client"].pc # "ended" /\ monitor = "wait" =>
    \A c \in Conns : sender["client"][c] \in {"none", "dispatching"} \/ output["client"][c] # "open"

\* A connection one side of which is finished or aborted leaves both tables,
\* unless a chunk is torn.
SessionsEnd ==
  \A c \in Conns :
    (\E x \in Sides : input[x][c] # "open" /\ sender[x][c] = "copy")
      ~> (~Aligned \/ \A y \in Sides, i \in Ids : table[y][i] # c)

\* "Notify remote peer to close this session" (client.go:350, server.go:176):
\* a receiver that found no session for a frame gets its notification out.
PeerIsNotified == \A x \in Sides : receiver[x].pc = "reply" ~> receiver[x].pc # "reply"
=============================================================================
