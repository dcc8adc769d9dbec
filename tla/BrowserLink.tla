---------------------------- MODULE BrowserLink ----------------------------
(***************************************************************************)
(* The link between the forwarder (app/browserforwarder) and the browser    *)
(* pages that connect to it with index.js.  Every page dials the forwarder  *)
(* again and again; one is let in, and its smux session becomes bridgemux,  *)
(* over which Dial opens a stream for each connection.  The page reads the  *)
(* destination from the stream, dials it and copies.                       *)
(*                                                                         *)
(* ServeBridge runs in a goroutine for each request and Dial in its caller's;*)
(* both read and write bridgemux without a lock, so each use of it is a     *)
(* step.  A session is named by the number its handler was given, which is  *)
(* used again when nothing knows it any more.  What happens on a session is *)
(* in Smux, and on the page's socket to the destination in PageSocket: here *)
(* a session holds (alive) or is broken, and both ends notice.              *)
(***************************************************************************)
EXTENDS Naturals, FiniteSets

CONSTANTS
  Pages,      \* tabs of browsers
  Clients,    \* callers of Dial
  Sessions,   \* bound: the numbers of sessions
  MaxLosses   \* bound: tabs closed and links lost

Nil == 0

ASSUME LinkAssumption == Sessions \subseteq Nat \ {0} /\ MaxLosses \in Nat

VARIABLES
  bridgemux,  \* hs.link.bridgemux
  handler,    \* handler[s]: where the ServeBridge of session s is, "free" when it returned
  waits,      \* waits[s]: the session its Accept is called on
  alive,      \* alive[s]: the websocket of s holds
  page,       \* page[p]: where index.js is
  conn,       \* conn[p]: the session the page dials or has
  client,     \* client[c]: where Dial and the use of its stream are
  via,        \* via[c]: the session of its Open
  written,    \* written[c]: its request was sent
  work,       \* work[c]: the page's goroutine for its stream
  crashed,    \* Dial panicked in its caller's goroutine, the process is gone
  losses,     \* history: tabs closed and links lost
  raced       \* history: two requests were let in at once

serverVars == <<bridgemux, handler, waits>>
pageVars   == <<page, conn>>
clientVars == <<client, via, written>>
vars == <<serverVars, alive, pageVars, clientVars, work, crashed, losses, raced>>

Init ==
  /\ bridgemux = Nil
  /\ handler = [s \in Sessions |-> "free"] /\ waits = [s \in Sessions |-> Nil]
  /\ alive = [s \in Sessions |-> FALSE]
  /\ page = [p \in Pages |-> "closed"] /\ conn = [p \in Pages |-> Nil]
  /\ client = [c \in Clients |-> "idle"] /\ via = [c \in Clients |-> Nil]
  /\ written = [c \in Clients |-> FALSE] /\ work = [c \in Clients |-> "none"]
  /\ crashed = FALSE /\ losses = 0 /\ raced = FALSE

-----------------------------------------------------------------------------
(* The page *)

\* The script is run: the packages are set up and main's $init is scheduled.
Load(p) ==
  /\ page[p] = "closed"
  /\ page' = [page EXCEPT ![p] = "loading"]
  /\ UNCHANGED <<serverVars, alive, conn, clientVars, work, crashed, losses, raced>>

\* main starts the goroutine that calls Bridge with the address of the page.
Main(p) ==
  /\ page[p] = "loading"
  /\ page' = [page EXCEPT ![p] = "dialing"]
  /\ UNCHANGED <<serverVars, alive, conn, clientVars, work, crashed, losses, raced>>

\* Bridge: Accept fails on a session that is over; what is left of the second
\* is waited for ...
AcceptEnds(p) ==
  /\ page[p] = "up" /\ ~alive[conn[p]]
  /\ page' = [page EXCEPT ![p] = "pausing"] /\ conn' = [conn EXCEPT ![p] = Nil]
  /\ UNCHANGED <<serverVars, alive, clientVars, work, crashed, losses, raced>>

\* ... until the timer fires, and Bridge dials again.
TimerFires(p) ==
  /\ page[p] = "pausing"
  /\ page' = [page EXCEPT ![p] = "dialing"]
  /\ UNCHANGED <<serverVars, alive, conn, clientVars, work, crashed, losses, raced>>

-----------------------------------------------------------------------------
(* ServeBridge *)

\* A number that nothing knows.
unused(s) ==
  /\ handler[s] = "free" /\ ~alive[s] /\ bridgemux # s
  /\ \A p \in Pages : conn[p] # s
  /\ \A t \in Sessions : waits[t] # s
  /\ \A c \in Clients : via[c] # s

\* Two handlers between the check of bridgemux and its assignment.
overlap(h) == Cardinality({s \in Sessions : h[s] \in {"checked", "upgraded"}}) > 1

\* The request is let in.
enter(p, s) ==
  /\ unused(s) /\ \A t \in Sessions : unused(t) => s <= t
  /\ handler' = [handler EXCEPT ![s] = "checked"]
  /\ conn' = [conn EXCEPT ![p] = s]
  /\ raced' = (raced \/ overlap(handler'))
  /\ UNCHANGED <<page, bridgemux, waits>>

\* A bug: every page is let in.
ServeBridgeAlways(p) ==
  /\ page[p] = "dialing" /\ conn[p] = Nil
  /\ \E s \in Sessions : enter(p, s)
  /\ UNCHANGED <<alive, clientVars, work, crashed, losses>>

\* A page's Dial arrives.  While there is a bridgemux it is answered without an
\* upgrade, and the page's Dial fails.
ServeBridge(p) ==
  /\ page[p] = "dialing" /\ conn[p] = Nil
  /\ \/ /\ bridgemux # Nil
        /\ page' = [page EXCEPT ![p] = "pausing"]
        /\ UNCHANGED <<serverVars, conn, raced>>
     \/ /\ bridgemux = Nil
        /\ \E s \in Sessions : enter(p, s)
  /\ UNCHANGED <<alive, clientVars, work, crashed, losses>>

\* Upgrade, which fails when the page is gone; the page has its connection.
Upgrade(s) ==
  /\ handler[s] = "checked"
  /\ \/ \E p \in Pages :
          /\ conn[p] = s
          /\ page' = [page EXCEPT ![p] = "up"]
          /\ alive' = [alive EXCEPT ![s] = TRUE]
          /\ handler' = [handler EXCEPT ![s] = "upgraded"]
     \/ /\ \A p \in Pages : conn[p] # s
        /\ handler' = [handler EXCEPT ![s] = "free"]
        /\ UNCHANGED <<page, alive>>
  /\ UNCHANGED <<bridgemux, waits, conn, clientVars, work, crashed, losses, raced>>

\* The session is assigned without another look at bridgemux.
Assign(s) ==
  /\ handler[s] = "upgraded"
  /\ bridgemux' = s
  /\ handler' = [handler EXCEPT ![s] = "assigned"]
  /\ UNCHANGED <<waits, alive, pageVars, clientVars, work, crashed, losses, raced>>

\* A bug: Accept is called although there is no session.
AcceptNil(s) ==
  /\ handler[s] = "assigned"
  /\ waits' = [waits EXCEPT ![s] = bridgemux]
  /\ handler' = [handler EXCEPT ![s] = "accepting"]
  /\ UNCHANGED <<bridgemux, alive, pageVars, clientVars, work, crashed, losses, raced>>

\* The loop reads bridgemux again to call Accept.  Without one the handler
\* panics, from which net/http recovers.
Accept(s) ==
  /\ handler[s] = "assigned"
  /\ \/ /\ bridgemux # Nil
        /\ waits' = [waits EXCEPT ![s] = bridgemux]
        /\ handler' = [handler EXCEPT ![s] = "accepting"]
     \/ /\ bridgemux = Nil
        /\ handler' = [handler EXCEPT ![s] = "free"]
        /\ UNCHANGED waits
  /\ UNCHANGED <<bridgemux, alive, pageVars, clientVars, work, crashed, losses, raced>>

\* A bug: bridgemux stays when its session is over.
AcceptFailsKeeps(s) ==
  /\ handler[s] = "accepting" /\ ~alive[waits[s]]
  /\ waits' = [waits EXCEPT ![s] = Nil]
  /\ handler' = [handler EXCEPT ![s] = "free"]
  /\ UNCHANGED <<bridgemux, alive, pageVars, clientVars, work, crashed, losses, raced>>

\* A page opens no streams, so Accept returns when its session is over; the
\* handler takes bridgemux away, whoever's it is.
AcceptFails(s) ==
  /\ handler[s] = "accepting" /\ ~alive[waits[s]]
  /\ bridgemux' = Nil
  /\ waits' = [waits EXCEPT ![s] = Nil]
  /\ handler' = [handler EXCEPT ![s] = "free"]
  /\ UNCHANGED <<alive, pageVars, clientVars, work, crashed, losses, raced>>

-----------------------------------------------------------------------------
(* Dial, and its stream *)

\* Dial looks at bridgemux ...
Check(c) ==
  /\ client[c] = "idle"
  /\ client' = [client EXCEPT ![c] = IF bridgemux = Nil THEN "refused" ELSE "checked"]
  /\ UNCHANGED <<serverVars, alive, pageVars, via, written, work, crashed, losses, raced>>

\* ... and reads it again to call Open, which panics without one.
Open(c) ==
  /\ client[c] = "checked"
  /\ \/ /\ bridgemux # Nil
        /\ client' = [client EXCEPT ![c] = "opening"]
        /\ via' = [via EXCEPT ![c] = bridgemux]
        /\ UNCHANGED crashed
     \/ /\ bridgemux = Nil
        /\ crashed' = TRUE
        /\ UNCHANGED <<client, via>>
  /\ UNCHANGED <<serverVars, alive, pageVars, written, work, losses, raced>>

\* Open returns.  On an error Dial takes bridgemux away, goes on with the nil
\* stream it was given and panics in WriteRequest.
OpenReturns(c) ==
  /\ client[c] = "opening"
  /\ \/ /\ alive[via[c]]
        /\ client' = [client EXCEPT ![c] = "writing"]
        /\ UNCHANGED <<bridgemux, crashed>>
     \/ /\ ~alive[via[c]]
        /\ bridgemux' = Nil /\ crashed' = TRUE
        /\ UNCHANGED client
  /\ UNCHANGED <<handler, waits, alive, pageVars, via, written, work, losses, raced>>

\* WriteRequest, whose error is not looked at: the stream is returned.
WriteRequest(c) ==
  /\ client[c] = "writing"
  /\ client' = [client EXCEPT ![c] = "open"]
  /\ written' = [written EXCEPT ![c] = alive[via[c]]]
  /\ UNCHANGED <<serverVars, alive, pageVars, via, work, crashed, losses, raced>>

\* The caller closes its stream.
CloseStream(c) ==
  /\ client[c] = "open"
  /\ client' = [client EXCEPT ![c] = "closed"]
  /\ UNCHANGED <<serverVars, alive, pageVars, via, written, work, crashed, losses, raced>>

\* Bridge accepts the stream and starts a goroutine.
AcceptStream(c) ==
  /\ client[c] \in {"writing", "open", "closed"} /\ work[c] = "none"
  /\ \E p \in Pages : page[p] = "up" /\ conn[p] = via[c] /\ alive[via[c]]
  /\ work' = [work EXCEPT ![c] = "reading"]
  /\ UNCHANGED <<serverVars, alive, pageVars, clientVars, crashed, losses, raced>>

\* struc.Unpack reads to the end of the field whose length was sent: it waits
\* until all of it is there or the stream has ended.
Unpack(c) == (IF written[c] THEN {"nil"} ELSE {}) \cup (IF alive[via[c]] THEN {} ELSE {"err"})

\* ReadRequest; on an error the goroutine returns and leaves its stream open.
ReadRequest(c) ==
  /\ work[c] = "reading"
  /\ \E err \in Unpack(c) : work' = [work EXCEPT ![c] = IF err = "nil" THEN "dialing" ELSE "done"]
  /\ UNCHANGED <<serverVars, alive, pageVars, clientVars, crashed, losses, raced>>

\* Dial of the destination; on an error the stream is closed.
DialDestination(c) ==
  /\ work[c] = "dialing"
  /\ \E next \in {"copying", "done"} : work' = [work EXCEPT ![c] = next]
  /\ UNCHANGED <<serverVars, alive, pageVars, clientVars, crashed, losses, raced>>

\* A bug: the copy waits for its link only.
CopyGoesOn(c) == ~alive[via[c]]

\* io.Copy from the stream to the destination ends at its EOF or its error; a
\* destination that is gone does not end it, as writing to it fails silently.
Copy(c) == client[c] = "closed" \/ ~alive[via[c]]

\* The goroutine closes the stream after its copy.
CopyEnds(c) ==
  /\ work[c] = "copying" /\ Copy(c)
  /\ work' = [work EXCEPT ![c] = "done"]
  /\ UNCHANGED <<serverVars, alive, pageVars, clientVars, crashed, losses, raced>>

-----------------------------------------------------------------------------
(* Losses *)

\* A tab is closed, and all it does ends.
CloseTab(p) ==
  /\ page[p] # "closed" /\ losses < MaxLosses
  /\ page' = [page EXCEPT ![p] = "closed"] /\ conn' = [conn EXCEPT ![p] = Nil]
  /\ alive' = [s \in Sessions |-> alive[s] /\ s # conn[p]]
  /\ work' = [c \in Clients |-> IF work[c] # "none" /\ conn[p] # Nil /\ via[c] = conn[p]
                                  THEN "done" ELSE work[c]]
  /\ losses' = losses + 1
  /\ UNCHANGED <<serverVars, clientVars, crashed, raced>>

\* The websocket of a session breaks.
Lose(s) ==
  /\ alive[s] /\ losses < MaxLosses
  /\ alive' = [alive EXCEPT ![s] = FALSE]
  /\ losses' = losses + 1
  /\ UNCHANGED <<serverVars, pageVars, clientVars, work, crashed, raced>>

-----------------------------------------------------------------------------
PageRuns(p) == Main(p) \/ AcceptEnds(p) \/ TimerFires(p) \/ ServeBridge(p)
HandlerRuns(s) == Upgrade(s) \/ Assign(s) \/ Accept(s) \/ AcceptFails(s)
DialRuns(c) == Open(c) \/ OpenReturns(c) \/ WriteRequest(c)
StreamRuns(c) == AcceptStream(c) \/ ReadRequest(c) \/ DialDestination(c) \/ CopyEnds(c)

\* Nothing happens in a process that is gone.
Next ==
  /\ ~crashed
  /\ \/ \E p \in Pages : Load(p) \/ PageRuns(p) \/ CloseTab(p)
     \/ \E s \in Sessions : HandlerRuns(s) \/ Lose(s)
     \/ \E c \in Clients : Check(c) \/ DialRuns(c) \/ CloseStream(c) \/ StreamRuns(c)

\* Goroutines run, requests are answered and a broken session is noticed.
Fairness ==
  /\ \A p \in Pages : WF_vars(~crashed /\ PageRuns(p))
  /\ \A s \in Sessions : WF_vars(~crashed /\ HandlerRuns(s))
  /\ \A c \in Clients : WF_vars(~crashed /\ DialRuns(c)) /\ WF_vars(~crashed /\ StreamRuns(c))

Spec == Init /\ [][Next]_vars /\ Fairness

-----------------------------------------------------------------------------
(* Properties *)

TypeOK ==
  /\ bridgemux \in Sessions \cup {Nil}
  /\ handler \in [Sessions -> {"free", "checked", "upgraded", "assigned", "accepting"}]
  /\ \A s \in Sessions : IF handler[s] = "accepting" THEN waits[s] \in Sessions ELSE waits[s] = Nil
  /\ alive \in [Sessions -> BOOLEAN]
  /\ page \in [Pages -> {"closed", "loading", "dialing", "up", "pausing"}]
  /\ \A p \in Pages : IF page[p] = "up" THEN conn[p] \in Sessions
                      ELSE IF page[p] = "dialing" THEN conn[p] \in Sessions \cup {Nil}
                      ELSE conn[p] = Nil
  /\ client \in [Clients -> {"idle", "refused", "checked", "opening", "writing", "open", "closed"}]
  /\ via \in [Clients -> Sessions \cup {Nil}] /\ written \in [Clients -> BOOLEAN]
  /\ work \in [Clients -> {"none", "reading", "dialing", "copying", "done"}]
  /\ {crashed, raced} \subseteq BOOLEAN /\ losses \in 0 .. MaxLosses

\* bridgemux is read, written and taken away without a lock; yet unless two
\* requests were let in at once, a page that is connected is the one Dial uses:
\* no handler takes away or overwrites the session of another.
OrphansNeedARace ==
  \A s \in Sessions : alive[s] /\ handler[s] # "upgraded" /\ ~crashed =>
    bridgemux = s \/ raced

\* However pages race, are closed and lose their links, a page that dials gets
\* in, unless another session holds: no session that is over stays in bridgemux
\* and keeps every page out.
Recovers ==
  \A p \in Pages : (page[p] = "dialing") ~>
    (page[p] \in {"up", "closed"} \/ crashed \/ (bridgemux # Nil /\ alive[bridgemux]))

\* Every Dial ends, with a stream or with the process; and when its caller has
\* closed the stream or the link is lost, the page's goroutine for it ends.
Ends ==
  \A c \in Clients :
    /\ (client[c] = "checked") ~> (client[c] \in {"open", "closed"} \/ crashed)
    /\ (client[c] = "closed" \/ (client[c] = "open" /\ ~alive[via[c]]))
         ~> (work[c] \in {"none", "done"} \/ crashed)
=============================================================================
