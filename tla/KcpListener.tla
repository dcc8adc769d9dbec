---------------------------- MODULE KcpListener ----------------------------
(***************************************************************************)
(* transport/internet/kcp/listener.go: the table of sessions of a listening *)
(* mKCP endpoint.  A packet from an unknown peer makes a connection; a      *)
(* connection that is terminated runs Terminate in a goroutine, which       *)
(* removes its session by id and releases it.  KcpLifecycle shows that two  *)
(* threads may both terminate a connection, so Terminate may run twice.     *)
(* Names are chosen apart from KcpLifecycle's: the proofs extend both.      *)
(***************************************************************************)
EXTENDS Naturals, FiniteSets

CONSTANTS
  Ids,           \* ConnectionID: the peer's address, port and conversation
  Conns,         \* bound: the connections ever made
  NoConn

ASSUME ListenerAssumption == NoConn \notin Conns

VARIABLES
  sessions,   \* Listener.sessions
  id,         \* of each connection made, or the connection is not in its domain
  ends,       \* of each connection: how often a thread stored StateTerminated
  due,        \* of each connection: Terminate goroutines to come
  released,   \* connections whose workers are gone
  open        \* the listener has not been closed

tableVars == <<sessions, id, ends, due, released, open>>

Made == DOMAIN id

\* The packets of a known session go to its connection, which changes nothing
\* here; a terminate command makes none.  Packets the hub has buffered are
\* still handled after the listener is closed.
OnReceive(i) ==
  /\ sessions[i] = NoConn
  /\ \E c \in Conns \ Made :
       /\ sessions' = [sessions EXCEPT ![i] = c]
       /\ id' = [d \in Made \cup {c} |-> IF d = c THEN i ELSE id[d]]
  /\ UNCHANGED <<ends, due, released, open>>

\* SetState(StateTerminated) in the connection, by one thread or two.
End(c) ==
  /\ c \in Made
  /\ ends[c] < 2
  /\ ends' = [ends EXCEPT ![c] = @ + 1]
  /\ due' = [due EXCEPT ![c] = @ + 1]
  /\ UNCHANGED <<sessions, id, released, open>>

\* A bug: only the socket's writer is closed.
KeepSession(c) == sessions

\* A bug: the whole table goes with the connection.
RemoveAny(c) == [i \in Ids |-> NoConn]

\* Writer.Close: the session with this connection's id goes.
Remove(c) == [sessions EXCEPT ![id[c]] = NoConn]

TerminateConn(c) ==
  /\ due[c] > 0
  /\ due' = [due EXCEPT ![c] = @ - 1]
  /\ sessions' = Remove(c)
  /\ released' = released \cup {c}
  /\ UNCHANGED <<id, ends, open>>

\* Listener.Close terminates the connections of its table.
CloseListener ==
  /\ open
  /\ open' = FALSE
  /\ due' = [c \in Conns |-> IF \E i \in Ids : sessions[i] = c THEN due[c] + 1 ELSE due[c]]
  /\ UNCHANGED <<sessions, id, ends, released>>

TableInit ==
  /\ sessions = [i \in Ids |-> NoConn] /\ id = [c \in {} |-> NoConn]
  /\ ends = [c \in Conns |-> 0] /\ due = [c \in Conns |-> 0] /\ released = {} /\ open = TRUE

TableNext ==
  \/ \E i \in Ids : OnReceive(i)
  \/ \E c \in Conns : End(c) \/ TerminateConn(c)
  \/ CloseListener

TableSpec == TableInit /\ [][TableNext]_tableVars

-----------------------------------------------------------------------------
(* Properties *)

\* Every variable has its type; the table maps an id to a connection made for it.
TableTypeOK ==
  /\ sessions \in [Ids -> Conns \cup {NoConn}]
  /\ \A i \in Ids : sessions[i] # NoConn => sessions[i] \in Made /\ id[sessions[i]] = i
  /\ Made \subseteq Conns /\ ends \in [Conns -> 0 .. 2] /\ released \subseteq Made
  /\ due \in [Conns -> 0 .. 3] /\ open \in BOOLEAN

\* No packet is fed to a connection whose workers are released, even when
\* Terminate runs twice or the listener closes meanwhile (OnReceive, Remove).
ReleasedNotFed == \A i \in Ids : sessions[i] \notin released

\* A peer talks to one connection: the one in the table is the only one alive
\* for its id.  It needs every connection to be terminated once, for Remove
\* deletes by id, not by connection, and a listener that stays open.
OneConnectionPerPeer ==
  open /\ (\A c \in Made : ends[c] <= 1)
    => \A c \in Made : ends[c] = 0 => sessions[id[c]] = c
=============================================================================
