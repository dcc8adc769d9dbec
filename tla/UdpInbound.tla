----------------------------- MODULE UdpInbound -----------------------------
(***************************************************************************)
(* The udp worker of an inbound (app/proxyman/inbound/worker.go): packets   *)
(* that come from one source to one destination share a connection, which   *)
(* is kept in activeConn and has a goroutine that runs the proxy on it.     *)
(* One loop takes the packets; a Periodic task (common/task) closes the     *)
(* connections that were idle, stops when there are none, and is started    *)
(* again by the next connection, the first time within the loop.           *)
(*                                                                         *)
(* A critical section of the worker or of the task is one step.  Of time    *)
(* only this is kept: whether a connection has been idle for more than      *)
(* eight seconds, and that the task's timer fires at last.  What is in the  *)
(* packets, and the pipe of a connection, are left out (Pipe has it).      *)
(***************************************************************************)
EXTENDS Naturals

CONSTANTS
  Ids,       \* connID: source and destination
  MaxConns   \* bound: connections made

None == 0
Conns == 1 .. MaxConns

ASSUME UdpAssumption == MaxConns \in Nat /\ None \notin Ids

VARIABLES
  activeConn, \* activeConn[i]: the connection of id i, or None
  id,         \* id[c]: what connection c was made for, None before
  done,       \* done[c]: conn.done is closed
  idle,       \* idle[c]: lastActivityTime is more than eight seconds ago
  handler,    \* handler[c]: where the goroutine of c is
  loop,       \* where handlePackets is
  current,    \* the connection made for its packet
  running,    \* Periodic.running
  task,       \* where the task is: "armed" while its timer runs
  due,        \* the connections idle when clean read the clock, and since
  crashed,    \* common.Must panicked
  late,       \* history: removeConn removed the connection of another
  missed      \* history: Start came between the end of clean and running = false

connVars == <<id, done, idle>>
taskVars == <<running, task, due>>
history  == <<late, missed>>
vars == <<activeConn, connVars, handler, loop, current, taskVars, crashed, history>>

Init ==
  /\ activeConn = [i \in Ids |-> None]
  /\ id = [c \in Conns |-> None]
  /\ done = [c \in Conns |-> FALSE] /\ idle = done
  /\ handler = [c \in Conns |-> "none"]
  /\ loop = "receive" /\ current = None
  /\ running = FALSE /\ task = "none" /\ due = {}
  /\ crashed = FALSE /\ late = FALSE /\ missed = FALSE

-----------------------------------------------------------------------------
(* handlePackets *)

\* The connections that were made are the first ones.
nextConn == {c \in Conns : id[c] = None /\ \A d \in 1 .. c - 1 : id[d] # None}

\* The table has a connection for the id that is not done.
found(i) == activeConn[i] # None /\ ~done[activeConn[i]]

\* A packet arrives: getConnection finds a connection that is not done, or
\* makes one.
getConnection(i) ==
  /\ loop = "receive"
  /\ \/ /\ found(i)
        /\ UNCHANGED <<activeConn, connVars, loop, current>>
     \/ /\ ~found(i)
        /\ \E n \in nextConn :
             /\ activeConn' = [activeConn EXCEPT ![i] = n]
             /\ id' = [id EXCEPT ![n] = i] /\ idle' = [idle EXCEPT ![n] = FALSE]
             /\ current' = n
        /\ loop' = "start"
        /\ UNCHANGED done
  /\ UNCHANGED <<handler, taskVars, crashed, history>>

\* checker.Start, for a new connection: a task that does not run is run at once.
Start ==
  /\ loop = "start"
  /\ \/ /\ running
        /\ loop' = "go"
        /\ missed' = (missed \/ task = "fail")
        /\ UNCHANGED taskVars
     \/ /\ ~running
        /\ running' = TRUE /\ task' = "clock"
        /\ loop' = "executing"
        /\ UNCHANGED <<due, missed>>
  /\ UNCHANGED <<activeConn, connVars, handler, current, crashed, late>>

\* The goroutine of the new connection is started.
go ==
  /\ loop = "go"
  /\ handler' = [handler EXCEPT ![current] = "process"]
  /\ loop' = "receive" /\ current' = None
  /\ UNCHANGED <<activeConn, connVars, taskVars, crashed, history>>

-----------------------------------------------------------------------------
(* The task: checkedExecute and clean *)

TimerFires ==
  /\ task = "armed"
  /\ task' = "clock"
  /\ UNCHANGED <<activeConn, connVars, handler, loop, current, running, due, crashed, history>>

\* clean reads the clock before it takes the lock.
readClock ==
  /\ task = "clock"
  /\ due' = {c \in Conns : idle[c]} /\ task' = "clean"
  /\ UNCHANGED <<activeConn, connVars, handler, loop, current, running, crashed, history>>

\* It fails if there is nothing; otherwise it removes and closes what was idle
\* then and has not been active since.
clean ==
  /\ task = "clean"
  /\ \/ /\ \A i \in Ids : activeConn[i] = None
        /\ task' = "fail"
        /\ UNCHANGED <<activeConn, done>>
     \/ /\ \E i \in Ids : activeConn[i] # None
        /\ LET old == {i \in Ids : activeConn[i] \in due} IN
           /\ activeConn' = [i \in Ids |-> IF i \in old THEN None ELSE activeConn[i]]
           /\ done' = [c \in Conns |-> done[c] \/ \E i \in old : activeConn[i] = c]
        /\ task' = "rearm"
  /\ due' = {}
  /\ UNCHANGED <<id, idle, handler, loop, current, running, crashed, history>>

\* The task ends.  When Start executes it, common.Must panics.
fail ==
  /\ task = "fail"
  /\ running' = FALSE /\ task' = "none"
  /\ crashed' = (loop = "executing")
  /\ UNCHANGED <<activeConn, connVars, handler, loop, current, due, history>>

\* A bug: the task is executed once.
rearmNot ==
  /\ task = "rearm"
  /\ task' = "none"
  /\ loop' = IF loop = "executing" THEN "go" ELSE loop
  /\ UNCHANGED <<activeConn, connVars, handler, current, running, due, crashed, history>>

\* The timer is set, and a Start that executed the task returns.
rearm ==
  /\ task = "rearm"
  /\ task' = "armed"
  /\ loop' = IF loop = "executing" THEN "go" ELSE loop
  /\ UNCHANGED <<activeConn, connVars, handler, current, running, due, crashed, history>>

-----------------------------------------------------------------------------
(* A connection and its goroutine *)

\* Eight seconds pass; the loop does not take that long to start a connection.
GoesIdle(c) ==
  /\ id[c] # None /\ ~idle[c] /\ c # current
  /\ idle' = [idle EXCEPT ![c] = TRUE]
  /\ UNCHANGED <<activeConn, id, done, handler, loop, current, taskVars, crashed, history>>

\* The proxy reads from the connection or writes to it, which a closed one still
\* allows.
updateActivity(c) ==
  /\ handler[c] = "process" /\ idle[c]
  /\ idle' = [idle EXCEPT ![c] = FALSE] /\ due' = due \ {c}
  /\ UNCHANGED <<activeConn, id, done, handler, loop, current, running, task, crashed, history>>

\* Process returns: when the connection is closed, or for a reason of its own.
ProcessReturns(c) ==
  /\ handler[c] = "process"
  /\ handler' = [handler EXCEPT ![c] = "close"]
  /\ UNCHANGED <<activeConn, connVars, loop, current, taskVars, crashed, history>>

\* A bug: the connection is not closed.
CloseNot(c) ==
  /\ handler[c] = "close"
  /\ handler' = [handler EXCEPT ![c] = "remove"]
  /\ UNCHANGED <<activeConn, connVars, loop, current, taskVars, crashed, history>>

Close(c) ==
  /\ handler[c] = "close"
  /\ done' = [done EXCEPT ![c] = TRUE]
  /\ handler' = [handler EXCEPT ![c] = "remove"]
  /\ UNCHANGED <<activeConn, id, idle, loop, current, taskVars, crashed, history>>

\* removeConn removes what the table has for the id, whichever connection it is.
removeConn(c) ==
  /\ handler[c] = "remove"
  /\ activeConn' = [activeConn EXCEPT ![id[c]] = None]
  /\ late' = (late \/ activeConn[id[c]] \notin {c, None})
  /\ handler' = [handler EXCEPT ![c] = "end"]
  /\ UNCHANGED <<connVars, loop, current, taskVars, crashed, missed>>

-----------------------------------------------------------------------------
Task == TimerFires \/ readClock \/ clean \/ fail \/ rearm
Ending(c) == Close(c) \/ removeConn(c)

Next ==
  /\ ~crashed
  /\ \/ \E i \in Ids : getConnection(i)
     \/ Start \/ go \/ Task
     \/ \E c \in Conns : GoesIdle(c) \/ updateActivity(c) \/ ProcessReturns(c) \/ Ending(c)

\* Goroutines run, the timer fires.  Nothing makes a packet arrive.
Fairness == /\ WF_vars(~crashed /\ (Start \/ go)) /\ WF_vars(~crashed /\ Task)
            /\ \A c \in Conns : WF_vars(~crashed /\ Ending(c))

Spec == Init /\ [][Next]_vars /\ Fairness

-----------------------------------------------------------------------------
(* Properties *)

TypeOK ==
  /\ activeConn \in [Ids -> Conns \cup {None}]
  /\ id \in [Conns -> Ids \cup {None}]
  /\ \A i \in Ids : activeConn[i] # None => id[activeConn[i]] = i
  /\ {done, idle} \subseteq [Conns -> BOOLEAN]
  /\ handler \in [Conns -> {"none", "process", "close", "remove", "end"}]
  /\ loop \in {"receive", "start", "executing", "go"}
  /\ current \in Conns \cup {None} /\ (loop = "receive" <=> current = None)
  /\ running \in BOOLEAN /\ due \subseteq Conns
  /\ task \in {"none", "armed", "clock", "clean", "fail", "rearm"}
  /\ running <=> task # "none"
  /\ {crashed, late, missed} \subseteq BOOLEAN

\* A connection that is not done is the one its packets find, so that a source
\* has one at most, and starting the task does not bring the program down;
\* unless a goroutine that ended, which removes by id, took away the connection
\* that had replaced its own.
OnlyLateRemovalsHarm ==
  /\ late \/ \A c \in Conns : id[c] # None /\ ~done[c] => activeConn[id[c]] = c
  /\ crashed => late

\* A connection that stays idle is closed: the task ends and is started again
\* without leaving one behind, unless a Start came just before it said that it
\* no longer runs.
IdleIsClosed ==
  \A c \in Conns :
    (id[c] # None /\ idle[c]) ~> (done[c] \/ ~idle[c] \/ missed \/ late)
=============================================================================
