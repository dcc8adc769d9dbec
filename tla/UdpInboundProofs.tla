-------------------------- MODULE UdpInboundProofs --------------------------
(***************************************************************************)
(* Proofs about UdpInbound, for all sets of ids and numbers of connections. *)
(***************************************************************************)
EXTENDS UdpInbound, TLAPS

(***************************************************************************)
(* A goroutine exists only for a connection that was made, and it has       *)
(* closed its connection by the time it removes one from the table.         *)
(***************************************************************************)
Owned(c) ==
  /\ id[c] = None => ~done[c] /\ ~idle[c] /\ handler[c] = "none"
  /\ handler[c] \in {"remove", "end"} => done[c]

(***************************************************************************)
(* The connection the loop is about to start is as it was made.            *)
(***************************************************************************)
Unused(c) == id[c] # None /\ handler[c] = "none" /\ ~done[c] /\ ~idle[c]

(***************************************************************************)
(* While Start executes the task within the loop, the connection it is      *)
(* called for keeps the table from being empty, so the task does not fail.  *)
(***************************************************************************)
NoFailure == loop = "executing" => task \in {"clock", "clean", "rearm"}

InTable(c) == id[c] # None /\ ~done[c] => activeConn[id[c]] = c

UdpInv ==
  /\ TypeOK
  /\ \A c \in Conns : Owned(c)
  /\ current # None => Unused(current)
  /\ \A c \in due : idle[c]
  /\ late \/ (NoFailure /\ \A c \in Conns : InTable(c))
  /\ loop = "executing" /\ ~crashed => task \in {"clock", "clean", "fail", "rearm"}
  /\ crashed => late

LEMMA UdpInit == Init => UdpInv
  <1> SUFFICES ASSUME Init PROVE UdpInv
    OBVIOUS
  <1>1. TypeOK
    BY UdpAssumption DEF Init, TypeOK, None
  <1>2. \A c \in Conns : Owned(c) /\ InTable(c)
    BY DEF Init, Owned, InTable
  <1> QED
    BY <1>1, <1>2 DEF Init, UdpInv, NoFailure

LEMMA UdpStep == UdpInv /\ [Next]_vars => UdpInv'
  <1> SUFFICES ASSUME UdpInv, [Next]_vars
               PROVE  UdpInv'
    OBVIOUS
  <1> USE UdpAssumption DEF UdpInv, TypeOK, Owned, Unused, NoFailure, InTable
  <1>0. None \notin Conns
    BY DEF Conns, None
  <1>1. ASSUME NEW i \in Ids, getConnection(i) PROVE UdpInv'
    <2>1. CASE found(i)
      BY <1>1, <2>1 DEF getConnection, taskVars, connVars, history
    <2>2. CASE ~found(i)
      <3>1. PICK n \in Conns :
              /\ id[n] = None
              /\ activeConn' = [activeConn EXCEPT ![i] = n]
              /\ id' = [id EXCEPT ![n] = i]
              /\ idle' = [idle EXCEPT ![n] = FALSE]
              /\ current' = n /\ loop' = "start"
        BY <1>1, <2>2 DEF getConnection, nextConn
      <3>2. UNCHANGED <<done, handler, running, task, due, crashed, late, missed>>
        BY <1>1, <2>2 DEF getConnection, taskVars, history
      <3>3. TypeOK'
        BY <3>1, <3>2, <1>0
      <3>4. \A c \in Conns : Owned(c)'
        BY <3>1, <3>2
      <3>5. Unused(n)'
        BY <3>1, <3>2
      <3>6. \A c \in Conns : InTable(c) => InTable(c)'
        BY <3>1, <3>2, <2>2, <1>0 DEF found
      <3>7. NoFailure'
        BY <3>1
      <3>8. (late \/ (NoFailure /\ \A c \in Conns : InTable(c)))'
        BY <3>2, <3>6, <3>7
      <3>9. \A c \in due' : idle'[c]
        BY <3>1, <3>2
      <3> QED
        BY <3>1, <3>2, <3>3, <3>4, <3>5, <3>8, <3>9
    <2> QED
      BY <2>1, <2>2
  <1>2. CASE Start
    BY <1>2, <1>0 DEF Start, connVars, taskVars
  <1>3. CASE go
    BY <1>3, <1>0 DEF go, connVars, taskVars, history
  <1>4. CASE TimerFires
    BY <1>4 DEF TimerFires, connVars, history
  <1>5. CASE readClock
    BY <1>5 DEF readClock, connVars, history
  <1>6. CASE clean
    <2>1. CASE \A i \in Ids : activeConn[i] = None
      <3>1. loop = "executing" => late
        BY <2>1, <1>0
      <3> QED
        BY <1>6, <2>1, <3>1 DEF clean, connVars, history
    <2>2. CASE \E i \in Ids : activeConn[i] # None
      <3> DEFINE old == {i \in Ids : activeConn[i] \in due}
      <3>1. /\ task = "clean" /\ task' = "rearm" /\ due' = {}
            /\ activeConn' = [i \in Ids |-> IF i \in old THEN None ELSE activeConn[i]]
            /\ done' = [c \in Conns |-> done[c] \/ \E i \in old : activeConn[i] = c]
            /\ UNCHANGED <<id, idle, handler, loop, current, running, crashed, late, missed>>
        BY <1>6, <2>2 DEF clean, history
      <3>2. TypeOK'
        BY <3>1, <1>0
      <3>3. \A c \in Conns : id[c] = None \/ idle[c] = FALSE => done'[c] = done[c]
        BY <3>1, <1>0
      <3>4. \A c \in Conns : Owned(c)'
        BY <3>1, <3>3
      <3>5. (current # None => Unused(current))'
        BY <3>1, <3>3
      <3>6. \A c \in Conns : InTable(c) => InTable(c)'
        BY <3>1
      <3>7. (late \/ (NoFailure /\ \A c \in Conns : InTable(c)))'
        BY <3>1, <3>6
      <3> QED
        BY <3>1, <3>2, <3>4, <3>5, <3>7
    <2> QED
      BY <2>1, <2>2
  <1>7. CASE fail
    <2>1. CASE loop = "executing"
      <3>1. late
        BY <1>7, <2>1 DEF fail
      <3> QED
        BY <1>7, <2>1, <3>1 DEF fail, connVars, history
    <2>2. CASE loop # "executing"
      BY <1>7, <2>2 DEF fail, connVars, history
    <2> QED
      BY <2>1, <2>2
  <1>8. CASE rearm
    BY <1>8 DEF rearm, connVars, history
  <1>9. ASSUME NEW c \in Conns, GoesIdle(c) PROVE UdpInv'
    BY <1>9 DEF GoesIdle, taskVars, history
  <1>10. ASSUME NEW c \in Conns, updateActivity(c) PROVE UdpInv'
    BY <1>10 DEF updateActivity, taskVars, history
  <1>11. ASSUME NEW c \in Conns, ProcessReturns(c) PROVE UdpInv'
    BY <1>11 DEF ProcessReturns, connVars, taskVars, history
  <1>12. ASSUME NEW c \in Conns, Close(c) PROVE UdpInv'
    BY <1>12 DEF Close, taskVars, history
  <1>13. ASSUME NEW c \in Conns, removeConn(c) PROVE UdpInv'
    <2>1. done[c] /\ id[c] \in Ids
      BY <1>13 DEF removeConn
    <2>2. \A d \in Conns : late' \/ (InTable(d) => InTable(d)')
      BY <1>13, <2>1, <1>0 DEF removeConn, connVars
    <2> QED
      BY <1>13, <2>1, <2>2, <1>0 DEF removeConn, connVars, taskVars
  <1>14. CASE UNCHANGED vars
    BY <1>14 DEF vars, connVars, taskVars, history
  <1> QED
    BY <1>1, <1>2, <1>3, <1>4, <1>5, <1>6, <1>7, <1>8, <1>9, <1>10, <1>11,
       <1>12, <1>13, <1>14 DEF Next, Task, Ending

LEMMA UdpInvariant == Spec => []UdpInv
  <1> QED
    BY UdpInit, UdpStep, PTL DEF Spec

\* The table, the loop, the task and the goroutines of the udp worker are well
\* typed, and the task runs exactly while Periodic.running says so.
THEOREM TypeCorrect == Spec => []TypeOK
  <1>1. UdpInv => TypeOK
    BY DEF UdpInv
  <1> QED
    BY <1>1, UdpInvariant, PTL

\* Removal by id (removeConn) is all that can go wrong: without it a source has
\* one connection, which its packets find, and common.Must never panics.
THEOREM OnlyRemovalByIdHarms == Spec => []OnlyLateRemovalsHarm
  <1>1. UdpInv => OnlyLateRemovalsHarm
    BY DEF UdpInv, InTable, OnlyLateRemovalsHarm
  <1> QED
    BY <1>1, UdpInvariant, PTL
=============================================================================
