------------------------- MODULE KcpConnectionProofs ------------------------
(***************************************************************************)
(* Proofs about KcpListener, for every set of ids and of connections, and   *)
(* about KcpLifecycle, the life of one end of a connection, for all its     *)
(* times and updaters.                                                     *)
(***************************************************************************)
EXTENDS KcpListener, KcpLifecycle, TLAPS

(***************************************************************************)
(* TypeOK bounds the goroutines that are to run Terminate, which takes that *)
(* each end starts one and the listener's Close one more.                   *)
(***************************************************************************)
Counted ==
  /\ id \in [Made -> Ids] /\ due \in [Conns -> Nat]
  /\ \A c \in Conns : due[c] <= ends[c] + (IF open THEN 0 ELSE 1)
  /\ \A c \in Conns : due[c] > 0 \/ ends[c] > 0 => c \in Made

(***************************************************************************)
(* While every connection ends once and the listener is open, a connection  *)
(* whose Terminate is still to come holds its place in the table, so that   *)
(* no other connection of its peer can be there when it comes.              *)
(***************************************************************************)
PlaceHeld ==
  open /\ (\A c \in Made : ends[c] <= 1) =>
    \A c \in Made : due[c] > 0 \/ ends[c] = 0 => sessions[id[c]] = c

ListenerInv == TableTypeOK /\ Counted /\ ReleasedNotFed /\ PlaceHeld

LEMMA ListenerInit == TableInit => ListenerInv
  BY ListenerAssumption
     DEF TableInit, ListenerInv, TableTypeOK, Counted, ReleasedNotFed, PlaceHeld, Made

LEMMA ListenerStep == ListenerInv /\ [TableNext]_tableVars => ListenerInv'
  <1> SUFFICES ASSUME ListenerInv, [TableNext]_tableVars
               PROVE  ListenerInv'
    OBVIOUS
  <1> USE ListenerAssumption DEF ListenerInv, TableTypeOK, Counted, ReleasedNotFed, Made
  <1>1. ASSUME NEW i \in Ids, OnReceive(i) PROVE ListenerInv'
    <2>1. PICK c \in Conns \ Made :
            /\ sessions[i] = NoConn
            /\ sessions' = [sessions EXCEPT ![i] = c]
            /\ id' = [d \in Made \cup {c} |-> IF d = c THEN i ELSE id[d]]
            /\ UNCHANGED <<ends, due, released, open>>
      BY <1>1 DEF OnReceive
    <2>2. Made' = Made \cup {c} /\ id'[c] = i /\ \A d \in Made : id'[d] = id[d]
      BY <2>1
    <2>3. \A j \in Ids : sessions[j] # c
      BY <2>1
    <2>4. \A j \in Ids : sessions'[j] = IF j = i THEN c ELSE sessions[j]
      BY <2>1
    <2>5. TableTypeOK' /\ ReleasedNotFed'
      BY <2>1, <2>2, <2>3, <2>4
    <2>6. Counted'
      BY <2>1, <2>2
    <2>7. PlaceHeld'
      <3>1. SUFFICES ASSUME open', \A d \in Made' : ends'[d] <= 1,
                            NEW d \in Made', due'[d] > 0 \/ ends'[d] = 0
                     PROVE  sessions'[id'[d]] = d
        BY DEF PlaceHeld
      <3>2. CASE d = c
        BY <2>2, <2>4, <3>2
      <3>3. CASE d # c
        <4>1. d \in Made /\ sessions[id[d]] = d
          BY <2>1, <2>2, <3>1, <3>3 DEF PlaceHeld
        <4> QED
          BY <2>1, <2>2, <2>4, <4>1
      <3> QED
        BY <3>2, <3>3
    <2> QED
      BY <2>5, <2>6, <2>7
  <1>2. ASSUME NEW c \in Conns, End(c) PROVE ListenerInv'
    <2>1. TableTypeOK' /\ ReleasedNotFed' /\ Counted'
      BY <1>2 DEF End
    <2>2. PlaceHeld'
      BY <1>2 DEF End, PlaceHeld
    <2> QED
      BY <2>1, <2>2
  <1>3. ASSUME NEW c \in Conns, TerminateConn(c) PROVE ListenerInv'
    <2>1. /\ c \in Made /\ due[c] \in Nat /\ due[c] > 0 /\ id[c] \in Ids
          /\ due' = [due EXCEPT ![c] = @ - 1]
          /\ sessions' = [sessions EXCEPT ![id[c]] = NoConn]
          /\ released' = released \cup {c}
          /\ UNCHANGED <<id, ends, open>>
      BY <1>3 DEF TerminateConn, Remove
    <2>2. \A j \in Ids : sessions'[j] = IF j = id[c] THEN NoConn ELSE sessions[j]
      BY <2>1
    <2>3. \A j \in Ids : sessions'[j] # c
      BY <2>1, <2>2
    <2>4. TableTypeOK' /\ Counted'
      BY <2>1, <2>2
    <2>5. ReleasedNotFed'
      BY <2>1, <2>2, <2>3
    <2>6. PlaceHeld'
      <3>1. SUFFICES ASSUME open', \A d \in Made' : ends'[d] <= 1,
                            NEW d \in Made', due'[d] > 0 \/ ends'[d] = 0
                     PROVE  sessions'[id'[d]] = d
        BY DEF PlaceHeld
      <3>2. d \in Made /\ d \in Conns /\ d # c
        BY <2>1, <3>1
      <3>3. sessions[id[d]] = d /\ sessions[id[c]] = c
        BY <2>1, <3>1, <3>2 DEF PlaceHeld
      <3> QED
        BY <2>1, <2>2, <3>2, <3>3
    <2> QED
      BY <2>4, <2>5, <2>6
  <1>4. ASSUME CloseListener PROVE ListenerInv'
    <2>1. open /\ open' = FALSE /\ UNCHANGED <<sessions, id, ends, released>>
      BY <1>4 DEF CloseListener
    <2>2. ASSUME NEW c \in Conns
          PROVE  \/ due'[c] = due[c]
                 \/ c \in Made /\ due'[c] = due[c] + 1
      <3>1. due'[c] = IF \E i \in Ids : sessions[i] = c THEN due[c] + 1 ELSE due[c]
        BY <1>4 DEF CloseListener
      <3>2. ASSUME NEW i \in Ids, sessions[i] = c PROVE c \in Made
        BY <3>2
      <3> QED
        BY <3>1, <3>2
    <2>3. \A c \in Conns : due[c] \in Nat /\ due[c] <= ends[c] /\ ends[c] \in 0 .. 2
      BY <2>1
    <2>4. \A c \in Conns : due'[c] \in 0 .. 3 /\ due'[c] <= ends[c] + 1
      BY <2>2, <2>3
    <2>5. due' \in [Conns -> 0 .. 3] /\ due' \in [Conns -> Nat]
      <3>1. due' = [c \in Conns |-> due'[c]]
        BY <1>4 DEF CloseListener
      <3> QED
        BY <2>4, <3>1
    <2>6. \A c \in Conns : due'[c] > 0 => c \in Made
      BY <2>2, <2>3, <2>4
    <2>7. TableTypeOK' /\ ReleasedNotFed'
      BY <2>1, <2>5
    <2>8. Counted'
      BY <2>1, <2>4, <2>5, <2>6
    <2> QED
      BY <2>1, <2>7, <2>8 DEF PlaceHeld
  <1>5. ASSUME UNCHANGED tableVars PROVE ListenerInv'
    BY <1>5 DEF tableVars, PlaceHeld
  <1> QED
    BY <1>1, <1>2, <1>3, <1>4, <1>5 DEF TableNext

LEMMA ListenerInvariant == TableSpec => []ListenerInv
  <1> QED
    BY ListenerInit, ListenerStep, PTL DEF TableSpec

\* A packet never reaches a connection whose workers are released, however
\* often Terminate runs and whatever the peers send.
THEOREM NeverFedAfterRelease == TableSpec => []ReleasedNotFed
  <1>1. ListenerInv => ReleasedNotFed
    BY DEF ListenerInv
  <1> QED
    BY <1>1, ListenerInvariant, PTL

\* As long as connections end once and the listener is open, removal by id
\* removes the right connection.
THEOREM LiveConnectionKept == TableSpec => []OneConnectionPerPeer
  <1>1. ListenerInv => OneConnectionPerPeer
    BY DEF ListenerInv, PlaceHeld, OneConnectionPerPeer
  <1> QED
    BY <1>1, ListenerInvariant, PTL

-----------------------------------------------------------------------------
(***************************************************************************)
(* The life of one end of a connection: KcpLifecycle.                      *)
(*                                                                         *)
(* ReleasedIsOver looks at the end of a life; what makes it true is decided *)
(* steps earlier, by a thread that read a state which another thread may    *)
(* have overwritten since.  The invariant therefore speaks of what each     *)
(* thread is about to store: a peer that ends must have been heard, and     *)
(* Terminated needs a peer that was heard or told.                         *)
(***************************************************************************)
Places == {"idle", "store", "stamp", "option", "command", "process", "silence",
           "close", "sent", "terminating", "waiting", "late", "flush"}
Returns == {"idle", "command", "process", "sent", "terminating", "late", "flush"}

Threaded ==
  /\ state \in States /\ target \in [Threads -> States]
  /\ pc \in [Threads -> Places] /\ after \in [Threads -> Returns]
  /\ \A t \in Threads : target[t] # "Active" <=> pc[t] \in {"store", "stamp"}

\* The peer has said that it closes; it has, or it may know that this end does.
Spoken == said # {"plain"}
Known == told \/ Spoken

\* The reason there is for the state s.
Reason(s) ==
  /\ s = "PeerTerminating" => Spoken
  /\ s = "Terminated" => Known

Reasons ==
  /\ packet # "plain" => Spoken
  /\ Reason(state)
  /\ \A t \in Threads : pc[t] \in {"store", "stamp"} => Reason(target[t])

\* A thread that has stored its state has left Active behind, for Active is
\* never stored.
NoWayBack ==
  \A t \in Threads : pc[t] = "stamp" => state # "Active"

LifeInv == Threaded /\ Reasons /\ NoWayBack /\ ReleasedIsOver

LEMMA LifeInit == Init => LifeInv
  BY DEF Init, Known, Spoken, States, Places, Returns, LifeInv, Threaded, Reasons,
       Reason, NoWayBack, ReleasedIsOver

LEMMA LifeStep == LifeInv /\ [Next]_vars => LifeInv'
  <1> SUFFICES ASSUME LifeInv, [Next]_vars PROVE LifeInv'
    OBVIOUS
  <1> USE DEF LifeInv, Threaded, States, Places, Returns, Reasons, Reason, NoWayBack,
       ReleasedIsOver, Spoken, Known, clock, mind, world
  <1>1. ASSUME NEW t \in Threads, Store(t) PROVE LifeInv'
    BY <1>1 DEF Store, Goto
  <1>2. ASSUME NEW t \in Threads, Stamp(t) PROVE LifeInv'
    BY <1>2 DEF Stamp, Goto
  <1>3. CASE AppCloses
    BY <1>3 DEF AppCloses, Close, Call, Skip, Goto, CloseTarget,
         Threads
  <1>4. CASE AppWrites
    BY <1>4 DEF AppWrites
  <1>5. CASE InputBegins
    BY <1>5 DEF InputBegins, Goto, Threads
  <1>6. CASE HandleOption
    BY <1>6 DEF HandleOption, Call, Skip, Goto, Threads
  <1>7. CASE HandleCommand
    BY <1>7 DEF HandleCommand, TerminateTarget, Call, Skip, Goto,
         Threads
  <1>8. CASE ProcessSegment
    BY <1>8 DEF ProcessSegment, Skip, Goto, Threads
  <1>9. ASSUME NEW u \in Updaters, UpdaterStep(u) PROVE LifeInv'
    <2> USE DEF Call, Skip, Goto, Threads
    <2>1. CASE FlushBegins(u)
      BY <2>1 DEF FlushBegins
    <2>2. CASE CheckSilence(u)
      BY <2>2 DEF CheckSilence
    <2>3. CASE CloseSilent(u)
      BY <2>3 DEF CloseSilent, Close, CloseTarget
    <2>4. CASE CheckSent(u)
      BY <2>4 DEF CheckSent
    <2>5. CASE CheckTerminating(u)
      <3>1. CASE state = "Terminating" /\ Lingered(u) /\ Call(u, "Terminated", "idle")
        BY <2>5, <3>1 DEF CheckTerminating
      <3>2. CASE state = "Terminating" /\ Skip(u, "idle")
        BY <2>5, <3>2 DEF CheckTerminating
      <3>3. CASE state # "Terminating" /\ Skip(u, "waiting")
        BY <2>5, <3>3 DEF CheckTerminating
      <3>4. QED
        BY <2>5, <3>1, <3>2, <3>3 DEF CheckTerminating
    <2>6. CASE CheckPeerTerminating(u)
      BY <2>6 DEF CheckPeerTerminating
    <2>7. CASE CheckLate(u)
      BY <2>7 DEF CheckLate
    <2>8. CASE FlushSegments(u)
      BY <2>8 DEF FlushSegments
    <2>9. QED
      BY <1>1, <1>2, <1>9, <2>1, <2>2, <2>3, <2>4, <2>5, <2>6, <2>7, <2>8 DEF UpdaterStep
  <1>10. CASE Terminate
    BY <1>10 DEF Terminate
  <1>11. CASE PeerMoves
    BY <1>11 DEF PeerMoves
  <1>12. CASE Tick
    BY <1>12 DEF Tick
  <1>13. CASE UNCHANGED vars
    BY <1>13 DEF vars
  <1>14. QED
    BY <1>1, <1>2, <1>3, <1>4, <1>5, <1>6, <1>7, <1>8, <1>9, <1>10, <1>11, <1>12, <1>13
       DEF Next, AppStep, InputStep, Threads

\* What the clock counts stays within its bounds.
LEMMA OldestTyped == Oldest \in Nat /\ \A m \in Times : m <= Oldest
  <1>1. \E m \in Times : \A t \in Times : t <= m
    BY LifecycleAssumption DEF Times
  <1>2. Oldest \in Times /\ \A t \in Times : t <= Oldest
    BY <1>1 DEF Oldest
  <1>3. QED
    BY <1>2, LifecycleAssumption

Clocked ==
  /\ stateAge \in 0 .. Huge + MaxLag /\ silence \in 0 .. SilenceTime + MaxLag
  /\ lag \in [Updaters -> 0 .. MaxLag]
  /\ {pending, closed, gone, told} \subseteq BOOLEAN
  /\ packet \in Packets /\ said \subseteq Packets
  /\ release \in {"no", "due", "done"}

LEMMA Bounds == Huge \in Nat /\ SilenceTime \in Nat /\ MaxLag \in Nat
  BY OldestTyped, LifecycleAssumption DEF Huge, Times

LEMMA ClockInit == Init => Clocked
  <1> SUFFICES ASSUME Init PROVE Clocked
    OBVIOUS
  <1>1. 0 \in 0 .. Huge + MaxLag /\ 0 \in 0 .. SilenceTime + MaxLag /\ 0 \in 0 .. MaxLag
    BY Bounds
  <1>2. lag \in [Updaters -> 0 .. MaxLag]
    BY <1>1 DEF Init
  <1>3. QED
    BY <1>1, <1>2 DEF Init, Clocked, Packets

LEMMA ClockStep == Clocked /\ Threaded /\ [Next]_vars => Clocked'
  <1> SUFFICES ASSUME Clocked, Threaded, [Next]_vars PROVE Clocked'
    OBVIOUS
  <1> USE DEF Clocked, clock, mind, world, Packets
  <1>1. ASSUME NEW t \in Threads, Store(t) PROVE Clocked'
    BY <1>1 DEF Store, Goto
  <1>2. ASSUME NEW t \in Threads, Stamp(t) PROVE Clocked'
    BY Bounds, <1>2 DEF Stamp, Goto
  <1>3. CASE AppCloses
    BY <1>3 DEF AppCloses
  <1>4. CASE AppWrites
    BY <1>4 DEF AppWrites
  <1>5. CASE InputBegins
    BY Bounds, <1>5 DEF InputBegins, Goto, Threads
  <1>6. CASE HandleOption
    BY <1>6 DEF HandleOption
  <1>7. CASE HandleCommand
    BY <1>7 DEF HandleCommand
  <1>8. CASE ProcessSegment
    BY <1>8 DEF ProcessSegment
  <1>9. ASSUME NEW u \in Updaters, UpdaterStep(u) PROVE Clocked'
    <2>1. CASE FlushBegins(u)
      BY Bounds, <2>1 DEF FlushBegins
    <2>2. CASE CheckSilence(u)
      BY <2>2 DEF CheckSilence
    <2>3. CASE CloseSilent(u)
      BY <2>3 DEF CloseSilent
    <2>4. CASE CheckSent(u)
      BY <2>4 DEF CheckSent
    <2>5. CASE CheckTerminating(u)
      BY <2>5 DEF CheckTerminating
    <2>6. CASE CheckPeerTerminating(u)
      BY <2>6 DEF CheckPeerTerminating
    <2>7. CASE CheckLate(u)
      BY <2>7 DEF CheckLate
    <2>8. CASE FlushSegments(u)
      BY <2>8 DEF FlushSegments
    <2>9. QED
      BY <1>1, <1>2, <1>9, <2>1, <2>2, <2>3, <2>4, <2>5, <2>6, <2>7, <2>8 DEF UpdaterStep,
           Threads
  <1>10. CASE Terminate
    BY <1>10 DEF Terminate
  <1>11. CASE PeerMoves
    BY <1>11 DEF PeerMoves
  <1>12. CASE Tick
    <2>1. \A age \in Nat, time \in Nat :
            age <= time + MaxLag => Older(age, time) \in 0 .. time + MaxLag
      BY Bounds DEF Older
    <2>2. stateAge' \in 0 .. Huge + MaxLag
      BY Bounds, <1>12, <2>1, OldestTyped DEF Tick, Huge
    <2>3. silence' \in 0 .. SilenceTime + MaxLag
      BY Bounds, <1>12 DEF Tick, Older
    <2>4. lag' \in [Updaters -> 0 .. MaxLag]
      <3>1. \A u \in Updaters : (IF pc[u] = "idle" THEN 0 ELSE lag[u] + 1) \in 0 .. MaxLag
        BY Bounds, <1>12 DEF Tick
      <3>2. QED
        BY <1>12, <3>1 DEF Tick
    <2>5. QED
      BY <1>12, <2>2, <2>3, <2>4 DEF Tick
  <1>13. CASE UNCHANGED vars
    BY <1>13 DEF vars
  <1>14. QED
    BY <1>1, <1>2, <1>3, <1>4, <1>5, <1>6, <1>7, <1>8, <1>9, <1>10, <1>11, <1>12, <1>13
       DEF Next, AppStep, InputStep, Threads

LEMMA LifeHolds == Spec => []LifeInv
  BY LifeInit, LifeStep, PTL DEF Spec

\* However SetState's stores race with the decisions of Close, Input and flush,
\* the connection's variables are well typed and a thread is about to store a
\* state only while it is in SetState, for every choice of the four times.
THEOREM LifeTyped == Spec => []TypeOK
  <1>1. LifeInv /\ Clocked /\ [Next]_vars => Clocked'
    BY ClockStep DEF LifeInv
  <1>2. LifeInv /\ Clocked => TypeOK
    BY DEF LifeInv, Threaded, Clocked, TypeOK, Places, Returns
  <1>3. QED
    BY <1>1, <1>2, ClockInit, LifeHolds, PTL DEF Spec

\* Terminate releases the workers and the socket only of a connection that has
\* left Active and whose peer closed or may have learnt that this end does,
\* whatever states the threads store over each other.
THEOREM OverWhenReleased == Spec => []ReleasedIsOver
  BY LifeHolds, PTL DEF LifeInv

=============================================================================
