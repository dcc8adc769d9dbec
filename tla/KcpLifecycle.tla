---------------------------- MODULE KcpLifecycle ----------------------------
(***************************************************************************)
(* transport/internet/kcp/connection.go: the life of one end of an mKCP     *)
(* connection.  Four threads change its state: the application's Close, the *)
(* goroutine that feeds Input, and the data and ping updaters, which run    *)
(* flush.  The state is an atomic word that each of them reads, decides on  *)
(* and stores without a lock: every read is a step here, and so is every    *)
(* store.                                                                  *)
(*                                                                         *)
(* The clock is coarse.  A timestamp is kept as its age in ticks; a flush   *)
(* that read the clock lag ticks ago computes age - lag, which is a huge    *)
(* uint32 when the timestamp is the younger one.  The peer is abstract: it  *)
(* goes through its states at its own pace and may vanish.                  *)
(***************************************************************************)
EXTENDS Naturals

CONSTANTS
  PeerTerminatingTime,  \* 4 s in the code; all times in ticks
  TerminatingTime,      \* 8 s
  ReadyToCloseTime,     \* 15 s
  SilenceTime,          \* 30 s
  Updaters,             \* {"data", "ping"} in the code
  MaxLag                \* bound: ticks within one flush

Times == {PeerTerminatingTime, TerminatingTime, ReadyToCloseTime, SilenceTime}

ASSUME LifecycleAssumption == Times \subseteq Nat /\ MaxLag \in Nat /\ Updaters \subseteq {"data", "ping"}

States == {"Active", "ReadyToClose", "PeerClosed", "Terminating", "PeerTerminating", "Terminated"}
Threads == Updaters \cup {"app", "input"}
Packets == {"plain", "close", "terminate"}   \* no option, SegmentOptionClose, CommandTerminate

VARIABLES
  state,
  stateAge,     \* time since stateBeginTime
  silence,      \* time since lastIncomingTime
  pending,      \* the sending window holds segments
  pc,           \* of each thread
  target,       \* the state a thread is about to store
  after,        \* where it goes on after SetState
  lag,          \* of each updater: time since flush read the clock
  packet,       \* the packet Input handles
  release,      \* "no", "due" when Terminate is started, "done" when it ran
  closed,       \* the application's Close has returned
  said,         \* the kinds of packets the peer has sent so far
  gone,         \* the peer vanished, and what it sent is lost
  told          \* the peer may have learnt that this end closes

vars == <<state, stateAge, silence, pending, pc, target, after, lag, packet, release, closed,
          said, gone, told>>
clock == <<stateAge, silence, lag>>
mind  == <<release, closed>>
world == <<said, gone, told>>

Oldest == CHOOSE m \in Times : \A t \in Times : t <= m
Huge == Oldest + 1            \* more than every time: what an underflow looks like
Elapsed(age, u) == IF age >= lag[u] THEN age - lag[u] ELSE Huge

Goto(t, where) == pc' = [pc EXCEPT ![t] = where]

-----------------------------------------------------------------------------
(* SetState(s): store the state, then the timestamp and the rest. *)

\* Thread t has decided: it will store s, then go on at where.
Call(t, s, where) ==
  /\ pc' = [pc EXCEPT ![t] = "store"]
  /\ target' = [target EXCEPT ![t] = s]
  /\ after' = [after EXCEPT ![t] = where]

Skip(t, where) == Goto(t, where) /\ UNCHANGED <<target, after>>

\* A bug: SetState forgets its second half.
StoreOnly(t) ==
  /\ pc[t] = "store"
  /\ state' = target[t]
  /\ Goto(t, after[t])
  /\ UNCHANGED <<clock, pending, target, after, packet, mind, world>>

Store(t) ==
  /\ pc[t] = "store"
  /\ state' = target[t]
  /\ Goto(t, "stamp")
  /\ UNCHANGED <<clock, pending, target, after, packet, mind, world>>

\* CloseWrite clears the sending window; the last state starts Terminate.
Stamp(t) ==
  /\ pc[t] = "stamp"
  /\ stateAge' = 0
  /\ pending' = (pending /\ target[t] = "ReadyToClose")
  /\ release' = IF target[t] = "Terminated" /\ release = "no" THEN "due" ELSE release
  /\ Goto(t, after[t])
  /\ target' = [target EXCEPT ![t] = "Active"]
  /\ after' = [after EXCEPT ![t] = "idle"]
  /\ closed' = (closed \/ t = "app")
  /\ UNCHANGED <<state, silence, lag, packet, world>>

\* Terminate, in a goroutine of its own; a second one changes nothing.
Terminate ==
  /\ release = "due"
  /\ release' = "done"
  /\ pending' = FALSE
  /\ UNCHANGED <<state, clock, pc, target, after, packet, closed, world>>

\* A bug: a close is the end at once.
CloseTargetAtOnce ==
  IF state \in {"Active", "PeerClosed", "PeerTerminating"} THEN {"Terminated"} ELSE {}

\* The switch of Close: it answers a local close, or does nothing.
CloseTarget ==
  CASE state = "Active"          -> {"ReadyToClose"}
    [] state = "PeerClosed"      -> {"Terminating"}
    [] state = "PeerTerminating" -> {"Terminated"}
    [] OTHER                     -> {}

\* Close, called by t, which goes on at where.
Close(t, where) ==
  \/ \E s \in CloseTarget : Call(t, s, where)
  \/ CloseTarget = {} /\ Skip(t, where)

-----------------------------------------------------------------------------
(* The application *)

AppCloses ==
  /\ pc["app"] = "idle"
  /\ Close("app", "idle")
  /\ closed' = (closed \/ CloseTarget = {})
  /\ UNCHANGED <<state, clock, pending, packet, release, world>>

\* Write pushes a segment; the sending worker refuses when it is released.
AppWrites ==
  /\ state = "Active" /\ ~ pending /\ release # "done"
  /\ pending' = TRUE
  /\ UNCHANGED <<state, clock, pc, target, after, packet, mind, world>>

-----------------------------------------------------------------------------
(* Input: one packet at a time *)

InputBegins ==
  /\ pc["input"] = "idle"
  /\ ~ gone
  /\ packet' \in said
  /\ silence' = 0
  /\ Goto("input", "option")
  /\ UNCHANGED <<state, stateAge, pending, target, after, lag, mind, world>>

\* HandleOption: OnPeerClosed.
HandleOption ==
  /\ pc["input"] = "option"
  /\ \/ packet = "close" /\ state = "ReadyToClose" /\ Call("input", "Terminating", "command")
     \/ packet = "close" /\ state = "Active" /\ Call("input", "PeerClosed", "command")
     \/ (packet # "close" \/ state \notin {"ReadyToClose", "Active"}) /\ Skip("input", "command")
  /\ UNCHANGED <<state, clock, pending, packet, mind, world>>

\* The switch on CommandTerminate.
TerminateTarget ==
  CASE state \in {"Active", "PeerClosed"} -> {"PeerTerminating"}
    [] state = "ReadyToClose"             -> {"Terminating"}
    [] state = "Terminating"              -> {"Terminated"}
    [] OTHER                              -> {}

HandleCommand ==
  /\ pc["input"] = "command"
  /\ \/ packet = "terminate" /\ \E s \in TerminateTarget : Call("input", s, "process")
     \/ (packet # "terminate" \/ TerminateTarget = {}) /\ Skip("input", "process")
  /\ UNCHANGED <<state, clock, pending, packet, mind, world>>

\* The acknowledgements of the packet may empty the sending window.
ProcessSegment ==
  /\ pc["input"] = "process"
  /\ pending' \in {pending, FALSE}
  /\ packet' = "plain"
  /\ Skip("input", "idle")
  /\ UNCHANGED <<state, clock, mind, world>>

-----------------------------------------------------------------------------
(* The updaters: run calls flush while shouldContinue *)

\* A bug: pinging stops when terminating starts, as sending data does.
ShouldContinueAlike(u) == state \notin {"Terminating", "Terminated"}

ShouldContinue(u) == state # "Terminated" /\ (u = "data" => state # "Terminating")

\* flush reads the clock.
FlushBegins(u) ==
  /\ pc[u] = "idle"
  /\ ShouldContinue(u)
  /\ lag' = [lag EXCEPT ![u] = 0]
  /\ Skip(u, "silence")
  /\ UNCHANGED <<state, stateAge, silence, pending, packet, mind, world>>

\* Nothing was heard for thirty seconds.
Silent(u) == state = "Active" /\ Elapsed(silence, u) >= SilenceTime

CheckSilence(u) ==
  /\ pc[u] = "silence"
  /\ \/ state = "Terminated" /\ Skip(u, "idle")
     \/ Silent(u) /\ Skip(u, "close")
     \/ state # "Terminated" /\ ~ Silent(u) /\ Skip(u, "sent")
  /\ UNCHANGED <<state, clock, pending, packet, mind, world>>

CloseSilent(u) ==
  /\ pc[u] = "close"
  /\ Close(u, "sent")
  /\ UNCHANGED <<state, clock, pending, packet, mind, world>>

\* Everything is sent and acknowledged: go ahead.
CheckSent(u) ==
  /\ pc[u] = "sent"
  /\ IF state = "ReadyToClose" /\ ~ pending
       THEN Call(u, "Terminating", "terminating") ELSE Skip(u, "terminating")
  /\ UNCHANGED <<state, clock, pending, packet, mind, world>>

\* The terminate command was repeated for eight seconds.
Lingered(u) == Elapsed(stateAge, u) > TerminatingTime

\* While terminating, flush sends the command and does nothing else.
CheckTerminating(u) ==
  /\ pc[u] = "terminating"
  /\ \/ state = "Terminating" /\ Lingered(u) /\ Call(u, "Terminated", "idle")
     \/ state = "Terminating" /\ ~ Lingered(u) /\ Skip(u, "idle")
     \/ state # "Terminating" /\ Skip(u, "waiting")
  /\ told' = (told \/ state = "Terminating")
  /\ UNCHANGED <<state, clock, pending, packet, mind, said, gone>>

CheckPeerTerminating(u) ==
  /\ pc[u] = "waiting"
  /\ IF state = "PeerTerminating" /\ Elapsed(stateAge, u) > PeerTerminatingTime
       THEN Call(u, "Terminating", "late") ELSE Skip(u, "late")
  /\ UNCHANGED <<state, clock, pending, packet, mind, world>>

\* The data was not acknowledged within fifteen seconds.
Late(u) == state = "ReadyToClose" /\ Elapsed(stateAge, u) > ReadyToCloseTime

CheckLate(u) ==
  /\ pc[u] = "late"
  /\ IF Late(u) THEN Call(u, "Terminating", "flush") ELSE Skip(u, "flush")
  /\ UNCHANGED <<state, clock, pending, packet, mind, world>>

\* Segments go out; they tell the peer that this end is closed, if it is.
FlushSegments(u) ==
  /\ pc[u] = "flush"
  /\ told' = (told \/ state = "ReadyToClose")
  /\ Skip(u, "idle")
  /\ UNCHANGED <<state, clock, pending, packet, mind, said, gone>>

UpdaterStep(u) ==
  \/ FlushBegins(u) \/ CheckSilence(u) \/ CloseSilent(u) \/ CheckSent(u)
  \/ CheckTerminating(u) \/ CheckPeerTerminating(u) \/ CheckLate(u) \/ FlushSegments(u)
  \/ Store(u) \/ Stamp(u)

InputStep == HandleOption \/ HandleCommand \/ ProcessSegment \/ Store("input") \/ Stamp("input")

AppStep == Store("app") \/ Stamp("app")

-----------------------------------------------------------------------------
(* The peer, the network and the clock *)

\* The peer starts to send its option or command; it terminates without having
\* closed first only when it heard that this end closes.  What it ever said may
\* arrive late, and again.
PeerMoves ==
  /\ ~ gone
  /\ \/ "terminate" \notin said /\ said' = said \cup {"close"} /\ UNCHANGED gone
     \/ ("close" \in said \/ told) /\ said' = said \cup {"terminate"} /\ UNCHANGED gone
     \/ gone' = TRUE /\ UNCHANGED said
  /\ UNCHANGED <<state, clock, pending, pc, target, after, packet, mind, told>>

\* Ages beyond every comparison are all the same.
Older(age, time) == IF age < time + MaxLag THEN age + 1 ELSE age

\* The silence is only ever looked at in an active connection.
Tick ==
  /\ \A u \in Updaters : pc[u] # "idle" => lag[u] < MaxLag
  /\ stateAge' = Older(stateAge, Oldest + 1)
  /\ silence' = IF state = "Active" THEN Older(silence, SilenceTime) ELSE 0
  /\ lag' = [u \in Updaters |-> IF pc[u] = "idle" THEN 0 ELSE lag[u] + 1]
  /\ UNCHANGED <<state, pending, pc, target, after, packet, mind, world>>

-----------------------------------------------------------------------------
Init ==
  /\ state = "Active" /\ stateAge = 0 /\ silence = 0 /\ pending = FALSE
  /\ pc = [t \in Threads |-> "idle"] /\ target = [t \in Threads |-> "Active"]
  /\ after = [t \in Threads |-> "idle"] /\ lag = [u \in Updaters |-> 0]
  /\ packet = "plain" /\ release = "no" /\ closed = FALSE
  /\ said = {"plain"} /\ gone = FALSE /\ told = FALSE

Next ==
  \/ AppCloses \/ AppWrites \/ AppStep
  \/ InputBegins \/ InputStep
  \/ \E u \in Updaters : UpdaterStep(u)
  \/ Terminate
  \/ PeerMoves \/ Tick

Spec == Init /\ [][Next]_vars

\* Goroutines run, the ping updater's ticker ticks and time passes.  Nothing is
\* asked of the peer, the network or the application.
Fairness ==
  /\ \A u \in Updaters : WF_vars(UpdaterStep(u) /\ (u = "ping" \/ pc[u] # "idle"))
  /\ WF_vars(InputStep) /\ WF_vars(AppStep) /\ WF_vars(Terminate)
  /\ SF_vars(Tick)

LiveSpec == Spec /\ Fairness

-----------------------------------------------------------------------------
(* Properties *)

\* Every variable has its type, and a thread is about to store a state only
\* while it is in SetState.
TypeOK ==
  /\ state \in States /\ target \in [Threads -> States]
  /\ stateAge \in 0 .. Huge + MaxLag /\ silence \in 0 .. SilenceTime + MaxLag /\ lag \in [Updaters -> 0 .. MaxLag]
  /\ {pending, closed, gone, told} \subseteq BOOLEAN
  /\ pc \in [Threads -> {"idle", "store", "stamp", "option", "command", "process", "silence",
                         "close", "sent", "terminating", "waiting", "late", "flush"}]
  /\ after \in [Threads -> {"idle", "command", "process", "sent", "terminating", "late", "flush"}]
  /\ \A t \in Threads : target[t] # "Active" <=> pc[t] \in {"store", "stamp"}
  /\ packet \in Packets /\ said \subseteq Packets
  /\ release \in {"no", "due", "done"}

\* Terminate is started only for a connection that ended: never while the
\* application may still write, and never behind the back of the peer, which has
\* said that it closes or may know that this end does, even if it fell silent.
ReleasedIsOver ==
  release # "no" => state # "Active" /\ (told \/ said # {"plain"})

\* A connection that was closed, that terminates or whose peer does is released
\* in the end, whatever the peer and the network do and however the threads
\* race, unless the peer's close is stored over that state, which was read
\* before (connection.go:569, 632-651); and a peer that vanishes is noticed
\* (connection.go:629).
ConnectionsEnd ==
  /\ (closed \/ state \in {"Terminating", "PeerTerminating"})
       ~> (release = "done" \/ state = "PeerClosed")
  /\ gone ~> state # "Active"
=============================================================================
