------------------------- MODULE ActivityTimerProofs -------------------------
(***************************************************************************)
(* Proofs about ActivityTimer, for all timeouts.                            *)
(***************************************************************************)
EXTENDS ActivityTimer, TLAPS

(***************************************************************************)
(* While no SetTimeout came midway, whatever is started, about to be        *)
(* started, due or looking for activity is the task the timer knows; a task *)
(* beyond that can only be about to find itself closed.                     *)
(***************************************************************************)
Known(c) ==
  caller[c] \in {"update", "start"} \/ running[c] \/ task[c] \notin {"none", "rearm"}
    => checkTask = c

(***************************************************************************)
(* Activity since the task last looked has left its token, or the time      *)
(* since the last activity covers what has gone of the interval.            *)
(***************************************************************************)
Quiet(c) ==
  /\ caller[c] = "start" => updated
  /\ task[c] = "armed" => updated \/ since + left[c] >= timeout[c]
  /\ task[c] \in {"check", "execute"} => updated \/ since >= timeout[c]
  /\ task[c] = "finish" => silence[c] >= timeout[c]

(***************************************************************************)
(* Where a caller is tells what its task can be doing, raced or not.        *)
(***************************************************************************)
InPlace(c) ==
  /\ caller[c] \notin {"starting", "returned"} => task[c] = "none" /\ ~running[c]
  /\ caller[c] \in {"replace", "update", "start", "starting"} => timeout[c] > 0
  /\ caller[c] = "finish" => timeout[c] = 0
  /\ checkTask = c => caller[c] \in {"update", "start", "starting", "returned"}
  /\ task[c] = "armed" => running[c]
  /\ left[c] <= timeout[c]

TimerInv ==
  /\ TypeOK
  /\ \A c \in Callers : InPlace(c)
  /\ ~raced => \A c \in Callers : Known(c) /\ Quiet(c)
  /\ CalledOnce /\ NotEarly

\* Where a caller can be, and what a task can be doing.
Places == {"before", "replace", "update", "start", "starting", "finish", "returned"}
States == {"none", "check", "execute", "finish", "rearm", "armed"}

LEMMA TimerInit == Init => TimerInv
<1> SUFFICES ASSUME Init PROVE TimerInv
  OBVIOUS
<1>1. timeout \in [Callers -> 0 .. Longest]
  BY TimeoutsAssumption DEF Init
<1>2. TypeOK
  <2>1. timeout \in Timeouts /\ updated \in BOOLEAN /\ onTimeout \in BOOLEAN
        /\ checkTask \in Callers \cup {None} /\ raced \in BOOLEAN
        /\ calls \in Nat /\ cause \in Callers \cup {None}
    BY DEF Init
  <2>2. /\ caller \in [Callers -> Places]
        /\ running \in [Callers -> BOOLEAN]
        /\ task \in [Callers -> States]
        /\ \A c \in Callers : task[c] = "none"
    BY DEF Init, Places, States
  <2>3. /\ left \in [Callers -> 0 .. Longest] /\ silence \in [Callers -> 0 .. Longest]
        /\ since \in 0 .. Longest
    BY TimeoutsAssumption DEF Init
  <2>. QED BY <2>1, <2>2, <2>3 DEF TypeOK, Places, States
<1>3. \A c \in Callers : InPlace(c) /\ Known(c) /\ Quiet(c)
  BY <1>1 DEF Init, InPlace, Known, Quiet, Callers, Copies, None
<1>4. CalledOnce /\ NotEarly
  BY DEF Init, CalledOnce, NotEarly
<1>. QED BY <1>2, <1>3, <1>4 DEF TimerInv

\* Close of a task ends its running and its timer, and touches no other.
LEMMA Closed ==
  ASSUME NEW k \in Callers \cup {None}, NEW does \in [Callers -> States],
         running \in [Callers -> BOOLEAN], PeriodicClose(k, does)
  PROVE  /\ running' \in [Callers -> BOOLEAN] /\ task' \in [Callers -> States]
         /\ \A d \in Callers : /\ running'[d] <=> running[d] /\ d # k
                               /\ d # k => task'[d] = does[d]
                               /\ task'[d] = does[d] \/ task'[d] = "none"
                               /\ d = k /\ does[d] = "armed" => task'[d] = "none"
<1>1. None \notin Callers
  BY DEF None, Callers, Copies
<1>2. CASE k = None
  BY <1>1, <1>2 DEF PeriodicClose
<1>3. CASE k \in Callers
  <2>1. running' = [running EXCEPT ![k] = FALSE]
    BY <1>1, <1>3 DEF PeriodicClose
  <2>2. task' = IF does[k] = "armed" THEN [does EXCEPT ![k] = "none"] ELSE does
    BY <1>1, <1>3 DEF PeriodicClose
  <2>. QED BY <1>3, <2>1, <2>2 DEF States
<1>. QED BY <1>2, <1>3

\* finish calls onTimeout or finds it gone.
LEMMA Cancelled ==
  ASSUME TimerInv, NEW c \in Callers, cancel(c)
  PROVE  calls' \in Nat /\ cause' \in Callers \cup {None} /\ onTimeout' \in BOOLEAN
<1>1. calls \in Nat /\ cause \in Callers \cup {None}
  BY DEF TimerInv, TypeOK
<1>2. CASE onTimeout
  <2>1. calls' = calls + 1 /\ cause' = c
    BY <1>2, Zenon DEF cancel
  <2>2. onTimeout' \in BOOLEAN
    BY Zenon DEF cancel
  <2>3. calls' \in Nat
    BY <1>1, <2>1
  <2>. QED BY <2>1, <2>2, <2>3
<1>3. CASE ~onTimeout
  BY <1>1, <1>3 DEF cancel
<1>. QED BY <1>2, <1>3

-----------------------------------------------------------------------------
(* Every action keeps the invariant. *)

LEMMA StartStep == ASSUME TimerInv, NEW c \in Callers, Start(c) PROVE TimerInv'
<1>1. TypeOK'
  BY DEF TimerInv, TypeOK, InPlace, Start, timer, history
<1>2. (\A d \in Callers : InPlace(d))'
  BY DEF TimerInv, TypeOK, InPlace, Start, timer
<1>3. (~raced => \A d \in Callers : Known(d) /\ Quiet(d))'
  BY DEF TimerInv, Known, Quiet, Start, timer, history
<1>4. (CalledOnce /\ NotEarly)'
  BY DEF TimerInv, CalledOnce, NotEarly, Start, timer, history
<1>. QED BY <1>1, <1>2, <1>3, <1>4 DEF TimerInv

LEMMA FireStep == ASSUME TimerInv, NEW c \in Callers, Fire(c) PROVE TimerInv'
<1>1. TypeOK'
  BY DEF TimerInv, TypeOK, Fire, timer, history
<1>2. (\A d \in Callers : InPlace(d))'
  BY DEF TimerInv, InPlace, Fire, timer
<1>3. (~raced => \A d \in Callers : Known(d) /\ Quiet(d))'
  BY DEF TimerInv, TypeOK, Known, Quiet, Fire, timer, history
<1>4. (CalledOnce /\ NotEarly)'
  BY DEF TimerInv, CalledOnce, NotEarly, Fire, timer, history
<1>. QED BY <1>1, <1>2, <1>3, <1>4 DEF TimerInv

LEMMA CheckClosedStep == ASSUME TimerInv, NEW c \in Callers, CheckClosed(c) PROVE TimerInv'
<1>1. TypeOK'
  BY DEF TimerInv, TypeOK, CheckClosed, Return, timer, history
<1>2. (\A d \in Callers : InPlace(d))'
  BY DEF TimerInv, TypeOK, InPlace, CheckClosed, Return, timer
<1>3. (~raced => \A d \in Callers : Known(d) /\ Quiet(d))'
  BY DEF TimerInv, TypeOK, Known, Quiet, CheckClosed, Return, timer, history
<1>4. (CalledOnce /\ NotEarly)'
  BY DEF TimerInv, CalledOnce, NotEarly, CheckClosed, Return, timer, history
<1>. QED BY <1>1, <1>2, <1>3, <1>4 DEF TimerInv

LEMMA RearmStep == ASSUME TimerInv, NEW c \in Callers, Rearm(c) PROVE TimerInv'
<1>1. TypeOK'
  BY TimeoutsAssumption DEF TimerInv, TypeOK, Rearm, Return, timer, history
<1>2. (\A d \in Callers : InPlace(d))'
  BY TimeoutsAssumption DEF TimerInv, TypeOK, InPlace, Rearm, Return, timer
<1>3. (~raced => \A d \in Callers : Known(d) /\ Quiet(d))'
  BY TimeoutsAssumption DEF TimerInv, TypeOK, Known, Quiet, Rearm, Return, timer, history
<1>4. (CalledOnce /\ NotEarly)'
  BY DEF TimerInv, CalledOnce, NotEarly, Rearm, Return, timer, history
<1>. QED BY <1>1, <1>2, <1>3, <1>4 DEF TimerInv

LEMMA UpdateStep == ASSUME TimerInv, NEW c \in Callers, Update(c) PROVE TimerInv'
<1>1. TypeOK'
  BY TimeoutsAssumption DEF TimerInv, TypeOK, Update, periods, history
<1>2. (\A d \in Callers : InPlace(d))'
  BY DEF TimerInv, InPlace, Update, periods
<1>3. (~raced => \A d \in Callers : Known(d) /\ Quiet(d))'
  BY DEF TimerInv, Known, Quiet, Update, periods, history
<1>4. (CalledOnce /\ NotEarly)'
  BY DEF TimerInv, CalledOnce, NotEarly, Update, history
<1>. QED BY <1>1, <1>2, <1>3, <1>4 DEF TimerInv

LEMMA checkStep == ASSUME TimerInv, NEW c \in Callers, check(c) PROVE TimerInv'
<1>1. TypeOK'
  BY DEF TimerInv, TypeOK, check
<1>2. (\A d \in Callers : InPlace(d))'
  BY DEF TimerInv, InPlace, check
<1>3. (~raced => \A d \in Callers : Known(d) /\ Quiet(d))'
  BY DEF TimerInv, TypeOK, InPlace, Known, Quiet, check
<1>4. (CalledOnce /\ NotEarly)'
  BY DEF TimerInv, Quiet, CalledOnce, NotEarly, check
<1>. QED BY <1>1, <1>2, <1>3, <1>4 DEF TimerInv

(***************************************************************************)
(* The three actions that close a task: `closes' is what that does to the   *)
(* tasks, `effect' what the action does besides.                           *)
(***************************************************************************)
LEMMA TaskFinishesStep == ASSUME TimerInv, NEW c \in Callers, TaskFinishes(c) PROVE TimerInv'
<1> DEFINE does == [task EXCEPT ![c] = "rearm"]
<1>types. /\ checkTask \in Callers \cup {None}
          /\ running \in [Callers -> BOOLEAN] /\ task \in [Callers -> States]
  BY DEF TimerInv, TypeOK, States
<1>none. None \notin Callers
  BY DEF None, Callers, Copies
<1>does. does \in [Callers -> States]
  BY <1>types DEF States
<1>closes. /\ running' \in [Callers -> BOOLEAN] /\ task' \in [Callers -> States]
           /\ \A d \in Callers : /\ running'[d] <=> running[d] /\ d # checkTask
                                 /\ d # checkTask => task'[d] = does[d]
                                 /\ task'[d] = does[d] \/ task'[d] = "none"
                                 /\ d = checkTask /\ does[d] = "armed" => task'[d] = "none"
  <2>1. PeriodicClose(checkTask, does)
    BY DEF TaskFinishes, finish
  <2>. QED BY <1>types, <1>does, <2>1, Closed
<1>others. does[c] = "rearm" /\ \A d \in Callers : d # c => does[d] = task[d]
  BY <1>types
<1> HIDE DEF does
<1>effect. /\ task[c] = "finish" /\ cancel(c) /\ checkTask' = None
           /\ raced' = (raced \/ (checkTask \notin {None, c} /\ Midway(checkTask)))
           /\ caller' = caller
           /\ UNCHANGED <<timeout, updated, left, since, silence>>
  BY DEF TaskFinishes, finish
<1>1. TypeOK'
  <2>1. raced' \in BOOLEAN
    BY <1>effect
  <2>2. calls' \in Nat /\ cause' \in Callers \cup {None} /\ onTimeout' \in BOOLEAN
    BY <1>effect, Cancelled
  <2>3. /\ caller' \in [Callers -> Places]
        /\ checkTask' \in Callers \cup {None}
    BY <1>effect DEF TimerInv, TypeOK, Places
  <2>4. \A e \in Callers : task'[e] # "none" => timeout'[e] > 0 /\ left'[e] <= timeout'[e]
    BY <1>closes, <1>others, <1>effect DEF TimerInv, TypeOK
  <2>. QED BY <1>closes, <1>effect, <2>1, <2>2, <2>3, <2>4
       DEF TimerInv, TypeOK, Places, States
<1>2. (\A d \in Callers : InPlace(d))'
  BY <1>types, <1>none, <1>closes, <1>effect, <1>others DEF TimerInv, InPlace, cancel
<1>3. (~raced => \A d \in Callers : Known(d) /\ Quiet(d))'
  BY <1>types, <1>none, <1>closes, <1>effect, <1>others
     DEF TimerInv, InPlace, Known, Quiet, cancel
<1>4. (CalledOnce /\ NotEarly)'
  BY <1>types, <1>none, <1>closes, <1>effect, <1>others
     DEF TimerInv, TypeOK, Quiet, CalledOnce, NotEarly, cancel
<1>. QED BY <1>1, <1>2, <1>3, <1>4 DEF TimerInv

LEMMA CallerFinishesStep == ASSUME TimerInv, NEW c \in Callers, CallerFinishes(c) PROVE TimerInv'
<1>types. /\ checkTask \in Callers \cup {None}
          /\ running \in [Callers -> BOOLEAN] /\ task \in [Callers -> States]
  BY DEF TimerInv, TypeOK, States
<1>none. None \notin Callers
  BY DEF None, Callers, Copies
<1>closes. /\ running' \in [Callers -> BOOLEAN] /\ task' \in [Callers -> States]
           /\ \A d \in Callers : /\ running'[d] <=> running[d] /\ d # checkTask
                                 /\ d # checkTask => task'[d] = task[d]
                                 /\ task'[d] = task[d] \/ task'[d] = "none"
                                 /\ d = checkTask /\ task[d] = "armed" => task'[d] = "none"
  <2>1. PeriodicClose(checkTask, task)
    BY DEF CallerFinishes, finish
  <2>. QED BY <1>types, <2>1, Closed
<1>effect. /\ caller[c] = "finish" /\ cancel(c) /\ checkTask' = None
           /\ raced' = (raced \/ (checkTask \notin {None, c} /\ Midway(checkTask)))
           /\ caller' = [caller EXCEPT ![c] = "returned"]
           /\ UNCHANGED <<timeout, updated, left, since, silence>>
  BY DEF CallerFinishes, finish
<1>1. TypeOK'
  <2>1. raced' \in BOOLEAN
    BY <1>effect
  <2>2. calls' \in Nat /\ cause' \in Callers \cup {None} /\ onTimeout' \in BOOLEAN
    BY <1>effect, Cancelled
  <2>3. /\ caller' \in [Callers -> Places]
        /\ checkTask' \in Callers \cup {None}
    BY <1>effect DEF TimerInv, TypeOK, Places
  <2>4. \A e \in Callers : task'[e] # "none" => timeout'[e] > 0 /\ left'[e] <= timeout'[e]
    BY <1>closes, <1>effect DEF TimerInv, TypeOK
  <2>. QED BY <1>closes, <1>effect, <2>1, <2>2, <2>3, <2>4
       DEF TimerInv, TypeOK, Places
<1>2. (\A d \in Callers : InPlace(d))'
  BY <1>types, <1>none, <1>closes, <1>effect DEF TimerInv, InPlace, cancel
<1>3. (~raced => \A d \in Callers : Known(d) /\ Quiet(d))'
  BY <1>types, <1>none, <1>closes, <1>effect
     DEF TimerInv, TypeOK, InPlace, Known, Quiet, cancel, Midway
<1>4. (CalledOnce /\ NotEarly)'
  BY <1>types, <1>none, <1>closes, <1>effect
     DEF TimerInv, TypeOK, InPlace, CalledOnce, NotEarly, cancel
<1>. QED BY <1>1, <1>2, <1>3, <1>4 DEF TimerInv

LEMMA SetTimeoutStep == ASSUME TimerInv, NEW c \in Callers, SetTimeout(c) PROVE TimerInv'
<1>1. TypeOK'
  BY DEF TimerInv, TypeOK, SetTimeout, timer, periods, history
<1>2. (\A d \in Callers : InPlace(d))'
  BY TimeoutsAssumption DEF TimerInv, TypeOK, InPlace, SetTimeout, timer, periods
<1>3. (~raced => \A d \in Callers : Known(d) /\ Quiet(d))'
  BY DEF TimerInv, Known, Quiet, SetTimeout, timer, periods, history
<1>4. (CalledOnce /\ NotEarly)'
  BY DEF TimerInv, CalledOnce, NotEarly, SetTimeout, timer, history
<1>. QED BY <1>1, <1>2, <1>3, <1>4 DEF TimerInv

LEMMA ReplaceStep == ASSUME TimerInv, NEW c \in Callers, Replace(c) PROVE TimerInv'
<1>types. /\ checkTask \in Callers \cup {None}
          /\ running \in [Callers -> BOOLEAN] /\ task \in [Callers -> States]
  BY DEF TimerInv, TypeOK, States
<1>none. None \notin Callers
  BY DEF None, Callers, Copies
<1>closes. /\ running' \in [Callers -> BOOLEAN] /\ task' \in [Callers -> States]
           /\ \A d \in Callers : /\ running'[d] <=> running[d] /\ d # checkTask
                                 /\ d # checkTask => task'[d] = task[d]
                                 /\ task'[d] = task[d] \/ task'[d] = "none"
                                 /\ d = checkTask /\ task[d] = "armed" => task'[d] = "none"
  <2>1. PeriodicClose(checkTask, task)
    BY DEF Replace
  <2>. QED BY <1>types, <2>1, Closed
<1>effect. /\ caller[c] = "replace" /\ checkTask' = c
           /\ raced' = (raced \/ (checkTask # None /\ Midway(checkTask)))
           /\ caller' = [caller EXCEPT ![c] = "update"]
           /\ UNCHANGED <<timeout, updated, onTimeout, left, since, silence, calls, cause>>
  BY DEF Replace
<1>1. TypeOK'
  BY <1>types, <1>none, <1>closes, <1>effect DEF TimerInv, TypeOK
<1>2. (\A d \in Callers : InPlace(d))'
  BY <1>types, <1>none, <1>closes, <1>effect DEF TimerInv, TypeOK, InPlace
<1>3. (~raced => \A d \in Callers : Known(d) /\ Quiet(d))'
  <2> SUFFICES ASSUME ~raced', NEW d \in Callers PROVE Known(d)' /\ Quiet(d)'
    OBVIOUS
  <2>1. ~raced /\ (checkTask # None => ~Midway(checkTask))
    BY <1>effect
  <2>2. Known(d) /\ Quiet(d) /\ InPlace(d)
    BY <2>1 DEF TimerInv
  <2>3. d # c => caller'[d] = caller[d]
    BY <1>effect DEF TimerInv, TypeOK
  <2>4. CASE d = c
    BY <1>closes, <1>effect, <2>2, <2>4 DEF TimerInv, Known, Quiet
  <2>5. CASE d # c
    <3>1. Known(d)'
      BY <1>none, <1>closes, <1>effect, <2>1, <2>2, <2>3, <2>5 DEF Known, Midway, States
    <3>2. Quiet(d)'
      BY <1>closes, <1>effect, <2>2, <2>3, <2>5 DEF Quiet
    <3>. QED BY <3>1, <3>2
  <2>. QED BY <2>4, <2>5
<1>4. (CalledOnce /\ NotEarly)'
  BY <1>types, <1>none, <1>closes, <1>effect DEF TimerInv, CalledOnce, NotEarly
<1>. QED BY <1>1, <1>2, <1>3, <1>4 DEF TimerInv

LEMMA CallerUpdatesStep == ASSUME TimerInv, NEW c \in Callers, CallerUpdates(c) PROVE TimerInv'
<1>1. TypeOK'
  BY TimeoutsAssumption DEF TimerInv, TypeOK, CallerUpdates, periods, history
<1>2. (\A d \in Callers : InPlace(d))'
  BY DEF TimerInv, InPlace, CallerUpdates, periods
<1>3. (~raced => \A d \in Callers : Known(d) /\ Quiet(d))'
  BY DEF TimerInv, Known, Quiet, CallerUpdates, periods, history
<1>4. (CalledOnce /\ NotEarly)'
  BY DEF TimerInv, CalledOnce, NotEarly, CallerUpdates, history
<1>. QED BY <1>1, <1>2, <1>3, <1>4 DEF TimerInv

LEMMA TickStep == ASSUME TimerInv, Tick PROVE TimerInv'
<1>1. TypeOK'
  BY TimeoutsAssumption DEF TimerInv, TypeOK, Tick, timer, history
<1>2. (\A d \in Callers : InPlace(d))'
  BY TimeoutsAssumption DEF TimerInv, TypeOK, InPlace, Tick, timer
<1>3. (~raced => \A d \in Callers : Known(d) /\ Quiet(d))'
  BY TimeoutsAssumption
     DEF TimerInv, TypeOK, InPlace, Known, Quiet, Tick, timer, periods, history, Callers, Copies, None
<1>4. (CalledOnce /\ NotEarly)'
  BY TimeoutsAssumption
     DEF TimerInv, TypeOK, InPlace, Known, Quiet, CalledOnce, NotEarly, Tick,
         timer, periods, history, Callers, Copies, None
<1>. QED BY <1>1, <1>2, <1>3, <1>4 DEF TimerInv

LEMMA TimerStep == TimerInv /\ [Next]_vars => TimerInv'
<1> SUFFICES ASSUME TimerInv, [Next]_vars PROVE TimerInv'
  OBVIOUS
<1>1. ASSUME NEW c \in Callers, CallerStep(c) PROVE TimerInv'
  BY <1>1, ReplaceStep, CallerUpdatesStep, StartStep, CallerFinishesStep DEF CallerStep
<1>2. ASSUME NEW c \in Callers, TaskStep(c) PROVE TimerInv'
  BY <1>2, FireStep, CheckClosedStep, checkStep, TaskFinishesStep, RearmStep DEF TaskStep
<1>3. ASSUME NEW c \in Callers, Update(c) \/ SetTimeout(c) PROVE TimerInv'
  BY <1>3, UpdateStep, SetTimeoutStep
<1>4. CASE Tick
  BY <1>4, TickStep
<1>5. CASE UNCHANGED vars
  BY <1>5 DEF vars, timer, periods, history, TimerInv, TypeOK, InPlace, Known, Quiet,
       CalledOnce, NotEarly
<1>. QED BY <1>1, <1>2, <1>3, <1>4, <1>5 DEF Next

LEMMA TimerInvariant == Spec => []TimerInv
<1>1. TimerInv /\ [Next]_vars => TimerInv'
  BY TimerStep
<1>. QED BY TimerInit, <1>1, PTL DEF Spec

-----------------------------------------------------------------------------
\* Every reachable state is well typed, whatever the timeouts: in particular a
\* timeout of zero never makes a task (SetTimeout).
THEOREM TypeCorrect == Spec => []TypeOK
<1>1. TimerInv => TypeOK
  BY DEF TimerInv
<1>. QED BY TimerInvariant, <1>1, PTL

\* onTimeout is called at most once (finish).
THEOREM CalledAtMostOnce == Spec => []CalledOnce
<1>1. TimerInv => CalledOnce
  BY DEF TimerInv
<1>. QED BY TimerInvariant, <1>1, PTL

\* Nothing runs that the timer does not know, unless a SetTimeout came midway
\* (SetTimeout, finish).
THEOREM RunningIsKnown == Spec => []OneTask
<1>1. TimerInv => OneTask
  BY DEF TimerInv, OneTask, Known
<1>. QED BY TimerInvariant, <1>1, PTL

\* A connection has its timeout before it is given up, unless a SetTimeout came
\* midway (check, Update).
THEOREM TimeoutIsKept == Spec => []NotEarly
<1>1. TimerInv => NotEarly
  BY DEF TimerInv
<1>. QED BY TimerInvariant, <1>1, PTL
=============================================================================
