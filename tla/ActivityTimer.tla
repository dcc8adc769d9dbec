---------------------------- MODULE ActivityTimer ----------------------------
(***************************************************************************)
(* common/signal ActivityTimer on common/task Periodic: the timer every     *)
(* proxied connection has.  CancelAfterInactivity makes it with the idle    *)
(* timeout; the goroutine that ends first, request or response, shortens it *)
(* with SetTimeout, and so does the other.                                 *)
(*                                                                         *)
(* SetTimeout makes a new Periodic, which is named here after its caller.    *)
(* A Periodic's running flag, its pending time.AfterFunc and the goroutine   *)
(* in checkedExecute take steps of their own.  Time is a countdown per       *)
(* pending timer and an age of the last activity; a timer may fire late.     *)
(***************************************************************************)
EXTENDS Integers

CONSTANTS
  Timeouts,   \* the timeouts a connection may be given, by caller
  Longest     \* the longest of them

Copies  == {"request", "response"}   \* the goroutines that carry the data
Callers == {"idle"} \cup Copies
None    == "none"

ASSUME TimeoutsAssumption == Longest \in Nat /\ Timeouts \subseteq [Callers -> 0 .. Longest]

VARIABLES
  timeout,    \* timeout[c]: what c passes to SetTimeout, set once
  updated,    \* the channel `updated' holds its one element
  checkTask,  \* ActivityTimer.checkTask
  onTimeout,  \* ActivityTimer.onTimeout is not nil
  caller,     \* where each caller is in SetTimeout
  running,    \* Periodic.running
  task,       \* what each Periodic is doing
  left,       \* time until its timer is due
  since,      \* time since the last activity, as far as it matters
  silence,    \* history: that time when a task last found no activity
  calls,      \* history: how often onTimeout was called
  cause,      \* history: whose task or call called it
  raced       \* history: a SetTimeout met a check, or another SetTimeout, midway

timer   == <<updated, checkTask, onTimeout>>
periods == <<running, task, left>>
history == <<silence, calls, cause, raced>>
vars == <<timeout, timer, caller, periods, since, history>>

-----------------------------------------------------------------------------
(* Periodic *)

\* Periodic.Close of the task k while the others do `does': a pending timer is
\* stopped, an execution is not.
PeriodicClose(k, does) ==
  IF k = None THEN running' = running /\ task' = does
  ELSE /\ running' = [running EXCEPT ![k] = FALSE]
       /\ task' = IF does[k] = "armed" THEN [does EXCEPT ![k] = "none"] ELSE does

\* Periodic.Start by SetTimeout, once for each task: it executes the task itself
\* at first.
Start(c) ==
  /\ caller[c] = "start"
  /\ running' = [running EXCEPT ![c] = TRUE]
  /\ task' = [task EXCEPT ![c] = "check"]
  /\ caller' = [caller EXCEPT ![c] = "starting"]
  /\ UNCHANGED <<timeout, timer, left, since, history>>

\* The time is up.
Fire(c) ==
  /\ task[c] = "armed" /\ left[c] = 0
  /\ task' = [task EXCEPT ![c] = "check"]
  /\ UNCHANGED <<timeout, timer, caller, running, left, since, history>>

\* A checkedExecute is over, and with the first one Start and SetTimeout.
Return(c) == caller' = IF caller[c] = "starting" THEN [caller EXCEPT ![c] = "returned"] ELSE caller

\* checkedExecute: hasClosed.
CheckClosed(c) ==
  /\ task[c] = "check"
  /\ IF running[c]
       THEN task' = [task EXCEPT ![c] = "execute"] /\ UNCHANGED caller
       ELSE task' = [task EXCEPT ![c] = "none"] /\ Return(c)
  /\ UNCHANGED <<timeout, timer, running, left, since, history>>

\* checkedExecute, after Execute: the timer is set again unless Close came.
Rearm(c) ==
  /\ task[c] = "rearm"
  /\ IF running[c]
       THEN task' = [task EXCEPT ![c] = "armed"] /\ left' = [left EXCEPT ![c] = timeout[c]]
       ELSE task' = [task EXCEPT ![c] = "none"] /\ UNCHANGED left
  /\ Return(c)
  /\ UNCHANGED <<timeout, timer, running, since, history>>

-----------------------------------------------------------------------------
(* ActivityTimer *)

\* Update: the copying goroutines call it for all data they carry.
Update(c) ==
  /\ c \in Copies /\ caller["idle"] = "returned" /\ caller[c] = "before"
  /\ updated' = TRUE
  /\ since' = 0
  /\ UNCHANGED <<timeout, checkTask, onTimeout, caller, periods, history>>

\* A bug: the activity is looked at and left there.
CheckKeeps(c) ==
  /\ task[c] = "execute"
  /\ task' = [task EXCEPT ![c] = IF updated THEN "rearm" ELSE "finish"]
  /\ silence' = IF updated THEN silence ELSE [silence EXCEPT ![c] = since]
  /\ UNCHANGED <<timeout, timer, caller, running, left, since, calls, cause, raced>>

\* check, the Execute of every task: it takes the activity, or finishes.
check(c) ==
  /\ task[c] = "execute"
  /\ updated' = FALSE
  /\ task' = [task EXCEPT ![c] = IF updated THEN "rearm" ELSE "finish"]
  /\ silence' = IF updated THEN silence ELSE [silence EXCEPT ![c] = since]
  /\ UNCHANGED <<timeout, checkTask, onTimeout, caller, running, left, since, calls, cause, raced>>

\* A bug: onTimeout is not forgotten.
cancelAgain(c) ==
  /\ calls' = calls + 1
  /\ cause' = c
  /\ UNCHANGED onTimeout

\* onTimeout is called and forgotten, under the lock.
cancel(c) ==
  /\ onTimeout' = FALSE
  /\ IF onTimeout THEN calls' = calls + 1 /\ cause' = c ELSE UNCHANGED <<calls, cause>>

\* Whether the task c is between SetTimeout's store and its Start, or in
\* checkedExecute.
Midway(c) == caller[c] \in {"update", "start"} \/ task[c] \in {"check", "execute", "finish", "rearm"}

\* A bug: the task is forgotten, not closed.
finishOpen(c, does, calling) ==
  /\ cancel(c)
  /\ checkTask' = None
  /\ task' = does
  /\ caller' = calling
  /\ UNCHANGED <<timeout, updated, running, left, since, silence, raced>>

\* finish, by a check and by a SetTimeout of zero.
finish(c, does, calling) ==
  LET old == checkTask IN
  /\ cancel(c)
  /\ checkTask' = None
  /\ PeriodicClose(old, does)
  /\ raced' = (raced \/ (old \notin {None, c} /\ Midway(old)))
  /\ caller' = calling
  /\ UNCHANGED <<timeout, updated, left, since, silence>>

TaskFinishes(c) ==
  /\ task[c] = "finish"
  /\ finish(c, [task EXCEPT ![c] = "rearm"], caller)
CallerFinishes(c) ==
  /\ caller[c] = "finish"
  /\ finish(c, task, [caller EXCEPT ![c] = "returned"])

\* SetTimeout: CancelAfterInactivity calls it first, then each copying
\* goroutine when its direction has ended.
SetTimeout(c) ==
  /\ caller[c] = "before"
  /\ c # "idle" => caller["idle"] = "returned"
  /\ caller' = [caller EXCEPT ![c] = IF timeout[c] = 0 THEN "finish" ELSE "replace"]
  /\ UNCHANGED <<timeout, timer, periods, since, history>>

\* A bug: the old task is not closed.
ReplaceOnly(c) ==
  /\ caller[c] = "replace"
  /\ checkTask' = c
  /\ caller' = [caller EXCEPT ![c] = "update"]
  /\ UNCHANGED <<timeout, updated, onTimeout, periods, since, history>>

\* The task is exchanged under the lock, and started after it.
Replace(c) ==
  LET old == checkTask IN
  /\ caller[c] = "replace"
  /\ checkTask' = c
  /\ PeriodicClose(old, task)
  /\ raced' = (raced \/ (old # None /\ Midway(old)))
  /\ caller' = [caller EXCEPT ![c] = "update"]
  /\ UNCHANGED <<timeout, updated, onTimeout, left, since, silence, calls, cause>>

\* A bug: the new task starts without activity.
UpdateLeftOut(c) ==
  /\ caller[c] = "update"
  /\ caller' = [caller EXCEPT ![c] = "start"]
  /\ since' = 0
  /\ UNCHANGED <<timeout, timer, periods, history>>

\* SetTimeout counts as activity, so that the new task's first check passes.
CallerUpdates(c) ==
  /\ caller[c] = "update"
  /\ updated' = TRUE
  /\ since' = 0
  /\ caller' = [caller EXCEPT ![c] = "start"]
  /\ UNCHANGED <<timeout, checkTask, onTimeout, periods, history>>

\* Time passes.
Tick ==
  /\ since' = IF since < Longest THEN since + 1 ELSE since
  /\ left' = [c \in Callers |-> IF task[c] = "armed" /\ left[c] > 0 THEN left[c] - 1 ELSE left[c]]
  /\ UNCHANGED <<timeout, timer, caller, running, task, history>>

-----------------------------------------------------------------------------
Init ==
  /\ timeout \in Timeouts
  /\ updated = FALSE /\ checkTask = None /\ onTimeout = TRUE
  /\ caller = [c \in Callers |-> "before"]
  /\ running = [c \in Callers |-> FALSE]
  /\ task = [c \in Callers |-> "none"]
  /\ left = [c \in Callers |-> 0]
  /\ since = 0
  /\ silence = [c \in Callers |-> 0]
  /\ calls = 0 /\ cause = None /\ raced = FALSE

CallerStep(c) == Replace(c) \/ CallerUpdates(c) \/ Start(c) \/ CallerFinishes(c)
TaskStep(c) == Fire(c) \/ CheckClosed(c) \/ check(c) \/ TaskFinishes(c) \/ Rearm(c)

Next ==
  \/ \E c \in Callers : CallerStep(c) \/ TaskStep(c) \/ Update(c) \/ SetTimeout(c)
  \/ Tick

Spec == Init /\ [][Next]_vars

\* Time passes and goroutines that can run do.  Data need not come and a
\* direction need not end.
LiveSpec ==
  /\ Spec
  /\ WF_vars(Tick) /\ WF_vars(SetTimeout("idle"))
  /\ \A c \in Callers : WF_vars(CallerStep(c)) /\ WF_vars(TaskStep(c))
-----------------------------------------------------------------------------
(* Properties *)

\* Every variable has its type; a task has a timer only if it has a timeout.
TypeOK ==
  /\ timeout \in Timeouts /\ updated \in BOOLEAN /\ onTimeout \in BOOLEAN
  /\ checkTask \in Callers \cup {None}
  /\ caller \in [Callers -> {"before", "replace", "update", "start", "starting", "finish", "returned"}]
  /\ running \in [Callers -> BOOLEAN]
  /\ task \in [Callers -> {"none", "check", "execute", "finish", "rearm", "armed"}]
  /\ left \in [Callers -> 0 .. Longest] /\ since \in 0 .. Longest
  /\ silence \in [Callers -> 0 .. Longest]
  /\ calls \in Nat /\ cause \in Callers \cup {None} /\ raced \in BOOLEAN
  /\ \A c \in Callers : task[c] # "none" => timeout[c] > 0 /\ left[c] <= timeout[c]

\* onTimeout, which closes or cancels the connection, is called once, however
\* many checks and SetTimeouts find the connection silent.
CalledOnce == calls <= 1 /\ (calls = 0 <=> onTimeout)

\* A connection is never given up before it was silent for the timeout of the
\* task that gives it up, unless a SetTimeout came midway.
NotEarly == cause # None => raced \/ silence[cause] >= timeout[cause]

\* The task that runs is the one the timer knows, the only one that a later
\* SetTimeout or finish closes, unless a SetTimeout came midway.
OneTask == raced \/ \A c \in Callers : running[c] => checkTask = c

\* A connection that has been silent for the longest timeout speaks again or is
\* given up: no exchange of tasks, raced or not, leaves it without a timer.
SilenceIsNoticed == since >= Longest ~> (since < Longest \/ calls > 0)

\* A connection that was given up and stays silent leaves no timer behind,
\* unless a SetTimeout came midway.
TimersEnd == (calls > 0 /\ since >= Longest) ~>
  (raced \/ since < Longest \/ \A c \in Callers : task[c] = "none")
=============================================================================
