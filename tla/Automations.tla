---------------------------- MODULE Automations ----------------------------
(***************************************************************************)
(* The scheduler of automations (automations/manager.go) over its tables   *)
(* (automations/store.go): the scan, manual runs, slots, cancellation,     *)
(* the timeout of a run, Stop, and a process that dies and starts again.   *)
(*                                                                         *)
(* A run is one execution of a task and its row in automation_runs. An     *)
(* occurrence is a number; a manual run serves occurrence 0.               *)
(***************************************************************************)
EXTENDS Naturals, Sequences, FiniteSets, SequencesExt

CONSTANTS Tasks, NoTask, Runs,
          Scheduled,    \* the tasks that are enabled at first
          Limit,        \* ManagerOptions.Limit
          MaxOcc,       \* bound: occurrences of a task
          MaxEdits,     \* bound: saves and deletions
          MaxCrashes    \* bound: deaths of the process

VARIABLES
    row, occ, next,     \* per task: its row, the coming occurrence, its hour
    record,             \* automation_runs
    pending, pendingSet, running, mgr,  \* Manager
    active, canceled,   \* m.active, and the entries with canceled set
    tick, todo, at,     \* the scan's step, what ListTasks gave, its task
    asked,              \* a RunNow still has to dispatch
    pc, rtask, rocc, ctx, res,          \* per run
    edits, crashes

store == <<row, occ, next, record>>
queue == <<pending, pendingSet, running, mgr>>
entries == <<active, canceled>>
scan == <<tick, todo, at>>
runs == <<pc, rtask, rocc, ctx, res>>
vars == <<store, queue, entries, scan, asked, runs, edits, crashes>>

Settled == {"completed", "failed", "timeout", "canceled", "skipped"}
Nothing == [task |-> NoTask, occ |-> 0, missed |-> FALSE]
Items == [task : Tasks, occ : 0 .. MaxOcc, missed : BOOLEAN]

TypeOK ==
    /\ row \in [Tasks -> {"none", "enabled", "disabled"}]
    /\ occ \in [Tasks -> 1 .. MaxOcc]
    /\ next \in [Tasks -> {"ahead", "due", "missed"}]
    /\ record \in [Runs -> {"none", "running"} \cup Settled]
    /\ pending \in Seq([task : Tasks, occ : 0 .. MaxOcc])
    /\ pendingSet \subseteq Tasks /\ running \subseteq Tasks
    /\ mgr \in {"down", "starting", "on", "stopped"}
    /\ active \subseteq Runs /\ canceled \subseteq active
    /\ tick \in {"idle", "scan", "look", "advance", "queue", "dispatch"}
    /\ todo \subseteq Items /\ at \in Items \cup {Nothing}
    /\ asked \in BOOLEAN
    /\ pc \in [Runs -> {"none", "load", "append", "run", "persist", "dispatch",
                        "done", "dead", "left"}]
    /\ rtask \in [Runs -> Tasks \cup {NoTask}] /\ rocc \in [Runs -> 0 .. MaxOcc]
    /\ ctx \in [Runs -> {"live", "deadline", "stopped"}]
    /\ res \in [Runs -> {"none"} \cup Settled]
    /\ edits \in 0 .. MaxEdits /\ crashes \in 0 .. MaxCrashes

Init ==
    /\ row = [t \in Tasks |-> IF t \in Scheduled THEN "enabled" ELSE "disabled"]
    /\ occ = [t \in Tasks |-> 1]
    /\ next = [t \in Tasks |-> "ahead"] /\ record = [r \in Runs |-> "none"]
    /\ pending = <<>> /\ pendingSet = {} /\ running = {} /\ mgr = "starting"
    /\ active = {} /\ canceled = {}
    /\ tick = "idle" /\ todo = {} /\ at = Nothing /\ asked = FALSE
    /\ pc = [r \in Runs |-> "none"] /\ rtask = [r \in Runs |-> NoTask]
    /\ rocc = [r \in Runs |-> 0] /\ ctx = [r \in Runs |-> "live"]
    /\ res = [r \in Runs |-> "none"] /\ edits = 0 /\ crashes = 0

-----------------------------------------------------------------------------
(* Time, and the panel's edits                                              *)

\* The hour of the occurrence comes, and after two more minutes it is missed;
\* nobody reads the hour of a task that is not enabled.
TimePasses(t) ==
    /\ row[t] = "enabled"
    /\ \/ next[t] = "ahead" /\ next' = [next EXCEPT ![t] = "due"]
       \/ next[t] = "due" /\ next' = [next EXCEPT ![t] = "missed"]
    /\ UNCHANGED <<row, occ, record, queue, entries, scan, asked, runs, edits, crashes>>

\* The trigger moves to the first occurrence after now.
Ahead(t) ==
    /\ next' = [next EXCEPT ![t] = "ahead"]
    /\ occ' = [occ EXCEPT ![t] = IF next[t] = "ahead" THEN @ ELSE @ + 1]

\* SaveTask is an upsert: it also writes a row that was deleted meanwhile.
Save(t) ==
    /\ mgr \in {"on", "stopped"} /\ occ[t] < MaxOcc
    /\ edits < MaxEdits /\ edits' = edits + 1
    /\ \E e \in {"enabled", "disabled"} :
        e # row[t] /\ row' = [row EXCEPT ![t] = e]
    /\ Ahead(t)
    /\ UNCHANGED <<record, queue, entries, scan, asked, runs, crashes>>

\* Nobody takes the task out of the queue.
Delete(t) ==
    /\ mgr \in {"on", "stopped"} /\ row[t] # "none" /\ row' = [row EXCEPT ![t] = "none"]
    /\ record' = [r \in Runs |-> IF rtask[r] = t THEN "none" ELSE record[r]]
    /\ edits < MaxEdits /\ edits' = edits + 1
    /\ UNCHANGED <<occ, next, queue, entries, scan, asked, runs, crashes>>

-----------------------------------------------------------------------------
(* The queue                                                                *)

Busy(t) == t \in pendingSet \cup running

Enqueue(t, o) ==
    /\ pending' = Append(pending, [task |-> t, occ |-> o])
    /\ pendingSet' = pendingSet \cup {t}

\* The window has no page before Startup, which starts the manager, returns.
RunNow(t) ==
    /\ mgr = "on" /\ ~asked /\ ~Busy(t)
    /\ Enqueue(t, 0) /\ asked' = TRUE
    /\ UNCHANGED <<store, running, mgr, entries, scan, runs, edits, crashes>>

CanStart == pending # <<>> /\ Cardinality(running) < Limit

\* One turn of the loop of dispatch that starts a run.
Starts ==
    /\ mgr # "stopped" /\ CanStart
    /\ \E r \in Runs :
        /\ pc[r] = "none"
        /\ pc' = [pc EXCEPT ![r] = "load"]
        /\ rtask' = [rtask EXCEPT ![r] = Head(pending).task]
        /\ rocc' = [rocc EXCEPT ![r] = Head(pending).occ]
    /\ pending' = Tail(pending)
    /\ pendingSet' = pendingSet \ {Head(pending).task}
    /\ running' = running \cup {Head(pending).task}
    /\ UNCHANGED <<store, mgr, entries, scan, asked, ctx, res, edits, crashes>>

\* Those who are in dispatch: a RunNow, the scan, a run that has ended.
Dispatchers ==
    {r \in Runs : pc[r] = "dispatch"}
    \cup (IF asked THEN {"RunNow"} ELSE {})
    \cup (IF tick = "dispatch" THEN {"Tick"} ELSE {})

Dispatch == Dispatchers # {} /\ Starts

\* A dispatcher finds no slot, nothing queued or the manager stopped.
DispatchEnds ==
    /\ mgr = "stopped" \/ ~CanStart
    /\ \/ asked /\ asked' = FALSE /\ UNCHANGED <<scan, runs>>
       \/ tick = "dispatch" /\ tick' = "idle" /\ UNCHANGED <<todo, at, asked, runs>>
       \/ \E r \in Runs : /\ pc[r] = "dispatch" /\ pc' = [pc EXCEPT ![r] = "done"]
                          /\ UNCHANGED <<rtask, rocc, ctx, res, scan, asked>>
    /\ UNCHANGED <<store, queue, entries, edits, crashes>>

-----------------------------------------------------------------------------
(* Tick                                                                     *)

tickRest == <<row, record, running, mgr, entries, asked, runs, edits, crashes>>

\* The time is read and every task is listed; a task that is disabled or
\* not due then is passed over.
TickLists ==
    /\ tick = "idle" /\ mgr = "on" /\ tick' = "look"
    /\ todo' = {i \in Items :
                  /\ row[i.task] = "enabled" /\ i.occ = occ[i.task]
                  /\ next[i.task] # "ahead"
                  /\ i.missed = (next[i.task] = "missed")}
    /\ UNCHANGED <<occ, next, pending, pendingSet, at, tickRest>>

TickLooks ==
    /\ tick = "look"
    /\ IF todo = {}
       THEN tick' = "dispatch" /\ UNCHANGED <<todo, at>>
       ELSE \E i \in todo :
               /\ todo' = todo \ {i}
               /\ at' = IF Busy(i.task) THEN Nothing ELSE i
               /\ tick' = IF Busy(i.task) THEN "look" ELSE "advance"
    /\ UNCHANGED <<occ, next, pending, pendingSet, tickRest>>

\* Variant: a due task is queued although its trigger was not moved.
TickAdvances_Unchecked ==
    /\ tick = "advance" /\ tick' = IF at.missed THEN "look" ELSE "queue"
    /\ \/ row[at.task] # "none" /\ occ[at.task] < MaxOcc /\ Ahead(at.task)
       \/ UNCHANGED <<occ, next>>
    /\ UNCHANGED <<pending, pendingSet, todo, at, tickRest>>

\* AdvanceNextRun updates the row, if it is still there, or fails. A missed
\* occurrence is not caught up.
TickAdvances ==
    /\ tick = "advance"
    /\ \/ /\ tick' = IF at.missed THEN "look" ELSE "queue"
          /\ IF row[at.task] = "none" THEN UNCHANGED <<occ, next>>
             ELSE occ[at.task] < MaxOcc /\ Ahead(at.task)
       \/ tick' = "look" /\ UNCHANGED <<occ, next>>
    /\ UNCHANGED <<pending, pendingSet, todo, at, tickRest>>

TickQueues ==
    /\ tick = "queue" /\ tick' = "look" /\ Enqueue(at.task, at.occ)
    /\ at' = Nothing /\ UNCHANGED <<occ, next, todo, tickRest>>

-----------------------------------------------------------------------------
(* One run                                                                  *)

Go(r, from, to) == pc[r] = from /\ pc' = [pc EXCEPT ![r] = to]

runRest == <<row, occ, next, pending, pendingSet, mgr, scan, asked, rtask, rocc, edits, crashes>>

\* The slot is given back, and the queue is looked at.
Leaves(r, from) ==
    Go(r, from, "dispatch") /\ running' = running \ {rtask[r]}

\* GetTask: a task deleted meanwhile ends the run.
Loads(r) ==
    /\ \/ Leaves(r, "load") /\ row[rtask[r]] = "none"
       \/ Go(r, "load", "append") /\ row[rtask[r]] # "none" /\ UNCHANGED running
    /\ UNCHANGED <<record, entries, ctx, res, runRest>>

\* The row, then the entry of active. A CancelRun in between is refused.
Appends(r) ==
    /\ \/ /\ Go(r, "append", "run") /\ record' = [record EXCEPT ![r] = "running"]
          /\ active' = active \cup {r} /\ UNCHANGED running
       \/ Leaves(r, "append") /\ UNCHANGED <<record, active>>
    /\ UNCHANGED <<canceled, ctx, res, runRest>>

\* context.WithTimeout
DeadlineFires(r) ==
    /\ pc[r] = "run" /\ ctx[r] = "live" /\ ctx' = [ctx EXCEPT ![r] = "deadline"]
    /\ UNCHANGED <<record, running, entries, pc, res, runRest>>

\* An entry that is not there is an error to the caller.
CancelRun(r) ==
    /\ r \in active \ canceled /\ canceled' = canceled \cup {r}
    /\ ctx' = [ctx EXCEPT ![r] = IF @ = "live" THEN "stopped" ELSE @]
    /\ UNCHANGED <<record, running, active, pc, res, runRest>>

Verdict(r, o) ==
    IF o = "completed" THEN "completed"
    ELSE IF ctx[r] = "deadline" THEN "timeout"
    ELSE IF r \in canceled THEN "canceled" ELSE o

\* runAutomation returns: the turn completed, failed, or was refused by a
\* busy conversation; a turn whose context was cancelled says so. A CancelRun
\* is refused once the entry is gone.
Settles(r) ==
    /\ Go(r, "run", "persist")
    /\ \E o \in {"completed", "failed", "skipped"} \cup
                (IF ctx[r] = "stopped" THEN {"canceled"} ELSE {}) :
        /\ res' = [res EXCEPT ![r] = Verdict(r, o)]
    /\ active' = active \ {r} /\ canceled' = canceled \ {r}
    /\ ctx' = [ctx EXCEPT ![r] = "live"]
    /\ UNCHANGED <<record, running, runRest>>

\* UpdateRun: the row may be gone; a failure is only logged.
Persists(r) ==
    /\ Leaves(r, "persist") /\ res' = [res EXCEPT ![r] = "none"]
    /\ record' \in {record,
                    [record EXCEPT ![r] = IF @ = "none" THEN @ ELSE res[r]]}
    /\ UNCHANGED <<entries, ctx, runRest>>

-----------------------------------------------------------------------------
(* Start, Stop and the process                                              *)

lifeRest == <<row, occ, next, edits, crashes>>

\* Reconcile and the start of the loop, which starts although Reconcile failed: the
\* rows of the dead runs are left as they are until the start of another process.
Start ==
    /\ mgr = "starting" /\ mgr' = "on"
    /\ \/ /\ record' = [r \in Runs |-> IF record[r] = "running" THEN "failed"
                                       ELSE record[r]]
          /\ UNCHANGED pc
       \/ /\ pc' = [r \in Runs |-> IF pc[r] = "dead" /\ record[r] = "running"
                                   THEN "left" ELSE pc[r]]
          /\ UNCHANGED record
    /\ UNCHANGED <<pending, pendingSet, running, entries, scan, asked, rtask,
                   rocc, ctx, res, lifeRest>>

Stop ==
    /\ mgr = "on" /\ mgr' = "stopped" /\ pending' = <<>> /\ pendingSet' = {}
    /\ UNCHANGED <<record, running, entries, scan, asked, runs, lifeRest>>

Dies ==
    /\ mgr # "down" /\ crashes < MaxCrashes /\ crashes' = crashes + 1
    /\ mgr' = "down" /\ pending' = <<>> /\ pendingSet' = {} /\ running' = {}
    /\ active' = {} /\ canceled' = {} /\ asked' = FALSE
    /\ tick' = "idle" /\ todo' = {} /\ at' = Nothing
    /\ pc' = [r \in Runs |-> IF pc[r] = "none" THEN "none" ELSE "dead"]
    /\ ctx' = [r \in Runs |-> "live"] /\ res' = [r \in Runs |-> "none"]
    /\ UNCHANGED <<store, rtask, rocc, edits>>

Boots ==
    /\ mgr = "down" /\ mgr' = "starting"
    /\ UNCHANGED <<store, pending, pendingSet, running, entries, scan, asked,
                   runs, edits, crashes>>

-----------------------------------------------------------------------------
Tick == TickLists \/ TickLooks \/ TickAdvances \/ TickQueues
Run(r) ==
    \/ Loads(r) \/ Appends(r) \/ DeadlineFires(r) \/ CancelRun(r)
    \/ Settles(r) \/ Persists(r)

Next ==
    \/ \E t \in Tasks : TimePasses(t) \/ Save(t) \/ Delete(t) \/ RunNow(t)
    \/ Tick \/ Dispatch \/ DispatchEnds
    \/ \E r \in Runs : Run(r)
    \/ Start \/ Stop \/ Dies \/ Boots

Spec == Init /\ [][Next]_vars

-----------------------------------------------------------------------------
(* Properties                                                               *)

\* An occurrence is queued by the scan at most once, whatever fails, dies
\* or is edited: the trigger moves before the task is queued (manager.go,
\* Tick; store.go, AdvanceNextRun).
OncePerOccurrence ==
    LET queued(t, o) == Cardinality({i \in DOMAIN pending :
                              pending[i] = [task |-> t, occ |-> o]})
                        + Cardinality({r \in Runs :
                              /\ pc[r] # "none" /\ rtask[r] = t /\ rocc[r] = o})
    IN  \A t \in Tasks, o \in 1 .. MaxOcc : queued(t, o) <= 1

\* No wakeup is lost: while something is queued and a slot is free somebody
\* is on the way to dispatch (manager.go, RunNow, Tick, run).
QueueIsServed ==
    CanStart /\ mgr = "on" => Dispatchers # {} \/ tick # "idle"

\* A run the user stopped does not end as a failure or a skip, at whatever
\* moment the stop came: it completed first, ran out of its time first, or is
\* recorded as canceled (manager.go:388-401).
StopIsNoFailure ==
    \A r \in canceled \ canceled' :
        mgr' = "down" \/ res'[r] \in {"completed", "timeout", "canceled"}

\* A row that has settled keeps its status, over restarts too, until it is
\* deleted with its task (store.go, UpdateRun, Reconcile).
SettledIsFinal ==
    \A r \in Runs : record[r] \in Settled => record'[r] \in {record[r], "none"}

\* A row that says running has its run, or is one that could not be updated: once the
\* manager serves, the rows of an earlier process that say so are those its Reconcile
\* failed on, and a row of this process says so because its run is on its way or its
\* update at the end failed (manager.go:124-128, Start; store.go:342, Reconcile).
NoStaleRunning ==
    mgr \in {"on", "stopped"} =>
        \A r \in Runs : record[r] = "running" =>
            pc[r] \in {"run", "persist", "dispatch", "done", "left"}

\* A stopped manager starts no run, whoever queued it (manager.go, Stop,
\* dispatch).
StopStartsNothing ==
    mgr = "stopped" => \A r \in Runs : pc[r] = "none" => pc'[r] = "none"

\* What no step may do.
NeverReopens == StopIsNoFailure /\ SettledIsFinal /\ StopStartsNothing
=============================================================================
