---------------------------- MODULE ExecSessions ----------------------------
(***************************************************************************)
(* One exec_session id, end to end: the slot the tool keeps for it          *)
(* (tools/exec/session.go), the calls of the remote session over the        *)
(* channel (execd/client.go, execd/runner.go), the child's handlers         *)
(* (execd/server.go, execd/server_processes.go) and the actor that runs one *)
(* operation of a process at a time (execd/actor.go).                       *)
(*                                                                          *)
(* A tool call is a member of one of three sets and is made once. The       *)
(* process a starter launches is named after the starter. A request is a    *)
(* pair <<call, method>>: a call that gave up one request goes on to the    *)
(* next while the child still works on the first.                           *)
(***************************************************************************)
EXTENDS Naturals, Sequences, FiniteSets

CONSTANTS Starters, Closers,
          Users,        \* calls that read, wait or terminate
          Impatient,    \* calls whose context may end while they wait: the
                        \* run is stopped, a Close's closeTimeout is over
          NoProc, NoRpc, Reaper, Unbinder,
          MailboxCap    \* bound: capacity of an actor's mailbox (16)

Procs == Starters
Calls == Starters \cup Users \cup Closers
Killers == Starters \cup Closers    \* calls that end in remoteSession.Close

\* "end" is the terminate action of the tool, "terminate" the forced one of
\* remoteSession.Close; "cmd" stands for write, signal, resize and
\* close_input, which do their work and end by themselves.
Uses == {"read", "wait", "end", "cmd"}
Rpcs == (Starters \X {"start"}) \cup (Users \X Uses)
        \cup (Killers \X {"terminate", "release"})
Stoppers == (Killers \X {"release"}) \cup {Reaper, Unbinder}
Stop == <<NoProc, "stop">>      \* the stop message of processActor.stop

Methods == Uses \cup {"start", "terminate", "release"}

ASSUME ExecSessionsAssumption ==
    /\ Starters \cap Users = {} /\ Starters \cap Closers = {}
    /\ Users \cap Closers = {}
    /\ NoProc \notin Calls /\ NoRpc \notin Rpcs
    /\ Reaper \notin Rpcs /\ Unbinder \notin Rpcs /\ Reaper # Unbinder
    /\ MailboxCap \in Nat

VARIABLES
    slot, filled,   \* SessionTool.sessions[id]: the claim's epoch, its session
    pc, aim,        \* per call: its step, the session it was called on
    at, out, ctx,   \* per request: where it is, its answer, its context
    target,         \* the process entry the handler looked up
    bound,          \* Server.state # nil
    table, reserved,\* session.processes[id], session.starting[id]
    os, known,      \* per process: its state, exitedAt was published
    mbox, gone, stopped,    \* processActor
    cur, armed, intr,       \* the operation it runs, setCurrent, interrupted
    step, victim,   \* per stopper: where stopEntry is, and on which entry
    due             \* the reaper listed the id as expired

toolVars == <<slot, filled, pc, aim>>
rpcVars == <<at, out, ctx, target>>
actorVars == <<mbox, gone, stopped, cur, armed, intr>>
procVars == <<os, known>>
tableVars == <<bound, table, reserved>>
stopVars == <<step, victim, due>>
vars == <<toolVars, rpcVars, actorVars, procVars, tableVars, stopVars>>

TypeOK ==
    /\ slot \in Starters \cup {NoProc} /\ filled \in BOOLEAN
    /\ pc \in [Calls -> Methods \cup {"idle", "drop", "done"}]
    /\ aim \in [Calls -> Starters \cup {NoProc}]
    /\ at \in [Rpcs -> {"off", "sent", "launch", "submit", "queued",
                        "inline", "stopping", "answered"}]
    /\ out \in [Rpcs -> {"none", "ok", "missing", "refused", "canceled"}]
    /\ ctx \in [Rpcs -> {"live", "gaveUp", "done"}]
    /\ target \in [Rpcs -> Procs \cup {NoProc}]
    /\ bound \in BOOLEAN
    /\ table \in Procs \cup {NoProc} /\ reserved \in Procs \cup {NoProc}
    /\ os \in [Procs -> {"none", "running", "exited"}]
    /\ known \in [Procs -> BOOLEAN]
    /\ mbox \in [Procs -> Seq(Rpcs \cup {Stop})]
    /\ \A p \in Procs : Len(mbox[p]) <= MailboxCap
    /\ gone \in [Procs -> BOOLEAN] /\ stopped \in [Procs -> BOOLEAN]
    /\ cur \in [Procs -> Rpcs \cup {NoRpc}]
    /\ armed \in [Procs -> BOOLEAN] /\ intr \in [Procs -> BOOLEAN]
    /\ step \in [Stoppers -> {"none", "sweep", "mark", "send", "await"}]
    /\ victim \in [Stoppers -> Procs \cup {NoProc}]
    /\ due \in BOOLEAN

Init ==
    /\ slot = NoProc /\ filled = FALSE
    /\ pc = [c \in Calls |-> "idle"] /\ aim = [c \in Calls |-> NoProc]
    /\ at = [r \in Rpcs |-> "off"] /\ out = [r \in Rpcs |-> "none"]
    /\ ctx = [r \in Rpcs |-> "live"] /\ target = [r \in Rpcs |-> NoProc]
    /\ bound = TRUE /\ table = NoProc /\ reserved = NoProc
    /\ os = [p \in Procs |-> "none"] /\ known = [p \in Procs |-> FALSE]
    /\ mbox = [p \in Procs |-> <<>>] /\ gone = [p \in Procs |-> FALSE]
    /\ stopped = [p \in Procs |-> FALSE] /\ cur = [p \in Procs |-> NoRpc]
    /\ armed = [p \in Procs |-> FALSE] /\ intr = [p \in Procs |-> FALSE]
    /\ step = [k \in Stoppers |-> "none"]
    /\ victim = [k \in Stoppers |-> NoProc] /\ due = FALSE

-----------------------------------------------------------------------------
(* The tool and the remote session                                          *)

\* The call goes on with method m: Client.call writes its frame.
Call(c, m) ==
    /\ pc' = [pc EXCEPT ![c] = m]
    /\ at' = [at EXCEPT ![<<c, m>>] = "sent"]

Done(c) == pc' = [pc EXCEPT ![c] = "done"] /\ UNCHANGED at

\* The call took the answer to its request off the channel.
Got(c, m) ==
    pc[c] = m /\ at[<<c, m>>] = "answered" /\ ctx[<<c, m>>] = "live"

\* Its context ended first, a Close's at closeTimeout: a cancel notification
\* follows the frame.
GaveUp(c, m) ==
    /\ c \in Impatient
    /\ pc[c] = m /\ ctx[<<c, m>>] = "live"
    /\ ctx' = [ctx EXCEPT ![<<c, m>>] = "gaveUp"]

toolRest == <<target, out, actorVars, procVars, tableVars, stopVars>>

StartClaim(s) ==
    /\ pc[s] = "idle"
    /\ IF slot = NoProc
       THEN slot' = s /\ filled' = FALSE /\ Call(s, "start")
       ELSE Done(s) /\ UNCHANGED <<slot, filled>>
    /\ UNCHANGED <<aim, ctx, toolRest>>

\* The launch came back: it fills the slot it claimed, and a process whose
\* claim was closed meanwhile is closed here.
StartFill(s) ==
    /\ Got(s, "start") /\ out[<<s, "start">>] = "ok"
    /\ IF slot = s
       THEN filled' = TRUE /\ Done(s) /\ UNCHANGED aim
       ELSE /\ aim' = [aim EXCEPT ![s] = s] /\ Call(s, "terminate")
            /\ UNCHANGED filled
    /\ UNCHANGED <<slot, ctx, toolRest>>

ReleaseClaim(s) == slot' = IF slot = s THEN NoProc ELSE slot

StartFails(s) ==
    /\ \/ /\ Got(s, "start") /\ out[<<s, "start">>] # "ok"
          /\ UNCHANGED ctx
       \/ GaveUp(s, "start")
    /\ ReleaseClaim(s) /\ Done(s)
    /\ UNCHANGED <<filled, aim, toolRest>>

\* read, write, wait, ... look the live session up and call it.
Use(c, m) ==
    /\ pc[c] = "idle"
    /\ IF slot # NoProc /\ filled
       THEN aim' = [aim EXCEPT ![c] = slot] /\ Call(c, m)
       ELSE Done(c) /\ UNCHANGED aim
    /\ UNCHANGED <<slot, filled, ctx, toolRest>>

UseReturns(c, m) ==
    /\ \/ /\ Got(c, m) /\ ~(m = "wait" /\ out[<<c, m>>] = "ok")
          /\ UNCHANGED ctx
       \/ GaveUp(c, m)
    /\ Done(c)
    /\ UNCHANGED <<slot, filled, aim, toolRest>>

WaitEnds(w) ==
    /\ Got(w, "wait") /\ out[<<w, "wait">>] = "ok"
    /\ pc' = [pc EXCEPT ![w] = "drop"]
    /\ UNCHANGED <<slot, filled, aim, at, ctx, toolRest>>

\* Variant: the slot is dropped by id.
WaitDrops_ById(w) ==
    /\ pc[w] = "drop" /\ slot' = NoProc /\ Done(w)
    /\ UNCHANGED <<filled, aim, ctx, toolRest>>

WaitDrops(w) ==
    /\ pc[w] = "drop"
    /\ slot' = IF slot = aim[w] THEN NoProc ELSE slot
    /\ Done(w)
    /\ UNCHANGED <<filled, aim, ctx, toolRest>>

Close(c) ==
    /\ pc[c] = "idle" /\ slot' = NoProc
    /\ aim' = [aim EXCEPT ![c] = slot]
    /\ IF slot # NoProc /\ filled THEN Call(c, "terminate") ELSE Done(c)
    /\ UNCHANGED <<filled, ctx, toolRest>>

\* Variant: a terminate that ran out of its budget ends the close.
CloseReleases_NotAfterTimeout(c) ==
    /\ \/ Got(c, "terminate") /\ UNCHANGED ctx /\ Call(c, "release")
       \/ GaveUp(c, "terminate") /\ Done(c)
    /\ UNCHANGED <<slot, filled, aim, toolRest>>

\* remoteSession.Close: whatever became of the terminate, the release
\* follows; its frame is written even when the budget is used up.
CloseReleases(c) ==
    /\ \/ Got(c, "terminate") /\ UNCHANGED ctx
       \/ GaveUp(c, "terminate")
    /\ Call(c, "release")
    /\ UNCHANGED <<slot, filled, aim, toolRest>>

\* With the answer of the release or without it: its handler looks at no
\* context.
CloseReturns(c) ==
    /\ pc[c] = "release" /\ Done(c)
    /\ UNCHANGED <<slot, filled, aim, ctx, toolRest>>

-----------------------------------------------------------------------------
(* The child's handlers                                                     *)

\* The tool goes on differently only after a start and after a wait.
Answer(r, o) ==
    /\ at' = [at EXCEPT ![r] = "answered"]
    /\ target' = [target EXCEPT ![r] = NoProc]
    /\ out' = IF r[2] \in {"start", "wait"} THEN [out EXCEPT ![r] = o] ELSE out

Move(r, to) == at' = [at EXCEPT ![r] = to] /\ UNCHANGED out

handlerRest == <<toolVars, ctx, procVars, stopVars>>

\* Variant: only the table is checked for a duplicate id.
Taken_TableOnly == table # NoProc

Taken == table # NoProc \/ reserved # NoProc

StartReserves(s) ==
    LET r == <<s, "start">> IN
    /\ at[r] = "sent"
    /\ IF ~bound \/ Taken
       THEN Answer(r, "refused") /\ UNCHANGED reserved
       ELSE reserved' = s /\ Move(r, "launch") /\ UNCHANGED target
    /\ UNCHANGED <<bound, table, actorVars, handlerRest>>

StartLaunchFails(s) ==
    LET r == <<s, "start">> IN
    /\ at[r] = "launch" /\ reserved' = NoProc /\ Answer(r, "refused")
    /\ UNCHANGED <<bound, table, actorVars, handlerRest>>

\* The process runs and is registered in the session the handler was given,
\* which may be a session that was torn down meanwhile.
StartRegisters(s) ==
    LET r == <<s, "start">> IN
    /\ at[r] = "launch" /\ reserved' = NoProc /\ Answer(r, "ok")
    /\ os' = [os EXCEPT ![s] = "running"] /\ table' = s
    /\ UNCHANGED <<bound, known, actorVars, toolVars, ctx, stopVars>>

Interrupt(p) == intr' = [intr EXCEPT ![p] = @ \/ armed[p]]

ActorRpcs == {r \in Rpcs : r[2] \in Uses \cup {"terminate"}}

\* The cancel notification, or the deadline the frame carried, ends the
\* handler's context.
CancelLands(r) ==
    /\ ctx[r] = "gaveUp" /\ at[r] # "answered"
    /\ ctx' = [ctx EXCEPT ![r] = "done"]
    /\ UNCHANGED <<toolVars, at, out, target, actorVars, procVars, tableVars,
                   stopVars>>

\* The handler finds the entry. A read of a busy process is served off the
\* ring; a terminate interrupts first.
OpArrives(r) ==
    /\ at[r] = "sent"
    /\ IF ~bound \/ table = NoProc
       THEN Answer(r, "missing") /\ UNCHANGED intr
       ELSE /\ IF r[2] \in {"end", "terminate"} THEN Interrupt(table)
               ELSE UNCHANGED intr
            /\ \/ /\ r[2] = "read" /\ cur[table] # NoRpc
                  /\ Move(r, "inline") /\ UNCHANGED target
               \/ /\ ~(r[2] = "read" /\ cur[table] # NoRpc)
                  /\ Move(r, "submit")
                  /\ target' = [target EXCEPT ![r] = table]
    /\ UNCHANGED <<mbox, gone, stopped, cur, armed, tableVars, handlerRest>>

InlineReadEnds(r) ==
    /\ at[r] = "inline" /\ Answer(r, "ok")
    /\ UNCHANGED <<actorVars, tableVars, handlerRest>>

\* submit. The look at stopped and the send are two steps of the code: a
\* handler that looked before the stop sends behind the stop message.
Enqueue(r) ==
    LET p == target[r] IN
    /\ at[r] = "submit"
    /\ \/ /\ Len(mbox[p]) < MailboxCap
          /\ mbox' = [mbox EXCEPT ![p] = Append(@, r)]
          /\ Move(r, "queued") /\ UNCHANGED target
       \/ stopped[p] /\ Answer(r, "missing") /\ UNCHANGED mbox
       \/ ctx[r] = "done" /\ Answer(r, "canceled") /\ UNCHANGED mbox
    /\ UNCHANGED <<gone, stopped, cur, armed, intr, tableVars, handlerRest>>

\* The handler's context ended: it interrupts whatever the actor runs.
Abandon(r) ==
    /\ at[r] = "queued" /\ ctx[r] = "done"
    /\ Answer(r, "canceled") /\ Interrupt(target[r])
    /\ UNCHANGED <<mbox, gone, stopped, cur, armed, tableVars, handlerRest>>

-----------------------------------------------------------------------------
(* The actor of process p                                                   *)

\* The reply goes to the handler that still waits for it.
Reply(r, o) ==
    IF at[r] = "queued" THEN Answer(r, o) ELSE UNCHANGED <<at, out, target>>

actorRest == <<toolVars, ctx, tableVars, stopVars, known, stopped>>

Pop(p) ==
    /\ cur[p] = NoRpc /\ ~gone[p] /\ mbox[p] # <<>>
    /\ mbox' = [mbox EXCEPT ![p] = Tail(@)]
    /\ LET r == Head(mbox[p]) IN
       \/ /\ r = Stop /\ gone' = [gone EXCEPT ![p] = TRUE]
          /\ UNCHANGED <<cur, at, out, target>>
       \/ /\ r # Stop /\ ctx[r] = "done" /\ Reply(r, "canceled")
          /\ UNCHANGED <<gone, cur>>
       \/ /\ r # Stop /\ ctx[r] # "done" /\ cur' = [cur EXCEPT ![p] = r]
          /\ UNCHANGED <<gone, at, out, target>>
    /\ UNCHANGED <<armed, intr, os, actorRest>>

\* From here on an interrupt reaches the operation.
Arm(p) ==
    /\ cur[p] # NoRpc /\ ~armed[p] /\ armed' = [armed EXCEPT ![p] = TRUE]
    /\ UNCHANGED <<mbox, gone, cur, intr, at, out, target, os, actorRest>>

Canceled(p) == intr[p] \/ ctx[cur[p]] = "done"

\* How the operation can end: a read within its window; a wait with the
\* process or cancelled; a forced terminate with the process killed; a
\* graceful one likewise or cancelled inside its grace.
OpEnds(p, o) ==
    \/ cur[p][2] \in {"read", "cmd"} /\ o = "ok" /\ UNCHANGED os
    \/ cur[p][2] = "wait" /\ o = "ok" /\ os[p] = "exited" /\ UNCHANGED os
    \/ /\ cur[p][2] \in {"end", "terminate"} /\ o = "ok"
       /\ os' = [os EXCEPT ![p] = "exited"]
    \/ /\ cur[p][2] \in {"wait", "end"} /\ o = "canceled"
       /\ Canceled(p) /\ UNCHANGED os

Finish(p) ==
    /\ cur[p] # NoRpc /\ armed[p]
    /\ \E o \in {"ok", "canceled"} : OpEnds(p, o) /\ Reply(cur[p], o)
    /\ cur' = [cur EXCEPT ![p] = NoRpc]
    /\ armed' = [armed EXCEPT ![p] = FALSE]
    /\ intr' = [intr EXCEPT ![p] = FALSE]
    /\ UNCHANGED <<mbox, gone, actorRest>>

ProcessExits(p) ==
    /\ os[p] = "running" /\ os' = [os EXCEPT ![p] = "exited"]
    /\ UNCHANGED <<toolVars, rpcVars, actorVars, known, tableVars, stopVars>>

\* pushEvents records the exit: the reaper and the answers can see it.
ExitPublished(p) ==
    /\ os[p] = "exited" /\ ~known[p] /\ table = p
    /\ known' = [known EXCEPT ![p] = TRUE]
    /\ UNCHANGED <<toolVars, rpcVars, actorVars, os, tableVars, stopVars>>

-----------------------------------------------------------------------------
(* stopEntry: release, the reaper and teardown                              *)

\* Stopper k holds the entry of p, already out of the table.
Begin(k, p) ==
    /\ victim' = [victim EXCEPT ![k] = p]
    /\ step' = [step EXCEPT ![k] = "mark"]

\* session.take: the entry, if any, leaves the table.
Take(k) == IF table = NoProc
           THEN UNCHANGED <<table, victim, step>>
           ELSE Begin(k, table) /\ table' = NoProc

stopRest == <<toolVars, ctx, os, known, bound, reserved, due>>

ReleaseArrives(c) ==
    LET r == <<c, "release">> IN
    /\ at[r] = "sent"
    /\ IF ~bound \/ table = NoProc
       THEN Answer(r, "missing") /\ UNCHANGED <<table, victim, step>>
       ELSE Take(r) /\ Move(r, "stopping") /\ UNCHANGED target
    /\ UNCHANGED <<actorVars, stopRest>>

\* The loop collects the ids of the processes that exited long enough ago,
\* and takes them out one by one afterwards.
ReaperLists ==
    /\ bound /\ ~due /\ step[Reaper] = "none"
    /\ table # NoProc /\ known[table] /\ due' = TRUE
    /\ UNCHANGED <<toolVars, rpcVars, actorVars, procVars, tableVars, step,
                   victim>>

ReaperTakes ==
    /\ due /\ due' = FALSE /\ Take(Reaper)
    /\ UNCHANGED <<toolVars, rpcVars, actorVars, procVars, bound, reserved>>

\* teardown: the state goes first, then the session's map is emptied.
Unbind ==
    /\ bound /\ bound' = FALSE
    /\ step' = [step EXCEPT ![Unbinder] = "sweep"]
    /\ UNCHANGED <<toolVars, rpcVars, actorVars, procVars, table, reserved,
                   victim, due>>

UnbindSweeps ==
    /\ step[Unbinder] = "sweep"
    /\ IF table = NoProc
       THEN /\ step' = [step EXCEPT ![Unbinder] = "none"]
            /\ UNCHANGED <<table, victim>>
       ELSE Begin(Unbinder, table) /\ table' = NoProc
    /\ UNCHANGED <<toolVars, rpcVars, actorVars, procVars, bound, reserved,
                   due>>

To(k, from, to) == step[k] = from /\ step' = [step EXCEPT ![k] = to]

\* actor.stop: mark the actor and interrupt what it runs.
StopMarks(k) ==
    LET p == victim[k] IN
    /\ To(k, "mark", "send") /\ Interrupt(p)
    /\ stopped' = [stopped EXCEPT ![p] = TRUE]
    /\ UNCHANGED <<mbox, gone, cur, armed, at, out, target, table, victim,
                   stopRest>>

\* The stop message queues behind what is there.
StopSends(k) ==
    LET p == victim[k] IN
    /\ To(k, "send", "await") /\ Len(mbox[p]) < MailboxCap
    /\ mbox' = [mbox EXCEPT ![p] = Append(@, Stop)]
    /\ UNCHANGED <<gone, stopped, cur, armed, intr, at, out, target, table,
                   victim, stopRest>>

Killed(k) ==
    /\ step' = [step EXCEPT ![k] = "none"]
    /\ victim' = [victim EXCEPT ![k] = NoProc]
    /\ IF k \in Rpcs THEN Answer(k, "ok") ELSE UNCHANGED <<at, out, target>>
    /\ UNCHANGED <<toolVars, ctx, known, actorVars, tableVars, due>>

\* Variant: an actor that did not stop in time keeps its process.
StopKills_OnlyIfGone(k) ==
    /\ step[k] \in {"send", "await"}
    /\ os' = IF gone[victim[k]] THEN [os EXCEPT ![victim[k]] = "exited"]
             ELSE os
    /\ Killed(k)

\* The process is closed when the actor is gone, and also when closeTimeout
\* ran out while the message waited for room or the actor for its end.
StopKills(k) ==
    /\ step[k] \in {"send", "await"}
    /\ os' = [os EXCEPT ![victim[k]] = "exited"]
    /\ Killed(k)

-----------------------------------------------------------------------------
ToolNext ==
    \/ \E s \in Starters : StartClaim(s) \/ StartFill(s) \/ StartFails(s)
    \/ \E c \in Users : \/ \E m \in Uses : Use(c, m) \/ UseReturns(c, m)
                        \/ WaitEnds(c) \/ WaitDrops(c)
    \/ \E c \in Closers : Close(c)
    \/ \E c \in Killers : CloseReleases(c) \/ CloseReturns(c)

StartHandler(s) ==
    StartReserves(s) \/ StartLaunchFails(s) \/ StartRegisters(s)
OpHandler(r) ==
    CancelLands(r) \/ OpArrives(r) \/ InlineReadEnds(r) \/ Enqueue(r) \/ Abandon(r)
Actor(p) == Pop(p) \/ Arm(p) \/ Finish(p)
Stopping(k) == StopMarks(k) \/ StopSends(k) \/ StopKills(k)

ChildNext ==
    \/ \E s \in Starters : StartHandler(s)
    \/ \E r \in ActorRpcs : OpHandler(r)
    \/ \E c \in Killers : ReleaseArrives(c)
    \/ \E p \in Procs : Actor(p) \/ ProcessExits(p) \/ ExitPublished(p)
    \/ ReaperLists \/ ReaperTakes \/ Unbind \/ UnbindSweeps
    \/ \E k \in Stoppers : Stopping(k)

Next == ToolNext \/ ChildNext

Spec == Init /\ [][Next]_vars

\* The steps that are always taken in the end: the goroutines of the child
\* and of the tool run on, frames and cancels arrive, and closeTimeout ends a
\* Close that hears nothing. Nothing makes a process exit, a caller give up
\* a read or a wait, a reaper's turn come or the model make a call. Every
\* behaviour has finitely many steps, so one weak fairness of the union asks
\* for no less than one for each.
Progress ==
    \/ \E s \in Starters : StartHandler(s) \/ StartFill(s)
    \/ \E r \in ActorRpcs : OpHandler(r)
    \/ \E c \in Killers : ReleaseArrives(c) \/ CloseReleases(c)
                           \/ CloseReturns(c)
    \/ \E c \in Users : UseReturns(c, "read") /\ UNCHANGED ctx
    \/ \E p \in Procs : Actor(p)
    \/ \E k \in Stoppers : Stopping(k)
    \/ UnbindSweeps

FairSpec == Spec /\ WF_vars(Progress)

-----------------------------------------------------------------------------
(* Properties                                                               *)

\* Call c is in remoteSession.Close of p, or its release still travels.
Closing(c, p) ==
    /\ aim[c] = p
    /\ pc[c] \in {"terminate", "release"} \/ at[<<c, "release">>] = "sent"

\* The start of p was given up by its caller before the answer came.
Orphaned(p) == ctx[<<p, "start">>] # "live"

Stopped(p) == \E k \in Stoppers : victim[k] = p

\* Two starts, closes of a claim and late waits never leave a registered
\* process that runs with nothing pointing at it (session.go:213-219): the
\* slot of its own epoch holds it, or its start has not come back, or a
\* close of it is under way. Only a start whose caller gave up is outside.
NoStrandedProcess ==
    \A p \in Procs : os[p] = "running" /\ bound /\ ~Orphaned(p) =>
        \/ slot = p \/ pc[p] = "start" \/ Stopped(p)
        \/ \E c \in Killers : Closing(c, p)

\* In the child every running process is in the table, or in the hands of
\* exactly one stopEntry (server_processes.go:103, "an entry is never
\* dropped twice").
ServerOwnsProcess ==
    \A p \in Procs :
        /\ os[p] = "running" => table = p \/ Stopped(p)
        /\ \A j, k \in Stoppers : victim[j] = p /\ victim[k] = p => j = k
        /\ table = p => ~Stopped(p)

\* A release answers "released" only when the process it took has been
\* killed, however busy its actor was (stopEntry, server_processes.go:539).
ReleaseLeavesNothing ==
    \A c \in Killers : LET r == <<c, "release">> IN
        at[r] = "stopping" /\ at'[r] = "answered" => os'[victim[r]] = "exited"

\* The reservation keeps a start from registering over an entry
\* (session.starting, server_processes.go:89).
RegistersIntoFreeSlot == table' # table => table = NoProc \/ table' = NoProc

\* What a child and its tool may rely on at any moment: a process that runs
\* has exactly one owner in the child, and somebody of the tool to close it.
ProcessesKept == TypeOK /\ NoStrandedProcess /\ ServerOwnsProcess

\* An id passes from one process to the next only over an empty slot, and a
\* release that took a process ends with its death
\* (server_processes.go:133-160, 536-560).
HandoverIsClean == [][RegistersIntoFreeSlot /\ ReleaseLeavesNothing]_vars

\* Teardown kills what was registered when it swept the session; only a
\* start whose handler had passed the bound check can register later.
Swept(p) == step[Unbinder] = "sweep" /\ table = p
Dead(p) == os[p] # "running"
UnbindKills == \A p \in Procs : Swept(p) ~> Dead(p)

\* A session whose Close began is killed: the release that follows the
\* forced terminate does not depend on its outcome (runner.go:679-697).
Late(p) == ~bound /\ table = p
CloseBegan(c, p) == pc[c] = "terminate" /\ aim[c] = p
ClosedSessionDies ==
    \A c \in Killers, p \in Procs : CloseBegan(c, p) ~> (Dead(p) \/ Late(p))
=============================================================================
