# TLA+ models of OpenCraft

A TLA+ development of the concurrent core of OpenCraft: modules that model
components of `internal/`, TLC configurations that check them on small
instances, and proofs that TLAPS checks for every value of the constants.
`PROJECT.json` maps every definition to the lines it models, and lists the
runs, the mutants, the hazards and the theorems.

Contents: 1 the system · 2 what is hard about it · 3 the modules · 4 the runs ·
5 the proofs · 6 where code and comments disagree · 7 what is not modelled ·
8 the plan.

## 1. The system

OpenCraft is a desktop coding agent. One process serves a window (Wails), a
second one may serve the command line, and automations start turns in the
background. A *Host* (`internal/orchestration/host`) is the assembled runtime of
one workspace: the third-party engine (flowcraft), its tools, and the session
store. The components that are modelled, with the state each keeps and its
operations:

| component | state | operations | talks to |
|---|---|---|---|
| Host pool (`host/pool.go`, `build.go`, `replacement.go`, `handle.go`) | `Manager.hosts`, `retiring`, `assembling`, `armed`; per Host `stale`, `closing`, `closed`, `closeDone`, `runs`, `titleWG` | Acquire, Ensure, Invalidate, ScheduleReplacement, Host.Close, doClose | desktop core and headless call it; engine, session store |
| Session store pool (`host/stores.go`) | `Manager.stores` with reference counts, `openMu` | OpenSessions, ReleaseSessions, the search backfill | SQLite handle per root |
| Conversation (`host/run.go`, `title.go`, `reflow.go`) | `Host.runs`, `deleting`, `deleted`, start locks | StartRun, Run.settle, CancelRun, DeleteConversation, auto-title, delegation note | engine session, store, prompt broker |
| Crash recovery (`host/recover.go`, `checkpoint.go`) | `Manager.recovered`, `leases`; on disk the checkpoints | claimRecovery, the pass, dropRunCheckpoint | store, advisory lock of the workspace |
| Session rows (`capabilities/sessions`, `sessions/state/archive.go`, `host/fork.go`, `import.go`) | conversations, archived turns, usage, retired ids | commits, notes, forks, imports, deletes | SQLite, `importMu` of the Host |
| Checkpoint journal (`sessions/state/checkpoint_journal.go`) | base row and chain of deltas of a run | WriteBase, Append, Load, Delete | the engine's checkpoint store, recovery |
| execd processes (`tools/exec`, `execd/client.go`, `server*.go`, `actor.go`) | the tool's slots, the child's sessions and tables, a mailbox per process | start, read, write, wait, terminate, release, reap, unbind | operating system, sandbox |
| execd pool (`execd/pool.go`, `runner.go`) | idle children, leases, settings; per runner the child it is bound to | Lease, Release, Apply, Close, the janitor, the watchdog | launches of children |
| Process feed (`sandbox/processes.go`) | per tapped process a tail and a cursor | drain, salvage, evict, Close | the session's output log |
| Automations (`capabilities/automations`) | `pending`, `running`, `active`, the task and run tables | Tick, RunNow, CancelRun, SaveTask, DeleteTask, Stop, Reconcile | Hosts, through a runner |
| Steering (`host/steer.go`) | the ledger of queued sizes | SteerRun, the observer of the stream | the engine's queue |
| Prompts (`orchestration/interact`, `desktop/core/prompt.go`) | bound turns, pending questions | BindTurn, UnbindTurn, Ask, Resolve, Answer | engine prompts, window |
| Stream delivery (`desktop/core/stream.go`, `shell.go`, `subagents/streams.go`) | the buffer with its timer, the live sinks | emit, flush, the barrier, StartTurn, reload | window |
| Post-turn review (`capabilities/review`, `memory/userstore`) | candidates, the capped memory | review, accept, discard, SetStale | store, window |
| Plugin registry (`capabilities/plugins`, `desktop/core/plugin_refresh.go`) | plugin directories, snapshots, the switch, the revision | install, update, rollback, uninstall, enable, refresh | runtime of the desktop |
| Plugin processes (`plugins/kraft`) | the table of processes, pending requests | Invoke, Stop, Cleanup, Shutdown | the plugin's child process |
| Persistent subagents (`capabilities/agents/lifecycle.go`) | declarations on disk, known names, the runtime's registry | create, update, remove, LoadMissing, reload | runtime |

The rest of the repository (configuration, migrations, tools, skills, policy,
telemetry, the window's user interface and its bindings, the headless command) is
listed in section 7.

How they meet: the desktop core asks the pool for the Host of a workspace and
starts a turn on it; the turn streams through the delivery buffer, asks through
the prompt broker, takes steering, runs commands through a runner leased from the
execd pool, writes a checkpoint per wave into the journal and one archive row at
its end; recovery turns what checkpoints a dead process left into archive rows; a
review reads the archived turn. A change of the configuration or of a plugin
invalidates the Host and the pool replaces it when its last run has ended.

What makes each of them correct:

- **Host pool**: one Host per workspace at any time; a stale Host is torn down
  when its last run ends, and never under a run, a title or a guest; every
  caller that waits for an assembly or a teardown comes back.
- **Session store pool**: one open handle per root; a reference keeps it open;
  the search index is complete once it says so.
- **Conversation**: automations never interrupt a turn; a deletion waits for the
  runs and nothing brings back what it deleted; a turn is in the archive or has
  a checkpoint; a question of a running turn gets its reply while its caller waits.
- **Crash recovery**: no crash loses a turn that left a checkpoint once its
  conversation is on record; no pass
  touches the running turns of the process that holds the workspace; a pass
  reports what it leaves.
- **Rows and journal**: a turn is archived once and counted once, an import is
  whole or not there; base and deltas behave as one record.
- **Processes**: a running command always has somebody who will stop it, an id
  passes on only when its process is dead, output is not lost; a child has one
  owner and the pool keeps to its slots.
- **Automations**: each occurrence is queued once, at a time its schedule
  promises, and its record is settled once.
- **Input and output of a turn**: the budget of queued messages holds but for calls
  that cross, an answer never blocks the window, the window gets the deltas of a turn
  in order and before its end.
- **Plugins and agents**: some copy of a plugin survives a failed update, no
  mutation escapes the revision, a process answers its own callers and none is out of
  reach that did not close its own output; after a failed step the runtime never
  runs a version other than the declared one.
- **Review**: a fact enters the memory only when a suggestion of it was read by an
  accept, and it is proposed once as far as a review read back what it proposed.

## 2. What is hard about it

Locks are held for short sections (`Manager.mu`, `Host.mu`, the registry's `mu`)
and everything else runs between them. So the hazards are mostly *interleavings*
and *stale answers*: a caller asks whether a Host is closing and uses the answer
later; two starts decide about one conversation; a title arrives after a
deletion; a walk inserts what a writer has deleted; a tool closes a slot whose
launch is in flight. *Ordering* matters in teardown (titles before the runtime,
runs before the store), settling (archive before checkpoint) and delivery (text
before the event that ends it). *Crashes* matter where disk state is written in
several steps: checkpoints, the search backfill, deletion, imports, the renames
of a plugin. *Other processes* share the disk. *Callers that give up* leave work
behind: a request in a mailbox, a handshake, a launch, a turn whose `Wait` was
cancelled. *Liveness* hangs on
somebody else: followers on the leader of an assembly, Acquire on a teardown, a
deletion on the runs it cancels, a queued task on a run that ends. `PROJECT.json`
lists each hazard at its line with the property that covers it.

## 3. The modules

Each section of code under one hold of a lock, each SQL transaction and each
call into the engine is one action; what runs between two of them interleaves
with everything else. Operators whose name has an underscore
(`Settle_DropsAlways`) are deliberate mistakes: each shows that a property of
the runs would notice it, and no specification uses them.

### `HostPool` (refines `HostGenerations`)

One workspace of `Manager`. Processes are windows (`Runtime.Do`: Ensure,
StartRun, retry while the Host is closing), guests (headless: Acquire, StartRun,
`Host.Close`), reloaders (`Core.RebuildRuntime` after the document changed) and
the watcher of `ScheduleReplacement`; each Host has a thread for
`closeWhenDrained`/`doClose`, and turns leave titles behind. `pooled`, `refs`,
`configured`, `retiring`, `assembling` and `armed` are the manager's fields for
the workspace. `stage` says how far the teardown of a Host has come; `closing`,
`closed` and `closeDone` are functions of it. `doc`/`cfg` are generations of the
configuration on disk and of the one a Host was assembled from.

`HostGenerations` is what the pool promises: Hosts serve one after the other;
none starts before the teardown of the last one ended, none comes back.

Abstracted: the engine's turns are not tracked apart from the drain, which its
budget (`hostDrainBudget`) may cut short, so a drain may end at any time;
`InvalidateAll` is `Invalidate` of one workspace; the branch of `assembleShared`
that discards a Host because another one was installed is left out, because
`HostsTakeTurns` shows that an install finds an empty pool.

### `SessionStores`

`acquireStore` (hit, miss, `openMu`, recheck, open, migrate, install),
`releaseStore`, the calls of the desktop that borrow the live Host's store, and
the search backfill of each handle: it reads a batch of archive rows, inserts
it in a later transaction, and records its version at the end, while turns are
archived and conversations are deleted. A crash closes every handle. A message
id stands for a message with text to index. `VACUUM` and the query side are left
out. A transaction under way when the handle closes may still commit.

### `Conversation`

The life of one conversation in one process: `StartRun` step by step (first
look at the tombstone, start lock and conflict decision, fresh setup, engine
session, turn, seed title, prompt broker, second look and registration), the
turn (waves, cancel, archive observer, a question), `Run.settle`, `DropRun`,
`DeleteConversation` with each of its failures, the purge of a repeated deletion,
the automatic title, the delegation note of `reflow.go`, and a new Host that has
forgotten everything in memory (`Rehost`). The engine's session is external: a
start interrupts the turn that runs, `DeleteSession` waits for turns. The
foreign key from `archive_turns` to `conversations` is part of `ArchiveTurn`: it,
not the earlier look at the retired id, refuses a turn that ends after the rows
went. Ids minted by `StartRun` are not contended and are left out.

`Impatient` are the starts whose caller may give up: the context of their `Wait`
fires and `Run.settle` runs its whole release - the run leaves `Host.runs`, the
broker forgets the turn - while the turn itself goes on (`Waited`, pinned by
`host/wait_cancelled_test.go`). `LeftRunning` names that turn, and every property it
is an exception of says so.

### `CrashRecovery`

The processes that share a workspace: each starts, claims the recovery of the
root once (`claimWorkspaceLock`: taken, held by a sibling, or unavailable), runs
the pass checkpoint by checkpoint (skip, unreadable, discard, recover = write
then drop, failure), serves turns that write checkpoints and settle, deletes the
conversation, and may die at any step, which releases its lock. A timestamp only
matters against `hostProcessStart`, so a process keeps the set of runs that
wrote a checkpoint since it started. `Lockless` are processes on a filesystem
where the lock cannot be taken. Of the conversation only what meets recovery is
kept: one row, one directory, the retired id, the archive rows. A start is cut where
a crash makes a difference: the turn runs first (`StartRun`), then the row of a fresh
conversation is written or its write fails (`SeedTitle`, `SeedFails`), and the rollout
makes the directory (`OpenRollout`). The list of checkpoints may fail as a whole
(`ListFails`). The finer steps of a start, a settle and a deletion are in
`Conversation`.

### `SessionArchive`, `CheckpointJournal` (implements `RunRecord`)

`SessionArchive` is one action per SQL statement or transaction: `Ensure` (the
conversation row), `InsertTurn` (the turn with its dedupe on the run id and the
message count), deletion, a fork (list, create, copy, settings, clean-up), an
import (begin, find, row, turns, publish, forward the usage once) and the
read-add-write of the usage row under the store's mutex. The process may die
between any two.

`CheckpointJournal` is the base row of a run and its deltas, the cap of the
chain, deletion, and the two queries of a reader (base, then deltas) on the
snapshot of its first one; the engine answers `ErrNeedsBase` with a base, dies
and resumes. A delta leads from one boundary to the next, and a record folded
from a delta that does not fit is `Mixed`. `RunRecord` is the promise: at most
one record, it only grows, a reader gets a boundary or nothing.

### `ExecSessions`, `ExecPool`, `ProcessFeed`

`ExecSessions` follows one `exec_session` id from the slot of the tool, over the
calls of the remote session (start; read, wait, terminate and the writes; the
forced terminate and release of a close) to the child's handlers and the actor
of a process: mailbox of `MailboxCap`, one operation at a time, interrupts,
the stop message, the grace of a terminate, the reaper of exited processes and
the unbind of the session. A request is a pair of call and method: a caller that
gives up goes on while the child still works for it. The process a starter
launches has the starter's name, so a process that outlives its id is visible.

`ExecPool` is the pool of children with its janitor (prewarm, reap, trim) and
the runners, whose watchdog stops a child that does not answer and installs
another while `Close` may be under way. A child is a slot that is used again
when its process was stopped. `ProcessFeed` is the drain and the close-time
salvage of one tapped process over one cursor; output is numbered by chunk. A read of
the salvage may fail at any time, for its error, its window or its budget, and the
handle is closed all the same (`short` instead of `over`).

### `Automations`, `Schedules`

`Automations`: the scan (list, look, advance, queue, each a step), manual runs,
dispatch within `Limit`, the run through its row, deadline, cancel, verdict and
the two writes that persist it, `Stop`, the death of the process and
`Reconcile`, which may fail without keeping the loop from starting (the runs whose
rows it leaves are `left`). `Schedules`: the four scans for the next occurrence as the code
does them, compared with what the modes promise (`NextIsFirst`), and the trigger
over saves, ticks and gaps (`PhaseKept`). Time is clock readings, two of them a
day.

### `Steering`, `Prompts`, `StreamDelivery`, `ReviewQueue`

What goes in and out of a turn. `Steering`: the check of the budget under the
lock, the engine's queue outside it, the record afterwards and the
reconciliation from the stream; `crossed` remembers that two calls overlapped, or that
a message came between an observer's read of the queue and its cut, since the queue
was last empty. `Prompts`: the questions of one turn from the engine's prompt to the
window and back, the late bind, the unbind of a turn that is over or whose caller left
it, the closing Host. `StreamDelivery`: the buffer that folds adjacent deltas with its timer,
limits and barrier, the registry of live sinks, their closing, delegated runs
that outlive their turn, turns that outlive their caller and stream on after their
`turn_end` until their sink closes, and the reload of the document. `ReviewQueue`: the
cadence of reviews, the facts known when one begins - the list of earlier
suggestions may fail and is capped - the queue of suggestions, accept and discard as
read, write and mark, and the capped memory with retire and revive.

### `PluginRegistry`, `Kraft`, `AgentLifecycle`

`PluginRegistry`: one plugin on the disk (`dir`, `backup`, `pending`, `old`,
`discard`); installs and updates are staged outside the lock and renamed under
it, every rename may fail, the one that should put the plugin back included
(`astray`), and the process may die at it; the revision and those who read it (the
refresh of the runtime, the cached scan of the agent). `Kraft`: the shared process of
one plugin with its callers, handshake, read loop, exit watcher, `Stop`, `Cleanup`,
`Shutdown`. A write to a process that reads nothing never returns while the process
lives (`Stuck`), and a process of `Odd` may close its output and live on, after which
nobody stops it (`Unreachable`). `AgentLifecycle`: one declared subagent through
create, update with its restore, remove, cold start and in-place reload; every
registration may fail, those of a start and of a reload too.

### MC modules

There is one MC module per kind of question, not per component: components that
share no state are checked in one run. A variable `part`, chosen in the initial
state and never changed, says which machine a behaviour is one of; the module
that is extended has its own variables, the others are instances whose variables
are the slots `v1`, `v2`, ..., and what a machine does not use holds a constant.
The behaviours of such a run are therefore those of the machines, one at a time:
no interleaving of one machine is lost and none is added. A property of a
machine is stated for the states, or the steps, of its part.

## 4. The runs

| run | machines (`part`) and instance | shows |
|---|---|---|
| `desktop` | `hosts`: three Hosts, a window, a guest, a reloader, the watcher, two document changes; `guests`: two guests, a reloader, one document change; `registry`: two callers, one face, one failure (a rename, and with it possibly the one that would undo it), one death; `one`, `next`, `shared`: a plugin with one or two processes, one or two callers, a stopper, a process that closes its output; `agents`: three calls, one failure, two restarts | `TypeOK`, `HostsTakeTurns`, `TitleKeepsRuntime`, `RunKeepsStore`, `GuestsKeepHost`, `PluginsAreWhole`, `AgentsConsistent`; the pool implements `HostGenerations` |
| `services` | `pool`: two runners, three children, small and large settings; `manual`: two tasks started by hand, two runs, one slot, one death; `moved`: one task whose trigger moves and that is started by hand, two runs; `saves`: one task, two saves or deletions, its trigger moves, one death; `times`: the four modes over 18 days, one edit | `ChildrenAccounted`, `AutomationsKeepTime` |
| `commands` | `session`: two starts, a call, a close, a mailbox of one; `feed`: four chunks and a trim | `ProcessesKept`, `HandoverIsClean`, `OutputIsKept` |
| `exec_live` | `session`: one of each call, all but the user may give up, fairness (that such callers keep `ProcessesKept` and `HandoverIsClean` is proved for every `Impatient`); `stores`: two openers of one root | `ClosedSessionDies`, `UnbindKills`, `StoreOpens` |
| `live` | `pool`: a window with two calls, a reloader; `turns`: a start whose caller may give up, two deletions; `plugins`: a caller, a stopper, two processes, one of which may close its output and live on, each of which may read nothing; fairness | `StaleRetires`, `EveryCallReturns`, `DeletedTurnStops`, `DeletionReturns`, `PluginsLetGo` |
| `stores` | one root, two handles, two openers, a borrower, three old and one new message, batches of two | `TypeOK`, `OneOpenHandle`, `ReferencedIsOpen`, `RecordedIsComplete` |
| `turns` | `conversation`: a start that preempts, asks and may lose its caller, one that steps aside, a deletion; `archive1`, `archive2`: two archivers of one run, a usage writer, with a fork and an import or with two imports; `journal`: two readers, cap two, five boundaries, two deaths; `streams1`, `streams2`: two turns with a delegated run, or one of them with a caller that gives up; `prompts`: two questions, three clicks; `steer`: two submitters and an observer; `review`: one conversation, two facts, two pages, a list of one | `TypeOK`, `DeletionAwaitsRuns`, `RetiredIsGone`, `PoliteNeverPreempts`, `TurnKeepsTrace`, `RunningTurnIsAnswered`, `ArchiveIsWhole`, `JournalIsRecord`, `WindowGetsTheTurn`, `InputReachesTheTurn`, `MemoryIsChosen` |
| `recovery` | three processes (one lockless), two runs (one without messages), cap one | `TypeOK`, `TraceSurvives`, `HolderIsNotRecovered`, `PassSettles` |
| `stores_doc_index` | one handle, two messages | violates `IndexMirrorsArchive` (section 6) |
| `conv_doc_retry` | two starts, one deletion | violates `RetiredNeverStarts` (section 6) |
| `recovery_doc_sibling` | three processes, one run | violates `LiveIsNotRecovered` (section 6) |
| `processes_doc_once` | four chunks and a trim | violates `AppendedOnce` (section 6) |

The properties that carry several formulas of one machine say in their comment
and in their body which: `PluginsAreWhole` is `SwapIsNewer`, `RollbackKept`,
`SomeCopySurvives`, `RevisionCovers`, `FreshRead` and `CallerIsCovered` of the
registry and `AnswerIsMine`, `NoStray` and `ShutdownIsFinal` of the processes, and
so on. Each formula is defined, and commented, in the module it is about.

Bounds, and why they are enough. Every bound is a constant: `MaxCalls` (calls of
a process), `MaxDoc` (document changes), `MaxBoots` (starts of a process), `MaxId`
(messages archived), `MaxCrashes`, `MaxFails`, `MaxEdits`, `MaxDeletes`,
`MaxSubmits`, `MaxDeltas`, the sizes of the sets. `MaxAttempts`, `Batch`, `Cap`,
`MailboxCap`, `Depth`, `MaxFolded`, `MaxItems`, `Limit` stand for limits of the
code and are small so that the limit is met. Three Hosts with two document changes
let a Host be pooled, retire and be replaced while the watcher of the first
replacement is armed; two guests are what a reference count needs to go wrong.
Two handles of one root give a walk that outlives its handle beside the walk of
the next one; four messages in batches of two give a full batch, a partial one and
a last empty scan. Two starts and one deletion meet in every pair of steps; two
deletions are what the "already in progress" refusal needs. Three processes give a
holder, one that was refused and a successor; a restart of a process is a further
process, so `MaxBoots` is 1. Cap 1 with two checkpoints leaves one pending. Two
starts of one id give a process beside its successor, and a mailbox of one makes
every further request wait at its limit. Three children for two runners leave one
to prewarm, to retire and to swap in. A cap of two and five boundaries let a chain
fill, be rebased and grow again. What does not depend on the bounds is proved.

Symmetry is used only in runs without liveness, over sets that only occur as
interchangeable members: Hosts, starters, runners and runs, children, openers,
handles, processes, archivers, readers, prompts. `CHECK_DEADLOCK FALSE` stands where the system may stop: all
calls made, all processes dead.

Fairness. Weak fairness of a thread's next step: a goroutine that can run does.
Nothing is owed by the environment: nobody must make another call, change the
document, answer a prompt, cancel, or end a command. Turns and titles end: in
`HostPool` every turn does, because the graph has a run timeout and a title call a
deadline; in `Conversation` only a turn that was told to stop, which is what the
engine does with a cancelled context, so `DeletionReturns` rests on the deletion's
own cancel; it excepts the time in which a turn lives on that its caller left, because
the deletion cancels registered runs only. Nor must a caller give up: the end of the
turn ends the wait (`SettleGoesOn`). In `ExecSessions` the steps of the child's handlers, of the actors and
of those that stop processes are fair (`Progress`), the caller's patience is not.
In `Kraft` the callers, the loops of a process and the shutdown are; whether a plugin
reads, answers or dies is not. `PluginsLetGo` rests on the deadlines of the calls, and
excepts what has none: a caller in its write is fair only once the process is dead
(`process.write` has no deadline), and `Shutdown` waits for a process it cannot stop.
 Strong
fairness only for the mutexes (`openMu` in `LockOpen`, the start lock in
`TakeGate`/`Busy`): Go's `sync.Mutex` hands a waiter that starves for a
millisecond the lock.

## 5. The proofs

Each proof follows one argument: an inductive invariant whose conjuncts are
named for what they say, one lemma per conjunct with one step per action, and
one theorem per property. The assumptions are the `ASSUME`s of the modules
(`PoolAssumption`, `GuestsAssumption`, `ExecPoolAssumption`,
`ExecSessionsAssumption`, `StoresAssumption`, `ConversationAssumption`,
`RecoveryAssumption`): sets are disjoint where the roles are, null values lie
outside the sets, bounds are natural numbers, sets that are counted are finite;
the numbers of callers, Hosts, handles, roots, messages, starts, deletions,
processes, children, requests and turns are arbitrary. Machines that are only used
as instances carry theirs as hypotheses of their theorems: `JournalBounds`,
`StreamNames`, `SteerAssumption`, `ArchiveNames`, `AutoAssumption`,
`ClockAssumption` and the ones named below. They say the same kind of thing - roles
are disjoint, bounds are natural numbers - except one that limits its theorem:
`OneFailure` of the subagents.

- **`HostPoolProofs`**: `Typing`, `OneHostServes` (`HostsTakeTurns`),
  `StoreOutlivesRuns` (`RunKeepsStore`), `TitlesKeepRuntime` (`TitleKeepsRuntime`),
  `Refinement` (`ImplementsGenerations`), `GuestsKeepTheirHost`.
  `HostsTakeTurns` is not inductive: one must know where an occupied Host is
  (`Tracked`: pooled, retiring, or in the hands of the leader), that only one
  leader builds and finds nothing pooled (`OneLeader`, `BuildsAlone`,
  `FreshIsPrivate`), and what a thread about to close a Host knows. That a guest
  keeps its Host (`GuestKeepsHost`) needs that the references of the pooled Host
  cover the guests that follow it (`GuestsFollow`, `RefsCover`): the reference is
  counted when the Host is found or installed, before the guest has it.
- **`ExecSessionsProofs`**: `Invariance`, `ProcessesAreKept` (`ProcessesKept`),
  `HandoversAreClean` (`HandoverIsClean`). The invariant has four parts. `Child`:
  a process is launched once, by its own start; who stops it holds it; the table,
  the launch, a release, the reaper or the unbind owns what runs. `Queues`: where
  the request of a call can be (nowhere, in one mailbox, with one actor, answered),
  and that a stop message is the last thing its actor takes. `Tool`: a call's
  requests follow each other, a closed slot's process is launched or still has its
  start, a start that is waited for is under way, a wait that answered has seen the
  exit. `NoStrandedProcess` closes the loop between the two sides. The effects of
  every action on each variable are stated once, per element (`RequestsMove`,
  `BoxMoves`, `ProcAges`, `ToolFrame`), and the lemmas of the conjuncts use only
  those.
- **`ServiceProofs`**, the pool of children and, as instances, the automations:
  - *Pool of children*: `Invariance`, `ChildrenAreAccounted` (`ChildrenAccounted`). A
    live child is idle, held by one runner or in the hands of the janitor
    (`LiveHeld`, `HeldLive`, `IdleApart`, `PlacesApart`); what a runner's step says
    fits what it holds (`StepsFit`, `BoundFit`); so the slots are those of the pooled
    children and a closed pool keeps none.
  - *Automations*: `OccurrencesRunOnce`, `QueueServed`, `SettledStays` (an action
    property). An occurrence that is queued or runs is one its task has moved past
    (`UsedAreSpent`), what a scan has listed is one nobody uses (`ListedAreUnused`),
    and no two entries or runs are of one occurrence (`UsedOnce`): advancing the row
    before queueing is what carries an occurrence from the second part to the first.
    A process that is down holds nothing (`AutoQuiet`), the record of a run follows
    its step (`RecordsFollow`), and whoever frees a slot or adds to the queue is
    itself a dispatcher (`Served`).
  - *Schedules*: `TriggerIsFirst` (`NextIsFirst`), `PhaseStays` (`PhaseKept`). For
    each mode the scan is first reduced to its least hit (`HourlyScan`, `DailyScan`,
    `WeeklyScan`), then every promised time is shown to be the candidate of some
    index and the candidates to come in the order of their indexes (`DaysInOrder`),
    so the least hit is the first promised time (`HourlyFirst`, `DailyFirst`,
    `WeeklyFirst`). A daily scan always has a hit; an hourly or a weekly one may have
    none, and then no promised time lies within the look-ahead (`TickTimes`).
    `QueueServed` also says of a row that says running that its run is on its way, its
    last update failed, or a `Reconcile` failed on it.
- **`SessionStoresProofs`**: `StoresTyping`, `OneHandlePerRoot`,
  `ReferencesKeepOpen`, `BackfillComplete`. The count equals the openers that use
  the root (`Counted`), an opener past the lock owns it and its root is not
  pooled. A walk has indexed everything up to its position, and what is archived
  later is indexed by its writer. `SessionArchive` is an instance: `DeletedStaysGone`,
  `ImportsAreWhole`, `UsageIsCounted`. What each writer still has to write and where
  (`Steps`, `Targets`), who holds `Store.mu` (`MuHeld`), that an id is fresh until its
  row is made (`Minted`), that a conversation without a row has nothing (`Gone`) and
  how far an import is (`Importing`). A total is counted, not summed: it equals the
  number of adders and of imports that wrote to the row, and whoever is about to
  write holds the present total (`UsageInv`).
- **`ConversationProofs`**: `ConversationTyping`, `AutomationsStepAside`,
  `DeletionAfterRuns`, `DeletedForGood`, `CheckpointsLast`, `RepliesReachTurns`
  (`RunningTurnIsAnswered`). The start lock is held by the start that decides
  (`LockHeld`), so a start that steps aside goes on only while no run is registered
  (`PoliteAlone`) and every live turn is registered, belongs to the holder, or was left
  by its caller (`LiveIsKnown`), which is the exception that `AutomationsStepAside` and
  `RepliesReachTurns` state; one deletion at a time has marked the conversation
  (`OneDeletion`); a registered run is bound to the broker until it settles
  (`BoundRuns`).
- **`CrashRecoveryProofs`**: `RecoveryTyping`, `RecoveryLosesNothing`
  (`TraceSurvives`), `HolderIsLeftAlone` (`HolderIsNotRecovered`), `PassAccounts`
  (`PassSettles`). The argument: whoever recovers holds the lock or cannot reach
  it (`PassLocked`) and the owner of a live turn has finished its own pass
  (`OwnersServe`), so holder and recoverer differ only if the lock is broken; a
  checkpoint is dropped after its turn was written (`WrittenFirst`); a
  conversation that is on record is discarded only when it is retired, and
  `TraceSurvives` speaks of the turns of one that is on record; and each checkpoint a pass has not
  settled is still on its list or reported (`Accounted`).
- **`TurnProofs`**, three machines of a turn as instances:
  - *Journal*: `AckedBoundaryIsKept`, `DeltasHaveBase`, `JournalRefinement`
    (`ImplementsRecord`). The rows are the last acknowledged boundary of the run,
    delta after delta (`ChainKept`), and an engine that will append has the board the
    rows lead to (`EngineInStep`); the snapshot of a reader keeps to that, whatever is
    written after its first query.
  - *Stream*: `WireIsArrival`, `EndIsLast`, `StreamTargets`. What is on the wire and
    what is buffered, flattened, is what arrived (`FlattenConcat`, by induction on the
    length); what is buffered has a timer, and a timer that fired a callback
    (`StreamTimer`); the registry names an open turn, the newest while it lasts
    (`StreamRegistry`); a closed sink lets each worker write once more
    (`StreamWorkers`); and a `turn_end` on the wire is the last event of a turn that
    is over (`EndsLast`), unless its caller left it, which is for good (`LeftStays`).
  - *Steering*: `SteeringIsBounded`, `DrainFrees` (an action property) and
    `BudgetHolds`, all for any submitters and observers. Until two calls overlap or a
    message crosses an observer's cut, and again from the next empty queue on
    (`Uncrossed`), one call at a time is between its check and its record
    (`OneSubmits`), the queue is the newest part of the ledger with the message about
    to be recorded (`LedgerHolds`, `Newest`), what was checked against the budget still
    fits (`CheckedFits`), and an observer about to cut has read all that is queued
    (`ReadsCover`). The total is a fold: that it adds up over a
    concatenation is proved by induction on the length.
- **`DesktopProofs`**: six machines as instances over one list of names; the
  constraints on the constants are the hypotheses `KraftNames`, `RegistryNames`,
  `ReviewBounds`, `OneFailure` and, of the feed, that nobody who reads is called
  `"drain"`.
  - *Plugin process*: `KraftTyping`, `AnswersReachTheirCall`, `NoProcessStrays`,
    `ShutdownEndsAll`. That no process strays has one exception, which the theorem
    names: a process that closed its output and lives on (`Unreachable`). A number is
    below `nextID` (`NumbersBelow`), an entry and a
    request under one number are of one caller (`RequestsMatch`), and a caller about
    to write owns its number (`WritersOwn`, `WritersApart`); the watcher of a process
    goes on only when it is dead (`KraftWatch`).
  - *Registry*: `RegistryTyping`, `SwapsGoForward`, `RollbackSurvives`,
    `PluginSurvives`, `RevisionIsMoved`, `ReadsAreFresh`, `RefreshCoversCaller`. The
    invariant says of the holder of `Store.mu` what each directory holds at its step
    (`StepsTell`), that the content is what the revision was told or would be after
    the rename is taken back (`MovesAreTold`; when taking it back failed, the plugin is
    gone from its place and nothing else has changed), and what each pass of a refresh has
    covered of its caller's mutation (`LoopCovers`).
  - *Prompts*: `PromptsTyping`, `AnswersNeverBlock`, `OpenPromptsAreAnswerable`,
    `DroppedRepliesAreLate`. A prompt has one answer, which is in its entry, with the
    `Answer` that took it, or in the channel (`OneAnswer`); the reply to an open prompt
    is dropped before the bind or after the unbind of a turn its caller left.
  - *Review*: `ReviewTyping`, `FactsAreProposedOnce` and `VerdictsAreFinal` (action
    properties), `AcceptedFactsWereWritten`, `MemoryKeepsItsCap`. A review that
    queues knows every row of its conversation but those it did not read back
    (`QueuesKnow`), a call marks the row
    whose fact it wrote (`MarksWritten`); the fact of a discarded row is written only by
    an accept that had read the row before (`DiscardedStaysOut`); the cap is proved by counting: a revival
    adds one fact and one call that is over (`CapStep`).
  - *Declared subagent*: `AgentTyping`, `AloneAgentsAgree`, for at most one failing
    step (`OneFailure`), which may be one of a start or a reload: the runtime then runs
    what the disk declares, or nothing where the code reports it. When the restore of a
    failed update fails as well, the two sides differ, and the code logs that.
  - *Feed of a process*: `FeedIsComplete`, `FeedInOrder`. What the drain or the
    salvage holds between its read and its append is a stretch of the output that
    starts at the cursor it saw, and everything below the cursor is in the tail
    (`FeedReads`); a salvage that ends on an empty read of an ended process has read
    all (`FeedCloses`), and one that failed leaves no hole (`Unbroken`). Until a salvage begins the tail is the output from its start
    (`Straight`); after that a chunk may come twice, which `processes_doc_once` shows.

Only model-checked, with the reason:

- the liveness properties (`StaleRetires`, `EveryCallReturns`, `StoreOpens`,
  `DeletedTurnStops`, `DeletionReturns`, `ClosedSessionDies`, `UnbindKills`,
  `PluginsLetGo`): they need fairness and `ENABLED`, which the prover does not
  reason about;
- the properties that only collect those of several instances in one run:
  `GuestsKeepHost`, `JournalIsRecord`, `PluginsAreWhole`, `AgentsConsistent`,
  `MemoryIsChosen`, `OutputIsKept`, `InputReachesTheTurn`,
  `AutomationsKeepTime`, `ArchiveIsWhole` and `WindowGetsTheTurn`. They speak of the fixed constants of
  their run. The formulas they collect are proved of the instances one by one, in
  the theorems above.

Two things other proofs of this kind leave to the checker are proved here: what a
fold or a flattening computes, and that a scan finds the first of its hits. Both are
inductions over the numbers and go through the set-based theorems of
`NaturalsInduction` and `WellFoundedInduction` (a set of numbers that has 0 and is
closed under the successor; a set of numbers has a least), which take no operator.

## 6. Where code and comments disagree

Four statements of the repository are refuted by a run each.

1. `IndexMirrorsArchive` (`stores_doc_index`): the backfill inserts a batch it
   read earlier; a conversation deleted in between leaves index rows with the text
   of its messages, although `fts.go:4` says the index cannot drift from the archive.
2. `RetiredNeverStarts` (`conv_doc_retry`): a deletion whose file removal fails
   has already retired the id but forgets its tombstone. A start that comes only then
   finds the directory that is left, so it is not fresh and makes none of the writes
   that would be refused (`SetMode`, `SeedStartTitle`): its turn runs, and its archive
   is refused (`run.go:832`).
3. `LiveIsNotRecovered` (`recovery_doc_sibling`): a process that was refused the
   workspace lock never asks again. When the holder exits, a third process takes
   the lock and archives as interrupted a turn the second one is still running,
   if its last checkpoint is older than the third process. The real end of that
   turn is then not archived, because the run id has a row (`recover.go:331`).
4. `AppendedOnce` (`processes_doc_once`): the drain appends what it read after it
   let go of `readMu`; the salvage of a close that comes in between reads the same
   output and the tail holds it twice (`processes.go:337`).

Smaller observations, met while modelling and not given a run. Where a formula is
named, the module keeps it.

Host pool and conversation:

- `RebuildIsCurrent`: `Invalidate` marks only the pooled Host. A reload that comes
  while an assembly has already read the older document marks nothing, joins that
  assembly and is served the old configuration.
- `EveryRunKeepsStore`: `StartRun` looks at `closing` on entry only; a slow start
  may register on a Host that has released its store.
- `RunReturnsAfterTeardown`: `awaitCloseIfClosing` does not wait once `closed` is
  set, although the teardown goes on.
- `WaitClosedWaits`: `WaitClosed` returns on `closed`, before the teardown ended;
  its callers loop, so nothing follows from it.
- `ServedHostsAreWired`: `configured` is set before the configurator has run, so a
  concurrent caller may be handed a Host whose configurator is still running.
- `RefusedArmIsCovered`: an invalidation that comes after the watcher read the
  document is refused a replacement although it is not covered by it.
- `BorrowedIsOpen`: `workspaceSessions` hands out the live Host's store without a
  reference; a teardown may close it under the call.
- A question asked before `BindTurn` gets its reply dropped; the branch of
  `StartRun` that loses against a deletion never calls `UnbindTurn`.
- A cancelled `Wait` leaves a turn that runs and that no `Host.runs` knows
  (`LeftRunning`): `CancelRun` and a deletion do not reach it, so a deletion waits for
  it to its timeout; an automation finds no run and interrupts it; its questions are
  not answered; it streams on after its `turn_end` until its sink closes.
- A start runs its turn before `SeedStartTitle` writes the row of a fresh conversation.
  A process that dies in between leaves a checkpoint whose conversation recovery does
  not find, and discards.
- A retired id whose directory survived still exists for `Store.Exists`: its
  checkpoints fail to become a turn at every start and are never removed.
- `dropRunCheckpoint` says the next assembly materializes an unarchived turn; the
  pass runs once per process, so it is the next process.

Commands and children:

- The reaper takes a process by its id after it listed it, so it may take a
  successor of that id; the handle of an older session addresses by id too.
- A start whose caller gave up leaves a process registered that no tool points at
  until its session is unbound; a start that races the unbind registers in a
  session that was emptied. Requests behind the stop message are never answered,
  and a caller that gives up interrupts whatever its process is doing.
- A write is recorded as seen before it runs. A read queued behind an operation
  that waits does not return "promptly" (`session.go:115`).
- `MaxActive` "caps how many workspaces hold a pooled child at once" (`pool.go:21`)
  and can be exceeded: an idle child is handed out without a look at the cap.

Automations:

- A manual run that comes between the look of a scan and its queueing queues a
  task twice. A save resurrects a deleted task; a deletion between the read of a
  task and its run row leaves an orphan row. `CancelRun` is refused between the row
  and the active entry. A failed `UpdateRun` leaves a row running until the next
  start, and a `Reconcile` that fails at that start, which is only logged, leaves it
  until the one after (`manager.go:124`).
- The window and the tool leave `NextRunAt` zero in what they save, so "An update
  keeps the stored next trigger" (`store.go:104`) never applies to them. `Discard`
  has no caller. Hourly schedules drift.
- `Validate` sets no upper limit to `interval_weeks`, and the weekly scan ends after
  five years (`recurrence.go:130`). Beyond that `Next` fails at the last day of an
  on-week, and `Tick` pushes the trigger a day out at a time. `NextIsFirst` says that
  no promised time is nearer than the look-ahead then; the time the trigger is pushed
  to is one nobody promised.

Rows:

- After a deletion a repeated import is counted a second time by the ledger; a
  death between an import and `recordImportUsage` leaves it uncounted. A death in
  the middle of a fork leaves a visible partial fork. `Save` of the journal does not
  clear the deltas, but has no caller outside tests.

Input and output of a turn:

- `Steering`: the budget is passed in two cases, where the comments know one
  (`steer.go:114`) or none (`steer.go:91`): two calls overlap, or a message comes
  between the observer's read of the queue and its cut of the ledger
  (`steer.go:149`). The overshoot of two submitters is not bounded by one message
  (`steer.go:119`) over repeated races.
- A refused start removes the live turn's sink registration (`streams.go:4`); a
  delta that passed its check may reach the window after the end of its turn.
- `DroppedIsOver`: a reply may be dropped although its prompt is open, when it comes
  before the turn was bound (`broker.go:264`) or after a caller that gave up had it
  unbound; `DroppedIsLate` says that there is no third case. `Resolve` does not wake
  `Ask`.
- A fact whose suggestion was discarded may be in memory (`bindings/review.go:303`): an
  accept that had read the row before writes it, and an accept whose mark failed had
  written it. `DiscardedIsNotWritten` is what remains.
- A review whose list of earlier suggestions failed, or was cut at its limit, proposes
  again what was decided before (`review.go:448`).

Plugins and agents:

- A death between the two renames of an update leaves the plugin only in its
  pending snapshot, which nothing restores. A rename back that fails (`plugin.go:883`,
  `992`) leaves the plugin gone from its place without moving the revision; one that
  fails for the snapshot (`908`) leaves the last good rollback in `.old`, which the next
  update deletes. A `RemoveAll` that fails half-way changes the content without moving
  the revision too.
- A plugin that closes its output but lives is out of reach: `get` forgets it, and
  `stop` returns before the kill. Its watcher waits for it to die by itself, and
  `Shutdown` for the watcher, although it is said to be bounded work (`kraft.go:440`).
- A write to a plugin that reads nothing has no deadline (`kraft.go:713`): the budget of
  a call begins behind it, and everybody else who writes to that process waits for it.
  A stop, a cleanup or the shutdown frees them all by the kill.
- A caller whose context ends during the handshake kills a process that others share.
- Two updates at a time may leave the runtime and the declaration of an agent apart
  (`lifecycle.go:468`); a failed restore leaves a known name that `LoadMissing` never
  registers again. A registration that fails at a start or a reload leaves an agent
  declared and not live.

## 7. What is not modelled

`PROJECT.json` lists every component with its status and its reason. Out of the
models altogether are the orphan journal and the wire format of execd, the rollout
log, usage accounting beyond the rows of `SessionArchive`, memory and world state,
the compaction estimate, delegations (they run inside the engine), sandbox and
execution policy, the tools, skills and the values of a plugin, telemetry, the
configuration (a generation number in the pool), migrations, the GUI lock and
platform probes, identifiers and profiles, the wiring of the engine, of the desktop
core and of the bindings, the headless command, and the user interface. They are
sequential, generated, wrappers around the operating system, or data without
control. Within the modelled components the notes say what is left out:
`BusyWorkspaces` and `CancelAll` of the pool; the output ring and write
idempotence of execd; the history caps of automations; listing, search,
attachments and titles of the session store; the terminal status and timing of a
recovered turn; what a manifest of a plugin holds; the model's side of a review.

## 8. The plan

The components were taken in the order of what a failure would cost: the pool and
the conversation first, then recovery and the stores, the processes and their
pool, the journal, and at last the plugins, prompts, reviews and agents of the
desktop. All seventeen of section 1 are modelled and checked, and all have
proofs. Further steps:

1. `Conversation` composed with `HostPool`: a turn on a Host that is torn down.
