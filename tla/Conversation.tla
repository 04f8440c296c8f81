---------------------------- MODULE Conversation ----------------------------
(***************************************************************************)
(* The life of one conversation in one process: StartRun, the settling of  *)
(* its runs, DeleteConversation, and the late writers (automatic title,    *)
(* delegation note) of internal/orchestration/host.                        *)
(*                                                                         *)
(*   Starts    calls of StartRun for the conversation; a start and the run *)
(*             it begins have one identity                                 *)
(*   Polite    the starts that do not preempt (automations)                *)
(*   Askers    the starts whose turn asks the user a question              *)
(*   Impatient the starts whose caller waits under a context that may fire  *)
(*             before the turn ends (waitTurn, headless); automations use   *)
(*             WaitBounded and Close, which never cut the wait short        *)
(*   Deleters  calls of DeleteConversation                                 *)
(*                                                                         *)
(* The engine's session is external: a start interrupts the turn that is   *)
(* running, an interrupted turn ends, DeleteSession waits for the turns    *)
(* and kills the leases. Replacing the Host and crashing are in the        *)
(* modules HostPool and CrashRecovery; here a new Host only forgets.       *)
(***************************************************************************)
EXTENDS FiniteSets

CONSTANTS Starts, Polite, Askers, Impatient, Deleters, Note, NoStart

ASSUME ConversationAssumption ==
    /\ Polite \subseteq Starts /\ Askers \subseteq Starts /\ Impatient \subseteq Starts
    /\ Note \notin Starts /\ NoStart \notin Starts

VARIABLES
    pc,             \* where each StartRun and each run is
    fresh,          \* starts that found no conversation
    gate,           \* holder of the conversation's start lock
    runs,           \* Host.runs
    turn,           \* per start: the engine's turn
    lease,          \* starts whose session lease is usable
    bound,          \* Broker.turns
    prompt,         \* per start: the question its turn asks
    deleting, deleted,  \* Host.deleting, Host.deleted
    del,            \* where each DeleteConversation is
    title, note,    \* the background title, the delegation note
    row, doc, dir,  \* on disk: conversations, conversation_state, the directory
    retired,        \* on disk: deleted_conversations
    archive,        \* on disk: archive_turns, by run
    points          \* on disk: agent_checkpoints, by run

startVars == <<pc, fresh, gate, runs, lease>>
turnVars  == <<turn, bound, prompt>>
delVars   == <<deleting, deleted, del>>
lateVars  == <<title, note>>
diskVars  == <<row, doc, dir, retired, archive, points>>
vars == <<startVars, turnVars, delVars, lateVars, diskVars>>

Steps == {"idle", "gate", "prepare", "open", "start", "seed", "bind",
          "register", "running", "settle", "unbind", "done"}
Turns == {"none", "live", "stopping", "commit", "ended"}

TypeOK ==
    /\ pc \in [Starts -> Steps] /\ fresh \subseteq Starts
    /\ gate \in Starts \cup {NoStart} /\ runs \subseteq Starts
    /\ turn \in [Starts -> Turns] /\ lease \subseteq Starts
    /\ bound \subseteq Starts
    /\ prompt \in [Starts -> {"none", "asked", "answered", "dropped"}]
    /\ runs = {s \in Starts : pc[s] \in {"running", "settle"}}
    /\ deleting \in BOOLEAN /\ deleted \in BOOLEAN
    /\ del \in [Deleters -> {"idle", "waiting", "session", "rows", "files",
                             "points", "finish", "done"}]
    /\ title \in {"none", "queued", "write"}
    /\ note \in {"idle", "ensure", "commit"}
    /\ row \in BOOLEAN /\ doc \in BOOLEAN /\ dir \in BOOLEAN
    /\ retired \in BOOLEAN
    /\ archive \subseteq Starts \cup {Note} /\ points \subseteq Starts

Init ==
    /\ pc = [s \in Starts |-> "idle"] /\ fresh = {} /\ gate = NoStart
    /\ runs = {} /\ turn = [s \in Starts |-> "none"] /\ lease = {}
    /\ bound = {} /\ prompt = [s \in Starts |-> "none"]
    /\ deleting = FALSE /\ deleted = FALSE /\ del = [d \in Deleters |-> "idle"]
    /\ title = "none" /\ note = "idle"
    /\ row = FALSE /\ doc = FALSE /\ dir = FALSE /\ retired = FALSE
    /\ archive = {} /\ points = {}

Gone   == deleting \/ deleted
Exists == row \/ dir

Go(s, from, to) == pc[s] = from /\ pc' = [pc EXCEPT ![s] = to]

\* The turns of S are told to stop; the engine ends them when it notices.
Stop(S) ==
    turn' = [t \in Starts |-> IF t \in S /\ turn[t] = "live"
                              THEN "stopping" ELSE turn[t]]

-----------------------------------------------------------------------------
(* StartRun                                                                 *)

Enter(s) ==
    /\ ~Gone /\ Go(s, "idle", "gate")
    /\ UNCHANGED <<fresh, gate, runs, lease, turnVars, delVars, lateVars, diskVars>>

\* Variant: the live run is looked up before the start lock is taken.
TakeGate_DecidedBefore(s) ==
    /\ Go(s, "gate", "prepare")
    /\ s \in Polite => runs = {}
    /\ gate' = s /\ fresh' = IF Exists THEN fresh ELSE fresh \cup {s}
    /\ UNCHANGED <<runs, lease, turnVars, delVars, lateVars, diskVars>>

\* lockStart, liveRunFor, Exists.
TakeGate(s) ==
    /\ gate = NoStart /\ Go(s, "gate", "prepare")
    /\ s \in Polite => runs = {}
    /\ gate' = s /\ fresh' = IF Exists THEN fresh ELSE fresh \cup {s}
    /\ UNCHANGED <<runs, lease, turnVars, delVars, lateVars, diskVars>>

Busy(s) ==
    /\ gate = NoStart /\ s \in Polite /\ runs # {} /\ Go(s, "gate", "done")
    /\ UNCHANGED <<fresh, gate, runs, lease, turnVars, delVars, lateVars, diskVars>>

\* The settings of a fresh conversation, which a retired id refuses, and the
\* attachments, which create its directory.
Prepare(s) ==
    /\ Go(s, "prepare", "open")
    /\ s \in fresh => ~retired
    /\ doc' = (doc \/ s \in fresh)
    /\ dir' \in {dir, TRUE}
    /\ UNCHANGED <<fresh, gate, runs, lease, turnVars, delVars, lateVars,
                   row, retired, archive, points>>

Open(s) ==
    /\ Go(s, "open", "start") /\ lease' = lease \cup {s}
    /\ UNCHANGED <<fresh, gate, runs, turnVars, delVars, lateVars, diskVars>>

\* StartWithOptions: whatever the session runs is interrupted.
Start(s) ==
    /\ s \in lease /\ Go(s, "start", "seed")
    /\ turn' = [t \in Starts |-> IF t = s THEN "live"
                                 ELSE IF turn[t] = "live" THEN "stopping"
                                 ELSE turn[t]]
    /\ UNCHANGED <<fresh, gate, runs, lease, bound, prompt, delVars, lateVars,
                   diskVars>>

\* The call fails before it has a turn: a refused setting, a failed
\* attachment, a session that does not open, a lease that was killed.
StartFails(s) ==
    /\ \E from \in {"prepare", "open", "start"} : Go(s, from, "done")
    /\ gate' = NoStart /\ lease' = lease \ {s}
    /\ UNCHANGED <<fresh, runs, turnVars, delVars, lateVars, diskVars>>

\* SeedStartTitle writes the row of a fresh conversation.
Seed(s) ==
    /\ Go(s, "seed", "bind")
    /\ s \in fresh => ~retired
    /\ row' = (row \/ s \in fresh)
    /\ UNCHANGED <<fresh, gate, runs, lease, turnVars, delVars, lateVars,
                   doc, dir, retired, archive, points>>

SeedFails(s) ==
    /\ s \in fresh /\ Go(s, "seed", "done")
    /\ Stop({s}) /\ gate' = NoStart /\ lease' = lease \ {s}
    /\ UNCHANGED <<fresh, runs, bound, prompt, delVars, lateVars, diskVars>>

\* Variant: only the start of a fresh conversation binds its turn.
Bind_OnlyFresh(s) ==
    /\ Go(s, "bind", "register") /\ bound' = IF s \in fresh THEN bound \cup {s} ELSE bound
    /\ UNCHANGED <<fresh, gate, runs, lease, turn, prompt, delVars, lateVars,
                   diskVars>>

Bind(s) ==
    /\ Go(s, "bind", "register") /\ bound' = bound \cup {s}
    /\ UNCHANGED <<fresh, gate, runs, lease, turn, prompt, delVars, lateVars,
                   diskVars>>

\* The run is registered; its rollout file creates the directory.
Register(s) ==
    /\ ~Gone /\ Go(s, "register", "running")
    /\ runs' = runs \cup {s} /\ gate' = NoStart /\ dir' \in {dir, TRUE}
    /\ UNCHANGED <<fresh, lease, turnVars, delVars, lateVars, row, doc, retired,
                   archive, points>>

\* Variant: the turn of a start that lost against a deletion runs on.
RegisterLost_LeavesTurn(s) ==
    /\ Gone /\ Go(s, "register", "done")
    /\ gate' = NoStart /\ lease' = lease \ {s}
    /\ UNCHANGED <<fresh, runs, turnVars, delVars, lateVars, diskVars>>

\* A deletion came in between: the turn is cancelled, the broker keeps it.
RegisterLost(s) ==
    /\ Gone /\ Go(s, "register", "done")
    /\ Stop({s}) /\ gate' = NoStart /\ lease' = lease \ {s}
    /\ UNCHANGED <<fresh, runs, bound, prompt, delVars, lateVars, diskVars>>

-----------------------------------------------------------------------------
(* The turn                                                                 *)

Wave(s) ==
    /\ turn[s] \in {"live", "stopping"} /\ points' = points \cup {s}
    /\ UNCHANGED <<startVars, turnVars, delVars, lateVars, row, doc, dir, retired,
                   archive>>

\* CancelRun and Run.Close reach registered runs only.
CancelRun(s) ==
    /\ s \in runs /\ turn[s] = "live" /\ Stop({s})
    /\ UNCHANGED <<startVars, bound, prompt, delVars, lateVars, diskVars>>

\* The commit hook or the archive observer writes the turn in two statements:
\* the conversation row, refused for a retired id, ...
ArchiveRow(s) ==
    /\ turn[s] \in {"live", "stopping"} /\ ~retired
    /\ turn' = [turn EXCEPT ![s] = "commit"] /\ row' = TRUE
    /\ UNCHANGED <<startVars, bound, prompt, delVars, lateVars, doc, dir, retired,
                   archive, points>>

\* ... and the turn, whose foreign key needs the row.
ArchiveTurn(s) ==
    /\ turn[s] = "commit" /\ row /\ turn' = [turn EXCEPT ![s] = "ended"]
    /\ archive' = archive \cup {s}
    /\ UNCHANGED <<startVars, bound, prompt, delVars, lateVars, row, doc, dir,
                   retired, points>>

\* A turn with nothing to archive, a refused or a failed write.
EndUnarchived(s) ==
    /\ turn[s] \in {"live", "stopping", "commit"}
    /\ turn' = [turn EXCEPT ![s] = "ended"]
    /\ UNCHANGED <<startVars, bound, prompt, delVars, lateVars, diskVars>>

Ask(s) ==
    /\ s \in Askers /\ turn[s] = "live" /\ prompt[s] = "none"
    /\ prompt' = [prompt EXCEPT ![s] = "asked"]
    /\ UNCHANGED <<startVars, turn, bound, delVars, lateVars, diskVars>>

\* Broker.deliver hands the backend's reply to a bound turn, or drops it.
Deliver(s) ==
    /\ prompt[s] = "asked"
    /\ prompt' = [prompt EXCEPT ![s] = IF s \in bound THEN "answered" ELSE "dropped"]
    /\ UNCHANGED <<startVars, turn, bound, delVars, lateVars, diskVars>>

-----------------------------------------------------------------------------
(* Run.settle                                                               *)

\* turn.Wait comes back: the turn is over, or the caller's context fired and the
\* turn runs on. The whole release follows either way.
Waited(s) == turn[s] = "ended" \/ s \in Impatient

\* Variant: the run leaves Host.runs before its end is written.
Settle_DropsRunFirst(s) ==
    /\ Waited(s) /\ Go(s, "running", "settle") /\ runs' = runs \ {s}
    /\ points' = IF s \in archive THEN points \ {s} ELSE points
    /\ title' \in {title, IF title = "none" THEN "queued" ELSE title}
    /\ UNCHANGED <<fresh, gate, lease, turnVars, delVars, note, row, doc, dir,
                   retired, archive>>

\* Variant: the checkpoint goes whether or not the turn was archived.
Settle_DropsAlways(s) ==
    /\ Waited(s) /\ Go(s, "running", "settle")
    /\ points' = points \ {s}
    /\ title' \in {title, IF title = "none" THEN "queued" ELSE title}
    /\ UNCHANGED <<fresh, gate, runs, lease, turnVars, delVars, note, row, doc, dir,
                   retired, archive>>

\* The turn end and its usage only update rows; the checkpoint goes once the
\* turn is in the archive; a title may be launched.
Settle(s) ==
    /\ Waited(s) /\ Go(s, "running", "settle")
    /\ points' = IF s \in archive THEN points \ {s} ELSE points
    /\ title' \in {title, IF title = "none" THEN "queued" ELSE title}
    /\ UNCHANGED <<fresh, gate, runs, lease, turnVars, delVars, note, row, doc, dir,
                   retired, archive>>

DropRun(s) ==
    /\ Go(s, "settle", "unbind") /\ runs' = runs \ {s}
    /\ UNCHANGED <<fresh, gate, lease, turnVars, delVars, lateVars, diskVars>>

UnbindTurn(s) ==
    /\ Go(s, "unbind", "done")
    /\ bound' = bound \ {s} /\ lease' = lease \ {s}
    /\ UNCHANGED <<fresh, gate, runs, turn, prompt, delVars, lateVars, diskVars>>

-----------------------------------------------------------------------------
(* Late writers                                                             *)

\* autoTitle, up to its last look at the deletion.
TitleGenerated ==
    /\ title = "queued" /\ title' = IF Gone THEN "none" ELSE "write"
    /\ UNCHANGED <<startVars, turnVars, delVars, note, diskVars>>

TitleFails ==
    /\ title # "none" /\ title' = "none"
    /\ UNCHANGED <<startVars, turnVars, delVars, note, diskVars>>

\* SetConversationState refuses a retired id.
TitleWrite ==
    /\ title = "write" /\ title' = "none" /\ doc' = (doc \/ ~retired)
    /\ UNCHANGED <<startVars, turnVars, delVars, note, row, dir, retired, archive,
                   points>>

\* reflowDelegation: the guards, ...
NoteArrives ==
    /\ note = "idle" /\ ~Gone /\ Exists /\ Note \notin archive
    /\ note' = "ensure"
    /\ UNCHANGED <<startVars, turnVars, delVars, title, diskVars>>

\* ... the conversation row, refused for a retired id, ...
NoteRow ==
    /\ note = "ensure"
    /\ note' = IF retired THEN "idle" ELSE "commit"
    /\ row' = (row \/ ~retired)
    /\ UNCHANGED <<startVars, turnVars, delVars, title, doc, dir, retired, archive,
                   points>>

\* Variant: the insert does not need the row.
NoteCommit_Unchecked ==
    /\ note = "commit" /\ note' = "idle" /\ archive' = archive \cup {Note}
    /\ UNCHANGED <<startVars, turnVars, delVars, title, row, doc, dir, retired,
                   points>>

\* ... and the turn of the note, whose foreign key needs the row.
NoteCommit ==
    /\ note = "commit" /\ note' = "idle"
    /\ archive' = IF row THEN archive \cup {Note} ELSE archive
    /\ UNCHANGED <<startVars, turnVars, delVars, title, row, doc, dir, retired,
                   points>>

-----------------------------------------------------------------------------
(* DeleteConversation                                                       *)

DelGo(d, from, to) == del[d] = from /\ del' = [del EXCEPT ![d] = to]

\* Variant: the deletion waits without cancelling first.
Mark_NoCancel(d) ==
    /\ ~Gone /\ DelGo(d, "idle", "waiting") /\ deleting' = TRUE
    /\ UNCHANGED <<startVars, turnVars, deleted, lateVars, diskVars>>

\* The conversation is marked and its live runs are cancelled.
Mark(d) ==
    /\ ~Gone /\ DelGo(d, "idle", "waiting")
    /\ deleting' = TRUE /\ Stop(runs)
    /\ UNCHANGED <<startVars, bound, prompt, deleted, lateVars, diskVars>>

InProgress(d) ==
    /\ deleting /\ ~deleted /\ DelGo(d, "idle", "done")
    /\ UNCHANGED <<startVars, turnVars, deleting, deleted, lateVars, diskVars>>

\* Variant: the deletion does not wait for the runs.
Idle_NoWait(d) ==
    /\ DelGo(d, "waiting", "session")
    /\ UNCHANGED <<startVars, turnVars, deleting, deleted, lateVars, diskVars>>

\* waitConversationIdle.
Idle(d) ==
    /\ runs = {} /\ DelGo(d, "waiting", "session")
    /\ UNCHANGED <<startVars, turnVars, deleting, deleted, lateVars, diskVars>>

\* The engine waits for the turns of the session and closes it.
DeleteSession(d) ==
    /\ \A s \in Starts : turn[s] \in {"none", "ended"}
    /\ DelGo(d, "session", "rows") /\ lease' = {}
    /\ UNCHANGED <<pc, fresh, gate, runs, turnVars, deleting, deleted, lateVars,
                   diskVars>>

\* store.Remove: one transaction retires the id and deletes every row, ...
RemoveRows(d) ==
    /\ DelGo(d, "rows", "files")
    /\ retired' = TRUE /\ row' = FALSE /\ doc' = FALSE /\ archive' = {}
    /\ UNCHANGED <<startVars, turnVars, deleting, deleted, lateVars, dir, points>>

\* ... then the directory goes.
RemoveFiles(d) ==
    /\ DelGo(d, "files", "points") /\ dir' = FALSE
    /\ UNCHANGED <<startVars, turnVars, deleting, deleted, lateVars, row, doc,
                   retired, archive, points>>

RemovePoints(d) ==
    /\ DelGo(d, "points", "finish") /\ points' = {}
    /\ UNCHANGED <<startVars, turnVars, deleting, deleted, lateVars, row, doc, dir,
                   retired, archive>>

\* A repeated deletion purges again; deleting is no longer set then.
Finish(d) ==
    /\ DelGo(d, "finish", "done") /\ deleted' = TRUE /\ deleting' = FALSE
    /\ UNCHANGED <<startVars, turnVars, lateVars, diskVars>>

\* A timeout, a refusing engine, a failed transaction, a pinned directory:
\* clearDeleting.
DeleteFails(d) ==
    /\ \E from \in {"waiting", "session", "rows", "files"} : DelGo(d, from, "done")
    /\ deleting' = FALSE
    /\ UNCHANGED <<startVars, turnVars, deleted, lateVars, diskVars>>

\* The id was deleted by this Host before: its residue is purged.
Purge(d) ==
    /\ deleted /\ DelGo(d, "idle", "done")
    /\ row' = FALSE /\ doc' = FALSE /\ archive' = {} /\ points' = {}
    /\ dir' \in {dir, FALSE} /\ retired' = TRUE
    /\ UNCHANGED <<startVars, turnVars, deleting, deleted, lateVars>>

\* A new Host of the workspace, once the old one has nothing to do, does not
\* know what was deleted.
Rehost ==
    /\ \A s \in Starts : pc[s] \in {"idle", "done"}
    /\ \A d \in Deleters : del[d] \in {"idle", "done"}
    /\ title = "none" /\ deleted /\ deleted' = FALSE
    /\ UNCHANGED <<startVars, turnVars, deleting, del, lateVars, diskVars>>

-----------------------------------------------------------------------------
StartStep(s) ==
    \/ TakeGate(s) \/ Busy(s) \/ Prepare(s) \/ Open(s) \/ Start(s)
    \/ StartFails(s) \/ Seed(s) \/ SeedFails(s) \/ Bind(s) \/ Register(s)
    \/ RegisterLost(s)

GateStep(s) == TakeGate(s) \/ Busy(s)

TurnEnds(s) == ArchiveRow(s) \/ ArchiveTurn(s) \/ EndUnarchived(s)

StoppedTurnEnds(s) == turn[s] # "live" /\ TurnEnds(s)

SettleStep(s) == Settle(s) \/ DropRun(s) \/ UnbindTurn(s)

\* A context need not fire: only the end of the turn is sure to end the wait.
SettleGoesOn(s) == (turn[s] = "ended" /\ Settle(s)) \/ DropRun(s) \/ UnbindTurn(s)

DeleteStep(d) ==
    \/ Idle(d) \/ DeleteSession(d) \/ RemoveRows(d) \/ RemoveFiles(d)
    \/ RemovePoints(d) \/ Finish(d)

Next ==
    \/ \E s \in Starts :
          \/ Enter(s) \/ StartStep(s) \/ Wave(s) \/ CancelRun(s) \/ TurnEnds(s)
          \/ Ask(s) \/ Deliver(s) \/ SettleStep(s)
    \/ TitleGenerated \/ TitleFails \/ TitleWrite
    \/ NoteArrives \/ NoteRow \/ NoteCommit
    \/ \E d \in Deleters :
          Mark(d) \/ InProgress(d) \/ DeleteStep(d) \/ DeleteFails(d) \/ Purge(d)
    \/ Rehost

Spec == Init /\ [][Next]_vars

\* Goroutines are scheduled, a Go mutex serves its waiters, and the engine ends
\* a turn it was told to stop. A turn nobody stops may run on, and a deletion
\* need not time out.
FairSpec ==
    /\ Spec
    /\ \A s \in Starts :
          /\ WF_vars(StartStep(s)) /\ SF_vars(GateStep(s))
          /\ WF_vars(StoppedTurnEnds(s)) /\ WF_vars(SettleGoesOn(s))
    /\ \A d \in Deleters : WF_vars(DeleteStep(d))

-----------------------------------------------------------------------------
(* Properties                                                               *)

\* Run.settle after a Wait whose context fired: the turn goes on, out of the Host's
\* and soon of the broker's sight.
LeftRunning(s) ==
    s \in Impatient /\ turn[s] = "live" /\ pc[s] \in {"settle", "unbind", "done"}

\* lockStart and liveRunFor: however starts, settles and deletions interleave, a
\* start that must step aside interrupts no turn but one whose caller gave up its
\* wait (the Host no longer knows of that one).
PoliteNeverPreempts ==
    [][\A s \in Polite : pc[s] = "start" /\ pc'[s] = "seed"
          => \A t \in Starts : turn[t] = "live" => LeftRunning(t)]_vars

\* Broker.UnbindTurn: once StartRun is through, a reply is only dropped when the
\* turn is over, told to stop, or its caller gave up the wait.
RunningTurnIsAnswered ==
    [][\A s \in Starts : prompt'[s] = "dropped" /\ prompt[s] # "dropped"
          => pc[s] \in {"seed", "bind"} \/ turn[s] # "live" \/ LeftRunning(s)]_vars

\* waitConversationIdle: "deleting the store rows cannot race a late
\* turn-end/usage write": no registered run is left when the rows go, and none
\* registers before the deletion is over.
DeletionAwaitsRuns ==
    \A d \in Deleters :
        del[d] \in {"session", "rows", "files", "points", "finish"} => runs = {}

\* state/retired.go: "Every writer that could recreate the conversation - the
\* transcript append, ... - refuses a retired id instead": neither a start, a
\* title, a note nor a turn that ends late brings anything back, although the
\* append looks at the retired ids before its transaction begins.
RetiredIsGone == retired => ~row /\ ~doc /\ archive = {}

\* dropRunCheckpoint: a turn keeps its checkpoint until it is in the archive or
\* its conversation is deleted.
TurnKeepsTrace ==
    [][\A s \in points \ points' : s \in archive \/ retired]_vars

\* StartRun, the look at the deletion after the turn has started: the turn of a
\* deleted conversation is told to stop.
RunsOn(s) == deleted /\ turn[s] = "live"
DeletedTurnStops ==
    \A s \in Starts : RunsOn(s) ~> ~RunsOn(s)

\* DeleteConversation comes back without needing its timeout, unless a turn whose
\* caller gave up its wait runs on: the deletion cancels the registered runs only.
Waiting(d) ==
    /\ del[d] \in {"waiting", "session", "rows", "files", "points", "finish"}
    /\ \A s \in Starts : ~LeftRunning(s)
DeletionOver(d) == del[d] = "done" \/ \E s \in Starts : LeftRunning(s)
DeletionReturns == \A d \in Deleters : Waiting(d) ~> DeletionOver(d)

\* run.go, DeleteConversation: "The tombstone check at StartRun keeps a retry
\* from starting a run under the retired id": a start that comes when the id is
\* retired never gets a turn.
RetiredNeverStarts ==
    \A s \in Starts : [](retired /\ pc[s] = "idle" => [](turn[s] = "none"))
=============================================================================
