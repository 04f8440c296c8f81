--------------------------- MODULE CrashRecovery ---------------------------
(***************************************************************************)
(* Crash recovery of one workspace: processes that share its session store *)
(* start, run turns and die; the first assembly of a process may turn the  *)
(* checkpoints it finds into interrupted turns                             *)
(* (internal/orchestration/host/recover.go).                               *)
(*                                                                         *)
(*   Procs      processes (desktop, headless) that open the workspace      *)
(*   Runs       turns of its conversation, each written by one process     *)
(*   Blank      the runs whose checkpoints hold no message                 *)
(*   Lockless   the processes that cannot take the workspace lock          *)
(*   Cap        maxRecoveredRuns                                           *)
(*   MaxBoots   bound on the starts of each process                        *)
(*                                                                         *)
(* A checkpoint's timestamp only matters against hostProcessStart, so each *)
(* process keeps the set of runs that wrote one since it started. What a   *)
(* pass knew is forgotten when it ends.                                    *)
(***************************************************************************)
EXTENDS Naturals, FiniteSets

CONSTANTS Procs, Runs, Blank, Lockless, NoProc, Cap, MaxBoots

ASSUME RecoveryAssumption ==
    /\ NoProc \notin Procs /\ Blank \subseteq Runs /\ Lockless \subseteq Procs
    /\ Cap \in Nat /\ MaxBoots \in Nat

VARIABLES
    pc,         \* where each process is
    boots,      \* how often it was started
    newer,      \* runs that wrote a checkpoint since it started, until its pass ends
    todo, cur,  \* the checkpoints its pass has listed; the one it recovers
    kept,       \* those it reported as failed, pending or of no conversation
    lock,       \* the live process that holds live.lock
    run, owner, \* the turns, and the process each belongs to
    unseeded,   \* turns of a fresh conversation whose StartRun has not written the row
    row, dir, retired,  \* on disk: the conversation
    archive,    \* on disk: what archive_turns says of each run
    point,      \* on disk: agent_checkpoints
    del         \* where the DeleteConversation of each process is

procVars == <<pc, boots, newer>>
passVars == <<todo, cur, kept>>
runVars  == <<run, owner, unseeded>>
convVars == <<row, dir, retired>>
vars == <<procVars, passVars, lock, runVars, convVars, archive, point, del>>

TypeOK ==
    /\ pc \in [Procs -> {"down", "claim", "list", "pass", "write", "drop", "serving"}]
    /\ boots \in [Procs -> 0..MaxBoots] /\ newer \in [Procs -> SUBSET Runs]
    /\ todo \in [Procs -> SUBSET Runs] /\ kept \in [Procs -> SUBSET Runs]
    /\ cur \in [Procs -> SUBSET Runs]
    /\ \A p \in Procs : pc[p] \in {"write", "drop"} <=> cur[p] # {}
    /\ lock \in Procs \cup {NoProc}
    /\ run \in [Runs -> {"idle", "live", "settle", "done", "dead"}]
    /\ owner \in [Runs -> Procs \cup {NoProc}] /\ unseeded \subseteq Runs
    /\ row \in BOOLEAN /\ dir \in BOOLEAN /\ retired \in BOOLEAN
    /\ archive \in [Runs -> {"none", "full", "interrupted"}] /\ point \subseteq Runs
    /\ del \in [Procs -> {"no", "rows", "files", "points"}]

Init ==
    /\ pc = [p \in Procs |-> "down"] /\ boots = [p \in Procs |-> 0]
    /\ newer = [p \in Procs |-> {}] /\ todo = [p \in Procs |-> {}]
    /\ kept = [p \in Procs |-> {}] /\ cur = [p \in Procs |-> {}] /\ lock = NoProc
    /\ run = [r \in Runs |-> "idle"] /\ owner = [r \in Runs |-> NoProc] /\ unseeded = {}
    /\ row = FALSE /\ dir = FALSE /\ retired = FALSE
    /\ archive = [r \in Runs |-> "none"] /\ point = {}
    /\ del = [p \in Procs |-> "no"]

Exists == row \/ dir
Drop(rs) == point' \in {point, point \ rs}
Go(p, from, to) == pc[p] = from /\ pc' = [pc EXCEPT ![p] = to]

\* EnsureConversation and CommitConversationTurn: a retired id is refused, a
\* run that has a turn keeps it.
Commit(r, what) ==
    /\ archive' = IF retired \/ archive[r] # "none" THEN archive
                  ELSE [archive EXCEPT ![r] = what]
    /\ row' = (row \/ ~retired)
    /\ UNCHANGED <<dir, retired>>

-----------------------------------------------------------------------------
(* The first assembly of a process                                          *)

Boot(p) ==
    /\ boots[p] < MaxBoots /\ Go(p, "down", "claim")
    /\ boots' = [boots EXCEPT ![p] = @ + 1]
    /\ UNCHANGED <<newer, passVars, lock, runVars, convVars, archive, point, del>>

\* claimWorkspaceLock, once for the life of the process.
ClaimLock(p) ==
    /\ p \notin Lockless /\ lock = NoProc /\ Go(p, "claim", "list") /\ lock' = p
    /\ UNCHANGED <<boots, newer, passVars, runVars, convVars, archive, point, del>>

\* Variant: the pass does not care who holds the workspace.
ClaimHeld_Passes(p) ==
    /\ p \notin Lockless /\ lock # NoProc /\ Go(p, "claim", "list")
    /\ UNCHANGED <<boots, newer, passVars, lock, runVars, convVars, archive, point,
                   del>>

ClaimHeld(p) ==
    /\ p \notin Lockless /\ lock # NoProc /\ Go(p, "claim", "serving")
    /\ newer' = [newer EXCEPT ![p] = {}]
    /\ UNCHANGED <<boots, passVars, lock, runVars, convVars, archive, point, del>>

ClaimBroken(p) ==
    /\ p \in Lockless /\ Go(p, "claim", "list")
    /\ UNCHANGED <<boots, newer, passVars, lock, runVars, convVars, archive, point,
                   del>>

\* Variant: what the cap leaves out is not counted.
List_Uncounted(p) ==
    /\ Go(p, "list", "pass")
    /\ \E seen \in SUBSET point :
          /\ Cardinality(seen) = IF Cardinality(point) < Cap
                                 THEN Cardinality(point) ELSE Cap
          /\ todo' = [todo EXCEPT ![p] = seen]
    /\ UNCHANGED <<boots, newer, cur, kept, lock, runVars, convVars, archive, point,
                   del>>

\* recoverInterruptedRuns examines at most Cap of the checkpoints it lists.
List(p) ==
    /\ Go(p, "list", "pass")
    /\ \E seen \in SUBSET point :
          /\ Cardinality(seen) = IF Cardinality(point) < Cap
                                 THEN Cardinality(point) ELSE Cap
          /\ todo' = [todo EXCEPT ![p] = seen]
          /\ kept' = [kept EXCEPT ![p] = point \ seen]
    /\ UNCHANGED <<boots, newer, cur, lock, runVars, convVars, archive, point, del>>

ListFails(p) ==
    /\ Go(p, "list", "serving") /\ newer' = [newer EXCEPT ![p] = {}]
    /\ UNCHANGED <<boots, passVars, lock, runVars, convVars, archive, point, del>>

\* recoverRun: the checkpoint is gone, or young enough to be a sibling's.
Skip(p, r) ==
    /\ pc[p] = "pass" /\ r \in todo[p] /\ (r \in newer[p] \/ r \notin point)
    /\ todo' = [todo EXCEPT ![p] = @ \ {r}]
    /\ UNCHANGED <<procVars, cur, kept, lock, runVars, convVars, archive, point, del>>

\* The checkpoint, or the archive, cannot be read.
ReadFails(p, r) ==
    /\ pc[p] = "pass" /\ r \in todo[p]
    /\ todo' = [todo EXCEPT ![p] = @ \ {r}] /\ kept' = [kept EXCEPT ![p] = @ \cup {r}]
    /\ UNCHANGED <<procVars, cur, lock, runVars, convVars, archive, point, del>>

\* The conversation is gone, the turn is archived, or it has no message:
\* nothing becomes of this checkpoint. A delete that fails leaves it.
Discard(p, r) ==
    /\ pc[p] = "pass" /\ r \in (todo[p] \cap point) \ newer[p]
    /\ ~Exists \/ archive[r] # "none" \/ r \in Blank
    /\ todo' = [todo EXCEPT ![p] = @ \ {r}] /\ Drop({r})
    /\ kept' = IF Exists THEN kept ELSE [kept EXCEPT ![p] = @ \cup {r}]
    /\ UNCHANGED <<procVars, cur, lock, runVars, convVars, archive, del>>

\* Variant: the checkpoint goes before the turn is written.
Recover_DropsFirst(p, r) ==
    /\ r \in (todo[p] \cap point) \ (newer[p] \cup Blank) /\ Go(p, "pass", "write")
    /\ Exists /\ archive[r] = "none"
    /\ todo' = [todo EXCEPT ![p] = @ \ {r}] /\ cur' = [cur EXCEPT ![p] = {r}]
    /\ point' = point \ {r}
    /\ UNCHANGED <<boots, newer, kept, lock, runVars, convVars, archive, del>>

Recover(p, r) ==
    /\ r \in (todo[p] \cap point) \ (newer[p] \cup Blank) /\ Go(p, "pass", "write")
    /\ Exists /\ archive[r] = "none"
    /\ todo' = [todo EXCEPT ![p] = @ \ {r}] /\ cur' = [cur EXCEPT ![p] = {r}]
    /\ UNCHANGED <<boots, newer, kept, lock, runVars, convVars, archive, point, del>>

\* RecoverTurn, ...
WriteTurn(p) ==
    /\ ~retired /\ Go(p, "write", "drop")
    /\ \E r \in cur[p] : Commit(r, "interrupted")
    /\ UNCHANGED <<boots, newer, passVars, lock, runVars, point, del>>

\* Variant: the failed checkpoint stays the current one.
WriteFails_KeepsCur(p) ==
    /\ Go(p, "write", "pass") /\ kept' = [kept EXCEPT ![p] = @ \cup cur[p]]
    /\ UNCHANGED <<boots, newer, todo, cur, lock, runVars, convVars, archive, point,
                   del>>

\* ... refused for a retired id, or failing; the checkpoint stays.
WriteFails(p) ==
    /\ Go(p, "write", "pass")
    /\ kept' = [kept EXCEPT ![p] = @ \cup cur[p]] /\ cur' = [cur EXCEPT ![p] = {}]
    /\ UNCHANGED <<boots, newer, todo, lock, runVars, convVars, archive, point, del>>

DropPoint(p) ==
    /\ Go(p, "drop", "pass") /\ Drop(cur[p])
    /\ cur' = [cur EXCEPT ![p] = {}]
    /\ UNCHANGED <<boots, newer, todo, kept, lock, runVars, convVars, archive, del>>

PassEnds(p) ==
    /\ todo[p] = {} /\ Go(p, "pass", "serving")
    /\ newer' = [newer EXCEPT ![p] = {}] /\ kept' = [kept EXCEPT ![p] = {}]
    /\ UNCHANGED <<boots, todo, cur, lock, runVars, convVars, archive, point, del>>

-----------------------------------------------------------------------------
(* Turns                                                                    *)

\* Host.StartRun up to the turn, which runs from here on; attachments create the
\* directory. A conversation under deletion takes no start in the same process.
StartRun(p, r) ==
    /\ pc[p] = "serving" /\ del[p] = "no" /\ ~retired /\ run[r] = "idle"
    /\ run' = [run EXCEPT ![r] = "live"] /\ owner' = [owner EXCEPT ![r] = p]
    /\ unseeded' = IF Exists THEN unseeded ELSE unseeded \cup {r}
    /\ dir' \in {dir, TRUE}
    /\ UNCHANGED <<procVars, passVars, lock, row, retired, archive, point, del>>

\* Only then SeedStartTitle writes the row of a fresh conversation ...
SeedTitle(r) ==
    /\ r \in unseeded /\ ~retired /\ unseeded' = unseeded \ {r} /\ row' = TRUE
    /\ UNCHANGED <<procVars, passVars, lock, run, owner, dir, retired, archive, point,
                   del>>

\* ... or fails, and the turn is cancelled, which ends it.
SeedFails(r) ==
    /\ r \in unseeded /\ unseeded' = unseeded \ {r}
    /\ UNCHANGED <<procVars, passVars, lock, run, owner, convVars, archive, point, del>>

\* The rollout of a registered run creates the directory.
OpenRollout(r) ==
    /\ run[r] = "live" /\ r \notin unseeded /\ ~dir /\ dir' = TRUE
    /\ UNCHANGED <<procVars, passVars, lock, runVars, row, retired, archive, point, del>>

\* The engine writes a checkpoint.
Wave(r) ==
    /\ run[r] = "live" /\ point' = point \cup {r}
    /\ newer' = [p \in Procs |-> IF pc[p] \in {"down", "serving"} THEN newer[p]
                                 ELSE newer[p] \cup {r}]
    /\ UNCHANGED <<pc, boots, passVars, lock, runVars, convVars, archive, del>>

\* The turn ends and is archived, ...
EndTurn(r) ==
    /\ run[r] = "live" /\ run' = [run EXCEPT ![r] = "settle"] /\ Commit(r, "full")
    /\ UNCHANGED <<procVars, passVars, lock, owner, unseeded, point, del>>

\* ... or its archive write fails.
EndUnarchived(r) ==
    /\ run[r] = "live" /\ run' = [run EXCEPT ![r] = "settle"]
    /\ UNCHANGED <<procVars, passVars, lock, owner, unseeded, convVars, archive, point,
                   del>>

\* dropRunCheckpoint.
Settle(r) ==
    /\ run[r] = "settle" /\ r \notin unseeded /\ run' = [run EXCEPT ![r] = "done"]
    /\ IF archive[r] # "none" THEN Drop({r}) ELSE UNCHANGED point
    /\ UNCHANGED <<procVars, passVars, lock, owner, unseeded, convVars, archive, del>>

-----------------------------------------------------------------------------
(* DeleteConversation of one process; it only waits for its own runs        *)

Del(p, from, to) == del[p] = from /\ del' = [del EXCEPT ![p] = to]

Delete(p) ==
    /\ pc[p] = "serving" /\ Del(p, "no", "rows") /\ ~retired
    /\ \A r \in Runs : owner[r] = p => run[r] \in {"done", "dead"}
    /\ UNCHANGED <<procVars, passVars, lock, runVars, convVars, archive, point>>

RemoveRows(p) ==
    /\ Del(p, "rows", "files") /\ retired' = TRUE /\ row' = FALSE
    /\ archive' = [r \in Runs |-> "none"]
    /\ UNCHANGED <<procVars, passVars, lock, runVars, dir, point>>

RemoveFiles(p) ==
    /\ Del(p, "files", "points") /\ dir' = FALSE
    /\ UNCHANGED <<procVars, passVars, lock, runVars, row, retired, archive, point>>

RemovePoints(p) ==
    /\ Del(p, "points", "no") /\ point' \in SUBSET point
    /\ UNCHANGED <<procVars, passVars, lock, runVars, convVars, archive>>

DeleteFails(p) ==
    /\ \E from \in {"rows", "files"} : Del(p, from, "no")
    /\ UNCHANGED <<procVars, passVars, lock, runVars, convVars, archive, point>>

-----------------------------------------------------------------------------
\* A process dies; the system releases its lock.
Crash(p) ==
    /\ pc[p] # "down" /\ pc' = [pc EXCEPT ![p] = "down"]
    /\ todo' = [todo EXCEPT ![p] = {}] /\ kept' = [kept EXCEPT ![p] = {}]
    /\ cur' = [cur EXCEPT ![p] = {}] /\ newer' = [newer EXCEPT ![p] = {}]
    /\ del' = [del EXCEPT ![p] = "no"]
    /\ lock' = IF lock = p THEN NoProc ELSE lock
    /\ run' = [r \in Runs |-> IF owner[r] = p /\ run[r] # "done" THEN "dead"
                              ELSE run[r]]
    /\ unseeded' = {r \in unseeded : owner[r] # p}
    /\ UNCHANGED <<boots, owner, convVars, archive, point>>

Next ==
    \/ \E p \in Procs :
          \/ Boot(p) \/ ClaimLock(p) \/ ClaimHeld(p) \/ ClaimBroken(p) \/ List(p)
          \/ ListFails(p)
          \/ WriteTurn(p) \/ WriteFails(p) \/ DropPoint(p) \/ PassEnds(p)
          \/ Delete(p) \/ RemoveRows(p) \/ RemoveFiles(p) \/ RemovePoints(p)
          \/ DeleteFails(p) \/ Crash(p)
          \/ \E r \in Runs :
                \/ Skip(p, r) \/ ReadFails(p, r) \/ Discard(p, r) \/ Recover(p, r)
                \/ StartRun(p, r)
    \/ \E r \in Runs : 
          \/ SeedTitle(r) \/ SeedFails(r) \/ OpenRollout(r)
          \/ Wave(r) \/ EndTurn(r) \/ EndUnarchived(r) \/ Settle(r)

Spec == Init /\ [][Next]_vars

-----------------------------------------------------------------------------
(* Properties                                                               *)

\* recoverRun, dropRunCheckpoint: wherever processes die, the last checkpoint of a
\* turn of a conversation that is on record only goes when the turn is in the
\* archive or the conversation is deleted, and an archived turn stays. The turn of a
\* fresh conversation runs before the row is written: a crash in between leaves a
\* checkpoint that recovery discards.
TraceSurvives ==
    [][\A r \in Runs \ Blank :
          /\ r \in point /\ Exists => r \in point' \/ archive'[r] # "none" \/ retired'
          /\ archive[r] # "none" => archive'[r] # "none" \/ retired']_vars

\* claimWorkspaceLock: a process that can reach the lock never reads the turns of
\* the live holder as crash leftovers; only a broken lock lets that happen.
HolderIsNotRecovered ==
    [][\A p \in Procs \ Lockless, r \in Runs :
          (pc[p] = "write" /\ pc'[p] = "drop" /\ r \in cur[p])
             => ~(run[r] = "live" /\ lock = owner[r])]_vars

\* RecoveryReport: when a pass ends, a checkpoint that is left has its turn in the
\* archive, can never become a turn, was written to since the process started, or
\* is one the pass reported: as failed, as pending, or as one whose conversation was
\* gone when it looked.
PassSettles ==
    [][\A p \in Procs :
          (pc[p] = "pass" /\ pc'[p] = "serving" /\ ~retired)
             => \A r \in point \ Blank :
                   archive[r] # "none" \/ r \in newer[p] \cup kept[p]]_vars

\* claimRecovery: "the workspace lease keeps a second process from reading a
\* live sibling's checkpoints as crash leftovers".
LiveIsNotRecovered ==
    [][\A r \in Runs :
          archive[r] = "none" /\ archive'[r] = "interrupted" => run[r] # "live"]_vars
=============================================================================
