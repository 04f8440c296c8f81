---------------------------- MODULE PluginRegistry ----------------------------
(***************************************************************************)
(* One plugin in the registry: installs and updates that are staged        *)
(* outside the lock and renamed into place under it, the rollback          *)
(* snapshot, the switch, the revision every face refreshes on, and the     *)
(* rebuild of the runtime after a mutation.                                *)
(*   source: internal/capabilities/plugins/plugin.go, plugins/agent,       *)
(*           internal/adapters/desktop/core/plugin_refresh.go              *)
(* A directory is the version it holds, 0 when it is not there. Every      *)
(* rename is a step, so that it may fail and the process may die at it.    *)
(***************************************************************************)
EXTENDS Naturals

CONSTANTS Callers,     \* calls that mutate the registry, each followed by a refresh
          Faces,       \* reads of the agent's scan of the registry
          NoOne,
          MaxVersion,
          MaxFails,    \* bound: renames that fail
          MaxCrashes   \* bound: deaths of the process

VARIABLES
  dir, backup, pending, old, discard,  \* <root>/<id> and its .backups entries
  enabled,                             \* state.json
  rev, mu,                             \* Store.rev and the holder of Store.mu
  pc, op, ver,                         \* a caller's step, what it does, its source
  owed,                                \* the revision its mutation left
  refreshMu, seen, passes, refreshRev, \* RefreshPluginRuntime
  built,                               \* the revision the runtime was assembled at
  cacheRev, cacheAt,                   \* the agent's scan: its key, when it was taken
  fpc, frev, got,                      \* a face's step, the revision it read, its scan
  published,                           \* the content at the last move of rev (history)
  swapped, snapshot,                   \* what an update replaces, and found (history)
  astray,                              \* whether a restore failed since (history)
  fails, crashes

disk == <<dir, backup, pending, old, discard, enabled>>
calls == <<pc, op, ver, owed>>
refresh == <<refreshMu, seen, passes, refreshRev, built>>
faces == <<cacheRev, cacheAt, fpc, frev, got>>
hist == <<published, swapped, snapshot, astray>>
vars == <<disk, rev, mu, calls, refresh, faces, hist, fails, crashes>>

Versions == 1 .. MaxVersion
Content == <<dir, enabled>>

Init ==
  /\ dir = 1 /\ backup = 0 /\ pending = 0 /\ old = 0 /\ discard = 0
  /\ enabled = TRUE /\ rev = 0 /\ mu = NoOne
  /\ pc = [c \in Callers |-> "idle"] /\ op = [c \in Callers |-> "none"]
  /\ ver = [c \in Callers |-> 0] /\ owed = [c \in Callers |-> 0]
  /\ refreshMu = NoOne /\ seen = 0 /\ passes = 0 /\ refreshRev = 0 /\ built = 0
  /\ cacheRev = 0 /\ cacheAt = 0
  /\ fpc = [f \in Faces |-> "idle"] /\ frev = [f \in Faces |-> 0]
  /\ got = [f \in Faces |-> 0]
  /\ published = Content /\ swapped = 0 /\ snapshot = 0 /\ astray = FALSE
  /\ fails = 0 /\ crashes = 0

Go(c, to) == pc' = [pc EXCEPT ![c] = to]
Stay == UNCHANGED <<op, ver, owed>>
Quiet == UNCHANGED <<refresh, faces, crashes>>

\* The lock is released: after a mutation with the revision moved, which the
\* deferred notify and the caller's refresh follow, or with an error.
Leaves(c) ==
  /\ mu' = NoOne /\ Go(c, "refresh") /\ owed' = [owed EXCEPT ![c] = rev]
  /\ UNCHANGED <<op, ver>>
Fails(c) == mu' = NoOne /\ Go(c, "failed") /\ Stay

Moves == rev' = rev + 1 /\ published' = <<dir', enabled'>> /\ astray' = FALSE

CanFail == fails < MaxFails
Failed == fails' = fails + 1

----------------------------------------------------------------------------
(* Install and Update stage their source, and compare it, without the lock. *)

Stages(c) ==
  /\ pc[c] = "idle"
  /\ \E o \in {"install", "update"}, v \in Versions :
       /\ o = "update" => dir # 0 /\ v > dir
       /\ op' = [op EXCEPT ![c] = o] /\ ver' = [ver EXCEPT ![c] = v]
  /\ Go(c, "staged")
  /\ UNCHANGED <<disk, rev, mu, owed, hist, fails>> /\ Quiet

\* Install: the destination is checked again under the lock.
Install(c) ==
  /\ pc[c] = "staged" /\ op[c] = "install" /\ mu = NoOne
  /\ \/ /\ dir # 0
        /\ Fails(c) /\ UNCHANGED <<disk, rev, hist, fails>>
     \/ /\ dir = 0 /\ CanFail /\ Failed
        /\ Fails(c) /\ UNCHANGED <<disk, rev, hist>>
     \/ /\ dir = 0
        /\ dir' = ver[c] /\ mu' = c /\ Go(c, "leave") /\ Stay
        /\ UNCHANGED <<backup, pending, old, discard, enabled, swapped, snapshot, fails>>
        /\ Moves
  /\ Quiet

\* Update: what is installed is read and compared again under the lock.
UpdateLocks(c) ==
  /\ pc[c] = "staged" /\ op[c] = "update" /\ mu = NoOne
  /\ IF dir = 0 \/ ver[c] <= dir
       THEN Fails(c) /\ UNCHANGED <<disk, hist>>
       ELSE /\ mu' = c /\ Go(c, "aside") /\ Stay
            /\ pending' = 0 /\ snapshot' = backup
            /\ UNCHANGED <<dir, backup, old, discard, enabled, published, swapped, astray>>
  /\ UNCHANGED <<rev, fails>> /\ Quiet

\* The current version becomes the pending snapshot,
UpdateAside(c) ==
  /\ pc[c] = "aside"
  /\ \/ CanFail /\ Failed /\ Fails(c) /\ UNCHANGED <<disk, hist>>
     \/ /\ pending' = dir /\ dir' = 0 /\ swapped' = dir
        /\ Go(c, "swap") /\ Stay
        /\ UNCHANGED <<backup, old, discard, enabled, mu, published, snapshot, astray, fails>>
  /\ UNCHANGED rev /\ Quiet

\* the staged directory takes its place, or the current one goes back (by a rename,
\* which may fail like the first one: then the plugin is gone from its place),
UpdateSwaps(c) ==
  /\ pc[c] = "swap"
  /\ \/ /\ CanFail /\ Failed /\ Fails(c)
        /\ \/ dir' = pending /\ pending' = 0 /\ UNCHANGED astray
           \/ astray' = TRUE /\ UNCHANGED <<dir, pending>>
        /\ UNCHANGED <<backup, old, discard, enabled, rev, published, swapped, snapshot>>
     \/ /\ dir' = ver[c] /\ old' = 0 /\ Go(c, "snapshot") /\ Stay
        /\ UNCHANGED <<backup, pending, discard, enabled, mu, swapped, snapshot, fails>>
        /\ Moves
  /\ Quiet

\* and only then the previous snapshot moves out of the way
SnapshotMoves(c) ==
  /\ pc[c] = "snapshot"
  /\ \/ backup # 0 /\ CanFail /\ Failed /\ Fails(c) /\ UNCHANGED <<backup, old>>
     \/ /\ Go(c, "commit") /\ Stay /\ UNCHANGED <<mu, fails>>
        /\ IF backup # 0 THEN old' = backup /\ backup' = 0 ELSE UNCHANGED <<backup, old>>
  /\ UNCHANGED <<dir, pending, discard, enabled, rev, hist>> /\ Quiet

\* of the pending one.
SnapshotCommits(c) ==
  /\ pc[c] = "commit"
  /\ \/ /\ CanFail /\ Failed /\ Fails(c)
        /\ (backup' = old /\ old' = 0) \/ UNCHANGED <<backup, old>>
        /\ UNCHANGED pending
     \/ /\ backup' = pending /\ pending' = 0 /\ old' = 0
        /\ Go(c, "leave") /\ Stay /\ UNCHANGED <<mu, fails>>
  /\ UNCHANGED <<dir, discard, enabled, rev, hist>> /\ Quiet

----------------------------------------------------------------------------
(* Rollback, Uninstall and SetEnabled run under the lock. *)

RollbackLocks(c) ==
  /\ pc[c] = "idle" /\ mu = NoOne /\ backup # 0
  /\ op' = [op EXCEPT ![c] = "rollback"] /\ UNCHANGED <<ver, owed>>
  /\ mu' = c /\ discard' = 0 /\ Go(c, "discard")
  /\ UNCHANGED <<dir, backup, pending, old, enabled, rev, hist, fails>> /\ Quiet

RollbackAside(c) ==
  /\ pc[c] = "discard"
  /\ \/ dir # 0 /\ CanFail /\ Failed /\ Fails(c) /\ UNCHANGED <<dir, discard>>
     \/ /\ discard' = dir /\ dir' = 0
        /\ Go(c, "restore") /\ Stay /\ UNCHANGED <<mu, fails>>
  /\ UNCHANGED <<backup, pending, old, enabled, rev, hist>> /\ Quiet

RollbackRestores(c) ==
  /\ pc[c] = "restore"
  /\ \/ /\ CanFail /\ Failed /\ Fails(c)
        /\ \/ dir' = discard /\ discard' = 0 /\ UNCHANGED astray
           \/ discard # 0 /\ astray' = TRUE /\ UNCHANGED <<dir, discard>>
        /\ UNCHANGED <<backup, rev, pending, old, enabled, published, swapped, snapshot>>
     \/ /\ dir' = backup /\ backup' = 0 /\ discard' = 0
        /\ Go(c, "leave") /\ Stay
        /\ UNCHANGED <<mu, pending, old, enabled, swapped, snapshot, fails>>
        /\ Moves
  /\ Quiet

Uninstall(c) ==
  /\ pc[c] = "idle" /\ mu = NoOne /\ dir # 0
  /\ op' = [op EXCEPT ![c] = "uninstall"] /\ UNCHANGED <<ver, owed>>
  /\ mu' = c /\ dir' = 0 /\ backup' = 0 /\ enabled' = TRUE /\ Go(c, "leave")
  /\ UNCHANGED <<pending, old, discard, swapped, snapshot, fails>>
  /\ Moves /\ Quiet

SetEnabled(c) ==
  /\ pc[c] = "idle" /\ mu = NoOne /\ dir # 0
  /\ op' = [op EXCEPT ![c] = "toggle"] /\ UNCHANGED <<ver, owed>>
  /\ mu' = c /\ enabled' = ~enabled /\ Go(c, "leave")
  /\ UNCHANGED <<dir, backup, pending, old, discard, swapped, snapshot, fails>>
  /\ Moves /\ Quiet

Unlocks(c) ==
  /\ pc[c] = "leave" /\ Leaves(c)
  /\ UNCHANGED <<disk, rev, hist, fails>> /\ Quiet

----------------------------------------------------------------------------
(* RefreshPluginRuntime: the rebuilds are serialized, two passes at most. *)

RefreshLocks(c) ==
  /\ pc[c] = "refresh" /\ refreshMu = NoOne
  /\ refreshMu' = c /\ seen' = rev /\ passes' = 0 /\ Go(c, "check") /\ Stay
  /\ UNCHANGED <<disk, rev, mu, refreshRev, built, faces, hist, fails, crashes>>

RefreshChecks(c) ==
  /\ pc[c] = "check"
  /\ IF passes < 2 /\ seen # refreshRev
       THEN Go(c, "rebuild") /\ UNCHANGED refreshMu
       ELSE Go(c, "done") /\ refreshMu' = NoOne
  /\ Stay
  /\ UNCHANGED <<disk, rev, mu, seen, passes, refreshRev, built, faces, hist, fails, crashes>>

\* The rebuild reads the registry at some moment.
Rebuilds(c) ==
  /\ pc[c] = "rebuild" /\ mu = NoOne
  /\ built' = rev /\ Go(c, "note") /\ Stay
  /\ UNCHANGED <<disk, rev, mu, refreshMu, seen, passes, refreshRev, faces, hist,
                 fails, crashes>>

RefreshNotes_Late(c) ==
  /\ pc[c] = "note"
  /\ refreshRev' = rev /\ seen' = rev /\ passes' = passes + 1
  /\ Go(c, "check") /\ Stay
  /\ UNCHANGED <<disk, rev, mu, refreshMu, built, faces, hist, fails, crashes>>

\* What it covers is the revision read before it; then the clock is read again.
RefreshNotes(c) ==
  /\ pc[c] = "note"
  /\ refreshRev' = seen /\ seen' = rev /\ passes' = passes + 1
  /\ Go(c, "check") /\ Stay
  /\ UNCHANGED <<disk, rev, mu, refreshMu, built, faces, hist, fails, crashes>>

----------------------------------------------------------------------------
(* The agent's scan, cached against the revision (agent.Host.entries). *)

FaceReads(f) ==
  /\ fpc[f] = "idle"
  /\ frev' = [frev EXCEPT ![f] = rev] /\ fpc' = [fpc EXCEPT ![f] = "scan"]
  /\ UNCHANGED <<disk, rev, mu, calls, refresh, cacheRev, cacheAt, got, hist, fails, crashes>>

FaceScans(f) ==
  /\ fpc[f] = "scan"
  /\ IF cacheRev = frev[f]
       THEN UNCHANGED <<cacheRev, cacheAt>>
       ELSE mu = NoOne /\ cacheRev' = frev[f] /\ cacheAt' = rev
  /\ got' = [got EXCEPT ![f] = cacheAt'] /\ fpc' = [fpc EXCEPT ![f] = "done"]
  /\ UNCHANGED <<disk, rev, mu, calls, refresh, frev, hist, fails, crashes>>

----------------------------------------------------------------------------
Over == {"idle", "failed", "done", "dead"}

\* The process dies at a rename; the next one starts from what is on the disk.
Crash ==
  /\ crashes < MaxCrashes /\ mu # NoOne
  /\ crashes' = crashes + 1
  /\ rev' = 0 /\ mu' = NoOne
  /\ pc' = [c \in Callers |-> IF pc[c] \in Over THEN pc[c] ELSE "dead"]
  /\ owed' = [c \in Callers |-> 0]
  /\ refreshMu' = NoOne /\ seen' = 0 /\ passes' = 0 /\ refreshRev' = 0 /\ built' = 0
  /\ cacheRev' = 0 /\ cacheAt' = 0
  /\ fpc' = [f \in Faces |-> "idle"] /\ frev' = [f \in Faces |-> 0]
  /\ got' = [f \in Faces |-> 0]
  /\ published' = Content /\ astray' = FALSE
  /\ UNCHANGED <<disk, op, ver, swapped, snapshot, fails>>

Next ==
  \/ \E c \in Callers :
       \/ Stages(c) \/ Install(c)
       \/ UpdateLocks(c) \/ UpdateAside(c) \/ UpdateSwaps(c)
       \/ SnapshotMoves(c) \/ SnapshotCommits(c)
       \/ RollbackLocks(c) \/ RollbackAside(c) \/ RollbackRestores(c)
       \/ Uninstall(c) \/ SetEnabled(c) \/ Unlocks(c)
       \/ RefreshLocks(c) \/ RefreshChecks(c) \/ Rebuilds(c) \/ RefreshNotes(c)
  \/ \E f \in Faces : FaceReads(f) \/ FaceScans(f)
  \/ Crash

Spec == Init /\ [][Next]_vars

----------------------------------------------------------------------------
(* Properties. *)

RegistryTypeOK ==
  /\ {dir, backup, pending, old, discard} \subseteq 0 .. MaxVersion
  /\ enabled \in BOOLEAN /\ rev \in Nat /\ mu \in Callers \cup {NoOne}
  /\ \A c \in Callers : pc[c] \in {"aside", "swap", "snapshot", "commit", "discard",
                                   "restore", "leave"} => mu = c
  /\ \A c \in Callers : pc[c] \in {"check", "rebuild", "note"} => refreshMu = c
  /\ cacheRev <= rev /\ cacheAt <= rev /\ built <= rev

(***************************************************************************)
(* "the swap below then only ever replaces the version it compared         *)
(* against" (Store.Update): an update never puts an older version over a   *)
(* newer one, whatever landed while it staged its files.                   *)
(***************************************************************************)
SwapIsNewer == \A c \in Callers : pc[c] = "snapshot" => ver[c] > swapped

\* "a failed swap never loses the last good rollback" (Store.Update): until the
\* new snapshot is in place the one the update found is kept.
RollbackKept ==
  \A c \in Callers :
    /\ pc[c] \in {"aside", "swap", "snapshot"} => backup = snapshot
    /\ pc[c] = "commit" => snapshot \in {backup, old}
    /\ pc[c] = "leave" /\ op[c] = "update" => backup = swapped

\* Until the plugin is uninstalled some directory holds a version of it, through
\* failed renames and a death at any of them.
SomeCopySurvives ==
  (\A c \in Callers : op[c] # "uninstall") =>
    \E d \in {dir, backup, pending, discard} : d # 0

\* The registry changes only with its revision: outside the lock the content is
\* what it was when the revision moved last (Store.rev). The one change it does not
\* tell of: the rename that should have put the plugin back failed as well, and the
\* plugin is gone from its place, its switch as it was (Store.Update, Store.Rollback).
RevisionCovers ==
  mu = NoOne =>
    /\ enabled = published[2]
    /\ IF astray THEN dir = 0 ELSE dir = published[1]

\* A read of the agent's scan that begins after a mutation sees it
\* (agent.Host.entries: it "reaches the next read").
FreshRead == \A f \in Faces : fpc[f] = "done" => got[f] >= frev[f]

\* "What the loop owes a caller is that the revision read before the call is
\* covered" (RefreshPluginRuntime).
CallerIsCovered == \A c \in Callers : pc[c] = "done" => built >= owed[c]
==============================================================================
