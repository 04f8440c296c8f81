------------------------------ MODULE HostPool ------------------------------
(***************************************************************************)
(* The host pool of internal/orchestration/host, seen from one workspace:  *)
(* which Host serves it, how concurrent callers share one assembly, how a  *)
(* stale Host leaves the pool, how its teardown waits for runs and titles, *)
(* and how a deferred replacement is armed.                                *)
(*                                                                         *)
(* Every section of code under one hold of Manager.mu or Host.mu is one    *)
(* action; what runs between two holds may interleave.  The processes are  *)
(*   Windows    desktop callers: Runtime.Do over Manager.Ensure + StartRun *)
(*   Guests     headless callers: Manager.Acquire, StartRun, Host.Close    *)
(*   Reloaders  Core.RebuildRuntime after the document on disk changed     *)
(*   Watcher    the goroutine of ScheduleReplacement                       *)
(* and, per Host, the thread that runs closeWhenDrained and doClose.       *)
(***************************************************************************)
EXTENDS Integers, FiniteSets

CONSTANTS Hosts,        \* identities an assembly can give to a new Host
          Windows, Guests, Reloaders, Watcher,
          NoHost,       \* a nil *Host
          NoProc,       \* no assembly in flight
          MaxAttempts,  \* maxStartAttempts of Runtime.Do
          MaxCalls,     \* bound: calls each window, guest or reloader makes
          MaxDoc        \* bound: changes of the document on disk

Turners == Windows \cup Guests
Procs   == Turners \cup Reloaders \cup {Watcher}

ASSUME PoolAssumption ==
    /\ Windows \cap Guests = {} /\ Windows \cap Reloaders = {}
    /\ Guests \cap Reloaders = {}
    /\ Watcher \notin Turners \cup Reloaders
    /\ NoHost \notin Hosts /\ NoProc \notin Procs
    /\ MaxAttempts \in Nat \ {0} /\ MaxCalls \in Nat /\ MaxDoc \in Nat

ASSUME GuestsAssumption == IsFiniteSet(Guests)

VARIABLES
    \* Manager, under m.mu
    pooled,      \* m.hosts[workDir].host
    refs,        \* m.hosts[workDir].refs
    configured,  \* m.hosts[workDir].configured
    retiring,    \* m.retiring[workDir]
    assembling,  \* leader of m.assembling[workDir], or NoProc
    armed,       \* workDir \in m.armed
    doc,         \* generation of the document on disk
    \* per Host
    stage,       \* how far its teardown has come
    stale,       \* Host.stale (and ref.stale, which is set with it)
    wired,       \* the configurator callback has run on it
    cfg,         \* the document generation it was assembled from
    runs,        \* owners of the runs in Host.runs
    titles,      \* owners of the auto-titles counted by Host.titleWG
    late,        \* history: owners of runs registered on a closed Host
    \* per process
    pc, tgt, calls, attempts

poolVars == <<pooled, refs, configured, retiring, assembling>>
hostVars == <<stage, stale, wired, cfg>>
runVars  == <<runs, titles, late>>
procVars == <<tgt, calls, attempts>>
vars == <<poolVars, armed, doc, hostVars, runVars, pc, procVars>>

-----------------------------------------------------------------------------
(* The teardown of one Host.  closing, closed, closeDone and "the store is  *)
(* still referenced" are all functions of how far doClose has come.         *)

Stages == {"absent", "up", "draining", "awaitRuns", "closed", "down",
           "released", "signalled", "gone"}

Closing(h)   == stage[h] \notin {"absent", "up"}
Closed(h)    == stage[h] \in {"closed", "down", "released", "signalled", "gone"}
CloseDone(h) == stage[h] \in {"signalled", "gone"}
RuntimeUp(h) == stage[h] \in {"up", "draining", "awaitRuns", "closed"}
StoreHeld(h) == RuntimeUp(h) \/ stage[h] = "down"
Occupied(h)  == stage[h] \notin {"absent", "gone"}

Building == {"load", "install", "publish", "publishErr", "publishCancel"}

Labels == Building \cup
    {"idle", "ensure", "peek", "acquire", "waitClosed", "awaitDone", "follow",
     "configure", "wire", "start", "open", "register", "running", "settle",
     "drop", "retire", "shut", "shutting", "post", "awaitClose",
     "release", "guestShut", "guestShutting",
     "invalidate", "checkStale", "schedule",
     "watch", "watchState", "watchLook", "watchDone", "wanted", "disarm"}

TypeOK ==
    /\ pooled \in Hosts \cup {NoHost} /\ retiring \in Hosts \cup {NoHost}
    /\ refs \in Nat /\ configured \in BOOLEAN /\ armed \in BOOLEAN
    /\ assembling \in Procs \cup {NoProc}
    /\ doc \in Nat
    /\ stage \in [Hosts -> Stages] /\ stale \in [Hosts -> BOOLEAN]
    /\ wired \in [Hosts -> BOOLEAN] /\ cfg \in [Hosts -> Nat]
    /\ runs \in [Hosts -> SUBSET Turners] /\ titles \in [Hosts -> SUBSET Turners]
    /\ late \in SUBSET Turners
    /\ pc \in [Procs -> Labels] /\ tgt \in [Procs -> Hosts \cup {NoHost}]
    /\ calls \in [Procs -> Nat] /\ attempts \in [Procs -> 0 .. MaxAttempts]

Init ==
    /\ pooled = NoHost /\ retiring = NoHost /\ assembling = NoProc
    /\ refs = 0 /\ configured = FALSE /\ armed = FALSE /\ doc = 0
    /\ stage = [h \in Hosts |-> "absent"] /\ stale = [h \in Hosts |-> FALSE]
    /\ wired = [h \in Hosts |-> FALSE] /\ cfg = [h \in Hosts |-> 0]
    /\ runs = [h \in Hosts |-> {}] /\ titles = [h \in Hosts |-> {}]
    /\ late = {}
    /\ pc = [p \in Procs |-> "idle"] /\ tgt = [p \in Procs |-> NoHost]
    /\ calls = [p \in Procs |-> 0] /\ attempts = [p \in Procs |-> 0]

Go(p, from, to) == pc[p] = from /\ pc' = [pc EXCEPT ![p] = to]
Aim(p, h)       == tgt' = [tgt EXCEPT ![p] = h]

\* Where a process continues with the Host that Ensure or Acquire returned,
\* and where it continues when they returned an error.
Served(p) == IF p \in Turners THEN "start"
             ELSE IF p \in Reloaders THEN "checkStale" ELSE "disarm"
Refused(p) == IF p = Watcher THEN "disarm" ELSE "idle"

-----------------------------------------------------------------------------
(* Calls                                                                    *)

\* A window or guest call arrives: Runtime.Do, or the headless Acquire.
CallTurn(p) ==
    /\ p \in Turners /\ calls[p] < MaxCalls
    /\ Go(p, "idle", IF p \in Windows THEN "ensure" ELSE "acquire")
    /\ calls' = [calls EXCEPT ![p] = @ + 1]
    /\ attempts' = [attempts EXCEPT ![p] = 1]
    /\ UNCHANGED <<poolVars, armed, doc, hostVars, runVars, tgt>>

\* The document on disk changed and the desktop rebuilds its runtime.
CallRebuild(p) ==
    /\ p \in Reloaders /\ calls[p] < MaxCalls /\ doc < MaxDoc
    /\ Go(p, "idle", "invalidate")
    /\ calls' = [calls EXCEPT ![p] = @ + 1]
    /\ doc' = doc + 1
    /\ UNCHANGED <<poolVars, armed, hostVars, runVars, tgt, attempts>>

-----------------------------------------------------------------------------
(* Manager.Ensure and Manager.Acquire                                       *)

Current == IF pooled # NoHost THEN pooled ELSE retiring

\* Ensure reads Current ...
EnsureCurrent(p) ==
    /\ Go(p, "ensure", IF Current = NoHost THEN "acquire" ELSE "peek")
    /\ Aim(p, Current)
    /\ UNCHANGED <<poolVars, armed, doc, hostVars, runVars, calls, attempts>>

\* ... and then asks that Host, outside the pool lock, whether it is closing.
EnsurePeek(p) ==
    /\ Go(p, "peek", IF Closing(tgt[p]) THEN "acquire" ELSE "configure")
    /\ UNCHANGED <<poolVars, armed, doc, hostVars, runVars, procVars>>

\* Variant: a pool hit is not counted.
AcquirePooled_NoRef(p) ==
    /\ pooled # NoHost
    /\ Go(p, "acquire", "configure") /\ Aim(p, pooled)
    /\ UNCHANGED <<poolVars, armed, doc, hostVars, runVars, calls, attempts>>

AcquirePooled(p) ==
    /\ pooled # NoHost
    /\ Go(p, "acquire", "configure") /\ Aim(p, pooled)
    /\ refs' = refs + 1
    /\ UNCHANGED <<pooled, configured, retiring, assembling, armed, doc,
                   hostVars, runVars, calls, attempts>>

AcquireRetiring(p) ==
    /\ pooled = NoHost /\ retiring # NoHost
    /\ Go(p, "acquire", "waitClosed") /\ Aim(p, retiring)
    /\ UNCHANGED <<poolVars, armed, doc, hostVars, runVars, calls, attempts>>

AcquireLead(p) ==
    /\ pooled = NoHost /\ retiring = NoHost /\ assembling = NoProc
    /\ Go(p, "acquire", "load") /\ Aim(p, NoHost)
    /\ assembling' = p
    /\ UNCHANGED <<pooled, refs, configured, retiring, armed, doc,
                   hostVars, runVars, calls, attempts>>

AcquireFollow(p) ==
    /\ pooled = NoHost /\ retiring = NoHost /\ assembling # NoProc
    /\ Go(p, "acquire", "follow") /\ Aim(p, NoHost)
    /\ UNCHANGED <<poolVars, armed, doc, hostVars, runVars, calls, attempts>>

\* WaitClosed: a Host whose closed flag is set is not waited for, any other
\* is waited for until closeDone is closed.  Acquire then looks again.
WaitClosedLook(p) ==
    /\ Go(p, "waitClosed", IF Closed(tgt[p]) THEN "acquire" ELSE "awaitDone")
    /\ UNCHANGED <<poolVars, armed, doc, hostVars, runVars, procVars>>

WaitClosedDone(p) ==
    /\ Go(p, "awaitDone", "acquire")
    /\ CloseDone(tgt[p])
    /\ UNCHANGED <<poolVars, armed, doc, hostVars, runVars, procVars>>

\* The caller's context (the retry window of Do, a cancelled RPC) fires while
\* it waits.  The watcher runs without cancellation.
GiveUp(p) ==
    /\ p # Watcher /\ pc[p] \in {"awaitDone", "follow"}
    /\ pc' = [pc EXCEPT ![p] = "idle"]
    /\ UNCHANGED <<poolVars, armed, doc, hostVars, runVars, procVars>>

-----------------------------------------------------------------------------
(* Assembly: the leader builds, installs and publishes; followers wait      *)

\* buildHost reads the document and takes the session store reference.
BuildHost(p, h) ==
    /\ stage[h] = "absent"
    /\ Go(p, "load", "install") /\ Aim(p, h)
    /\ stage' = [stage EXCEPT ![h] = "up"]
    /\ cfg' = [cfg EXCEPT ![h] = doc]
    /\ UNCHANGED <<poolVars, armed, doc, stale, wired, runVars, calls, attempts>>

\* Every error path of buildHost gives the store reference back; an error
\* that is the leader's own cancellation is not shared with the followers.
BuildFails(p) ==
    /\ \/ Go(p, "load", "publishErr")
       \/ p # Watcher /\ Go(p, "load", "publishCancel")
    /\ UNCHANGED <<poolVars, armed, doc, hostVars, runVars, procVars>>

\* The Host enters the pool.  The code also handles an entry that another
\* caller installed meanwhile; InstallFindsEmptyPool shows there is none.
Install(p) ==
    /\ Go(p, "install", "publish")
    /\ pooled' = tgt[p] /\ refs' = 1 /\ configured' = FALSE
    /\ UNCHANGED <<retiring, assembling, armed, doc, hostVars, runVars, procVars>>

\* Variant: only a success wakes the followers.
Publish_OnlySuccess(p) ==
    /\ pc[p] \in {"publish", "publishErr", "publishCancel"}
    /\ assembling' = NoProc
    /\ pc' = [q \in Procs |->
                CASE q = p -> IF pc[p] = "publish" THEN "configure" ELSE Refused(p)
                  [] pc[q] = "follow" /\ pc[p] = "publish" -> "acquire"
                  [] OTHER -> pc[q]]
    /\ UNCHANGED <<pooled, refs, configured, retiring, armed, doc, hostVars,
                   runVars, procVars>>

\* The deferred exit of assembleShared: forget the call, record its error,
\* wake every follower.
Publish(p) ==
    /\ pc[p] \in {"publish", "publishErr", "publishCancel"}
    /\ assembling' = NoProc
    /\ pc' = [q \in Procs |->
                CASE q = p -> IF pc[p] = "publish" THEN "configure" ELSE Refused(p)
                  [] pc[q] = "follow" ->
                        IF pc[p] = "publishErr" THEN Refused(q) ELSE "acquire"
                  [] OTHER -> pc[q]]
    /\ UNCHANGED <<pooled, refs, configured, retiring, armed, doc, hostVars,
                   runVars, procVars>>

-----------------------------------------------------------------------------
(* configureHost: the marker is set under m.mu, the callback runs after it  *)

Configure(p) ==
    LET mine == pooled = tgt[p] /\ ~configured IN
    /\ Go(p, "configure", IF mine THEN "wire" ELSE Served(p))
    /\ configured' = (configured \/ mine)
    /\ UNCHANGED <<pooled, refs, retiring, assembling, armed, doc, hostVars,
                   runVars, procVars>>

Wire(p) ==
    /\ Go(p, "wire", Served(p))
    /\ wired' = [wired EXCEPT ![tgt[p]] = TRUE]
    /\ UNCHANGED <<poolVars, armed, doc, stage, stale, cfg, runVars, procVars>>

-----------------------------------------------------------------------------
(* Host.StartRun and Runtime.Do                                             *)

\* Variant: the attempt budget is checked with the wrong comparison.
Retry_OffByOne(p) ==
    /\ p \in Windows /\ attempts[p] <= MaxAttempts
    /\ Go(p, pc[p], "ensure")
    /\ attempts' = [attempts EXCEPT ![p] = @ + 1]

Retry(p) ==
    /\ p \in Windows /\ attempts[p] < MaxAttempts
    /\ Go(p, pc[p], "ensure")
    /\ attempts' = [attempts EXCEPT ![p] = @ + 1]

\* The call ends without a run: a guest still closes the Host it acquired.
Fail(p) ==
    /\ Go(p, pc[p], IF p \in Guests THEN "release" ELSE "idle")
    /\ UNCHANGED attempts

\* A closing Host refuses with ErrRuntimeClosing, which Do retries.
StartCheck(p) ==
    /\ pc[p] = "start"
    /\ \/ ~Closing(tgt[p]) /\ Go(p, "start", "open") /\ UNCHANGED attempts
       \/ Closing(tgt[p]) /\ Retry(p)
       \/ Closing(tgt[p]) /\ attempts[p] = MaxAttempts /\ Fail(p)
       \/ Closing(tgt[p]) /\ p \in Guests /\ Fail(p)
    /\ UNCHANGED <<poolVars, armed, doc, hostVars, runVars, tgt, calls>>

\* Sessions().Open and StartWithOptions on the engine, which serves new
\* turns until a drain has finished and may refuse them while it drains.
StartTurn(p) ==
    /\ Go(p, "open", "register")
    /\ stage[tgt[p]] \in {"up", "draining"}
    /\ UNCHANGED <<poolVars, armed, doc, hostVars, runVars, procVars>>

\* Any step up to the registration can fail; a runtime that is gone is
\* reported as not ready, which Do retries.
StartFails(p) ==
    /\ pc[p] = "open"
    /\ Fail(p) \/ (~RuntimeUp(tgt[p]) /\ Retry(p))
    /\ UNCHANGED <<poolVars, armed, doc, hostVars, runVars, tgt, calls>>

\* The run joins Host.runs under h.mu.  closing is not looked at again.
Register(p) ==
    /\ Go(p, "register", "running")
    /\ runs' = [runs EXCEPT ![tgt[p]] = @ \cup {p}]
    /\ late' = IF Closed(tgt[p]) THEN late \cup {p} ELSE late
    /\ UNCHANGED <<poolVars, armed, doc, hostVars, titles, procVars>>

-----------------------------------------------------------------------------
(* Run.Wait: the turn ends and its settle path runs                         *)

TurnEnds(p) ==
    /\ Go(p, "running", "settle")
    /\ UNCHANGED <<poolVars, armed, doc, hostVars, runVars, procVars>>

\* Archive row, checkpoints, usage and rollout are written to the store, and
\* an auto-title is launched unless the Host is closed or none is wanted.
Settle(p) ==
    /\ Go(p, "settle", "drop")
    /\ \/ /\ ~Closed(tgt[p])
          /\ titles' = [titles EXCEPT ![tgt[p]] = @ \cup {p}]
       \/ UNCHANGED titles
    /\ UNCHANGED <<poolVars, armed, doc, hostVars, runs, late, procVars>>

\* Variant: idleness is read before the run is deleted.
DropRun_IdleFirst(p) ==
    /\ Go(p, "drop", IF runs[tgt[p]] = {} THEN "retire" ELSE "post")
    /\ runs' = [runs EXCEPT ![tgt[p]] = @ \ {p}]
    /\ late' = late \ {p}
    /\ UNCHANGED <<poolVars, armed, doc, hostVars, titles, procVars>>

DropRun(p) ==
    /\ Go(p, "drop", IF runs[tgt[p]] = {p} THEN "retire" ELSE "post")
    /\ runs' = [runs EXCEPT ![tgt[p]] = @ \ {p}]
    /\ late' = late \ {p}
    /\ UNCHANGED <<poolVars, armed, doc, hostVars, titles, procVars>>

\* Variant: the Host leaves the pool without being remembered.
TrackRetiring_Forgets(h) ==
    /\ pooled' = NoHost /\ refs' = 0 /\ configured' = FALSE
    /\ UNCHANGED retiring

\* trackRetiringLocked: the Host just removed from the pool is remembered
\* as retiring, and is closed by the caller, unless the slot is taken.
TrackRetiring(h) ==
    /\ pooled' = NoHost /\ refs' = 0 /\ configured' = FALSE
    /\ retiring' = IF retiring = NoHost THEN h ELSE retiring

\* hostIdle, called by the run that emptied Host.runs.
HostIdle(p) ==
    /\ pc[p] = "retire"
    /\ IF pooled = tgt[p] /\ stale[tgt[p]]
       THEN /\ TrackRetiring(tgt[p])
            /\ Go(p, "retire", IF retiring = NoHost THEN "shut" ELSE "post")
       ELSE /\ UNCHANGED <<pooled, refs, configured, retiring>>
            /\ Go(p, "retire", "post")
    /\ UNCHANGED <<assembling, armed, doc, hostVars, runVars, procVars>>

\* awaitCloseIfClosing, after the turn-end hooks: waits for the teardown
\* unless the closed flag is already set.
Post(p) ==
    /\ Go(p, "post",
          IF Closing(tgt[p]) /\ ~Closed(tgt[p]) THEN "awaitClose"
          ELSE IF p \in Guests THEN "release" ELSE "idle")
    /\ UNCHANGED <<poolVars, armed, doc, hostVars, runVars, procVars>>

AwaitClose(p) ==
    /\ Go(p, "awaitClose", IF p \in Guests THEN "release" ELSE "idle")
    /\ CloseDone(tgt[p])
    /\ UNCHANGED <<poolVars, armed, doc, hostVars, runVars, procVars>>

TitleEnds(p, h) ==
    /\ p \in titles[h]
    /\ titles' = [titles EXCEPT ![h] = @ \ {p}]
    /\ UNCHANGED <<poolVars, armed, doc, hostVars, runs, late, pc, procVars>>

-----------------------------------------------------------------------------
(* Host.Close and the teardown                                              *)

\* The last reference takes the Host out of the pool; a Host the pool no
\* longer holds is closed as well, one that was replaced is left alone.
Release(p) ==
    LET h == tgt[p] IN
    /\ pc[p] = "release"
    /\ IF pooled = h
       THEN IF refs > 1
            THEN /\ refs' = refs - 1 /\ Go(p, "release", "idle")
                 /\ UNCHANGED <<pooled, configured, retiring>>
            ELSE /\ pooled' = NoHost /\ refs' = 0 /\ configured' = FALSE
                 /\ retiring' = h /\ Go(p, "release", "guestShut")
       ELSE /\ Go(p, "release", IF pooled = NoHost THEN "guestShut" ELSE "idle")
            /\ UNCHANGED <<pooled, refs, configured, retiring>>
    /\ UNCHANGED <<assembling, armed, doc, hostVars, runVars, procVars>>

\* beginClose: the first caller starts the teardown, in its own thread when
\* the Host is idle and in a goroutine when it has live runs.
BeginClose(p, at, wait, next) ==
    LET h == tgt[p] IN
    /\ pc[p] = at
    /\ IF Closing(h)
       THEN Go(p, at, next) /\ UNCHANGED stage
       ELSE /\ stage' = [stage EXCEPT ![h] = "draining"]
            /\ Go(p, at, IF runs[h] = {} THEN wait ELSE next)
    /\ UNCHANGED <<poolVars, armed, doc, stale, wired, cfg, runVars, procVars>>

\* The thread that runs the teardown itself returns when it is complete.
Shut(p, wait, next) ==
    /\ Go(p, wait, next)
    /\ stage[tgt[p]] = "gone"
    /\ UNCHANGED <<poolVars, armed, doc, hostVars, runVars, procVars>>

AfterShut(p) == IF p \in Reloaders THEN "ensure" ELSE "post"

CloseRetired(p)  == BeginClose(p, "shut", "shutting", AfterShut(p))
CloseReleased(p) == BeginClose(p, "guestShut", "guestShutting", "idle")
RetiredShut(p)   == Shut(p, "shutting", AfterShut(p))
ReleasedShut(p)  == Shut(p, "guestShutting", "idle")

Advance(h, from, to) ==
    /\ stage[h] = from
    /\ stage' = [stage EXCEPT ![h] = to]
    /\ UNCHANGED <<refs, configured, pooled, assembling, armed, doc, stale,
                   wired, cfg, runVars, pc, procVars>>

\* Drain returns when the engine's turns ended or hostDrainBudget ran out.
DrainEnds(h) == Advance(h, "draining", "awaitRuns") /\ UNCHANGED retiring

\* Variants: no wait for the runs; the pool forgets the Host too early.
SetClosed_NoWait(h) == Advance(h, "awaitRuns", "closed") /\ UNCHANGED retiring
SetClosed_ForgetsHost(h) ==
    /\ runs[h] = {} /\ Advance(h, "awaitRuns", "closed")
    /\ retiring' = IF retiring = h THEN NoHost ELSE retiring

\* doClose waits under h.mu until no run is registered, then sets closed.
SetClosed(h) ==
    runs[h] = {} /\ Advance(h, "awaitRuns", "closed") /\ UNCHANGED retiring

\* Variant: the auto-titles are not waited for.
CloseRuntime_NoWait(h) == Advance(h, "closed", "down") /\ UNCHANGED retiring

\* titleWG.Wait, then rollouts, reflow, broker and controller are closed.
CloseRuntime(h) ==
    titles[h] = {} /\ Advance(h, "closed", "down") /\ UNCHANGED retiring

ReleaseStore(h) == Advance(h, "down", "released") /\ UNCHANGED retiring

SignalDone(h) == Advance(h, "released", "signalled") /\ UNCHANGED retiring

HostClosed(h) ==
    /\ Advance(h, "signalled", "gone")
    /\ retiring' = IF retiring = h THEN NoHost ELSE retiring

-----------------------------------------------------------------------------
(* Core.RebuildRuntime: invalidate, ensure, arm the replacement             *)

Invalidate(p) ==
    LET h == pooled IN
    /\ pc[p] = "invalidate"
    /\ IF h = NoHost
       THEN /\ Go(p, "invalidate", "ensure")
            /\ UNCHANGED <<pooled, refs, configured, retiring, stale, tgt>>
       ELSE /\ stale' = [stale EXCEPT ![h] = TRUE]
            /\ Aim(p, h)
            /\ IF runs[h] = {}
               THEN /\ TrackRetiring(h)
                    /\ Go(p, "invalidate",
                          IF retiring = NoHost THEN "shut" ELSE "ensure")
               ELSE /\ UNCHANGED <<pooled, refs, configured, retiring>>
                    /\ Go(p, "invalidate", "ensure")
    /\ UNCHANGED <<assembling, armed, doc, stage, wired, cfg, runVars, calls,
                   attempts>>

CheckStale(p) ==
    /\ Go(p, "checkStale", IF stale[tgt[p]] THEN "schedule" ELSE "idle")
    /\ UNCHANGED <<poolVars, armed, doc, hostVars, runVars, procVars>>

\* ScheduleReplacement arms the slot and starts the watcher, or reports that
\* a replacement is already on its way.
Schedule(p) ==
    /\ pc[p] = "schedule"
    /\ IF armed
       THEN Go(p, "schedule", "idle")
       ELSE pc' = [pc EXCEPT ![p] = "idle", ![Watcher] = "watch"]
    /\ armed' = TRUE
    /\ UNCHANGED <<poolVars, doc, hostVars, runVars, procVars>>

-----------------------------------------------------------------------------
(* replaceAfterDrain                                                        *)

Watch ==
    /\ Go(Watcher, "watch", IF Current = NoHost THEN "wanted" ELSE "watchState")
    /\ Aim(Watcher, Current)
    /\ UNCHANGED <<poolVars, armed, doc, hostVars, runVars, calls, attempts>>

WatchState ==
    LET h == tgt[Watcher] IN
    /\ Go(Watcher, "watchState",
          IF stale[h] \/ Closing(h) THEN "watchLook" ELSE "disarm")
    /\ UNCHANGED <<poolVars, armed, doc, hostVars, runVars, procVars>>

WatchLook ==
    /\ Go(Watcher, "watchLook",
          IF Closed(tgt[Watcher]) THEN "wanted" ELSE "watchDone")
    /\ UNCHANGED <<poolVars, armed, doc, hostVars, runVars, procVars>>

WatchDone ==
    /\ Go(Watcher, "watchDone", "wanted")
    /\ CloseDone(tgt[Watcher])
    /\ UNCHANGED <<poolVars, armed, doc, hostVars, runVars, procVars>>

\* The adapter may no longer want the workspace (the window moved on).
Wanted ==
    /\ Go(Watcher, "wanted", "ensure") \/ Go(Watcher, "wanted", "disarm")
    /\ UNCHANGED <<poolVars, armed, doc, hostVars, runVars, procVars>>

Disarm ==
    /\ Go(Watcher, "disarm", "idle")
    /\ armed' = FALSE
    /\ UNCHANGED <<poolVars, doc, hostVars, runVars, procVars>>

-----------------------------------------------------------------------------
(* The steps a thread must take once it can, the steps it may take, and the *)
(* steps of a teardown.                                                     *)

ProcStep(p) ==
    \/ EnsureCurrent(p) \/ EnsurePeek(p)
    \/ AcquirePooled(p) \/ AcquireRetiring(p) \/ AcquireLead(p) \/ AcquireFollow(p)
    \/ WaitClosedLook(p) \/ WaitClosedDone(p)
    \/ (\E h \in Hosts : BuildHost(p, h)) \/ BuildFails(p)
    \/ Install(p) \/ Publish(p) \/ Configure(p) \/ Wire(p)

TurnStep(p) ==
    \/ StartCheck(p) \/ StartTurn(p) \/ StartFails(p) \/ Register(p)
    \/ TurnEnds(p) \/ Settle(p) \/ DropRun(p) \/ HostIdle(p)
    \/ Post(p) \/ AwaitClose(p) \/ Release(p)

ShutStep(p) ==
    CloseRetired(p) \/ CloseReleased(p) \/ RetiredShut(p) \/ ReleasedShut(p)

ReloadStep(p) == Invalidate(p) \/ CheckStale(p) \/ Schedule(p)

ThreadStep(p) ==
    \/ ProcStep(p)
    \/ p # Watcher /\ ShutStep(p)
    \/ p \in Turners /\ TurnStep(p)
    \/ p \in Reloaders /\ ReloadStep(p)

WatchStep == Watch \/ WatchState \/ WatchLook \/ WatchDone \/ Wanted \/ Disarm

HostStep(h) ==
    \/ DrainEnds(h) \/ SetClosed(h) \/ CloseRuntime(h) \/ ReleaseStore(h)
    \/ SignalDone(h) \/ HostClosed(h)

Next ==
    \/ \E p \in Procs : CallTurn(p) \/ CallRebuild(p) \/ GiveUp(p)
    \/ \E p \in Procs : ThreadStep(p)
    \/ WatchStep
    \/ \E h \in Hosts : HostStep(h)
    \/ \E p \in Turners, h \in Hosts : TitleEnds(p, h)

Spec == Init /\ [][Next]_vars

\* Threads are scheduled, turns end (the graph has a run timeout), title
\* calls return and the drain has a budget.  New calls and cancellations are
\* not owed.
Fairness ==
    /\ \A p \in Procs : WF_vars(ThreadStep(p))
    /\ WF_vars(WatchStep)
    /\ \A h \in Hosts : WF_vars(HostStep(h))
    /\ \A p \in Turners, h \in Hosts : WF_vars(TitleEnds(p, h))

FairSpec == Spec /\ Fairness

-----------------------------------------------------------------------------
(* Safety                                                                   *)

\* A workspace never has a pooled Host and a retiring one at once: Acquire
\* waits out the teardown, and nothing enters the pool while one retires.
PoolExclusive == pooled # NoHost => retiring = NoHost

\* At most one Host of the workspace exists between its assembly and the end
\* of its teardown: two would serve the same conversations on two engines.
OneHost == \A g, h \in Hosts : Occupied(g) /\ Occupied(h) => g = h

\* The branch of assembleShared for an entry installed by another caller is
\* never taken: a leader that comes to install finds the pool empty.
InstallFindsEmptyPool == \A p \in Procs : pc[p] = "install" => pooled = NoHost

\* The Hosts of a workspace take turns, whoever assembles, retires or
\* reloads them (host/pool.go, host/build.go).
HostsTakeTurns == PoolExclusive /\ OneHost /\ InstallFindsEmptyPool

\* An auto-title borrows the runtime and the store after its turn ended:
\* doClose tears neither down before the titles it launched are over.
TitleKeepsRuntime == \A h \in Hosts : titles[h] # {} => RuntimeUp(h)

\* doClose releases the store only after every run registered on the Host
\* before it was closed has done its post-run writes and left Host.runs.
RunKeepsStore ==
    \A h \in Hosts : runs[h] \ late # {} => StoreHeld(h)

\* A guest's Host is closed under it only by an invalidation, never by the
\* Host.Close of another guest: Acquire counted its reference.
Holding == {"configure", "wire", "start", "open", "register", "running",
            "settle", "drop", "retire", "post", "release"}
GuestKeepsHost ==
    \A p \in Guests :
        pc[p] \in Holding /\ Closing(tgt[p]) => stale[tgt[p]]

\* The pool implements the generations of a workspace.
Occupant == {h \in Hosts : Occupied(h)}
AbsGen  == IF Occupant = {} THEN NoHost ELSE CHOOSE h \in Hosts : Occupied(h)
AbsMode == IF Occupant = {} THEN "none"
           ELSE IF retiring # NoHost THEN "retiring" ELSE "serving"
AbsPast == {h \in Hosts : stage[h] = "gone"}
Generations == INSTANCE HostGenerations
                 WITH gen <- AbsGen, mode <- AbsMode, past <- AbsPast
ImplementsGenerations == Generations!Spec

-----------------------------------------------------------------------------
(* Liveness                                                                 *)

\* A Host invalidated while its runs are live is still torn down: the last
\* run retires it, whatever the order of Invalidate and dropRun.
StaleRetires == \A h \in Hosts : stale[h] ~> stage[h] = "gone"

\* Every call that entered the pool comes back: nobody waits for a teardown,
\* an assembly or a close that nobody completes, the watcher included.
EveryCallReturns == \A p \in Procs : pc[p] # "idle" ~> pc[p] = "idle"

-----------------------------------------------------------------------------
(* What comments of the code say, and the code does not do.                 *)

\* handle.go, hostDrainBudget: "The store teardown that must not run under
\* live writers is guarded separately by the runs set below".
EveryRunKeepsStore == \A h \in Hosts : runs[h] # {} => StoreHeld(h)

\* handle.go, Host.closeDone: "active runs wait on it before returning so the
\* shared session store outlives every post-run write".
RunReturnsAfterTeardown ==
    [][\A p \in Turners :
          pc[p] = "post" /\ pc'[p] \in {"idle", "release"} /\ Closing(tgt[p])
              => CloseDone(tgt[p])]_vars

\* handle.go, WaitClosed: "blocks until the Host has fully torn down".
WaitClosedWaits ==
    [][\A p \in Procs :
          pc[p] = "waitClosed" /\ pc'[p] = "acquire" => CloseDone(tgt[p])]_vars

\* pool.go, Acquire: "Every Host the pool hands out has the host configurator
\* applied first".
ServedHostsAreWired ==
    \A p \in Turners :
        pc[p] \in {"start", "open", "register", "running"} => wired[tgt[p]]

\* desktop runtime.go, Reload: "invalidates pooled hosts so the next EnsureHost
\* rebuilds from the current configuration".
RebuildIsCurrent ==
    \A p \in Reloaders :
        pc[p] = "checkStale" /\ ~stale[tgt[p]] => cfg[tgt[p]] = doc

\* replacement.go, ScheduleReplacement: "The single armed watcher always
\* assembles from the document on disk at the time it runs, so a later
\* invalidation has nothing left to ask for".
RefusedArmIsCovered ==
    [][\A p \in Reloaders :
          (/\ pc[p] = "schedule" /\ pc'[p] = "idle" /\ armed
           /\ pc[Watcher] \in {"install", "publish", "configure", "wire"})
              => cfg[tgt[Watcher]] = doc]_vars
=============================================================================
