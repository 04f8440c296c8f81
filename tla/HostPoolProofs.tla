--------------------------- MODULE HostPoolProofs ---------------------------
(***************************************************************************)
(* The pool serves one Host at a time, for every number of callers, Hosts, *)
(* retries and reloads.  The invariant says where an occupied Host is      *)
(* tracked, who may be building one, and what a thread about to close a    *)
(* Host knows about it.                                                    *)
(***************************************************************************)
EXTENDS HostPool, FiniteSetTheorems, TLAPS

\* Labels at which tgt names a Host.
Aimed == {"peek", "waitClosed", "awaitDone", "install", "publish", "configure",
          "wire", "start", "open", "register", "running", "settle", "drop",
          "retire", "shut", "shutting", "post", "awaitClose", "release",
          "guestShut", "guestShutting", "checkStale", "schedule",
          "watchState", "watchLook", "watchDone"}

TargetsExist ==
    /\ \A p \in Procs : tgt[p] \in Hosts => stage[tgt[p]] # "absent"
    /\ \A p \in Procs : pc[p] \in Aimed => tgt[p] \in Hosts

\* One leader at a time, and it is the one assembling names.
OneLeader == \A p \in Procs : pc[p] \in Building <=> assembling = p

\* While a leader builds, nothing is pooled and nothing retires.
BuildsAlone ==
    \A p \in Procs :
        pc[p] \in {"load", "install"} => pooled = NoHost /\ retiring = NoHost

\* A Host that is built and not yet installed is up and known to its leader
\* alone.
FreshIsPrivate ==
    \A p \in Procs :
        pc[p] = "install" =>
            /\ stage[tgt[p]] = "up"
            /\ \A q \in Procs : tgt[q] = tgt[p] => q = p

\* Every occupied Host is pooled, retiring or in the hands of its leader.
Tracked ==
    \A h \in Hosts :
        Occupied(h) => \/ h = pooled \/ h = retiring
                       \/ \E p \in Procs : pc[p] = "install" /\ tgt[p] = h

StagesFit ==
    /\ pooled # NoHost => stage[pooled] = "up"
    /\ retiring # NoHost => Occupied(retiring)

\* A thread about to close a Host has seen it leave the pool.
ClosesUnpooled ==
    \A p \in Procs : pc[p] \in {"shut", "guestShut"} => tgt[p] # pooled

RunOwners ==
    \A h \in Hosts, p \in Turners :
        p \in runs[h] => tgt[p] = h /\ pc[p] \in {"running", "settle", "drop"}

RunsBeforeClose ==
    \A h \in Hosts :
        runs[h] \ late # {} => stage[h] \in {"up", "draining", "awaitRuns"}

\* The watcher runs only while the replacement slot is armed.
WatchesArmed == ~armed => pc[Watcher] = "idle"

\* Which Host serves, and who may build or close one.
Serves ==
    /\ PoolExclusive /\ TargetsExist /\ OneLeader /\ BuildsAlone
    /\ FreshIsPrivate /\ Tracked /\ StagesFit /\ ClosesUnpooled
    /\ WatchesArmed

RunsKept == RunOwners /\ RunsBeforeClose /\ TitleKeepsRuntime

IInv == Serves /\ RunsKept

-----------------------------------------------------------------------------
(* Type correctness                                                       *)

USE DEF Turners, Procs

\* The empty pool is well typed.
LEMMA TypeInit == Init => TypeOK
<1> SUFFICES ASSUME Init PROVE TypeOK
  OBVIOUS
<1> USE PoolAssumption DEF Init
<1>1. /\ pooled \in Hosts \cup {NoHost} /\ retiring \in Hosts \cup {NoHost}
      /\ refs \in Nat /\ configured \in BOOLEAN /\ armed \in BOOLEAN
      /\ assembling \in Procs \cup {NoProc} /\ doc \in Nat
      /\ late \in SUBSET Turners
  OBVIOUS
<1>2. /\ stage \in [Hosts -> Stages] /\ stale \in [Hosts -> BOOLEAN]
      /\ wired \in [Hosts -> BOOLEAN] /\ cfg \in [Hosts -> Nat]
  BY DEF Stages
<1>3. /\ runs \in [Hosts -> SUBSET Turners]
      /\ titles \in [Hosts -> SUBSET Turners]
  OBVIOUS
<1>4. /\ pc \in [Procs -> Labels] /\ tgt \in [Procs -> Hosts \cup {NoHost}]
  BY DEF Labels
<1>5. calls \in [Procs -> Nat] /\ attempts \in [Procs -> 0 .. MaxAttempts]
  OBVIOUS
<1> QED BY <1>1, <1>2, <1>3, <1>4, <1>5 DEF TypeOK

\* Every critical section keeps the types: the retry loop of Runtime.Do stays
\* within maxStartAttempts and a Host reference names an assembled Host.
LEMMA TypeStep == TypeOK /\ [Next]_vars => TypeOK'
<1> SUFFICES ASSUME TypeOK, [Next]_vars PROVE TypeOK'
  OBVIOUS
<1> USE PoolAssumption DEF TypeOK, Labels, Building, Stages
<1>1. ASSUME NEW p \in Procs, CallTurn(p) PROVE TypeOK'
  BY <1>1 DEF CallTurn, Go, poolVars, hostVars, runVars
<1>2. ASSUME NEW p \in Procs, CallRebuild(p) PROVE TypeOK'
  BY <1>2 DEF CallRebuild, Go, poolVars, hostVars, runVars
<1>3. ASSUME NEW p \in Procs, GiveUp(p) PROVE TypeOK'
  BY <1>3 DEF GiveUp, poolVars, hostVars, runVars, procVars
<1>4. ASSUME NEW p \in Procs, EnsureCurrent(p) PROVE TypeOK'
  BY <1>4 DEF EnsureCurrent, Current, Go, Aim, poolVars, hostVars, runVars
<1>5. ASSUME NEW p \in Procs, EnsurePeek(p) PROVE TypeOK'
  BY <1>5 DEF EnsurePeek, Go, poolVars, hostVars, runVars, procVars
<1>6. ASSUME NEW p \in Procs, AcquirePooled(p) PROVE TypeOK'
  BY <1>6 DEF AcquirePooled, Go, Aim, hostVars, runVars
<1>7. ASSUME NEW p \in Procs, AcquireRetiring(p) PROVE TypeOK'
  BY <1>7 DEF AcquireRetiring, Go, Aim, poolVars, hostVars, runVars
<1>8. ASSUME NEW p \in Procs, AcquireLead(p) PROVE TypeOK'
  BY <1>8 DEF AcquireLead, Go, Aim, hostVars, runVars
<1>9. ASSUME NEW p \in Procs, AcquireFollow(p) PROVE TypeOK'
  BY <1>9 DEF AcquireFollow, Go, Aim, poolVars, hostVars, runVars
<1>10. ASSUME NEW p \in Procs, WaitClosedLook(p) PROVE TypeOK'
  BY <1>10 DEF WaitClosedLook, Go, poolVars, hostVars, runVars, procVars
<1>11. ASSUME NEW p \in Procs, WaitClosedDone(p) PROVE TypeOK'
  BY <1>11 DEF WaitClosedDone, Go, poolVars, hostVars, runVars, procVars
<1>12. ASSUME NEW p \in Procs, NEW h \in Hosts, BuildHost(p, h) PROVE TypeOK'
  BY <1>12 DEF BuildHost, Go, Aim, poolVars, runVars
<1>13. ASSUME NEW p \in Procs, BuildFails(p) PROVE TypeOK'
  BY <1>13 DEF BuildFails, Go, poolVars, hostVars, runVars, procVars
<1>14. ASSUME NEW p \in Procs, Install(p) PROVE TypeOK'
  BY <1>14 DEF Install, Go, hostVars, runVars, procVars
<1>15. ASSUME NEW p \in Procs, Publish(p) PROVE TypeOK'
  BY <1>15 DEF Publish, Refused, hostVars, runVars, procVars
<1>16. ASSUME NEW p \in Procs, Configure(p) PROVE TypeOK'
  BY <1>16 DEF Configure, Served, Go, hostVars, runVars, procVars
<1>17. ASSUME NEW p \in Procs, Wire(p) PROVE TypeOK'
  BY <1>17 DEF Wire, Served, Go, poolVars, runVars, procVars
<1>18. ASSUME NEW p \in Turners, StartCheck(p) PROVE TypeOK'
  BY <1>18 DEF StartCheck, Retry, Fail, Go, poolVars, hostVars, runVars
<1>19. ASSUME NEW p \in Turners, StartTurn(p) PROVE TypeOK'
  BY <1>19 DEF StartTurn, Go, poolVars, hostVars, runVars, procVars
<1>20. ASSUME NEW p \in Turners, StartFails(p) PROVE TypeOK'
  BY <1>20 DEF StartFails, Retry, Fail, Go, poolVars, hostVars, runVars
<1>21. ASSUME NEW p \in Turners, Register(p) PROVE TypeOK'
  <2>1. runs \in [Hosts -> SUBSET Turners] /\ late \in SUBSET Turners
    OBVIOUS
  <2>2. runs' \in [Hosts -> SUBSET Turners] /\ late' \in SUBSET Turners
    BY ONLY <1>21, <2>1 DEF Register
  <2>3. pc' \in [Procs -> Labels]
    BY <1>21 DEF Register, Go
  <2>4. UNCHANGED <<pooled, refs, configured, retiring, assembling, armed, doc,
                    stage, stale, wired, cfg, titles, tgt, calls, attempts>>
    BY ONLY <1>21 DEF Register, poolVars, hostVars, procVars
  <2> QED BY ONLY TypeOK, <2>2, <2>3, <2>4 DEF TypeOK
<1>22. ASSUME NEW p \in Turners, TurnEnds(p) PROVE TypeOK'
  BY <1>22 DEF TurnEnds, Go, poolVars, hostVars, runVars, procVars
<1>23. ASSUME NEW p \in Turners, Settle(p) PROVE TypeOK'
  BY <1>23 DEF Settle, Go, poolVars, hostVars, procVars
<1>24. ASSUME NEW p \in Turners, DropRun(p) PROVE TypeOK'
  BY <1>24 DEF DropRun, Go, poolVars, hostVars, procVars
<1>25. ASSUME NEW p \in Turners, HostIdle(p) PROVE TypeOK'
  <2>1. /\ tgt[p] \in Hosts \cup {NoHost} /\ pooled \in Hosts \cup {NoHost}
        /\ retiring \in Hosts \cup {NoHost} /\ refs \in Nat
        /\ configured \in BOOLEAN
    OBVIOUS
  <2>2. /\ pooled' \in Hosts \cup {NoHost} /\ retiring' \in Hosts \cup {NoHost}
        /\ refs' \in Nat
    BY ONLY <1>25, <2>1 DEF HostIdle, TrackRetiring
  <2>3. configured' \in BOOLEAN
    BY ONLY <1>25, <2>1 DEF HostIdle, TrackRetiring
  <2>4. pc' \in [Procs -> Labels]
    BY <1>25 DEF HostIdle, Go
  <2>5. UNCHANGED <<assembling, armed, doc, stage, stale, wired, cfg, runs,
                    titles, late, tgt, calls, attempts>>
    BY ONLY <1>25 DEF HostIdle, hostVars, runVars, procVars
  <2> QED BY ONLY TypeOK, <2>2, <2>3, <2>4, <2>5 DEF TypeOK
<1>26. ASSUME NEW p \in Turners, Post(p) PROVE TypeOK'
  BY <1>26 DEF Post, Go, poolVars, hostVars, runVars, procVars
<1>27. ASSUME NEW p \in Turners, AwaitClose(p) PROVE TypeOK'
  BY <1>27 DEF AwaitClose, Go, poolVars, hostVars, runVars, procVars
<1>28. ASSUME NEW p \in Turners, Release(p) PROVE TypeOK'
  <2>1. /\ tgt[p] \in Hosts \cup {NoHost} /\ pooled \in Hosts \cup {NoHost}
        /\ retiring \in Hosts \cup {NoHost} /\ refs \in Nat
        /\ configured \in BOOLEAN
    OBVIOUS
  <2>2. /\ pooled' \in Hosts \cup {NoHost} /\ retiring' \in Hosts \cup {NoHost}
        /\ refs' \in Nat
    BY ONLY <1>28, <2>1 DEF Release
  <2>3. configured' \in BOOLEAN
    BY ONLY <1>28, <2>1 DEF Release
  <2>4. pc' \in [Procs -> Labels]
    BY <1>28 DEF Release, Go
  <2>5. UNCHANGED <<assembling, armed, doc, stage, stale, wired, cfg, runs,
                    titles, late, tgt, calls, attempts>>
    BY ONLY <1>28 DEF Release, hostVars, runVars, procVars
  <2> QED BY ONLY TypeOK, <2>2, <2>3, <2>4, <2>5 DEF TypeOK
<1>29. ASSUME NEW p \in Procs \ {Watcher}, CloseRetired(p) PROVE TypeOK'
  BY <1>29 DEF CloseRetired, BeginClose, AfterShut, Go, poolVars, runVars, procVars
<1>30. ASSUME NEW p \in Procs \ {Watcher}, CloseReleased(p) PROVE TypeOK'
  BY <1>30 DEF CloseReleased, BeginClose, Go, poolVars, runVars, procVars
<1>31. ASSUME NEW p \in Procs \ {Watcher}, RetiredShut(p) PROVE TypeOK'
  BY <1>31 DEF RetiredShut, Shut, AfterShut, Go, poolVars, hostVars, runVars, procVars
<1>32. ASSUME NEW p \in Procs \ {Watcher}, ReleasedShut(p) PROVE TypeOK'
  BY <1>32 DEF ReleasedShut, Shut, Go, poolVars, hostVars, runVars, procVars
<1>33. ASSUME NEW p \in Reloaders, Invalidate(p) PROVE TypeOK'
  <2>1. /\ pooled \in Hosts \cup {NoHost} /\ retiring \in Hosts \cup {NoHost}
        /\ refs \in Nat /\ configured \in BOOLEAN
        /\ stale \in [Hosts -> BOOLEAN] /\ tgt \in [Procs -> Hosts \cup {NoHost}]
    OBVIOUS
  <2>2. /\ pooled' \in Hosts \cup {NoHost} /\ retiring' \in Hosts \cup {NoHost}
        /\ refs' \in Nat
    BY ONLY <1>33, <2>1 DEF Invalidate, TrackRetiring
  <2>3. configured' \in BOOLEAN
    BY ONLY <1>33, <2>1 DEF Invalidate, TrackRetiring
  <2>4. stale' \in [Hosts -> BOOLEAN] /\ tgt' \in [Procs -> Hosts \cup {NoHost}]
    BY ONLY <1>33, <2>1 DEF Invalidate, Aim
  <2>5. pc' \in [Procs -> Labels]
    BY <1>33 DEF Invalidate, Go
  <2>6. UNCHANGED <<assembling, armed, doc, wired, stage, cfg, runs, titles, late,
                    calls, attempts>>
    BY ONLY <1>33 DEF Invalidate, runVars
  <2> QED BY ONLY TypeOK, <2>2, <2>3, <2>4, <2>5, <2>6 DEF TypeOK
<1>34. ASSUME NEW p \in Reloaders, CheckStale(p) PROVE TypeOK'
  BY <1>34 DEF CheckStale, Go, poolVars, hostVars, runVars, procVars
<1>35. ASSUME NEW p \in Reloaders, Schedule(p) PROVE TypeOK'
  BY <1>35 DEF Schedule, Go, poolVars, hostVars, runVars, procVars
<1>36. ASSUME Watch PROVE TypeOK'
  BY <1>36 DEF Watch, Current, Go, Aim, poolVars, hostVars, runVars
<1>37. ASSUME WatchState PROVE TypeOK'
  BY <1>37 DEF WatchState, Go, poolVars, hostVars, runVars, procVars
<1>38. ASSUME WatchLook PROVE TypeOK'
  BY <1>38 DEF WatchLook, Go, poolVars, hostVars, runVars, procVars
<1>39. ASSUME WatchDone PROVE TypeOK'
  BY <1>39 DEF WatchDone, Go, poolVars, hostVars, runVars, procVars
<1>40. ASSUME Wanted PROVE TypeOK'
  BY <1>40 DEF Wanted, Go, poolVars, hostVars, runVars, procVars
<1>41. ASSUME Disarm PROVE TypeOK'
  BY <1>41 DEF Disarm, Go, poolVars, hostVars, runVars, procVars
<1>42. ASSUME NEW h \in Hosts, DrainEnds(h) PROVE TypeOK'
  BY <1>42 DEF DrainEnds, Advance, runVars, procVars
<1>43. ASSUME NEW h \in Hosts, SetClosed(h) PROVE TypeOK'
  BY <1>43 DEF SetClosed, Advance, runVars, procVars
<1>44. ASSUME NEW h \in Hosts, CloseRuntime(h) PROVE TypeOK'
  BY <1>44 DEF CloseRuntime, Advance, runVars, procVars
<1>45. ASSUME NEW h \in Hosts, ReleaseStore(h) PROVE TypeOK'
  BY <1>45 DEF ReleaseStore, Advance, runVars, procVars
<1>46. ASSUME NEW h \in Hosts, SignalDone(h) PROVE TypeOK'
  BY <1>46 DEF SignalDone, Advance, runVars, procVars
<1>47. ASSUME NEW h \in Hosts, HostClosed(h) PROVE TypeOK'
  BY <1>47 DEF HostClosed, Advance, runVars, procVars
<1>48. ASSUME NEW p \in Turners, NEW h \in Hosts, TitleEnds(p, h) PROVE TypeOK'
  BY <1>48 DEF TitleEnds, poolVars, hostVars, procVars
<1>49. CASE UNCHANGED vars
  BY <1>49 DEF vars, poolVars, hostVars, runVars, procVars
<1> QED
  BY <1>1, <1>2, <1>3, <1>4, <1>5, <1>6, <1>7, <1>8, <1>9, <1>10, <1>11, <1>12, <1>13, <1>14, <1>15, <1>16, <1>17, <1>18, <1>19, <1>20, <1>21, <1>22, <1>23, <1>24, <1>25, <1>26, <1>27, <1>28, <1>29, <1>30, <1>31, <1>32, <1>33, <1>34, <1>35, <1>36, <1>37, <1>38, <1>39, <1>40, <1>41, <1>42, <1>43, <1>44, <1>45, <1>46, <1>47, <1>48, <1>49
  DEF Next, ThreadStep, ProcStep, TurnStep, ShutStep, ReloadStep, WatchStep, HostStep

-----------------------------------------------------------------------------
(* One Host at a time                                                     *)

\* No step of a caller, a reload, the watcher or a teardown breaks the
\* discipline of the pool: one leader builds, only into an empty pool, and a
\* Host leaves the pool before anybody closes it.
LEMMA ServesStep ==
  ASSUME TypeOK, TypeOK', Serves, [Next]_vars PROVE Serves'
<1> USE PoolAssumption DEF TypeOK, Serves, Building, Aimed, Occupied, Closing,
        PoolExclusive, TargetsExist, OneLeader, BuildsAlone, FreshIsPrivate, Tracked, StagesFit, ClosesUnpooled, WatchesArmed
<1>1. ASSUME NEW p \in Procs, CallTurn(p) PROVE Serves'
  BY <1>1 DEF CallTurn, Go, poolVars, hostVars, runVars
<1>2. ASSUME NEW p \in Procs, CallRebuild(p) PROVE Serves'
  BY <1>2 DEF CallRebuild, Go, poolVars, hostVars, runVars
<1>3. ASSUME NEW p \in Procs, GiveUp(p) PROVE Serves'
  BY <1>3 DEF GiveUp, poolVars, hostVars, runVars, procVars
<1>4. ASSUME NEW p \in Procs, EnsureCurrent(p) PROVE Serves'
  BY <1>4 DEF EnsureCurrent, Current, Go, Aim, poolVars, hostVars, runVars
<1>5. ASSUME NEW p \in Procs, EnsurePeek(p) PROVE Serves'
  BY <1>5 DEF EnsurePeek, Go, poolVars, hostVars, runVars, procVars
<1>6. ASSUME NEW p \in Procs, AcquirePooled(p) PROVE Serves'
  BY <1>6 DEF AcquirePooled, Go, Aim, hostVars, runVars
<1>7. ASSUME NEW p \in Procs, AcquireRetiring(p) PROVE Serves'
  BY <1>7 DEF AcquireRetiring, Go, Aim, poolVars, hostVars, runVars
<1>8. ASSUME NEW p \in Procs, AcquireLead(p) PROVE Serves'
  BY <1>8 DEF AcquireLead, Go, Aim, hostVars, runVars
<1>9. ASSUME NEW p \in Procs, AcquireFollow(p) PROVE Serves'
  BY <1>9 DEF AcquireFollow, Go, Aim, poolVars, hostVars, runVars
<1>10. ASSUME NEW p \in Procs, WaitClosedLook(p) PROVE Serves'
  BY <1>10 DEF WaitClosedLook, Go, poolVars, hostVars, runVars, procVars
<1>11. ASSUME NEW p \in Procs, WaitClosedDone(p) PROVE Serves'
  BY <1>11 DEF WaitClosedDone, Go, poolVars, hostVars, runVars, procVars
<1>12. ASSUME NEW p \in Procs, NEW h \in Hosts, BuildHost(p, h) PROVE Serves'
  BY <1>12 DEF BuildHost, Go, Aim, poolVars, runVars
<1>13. ASSUME NEW p \in Procs, BuildFails(p) PROVE Serves'
  BY <1>13 DEF BuildFails, Go, poolVars, hostVars, runVars, procVars
<1>14. ASSUME NEW p \in Procs, Install(p) PROVE Serves'
  BY <1>14 DEF Install, Go, hostVars, runVars, procVars
<1>15. ASSUME NEW p \in Procs, Publish(p) PROVE Serves'
  BY <1>15 DEF Publish, Refused, hostVars, runVars, procVars
<1>16. ASSUME NEW p \in Procs, Configure(p) PROVE Serves'
  BY <1>16 DEF Configure, Served, Go, hostVars, runVars, procVars
<1>17. ASSUME NEW p \in Procs, Wire(p) PROVE Serves'
  BY <1>17 DEF Wire, Served, Go, poolVars, runVars, procVars
<1>18. ASSUME NEW p \in Turners, StartCheck(p) PROVE Serves'
  BY <1>18 DEF StartCheck, Retry, Fail, Go, poolVars, hostVars, runVars
<1>19. ASSUME NEW p \in Turners, StartTurn(p) PROVE Serves'
  BY <1>19 DEF StartTurn, Go, poolVars, hostVars, runVars, procVars
<1>20. ASSUME NEW p \in Turners, StartFails(p) PROVE Serves'
  BY <1>20 DEF StartFails, Retry, Fail, Go, poolVars, hostVars, runVars
<1>21. ASSUME NEW p \in Turners, Register(p) PROVE Serves'
  BY <1>21 DEF Register, Go, poolVars, hostVars, procVars
<1>22. ASSUME NEW p \in Turners, TurnEnds(p) PROVE Serves'
  BY <1>22 DEF TurnEnds, Go, poolVars, hostVars, runVars, procVars
<1>23. ASSUME NEW p \in Turners, Settle(p) PROVE Serves'
  BY <1>23 DEF Settle, Go, poolVars, hostVars, procVars
<1>24. ASSUME NEW p \in Turners, DropRun(p) PROVE Serves'
  BY <1>24 DEF DropRun, Go, poolVars, hostVars, procVars
<1>25. ASSUME NEW p \in Turners, HostIdle(p) PROVE Serves'
  BY <1>25 DEF HostIdle, TrackRetiring, Go, hostVars, runVars, procVars
<1>26. ASSUME NEW p \in Turners, Post(p) PROVE Serves'
  BY <1>26 DEF Post, Go, poolVars, hostVars, runVars, procVars
<1>27. ASSUME NEW p \in Turners, AwaitClose(p) PROVE Serves'
  BY <1>27 DEF AwaitClose, Go, poolVars, hostVars, runVars, procVars
<1>28. ASSUME NEW p \in Turners, Release(p) PROVE Serves'
  BY <1>28 DEF Release, Go, hostVars, runVars, procVars
<1>29. ASSUME NEW p \in Procs \ {Watcher}, CloseRetired(p) PROVE Serves'
  BY <1>29 DEF CloseRetired, BeginClose, AfterShut, Go, poolVars, runVars, procVars
<1>30. ASSUME NEW p \in Procs \ {Watcher}, CloseReleased(p) PROVE Serves'
  BY <1>30 DEF CloseReleased, BeginClose, Go, poolVars, runVars, procVars
<1>31. ASSUME NEW p \in Procs \ {Watcher}, RetiredShut(p) PROVE Serves'
  BY <1>31 DEF RetiredShut, Shut, AfterShut, Go, poolVars, hostVars, runVars, procVars
<1>32. ASSUME NEW p \in Procs \ {Watcher}, ReleasedShut(p) PROVE Serves'
  BY <1>32 DEF ReleasedShut, Shut, Go, poolVars, hostVars, runVars, procVars
<1>33. ASSUME NEW p \in Reloaders, Invalidate(p) PROVE Serves'
  BY <1>33 DEF Invalidate, TrackRetiring, Go, Aim, runVars
<1>34. ASSUME NEW p \in Reloaders, CheckStale(p) PROVE Serves'
  BY <1>34 DEF CheckStale, Go, poolVars, hostVars, runVars, procVars
<1>35. ASSUME NEW p \in Reloaders, Schedule(p) PROVE Serves'
  BY <1>35 DEF Schedule, Go, poolVars, hostVars, runVars, procVars
<1>36. ASSUME Watch PROVE Serves'
  BY <1>36 DEF Watch, Current, Go, Aim, poolVars, hostVars, runVars
<1>37. ASSUME WatchState PROVE Serves'
  BY <1>37 DEF WatchState, Go, poolVars, hostVars, runVars, procVars
<1>38. ASSUME WatchLook PROVE Serves'
  BY <1>38 DEF WatchLook, Go, poolVars, hostVars, runVars, procVars
<1>39. ASSUME WatchDone PROVE Serves'
  BY <1>39 DEF WatchDone, Go, poolVars, hostVars, runVars, procVars
<1>40. ASSUME Wanted PROVE Serves'
  BY <1>40 DEF Wanted, Go, poolVars, hostVars, runVars, procVars
<1>41. ASSUME Disarm PROVE Serves'
  BY <1>41 DEF Disarm, Go, poolVars, hostVars, runVars, procVars
<1>42. ASSUME NEW h \in Hosts, DrainEnds(h) PROVE Serves'
  BY <1>42 DEF DrainEnds, Advance, runVars, procVars
<1>43. ASSUME NEW h \in Hosts, SetClosed(h) PROVE Serves'
  BY <1>43 DEF SetClosed, Advance, runVars, procVars
<1>44. ASSUME NEW h \in Hosts, CloseRuntime(h) PROVE Serves'
  BY <1>44 DEF CloseRuntime, Advance, runVars, procVars
<1>45. ASSUME NEW h \in Hosts, ReleaseStore(h) PROVE Serves'
  BY <1>45 DEF ReleaseStore, Advance, runVars, procVars
<1>46. ASSUME NEW h \in Hosts, SignalDone(h) PROVE Serves'
  BY <1>46 DEF SignalDone, Advance, runVars, procVars
<1>47. ASSUME NEW h \in Hosts, HostClosed(h) PROVE Serves'
  BY <1>47 DEF HostClosed, Advance, runVars, procVars
<1>48. ASSUME NEW p \in Turners, NEW h \in Hosts, TitleEnds(p, h) PROVE Serves'
  BY <1>48 DEF TitleEnds, poolVars, hostVars, procVars
<1>49. CASE UNCHANGED vars
  BY <1>49 DEF vars, poolVars, hostVars, runVars, procVars
<1> QED
  BY <1>1, <1>2, <1>3, <1>4, <1>5, <1>6, <1>7, <1>8, <1>9, <1>10, <1>11, <1>12, <1>13, <1>14, <1>15, <1>16, <1>17, <1>18, <1>19, <1>20, <1>21, <1>22, <1>23, <1>24, <1>25, <1>26, <1>27, <1>28, <1>29, <1>30, <1>31, <1>32, <1>33, <1>34, <1>35, <1>36, <1>37, <1>38, <1>39, <1>40, <1>41, <1>42, <1>43, <1>44, <1>45, <1>46, <1>47, <1>48, <1>49
  DEF Next, ThreadStep, ProcStep, TurnStep, ShutStep, ReloadStep, WatchStep, HostStep

-----------------------------------------------------------------------------
(* Runs, titles and the teardown                                          *)

\* A run stays in Host.runs from its registration to dropRun, and a teardown
\* that has passed the runs and the titles finds none left behind.
LEMMA RunsStep ==
  ASSUME TypeOK, TypeOK', Serves, RunsKept, [Next]_vars PROVE RunsKept'
<1> USE PoolAssumption DEF TypeOK, Serves, TargetsExist, RunsKept, RunOwners,
        RunsBeforeClose, TitleKeepsRuntime, RuntimeUp, Closed, Closing, Aimed,
        Building, OneLeader
<1>1. ASSUME NEW p \in Procs, CallTurn(p) PROVE RunsKept'
  BY <1>1 DEF CallTurn, Go, poolVars, hostVars, runVars
<1>2. ASSUME NEW p \in Procs, CallRebuild(p) PROVE RunsKept'
  BY <1>2 DEF CallRebuild, Go, poolVars, hostVars, runVars
<1>3. ASSUME NEW p \in Procs, GiveUp(p) PROVE RunsKept'
  BY <1>3 DEF GiveUp, poolVars, hostVars, runVars, procVars
<1>4. ASSUME NEW p \in Procs, EnsureCurrent(p) PROVE RunsKept'
  BY <1>4 DEF EnsureCurrent, Current, Go, Aim, poolVars, hostVars, runVars
<1>5. ASSUME NEW p \in Procs, EnsurePeek(p) PROVE RunsKept'
  BY <1>5 DEF EnsurePeek, Go, poolVars, hostVars, runVars, procVars
<1>6. ASSUME NEW p \in Procs, AcquirePooled(p) PROVE RunsKept'
  BY <1>6 DEF AcquirePooled, Go, Aim, hostVars, runVars
<1>7. ASSUME NEW p \in Procs, AcquireRetiring(p) PROVE RunsKept'
  BY <1>7 DEF AcquireRetiring, Go, Aim, poolVars, hostVars, runVars
<1>8. ASSUME NEW p \in Procs, AcquireLead(p) PROVE RunsKept'
  BY <1>8 DEF AcquireLead, Go, Aim, hostVars, runVars
<1>9. ASSUME NEW p \in Procs, AcquireFollow(p) PROVE RunsKept'
  BY <1>9 DEF AcquireFollow, Go, Aim, poolVars, hostVars, runVars
<1>10. ASSUME NEW p \in Procs, WaitClosedLook(p) PROVE RunsKept'
  BY <1>10 DEF WaitClosedLook, Go, poolVars, hostVars, runVars, procVars
<1>11. ASSUME NEW p \in Procs, WaitClosedDone(p) PROVE RunsKept'
  BY <1>11 DEF WaitClosedDone, Go, poolVars, hostVars, runVars, procVars
<1>12. ASSUME NEW p \in Procs, NEW h \in Hosts, BuildHost(p, h) PROVE RunsKept'
  BY <1>12 DEF BuildHost, Go, Aim, poolVars, runVars
<1>13. ASSUME NEW p \in Procs, BuildFails(p) PROVE RunsKept'
  BY <1>13 DEF BuildFails, Go, poolVars, hostVars, runVars, procVars
<1>14. ASSUME NEW p \in Procs, Install(p) PROVE RunsKept'
  BY <1>14 DEF Install, Go, hostVars, runVars, procVars
<1>15. ASSUME NEW p \in Procs, Publish(p) PROVE RunsKept'
  BY <1>15 DEF Publish, Refused, hostVars, runVars, procVars
<1>16. ASSUME NEW p \in Procs, Configure(p) PROVE RunsKept'
  BY <1>16 DEF Configure, Served, Go, hostVars, runVars, procVars
<1>17. ASSUME NEW p \in Procs, Wire(p) PROVE RunsKept'
  BY <1>17 DEF Wire, Served, Go, poolVars, runVars, procVars
<1>18. ASSUME NEW p \in Turners, StartCheck(p) PROVE RunsKept'
  BY <1>18 DEF StartCheck, Retry, Fail, Go, poolVars, hostVars, runVars
<1>19. ASSUME NEW p \in Turners, StartTurn(p) PROVE RunsKept'
  BY <1>19 DEF StartTurn, Go, poolVars, hostVars, runVars, procVars
<1>20. ASSUME NEW p \in Turners, StartFails(p) PROVE RunsKept'
  BY <1>20 DEF StartFails, Retry, Fail, Go, poolVars, hostVars, runVars
<1>21. ASSUME NEW p \in Turners, Register(p) PROVE RunsKept'
  <2>1. /\ pc[p] = "register" /\ pc' = [pc EXCEPT ![p] = "running"]
        /\ runs' = [runs EXCEPT ![tgt[p]] = @ \cup {p}]
        /\ late' = IF Closed(tgt[p]) THEN late \cup {p} ELSE late
        /\ UNCHANGED <<stage, titles, tgt>>
    BY <1>21 DEF Register, Go, poolVars, hostVars, procVars
  <2>2. tgt[p] \in Hosts /\ stage[tgt[p]] # "absent"
    BY <2>1
  <2>3. RunOwners'
    BY <2>1, <2>2
  <2>4. ASSUME NEW h \in Hosts, runs'[h] \ late' # {}
        PROVE  stage'[h] \in {"up", "draining", "awaitRuns"}
    <3>1. CASE h = tgt[p] /\ ~Closed(h)
      BY <2>1, <2>2, <3>1 DEF Stages
    <3>2. CASE ~(h = tgt[p] /\ ~Closed(h))
      <4>1. runs[h] \ late # {}
        BY <2>1, <2>4, <3>2
      <4> QED BY <2>1, <4>1
    <3> QED BY <3>1, <3>2
  <2>5. TitleKeepsRuntime'
    BY <2>1
  <2> QED BY <2>3, <2>4, <2>5
<1>22. ASSUME NEW p \in Turners, TurnEnds(p) PROVE RunsKept'
  BY <1>22 DEF TurnEnds, Go, poolVars, hostVars, runVars, procVars
<1>23. ASSUME NEW p \in Turners, Settle(p) PROVE RunsKept'
  <2>1. /\ pc[p] = "settle" /\ pc' = [pc EXCEPT ![p] = "drop"]
        /\ UNCHANGED <<stage, runs, late, tgt>>
        /\ \/ /\ ~Closed(tgt[p])
              /\ titles' = [titles EXCEPT ![tgt[p]] = @ \cup {p}]
           \/ UNCHANGED titles
    BY <1>23 DEF Settle, Go, poolVars, hostVars, procVars
  <2>2. tgt[p] \in Hosts /\ stage[tgt[p]] # "absent"
    BY <2>1
  <2>3. RunOwners' /\ RunsBeforeClose'
    BY <2>1, <2>2
  <2>4. ASSUME NEW h \in Hosts, titles'[h] # {} PROVE RuntimeUp(h)'
    BY <2>1, <2>2, <2>4 DEF Stages
  <2> QED BY <2>3, <2>4
<1>24. ASSUME NEW p \in Turners, DropRun(p) PROVE RunsKept'
  BY <1>24 DEF DropRun, Go, poolVars, hostVars, procVars
<1>25. ASSUME NEW p \in Turners, HostIdle(p) PROVE RunsKept'
  BY <1>25 DEF HostIdle, TrackRetiring, Go, hostVars, runVars, procVars
<1>26. ASSUME NEW p \in Turners, Post(p) PROVE RunsKept'
  BY <1>26 DEF Post, Go, poolVars, hostVars, runVars, procVars
<1>27. ASSUME NEW p \in Turners, AwaitClose(p) PROVE RunsKept'
  BY <1>27 DEF AwaitClose, Go, poolVars, hostVars, runVars, procVars
<1>28. ASSUME NEW p \in Turners, Release(p) PROVE RunsKept'
  BY <1>28 DEF Release, Go, hostVars, runVars, procVars
<1>29. ASSUME NEW p \in Procs \ {Watcher}, CloseRetired(p) PROVE RunsKept'
  BY <1>29 DEF CloseRetired, BeginClose, AfterShut, Go, poolVars, runVars, procVars
<1>30. ASSUME NEW p \in Procs \ {Watcher}, CloseReleased(p) PROVE RunsKept'
  BY <1>30 DEF CloseReleased, BeginClose, Go, poolVars, runVars, procVars
<1>31. ASSUME NEW p \in Procs \ {Watcher}, RetiredShut(p) PROVE RunsKept'
  BY <1>31 DEF RetiredShut, Shut, AfterShut, Go, poolVars, hostVars, runVars, procVars
<1>32. ASSUME NEW p \in Procs \ {Watcher}, ReleasedShut(p) PROVE RunsKept'
  BY <1>32 DEF ReleasedShut, Shut, Go, poolVars, hostVars, runVars, procVars
<1>33. ASSUME NEW p \in Reloaders, Invalidate(p) PROVE RunsKept'
  BY <1>33 DEF Invalidate, TrackRetiring, Go, Aim, runVars
<1>34. ASSUME NEW p \in Reloaders, CheckStale(p) PROVE RunsKept'
  BY <1>34 DEF CheckStale, Go, poolVars, hostVars, runVars, procVars
<1>35. ASSUME NEW p \in Reloaders, Schedule(p) PROVE RunsKept'
  BY <1>35 DEF Schedule, Go, poolVars, hostVars, runVars, procVars
<1>36. ASSUME Watch PROVE RunsKept'
  BY <1>36 DEF Watch, Current, Go, Aim, poolVars, hostVars, runVars
<1>37. ASSUME WatchState PROVE RunsKept'
  BY <1>37 DEF WatchState, Go, poolVars, hostVars, runVars, procVars
<1>38. ASSUME WatchLook PROVE RunsKept'
  BY <1>38 DEF WatchLook, Go, poolVars, hostVars, runVars, procVars
<1>39. ASSUME WatchDone PROVE RunsKept'
  BY <1>39 DEF WatchDone, Go, poolVars, hostVars, runVars, procVars
<1>40. ASSUME Wanted PROVE RunsKept'
  BY <1>40 DEF Wanted, Go, poolVars, hostVars, runVars, procVars
<1>41. ASSUME Disarm PROVE RunsKept'
  BY <1>41 DEF Disarm, Go, poolVars, hostVars, runVars, procVars
<1>42. ASSUME NEW h \in Hosts, DrainEnds(h) PROVE RunsKept'
  BY <1>42 DEF DrainEnds, Advance, runVars, procVars
<1>43. ASSUME NEW h \in Hosts, SetClosed(h) PROVE RunsKept'
  BY <1>43 DEF SetClosed, Advance, runVars, procVars
<1>44. ASSUME NEW h \in Hosts, CloseRuntime(h) PROVE RunsKept'
  BY <1>44 DEF CloseRuntime, Advance, runVars, procVars
<1>45. ASSUME NEW h \in Hosts, ReleaseStore(h) PROVE RunsKept'
  BY <1>45 DEF ReleaseStore, Advance, runVars, procVars
<1>46. ASSUME NEW h \in Hosts, SignalDone(h) PROVE RunsKept'
  BY <1>46 DEF SignalDone, Advance, runVars, procVars
<1>47. ASSUME NEW h \in Hosts, HostClosed(h) PROVE RunsKept'
  BY <1>47 DEF HostClosed, Advance, runVars, procVars
<1>48. ASSUME NEW p \in Turners, NEW h \in Hosts, TitleEnds(p, h) PROVE RunsKept'
  BY <1>48 DEF TitleEnds, poolVars, hostVars, procVars
<1>49. CASE UNCHANGED vars
  BY <1>49 DEF vars, poolVars, hostVars, runVars, procVars
<1> QED
  BY SMTT(60), <1>1, <1>2, <1>3, <1>4, <1>5, <1>6, <1>7, <1>8, <1>9, <1>10, <1>11, <1>12, <1>13, <1>14, <1>15, <1>16, <1>17, <1>18, <1>19, <1>20, <1>21, <1>22, <1>23, <1>24, <1>25, <1>26, <1>27, <1>28, <1>29, <1>30, <1>31, <1>32, <1>33, <1>34, <1>35, <1>36, <1>37, <1>38, <1>39, <1>40, <1>41, <1>42, <1>43, <1>44, <1>45, <1>46, <1>47, <1>48, <1>49
  DEF Next, ThreadStep, ProcStep, TurnStep, ShutStep, ReloadStep, WatchStep, HostStep

\* The inductive invariant holds in every reachable state of the pool.
THEOREM Invariance == Spec => [](TypeOK /\ IInv)
<1>1. Init => TypeOK /\ IInv
  <2> SUFFICES ASSUME Init PROVE IInv
    BY TypeInit
  <2>1. Serves
    BY PoolAssumption DEF Init, Serves, PoolExclusive, TargetsExist, OneLeader,
       BuildsAlone, FreshIsPrivate, Tracked, StagesFit, ClosesUnpooled,
       WatchesArmed, Building, Aimed, Occupied
  <2>2. RunsKept
    BY PoolAssumption DEF Init, RunsKept, RunOwners, RunsBeforeClose,
       TitleKeepsRuntime
  <2> QED BY <2>1, <2>2 DEF IInv
<1>2. TypeOK /\ IInv /\ [Next]_vars => TypeOK' /\ IInv'
  BY TypeStep, ServesStep, RunsStep DEF IInv
<1> QED BY <1>1, <1>2, PTL DEF Spec

\* Type correctness of the pool (TypeOK), for every number of callers.
THEOREM Typing == Spec => []TypeOK
BY Invariance, PTL

\* What the inductive invariant says of assembleShared: a Host is tracked by
\* the pool, by the retiring slot or by the one leader, so two cannot exist.
LEMMA OneHostOf == TypeOK /\ IInv => OneHost /\ InstallFindsEmptyPool
<1> SUFFICES ASSUME TypeOK, IInv PROVE OneHost /\ InstallFindsEmptyPool
  OBVIOUS
<1>1. \A p, q \in Procs : pc[p] = "install" /\ pc[q] = "install" => p = q
  BY DEF IInv, Serves, OneLeader, Building
<1>2. OneHost
  BY <1>1, PoolAssumption DEF TypeOK, IInv, Serves, OneHost, Tracked,
     PoolExclusive, BuildsAlone
<1>3. InstallFindsEmptyPool
  BY DEF IInv, Serves, BuildsAlone, InstallFindsEmptyPool
<1> QED BY <1>2, <1>3

\* assembleShared, Acquire and the teardown keep one Host per workspace: the
\* pooled and the retiring slot exclude each other, no two Hosts are open, and
\* the branch for an entry that somebody else installed is dead.
THEOREM OneHostServes == Spec => []HostsTakeTurns
<1>1. TypeOK /\ IInv => HostsTakeTurns
  BY OneHostOf DEF IInv, Serves, HostsTakeTurns
<1> QED BY <1>1, Invariance, PTL

\* doClose keeps the runtime up under the auto-titles it launched.
THEOREM TitlesKeepRuntime == Spec => []TitleKeepsRuntime
<1>1. IInv => TitleKeepsRuntime BY DEF IInv, RunsKept
<1> QED BY <1>1, Invariance, PTL

\* doClose keeps the session store referenced under every run that was
\* registered before the Host was closed.
THEOREM StoreOutlivesRuns == Spec => []RunKeepsStore
<1>1. TypeOK /\ IInv => RunKeepsStore
  BY DEF IInv, RunsKept, RunsBeforeClose, RunKeepsStore, StoreHeld, RuntimeUp
<1> QED BY <1>1, Invariance, PTL

-----------------------------------------------------------------------------
(* The references of the guests                                           *)

\* Where a guest counts on the Host it acquired, or may come to count on it
\* again.
Keeping == Holding \cup {"publish", "shut", "shutting", "awaitClose"}
Sharers(h) == {p \in Guests : pc[p] \in Keeping /\ tgt[p] = h}

\* A guest's Host is the pooled one, or it was invalidated; the references of
\* the pooled Host cover its guests.
GuestsFollow ==
    \A p \in Guests : pc[p] \in Keeping => tgt[p] = pooled \/ stale[tgt[p]]
RefsCover == pooled # NoHost => Cardinality(Sharers(pooled)) <= refs
GuestsCounted == GuestsFollow /\ RefsCover

\* A guest asks Acquire, never Ensure, and it alone closes what it acquired.
GuestsAcquire ==
    \A p \in Procs : /\ p \in Guests => pc[p] \notin {"ensure", "peek"}
                     /\ pc[p] = "release" => p \in Guests

LEMMA SharersFinite ==
  ASSUME NEW h
  PROVE  IsFiniteSet(Sharers(h)) /\ Cardinality(Sharers(h)) \in Nat
<1>1. Sharers(h) \in SUBSET Guests BY DEF Sharers
<1> QED BY <1>1, GuestsAssumption, FS_Subset, FS_CardinalityType

LEMMA SharersNext ==
  Sharers(pooled)' = {p \in Guests : pc'[p] \in Keeping /\ tgt'[p] = pooled'}
BY DEF Sharers, Keeping, Holding

\* A step that moves no guest onto a Host and leaves the pool alone.
LEMMA GuestsStay ==
  ASSUME TypeOK, GuestsCounted, pooled' = pooled, refs' = refs,
         \A q \in Guests :
             pc'[q] \in Keeping => pc[q] \in Keeping /\ tgt'[q] = tgt[q],
         \A q \in Guests :
             pc'[q] \in Keeping /\ stale[tgt[q]] => stale'[tgt[q]]
  PROVE  GuestsCounted'
<1>1. Sharers(pooled)' \in SUBSET Sharers(pooled)
  <2>1. \A q \in Sharers(pooled)' : q \in Sharers(pooled)
    <3>1. \A q \in Sharers(pooled)' :
              q \in Guests /\ pc'[q] \in Keeping /\ tgt'[q] = pooled
      BY SharersNext
    <3>2. \A q \in Guests : pc[q] \in Keeping /\ tgt[q] = pooled => q \in Sharers(pooled)
      BY DEF Sharers
    <3> QED BY <3>1, <3>2
  <2> QED BY <2>1
<1>2. Cardinality(Sharers(pooled)') <= Cardinality(Sharers(pooled))
  BY <1>1, SharersFinite, FS_Subset
<1>3. Cardinality(Sharers(pooled)') \in Nat
  BY <1>1, SharersFinite, FS_Subset, FS_CardinalityType
<1>4. RefsCover'
  BY <1>2, <1>3, SharersFinite DEF GuestsCounted, RefsCover, TypeOK
<1>5. GuestsFollow'
  <2>1. \A q \in Guests : pc[q] \in Keeping => tgt[q] = pooled \/ stale[tgt[q]]
    BY DEF GuestsCounted, GuestsFollow
  <2>2. ASSUME NEW q \in Guests, pc'[q] \in Keeping
        PROVE  tgt'[q] = pooled' \/ stale'[tgt'[q]]
    BY <2>1, <2>2
  <2> QED BY <2>2 DEF GuestsFollow, Keeping, Holding
<1> QED BY <1>4, <1>5 DEF GuestsCounted

\* A step that empties the pool: whoever is left counts on a stale Host.
LEMMA GuestsLeft ==
  ASSUME GuestsCounted, pooled' = NoHost,
         \A q \in Guests : pc'[q] \in Keeping => stale'[tgt'[q]]
  PROVE  GuestsCounted'
BY DEF GuestsCounted, GuestsFollow, RefsCover

\* Acquire counts the caller that hits the pool.
LEMMA GuestJoins ==
  ASSUME TypeOK, GuestsCounted, NEW p \in Procs, AcquirePooled(p)
  PROVE  GuestsCounted'
<1>1. /\ pooled # NoHost /\ pooled' = pooled /\ refs' = refs + 1 /\ stale' = stale
      /\ pc[p] = "acquire" /\ pc' = [pc EXCEPT ![p] = "configure"]
      /\ tgt' = [tgt EXCEPT ![p] = pooled]
  BY DEF AcquirePooled, Go, Aim, hostVars
<1>2. \A q \in Procs : q # p => pc'[q] = pc[q] /\ tgt'[q] = tgt[q]
  BY <1>1 DEF TypeOK
<1>3. pc'[p] = "configure" /\ tgt'[p] = pooled BY <1>1 DEF TypeOK
<1>4. Sharers(pooled)' \in SUBSET (Sharers(pooled) \cup {p})
  BY <1>1, <1>2, SharersNext DEF Sharers
<1>5. /\ IsFiniteSet(Sharers(pooled) \cup {p})
      /\ Cardinality(Sharers(pooled) \cup {p}) <= Cardinality(Sharers(pooled)) + 1
  BY SharersFinite, FS_AddElement
<1>6. /\ Cardinality(Sharers(pooled)') <= Cardinality(Sharers(pooled) \cup {p})
      /\ Cardinality(Sharers(pooled)') \in Nat
      /\ Cardinality(Sharers(pooled) \cup {p}) \in Nat
  BY <1>4, <1>5, FS_Subset, FS_CardinalityType
<1>7. RefsCover'
  BY <1>1, <1>5, <1>6, SharersFinite DEF GuestsCounted, RefsCover, TypeOK
<1>8. GuestsFollow' BY <1>1, <1>2, <1>3 DEF GuestsCounted, GuestsFollow
<1> QED BY <1>7, <1>8 DEF GuestsCounted

\* The leader's Host enters the pool with one reference, which is its own.
LEMMA GuestInstalls ==
  ASSUME TypeOK, IInv, GuestsCounted, NEW p \in Procs, Install(p)
  PROVE  GuestsCounted'
<1>1. /\ pooled' = tgt[p] /\ refs' = 1 /\ stale' = stale /\ tgt' = tgt
      /\ pc[p] = "install" /\ pc' = [pc EXCEPT ![p] = "publish"]
  BY DEF Install, Go, hostVars, procVars
<1>2. \A q \in Procs : q # p => pc'[q] = pc[q] /\ tgt[q] # tgt[p]
  BY <1>1 DEF TypeOK, IInv, Serves, FreshIsPrivate
<1>3. pc'[p] = "publish" BY <1>1 DEF TypeOK
<1>4. pooled = NoHost BY <1>1 DEF IInv, Serves, BuildsAlone
<1>5. \A q \in Guests : pc[q] \in Keeping => tgt[q] \in Hosts
  BY DEF IInv, Serves, TargetsExist, Keeping, Holding, Aimed
<1>6. (Sharers(pooled))' \in SUBSET {p} BY <1>1, <1>2, SharersNext DEF Sharers
<1>7. Cardinality({p}) = 1 /\ IsFiniteSet({p}) BY FS_Singleton
<1>8. /\ Cardinality((Sharers(pooled))') <= 1
  BY <1>6, <1>7, FS_Subset
<1>9. RefsCover' BY <1>1, <1>8 DEF RefsCover
<1>10. GuestsFollow'
  BY <1>1, <1>2, <1>3, <1>4, <1>5, PoolAssumption DEF GuestsCounted, GuestsFollow
<1> QED BY <1>9, <1>10 DEF GuestsCounted

\* Host.Close of a guest gives its own reference back, and only the last one
\* takes the Host out of the pool.
LEMMA GuestLeaves ==
  ASSUME TypeOK, IInv, GuestsCounted, GuestsAcquire, NEW p \in Turners,
         Release(p)
  PROVE  GuestsCounted'
<1>1. p \in Guests /\ pc[p] = "release" /\ tgt' = tgt /\ stale' = stale
  BY DEF Release, hostVars, procVars, GuestsAcquire
<1>2. \E l \in {"idle", "guestShut"} : pc' = [pc EXCEPT ![p] = l]
  BY DEF Release, Go
<1>3. pc'[p] \in {"idle", "guestShut"} /\ \A q \in Procs : q # p => pc'[q] = pc[q]
  BY <1>2 DEF TypeOK
<1>4. "idle" \notin Keeping /\ "guestShut" \notin Keeping /\ "release" \in Keeping
  BY DEF Keeping, Holding
<1>5. \A q \in Guests : pc'[q] \in Keeping => q # p /\ pc[q] \in Keeping
  BY <1>3, <1>4
<1>6. CASE pooled # tgt[p]
  <2>1. pooled' = pooled /\ refs' = refs BY <1>6 DEF Release
  <2> QED BY <1>1, <1>5, <2>1, GuestsStay
<1>7. CASE pooled = tgt[p] /\ refs > 1
  <2>1. pooled' = pooled /\ refs' = refs - 1 BY <1>7 DEF Release
  <2>2. p \in Sharers(pooled) BY <1>1, <1>4, <1>7 DEF Sharers
  <2>3. Sharers(pooled)' \in SUBSET (Sharers(pooled) \ {p})
    BY <1>1, <1>5, <2>1, SharersNext DEF Sharers
  <2>4. /\ IsFiniteSet(Sharers(pooled) \ {p})
        /\ Cardinality(Sharers(pooled) \ {p}) = Cardinality(Sharers(pooled)) - 1
    BY <2>2, SharersFinite, FS_RemoveElement
  <2>5. /\ Cardinality(Sharers(pooled)') <= Cardinality(Sharers(pooled) \ {p})
        /\ Cardinality(Sharers(pooled)') \in Nat
    BY <2>3, <2>4, FS_Subset, FS_CardinalityType
  <2>6. RefsCover'
    BY <2>1, <2>4, <2>5, SharersFinite DEF GuestsCounted, RefsCover, TypeOK
  <2>7. GuestsFollow'
    BY <1>1, <1>5, <2>1 DEF GuestsCounted, GuestsFollow
  <2> QED BY <2>6, <2>7 DEF GuestsCounted
<1>8. CASE pooled = tgt[p] /\ ~(refs > 1)
  <2>0. tgt[p] # NoHost
    BY <1>1, PoolAssumption DEF IInv, Serves, TargetsExist, Aimed
  <2>1. pooled' = NoHost BY <1>8 DEF Release
  <2>2. p \in Sharers(pooled) BY <1>1, <1>4, <1>8 DEF Sharers
  <2>3. \A q \in Guests : q # p /\ pc[q] \in Keeping => tgt[q] # pooled
    <3>0. pooled # NoHost BY <1>1, <1>8, <2>0
    <3>1. SUFFICES ASSUME NEW q \in Guests, q # p, pc[q] \in Keeping, tgt[q] = pooled
                   PROVE  FALSE
      OBVIOUS
    <3>2. {p, q} \in SUBSET Sharers(pooled) BY <2>2, <3>1 DEF Sharers
    <3>3. Cardinality({p, q}) = 2
      <4>1. IsFiniteSet({p}) /\ Cardinality({p}) = 1 BY FS_Singleton
      <4>2. Cardinality({p} \cup {q}) = Cardinality({p}) + 1
        BY <3>1, <4>1, FS_AddElement
      <4>3. {p} \cup {q} = {p, q} OBVIOUS
      <4> QED BY <4>1, <4>2, <4>3
    <3>4. 2 <= Cardinality(Sharers(pooled))
      BY <3>2, <3>3, SharersFinite, FS_Subset
    <3> QED BY <1>8, <3>0, <3>4, SharersFinite
            DEF GuestsCounted, RefsCover, TypeOK
  <2>4. \A q \in Guests : pc'[q] \in Keeping => stale'[tgt'[q]]
    BY <1>1, <1>5, <2>3 DEF GuestsCounted, GuestsFollow
  <2> QED BY <1>5, <2>1, <2>4, GuestsLeft
<1> QED BY <1>6, <1>7, <1>8

\* Only a window, a reloader or the watcher comes to Ensure (CallTurn, Retry,
\* Invalidate, Wanted), and only a guest to Host.Close.
LEMMA AcquireStep ==
  ASSUME TypeOK, GuestsAcquire, [Next]_vars
  PROVE  GuestsAcquire'
<1>1. ASSUME NEW p \in Procs, CallTurn(p) PROVE GuestsAcquire'
  BY <1>1, PoolAssumption DEF CallTurn, Go, TypeOK, GuestsAcquire
<1>2. ASSUME NEW p \in Procs, CallRebuild(p) PROVE GuestsAcquire'
  BY <1>2, PoolAssumption DEF CallRebuild, Go, TypeOK, GuestsAcquire
<1>3. ASSUME NEW p \in Procs, GiveUp(p) PROVE GuestsAcquire'
  BY <1>3, PoolAssumption DEF GiveUp, procVars, TypeOK, GuestsAcquire
<1>4. ASSUME NEW p \in Procs, EnsureCurrent(p) PROVE GuestsAcquire'
  BY <1>4, PoolAssumption DEF EnsureCurrent, Current, Go, Aim, TypeOK, GuestsAcquire
<1>5. ASSUME NEW p \in Procs, EnsurePeek(p) PROVE GuestsAcquire'
  BY <1>5, PoolAssumption DEF EnsurePeek, Go, procVars, TypeOK, GuestsAcquire
<1>6. ASSUME NEW p \in Procs, AcquirePooled(p) PROVE GuestsAcquire'
  BY <1>6, PoolAssumption DEF AcquirePooled, Go, Aim, TypeOK, GuestsAcquire
<1>7. ASSUME NEW p \in Procs, AcquireRetiring(p) PROVE GuestsAcquire'
  BY <1>7, PoolAssumption DEF AcquireRetiring, Go, Aim, TypeOK, GuestsAcquire
<1>8. ASSUME NEW p \in Procs, AcquireLead(p) PROVE GuestsAcquire'
  BY <1>8, PoolAssumption DEF AcquireLead, Go, Aim, TypeOK, GuestsAcquire
<1>9. ASSUME NEW p \in Procs, AcquireFollow(p) PROVE GuestsAcquire'
  BY <1>9, PoolAssumption DEF AcquireFollow, Go, Aim, TypeOK, GuestsAcquire
<1>10. ASSUME NEW p \in Procs, WaitClosedLook(p) PROVE GuestsAcquire'
  BY <1>10, PoolAssumption DEF WaitClosedLook, Go, procVars, TypeOK, GuestsAcquire
<1>11. ASSUME NEW p \in Procs, WaitClosedDone(p) PROVE GuestsAcquire'
  BY <1>11, PoolAssumption DEF WaitClosedDone, Go, procVars, TypeOK, GuestsAcquire
<1>12. ASSUME NEW p \in Procs, NEW h \in Hosts, BuildHost(p, h) PROVE GuestsAcquire'
  BY <1>12, PoolAssumption DEF BuildHost, Go, Aim, TypeOK, GuestsAcquire
<1>13. ASSUME NEW p \in Procs, BuildFails(p) PROVE GuestsAcquire'
  BY <1>13, PoolAssumption DEF BuildFails, Go, procVars, TypeOK, GuestsAcquire
<1>14. ASSUME NEW p \in Procs, Install(p) PROVE GuestsAcquire'
  BY <1>14, PoolAssumption DEF Install, Go, procVars, TypeOK, GuestsAcquire
<1>15. ASSUME NEW p \in Procs, Publish(p) PROVE GuestsAcquire'
  BY <1>15, PoolAssumption DEF Publish, Refused, procVars, TypeOK, GuestsAcquire
<1>16. ASSUME NEW p \in Procs, Configure(p) PROVE GuestsAcquire'
  BY <1>16, PoolAssumption DEF Configure, Served, Go, procVars, TypeOK, GuestsAcquire
<1>17. ASSUME NEW p \in Procs, Wire(p) PROVE GuestsAcquire'
  BY <1>17, PoolAssumption DEF Wire, Served, Go, procVars, TypeOK, GuestsAcquire
<1>18. ASSUME NEW p \in Turners, StartCheck(p) PROVE GuestsAcquire'
  BY <1>18, PoolAssumption DEF StartCheck, Retry, Fail, Go, TypeOK, GuestsAcquire
<1>19. ASSUME NEW p \in Turners, StartTurn(p) PROVE GuestsAcquire'
  BY <1>19, PoolAssumption DEF StartTurn, Go, procVars, TypeOK, GuestsAcquire
<1>20. ASSUME NEW p \in Turners, StartFails(p) PROVE GuestsAcquire'
  BY <1>20, PoolAssumption DEF StartFails, Retry, Fail, Go, TypeOK, GuestsAcquire
<1>21. ASSUME NEW p \in Turners, Register(p) PROVE GuestsAcquire'
  BY <1>21, PoolAssumption DEF Register, Go, procVars, TypeOK, GuestsAcquire
<1>22. ASSUME NEW p \in Turners, TurnEnds(p) PROVE GuestsAcquire'
  BY <1>22, PoolAssumption DEF TurnEnds, Go, procVars, TypeOK, GuestsAcquire
<1>23. ASSUME NEW p \in Turners, Settle(p) PROVE GuestsAcquire'
  BY <1>23, PoolAssumption DEF Settle, Go, procVars, TypeOK, GuestsAcquire
<1>24. ASSUME NEW p \in Turners, DropRun(p) PROVE GuestsAcquire'
  BY <1>24, PoolAssumption DEF DropRun, Go, procVars, TypeOK, GuestsAcquire
<1>25. ASSUME NEW p \in Turners, HostIdle(p) PROVE GuestsAcquire'
  BY <1>25, PoolAssumption DEF HostIdle, TrackRetiring, Go, procVars, TypeOK, GuestsAcquire
<1>26. ASSUME NEW p \in Turners, Post(p) PROVE GuestsAcquire'
  BY <1>26, PoolAssumption DEF Post, Go, procVars, TypeOK, GuestsAcquire
<1>27. ASSUME NEW p \in Turners, AwaitClose(p) PROVE GuestsAcquire'
  BY <1>27, PoolAssumption DEF AwaitClose, Go, procVars, TypeOK, GuestsAcquire
<1>28. ASSUME NEW p \in Turners, Release(p) PROVE GuestsAcquire'
  BY <1>28, PoolAssumption DEF Release, Go, procVars, TypeOK, GuestsAcquire
<1>29. ASSUME NEW p \in Procs \ {Watcher}, CloseRetired(p) PROVE GuestsAcquire'
  BY <1>29, PoolAssumption DEF CloseRetired, BeginClose, AfterShut, Go, procVars, TypeOK, GuestsAcquire
<1>30. ASSUME NEW p \in Procs \ {Watcher}, CloseReleased(p) PROVE GuestsAcquire'
  BY <1>30, PoolAssumption DEF CloseReleased, BeginClose, Go, procVars, TypeOK, GuestsAcquire
<1>31. ASSUME NEW p \in Procs \ {Watcher}, RetiredShut(p) PROVE GuestsAcquire'
  BY <1>31, PoolAssumption DEF RetiredShut, Shut, AfterShut, Go, procVars, TypeOK, GuestsAcquire
<1>32. ASSUME NEW p \in Procs \ {Watcher}, ReleasedShut(p) PROVE GuestsAcquire'
  BY <1>32, PoolAssumption DEF ReleasedShut, Shut, Go, procVars, TypeOK, GuestsAcquire
<1>33. ASSUME NEW p \in Reloaders, Invalidate(p) PROVE GuestsAcquire'
  BY <1>33, PoolAssumption DEF Invalidate, TrackRetiring, Go, Aim, TypeOK, GuestsAcquire
<1>34. ASSUME NEW p \in Reloaders, CheckStale(p) PROVE GuestsAcquire'
  BY <1>34, PoolAssumption DEF CheckStale, Go, procVars, TypeOK, GuestsAcquire
<1>35. ASSUME NEW p \in Reloaders, Schedule(p) PROVE GuestsAcquire'
  BY <1>35, PoolAssumption DEF Schedule, Go, procVars, TypeOK, GuestsAcquire
<1>36. ASSUME Watch PROVE GuestsAcquire'
  BY <1>36, PoolAssumption DEF Watch, Current, Go, Aim, TypeOK, GuestsAcquire
<1>37. ASSUME WatchState PROVE GuestsAcquire'
  BY <1>37, PoolAssumption DEF WatchState, Go, procVars, TypeOK, GuestsAcquire
<1>38. ASSUME WatchLook PROVE GuestsAcquire'
  BY <1>38, PoolAssumption DEF WatchLook, Go, procVars, TypeOK, GuestsAcquire
<1>39. ASSUME WatchDone PROVE GuestsAcquire'
  BY <1>39, PoolAssumption DEF WatchDone, Go, procVars, TypeOK, GuestsAcquire
<1>40. ASSUME Wanted PROVE GuestsAcquire'
  BY <1>40, PoolAssumption DEF Wanted, Go, procVars, TypeOK, GuestsAcquire
<1>41. ASSUME Disarm PROVE GuestsAcquire'
  BY <1>41, PoolAssumption DEF Disarm, Go, procVars, TypeOK, GuestsAcquire
<1>42. ASSUME NEW h \in Hosts, DrainEnds(h) PROVE GuestsAcquire'
  BY <1>42, PoolAssumption DEF DrainEnds, Advance, procVars, TypeOK, GuestsAcquire
<1>43. ASSUME NEW h \in Hosts, SetClosed(h) PROVE GuestsAcquire'
  BY <1>43, PoolAssumption DEF SetClosed, Advance, procVars, TypeOK, GuestsAcquire
<1>44. ASSUME NEW h \in Hosts, CloseRuntime(h) PROVE GuestsAcquire'
  BY <1>44, PoolAssumption DEF CloseRuntime, Advance, procVars, TypeOK, GuestsAcquire
<1>45. ASSUME NEW h \in Hosts, ReleaseStore(h) PROVE GuestsAcquire'
  BY <1>45, PoolAssumption DEF ReleaseStore, Advance, procVars, TypeOK, GuestsAcquire
<1>46. ASSUME NEW h \in Hosts, SignalDone(h) PROVE GuestsAcquire'
  BY <1>46, PoolAssumption DEF SignalDone, Advance, procVars, TypeOK, GuestsAcquire
<1>47. ASSUME NEW h \in Hosts, HostClosed(h) PROVE GuestsAcquire'
  BY <1>47, PoolAssumption DEF HostClosed, Advance, procVars, TypeOK, GuestsAcquire
<1>48. ASSUME NEW p \in Turners, NEW h \in Hosts, TitleEnds(p, h) PROVE GuestsAcquire'
  BY <1>48, PoolAssumption DEF TitleEnds, procVars, TypeOK, GuestsAcquire
<1>49. CASE UNCHANGED vars
  BY <1>49 DEF vars, GuestsAcquire
<1> QED
  BY SMTT(60), <1>1, <1>2, <1>3, <1>4, <1>5, <1>6, <1>7, <1>8, <1>9, <1>10, <1>11, <1>12, <1>13, <1>14, <1>15, <1>16, <1>17, <1>18, <1>19, <1>20, <1>21, <1>22, <1>23, <1>24, <1>25, <1>26, <1>27, <1>28, <1>29, <1>30, <1>31, <1>32, <1>33, <1>34, <1>35, <1>36, <1>37, <1>38, <1>39, <1>40, <1>41, <1>42, <1>43, <1>44, <1>45, <1>46, <1>47, <1>48, <1>49
  DEF Next, ThreadStep, ProcStep, TurnStep, ShutStep, ReloadStep, WatchStep, HostStep

\* Every step keeps the references of the guests counted.
LEMMA GuestsStep ==
  ASSUME TypeOK, IInv, GuestsCounted, GuestsAcquire, [Next]_vars
  PROVE  GuestsCounted'
<1>1. ASSUME NEW p \in Procs, CallTurn(p) PROVE GuestsCounted'
  BY <1>1, GuestsStay, PoolAssumption DEF CallTurn, Go, poolVars, hostVars, runVars, TypeOK, GuestsAcquire, Keeping, Holding
<1>2. ASSUME NEW p \in Procs, CallRebuild(p) PROVE GuestsCounted'
  BY <1>2, GuestsStay, PoolAssumption DEF CallRebuild, Go, poolVars, hostVars, runVars, TypeOK, GuestsAcquire, Keeping, Holding
<1>3. ASSUME NEW p \in Procs, GiveUp(p) PROVE GuestsCounted'
  BY <1>3, GuestsStay, PoolAssumption DEF GiveUp, poolVars, hostVars, runVars, procVars, TypeOK, GuestsAcquire, Keeping, Holding
<1>4. ASSUME NEW p \in Procs, EnsureCurrent(p) PROVE GuestsCounted'
  BY <1>4, GuestsStay, PoolAssumption DEF EnsureCurrent, Current, Go, Aim, poolVars, hostVars, runVars, TypeOK, GuestsAcquire, Keeping, Holding
<1>5. ASSUME NEW p \in Procs, EnsurePeek(p) PROVE GuestsCounted'
  BY <1>5, GuestsStay, PoolAssumption DEF EnsurePeek, Go, poolVars, hostVars, runVars, procVars, TypeOK, GuestsAcquire, Keeping, Holding
<1>6. ASSUME NEW p \in Procs, AcquirePooled(p) PROVE GuestsCounted'
  BY <1>6, GuestJoins
<1>7. ASSUME NEW p \in Procs, AcquireRetiring(p) PROVE GuestsCounted'
  BY <1>7, GuestsStay, PoolAssumption DEF AcquireRetiring, Go, Aim, poolVars, hostVars, runVars, TypeOK, GuestsAcquire, Keeping, Holding
<1>8. ASSUME NEW p \in Procs, AcquireLead(p) PROVE GuestsCounted'
  BY <1>8, GuestsStay, PoolAssumption DEF AcquireLead, Go, Aim, hostVars, runVars, TypeOK, GuestsAcquire, Keeping, Holding
<1>9. ASSUME NEW p \in Procs, AcquireFollow(p) PROVE GuestsCounted'
  BY <1>9, GuestsStay, PoolAssumption DEF AcquireFollow, Go, Aim, poolVars, hostVars, runVars, TypeOK, GuestsAcquire, Keeping, Holding
<1>10. ASSUME NEW p \in Procs, WaitClosedLook(p) PROVE GuestsCounted'
  BY <1>10, GuestsStay, PoolAssumption DEF WaitClosedLook, Go, poolVars, hostVars, runVars, procVars, TypeOK, GuestsAcquire, Keeping, Holding
<1>11. ASSUME NEW p \in Procs, WaitClosedDone(p) PROVE GuestsCounted'
  BY <1>11, GuestsStay, PoolAssumption DEF WaitClosedDone, Go, poolVars, hostVars, runVars, procVars, TypeOK, GuestsAcquire, Keeping, Holding
<1>12. ASSUME NEW p \in Procs, NEW h \in Hosts, BuildHost(p, h) PROVE GuestsCounted'
  BY <1>12, GuestsStay, PoolAssumption DEF BuildHost, Go, Aim, poolVars, runVars, TypeOK, GuestsAcquire, Keeping, Holding
<1>13. ASSUME NEW p \in Procs, BuildFails(p) PROVE GuestsCounted'
  BY <1>13, GuestsStay, PoolAssumption DEF BuildFails, Go, poolVars, hostVars, runVars, procVars, TypeOK, GuestsAcquire, Keeping, Holding
<1>14. ASSUME NEW p \in Procs, Install(p) PROVE GuestsCounted'
  BY <1>14, GuestInstalls
<1>15. ASSUME NEW p \in Procs, Publish(p) PROVE GuestsCounted'
  BY <1>15, GuestsStay, PoolAssumption DEF Publish, Refused, hostVars, runVars, procVars, TypeOK, GuestsAcquire, Keeping, Holding
<1>16. ASSUME NEW p \in Procs, Configure(p) PROVE GuestsCounted'
  BY <1>16, GuestsStay, PoolAssumption DEF Configure, Served, Go, hostVars, runVars, procVars, TypeOK, GuestsAcquire, Keeping, Holding
<1>17. ASSUME NEW p \in Procs, Wire(p) PROVE GuestsCounted'
  BY <1>17, GuestsStay, PoolAssumption DEF Wire, Served, Go, poolVars, runVars, procVars, TypeOK, GuestsAcquire, Keeping, Holding
<1>18. ASSUME NEW p \in Turners, StartCheck(p) PROVE GuestsCounted'
  BY <1>18, GuestsStay, PoolAssumption DEF StartCheck, Retry, Fail, Go, poolVars, hostVars, runVars, TypeOK, GuestsAcquire, Keeping, Holding
<1>19. ASSUME NEW p \in Turners, StartTurn(p) PROVE GuestsCounted'
  BY <1>19, GuestsStay, PoolAssumption DEF StartTurn, Go, poolVars, hostVars, runVars, procVars, TypeOK, GuestsAcquire, Keeping, Holding
<1>20. ASSUME NEW p \in Turners, StartFails(p) PROVE GuestsCounted'
  BY <1>20, GuestsStay, PoolAssumption DEF StartFails, Retry, Fail, Go, poolVars, hostVars, runVars, TypeOK, GuestsAcquire, Keeping, Holding
<1>21. ASSUME NEW p \in Turners, Register(p) PROVE GuestsCounted'
  BY <1>21, GuestsStay, PoolAssumption DEF Register, Go, poolVars, hostVars, procVars, TypeOK, GuestsAcquire, Keeping, Holding
<1>22. ASSUME NEW p \in Turners, TurnEnds(p) PROVE GuestsCounted'
  BY <1>22, GuestsStay, PoolAssumption DEF TurnEnds, Go, poolVars, hostVars, runVars, procVars, TypeOK, GuestsAcquire, Keeping, Holding
<1>23. ASSUME NEW p \in Turners, Settle(p) PROVE GuestsCounted'
  BY <1>23, GuestsStay, PoolAssumption DEF Settle, Go, poolVars, hostVars, procVars, TypeOK, GuestsAcquire, Keeping, Holding
<1>24. ASSUME NEW p \in Turners, DropRun(p) PROVE GuestsCounted'
  BY <1>24, GuestsStay, PoolAssumption DEF DropRun, Go, poolVars, hostVars, procVars, TypeOK, GuestsAcquire, Keeping, Holding
<1>25. ASSUME NEW p \in Turners, HostIdle(p) PROVE GuestsCounted'
  <2>1. CASE pooled = tgt[p] /\ stale[tgt[p]]
    <3>1. /\ pooled' = NoHost /\ stale' = stale /\ tgt' = tgt /\ pc[p] = "retire"
          /\ \E l \in {"shut", "post"} : pc' = [pc EXCEPT ![p] = l]
      BY <1>25, <2>1 DEF HostIdle, TrackRetiring, Go, hostVars, procVars
    <3> QED BY <2>1, <3>1, GuestsLeft
            DEF TypeOK, GuestsCounted, GuestsFollow, Keeping, Holding
  <2>2. CASE ~(pooled = tgt[p] /\ stale[tgt[p]])
    <3>1. /\ UNCHANGED <<pooled, refs, stale, tgt>>
          /\ pc[p] = "retire" /\ pc' = [pc EXCEPT ![p] = "post"]
      BY <1>25, <2>2 DEF HostIdle, Go, hostVars, procVars
    <3> QED BY <3>1, GuestsStay DEF TypeOK, Keeping, Holding
  <2> QED BY <2>1, <2>2
<1>26. ASSUME NEW p \in Turners, Post(p) PROVE GuestsCounted'
  BY <1>26, GuestsStay, PoolAssumption DEF Post, Go, poolVars, hostVars, runVars, procVars, TypeOK, GuestsAcquire, Keeping, Holding
<1>27. ASSUME NEW p \in Turners, AwaitClose(p) PROVE GuestsCounted'
  BY <1>27, GuestsStay, PoolAssumption DEF AwaitClose, Go, poolVars, hostVars, runVars, procVars, TypeOK, GuestsAcquire, Keeping, Holding
<1>28. ASSUME NEW p \in Turners, Release(p) PROVE GuestsCounted'
  BY <1>28, GuestLeaves
<1>29. ASSUME NEW p \in Procs \ {Watcher}, CloseRetired(p) PROVE GuestsCounted'
  BY <1>29, GuestsStay, PoolAssumption DEF CloseRetired, BeginClose, AfterShut, Go, poolVars, runVars, procVars, TypeOK, GuestsAcquire, Keeping, Holding
<1>30. ASSUME NEW p \in Procs \ {Watcher}, CloseReleased(p) PROVE GuestsCounted'
  BY <1>30, GuestsStay, PoolAssumption DEF CloseReleased, BeginClose, Go, poolVars, runVars, procVars, TypeOK, GuestsAcquire, Keeping, Holding
<1>31. ASSUME NEW p \in Procs \ {Watcher}, RetiredShut(p) PROVE GuestsCounted'
  BY <1>31, GuestsStay, PoolAssumption DEF RetiredShut, Shut, AfterShut, Go, poolVars, hostVars, runVars, procVars, TypeOK, GuestsAcquire, Keeping, Holding
<1>32. ASSUME NEW p \in Procs \ {Watcher}, ReleasedShut(p) PROVE GuestsCounted'
  BY <1>32, GuestsStay, PoolAssumption DEF ReleasedShut, Shut, Go, poolVars, hostVars, runVars, procVars, TypeOK, GuestsAcquire, Keeping, Holding
<1>33. ASSUME NEW p \in Reloaders, Invalidate(p) PROVE GuestsCounted'
  <2>0. \A q \in Guests : pc'[q] = pc[q] /\ tgt'[q] = tgt[q]
    BY <1>33, PoolAssumption DEF Invalidate, Go, Aim, TypeOK
  <2>1. CASE pooled' = pooled /\ refs' = refs
    <3>1. \A h \in Hosts : stale[h] => stale'[h]
      BY <1>33 DEF Invalidate, TypeOK
    <3>2. \A q \in Guests : pc'[q] \in Keeping => (stale[tgt[q]] => stale'[tgt[q]])
      BY <2>0, <3>1 DEF IInv, Serves, TargetsExist, Keeping, Holding, Aimed
    <3> QED BY <2>0, <2>1, <3>2, GuestsStay
  <2>2. CASE ~(pooled' = pooled /\ refs' = refs)
    <3>1. pooled # NoHost /\ pooled' = NoHost /\ stale' = [stale EXCEPT ![pooled] = TRUE]
      BY <1>33, <2>2 DEF Invalidate, TrackRetiring
    <3>2. \A q \in Guests : pc'[q] \in Keeping => stale'[tgt'[q]]
      <4>1. \A q \in Guests : pc[q] \in Keeping => tgt[q] \in Hosts
        BY DEF IInv, Serves, TargetsExist, Keeping, Holding, Aimed
      <4> QED BY <2>0, <3>1, <4>1 DEF TypeOK, GuestsCounted, GuestsFollow
    <3> QED BY <2>0, <3>1, <3>2, GuestsLeft
  <2> QED BY <2>1, <2>2
<1>34. ASSUME NEW p \in Reloaders, CheckStale(p) PROVE GuestsCounted'
  BY <1>34, GuestsStay, PoolAssumption DEF CheckStale, Go, poolVars, hostVars, runVars, procVars, TypeOK, GuestsAcquire, Keeping, Holding
<1>35. ASSUME NEW p \in Reloaders, Schedule(p) PROVE GuestsCounted'
  BY <1>35, GuestsStay, PoolAssumption DEF Schedule, Go, poolVars, hostVars, runVars, procVars, TypeOK, GuestsAcquire, Keeping, Holding
<1>36. ASSUME Watch PROVE GuestsCounted'
  BY <1>36, GuestsStay, PoolAssumption DEF Watch, Current, Go, Aim, poolVars, hostVars, runVars, TypeOK, GuestsAcquire, Keeping, Holding
<1>37. ASSUME WatchState PROVE GuestsCounted'
  BY <1>37, GuestsStay, PoolAssumption DEF WatchState, Go, poolVars, hostVars, runVars, procVars, TypeOK, GuestsAcquire, Keeping, Holding
<1>38. ASSUME WatchLook PROVE GuestsCounted'
  BY <1>38, GuestsStay, PoolAssumption DEF WatchLook, Go, poolVars, hostVars, runVars, procVars, TypeOK, GuestsAcquire, Keeping, Holding
<1>39. ASSUME WatchDone PROVE GuestsCounted'
  BY <1>39, GuestsStay, PoolAssumption DEF WatchDone, Go, poolVars, hostVars, runVars, procVars, TypeOK, GuestsAcquire, Keeping, Holding
<1>40. ASSUME Wanted PROVE GuestsCounted'
  BY <1>40, GuestsStay, PoolAssumption DEF Wanted, Go, poolVars, hostVars, runVars, procVars, TypeOK, GuestsAcquire, Keeping, Holding
<1>41. ASSUME Disarm PROVE GuestsCounted'
  BY <1>41, GuestsStay, PoolAssumption DEF Disarm, Go, poolVars, hostVars, runVars, procVars, TypeOK, GuestsAcquire, Keeping, Holding
<1>42. ASSUME NEW h \in Hosts, DrainEnds(h) PROVE GuestsCounted'
  BY <1>42, GuestsStay, PoolAssumption DEF DrainEnds, Advance, runVars, procVars, TypeOK, GuestsAcquire, Keeping, Holding
<1>43. ASSUME NEW h \in Hosts, SetClosed(h) PROVE GuestsCounted'
  BY <1>43, GuestsStay, PoolAssumption DEF SetClosed, Advance, runVars, procVars, TypeOK, GuestsAcquire, Keeping, Holding
<1>44. ASSUME NEW h \in Hosts, CloseRuntime(h) PROVE GuestsCounted'
  BY <1>44, GuestsStay, PoolAssumption DEF CloseRuntime, Advance, runVars, procVars, TypeOK, GuestsAcquire, Keeping, Holding
<1>45. ASSUME NEW h \in Hosts, ReleaseStore(h) PROVE GuestsCounted'
  BY <1>45, GuestsStay, PoolAssumption DEF ReleaseStore, Advance, runVars, procVars, TypeOK, GuestsAcquire, Keeping, Holding
<1>46. ASSUME NEW h \in Hosts, SignalDone(h) PROVE GuestsCounted'
  BY <1>46, GuestsStay, PoolAssumption DEF SignalDone, Advance, runVars, procVars, TypeOK, GuestsAcquire, Keeping, Holding
<1>47. ASSUME NEW h \in Hosts, HostClosed(h) PROVE GuestsCounted'
  BY <1>47, GuestsStay, PoolAssumption DEF HostClosed, Advance, runVars, procVars, TypeOK, GuestsAcquire, Keeping, Holding
<1>48. ASSUME NEW p \in Turners, NEW h \in Hosts, TitleEnds(p, h) PROVE GuestsCounted'
  BY <1>48, GuestsStay, PoolAssumption DEF TitleEnds, poolVars, hostVars, procVars, TypeOK, GuestsAcquire, Keeping, Holding
<1>49. CASE UNCHANGED vars
  BY <1>49, GuestsStay DEF vars, poolVars, hostVars, procVars, TypeOK, GuestsAcquire, Keeping, Holding
<1> QED
  BY SMTT(60), <1>1, <1>2, <1>3, <1>4, <1>5, <1>6, <1>7, <1>8, <1>9, <1>10, <1>11, <1>12, <1>13, <1>14, <1>15, <1>16, <1>17, <1>18, <1>19, <1>20, <1>21, <1>22, <1>23, <1>24, <1>25, <1>26, <1>27, <1>28, <1>29, <1>30, <1>31, <1>32, <1>33, <1>34, <1>35, <1>36, <1>37, <1>38, <1>39, <1>40, <1>41, <1>42, <1>43, <1>44, <1>45, <1>46, <1>47, <1>48, <1>49
  DEF Next, ThreadStep, ProcStep, TurnStep, ShutStep, ReloadStep, WatchStep, HostStep
\* The references the pool counts cover its guests, and a guest that works on
\* a Host which is no longer pooled works on one that was invalidated.
THEOREM GuestsInvariance == Spec => [](GuestsCounted /\ GuestsAcquire)
<1>1. Init => GuestsCounted /\ GuestsAcquire
  BY PoolAssumption DEF Init, GuestsCounted, GuestsFollow, RefsCover,
     GuestsAcquire, Keeping, Holding
<1>2. TypeOK /\ IInv /\ GuestsCounted /\ GuestsAcquire /\ [Next]_vars
      => (GuestsCounted /\ GuestsAcquire)'
  BY GuestsStep, AcquireStep
<1> QED BY <1>1, <1>2, Invariance, PTL DEF Spec

\* Host.Close of one guest never tears the Host down under another: only an
\* invalidation does.
THEOREM GuestsKeepTheirHost == Spec => []GuestKeepsHost
<1>1. TypeOK /\ IInv /\ GuestsCounted => GuestKeepsHost
  <2> SUFFICES ASSUME TypeOK, IInv, GuestsCounted, NEW p \in Guests,
                      pc[p] \in Holding, Closing(tgt[p])
               PROVE  stale[tgt[p]]
    BY DEF GuestKeepsHost
  <2>1. tgt[p] \in Hosts BY DEF IInv, Serves, TargetsExist, Holding, Aimed
  <2>2. tgt[p] # pooled
    BY <2>1, PoolAssumption DEF IInv, Serves, StagesFit, Closing
  <2> QED BY <2>2 DEF GuestsCounted, GuestsFollow, Keeping
<1> QED BY <1>1, Invariance, GuestsInvariance, PTL

-----------------------------------------------------------------------------
(* Refinement of HostGenerations                                          *)

\* A step that touches neither a teardown nor the retiring slot is invisible
\* in the generations.
LEMMA StutterStep ==
  ASSUME stage' = stage, retiring' = retiring
  PROVE  UNCHANGED Generations!vars
BY DEF Generations!vars, AbsGen, AbsMode, AbsPast, Occupant, Occupied

\* A teardown step that leaves the same Hosts occupied is invisible.
LEMMA MoveStep ==
  ASSUME OneHost, retiring' = retiring,
         \A g \in Hosts : /\ Occupied(g)' <=> Occupied(g)
                          /\ stage'[g] = "gone" <=> stage[g] = "gone"
  PROVE  UNCHANGED Generations!vars
<1>1. AbsPast' = AbsPast
  BY DEF AbsPast
<1>2. CASE \A g \in Hosts : ~Occupied(g)
  BY <1>1, <1>2 DEF Generations!vars, AbsGen, AbsMode, Occupant
<1>3. CASE \E g \in Hosts : Occupied(g)
  <2>1. PICK g \in Hosts : Occupied(g)
    BY <1>3
  <2>2. AbsGen = g /\ AbsGen' = g
    BY <2>1 DEF AbsGen, Occupant, OneHost
  <2>3. AbsMode' = AbsMode
    BY <2>1 DEF AbsMode, Occupant
  <2> QED BY <1>1, <2>2, <2>3 DEF Generations!vars
<1> QED BY <1>2, <1>3

\* The pooled Host moving to the retiring slot (hostIdle, Invalidate, the last
\* release) is the Retire of the generations.
LEMMA RetireStep ==
  ASSUME TypeOK, IInv, NEW h \in Hosts, pooled = h, retiring = NoHost,
         stage' = stage, retiring' = h
  PROVE  Generations!Next
<1>1. Occupied(h)
  BY PoolAssumption DEF IInv, Serves, StagesFit, Occupied
<1>2. AbsMode = "serving" /\ AbsMode' = "retiring"
  BY <1>1, PoolAssumption DEF AbsMode, Occupant, Occupied
<1>3. AbsGen' = AbsGen /\ AbsPast' = AbsPast
  BY DEF AbsGen, AbsPast, Occupant, Occupied
<1> QED BY <1>2, <1>3 DEF Generations!Next, Generations!Retire

\* The pool implements the generations of a workspace: its Hosts serve one
\* after the other, and each ends before the next one starts.
THEOREM Refinement == Spec => ImplementsGenerations
<1>1. Init => Generations!Init
  BY DEF Init, Generations!Init, AbsGen, AbsMode, AbsPast, Occupant, Occupied
<1>2. /\ TypeOK /\ IInv /\ OneHost /\ OneHost' /\ [Next]_vars
      => [Generations!Next]_Generations!vars
  <2> SUFFICES ASSUME TypeOK, IInv, OneHost, OneHost', [Next]_vars
               PROVE  Generations!Next \/ UNCHANGED Generations!vars
    OBVIOUS
  <2> USE DEF IInv
  <2>1. ASSUME NEW p \in Procs, CallTurn(p) PROVE Generations!Next \/ UNCHANGED Generations!vars
    BY <2>1, StutterStep DEF CallTurn, Go, poolVars, hostVars, runVars
  <2>2. ASSUME NEW p \in Procs, CallRebuild(p) PROVE Generations!Next \/ UNCHANGED Generations!vars
    BY <2>2, StutterStep DEF CallRebuild, Go, poolVars, hostVars, runVars
  <2>3. ASSUME NEW p \in Procs, GiveUp(p) PROVE Generations!Next \/ UNCHANGED Generations!vars
    BY <2>3, StutterStep DEF GiveUp, poolVars, hostVars, runVars, procVars
  <2>4. ASSUME NEW p \in Procs, EnsureCurrent(p) PROVE Generations!Next \/ UNCHANGED Generations!vars
    BY <2>4, StutterStep DEF EnsureCurrent, Current, Go, Aim, poolVars, hostVars, runVars
  <2>5. ASSUME NEW p \in Procs, EnsurePeek(p) PROVE Generations!Next \/ UNCHANGED Generations!vars
    BY <2>5, StutterStep DEF EnsurePeek, Go, poolVars, hostVars, runVars, procVars
  <2>6. ASSUME NEW p \in Procs, AcquirePooled(p) PROVE Generations!Next \/ UNCHANGED Generations!vars
    BY <2>6, StutterStep DEF AcquirePooled, Go, Aim, hostVars, runVars
  <2>7. ASSUME NEW p \in Procs, AcquireRetiring(p) PROVE Generations!Next \/ UNCHANGED Generations!vars
    BY <2>7, StutterStep DEF AcquireRetiring, Go, Aim, poolVars, hostVars, runVars
  <2>8. ASSUME NEW p \in Procs, AcquireLead(p) PROVE Generations!Next \/ UNCHANGED Generations!vars
    BY <2>8, StutterStep DEF AcquireLead, Go, Aim, hostVars, runVars
  <2>9. ASSUME NEW p \in Procs, AcquireFollow(p) PROVE Generations!Next \/ UNCHANGED Generations!vars
    BY <2>9, StutterStep DEF AcquireFollow, Go, Aim, poolVars, hostVars, runVars
  <2>10. ASSUME NEW p \in Procs, WaitClosedLook(p) PROVE Generations!Next \/ UNCHANGED Generations!vars
    BY <2>10, StutterStep DEF WaitClosedLook, Go, poolVars, hostVars, runVars, procVars
  <2>11. ASSUME NEW p \in Procs, WaitClosedDone(p) PROVE Generations!Next \/ UNCHANGED Generations!vars
    BY <2>11, StutterStep DEF WaitClosedDone, Go, poolVars, hostVars, runVars, procVars
  <2>12. ASSUME NEW p \in Procs, NEW h \in Hosts, BuildHost(p, h) PROVE Generations!Next \/ UNCHANGED Generations!vars
    <3>1. /\ pc[p] = "load" /\ stage[h] = "absent" /\ retiring' = retiring
          /\ stage' = [stage EXCEPT ![h] = "up"]
      BY <2>12 DEF BuildHost, Go, poolVars
    <3>2. retiring = NoHost /\ pooled = NoHost /\ \A q \in Procs : pc[q] # "install"
      BY <3>1 DEF Serves, BuildsAlone, OneLeader, Building
    <3>3. \A g \in Hosts : ~Occupied(g)
      BY <3>2, PoolAssumption DEF Serves, Tracked
    <3>4. \A g \in Hosts : Occupied(g)' <=> g = h
      BY <3>1, <3>3 DEF Occupied, TypeOK
    <3>5. AbsGen = NoHost /\ AbsMode = "none" /\ h \notin AbsPast
      BY <3>1, <3>3 DEF AbsGen, AbsMode, AbsPast, Occupant
    <3>6. AbsGen' = h /\ AbsMode' = "serving"
      BY <3>1, <3>2, <3>4 DEF AbsGen, AbsMode, Occupant
    <3>7. AbsPast' = AbsPast
      BY <3>1 DEF AbsPast, TypeOK
    <3> QED BY <3>5, <3>6, <3>7 DEF Generations!Next, Generations!Start
  <2>13. ASSUME NEW p \in Procs, BuildFails(p) PROVE Generations!Next \/ UNCHANGED Generations!vars
    BY <2>13, StutterStep DEF BuildFails, Go, poolVars, hostVars, runVars, procVars
  <2>14. ASSUME NEW p \in Procs, Install(p) PROVE Generations!Next \/ UNCHANGED Generations!vars
    BY <2>14, StutterStep DEF Install, Go, hostVars, runVars, procVars
  <2>15. ASSUME NEW p \in Procs, Publish(p) PROVE Generations!Next \/ UNCHANGED Generations!vars
    BY <2>15, StutterStep DEF Publish, Refused, hostVars, runVars, procVars
  <2>16. ASSUME NEW p \in Procs, Configure(p) PROVE Generations!Next \/ UNCHANGED Generations!vars
    BY <2>16, StutterStep DEF Configure, Served, Go, hostVars, runVars, procVars
  <2>17. ASSUME NEW p \in Procs, Wire(p) PROVE Generations!Next \/ UNCHANGED Generations!vars
    BY <2>17, StutterStep DEF Wire, Served, Go, poolVars, runVars, procVars
  <2>18. ASSUME NEW p \in Turners, StartCheck(p) PROVE Generations!Next \/ UNCHANGED Generations!vars
    BY <2>18, StutterStep DEF StartCheck, Retry, Fail, Go, poolVars, hostVars, runVars
  <2>19. ASSUME NEW p \in Turners, StartTurn(p) PROVE Generations!Next \/ UNCHANGED Generations!vars
    BY <2>19, StutterStep DEF StartTurn, Go, poolVars, hostVars, runVars, procVars
  <2>20. ASSUME NEW p \in Turners, StartFails(p) PROVE Generations!Next \/ UNCHANGED Generations!vars
    BY <2>20, StutterStep DEF StartFails, Retry, Fail, Go, poolVars, hostVars, runVars
  <2>21. ASSUME NEW p \in Turners, Register(p) PROVE Generations!Next \/ UNCHANGED Generations!vars
    BY <2>21, StutterStep DEF Register, Go, poolVars, hostVars, procVars
  <2>22. ASSUME NEW p \in Turners, TurnEnds(p) PROVE Generations!Next \/ UNCHANGED Generations!vars
    BY <2>22, StutterStep DEF TurnEnds, Go, poolVars, hostVars, runVars, procVars
  <2>23. ASSUME NEW p \in Turners, Settle(p) PROVE Generations!Next \/ UNCHANGED Generations!vars
    BY <2>23, StutterStep DEF Settle, Go, poolVars, hostVars, procVars
  <2>24. ASSUME NEW p \in Turners, DropRun(p) PROVE Generations!Next \/ UNCHANGED Generations!vars
    BY <2>24, StutterStep DEF DropRun, Go, poolVars, hostVars, procVars
  <2>25. ASSUME NEW p \in Turners, HostIdle(p) PROVE Generations!Next \/ UNCHANGED Generations!vars
    <3>1. CASE retiring' = retiring
      BY <2>25, <3>1, StutterStep DEF HostIdle, TrackRetiring, Go, hostVars, runVars, procVars
    <3>2. CASE retiring' # retiring
      <4>1. /\ tgt[p] \in Hosts /\ pooled = tgt[p] /\ retiring = NoHost /\ stage' = stage
            /\ retiring' = tgt[p]
        BY <2>25, <3>2, PoolAssumption DEF HostIdle, TrackRetiring, Go, hostVars, runVars, procVars, Serves, TargetsExist, Aimed, PoolExclusive, TypeOK
      <4> QED BY <4>1, RetireStep
    <3> QED BY <3>1, <3>2
  <2>26. ASSUME NEW p \in Turners, Post(p) PROVE Generations!Next \/ UNCHANGED Generations!vars
    BY <2>26, StutterStep DEF Post, Go, poolVars, hostVars, runVars, procVars
  <2>27. ASSUME NEW p \in Turners, AwaitClose(p) PROVE Generations!Next \/ UNCHANGED Generations!vars
    BY <2>27, StutterStep DEF AwaitClose, Go, poolVars, hostVars, runVars, procVars
  <2>28. ASSUME NEW p \in Turners, Release(p) PROVE Generations!Next \/ UNCHANGED Generations!vars
    <3>1. CASE retiring' = retiring
      BY <2>28, <3>1, StutterStep DEF Release, Go, hostVars, runVars, procVars
    <3>2. CASE retiring' # retiring
      <4>1. /\ tgt[p] \in Hosts /\ pooled = tgt[p] /\ retiring = NoHost /\ stage' = stage
            /\ retiring' = tgt[p]
        BY <2>28, <3>2, PoolAssumption DEF Release, Go, hostVars, runVars, procVars, Serves, TargetsExist, Aimed, PoolExclusive, TypeOK
      <4> QED BY <4>1, RetireStep
    <3> QED BY <3>1, <3>2
  <2>29. ASSUME NEW p \in Procs \ {Watcher}, CloseRetired(p) PROVE Generations!Next \/ UNCHANGED Generations!vars
    <3>1. tgt[p] \in Hosts /\ stage[tgt[p]] # "absent"
      BY <2>29 DEF CloseRetired, BeginClose, Serves, TargetsExist, Aimed
    <3>2. /\ retiring' = retiring
          /\ \/ stage' = stage
             \/ stage[tgt[p]] = "up" /\ stage' = [stage EXCEPT ![tgt[p]] = "draining"]
      BY <2>29, <3>1 DEF CloseRetired, BeginClose, Closing, poolVars
    <3> QED BY <3>1, <3>2, MoveStep DEF Occupied, TypeOK
  <2>30. ASSUME NEW p \in Procs \ {Watcher}, CloseReleased(p) PROVE Generations!Next \/ UNCHANGED Generations!vars
    <3>1. tgt[p] \in Hosts /\ stage[tgt[p]] # "absent"
      BY <2>30 DEF CloseReleased, BeginClose, Serves, TargetsExist, Aimed
    <3>2. /\ retiring' = retiring
          /\ \/ stage' = stage
             \/ stage[tgt[p]] = "up" /\ stage' = [stage EXCEPT ![tgt[p]] = "draining"]
      BY <2>30, <3>1 DEF CloseReleased, BeginClose, Closing, poolVars
    <3> QED BY <3>1, <3>2, MoveStep DEF Occupied, TypeOK
  <2>31. ASSUME NEW p \in Procs \ {Watcher}, RetiredShut(p) PROVE Generations!Next \/ UNCHANGED Generations!vars
    BY <2>31, StutterStep DEF RetiredShut, Shut, AfterShut, Go, poolVars, hostVars, runVars, procVars
  <2>32. ASSUME NEW p \in Procs \ {Watcher}, ReleasedShut(p) PROVE Generations!Next \/ UNCHANGED Generations!vars
    BY <2>32, StutterStep DEF ReleasedShut, Shut, Go, poolVars, hostVars, runVars, procVars
  <2>33. ASSUME NEW p \in Reloaders, Invalidate(p) PROVE Generations!Next \/ UNCHANGED Generations!vars
    <3>1. CASE retiring' = retiring
      BY <2>33, <3>1, StutterStep DEF Invalidate, TrackRetiring, Go, Aim, runVars
    <3>2. CASE retiring' # retiring
      <4>1. /\ pooled \in Hosts /\ pooled = pooled /\ retiring = NoHost /\ stage' = stage
            /\ retiring' = pooled
        BY <2>33, <3>2, PoolAssumption DEF Invalidate, TrackRetiring, Go, Aim, runVars, Serves, TargetsExist, Aimed, PoolExclusive, TypeOK
      <4> QED BY <4>1, RetireStep
    <3> QED BY <3>1, <3>2
  <2>34. ASSUME NEW p \in Reloaders, CheckStale(p) PROVE Generations!Next \/ UNCHANGED Generations!vars
    BY <2>34, StutterStep DEF CheckStale, Go, poolVars, hostVars, runVars, procVars
  <2>35. ASSUME NEW p \in Reloaders, Schedule(p) PROVE Generations!Next \/ UNCHANGED Generations!vars
    BY <2>35, StutterStep DEF Schedule, Go, poolVars, hostVars, runVars, procVars
  <2>36. ASSUME Watch PROVE Generations!Next \/ UNCHANGED Generations!vars
    BY <2>36, StutterStep DEF Watch, Current, Go, Aim, poolVars, hostVars, runVars
  <2>37. ASSUME WatchState PROVE Generations!Next \/ UNCHANGED Generations!vars
    BY <2>37, StutterStep DEF WatchState, Go, poolVars, hostVars, runVars, procVars
  <2>38. ASSUME WatchLook PROVE Generations!Next \/ UNCHANGED Generations!vars
    BY <2>38, StutterStep DEF WatchLook, Go, poolVars, hostVars, runVars, procVars
  <2>39. ASSUME WatchDone PROVE Generations!Next \/ UNCHANGED Generations!vars
    BY <2>39, StutterStep DEF WatchDone, Go, poolVars, hostVars, runVars, procVars
  <2>40. ASSUME Wanted PROVE Generations!Next \/ UNCHANGED Generations!vars
    BY <2>40, StutterStep DEF Wanted, Go, poolVars, hostVars, runVars, procVars
  <2>41. ASSUME Disarm PROVE Generations!Next \/ UNCHANGED Generations!vars
    BY <2>41, StutterStep DEF Disarm, Go, poolVars, hostVars, runVars, procVars
  <2>42. ASSUME NEW h \in Hosts, DrainEnds(h) PROVE Generations!Next \/ UNCHANGED Generations!vars
    BY <2>42, MoveStep DEF DrainEnds, Advance, runVars, procVars, Occupied, TypeOK
  <2>43. ASSUME NEW h \in Hosts, SetClosed(h) PROVE Generations!Next \/ UNCHANGED Generations!vars
    BY <2>43, MoveStep DEF SetClosed, Advance, runVars, procVars, Occupied, TypeOK
  <2>44. ASSUME NEW h \in Hosts, CloseRuntime(h) PROVE Generations!Next \/ UNCHANGED Generations!vars
    BY <2>44, MoveStep DEF CloseRuntime, Advance, runVars, procVars, Occupied, TypeOK
  <2>45. ASSUME NEW h \in Hosts, ReleaseStore(h) PROVE Generations!Next \/ UNCHANGED Generations!vars
    BY <2>45, MoveStep DEF ReleaseStore, Advance, runVars, procVars, Occupied, TypeOK
  <2>46. ASSUME NEW h \in Hosts, SignalDone(h) PROVE Generations!Next \/ UNCHANGED Generations!vars
    BY <2>46, MoveStep DEF SignalDone, Advance, runVars, procVars, Occupied, TypeOK
  <2>47. ASSUME NEW h \in Hosts, HostClosed(h) PROVE Generations!Next \/ UNCHANGED Generations!vars
    <3>1. /\ stage[h] = "signalled" /\ stage' = [stage EXCEPT ![h] = "gone"]
          /\ retiring' = IF retiring = h THEN NoHost ELSE retiring
      BY <2>47 DEF HostClosed, Advance
    <3>2. retiring = h /\ Occupied(h)
      BY <3>1, PoolAssumption DEF Serves, Tracked, StagesFit, FreshIsPrivate, Occupied
    <3>3. \A g \in Hosts : Occupied(g) <=> g = h
      BY <3>2 DEF OneHost
    <3>4. \A g \in Hosts : ~Occupied(g)'
      BY <3>1, <3>3 DEF Occupied, TypeOK
    <3>5. AbsGen = h /\ AbsMode = "retiring"
      BY <3>2, <3>3, PoolAssumption DEF AbsGen, AbsMode, Occupant
    <3>6. AbsGen' = NoHost /\ AbsMode' = "none"
      BY <3>4 DEF AbsGen, AbsMode, Occupant
    <3>7. AbsPast' = AbsPast \cup {h}
      BY <3>1 DEF AbsPast, TypeOK
    <3> QED BY <3>5, <3>6, <3>7 DEF Generations!Next, Generations!End
  <2>48. ASSUME NEW p \in Turners, NEW h \in Hosts, TitleEnds(p, h) PROVE Generations!Next \/ UNCHANGED Generations!vars
    BY <2>48, StutterStep DEF TitleEnds, poolVars, hostVars, procVars
  <2>49. CASE UNCHANGED vars
    BY <2>49, StutterStep DEF vars, poolVars, hostVars, runVars, procVars
  <2> QED
    BY <2>1, <2>2, <2>3, <2>4, <2>5, <2>6, <2>7, <2>8, <2>9, <2>10, <2>11, <2>12, <2>13, <2>14, <2>15, <2>16, <2>17, <2>18, <2>19, <2>20, <2>21, <2>22, <2>23, <2>24, <2>25, <2>26, <2>27, <2>28, <2>29, <2>30, <2>31, <2>32, <2>33, <2>34, <2>35, <2>36, <2>37, <2>38, <2>39, <2>40, <2>41, <2>42, <2>43, <2>44, <2>45, <2>46, <2>47, <2>48, <2>49
    DEF Next, ThreadStep, ProcStep, TurnStep, ShutStep, ReloadStep, WatchStep, HostStep
<1>3. Spec => [](TypeOK /\ IInv /\ OneHost)
  BY Invariance, OneHostOf, PTL
<1> QED BY <1>1, <1>2, <1>3, PTL DEF Spec, ImplementsGenerations, Generations!Spec
=============================================================================
