------------------------ MODULE SessionStoresProofs ------------------------
(***************************************************************************)
(* For every number of roots, handles and callers: a root has one open     *)
(* handle, a reference keeps it open, and a recorded backfill is complete  *)
(* (SessionStores). And for every number of writers of its rows: what the  *)
(* rows of a conversation say of its turns, its total and its deletion     *)
(* (SessionArchive).                                                       *)
(***************************************************************************)
EXTENDS Sequences, SessionStores, FiniteSetTheorems, SequenceTheorems,
        TLAPS

CONSTANTS Main, Archivers, RunOf, Adders, Forkers, Importers, NoOne, MaxDeletes,
          MaxCrashes

VARIABLES
  rows, ready, retired, turns, count, usage, todo, into, outcome, got, on, mu,
  importMu, deletes, crashes

V == INSTANCE SessionArchive

UsingOn(r) == {u \in Openers : pc[u] = "using" /\ want[u] = r}

\* The reference count of a root is the number of openers that use it.
Counted == \A r \in Roots : refs[r] = Cardinality(UsingOn(r))

\* An opener that uses a root holds the pooled handle, and the pooled handle
\* of a root is open on that root.
UsesPooled ==
    \A u \in Openers :
        pc[u] = "using" => held[u] \in Handles /\ pool[want[u]] = held[u]
PooledIsOpen ==
    \A r \in Roots : pool[r] # NoHandle => live[pool[r]] /\ root[pool[r]] = r

\* One opener at a time is past the lock; the root it opens is not pooled, and
\* the handle it opened is open and its own.
Locked == {"recheck", "opening", "migrate", "install"}
OpensLocked == \A u \in Openers : pc[u] \in Locked => openMu = u
OpensUnpooled ==
    \A u \in Openers :
        pc[u] \in {"opening", "migrate", "install"} => pool[want[u]] = NoHandle
OpensOwn ==
    \A u \in Openers :
        /\ pc[u] \in {"migrate", "install"} =>
              held[u] \in Handles /\ live[held[u]] /\ root[held[u]] = want[u]
        /\ pc[u] \in {"idle", "lock", "recheck", "opening"} => held[u] = NoHandle

\* An open handle is pooled, or in the hands of the opener that opened it.
OpenIsKnown ==
    \A h \in Handles :
        live[h] => \/ pool[root[h]] = h
                   \/ \E u \in Openers :
                         pc[u] \in {"migrate", "install"} /\ held[u] = h

Inv == /\ TypeOK /\ Counted /\ UsesPooled /\ PooledIsOpen
       /\ OpensLocked /\ OpensUnpooled /\ OpensOwn /\ OpenIsKnown

-----------------------------------------------------------------------------
\* Who uses a root is a finite set, so its size is a natural number.
LEMMA UsingFinite ==
    ASSUME NEW r
    PROVE  IsFiniteSet(UsingOn(r)) /\ Cardinality(UsingOn(r)) \in Nat
<1>1. UsingOn(r) \subseteq Openers BY DEF UsingOn
<1>. QED BY <1>1, FS_Subset, FS_CardinalityType, StoresAssumption

\* The count follows when one opener starts to use a root ...
LEMMA CountUp ==
    ASSUME Inv, NEW u \in Openers, pc[u] # "using", pc' = [pc EXCEPT ![u] = "using"],
           NEW r \in Roots, want' = [want EXCEPT ![u] = r],
           refs' = [refs EXCEPT ![r] = @ + 1]
    PROVE  Counted'
<1>. SUFFICES ASSUME NEW s \in Roots PROVE refs'[s] = Cardinality(UsingOn(s)')
  BY DEF Counted
<1>. USE DEF Inv, TypeOK
<1>1. CASE s = r
  <2>1. UsingOn(s)' = UsingOn(s) \cup {u} /\ u \notin UsingOn(s)
    BY <1>1 DEF UsingOn, Holders
  <2>2. Cardinality(UsingOn(s)') = Cardinality(UsingOn(s)) + 1
    BY ZenonT(60), <2>1, UsingFinite, FS_AddElement
  <2>. QED BY <1>1, <2>2 DEF Counted
<1>2. CASE s # r
  <2>1. UsingOn(s)' = UsingOn(s) BY <1>2 DEF UsingOn, Holders
  <2>. QED BY <1>2, <2>1 DEF Counted
<1>. QED BY <1>1, <1>2

\* ... and when one stops; the opener that takes the last reference was the
\* only one.
LEMMA CountDown ==
    ASSUME Inv, NEW u \in Openers, pc[u] = "using", pc' = [pc EXCEPT ![u] = "idle"],
           want' = want, refs' = [refs EXCEPT ![want[u]] = @ - 1]
    PROVE  /\ Counted'
           /\ refs[want[u]] \in Nat \ {0}
           /\ refs[want[u]] = 1 => UsingOn(want[u]) = {u}
<1>. USE DEF Inv, TypeOK
<1>1. \A s : UsingOn(s)' = IF s = want[u] THEN UsingOn(s) \ {u} ELSE UsingOn(s)
  BY DEF UsingOn, Holders
<1>2. u \in UsingOn(want[u]) /\ want[u] \in Roots BY DEF UsingOn, Holders
<1>3. Cardinality(UsingOn(want[u]) \ {u}) = Cardinality(UsingOn(want[u])) - 1
  <2>1. ASSUME NEW S, IsFiniteSet(S), u \in S
        PROVE  Cardinality(S \ {u}) = Cardinality(S) - 1
    BY <2>1, FS_RemoveElement
  <2>2. IsFiniteSet(UsingOn(want[u])) BY UsingFinite
  <2>. QED BY <1>2, <2>1, <2>2
<1>4. IsFiniteSet(UsingOn(want[u]) \ {u})
  BY UsingFinite, FS_RemoveElement
<1>5. refs[want[u]] = Cardinality(UsingOn(want[u])) BY <1>2 DEF Counted
<1>6. Cardinality(UsingOn(want[u]) \ {u}) \in Nat BY <1>4, FS_CardinalityType
<1>7. refs[want[u]] \in Nat \ {0} BY <1>2, <1>3, <1>5, <1>6
<1>8. ASSUME refs[want[u]] = 1 PROVE UsingOn(want[u]) = {u}
  <2>1. Cardinality(UsingOn(want[u]) \ {u}) = 0 BY <1>3, <1>5, <1>8
  <2>2. UsingOn(want[u]) \ {u} = {} BY <1>4, <2>1, FS_EmptySet
  <2>. QED BY <1>2, <2>2
<1>9. Counted'
  <2>. SUFFICES ASSUME NEW s \in Roots PROVE refs'[s] = Cardinality(UsingOn(s)')
    BY DEF Counted
  <2>1. CASE s = want[u] BY <1>1, <1>3, <1>5, <2>1
  <2>2. CASE s # want[u] BY <1>1, <2>2 DEF Counted
  <2>. QED BY <2>1, <2>2
<1>. QED BY <1>7, <1>8, <1>9

\* The count does not move while the openers that use each root do not.
LEMMA CountKept ==
    ASSUME Counted, refs' = refs, \A r \in Roots : UsingOn(r)' = UsingOn(r)
    PROVE  Counted'
BY DEF Counted

-----------------------------------------------------------------------------
\* A call that finds the store pooled shares it.
LEMMA HitKeeps ==
    ASSUME Inv, NEW u \in Openers, NEW r \in Roots, Hit(u, r) PROVE Inv'
<1>. USE DEF Inv
<1>0. u \in Holders /\ pool[r] \in Handles /\ refs[r] + 1 \in Nat
  BY DEF TypeOK, Holders, Hit, Share
<1>1. TypeOK'
  BY <1>0 DEF TypeOK, Hit, Share, Go, diskVars, walkVars, Labels
<1>2. Counted' BY CountUp DEF Hit, Share, Go
<1>. QED
  BY <1>1, <1>2, StoresAssumption
  DEF TypeOK, Hit, Share, Go, UsesPooled, PooledIsOpen, OpensLocked, Locked,
      OpensUnpooled, OpensOwn, OpenIsKnown, Holders

\* acquireStore that finds no store only queues for openMu.
LEMMA MissKeeps ==
    ASSUME Inv, NEW u \in Openers, NEW r \in Roots, Miss(u, r) PROVE Inv'
<1>. USE DEF Inv
<1>1. TypeOK' BY DEF TypeOK, Miss, Go, poolVars, diskVars, walkVars, Labels
<1>2. Counted'
  <2>1. \A s \in Roots : UsingOn(s)' = UsingOn(s)
    BY DEF UsingOn, Miss, Go, TypeOK, Holders
  <2>. QED BY <2>1, CountKept DEF Miss, poolVars
<1>. QED
  BY <1>1, <1>2
  DEF TypeOK, Miss, Go, UsesPooled, PooledIsOpen, OpensLocked, Locked,
      OpensUnpooled, OpensOwn, OpenIsKnown, Holders, poolVars

\* openMu has one holder.
LEMMA LockKeeps ==
    ASSUME Inv, NEW u \in Openers, LockOpen(u) PROVE Inv'
<1>. USE DEF Inv
<1>1. TypeOK' BY DEF TypeOK, LockOpen, Go, diskVars, walkVars, Labels, Holders
<1>2. Counted'
  <2>1. \A s \in Roots : UsingOn(s)' = UsingOn(s)
    BY DEF UsingOn, LockOpen, Go, TypeOK, Holders
  <2>. QED BY <2>1, CountKept DEF LockOpen
<1>. QED
  BY <1>1, <1>2, StoresAssumption
  DEF TypeOK, LockOpen, Go, UsesPooled, PooledIsOpen, OpensLocked, Locked,
      OpensUnpooled, OpensOwn, OpenIsKnown, Holders

\* The second look, under openMu, shares the store that came meanwhile ...
LEMMA RecheckShares ==
    ASSUME Inv, NEW u \in Openers, Recheck(u), Go(u, "recheck", "using"),
           Share(u, want[u]), openMu' = NoUser, pool' = pool
    PROVE  Inv'
<1>. USE DEF Inv
<1>0. /\ u \in Holders /\ want[u] \in Roots /\ refs[want[u]] + 1 \in Nat
      /\ pool[want[u]] \in Handles
  BY DEF TypeOK, Holders, Share
<1>1. TypeOK'
  BY <1>0 DEF TypeOK, Recheck, Share, Go, diskVars, walkVars, Labels
<1>2. Counted'
  <2>1. want' = [want EXCEPT ![u] = want[u]] BY DEF Recheck, TypeOK
  <2>. QED BY <1>0, <2>1, CountUp DEF Share, Go
<1>3. \A v \in Openers : v # u => pc[v] \notin Locked
  BY <1>0 DEF Go, OpensLocked, Locked
<1>4. UsesPooled' /\ PooledIsOpen'
  BY <1>0 DEF Recheck, Share, Go, UsesPooled, PooledIsOpen, TypeOK, Holders
<1>5. OpensLocked' /\ OpensUnpooled' /\ OpensOwn'
  BY <1>0, <1>3 DEF Recheck, Share, Go, OpensLocked, OpensUnpooled, OpensOwn,
                    Locked, TypeOK, Holders
<1>6. OpenIsKnown'
  BY <1>0 DEF Recheck, Share, Go, OpenIsKnown, TypeOK, Holders
<1>. QED BY <1>1, <1>2, <1>4, <1>5, <1>6

\* ... or goes on to open it.
LEMMA RecheckOpens ==
    ASSUME Inv, NEW u \in Openers, Recheck(u), Go(u, "recheck", "opening"),
           pool[want[u]] = NoHandle, UNCHANGED <<pool, refs, openMu, held>>
    PROVE  Inv'
<1>. USE DEF Inv
<1>0. u \in Holders /\ want[u] \in Roots BY DEF TypeOK, Holders
<1>1. TypeOK' BY <1>0 DEF TypeOK, Recheck, Go, diskVars, walkVars, Labels
<1>2. Counted'
  <2>1. \A s \in Roots : UsingOn(s)' = UsingOn(s)
    BY <1>0 DEF UsingOn, Recheck, Go, TypeOK, Holders
  <2>. QED BY <2>1, CountKept
<1>. QED
  BY <1>0, <1>1, <1>2
  DEF TypeOK, Recheck, Go, UsesPooled, PooledIsOpen, OpensLocked, Locked,
      OpensUnpooled, OpensOwn, OpenIsKnown, Holders

\* The second look under openMu: share the store, or go on to open it.
LEMMA RecheckKeeps ==
    ASSUME Inv, NEW u \in Openers, Recheck(u) PROVE Inv'
BY RecheckShares, RecheckOpens DEF Recheck, poolVars

\* sessions.New opens a handle that nobody held.
LEMMA OpenDBKeeps ==
    ASSUME Inv, NEW u \in Openers, NEW h \in Handles, OpenDB(u, h) PROVE Inv'
<1>. USE DEF Inv
<1>0. u \in Holders /\ want[u] \in Roots BY DEF TypeOK, Holders
<1>1. TypeOK'
  BY <1>0 DEF TypeOK, OpenDB, Go, poolVars, diskVars, walkVars, Labels
<1>2. Counted'
  <2>1. \A s \in Roots : UsingOn(s)' = UsingOn(s)
    BY DEF UsingOn, OpenDB, Go, TypeOK, Holders
  <2>. QED BY <2>1, CountKept DEF OpenDB, poolVars
<1>3. ~live[h] /\ \A r \in Roots : pool[r] # h
  BY StoresAssumption DEF OpenDB, Forgotten, PooledIsOpen
<1>. QED
  BY <1>0, <1>1, <1>2, <1>3, StoresAssumption
  DEF TypeOK, OpenDB, Go, UsesPooled, PooledIsOpen, OpensLocked, Locked,
      OpensUnpooled, OpensOwn, OpenIsKnown, Holders, poolVars

\* Migrating changes neither the pool nor its users.
LEMMA MigrateKeeps ==
    ASSUME Inv, NEW u \in Openers, Migrate(u) PROVE Inv'
<1>. USE DEF Inv
<1>1. TypeOK' BY DEF TypeOK, Migrate, Go, poolVars, diskVars, walkVars, Labels
<1>2. Counted'
  <2>1. \A s \in Roots : UsingOn(s)' = UsingOn(s)
    BY DEF UsingOn, Migrate, Go, TypeOK, Holders
  <2>. QED BY <2>1, CountKept DEF Migrate, poolVars
<1>. QED
  BY <1>1, <1>2
  DEF TypeOK, Migrate, Go, UsesPooled, PooledIsOpen, OpensLocked, Locked,
      OpensUnpooled, OpensOwn, OpenIsKnown, Holders, poolVars

\* The handle a failed open closes is in nobody else's hands.
LEMMA OpenFailsKeeps ==
    ASSUME Inv, NEW u \in Openers, OpenFails(u) PROVE Inv'
<1>. USE DEF Inv
<1>0. u \in Holders /\ want[u] \in Roots BY DEF TypeOK, Holders
<1>1. TypeOK'
  BY <1>0 DEF TypeOK, OpenFails, Go, diskVars, walkVars, Labels
<1>2. Counted'
  <2>1. \A s \in Roots : UsingOn(s)' = UsingOn(s)
    BY DEF UsingOn, OpenFails, Go, TypeOK, Holders
  <2>. QED BY <2>1, CountKept DEF OpenFails
<1>3. \A r \in Roots : held[u] # NoHandle => pool[r] # held[u]
  BY <1>0, StoresAssumption
  DEF OpenFails, Go, OpensOwn, OpensUnpooled, PooledIsOpen
<1>4. \A v \in Openers : v # u => pc[v] \notin Locked
  BY <1>0 DEF OpenFails, Go, OpensLocked, Locked
<1>5. UsesPooled'
  BY <1>0 DEF OpenFails, Go, UsesPooled, TypeOK, Holders
<1>6. PooledIsOpen'
  BY <1>0, <1>3 DEF OpenFails, PooledIsOpen, TypeOK
<1>7. OpensLocked' /\ OpensUnpooled' /\ OpensOwn'
  BY <1>0, <1>4 DEF OpenFails, Go, OpensLocked, OpensUnpooled, OpensOwn, Locked,
                    TypeOK, Holders
<1>8. OpenIsKnown'
  <2>. SUFFICES ASSUME NEW h \in Handles, live'[h] PROVE pool'[root'[h]] = h
    BY DEF OpenIsKnown
  <2>1. live[h] /\ h # held[u] BY <1>0, StoresAssumption DEF OpenFails, TypeOK
  <2>. QED BY <1>4, <2>1 DEF OpenFails, OpenIsKnown, Locked
<1>. QED BY <1>1, <1>2, <1>5, <1>6, <1>7, <1>8

\* The duplicate branch is dead: an opener that installs finds its root empty.
LEMMA InstallKeeps ==
    ASSUME Inv, NEW u \in Openers, Install(u) PROVE Inv'
<1>. USE DEF Inv
<1>0. /\ u \in Holders /\ want[u] \in Roots /\ held[u] \in Handles
      /\ pool[want[u]] = NoHandle /\ live[held[u]] /\ root[held[u]] = want[u]
  BY DEF TypeOK, Holders, Install, Go, OpensUnpooled, OpensOwn
<1>1. /\ pool' = [pool EXCEPT ![want[u]] = held[u]]
      /\ refs' = [refs EXCEPT ![want[u]] = 1]
      /\ walk' = [walk EXCEPT ![held[u]] = "check"]
      /\ last' = [last EXCEPT ![held[u]] = 0] /\ UNCHANGED <<live, held>>
  BY <1>0 DEF Install
<1>2. UsingOn(want[u]) = {}
  BY <1>0, StoresAssumption DEF UsesPooled, UsingOn, TypeOK
<1>3. TypeOK'
  BY <1>0, <1>1 DEF TypeOK, Install, Go, diskVars, Labels, WalkStates
<1>4. Counted'
  <2>1. refs[want[u]] = 0 BY <1>0, <1>2, FS_EmptySet DEF Counted
  <2>2. refs' = [refs EXCEPT ![want[u]] = @ + 1] BY <1>0, <1>1, <2>1 DEF TypeOK
  <2>3. want' = [want EXCEPT ![u] = want[u]] BY DEF Install, TypeOK
  <2>. QED BY <1>0, <2>2, <2>3, CountUp DEF Install, Go
<1>5. \A v \in Openers : v # u => pc[v] \notin Locked
  BY <1>0 DEF Install, Go, OpensLocked, Locked
<1>6. UsesPooled'
  BY <1>0, <1>1, <1>2 DEF Install, Go, UsesPooled, UsingOn, TypeOK, Holders
<1>7. PooledIsOpen'
  BY <1>0, <1>1 DEF Install, PooledIsOpen, TypeOK
<1>8. OpensLocked' /\ OpensUnpooled' /\ OpensOwn'
  BY <1>0, <1>1, <1>5 DEF Install, Go, OpensLocked, OpensUnpooled, OpensOwn,
                          Locked, TypeOK, Holders
<1>9. OpenIsKnown'
  <2>. SUFFICES ASSUME NEW h \in Handles, live'[h] PROVE pool'[root'[h]] = h
    BY DEF OpenIsKnown
  <2>1. h = held[u] \/ pool[root[h]] = h
    BY <1>1, <1>5 DEF OpenIsKnown, Locked
  <2>2. root[h] \in Roots BY DEF TypeOK
  <2>3. CASE h = held[u]
    BY <1>0, <1>1, <2>3 DEF Install, TypeOK
  <2>4. CASE h # held[u] /\ pool[root[h]] = h
    BY <1>0, <1>1, <2>2, <2>4, StoresAssumption DEF Install, TypeOK
  <2>. QED BY <2>1, <2>3, <2>4
<1>. QED BY <1>3, <1>4, <1>6, <1>7, <1>8, <1>9

\* Only the last reference closes the handle.
LEMMA ReleaseKeeps ==
    ASSUME Inv, NEW u \in Openers, Release(u) PROVE Inv'
<1>. USE DEF Inv
<1>0. /\ u \in Holders /\ want[u] \in Roots /\ held[u] \in Handles
      /\ pool[want[u]] = held[u] /\ root[held[u]] = want[u]
  BY StoresAssumption DEF TypeOK, Holders, Release, Go, UsesPooled, PooledIsOpen
<1>1. /\ Counted' /\ refs[want[u]] \in Nat \ {0}
      /\ refs[want[u]] = 1 => UsingOn(want[u]) = {u}
  BY CountDown DEF Release, Go
<1>2. refs[want[u]] - 1 \in Nat BY <1>1
<1>3. TypeOK'
  <2>1. refs' \in [Roots -> Nat] BY <1>0, <1>2 DEF Release, TypeOK
  <2>2. pool' \in [Roots -> Handles \cup {NoHandle}] /\ live' \in [Handles -> BOOLEAN]
    BY <1>0 DEF Release, TypeOK
  <2>. QED BY <1>0, <2>1, <2>2 DEF TypeOK, Release, Go, diskVars, walkVars, Labels
<1>4. CASE refs[want[u]] = 1
  <2>1. /\ pool' = [pool EXCEPT ![want[u]] = NoHandle]
        /\ live' = [live EXCEPT ![held[u]] = FALSE]
    BY <1>4 DEF Release
  <2>2. \A v \in Openers : pc[v] = "using" /\ v # u => want[v] # want[u]
    BY <1>1, <1>4 DEF UsingOn
  <2>3. UsesPooled'
    BY <1>0, <2>1, <2>2 DEF Release, Go, UsesPooled, TypeOK, Holders
  <2>4. PooledIsOpen'
    BY <1>0, <2>1 DEF Release, PooledIsOpen, TypeOK
  <2>5. \A v \in Openers : pc[v] \in {"migrate", "install"} => held[v] # held[u]
    BY <1>0, StoresAssumption DEF OpensOwn, OpensUnpooled, TypeOK
  <2>6. OpensLocked' /\ OpensUnpooled' /\ OpensOwn'
    BY <1>0, <2>1, <2>5 DEF Release, Go, OpensLocked, OpensUnpooled, OpensOwn,
                            Locked, TypeOK, Holders
  <2>7. OpenIsKnown'
    <3>. SUFFICES ASSUME NEW h \in Handles, live'[h]
                  PROVE  \/ pool'[root'[h]] = h
                         \/ \E v \in Openers :
                               pc'[v] \in {"migrate", "install"} /\ held'[v] = h
      BY DEF OpenIsKnown
    <3>1. live[h] /\ h # held[u] /\ root[h] \in Roots BY <1>0, <2>1 DEF TypeOK
    <3>2. CASE pool[root[h]] = h
      BY <1>0, <2>1, <3>1, <3>2 DEF Release, TypeOK
    <3>3. ASSUME NEW v \in Openers, pc[v] \in {"migrate", "install"}, held[v] = h
          PROVE  pc'[v] \in {"migrate", "install"} /\ held'[v] = h
      BY <1>0, <3>3 DEF Release, Go, TypeOK, Holders
    <3>. QED BY <3>1, <3>2, <3>3 DEF OpenIsKnown
  <2>. QED BY <1>1, <1>3, <2>3, <2>4, <2>6, <2>7
<1>5. CASE refs[want[u]] # 1
  <2>1. UNCHANGED <<pool, live>> BY <1>5 DEF Release
  <2>. QED
    BY <1>0, <1>1, <1>3, <2>1
    DEF Release, Go, UsesPooled, PooledIsOpen, OpensLocked, OpensUnpooled,
        OpensOwn, OpenIsKnown, Locked, TypeOK, Holders
<1>. QED BY <1>4, <1>5

\* Borrowers own nothing.
LEMMA BorrowKeeps ==
    ASSUME Inv, NEW b \in Borrowers,
           Return(b) \/ \E u \in Openers : Borrow(b, u)
    PROVE  Inv'
<1>. USE DEF Inv
<1>0. b \in Holders /\ \A v \in Openers : v # b /\ v \in Holders
  BY StoresAssumption DEF Holders
<1>1. /\ \A v \in Openers : pc'[v] = pc[v] /\ held'[v] = held[v]
      /\ UNCHANGED <<pool, refs, openMu, live, root, diskVars, walkVars, want>>
      /\ pc' \in [Holders -> Labels] /\ held' \in [Holders -> Handles \cup {NoHandle}]
  <2>1. CASE Return(b)
    BY <1>0, <2>1 DEF Return, Go, TypeOK, Labels, poolVars
  <2>2. CASE \E u \in Openers : Borrow(b, u)
    BY <1>0, <2>2 DEF Borrow, Go, TypeOK, Labels, poolVars
  <2>. QED BY <2>1, <2>2
<1>2. TypeOK' BY <1>1 DEF TypeOK, diskVars, walkVars
<1>3. Counted'
  <2>1. \A r \in Roots : UsingOn(r)' = UsingOn(r) BY <1>1 DEF UsingOn
  <2>. QED BY <1>1, <2>1, CountKept
<1>. QED
  BY <1>1, <1>2, <1>3
  DEF UsesPooled, PooledIsOpen, OpensLocked, OpensUnpooled, OpensOwn, OpenIsKnown

\* A step that leaves the pool, the handles and the users alone only has to
\* keep the types.
PoolView == <<pool, refs, openMu, live, root, pc, want, held>>
LEMMA ViewKept ==
    ASSUME Inv, UNCHANGED PoolView, TypeOK' PROVE Inv'
<1>1. \A r \in Roots : UsingOn(r)' = UsingOn(r) BY DEF UsingOn, PoolView
<1>2. Counted' BY <1>1, CountKept DEF Inv, PoolView
<1>. QED
  BY <1>2
  DEF Inv, PoolView, UsesPooled, PooledIsOpen, OpensLocked, OpensUnpooled,
      OpensOwn, OpenIsKnown

\* Archiving and deleting conversations only change rows.
LEMMA WriteKeeps ==
    ASSUME Inv, NEW u \in Openers,
           ArchiveTurn(u) \/ \E i \in Ids : DeleteConversationRows(u, {i})
    PROVE  Inv'
<1>0. want[u] \in Roots BY DEF Inv, TypeOK, Holders
<1>1. UNCHANGED PoolView
  BY DEF ArchiveTurn, DeleteConversationRows, PoolView, poolVars
<1>2. TypeOK'
  <2>. USE DEF Inv, TypeOK, poolVars, walkVars
  <2>1. CASE ArchiveTurn(u)
    <3>1. nextId[want[u]] \in Nat BY <1>0
    <3>2. /\ archive' \in [Roots -> SUBSET Nat] /\ index' \in [Roots -> SUBSET Nat]
          /\ nextId' \in [Roots -> Nat]
      BY <1>0, <2>1, <3>1 DEF ArchiveTurn
    <3>. QED BY <2>1, <3>2 DEF ArchiveTurn
  <2>2. ASSUME NEW gone, DeleteConversationRows(u, gone) PROVE TypeOK'
    <3>1. archive' \in [Roots -> SUBSET Nat] /\ index' \in [Roots -> SUBSET Nat]
      BY <1>0, <2>2 DEF DeleteConversationRows
    <3>. QED BY <2>2, <3>1 DEF DeleteConversationRows
  <2>. QED BY <2>1, <2>2
<1>. QED BY <1>1, <1>2, ViewKept

\* The walk leaves the pool and its users alone.
LEMMA WalkKeeps ==
    ASSUME Inv, NEW h \in Handles, WalkStep(h) \/ WalkFails(h) PROVE Inv'
<1>0. root[h] \in Roots BY DEF Inv, TypeOK
<1>. USE DEF Walk, poolVars, diskVars
<1>1. UNCHANGED PoolView
  <2>. USE DEF PoolView
  <2>1. CASE WalkFails(h) BY <2>1 DEF WalkFails
  <2>2. CASE WalkCheck(h) BY <2>2 DEF WalkCheck
  <2>3. CASE WalkScan(h) BY <2>3 DEF WalkScan
  <2>4. CASE WalkBegin(h) BY <2>4 DEF WalkBegin
  <2>5. CASE WalkCommit(h) BY <2>5 DEF WalkCommit
  <2>6. CASE WalkRecord(h) BY <2>6 DEF WalkRecord
  <2>. QED BY <2>1, <2>2, <2>3, <2>4, <2>5, <2>6 DEF WalkStep
<1>2. TypeOK'
  <2>. USE DEF Inv, TypeOK, WalkStates
  <2>1. CASE WalkFails(h) BY <2>1 DEF WalkFails
  <2>2. CASE WalkCheck(h) BY <2>2 DEF WalkCheck
  <2>3. CASE WalkScan(h)
    <3>1. \A i \in Todo(h) : i \in Nat BY <1>0 DEF Todo
    <3>2. ASSUME UNCHANGED <<upto, batch>>
          PROVE  batch' \in [Handles -> SUBSET Nat] /\ upto' \in [Handles -> Nat]
      BY <3>2
    <3>2a. ASSUME NEW m \in Todo(h),
                  batch' = [batch EXCEPT ![h] = {i \in Todo(h) : i <= m}],
                  upto' = [upto EXCEPT ![h] = m]
           PROVE  batch' \in [Handles -> SUBSET Nat] /\ upto' \in [Handles -> Nat]
      BY <3>1, <3>2a
    <3>2b. \/ UNCHANGED <<upto, batch>>
           \/ \E m \in Todo(h) :
                 /\ batch' = [batch EXCEPT ![h] = {i \in Todo(h) : i <= m}]
                 /\ upto' = [upto EXCEPT ![h] = m]
      BY <2>3, Zenon DEF WalkScan
    <3>2c. batch' \in [Handles -> SUBSET Nat] /\ upto' \in [Handles -> Nat]
      BY <3>2, <3>2a, <3>2b
    <3>3. walk' \in [Handles -> WalkStates]
      <4>1. \/ walk' = [walk EXCEPT ![h] = "record"]
            \/ walk' = [walk EXCEPT ![h] = "begin"]
        BY <2>3, Zenon DEF WalkScan, Walk
      <4>. QED BY <4>1
    <3>4. UNCHANGED <<poolVars, live, root, diskVars, last, pc, want, held>>
      BY <2>3, Zenon DEF WalkScan
    <3>. QED BY <3>2c, <3>3, <3>4
  <2>4. CASE WalkBegin(h) BY <2>4 DEF WalkBegin
  <2>5. CASE WalkCommit(h)
    <3>1. index' \in [Roots -> SUBSET Nat] BY <1>0, <2>5 DEF WalkCommit
    <3>. QED BY <1>0, <2>5, <3>1 DEF WalkCommit
  <2>6. CASE WalkRecord(h) BY <1>0, <2>6 DEF WalkRecord
  <2>. QED BY <2>1, <2>2, <2>3, <2>4, <2>5, <2>6 DEF WalkStep
<1>. QED BY <1>1, <1>2, ViewKept

\* After a crash nobody holds anything.
LEMMA CrashKeeps == ASSUME Inv, Crash PROVE Inv'
<1>1. TypeOK' BY DEF Inv, TypeOK, Crash, diskVars, WalkStates, Labels
<1>2. \A r \in Roots : UsingOn(r)' = {} BY DEF UsingOn, Crash, Holders
<1>3. Counted' BY <1>2, FS_EmptySet DEF Counted, Crash
<1>. QED
  BY <1>1, <1>3
  DEF Inv, Crash, UsesPooled, PooledIsOpen, OpensLocked, OpensUnpooled, OpensOwn,
      OpenIsKnown, Locked, Holders

\* The first start: nothing is open.
LEMMA InitInv == Init => Inv
<1>. SUFFICES ASSUME Init PROVE Inv OBVIOUS
<1>1. TypeOK
  BY StoresAssumption DEF Init, Quiet, TypeOK, WalkStates, Labels
<1>2. \A r \in Roots : UsingOn(r) = {} BY DEF UsingOn, Init, Quiet, Holders
<1>3. Counted BY <1>2, FS_EmptySet DEF Counted, Init, Quiet
<1>. QED
  BY <1>1, <1>3
  DEF Inv, Init, Quiet, UsesPooled, PooledIsOpen, OpensLocked, OpensUnpooled,
      OpensOwn, OpenIsKnown, Locked, Holders

\* Every step keeps the invariant.
LEMMA NextInv == Inv /\ [Next]_vars => Inv'
<1>. SUFFICES ASSUME Inv, [Next]_vars PROVE Inv' OBVIOUS
<1>1. ASSUME NEW u \in Openers, OpenStep(u) PROVE Inv'
  BY <1>1, LockKeeps, RecheckKeeps, OpenDBKeeps, MigrateKeeps, OpenFailsKeeps,
     InstallKeeps DEF OpenStep
<1>2. ASSUME NEW u \in Openers, UseStep(u) PROVE Inv'
  BY <1>2, HitKeeps, MissKeeps, ReleaseKeeps, WriteKeeps DEF UseStep
<1>3. CASE UNCHANGED vars
  <2>1. UNCHANGED PoolView BY <1>3 DEF vars, poolVars, PoolView
  <2>2. TypeOK' BY <1>3 DEF vars, poolVars, diskVars, walkVars, Inv, TypeOK
  <2>. QED BY <2>1, <2>2, ViewKept
<1>. QED BY <1>1, <1>2, <1>3, BorrowKeeps, WalkKeeps, CrashKeeps DEF Next

-----------------------------------------------------------------------------
\* acquireStore, releaseStore: the store pool keeps its types.
THEOREM StoresTyping == Spec => []TypeOK
<1>1. Inv => TypeOK BY DEF Inv
<1>. QED BY InitInv, NextInv, <1>1, PTL DEF Spec

\* acquireStore under openMu: a root never has two open handles.
THEOREM OneHandlePerRoot == Spec => []OneOpenHandle
<1>1. Inv => OneOpenHandle
  <2>. SUFFICES ASSUME Inv, NEW g \in Handles, NEW h \in Handles, live[g], live[h],
                       root[g] = root[h]
                PROVE  g = h
    BY DEF OneOpenHandle
  <2>. USE DEF Inv
  <2>1. CASE pool[root[g]] = g /\ pool[root[h]] = h BY <2>1
  <2>2. ASSUME NEW u \in Openers, pc[u] \in {"migrate", "install"},
               held[u] = g \/ held[u] = h
        PROVE  pool[root[g]] = NoHandle
    BY <2>2 DEF OpensOwn, OpensUnpooled
  <2>3. ASSUME NEW u \in Openers, pc[u] \in {"migrate", "install"}, held[u] = g,
               NEW v \in Openers, pc[v] \in {"migrate", "install"}, held[v] = h
        PROVE  g = h
    BY <2>3 DEF OpensLocked, Locked
  <2>. QED BY <2>1, <2>2, <2>3, StoresAssumption DEF OpenIsKnown
<1>. QED BY InitInv, NextInv, <1>1, PTL DEF Spec

\* releaseStore: a held reference keeps the pooled handle open, and refs is
\* the number of holders.
THEOREM ReferencesKeepOpen == Spec => []ReferencedIsOpen
<1>1. Inv => ReferencedIsOpen
  <2>. SUFFICES ASSUME Inv PROVE ReferencedIsOpen OBVIOUS
  <2>1. \A u \in Openers :
           pc[u] = "using" => live[held[u]] /\ pool[want[u]] = held[u]
    BY StoresAssumption DEF Inv, UsesPooled, PooledIsOpen, TypeOK, Holders
  <2>. QED BY <2>1 DEF Inv, Counted, UsingOn, ReferencedIsOpen
<1>. QED BY InitInv, NextInv, <1>1, PTL DEF Spec
-----------------------------------------------------------------------------
\* The walk never leaves a row behind its cursor: below it everything archived
\* is indexed, the batch it has read reaches from one cursor to the next, and
\* it comes to record only when nothing is left. Ids start at 1, the cursor at 0.
WalkInv ==
    /\ \A h \in Handles :
          /\ walk[h] \in {"check", "scan", "begin", "tx", "record"} =>
                \A i \in archive[root[h]] : i <= last[h] => i \in index[root[h]]
          /\ walk[h] \in {"begin", "tx"} =>
                \A i \in archive[root[h]] :
                   i <= upto[h] => i \in index[root[h]] \/ i \in batch[h]
          /\ walk[h] = "record" => archive[root[h]] \subseteq index[root[h]]
    /\ \A r \in Roots : 0 \notin archive[r] /\ nextId[r] # 0
    /\ RecordedIsComplete

\* Writers keep it: a new message comes with its index row, a deleted one
\* takes both away.
LEMMA WriteKeepsWalk ==
    ASSUME Inv, WalkInv, NEW u \in Openers,
           ArchiveTurn(u) \/ \E i \in Ids : DeleteConversationRows(u, {i})
    PROVE  WalkInv'
<1>0. want[u] \in Roots /\ \A h \in Handles : root[h] \in Roots
  BY DEF Inv, TypeOK, Holders
<1>. USE DEF Inv, TypeOK, WalkInv, RecordedIsComplete, walkVars
<1>1. CASE ArchiveTurn(u) BY <1>0, <1>1 DEF ArchiveTurn
<1>2. ASSUME NEW gone, DeleteConversationRows(u, gone) PROVE WalkInv'
  BY <1>0, <1>2 DEF DeleteConversationRows
<1>. QED BY <1>1, <1>2

\* The walk itself keeps it, and so do the walks of other handles on the root.
LEMMA StepKeepsWalk ==
    ASSUME Inv, WalkInv, NEW h \in Handles, WalkStep(h) \/ WalkFails(h)
    PROVE  WalkInv'
<1>0. \A g \in Handles : root[g] \in Roots BY DEF Inv, TypeOK
<1>. USE DEF Inv, TypeOK, WalkInv, RecordedIsComplete, Walk, diskVars, WalkStates
<1>1. CASE WalkFails(h) BY <1>0, <1>1 DEF WalkFails
<1>2. CASE WalkCheck(h) BY <1>0, <1>2 DEF WalkCheck
<1>3. CASE WalkScan(h)
  <2>0. UNCHANGED <<root, diskVars, last>> BY <1>3 DEF WalkScan
  <2>1. ASSUME Todo(h) = {}, walk[h] = "scan", walk' = [walk EXCEPT ![h] = "record"],
               UNCHANGED <<upto, batch>>
        PROVE  WalkInv'
    <3>1. \A i \in archive[root[h]] : ~(i <= last[h]) => i > last[h] BY <1>0
    <3>2. archive[root[h]] \subseteq index[root[h]] BY <2>1, <3>1 DEF Todo
    <3>. QED BY <1>0, <2>0, <2>1, <3>2
  <2>2. ASSUME NEW m \in Todo(h), walk[h] = "scan",
               walk' = [walk EXCEPT ![h] = "begin"],
               batch' = [batch EXCEPT ![h] = {i \in Todo(h) : i <= m}],
               upto' = [upto EXCEPT ![h] = m]
        PROVE  WalkInv'
    <3>1. \A i \in archive[root[h]] : ~(i <= last[h]) => i > last[h] BY <1>0
    <3>2. \A i \in archive[root[h]] :
             i <= m => i \in index[root[h]] \/ i \in {j \in Todo(h) : j <= m}
      BY <2>2, <3>1 DEF Todo
    <3>. QED BY <1>0, <2>0, <2>2, <3>2
  <2>. QED BY <1>3, <2>1, <2>2, Zenon DEF WalkScan
<1>4. CASE WalkBegin(h) BY <1>0, <1>4 DEF WalkBegin
<1>5. CASE WalkCommit(h)
  <2>1. \A r \in Roots : index[r] \subseteq index'[r] BY <1>0, <1>5 DEF WalkCommit
  <2>2. index'[root[h]] = index[root[h]] \cup batch[h] BY <1>0, <1>5 DEF WalkCommit
  <2>. QED BY <1>0, <1>5, <2>1, <2>2 DEF WalkCommit
<1>6. CASE WalkRecord(h) BY <1>0, <1>6 DEF WalkRecord
<1>. QED BY <1>1, <1>2, <1>3, <1>4, <1>5, <1>6 DEF WalkStep

\* A handle gets a root, and a walk its first cursor, while no walk is on it;
\* a crash ends every walk.
LEMMA OtherKeepsWalk ==
    ASSUME Inv, WalkInv,
           \/ \E u \in Openers :
                 \/ OpenStep(u)
                 \/ \E r \in Roots : Hit(u, r) \/ Miss(u, r)
                 \/ Release(u)
           \/ \E b \in Borrowers : Return(b) \/ \E u \in Openers : Borrow(b, u)
           \/ Crash
           \/ UNCHANGED vars
    PROVE  WalkInv'
<1>. USE DEF Inv, TypeOK, WalkInv, RecordedIsComplete, diskVars, walkVars, poolVars
<1>1. ASSUME NEW u \in Openers, OpenStep(u) PROVE WalkInv'
  <2>0. u \in Holders BY DEF Holders
  <2>1. CASE LockOpen(u) \/ Recheck(u) \/ Migrate(u) \/ OpenFails(u)
    <3>1. UNCHANGED <<root, diskVars, walkVars>>
      BY <2>1 DEF LockOpen, Recheck, Migrate, OpenFails
    <3>. QED BY <3>1
  <2>2. ASSUME NEW h \in Handles, OpenDB(u, h) PROVE WalkInv'
    BY <2>2 DEF OpenDB, Forgotten
  <2>3. CASE Install(u)
    <3>1. pc[u] = "install" BY <2>3 DEF Install, Go
    <3>2. held[u] \in Handles /\ root[held[u]] \in Roots
      BY <2>0, <3>1 DEF OpensOwn
    <3>3. \A i \in archive[root[held[u]]] : ~(i <= 0) BY <3>2
    <3>4. UNCHANGED <<root, archive, index, recorded, nextId, upto, batch>>
      BY <2>3 DEF Install
    <3>5. \/ UNCHANGED <<walk, last>>
          \/ /\ walk' = [walk EXCEPT ![held[u]] = "check"]
             /\ last' = [last EXCEPT ![held[u]] = 0]
      BY <2>3 DEF Install
    <3>. QED BY <3>2, <3>3, <3>4, <3>5
  <2>. QED BY <1>1, <2>1, <2>2, <2>3 DEF OpenStep
<1>2. ASSUME NEW u \in Openers,
             \/ \E r \in Roots : Hit(u, r) \/ Miss(u, r)
             \/ Release(u)
      PROVE  UNCHANGED <<root, diskVars, walkVars>>
  BY <1>2 DEF Hit, Miss, Release
<1>3. ASSUME NEW b \in Borrowers, Return(b) \/ \E u \in Openers : Borrow(b, u)
      PROVE  UNCHANGED <<root, diskVars, walkVars>>
  BY <1>3 DEF Return, Borrow
<1>4. CASE Crash BY <1>4 DEF Crash
<1>5. CASE UNCHANGED vars BY <1>5 DEF vars
<1>6. ASSUME UNCHANGED <<root, diskVars, walkVars>>
      PROVE  WalkInv'
  BY <1>6
<1>. QED BY <1>1, <1>2, <1>3, <1>4, <1>5, <1>6

\* BackfillSearchIndex: once the backfill of a root is recorded, every archived
\* message has its index row, however many walks failed, crashed or raced with
\* writers and with each other.
THEOREM BackfillComplete == Spec => []RecordedIsComplete
<1>1. Init => WalkInv
  BY StoresAssumption DEF Init, Quiet, WalkInv, RecordedIsComplete
<1>2. Inv /\ WalkInv /\ [Next]_vars => WalkInv'
  <2>. SUFFICES ASSUME Inv, WalkInv, [Next]_vars PROVE WalkInv' OBVIOUS
  <2>. QED
    BY WriteKeepsWalk, StepKeepsWalk, OtherKeepsWalk, Zenon DEF Next, UseStep
<1>3. WalkInv => RecordedIsComplete BY DEF WalkInv
<1>. QED BY InitInv, NextInv, <1>1, <1>2, <1>3, PTL DEF Spec

-----------------------------------------------------------------------------
(* SessionArchive: the rows of conversations. *)

\* Nobody has two roles, and the id a fork or an import mints is nobody else's.
ArchiveNames ==
    /\ Main \notin Forkers \cup Importers /\ Forkers \cap Importers = {}
    /\ Archivers \cap (Forkers \cup Importers) = {}
    /\ Adders \cap (Archivers \cup Forkers \cup Importers) = {}
    /\ NoOne \notin Importers \cup Adders
    /\ IsFiniteSet(Adders) /\ IsFiniteSet(Importers)
    /\ MaxDeletes \in Nat /\ MaxCrashes \in Nat

\* The steps of each role.
Steps ==
    /\ \A a \in Archivers : pc[a] \in V!Over \cup {"ensure", "insert"}
    /\ \A f \in Forkers : pc[f] \in V!Over \cup {"create", "ensure", "insert", "settings", "cleanup"}
    /\ \A i \in Importers :
         pc[i] \in V!Over \cup {"find", "row", "ensure", "insert", "publish", "total", "write",
                                "forward"}
    /\ \A u \in Adders : pc[u] \in V!Over \cup {"write"}
\* Store.mu is held over an import's rows, and between a read of a total and its write.
MuHeld ==
    /\ \A i \in Importers : pc[i] \in {"row", "ensure", "insert", "publish", "write"} => mu = i
    /\ \A u \in Adders : pc[u] = "write" => mu = u

\* The steps of an import before its rows are published.
Before == {"idle", "find", "row", "ensure", "insert", "publish"}
\* What a writer writes to, and that it has something left to write.
Targets ==
    /\ \A a \in Archivers : into[a] = Main
    /\ \A f \in Forkers : into[f] = f
    /\ \A i \in Importers : into[i] \in Importers /\ (pc[i] \in Before => into[i] = i)
    /\ \A w \in V!Writers : pc[w] \in {"create", "ensure", "insert"} => todo[w] # << >>
\* An id is fresh until its row is made, and its row is there or deleted from then on.
Minted ==
    /\ Main \in rows \cup retired
    /\ \A f \in Forkers :
         /\ pc[f] \in {"idle", "create"} => f \notin rows \cup retired
         /\ pc[f] \in {"ensure", "insert", "settings", "cleanup"} => f \in rows \cup retired
    /\ \A i \in Importers :
         /\ pc[i] \in {"idle", "find", "row"} => i \notin rows \cup retired
         /\ pc[i] \in {"ensure", "insert", "publish"} => i \in rows \ ready /\ usage[i] = 0
\* A conversation without a row has nothing, and a deleted one has no row.
Gone ==
    /\ rows \cap retired = {} /\ ready \subseteq rows
    /\ \A c \in V!Convs \ rows : turns[c] = << >> /\ count[c] = 0 /\ usage[c] = 0
\* How far an import is.
Importing ==
    /\ \A i \in Importers :
         /\ pc[i] \in {"ensure", "insert"} =>
              \/ turns[i] = << >> /\ todo[i] = <<"i1", "i2">>
              \/ turns[i] = <<"i1">> /\ todo[i] = <<"i2">>
         /\ pc[i] = "publish" => turns[i] = <<"i1", "i2">>
         /\ pc[i] = "row" => V!Known = {}
         /\ i \in ready => turns[i] = <<"i1", "i2">> /\ pc[i] \notin Before
    /\ \A i, j \in V!Known : i = j

\* The part of the invariant about rows, locks and imports.
RowsInv == Steps /\ MuHeld /\ Targets /\ Minted /\ Gone /\ Importing

\* What comes after the last turn, and after an error.
LEMMA ArchiveRoles ==
  ASSUME ArchiveNames
  PROVE  /\ \A a \in Archivers : V!After(a) = "done" /\ V!OnError(a) = "failed"
         /\ \A f \in Forkers : V!After(f) = "settings" /\ V!OnError(f) = "cleanup"
         /\ \A i \in Importers : V!After(i) = "publish" /\ V!OnError(i) = "undo"
<1>1. ASSUME NEW a \in Archivers PROVE V!After(a) = "done" /\ V!OnError(a) = "failed"
  <2>1. a \notin Forkers /\ a \notin Importers
    BY DEF ArchiveNames
  <2> QED BY <2>1 DEF V!After, V!OnError
<1>2. ASSUME NEW f \in Forkers PROVE V!After(f) = "settings" /\ V!OnError(f) = "cleanup"
  <2>1. f \notin Archivers /\ f \notin Importers
    BY DEF ArchiveNames
  <2> QED BY <2>1 DEF V!After, V!OnError
<1>3. ASSUME NEW i \in Importers PROVE V!After(i) = "publish" /\ V!OnError(i) = "undo"
  <2>1. i \notin Archivers /\ i \notin Forkers
    BY DEF ArchiveNames
  <2> QED BY <2>1 DEF V!After, V!OnError
<1> QED BY <1>1, <1>2, <1>3

\* The move of one actor: from where, to where.
Moves(a, from, to) == a \in V!Actors /\ pc[a] = from /\ pc' = [pc EXCEPT ![a] = to]

\* Every step keeps the types, and each actor takes the steps of its role.
LEMMA ArchiveTypes ==
  ASSUME ArchiveNames, V!TypeOK, RowsInv, [V!Next]_(V!vars)
  PROVE  V!TypeOK' /\ Steps'
<1> DEFINE Goal == V!TypeOK' /\ Steps'
           Pcs == V!Over \cup {"ensure", "insert", "create", "settings", "cleanup", "find", "row",
                               "publish", "total", "write", "forward"}
<1> SUFFICES Goal
  OBVIOUS
<1> USE DEF V!db, V!actors, V!bounds, V!Go
<1>r. /\ \A a \in Archivers : V!After(a) = "done" /\ V!OnError(a) = "failed"
      /\ \A f \in Forkers : V!After(f) = "settings" /\ V!OnError(f) = "cleanup"
      /\ \A i \in Importers : V!After(i) = "publish" /\ V!OnError(i) = "undo"
  BY ArchiveRoles
<1>0. /\ rows \subseteq V!Convs /\ retired \subseteq V!Convs /\ ready \subseteq Importers
      /\ turns \in [V!Convs -> V!Lists]
      /\ count \in [V!Convs -> Nat] /\ usage \in [V!Convs -> Nat]
      /\ pc \in [V!Actors -> Pcs]
      /\ todo \in [V!Writers -> V!Lists] /\ into \in [V!Writers -> V!Convs]
      /\ outcome \in [Importers -> {"none", "written", "already", "gone"}]
      /\ got \in [Adders -> Nat] /\ on \in [Adders -> V!Convs]
      /\ mu \in Importers \cup Adders \cup {NoOne}
      /\ importMu \in Importers \cup {NoOne}
      /\ deletes \in 0 .. MaxDeletes /\ crashes \in 0 .. MaxCrashes
  BY DEF V!TypeOK
<1>n. /\ \A w \in V!Writers : w \in V!Actors
      /\ \A w \in V!Writers : w \in Archivers \/ w \in Forkers \/ w \in Importers
      /\ \A a \in Archivers \cup Forkers \cup Importers : a \in V!Writers
      /\ \A u \in Adders : u \in V!Actors
      /\ \A c \in Forkers \cup Importers : c \in V!Convs
      /\ Main \in V!Convs
  BY DEF V!Writers, V!Actors, V!Convs
\* An actor moves within its role.
<1>m. ASSUME NEW a \in V!Actors, NEW to, pc' = [pc EXCEPT ![a] = to], to \in Pcs,
             a \in Archivers => to \in V!Over \cup {"ensure", "insert"},
             a \in Forkers => to \in V!Over \cup {"create", "ensure", "insert", "settings", "cleanup"},
             a \in Importers => to \in V!Over \cup {"find", "row", "ensure", "insert", "publish",
                                                     "total", "write", "forward"},
             a \in Adders => to \in V!Over \cup {"write"}
      PROVE  Steps' /\ pc' \in [V!Actors -> Pcs]
  <2>1. pc' \in [V!Actors -> Pcs]
    <3> HIDE DEF Pcs
    <3> QED BY <1>0, <1>m
  <2>2. \A b \in V!Actors : pc'[b] = IF b = a THEN to ELSE pc[b]
    BY <1>0, <1>m
  <2>3. Steps'
    BY <2>2, <1>m, <1>n DEF RowsInv, Steps
  <2> QED BY <2>1, <2>3
<1>x. UNCHANGED V!actors => Steps' /\ pc' \in [V!Actors -> Pcs]
  BY <1>0 DEF RowsInv, Steps
<1> HIDE DEF Pcs
<1>1. ASSUME NEW w \in V!Writers, V!Ensure(w) PROVE Goal
  <2>1. into[w] \notin retired \/ w \notin Importers
    BY <1>1, <1>n DEF V!Ensure, RowsInv, Targets, Minted, Gone, Before
  <2>2. /\ rows' \subseteq V!Convs
    BY <1>0, <1>1 DEF V!Ensure
  <2>3. PICK to : pc' = [pc EXCEPT ![w] = to] /\ (to = "insert" \/ (into[w] \in retired /\ to = V!OnError(w)))
    BY <1>1 DEF V!Ensure
  <2>4. Steps' /\ pc' \in [V!Actors -> Pcs]
    <3>1. w \in Archivers => to \in {"insert", "failed"}
      BY <2>3, <1>r
    <3>2. w \in Forkers => to \in {"insert", "cleanup"}
      BY <2>3, <1>r
    <3>3. w \in Importers => to = "insert"
      BY <2>1, <2>3, <1>r
    <3>4. w \notin Adders /\ to \in Pcs
      BY <3>1, <3>2, <3>3, <1>n DEF ArchiveNames, Pcs, V!Over
    <3> QED BY <1>m, <2>3, <3>1, <3>2, <3>3, <3>4, <1>n DEF V!Over
  <2> QED BY <1>0, <1>1, <2>2, <2>4 DEF V!Ensure, V!TypeOK, Pcs
<1>2. ASSUME NEW w \in V!Writers, V!InsertTurn(w) PROVE Goal
  <2>0. pc[w] = "insert" /\ todo[w] # << >> /\ todo[w] \in V!Lists
    BY <1>0, <1>2 DEF V!InsertTurn, RowsInv, Targets
  <2>h. Head(todo[w]) \in V!Names /\ Tail(todo[w]) \in V!Lists
    BY <2>0, HeadTailProperties DEF V!Lists
  <2>i. ASSUME V!Inserted(w) PROVE Steps' /\ pc' \in [V!Actors -> Pcs]
    <3>1. PICK to : pc' = [pc EXCEPT ![w] = to] /\ to \in {V!After(w), "ensure"}
      BY <2>i DEF V!Inserted
    <3>2. w \notin Adders /\ to \in Pcs /\ to \in {"done", "settings", "publish", "ensure"}
      BY <3>1, <1>r, <1>n DEF ArchiveNames, Pcs, V!Over
    <3> QED BY <1>m, <3>1, <3>2, <1>r, <1>n DEF ArchiveNames, V!Over
  <2>1. CASE into[w] \notin rows /\ pc' = [pc EXCEPT ![w] = V!OnError(w)]
             /\ UNCHANGED <<V!db, todo, into, outcome, got, on, mu, importMu, V!bounds>>
    <3>1. w \notin Importers
      BY <2>1, <2>0, <1>n DEF RowsInv, Targets, Minted, Before
    <3>2. w \notin Adders /\ V!OnError(w) \in Pcs
      BY <3>1, <1>r, <1>n DEF ArchiveNames, Pcs, V!Over
    <3>3. Steps' /\ pc' \in [V!Actors -> Pcs]
      BY <1>m, <2>1, <3>1, <3>2, <1>r, <1>n DEF V!Over
    <3> QED BY <1>0, <2>1, <3>3 DEF V!TypeOK, Pcs
  <2>2. CASE into[w] \in rows /\ V!Inserted(w) /\ UNCHANGED <<turns, count>>
    <3>1. todo' \in [V!Writers -> V!Lists]
      BY <1>0, <2>2, <2>h DEF V!Inserted
    <3> QED BY <1>0, <2>2, <2>i, <3>1 DEF V!Inserted, V!TypeOK, Pcs
  <2>3. CASE /\ into[w] \in rows /\ V!Inserted(w)
             /\ turns' = [turns EXCEPT ![into[w]] = Append(@, Head(todo[w]))]
             /\ count' = [count EXCEPT ![into[w]] = @ + 1]
    <3>1. todo' \in [V!Writers -> V!Lists]
      BY <1>0, <2>3, <2>h DEF V!Inserted
    <3>2. Append(turns[into[w]], Head(todo[w])) \in V!Lists
      BY <1>0, <2>h DEF V!Lists
    <3>3. turns' \in [V!Convs -> V!Lists] /\ count' \in [V!Convs -> Nat]
      BY <1>0, <2>3, <3>2
    <3> QED BY <1>0, <2>3, <2>i, <3>1, <3>3 DEF V!Inserted, V!TypeOK, Pcs
  <2> QED BY <1>2, <2>1, <2>2, <2>3 DEF V!InsertTurn
<1>3. ASSUME NEW a \in Archivers, V!Archive(a) PROVE Goal
  <2>1. PICK to \in {"done", "ensure"} : pc' = [pc EXCEPT ![a] = to]
    BY <1>3 DEF V!Archive
  <2>2. a \notin Forkers \cup Importers \cup Adders /\ to \in Pcs
    BY DEF ArchiveNames, Pcs, V!Over
  <2>3. Steps' /\ pc' \in [V!Actors -> Pcs]
    BY <1>m, <2>1, <2>2, <1>n DEF V!Over
  <2>4. <<RunOf[a]>> \in V!Lists
    BY DEF V!Lists, V!Names
  <2>5. todo' \in [V!Writers -> V!Lists]
    BY <1>0, <1>3, <2>4, <1>n DEF V!Archive
  <2> QED BY <1>0, <1>3, <2>3, <2>5 DEF V!Archive, V!TypeOK, Pcs
<1>g. ASSUME NEW c \in V!Convs, V!RemoveRows(c)
      PROVE  /\ rows' \subseteq V!Convs /\ retired' \subseteq V!Convs /\ ready' \subseteq Importers
             /\ turns' \in [V!Convs -> V!Lists]
             /\ count' \in [V!Convs -> Nat] /\ usage' \in [V!Convs -> Nat]
  <2>1. << >> \in V!Lists
    BY DEF V!Lists
  <2> QED BY <1>0, <1>g, <2>1 DEF V!RemoveRows
<1>4. ASSUME NEW c \in V!Convs, V!Delete(c) PROVE Goal
  <2>1. deletes' \in 0 .. MaxDeletes
    BY <1>0, <1>4 DEF V!Delete, ArchiveNames
  <2> QED BY <1>0, <1>4, <2>1, <1>g, <1>x DEF V!Delete, V!TypeOK, Pcs
<1>5. ASSUME NEW f \in Forkers, V!ForkReads(f) \/ V!Create(f) \/ V!Settings(f) \/ V!Cleanup(f)
      PROVE Goal
  <2>1. PICK to \in {"create", "ensure", "cleanup", "done", "failed"} : pc' = [pc EXCEPT ![f] = to]
    BY <1>5 DEF V!ForkReads, V!Create, V!Settings, V!Cleanup
  <2>2. f \notin Archivers \cup Importers \cup Adders /\ to \in Pcs
    BY DEF ArchiveNames, Pcs, V!Over
  <2>3. Steps' /\ pc' \in [V!Actors -> Pcs]
    BY <1>m, <2>1, <2>2, <1>n DEF V!Over
  <2>4. CASE V!ForkReads(f)
    <3>1. PICK n \in 1 .. Len(turns[Main]) : todo' = [todo EXCEPT ![f] = SubSeq(turns[Main], 1, n)]
      BY <2>4 DEF V!ForkReads
    <3>2. SubSeq(turns[Main], 1, n) \in V!Lists
      <4>0. turns[Main] \in Seq(V!Names)
        BY <1>0, <1>n DEF V!Lists
      <4>a. \A k \in Nat : \A i \in 1 .. k : 1 \in 1 .. k + 1 /\ i \in 1 - 1 .. k
        OBVIOUS
      <4>1. /\ turns[Main] \in Seq(V!Names)
            /\ 1 \in 1 .. Len(turns[Main]) + 1 /\ n \in 1 - 1 .. Len(turns[Main])
        BY <4>0, <4>a, LenProperties
      <4> QED BY <4>1, SubSeqProperties DEF V!Lists
    <3>3. todo' \in [V!Writers -> V!Lists]
      BY <1>0, <3>1, <3>2, <1>n
    <3> QED BY <1>0, <2>4, <2>3, <3>3 DEF V!ForkReads, V!TypeOK, Pcs
  <2>5. CASE V!Create(f)
    BY <1>0, <2>5, <2>3, <1>n DEF V!Create, V!TypeOK, Pcs
  <2>6. CASE V!Settings(f)
    BY <1>0, <2>6, <2>3 DEF V!Settings, V!TypeOK, Pcs
  <2>7. CASE V!Cleanup(f)
    BY <1>0, <2>7, <2>3, <1>g, <1>n DEF V!Cleanup, V!TypeOK, Pcs
  <2> QED BY <1>5, <2>4, <2>5, <2>6, <2>7
<1>6. ASSUME NEW i \in Importers,
             \/ V!ImportBegins(i) \/ V!ImportFinds(i) \/ V!ImportRow(i) \/ V!Publish(i)
             \/ V!TotalReads(i) \/ V!TotalWrites(i) \/ V!Forward(i)
      PROVE Goal
  <2>1. PICK to \in {"find", "row", "total", "ensure", "forward", "write", "done", "forwarded"} :
          pc' = [pc EXCEPT ![i] = to]
    BY <1>6 DEF V!ImportBegins, V!ImportFinds, V!ImportRow, V!Publish, V!TotalReads, V!TotalWrites, V!Forward
  <2>2. i \notin Archivers \cup Forkers \cup Adders /\ to \in Pcs
    BY DEF ArchiveNames, Pcs, V!Over
  <2>3. Steps' /\ pc' \in [V!Actors -> Pcs]
    BY <1>m, <2>1, <2>2, <1>n DEF V!Over
  <2>4. CASE V!ImportBegins(i)
    BY <1>0, <2>4, <2>3 DEF V!ImportBegins, V!TypeOK, Pcs
  <2>5. CASE V!ImportFinds(i)
    <3>1. /\ rows' \subseteq V!Convs /\ retired' \subseteq V!Convs /\ ready' \subseteq Importers
          /\ turns' \in [V!Convs -> V!Lists]
          /\ count' \in [V!Convs -> Nat] /\ usage' \in [V!Convs -> Nat]
      BY <1>0, <2>5, <1>g DEF V!ImportFinds, V!Known
    <3>2. into' \in [V!Writers -> V!Convs] /\ mu' \in Importers \cup Adders \cup {NoOne}
      BY <1>0, <2>5 DEF V!ImportFinds, V!Known
    <3> QED BY <1>0, <2>5, <2>3, <3>1, <3>2 DEF V!ImportFinds, V!TypeOK, Pcs
  <2>6. CASE V!ImportRow(i)
    <3>1. V!Imported \in V!Lists
      BY DEF V!Imported, V!Lists, V!Names, V!ToSet
    <3>2. todo' \in [V!Writers -> V!Lists]
      BY <1>0, <2>6, <3>1 DEF V!ImportRow
    <3> QED BY <1>0, <2>6, <2>3, <3>2, <1>n DEF V!ImportRow, V!TypeOK, Pcs
  <2>7. CASE V!Publish(i)
    <3>1. Len(V!Imported) \in Nat
      BY DEF V!Imported
    <3>2. count' \in [V!Convs -> Nat] /\ usage' \in [V!Convs -> Nat]
      BY <1>0, <2>7, <3>1 DEF V!Publish
    <3> QED BY <1>0, <2>7, <2>3, <3>2, <1>n DEF V!Publish, V!TypeOK, Pcs
  <2>8. CASE V!TotalReads(i)
    BY <1>0, <2>8, <2>3 DEF V!TotalReads, V!Outcome, V!TypeOK, Pcs
  <2>9. CASE V!TotalWrites(i)
    BY <1>0, <2>9, <2>3 DEF V!TotalWrites, V!Outcome, V!TypeOK, Pcs, V!ImportTotal
  <2>10. CASE V!Forward(i)
    BY <1>0, <2>10, <2>3 DEF V!Forward, V!TypeOK, Pcs
  <2> QED BY <1>6, <2>4, <2>5, <2>6, <2>7, <2>8, <2>9, <2>10
<1>7. ASSUME NEW u \in Adders, V!AddReads(u) \/ V!AddWrites(u) PROVE Goal
  <2>1. PICK to \in {"write", "done", "gone"} : pc' = [pc EXCEPT ![u] = to]
    BY <1>7 DEF V!AddReads, V!AddWrites
  <2>2. u \notin Archivers \cup Forkers \cup Importers /\ to \in Pcs
    BY DEF ArchiveNames, Pcs, V!Over
  <2>3. Steps' /\ pc' \in [V!Actors -> Pcs]
    BY <1>m, <2>1, <2>2, <1>n DEF V!Over
  <2>4. CASE V!AddReads(u)
    BY <1>0, <2>4, <2>3 DEF V!AddReads, V!TypeOK, Pcs
  <2>5. CASE V!AddWrites(u)
    <3>1. usage' \in [V!Convs -> Nat]
      BY <1>0, <2>5 DEF V!AddWrites
    <3> QED BY <1>0, <2>5, <2>3, <3>1 DEF V!AddWrites, V!TypeOK, Pcs
  <2> QED BY <1>7, <2>4, <2>5
<1>8. ASSUME V!Crash PROVE Goal
  <2>1. pc' = [a \in V!Actors |-> IF pc[a] \in V!Over THEN pc[a] ELSE "dead"]
    BY <1>8 DEF V!Crash
  <2>2. \A a \in V!Actors : pc'[a] \in V!Over
    BY <2>1 DEF V!Over
  <2>3. Steps'
    BY <2>2, <1>n DEF Steps
  <2>4. pc' \in [V!Actors -> Pcs]
    BY <2>1, <2>2 DEF Pcs
  <2>5. crashes' \in 0 .. MaxCrashes
    BY <1>0, <1>8 DEF V!Crash, ArchiveNames
  <2> QED BY <1>0, <1>8, <2>3, <2>4, <2>5 DEF V!Crash, V!TypeOK, Pcs
<1>9. ASSUME UNCHANGED V!vars PROVE Goal
  BY <1>0, <1>9, <1>x DEF V!vars, V!TypeOK, Pcs
<1> HIDE DEF Goal
<1> QED BY <1>1, <1>2, <1>3, <1>4, <1>5, <1>6, <1>7, <1>8, <1>9 DEF V!Next

\* The second turn of an import behind its first.
LEMMA AppendToOne == Append(<<"i1">>, "i2") = <<"i1", "i2">> /\ Len(<<"i2">>) = 1
<1> DEFINE s == <<"i1">>
           u == <<"i1", "i2">>
           t == Append(s, "i2")
           E == {"i1", "i2"}
<1>1. s \in Seq(E) /\ u \in Seq(E) /\ "i2" \in E
  OBVIOUS
<1>2. Len(s) = 1 /\ Len(u) = 2 /\ s[1] = "i1" /\ u[1] = "i1" /\ u[2] = "i2" /\ Len(<<"i2">>) = 1
  OBVIOUS
<1> HIDE DEF s, u, E
<1>3. t \in Seq(E) /\ Len(t) = Len(s) + 1 /\ (\A i \in 1 .. Len(s) : t[i] = s[i]) /\ t[Len(s) + 1] = "i2"
  BY <1>1, AppendProperties
<1> HIDE DEF t
<1>4. Len(t) = 2 /\ t[1] = "i1" /\ t[2] = "i2"
  BY <1>2, <1>3
<1>5. t = u
  BY <1>1, <1>2, <1>3, <1>4, SeqEqual
<1> QED BY <1>2, <1>5 DEF t, u, s

\* Locks, targets, tombstones and the progress of imports survive every step.
LEMMA ArchiveStep ==
  ASSUME ArchiveNames, V!TypeOK, RowsInv, [V!Next]_(V!vars)
  PROVE  RowsInv'
<1> DEFINE Goal == MuHeld' /\ Targets' /\ Minted' /\ Gone' /\ Importing'
<1> SUFFICES Goal
  BY ArchiveTypes DEF RowsInv
<1> USE DEF V!db, V!actors, V!bounds, V!Go
<1>r. /\ \A a \in Archivers : V!After(a) = "done" /\ V!OnError(a) = "failed"
      /\ \A f \in Forkers : V!After(f) = "settings" /\ V!OnError(f) = "cleanup"
      /\ \A i \in Importers : V!After(i) = "publish" /\ V!OnError(i) = "undo"
  BY ArchiveRoles
<1>0. /\ rows \subseteq V!Convs /\ retired \subseteq V!Convs /\ ready \subseteq Importers
      /\ turns \in [V!Convs -> V!Lists]
      /\ count \in [V!Convs -> Nat] /\ usage \in [V!Convs -> Nat]
      /\ DOMAIN pc = V!Actors
      /\ todo \in [V!Writers -> V!Lists] /\ into \in [V!Writers -> V!Convs]
      /\ mu \in Importers \cup Adders \cup {NoOne}
  BY DEF V!TypeOK
<1>n. /\ \A w \in V!Writers : w \in V!Actors
      /\ \A w \in V!Writers : w \in Archivers \/ w \in Forkers \/ w \in Importers
      /\ \A a \in Archivers \cup Forkers \cup Importers : a \in V!Writers
      /\ \A u \in Adders : u \in V!Actors
      /\ \A c \in Forkers \cup Importers : c \in V!Convs
      /\ Main \in V!Convs
  BY DEF V!Writers, V!Actors, V!Convs
<1>i. MuHeld /\ Targets /\ Minted /\ Gone /\ Importing /\ Steps
  BY DEF RowsInv
<1>m. ASSUME NEW a \in V!Actors, NEW to, pc' = [pc EXCEPT ![a] = to]
      PROVE  /\ \A b \in V!Actors : pc'[b] = IF b = a THEN to ELSE pc[b]
             /\ DOMAIN pc' = V!Actors
  BY <1>0, <1>m
<1>1. ASSUME NEW w \in V!Writers, V!Ensure(w) PROVE Goal
  <2>1. PICK to : pc' = [pc EXCEPT ![w] = to] /\ (to = "insert" \/ (into[w] \in retired /\ to = V!OnError(w)))
    BY <1>1 DEF V!Ensure
  <2>2. \A b \in V!Actors : pc'[b] = IF b = w THEN to ELSE pc[b]
    BY <1>m, <2>1, <1>n
  <2>3. into[w] \in rows \cup retired
    BY <1>1, <1>n, <1>i DEF V!Ensure, Targets, Minted, Before
  <2>4. rows' = rows
    BY <1>1, <2>3 DEF V!Ensure
  <2>5. w \in Importers => into[w] \notin retired
    BY <1>1, <1>n, <1>i DEF V!Ensure, Targets, Minted, Before, Gone
  <2>6. /\ w \in Importers => to = "insert"
        /\ w \in Archivers => to \in {"insert", "failed"}
        /\ w \in Forkers => to \in {"insert", "cleanup"}
    BY <2>1, <2>5, <1>r
  <2>7. UNCHANGED <<ready, retired, turns, count, usage, todo, into, mu>> /\ pc[w] = "ensure"
    BY <1>1 DEF V!Ensure
  <2>8. MuHeld' /\ Targets'
    BY <2>2, <2>6, <2>7, <1>n, <1>i DEF MuHeld, Targets, Before, ArchiveNames
  <2>9. Minted'
    BY <2>2, <2>4, <2>6, <2>7, <1>n, <1>i DEF Minted, ArchiveNames
  <2>10. Gone' /\ Importing'
    BY <2>2, <2>4, <2>6, <2>7, <1>n, <1>i DEF Gone, Importing, V!Known, Before, V!Convs
  <2> QED BY <2>8, <2>9, <2>10
<1>2. ASSUME NEW w \in V!Writers, V!InsertTurn(w) PROVE Goal
  <2>0. pc[w] = "insert" /\ todo[w] # << >> /\ todo[w] \in V!Lists
        /\ UNCHANGED <<rows, ready, retired, usage, into, mu>>
    BY <1>0, <1>2, <1>i DEF V!InsertTurn, Targets, V!Inserted
  <2>1. PICK to : pc' = [pc EXCEPT ![w] = to]
    BY <1>2 DEF V!InsertTurn, V!Inserted
  <2>2. \A b \in V!Actors : pc'[b] = IF b = w THEN to ELSE pc[b]
    BY <1>m, <2>1, <1>n
  <2>3. CASE into[w] \notin rows /\ pc' = [pc EXCEPT ![w] = V!OnError(w)]
             /\ UNCHANGED <<V!db, todo, into, outcome, got, on, mu, importMu, V!bounds>>
    <3>1. w \notin Importers
      BY <2>3, <2>0, <1>n, <1>i DEF Targets, Minted, Before
    <3>2. /\ w \in Archivers => pc'[w] = "failed"
          /\ w \in Forkers => pc'[w] = "cleanup"
      BY <2>3, <1>r, <1>m, <1>n
    <3>3. MuHeld' /\ Targets'
      BY <2>2, <2>3, <3>1, <3>2, <1>n, <1>i DEF MuHeld, Targets, Before, ArchiveNames
    <3>4. Minted'
      BY <2>0, <2>2, <2>3, <3>1, <3>2, <1>n, <1>i DEF Minted, ArchiveNames
    <3>5. Gone' /\ Importing'
      BY <2>2, <2>3, <3>1, <3>2, <1>n, <1>i DEF Gone, Importing, V!Known, Before, V!Convs
    <3> QED BY <3>3, <3>4, <3>5
  <2>4. ASSUME into[w] \in rows, V!Inserted(w)
        PROVE  MuHeld' /\ Targets' /\ Minted'
    <3>1. to = IF Len(todo[w]) = 1 THEN V!After(w) ELSE "ensure"
      BY <2>1, <2>4, <1>m, <1>n DEF V!Inserted
    <3>2. /\ w \in Importers => to \in {"publish", "ensure"}
          /\ w \in Archivers => to \in {"done", "ensure"}
          /\ w \in Forkers => to \in {"settings", "ensure"}
      BY <3>1, <1>r
    <3>3. to = "ensure" => Tail(todo[w]) # << >>
      <4>1. Len(todo[w]) # 1 => Tail(todo[w]) # << >>
        <5>1. todo[w] \in Seq(V!Names) /\ todo[w] # << >>
          BY <2>0 DEF V!Lists
        <5>2. Len(Tail(todo[w])) = Len(todo[w]) - 1 /\ Len(todo[w]) \in Nat
          BY <5>1, HeadTailProperties, LenProperties
        <5>3. Len(todo[w]) # 0 /\ Len(<< >>) = 0
          BY <5>1, EmptySeq
        <5> DEFINE t == Tail(todo[w])
                   n == Len(todo[w])
        <5>4. n # 1 => Len(t) # 0
          <6> HIDE DEF t
          <6>1. Len(t) = n - 1 /\ n \in Nat
            BY <5>2 DEF t
          <6> HIDE DEF n
          <6> QED BY <6>1
        <5>5. n # 1 => t # << >>
          <6> HIDE DEF t, n
          <6> QED BY <5>3, <5>4, Zenon
        <5> QED BY <5>5
      <4> QED BY <4>1, <3>1, <1>r, <1>n
    <3>4. todo' = [todo EXCEPT ![w] = Tail(todo[w])]
      BY <2>4 DEF V!Inserted
    <3>5. MuHeld'
      BY <2>0, <2>2, <3>2, <1>n, <1>i DEF MuHeld, ArchiveNames
    <3>6. Targets'
      <4>1. \A v \in V!Writers : pc'[v] \in {"create", "ensure", "insert"} => todo'[v] # << >>
        BY <2>0, <2>2, <3>2, <3>3, <3>4, <1>n, <1>i, <1>0 DEF Targets, ArchiveNames
      <4> QED BY <4>1, <2>0, <2>2, <3>2, <1>n, <1>i DEF Targets, Before
    <3>7. Minted'
      BY <2>0, <2>2, <3>2, <1>n, <1>i DEF Minted, ArchiveNames
    <3> QED BY <3>5, <3>6, <3>7
  <2>5. ASSUME into[w] \in rows, V!Inserted(w),
               \A c \in V!Convs : c # into[w] => turns'[c] = turns[c] /\ count'[c] = count[c]
        PROVE  Gone'
    BY <2>0, <2>5, <1>i DEF Gone, V!Convs
  <2>6. ASSUME w \in Importers, into[w] \in rows, V!Inserted(w),
               \/ /\ Head(todo[w]) \in V!ToSet(turns[into[w]]) /\ turns' = turns
               \/ /\ Head(todo[w]) \notin V!ToSet(turns[into[w]])
                  /\ turns' = [turns EXCEPT ![into[w]] = Append(@, Head(todo[w]))]
        PROVE  /\ pc'[w] = "ensure" => turns'[w] = <<"i1">> /\ todo'[w] = <<"i2">>
               /\ pc'[w] = "publish" => turns'[w] = <<"i1", "i2">>
               /\ pc'[w] \in {"ensure", "publish"}
    <3>1. into[w] = w /\ w \in V!Convs
      BY <2>0, <2>6, <1>i, <1>n DEF Targets, Before
    <3>2. pc'[w] = (IF Len(todo[w]) = 1 THEN "publish" ELSE "ensure") /\ todo'[w] = Tail(todo[w])
      BY <2>6, <1>m, <1>n, <1>r, <1>0 DEF V!Inserted
    <3>3. CASE turns[w] = << >> /\ todo[w] = <<"i1", "i2">>
      <4>1. "i1" \notin V!ToSet(turns[w])
        BY <3>3 DEF V!ToSet
      <4>2. turns'[w] = Append(<< >>, "i1")
        BY <2>6, <3>1, <3>3, <4>1, <1>0
      <4> QED BY <4>2, <3>2, <3>3
    <3>4. CASE turns[w] = <<"i1">> /\ todo[w] = <<"i2">>
      <4>1. "i2" \notin V!ToSet(turns[w])
        BY <3>4 DEF V!ToSet
      <4>2. turns'[w] = Append(<<"i1">>, "i2")
        BY <2>6, <3>1, <3>4, <4>1, <1>0
      <4>3. Append(<<"i1">>, "i2") = <<"i1", "i2">> /\ Len(<<"i2">>) = 1
        BY AppendToOne
      <4>4. pc'[w] = "publish"
        BY <4>3, <3>2, <3>4
      <4> QED BY <4>2, <4>3, <4>4
    <3> QED BY <3>3, <3>4, <2>0, <2>6, <1>i DEF Importing
  <2>7. ASSUME into[w] \in rows, V!Inserted(w),
               \/ /\ Head(todo[w]) \in V!ToSet(turns[into[w]]) /\ turns' = turns
               \/ /\ Head(todo[w]) \notin V!ToSet(turns[into[w]])
                  /\ turns' = [turns EXCEPT ![into[w]] = Append(@, Head(todo[w]))]
        PROVE  Importing'
    <3>1. CASE w \in Importers
      <4>1. /\ pc'[w] = "ensure" => turns'[w] = <<"i1">> /\ todo'[w] = <<"i2">>
            /\ pc'[w] = "publish" => turns'[w] = <<"i1", "i2">>
            /\ pc'[w] \in {"ensure", "publish"}
        BY <2>6, <2>7, <3>1
      <4>2. \A i \in Importers \ {w} : pc'[i] = pc[i] /\ turns'[i] = turns[i] /\ todo'[i] = todo[i]
        <5>1. into[w] = w
          BY <2>0, <3>1, <1>i, <1>n DEF Targets, Before
        <5>2. todo' = [todo EXCEPT ![w] = Tail(@)]
          BY <2>7 DEF V!Inserted
        <5>3. turns' = turns \/ turns' = [turns EXCEPT ![w] = Append(@, Head(todo[w]))]
          BY <2>7, <5>1
        <5> QED BY <2>2, <5>2, <5>3, <1>0, <1>n
      <4>3. w \notin ready
        BY <2>0, <3>1, <1>i DEF Minted
      <4> QED BY <4>1, <4>2, <4>3, <2>0, <1>i DEF Importing, V!Known
    <3>2. CASE w \notin Importers
      <4>1. into[w] \notin Importers
        BY <3>2, <1>n, <1>i DEF Targets, ArchiveNames
      <4>2. \A i \in Importers : pc'[i] = pc[i] /\ turns'[i] = turns[i] /\ todo'[i] = todo[i]
        BY <2>2, <2>7, <3>2, <4>1, <1>0, <1>n DEF V!Inserted
      <4> QED BY <4>2, <2>0, <1>i DEF Importing, V!Known
    <3> QED BY <3>1, <3>2
  <2>8. CASE into[w] \in rows /\ Head(todo[w]) \in V!ToSet(turns[into[w]]) /\ V!Inserted(w)
             /\ UNCHANGED <<turns, count>>
    BY <2>8, <2>4, <2>5, <2>7
  <2>9. CASE /\ into[w] \in rows /\ Head(todo[w]) \notin V!ToSet(turns[into[w]]) /\ V!Inserted(w)
             /\ turns' = [turns EXCEPT ![into[w]] = Append(@, Head(todo[w]))]
             /\ count' = [count EXCEPT ![into[w]] = @ + 1]
    <3>1. \A c \in V!Convs : c # into[w] => turns'[c] = turns[c] /\ count'[c] = count[c]
      BY <2>9, <1>0
    <3> QED BY <2>9, <3>1, <2>4, <2>5, <2>7
  <2> HIDE DEF Goal
  <2>10. MuHeld' /\ Targets' /\ Minted' /\ Gone' /\ Importing' => Goal
    BY DEF Goal
  <2> QED BY <1>2, <2>3, <2>8, <2>9 DEF V!InsertTurn
<1>3. ASSUME NEW a \in Archivers, V!Archive(a) PROVE Goal
  <2>1. PICK to \in {"done", "ensure"} : pc' = [pc EXCEPT ![a] = to]
             /\ IF to = "done" THEN todo' = todo ELSE todo' = [todo EXCEPT ![a] = <<RunOf[a]>>]
    BY <1>3 DEF V!Archive
  <2>2. \A b \in V!Actors : pc'[b] = IF b = a THEN to ELSE pc[b]
    BY <1>m, <2>1, <1>n
  <2>3. UNCHANGED <<rows, ready, retired, turns, count, usage, into, mu>>
    BY <1>3 DEF V!Archive
  <2>4. /\ \A w \in V!Writers : w # a => todo'[w] = todo[w]
        /\ to = "ensure" => todo'[a] = <<RunOf[a]>>
    BY <2>1, <1>0, <1>n
  <2>5. a \notin Forkers \cup Importers \cup Adders
    BY DEF ArchiveNames
  <2>6. MuHeld'
    BY <2>2, <2>3, <2>5, <1>n, <1>i DEF MuHeld
  <2>7. Targets'
    BY <2>1, <2>2, <2>3, <2>4, <2>5, <1>n, <1>i DEF Targets
  <2>8. Minted' /\ Gone'
    BY <2>2, <2>3, <2>5, <1>n, <1>i DEF Minted, Gone
  <2>9. Importing'
    BY <2>2, <2>3, <2>4, <2>5, <1>n, <1>i DEF Importing, V!Known
  <2> QED BY <2>6, <2>7, <2>8, <2>9
\* Rows that go, of a conversation nobody is making.
<1>g. ASSUME NEW c \in V!Convs, V!RemoveRows(c), c \in rows \cup retired,
             UNCHANGED <<todo, into>>, Steps',
             c \notin Importers \/ c \in ready \/ pc[c] \notin {"ensure", "insert", "publish"},
             \A b \in Importers : pc'[b] \in {"ensure", "insert", "publish"} => pc'[b] = pc[b],
             \A f \in Forkers : pc'[f] # pc[f] => pc'[f] \notin {"idle", "create", "ensure", "insert", "settings", "cleanup"},
             \A i \in Importers : pc'[i] # pc[i] => pc'[i] = "row" /\ pc[i] = "find",
             \A i \in Importers : pc'[i] = "row" => V!Known \subseteq {c}
      PROVE  Minted' /\ Gone' /\ Importing'
  <2>1. /\ rows' = rows \ {c} /\ retired' = retired \cup {c} /\ ready' = ready \ {c}
        /\ turns'[c] = << >> /\ count'[c] = 0 /\ usage'[c] = 0
        /\ \A d \in V!Convs \ {c} : turns'[d] = turns[d] /\ count'[d] = count[d] /\ usage'[d] = usage[d]
    BY <1>g, <1>0 DEF V!RemoveRows
  <2>2. \A i \in Importers : pc'[i] \in {"ensure", "insert", "publish"} => i # c
    BY <1>g, <1>i DEF Minted
  <2>3. Minted'
    <3>1. (Main \in rows \cup retired)'
      BY <2>1, <1>i DEF Minted
    <3>2. \A f \in Forkers :
         /\ pc'[f] \in {"idle", "create"} => f \notin rows' \cup retired'
         /\ pc'[f] \in {"ensure", "insert", "settings", "cleanup"} => f \in rows' \cup retired'
      BY <2>1, <1>g, <1>i DEF Minted
    <3>3. \A i \in Importers :
         /\ pc'[i] \in {"idle", "find", "row"} => i \notin rows' \cup retired'
         /\ pc'[i] \in {"ensure", "insert", "publish"} => i \in rows' \ ready' /\ usage'[i] = 0
      BY <2>1, <2>2, <1>g, <1>i, <1>n DEF Minted
    <3> QED BY <3>1, <3>2, <3>3 DEF Minted
  <2>4. Gone'
    BY <2>1, <1>i DEF Gone, V!Convs
  <2>5. Importing'
    <3>1. V!Known' = V!Known \ {c}
      BY <2>1 DEF V!Known
    <3>2. \A i, j \in V!Known' : i = j
      BY <3>1, <1>i DEF Importing
    <3>3. \A i \in Importers : pc'[i] = "row" => V!Known' = {}
      BY <3>1, <1>g
    <3>4. \A i \in Importers : i \in ready' => turns'[i] = <<"i1", "i2">> /\ pc'[i] \notin Before
      BY <2>1, <1>g, <1>i, <1>n DEF Importing, Before
    <3>5. \A i \in Importers :
            /\ pc'[i] \in {"ensure", "insert"} =>
                 \/ turns'[i] = << >> /\ todo'[i] = <<"i1", "i2">>
                 \/ turns'[i] = <<"i1">> /\ todo'[i] = <<"i2">>
            /\ pc'[i] = "publish" => turns'[i] = <<"i1", "i2">>
      BY <2>1, <2>2, <1>g, <1>i, <1>n DEF Importing
    <3> QED BY <3>2, <3>3, <3>4, <3>5 DEF Importing
  <2> QED BY <2>3, <2>4, <2>5
<1>4. ASSUME NEW c \in V!Convs, V!Delete(c) PROVE Goal
  <2>1. UNCHANGED <<pc, todo, into, mu>> /\ V!RemoveRows(c) /\ c \in rows
        /\ (c \in Importers => c \in ready)
    BY <1>4 DEF V!Delete, V!Visible
  <2>2. MuHeld' /\ Targets' /\ Steps'
    BY <2>1, <1>i DEF MuHeld, Targets, Steps
  <2>3. \A i \in Importers : pc'[i] = "row" => V!Known \subseteq {c}
    BY <2>1, <1>i DEF Importing
  <2> QED BY <1>g, <2>1, <2>2, <2>3
<1>5. ASSUME NEW f \in Forkers, V!ForkReads(f) \/ V!Create(f) \/ V!Settings(f) \/ V!Cleanup(f)
      PROVE Goal
  <2>1. PICK to \in {"create", "ensure", "cleanup", "done", "failed"} : pc' = [pc EXCEPT ![f] = to]
    BY <1>5 DEF V!ForkReads, V!Create, V!Settings, V!Cleanup
  <2>2. f \notin Archivers \cup Importers \cup Adders /\ f \in V!Convs /\ f # Main
    BY <1>n DEF ArchiveNames
  <2>3. \A b \in V!Actors : pc'[b] = IF b = f THEN to ELSE pc[b]
    BY <1>m, <2>1, <1>n
  <2>4. UNCHANGED <<into, mu>>
    BY <1>5 DEF V!ForkReads, V!Create, V!Settings, V!Cleanup
  <2>5. MuHeld'
    BY <2>2, <2>3, <2>4, <1>n, <1>i DEF MuHeld
  <2>6. ASSUME \A w \in V!Writers : w # f => todo'[w] = todo[w],
               to \in {"create", "ensure"} => todo'[f] # << >>
        PROVE  Targets'
    BY <2>2, <2>3, <2>4, <2>6, <1>n, <1>i DEF Targets
  <2>7. CASE V!ForkReads(f)
    <3>1. PICK n \in 1 .. Len(turns[Main]) : todo' = [todo EXCEPT ![f] = SubSeq(turns[Main], 1, n)]
      BY <2>7 DEF V!ForkReads
    <3>2. SubSeq(turns[Main], 1, n) # << >>
      <4>0. turns[Main] \in Seq(V!Names)
        BY <1>0, <1>n DEF V!Lists
      <4>a. \A k \in Nat : \A i \in 1 .. k : 1 \in 1 .. k + 1 /\ i \in 1 - 1 .. k
        OBVIOUS
      <4>1. /\ turns[Main] \in Seq(V!Names)
            /\ 1 \in 1 .. Len(turns[Main]) + 1 /\ n \in 1 - 1 .. Len(turns[Main])
        BY <4>0, <4>a, LenProperties
      <4>2. Len(SubSeq(turns[Main], 1, n)) = n
        BY <4>1, SubSeqProperties
      <4> QED BY <4>2
    <3>3. Targets'
      BY <2>6, <3>1, <3>2, <1>0, <1>n
    <3>4. to = "create" /\ pc[f] = "idle" /\ UNCHANGED <<rows, ready, retired, turns, count, usage>>
      BY <2>7, <2>3, <1>n, <1>0 DEF V!ForkReads
    <3>5. Minted' /\ Gone'
      BY <2>2, <2>3, <3>4, <1>n, <1>i DEF Minted, Gone
    <3>6. Importing'
      BY <2>2, <2>3, <3>1, <3>4, <1>0, <1>n, <1>i DEF Importing, V!Known
    <3> QED BY <2>5, <3>3, <3>5, <3>6
  <2>8. CASE V!Create(f)
    <3>1. /\ to = "ensure" /\ pc[f] = "create" /\ rows' = rows \cup {f}
          /\ UNCHANGED <<ready, retired, turns, count, usage, todo>>
      BY <2>8, <2>3, <1>n, <1>0 DEF V!Create
    <3>2. Targets'
      BY <2>6, <3>1, <1>i, <1>n DEF Targets
    <3>3. Minted' /\ Gone'
      BY <2>2, <2>3, <3>1, <1>n, <1>i DEF Minted, Gone
    <3>4. Importing'
      BY <2>2, <2>3, <3>1, <1>n, <1>i DEF Importing, V!Known
    <3> QED BY <2>5, <3>2, <3>3, <3>4
  <2>9. CASE V!Settings(f)
    <3>1. /\ to \in {"done", "cleanup"} /\ pc[f] = "settings"
          /\ UNCHANGED <<rows, ready, retired, turns, count, usage, todo>>
      BY <2>9, <2>3, <1>n, <1>0 DEF V!Settings
    <3>2. Targets'
      BY <2>6, <3>1
    <3>3. Minted' /\ Gone' /\ Importing'
      BY <2>2, <2>3, <3>1, <1>n, <1>i DEF Minted, Gone, Importing, V!Known
    <3> QED BY <2>5, <3>2, <3>3
  <2>10. CASE V!Cleanup(f)
    <3>1. /\ to = "failed" /\ pc[f] = "cleanup" /\ UNCHANGED todo
          /\ (V!RemoveRows(f) \/ UNCHANGED <<rows, ready, retired, turns, count, usage>>)
      BY <2>10, <2>3, <1>n, <1>0 DEF V!Cleanup
    <3>2. Targets'
      BY <2>6, <3>1
    <3>3. CASE UNCHANGED <<rows, ready, retired, turns, count, usage>>
      <4>1. Minted' /\ Gone' /\ Importing'
        BY <2>2, <2>3, <3>1, <3>3, <1>n, <1>i DEF Minted, Gone, Importing, V!Known
      <4> QED BY <2>5, <3>2, <4>1
    <3>4. CASE V!RemoveRows(f)
      <4>1. f \in rows \cup retired
        BY <3>1, <1>i DEF Minted
      <4>2. Steps'
        BY ArchiveTypes
      <4>3. \A i \in Importers : pc'[i] = pc[i]
        BY <2>2, <2>3, <1>n
      <4>4. \A i \in Importers : pc'[i] = "row" => V!Known \subseteq {f}
        BY <4>3, <1>i DEF Importing
      <4>5. \A g \in Forkers : pc'[g] # pc[g] => pc'[g] \notin {"idle", "create", "ensure", "insert", "settings", "cleanup"}
        BY <2>3, <3>1, <1>n
      <4>6. Minted' /\ Gone' /\ Importing'
        BY <1>g, <2>2, <2>4, <3>1, <3>4, <4>1, <4>2, <4>3, <4>4, <4>5
      <4> QED BY <2>5, <3>2, <4>6
    <3> QED BY <3>1, <3>3, <3>4
  <2> HIDE DEF Goal
  <2> QED BY <1>5, <2>7, <2>8, <2>9, <2>10
<1>6. ASSUME NEW i \in Importers,
             \/ V!ImportBegins(i) \/ V!ImportFinds(i) \/ V!ImportRow(i) \/ V!Publish(i)
             \/ V!TotalReads(i) \/ V!TotalWrites(i) \/ V!Forward(i)
      PROVE Goal
  <2>1. PICK to \in {"find", "row", "total", "ensure", "forward", "write", "done", "forwarded"} :
          pc' = [pc EXCEPT ![i] = to]
    BY <1>6 DEF V!ImportBegins, V!ImportFinds, V!ImportRow, V!Publish, V!TotalReads, V!TotalWrites, V!Forward
  <2>2. i \notin Archivers \cup Forkers \cup Adders /\ i # NoOne /\ i # Main /\ i \in V!Convs
    BY <1>n DEF ArchiveNames
  <2>3. \A b \in V!Actors : pc'[b] = IF b = i THEN to ELSE pc[b]
    BY <1>m, <2>1, <1>n
  \* A step that leaves the rows alone.
  <2>q. ASSUME UNCHANGED <<rows, ready, retired, turns, count, todo>>,
               pc[i] = "find" /\ to = "row" => V!Known = {},
               to \in Before => pc[i] \in Before /\ to \in {"find", "row"} /\ pc[i] \in {"idle", "find"},
               \A j \in Importers : pc[j] \in {"ensure", "insert", "publish"} /\ j # i => usage'[j] = usage[j],
               \A c \in V!Convs \ rows : usage'[c] = usage[c],
               to = "row" => pc[i] = "find"
        PROVE  Minted' /\ Gone' /\ Importing'
    <3>1. Minted'
      BY <2>q, <2>2, <2>3, <1>n, <1>i DEF Minted, Before
    <3>2. Gone'
      BY <2>q, <1>i DEF Gone, V!Convs
    <3>3. Importing'
      BY <2>q, <2>3, <1>n, <1>i DEF Importing, V!Known, Before
    <3> QED BY <3>1, <3>2, <3>3
  <2>4. CASE V!ImportBegins(i)
    <3>1. /\ to = "find" /\ pc[i] = "idle"
          /\ UNCHANGED <<rows, ready, retired, turns, count, usage, todo, into, mu>>
      BY <2>4, <2>3, <1>n, <1>0 DEF V!ImportBegins
    <3>2. MuHeld' /\ Targets'
      BY <2>2, <2>3, <3>1, <1>n, <1>i DEF MuHeld, Targets, Before
    <3> QED BY <2>q, <3>1, <3>2 DEF Before
  <2>5. CASE V!ImportFinds(i)
    <3>1. pc[i] = "find" /\ mu = NoOne /\ UNCHANGED todo
      BY <2>5 DEF V!ImportFinds
    <3>2. CASE V!Known = {} /\ mu' = i /\ pc' = [pc EXCEPT ![i] = "row"] /\ UNCHANGED <<V!db, into>>
      <4>1. to = "row"
        BY <3>2, <2>3, <1>m, <1>n
      <4>2. MuHeld' /\ Targets'
        BY <2>2, <2>3, <3>1, <3>2, <4>1, <1>n, <1>i DEF MuHeld, Targets, Before, ArchiveNames
      <4> QED BY <2>q, <3>1, <3>2, <4>1, <4>2 DEF Before
    <3>3. ASSUME NEW c \in V!Known \cap ready, into' = [into EXCEPT ![i] = c],
                 pc' = [pc EXCEPT ![i] = "total"], UNCHANGED <<V!db, mu>>
          PROVE  Goal
      <4>1. to = "total"
        BY <3>3, <2>3, <1>m, <1>n
      <4>2. \A w \in V!Writers : into'[w] = IF w = i THEN c ELSE into[w]
        BY <3>3, <1>0, <1>n
      <4>3. MuHeld' /\ Targets'
        BY <2>2, <2>3, <3>1, <3>3, <4>1, <4>2, <1>n, <1>i DEF MuHeld, Targets, Before, V!Known
      <4> QED BY <2>q, <3>1, <3>3, <4>1, <4>3 DEF Before
    <3>4. ASSUME NEW c \in V!Known \ ready, V!RemoveRows(c), mu' = i,
                 pc' = [pc EXCEPT ![i] = "row"], UNCHANGED into
          PROVE  Goal
      <4>1. to = "row"
        BY <3>4, <2>3, <1>m, <1>n
      <4>2. MuHeld' /\ Targets'
        BY <2>2, <2>3, <3>1, <3>4, <4>1, <1>n, <1>i DEF MuHeld, Targets, Before, ArchiveNames
      <4>3. c \in V!Convs /\ c \in rows \cup retired /\ c \in Importers
        BY <3>4, <1>n DEF V!Known
      <4>4. pc[c] \notin {"ensure", "insert", "publish"}
        BY <4>3, <3>1, <1>i DEF MuHeld, ArchiveNames
      <4>5. V!Known \subseteq {c}
        BY <3>4, <1>i DEF Importing
      <4>6. Steps'
        BY ArchiveTypes
      <4>7. \A b \in Importers : pc'[b] \in {"ensure", "insert", "publish"} => pc'[b] = pc[b]
        BY <2>3, <4>1, <1>n
      <4>8. \A f \in Forkers : pc'[f] = pc[f]
        BY <2>2, <2>3, <1>n
      <4>9. \A j \in Importers : pc'[j] # pc[j] => pc'[j] = "row" /\ pc[j] = "find"
        BY <2>3, <3>1, <4>1, <1>n
      <4>10. Minted' /\ Gone' /\ Importing'
        BY <1>g, <3>1, <3>4, <4>3, <4>4, <4>5, <4>6, <4>7, <4>8, <4>9
      <4> QED BY <4>2, <4>10
    <3> HIDE DEF Goal
    <3> QED BY <2>5, <3>2, <3>3, <3>4 DEF V!ImportFinds
  <2>6. CASE V!ImportRow(i)
    <3>1. /\ to = "ensure" /\ pc[i] = "row" /\ rows' = rows \cup {i}
          /\ UNCHANGED <<ready, retired, turns, count, usage, into, mu>>
          /\ todo' = [todo EXCEPT ![i] = <<"i1", "i2">>]
      BY <2>6, <2>3, <1>n, <1>0 DEF V!ImportRow, V!Imported
    <3>2. \A w \in V!Writers : todo'[w] = IF w = i THEN <<"i1", "i2">> ELSE todo[w]
      BY <3>1, <1>0
    <3>3. MuHeld' /\ Targets'
      BY <2>2, <2>3, <3>1, <3>2, <1>n, <1>i DEF MuHeld, Targets, Before
    <3>4. i \notin rows \cup retired /\ V!Known = {} /\ turns[i] = << >> /\ usage[i] = 0
      BY <3>1, <2>2, <1>i DEF Minted, Importing, Gone
    <3>5. Minted'
      BY <2>2, <2>3, <3>1, <3>4, <1>n, <1>i DEF Minted, Gone
    <3>6. Gone'
      BY <2>2, <3>1, <3>4, <1>i DEF Gone
    <3>7. \A j \in Importers : pc[j] = "row" => j = i
      BY <3>1, <1>i DEF MuHeld
    <3>8. V!Known' = {i}
      BY <3>1, <3>4 DEF V!Known
    <3>9. Importing'
      BY <2>3, <3>1, <3>2, <3>4, <3>7, <3>8, <1>n, <1>i DEF Importing, Before, Gone
    <3> QED BY <3>3, <3>5, <3>6, <3>9
  <2>7. CASE V!Publish(i)
    <3>1. /\ to = "total" /\ pc[i] = "publish" /\ ready' = ready \cup {i}
          /\ UNCHANGED <<rows, retired, turns, todo, into>> /\ mu' = NoOne
          /\ \A c \in V!Convs : c # i => count'[c] = count[c] /\ usage'[c] = usage[c]
          /\ usage'[i] = 0
      BY <2>7, <2>2, <2>3, <1>n, <1>0 DEF V!Publish
    <3>2. i \in rows /\ turns[i] = <<"i1", "i2">> /\ mu = i
      BY <3>1, <1>i DEF Minted, Importing, MuHeld
    <3>3. MuHeld'
      BY <2>2, <2>3, <3>1, <3>2, <1>n, <1>i DEF MuHeld
    <3>4. Targets'
      BY <2>2, <2>3, <3>1, <1>n, <1>i DEF Targets, Before
    <3>5. Minted'
      BY <2>2, <2>3, <3>1, <1>n, <1>i DEF Minted
    <3>6. Gone'
      BY <3>1, <3>2, <1>i DEF Gone
    <3>7. Importing'
      BY <2>3, <3>1, <3>2, <1>n, <1>i DEF Importing, V!Known, Before
    <3> QED BY <3>3, <3>4, <3>5, <3>6, <3>7
  <2>8. CASE V!TotalReads(i)
    <3>1. /\ to \in {"forward", "write"} /\ pc[i] = "total" /\ mu = NoOne
          /\ UNCHANGED <<rows, ready, retired, turns, count, usage, todo, into>>
          /\ \/ to = "forward" /\ mu' = mu
             \/ to = "write" /\ mu' = i
      BY <2>8, <2>3, <1>n, <1>0 DEF V!TotalReads
    <3>2. MuHeld' /\ Targets'
      BY <2>2, <2>3, <3>1, <1>n, <1>i DEF MuHeld, Targets, Before, ArchiveNames
    <3> QED BY <2>q, <3>1, <3>2 DEF Before
  <2>9. CASE V!TotalWrites(i)
    <3>1. /\ to = "forward" /\ pc[i] = "write" /\ mu' = NoOne
          /\ UNCHANGED <<rows, ready, retired, turns, count, todo, into>>
          /\ \A c \in V!Convs : usage'[c] # usage[c] => c = into[i] /\ c \in rows
      BY <2>9, <2>3, <1>n, <1>0 DEF V!TotalWrites
    <3>2. mu = i
      BY <3>1, <1>i DEF MuHeld
    <3>3. MuHeld' /\ Targets'
      BY <2>2, <2>3, <3>1, <3>2, <1>n, <1>i DEF MuHeld, Targets, Before
    <3>4. \A j \in Importers : j # i => pc[j] \notin {"ensure", "insert", "publish"}
      BY <3>2, <1>i DEF MuHeld
    <3>5. to \notin Before
      BY <3>1 DEF Before
    <3> QED BY <2>q, <3>1, <3>3, <3>4, <3>5
  <2>10. CASE V!Forward(i)
    <3>1. /\ to \in {"done", "forwarded"} /\ pc[i] = "forward"
          /\ UNCHANGED <<rows, ready, retired, turns, count, usage, todo, into, mu>>
      BY <2>10, <2>3, <1>n, <1>0 DEF V!Forward
    <3>2. MuHeld' /\ Targets'
      BY <2>2, <2>3, <3>1, <1>n, <1>i DEF MuHeld, Targets, Before
    <3> QED BY <2>q, <3>1, <3>2 DEF Before
  <2> HIDE DEF Goal
  <2> QED BY <1>6, <2>4, <2>5, <2>6, <2>7, <2>8, <2>9, <2>10
<1>7. ASSUME NEW u \in Adders, V!AddReads(u) \/ V!AddWrites(u) PROVE Goal
  <2>1. PICK to \in {"write", "done", "gone"} : pc' = [pc EXCEPT ![u] = to]
    BY <1>7 DEF V!AddReads, V!AddWrites
  <2>2. u \notin Archivers \cup Forkers \cup Importers /\ u # NoOne
    BY DEF ArchiveNames
  <2>3. \A b \in V!Actors : pc'[b] = IF b = u THEN to ELSE pc[b]
    BY <1>m, <2>1, <1>n
  <2>4. UNCHANGED <<rows, ready, retired, turns, count, todo, into>>
    BY <1>7 DEF V!AddReads, V!AddWrites
  <2>5. Targets'
    BY <2>2, <2>3, <2>4, <1>n, <1>i DEF Targets
  <2>6. CASE V!AddReads(u)
    <3>1. mu = NoOne /\ mu' = u /\ to = "write" /\ usage' = usage
      BY <2>6, <2>3, <1>n, <1>0 DEF V!AddReads
    <3>2. MuHeld'
      BY <2>2, <2>3, <3>1, <1>n, <1>i DEF MuHeld, ArchiveNames
    <3>3. Minted' /\ Gone' /\ Importing'
      BY <2>2, <2>3, <2>4, <3>1, <1>n, <1>i DEF Minted, Gone, Importing, V!Known
    <3> QED BY <2>5, <3>2, <3>3
  <2>7. CASE V!AddWrites(u)
    <3>1. /\ pc[u] = "write" /\ mu' = (IF mu = u THEN NoOne ELSE mu) /\ to # "write"
          /\ \A c \in V!Convs : usage'[c] # usage[c] => c \in rows
      BY <2>7, <2>3, <1>n, <1>0 DEF V!AddWrites
    <3>2. mu = u
      BY <3>1, <1>i DEF MuHeld
    <3>3. MuHeld'
      BY <2>2, <2>3, <3>1, <3>2, <1>n, <1>i DEF MuHeld
    <3>4. \A i \in Importers : pc'[i] = pc[i] /\ pc[i] \notin {"row", "ensure", "insert", "publish"}
      BY <2>2, <2>3, <3>2, <1>n, <1>i DEF MuHeld
    <3>5. Minted' /\ Importing'
      BY <2>2, <2>3, <2>4, <3>4, <1>n, <1>i DEF Minted, Importing, V!Known
    <3>6. Gone'
      BY <2>4, <3>1, <1>i DEF Gone, V!Convs
    <3> QED BY <2>5, <3>3, <3>5, <3>6
  <2> HIDE DEF Goal
  <2> QED BY <1>7, <2>6, <2>7
<1>8. ASSUME V!Crash PROVE Goal
  <2>1. \A a \in V!Actors : pc'[a] = IF pc[a] \in V!Over THEN pc[a] ELSE "dead"
    BY <1>8 DEF V!Crash
  <2>2. UNCHANGED <<rows, ready, retired, turns, count, usage, todo, into>>
    BY <1>8 DEF V!Crash
  <2>3. \A a \in V!Actors : pc'[a] \in V!Over /\ (pc'[a] = "idle" => pc[a] = "idle")
    BY <2>1 DEF V!Over
  <2>4. MuHeld'
    BY <2>3, <1>n DEF MuHeld, V!Over
  <2>5. Targets'
    BY <2>2, <2>3, <1>n, <1>i DEF Targets, Before, V!Over
  <2>6. Minted' /\ Gone'
    BY <2>2, <2>3, <1>n, <1>i DEF Minted, Gone, V!Over
  <2>7. Importing'
    BY <2>2, <2>3, <1>n, <1>i DEF Importing, V!Known, Before, V!Over
  <2> QED BY <2>4, <2>5, <2>6, <2>7
<1>9. ASSUME UNCHANGED V!vars PROVE Goal
  BY <1>9, <1>i DEF V!vars, MuHeld, Targets, Minted, Gone, Importing, V!Known
<1> HIDE DEF Goal
<1> QED BY <1>1, <1>2, <1>3, <1>4, <1>5, <1>6, <1>7, <1>8, <1>9 DEF V!Next

\* A list without repeats has none after a new entry.
LEMMA InjectiveAppend ==
  ASSUME NEW E, NEW s \in Seq(E), NEW r \in E, V!IsInjective(s), r \notin V!ToSet(s)
  PROVE  V!IsInjective(Append(s, r))
<1> DEFINE t == Append(s, r)
<1>1. /\ t \in Seq(E) /\ Len(t) = Len(s) + 1 /\ Len(s) \in Nat
      /\ \A i \in 1 .. Len(s) : t[i] = s[i]
      /\ t[Len(s) + 1] = r
  BY AppendProperties, LenProperties
<1>2. DOMAIN t = 1 .. Len(s) + 1 /\ DOMAIN s = 1 .. Len(s)
  BY <1>1, LenProperties
<1>3. \A i \in 1 .. Len(s) : s[i] # r
  BY <1>2 DEF V!ToSet
<1>4. \A i, j \in 1 .. Len(s) : s[i] = s[j] => i = j
  BY <1>2 DEF V!IsInjective
<1> HIDE DEF t
<1>5. ASSUME NEW i \in 1 .. Len(s) + 1, NEW j \in 1 .. Len(s) + 1, t[i] = t[j] PROVE i = j
  <2>1. \A k \in 1 .. Len(s) + 1 : k \in 1 .. Len(s) \/ k = Len(s) + 1
    BY <1>1
  <2> QED BY <1>1, <1>3, <1>4, <1>5, <2>1
<1>6. V!IsInjective(t)
  BY <1>2, <1>5 DEF V!IsInjective
<1> QED BY <1>6 DEF t

\* Every step writes a run once and moves the counter with its turn
\* (CommitConversationTurn).
LEMMA ArchiveCounts ==
  ASSUME ArchiveNames, V!TypeOK, RowsInv, V!ArchivedOnce, V!CountsMatch, [V!Next]_(V!vars)
  PROVE  V!ArchivedOnce' /\ V!CountsMatch'
<1> DEFINE Goal == V!ArchivedOnce' /\ V!CountsMatch'
<1> SUFFICES Goal
  OBVIOUS
<1> USE DEF V!db, V!actors, V!bounds, V!Go
<1>0. /\ turns \in [V!Convs -> V!Lists] /\ count \in [V!Convs -> Nat]
      /\ todo \in [V!Writers -> V!Lists] /\ into \in [V!Writers -> V!Convs]
      /\ DOMAIN pc = V!Actors /\ rows \subseteq V!Convs
  BY DEF V!TypeOK
<1>n. /\ \A w \in V!Writers : w \in Archivers \/ w \in Forkers \/ w \in Importers
      /\ \A c \in Forkers \cup Importers : c \in V!Convs /\ c \in V!Writers
  BY DEF V!Writers, V!Actors, V!Convs
<1>i. Targets /\ Minted /\ Gone /\ Importing
  BY DEF RowsInv
<1>j. /\ \A c \in V!Convs : V!IsInjective(turns[c])
      /\ \A c \in rows : count[c] = Len(turns[c])
  BY DEF V!ArchivedOnce, V!CountsMatch
<1>e. V!IsInjective(<< >>) /\ Len(<< >>) = 0
  BY DEF V!IsInjective
<1>x. ASSUME turns' = turns, \A c \in rows' : (c \in rows /\ count'[c] = count[c])
                                            \/ (count'[c] = 0 /\ turns[c] = << >>)
      PROVE  Goal
  BY <1>x, <1>j, <1>e DEF V!ArchivedOnce, V!CountsMatch
<1>g. ASSUME NEW c \in V!Convs, V!RemoveRows(c) PROVE Goal
  <2>1. \A d \in V!Convs : turns'[d] = (IF d = c THEN << >> ELSE turns[d])
                         /\ (d # c => count'[d] = count[d])
    BY <1>g, <1>0 DEF V!RemoveRows
  <2>2. rows' = rows \ {c}
    BY <1>g DEF V!RemoveRows
  <2> QED BY <2>1, <2>2, <1>j, <1>e, <1>0 DEF V!ArchivedOnce, V!CountsMatch
<1>1. ASSUME NEW w \in V!Writers, V!Ensure(w) PROVE Goal
  <2>1. into[w] \in rows \cup retired
    BY <1>1, <1>n, <1>i DEF V!Ensure, Targets, Minted, Before
  <2> QED BY <1>1, <2>1, <1>x DEF V!Ensure
<1>2. ASSUME NEW w \in V!Writers, V!InsertTurn(w) PROVE Goal
  <2>1. CASE UNCHANGED <<rows, turns, count>>
    BY <2>1, <1>x
  <2>2. CASE /\ into[w] \in rows /\ Head(todo[w]) \notin V!ToSet(turns[into[w]]) /\ rows' = rows
             /\ turns' = [turns EXCEPT ![into[w]] = Append(@, Head(todo[w]))]
             /\ count' = [count EXCEPT ![into[w]] = @ + 1]
    <3> DEFINE c == into[w]
               r == Head(todo[w])
    <3>1. c \in V!Convs /\ turns[c] \in Seq(V!Names) /\ pc[w] = "insert"
      BY <1>0, <1>2 DEF V!Lists, V!InsertTurn
    <3>2. todo[w] \in Seq(V!Names) /\ todo[w] # << >>
      BY <1>0, <1>i, <3>1 DEF V!Lists, Targets
    <3>3. r \in V!Names
      BY <3>2, HeadTailProperties
    <3>4. V!IsInjective(Append(turns[c], r)) /\ Len(Append(turns[c], r)) = Len(turns[c]) + 1
      <4>1. V!IsInjective(turns[c]) /\ r \notin V!ToSet(turns[c])
        BY <1>j, <2>2, <3>1
      <4> HIDE DEF r, c
      <4> QED BY <3>1, <3>3, <4>1, InjectiveAppend, AppendProperties
    <3>5. \A d \in V!Convs : /\ turns'[d] = (IF d = c THEN Append(turns[c], r) ELSE turns[d])
                             /\ count'[d] = (IF d = c THEN count[c] + 1 ELSE count[d])
      BY <2>2, <1>0, <3>1
    <3> HIDE DEF c, r
    <3> QED BY <3>1, <3>4, <3>5, <2>2, <1>j, <1>0 DEF V!ArchivedOnce, V!CountsMatch
  <2> HIDE DEF Goal
  <2> QED BY <1>2, <2>1, <2>2 DEF V!InsertTurn, V!Inserted
<1>3. ASSUME NEW f \in Forkers, V!Create(f) PROVE Goal
  <2>1. f \notin rows /\ turns[f] = << >> /\ count[f] = 0
    BY <1>3, <1>i, <1>n DEF V!Create, Minted, Gone
  <2> QED BY <1>3, <2>1, <1>x DEF V!Create
<1>4. ASSUME NEW i \in Importers, V!ImportRow(i) PROVE Goal
  <2>1. i \notin rows /\ turns[i] = << >> /\ count[i] = 0
    BY <1>4, <1>i, <1>n DEF V!ImportRow, Minted, Gone
  <2> QED BY <1>4, <2>1, <1>x DEF V!ImportRow
<1>5. ASSUME NEW i \in Importers, V!Publish(i) PROVE Goal
  <2>1. turns[i] = <<"i1", "i2">> /\ i \in V!Convs
    BY <1>5, <1>i, <1>n DEF V!Publish, Importing
  <2>2. /\ \A d \in V!Convs : count'[d] = (IF d = i THEN Len(V!Imported) ELSE count[d])
        /\ turns' = turns /\ rows' = rows
    BY <1>5, <1>0, <2>1 DEF V!Publish
  <2>3. Len(V!Imported) = Len(turns[i])
    BY <2>1 DEF V!Imported
  <2> QED BY <2>2, <2>3, <1>j, <1>0 DEF V!ArchivedOnce, V!CountsMatch
<1>6. ASSUME NEW i \in Importers, V!ImportFinds(i) PROVE Goal
  <2>1. UNCHANGED <<rows, turns, count>> \/ \E c \in V!Known : V!RemoveRows(c)
    BY <1>6 DEF V!ImportFinds
  <2> HIDE DEF Goal
  <2> QED BY <2>1, <1>g, <1>n, <1>x DEF V!Known
<1>7. ASSUME NEW f \in Forkers, V!Cleanup(f) PROVE Goal
  <2>1. UNCHANGED <<rows, turns, count>> \/ V!RemoveRows(f)
    BY <1>7 DEF V!Cleanup
  <2> HIDE DEF Goal
  <2> QED BY <2>1, <1>g, <1>n, <1>x
<1>8. ASSUME NEW c \in V!Convs, V!Delete(c) PROVE Goal
  BY <1>8, <1>g DEF V!Delete
<1>9. ASSUME UNCHANGED <<rows, turns, count>> PROVE Goal
  BY <1>9, <1>x
<1>10. ASSUME V!Next,
              \A w \in V!Writers : ~ V!Ensure(w) /\ ~ V!InsertTurn(w),
              \A c \in V!Convs : ~ V!Delete(c),
              \A f \in Forkers : ~ V!Create(f) /\ ~ V!Cleanup(f),
              \A i \in Importers : ~ V!ImportRow(i) /\ ~ V!ImportFinds(i) /\ ~ V!Publish(i)
       PROVE  UNCHANGED <<rows, turns, count>>
  BY <1>10 DEF V!Next, V!Archive, V!ForkReads, V!Settings, V!ImportBegins, V!TotalReads, V!TotalWrites,
       V!Forward, V!AddReads, V!AddWrites, V!Crash
<1> HIDE DEF Goal
<1> QED BY <1>1, <1>2, <1>3, <1>4, <1>5, <1>6, <1>7, <1>8, <1>9, <1>10 DEF V!vars

\* Who has added to a conversation's total, and the import that wrote its own.
AddedTo(c) == {u \in Adders : on[u] = c /\ pc[u] = "done"}

WroteTo(c) == {i \in Importers : into[i] = c /\ outcome[i] = "written"}
\* The total of a row is a sum, of which an adder holds the present value and
\* an importer has seen that it is empty.
UsageInv ==
    /\ \A c \in rows : usage[c] = Cardinality(AddedTo(c)) + Cardinality(WroteTo(c))
    /\ \A u \in Adders :
         /\ pc[u] \in {"write", "done"} => on[u] \in rows \cup retired
         /\ pc[u] = "write" /\ on[u] \in rows => got[u] = usage[on[u]]
    /\ \A i \in Importers :
         /\ pc[i] \in Before \cup {"total", "write"} => outcome[i] = "none"
         /\ pc[i] \in {"total", "write"} \/ outcome[i] = "written" => into[i] \in rows \cup retired
         /\ pc[i] = "write" => usage[into[i]] = 0
         /\ outcome[i] = "gone" => into[i] \in retired
         /\ pc[i] = "forward" => outcome[i] # "none"
         /\ pc[i] = "forwarded" => outcome[i] \in {"written", "gone"}
    /\ \A i, j \in Importers :
         outcome[i] = "written" /\ outcome[j] = "written" /\ into[i] = into[j] /\ into[i] \in rows
           => i = j

\* What may happen to the rows and totals while nobody adds: a row of a fresh id, or a row that goes.
RowsMove ==
    /\ retired \subseteq retired' /\ rows \cup retired \subseteq rows' \cup retired'
    /\ \A c \in rows' :
         \/ (c \in rows /\ usage'[c] = usage[c])
         \/ (c \notin rows \cup retired /\ usage'[c] = 0)
    /\ \A c \in V!Convs : usage'[c] \in {usage[c], 0}
\* ... and to those who add and import.
ActorsMove ==
    /\ UNCHANGED <<into, outcome, got, on>>
    /\ \A u \in Adders : pc'[u] # pc[u] => pc[u] # "done" /\ pc'[u] = "dead"
    /\ \A i \in Importers : pc'[i] # pc[i] => pc'[i] = "dead" \/ (pc[i] \in Before /\ pc'[i] \in Before)

\* What is said of totals survives a step that writes none of them.
LEMMA UsageMoves ==
  ASSUME ArchiveNames, V!TypeOK, RowsInv, UsageInv, RowsMove, ActorsMove
  PROVE  UsageInv'
<1>0. into \in [V!Writers -> V!Convs] /\ rows \subseteq V!Convs /\ Importers \subseteq V!Writers
  BY DEF V!TypeOK, V!Writers
<1>1. \A c : AddedTo(c)' = AddedTo(c) /\ WroteTo(c)' = WroteTo(c)
  BY DEF ActorsMove, AddedTo, WroteTo
<1>2. ASSUME NEW c \in rows' PROVE usage'[c] = Cardinality(AddedTo(c)') + Cardinality(WroteTo(c)')
  <2>1. CASE c \in rows /\ usage'[c] = usage[c]
    BY <1>1, <2>1 DEF UsageInv
  <2>2. CASE c \notin rows \cup retired /\ usage'[c] = 0
    <3>1. AddedTo(c) = {} /\ WroteTo(c) = {}
      BY <2>2 DEF UsageInv, AddedTo, WroteTo
    <3> QED BY <1>1, <2>2, <3>1, FS_EmptySet
  <2> QED BY <2>1, <2>2 DEF RowsMove
<1>3. \A u \in Adders :
         /\ pc'[u] \in {"write", "done"} => on'[u] \in rows' \cup retired'
         /\ pc'[u] = "write" /\ on'[u] \in rows' => got'[u] = usage'[on'[u]]
  BY DEF UsageInv, RowsMove, ActorsMove
<1>4. ASSUME NEW i \in Importers
      PROVE  /\ pc'[i] \in Before \cup {"total", "write"} => outcome'[i] = "none"
             /\ pc'[i] \in {"total", "write"} \/ outcome'[i] = "written" => into'[i] \in rows' \cup retired'
             /\ pc'[i] = "write" => usage'[into'[i]] = 0
             /\ outcome'[i] = "gone" => into'[i] \in retired'
             /\ pc'[i] = "forward" => outcome'[i] # "none"
             /\ pc'[i] = "forwarded" => outcome'[i] \in {"written", "gone"}
  <2>1. into[i] \in V!Convs
    BY <1>0
  <2>2. outcome' = outcome /\ into' = into
    BY DEF ActorsMove
  <2>3. pc'[i] = pc[i] \/ pc'[i] = "dead" \/ (pc[i] \in Before /\ pc'[i] \in Before)
    BY DEF ActorsMove
  <2> QED BY <2>1, <2>2, <2>3 DEF UsageInv, RowsMove, Before
<1>5. \A i, j \in Importers :
        outcome'[i] = "written" /\ outcome'[j] = "written" /\ into'[i] = into'[j] /\ into'[i] \in rows'
          => i = j
  BY DEF UsageInv, RowsMove, ActorsMove
<1> QED BY <1>2, <1>3, <1>4, <1>5 DEF UsageInv

\* Every step keeps a total the sum of what was reported (AddUsage,
\* RecordUsageIfEmpty).
LEMMA ArchiveUsage ==
  ASSUME ArchiveNames, V!TypeOK, RowsInv, UsageInv, [V!Next]_(V!vars)
  PROVE  UsageInv'
<1> DEFINE Goal == UsageInv'
<1> SUFFICES Goal
  OBVIOUS
<1> USE DEF V!db, V!actors, V!bounds, V!Go
<1>0. /\ usage \in [V!Convs -> Nat] /\ rows \subseteq V!Convs
      /\ into \in [V!Writers -> V!Convs] /\ on \in [Adders -> V!Convs] /\ got \in [Adders -> Nat]
      /\ outcome \in [Importers -> {"none", "written", "already", "gone"}]
      /\ DOMAIN pc = V!Actors /\ mu \in Importers \cup Adders \cup {NoOne}
  BY DEF V!TypeOK
<1>n. /\ \A w \in V!Writers : w \in V!Actors
      /\ \A w \in V!Writers : w \in Archivers \/ w \in Forkers \/ w \in Importers
      /\ \A a \in Archivers \cup Forkers \cup Importers : a \in V!Writers
      /\ \A u \in Adders : u \in V!Actors
      /\ \A c \in Forkers \cup Importers : c \in V!Convs
      /\ Main \in V!Convs
  BY DEF V!Writers, V!Actors, V!Convs
<1>i. MuHeld /\ Targets /\ Minted /\ Gone /\ Importing /\ Steps
  BY DEF RowsInv
<1>m. ASSUME NEW a \in V!Actors, NEW to, pc' = [pc EXCEPT ![a] = to]
      PROVE  \A b \in V!Actors : pc'[b] = IF b = a THEN to ELSE pc[b]
  BY <1>0, <1>m
<1>u. ASSUME UNCHANGED <<rows, retired, usage>> PROVE RowsMove
  BY <1>u DEF RowsMove
<1>g. ASSUME NEW c \in V!Convs, V!RemoveRows(c) PROVE RowsMove
  BY <1>g, <1>0, <1>i DEF V!RemoveRows, RowsMove, Gone
<1>w. ASSUME NEW a \in Archivers \cup Forkers, NEW to, pc' = [pc EXCEPT ![a] = to],
             UNCHANGED <<into, outcome, got, on>>
      PROVE  ActorsMove
  <2>1. a \notin Importers \cup Adders
    BY DEF ArchiveNames
  <2> QED BY <1>w, <1>m, <1>n, <2>1 DEF ActorsMove
<1>v. ASSUME NEW i \in Importers, NEW to, pc' = [pc EXCEPT ![i] = to], pc[i] \in Before, to \in Before,
             UNCHANGED <<into, outcome, got, on>>
      PROVE  ActorsMove
  <2>1. i \notin Adders
    BY DEF ArchiveNames
  <2> QED BY <1>v, <1>m, <1>n, <2>1 DEF ActorsMove
<1>1. ASSUME NEW w \in V!Writers, V!Ensure(w) PROVE Goal
  <2>1. into[w] \in rows \cup retired /\ pc[w] = "ensure"
    BY <1>1, <1>n, <1>i DEF V!Ensure, Targets, Minted, Before
  <2>2. RowsMove
    BY <1>1, <2>1, <1>u DEF V!Ensure
  <2>3. w \in Importers => pc' = [pc EXCEPT ![w] = "insert"]
    BY <1>1, <2>1, <1>i, <1>n DEF V!Ensure, Targets, Minted, Gone, Before
  <2>4. PICK to : pc' = [pc EXCEPT ![w] = to]
    BY <1>1 DEF V!Ensure
  <2>5. UNCHANGED <<into, outcome, got, on>>
    BY <1>1 DEF V!Ensure
  <2>6. ActorsMove
    BY <2>1, <2>3, <2>4, <2>5, <1>n, <1>w, <1>v DEF Before
  <2> QED BY <2>2, <2>6, UsageMoves
<1>2. ASSUME NEW w \in V!Writers, V!InsertTurn(w) PROVE Goal
  <2>1. RowsMove
    BY <1>2, <1>u DEF V!InsertTurn, V!Inserted
  <2>2. pc[w] = "insert" /\ UNCHANGED <<into, outcome, got, on>>
    BY <1>2 DEF V!InsertTurn, V!Inserted
  <2>3. w \in Importers => \E to \in Before : pc' = [pc EXCEPT ![w] = to]
    <3>1. ASSUME w \in Importers PROVE \E to \in Before : pc' = [pc EXCEPT ![w] = to]
      <4>1. into[w] \in rows
        BY <2>2, <3>1, <1>i DEF Targets, Minted, Before
      <4>2. V!After(w) = "publish"
        BY <3>1, ArchiveRoles
      <4> QED BY <1>2, <4>1, <4>2 DEF V!InsertTurn, V!Inserted, Before
    <3> QED BY <3>1
  <2>4. PICK to : pc' = [pc EXCEPT ![w] = to]
    BY <1>2 DEF V!InsertTurn, V!Inserted
  <2>5. ActorsMove
    BY <2>2, <2>3, <2>4, <1>n, <1>w, <1>v DEF Before
  <2> QED BY <2>1, <2>5, UsageMoves
<1>3. ASSUME NEW a \in Archivers, V!Archive(a) PROVE Goal
  <2>1. RowsMove /\ ActorsMove
    BY <1>3, <1>u, <1>w DEF V!Archive
  <2> QED BY <2>1, UsageMoves
<1>4. ASSUME NEW c \in V!Convs, V!Delete(c) PROVE Goal
  <2>1. RowsMove /\ ActorsMove
    BY <1>4, <1>g DEF V!Delete, ActorsMove
  <2> QED BY <2>1, UsageMoves
<1>5. ASSUME NEW f \in Forkers, V!ForkReads(f) \/ V!Create(f) \/ V!Settings(f) \/ V!Cleanup(f)
      PROVE Goal
  <2>1. PICK to : pc' = [pc EXCEPT ![f] = to]
    BY <1>5 DEF V!ForkReads, V!Create, V!Settings, V!Cleanup
  <2>2. UNCHANGED <<into, outcome, got, on>>
    BY <1>5 DEF V!ForkReads, V!Create, V!Settings, V!Cleanup
  <2>3. ActorsMove
    BY <2>1, <2>2, <1>w
  <2>4. CASE V!Create(f)
    <3>1. f \notin rows \cup retired /\ usage[f] = 0
      BY <2>4, <1>i, <1>n DEF V!Create, Minted, Gone
    <3>2. RowsMove
      BY <2>4, <3>1 DEF V!Create, RowsMove
    <3> QED BY <2>3, <3>2, UsageMoves
  <2>5. CASE V!ForkReads(f) \/ V!Settings(f) \/ V!Cleanup(f)
    <3>1. RowsMove
      BY <2>5, <1>u, <1>g, <1>n DEF V!ForkReads, V!Settings, V!Cleanup
    <3> QED BY <2>3, <3>1, UsageMoves
  <2> QED BY <1>5, <2>4, <2>5
<1>6. ASSUME NEW i \in Importers, V!ImportBegins(i) \/ V!ImportRow(i) PROVE Goal
  <2>1. ActorsMove
    BY <1>6, <1>v DEF V!ImportBegins, V!ImportRow, Before
  <2>2. CASE V!ImportRow(i)
    <3>1. i \notin rows \cup retired /\ usage[i] = 0
      BY <2>2, <1>i, <1>n DEF V!ImportRow, Minted, Gone
    <3>2. RowsMove
      BY <2>2, <3>1 DEF V!ImportRow, RowsMove
    <3> QED BY <2>1, <3>2, UsageMoves
  <2>3. CASE V!ImportBegins(i)
    <3>1. RowsMove
      BY <2>3, <1>u DEF V!ImportBegins
    <3> QED BY <2>1, <3>1, UsageMoves
  <2> QED BY <1>6, <2>2, <2>3
\* An import's own step, which leaves the totals alone and writes no outcome.
<1>t. ASSUME NEW i \in Importers, NEW to, pc' = [pc EXCEPT ![i] = to],
             UNCHANGED <<rows, retired, usage, got, on>>,
             (outcome'[i] # "written" /\ outcome[i] # "written") \/ UNCHANGED <<into, outcome>>,
             \A j \in Importers : j # i => outcome'[j] = outcome[j] /\ into'[j] = into[j],
             to \in {"total", "write"} => outcome'[i] = "none" /\ into'[i] \in rows \cup retired,
             to \notin Before,
             to = "write" => usage[into'[i]] = 0,
             outcome'[i] = "gone" => into'[i] \in retired,
             to = "forward" => outcome'[i] # "none",
             to = "forwarded" => outcome'[i] \in {"written", "gone"}
      PROVE  Goal
  <2>0. i \notin Adders
    BY DEF ArchiveNames
  <2>1. \A b \in V!Actors : pc'[b] = IF b = i THEN to ELSE pc[b]
    <3>1. pc' = [pc EXCEPT ![i] = to] /\ i \in V!Actors
      BY <1>t, <1>n
    <3> QED BY <3>1, <1>m
  <2>2. \A c : AddedTo(c)' = AddedTo(c)
    BY <1>t, <2>0, <2>1, <1>n DEF AddedTo
  <2>3. \A c : WroteTo(c)' = WroteTo(c)
    BY <1>t DEF WroteTo
  <2>4. \A c \in rows' : usage'[c] = Cardinality(AddedTo(c)') + Cardinality(WroteTo(c)')
    BY <1>t, <2>2, <2>3 DEF UsageInv
  <2>5. \A u \in Adders :
         /\ pc'[u] \in {"write", "done"} => on'[u] \in rows' \cup retired'
         /\ pc'[u] = "write" /\ on'[u] \in rows' => got'[u] = usage'[on'[u]]
    BY <1>t, <2>0, <2>1, <1>n DEF UsageInv
  <2>6. ASSUME NEW j \in Importers
        PROVE  /\ pc'[j] \in Before \cup {"total", "write"} => outcome'[j] = "none"
               /\ pc'[j] \in {"total", "write"} \/ outcome'[j] = "written" => into'[j] \in rows' \cup retired'
               /\ pc'[j] = "write" => usage'[into'[j]] = 0
               /\ outcome'[j] = "gone" => into'[j] \in retired'
               /\ pc'[j] = "forward" => outcome'[j] # "none"
               /\ pc'[j] = "forwarded" => outcome'[j] \in {"written", "gone"}
    <3>1. CASE j = i
      BY <1>t, <2>1, <3>1, <1>n DEF UsageInv
    <3>2. CASE j # i
      BY <1>t, <2>1, <3>2, <1>n DEF UsageInv
    <3> QED BY <3>1, <3>2
  <2>7. \A j, k \in Importers :
          outcome'[j] = "written" /\ outcome'[k] = "written" /\ into'[j] = into'[k] /\ into'[j] \in rows'
            => j = k
    BY <1>t DEF UsageInv
  <2> QED BY <2>4, <2>5, <2>6, <2>7 DEF UsageInv
<1>7. ASSUME NEW i \in Importers, V!ImportFinds(i) PROVE Goal
  <2>1. CASE pc' = [pc EXCEPT ![i] = "row"] /\ into' = into
    <3>1. pc[i] = "find" /\ UNCHANGED <<outcome, got, on>> /\ RowsMove
      BY <1>7, <2>1, <1>u, <1>g, <1>n DEF V!ImportFinds, V!Known
    <3>2. ActorsMove
      BY <2>1, <3>1, <1>v DEF Before
    <3> QED BY <3>1, <3>2, UsageMoves
  <2>2. ASSUME NEW c \in V!Known \cap ready, into' = [into EXCEPT ![i] = c],
               pc' = [pc EXCEPT ![i] = "total"], UNCHANGED V!db
        PROVE  Goal
    <3>1. pc[i] = "find" /\ UNCHANGED <<outcome, got, on>>
      BY <1>7 DEF V!ImportFinds
    <3>2. outcome[i] = "none"
      BY <3>1 DEF UsageInv, Before
    <3>3. into'[i] = c /\ c \in rows /\ \A j \in Importers : j # i => into'[j] = into[j]
      BY <2>2, <1>0, <1>n DEF V!Known
    <3> HIDE DEF Goal
    <3> QED BY <1>t, <2>2, <3>1, <3>2, <3>3 DEF Before
  <2> HIDE DEF Goal
  <2> QED BY <1>7, <2>1, <2>2 DEF V!ImportFinds
<1>8. ASSUME NEW i \in Importers, V!Publish(i) PROVE Goal
  <2>1. pc[i] = "publish" /\ pc' = [pc EXCEPT ![i] = "total"]
        /\ UNCHANGED <<rows, retired, got, on, into, outcome>>
    BY <1>8 DEF V!Publish
  <2>2. usage[i] = 0 /\ i \in rows /\ into[i] = i /\ outcome[i] = "none"
    BY <2>1, <1>i DEF Minted, Targets, UsageInv, Before
  <2>3. usage' = usage
    BY <1>8, <2>2, <1>0, <1>n DEF V!Publish
  <2> HIDE DEF Goal
  <2> QED BY <1>t, <2>1, <2>2, <2>3 DEF Before
<1>9. ASSUME NEW i \in Importers, V!TotalReads(i) PROVE Goal
  <2>1. pc[i] = "total" /\ UNCHANGED <<rows, retired, usage, got, on, into>>
    BY <1>9 DEF V!TotalReads
  <2>2. outcome[i] = "none" /\ into[i] \in rows \cup retired
    BY <2>1 DEF UsageInv
  <2>3. ASSUME NEW o \in {"gone", "already"}, outcome' = [outcome EXCEPT ![i] = o],
               pc' = [pc EXCEPT ![i] = "forward"], o = "gone" => into[i] \in retired
        PROVE  Goal
    <3>1. outcome'[i] = o /\ \A j \in Importers : j # i => outcome'[j] = outcome[j]
      BY <2>3, <1>0
    <3> HIDE DEF Goal
    <3> QED BY <1>t, <2>1, <2>2, <2>3, <3>1 DEF Before
  <2>4. ASSUME pc' = [pc EXCEPT ![i] = "write"], outcome' = outcome, usage[into[i]] = 0
        PROVE  Goal
    <3> HIDE DEF Goal
    <3> QED BY <1>t, <2>1, <2>2, <2>4 DEF Before
  <2>5. into[i] \notin rows => into[i] \in retired
    BY <2>2
  <2> HIDE DEF Goal
  <2> QED BY <1>9, <2>3, <2>4, <2>5 DEF V!TotalReads, V!Outcome
<1>10. ASSUME NEW i \in Importers, V!Forward(i) PROVE Goal
  <2>1. pc[i] = "forward" /\ UNCHANGED <<rows, retired, usage, got, on, into, outcome>>
    BY <1>10 DEF V!Forward
  <2>2. outcome[i] \in {"written", "already", "gone"} /\ (outcome[i] = "gone" => into[i] \in retired)
    BY <2>1, <1>0 DEF UsageInv
  <2>3. PICK to \in {"done", "forwarded"} : pc' = [pc EXCEPT ![i] = to] /\ (to = "forwarded" => outcome[i] # "already")
    BY <1>10 DEF V!Forward
  <2> HIDE DEF Goal
  <2> QED BY <1>t, <2>1, <2>2, <2>3 DEF Before
<1>11. ASSUME NEW i \in Importers, V!TotalWrites(i) PROVE Goal
  <2>1. /\ pc[i] = "write" /\ pc' = [pc EXCEPT ![i] = "forward"]
        /\ UNCHANGED <<rows, retired, got, on, into>>
    BY <1>11 DEF V!TotalWrites
  <2>2. outcome[i] = "none" /\ into[i] \in rows \cup retired /\ usage[into[i]] = 0 /\ mu = i
        /\ into[i] \in V!Convs
    BY <2>1, <1>i, <1>0, <1>n DEF UsageInv, MuHeld
  <2>3. CASE into[i] \notin rows
    <3>1. outcome' = [outcome EXCEPT ![i] = "gone"] /\ usage' = usage
      BY <1>11, <2>3 DEF V!TotalWrites, V!Outcome
    <3>2. outcome'[i] = "gone" /\ \A j \in Importers : j # i => outcome'[j] = outcome[j]
      BY <3>1, <1>0
    <3> HIDE DEF Goal
    <3> QED BY <1>t, <2>1, <2>2, <2>3, <3>1, <3>2 DEF Before
  <2>4. ASSUME NEW c \in rows, into[i] = c PROVE Goal
    <3>1. outcome' = [outcome EXCEPT ![i] = "written"] /\ usage' = [usage EXCEPT ![c] = 1]
      BY <1>11, <2>4 DEF V!TotalWrites, V!Outcome, V!ImportTotal
    <3>2. /\ outcome'[i] = "written" /\ \A j \in Importers : j # i => outcome'[j] = outcome[j]
          /\ usage'[c] = 1 /\ \A d \in V!Convs : d # c => usage'[d] = usage[d]
      BY <3>1, <1>0, <2>2
    <3>3. i \notin Adders
      BY DEF ArchiveNames
    <3>4. \A b \in V!Actors : pc'[b] = IF b = i THEN "forward" ELSE pc[b]
      BY <2>1, <1>m, <1>n
    <3>5. \A d : AddedTo(d)' = AddedTo(d)
      BY <2>1, <3>3, <3>4, <1>n DEF AddedTo
    <3>6. /\ IsFiniteSet(AddedTo(c)) /\ IsFiniteSet(WroteTo(c))
      BY FS_Subset DEF AddedTo, WroteTo, ArchiveNames
    <3>7. AddedTo(c) = {} /\ WroteTo(c) = {}
      <4>1. Cardinality(AddedTo(c)) \in Nat /\ Cardinality(WroteTo(c)) \in Nat
        BY <3>6, FS_CardinalityType
      <4>2. Cardinality(AddedTo(c)) = 0 /\ Cardinality(WroteTo(c)) = 0
        BY <4>1, <2>2, <2>4 DEF UsageInv
      <4> QED BY <3>6, <4>2, FS_EmptySet
    <3>8. WroteTo(c)' = {i} /\ \A d : d # c => WroteTo(d)' = WroteTo(d)
      BY <2>1, <2>4, <3>2, <3>7 DEF WroteTo
    <3>9. \A d \in rows' : usage'[d] = Cardinality(AddedTo(d)') + Cardinality(WroteTo(d)')
      <4>1. \A d \in rows : d # c => usage'[d] = Cardinality(AddedTo(d)') + Cardinality(WroteTo(d)')
        BY <3>2, <3>5, <3>8, <1>0 DEF UsageInv
      <4>2. usage'[c] = Cardinality(AddedTo(c)') + Cardinality(WroteTo(c)')
        <5>1. AddedTo(c)' = {} /\ WroteTo(c)' = {i}
          BY <3>5, <3>7, <3>8
        <5>2. Cardinality(AddedTo(c)') = 0 /\ Cardinality(WroteTo(c)') = 1
          BY <5>1, FS_EmptySet, FS_Singleton
        <5> QED BY <3>2, <5>2
      <4> QED BY <4>1, <4>2, <2>1
    <3>10. \A u \in Adders : pc'[u] = pc[u] /\ pc[u] # "write"
      BY <2>2, <3>3, <3>4, <1>n, <1>i DEF MuHeld
    <3>11. \A j \in Importers : j # i => pc'[j] = pc[j] /\ pc[j] # "write"
      BY <2>2, <3>4, <1>n, <1>i DEF MuHeld
    <3>12. \A u \in Adders :
         /\ pc'[u] \in {"write", "done"} => on'[u] \in rows' \cup retired'
         /\ pc'[u] = "write" /\ on'[u] \in rows' => got'[u] = usage'[on'[u]]
      BY <2>1, <3>10 DEF UsageInv
    <3>13. ASSUME NEW j \in Importers
        PROVE  /\ pc'[j] \in Before \cup {"total", "write"} => outcome'[j] = "none"
               /\ pc'[j] \in {"total", "write"} \/ outcome'[j] = "written" => into'[j] \in rows' \cup retired'
               /\ pc'[j] = "write" => usage'[into'[j]] = 0
               /\ outcome'[j] = "gone" => into'[j] \in retired'
               /\ pc'[j] = "forward" => outcome'[j] # "none"
               /\ pc'[j] = "forwarded" => outcome'[j] \in {"written", "gone"}
      <4>1. CASE j = i
        BY <2>1, <2>2, <3>2, <3>4, <4>1, <1>n DEF Before
      <4>2. CASE j # i
        BY <2>1, <3>2, <3>11, <4>2 DEF UsageInv
      <4> QED BY <4>1, <4>2
    <3>14. \A j, k \in Importers :
          outcome'[j] = "written" /\ outcome'[k] = "written" /\ into'[j] = into'[k] /\ into'[j] \in rows'
            => j = k
      <4>1. \A j \in Importers : j # i /\ into[j] = c => outcome[j] # "written"
        BY <3>7 DEF WroteTo
      <4> QED BY <4>1, <2>1, <2>4, <3>2 DEF UsageInv
    <3> QED BY <3>9, <3>12, <3>13, <3>14 DEF UsageInv
  <2> HIDE DEF Goal
  <2> QED BY <2>3, <2>4
<1>12. ASSUME NEW u \in Adders, V!AddReads(u) \/ V!AddWrites(u) PROVE Goal
  <2>0. u \notin Importers
    BY DEF ArchiveNames
  <2>1. UNCHANGED <<rows, retired, into, outcome>>
    BY <1>12 DEF V!AddReads, V!AddWrites
  <2>2. PICK to \in {"write", "done", "gone"} : pc' = [pc EXCEPT ![u] = to]
    BY <1>12 DEF V!AddReads, V!AddWrites
  <2>3. \A b \in V!Actors : pc'[b] = IF b = u THEN to ELSE pc[b]
    BY <2>2, <1>m, <1>n
  <2>4. \A d : WroteTo(d)' = WroteTo(d)
    BY <2>1 DEF WroteTo
  <2>5. ASSUME \A i \in Importers : pc[i] = "write" => usage'[into[i]] = 0
        PROVE  \A i \in Importers :
                 /\ pc'[i] \in Before \cup {"total", "write"} => outcome'[i] = "none"
                 /\ pc'[i] \in {"total", "write"} \/ outcome'[i] = "written" => into'[i] \in rows' \cup retired'
                 /\ pc'[i] = "write" => usage'[into'[i]] = 0
                 /\ outcome'[i] = "gone" => into'[i] \in retired'
                 /\ pc'[i] = "forward" => outcome'[i] # "none"
                 /\ pc'[i] = "forwarded" => outcome'[i] \in {"written", "gone"}
    BY <2>0, <2>1, <2>3, <2>5, <1>n DEF UsageInv
  <2>6. \A j, k \in Importers :
          outcome'[j] = "written" /\ outcome'[k] = "written" /\ into'[j] = into'[k] /\ into'[j] \in rows'
            => j = k
    BY <2>1 DEF UsageInv
  <2>7. CASE V!AddReads(u)
    <3>1. PICK c \in V!Convs : /\ V!Visible(c) /\ on' = [on EXCEPT ![u] = c]
                               /\ got' = [got EXCEPT ![u] = usage[c]]
      BY <2>7 DEF V!AddReads
    <3>2. c \in rows /\ usage' = usage /\ to = "write" /\ pc[u] = "idle"
      BY <2>7, <3>1, <2>3, <1>n, <1>0 DEF V!AddReads, V!Visible
    <3>3. /\ on'[u] = c /\ got'[u] = usage[c]
          /\ \A v \in Adders : v # u => on'[v] = on[v] /\ got'[v] = got[v]
      BY <3>1, <1>0
    <3>4. \A d : AddedTo(d)' = AddedTo(d)
      BY <2>3, <3>2, <3>3, <1>n DEF AddedTo
    <3>5. \A d \in rows' : usage'[d] = Cardinality(AddedTo(d)') + Cardinality(WroteTo(d)')
      BY <2>1, <2>4, <3>2, <3>4 DEF UsageInv
    <3>6. \A v \in Adders :
         /\ pc'[v] \in {"write", "done"} => on'[v] \in rows' \cup retired'
         /\ pc'[v] = "write" /\ on'[v] \in rows' => got'[v] = usage'[on'[v]]
      BY <2>1, <2>3, <3>2, <3>3, <1>n DEF UsageInv
    <3>7. \A i \in Importers : pc[i] = "write" => usage'[into[i]] = 0
      BY <3>2 DEF UsageInv
    <3> QED BY <2>5, <2>6, <3>5, <3>6, <3>7 DEF UsageInv
  <2>8. ASSUME V!AddWrites(u), NEW c, on[u] = c PROVE Goal
    <3>1. pc[u] = "write" /\ UNCHANGED <<on, got>> /\ mu = u /\ c \in V!Convs
      BY <2>8, <1>i, <1>0 DEF V!AddWrites, MuHeld
    <3>2. \A v \in Adders : v # u => pc'[v] = pc[v] /\ pc[v] # "write"
      BY <2>3, <3>1, <1>n, <1>i DEF MuHeld
    <3>3. \A i \in Importers : pc[i] # "write"
      BY <2>0, <3>1, <1>i DEF MuHeld
    <3>4. pc'[u] = to /\ to # "write" /\ c \in rows \cup retired
      BY <2>3, <2>8, <3>1, <1>n, <1>0 DEF V!AddWrites, UsageInv
    <3>5. \A v \in Adders :
         /\ pc'[v] \in {"write", "done"} => on'[v] \in rows' \cup retired'
         /\ pc'[v] = "write" /\ on'[v] \in rows' => got'[v] = usage'[on'[v]]
      BY <2>1, <3>1, <3>2, <3>4 DEF UsageInv
    <3>6. \A d \in rows' : usage'[d] = Cardinality(AddedTo(d)') + Cardinality(WroteTo(d)')
      <4>1. CASE c \notin rows
        <5>1. to = "gone" /\ usage' = usage
          BY <2>8, <4>1, <3>4, <2>3, <1>m, <1>n DEF V!AddWrites
        <5>2. \A d : AddedTo(d)' = AddedTo(d)
          BY <3>1, <3>2, <3>4, <5>1 DEF AddedTo
        <5> QED BY <2>1, <2>4, <5>1, <5>2 DEF UsageInv
      <4>2. CASE c \in rows
        <5>1. to = "done" /\ usage' = [usage EXCEPT ![c] = got[u] + 1]
          BY <2>8, <4>2, <3>4, <1>m, <1>n DEF V!AddWrites
        <5>2. usage'[c] = usage[c] + 1 /\ \A d \in V!Convs : d # c => usage'[d] = usage[d]
          <6>1. got[u] = usage[c]
            BY <2>8, <3>1, <4>2 DEF UsageInv
          <6> QED BY <5>1, <6>1, <3>1, <1>0
        <5>3. AddedTo(c)' = AddedTo(c) \cup {u} /\ u \notin AddedTo(c)
              /\ \A d : d # c => AddedTo(d)' = AddedTo(d)
          BY <2>8, <3>1, <3>2, <3>4, <5>1 DEF AddedTo
        <5>4. IsFiniteSet(AddedTo(c)) /\ IsFiniteSet(WroteTo(c))
          BY FS_Subset DEF AddedTo, WroteTo, ArchiveNames
        <5>5. Cardinality(AddedTo(c)') = Cardinality(AddedTo(c)) + 1
          BY <5>3, <5>4, FS_AddElement
        <5>6. Cardinality(AddedTo(c)) \in Nat /\ Cardinality(WroteTo(c)) \in Nat
          BY <5>4, FS_CardinalityType
        <5>7. usage[c] = Cardinality(AddedTo(c)) + Cardinality(WroteTo(c))
          BY <4>2 DEF UsageInv
        <5>8. usage'[c] = Cardinality(AddedTo(c)') + Cardinality(WroteTo(c)')
          BY <5>2, <5>5, <5>6, <5>7, <2>4
        <5>9. \A d \in rows : d # c => usage'[d] = Cardinality(AddedTo(d)') + Cardinality(WroteTo(d)')
          BY <5>2, <5>3, <2>4, <1>0 DEF UsageInv
        <5> QED BY <5>8, <5>9, <2>1
      <4> QED BY <4>1, <4>2
    <3>7. \A i \in Importers : pc[i] = "write" => usage'[into[i]] = 0
      BY <3>3
    <3> QED BY <2>5, <2>6, <3>5, <3>6, <3>7 DEF UsageInv
  <2> HIDE DEF Goal
  <2> QED BY <1>12, <2>7, <2>8
<1>13. ASSUME V!Crash PROVE Goal
  <2>1. \A a \in V!Actors : pc'[a] = IF pc[a] \in V!Over THEN pc[a] ELSE "dead"
    BY <1>13 DEF V!Crash
  <2>2. ActorsMove
    BY <1>13, <2>1, <1>n DEF V!Crash, ActorsMove, V!Over
  <2>3. RowsMove
    BY <1>13, <1>u DEF V!Crash
  <2> QED BY <2>2, <2>3, UsageMoves
<1>14. ASSUME UNCHANGED V!vars PROVE Goal
  <2>1. RowsMove /\ ActorsMove
    BY <1>14, <1>u DEF V!vars, ActorsMove
  <2> QED BY <2>1, UsageMoves
<1> HIDE DEF Goal
<1> QED BY <1>1, <1>2, <1>3, <1>4, <1>5, <1>6, <1>7, <1>8, <1>9, <1>10, <1>11, <1>12, <1>13, <1>14
     DEF V!Next

\* A set in which all are equal has at most one element.
LEMMA AtMostOne ==
  ASSUME NEW E, \A x, y \in E : x = y
  PROVE  Cardinality(E) = IF E = {} THEN 0 ELSE 1
<1>1. CASE E = {}
  BY <1>1, FS_EmptySet
<1>2. CASE E # {}
  <2>1. PICK x \in E : TRUE
    BY <1>2
  <2>2. E = {x}
    BY <2>1
  <2> QED BY <2>2, <1>2, FS_Singleton
<1> QED BY <1>1, <1>2

\* One conversation with one turn at first, and nobody at work.
LEMMA ArchiveInit ==
  ASSUME ArchiveNames, V!Init
  PROVE  V!TypeOK /\ RowsInv /\ V!ArchivedOnce /\ V!CountsMatch /\ UsageInv
<1>n. /\ \A f \in Forkers : f # Main /\ f \notin Archivers /\ f \in V!Convs /\ f \in V!Writers
      /\ \A i \in Importers : i # Main /\ i \notin Archivers /\ i \in V!Convs /\ i \in V!Writers
      /\ \A a \in Archivers : a \in V!Writers
      /\ \A w \in V!Writers : w \in V!Actors /\ (w \notin Archivers => w \in V!Convs)
      /\ \A u \in Adders : u \in V!Actors
      /\ Main \in V!Convs
  BY DEF ArchiveNames, V!Convs, V!Writers, V!Actors
<1>l. << >> \in V!Lists /\ <<"t0">> \in V!Lists /\ Len(<<"t0">>) = 1 /\ Len(<< >>) = 0
  BY DEF V!Lists, V!Names
<1>1. /\ rows = {Main} /\ ready = {} /\ retired = {}
      /\ turns = [c \in V!Convs |-> IF c = Main THEN <<"t0">> ELSE << >>]
      /\ count = [c \in V!Convs |-> IF c = Main THEN 1 ELSE 0]
      /\ usage = [c \in V!Convs |-> 0]
      /\ pc = [a \in V!Actors |-> "idle"]
      /\ todo = [w \in V!Writers |-> << >>]
      /\ into = [w \in V!Writers |-> IF w \in Archivers THEN Main ELSE w]
      /\ outcome = [w \in Importers |-> "none"]
      /\ got = [u \in Adders |-> 0] /\ on = [u \in Adders |-> Main]
      /\ mu = NoOne /\ importMu = NoOne /\ deletes = 0 /\ crashes = 0
  BY DEF V!Init
<1>2. V!TypeOK
  <2>1. rows \subseteq V!Convs /\ retired \subseteq V!Convs /\ ready \subseteq Importers
    BY <1>1, <1>n
  <2>2. turns \in [V!Convs -> V!Lists] /\ count \in [V!Convs -> Nat] /\ usage \in [V!Convs -> Nat]
    BY <1>1, <1>l
  <2>3. /\ pc \in [V!Actors -> V!Over \cup {"ensure", "insert", "create", "settings",
                                  "cleanup", "find", "row", "publish",
                                  "total", "write", "forward"}]
        /\ outcome \in [Importers -> {"none", "written", "already", "gone"}]
    BY <1>1 DEF V!Over
  <2>4. todo \in [V!Writers -> V!Lists] /\ into \in [V!Writers -> V!Convs]
    BY <1>1, <1>l, <1>n
  <2>5. got \in [Adders -> Nat] /\ on \in [Adders -> V!Convs]
    BY <1>1, <1>n
  <2>6. /\ mu \in Importers \cup Adders \cup {NoOne} /\ importMu \in Importers \cup {NoOne}
        /\ deletes \in 0 .. MaxDeletes /\ crashes \in 0 .. MaxCrashes
    BY <1>1 DEF ArchiveNames
  <2> QED BY <2>1, <2>2, <2>3, <2>4, <2>5, <2>6 DEF V!TypeOK
<1>3. RowsInv
  <2>1. Steps /\ MuHeld /\ Targets
    BY <1>1, <1>n DEF Steps, MuHeld, Targets, V!Over, Before
  <2>2. Minted /\ Gone
    BY <1>1, <1>n DEF Minted, Gone
  <2>3. Importing
    BY <1>1, <1>n DEF Importing, V!Known
  <2> QED BY <2>1, <2>2, <2>3 DEF RowsInv
<1>4. V!ArchivedOnce
  <2>1. V!IsInjective(<< >>) /\ V!IsInjective(<<"t0">>)
    BY DEF V!IsInjective
  <2> QED BY <1>1, <2>1 DEF V!ArchivedOnce
<1>5. V!CountsMatch
  BY <1>1, <1>l, <1>n DEF V!CountsMatch
<1>6. UsageInv
  <2>1. \A c : AddedTo(c) = {} /\ WroteTo(c) = {}
    BY <1>1, <1>n DEF AddedTo, WroteTo
  <2>2. Cardinality({}) + Cardinality({}) = 0
    BY FS_EmptySet
  <2>3. \A c \in rows : usage[c] = Cardinality(AddedTo(c)) + Cardinality(WroteTo(c))
    BY <1>1, <1>n, <2>1, <2>2
  <2> QED BY <1>1, <1>n, <2>3 DEF UsageInv, Before
<1> QED BY <1>2, <1>3, <1>4, <1>5, <1>6

\* The inductive invariant of SessionArchive.
ArchiveInv == V!TypeOK /\ RowsInv /\ V!ArchivedOnce /\ V!CountsMatch /\ UsageInv

\* It holds of every behaviour.
LEMMA ArchiveAlways == ArchiveNames /\ V!Spec => []ArchiveInv
<1> SUFFICES ASSUME ArchiveNames PROVE V!Spec => []ArchiveInv
  OBVIOUS
<1>1. V!Init => ArchiveInv
  BY ArchiveInit DEF ArchiveInv
<1>2. ArchiveInv /\ [V!Next]_(V!vars) => ArchiveInv'
  BY ArchiveTypes, ArchiveStep, ArchiveCounts, ArchiveUsage DEF ArchiveInv
<1> QED BY <1>1, <1>2, PTL DEF V!Spec

\* What it says of the properties the runs check.
LEMMA ArchiveSays ==
  ASSUME ArchiveNames, ArchiveInv
  PROVE  /\ V!TypeOK
         /\ V!DeletedIsGone /\ V!ArchivedOnce /\ V!CountsMatch
         /\ V!ImportIsWhole /\ V!OneImport
         /\ V!UsageIsSum /\ V!CountedOnce
<1>0. /\ V!TypeOK /\ Gone /\ Importing /\ UsageInv /\ V!ArchivedOnce /\ V!CountsMatch
  BY DEF ArchiveInv, RowsInv
<1>c. \A E : V!Cardinality(E) = Cardinality(E)
  BY DEF V!Cardinality, Cardinality
<1>1. V!DeletedIsGone
  BY <1>0 DEF V!DeletedIsGone, Gone, V!TypeOK
<1>2. V!ImportIsWhole
  <2>1. V!IsPrefix(V!Imported, V!Imported)
    BY DEF V!IsPrefix, V!Imported
  <2> QED BY <1>0, <2>1 DEF V!ImportIsWhole, V!Visible, Importing, V!Imported
<1>3. V!OneImport
  <2>1. \A i, j \in ready : i = j
    BY <1>0 DEF Gone, Importing, V!Known, V!TypeOK
  <2>2. Cardinality(ready) <= 1
    BY <2>1, AtMostOne
  <2> QED BY <2>2, <1>c DEF V!OneImport
<1>4. V!UsageIsSum
  BY <1>0, <1>c DEF V!UsageIsSum, UsageInv, AddedTo, WroteTo
<1>5. V!CountedOnce
  <2> SUFFICES ASSUME NEW c \in rows PROVE V!Cardinality(V!Counted(c)) <= 1
    BY DEF V!CountedOnce
  <2>1. \A i \in V!Counted(c) : i \in Importers /\ into[i] = c /\ outcome[i] = "written"
    BY <1>0 DEF V!Counted, UsageInv, Gone
  <2>2. \A i, j \in V!Counted(c) : i = j
    BY <1>0, <2>1 DEF UsageInv
  <2>3. Cardinality(V!Counted(c)) <= 1
    BY <2>2, AtMostOne
  <2> QED BY <2>3, <1>c
<1> QED BY <1>0, <1>1, <1>2, <1>3, <1>4, <1>5

(***************************************************************************)
(* A deleted conversation has no row, turn or usage again, whatever        *)
(* append, fork, import or total was under way ("no writer may recreate    *)
(* it"); a run has one turn in a conversation, and the counter is the      *)
(* number of turns. For any number of archivers, forks, imports and usage  *)
(* writers, of any runs, with deletions and deaths of the process anywhere *)
(* (sessions/store.go, state/archive.go).                                  *)
(***************************************************************************)
THEOREM DeletedStaysGone ==
  ArchiveNames /\ V!Spec => [](V!TypeOK /\ V!DeletedIsGone /\ V!ArchivedOnce /\ V!CountsMatch)
<1> SUFFICES ASSUME ArchiveNames
             PROVE  V!Spec => [](V!TypeOK /\ V!DeletedIsGone /\ V!ArchivedOnce /\ V!CountsMatch)
  OBVIOUS
<1>1. ArchiveInv => V!TypeOK /\ V!DeletedIsGone /\ V!ArchivedOnce /\ V!CountsMatch
  BY ArchiveSays
<1> QED BY <1>1, ArchiveAlways, PTL

(***************************************************************************)
(* A reader never sees half an import, and one source is one conversation, *)
(* for any number of racing imports (sessions/import.go: Store.Import).    *)
(***************************************************************************)
THEOREM ImportsAreWhole == ArchiveNames /\ V!Spec => [](V!ImportIsWhole /\ V!OneImport)
<1> SUFFICES ASSUME ArchiveNames PROVE V!Spec => [](V!ImportIsWhole /\ V!OneImport)
  OBVIOUS
<1>1. ArchiveInv => V!ImportIsWhole /\ V!OneImport
  BY ArchiveSays
<1> QED BY <1>1, ArchiveAlways, PTL

(***************************************************************************)
(* The total of a conversation is the sum of what its writers reported and *)
(* of the import's own total, and an import is counted once while the      *)
(* conversation is there: no read and write of a total overwrites another  *)
(* (AddUsage, RecordUsageIfEmpty).                                         *)
(***************************************************************************)
THEOREM UsageIsCounted == ArchiveNames /\ V!Spec => [](V!UsageIsSum /\ V!CountedOnce)
<1> SUFFICES ASSUME ArchiveNames PROVE V!Spec => [](V!UsageIsSum /\ V!CountedOnce)
  OBVIOUS
<1>1. ArchiveInv => V!UsageIsSum /\ V!CountedOnce
  BY ArchiveSays
<1> QED BY <1>1, ArchiveAlways, PTL
=============================================================================
