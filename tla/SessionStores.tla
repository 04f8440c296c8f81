--------------------------- MODULE SessionStores ---------------------------
(***************************************************************************)
(* The session stores of internal/orchestration/host/stores.go: one open   *)
(* SQLite handle per workspace root, shared by reference count, opened and *)
(* migrated under openMu, closed with its last reference; and the walk of  *)
(* the message search index, which runs detached on the handle without a   *)
(* reference.                                                              *)
(*                                                                         *)
(*   Openers    Host assemblies and adapter calls (OpenSessions): they own *)
(*              a reference                                                *)
(*   Borrowers  adapter calls that use the store of the live Host          *)
(*              (Conversation.workspaceSessions): they own none            *)
(*                                                                         *)
(* A message is its archive id; ids are never reused (AUTOINCREMENT).      *)
(***************************************************************************)
EXTENDS Naturals, FiniteSets

CONSTANTS Roots, Handles, Openers, Borrowers,
          NoHandle, NoUser,
          Batch,        \* rows one backfill transaction indexes
          Old,          \* messages archived before the index existed: 1 .. Old
          MaxId         \* bound: archive ids ever given out in one root

Holders == Openers \cup Borrowers

ASSUME StoresAssumption ==
    /\ NoHandle \notin Handles /\ NoUser \notin Holders
    /\ Openers \cap Borrowers = {} /\ IsFiniteSet(Openers)
    /\ Batch \in Nat \ {0} /\ Old \in Nat /\ MaxId \in Nat

VARIABLES
    pool, refs,     \* Manager.stores
    openMu,         \* holder of Manager.openMu
    live, root,     \* per handle: its database is open, and on which root
    archive, index, \* per root, on disk: archive_messages, message_fts
    nextId,         \* per root, on disk: the AUTOINCREMENT sequence
    recorded,       \* per root, on disk: schema_migrations has the backfill
    walk,           \* per handle: where its backfill is
    last, upto, batch, \* its cursor lastID, and the batch it has read
    pc, want, held  \* per user

poolVars == <<pool, refs, openMu>>
diskVars == <<archive, index, nextId, recorded>>
walkVars == <<walk, last, upto, batch>>
vars == <<poolVars, live, root, diskVars, walkVars, pc, want, held>>

Ids == 1 .. MaxId
WalkStates == {"none", "check", "scan", "begin", "tx", "record"}
Labels == {"idle", "lock", "recheck", "opening", "migrate", "install",
           "using", "borrowed"}

TypeOK ==
    /\ pool \in [Roots -> Handles \cup {NoHandle}] /\ refs \in [Roots -> Nat]
    /\ openMu \in Holders \cup {NoUser}
    /\ live \in [Handles -> BOOLEAN] /\ root \in [Handles -> Roots]
    /\ archive \in [Roots -> SUBSET Nat] /\ index \in [Roots -> SUBSET Nat]
    /\ nextId \in [Roots -> Nat] /\ recorded \in [Roots -> BOOLEAN]
    /\ walk \in [Handles -> WalkStates]
    /\ last \in [Handles -> Nat] /\ upto \in [Handles -> Nat]
    /\ batch \in [Handles -> SUBSET Nat]
    /\ pc \in [Holders -> Labels] /\ want \in [Holders -> Roots]
    /\ held \in [Holders -> Handles \cup {NoHandle}]

Quiet ==
    /\ pool = [r \in Roots |-> NoHandle] /\ refs = [r \in Roots |-> 0]
    /\ openMu = NoUser
    /\ live = [h \in Handles |-> FALSE] /\ root \in [Handles -> Roots]
    /\ walk = [h \in Handles |-> "none"] /\ last = [h \in Handles |-> 0]
    /\ upto = [h \in Handles |-> 0] /\ batch = [h \in Handles |-> {}]
    /\ pc = [u \in Holders |-> "idle"] /\ want \in [Holders -> Roots]
    /\ held = [u \in Holders |-> NoHandle]

Init ==
    /\ Quiet
    /\ archive = [r \in Roots |-> 1 .. Old] /\ index = [r \in Roots |-> {}]
    /\ nextId = [r \in Roots |-> Old + 1]
    /\ recorded = [r \in Roots |-> FALSE]

Go(u, from, to) == pc[u] = from /\ pc' = [pc EXCEPT ![u] = to]

-----------------------------------------------------------------------------
(* acquireStore                                                             *)

\* The store is pooled: one more reference to it.
Share(u, r) ==
    /\ pool[r] # NoHandle
    /\ refs' = [refs EXCEPT ![r] = @ + 1]
    /\ held' = [held EXCEPT ![u] = pool[r]]

Hit(u, r) ==
    /\ Go(u, "idle", "using") /\ Share(u, r)
    /\ want' = [want EXCEPT ![u] = r]
    /\ UNCHANGED <<pool, openMu, live, root, diskVars, walkVars>>

Miss(u, r) ==
    /\ Go(u, "idle", "lock") /\ pool[r] = NoHandle
    /\ want' = [want EXCEPT ![u] = r]
    /\ UNCHANGED <<poolVars, live, root, diskVars, walkVars, held>>

\* Variant: first opens are not serialized.
LockOpen_Free(u) ==
    /\ Go(u, "lock", "recheck")
    /\ openMu' = u
    /\ UNCHANGED <<pool, refs, live, root, diskVars, walkVars, want, held>>

LockOpen(u) ==
    /\ openMu = NoUser /\ Go(u, "lock", "recheck")
    /\ openMu' = u
    /\ UNCHANGED <<pool, refs, live, root, diskVars, walkVars, want, held>>

\* Variant: openMu is not released when the second look finds the store.
Recheck_KeepsLock(u) ==
    /\ \/ /\ Go(u, "recheck", "using") /\ Share(u, want[u])
          /\ UNCHANGED <<pool, openMu>>
       \/ /\ Go(u, "recheck", "opening") /\ pool[want[u]] = NoHandle
          /\ UNCHANGED <<poolVars, held>>
    /\ UNCHANGED <<live, root, diskVars, walkVars, want>>

Recheck(u) ==
    /\ \/ /\ Go(u, "recheck", "using") /\ Share(u, want[u])
          /\ openMu' = NoUser /\ UNCHANGED pool
       \/ /\ Go(u, "recheck", "opening") /\ pool[want[u]] = NoHandle
          /\ UNCHANGED <<poolVars, held>>
    /\ UNCHANGED <<live, root, diskVars, walkVars, want>>

\* Identities of closed handles are reused once nothing points at them.
Forgotten(h) ==
    ~live[h] /\ walk[h] = "none" /\ \A u \in Holders : held[u] # h

\* sessions.New opens the database.
OpenDB(u, h) ==
    /\ Go(u, "opening", "migrate") /\ Forgotten(h)
    /\ live' = [live EXCEPT ![h] = TRUE]
    /\ root' = [root EXCEPT ![h] = want[u]]
    /\ held' = [held EXCEPT ![u] = h]
    /\ UNCHANGED <<poolVars, diskVars, walkVars, want>>

Migrate(u) ==
    /\ Go(u, "migrate", "install")
    /\ UNCHANGED <<poolVars, live, root, diskVars, walkVars, want, held>>

\* Variant: a failed open gives back a reference it never took.
OpenFails_Releases(u) ==
    /\ Go(u, "opening", "idle") \/ Go(u, "migrate", "idle")
    /\ openMu' = NoUser
    /\ refs' = [refs EXCEPT ![want[u]] = @ - 1]
    /\ live' = IF held[u] = NoHandle THEN live ELSE [live EXCEPT ![held[u]] = FALSE]
    /\ held' = [held EXCEPT ![u] = NoHandle]
    /\ UNCHANGED <<pool, root, diskVars, walkVars, want>>

\* Adopting the legacy directory, opening or migrating fails: the handle, if
\* there is one, is closed.
OpenFails(u) ==
    /\ Go(u, "opening", "idle") \/ Go(u, "migrate", "idle")
    /\ openMu' = NoUser
    /\ live' = IF held[u] = NoHandle THEN live ELSE [live EXCEPT ![held[u]] = FALSE]
    /\ held' = [held EXCEPT ![u] = NoHandle]
    /\ UNCHANGED <<pool, refs, root, diskVars, walkVars, want>>

\* The handle enters the pool and its backfill is scheduled; a handle that
\* finds the root taken is closed in favour of the pooled one.
Install(u) ==
    LET r == want[u]  h == held[u] IN
    /\ Go(u, "install", "using")
    /\ openMu' = NoUser
    /\ IF pool[r] = NoHandle
       THEN /\ pool' = [pool EXCEPT ![r] = h] /\ refs' = [refs EXCEPT ![r] = 1]
            /\ walk' = [walk EXCEPT ![h] = "check"]
            /\ last' = [last EXCEPT ![h] = 0]
            /\ UNCHANGED <<live, held>>
       ELSE /\ Share(u, r)
            /\ live' = [live EXCEPT ![h] = FALSE]
            /\ UNCHANGED <<pool, walk, last>>
    /\ UNCHANGED <<root, diskVars, upto, batch, want>>

\* Variant: the handle is closed while one reference is left.
Release_OffByOne(u) ==
    LET r == want[u] IN
    /\ Go(u, "using", "idle")
    /\ held' = [held EXCEPT ![u] = NoHandle]
    /\ refs' = [refs EXCEPT ![r] = @ - 1]
    /\ IF refs[r] <= 2
       THEN /\ pool' = [pool EXCEPT ![r] = NoHandle]
            /\ live' = [live EXCEPT ![held[u]] = FALSE]
       ELSE UNCHANGED <<pool, live>>
    /\ UNCHANGED <<openMu, root, diskVars, walkVars, want>>

\* releaseStore: the last reference removes the entry and closes the handle,
\* in one section under Manager.mu.
Release(u) ==
    LET r == want[u] IN
    /\ Go(u, "using", "idle")
    /\ held' = [held EXCEPT ![u] = NoHandle]
    /\ refs' = [refs EXCEPT ![r] = @ - 1]
    /\ IF refs[r] = 1
       THEN /\ pool' = [pool EXCEPT ![r] = NoHandle]
            /\ live' = [live EXCEPT ![held[u]] = FALSE]
       ELSE UNCHANGED <<pool, live>>
    /\ UNCHANGED <<openMu, root, diskVars, walkVars, want>>

-----------------------------------------------------------------------------
(* A call that uses the live Host's own store                               *)

Borrow(b, u) ==
    /\ Go(b, "idle", "borrowed") /\ pc[u] = "using"
    /\ held' = [held EXCEPT ![b] = held[u]]
    /\ UNCHANGED <<poolVars, live, root, diskVars, walkVars, want>>

Return(b) ==
    /\ Go(b, "borrowed", "idle")
    /\ held' = [held EXCEPT ![b] = NoHandle]
    /\ UNCHANGED <<poolVars, live, root, diskVars, walkVars, want>>

-----------------------------------------------------------------------------
(* Writers: one connection per handle, so a write waits for a transaction   *)
(* of the backfill on the same handle.                                      *)

CanWrite(u) == pc[u] = "using" /\ walk[held[u]] # "tx"

\* An archived message takes the next id and gets its index row in the same
\* transaction.
ArchiveTurn(u) ==
    LET r == want[u] IN
    /\ CanWrite(u) /\ nextId[r] <= MaxId
    /\ archive' = [archive EXCEPT ![r] = @ \cup {nextId[r]}]
    /\ index'   = [index EXCEPT ![r] = @ \cup {nextId[r]}]
    /\ nextId'  = [nextId EXCEPT ![r] = @ + 1]
    /\ UNCHANGED <<poolVars, live, root, recorded, walkVars, pc, want, held>>

\* A deleted conversation loses its archive rows and its index rows.
DeleteConversationRows(u, gone) ==
    LET r == want[u] IN
    /\ CanWrite(u) /\ gone \subseteq archive[r] /\ gone # {}
    /\ archive' = [archive EXCEPT ![r] = @ \ gone]
    /\ index'   = [index EXCEPT ![r] = @ \ gone]
    /\ UNCHANGED <<poolVars, live, root, nextId, recorded, walkVars, pc, want, held>>

-----------------------------------------------------------------------------
(* BackfillSearchIndex, on the handle that scheduled it                     *)

Walk(h, from, to) == walk[h] = from /\ walk' = [walk EXCEPT ![h] = to]

\* Any step can fail, and every step but the commit of an open transaction
\* does once the handle is closed.
WalkFails(h) ==
    /\ walk[h] # "none" /\ walk' = [walk EXCEPT ![h] = "none"]
    /\ UNCHANGED <<poolVars, live, root, diskVars, last, upto, batch, pc, want, held>>

WalkCheck(h) ==
    /\ live[h]
    /\ Walk(h, "check", IF recorded[root[h]] THEN "none" ELSE "scan")
    /\ UNCHANGED <<poolVars, live, root, diskVars, last, upto, batch, pc, want, held>>

\* The archived rows above the cursor that the index does not hold.
Todo(h) == {i \in archive[root[h]] \ index[root[h]] : i > last[h]}

WalkScan(h) ==
    /\ live[h]
    /\ \/ /\ Todo(h) = {} /\ Walk(h, "scan", "record")
          /\ UNCHANGED <<upto, batch>>
       \/ \E m \in Todo(h) :
             LET rows == {i \in Todo(h) : i <= m} IN
             /\ Cardinality(rows) = Batch
                  \/ (rows = Todo(h) /\ Cardinality(rows) < Batch)
             /\ Walk(h, "scan", "begin")
             /\ batch' = [batch EXCEPT ![h] = rows]
             /\ upto'  = [upto EXCEPT ![h] = m]
    /\ UNCHANGED <<poolVars, live, root, diskVars, last, pc, want, held>>

WalkBegin(h) ==
    /\ live[h] /\ Walk(h, "begin", "tx")
    /\ UNCHANGED <<poolVars, live, root, diskVars, last, upto, batch, pc, want, held>>

\* Variant: a batch that fails is passed over.
WalkCommit_PassesOver(h) ==
    LET r == root[h] IN
    /\ Walk(h, "tx", "scan")
    /\ index' = IF batch[h] \cap index[r] = {}
                THEN [index EXCEPT ![r] = @ \cup batch[h]] ELSE index
    /\ last' = [last EXCEPT ![h] = upto[h]]
    /\ UNCHANGED <<poolVars, live, root, archive, nextId, recorded, upto, batch,
                   pc, want, held>>

\* The batch is inserted in one transaction: a row that got an index row
\* meanwhile fails it, and with it the walk.
WalkCommit(h) ==
    LET r == root[h] IN
    /\ batch[h] \cap index[r] = {}
    /\ Walk(h, "tx", "scan")
    /\ index' = [index EXCEPT ![r] = @ \cup batch[h]]
    /\ last'  = [last EXCEPT ![h] = upto[h]]
    /\ UNCHANGED <<poolVars, live, root, archive, nextId, recorded, upto, batch,
                   pc, want, held>>

WalkRecord(h) ==
    /\ live[h] /\ Walk(h, "record", "none")
    /\ recorded' = [recorded EXCEPT ![root[h]] = TRUE]
    /\ UNCHANGED <<poolVars, live, root, archive, index, nextId, last, upto,
                   batch, pc, want, held>>

-----------------------------------------------------------------------------
\* The process dies: what is on disk stays, an open transaction is rolled back.
Crash ==
    /\ pool' = [r \in Roots |-> NoHandle] /\ refs' = [r \in Roots |-> 0]
    /\ openMu' = NoUser /\ live' = [h \in Handles |-> FALSE]
    /\ walk' = [h \in Handles |-> "none"]
    /\ pc' = [u \in Holders |-> "idle"] /\ held' = [u \in Holders |-> NoHandle]
    /\ UNCHANGED <<root, diskVars, last, upto, batch, want>>

OpenStep(u) ==
    \/ LockOpen(u) \/ Recheck(u) \/ (\E h \in Handles : OpenDB(u, h))
    \/ Migrate(u) \/ OpenFails(u) \/ Install(u)

UseStep(u) ==
    \/ \E r \in Roots : Hit(u, r) \/ Miss(u, r)
    \/ Release(u) \/ ArchiveTurn(u)
    \/ \E i \in Ids : DeleteConversationRows(u, {i})

WalkStep(h) ==
    WalkCheck(h) \/ WalkScan(h) \/ WalkBegin(h) \/ WalkCommit(h) \/ WalkRecord(h)

Next ==
    \/ \E u \in Openers : OpenStep(u) \/ UseStep(u)
    \/ \E b \in Borrowers : Return(b) \/ \E u \in Openers : Borrow(b, u)
    \/ \E h \in Handles : WalkStep(h) \/ WalkFails(h)
    \/ Crash

Spec == Init /\ [][Next]_vars

\* A thread that opens a store is scheduled, and a Go mutex serves the
\* goroutines that wait for it.
FairSpec ==
    Spec /\ \A u \in Openers : WF_vars(OpenStep(u)) /\ SF_vars(LockOpen(u))

-----------------------------------------------------------------------------
(* Properties                                                               *)

\* acquireStore serializes first opens: a root never has two open handles, so
\* its migration never runs beside a handle in use.
OneOpenHandle ==
    \A g, h \in Handles : live[g] /\ live[h] /\ root[g] = root[h] => g = h

\* releaseStore counts: whoever holds a reference has the pooled handle, and
\* it is open; a pooled handle is held by exactly refs users.
ReferencedIsOpen ==
    /\ \A u \in Openers :
          pc[u] = "using" => live[held[u]] /\ pool[want[u]] = held[u]
    /\ \A r \in Roots :
          refs[r] = Cardinality({u \in Openers : pc[u] = "using" /\ want[u] = r})

\* The backfill records its version solely on success: a recorded root has an
\* index row for every archived message, whatever walks were aborted, raced
\* or crashed before.
RecordedIsComplete ==
    \A r \in Roots : recorded[r] => archive[r] \subseteq index[r]

\* acquireStore comes back: nobody who needs openMu waits for ever.
Waits(u) == pc[u] \in {"lock", "recheck", "opening", "migrate", "install"}
OpenReturns == \A u \in Openers : Waits(u) ~> ~Waits(u)

\* fts.go: message_fts "holds one row per archive_messages row ... so the
\* index can never drift from the archive".
IndexMirrorsArchive == \A r \in Roots : index[r] \subseteq archive[r]

\* foundation/db/sqlite.go, Close: "Callers must stop every store that uses
\* the connection first".
BorrowedIsOpen ==
    \A b \in Borrowers : pc[b] = "borrowed" => live[held[b]]
=============================================================================
