---------------------------- MODULE SessionArchive ----------------------------
(***************************************************************************)
(* The rows of a workspace's conversations and everything that writes      *)
(* them: the archive of a turn, the note of a delegation, forks, imports,  *)
(* usage totals and deletion.                                              *)
(*   source: internal/capabilities/sessions/{store,fork,import}.go,        *)
(*           sessions/state/{archive,retired}.go, host/{fork,import}.go    *)
(* One process; a statement or a transaction of SQLite is one step.  A     *)
(* conversation minted by a fork or an import has the name of its writer.  *)
(* All imports are of one source.  The turn "t0" is there at first; an     *)
(* import brings the turns Imported.                                       *)
(***************************************************************************)
EXTENDS Naturals, Sequences, FiniteSets, SequencesExt

CONSTANTS Main,         \* the conversation that exists
          Archivers,    \* writers of one turn: the committer, the observer of
                        \* an interrupted run, recovery, a delegation's note
          RunOf,        \* the run each archiver writes
          Adders,       \* writers of usage: turn ends, titles, reviews
          Forkers, Importers,
          NoOne,
          MaxDeletes,   \* bound: deletions
          MaxCrashes    \* bound: deaths of the process

VARIABLES
  rows, ready, retired, \* conversations, import_ready, deleted_conversations
  turns,                \* archive_turns: the run ids, in the order of seq
  count, usage,         \* turn_count and the total of usage_json
  pc, todo, into,       \* a writer's step, the turns it has left, its target
  outcome,              \* what RecordUsageIfEmpty did for an importer
  got, on,              \* an adder: the total it read, its conversation
  mu, importMu,         \* Store.mu and Host.importMu: the holder
  deletes, crashes

db == <<rows, ready, retired, turns, count, usage>>
actors == <<pc, todo, into, outcome, got, on>>
bounds == <<deletes, crashes>>
vars == <<db, actors, mu, importMu, bounds>>

Convs == {Main} \cup Forkers \cup Importers
Writers == Archivers \cup Forkers \cup Importers
Actors == Writers \cup Adders
Imported == <<"i1", "i2">>
ImportTotal == 1

Init ==
  /\ rows = {Main} /\ ready = {} /\ retired = {}
  /\ turns = [c \in Convs |-> IF c = Main THEN <<"t0">> ELSE << >>]
  /\ count = [c \in Convs |-> IF c = Main THEN 1 ELSE 0]
  /\ usage = [c \in Convs |-> 0]
  /\ pc = [a \in Actors |-> "idle"]
  /\ todo = [w \in Writers |-> << >>]
  /\ into = [w \in Writers |-> IF w \in Archivers THEN Main ELSE w]
  /\ outcome = [w \in Importers |-> "none"]
  /\ got = [u \in Adders |-> 0] /\ on = [u \in Adders |-> Main]
  /\ mu = NoOne /\ importMu = NoOne
  /\ deletes = 0 /\ crashes = 0

Go(a, to) == pc' = [pc EXCEPT ![a] = to]

\* List: an import that is not ready, and an untitled empty row, are hidden.
Visible(c) ==
  /\ c \in rows /\ (c \in Importers => c \in ready)
  /\ c = Main \/ turns[c] # << >> \/ usage[c] > 0

----------------------------------------------------------------------------
(* The transcript append every writer goes through. *)

After(w) == CASE w \in Archivers -> "done"
              [] w \in Forkers -> "settings"
              [] w \in Importers -> "publish"
OnError(w) == CASE w \in Archivers -> "failed"
                [] w \in Forkers -> "cleanup"
                [] w \in Importers -> "undo"

\* EnsureConversation: one guarded INSERT; a retired id is refused.
Ensure(w) ==
  /\ pc[w] = "ensure"
  /\ IF into[w] \in retired
       THEN Go(w, OnError(w)) /\ UNCHANGED rows
       ELSE rows' = rows \cup {into[w]} /\ Go(w, "insert")
  /\ UNCHANGED <<ready, retired, turns, count, usage, todo, into, outcome, got,
                 on, mu, importMu, bounds>>

Inserted(w) ==
  /\ todo' = [todo EXCEPT ![w] = Tail(@)]
  /\ Go(w, IF Len(todo[w]) = 1 THEN After(w) ELSE "ensure")
  /\ UNCHANGED <<rows, ready, retired, usage, into, outcome, got, on, mu,
                 importMu, bounds>>

InsertTurn_NoDedup(w) ==
  /\ pc[w] = "insert" /\ into[w] \in rows
  /\ turns' = [turns EXCEPT ![into[w]] = Append(@, Head(todo[w]))]
  /\ count' = [count EXCEPT ![into[w]] = @ + 1]
  /\ Inserted(w)

(***************************************************************************)
(* CommitConversationTurn: the transaction.  A turn of a run that is there *)
(* is not written again; without the conversation's row the foreign key    *)
(* refuses the turn.                                                       *)
(***************************************************************************)
InsertTurn(w) ==
  /\ pc[w] = "insert"
  /\ LET c == into[w]  r == Head(todo[w]) IN
       \/ /\ c \notin rows
          /\ Go(w, OnError(w))
          /\ UNCHANGED <<db, todo, into, outcome, got, on, mu, importMu, bounds>>
       \/ /\ c \in rows /\ r \in ToSet(turns[c])
          /\ Inserted(w) /\ UNCHANGED <<turns, count>>
       \/ /\ c \in rows /\ r \notin ToSet(turns[c])
          /\ turns' = [turns EXCEPT ![c] = Append(@, r)]
          /\ count' = [count EXCEPT ![c] = @ + 1]
          /\ Inserted(w)

\* appendTurn: ask first; a run that is archived is not written again.
Archive(a) ==
  /\ pc[a] = "idle"
  /\ IF RunOf[a] \in ToSet(turns[Main])
       THEN Go(a, "done") /\ UNCHANGED todo
       ELSE Go(a, "ensure") /\ todo' = [todo EXCEPT ![a] = <<RunOf[a]>>]
  /\ UNCHANGED <<db, into, outcome, got, on, mu, importMu, bounds>>

----------------------------------------------------------------------------
(* Deletion. *)

RemoveRows(c) ==
  /\ rows' = rows \ {c} /\ retired' = retired \cup {c} /\ ready' = ready \ {c}
  /\ turns' = [turns EXCEPT ![c] = << >>]
  /\ count' = [count EXCEPT ![c] = 0] /\ usage' = [usage EXCEPT ![c] = 0]

\* DeleteConversationRows: the rows and the tombstone, at once; no lock.
Delete(c) ==
  /\ Visible(c) /\ deletes < MaxDeletes
  /\ RemoveRows(c) /\ deletes' = deletes + 1
  /\ UNCHANGED <<actors, mu, importMu, crashes>>

----------------------------------------------------------------------------
(* Forks. *)

\* The turns of the source through one of them, read once.
ForkReads(f) ==
  /\ pc[f] = "idle"
  /\ \E n \in 1 .. Len(turns[Main]) :
       todo' = [todo EXCEPT ![f] = SubSeq(turns[Main], 1, n)]
  /\ Go(f, "create")
  /\ UNCHANGED <<db, into, outcome, got, on, mu, importMu, bounds>>

\* Store.Create: the row of a fresh id.
Create(f) ==
  /\ pc[f] = "create" /\ f \in Forkers
  /\ rows' = rows \cup {f} /\ Go(f, "ensure")
  /\ UNCHANGED <<ready, retired, turns, count, usage, todo, into, outcome, got,
                 on, mu, importMu, bounds>>

\* copyForkSettings: the state documents; a retired id is refused.
Settings(f) ==
  /\ pc[f] = "settings"
  /\ Go(f, IF f \in retired THEN "cleanup" ELSE "done")
  /\ UNCHANGED <<db, todo, into, outcome, got, on, mu, importMu, bounds>>

\* The deferred Remove, with the caller's context: cancelled, it does nothing.
Cleanup(f) ==
  /\ pc[f] = "cleanup" /\ Go(f, "failed")
  /\ RemoveRows(f) \/ UNCHANGED db
  /\ UNCHANGED <<todo, into, outcome, got, on, mu, importMu, bounds>>

----------------------------------------------------------------------------
(* Imports. *)

\* ImportSession: one import of this Host at a time.
ImportBegins(i) ==
  /\ pc[i] = "idle" /\ importMu = NoOne
  /\ importMu' = i /\ Go(i, "find")
  /\ UNCHANGED <<db, todo, into, outcome, got, on, mu, bounds>>

Known == rows \cap Importers

(***************************************************************************)
(* Store.Import, under Store.mu to its end: a ready conversation of the    *)
(* source is the answer, a half-written one is removed.                    *)
(***************************************************************************)
ImportFinds(i) ==
  /\ pc[i] = "find" /\ mu = NoOne
  /\ \/ /\ Known = {}
        /\ mu' = i /\ Go(i, "row") /\ UNCHANGED <<db, into>>
     \/ \E c \in Known \cap ready :
          /\ into' = [into EXCEPT ![i] = c]
          /\ Go(i, "total") /\ UNCHANGED <<db, mu>>
     \/ \E c \in Known \ ready :
          /\ RemoveRows(c)
          /\ mu' = i /\ Go(i, "row") /\ UNCHANGED into
  /\ UNCHANGED <<todo, outcome, got, on, importMu, bounds>>

\* The row of the fresh id, with its source and not ready.
ImportRow(i) ==
  /\ pc[i] = "row"
  /\ rows' = rows \cup {i}
  /\ todo' = [todo EXCEPT ![i] = Imported] /\ Go(i, "ensure")
  /\ UNCHANGED <<ready, retired, turns, count, usage, into, outcome, got, on, mu,
                 importMu, bounds>>

\* UpsertConversation: ready, with the counters of the whole import.
Publish(i) ==
  /\ pc[i] = "publish"
  /\ ready' = ready \cup {i}
  /\ count' = [count EXCEPT ![i] = Len(Imported)]
  /\ usage' = [usage EXCEPT ![i] = 0]
  /\ mu' = NoOne /\ Go(i, "total")
  /\ UNCHANGED <<rows, retired, turns, todo, into, outcome, got, on, importMu,
                 bounds>>

Outcome(i, o) == outcome' = [outcome EXCEPT ![i] = o]

\* RecordUsageIfEmpty, under Store.mu: the read ...
TotalReads(i) ==
  /\ pc[i] = "total" /\ mu = NoOne
  /\ \/ /\ into[i] \notin rows
        /\ Outcome(i, "gone") /\ Go(i, "forward") /\ UNCHANGED mu
     \/ /\ into[i] \in rows /\ usage[into[i]] > 0
        /\ Outcome(i, "already") /\ Go(i, "forward") /\ UNCHANGED mu
     \/ /\ into[i] \in rows /\ usage[into[i]] = 0
        /\ mu' = i /\ Go(i, "write") /\ UNCHANGED outcome
  /\ UNCHANGED <<db, todo, into, got, on, importMu, bounds>>

\* ... and the UPDATE, which never makes a row.
TotalWrites(i) ==
  /\ pc[i] = "write" /\ i \in Importers
  /\ mu' = NoOne /\ Go(i, "forward")
  /\ IF into[i] \in rows
       THEN Outcome(i, "written") /\ usage' = [usage EXCEPT ![into[i]] = ImportTotal]
       ELSE Outcome(i, "gone") /\ UNCHANGED usage
  /\ UNCHANGED <<rows, ready, retired, turns, count, todo, into, got, on,
                 importMu, bounds>>

\* recordImportUsage: the user's ledger gets what was written, or is gone.
Forward(i) ==
  /\ pc[i] = "forward"
  /\ Go(i, IF outcome[i] = "already" THEN "done" ELSE "forwarded")
  /\ importMu' = NoOne
  /\ UNCHANGED <<db, todo, into, outcome, got, on, mu, bounds>>

----------------------------------------------------------------------------
(* Usage. *)

\* AddUsage, under Store.mu: the read ...
AddReads(u) ==
  /\ pc[u] = "idle" /\ mu = NoOne
  /\ \E c \in Convs : /\ Visible(c)
                      /\ on' = [on EXCEPT ![u] = c]
                      /\ got' = [got EXCEPT ![u] = usage[c]]
  /\ mu' = u /\ Go(u, "write")
  /\ UNCHANGED <<db, todo, into, outcome, importMu, bounds>>

\* ... and the UPDATE: a conversation that is gone stays gone.
AddWrites(u) ==
  /\ pc[u] = "write" /\ u \in Adders
  /\ mu' = IF mu = u THEN NoOne ELSE mu
  /\ IF on[u] \in rows
       THEN usage' = [usage EXCEPT ![on[u]] = got[u] + 1] /\ Go(u, "done")
       ELSE Go(u, "gone") /\ UNCHANGED usage
  /\ UNCHANGED <<rows, ready, retired, turns, count, todo, into, outcome, got, on,
                 importMu, bounds>>

----------------------------------------------------------------------------
Over == {"idle", "done", "failed", "gone", "forwarded", "dead"}

\* The process dies: calls under way end, mutexes are new, rows stay.
Crash ==
  /\ crashes < MaxCrashes /\ \E a \in Actors : pc[a] \notin Over
  /\ pc' = [a \in Actors |-> IF pc[a] \in Over THEN pc[a] ELSE "dead"]
  /\ mu' = NoOne /\ importMu' = NoOne /\ crashes' = crashes + 1
  /\ UNCHANGED <<db, todo, into, outcome, got, on, deletes>>

Next ==
  \/ \E w \in Writers : Ensure(w) \/ InsertTurn(w)
  \/ \E a \in Archivers : Archive(a)
  \/ \E c \in Convs : Delete(c)
  \/ \E f \in Forkers : ForkReads(f) \/ Create(f) \/ Settings(f) \/ Cleanup(f)
  \/ \E i \in Importers : \/ ImportBegins(i) \/ ImportFinds(i) \/ ImportRow(i)
                          \/ Publish(i) \/ TotalReads(i) \/ TotalWrites(i)
                          \/ Forward(i)
  \/ \E u \in Adders : AddReads(u) \/ AddWrites(u)
  \/ Crash

Spec == Init /\ [][Next]_vars

----------------------------------------------------------------------------
(* Properties. *)

Names == {"t0"} \cup ToSet(Imported) \cup {RunOf[a] : a \in Archivers}
Lists == Seq(Names)

TypeOK ==
  /\ rows \subseteq Convs /\ retired \subseteq Convs /\ ready \subseteq Importers
  /\ turns \in [Convs -> Lists]
  /\ count \in [Convs -> Nat] /\ usage \in [Convs -> Nat]
  /\ pc \in [Actors -> Over \cup {"ensure", "insert", "create", "settings",
                                  "cleanup", "find", "row", "publish",
                                  "total", "write", "forward"}]
  /\ todo \in [Writers -> Lists] /\ into \in [Writers -> Convs]
  /\ outcome \in [Importers -> {"none", "written", "already", "gone"}]
  /\ got \in [Adders -> Nat] /\ on \in [Adders -> Convs]
  /\ mu \in Importers \cup Adders \cup {NoOne}
  /\ importMu \in Importers \cup {NoOne}
  /\ deletes \in 0 .. MaxDeletes /\ crashes \in 0 .. MaxCrashes

(***************************************************************************)
(* A deleted conversation is final: whatever was under way when its rows   *)
(* went, an append, a fork, an import, a usage total, no row or turn of it *)
(* comes back ("no writer may recreate it", archive.go:194, :1029).        *)
(***************************************************************************)
DeletedIsGone ==
  \A c \in retired : c \notin rows /\ turns[c] = << >> /\ usage[c] = 0

\* A run has one turn in a conversation, however often and from wherever it
\* is archived: the question asked before the transaction is only a shortcut.
ArchivedOnce == \A c \in Convs : IsInjective(turns[c])

\* The turn counter is the number of turns, across racing appends and the
\* counters an import writes at its end.
CountsMatch == \A c \in rows : count[c] = Len(turns[c])

\* An import a reader can see is whole: a death or a failure half way leaves
\* an invisible row, which the next import of the source replaces.
ImportIsWhole ==
  \A c \in Importers : Visible(c) => IsPrefix(Imported, turns[c])

\* The same source is one conversation.
OneImport == Cardinality(ready) <= 1

Counted(c) == {i \in Importers : into[i] = c /\ pc[i] = "forwarded"}

\* The total of a conversation is the sum of the deltas its writers reported
\* and of the import's own total: no writer overwrites another's.
UsageIsSum ==
  \A c \in rows :
    usage[c] = Cardinality({u \in Adders : on[u] = c /\ pc[u] = "done"})
             + Cardinality({i \in Importers : into[i] = c /\ outcome[i] = "written"})

\* While the conversation is there, importing it again does not count its
\* tokens again.
CountedOnce == \A c \in rows : Cardinality(Counted(c)) <= 1
==============================================================================
