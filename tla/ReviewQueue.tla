----------------------------- MODULE ReviewQueue -----------------------------
(***************************************************************************)
(* The post-turn review and the user's verdict: one review at a time per   *)
(* conversation proposes facts into a queue that outlives it, the page     *)
(* accepts or discards them, and accepted ones enter the capped memory.    *)
(*   source: internal/capabilities/review, review/store, memory/userstore, *)
(*           internal/adapters/desktop/bindings/review.go                  *)
(* A fact is its dedupe key. Every database call is one step.              *)
(***************************************************************************)
EXTENDS Naturals, FiniteSets

CONSTANTS Convs, Texts,
          Pages,           \* calls of the page: accept, discard
          Revivers,        \* calls of SetStale
          NoRow, NoText,
          EveryTurns, MaxSuggestions, MaxItems,
          KnownLimit,      \* knownSuggestionLimit: rows a review reads back
          MaxTurns, MaxCrashes   \* bounds

VARIABLES
  turns, counted,       \* turns that ended; the cadence counter of this process
  at, known, cands, queued,  \* the review of a conversation
  missed,               \* the rows it did not read back (history)
  rows,                 \* review_suggestions
  live, stale,          \* user_memory
  ppc, prow,            \* a page call: its step and its row
  rpc, rtext, rflag,    \* SetStale: its step, its fact, what it read of it
  applied,              \* rows whose fact an accept wrote (history)
  overtaken,            \* rows discarded while a call accepted them (history)
  crashes

reviewVars == <<turns, counted, at, known, cands, queued, missed>>
pageVars == <<ppc, prow, applied, overtaken>>
reviveVars == <<rpc, rtext, rflag>>
vars == <<reviewVars, rows, live, stale, pageVars, reviveVars, crashes>>

Init ==
  /\ turns = [c \in Convs |-> 0] /\ counted = [c \in Convs |-> 0]
  /\ at = [c \in Convs |-> "idle"] /\ known = [c \in Convs |-> {}]
  /\ cands = [c \in Convs |-> {}] /\ queued = [c \in Convs |-> 0]
  /\ rows = {} /\ live = {} /\ stale = {}
  /\ ppc = [w \in Pages |-> "idle"] /\ prow = [w \in Pages |-> NoRow]
  /\ rpc = [v \in Revivers |-> "idle"] /\ rtext = [v \in Revivers |-> NoText]
  /\ rflag = [v \in Revivers |-> FALSE]
  /\ missed = [c \in Convs |-> {}]
  /\ applied = {} /\ overtaken = {} /\ crashes = 0

Step(c, to) == at' = [at EXCEPT ![c] = to]

----------------------------------------------------------------------------
(* The review. *)

\* A turn ends while no review of its conversation is in flight: it counts, and is
\* reviewed when it failed or lands on the cadence. Another one is not counted.
OnRunEnd(c) ==
  /\ turns[c] < MaxTurns /\ turns' = [turns EXCEPT ![c] = @ + 1]
  /\ IF at[c] # "idle"
       THEN UNCHANGED <<at, counted>>
       ELSE \E failed \in BOOLEAN :
              /\ counted' = [counted EXCEPT ![c] = (@ + 1) % EveryTurns]
              /\ IF failed \/ counted'[c] = 0 THEN Step(c, "facts") ELSE UNCHANGED at
  /\ UNCHANGED <<known, cands, queued, missed, rows, live, stale, pageVars, reviveVars, crashes>>

\* What memory holds, then the model's answer, or none that is usable.
ReviewReads(c) ==
  /\ at[c] = "facts" /\ known' = [known EXCEPT ![c] = live]
  /\ \E S \in SUBSET Texts :
       /\ cands' = [cands EXCEPT ![c] = S]
       /\ Step(c, IF S = {} THEN "idle" ELSE "known")
  /\ queued' = [queued EXCEPT ![c] = 0]
  /\ UNCHANGED <<turns, counted, missed, rows, live, stale, pageVars, reviveVars, crashes>>

\* Queue.List: the newest rows of every status, up to the limit.
Listed ==
  {S \in SUBSET rows :
     /\ S = rows \/ Cardinality(S) = KnownLimit
     /\ Cardinality(S) <= KnownLimit
     /\ \A r \in S, q \in rows \ S : r.conv = q.conv => q.turn <= r.turn}

\* What was proposed before is known too, pending and decided alike, as far as the
\* list goes; a list that fails is logged, and the review goes on without it.
KnownReads(c) ==
  /\ at[c] = "known" /\ Step(c, "queue")
  /\ \E S \in Listed \cup {{}} :
       /\ known' = [known EXCEPT ![c] = @ \cup {r.text : r \in S}]
       /\ missed' = [missed EXCEPT ![c] = rows \ S]
  /\ UNCHANGED <<turns, counted, cands, queued, rows, live, stale, pageVars, reviveVars, crashes>>

Create(c, t) ==
  rows' = rows \cup {[conv |-> c, turn |-> turns[c], text |-> t, status |-> "pending"]}

\* One candidate after the other, until the budget of the run is spent or an insert
\* fails.
Queues(c) ==
  /\ at[c] = "queue"
  /\ \/ /\ cands[c] = {} \/ queued[c] = MaxSuggestions \/ ~(cands[c] \subseteq known[c])
        /\ Step(c, "idle") /\ cands' = [cands EXCEPT ![c] = {}]
        /\ known' = [known EXCEPT ![c] = {}] /\ missed' = [missed EXCEPT ![c] = {}]
        /\ UNCHANGED <<queued, rows>>
     \/ \E t \in cands[c] :
          /\ queued[c] < MaxSuggestions
          /\ cands' = [cands EXCEPT ![c] = @ \ {t}]
          /\ IF t \in known[c]
               THEN UNCHANGED <<queued, known, rows>>
               ELSE /\ Create(c, t) /\ known' = [known EXCEPT ![c] = @ \cup {t}]
                    /\ queued' = [queued EXCEPT ![c] = @ + 1]
          /\ UNCHANGED <<at, missed>>
  /\ UNCHANGED <<turns, counted, live, stale, pageVars, reviveVars, crashes>>

----------------------------------------------------------------------------
(* The page. *)

Same(r, q) == r.conv = q.conv /\ r.turn = q.turn /\ r.text = q.text

\* UPDATE ... WHERE id = ? AND status = 'pending'
SetStatus(r, s) ==
  rows' = {IF Same(r, q) /\ q.status = "pending" THEN [q EXCEPT !.status = s] ELSE q : q \in rows}

\* The call has read the row as a pending one and is not over.
Accepts(p, r) == ppc[p] \in {"add", "mark"} /\ Same(prow[p], r)

\* The row is decided whatever an accept of it has read.
Discard(w) ==
  /\ ppc[w] = "idle" /\ ppc' = [ppc EXCEPT ![w] = "over"]
  /\ \E r \in rows :
       /\ SetStatus(r, "discarded")
       /\ overtaken' = overtaken \cup {prow[p] : p \in {p \in Pages : Accepts(p, r)}}
  /\ UNCHANGED <<reviewVars, live, stale, prow, applied, reviveVars, crashes>>

AcceptReads(w) ==
  /\ ppc[w] = "idle"
  /\ \E r \in rows : /\ r.status = "pending" /\ prow' = [prow EXCEPT ![w] = r]
  /\ ppc' = [ppc EXCEPT ![w] = "add"]
  /\ UNCHANGED <<reviewVars, rows, live, stale, applied, overtaken, reviveVars, crashes>>

\* Store.Add: a fact restated, one revived, or one more, within the cap.
Add(t) ==
  /\ t \in live \/ Cardinality(live) < MaxItems
  /\ live' = live \cup {t} /\ stale' = stale \ {t}

AcceptAdds_Regardless(w) ==
  /\ ppc[w] = "add" /\ ppc' = [ppc EXCEPT ![w] = "mark"]
  /\ \/ Add(prow[w].text) /\ applied' = applied \cup {prow[w]}
     \/ UNCHANGED <<live, stale, applied>>
  /\ UNCHANGED <<reviewVars, rows, prow, overtaken, reviveVars, crashes>>

\* "The memory write comes first": a fact the store refuses leaves the row pending.
AcceptAdds(w) ==
  /\ ppc[w] = "add"
  /\ \/ /\ Add(prow[w].text) /\ applied' = applied \cup {prow[w]}
        /\ ppc' = [ppc EXCEPT ![w] = "mark"]
     \/ ppc' = [ppc EXCEPT ![w] = "over"] /\ UNCHANGED <<live, stale, applied>>
  /\ UNCHANGED <<reviewVars, rows, prow, overtaken, reviveVars, crashes>>

\* A write that fails leaves the row pending with its fact in memory.
AcceptMarks(w) ==
  /\ ppc[w] = "mark" /\ ppc' = [ppc EXCEPT ![w] = "over"]
  /\ SetStatus(prow[w], "accepted") \/ UNCHANGED rows
  /\ UNCHANGED <<reviewVars, live, stale, prow, applied, overtaken, reviveVars, crashes>>

----------------------------------------------------------------------------
(* SetStale: the fact is read before the transaction that counts and writes. *)

StaleReads(v) ==
  /\ rpc[v] = "idle" /\ rpc' = [rpc EXCEPT ![v] = "write"]
  /\ \E t \in live \cup stale : /\ rtext' = [rtext EXCEPT ![v] = t]
                                /\ rflag' = [rflag EXCEPT ![v] = t \in stale]
  /\ UNCHANGED <<reviewVars, rows, live, stale, pageVars, crashes>>

Marks(v, retire) ==
  LET t == rtext[v] IN
  IF t \notin live \cup stale THEN UNCHANGED <<live, stale>>
  ELSE IF retire THEN live' = live \ {t} /\ stale' = stale \cup {t}
                 ELSE live' = live \cup {t} /\ stale' = stale \ {t}

StaleWrites(v) ==
  /\ rpc[v] = "write" /\ rpc' = [rpc EXCEPT ![v] = "over"]
  /\ \E retire \in BOOLEAN :
       IF ~retire /\ rflag[v] /\ Cardinality(live) >= MaxItems
         THEN UNCHANGED <<live, stale>>
         ELSE Marks(v, retire)
  /\ UNCHANGED <<reviewVars, rows, pageVars, rtext, rflag, crashes>>

Remove ==
  /\ \E t \in live \cup stale : live' = live \ {t} /\ stale' = stale \ {t}
  /\ UNCHANGED <<reviewVars, rows, pageVars, reviveVars, crashes>>

\* The process dies: the reviews, the calls and the cadence go with it.
Crash ==
  /\ crashes < MaxCrashes /\ crashes' = crashes + 1
  /\ counted' = [c \in Convs |-> 0] /\ at' = [c \in Convs |-> "idle"]
  /\ known' = [c \in Convs |-> {}] /\ cands' = [c \in Convs |-> {}]
  /\ missed' = [c \in Convs |-> {}]
  /\ ppc' = [w \in Pages |-> IF ppc[w] = "idle" THEN "idle" ELSE "over"]
  /\ rpc' = [v \in Revivers |-> IF rpc[v] = "idle" THEN "idle" ELSE "over"]
  /\ UNCHANGED <<turns, queued, rows, live, stale, prow, applied, overtaken, rtext, rflag>>

Next ==
  \/ \E c \in Convs : OnRunEnd(c) \/ ReviewReads(c) \/ KnownReads(c) \/ Queues(c)
  \/ \E w \in Pages : Discard(w) \/ AcceptReads(w) \/ AcceptAdds(w) \/ AcceptMarks(w)
  \/ \E v \in Revivers : StaleReads(v) \/ StaleWrites(v)
  \/ Remove \/ Crash

Spec == Init /\ [][Next]_vars

----------------------------------------------------------------------------
(* Properties. *)

ReviewTypeOK ==
  /\ live \cap stale = {} /\ live \cup stale \subseteq Texts
  /\ \A r \in rows : /\ r.conv \in Convs /\ r.turn <= turns[r.conv]
                     /\ r.status \in {"pending", "accepted", "discarded"}
  /\ \A c \in Convs : at[c] = "idle" => cands[c] = {}

(***************************************************************************)
(* "a candidate the user discarded is not proposed again"                  *)
(* (queueCandidates), as far as the code keeps it: a review of the         *)
(* conversation proposes a fact again only when the row that proposed it   *)
(* is one it did not read back, because the list failed or was full.       *)
(***************************************************************************)
ProposesNew ==
  \A r \in rows' : (\A q \in rows : ~Same(q, r)) =>
    \A q \in rows : q.conv = r.conv /\ q.text = r.text
      => \E m \in missed[q.conv] : Same(m, q)
ProposedOnce == [][ProposesNew]_vars

\* "a repeated click (or a retry) cannot flip an accepted suggestion into a
\* discarded one" (Store.SetStatus): a verdict is final.
VerdictKept == \A r \in rows : r.status # "pending" => r \in rows'
VerdictIsFinal == [][VerdictKept]_vars

\* A suggestion is recorded as accepted only after its fact was written
\* (AcceptReviewSuggestion), through a refusal by the store or a crash.
AcceptedWasWritten ==
  \A r \in rows : r.status = "accepted" => \E a \in applied : Same(a, r)

\* The cap on the facts that are injected can be passed only by the calls of
\* SetStale that read the fact before it was retired, one each.
CapHolds == Cardinality(live) <= MaxItems + Cardinality({v \in Revivers : rpc[v] = "over"})

(***************************************************************************)
(* DiscardReviewSuggestion: "Nothing is written to memory". The code keeps *)
(* that of a row no accept held when it was discarded: no later step       *)
(* writes its fact. An accept that had read the row before writes it.      *)
(***************************************************************************)
NotWritten ==
  \A r \in rows : r.status = "discarded" =>
    \A a \in applied' \ applied : Same(a, r) => \E o \in overtaken : Same(o, r)
DiscardedIsNotWritten == [][NotWritten]_vars
==============================================================================
