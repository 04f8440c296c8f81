------------------------------- MODULE MCTurns -------------------------------
(***************************************************************************)
(* The life of a conversation and, beside it, the machines its turns go     *)
(* through: the archive, the checkpoint journal, the prompts, the steering  *)
(* queue, the stream to the window and the review. They share no state      *)
(* here, so a behaviour is one of them: part says which, the variables of   *)
(* Conversation or the slots v1, v2, ... carry its state.                   *)
(***************************************************************************)
EXTENDS Conversation, TLC

CONSTANTS
  a1, a2, u1, f1, i1, i2, q1, q2, s1, s2, o1, t1, t2, w1, b1, Nothing

VARIABLES part,
  v1, v2, v3, v4, v5, v6, v7, v8, v9, v10, v11, v12, v13, v14, v15, v16,
  v17, v18

\* Archivers, readers and pages, and the prompts, are interchangeable.
Symmetry == Permutations({a1, a2}) \cup Permutations({q1, q2})

past16 == <<v17, v18>>
past13 == <<v14, v15, v16, past16>>
past10 == <<v11, v12, v13, past13>>
past9 == <<v10, past10>>
slots == <<
  v1, v2, v3, v4, v5, v6, v7, v8, v9, past9>>
all == <<part, vars, slots>>

Archive1 == INSTANCE SessionArchive WITH
  Main <- t1, Archivers <- {a1, a2}, RunOf <- [a \in {a1, a2} |-> "r1"],
  Adders <- {u1}, Forkers <- {f1}, Importers <- {i1}, NoOne <- Nothing,
  MaxDeletes <- 1, MaxCrashes <- 1, rows <- v1, ready <- v2,
  retired <- v3, turns <- v4, count <- v5, usage <- v6, pc <- v7,
  todo <- v8, into <- v9, outcome <- v10, got <- v11, on <- v12,
  mu <- v13, importMu <- v14, deletes <- v15, crashes <- v16

Archive2 == INSTANCE SessionArchive WITH
  Main <- t1, Archivers <- {a1, a2}, RunOf <- [a \in {a1, a2} |-> "r1"],
  Adders <- {u1}, Forkers <- {}, Importers <- {i1, i2}, NoOne <- Nothing,
  MaxDeletes <- 1, MaxCrashes <- 1, rows <- v1, ready <- v2,
  retired <- v3, turns <- v4, count <- v5, usage <- v6, pc <- v7,
  todo <- v8, into <- v9, outcome <- v10, got <- v11, on <- v12,
  mu <- v13, importMu <- v14, deletes <- v15, crashes <- v16

Journal == INSTANCE CheckpointJournal WITH
  Readers <- {a1, a2}, Cap <- 2, MaxBoundary <- 5, MaxCrashes <- 2,
  base <- v1, chain <- v2, engine <- v3, board <- v4, acked <- v5,
  crashes <- v6, rpc <- v7, shot <- v8, seen <- v9

Streams1 == INSTANCE StreamDelivery WITH
  Turns <- {t1, t2}, Workers <- {w1}, Impatient <- {}, NoTurn <- Nothing,
  Kinds <- {"text"}, MaxDeltas <- 2, MaxFirings <- 1,
  MaxFolded <- 2, MaxReloads <- 1, registered <- v1, closed <- v2,
  newest <- v3, tpc <- v4, wpc <- v5, sink <- v6, sent <- v7,
  pending <- v8, folded <- v9, timer <- v10, firing <- v11, wire <- v12,
  arrived <- v13, late <- v14, rpc <- v15, live <- v16, dropped <- v17,
  reloads <- v18

Streams2 == INSTANCE StreamDelivery WITH
  Turns <- {t1, t2}, Workers <- {}, Impatient <- {t1}, NoTurn <- Nothing,
  Kinds <- {"text", "tool"}, MaxDeltas <- 2, MaxFirings <- 1,
  MaxFolded <- 2, MaxReloads <- 1, registered <- v1, closed <- v2,
  newest <- v3, tpc <- v4, wpc <- v5, sink <- v6, sent <- v7,
  pending <- v8, folded <- v9, timer <- v10, firing <- v11, wire <- v12,
  arrived <- v13, late <- v14, rpc <- v15, live <- v16, dropped <- v17,
  reloads <- v18

Prompts == INSTANCE Prompts WITH
  Prompts <- {q1, q2}, Clicks <- 3, turn <- v1, state <- v2,
  announced <- v3, ask <- v4, reply <- v5, pending <- v6, ch <- v7,
  taken <- v8, reasons <- v9, window <- v10, dropped <- v11,
  clicks <- v12, closed <- v13

Steer == INSTANCE Steering WITH
  Submitters <- {s1, s2}, Observers <- {o1}, MaxSize <- 3, Cap <- 4,
  Depth <- 3, MaxSubmits <- 4, queue <- v1, ledger <- v2, alive <- v3,
  pc <- v4, msg <- v5, opc <- v6, seen <- v7, told <- v8, submits <- v9,
  crossed <- v10

Review == INSTANCE ReviewQueue WITH
  Convs <- {s1}, Texts <- {t1, t2}, Pages <- {a1, a2}, Revivers <- {b1},
  NoRow <- Nothing, NoText <- Nothing, EveryTurns <- 2,
  MaxSuggestions <- 1, MaxItems <- 1, KnownLimit <- 1, MaxTurns <- 3,
  MaxCrashes <- 1,
  turns <- v1, counted <- v2, at <- v3, known <- v4, cands <- v5,
  queued <- v6, rows <- v7, live <- v8, stale <- v9, ppc <- v10,
  prow <- v11, rpc <- v12, rtext <- v13, rflag <- v14, applied <- v15,
  crashes <- v16, missed <- v17, overtaken <- v18

\* The slots a machine has no use for hold nothing.
Free16 ==
  /\ v17 = Nothing /\ v18 = Nothing
Free13 ==
  /\ v14 = Nothing /\ v15 = Nothing /\ v16 = Nothing /\ Free16
Free10 ==
  /\ v11 = Nothing /\ v12 = Nothing /\ v13 = Nothing /\ Free13
Free9 ==
  /\ v10 = Nothing /\ Free10
Free ==
  /\ v1 = Nothing /\ v2 = Nothing /\ v3 = Nothing /\ v4 = Nothing
  /\ v5 = Nothing /\ v6 = Nothing /\ v7 = Nothing /\ v8 = Nothing
  /\ v9 = Nothing /\ Free9

InitAll ==
  /\ Init
  /\ \/ part = "conversation" /\ Free
     \/ part = "archive1" /\ Archive1!Init /\ Free16
     \/ part = "archive2" /\ Archive2!Init /\ Free16
     \/ part = "journal" /\ Journal!Init /\ Free9
     \/ part = "streams1" /\ Streams1!Init
     \/ part = "streams2" /\ Streams2!Init
     \/ part = "prompts" /\ Prompts!Init /\ Free13
     \/ part = "steer" /\ Steer!Init /\ Free10
     \/ part = "review" /\ Review!Init

\* A step of one machine leaves the rest alone.
NextAll ==
  /\ part' = part
  /\ \/ part = "conversation" /\ Next /\ UNCHANGED slots
     \/ part = "archive1" /\ Archive1!Next /\ UNCHANGED <<vars, past16>>
     \/ part = "archive2" /\ Archive2!Next /\ UNCHANGED <<vars, past16>>
     \/ part = "journal" /\ Journal!Next /\ UNCHANGED <<vars, past9>>
     \/ part = "streams1" /\ Streams1!Next /\ UNCHANGED vars
     \/ part = "streams2" /\ Streams2!Next /\ UNCHANGED vars
     \/ part = "prompts" /\ Prompts!Next /\ UNCHANGED <<vars, past13>>
     \/ part = "steer" /\ Steer!Next /\ UNCHANGED <<vars, past10>>
     \/ part = "review" /\ Review!Next /\ UNCHANGED vars

SpecAll == InitAll /\ [][NextAll]_all

-----------------------------------------------------------------------------
(* Properties: those of the modules, each of the behaviours it is about.    *)

\* SessionArchive: whatever archives, deletions, forks, imports and usage updates
\* interleave and wherever the process dies, the rows of a conversation are those of
\* its turns, each written and counted once (sessions/store.go, state/archive.go).
ArchiveIsWhole ==
  /\ part = "archive1" =>
       /\ Archive1!TypeOK /\ Archive1!DeletedIsGone /\ Archive1!ArchivedOnce
       /\ Archive1!CountsMatch /\ Archive1!ImportIsWhole
       /\ Archive1!UsageIsSum /\ Archive1!CountedOnce
  /\ part = "archive2" =>
       /\ Archive2!TypeOK /\ Archive2!DeletedIsGone /\ Archive2!ArchivedOnce
       /\ Archive2!CountsMatch /\ Archive2!ImportIsWhole /\ Archive2!OneImport
       /\ Archive2!UsageIsSum /\ Archive2!CountedOnce

\* CheckpointJournal: what a running turn was acknowledged is what a reader gets, and
\* base and deltas together behave as the single record of RunRecord, across crashes
\* and deletions (sessions/state/checkpoint_journal.go).
JournalIsRecord ==
  /\ [](part = "journal" => Journal!TypeOK /\ Journal!AckedIsKept /\ Journal!ChainHasBase)
  /\ part = "journal" => Journal!RecordInit
  /\ [][part = "journal" => Journal!RecordStep]_all

\* StreamDelivery: the window gets the deltas of a turn in their order, all of them
\* before its end unless its caller left it, each under its own turn
\* (desktop/core/stream.go, subagents/streams.go).
WindowGetsTheTurn ==
  /\ part = "streams1" =>
       /\ Streams1!StreamTypeOK /\ Streams1!ArrivalOrder /\ Streams1!OneStreamPerEvent
       /\ Streams1!EndFollowsText /\ Streams1!BufferedIsTimed /\ Streams1!OneLateDelta
       /\ Streams1!NewestIsRegistered /\ Streams1!ResolvedIsOpen /\ Streams1!ReloadSparesLive
  /\ part = "streams2" =>
       /\ Streams2!StreamTypeOK /\ Streams2!ArrivalOrder /\ Streams2!OneStreamPerEvent
       /\ Streams2!EndFollowsText /\ Streams2!BufferedIsTimed /\ Streams2!OneLateDelta
       /\ Streams2!NewestIsRegistered /\ Streams2!ResolvedIsOpen /\ Streams2!ReloadSparesLive

\* Prompts and Steering: an answer never blocks the window, a question that is shown
\* can be answered (interact/broker.go), a boundary frees the budget of the messages
\* that wait for a turn, and only calls that cross exceed it (host/steer.go).
InputReachesTheTurn ==
  /\ [](part = "prompts" =>
          /\ Prompts!PromptsTypeOK /\ Prompts!AnswerNeverBlocks
          /\ Prompts!OpenIsAnswerable /\ Prompts!DroppedIsLate)
  /\ [](part = "steer" =>
          Steer!TypeOK /\ Steer!LedgerOvercounts /\ Steer!NeverOverBudget)
  /\ [][part = "steer" => Steer!FreesBudget \/ UNCHANGED Steer!vars]_all

\* ReviewQueue: a review proposes again only what it did not read back, a suggestion
\* recorded as accepted was written, one that was discarded is not written from then on,
\* unless an accept had read it before, and the memory keeps its cap (review/review.go,
\* userstore.go).
MemoryIsChosen ==
  /\ [](part = "review" =>
          Review!ReviewTypeOK /\ Review!AcceptedWasWritten /\ Review!CapHolds)
  /\ [][part = "review" =>
          /\ Review!VerdictKept /\ Review!ProposesNew
          /\ Review!NotWritten]_all
=============================================================================
