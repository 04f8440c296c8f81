-------------------------- MODULE CheckpointJournal --------------------------
(***************************************************************************)
(* The checkpoint journal of a session database: the record of one run is  *)
(* a base row (the whole board at a boundary) and a chain of deltas, each  *)
(* what the board wrote since the boundary before.                         *)
(*   source: internal/capabilities/sessions/state/checkpoint_journal.go,   *)
(*           state.go, sessions/store.go                                   *)
(* A boundary is a number: a delta leads `from` one boundary `to` the      *)
(* next, and a record folded from a delta that does not fit describes no   *)
(* boundary of the run (Mixed).  A transaction is one step, or the steps   *)
(* of a reader on the snapshot its first SELECT takes.  The engine that    *)
(* calls the journal is external: it stamps a boundary per wave, writes a  *)
(* base when the store answers ErrNeedsBase, and after a resume.           *)
(***************************************************************************)
EXTENDS Integers, Sequences

CONSTANTS Readers,      \* the loads: recovery, a conversation's deletion
          Cap,          \* checkpointChainLimit
          MaxBoundary,  \* bound: boundaries a run reaches
          MaxCrashes    \* bound: engines that die

VARIABLES
  base,      \* agent_checkpoints: the boundary of the base row, 0 for no row
  chain,     \* agent_checkpoint_deltas of the run, in the order of seq
  engine,    \* "running", "append" or "base" (what it calls next), "dead", "done"
  board,     \* the boundary the engine is at
  acked,     \* the last boundary the store accepted, 0 after a delete
  crashes,
  rpc,       \* a reader: "idle" or "chain" (it has read the base row)
  shot,      \* the snapshot of a reader's transaction
  seen       \* what its last load returned: 0 nil, Mixed, or a boundary

store == <<base, chain>>
reads == <<rpc, shot, seen>>
vars == <<base, chain, engine, board, acked, crashes, rpc, shot, seen>>

Mixed == -1

Delta(seq, from, to) == [seq |-> seq, from |-> from, to |-> to]

\* A delta follows the boundary before it, in content and in number.
Follows(b, c, i) ==
  /\ c[i].seq = i
  /\ c[i].from = IF i = 1 THEN b ELSE c[i - 1].to

(***************************************************************************)
(* replayCheckpointDeltas: a missing base is no record; the chain is       *)
(* folded in the order of seq and a hole is an error.                      *)
(***************************************************************************)
Folded(b, c) ==
  IF b = 0 THEN 0
  ELSE IF \A i \in DOMAIN c : Follows(b, c, i)
       THEN IF c = << >> THEN b ELSE c[Len(c)].to
       ELSE Mixed

Init ==
  /\ base = 0 /\ chain = << >>
  /\ engine = "running" /\ board = 0 /\ acked = 0 /\ crashes = 0
  /\ rpc = [r \in Readers |-> "idle"]
  /\ shot = [r \in Readers |-> <<0, << >> >>]
  /\ seen = [r \in Readers |-> 0]

----------------------------------------------------------------------------
(* The engine. *)

\* A wave completes: the next boundary is stamped.
Wave ==
  /\ engine = "running" /\ board < MaxBoundary
  /\ board' = board + 1 /\ engine' = "append"
  /\ UNCHANGED <<base, chain, acked, crashes, rpc, shot, seen>>

\* The number of the next delta: COALESCE(MAX(seq), 0) + 1.
NextSeq(c) == IF c = << >> THEN 1 ELSE c[Len(c)].seq + 1

\* The SELECT the INSERT draws its row from: a base, and room in the chain.
Accepts == base # 0 /\ Len(chain) < Cap

(***************************************************************************)
(* Append: one conditional INSERT; no row inserted is ErrNeedsBase, the    *)
(* engine's cue to write a base.                                           *)
(***************************************************************************)
AppendDelta ==
  /\ engine = "append"
  /\ IF Accepts
       THEN /\ chain' = Append(chain, Delta(NextSeq(chain), board - 1, board))
            /\ engine' = "running" /\ acked' = board
       ELSE engine' = "base" /\ UNCHANGED <<chain, acked>>
  /\ UNCHANGED <<base, board, crashes, rpc, shot, seen>>

\* WriteBase: the upsert of the base and the removal of the chain, at once.
WriteBase ==
  /\ engine = "base"
  /\ base' = board /\ chain' = << >>
  /\ engine' = "running" /\ acked' = board
  /\ UNCHANGED <<board, crashes, rpc, shot, seen>>

\* deleteCheckpoint: the base and its chain go in one transaction.
DeleteCheckpoint ==
  /\ base' = 0 /\ chain' = << >> /\ acked' = 0
  /\ UNCHANGED <<board, crashes, rpc, shot, seen>>

\* The turn is archived: the Host drops the record of the run.
Finish == engine = "running" /\ DeleteCheckpoint /\ engine' = "done"

\* The conversation is deleted, or recovery settles the record, at any time.
DropElsewhere == base # 0 /\ DeleteCheckpoint /\ UNCHANGED engine

\* The process dies; what was not committed is gone, and so is the board.
Crash ==
  /\ engine \in {"running", "append", "base"} /\ crashes < MaxCrashes
  /\ engine' = "dead" /\ crashes' = crashes + 1
  /\ UNCHANGED <<base, chain, board, acked, rpc, shot, seen>>

\* A resume seeds the board from the loaded record; it starts with a base.
Resume ==
  /\ engine = "dead" /\ Folded(base, chain) > 0
  /\ board' = Folded(base, chain) /\ engine' = "base"
  /\ UNCHANGED <<base, chain, acked, crashes, rpc, shot, seen>>

----------------------------------------------------------------------------
(* A load: one read transaction, two SELECTs. *)

\* loadCheckpoint: the first SELECT takes the snapshot; no row is (nil, nil).
ReadBase(r) ==
  /\ rpc[r] = "idle"
  /\ shot' = [shot EXCEPT ![r] = <<base, chain>>]
  /\ IF base = 0 THEN seen' = [seen EXCEPT ![r] = 0] /\ UNCHANGED rpc
                 ELSE rpc' = [rpc EXCEPT ![r] = "chain"] /\ UNCHANGED seen
  /\ UNCHANGED <<base, chain, engine, board, acked, crashes>>

ReadChain_OwnQuery(r) ==
  /\ rpc[r] = "chain"
  /\ seen' = [seen EXCEPT ![r] = Folded(shot[r][1], chain)]
  /\ rpc' = [rpc EXCEPT ![r] = "idle"]
  /\ UNCHANGED <<base, chain, engine, board, acked, crashes, shot>>

\* replayCheckpointDeltas: the second SELECT, in the same transaction.
ReadChain(r) ==
  /\ rpc[r] = "chain"
  /\ seen' = [seen EXCEPT ![r] = Folded(shot[r][1], shot[r][2])]
  /\ rpc' = [rpc EXCEPT ![r] = "idle"]
  /\ UNCHANGED <<base, chain, engine, board, acked, crashes, shot>>

Next ==
  \/ Wave \/ AppendDelta \/ WriteBase \/ Finish \/ DropElsewhere \/ Crash
  \/ Resume
  \/ \E r \in Readers : ReadBase(r) \/ ReadChain(r)

Spec == Init /\ [][Next]_vars

----------------------------------------------------------------------------
(* Properties. *)

Boundaries == 0..MaxBoundary
Chains == Seq([seq : Nat \ {0}, from : Boundaries, to : Boundaries \ {0}])

TypeOK ==
  /\ base \in Boundaries /\ chain \in Chains
  /\ engine \in {"running", "append", "base", "dead", "done"}
  /\ board \in Boundaries /\ acked \in Boundaries /\ crashes \in 0..MaxCrashes
  /\ rpc \in [Readers -> {"idle", "chain"}]
  /\ shot \in [Readers -> Boundaries \X Chains]
  /\ seen \in [Readers -> {Mixed} \cup Boundaries]

(***************************************************************************)
(* Across appends, bases at the cap, deletes under a running turn, deaths  *)
(* and resumes, the rows fold to exactly the last boundary the store       *)
(* accepted: no boundary is lost to a later one, and none comes back after *)
(* a delete.                                                               *)
(***************************************************************************)
AckedIsKept == Folded(base, chain) = acked

\* Deltas never outlive the base they extend, nor exceed the cap ("a leftover
\* delta describes a base that no longer exists", checkpoint_journal.go:203).
ChainHasBase == chain # << >> => base # 0 /\ Len(chain) <= Cap

(***************************************************************************)
(* The rows implement one record per run: a load in two SELECTs, against   *)
(* writers between them, returns one boundary the run really stamped.      *)
(***************************************************************************)
Record == INSTANCE RunRecord WITH
  record <- Folded(base, chain),
  seen <- [r \in Readers |->
             IF rpc[r] = "chain" THEN Folded(shot[r][1], shot[r][2])
                                 ELSE seen[r]]
RecordInit == Record!Init
RecordStep == [Record!Next]_(Record!vars)
ImplementsRecord == RecordInit /\ [][RecordStep]_(Record!vars)
==============================================================================
