----------------------------- MODULE TurnProofs -----------------------------
(***************************************************************************)
(* What the machines of a turn promise, for every value of their           *)
(* constants: the checkpoint journal (CheckpointJournal), the stream to    *)
(* the window (StreamDelivery) and the messages that wait for the turn     *)
(* (Steering).                                                             *)
(*                                                                         *)
(* The modules are instances over one list of names, shared where two of   *)
(* them use the same one: a theorem speaks of one instance only, and of    *)
(* the constants and variables that one has.                               *)
(***************************************************************************)
EXTENDS Naturals, FiniteSets, Sequences, FiniteSetTheorems, SequenceTheorems,
        WellFoundedInduction, TLAPS

CONSTANTS Readers, Cap, MaxBoundary, MaxCrashes,
          Turns, Workers, Impatient, NoTurn, Kinds, MaxDeltas, MaxFirings, MaxFolded, MaxReloads,
          Submitters, Observers, MaxSize, Depth, MaxSubmits

VARIABLES
  base, chain, engine, board, acked, crashes, rpc, shot, seen,
  registered, closed, newest, tpc, wpc, sink, sent, pending, folded, timer, firing,
  wire, arrived, late, live, dropped, reloads,
  queue, ledger, alive, pc, msg, opc, told, submits, crossed

J == INSTANCE CheckpointJournal
S == INSTANCE StreamDelivery
G == INSTANCE Steering

-----------------------------------------------------------------------------
(* CheckpointJournal: base and deltas fold to the last boundary the store   *)
(* accepted, and together behave as the one record of RunRecord.             *)

\* What the limit of the code and the bounds of the model are.
JournalBounds == Cap \in Nat /\ MaxBoundary \in Nat /\ MaxCrashes \in Nat

\* The chain has no hole and starts at its base.
Linked == \A i \in DOMAIN chain : J!Follows(base, chain, i)

\* The boundary the rows describe.
LastBoundary == IF chain = << >> THEN base ELSE chain[Len(chain)].to

\* Without a base there is no chain and nothing is acknowledged; with one, the
\* rows describe what was acknowledged.
ChainKept ==
  /\ base = 0 => chain = << >> /\ acked = 0
  /\ base # 0 => Linked /\ acked = LastBoundary /\ acked # 0
  /\ Len(chain) <= Cap

\* How far a living engine is from what the store accepted. A delete by somebody
\* else leaves it with nothing acknowledged, and its next append is refused.
EngineInStep ==
  /\ engine = "running" => acked \in {0, board}
  /\ engine = "append" => board # 0 /\ acked \in {0, board - 1}
  /\ engine = "base" => board # 0 /\ acked \in {0, board - 1, board}

JournalInv == J!TypeOK /\ ChainKept /\ EngineInStep

JournalDeltas == [seq : Nat \ {0}, from : J!Boundaries, to : J!Boundaries \ {0}]

\* What a chain is made of.
LEMMA ChainTypes ==
  /\ << >> \in J!Chains
  /\ \A c \in J!Chains :
       /\ Len(c) \in Nat /\ DOMAIN c = 1 .. Len(c)
       /\ c # << >> => Len(c) \in DOMAIN c
       /\ \A i \in DOMAIN c : c[i].seq \in Nat /\ c[i].to \in J!Boundaries /\ c[i].to # 0
       /\ \A d \in JournalDeltas : Append(c, d) \in J!Chains
<1>1. J!Chains = Seq(JournalDeltas) BY DEF J!Chains, JournalDeltas
<1>2. \A d \in JournalDeltas : d.seq \in Nat /\ d.to \in J!Boundaries /\ d.to # 0
  BY DEF JournalDeltas
<1> HIDE DEF JournalDeltas
<1>3. << >> \in Seq(JournalDeltas) OBVIOUS
<1>4. \A c \in Seq(JournalDeltas) :
        /\ Len(c) \in Nat /\ DOMAIN c = 1 .. Len(c)
        /\ c # << >> => Len(c) \in DOMAIN c
        /\ \A i \in DOMAIN c : c[i] \in JournalDeltas
        /\ \A d \in JournalDeltas : Append(c, d) \in Seq(JournalDeltas)
  OBVIOUS
<1> QED BY <1>1, <1>2, <1>3, <1>4

\* A fold is an error, nothing, or a boundary of its rows.
LEMMA FoldType ==
  ASSUME NEW b \in J!Boundaries, NEW c \in J!Chains, JournalBounds
  PROVE  J!Folded(b, c) \in {J!Mixed} \cup J!Boundaries
<1>1. CASE b = 0 \/ c = << >> BY <1>1 DEF J!Folded, J!Boundaries, JournalBounds
<1>2. CASE b # 0 /\ c # << >>
  <2>2. c[Len(c)].to \in J!Boundaries BY <1>2, ChainTypes
  <2> QED BY <1>2, <2>2 DEF J!Folded
<1> QED BY <1>1, <1>2

\* Where the chain has no hole the fold is the last boundary in it.
LEMMA FoldIsAcked == JournalBounds /\ JournalInv => J!Folded(base, chain) = acked
BY DEF JournalInv, ChainKept, Linked, LastBoundary, J!Folded

\* The rows an append leaves describe its boundary.
LEMMA AppendLinks ==
  ASSUME JournalBounds, JournalInv, base # 0, engine = "append", acked = board - 1,
         chain' = Append(chain, J!Delta(J!NextSeq(chain), board - 1, board)),
         base' = base
  PROVE  Linked' /\ LastBoundary' = board /\ chain' # << >> /\ Len(chain') = Len(chain) + 1
<1> DEFINE d == J!Delta(J!NextSeq(chain), board - 1, board)
<1>1. chain \in J!Chains /\ board \in Nat /\ Linked /\ LastBoundary = board - 1
  BY DEF JournalInv, J!TypeOK, ChainKept, J!Boundaries
<1>2. J!NextSeq(chain) = Len(chain) + 1
  <2>1. CASE chain = << >> BY <2>1 DEF J!NextSeq
  <2>2. CASE chain # << >>
    <3>1. Len(chain) \in DOMAIN chain BY <1>1, <2>2, ChainTypes
    <3>2. chain[Len(chain)].seq = Len(chain) BY <1>1, <3>1 DEF Linked, J!Follows
    <3> QED BY <2>2, <3>2 DEF J!NextSeq
  <2> QED BY <2>1, <2>2
<1>3. /\ Len(chain') = Len(chain) + 1 /\ Len(chain) \in Nat
      /\ \A i \in 1 .. Len(chain) : chain'[i] = chain[i]
      /\ chain'[Len(chain) + 1] = d
      /\ DOMAIN chain' = 1 .. Len(chain) + 1 /\ DOMAIN chain = 1 .. Len(chain)
  BY <1>1, ChainTypes
<1>4. d.seq = Len(chain) + 1 /\ d.from = board - 1 /\ d.to = board
  BY <1>2 DEF J!Delta
<1>5. ASSUME NEW i \in DOMAIN chain' PROVE J!Follows(base, chain', i)
  <2>1. CASE i \in DOMAIN chain
    <3>1. J!Follows(base, chain, i) BY <1>1, <2>1 DEF Linked
    <3>2. i # 1 => i - 1 \in 1 .. Len(chain) BY <1>3, <2>1
    <3> QED BY <1>3, <2>1, <3>1, <3>2 DEF J!Follows
  <2>2. CASE i = Len(chain) + 1
    <3>1. CASE chain = << >>
      <4>1. Len(chain) = 0 /\ board - 1 = base BY <1>1, <3>1 DEF LastBoundary
      <4> HIDE DEF d
      <4> QED BY <1>3, <1>4, <2>2, <4>1 DEF J!Follows
    <3>2. CASE chain # << >>
      <4>1. Len(chain) \in 1 .. Len(chain) /\ i - 1 = Len(chain) /\ i # 1
        BY <1>1, <1>3, <2>2, <3>2, ChainTypes
      <4>2. chain'[i - 1].to = board - 1
        BY <1>1, <1>3, <3>2, <4>1 DEF LastBoundary
      <4> HIDE DEF d
      <4> QED BY <1>3, <1>4, <2>2, <4>1, <4>2 DEF J!Follows
    <3> QED BY <3>1, <3>2
  <2> QED BY <1>3, <2>1, <2>2
<1>6. chain' # << >> BY <1>3
<1>7. LastBoundary' = board BY <1>3, <1>4, <1>6 DEF LastBoundary
<1> QED BY <1>3, <1>5, <1>6, <1>7 DEF Linked

\* Every step of the engine and the readers keeps the types.
LEMMA JournalTypes == JournalBounds /\ JournalInv /\ [J!Next]_(J!vars) => J!TypeOK'
<1> SUFFICES ASSUME JournalBounds, JournalInv, [J!Next]_(J!vars) PROVE J!TypeOK'
  OBVIOUS
<1> USE ChainTypes DEF JournalInv, J!TypeOK
<1>1. CASE J!Wave
  BY <1>1 DEF J!Wave, JournalBounds, J!Boundaries
<1>2. CASE J!AppendDelta
  <2>1. CASE J!Accepts
    <3>1. ChainKept /\ EngineInStep /\ board # 0 BY <1>2 DEF J!AppendDelta, EngineInStep
    <3>2. J!NextSeq(chain) \in Nat \ {0}
      <4>1. CASE chain = << >> BY <4>1 DEF J!NextSeq
      <4>2. CASE chain # << >>
        <5>1. chain[Len(chain)].seq \in Nat BY <4>2, ChainTypes
        <5> QED BY <4>2, <5>1 DEF J!NextSeq
      <4> QED BY <4>1, <4>2
    <3>3. J!Delta(J!NextSeq(chain), board - 1, board) \in JournalDeltas
      BY <3>1, <3>2 DEF J!Delta, JournalDeltas, J!Boundaries, JournalBounds
    <3>4. chain' \in J!Chains BY <1>2, <2>1, <3>3, ChainTypes DEF J!AppendDelta
    <3> QED BY <1>2, <2>1, <3>4 DEF J!AppendDelta
  <2>2. CASE ~J!Accepts BY <1>2, <2>2 DEF J!AppendDelta
  <2> QED BY <2>1, <2>2
<1>3. CASE J!WriteBase
  BY <1>3 DEF J!WriteBase
<1>4. CASE J!Finish \/ J!DropElsewhere
  BY <1>4 DEF J!Finish, J!DropElsewhere, J!DeleteCheckpoint, J!Boundaries, JournalBounds
<1>5. CASE J!Crash
  BY <1>5 DEF J!Crash, JournalBounds
<1>6. CASE J!Resume
  BY <1>6, FoldIsAcked DEF J!Resume
<1>7. ASSUME NEW r \in Readers, J!ReadBase(r) PROVE J!TypeOK'
  <2>1. <<base, chain>> \in J!Boundaries \X J!Chains /\ 0 \in J!Boundaries
    BY DEF J!Boundaries, JournalBounds
  <2>2. shot' \in [Readers -> J!Boundaries \X J!Chains]
    BY <1>7, <2>1 DEF J!ReadBase
  <2>3. /\ seen' \in [Readers -> {J!Mixed} \cup J!Boundaries]
        /\ rpc' \in [Readers -> {"idle", "chain"}]
    BY <1>7, <2>1 DEF J!ReadBase
  <2> QED BY <1>7, <2>2, <2>3 DEF J!ReadBase
<1>8. ASSUME NEW r \in Readers, J!ReadChain(r) PROVE J!TypeOK'
  <2>1. J!Folded(shot[r][1], shot[r][2]) \in {J!Mixed} \cup J!Boundaries
    BY FoldType
  <2> QED BY <1>8, <2>1 DEF J!ReadChain
<1>9. CASE UNCHANGED J!vars
  BY <1>9 DEF J!vars
<1> QED BY <1>1, <1>2, <1>3, <1>4, <1>5, <1>6, <1>7, <1>8, <1>9 DEF J!Next

\* An append extends what is there by exactly the boundary it acknowledges, a
\* base replaces it, a delete takes base and chain together.
LEMMA JournalStep == JournalBounds /\ JournalInv /\ [J!Next]_(J!vars) => ChainKept' /\ EngineInStep'
<1> SUFFICES ASSUME JournalBounds, JournalInv, [J!Next]_(J!vars) PROVE ChainKept' /\ EngineInStep'
  OBVIOUS
<1>0. /\ board \in Nat /\ acked \in Nat /\ base \in Nat
      /\ chain \in J!Chains /\ Len(chain) \in Nat /\ Cap \in Nat
  BY ChainTypes DEF JournalInv, J!TypeOK, J!Boundaries, JournalBounds
<1>1. CASE J!Wave
  BY <1>0, <1>1 DEF J!Wave, JournalInv, ChainKept, Linked, LastBoundary, EngineInStep
<1>2. CASE J!AppendDelta
  <2>1. CASE J!Accepts
    <3>1. base # 0 /\ engine = "append" /\ acked = board - 1 /\ board # 0
      BY <1>0, <1>2, <2>1 DEF J!AppendDelta, J!Accepts, JournalInv, ChainKept, EngineInStep
    <3>2. Linked' /\ LastBoundary' = board /\ Len(chain') = Len(chain) + 1
      BY <1>2, <2>1, <3>1, AppendLinks DEF J!AppendDelta
    <3>3. ChainKept'
      BY <1>0, <1>2, <2>1, <3>1, <3>2 DEF J!AppendDelta, J!Accepts, ChainKept
    <3> QED BY <1>2, <2>1, <3>3 DEF J!AppendDelta, EngineInStep
  <2>2. CASE ~J!Accepts
    BY <1>0, <1>2, <2>2 DEF J!AppendDelta, JournalInv, ChainKept, Linked, LastBoundary, EngineInStep
  <2> QED BY <2>1, <2>2
<1>3. CASE J!WriteBase
  BY <1>0, <1>3 DEF J!WriteBase, JournalInv, ChainKept, Linked, LastBoundary, EngineInStep, J!Follows
<1>4. CASE J!Finish \/ J!DropElsewhere
  BY <1>0, <1>4 DEF J!Finish, J!DropElsewhere, J!DeleteCheckpoint, JournalInv, ChainKept, EngineInStep
<1>5. CASE J!Crash
  BY <1>0, <1>5 DEF J!Crash, JournalInv, ChainKept, Linked, LastBoundary, EngineInStep
<1>6. CASE J!Resume
  BY <1>0, <1>6, FoldIsAcked DEF J!Resume, JournalInv, ChainKept, Linked, LastBoundary, EngineInStep
<1>7. CASE (\E r \in Readers : J!ReadBase(r) \/ J!ReadChain(r)) \/ UNCHANGED J!vars
  <2>1. UNCHANGED <<base, chain, engine, board, acked>>
    BY <1>7 DEF J!ReadBase, J!ReadChain, J!vars
  <2> QED BY <2>1 DEF JournalInv, ChainKept, Linked, LastBoundary, EngineInStep
<1> QED BY <1>1, <1>2, <1>3, <1>4, <1>5, <1>6, <1>7 DEF J!Next

\* The invariant of the journal.
LEMMA JournalAlways == JournalBounds => (J!Spec => []JournalInv)
<1> SUFFICES ASSUME JournalBounds PROVE J!Spec => []JournalInv
  OBVIOUS
<1>1. J!Init => JournalInv
  BY ChainTypes DEF J!Init, JournalInv, J!TypeOK, ChainKept, EngineInStep, J!Boundaries, JournalBounds
<1>2. JournalInv /\ [J!Next]_(J!vars) => JournalInv'
  BY JournalTypes, JournalStep DEF JournalInv
<1> QED BY <1>1, <1>2, PTL DEF J!Spec

\* The rows fold to the last boundary the store accepted, whatever appends,
\* bases, deletes and deaths interleave (Append, WriteBase, deleteCheckpoint).
THEOREM AckedBoundaryIsKept == JournalBounds => (J!Spec => []J!AckedIsKept)
<1> SUFFICES ASSUME JournalBounds PROVE J!Spec => []J!AckedIsKept
  OBVIOUS
<1>1. JournalInv => J!AckedIsKept BY FoldIsAcked DEF J!AckedIsKept
<1> QED BY <1>1, JournalAlways, PTL

\* No delta outlives its base and the chain keeps its limit (deleteCheckpoint,
\* checkpointChainLimit).
THEOREM DeltasHaveBase == JournalBounds => (J!Spec => []J!ChainHasBase)
<1> SUFFICES ASSUME JournalBounds PROVE J!Spec => []J!ChainHasBase
  OBVIOUS
<1>1. JournalInv => J!ChainHasBase BY DEF JournalInv, ChainKept, J!ChainHasBase
<1> QED BY <1>1, JournalAlways, PTL

\* Base and deltas are one record: a step of the engine stamps a later boundary,
\* drops the record or leaves it, and a load in two SELECTs gives what one read
\* of the record gave when its transaction began (loadCheckpoint).
THEOREM JournalRefinement == JournalBounds => (J!Spec => J!ImplementsRecord)
<1> SUFFICES ASSUME JournalBounds PROVE J!Spec => J!ImplementsRecord
  OBVIOUS
<1> DEFINE record == J!Folded(base, chain)
           result == [r \in Readers |-> IF rpc[r] = "chain"
                                       THEN J!Folded(shot[r][1], shot[r][2])
                                       ELSE seen[r]]
<1>1. J!Init => J!RecordInit
  BY DEF J!Init, J!RecordInit, J!Record!Init, J!Folded
<1>2. JournalInv /\ [J!Next]_(J!vars) => [J!RecordStep]_(J!Record!vars)
  <2> SUFFICES ASSUME JournalInv, [J!Next]_(J!vars) PROVE J!Record!Next \/ UNCHANGED J!Record!vars
    BY DEF J!RecordStep
  <2>1. record = acked /\ record' = acked'
    <3>1. JournalInv' BY JournalTypes, JournalStep DEF JournalInv
    <3>2. record = acked BY FoldIsAcked
    <3>3. J!Folded(base', chain') = acked'
      BY <3>1 DEF JournalInv, ChainKept, Linked, LastBoundary, J!Folded
    <3> QED BY <3>2, <3>3
  <2>2. board \in Nat /\ acked \in Nat
    BY DEF JournalInv, J!TypeOK, J!Boundaries, JournalBounds
  <2>3. ASSUME UNCHANGED J!reads PROVE result' = result
    BY <2>3 DEF J!reads
  <2>4. CASE J!AppendDelta
    <3>1. UNCHANGED J!reads BY <2>4 DEF J!AppendDelta, J!reads
    <3>2. acked' = acked \/ (acked' \in Nat /\ acked' > acked)
      BY <2>2, <2>4 DEF J!AppendDelta, JournalInv, EngineInStep
    <3> QED BY <2>1, <2>3, <3>1, <3>2 DEF J!Record!Next, J!Record!Stamp, J!Record!vars
  <2>5. CASE J!WriteBase
    <3>1. UNCHANGED J!reads BY <2>5 DEF J!WriteBase, J!reads
    <3>2. acked' = acked \/ (acked' \in Nat /\ acked' > acked)
      BY <2>2, <2>5 DEF J!WriteBase, JournalInv, EngineInStep
    <3> QED BY <2>1, <2>3, <3>1, <3>2 DEF J!Record!Next, J!Record!Stamp, J!Record!vars
  <2>6. CASE J!Finish \/ J!DropElsewhere
    <3>1. UNCHANGED J!reads /\ acked' = 0
      BY <2>6 DEF J!Finish, J!DropElsewhere, J!DeleteCheckpoint, J!reads
    <3> QED BY <2>1, <2>3, <3>1 DEF J!Record!Next, J!Record!Drop
  <2>7. CASE J!Wave \/ J!Crash \/ J!Resume \/ UNCHANGED J!vars
    <3>1. UNCHANGED J!reads /\ acked' = acked
      BY <2>7 DEF J!Wave, J!Crash, J!Resume, J!vars, J!reads
    <3> QED BY <2>1, <2>3, <3>1 DEF J!Record!vars
  <2>8. ASSUME NEW r \in Readers, J!ReadBase(r)
        PROVE  J!Record!Next
    <3>1. acked' = acked BY <2>8 DEF J!ReadBase
    <3>2. rpc[r] = "idle" /\ shot' = [shot EXCEPT ![r] = <<base, chain>>]
      BY <2>8 DEF J!ReadBase
    <3>3. result' = [result EXCEPT ![r] = record]
      <4>1. CASE base = 0
        BY <2>8, <3>2, <4>1 DEF J!ReadBase, J!Folded, JournalInv, J!TypeOK
      <4>2. CASE base # 0
        <5>1. rpc' = [rpc EXCEPT ![r] = "chain"] /\ seen' = seen
          BY <2>8, <4>2 DEF J!ReadBase
        <5>2. /\ rpc \in [Readers -> {"idle", "chain"}]
              /\ DOMAIN shot = Readers
          BY DEF JournalInv, J!TypeOK
        <5>3. shot'[r] = <<base, chain>> /\ \A q \in Readers \ {r} : shot'[q] = shot[q]
          BY <3>2, <5>2
        <5>4. rpc'[r] = "chain" /\ \A q \in Readers \ {r} : rpc'[q] = rpc[q]
          BY <5>1, <5>2
        <5>5. shot'[r][1] = base /\ shot'[r][2] = chain BY <5>3
        <5>6. result'[r] = record BY <5>4, <5>5
        <5>7. \A q \in Readers \ {r} : result'[q] = result[q] BY <5>1, <5>3, <5>4
        <5> HIDE DEF record
        <5> QED BY <5>6, <5>7
      <4> QED BY <4>1, <4>2
    <3> QED BY <2>1, <3>1, <3>3 DEF J!Record!Next, J!Record!Load
  <2>9. ASSUME NEW r \in Readers, J!ReadChain(r)
        PROVE  UNCHANGED J!Record!vars
    <3>1. acked' = acked BY <2>9 DEF J!ReadChain
    <3>2. result' = result BY <2>9 DEF J!ReadChain, JournalInv, J!TypeOK
    <3> QED BY <2>1, <3>1, <3>2 DEF J!Record!vars
  <2> QED BY <2>4, <2>5, <2>6, <2>7, <2>8, <2>9 DEF J!Next
<1> QED BY <1>1, <1>2, JournalAlways, PTL DEF J!Spec, J!ImplementsRecord

-----------------------------------------------------------------------------
(* Numbers and sequences. *)

\* A set of numbers that is not empty has a least one.
LEMMA LeastNat ==
  ASSUME NEW T, T \subseteq Nat, T # {}
  PROVE \E x \in T : \A y \in T : x <= y
<1> DEFINE R == OpToRel(<, Nat)
<1>1. IsWellFoundedOn(R, Nat)
  BY NatLessThanWellFounded, Zenon
<1> HIDE DEF R
<1>2. PICK x \in T : \A y \in T : ~ (<<y, x>> \in R)
  BY <1>1, WFMin
<1>3. \A y \in T : ~(y < x)
  BY <1>2 DEF R, OpToRel
<1> QED BY <1>3

\* Induction, of a set of numbers in place of an operator.
LEMMA NatSetInduction ==
  ASSUME NEW T, 0 \in T, \A n \in Nat : n \in T => n + 1 \in T
  PROVE Nat \subseteq T
<1> DEFINE B == {n \in Nat : n \notin T}
<1> SUFFICES ASSUME B # {} PROVE FALSE
  OBVIOUS
<1>1. PICK x \in B : \A y \in B : x <= y
  BY LeastNat
<1>2. x # 0 /\ x - 1 \in Nat /\ x - 1 \notin B
  BY <1>1
<1> QED BY <1>2

\* The last entry of a sequence, and the rest of it with it at its end.
LEMMA LastOf ==
  ASSUME NEW R, NEW s, s \in Seq(R), s # << >>
  PROVE  /\ Len(s) \in Nat \ {0} /\ s[Len(s)] \in R
         /\ \E p \in Seq(R) : s = Append(p, s[Len(s)])
<1>1. PICK p \in Seq(R), x \in R : s = Append(p, x)
  BY SequenceEmptyOrAppend, Zenon
<1>2. Len(s) = Len(p) + 1 /\ s[Len(p) + 1] = x /\ Len(p) \in Nat
  BY <1>1, AppendProperties, LenProperties
<1> QED BY <1>1, <1>2

-----------------------------------------------------------------------------
(* The items of a sequence of events. *)

\* The concatenations of the first entries of s.
Sums(s, n, f) == f = [i \in 1 .. n |-> IF i = 1 THEN s[i] ELSE f[i - 1] \o s[i]]

\* Every sequence of sequences has its partial concatenations.
LEMMA SumsExist ==
  ASSUME NEW s
  PROVE  \A n \in Nat : \E f : Sums(s, n, f)
<1> DEFINE T == {n \in Nat : \E f : Sums(s, n, f)}
<1>1. 0 \in T
  <2>1. Sums(s, 0, << >>)
    BY DEF Sums
  <2> QED BY <2>1
<1>2. ASSUME NEW n \in Nat, n \in T PROVE n + 1 \in T
  <2>1. PICK f : Sums(s, n, f)
    BY <1>2
  <2> DEFINE g == [i \in 1 .. n + 1 |-> IF i <= n THEN f[i]
                                        ELSE IF i = 1 THEN s[i] ELSE f[i - 1] \o s[i]]
  <2>2. \A i \in 1 .. n : f[i] = IF i = 1 THEN s[i] ELSE f[i - 1] \o s[i]
    BY <2>1 DEF Sums
  <2>3. \A i \in 1 .. n : g[i] = f[i]
    OBVIOUS
  <2>4. \A i \in 1 .. n + 1 : g[i] = IF i = 1 THEN s[i] ELSE g[i - 1] \o s[i]
    <3> TAKE i \in 1 .. n + 1
    <3>1. CASE i <= n
      BY <3>1, <2>2, <2>3
    <3>2. CASE i = n + 1
      BY <3>2, <2>3
    <3> QED BY <3>1, <3>2
  <2>5. Sums(s, n + 1, g)
    BY <2>4 DEF Sums
  <2> QED BY <2>5
<1> HIDE DEF T
<1>3. Nat \subseteq T
  BY <1>1, <1>2, NatSetInduction
<1> QED BY <1>3 DEF T

\* What FlattenSeq chooses is the last of them.
LEMMA SumsValue ==
  ASSUME NEW s, Len(s) \in Nat, Len(s) # 0
  PROVE  \E f : Sums(s, Len(s), f) /\ S!FlattenSeq(s) = f[Len(s)]
<1> DEFINE f == CHOOSE h : h = [i \in 1 .. Len(s) |-> IF i = 1 THEN s[i] ELSE h[i - 1] \o s[i]]
<1>1. \E h : h = [i \in 1 .. Len(s) |-> IF i = 1 THEN s[i] ELSE h[i - 1] \o s[i]]
  BY SumsExist DEF Sums
<1>2. f = [i \in 1 .. Len(s) |-> IF i = 1 THEN s[i] ELSE f[i - 1] \o s[i]]
  BY <1>1, Zenon
<1>3. S!FlattenSeq(s) = f[Len(s)]
  BY Zenon DEF S!FlattenSeq
<1>4. Sums(s, Len(s), f)
  BY <1>2 DEF Sums
<1> HIDE DEF f
<1> QED BY <1>3, <1>4

\* Each is the one before and the next entry.
LEMMA SumsStep ==
  ASSUME NEW s, NEW n \in Nat, NEW f, Sums(s, n, f), NEW i \in 0 .. n - 1
  PROVE  f[i + 1] = IF i = 0 THEN s[1] ELSE f[i] \o s[i + 1]
<1> DEFINE j == i + 1
<1>1. j \in 1 .. n /\ j - 1 = i
  OBVIOUS
<1>2. f[j] = IF j = 1 THEN s[j] ELSE f[j - 1] \o s[j]
  BY <1>1 DEF Sums
<1>3. f[j] = IF j = 1 THEN s[j] ELSE f[i] \o s[j]
  BY <1>1, <1>2
<1> QED BY <1>3

\* Two sequences have the same first n entries.
Agree(s, t, n) == \A i \in 1 .. n : s[i] = t[i]

\* Sequences that begin alike have the same partial concatenations so far.
LEMMA SumsAgree ==
  ASSUME NEW s, NEW t, NEW n, NEW m, n \in Nat, m \in Nat, n <= m,
         Agree(s, t, n), NEW f, NEW g, Sums(s, n, f), Sums(t, m, g)
  PROVE  Agree(f, g, n)
<1> DEFINE T == {i \in Nat : i \in 1 .. n => f[i] = g[i]}
<1>1. \A i \in 0 .. n - 1 : f[i + 1] = IF i = 0 THEN s[1] ELSE f[i] \o s[i + 1]
  BY SumsStep
<1>2. \A i \in 0 .. m - 1 : g[i + 1] = IF i = 0 THEN t[1] ELSE g[i] \o t[i + 1]
  BY SumsStep
<1>3. 0 \in T
  OBVIOUS
<1>4. ASSUME NEW i \in Nat, i \in T PROVE i + 1 \in T
  <2>1. CASE i = 0 /\ i + 1 \in 1 .. n
    <3>1. i \in 0 .. n - 1 /\ i \in 0 .. m - 1 /\ s[1] = t[1]
      BY <2>1 DEF Agree
    <3>2. f[i + 1] = s[1] /\ g[i + 1] = t[1]
      BY <1>1, <1>2, <2>1, <3>1, Zenon
    <3>3. f[i + 1] = g[i + 1]
      BY <3>1, <3>2, Zenon
    <3> QED BY <3>3
  <2>2. CASE i # 0 /\ i + 1 \in 1 .. n
    <3>1. f[i] = g[i] /\ i \in 0 .. n - 1 /\ i \in 0 .. m - 1 /\ s[i + 1] = t[i + 1]
      BY <1>4, <2>2 DEF Agree
    <3>2. f[i + 1] = f[i] \o s[i + 1] /\ g[i + 1] = g[i] \o t[i + 1]
      BY <1>1, <1>2, <2>2, <3>1, Zenon
    <3>3. f[i + 1] = g[i + 1]
      BY <3>1, <3>2, Zenon
    <3> QED BY <3>3
  <2>3. CASE i + 1 \notin 1 .. n
    BY <2>3
  <2> QED BY <2>1, <2>2, <2>3
<1> HIDE DEF T
<1>5. Nat \subseteq T
  BY <1>3, <1>4, NatSetInduction
<1> QED BY <1>5 DEF T, Agree

\* Nothing flattens to nothing.
LEMMA FlattenEmpty == S!FlattenSeq(<< >>) = << >>
BY DEF S!FlattenSeq

\* One entry more adds its items at the end.
LEMMA FlattenAppend ==
  ASSUME NEW A, NEW s \in Seq(Seq(A)), NEW x \in Seq(A)
  PROVE  /\ S!FlattenSeq(s) \in Seq(A)
         /\ S!FlattenSeq(Append(s, x)) = S!FlattenSeq(s) \o x
<1> DEFINE n == Len(s)
           t == Append(s, x)
<1>1. /\ n \in Nat /\ Len(t) = n + 1 /\ t[n + 1] = x
      /\ \A i \in 1 .. n : s[i] = t[i] /\ s[i] \in Seq(A)
  BY AppendProperties, LenProperties
<1>2. PICK g : Sums(t, n + 1, g) /\ S!FlattenSeq(t) = g[n + 1]
  <2>1. Len(t) \in Nat /\ Len(t) # 0
    BY <1>1
  <2>2. PICK h : Sums(t, Len(t), h) /\ S!FlattenSeq(t) = h[Len(t)]
    BY <2>1, SumsValue, Zenon
  <2> QED BY <2>2, <1>1
<1>3. g[n + 1] = IF n = 0 THEN t[1] ELSE g[n] \o t[n + 1]
  <2>1. n + 1 \in Nat /\ n \in 0 .. n + 1 - 1
    BY <1>1
  <2>2. Sums(t, n + 1, g)
    BY <1>2
  <2> HIDE DEF n, t
  <2> QED BY <2>1, <2>2, SumsStep
<1>4. CASE n = 0
  <2>1. s = << >> /\ S!FlattenSeq(s) = << >>
    BY <1>4, FlattenEmpty
  <2>2. g[n + 1] = x
    BY <1>1, <1>3, <1>4
  <2> QED BY <2>1, <2>2, <1>2, ConcatEmptySeq, EmptySeq
<1>5. CASE n # 0
  <2>1. PICK f : Sums(s, n, f) /\ S!FlattenSeq(s) = f[n]
    BY <1>1, <1>5, SumsValue
  <2>2. \A i \in 1 .. n : f[i] = g[i]
    <3>1. n \in Nat /\ n + 1 \in Nat /\ n <= n + 1 /\ Agree(s, t, n)
      BY <1>1 DEF Agree
    <3>2. Sums(s, n, f) /\ Sums(t, n + 1, g)
      BY <1>2, <2>1
    <3> HIDE DEF n, t
    <3>3. Agree(f, g, n)
      BY <3>1, <3>2, SumsAgree
    <3> QED BY <3>3 DEF Agree
  <2>3. g[n + 1] = g[n] \o x
    BY <1>1, <1>3, <1>5
  <2>4. \A i \in 0 .. n - 1 : f[i + 1] = IF i = 0 THEN s[1] ELSE f[i] \o s[i + 1]
    BY <1>1, <2>1, SumsStep
  <2> DEFINE T == {i \in Nat : i \in 1 .. n => f[i] \in Seq(A)}
  <2>5. 0 \in T
    OBVIOUS
  <2>6. ASSUME NEW i \in Nat, i \in T PROVE i + 1 \in T
    <3>1. CASE i = 0
      BY <3>1, <1>1, <2>4
    <3>2. CASE i # 0 /\ i + 1 \in 1 .. n
      <4>1. f[i] \in Seq(A) /\ i \in 0 .. n - 1 /\ s[i + 1] \in Seq(A)
        BY <2>6, <3>2, <1>1
      <4>2. f[i + 1] = f[i] \o s[i + 1]
        BY <2>4, <3>2, <4>1, Zenon
      <4>3. f[i] \o s[i + 1] \in Seq(A)
        BY <4>1, ConcatProperties, Zenon
      <4>4. f[i + 1] \in Seq(A)
        BY <4>2, <4>3, Zenon
      <4> QED BY <4>4
    <3>3. CASE i + 1 \notin 1 .. n
      BY <3>3
    <3> QED BY <3>1, <3>2, <3>3
  <2> HIDE DEF T
  <2>7. Nat \subseteq T
    BY <2>5, <2>6, NatSetInduction
  <2>8. f[n] \in Seq(A)
    BY <2>7, <1>1, <1>5 DEF T
  <2>9. f[n] = g[n]
    BY <2>2, <1>1, <1>5
  <2> QED BY <2>1, <2>8, <2>3, <2>9, <1>2
<1> QED BY <1>1, <1>4, <1>5

\* The sequence a is p and then c.
Joins(a, p, c) == a = p \o c

\* Concatenation, associated to the right.
LEMMA ThreeParts ==
  ASSUME NEW A, NEW p, NEW q, NEW x, NEW a, NEW b, NEW c, p \in Seq(A), q \in Seq(A),
         x \in Seq(A), Joins(a, b, x), Joins(b, p, q), Joins(c, q, x)
  PROVE  Joins(a, p, c)
BY ConcatAssociative DEF Joins

\* FlattenSeq distributes over concatenation.
LEMMA FlattenConcat ==
  ASSUME NEW A, NEW s \in Seq(Seq(A)), NEW t \in Seq(Seq(A))
  PROVE  S!FlattenSeq(s \o t) = S!FlattenSeq(s) \o S!FlattenSeq(t)
<1> DEFINE T == {n \in Nat : \A u \in Seq(Seq(A)) : Len(u) = n =>
                     S!FlattenSeq(s \o u) = S!FlattenSeq(s) \o S!FlattenSeq(u)}
<1>0. S!FlattenSeq(s) \in Seq(A)
  BY FlattenAppend, EmptySeq
<1>1. 0 \in T
  <2> SUFFICES ASSUME NEW u \in Seq(Seq(A)), Len(u) = 0
               PROVE  S!FlattenSeq(s \o u) = S!FlattenSeq(s) \o S!FlattenSeq(u)
    OBVIOUS
  <2>1. u = << >>
    BY EmptySeq
  <2>2. s \o u = s
    BY <2>1, ConcatEmptySeq
  <2>3. S!FlattenSeq(u) = << >>
    BY <2>1, FlattenEmpty
  <2> QED BY <2>2, <2>3, <1>0, ConcatEmptySeq
<1>2. ASSUME NEW n \in Nat, n \in T PROVE n + 1 \in T
  <2> SUFFICES ASSUME NEW u \in Seq(Seq(A)), Len(u) = n + 1
               PROVE  S!FlattenSeq(s \o u) = S!FlattenSeq(s) \o S!FlattenSeq(u)
    OBVIOUS
  <2>1. PICK v \in Seq(Seq(A)), x \in Seq(A) : u = Append(v, x)
    <3>1. u # << >>
      BY EmptySeq
    <3> QED BY <3>1, SequenceEmptyOrAppend, Zenon
  <2>2. Len(v) = n
    BY <2>1, AppendProperties, LenProperties
  <2>3. S!FlattenSeq(s \o v) = S!FlattenSeq(s) \o S!FlattenSeq(v)
    BY <2>2, <1>2
  <2>4. s \o v \in Seq(Seq(A)) /\ s \o u = Append(s \o v, x)
    <3>1. u = v \o <<x>> /\ <<x>> \in Seq(Seq(A))
      BY <2>1, AppendIsConcat
    <3>2. s \o v \in Seq(Seq(A))
      BY ConcatProperties
    <3>3. s \o u = (s \o v) \o <<x>>
      BY <3>1, ConcatAssociative
    <3> QED BY <3>2, <3>3, AppendIsConcat
  <2>5. S!FlattenSeq(s \o u) = S!FlattenSeq(s \o v) \o x
    BY <2>4, FlattenAppend
  <2>6. S!FlattenSeq(u) = S!FlattenSeq(v) \o x /\ S!FlattenSeq(v) \in Seq(A)
    BY <2>1, FlattenAppend
  <2>7. /\ Joins(S!FlattenSeq(s \o u), S!FlattenSeq(s \o v), x)
        /\ Joins(S!FlattenSeq(s \o v), S!FlattenSeq(s), S!FlattenSeq(v))
        /\ Joins(S!FlattenSeq(u), S!FlattenSeq(v), x)
    BY <2>3, <2>5, <2>6 DEF Joins
  <2>8. Joins(S!FlattenSeq(s \o u), S!FlattenSeq(s), S!FlattenSeq(u))
    BY <2>1, <2>6, <2>7, <1>0, ThreeParts
  <2> QED BY <2>8 DEF Joins
<1> HIDE DEF T
<1>3. Nat \subseteq T
  BY <1>1, <1>2, NatSetInduction
<1>4. Len(t) \in T
  BY <1>3, LenProperties
<1> QED BY <1>4 DEF T

-----------------------------------------------------------------------------
(* StreamDelivery: the stream of turns and delegated runs to the window. *)

\* The actors have names of their own, and the bounds are numbers.
StreamNames ==
    /\ NoTurn \notin Turns /\ Turns \cap Workers = {} /\ "turn_end" \notin Kinds
    /\ MaxDeltas \in Nat /\ MaxReloads \in Nat /\ MaxFirings \in Nat /\ MaxFolded \in Nat \ {0}

\* A delta is a writer and the number of what it wrote; an event has a kind and its
\* items.
Delta == S!Emitters \X Nat

Events == [who : S!Emitters, kind : Kinds \cup {"turn_end"}, items : Seq(Delta)]

\* The types the steps rest on.
StreamShape ==
    /\ registered \in Turns \cup {NoTurn} /\ closed \subseteq Turns
    /\ newest \in Turns \cup {NoTurn}
    /\ tpc \in [Turns -> {"idle", "starting", "running", "flush", "deliver",
                          "release", "close", "done"}]
    /\ wpc \in [S!Emitters -> {"idle", "streaming", "next"}]
    /\ sink \in [S!Emitters -> Turns \cup {NoTurn}]
    /\ sent \in [S!Emitters -> Nat] /\ late \in [S!Emitters -> Nat]
    /\ folded \in 0 .. MaxFolded - 1 /\ timer \in {"nil", "armed", "fired"}
    /\ firing \in 0 .. MaxFirings /\ rpc \in {"idle", "reload"}
    /\ wire \in Seq(Events) /\ pending \in Seq(Events) /\ arrived \in Seq(Delta)
    /\ reloads \in 0 .. MaxReloads /\ (rpc = "reload" => reloads < MaxReloads)
    /\ Len(arrived) <= MaxDeltas

\* The items of a sequence of events, event by event.
LEMMA ItemsOf ==
  ASSUME NEW s, s \in Seq(Events)
  PROVE  /\ [i \in DOMAIN s |-> s[i].items] \in Seq(Seq(Delta))
         /\ Len([i \in DOMAIN s |-> s[i].items]) = Len(s)
         /\ Len(s) \in Nat /\ DOMAIN s = 1 .. Len(s)
         /\ \A i \in 1 .. Len(s) : s[i].items \in Seq(Delta)
<1>1. Len(s) \in Nat /\ DOMAIN s = 1 .. Len(s) /\ \A i \in 1 .. Len(s) : s[i] \in Events
  BY LenProperties, ElementOfSeq
<1>2. \A e \in Events : e.items \in Seq(Delta)
  BY DEF Events
<1>3. \A i \in 1 .. Len(s) : s[i].items \in Seq(Delta)
  BY <1>1, <1>2
<1> DEFINE u == [i \in 1 .. Len(s) |-> s[i].items]
<1>4. u \in [1 .. Len(s) -> Seq(Delta)]
  BY <1>3
<1>5. u \in Seq(Seq(Delta)) /\ Len(u) = Len(s)
  <2> HIDE DEF u
  <2>1. \A n \in Nat : \A f \in [1 .. n -> Seq(Delta)] : f \in Seq(Seq(Delta)) /\ Len(f) = n
    OBVIOUS
  <2> QED BY <2>1, <1>1, <1>4
<1> QED BY <1>1, <1>3, <1>5

\* The items of a row of events.
LEMMA ItemsAppend ==
  ASSUME NEW s \in Seq(Events), NEW e \in Events
  PROVE  /\ S!Items(s) \in Seq(Delta)
         /\ S!Items(Append(s, e)) = S!Items(s) \o e.items
<1> DEFINE u == [i \in DOMAIN s |-> s[i].items]
           t == Append(s, e)
<1>1. e.items \in Seq(Delta)
  BY DEF Events
<1>2. /\ u \in Seq(Seq(Delta)) /\ Len(u) = Len(s) /\ DOMAIN s = 1 .. Len(s)
      /\ \A i \in 1 .. Len(s) : s[i].items \in Seq(Delta)
  BY ItemsOf
<1>3. /\ DOMAIN t = 1 .. Len(s) + 1 /\ t[Len(s) + 1] = e
      /\ \A i \in 1 .. Len(s) : t[i] = s[i]
  BY AppendProperties, LenProperties
<1>4. [i \in DOMAIN t |-> t[i].items] = Append(u, e.items)
  <2>1. Append(u, e.items) \in Seq(Seq(Delta)) /\ Len(Append(u, e.items)) = Len(s) + 1
    BY <1>1, <1>2, AppendProperties
  <2>2. DOMAIN Append(u, e.items) = 1 .. Len(s) + 1
    BY <2>1, LenProperties
  <2>3. \A i \in 1 .. Len(s) + 1 : Append(u, e.items)[i] = t[i].items
    BY <1>1, <1>2, <1>3, AppendProperties
  <2> QED BY <2>1, <2>2, <2>3, <1>3, LenProperties
<1> HIDE DEF u, t
<1>5. S!Items(t) = S!FlattenSeq(Append(u, e.items)) /\ S!Items(s) = S!FlattenSeq(u)
  BY <1>4 DEF S!Items, u
<1> QED BY <1>1, <1>2, <1>5, FlattenAppend DEF t

\* The items of what was sent and of what is buffered are those of both, in this order.
LEMMA ItemsConcat ==
  ASSUME NEW s \in Seq(Events), NEW t \in Seq(Events)
  PROVE  S!Items(s \o t) = S!Items(s) \o S!Items(t)
<1> DEFINE u == [i \in DOMAIN s |-> s[i].items]
           v == [i \in DOMAIN t |-> t[i].items]
           w == [i \in DOMAIN (s \o t) |-> (s \o t)[i].items]
<1>2. /\ u \in Seq(Seq(Delta)) /\ Len(u) = Len(s) /\ DOMAIN s = 1 .. Len(s)
      /\ v \in Seq(Seq(Delta)) /\ Len(v) = Len(t) /\ DOMAIN t = 1 .. Len(t)
      /\ Len(s) \in Nat /\ Len(t) \in Nat
  BY ItemsOf
<1>3. DOMAIN (s \o t) = 1 .. Len(s) + Len(t)
  BY ConcatProperties, LenProperties
<1>4. u \o v \in Seq(Seq(Delta)) /\ DOMAIN (u \o v) = 1 .. Len(s) + Len(t)
  BY <1>2, ConcatProperties, LenProperties
<1>5. \A i \in 1 .. Len(s) + Len(t) : (u \o v)[i] = (s \o t)[i].items
  <2> TAKE i \in 1 .. Len(s) + Len(t)
  <2>1. (s \o t)[i] = IF i <= Len(s) THEN s[i] ELSE t[i - Len(s)]
    BY ConcatProperties
  <2>2. (u \o v)[i] = IF i <= Len(s) THEN u[i] ELSE v[i - Len(s)]
    BY <1>2, ConcatProperties
  <2>3. i <= Len(s) => i \in 1 .. Len(s)
    BY <1>2
  <2>4. ~(i <= Len(s)) => i - Len(s) \in 1 .. Len(t)
    BY <1>2
  <2> QED BY <2>1, <2>2, <2>3, <2>4, <1>2
<1>6. w = u \o v
  BY <1>3, <1>4, <1>5, LenProperties
<1> HIDE DEF u, v, w
<1>7. S!Items(s \o t) = S!FlattenSeq(w) /\ S!Items(s) = S!FlattenSeq(u) /\ S!Items(t) = S!FlattenSeq(v)
  BY DEF S!Items, u, v, w
<1>8. S!FlattenSeq(u \o v) = S!FlattenSeq(u) \o S!FlattenSeq(v)
  BY <1>2, FlattenConcat
<1> QED BY <1>6, <1>7, <1>8

\* An empty buffer holds no items.
LEMMA ItemsEmpty == S!Items(<< >>) = << >>
<1>1. [i \in DOMAIN << >> |-> << >>[i].items] = << >>
  OBVIOUS
<1> QED BY <1>1, FlattenEmpty DEF S!Items

\* Each delta of an event is of the event's stream.
Own(e) == \A k \in 1 .. Len(e.items) : e.items[k][1] = e.who

\* A turn that may still have text under way: it is live, or streams on although its
\* caller has left it.
Sends(t) == tpc[t] \in {"running", "flush"} \/ sink[t] = t

\* Events of text, of streams that may still have text under way.
Rows(q) ==
    /\ q \in Seq(Events)
    /\ \A i \in 1 .. Len(q) :
        /\ q[i].kind \in Kinds /\ Own(q[i])
        /\ q[i].who \in Turns => Sends(q[i].who)

\* The steps of a turn whose end is on the wire.
Over == {"release", "close", "done"}

\* A turn_end on the wire is of a turn that is over, and the last of that turn unless it
\* streams on.
EndsLast ==
    /\ \A i \in 1 .. Len(wire) : Own(wire[i])
    /\ \A i \in 1 .. Len(wire) :
        wire[i].kind = "turn_end" => wire[i].who \in Turns /\ tpc[wire[i].who] \in Over
    /\ \A i, j \in 1 .. Len(wire) :
        wire[i].kind = "turn_end" /\ wire[j].who = wire[i].who =>
            j <= i \/ sink[wire[i].who] = wire[i].who

\* The registry names a turn that is open, the newest while it lasts.
StreamRegistry ==
    /\ registered # NoTurn => registered = newest
    /\ registered \in Turns => tpc[registered] \in {"starting", "running", "flush", "deliver", "release"}
    /\ newest \in Turns /\ registered = NoTurn => tpc[newest] \in {"close", "done"}
    /\ \A t \in closed : tpc[t] = "done"

\* What a delegated run, or a turn left by its caller, may still write, by the state of
\* its sink.
StreamWorkers ==
    /\ \A e \in S!Emitters :
        /\ late[e] <= 1
        /\ late[e] = 1 => wpc[e] # "next" /\ sink[e] \in closed
    /\ \A w \in Workers : wpc[w] = "idle" => late[w] = 0
    /\ \A t \in Turns : sink[t] \in {NoTurn, t} /\ (wpc[t] # "idle" => sink[t] = t)

\* The timer and its callbacks, by what is buffered.
StreamTimer ==
    /\ timer = "fired" => firing > 0
    /\ pending # << >> => timer # "nil"

\* Every delta of a writer is numbered in the order it was written.
StreamCounts ==
    /\ folded = Len(S!Items(pending))
    /\ \A e \in S!Emitters : sent[e] <= Len(arrived) + MaxDeltas * reloads

\* The inductive invariant of StreamDelivery.
StreamInv ==
    /\ StreamShape /\ StreamRegistry /\ StreamWorkers /\ StreamTimer /\ StreamCounts
    /\ Rows(pending) /\ EndsLast /\ S!ArrivalOrder /\ live = {}

\* The sequence s is p, and x at its end.
Ends(s, p, x) == s = Append(p, x)

\* An append to the last event of the buffer (foldPending) changes that event only.
LEMMA LastReplaced ==
  ASSUME NEW R, NEW p, NEW x, NEW y, p \in Seq(R), x \in R, y \in R, NEW s, Ends(s, p, x)
  PROVE  Ends([s EXCEPT ![Len(s)] = y], p, y)
<1> DEFINE t == [s EXCEPT ![Len(s)] = y]
           u == Append(p, y)
<1>1. /\ s \in Seq(R) /\ Len(s) = Len(p) + 1 /\ Len(p) \in Nat
      /\ \A i \in 1 .. Len(p) : s[i] = p[i]
  BY AppendProperties, LenProperties DEF Ends
<1>2. /\ u \in Seq(R) /\ Len(u) = Len(p) + 1 /\ u[Len(p) + 1] = y
      /\ \A i \in 1 .. Len(p) : u[i] = p[i]
  BY AppendProperties
<1>3. Len(s) \in 1 .. Len(s)
  BY <1>1
<1>4. t \in Seq(R) /\ Len(t) = Len(s) /\ \A i \in 1 .. Len(s) : t[i] = IF i = Len(s) THEN y ELSE s[i]
  <2> DEFINE n == Len(s)
  <2>1. s \in [1 .. n -> R] /\ n \in Nat
    BY <1>1, LenProperties
  <2> HIDE DEF n
  <2> DEFINE v == [s EXCEPT ![n] = y]
  <2>2. v \in [1 .. n -> R] /\ \A i \in 1 .. n : v[i] = IF i = n THEN y ELSE s[i]
    BY <2>1
  <2>3. v \in Seq(R) /\ Len(v) = n
    <3> HIDE DEF v
    <3> QED BY <2>1, <2>2
  <2> QED BY <2>2, <2>3 DEF n
<1>5. \A i \in 1 .. Len(s) : i \in 1 .. Len(p) \/ i = Len(p) + 1
  BY <1>1
<1> HIDE DEF t, u
<1>6. \A i \in 1 .. Len(t) : t[i] = u[i]
  BY <1>1, <1>2, <1>4, <1>5
<1>7. t = u
  BY <1>1, <1>2, <1>4, <1>6, SeqEqual
<1> QED BY <1>7 DEF t, u, Ends

\* A buffer stays well formed when an event of a turn that still writes joins it.
LEMMA RowsAppend ==
  ASSUME NEW q, Rows(q), NEW e, e \in Events, e.kind \in Kinds, Own(e),
         e.who \in Turns => Sends(e.who)
  PROVE  Rows(Append(q, e))
<1>1. /\ q \in Seq(Events) /\ Append(q, e) \in Seq(Events) /\ Len(Append(q, e)) = Len(q) + 1
      /\ \A i \in 1 .. Len(q) : Append(q, e)[i] = q[i]
      /\ Append(q, e)[Len(q) + 1] = e /\ Len(q) \in Nat
  BY AppendProperties, LenProperties DEF Rows
<1>2. \A i \in 1 .. Len(q) + 1 : i \in 1 .. Len(q) \/ i = Len(q) + 1
  BY <1>1
<1> QED BY <1>1, <1>2 DEF Rows

\* What Fold makes of the rows that wait.
LEMMA FoldRows ==
  ASSUME Rows(pending), NEW e \in S!Emitters, NEW kind \in Kinds, NEW n \in Nat,
         e \in Turns => Sends(e), NEW q,
         q \in {S!Fold(e, kind, <<e, n>>), Append(pending, S!Event(e, kind, << <<e, n>> >>))}
  PROVE  /\ Rows(q) /\ q # << >>
         /\ S!Items(q) = Append(S!Items(pending), <<e, n>>)
<1> DEFINE d == <<e, n>>
           ev == S!Event(e, kind, <<d>>)
<1>0. d \in Delta /\ d[1] = e /\ pending \in Seq(Events)
  BY DEF Delta, Rows
<1>1. /\ ev \in Events /\ ev.kind \in Kinds /\ Own(ev) /\ ev.items = <<d>>
      /\ ev.who = e
  BY <1>0 DEF S!Event, Events, Own
<1>2. CASE q = Append(pending, ev)
  <2>1. Rows(q)
    BY <1>1, <1>2, RowsAppend
  <2>2. S!Items(pending) \in Seq(Delta) /\ S!Items(q) = S!Items(pending) \o <<d>>
    BY <1>0, <1>1, <1>2, ItemsAppend
  <2>3. S!Items(q) = Append(S!Items(pending), d)
    BY <2>2, <1>0, AppendIsConcat
  <2>4. q # << >>
    BY <1>2, <1>0, <1>1, AppendProperties
  <2> QED BY <2>1, <2>3, <2>4
<1>3. CASE q # Append(pending, ev)
  <2> DEFINE m == Len(pending)
  <2>1. /\ m \in Nat /\ m > 0 /\ pending[m].who = e /\ pending[m].kind = kind
        /\ q = [pending EXCEPT ![m].items = Append(@, d)]
    BY <1>0, <1>3, LenProperties DEF S!Fold
  <2> DEFINE l == pending[m]
             k == [l EXCEPT !.items = Append(@, d)]
  <2>2. pending # << >> /\ l \in Events
    BY <2>1, <1>0, LastOf
  <2>3. PICK p \in Seq(Events) : pending = Append(p, l)
    BY <2>2, <1>0, LastOf
  <2>4. Len(p) = m - 1 /\ m - 1 \in Nat /\ \A i \in 1 .. m - 1 : p[i] = pending[i]
    BY <2>1, <2>2, <2>3, AppendProperties, LenProperties
  <2>16. m \in 1 .. m /\ l.who = e /\ l.kind = kind
    BY <2>1
  <2>17. Own(pending[m])
    BY <2>16 DEF Rows
  <2>14. q = [pending EXCEPT ![m] = k]
    BY <2>1
  <2>18. Own(l)
    BY <2>17
  <2> HIDE DEF l, d
  <2>13. Own(l) /\ l.items \in Seq(Delta)
    BY <2>18, <2>2 DEF Events
  <2>15. /\ k.who = e /\ k.kind = kind /\ k.items = Append(l.items, d)
         /\ Append(l.items, d) \in Seq(Delta) => k \in Events
    BY <2>2, <2>16 DEF Events
  <2> HIDE DEF k
  <2>5. /\ k \in Events /\ k.who = e /\ k.kind = kind /\ k.items = Append(l.items, d)
        /\ k.items \in Seq(Delta)
    <3>1. Append(l.items, d) \in Seq(Delta)
      BY <2>13, <1>0, AppendProperties
    <3> QED BY <2>15, <3>1
  <2>6. q = Append(p, k)
    <3> HIDE DEF m
    <3>1. m = Len(pending)
      BY DEF m
    <3>2. Ends(pending, p, l)
      BY <2>3 DEF Ends
    <3>3. Ends([pending EXCEPT ![Len(pending)] = k], p, k)
      BY <2>2, <2>3, <3>2, <2>5, LastReplaced
    <3> QED BY <3>1, <3>3, <2>14 DEF Ends
  <2>7. Own(k)
    <3> DEFINE b == l.items
    <3>1. /\ Len(k.items) = Len(b) + 1 /\ k.items[Len(b) + 1] = d /\ Len(b) \in Nat
          /\ \A i \in 1 .. Len(b) : k.items[i] = b[i]
      BY <2>13, <2>5, <1>0, AppendProperties, LenProperties
    <3>2. \A i \in 1 .. Len(b) : b[i][1] = e
      BY <2>16, <2>13 DEF Own
    <3> HIDE DEF b
    <3>3. \A i \in 1 .. Len(b) + 1 : i \in 1 .. Len(b) \/ i = Len(b) + 1
      BY <3>1
    <3>4. \A i \in 1 .. Len(b) + 1 : k.items[i][1] = e
      BY <3>1, <3>2, <3>3, <1>0
    <3> QED BY <3>1, <3>4, <2>5 DEF Own
  <2>8. Rows(p)
    BY <2>4, <2>3 DEF Rows
  <2>9. Rows(q)
    BY <2>6, <2>7, <2>8, <2>5, RowsAppend
  <2>10. /\ S!Items(p) \in Seq(Delta) /\ S!Items(pending) = S!Items(p) \o l.items
         /\ S!Items(q) = S!Items(p) \o Append(l.items, d)
    BY <2>3, <2>6, <2>2, <2>5, ItemsAppend
  <2>11. S!Items(q) = Append(S!Items(pending), d)
    <3> DEFINE a == S!Items(p)
               b == l.items
    <3>1. a \in Seq(Delta) /\ b \in Seq(Delta) /\ d \in Delta
      BY <2>10, <2>13, <1>0
    <3> HIDE DEF a, b
    <3>2. a \o Append(b, d) = Append(a \o b, d)
      BY <3>1
    <3> QED BY <3>2, <2>10 DEF a, b
  <2>12. Append(p, k) # << >>
    BY <2>3, <2>5, AppendProperties
  <2>19. q # << >>
    BY <2>12, <2>6
  <2> QED BY <2>9, <2>11, <2>19 DEF d
<1> QED BY <1>2, <1>3

\* A turn that its caller has left stays one.
LeftStays == \A t \in Turns : sink[t] = t => sink'[t] = t

\* What is buffered ships behind what the window has; a turn that was over stays so.
LEMMA Ships ==
  ASSUME StreamNames, wire \in Seq(Events), EndsLast, NEW q, Rows(q), wire' = wire \o q,
         \A t \in Turns : tpc[t] \in Over => tpc'[t] \in Over, LeftStays
  PROVE  wire' \in Seq(Events) /\ EndsLast'
<1> DEFINE m == Len(wire)
           n == Len(q)
<1>1. /\ wire' \in Seq(Events) /\ Len(wire') = m + n /\ m \in Nat /\ n \in Nat
      /\ \A i \in 1 .. m + n : wire'[i] = IF i <= m THEN wire[i] ELSE q[i - m]
  BY ConcatProperties, LenProperties DEF Rows
<1>2. \A i \in 1 .. n : /\ Own(q[i]) /\ q[i].kind \in Kinds
                        /\ q[i].who \in Turns /\ tpc[q[i].who] \in Over =>
                               sink[q[i].who] = q[i].who
  BY DEF Rows, Over, Sends
<1> HIDE DEF m, n
<1>3. \A i \in 1 .. m + n : \/ i \in 1 .. m /\ wire'[i] = wire[i]
                            \/ i > m /\ i - m \in 1 .. n /\ wire'[i] = q[i - m]
  BY <1>1
<1>4. \A i \in 1 .. m + n : Own(wire'[i])
  BY <1>2, <1>3 DEF EndsLast, m
<1>5. \A i \in 1 .. m + n : wire'[i].kind = "turn_end" => i \in 1 .. m /\ wire'[i] = wire[i]
  <2> SUFFICES ASSUME NEW i \in 1 .. m + n, wire'[i].kind = "turn_end"
               PROVE  i \in 1 .. m /\ wire'[i] = wire[i]
    OBVIOUS
  <2>1. CASE i > m /\ i - m \in 1 .. n /\ wire'[i] = q[i - m]
    <3>1. q[i - m].kind \in Kinds
      BY <2>1, <1>2
    <3> QED BY <3>1, <2>1 DEF StreamNames
  <2> QED BY <2>1, <1>3
<1>6. \A i \in 1 .. m + n : wire'[i].kind = "turn_end" =>
          wire'[i].who \in Turns /\ tpc[wire'[i].who] \in Over /\ tpc'[wire'[i].who] \in Over
  BY <1>5 DEF EndsLast, m
<1>7. \A i, j \in 1 .. m + n :
          wire'[i].kind = "turn_end" /\ wire'[j].who = wire'[i].who =>
              j <= i \/ sink'[wire'[i].who] = wire'[i].who
  <2> SUFFICES ASSUME NEW i \in 1 .. m + n, NEW j \in 1 .. m + n,
                      wire'[i].kind = "turn_end", wire'[j].who = wire'[i].who
               PROVE  j <= i \/ sink[wire'[i].who] = wire'[i].who
    BY <1>6 DEF LeftStays
  <2>1. i \in 1 .. m /\ wire'[i] = wire[i] /\ wire[i].who \in Turns /\ tpc[wire[i].who] \in Over
    BY <1>5, <1>6
  <2>2. CASE j \in 1 .. m /\ wire'[j] = wire[j]
    BY <2>1, <2>2 DEF EndsLast, m
  <2>3. CASE j > m /\ j - m \in 1 .. n /\ wire'[j] = q[j - m]
    BY <2>1, <2>3, <1>2
  <2> QED BY <1>3, <2>2, <2>3
<1>8. Len(wire') = m + n
  BY <1>1
<1> QED BY <1>1, <1>8, <1>4, <1>6, <1>7 DEF EndsLast, Own

\* A step that hands the window nothing.
LEMMA ShipsNothing ==
  ASSUME EndsLast, wire' = wire, \A t \in Turns : tpc[t] \in Over => tpc'[t] \in Over,
         LeftStays
  PROVE  EndsLast'
BY DEF EndsLast, Own, LeftStays

\* Rows stay rows while no stream gets past its flush.
LEMMA RowsKept ==
  ASSUME Rows(pending), pending' = pending,
         \A t \in Turns : tpc[t] \in {"running", "flush"} => tpc'[t] \in {"running", "flush"},
         LeftStays
  PROVE  Rows(pending)'
<1>1. \A e \in Events : Own(e)' <=> Own(e)
  BY DEF Own
<1>2. /\ \A i \in 1 .. Len(pending) : pending[i] \in Events
      /\ pending' \in Seq(Events)
  BY ElementOfSeq DEF Rows
<1> QED BY <1>1, <1>2 DEF Rows, Own, Sends, LeftStays

\* A flushed buffer is well formed.
LEMMA RowsEmpty ==
  ASSUME pending' = << >>
  PROVE  Rows(pending)' /\ S!Items(pending)' = << >>
<1>1. S!Items(pending)' = S!Items(pending')
  BY DEF S!Items
<1>2. Rows(pending)'
  BY EmptySeq DEF Rows
<1> QED BY <1>1, <1>2, ItemsEmpty

\* The rest of what EmitStream does to the buffer, by whomever it is called.
EmitFacts ==
    /\ wire' \in Seq(Events) /\ pending' \in Seq(Events) /\ arrived' \in Seq(Delta)
    /\ sent' \in [S!Emitters -> Nat] /\ folded' \in 0 .. MaxFolded - 1
    /\ timer' \in {"nil", "armed", "fired"} /\ Len(arrived') <= MaxDeltas
    /\ Rows(pending)' /\ EndsLast' /\ S!ArrivalOrder' /\ StreamCounts' /\ StreamTimer'

\* One delta reaches the buffer, folded or as an event of its own (EmitStream).
LEMMA Emits ==
  ASSUME StreamNames, StreamInv, NEW e \in S!Emitters, NEW kind \in Kinds, S!EmitStream(e, kind),
         e \in Turns => tpc[e] = "running" \/ sink[e] = e, tpc' = tpc, sink' = sink,
         reloads' = reloads, firing' = firing
  PROVE  EmitFacts
<1> DEFINE d == <<e, sent[e] + 1>>
           p == S!Fold(e, kind, d)
           r == Append(pending, S!Event(e, kind, <<d>>))
<1>0. /\ sent[e] + 1 \in Nat /\ d \in Delta /\ MaxFolded \in Nat \ {0} /\ MaxDeltas \in Nat
      /\ wire \in Seq(Events) /\ pending \in Seq(Events) /\ arrived \in Seq(Delta)
      /\ reloads \in Nat /\ Rows(pending) /\ EndsLast /\ folded = Len(S!Items(pending))
      /\ folded \in Nat /\ S!ArrivalOrder /\ sent \in [S!Emitters -> Nat]
      /\ (e \in Turns => Sends(e)) /\ LeftStays
  BY DEF StreamInv, StreamShape, StreamNames, StreamCounts, Delta, Sends, LeftStays
<1>1. Rows(p) /\ p # << >> /\ S!Items(p) = Append(S!Items(pending), d)
  BY <1>0, FoldRows
<1>2. Rows(r) /\ r # << >> /\ S!Items(r) = Append(S!Items(pending), d)
  BY <1>0, FoldRows
<1>3. /\ sent' = [sent EXCEPT ![e] = @ + 1] /\ arrived' = Append(arrived, d)
      /\ Len(arrived) < MaxDeltas
      /\ \/ wire' = wire \o r /\ pending' = << >> /\ folded' = 0 /\ timer' = "nil"
         \/ wire' = wire \o p /\ pending' = << >> /\ folded' = 0 /\ timer' = "nil"
         \/ /\ wire' = wire /\ pending' = p /\ folded' = folded + 1 /\ folded + 1 < MaxFolded
            /\ timer' = (IF timer = "nil" THEN "armed" ELSE timer)
  <2>1. S!Event(e, kind, <<d>>) \in Events
    BY <1>0 DEF S!Event, Events
  <2>2. Append(wire \o pending, S!Event(e, kind, <<d>>)) = wire \o r
    <3> DEFINE x == S!Event(e, kind, <<d>>)
    <3>1. x \in Events /\ wire \in Seq(Events) /\ pending \in Seq(Events)
      BY <2>1, <1>0
    <3> HIDE DEF x
    <3>2. Append(wire \o pending, x) = wire \o Append(pending, x)
      BY <3>1
    <3> QED BY <3>2 DEF x
  <2> HIDE DEF p
  <2> QED BY <2>2 DEF S!EmitStream, S!Empties, S!Flushed, p
<1> HIDE DEF d, p, r
<1>4. /\ S!Items(pending) \in Seq(Delta) /\ S!Items(wire) \in Seq(Delta)
      /\ arrived = S!Items(wire) \o S!Items(pending)
  <2>1. \A x \in Seq(Events) : S!Items(x) \in Seq(Delta)
    <3> TAKE x \in Seq(Events)
    <3>1. PICK y \in Events : TRUE
      <4>1. S!Event(e, kind, << >>) \in Events
        BY DEF S!Event, Events
      <4> QED BY <4>1
    <3> QED BY <3>1, ItemsAppend
  <2> QED BY <1>0, <2>1 DEF S!ArrivalOrder
<1>5. /\ arrived' \in Seq(Delta) /\ Len(arrived') = Len(arrived) + 1 /\ Len(arrived) \in Nat
      /\ sent' \in [S!Emitters -> Nat]
      /\ \A x \in S!Emitters : sent'[x] <= sent[x] + 1
  BY <1>0, <1>3, AppendProperties, LenProperties
<1>6. /\ Len(arrived') <= MaxDeltas
      /\ \A x \in S!Emitters : sent'[x] <= Len(arrived') + MaxDeltas * reloads
  <2>1. \A x \in S!Emitters : sent[x] <= Len(arrived) + MaxDeltas * reloads
    BY DEF StreamInv, StreamCounts
  <2>2. MaxDeltas * reloads \in Nat
    BY <1>0
  <2> QED BY <1>0, <1>3, <1>5, <2>1, <2>2
<1>7. Append(S!Items(wire) \o S!Items(pending), d) = S!Items(wire) \o Append(S!Items(pending), d)
  <2> DEFINE a == S!Items(wire)
             b == S!Items(pending)
  <2>1. a \in Seq(Delta) /\ b \in Seq(Delta) /\ d \in Delta
    BY <1>0, <1>4
  <2> HIDE DEF a, b
  <2>2. Append(a \o b, d) = a \o Append(b, d)
    BY <2>1
  <2> QED BY <2>2 DEF a, b
<1>8. ASSUME NEW q, Rows(q), S!Items(q) = Append(S!Items(pending), d),
             wire' = wire \o q, pending' = << >>, folded' = 0, timer' = "nil"
      PROVE  EmitFacts
  <2>1. wire' \in Seq(Events) /\ EndsLast'
    BY <1>0, <1>8, Ships
  <2>2. Rows(pending)' /\ S!Items(pending)' = << >>
    BY <1>8, RowsEmpty
  <2>3. S!Items(wire)' = S!Items(wire) \o S!Items(q)
    <3>1. S!Items(wire)' = S!Items(wire')
      BY DEF S!Items
    <3> QED BY <3>1, <1>0, <1>8, ItemsConcat DEF Rows
  <2>4. S!Items(wire)' = arrived'
    BY <2>3, <1>8, <1>7, <1>4, <1>3
  <2>5. S!ArrivalOrder'
    BY <2>4, <2>2, <1>5, ConcatEmptySeq DEF S!ArrivalOrder
  <2>6. StreamCounts'
    BY <2>2, <1>6, <1>8 DEF StreamCounts, S!Emitters
  <2>7. StreamTimer'
    BY <1>8 DEF StreamTimer
  <2> QED BY <2>1, <2>2, <2>5, <2>6, <2>7, <1>0, <1>5, <1>6, <1>8 DEF EmitFacts, Rows
<1>9. CASE wire' = wire \o r /\ pending' = << >> /\ folded' = 0 /\ timer' = "nil"
  BY <1>2, <1>8, <1>9
<1>10. CASE wire' = wire \o p /\ pending' = << >> /\ folded' = 0 /\ timer' = "nil"
  BY <1>1, <1>8, <1>10
<1>11. CASE /\ wire' = wire /\ pending' = p /\ folded' = folded + 1 /\ folded + 1 < MaxFolded
            /\ timer' = (IF timer = "nil" THEN "armed" ELSE timer)
  <2>1. EndsLast'
    BY <1>0, <1>11, ShipsNothing
  <2>2. Rows(pending)' /\ pending' \in Seq(Events) /\ pending' # << >>
    BY <1>1, <1>11 DEF Rows, Own, Sends
  <2>3. S!Items(pending)' = Append(S!Items(pending), d) /\ S!Items(wire)' = S!Items(wire)
    BY <1>1, <1>11 DEF S!Items
  <2>4. S!ArrivalOrder'
    BY <2>3, <1>7, <1>4, <1>3 DEF S!ArrivalOrder
  <2>5. Len(S!Items(pending)') = folded + 1
    BY <2>3, <1>4, <1>0, AppendProperties
  <2>6. StreamCounts'
    BY <2>5, <1>6, <1>11 DEF StreamCounts, S!Emitters
  <2>7. StreamTimer' /\ timer' \in {"nil", "armed", "fired"}
    BY <1>11 DEF StreamTimer, StreamInv, StreamShape
  <2> QED BY <2>1, <2>2, <2>4, <2>6, <2>7, <1>0, <1>5, <1>6, <1>11 DEF EmitFacts
<1> QED BY <1>3, <1>9, <1>10, <1>11

\* What the buffer holds, as a part of the invariant.
BufferInv == Rows(pending) /\ EndsLast /\ S!ArrivalOrder /\ StreamCounts

\* The types of the wire and the buffer.
BufferShape ==
    /\ wire \in Seq(Events) /\ pending \in Seq(Events) /\ arrived \in Seq(Delta)
    /\ sent \in [S!Emitters -> Nat] /\ folded \in 0 .. MaxFolded - 1 /\ Len(arrived) <= MaxDeltas

\* A step that touches neither wire nor buffer keeps what is said of them.
LEMMA BufferQuiet ==
  ASSUME StreamInv, wire' = wire, pending' = pending, arrived' = arrived, sent' = sent,
         folded' = folded, reloads' = reloads,
         \A t \in Turns : tpc[t] \in Over => tpc'[t] \in Over,
         \A t \in Turns : tpc[t] \in {"running", "flush"} => tpc'[t] \in {"running", "flush"},
         LeftStays
  PROVE  BufferInv' /\ BufferShape'
<1>1. Rows(pending)' /\ EndsLast'
  BY RowsKept, ShipsNothing DEF StreamInv
<1>2. S!ArrivalOrder' /\ StreamCounts'
  BY DEF StreamInv, S!ArrivalOrder, StreamCounts, S!Items, S!Emitters
<1>3. BufferShape'
  BY DEF StreamInv, StreamShape, BufferShape, Events, Delta, S!Emitters
<1> QED BY <1>1, <1>2, <1>3 DEF BufferInv

\* A flush moves the buffer to the end of the wire (flushLocked).
LEMMA BufferShips ==
  ASSUME StreamNames, StreamInv, wire' = S!Flushed, S!Empties, arrived' = arrived, sent' = sent,
         reloads' = reloads, \A t \in Turns : tpc[t] \in Over => tpc'[t] \in Over, LeftStays
  PROVE  BufferInv' /\ BufferShape' /\ StreamTimer'
<1>1. /\ wire' = wire \o pending /\ pending' = << >> /\ folded' = 0 /\ timer' = "nil"
      /\ wire \in Seq(Events) /\ pending \in Seq(Events) /\ arrived \in Seq(Delta)
      /\ Rows(pending) /\ EndsLast
  BY DEF S!Flushed, S!Empties, StreamInv, StreamShape
<1>2. wire' \in Seq(Events) /\ EndsLast'
  BY <1>1, Ships
<1>3. Rows(pending)' /\ S!Items(pending)' = << >>
  BY <1>1, RowsEmpty
<1>4. S!Items(wire)' = S!Items(wire) \o S!Items(pending)
  <2>1. S!Items(wire)' = S!Items(wire')
    BY DEF S!Items
  <2> QED BY <2>1, <1>1, ItemsConcat
<1>5. S!ArrivalOrder'
  BY <1>1, <1>3, <1>4, ConcatEmptySeq DEF S!ArrivalOrder, StreamInv
<1>6. StreamCounts'
  BY <1>1, <1>3 DEF StreamCounts, StreamInv, S!Emitters
<1>7. BufferShape'
  BY <1>1, <1>2, EmptySeq DEF StreamInv, StreamShape, BufferShape, StreamNames, Events, Delta, S!Emitters
<1>8. StreamTimer'
  BY <1>1 DEF StreamTimer
<1> QED BY <1>2, <1>3, <1>5, <1>6, <1>7, <1>8 DEF BufferInv

\* The end of a turn goes out behind what is buffered (Shell.Emit).
LEMMA BufferEnds ==
  ASSUME StreamNames, StreamInv, NEW t \in Turns, S!EmitDelivers(t)
  PROVE  BufferInv' /\ BufferShape'
<1> DEFINE ev == S!Event(t, "turn_end", << >>)
<1>1. /\ tpc[t] = "deliver" /\ tpc' = [tpc EXCEPT ![t] = "release"]
      /\ wire' = Append(wire, ev)
      /\ pending' = pending /\ arrived' = arrived /\ sent' = sent /\ folded' = folded
      /\ reloads' = reloads /\ wire \in Seq(Events) /\ DOMAIN tpc = Turns
      /\ EndsLast /\ Rows(pending) /\ arrived \in Seq(Delta) /\ sink' = sink /\ LeftStays
  BY DEF S!EmitDelivers, S!Go, S!workerVars, S!reloadVars, StreamInv, StreamShape, LeftStays
<1>2. /\ ev \in Events /\ Own(ev) /\ ev.who = t /\ ev.kind = "turn_end" /\ ev.items = << >>
  BY DEF S!Event, Events, Own, S!Emitters
<1>3. /\ wire' \in Seq(Events) /\ Len(wire') = Len(wire) + 1 /\ wire'[Len(wire) + 1] = ev
      /\ \A i \in 1 .. Len(wire) : wire'[i] = wire[i]
      /\ Len(wire) \in Nat
  BY <1>1, <1>2, AppendProperties, LenProperties
<1> HIDE DEF ev
<1>4. \A i \in 1 .. Len(wire) + 1 : i \in 1 .. Len(wire) \/ i = Len(wire) + 1
  BY <1>3
<1>5. \A i \in 1 .. Len(wire) : wire[i].kind = "turn_end" => wire[i].who # t
  BY <1>1 DEF EndsLast, Over
<1>6. \A i \in 1 .. Len(wire) + 1 : Own(wire'[i])
  BY <1>1, <1>2, <1>3, <1>4 DEF EndsLast
<1>7. \A i \in 1 .. Len(wire) + 1 :
        wire'[i].kind = "turn_end" => wire'[i].who \in Turns /\ tpc'[wire'[i].who] \in Over
  BY <1>1, <1>2, <1>3, <1>4 DEF EndsLast, Over
<1>8. \A i, j \in 1 .. Len(wire) + 1 :
        wire'[i].kind = "turn_end" /\ wire'[j].who = wire'[i].who =>
            j <= i \/ sink'[wire'[i].who] = wire'[i].who
  <2> SUFFICES ASSUME NEW i \in 1 .. Len(wire) + 1, NEW j \in 1 .. Len(wire) + 1,
                      wire'[i].kind = "turn_end", wire'[j].who = wire'[i].who
               PROVE  j <= i \/ sink[wire'[i].who] = wire'[i].who
    BY <1>1
  <2>1. CASE i = Len(wire) + 1
    BY <2>1, <1>3
  <2>2. CASE i \in 1 .. Len(wire) /\ j \in 1 .. Len(wire)
    BY <2>2, <1>1, <1>3 DEF EndsLast
  <2>3. CASE i \in 1 .. Len(wire) /\ j = Len(wire) + 1
    BY <2>3, <1>2, <1>3, <1>5
  <2> QED BY <1>4, <2>1, <2>2, <2>3
<1>9. EndsLast'
  BY <1>3, <1>6, <1>7, <1>8 DEF EndsLast, Own
<1>10. Rows(pending)'
  BY <1>1, RowsKept
<1>11. S!Items(wire)' = S!Items(wire)
  <2>1. S!Items(wire)' = S!Items(wire')
    BY DEF S!Items
  <2>2. S!Items(wire') = S!Items(wire) \o << >> /\ S!Items(wire) \in Seq(Delta)
    BY <1>1, <1>2, ItemsAppend
  <2> QED BY <2>1, <2>2, ConcatEmptySeq
<1>12. S!ArrivalOrder' /\ StreamCounts'
  <2>1. S!Items(pending)' = S!Items(pending)
    BY <1>1 DEF S!Items
  <2> QED BY <2>1, <1>1, <1>11 DEF S!ArrivalOrder, StreamCounts, StreamInv, S!Emitters
<1>13. BufferShape'
  BY <1>1, <1>3 DEF StreamInv, StreamShape, BufferShape, Events, Delta, S!Emitters
<1> QED BY <1>9, <1>10, <1>12, <1>13 DEF BufferInv

\* A reload drops the buffer, and the timer with it.
LEMMA BufferClears ==
  ASSUME StreamNames, StreamInv, S!ReloadClears
  PROVE  BufferInv' /\ BufferShape' /\ StreamTimer'
<1> DEFINE a == S!Items(wire)
           b == S!Items(pending)
<1>1. /\ pending' = << >> /\ folded' = 0 /\ timer' = "nil" /\ wire' = wire /\ sent' = sent
      /\ tpc' = tpc /\ reloads' = reloads + 1 /\ reloads \in Nat
      /\ arrived' = SubSeq(arrived, 1, Len(arrived) - Len(b))
      /\ arrived = a \o b /\ Rows(pending) /\ EndsLast /\ wire \in Seq(Events)
      /\ pending \in Seq(Events) /\ arrived \in Seq(Delta) /\ Len(arrived) <= MaxDeltas
      /\ LeftStays
  BY DEF S!ReloadClears, S!Empties, S!turnVars, S!workerVars, StreamInv, StreamShape,
     S!ArrivalOrder, LeftStays
<1>2. a \in Seq(Delta) /\ b \in Seq(Delta)
  <2>1. a \o b \in Seq(Delta)
    BY <1>1
  <2>2. CASE Len(arrived) = 0 /\ Events = {}
    <3>1. wire = << >> /\ pending = << >>
      BY <1>1, <2>2
    <3> QED BY <3>1, ItemsEmpty, EmptySeq
  <2>3. CASE Events # {}
    <3>1. PICK y \in Events : TRUE
      BY <2>3
    <3> QED BY <3>1, <1>1, ItemsAppend
  <2>4. CASE Events = {}
    <3>1. wire = << >> /\ pending = << >>
      BY <1>1, <2>4
    <3> QED BY <3>1, ItemsEmpty, EmptySeq
  <2> QED BY <2>3, <2>4
<1> HIDE DEF a, b
<1>3. arrived' = a
  <2>1. Len(a) \in Nat /\ Len(b) \in Nat /\ Len(a \o b) = Len(a) + Len(b)
    BY <1>2, ConcatProperties, LenProperties
  <2>2. SubSeq(a \o b, 1, Len(a)) = a
    BY <1>2, <2>1
  <2>3. Len(arrived) - Len(b) = Len(a)
    BY <1>1, <2>1
  <2> QED BY <1>1, <2>2, <2>3
<1>4. Len(arrived') \in Nat /\ Len(arrived') <= MaxDeltas /\ Len(arrived) \in 0 .. MaxDeltas
  BY <1>1, <1>2, <1>3, ConcatProperties, LenProperties DEF StreamNames
<1>5. Rows(pending)' /\ S!Items(pending)' = << >> /\ S!Items(wire)' = a
  BY <1>1, RowsEmpty DEF S!Items, a
<1>6. EndsLast'
  BY <1>1, ShipsNothing
<1>7. S!ArrivalOrder'
  BY <1>2, <1>3, <1>5, ConcatEmptySeq DEF S!ArrivalOrder
<1>8. \A e \in S!Emitters : sent[e] <= Len(arrived') + MaxDeltas * (reloads + 1)
  <2> DEFINE k == MaxDeltas * reloads
             l == MaxDeltas * (reloads + 1)
  <2>1. l = k + MaxDeltas /\ k \in Nat /\ MaxDeltas \in Nat
    BY <1>1 DEF StreamNames
  <2>2. sent \in [S!Emitters -> Nat] /\ \A e \in S!Emitters : sent[e] <= Len(arrived) + k
    BY DEF StreamInv, StreamShape, StreamCounts
  <2> HIDE DEF k, l
  <2>3. \A e \in S!Emitters : sent[e] \in Nat /\ sent[e] <= Len(arrived) + k
    BY <2>2
  <2>4. \A e \in S!Emitters : sent[e] <= Len(arrived') + l
    BY <2>1, <2>3, <1>4
  <2> QED BY <2>4 DEF l
<1>9. StreamCounts'
  BY <1>1, <1>5, <1>8 DEF StreamCounts, S!Emitters
<1>10. BufferShape'
  BY <1>1, <1>2, <1>3, <1>4, EmptySeq DEF StreamInv, StreamShape, BufferShape, StreamNames, Events, Delta, S!Emitters
<1> QED BY <1>1, <1>5, <1>6, <1>7, <1>9, <1>10 DEF BufferInv, StreamTimer

\* No step breaks the invariant.
LEMMA StreamStep ==
  ASSUME StreamNames, StreamInv, [S!Next]_S!vars
  PROVE  StreamInv'
<1>0. /\ StreamShape /\ StreamRegistry /\ StreamWorkers /\ StreamTimer /\ live = {}
      /\ NoTurn \notin Turns
  BY DEF StreamInv, StreamNames
<1> DEFINE Goal == /\ StreamShape' /\ StreamRegistry' /\ StreamWorkers' /\ StreamTimer'
                   /\ live' = {} /\ BufferInv'
<1>1. ASSUME NEW t \in Turns, S!Register(t) PROVE Goal
  <2>1. BufferInv' /\ BufferShape'
    BY <1>0, <1>1, BufferQuiet DEF LeftStays, S!workerVars, S!Register, S!Go, S!bufVars, S!reloadVars, Over, StreamShape
  <2>2. StreamShape' /\ StreamRegistry'
    BY <1>0, <1>1, <2>1 DEF S!Register, S!Go, S!workerVars, S!bufVars, S!reloadVars, StreamShape,
       StreamRegistry, BufferShape
  <2>3. StreamWorkers' /\ StreamTimer' /\ live' = {}
    BY <1>0, <1>1 DEF S!Register, S!workerVars, S!bufVars, S!reloadVars, StreamWorkers, StreamTimer
  <2> QED BY <2>1, <2>2, <2>3
<1>2. ASSUME NEW t \in Turns, S!TurnStarts(t) PROVE Goal
  <2>1. BufferInv' /\ BufferShape'
    BY <1>0, <1>2, BufferQuiet DEF LeftStays, S!workerVars, S!TurnStarts, S!Go, S!bufVars, S!reloadVars, Over, StreamShape
  <2>2. StreamShape' /\ StreamRegistry'
    BY <1>0, <1>2, <2>1 DEF S!TurnStarts, S!Go, S!workerVars, S!bufVars, S!reloadVars, StreamShape,
       StreamRegistry, BufferShape
  <2>3. StreamWorkers' /\ StreamTimer' /\ live' = {}
    BY <1>0, <1>2 DEF S!TurnStarts, S!workerVars, S!bufVars, S!reloadVars, StreamWorkers, StreamTimer
  <2> QED BY <2>1, <2>2, <2>3
<1>3. ASSUME NEW t \in Turns, S!Streams(t) PROVE Goal
  <2>1. EmitFacts
    <3>1. PICK kind \in Kinds : S!EmitStream(t, kind)
      BY <1>3 DEF S!Streams
    <3>2. /\ t \in S!Emitters /\ tpc[t] = "running" /\ tpc' = tpc /\ sink' = sink
          /\ reloads' = reloads /\ firing' = firing
      BY <1>3 DEF S!Streams, S!turnVars, S!workerVars, S!reloadVars, S!Emitters
    <3> QED BY <3>1, <3>2, Emits
  <2>2. StreamShape' /\ StreamRegistry'
    BY <1>0, <1>3, <2>1 DEF S!Streams, S!turnVars, S!workerVars, S!reloadVars, StreamShape,
       StreamRegistry, EmitFacts
  <2>3. StreamWorkers' /\ live' = {}
    BY <1>0, <1>3 DEF S!Streams, S!turnVars, S!workerVars, S!reloadVars, StreamWorkers
  <2> QED BY <2>1, <2>2, <2>3 DEF EmitFacts, BufferInv
<1>4. ASSUME NEW t \in Turns, S!Settles(t) PROVE Goal
  <2>1. BufferInv' /\ BufferShape'
    BY <1>0, <1>4, BufferQuiet DEF LeftStays, S!workerVars, S!Settles, S!Go, S!bufVars, S!reloadVars, Over, StreamShape
  <2>2. StreamShape' /\ StreamRegistry'
    BY <1>0, <1>4, <2>1 DEF S!Settles, S!Go, S!workerVars, S!bufVars, S!reloadVars, StreamShape,
       StreamRegistry, BufferShape
  <2>3. StreamWorkers' /\ StreamTimer' /\ live' = {}
    BY <1>0, <1>4 DEF S!Settles, S!workerVars, S!bufVars, S!reloadVars, StreamWorkers, StreamTimer
  <2> QED BY <2>1, <2>2, <2>3
<1>5. ASSUME NEW t \in Turns, S!EmitFlushes(t) PROVE Goal
  <2>1. BufferInv' /\ BufferShape' /\ StreamTimer'
    BY <1>0, <1>5, BufferShips DEF LeftStays, S!workerVars, S!EmitFlushes, S!Go, S!reloadVars, Over, StreamShape
  <2>2. StreamShape' /\ StreamRegistry'
    BY <1>0, <1>5, <2>1 DEF S!EmitFlushes, S!Empties, S!Go, S!workerVars, S!reloadVars, StreamShape,
       StreamRegistry, BufferShape
  <2>3. StreamWorkers' /\ live' = {}
    BY <1>0, <1>5 DEF S!EmitFlushes, S!workerVars, S!reloadVars, StreamWorkers
  <2> QED BY <2>1, <2>2, <2>3
<1>6. ASSUME NEW t \in Turns, S!EmitDelivers(t) PROVE Goal
  <2>1. BufferInv' /\ BufferShape'
    BY <1>6, BufferEnds
  <2>2. StreamShape' /\ StreamRegistry'
    BY <1>0, <1>6, <2>1 DEF S!EmitDelivers, S!Go, S!workerVars, S!reloadVars, StreamShape,
       StreamRegistry, BufferShape
  <2>3. StreamWorkers' /\ StreamTimer' /\ live' = {}
    BY <1>0, <1>6 DEF S!EmitDelivers, S!workerVars, S!reloadVars, StreamWorkers, StreamTimer
  <2> QED BY <2>1, <2>2, <2>3
<1>7. ASSUME NEW t \in Turns, S!Unregister(t) PROVE Goal
  <2>1. BufferInv' /\ BufferShape'
    BY <1>0, <1>7, BufferQuiet DEF LeftStays, S!workerVars, S!Unregister, S!Go, S!bufVars, S!reloadVars, Over, StreamShape
  <2>2. StreamShape' /\ StreamRegistry'
    BY <1>0, <1>7, <2>1 DEF S!Unregister, S!Go, S!workerVars, S!bufVars, S!reloadVars, StreamShape,
       StreamRegistry, BufferShape
  <2>3. StreamWorkers' /\ StreamTimer' /\ live' = {}
    BY <1>0, <1>7 DEF S!Unregister, S!workerVars, S!bufVars, S!reloadVars, StreamWorkers, StreamTimer
  <2> QED BY <2>1, <2>2, <2>3
<1>8. ASSUME NEW t \in Turns, S!CloseSink(t) PROVE Goal
  <2>1. BufferInv' /\ BufferShape'
    BY <1>0, <1>8, BufferQuiet DEF LeftStays, S!workerVars, S!CloseSink, S!Go, S!bufVars, S!reloadVars, Over, StreamShape
  <2>2. StreamShape' /\ StreamRegistry'
    BY <1>0, <1>8, <2>1 DEF S!CloseSink, S!Go, S!workerVars, S!bufVars, S!reloadVars, StreamShape,
       StreamRegistry, BufferShape
  <2>3. StreamWorkers' /\ StreamTimer' /\ live' = {}
    BY <1>0, <1>8 DEF S!CloseSink, S!workerVars, S!bufVars, S!reloadVars, StreamWorkers, StreamTimer
  <2> QED BY <2>1, <2>2, <2>3
<1>9. ASSUME NEW w \in Workers, S!Resolves(w) PROVE Goal
  <2>1. BufferInv' /\ BufferShape'
    BY <1>0, <1>9, BufferQuiet DEF LeftStays, StreamWorkers, StreamNames, StreamShape, S!Resolves, S!turnVars, S!bufVars, S!reloadVars
  <2>2. StreamShape' /\ StreamRegistry'
    BY <1>0, <1>9, <2>1 DEF S!Resolves, S!turnVars, S!bufVars, S!reloadVars, StreamShape,
       StreamRegistry, BufferShape
  <2>3. StreamWorkers' /\ StreamTimer' /\ live' = {}
    BY <1>0, <1>9 DEF S!Resolves, S!turnVars, S!bufVars, S!reloadVars, StreamWorkers, StreamTimer,
       StreamShape, StreamNames
  <2> QED BY <2>1, <2>2, <2>3
<1>10. ASSUME NEW e \in S!Emitters, S!OnDelta(e) PROVE Goal
  <2>1. BufferInv' /\ BufferShape'
    BY <1>0, <1>10, BufferQuiet DEF LeftStays, S!OnDelta, S!turnVars, S!bufVars, S!reloadVars
  <2>2. StreamShape' /\ StreamRegistry'
    BY <1>0, <1>10, <2>1 DEF S!OnDelta, S!turnVars, S!bufVars, S!reloadVars, StreamShape,
       StreamRegistry, BufferShape
  <2>3. StreamWorkers' /\ StreamTimer' /\ live' = {}
    BY <1>0, <1>10 DEF S!OnDelta, S!turnVars, S!bufVars, S!reloadVars, StreamWorkers, StreamTimer, StreamShape
  <2> QED BY <2>1, <2>2, <2>3
<1>11. ASSUME NEW e \in S!Emitters, S!OnDeltaEmits(e) PROVE Goal
  <2>1. EmitFacts
    <3>1. PICK kind \in Kinds : S!EmitStream(e, kind)
      BY <1>11 DEF S!OnDeltaEmits
    <3>2. /\ e \in Turns => sink[e] = e
          /\ tpc' = tpc /\ sink' = sink /\ reloads' = reloads /\ firing' = firing
      BY <1>0, <1>11 DEF S!OnDeltaEmits, S!turnVars, S!reloadVars, StreamWorkers
    <3> QED BY <3>1, <3>2, Emits
  <2>4. late' \in [S!Emitters -> Nat] /\ wpc' \in [S!Emitters -> {"idle", "streaming", "next"}]
    BY <1>0, <1>11 DEF S!OnDeltaEmits, StreamShape
  <2>2. StreamShape' /\ StreamRegistry'
    BY <1>0, <1>11, <2>1, <2>4 DEF S!OnDeltaEmits, S!turnVars, S!reloadVars, StreamShape,
       StreamRegistry, EmitFacts
  <2>3. StreamWorkers' /\ live' = {}
    BY <1>0, <1>11 DEF S!OnDeltaEmits, S!turnVars, S!reloadVars, StreamWorkers, StreamShape
  <2> QED BY <2>1, <2>2, <2>3 DEF EmitFacts, BufferInv
<1>12. ASSUME S!TimerFires PROVE Goal
  <2>1. BufferInv' /\ BufferShape'
    BY <1>0, <1>12, BufferQuiet DEF LeftStays, S!workerVars, S!TimerFires, S!turnVars, S!reloadVars
  <2>2. StreamShape' /\ StreamRegistry'
    BY <1>0, <1>12, <2>1 DEF S!TimerFires, S!turnVars, S!workerVars, S!reloadVars, StreamShape,
       StreamRegistry, BufferShape, StreamNames
  <2>3. StreamWorkers' /\ StreamTimer' /\ live' = {}
    BY <1>0, <1>12 DEF S!TimerFires, S!turnVars, S!workerVars, S!reloadVars, StreamWorkers, StreamTimer, StreamShape
  <2> QED BY <2>1, <2>2, <2>3
<1>13. ASSUME S!FlushStreams PROVE Goal
  <2>1. BufferInv' /\ BufferShape' /\ StreamTimer'
    BY <1>0, <1>13, BufferShips DEF LeftStays, S!workerVars, S!FlushStreams, S!turnVars, S!reloadVars
  <2>2. StreamShape' /\ StreamRegistry'
    BY <1>0, <1>13, <2>1 DEF S!FlushStreams, S!Empties, S!turnVars, S!workerVars, S!reloadVars, StreamShape,
       StreamRegistry, BufferShape, StreamNames
  <2>3. StreamWorkers' /\ live' = {}
    BY <1>0, <1>13 DEF S!FlushStreams, S!turnVars, S!workerVars, S!reloadVars, StreamWorkers
  <2> QED BY <2>1, <2>2, <2>3
<1>14. ASSUME S!ReloadChecks PROVE Goal
  <2>1. BufferInv' /\ BufferShape'
    BY <1>0, <1>14, BufferQuiet DEF LeftStays, S!workerVars, S!ReloadChecks, S!turnVars, S!bufVars
  <2>2. StreamShape' /\ StreamRegistry'
    BY <1>0, <1>14, <2>1 DEF S!ReloadChecks, S!turnVars, S!workerVars, S!bufVars, StreamShape,
       StreamRegistry, BufferShape
  <2>3. StreamWorkers' /\ StreamTimer' /\ live' = {}
    BY <1>0, <1>14 DEF S!ReloadChecks, S!turnVars, S!workerVars, S!bufVars, StreamWorkers, StreamTimer
  <2> QED BY <2>1, <2>2, <2>3
<1>15. ASSUME S!ReloadClears PROVE Goal
  <2>1. BufferInv' /\ BufferShape' /\ StreamTimer'
    BY <1>15, BufferClears
  <2>2. StreamShape' /\ StreamRegistry'
    BY <1>0, <1>15, <2>1 DEF S!ReloadClears, S!Empties, S!turnVars, S!workerVars, StreamShape,
       StreamRegistry, BufferShape, StreamNames
  <2>3. StreamWorkers' /\ live' = {}
    BY <1>0, <1>15 DEF S!ReloadClears, S!turnVars, S!workerVars, StreamWorkers
  <2> QED BY <2>1, <2>2, <2>3
<1>16. ASSUME UNCHANGED S!vars PROVE Goal
  <2>1. BufferInv' /\ BufferShape'
    BY <1>0, <1>16, BufferQuiet DEF LeftStays, S!workerVars, S!vars, S!turnVars, S!bufVars, S!reloadVars
  <2>2. StreamShape' /\ StreamRegistry'
    BY <1>0, <1>16, <2>1 DEF S!vars, S!turnVars, S!workerVars, S!bufVars, S!reloadVars, StreamShape,
       StreamRegistry, BufferShape
  <2>3. StreamWorkers' /\ StreamTimer' /\ live' = {}
    BY <1>0, <1>16 DEF S!vars, S!turnVars, S!workerVars, S!bufVars, S!reloadVars, StreamWorkers, StreamTimer
  <2> QED BY <2>1, <2>2, <2>3
<1>17. ASSUME NEW t \in Turns, S!LeavesTurn(t) PROVE Goal
  <2>0. /\ tpc[t] = "running" /\ tpc' = [tpc EXCEPT ![t] = "flush"] /\ t \in S!Emitters
        /\ wpc' = [wpc EXCEPT ![t] = "streaming"] /\ sink' = [sink EXCEPT ![t] = t]
        /\ late' = late /\ closed' = closed /\ LeftStays
    BY <1>0, <1>17 DEF S!LeavesTurn, S!Go, S!Emitters, LeftStays, StreamShape
  <2>1. BufferInv' /\ BufferShape'
    BY <1>0, <1>17, <2>0, BufferQuiet DEF S!LeavesTurn, S!bufVars, S!reloadVars, Over, StreamShape
  <2>2. StreamShape' /\ StreamRegistry'
    BY <1>0, <1>17, <2>0, <2>1 DEF S!LeavesTurn, S!bufVars, S!reloadVars, StreamShape,
       StreamRegistry, BufferShape
  <2>3. late[t] # 1
    BY <1>0, <2>0 DEF StreamWorkers, StreamRegistry, StreamShape
  <2>4. StreamWorkers'
    BY <1>0, <2>0, <2>3 DEF StreamWorkers, StreamShape, StreamNames
  <2>5. StreamTimer' /\ live' = {}
    BY <1>0, <1>17 DEF S!LeavesTurn, S!bufVars, S!reloadVars, StreamTimer
  <2> QED BY <2>1, <2>2, <2>4, <2>5
<1>18. ASSUME NEW t \in Turns, S!LeftEnds(t) PROVE Goal
  <2>1. BufferInv' /\ BufferShape'
    BY <1>0, <1>18, BufferQuiet DEF LeftStays, S!LeftEnds, S!turnVars, S!bufVars, S!reloadVars
  <2>2. StreamShape' /\ StreamRegistry'
    BY <1>0, <1>18, <2>1 DEF S!LeftEnds, S!turnVars, S!bufVars, S!reloadVars, StreamShape,
       StreamRegistry, BufferShape
  <2>3. StreamWorkers' /\ StreamTimer' /\ live' = {}
    BY <1>0, <1>18 DEF S!LeftEnds, S!turnVars, S!bufVars, S!reloadVars, StreamWorkers,
       StreamTimer, StreamShape, StreamNames
  <2> QED BY <2>1, <2>2, <2>3
<1> HIDE DEF Goal
<1>19. Goal
  BY <1>1, <1>2, <1>3, <1>4, <1>5, <1>6, <1>7, <1>8, <1>9, <1>10, <1>11, <1>12, <1>13, <1>14,
     <1>15, <1>16, <1>17, <1>18 DEF S!Next
<1> QED BY <1>19 DEF Goal, StreamInv, BufferInv

\* Nothing is registered, written or buffered at first.
LEMMA StreamStart == ASSUME StreamNames, S!Init PROVE StreamInv
<1>1. /\ registered = NoTurn /\ closed = {} /\ newest = NoTurn
      /\ tpc = [t \in Turns |-> "idle"] /\ wpc = [e \in S!Emitters |-> "idle"]
      /\ sink = [e \in S!Emitters |-> NoTurn] /\ late = [e \in S!Emitters |-> 0]
      /\ sent = [e \in S!Emitters |-> 0] /\ pending = << >> /\ folded = 0 /\ timer = "nil"
      /\ firing = 0 /\ wire = << >> /\ arrived = << >> /\ rpc = "idle" /\ live = {} /\ reloads = 0
  BY DEF S!Init
<1>2. S!Items(pending) = << >> /\ S!Items(wire) = << >>
  BY <1>1, ItemsEmpty
<1>3. StreamShape
  BY <1>1, EmptySeq DEF StreamShape, StreamNames
<1>4. StreamRegistry /\ StreamWorkers /\ StreamTimer
  BY <1>1 DEF StreamRegistry, StreamWorkers, StreamTimer, StreamNames, S!Emitters
<1>5. MaxDeltas * reloads = 0 /\ MaxDeltas \in Nat
  BY <1>1 DEF StreamNames
<1>6. StreamCounts
  BY <1>1, <1>2, <1>5 DEF StreamCounts
<1>7. Rows(pending) /\ EndsLast
  BY <1>1, EmptySeq DEF Rows, EndsLast
<1>8. S!ArrivalOrder
  BY <1>1, <1>2 DEF S!ArrivalOrder
<1> QED BY <1>1, <1>3, <1>4, <1>6, <1>7, <1>8 DEF StreamInv

\* What the invariant says of the window.
LEMMA StreamSays ==
  ASSUME StreamNames, StreamInv
  PROVE  /\ S!StreamTypeOK /\ S!OneStreamPerEvent /\ S!EndFollowsText
         /\ S!BufferedIsTimed /\ S!OneLateDelta /\ S!NewestIsRegistered /\ S!ResolvedIsOpen
         /\ S!ReloadSparesLive
<1>0. /\ StreamShape /\ StreamRegistry /\ StreamWorkers /\ StreamTimer /\ live = {}
      /\ StreamCounts /\ Rows(pending) /\ EndsLast
  BY DEF StreamInv
<1>1. S!StreamTypeOK
  <2>1. \A e \in S!Emitters : sent[e] \in 0 .. MaxDeltas * (MaxReloads + 1)
    <3> DEFINE k == MaxDeltas * reloads
               l == MaxDeltas * MaxReloads
               h == MaxDeltas * (MaxReloads + 1)
    <3>1. h = l + MaxDeltas /\ k \in Nat /\ l \in Nat /\ MaxDeltas \in Nat
      BY <1>0 DEF StreamNames, StreamShape
    <3>2. k <= l
      <4>1. PICK d \in Nat : MaxReloads = reloads + d
        <5>1. MaxReloads - reloads \in Nat /\ MaxReloads = reloads + (MaxReloads - reloads)
          BY <1>0 DEF StreamNames, StreamShape
        <5> QED BY <5>1
      <4>2. MaxDeltas * (reloads + d) = MaxDeltas * reloads + MaxDeltas * d /\ MaxDeltas * d \in Nat
        BY <4>1, <1>0 DEF StreamNames, StreamShape
      <4> QED BY <4>1, <4>2, <3>1
    <3>3. \A e \in S!Emitters : sent[e] \in Nat /\ sent[e] <= Len(arrived) + k
      BY <1>0 DEF StreamCounts, StreamShape
    <3>4. Len(arrived) \in Nat /\ Len(arrived) <= MaxDeltas
      BY <1>0, LenProperties DEF StreamShape
    <3> HIDE DEF h, k, l
    <3>5. \A e \in S!Emitters : sent[e] \in 0 .. h
      BY <3>1, <3>2, <3>3, <3>4
    <3> QED BY <3>5 DEF h
  <2> DEFINE h == MaxDeltas * (MaxReloads + 1)
  <2>2. sent \in [S!Emitters -> 0 .. h]
    <3>1. sent \in [S!Emitters -> Nat] /\ \A e \in S!Emitters : sent[e] \in 0 .. h
      BY <1>0, <2>1 DEF StreamShape
    <3> HIDE DEF h
    <3> QED BY <3>1
  <2> HIDE DEF h
  <2>3. sent \in [S!Emitters -> 0 .. MaxDeltas * (MaxReloads + 1)]
    BY <2>2 DEF h
  <2> QED BY <1>0, <2>3 DEF S!StreamTypeOK, StreamShape, StreamCounts
<1>2. /\ wire \in Seq(Events) /\ pending \in Seq(Events)
      /\ Len(wire) \in Nat /\ Len(pending) \in Nat
      /\ DOMAIN (wire \o pending) = 1 .. Len(wire) + Len(pending) /\ DOMAIN wire = 1 .. Len(wire)
      /\ \A i \in 1 .. Len(wire) + Len(pending) :
           (wire \o pending)[i] = IF i <= Len(wire) THEN wire[i] ELSE pending[i - Len(wire)]
  BY <1>0, ConcatProperties, LenProperties DEF StreamShape
<1>3. \A i \in DOMAIN (wire \o pending) :
        \/ i \in 1 .. Len(wire) /\ (wire \o pending)[i] = wire[i]
        \/ /\ i - Len(wire) \in 1 .. Len(pending) /\ i > Len(wire)
           /\ (wire \o pending)[i] = pending[i - Len(wire)]
  BY <1>2
<1>4. S!OneStreamPerEvent
  <2> SUFFICES ASSUME NEW i \in DOMAIN (wire \o pending),
                      NEW d \in S!ToSet((wire \o pending)[i].items)
               PROVE  d[1] = (wire \o pending)[i].who
    BY DEF S!OneStreamPerEvent
  <2> DEFINE e == (wire \o pending)[i]
  <2>1. Own(e) /\ e \in Events
    BY <1>0, <1>2, <1>3, ElementOfSeq DEF Rows, EndsLast
  <2>2. PICK k \in DOMAIN e.items : d = e.items[k]
    BY DEF S!ToSet
  <2>3. DOMAIN e.items = 1 .. Len(e.items)
    <3> HIDE DEF e
    <3> QED BY <2>1, LenProperties DEF Events
  <2> HIDE DEF e
  <2>4. d[1] = e.who
    BY <2>1, <2>2, <2>3 DEF Own
  <2> QED BY <2>4 DEF e
<1>5. S!EndFollowsText
  <2> SUFFICES ASSUME NEW t \in Turns, sink[t] # t, NEW i \in DOMAIN wire,
                      wire[i].kind = "turn_end", wire[i].who = t, NEW j \in DOMAIN (wire \o pending),
                      (wire \o pending)[j].who = t
               PROVE  j <= i
    BY DEF S!EndFollowsText
  <2>1. i \in 1 .. Len(wire) /\ tpc[t] \in Over
    BY <1>0, <1>2 DEF EndsLast
  <2>2. CASE j \in 1 .. Len(wire) /\ (wire \o pending)[j] = wire[j]
    BY <2>1, <2>2, <1>0 DEF EndsLast
  <2>3. CASE /\ j - Len(wire) \in 1 .. Len(pending) /\ j > Len(wire)
             /\ (wire \o pending)[j] = pending[j - Len(wire)]
    BY <2>1, <2>3, <1>0 DEF Rows, Over, Sends
  <2> QED BY <1>3, <2>2, <2>3
<1>6. S!BufferedIsTimed
  BY <1>0 DEF S!BufferedIsTimed, StreamTimer, StreamShape
<1>7. S!OneLateDelta /\ S!NewestIsRegistered /\ S!ResolvedIsOpen
  BY <1>0 DEF S!OneLateDelta, S!NewestIsRegistered, S!ResolvedIsOpen, StreamWorkers, StreamRegistry,
     StreamShape, StreamNames
<1>8. S!ReloadSparesLive
  BY <1>0 DEF S!ReloadSparesLive
<1> QED BY <1>1, <1>4, <1>5, <1>6, <1>7, <1>8

\* The invariant holds of every behaviour.
LEMMA StreamAlways == StreamNames /\ S!Spec => []StreamInv
<1> SUFFICES ASSUME StreamNames PROVE S!Spec => []StreamInv
  OBVIOUS
<1>1. S!Init => StreamInv
  BY StreamStart
<1>2. StreamInv /\ [S!Next]_S!vars => StreamInv'
  BY StreamStep
<1> QED BY <1>1, <1>2, PTL DEF S!Spec

(***************************************************************************)
(* stream.go: "wire order equals arrival order". What the window has and   *)
(* what is buffered are the deltas of all streams in the order in which    *)
(* EmitStream took them, none lost but what a reload dropped, and an event *)
(* carries the text of one stream only. For any set of turns, workers and  *)
(* kinds and any bound on the buffer.                                      *)
(***************************************************************************)
THEOREM WireIsArrival == StreamNames /\ S!Spec => [](S!StreamTypeOK /\ S!ArrivalOrder /\ S!OneStreamPerEvent)
<1> SUFFICES ASSUME StreamNames PROVE S!Spec => [](S!StreamTypeOK /\ S!ArrivalOrder /\ S!OneStreamPerEvent)
  OBVIOUS
<1>1. StreamInv => S!StreamTypeOK /\ S!ArrivalOrder /\ S!OneStreamPerEvent
  BY StreamSays DEF StreamInv
<1> QED BY <1>1, StreamAlways, PTL

(***************************************************************************)
(* shell.go Emit: the end of a turn never overtakes its text, on the wire  *)
(* or in the buffer, whoever flushes in between, unless its caller left    *)
(* the turn and it streams on; and text that waits in the buffer has an    *)
(* armed timer or a callback of one on its way.                            *)
(***************************************************************************)
THEOREM EndIsLast == StreamNames /\ S!Spec => [](S!EndFollowsText /\ S!BufferedIsTimed)
<1> SUFFICES ASSUME StreamNames PROVE S!Spec => [](S!EndFollowsText /\ S!BufferedIsTimed)
  OBVIOUS
<1>1. StreamInv => S!EndFollowsText /\ S!BufferedIsTimed
  BY StreamSays
<1> QED BY <1>1, StreamAlways, PTL

(***************************************************************************)
(* subagents/streams.go: a sink resolves to the turn that registered last  *)
(* while that turn has not released it, never to a closed one; a delegated *)
(* run that outlives its turn, and a turn that outlives its caller, write  *)
(* at most the one delta that had passed the check; and no reload drops the text of a turn that was live when it *)
(* looked (ReloadWindow).                                                  *)
(***************************************************************************)
THEOREM StreamTargets == StreamNames /\ S!Spec => [](S!OneLateDelta /\ S!NewestIsRegistered /\ S!ResolvedIsOpen /\ S!ReloadSparesLive)
<1> SUFFICES ASSUME StreamNames PROVE S!Spec => [](S!OneLateDelta /\ S!NewestIsRegistered /\ S!ResolvedIsOpen /\ S!ReloadSparesLive)
  OBVIOUS
<1>1. StreamInv => S!OneLateDelta /\ S!NewestIsRegistered /\ S!ResolvedIsOpen /\ S!ReloadSparesLive
  BY StreamSays
<1> QED BY <1>1, StreamAlways, PTL

-----------------------------------------------------------------------------
(* Steering: the messages that wait for a turn, and their budget. *)

\* The function a fold over the positions of a sequence is defined by: the sum of
\* the entries at the positions of every subset.
Folds(q, n, h) ==
  h = [s \in SUBSET (1 .. n) |-> IF s = {} THEN 0 ELSE LET x == G!Max(s) IN h[s \ {x}] + q[x]]

\* A set of positions up to n, its highest, and the sum over it.
Below(s, n) == s \in SUBSET (1 .. n)

Highest(s) == G!Max(s) \in s /\ \A y \in s : y <= G!Max(s)

SumAt(q, h, s) == h[s] = IF s = {} THEN 0 ELSE h[s \ {G!Max(s)}] + q[G!Max(s)]

\* The highest of the positions.
LEMMA HighestPosition ==
  ASSUME NEW n \in Nat, NEW s, Below(s, n), s # {}
  PROVE  Highest(s)
<1> USE DEF Below, Highest
<1> DEFINE T == {m \in Nat : \A y \in s : y <= m}
<1>1. n \in T
  OBVIOUS
<1>2. PICK m \in T : \A k \in T : m <= k
  BY <1>1, LeastNat
<1>3. m \in s
  <2> SUFFICES ASSUME m \notin s PROVE FALSE
    OBVIOUS
  <2>1. PICK y \in s : TRUE
    OBVIOUS
  <2>2. m - 1 \in Nat /\ \A z \in s : z <= m - 1
    BY <1>2, <2>1
  <2> QED BY <1>2, <2>2
<1>4. \E x \in s : \A y \in s : x >= y
  BY <1>2, <1>3
<1> QED BY <1>4 DEF G!Max

\* Position n + 1 is the highest of any set of positions it is in.
LEMMA NewestPosition ==
  ASSUME NEW n \in Nat, NEW s \in SUBSET (1 .. n + 1), n + 1 \in s
  PROVE  G!Max(s) = n + 1 /\ s \ {n + 1} \in SUBSET (1 .. n)
<1> DEFINE m == n + 1
<1>1. m \in Nat /\ Below(s, m) /\ s # {}
  BY DEF Below
<1> HIDE DEF m
<1>2. Highest(s)
  BY <1>1, HighestPosition
<1>3. G!Max(s) \in 1 .. n + 1 /\ n + 1 <= G!Max(s)
  BY <1>2 DEF Highest
<1>4. \A x \in 1 .. n + 1 : n + 1 <= x => x = n + 1
  OBVIOUS
<1>5. \A x \in s : x # n + 1 => x \in 1 .. n
  OBVIOUS
<1> QED BY <1>3, <1>4, <1>5

\* The value of the fold at a subset.
LEMMA FoldsValue ==
  ASSUME NEW q, NEW n, NEW h, Folds(q, n, h), NEW s, Below(s, n)
  PROVE  SumAt(q, h, s)
BY DEF Folds, Below, SumAt

\* There is such a function, one position after the other.
LEMMA FoldsExist ==
  ASSUME NEW q
  PROVE  \A n \in Nat : \E h : Folds(q, n, h)
<1> DEFINE T == {n \in Nat : \E h : Folds(q, n, h)}
<1>1. 0 \in T
  <2> DEFINE h == [s \in SUBSET (1 .. 0) |-> 0]
  <2>1. \A s \in SUBSET (1 .. 0) : s = {}
    OBVIOUS
  <2>2. h = [s \in SUBSET (1 .. 0) |-> IF s = {} THEN 0
                                       ELSE LET x == G!Max(s) IN h[s \ {x}] + q[x]]
    BY <2>1
  <2>3. Folds(q, 0, h)
    BY <2>2 DEF Folds
  <2> QED BY <2>3
<1>2. ASSUME NEW n \in Nat, n \in T PROVE n + 1 \in T
  <2>1. PICK h : Folds(q, n, h)
    BY <1>2
  <2> DEFINE g == [s \in SUBSET (1 .. n + 1) |-> IF n + 1 \in s THEN h[s \ {n + 1}] + q[n + 1]
                                                ELSE h[s]]
             Val(s) == IF s = {} THEN 0 ELSE LET x == G!Max(s) IN g[s \ {x}] + q[x]
  <2>2. \A s \in SUBSET (1 .. n) : s \in SUBSET (1 .. n + 1) /\ n + 1 \notin s /\ g[s] = h[s]
    OBVIOUS
  <2>3. ASSUME NEW s \in SUBSET (1 .. n + 1) PROVE g[s] = Val(s)
    <3>1. CASE n + 1 \in s
      <4>1. G!Max(s) = n + 1 /\ s \ {n + 1} \in SUBSET (1 .. n)
        BY <3>1, NewestPosition
      <4>2. g[s] = h[s \ {n + 1}] + q[n + 1] /\ g[s \ {n + 1}] = h[s \ {n + 1}]
        BY <3>1, <4>1, <2>2
      <4> HIDE DEF g
      <4> QED BY <3>1, <4>1, <4>2
    <3>2. CASE n + 1 \notin s
      <4>1. s \in SUBSET (1 .. n) /\ g[s] = h[s]
        BY <3>2, <2>2
      <4> HIDE DEF g
      <4>2. h[s] = IF s = {} THEN 0 ELSE h[s \ {G!Max(s)}] + q[G!Max(s)]
        <5>1. Below(s, n)
          BY <4>1 DEF Below
        <5>2. SumAt(q, h, s)
          BY <2>1, <5>1, FoldsValue
        <5> QED BY <5>2 DEF SumAt
      <4>3. g[s \ {G!Max(s)}] = h[s \ {G!Max(s)}]
        BY <2>2, <4>1
      <4> QED BY <4>1, <4>2, <4>3
    <3> QED BY <3>1, <3>2
  <2>4. g = [s \in SUBSET (1 .. n + 1) |-> g[s]]
    OBVIOUS
  <2> HIDE DEF g
  <2>5. Folds(q, n + 1, g)
    BY <2>3, <2>4 DEF Folds
  <2> QED BY <2>5
<1> HIDE DEF T
<1>3. Nat \subseteq T
  BY <1>1, <1>2, NatSetInduction
<1> QED BY <1>3 DEF T

\* Two sequences with the same first entries have the same sums of them.
SameFirst(q, r, k) == \A i \in 1 .. k : q[i] = r[i]

\* Ledgers that begin alike have the same sums so far.
LEMMA FoldsAgree ==
  ASSUME NEW q, NEW r, NEW n \in Nat, NEW m \in Nat, n <= m, SameFirst(q, r, n),
         NEW g, NEW h, Folds(q, n, g), Folds(r, m, h)
  PROVE  \A s \in SUBSET (1 .. n) : g[s] = h[s]
<1> DEFINE T == {k \in Nat : k <= n => \A s \in SUBSET (1 .. k) : g[s] = h[s]}
<1>0. ASSUME NEW s \in SUBSET (1 .. n)
      PROVE  /\ g[s] = IF s = {} THEN 0 ELSE g[s \ {G!Max(s)}] + q[G!Max(s)]
             /\ h[s] = IF s = {} THEN 0 ELSE h[s \ {G!Max(s)}] + r[G!Max(s)]
  <2>1. Below(s, n) /\ Below(s, m)
    BY DEF Below
  <2>2. SumAt(q, g, s) /\ SumAt(r, h, s)
    BY <2>1, FoldsValue
  <2> QED BY <2>2 DEF SumAt
<1>1. 0 \in T
  <2>1. \A s \in SUBSET (1 .. 0) : s = {} /\ s \in SUBSET (1 .. n)
    OBVIOUS
  <2> QED BY <2>1, <1>0
<1>2. ASSUME NEW k \in Nat, k \in T PROVE k + 1 \in T
  <2> SUFFICES ASSUME k + 1 <= n, NEW s \in SUBSET (1 .. k + 1) PROVE g[s] = h[s]
    OBVIOUS
  <2>1. CASE k + 1 \notin s
    <3>1. s \in SUBSET (1 .. k)
      BY <2>1
    <3> QED BY <3>1, <1>2
  <2>2. CASE k + 1 \in s
    <3>1. G!Max(s) = k + 1 /\ s \ {k + 1} \in SUBSET (1 .. k)
      BY <2>2, NewestPosition
    <3>2. g[s \ {k + 1}] = h[s \ {k + 1}] /\ q[k + 1] = r[k + 1]
      BY <3>1, <1>2 DEF SameFirst
    <3>3. s \in SUBSET (1 .. n)
      OBVIOUS
    <3>4. g[s] = g[s \ {k + 1}] + q[k + 1] /\ h[s] = h[s \ {k + 1}] + r[k + 1]
      BY <2>2, <3>1, <3>3, <1>0
    <3> QED BY <3>2, <3>4
  <2> QED BY <2>1, <2>2
<1> HIDE DEF T
<1>3. Nat \subseteq T
  BY <1>1, <1>2, NatSetInduction
<1>4. n \in T
  BY <1>3
<1> QED BY <1>4 DEF T

\* Total is that sum, of all positions.
LEMMA TotalValue ==
  ASSUME NEW q, Len(q) \in Nat, DOMAIN q = 1 .. Len(q)
  PROVE  \E h : Folds(q, Len(q), h) /\ G!Total(q) = h[1 .. Len(q)]
<1> DEFINE D == DOMAIN q
           f == CHOOSE h : h = [s \in SUBSET D |-> IF s = {} THEN 0 ELSE LET x == G!Max(s) IN h[s \ {x}] + q[x]]
<1>1. \E h : h = [s \in SUBSET D |-> IF s = {} THEN 0 ELSE LET x == G!Max(s) IN h[s \ {x}] + q[x]]
  <2>1. PICK h : Folds(q, Len(q), h)
    BY FoldsExist
  <2> QED BY <2>1 DEF Folds
<1>2. f = [s \in SUBSET D |-> IF s = {} THEN 0 ELSE LET x == G!Max(s) IN f[s \ {x}] + q[x]]
  BY <1>1, Zenon
<1>3. G!Total(q) = f[D]
  BY DEF G!Total, G!FoldLeft, G!MapThenFoldSet
<1>4. Folds(q, Len(q), f)
  BY <1>2 DEF Folds
<1> HIDE DEF f
<1> QED BY <1>3, <1>4

\* The total of nothing, and of one message more.
LEMMA TotalEmpty == G!Total(<< >>) = 0
<1>1. PICK h : Folds(<< >>, 0, h) /\ G!Total(<< >>) = h[1 .. 0]
  BY TotalValue
<1>2. SumAt(<< >>, h, {})
  BY <1>1, FoldsValue DEF Below
<1>3. 1 .. 0 = {}
  OBVIOUS
<1> QED BY <1>1, <1>2, <1>3 DEF SumAt

\* One charge more adds its size (ledger.charge).
LEMMA TotalAppend ==
  ASSUME NEW A, NEW q \in Seq(A), NEW x \in A
  PROVE  G!Total(Append(q, x)) = G!Total(q) + x
<1> DEFINE n == Len(q)
           r == Append(q, x)
<1>1. n \in Nat /\ Len(r) = n + 1 /\ r[n + 1] = x /\ SameFirst(q, r, n)
      /\ DOMAIN q = 1 .. n /\ DOMAIN r = 1 .. n + 1
  BY DEF SameFirst
<1>2. PICK g : Folds(q, n, g) /\ G!Total(q) = g[1 .. n]
  BY <1>1, TotalValue
<1>3. PICK h : Folds(r, n + 1, h) /\ G!Total(r) = h[1 .. n + 1]
  <2>1. Len(r) \in Nat /\ DOMAIN r = 1 .. Len(r)
    BY <1>1
  <2>2. \E h : Folds(r, Len(r), h) /\ G!Total(r) = h[1 .. Len(r)]
    BY <2>1, TotalValue
  <2> QED BY <2>2, <1>1
<1> HIDE DEF n, r
<1>4. G!Max(1 .. n + 1) = n + 1 /\ (1 .. n + 1) \ {n + 1} = 1 .. n
  BY <1>1, NewestPosition
<1>5. h[1 .. n + 1] = h[1 .. n] + x
  <2>1. h[1 .. n + 1] = IF 1 .. n + 1 = {} THEN 0
                        ELSE h[(1 .. n + 1) \ {G!Max(1 .. n + 1)}] + r[G!Max(1 .. n + 1)]
    <3>1. Below(1 .. n + 1, n + 1)
      BY DEF Below
    <3>2. SumAt(r, h, 1 .. n + 1)
      BY <1>3, <3>1, FoldsValue
    <3> QED BY <3>2 DEF SumAt
  <2>2. n + 1 \in 1 .. n + 1
    BY <1>1
  <2> QED BY <1>1, <1>4, <2>1, <2>2
<1>6. h[1 .. n] = g[1 .. n]
  <2>1. n <= n + 1 /\ n + 1 \in Nat
    BY <1>1
  <2> QED BY <1>1, <1>2, <1>3, <2>1, FoldsAgree
<1>7. G!Total(r) = G!Total(q) + x
  BY <1>2, <1>3, <1>5, <1>6
<1> QED BY <1>7 DEF r

\* A total is a number, and that of two lists in a row is the sum of theirs.
LEMMA TotalConcat ==
  ASSUME NEW q \in Seq(Nat)
  PROVE  /\ G!Total(q) \in Nat
         /\ \A p \in Seq(Nat) : G!Total(p \o q) = G!Total(p) + G!Total(q)
<1> DEFINE Good(r) == /\ G!Total(r) \in Nat
                      /\ \A p \in Seq(Nat) : G!Total(p \o r) = G!Total(p) + G!Total(r)
           T == {n \in Nat : \A r \in Seq(Nat) : Len(r) = n => G!Total(r) \in Nat}
           U == {n \in Nat : \A r \in Seq(Nat) : Len(r) = n => Good(r)}
<1>1. 0 \in T
  <2>1. \A r \in Seq(Nat) : Len(r) = 0 => r = << >>
    BY EmptySeq
  <2> QED BY <2>1, TotalEmpty
<1>2. ASSUME NEW n \in Nat, n \in T PROVE n + 1 \in T
  <2> SUFFICES ASSUME NEW r \in Seq(Nat), Len(r) = n + 1 PROVE G!Total(r) \in Nat
    OBVIOUS
  <2>1. r # << >>
    BY EmptySeq
  <2>2. PICK p \in Seq(Nat) : r = Append(p, r[Len(r)]) /\ r[Len(r)] \in Nat
    BY <2>1, LastOf
  <2>3. Len(p) = n
    BY <2>2
  <2>4. G!Total(p) \in Nat
    BY <1>2, <2>3
  <2>5. G!Total(Append(p, r[Len(r)])) = G!Total(p) + r[Len(r)]
    BY <2>2, TotalAppend
  <2>6. G!Total(p) + r[Len(r)] \in Nat
    BY <2>2, <2>4
  <2> QED BY <2>2, <2>5, <2>6, Zenon
<1> HIDE DEF T
<1>3. Nat \subseteq T
  BY <1>1, <1>2, NatSetInduction
<1>4. \A r \in Seq(Nat) : G!Total(r) \in Nat
  BY <1>3, LenProperties DEF T
<1>5. 0 \in U
  <2>1. \A r \in Seq(Nat) : Len(r) = 0 => r = << >>
    BY EmptySeq
  <2>2. ASSUME NEW p \in Seq(Nat) PROVE G!Total(p \o << >>) = G!Total(p) + G!Total(<< >>)
    <3>1. p \o << >> = p /\ G!Total(p) \in Nat
      BY <1>4
    <3> QED BY <3>1, TotalEmpty
  <2>3. Good(<< >>)
    BY <2>2, TotalEmpty
  <2>4. ASSUME NEW r \in Seq(Nat), Len(r) = 0 PROVE Good(r)
    <3>1. r = << >>
      BY <2>1, <2>4
    <3> HIDE DEF Good
    <3> QED BY <3>1, <2>3
  <2> HIDE DEF Good
  <2> QED BY <2>4
<1>6. ASSUME NEW n \in Nat, n \in U PROVE n + 1 \in U
  <2> SUFFICES ASSUME NEW r \in Seq(Nat), Len(r) = n + 1, NEW p \in Seq(Nat)
               PROVE  G!Total(p \o r) = G!Total(p) + G!Total(r)
    BY <1>4
  <2>1. r # << >>
    BY EmptySeq
  <2> DEFINE x == r[Len(r)]
  <2>2. PICK f \in Seq(Nat) : r = Append(f, x) /\ x \in Nat
    BY <2>1, LastOf
  <2> HIDE DEF x
  <2>3. Len(f) = n
    BY <2>2
  <2>4. p \o f \in Seq(Nat) /\ G!Total(p \o f) = G!Total(p) + G!Total(f)
    BY <1>6, <2>3
  <2> DEFINE g == p \o f
  <2>5. p \o r = Append(g, x)
    BY <2>2, <2>4
  <2> HIDE DEF g
  <2>6. G!Total(Append(g, x)) = G!Total(g) + x /\ G!Total(Append(f, x)) = G!Total(f) + x
    BY <2>2, <2>4, TotalAppend DEF g
  <2>7. G!Total(p) \in Nat /\ G!Total(f) \in Nat
    BY <1>4
  <2>8. G!Total(g) = G!Total(p) + G!Total(f)
    BY <2>4 DEF g
  <2>9. G!Total(p \o r) = G!Total(g) + x /\ G!Total(r) = G!Total(f) + x
    BY <2>2, <2>5, <2>6
  <2> QED BY <2>2, <2>7, <2>8, <2>9
<1> HIDE DEF U
<1>7. Nat \subseteq U
  BY <1>5, <1>6, NatSetInduction
<1> QED BY <1>7, LenProperties DEF U

\* The newest entries of a list: what a boundary leaves of it.
Newest(q, s) == Len(q) <= Len(s) /\ \A i \in 1 .. Len(q) : q[i] = s[Len(s) - Len(q) + i]

\* The newest charges of a ledger cost no more than all of it.
LEMMA NewestTotal ==
  ASSUME NEW q \in Seq(Nat), NEW s \in Seq(Nat), Newest(q, s)
  PROVE  G!Total(q) <= G!Total(s)
<1> DEFINE k == Len(s) - Len(q)
           p == SubSeq(s, 1, k)
<1>1. k \in Nat /\ k <= Len(s) /\ Len(s) = k + Len(q) /\ Len(q) \in Nat
  BY DEF Newest
<1>2. p \in Seq(Nat) /\ Len(p) = k /\ \A i \in 1 .. k : p[i] = s[i]
  BY <1>1
<1>a. \A j \in 1 .. Len(q) : q[j] = s[k + j]
  BY DEF Newest
<1> HIDE DEF p, k
<1>3. s = p \o q
  <2>1. p \o q \in Seq(Nat) /\ Len(p \o q) = Len(s)
    BY <1>1, <1>2
  <2>2. ASSUME NEW i \in 1 .. Len(s) PROVE (p \o q)[i] = s[i]
    <3>1. CASE i <= k
      BY <3>1, <1>1, <1>2
    <3>2. CASE ~ (i <= k)
      <4> DEFINE j == i - k
      <4>1. j \in 1 .. Len(q) /\ i = k + j /\ j \in Nat
        BY <3>2, <1>1
      <4> HIDE DEF j
      <4>2. (p \o q)[i] = q[j]
        <5>1. i = Len(p) + j /\ i \in 1 .. Len(p) + Len(q) /\ i > Len(p) /\ i - Len(p) = j
          BY <4>1, <3>2, <1>1, <1>2
        <5>2. \A x \in 1 .. Len(p) + Len(q) :
                 (p \o q)[x] = IF x <= Len(p) THEN p[x] ELSE q[x - Len(p)]
          BY <1>2, ConcatProperties, Zenon
        <5>3. ~ (i <= Len(p))
          BY <3>2, <1>2, Zenon
        <5>4. (p \o q)[i] = q[i - Len(p)]
          BY <5>1, <5>2, <5>3, Zenon
        <5> QED BY <5>1, <5>4, Zenon
      <4>3. q[j] = s[k + j]
        BY <4>1, <1>a
      <4> QED BY <4>1, <4>2, <4>3
    <3> QED BY <3>1, <3>2
  <2> QED BY <2>1, <2>2, SeqEqual
<1>4. G!Total(p) \in Nat /\ G!Total(q) \in Nat /\ G!Total(s) = G!Total(p) + G!Total(q)
  BY <1>2, <1>3, TotalConcat
<1> QED BY <1>4

\* It is what the module calls a suffix.
LEMMA NewestIsSuffix ==
  ASSUME NEW q \in Seq(Nat), NEW s \in Seq(Nat), Newest(q, s)
  PROVE  G!IsSuffix(q, s)
<1> DEFINE a == G!Reverse(q)
           b == G!Reverse(s)
<1>1. a \in Seq(Nat) /\ Len(a) = Len(q) /\ \A i \in 1 .. Len(q) : a[i] = q[Len(q) - i + 1]
  BY DEF G!Reverse
<1>2. b \in Seq(Nat) /\ Len(b) = Len(s) /\ \A i \in 1 .. Len(s) : b[i] = s[Len(s) - i + 1]
  BY DEF G!Reverse
<1>3. ASSUME NEW i \in 1 .. Len(q) PROVE a[i] = b[i]
  <2> DEFINE j == Len(q) - i + 1
  <2>1. j \in 1 .. Len(q) /\ i \in 1 .. Len(s) /\ Len(s) - Len(q) + j = Len(s) - i + 1
    BY DEF Newest
  <2>2. q[j] = s[Len(s) - Len(q) + j]
    BY <2>1 DEF Newest
  <2> QED BY <2>1, <2>2, <1>1, <1>2
<1> HIDE DEF a, b
<1>4. SubSeq(a, 1, Len(a)) = SubSeq(b, 1, Len(a))
  <2> DEFINE c == SubSeq(a, 1, Len(a))
             d == SubSeq(b, 1, Len(a))
  <2>1. c \in Seq(Nat) /\ Len(c) = Len(q) /\ \A i \in 1 .. Len(q) : c[i] = a[i]
    BY <1>1
  <2>2. d \in Seq(Nat) /\ Len(d) = Len(q) /\ \A i \in 1 .. Len(q) : d[i] = b[i]
    <3>1. Len(a) \in Nat /\ Len(a) <= Len(b) /\ 1 .. Len(a) = 1 .. Len(q)
      BY <1>1, <1>2 DEF Newest
    <3>2. \A i \in 1 .. Len(a) : i \in 1 .. Len(b)
      BY <3>1, <1>2
    <3>3. d \in Seq(Nat) /\ Len(d) = Len(a)
      BY <3>1, <1>2, SubSeqProperties
    <3>4. \A i \in 1 .. Len(a) : d[i] = b[i]
      <4>1. \A i \in 1 .. Len(a) - 1 + 1 : d[i] = b[1 + i - 1]
        BY <3>1, <3>2, <1>2, SubSeqProperties
      <4>2. \A i \in 1 .. Len(a) : i \in 1 .. Len(a) - 1 + 1 /\ 1 + i - 1 = i
        BY <3>1
      <4> QED BY <4>1, <4>2
    <3> QED BY <3>1, <3>3, <3>4, <1>1
  <2> HIDE DEF c, d
  <2>3. c = d
    <3>1. Len(c) = Len(d) /\ \A i \in 1 .. Len(c) : c[i] = d[i]
      BY <2>1, <2>2, <1>3
    <3> QED BY <3>1, <2>1, <2>2, SeqEqual, Zenon
  <2> QED BY <2>3 DEF c, d
<1>5. G!IsPrefix(a, b)
  BY <1>1, <1>2, <1>4 DEF G!IsPrefix, Newest
<1> QED BY <1>5 DEF G!IsSuffix, a, b

\* What the limits of the code and the bounds of the model are.
SteerAssumption == MaxSize \in Nat \ {0} /\ Cap \in Nat /\ Depth \in Nat /\ MaxSubmits \in Nat

\* The queue is within the engine's depth, which is all an observer reads of it.
SteerBounded ==
    G!TypeOK /\ Len(queue) <= Depth

\* Reconciling keeps the ledger a sequence of sizes.
LEMMA ReconciledType ==
  ASSUME NEW T, NEW s \in Seq(T), NEW n \in Nat
  PROVE  G!Reconciled(s, n) \in Seq(T)
<1>1. CASE n >= Len(s)
  BY <1>1 DEF G!Reconciled
<1>2. CASE n < Len(s)
  <2>1. /\ SubSeq(s, Len(s) - n + 1, Len(s)) \in Seq(T)
    BY <1>2
  <2> QED BY <1>2, <2>1 DEF G!Reconciled
<1> QED BY <1>1, <1>2

\* Every step keeps the types, and the channel keeps its depth.
LEMMA SteerTypes ==
  ASSUME SteerAssumption, SteerBounded, [G!Next]_(G!vars)
  PROVE  SteerBounded'
<1> USE DEF SteerAssumption
<1> DEFINE Goal == SteerBounded'
<1> SUFFICES Goal
  OBVIOUS
<1>0. /\ queue \in Seq(G!Sizes) /\ ledger \in Seq(G!Sizes) /\ alive \in BOOLEAN
      /\ pc \in [Submitters -> {"idle", "engine", "record"}]
      /\ msg \in [Submitters -> G!Sizes]
      /\ opc \in [Observers -> {"idle", "reconcile"}] /\ seen \in [Observers -> 0 .. Depth]
      /\ told \in 0 .. Depth /\ submits \in 0 .. MaxSubmits /\ crossed \in BOOLEAN
      /\ Len(queue) <= Depth
      /\ Len(queue) \in 0 .. Depth
  BY DEF SteerBounded, G!TypeOK
<1>1. ASSUME NEW s \in Submitters, G!SteerChecks(s) PROVE Goal
  <2>1. ledger' \in Seq(G!Sizes)
    BY <1>0, <1>1, ReconciledType DEF G!SteerChecks
  <2>2. submits' \in 0 .. MaxSubmits
    BY <1>0, <1>1 DEF G!SteerChecks
  <2>3. msg' \in [Submitters -> G!Sizes] /\ pc' \in [Submitters -> {"idle", "engine", "record"}]
    BY <1>0, <1>1 DEF G!SteerChecks
  <2>4. crossed' \in BOOLEAN
    BY <1>0, <1>1 DEF G!SteerChecks
  <2> QED BY <1>0, <1>1, <2>1, <2>2, <2>3, <2>4 DEF G!SteerChecks, SteerBounded, G!TypeOK
<1>2. ASSUME NEW s \in Submitters, G!SteerQueues(s) PROVE Goal
  <2>1. queue' \in Seq(G!Sizes) /\ Len(queue') <= Depth
    <3>1. CASE alive /\ Len(queue) < Depth
      <4>1. queue' = Append(queue, msg[s]) /\ msg[s] \in G!Sizes
        BY <1>0, <1>2, <3>1 DEF G!SteerQueues
      <4> QED BY <1>0, <3>1, <4>1
    <3>2. CASE ~ (alive /\ Len(queue) < Depth)
      BY <1>0, <1>2, <3>2 DEF G!SteerQueues
    <3> QED BY <3>1, <3>2
  <2>2. pc' \in [Submitters -> {"idle", "engine", "record"}]
    BY <1>0, <1>2 DEF G!SteerQueues
  <2>3. crossed' \in BOOLEAN
    BY <1>0, <1>2 DEF G!SteerQueues
  <2> QED BY <1>0, <1>2, <2>1, <2>2, <2>3 DEF G!SteerQueues, SteerBounded, G!TypeOK
<1>3. ASSUME NEW s \in Submitters, G!SteerRecords(s) PROVE Goal
  BY <1>0, <1>3 DEF G!SteerRecords, SteerBounded, G!TypeOK
<1>4. ASSUME NEW o \in Observers, G!Observes(o) PROVE Goal
  BY <1>0, <1>4 DEF G!Observes, SteerBounded, G!TypeOK
<1>5. ASSUME NEW o \in Observers, G!Reconciles(o) PROVE Goal
  <2>1. seen[o] \in Nat /\ seen[o] \in 0 .. Depth
    BY <1>0
  <2>2. ledger' \in Seq(G!Sizes) /\ told' \in 0 .. Depth
    <3>1. G!Reconciled(ledger, seen[o]) \in Seq(G!Sizes)
      BY <1>0, <2>1, ReconciledType
    <3>2. \/ ledger' = G!Reconciled(ledger, seen[o]) /\ told' = seen[o]
          \/ ledger' = ledger /\ told' = told
      BY <1>5, Zenon DEF G!Reconciles
    <3> QED BY <1>0, <2>1, <3>1, <3>2
  <2> QED BY <1>0, <1>5, <2>2 DEF G!Reconciles, SteerBounded, G!TypeOK
<1>6. ASSUME G!Boundary PROVE Goal
  <2>1. PICK n \in 1 .. Len(queue) : queue' = SubSeq(queue, n + 1, Len(queue))
    BY <1>6 DEF G!Boundary
  <2>2. queue' \in Seq(G!Sizes) /\ Len(queue') <= Depth
    BY <1>0, <2>1
  <2>3. crossed' \in BOOLEAN
    BY <1>0, <1>6 DEF G!Boundary
  <2> QED BY <1>0, <1>6, <2>2, <2>3 DEF G!Boundary, SteerBounded, G!TypeOK
<1>7. ASSUME G!Ends PROVE Goal
  BY <1>0, <1>7 DEF G!Ends, SteerBounded, G!TypeOK
<1>8. ASSUME UNCHANGED G!vars PROVE Goal
  BY <1>0, <1>8 DEF G!vars, SteerBounded, G!TypeOK
<1> HIDE DEF Goal
<1> QED BY <1>1, <1>2, <1>3, <1>4, <1>5, <1>6, <1>7, <1>8 DEF G!Next

\* A step that takes messages out of the queue frees their budget.
LEMMA SteerFrees ==
  ASSUME SteerAssumption, SteerBounded, [G!Next]_(G!vars)
  PROVE  G!FreesBudget
<1> SUFFICES ASSUME submits' # submits, queue = << >>
             PROVE  \E s \in Submitters : pc[s] = "idle" /\ pc'[s] = "engine"
  BY DEF G!FreesBudget
<1>1. PICK s \in Submitters : G!SteerChecks(s)
  BY DEF G!Next, G!vars, G!SteerQueues, G!SteerRecords, G!Observes, G!Reconciles,
     G!Boundary, G!Ends
<1>2. ledger \in Seq(G!Sizes) /\ pc \in [Submitters -> {"idle", "engine", "record"}]
  BY DEF SteerBounded, G!TypeOK
<1>3. Len(queue) = 0
  OBVIOUS
<1>4. ledger' = << >>
  <2>1. ledger' = G!Reconciled(ledger, 0)
    BY <1>1, <1>3 DEF G!SteerChecks
  <2>2. CASE Len(ledger) = 0
    BY <1>2, <2>1, <2>2, EmptySeq DEF G!Reconciled
  <2>3. CASE Len(ledger) # 0
    BY <1>2, <2>1, <2>3 DEF G!Reconciled
  <2> QED BY <2>2, <2>3
<1>5. PICK n \in G!Sizes : pc' = [pc EXCEPT ![s] = IF G!Fits(ledger', n) THEN "engine" ELSE "idle"]
  BY <1>1 DEF G!SteerChecks
<1>6. G!Fits(ledger', n)
  BY <1>4 DEF G!Fits
<1> QED BY <1>1, <1>2, <1>5, <1>6 DEF G!SteerChecks

\* No two calls are between their check and their entry.
OneSubmits == \A s, t \in G!Submitting : s = t

\* What is queued is the newest of the ledger, with the message about to be recorded.
LedgerHolds ==
    /\ (\A s \in Submitters : pc[s] # "record") => Newest(queue, ledger)
    /\ \A s \in Submitters : pc[s] = "record" => Newest(queue, Append(ledger, msg[s]))

\* A message that was checked fits beside what is queued.
CheckedFits ==
    \A s \in Submitters :
        pc[s] = "engine" /\ queue # << >> => G!Total(queue) + msg[s] <= Cap

\* Nothing was queued since an observer read the queue.
ReadsCover == \A o \in Observers : opc[o] = "reconcile" => Len(queue) <= seen[o]

\* What holds until two calls cross, or a message meets an observer.
Uncrossed == OneSubmits /\ LedgerHolds /\ CheckedFits /\ ReadsCover

\* The inductive invariant of Steering.
SteerInv == SteerBounded /\ (~crossed => Uncrossed) /\ G!NeverOverBudget

\* Reconciling leaves the newest entries, all of them or as many as were read.
LEMMA ReconciledNewest ==
  ASSUME NEW s \in Seq(Nat), NEW n \in Nat
  PROVE  /\ G!Reconciled(s, n) \in Seq(Nat) /\ Newest(G!Reconciled(s, n), s)
         /\ Len(G!Reconciled(s, n)) \in {n, Len(s)}
<1> DEFINE r == SubSeq(s, Len(s) - n + 1, Len(s))
<1>1. CASE n >= Len(s)
  BY <1>1 DEF G!Reconciled, Newest
<1>2. CASE ~ (n >= Len(s))
  <2>1. Len(s) \in Nat /\ n < Len(s)
    BY <1>2
  <2>2. r \in Seq(Nat) /\ Len(r) = n /\ \A i \in 1 .. n : r[i] = s[Len(s) - n + i]
    BY <2>1
  <2>3. Newest(r, s)
    <3> HIDE DEF r
    <3> QED BY <2>1, <2>2 DEF Newest
  <2> QED BY <1>2, <2>2, <2>3 DEF G!Reconciled
<1> QED BY <1>1, <1>2

\* Of two newest parts of a list the shorter is the newest of the longer.
LEMMA NewestOfBoth ==
  ASSUME NEW q \in Seq(Nat), NEW r \in Seq(Nat), NEW s \in Seq(Nat), Newest(q, s),
         Newest(r, s), Len(q) <= Len(r)
  PROVE  Newest(q, r)
<1> DEFINE x == Len(q)
           y == Len(r)
           z == Len(s)
<1>1. x \in Nat /\ y \in Nat /\ z \in Nat /\ x <= y /\ y <= z
  BY DEF Newest
<1>2. /\ \A i \in 1 .. x : q[i] = s[z - x + i]
      /\ \A i \in 1 .. y : r[i] = s[z - y + i]
  BY DEF Newest
<1> HIDE DEF x, y, z
<1>3. ASSUME NEW i \in 1 .. x PROVE q[i] = r[y - x + i]
  <2>1. y - x + i \in 1 .. y /\ z - y + (y - x + i) = z - x + i
    BY <1>1
  <2>2. r[y - x + i] = s[z - y + (y - x + i)]
    BY <2>1, <1>2
  <2> QED BY <2>1, <2>2, <1>2
<1> QED BY <1>1, <1>3 DEF Newest, x, y

\* A message that enters the queue is the newest in both.
LEMMA NewestAppend ==
  ASSUME NEW q \in Seq(Nat), NEW s \in Seq(Nat), NEW x \in Nat, Newest(q, s)
  PROVE  Newest(Append(q, x), Append(s, x))
<1> DEFINE a == Append(q, x)
           b == Append(s, x)
<1>1. Len(a) = Len(q) + 1 /\ a[Len(q) + 1] = x /\ \A i \in 1 .. Len(q) : a[i] = q[i]
  OBVIOUS
<1>2. Len(b) = Len(s) + 1 /\ b[Len(s) + 1] = x /\ \A i \in 1 .. Len(s) : b[i] = s[i]
  OBVIOUS
<1>3. Len(q) \in Nat /\ Len(s) \in Nat /\ Len(q) <= Len(s)
  BY DEF Newest
<1> HIDE DEF a, b
<1>4. ASSUME NEW i \in 1 .. Len(a) PROVE a[i] = b[Len(b) - Len(a) + i]
  <2>1. CASE i = Len(q) + 1
    BY <1>1, <1>2, <1>3, <2>1
  <2>2. CASE i # Len(q) + 1
    <3>1. i \in 1 .. Len(q) /\ Len(s) - Len(q) + i \in 1 .. Len(s)
          /\ Len(b) - Len(a) + i = Len(s) - Len(q) + i
      BY <1>1, <1>2, <1>3, <2>2
    <3>2. q[i] = s[Len(s) - Len(q) + i]
      BY <3>1 DEF Newest
    <3> QED BY <3>1, <3>2, <1>1, <1>2
  <2> QED BY <2>1, <2>2
<1>5. Newest(a, b)
  BY <1>1, <1>2, <1>3, <1>4 DEF Newest
<1> QED BY <1>5 DEF a, b

\* What is left after a drain are still the newest.
LEMMA NewestLeft ==
  ASSUME NEW q \in Seq(Nat), NEW s \in Seq(Nat), Newest(q, s), NEW n \in 1 .. Len(q)
  PROVE  /\ Newest(SubSeq(q, n + 1, Len(q)), s)
         /\ Newest(SubSeq(q, n + 1, Len(q)), q)
<1> DEFINE a == SubSeq(q, n + 1, Len(q))
<1>1. Len(q) \in Nat /\ Len(s) \in Nat /\ Len(q) <= Len(s) /\ n \in Nat
  BY DEF Newest
<1>2. Len(a) = Len(q) - n /\ \A i \in 1 .. Len(q) - n : a[i] = q[n + i]
  OBVIOUS
<1> HIDE DEF a
<1>3. Newest(a, q)
  BY <1>1, <1>2 DEF Newest
<1>4. ASSUME NEW i \in 1 .. Len(a) PROVE a[i] = s[Len(s) - Len(a) + i]
  <2> DEFINE x == Len(q)
             y == Len(s)
             z == Len(a)
  <2>a. x \in Nat /\ y \in Nat /\ x <= y /\ n \in 1 .. x /\ z = x - n /\ i \in 1 .. z
    BY <1>1, <1>2
  <2> HIDE DEF x, y, z
  <2>b. n + i \in 1 .. x /\ y - x + (n + i) = y - z + i
    BY <2>a
  <2>1. n + i \in 1 .. Len(q) /\ Len(s) - Len(q) + (n + i) = Len(s) - Len(a) + i
    BY <2>b DEF x, y, z
  <2>2. q[n + i] = s[Len(s) - Len(q) + (n + i)]
    BY <2>1 DEF Newest
  <2> QED BY <2>1, <2>2, <1>2
<1>5. Newest(a, s)
  BY <1>1, <1>2, <1>4 DEF Newest
<1> QED BY <1>3, <1>5 DEF a

\* The types the steps rest on, with sizes as numbers.
LEMMA SteerNumbers ==
  ASSUME SteerInv
  PROVE  /\ queue \in Seq(Nat) /\ ledger \in Seq(Nat) /\ msg \in [Submitters -> Nat]
         /\ pc \in [Submitters -> {"idle", "engine", "record"}]
         /\ opc \in [Observers -> {"idle", "reconcile"}] /\ seen \in [Observers -> Nat]
         /\ Len(queue) \in Nat /\ crossed \in BOOLEAN
<1>1. G!Sizes \subseteq Nat
  BY DEF G!Sizes
<1>2. \A E, T : E \subseteq T => Seq(E) \subseteq Seq(T)
  OBVIOUS
<1>3. queue \in Seq(Nat) /\ ledger \in Seq(Nat)
  BY <1>1, <1>2 DEF SteerInv, SteerBounded, G!TypeOK
<1>4. Len(queue) \in Nat
  BY <1>3, LenProperties
<1>5. /\ msg \in [Submitters -> G!Sizes] /\ seen \in [Observers -> 0 .. Depth]
      /\ pc \in [Submitters -> {"idle", "engine", "record"}]
      /\ opc \in [Observers -> {"idle", "reconcile"}] /\ crossed \in BOOLEAN
  BY DEF SteerInv, SteerBounded, G!TypeOK
<1>6. msg \in [Submitters -> Nat]
  BY <1>1, <1>5
<1>7. seen \in [Observers -> Nat]
  <2>1. 0 .. Depth \subseteq Nat
    OBVIOUS
  <2> QED BY <2>1, <1>5
<1> QED BY <1>3, <1>4, <1>5, <1>6, <1>7

\* A check finds the ledger at least what is queued, so what passes fits beside it.
LEMMA SteerCheckKeeps ==
  ASSUME SteerAssumption, SteerInv, NEW s \in Submitters, G!SteerChecks(s), ~crossed'
  PROVE  Uncrossed'
<1>0. /\ queue \in Seq(Nat) /\ ledger \in Seq(Nat) /\ msg \in [Submitters -> Nat]
      /\ pc \in [Submitters -> {"idle", "engine", "record"}] /\ Len(queue) \in Nat
  BY SteerNumbers
<1>1. PICK n \in G!Sizes :
        /\ msg' = [msg EXCEPT ![s] = n]
        /\ pc' = [pc EXCEPT ![s] = IF G!Fits(ledger', n) THEN "engine" ELSE "idle"]
  BY DEF G!SteerChecks
<1>2. /\ ledger' = G!Reconciled(ledger, Len(queue)) /\ queue' = queue
      /\ opc' = opc /\ seen' = seen /\ Uncrossed /\ G!Submitting = {}
  BY DEF G!SteerChecks, SteerInv
<1>3. /\ \A t \in Submitters : pc[t] = "idle"
      /\ \A t \in Submitters : t # s => pc'[t] = "idle"
      /\ pc'[s] = IF G!Fits(ledger', n) THEN "engine" ELSE "idle"
      /\ msg'[s] = n /\ n \in Nat
  BY <1>0, <1>1, <1>2 DEF G!Submitting, G!Sizes
<1>4. Newest(queue, ledger)
  BY <1>2, <1>3 DEF Uncrossed, LedgerHolds
<1>5. ledger' \in Seq(Nat) /\ Newest(queue, ledger')
  <2>1. /\ ledger' \in Seq(Nat) /\ Newest(ledger', ledger)
        /\ Len(ledger') \in {Len(queue), Len(ledger)}
    BY <1>0, <1>2, ReconciledNewest
  <2>2. Len(queue) <= Len(ledger')
    BY <2>1, <1>0, <1>4 DEF Newest
  <2> QED BY <2>1, <2>2, <1>0, <1>4, NewestOfBoth
<1>6. OneSubmits' /\ ReadsCover'
  BY <1>2, <1>3 DEF OneSubmits, G!Submitting, ReadsCover, Uncrossed
<1>7. LedgerHolds'
  BY <1>2, <1>3, <1>5 DEF LedgerHolds
<1>8. CheckedFits'
  <2> SUFFICES ASSUME G!Fits(ledger', n), queue # << >>
               PROVE  G!Total(queue) + n <= Cap
    BY <1>2, <1>3 DEF CheckedFits
  <2>1. ledger' # << >>
    BY <1>0, <1>5 DEF Newest
  <2>2. G!Total(ledger') + n <= Cap
    BY <2>1 DEF G!Fits
  <2>3. G!Total(queue) <= G!Total(ledger')
    BY <1>0, <1>5, NewestTotal
  <2>4. G!Total(queue) \in Nat /\ G!Total(ledger') \in Nat
    BY <1>0, <1>5, TotalConcat
  <2> DEFINE u == G!Total(queue)
             v == G!Total(ledger')
  <2> HIDE DEF u, v
  <2>5. u \in Nat /\ v \in Nat /\ u <= v /\ v + n <= Cap
    BY <2>2, <2>3, <2>4 DEF u, v
  <2>6. u + n <= Cap
    BY <2>5, <1>3 DEF SteerAssumption
  <2> QED BY <2>6 DEF u
<1> QED BY <1>6, <1>7, <1>8 DEF Uncrossed

\* A message that was checked and is queued alone stays within the budget.
LEMMA SteerQueueKeeps ==
  ASSUME SteerAssumption, SteerInv, NEW s \in Submitters, G!SteerQueues(s), ~crossed'
  PROVE  Uncrossed' /\ G!NeverOverBudget'
<1>0. /\ queue \in Seq(Nat) /\ ledger \in Seq(Nat) /\ msg \in [Submitters -> Nat]
      /\ pc \in [Submitters -> {"idle", "engine", "record"}] /\ Len(queue) \in Nat
  BY SteerNumbers
<1>1. /\ Uncrossed /\ G!NeverOverBudget /\ pc[s] = "engine" /\ ledger' = ledger
      /\ msg' = msg /\ opc' = opc /\ seen' = seen /\ msg[s] \in Nat
  BY <1>0 DEF G!SteerQueues, SteerInv
<1>2. \A t \in Submitters : t # s => pc[t] = "idle"
  BY <1>0, <1>1 DEF Uncrossed, OneSubmits, G!Submitting
<1>3. Newest(queue, ledger)
  BY <1>1, <1>2 DEF Uncrossed, LedgerHolds
<1>4. CASE alive /\ Len(queue) < Depth
  <2>1. /\ queue' = Append(queue, msg[s]) /\ pc' = [pc EXCEPT ![s] = "record"]
        /\ \A o \in Observers : opc[o] # "reconcile"
    BY <1>4 DEF G!SteerQueues
  <2>2. pc'[s] = "record" /\ \A t \in Submitters : t # s => pc'[t] = "idle"
    BY <1>0, <1>2, <2>1
  <2>3. Newest(queue', Append(ledger', msg'[s]))
    BY <1>0, <1>1, <1>3, <2>1, NewestAppend
  <2>4. LedgerHolds' /\ OneSubmits' /\ CheckedFits' /\ ReadsCover'
    BY <1>1, <2>1, <2>2, <2>3 DEF LedgerHolds, OneSubmits, CheckedFits, ReadsCover, G!Submitting
  <2>5. G!NeverOverBudget'
    <3> SUFFICES ASSUME Len(queue') > 1 PROVE G!Total(queue') <= Cap
      BY DEF G!NeverOverBudget
    <3>1. queue # << >>
      BY <1>0, <1>1, <2>1
    <3>2. G!Total(queue) + msg[s] <= Cap
      BY <3>1, <1>1 DEF Uncrossed, CheckedFits
    <3>3. G!Total(queue') = G!Total(queue) + msg[s]
      BY <1>0, <1>1, <2>1, TotalAppend
    <3> QED BY <3>2, <3>3
  <2> QED BY <2>4, <2>5 DEF Uncrossed
<1>5. CASE ~ (alive /\ Len(queue) < Depth)
  <2>1. queue' = queue /\ pc' = [pc EXCEPT ![s] = "idle"] /\ crossed' = crossed
    BY <1>5 DEF G!SteerQueues
  <2>2. \A t \in Submitters : pc'[t] = "idle"
    BY <1>0, <1>2, <2>1
  <2>3. LedgerHolds' /\ OneSubmits' /\ CheckedFits' /\ ReadsCover'
    BY <1>1, <1>3, <2>1, <2>2
       DEF Uncrossed, LedgerHolds, OneSubmits, CheckedFits, ReadsCover, G!Submitting
  <2> QED BY <1>1, <2>1, <2>3 DEF Uncrossed, G!NeverOverBudget
<1> QED BY <1>4, <1>5

\* The entry in the ledger is that of the one message it lacked.
LEMMA SteerRecordKeeps ==
  ASSUME SteerInv, NEW s \in Submitters, G!SteerRecords(s), ~crossed'
  PROVE  Uncrossed'
<1>0. pc \in [Submitters -> {"idle", "engine", "record"}]
  BY SteerNumbers
<1>1. /\ Uncrossed /\ pc[s] = "record" /\ pc' = [pc EXCEPT ![s] = "idle"]
      /\ ledger' = Append(ledger, msg[s]) /\ queue' = queue
      /\ msg' = msg /\ opc' = opc /\ seen' = seen
  BY DEF G!SteerRecords, SteerInv
<1>2. \A t \in Submitters : pc'[t] = "idle"
  BY <1>0, <1>1 DEF Uncrossed, OneSubmits, G!Submitting
<1>3. Newest(queue, ledger')
  BY <1>1 DEF Uncrossed, LedgerHolds
<1>4. LedgerHolds' /\ OneSubmits' /\ CheckedFits' /\ ReadsCover'
  BY <1>1, <1>2, <1>3
     DEF Uncrossed, LedgerHolds, OneSubmits, CheckedFits, ReadsCover, G!Submitting
<1> QED BY <1>4 DEF Uncrossed

\* An observer cuts the ledger to no less than what is queued.
LEMMA ObserverKeeps ==
  ASSUME SteerInv, NEW o \in Observers, G!Reconciles(o), ~crossed'
  PROVE  Uncrossed'
<1>0. /\ queue \in Seq(Nat) /\ ledger \in Seq(Nat) /\ msg \in [Submitters -> Nat]
      /\ opc \in [Observers -> {"idle", "reconcile"}] /\ seen \in [Observers -> Nat]
      /\ seen[o] \in Nat /\ Len(queue) \in Nat
  BY SteerNumbers
<1>1. /\ Uncrossed /\ opc[o] = "reconcile" /\ opc' = [opc EXCEPT ![o] = "idle"]
      /\ queue' = queue /\ pc' = pc /\ msg' = msg /\ seen' = seen
      /\ ledger' \in {ledger, G!Reconciled(ledger, seen[o])}
  BY DEF G!Reconciles, SteerInv
<1>2. OneSubmits' /\ CheckedFits' /\ ReadsCover'
  BY <1>0, <1>1 DEF Uncrossed, OneSubmits, CheckedFits, ReadsCover, G!Submitting
<1>3. CASE ledger' = ledger
  BY <1>1, <1>2, <1>3 DEF Uncrossed, LedgerHolds
<1>4. CASE ledger' = G!Reconciled(ledger, seen[o])
  <2>1. /\ ledger' \in Seq(Nat) /\ Newest(ledger', ledger)
        /\ Len(ledger') \in {seen[o], Len(ledger)}
    BY <1>0, <1>4, ReconciledNewest
  <2>2. Len(queue) <= seen[o]
    BY <1>1 DEF Uncrossed, ReadsCover
  <2>3. ASSUME Newest(queue, ledger) PROVE Newest(queue, ledger')
    <3>1. Len(queue) <= Len(ledger')
      BY <1>0, <2>1, <2>2, <2>3 DEF Newest
    <3> QED BY <3>1, <1>0, <2>1, <2>3, NewestOfBoth
  <2>4. ASSUME NEW t \in Submitters, Newest(queue, Append(ledger, msg[t]))
        PROVE  Newest(queue, Append(ledger', msg[t]))
    <3> DEFINE a == Append(ledger, msg[t])
               b == Append(ledger', msg[t])
    <3>1. /\ msg[t] \in Nat /\ a \in Seq(Nat) /\ b \in Seq(Nat)
          /\ Len(a) = Len(ledger) + 1 /\ Len(b) = Len(ledger') + 1
      BY <1>0, <2>1
    <3>2. Newest(b, a)
      BY <1>0, <2>1, <3>1, NewestAppend
    <3> HIDE DEF a, b
    <3>3. Newest(queue, a)
      BY <2>4 DEF a
    <3>4. Len(queue) <= Len(b)
      BY <1>0, <2>1, <2>2, <3>1, <3>3 DEF Newest
    <3>5. Newest(queue, b)
      BY <1>0, <3>1, <3>2, <3>3, <3>4, NewestOfBoth
    <3> QED BY <3>5 DEF b
  <2>5. LedgerHolds'
    BY <1>1, <2>3, <2>4 DEF Uncrossed, LedgerHolds
  <2> QED BY <1>2, <2>5 DEF Uncrossed
<1> QED BY <1>1, <1>3, <1>4

\* What a boundary leaves is the newest, and costs no more; with nothing left the ledger
\* is exact again, whatever crossed before.
LEMMA BoundaryKeeps ==
  ASSUME SteerAssumption, SteerInv, G!Boundary, ~crossed'
  PROVE  Uncrossed' /\ G!NeverOverBudget'
<1>0. /\ queue \in Seq(Nat) /\ ledger \in Seq(Nat) /\ msg \in [Submitters -> Nat]
      /\ Len(queue) \in Nat /\ seen \in [Observers -> Nat]
  BY SteerNumbers
<1>1. PICK n \in 1 .. Len(queue) : queue' = SubSeq(queue, n + 1, Len(queue))
  BY DEF G!Boundary
<1>2. ledger' = ledger /\ pc' = pc /\ msg' = msg /\ opc' = opc /\ seen' = seen
  BY DEF G!Boundary
<1>3. Newest(queue', queue) /\ queue' \in Seq(Nat) /\ Len(queue') \in Nat
      /\ Len(queue') <= Len(queue)
  <2>1. Newest(queue, queue)
    BY <1>0 DEF Newest
  <2>2. queue' \in Seq(Nat) /\ Len(queue') \in Nat
    BY <1>0, <1>1
  <2>3. Newest(queue', queue)
    BY <2>1, <1>0, <1>1, NewestLeft
  <2> QED BY <2>2, <2>3 DEF Newest
<1>4. G!Total(queue') <= G!Total(queue)
      /\ G!Total(queue) \in Nat /\ G!Total(queue') \in Nat
  BY <1>0, <1>3, NewestTotal, TotalConcat
<1>5. CASE ~crossed
  <2>1. Uncrossed /\ G!NeverOverBudget
    BY <1>5 DEF SteerInv
  <2>2. OneSubmits' /\ ReadsCover'
    BY <1>0, <1>2, <1>3, <2>1 DEF Uncrossed, OneSubmits, ReadsCover, G!Submitting
  <2>3. \A t \in Seq(Nat) : Newest(queue, t) => Newest(queue', t)
    BY <1>0, <1>1, NewestLeft
  <2>4. \A t \in Submitters : Append(ledger, msg[t]) \in Seq(Nat)
    BY <1>0
  <2>5. LedgerHolds'
    BY <1>0, <1>2, <2>1, <2>3, <2>4 DEF Uncrossed, LedgerHolds
  <2> DEFINE u == G!Total(queue)
             v == G!Total(queue')
  <2>6. v <= u /\ u \in Nat /\ v \in Nat
    BY <1>4
  <2>7. \A t \in Submitters : pc[t] = "engine" => u + msg[t] <= Cap
    BY <1>0, <1>1, <2>1 DEF Uncrossed, CheckedFits
  <2>8. Len(queue') > 1 => u <= Cap
    BY <1>0, <1>3, <1>5, <2>1 DEF G!NeverOverBudget
  <2> HIDE DEF u, v
  <2>9. \A t \in Submitters : pc[t] = "engine" => v + msg[t] <= Cap
    BY <1>0, <2>6, <2>7 DEF SteerAssumption
  <2>10. Len(queue') > 1 => v <= Cap
    BY <2>6, <2>8 DEF SteerAssumption
  <2>11. CheckedFits'
    BY <1>2, <2>9 DEF CheckedFits, v
  <2>12. G!NeverOverBudget'
    BY <2>10 DEF G!NeverOverBudget, v
  <2> QED BY <2>2, <2>5, <2>11, <2>12 DEF Uncrossed
<1>6. CASE crossed
  <2>1. queue' = << >> /\ OneSubmits
    BY <1>6 DEF G!Boundary, OneSubmits
  <2>2. OneSubmits' /\ CheckedFits' /\ G!NeverOverBudget'
    BY <1>2, <2>1 DEF OneSubmits, CheckedFits, G!NeverOverBudget, G!Submitting
  <2>3. ReadsCover'
    BY <1>0, <1>2, <2>1 DEF ReadsCover
  <2>4. \A t \in Seq(Nat) : Newest(queue', t)
    BY <2>1 DEF Newest
  <2>5. \A t \in Submitters : Append(ledger, msg[t]) \in Seq(Nat)
    BY <1>0
  <2>6. LedgerHolds'
    BY <1>0, <1>2, <2>4, <2>5 DEF LedgerHolds
  <2> QED BY <2>2, <2>3, <2>6 DEF Uncrossed
<1> QED BY <1>5, <1>6

\* The ledger goes on holding the charges of the queue, and what was checked still fits,
\* as long as nothing crosses.
LEMMA SteerStep ==
  ASSUME SteerAssumption, SteerInv, [G!Next]_(G!vars)
  PROVE  SteerInv'
<1> DEFINE Goal == (~crossed => Uncrossed)' /\ G!NeverOverBudget'
<1>a. SteerBounded'
  BY SteerTypes DEF SteerInv
<1>b. (~crossed => Uncrossed) /\ G!NeverOverBudget
  BY DEF SteerInv
<1> SUFFICES Goal
  BY <1>a DEF SteerInv
<1>1. ASSUME NEW s \in Submitters, G!SteerChecks(s) PROVE Goal
  <2>1. queue' = queue /\ (~crossed' => ~crossed)
    BY <1>1 DEF G!SteerChecks
  <2> QED BY <1>1, <1>b, <2>1, SteerCheckKeeps DEF G!NeverOverBudget
<1>2. ASSUME NEW s \in Submitters, G!SteerQueues(s) PROVE Goal
  BY <1>2, SteerQueueKeeps DEF G!NeverOverBudget
<1>3. ASSUME NEW s \in Submitters, G!SteerRecords(s) PROVE Goal
  <2>1. queue' = queue /\ crossed' = crossed
    BY <1>3 DEF G!SteerRecords
  <2> QED BY <1>3, <1>b, <2>1, SteerRecordKeeps DEF G!NeverOverBudget
<1>4. ASSUME NEW o \in Observers, G!Observes(o) PROVE Goal
  <2>1. /\ queue' = queue /\ ledger' = ledger /\ pc' = pc /\ msg' = msg /\ crossed' = crossed
        /\ seen' = [seen EXCEPT ![o] = Len(queue)] /\ opc' = [opc EXCEPT ![o] = "reconcile"]
    BY <1>4 DEF G!Observes
  <2>2. /\ opc \in [Observers -> {"idle", "reconcile"}] /\ seen \in [Observers -> Nat]
        /\ Len(queue) \in Nat
    BY SteerNumbers
  <2>3. ReadsCover => ReadsCover'
    BY <2>1, <2>2 DEF ReadsCover
  <2> QED BY <1>b, <2>1, <2>3
          DEF Uncrossed, OneSubmits, LedgerHolds, CheckedFits, G!NeverOverBudget, G!Submitting
<1>5. ASSUME NEW o \in Observers, G!Reconciles(o) PROVE Goal
  <2>1. queue' = queue /\ crossed' = crossed
    BY <1>5 DEF G!Reconciles
  <2> QED BY <1>5, <1>b, <2>1, ObserverKeeps DEF G!NeverOverBudget
<1>6. ASSUME G!Boundary PROVE Goal
  BY <1>6, BoundaryKeeps DEF G!NeverOverBudget
<1>7. ASSUME G!Ends PROVE Goal
  BY <1>7, <1>b DEF G!Ends, Uncrossed, OneSubmits, LedgerHolds, CheckedFits, ReadsCover,
     G!NeverOverBudget, G!Submitting
<1>8. ASSUME UNCHANGED G!vars PROVE Goal
  BY <1>8, <1>b DEF G!vars, Uncrossed, OneSubmits, LedgerHolds, CheckedFits, ReadsCover,
     G!NeverOverBudget, G!Submitting
<1> HIDE DEF Goal
<1> QED BY <1>1, <1>2, <1>3, <1>4, <1>5, <1>6, <1>7, <1>8 DEF G!Next

\* Queue and ledger are empty at first.
LEMMA SteerInit ==
  ASSUME SteerAssumption, G!Init
  PROVE  SteerInv
<1>1. SteerBounded
  <2>1. queue \in Seq(G!Sizes) /\ ledger \in Seq(G!Sizes) /\ Len(queue) = 0
    BY DEF G!Init
  <2>2. 1 \in G!Sizes /\ 0 \in 0 .. Depth /\ 0 \in 0 .. MaxSubmits
    BY DEF SteerAssumption, G!Sizes
  <2>3. /\ msg \in [Submitters -> G!Sizes] /\ seen \in [Observers -> 0 .. Depth]
        /\ pc \in [Submitters -> {"idle", "engine", "record"}]
        /\ opc \in [Observers -> {"idle", "reconcile"}]
    BY <2>2 DEF G!Init
  <2>4. alive \in BOOLEAN /\ crossed \in BOOLEAN /\ told \in 0 .. Depth
        /\ submits \in 0 .. MaxSubmits
    BY <2>2 DEF G!Init
  <2> QED BY <2>1, <2>2, <2>3, <2>4 DEF SteerBounded, G!TypeOK
<1>2. Uncrossed /\ G!NeverOverBudget
  BY DEF G!Init, Uncrossed, OneSubmits, LedgerHolds, CheckedFits, ReadsCover,
     G!NeverOverBudget, G!Submitting, Newest
<1> QED BY <1>1, <1>2 DEF SteerInv

\* Between submits the ledger holds at least what is queued.
LEMMA SteerOvercounts ==
  ASSUME SteerInv
  PROVE  G!LedgerOvercounts
<1>1. queue \in Seq(Nat) /\ ledger \in Seq(Nat)
  BY SteerNumbers
<1> SUFFICES ASSUME G!Submitting = {}, ~crossed PROVE G!IsSuffix(queue, ledger)
  BY DEF G!LedgerOvercounts
<1>2. Newest(queue, ledger)
  BY DEF SteerInv, Uncrossed, LedgerHolds, G!Submitting
<1> QED BY <1>1, <1>2, NewestIsSuffix

(***************************************************************************)
(* The types, and the channel of steering messages never holds more than   *)
(* its depth, for any number of submitters and observers (host/steer.go).  *)
(***************************************************************************)
THEOREM SteeringIsBounded ==
  SteerAssumption /\ G!Spec => [](G!TypeOK /\ Len(queue) <= Depth)
<1> SUFFICES ASSUME SteerAssumption
             PROVE  G!Spec => [](G!TypeOK /\ Len(queue) <= Depth)
  OBVIOUS
<1>1. G!Init => SteerBounded
  BY SteerInit DEF SteerInv
<1>2. SteerBounded /\ [G!Next]_(G!vars) => SteerBounded'
  BY SteerTypes
<1>3. SteerBounded => G!TypeOK /\ Len(queue) <= Depth
  BY DEF SteerBounded
<1> QED BY <1>1, <1>2, <1>3, PTL DEF G!Spec

(***************************************************************************)
(* A step that takes messages out of the queue frees budget: no message    *)
(* that left goes on being charged once the ledger is reconciled           *)
(* (steer.go), for any number of submitters and observers.                 *)
(***************************************************************************)
THEOREM DrainFrees ==
  SteerAssumption /\ G!Spec => G!DrainFreesBudget
<1> SUFFICES ASSUME SteerAssumption PROVE G!Spec => G!DrainFreesBudget
  OBVIOUS
<1>1. G!Init => SteerBounded
  BY SteerInit DEF SteerInv
<1>2. SteerBounded /\ [G!Next]_(G!vars) => SteerBounded'
  BY SteerTypes
<1>3. SteerBounded /\ [G!Next]_(G!vars) => [G!FreesBudget]_(G!vars)
  BY SteerFrees
<1> QED BY <1>1, <1>2, <1>3, PTL DEF G!Spec, G!DrainFreesBudget

(***************************************************************************)
(* For any number of submitters and observers, every cap, depth and size   *)
(* of messages: the ledger holds at least what is queued, and the queue    *)
(* stays within the budget (SteerRun, observeSteerQueue), from an empty    *)
(* queue on until two calls of SteerRun overlap, or a message comes        *)
(* between an observer's read of the queue and its cut of the ledger.      *)
(***************************************************************************)
THEOREM BudgetHolds ==
  SteerAssumption /\ G!Spec => [](G!LedgerOvercounts /\ G!NeverOverBudget)
<1> SUFFICES ASSUME SteerAssumption
             PROVE  G!Spec => [](G!LedgerOvercounts /\ G!NeverOverBudget)
  OBVIOUS
<1>1. G!Init => SteerInv
  BY SteerInit
<1>2. SteerInv /\ [G!Next]_(G!vars) => SteerInv'
  BY SteerStep
<1>3. SteerInv => G!LedgerOvercounts /\ G!NeverOverBudget
  BY SteerOvercounts DEF SteerInv
<1> QED BY <1>1, <1>2, <1>3, PTL DEF G!Spec
=============================================================================
