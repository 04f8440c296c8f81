------------------------------ MODULE RunRecord ------------------------------
(***************************************************************************)
(* What the checkpoint journal promises its callers                        *)
(* (sessions/state/checkpoint_journal.go): a run has at most one record,   *)
(* a boundary replaces the whole of it and never goes back, a reader gets  *)
(* one boundary or nothing, and it "never learns whether it cost one row   *)
(* or many".                                                               *)
(***************************************************************************)
EXTENDS Naturals

CONSTANT Readers

VARIABLES record,   \* the boundary the run's record describes, 0 for none
          seen      \* what each reader got last

vars == <<record, seen>>

Init == record = 0 /\ seen = [r \in Readers |-> 0]

Stamp == record' \in Nat /\ record' > record /\ UNCHANGED seen
Drop == record' = 0 /\ UNCHANGED seen
Load(r) == seen' = [seen EXCEPT ![r] = record] /\ UNCHANGED record

Next == Stamp \/ Drop \/ \E r \in Readers : Load(r)

Spec == Init /\ [][Next]_vars
==============================================================================
