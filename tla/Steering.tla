------------------------------- MODULE Steering -------------------------------
(***************************************************************************)
(* Messages a user hands to a turn that runs: the engine's queue of them   *)
(* and the Host's ledger of their sizes, which bounds what one boundary of *)
(* the turn may inject.                                                    *)
(*   source: internal/orchestration/host/steer.go                          *)
(* The queue belongs to the engine (external), which takes messages from   *)
(* its front at a boundary without telling the Host. A message is its      *)
(* size. Host.mu guards the ledger; the engine is called outside it.       *)
(***************************************************************************)
EXTENDS Naturals, Sequences, SequencesExt

CONSTANTS Submitters,   \* callers of SteerRun
          Observers,    \* stream deltas that observe the queue
          MaxSize,      \* the engine's bound for one message
          Cap,          \* maxSteerQueuedBytes
          Depth,        \* the engine's bound for the queue
          MaxSubmits    \* bound: calls of SteerRun

VARIABLES
  queue,     \* the messages the engine holds
  ledger,    \* runDetail.steerSizes
  alive,     \* the run is in Host.runs and its turn is open
  pc,        \* a submitter's step
  msg,       \* the message of its call
  opc, seen, \* an observer's step and what it read of the queue
  told,      \* the last number given to OnSteerPending
  submits,
  crossed    \* history: since the queue was last empty two calls of SteerRun
             \* overlapped, or a message came between an observer's read and cut

vars == <<queue, ledger, alive, pc, msg, opc, seen, told, submits, crossed>>

Sizes == 1 .. MaxSize
Total(sizes) == FoldLeft(LAMBDA a, b : a + b, 0, sizes)

Init ==
  /\ queue = << >> /\ ledger = << >> /\ alive = TRUE
  /\ pc = [s \in Submitters |-> "idle"] /\ msg = [s \in Submitters |-> 1]
  /\ opc = [o \in Observers |-> "idle"] /\ seen = [o \in Observers |-> 0]
  /\ told = 0 /\ submits = 0 /\ crossed = FALSE

\* reconcileSteerQueued: what is still queued are the newest entries.
Reconciled(sizes, queued) ==
  IF queued >= Len(sizes) THEN sizes
  ELSE SubSeq(sizes, Len(sizes) - queued + 1, Len(sizes))

\* A lone message is the engine's to judge; the cap is about the sum.
Fits(sizes, n) == sizes = << >> \/ Total(sizes) + n <= Cap

\* The calls of SteerRun between their check and their entry in the ledger.
Submitting == {s \in Submitters : pc[s] # "idle"}

(***************************************************************************)
(* SteerRun: under the lock the ledger is reconciled with the queue and    *)
(* the budget is checked; a refusal leaves the turn running.               *)
(***************************************************************************)
SteerChecks(s) ==
  /\ pc[s] = "idle" /\ alive /\ submits < MaxSubmits
  /\ submits' = submits + 1
  /\ ledger' = Reconciled(ledger, Len(queue))
  /\ \E n \in Sizes :
       /\ msg' = [msg EXCEPT ![s] = n]
       /\ pc' = [pc EXCEPT ![s] = IF Fits(ledger', n) THEN "engine" ELSE "idle"]
  /\ crossed' = (crossed \/ Submitting # {})
  /\ UNCHANGED <<queue, alive, opc, seen, told>>

\* turn.Steer: a closed turn and a full queue refuse.
SteerQueues(s) ==
  /\ pc[s] = "engine"
  /\ IF alive /\ Len(queue) < Depth
       THEN /\ queue' = Append(queue, msg[s])
            /\ pc' = [pc EXCEPT ![s] = "record"]
            /\ crossed' = (crossed \/ \E o \in Observers : opc[o] = "reconcile")
       ELSE pc' = [pc EXCEPT ![s] = "idle"] /\ UNCHANGED <<queue, crossed>>
  /\ UNCHANGED <<ledger, alive, msg, opc, seen, told, submits>>

\* The ledger records what the engine accepted.
SteerRecords(s) ==
  /\ pc[s] = "record"
  /\ ledger' = Append(ledger, msg[s])
  /\ pc' = [pc EXCEPT ![s] = "idle"]
  /\ UNCHANGED <<queue, alive, msg, opc, seen, told, submits, crossed>>

\* observeSteerQueue: with entries in the ledger, the queue is read unlocked,
Observes(o) ==
  /\ opc[o] = "idle" /\ alive /\ ledger # << >>
  /\ seen' = [seen EXCEPT ![o] = Len(queue)]
  /\ opc' = [opc EXCEPT ![o] = "reconcile"]
  /\ UNCHANGED <<queue, ledger, alive, pc, msg, told, submits, crossed>>

\* and the ledger is cut to what was read; the observer hears of a cut.
Reconciles(o) ==
  /\ opc[o] = "reconcile"
  /\ opc' = [opc EXCEPT ![o] = "idle"]
  /\ IF alive /\ seen[o] < Len(ledger)
       THEN ledger' = Reconciled(ledger, seen[o]) /\ told' = seen[o]
       ELSE UNCHANGED <<ledger, told>>
  /\ UNCHANGED <<queue, alive, pc, msg, seen, submits, crossed>>

\* A boundary of the turn takes the queue.
Boundary ==
  /\ alive /\ queue # << >>
  /\ \E n \in 1 .. Len(queue) : queue' = SubSeq(queue, n + 1, Len(queue))
  /\ crossed' = (crossed
                 /\ (queue' # << >> \/ \E s, t \in Submitting : s # t))
  /\ UNCHANGED <<ledger, alive, pc, msg, opc, seen, told, submits>>

\* The turn ends; what it holds was not delivered.
Ends ==
  /\ alive /\ alive' = FALSE
  /\ UNCHANGED <<queue, ledger, pc, msg, opc, seen, told, submits, crossed>>

Next ==
  \/ \E s \in Submitters : SteerChecks(s) \/ SteerQueues(s) \/ SteerRecords(s)
  \/ \E o \in Observers : Observes(o) \/ Reconciles(o)
  \/ Boundary \/ Ends

Spec == Init /\ [][Next]_vars

----------------------------------------------------------------------------
(* Properties. *)

TypeOK ==
  /\ queue \in Seq(Sizes) /\ ledger \in Seq(Sizes) /\ alive \in BOOLEAN
  /\ pc \in [Submitters -> {"idle", "engine", "record"}]
  /\ msg \in [Submitters -> Sizes]
  /\ opc \in [Observers -> {"idle", "reconcile"}] /\ seen \in [Observers -> 0 .. Depth]
  /\ told \in 0 .. Depth /\ submits \in 0 .. MaxSubmits
  /\ crossed \in BOOLEAN

(***************************************************************************)
(* "a stale ledger over-counts at worst" (steer.go:91), as far as the code *)
(* keeps it: between the calls of submitters, with the observer of the     *)
(* stream at work, the ledger holds at least what is queued, unless two    *)
(* calls crossed or a message came between the observer's read of the      *)
(* queue and its cut since the queue was last empty.                       *)
(***************************************************************************)
LedgerOvercounts == Submitting = {} /\ ~crossed => IsSuffix(queue, ledger)

(***************************************************************************)
(* "a boundary's drain frees the budget again right away" (steer.go:30):   *)
(* with nothing queued the Host refuses no message, whatever submits and   *)
(* observers left in the ledger.                                           *)
(***************************************************************************)
FreesBudget ==
  submits' # submits /\ queue = << >> =>
    \E s \in Submitters : pc[s] = "idle" /\ pc'[s] = "engine"
DrainFreesBudget == [][FreesBudget]_vars

(***************************************************************************)
(* "early, never over the budget. The one exception is two submits racing" *)
(* (steer.go:114): there are two exceptions, the other is a message that   *)
(* comes between the observer's read and its cut (steer.go:149). Without   *)
(* either the queue stays within the cap, and an empty queue ends both.    *)
(***************************************************************************)
NeverOverBudget == ~crossed /\ Len(queue) > 1 => Total(queue) <= Cap
==============================================================================
