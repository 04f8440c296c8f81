------------------------------- MODULE MCExec -------------------------------
(***************************************************************************)
(* The processes of one execd child whose callers give up, with liveness,   *)
(* and, beside them, that of the openers of a session store. They share no  *)
(* state here, so a behaviour is one of the two: part says which, the       *)
(* variables of ExecSessions or the slots v1, v2, ... carry its state.      *)
(***************************************************************************)
EXTENDS ExecSessions, TLC

CONSTANTS
  h1, h2, o1, o2, w, Nothing

VARIABLES part,
  v1, v2, v3, v4, v5, v6, v7, v8, v9, v10, v11, v12, v13, v14, v15, v16

slots == <<
  v1, v2, v3, v4, v5, v6, v7, v8, v9, v10, v11, v12, v13, v14, v15, v16>>
all == <<part, vars, slots>>

Stores == INSTANCE SessionStores WITH
  Roots <- {w}, Handles <- {h1, h2}, Openers <- {o1, o2}, Borrowers <- {},
  NoHandle <- Nothing, NoUser <- Nothing, Batch <- 1, Old <- 0,
  MaxId <- 0, pool <- v1, refs <- v2, openMu <- v3, live <- v4,
  root <- v5, archive <- v6, index <- v7, nextId <- v8, recorded <- v9,
  walk <- v10, last <- v11, upto <- v12, batch <- v13, pc <- v14,
  want <- v15, held <- v16

\* The slots a machine has no use for hold nothing.
Free ==
  /\ v1 = Nothing /\ v2 = Nothing /\ v3 = Nothing /\ v4 = Nothing
  /\ v5 = Nothing /\ v6 = Nothing /\ v7 = Nothing /\ v8 = Nothing
  /\ v9 = Nothing /\ v10 = Nothing /\ v11 = Nothing /\ v12 = Nothing
  /\ v13 = Nothing /\ v14 = Nothing /\ v15 = Nothing /\ v16 = Nothing

InitAll ==
  /\ Init
  /\ \/ part = "session" /\ Free
     \/ part = "stores" /\ Stores!Init

\* A step of one machine leaves the rest alone.
NextAll ==
  /\ part' = part
  /\ \/ part = "session" /\ Next /\ UNCHANGED slots
     \/ part = "stores" /\ Stores!Next /\ UNCHANGED vars

\* Each is scheduled as its module says.
InSession == part = "session" /\ UNCHANGED <<part, slots>>
InStores == part = "stores" /\ UNCHANGED <<part, vars>>
SpecAll ==
  /\ InitAll /\ [][NextAll]_all
  /\ WF_all(InSession /\ Progress)
  /\ \A o \in {o1, o2} : /\ WF_all(InStores /\ Stores!OpenStep(o))
                              /\ SF_all(InStores /\ Stores!LockOpen(o))

-----------------------------------------------------------------------------
(* Properties: those of the modules, each of the behaviours it is about.    *)
(* The openers are interchangeable: one is watched.                         *)

\* OpenReturns of SessionStores: nobody waits for the lock of the first opens for
\* ever (acquireStore, stores.go:107).
StoreOpens ==
  (part = "stores" /\ Stores!Waits(o1)) ~> (part = "stores" => ~Stores!Waits(o1))
=============================================================================
