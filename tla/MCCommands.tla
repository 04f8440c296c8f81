----------------------------- MODULE MCCommands -----------------------------
(***************************************************************************)
(* The processes of one execd child: two starts of one id, a call that uses *)
(* it and a close; beside them, the feed of the output. They share no state *)
(* here, so a behaviour is one of the two: part says which, the variables   *)
(* of ExecSessions or the slots v1, v2, ... carry its state. The two starts *)
(* are interchangeable.                                                     *)
(***************************************************************************)
EXTENDS ExecSessions, TLC

CONSTANTS
  Nothing

VARIABLES part,
  v1, v2, v3, v4, v5, v6, v7, v8, v9, v10, v11, v12, v13, v14

slots == <<
  v1, v2, v3, v4, v5, v6, v7, v8, v9, v10, v11, v12, v13, v14>>
all == <<part, vars, slots>>

Symmetry == Permutations(Starters)

Feed == INSTANCE ProcessFeed WITH
  Chunks <- 4, CanTrim <- TRUE, Nobody <- "nobody", written <- v1,
  trimmed <- v2, exited <- v3, closed <- v4, tail <- v5, cursor <- v6,
  stopped <- v7, cancelled <- v8, readMu <- v9, drain <- v10,
  drained <- v11, salvage <- v12, salvaged <- v13, ended <- v14

\* The slots a machine has no use for hold nothing.
Free ==
  /\ v1 = Nothing /\ v2 = Nothing /\ v3 = Nothing /\ v4 = Nothing
  /\ v5 = Nothing /\ v6 = Nothing /\ v7 = Nothing /\ v8 = Nothing
  /\ v9 = Nothing /\ v10 = Nothing /\ v11 = Nothing /\ v12 = Nothing
  /\ v13 = Nothing /\ v14 = Nothing

InitAll ==
  /\ Init
  /\ \/ part = "session" /\ Free
     \/ part = "feed" /\ Feed!Init

\* A step of one machine leaves the rest alone.
NextAll ==
  /\ part' = part
  /\ \/ part = "session" /\ Next /\ UNCHANGED slots
     \/ part = "feed" /\ Feed!Next /\ UNCHANGED vars

SpecAll == InitAll /\ [][NextAll]_all

-----------------------------------------------------------------------------
(* Properties: those of ExecSessions, and that of the feed.                 *)

\* ProcessFeed: the output of a command that has ended is in the feed when its handle
\* is closed, but for the end a failed read of the salvage lost, and the feed has no
\* hole (sandbox/processes.go).
OutputIsKept == part = "feed" => Feed!FeedTypeOK /\ Feed!ClosedIsComplete
=============================================================================
