----------------------------- MODULE MCServices -----------------------------
(***************************************************************************)
(* The pool of execd children and, beside it, the automations and their     *)
(* schedules. They share no state here, so a behaviour is one of them: part *)
(* says which, the variables of ExecPool or the slots v1, v2, ... carry its *)
(* state. The runners r1, r2 and the runs of an automation are             *)
(* interchangeable, and so are the children; no other machine knows them.   *)
(***************************************************************************)
EXTENDS ExecPool, TLC

CONSTANTS
  r1, r2, c1, c2, c3, Absent

VARIABLES part,
  v1, v2, v3, v4, v5, v6, v7, v8, v9, v10, v11, v12, v13, v14, v15, v16,
  v17, v18, v19, v20, v21

past5 == <<v6, v7, v8, v9, v10, v11, v12, v13, v14, v15, v16, v17, v18, v19, v20, v21>>
slots == <<
  v1, v2, v3, v4, v5, past5>>
all == <<part, vars, slots>>

\* The settings the pool may be given and the schedules that are saved.
Small == [prewarm |-> 1, maxIdle |-> 1, maxActive |-> 1]
Large == [prewarm |-> 1, maxIdle |-> 2, maxActive |-> 2]
SmallAndLarge == {Small, Large}
Unset == -1
Saved ==
       [type : {"hourly"}, every : {3, 14}, days : {{}, {0, 2}}, at : {0}, origin : {Unset}]
  \cup [type : {"daily", "weekdays"}, every : {0}, days : {{}}, at : {1}, origin : {Unset}]
  \cup [type : {"weekly"}, every : {0, 2, 5}, days : {{1, 6}}, at : {1}, origin : {Unset, 16}]
Symmetry == Permutations({r1, r2}) \cup Permutations(Children)

Manual == INSTANCE Automations WITH
  Tasks <- {"t1", "t2"}, NoTask <- Absent, Runs <- {r1, r2},
  Scheduled <- {}, Limit <- 1, MaxOcc <- 1, MaxEdits <- 0,
  MaxCrashes <- 1, row <- v1, occ <- v2, next <- v3, record <- v4,
  pending <- v5, pendingSet <- v6, running <- v7, mgr <- v8, active <- v9,
  canceled <- v10, tick <- v11, todo <- v12, at <- v13, asked <- v14,
  pc <- v15, rtask <- v16, rocc <- v17, ctx <- v18, res <- v19,
  edits <- v20, crashes <- v21

Moved == INSTANCE Automations WITH
  Tasks <- {"t1"}, NoTask <- Absent, Runs <- {r1, r2},
  Scheduled <- {"t1"}, Limit <- 1, MaxOcc <- 2, MaxEdits <- 0,
  MaxCrashes <- 0, row <- v1, occ <- v2, next <- v3, record <- v4,
  pending <- v5, pendingSet <- v6, running <- v7, mgr <- v8, active <- v9,
  canceled <- v10, tick <- v11, todo <- v12, at <- v13, asked <- v14,
  pc <- v15, rtask <- v16, rocc <- v17, ctx <- v18, res <- v19,
  edits <- v20, crashes <- v21

Saves == INSTANCE Automations WITH
  Tasks <- {"t1"}, NoTask <- Absent, Runs <- {"run"},
  Scheduled <- {"t1"}, Limit <- 1, MaxOcc <- 2, MaxEdits <- 2,
  MaxCrashes <- 1, row <- v1, occ <- v2, next <- v3, record <- v4,
  pending <- v5, pendingSet <- v6, running <- v7, mgr <- v8, active <- v9,
  canceled <- v10, tick <- v11, todo <- v12, at <- v13, asked <- v14,
  pc <- v15, rtask <- v16, rocc <- v17, ctx <- v18, res <- v19,
  edits <- v20, crashes <- v21

Times == INSTANCE Schedules WITH
  DayLen <- 2, Lookahead <- 44, Inputs <- Saved, Horizon <- 36,
  MaxSaves <- 1, now <- v1, sched <- v2, nextRun <- v3, since <- v4,
  saves <- v5

\* The slots a machine has no use for hold nothing.
Free5 ==
  /\ v6 = Absent /\ v7 = Absent /\ v8 = Absent /\ v9 = Absent
  /\ v10 = Absent /\ v11 = Absent /\ v12 = Absent /\ v13 = Absent
  /\ v14 = Absent /\ v15 = Absent /\ v16 = Absent /\ v17 = Absent
  /\ v18 = Absent /\ v19 = Absent /\ v20 = Absent /\ v21 = Absent
Free ==
  /\ v1 = Absent /\ v2 = Absent /\ v3 = Absent /\ v4 = Absent
  /\ v5 = Absent /\ Free5

InitAll ==
  /\ Init
  /\ \/ part = "pool" /\ Free
     \/ part = "manual" /\ Manual!Init
     \/ part = "moved" /\ Moved!Init
     \/ part = "saves" /\ Saves!Init
     \/ part = "times" /\ Times!Init /\ Free5

\* A step of one machine leaves the rest alone.
NextAll ==
  /\ part' = part
  /\ \/ part = "pool" /\ Next /\ UNCHANGED slots
     \/ part = "manual" /\ Manual!Next /\ UNCHANGED vars
     \/ part = "moved" /\ Moved!Next /\ UNCHANGED vars
     \/ part = "saves" /\ Saves!Next /\ UNCHANGED vars
     \/ part = "times" /\ Times!Next /\ UNCHANGED <<vars, past5>>

SpecAll == InitAll /\ [][NextAll]_all

-----------------------------------------------------------------------------
(* Properties: ChildrenAccounted of ExecPool, and those of the other        *)
(* machines, each of the behaviours it is about.                            *)

\* Automations and Schedules: each occurrence is queued once, at a time its schedule
\* promises, and what became of it is recorded once, across stops, edits and restarts
\* (automations/manager.go, store.go, recurrence.go).
AutomationsKeepTime ==
  /\ [](part = "manual" =>
          /\ Manual!TypeOK /\ Manual!OncePerOccurrence
          /\ Manual!QueueIsServed /\ Manual!NoStaleRunning)
  /\ [](part = "moved" =>
          /\ Moved!TypeOK /\ Moved!OncePerOccurrence
          /\ Moved!QueueIsServed /\ Moved!NoStaleRunning)
  /\ [](part = "saves" =>
          /\ Saves!TypeOK /\ Saves!OncePerOccurrence
          /\ Saves!QueueIsServed /\ Saves!NoStaleRunning)
  /\ [](part = "times" => Times!NextIsFirst)
  /\ [][part = "manual" => Manual!NeverReopens]_all
  /\ [][part = "moved" => Moved!NeverReopens]_all
  /\ [][part = "saves" => Saves!NeverReopens]_all
  /\ [][part = "times" => Times!PhaseKept]_all
=============================================================================
