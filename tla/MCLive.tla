------------------------------- MODULE MCLive -------------------------------
(***************************************************************************)
(* What must eventually happen, in one run: the pool of Hosts, and beside   *)
(* it the turns and deletions of a conversation and the processes of a      *)
(* plugin, which share no state here. A behaviour is one of the three: part *)
(* says which, the variables of HostPool or the slots v1, v2, ... carry its *)
(* state, and the rest stays as it was.                                     *)
(***************************************************************************)
EXTENDS HostPool

CONSTANTS s1, d1, d2, p1, p2, k1, k2, Note, Nothing

VARIABLES part,
  v1, v2, v3, v4, v5, v6, v7, v8, v9, v10, v11, v12, v13, v14, v15, v16,
  v17, v18, v19

beyond == <<v16, v17, v18, v19>>
slots == <<
  v1, v2, v3, v4, v5, v6, v7, v8, v9, v10, v11, v12, v13, v14, v15,
  beyond>>
all == <<part, vars, slots>>

Turns == INSTANCE Conversation WITH
  Starts <- {s1}, Polite <- {s1}, Askers <- {}, Impatient <- {s1},
  Deleters <- {d1, d2}, Note <- Note, NoStart <- Nothing, pc <- v1, fresh <- v2, gate <- v3, runs <-
  v4, turn <- v5, lease <- v6, bound <- v7, prompt <- v8, deleting <- v9,
  deleted <- v10, del <- v11, title <- v12, note <- v13, row <- v14, doc <-
  v15, dir <- v16, retired <- v17, archive <- v18, points <- v19

Plugins == INSTANCE Kraft WITH
  Procs <- {p1, p2}, NoProc <- Nothing, Callers <- {k1}, Stoppers <- {k2},
  Odd <- {p2}, table <- v1, shuttingDown <- v2, life <- v3, done <- v4, ready
  <- v5, hostStopped <- v6, watch <- v7, nextID <- v8, pending <- v9, wire
  <- v10, pc <- v11, proc <- v12, id <- v13, got <- v14, spc <- v15

\* The slots nobody uses.
NoBeyond ==
  /\ v16 = Nothing /\ v17 = Nothing /\ v18 = Nothing /\ v19 = Nothing
NoSlots ==
  /\ v1 = Nothing /\ v2 = Nothing /\ v3 = Nothing /\ v4 = Nothing
  /\ v5 = Nothing /\ v6 = Nothing /\ v7 = Nothing /\ v8 = Nothing
  /\ v9 = Nothing /\ v10 = Nothing /\ v11 = Nothing /\ v12 = Nothing
  /\ v13 = Nothing /\ v14 = Nothing /\ v15 = Nothing
  /\ NoBeyond

InitAll ==
  /\ Init
  /\ \/ part = "pool" /\ NoSlots
     \/ part = "turns" /\ Turns!Init
     \/ part = "plugins" /\ Plugins!Init /\ NoBeyond

\* A step of one machine leaves the rest alone.
InPool == part = "pool" /\ UNCHANGED <<part, slots>>
InTurns == part = "turns" /\ UNCHANGED <<part, vars>>
InPlugins == part = "plugins" /\ UNCHANGED <<part, vars, beyond>>

NextAll ==
  \/ InPool /\ Next
  \/ InTurns /\ Turns!Next
  \/ InPlugins /\ Plugins!Next

\* Each machine is scheduled as its own module says.
FairAll ==
  /\ \A p \in Procs : WF_all(InPool /\ ThreadStep(p))
  /\ WF_all(InPool /\ WatchStep)
  /\ \A h \in Hosts : WF_all(InPool /\ HostStep(h))
  /\ \A p \in Turners, h \in Hosts : WF_all(InPool /\ TitleEnds(p, h))
  /\ WF_all(InTurns /\ Turns!StartStep(s1)) /\ SF_all(InTurns /\ Turns!GateStep(s1))
  /\ WF_all(InTurns /\ Turns!StoppedTurnEnds(s1)) /\ WF_all(InTurns /\ Turns!SettleGoesOn(s1))
  /\ \A d \in {d1, d2} : WF_all(InTurns /\ Turns!DeleteStep(d))
  /\ \A c \in {k1, k2} : WF_all(InPlugins /\ Plugins!CallerStep(c))
  /\ \A p \in {p1, p2} : WF_all(InPlugins /\ Plugins!ProcessStep(p))
  /\ WF_all(InPlugins /\ Plugins!ShutdownStep)

LiveSpec == InitAll /\ [][NextAll]_all /\ FairAll

-----------------------------------------------------------------------------
(* Properties: those of the modules, each of the behaviours it is about.    *)
(* The deletions are interchangeable: one is watched.                       *)

\* DeletedTurnStops of Conversation: the turn of a deleted conversation is told to
\* stop (StartRun looks at the deletion again after the turn has started, run.go:407).
DeletedTurnStops ==
  (part = "turns" /\ Turns!RunsOn(s1)) ~> (part = "turns" => ~Turns!RunsOn(s1))

\* DeletionReturns of Conversation: DeleteConversation comes back without needing its
\* timeout (run.go:936).
DeletionReturns ==
  (part = "turns" /\ Turns!Waiting(d1)) ~> (part = "turns" => Turns!DeletionOver(d1))

\* LetsGo of Kraft: every Invoke, Stop and Cleanup that is not in a write its process
\* does not read goes on to its end, so does Shutdown unless a process that closed its
\* output lives on (p2 may), and a process that died does not stay in the table
\* (process.call, Manager.get, Manager.Shutdown, kraft.go:427-490, 651-695).
PluginsLetGo == (part = "plugins" /\ Plugins!Owes) ~> (part = "plugins" => ~Plugins!Owes)
=============================================================================
