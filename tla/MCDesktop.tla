----------------------------- MODULE MCDesktop ------------------------------
(***************************************************************************)
(* The pool of Hosts and, beside it, the plugin registry, the kraft         *)
(* processes and the agents. They share no state here, so a behaviour is    *)
(* one of them: part says which, the variables of HostPool or the slots v1, *)
(* v2, ... carry its state. Hosts are interchangeable.                     *)
(***************************************************************************)
EXTENDS HostPool, TLC

CONSTANTS
  Nothing

VARIABLES part,
  v1, v2, v3, v4, v5, v6, v7, v8, v9, v10, v11, v12, v13, v14, v15, v16,
  v17, v18, v19, v20, v21, v22, v23, v24, v25, v26, v27, v28

past18 == <<v19, v20, v21, v22, v23, v24, v25, v26, v27, v28>>
past15 == <<v16, v17, v18, past18>>
past13 == <<v14, v15, past15>>
slots == <<
  v1, v2, v3, v4, v5, v6, v7, v8, v9, v10, v11, v12, v13, past13>>
all == <<part, vars, slots>>

Symmetry == Permutations(Hosts)

Others == INSTANCE HostPool WITH
  Hosts <- Hosts, Windows <- {}, Guests <- {"g1", "g2"},
  Reloaders <- Reloaders, Watcher <- Watcher, NoHost <- NoHost,
  NoProc <- NoProc, MaxAttempts <- 2, MaxCalls <- 1, MaxDoc <- 1,
  pooled <- v1, refs <- v2, configured <- v3, retiring <- v4,
  assembling <- v5, armed <- v6, doc <- v7, stage <- v8, stale <- v9,
  wired <- v10, cfg <- v11, runs <- v12, titles <- v13, late <- v14,
  pc <- v15, tgt <- v16, calls <- v17, attempts <- v18

Registry == INSTANCE PluginRegistry WITH
  Callers <- {"p1", "p2"}, Faces <- {"f1"}, NoOne <- Nothing,
  MaxVersion <- 3, MaxFails <- 1, MaxCrashes <- 1, dir <- v1,
  backup <- v2, pending <- v3, old <- v4, discard <- v5, enabled <- v6,
  rev <- v7, mu <- v8, pc <- v9, op <- v10, ver <- v11, owed <- v12,
  refreshMu <- v13, seen <- v14, passes <- v15, refreshRev <- v16,
  built <- v17, cacheRev <- v18, cacheAt <- v19, fpc <- v20, frev <- v21,
  got <- v22, published <- v23, swapped <- v24, snapshot <- v25,
  fails <- v26, crashes <- v27, astray <- v28

One == INSTANCE Kraft WITH
  Procs <- {"p1"}, NoProc <- Nothing, Callers <- {"k1", "k2"},
  Stoppers <- {"h1"}, Odd <- {}, table <- v1, shuttingDown <- v2,
  life <- v3, done <- v4, ready <- v5, hostStopped <- v6, watch <- v7,
  nextID <- v8, pending <- v9, wire <- v10, pc <- v11, proc <- v12,
  id <- v13, got <- v14, spc <- v15

Two == INSTANCE Kraft WITH
  Procs <- {"p1", "p2"}, NoProc <- Nothing, Callers <- {"k1"},
  Stoppers <- {"h1"}, Odd <- {"p1"}, table <- v1, shuttingDown <- v2,
  life <- v3, done <- v4, ready <- v5, hostStopped <- v6, watch <- v7,
  nextID <- v8, pending <- v9, wire <- v10, pc <- v11, proc <- v12,
  id <- v13, got <- v14, spc <- v15

Shared == INSTANCE Kraft WITH
  Procs <- {"p1", "p2"}, NoProc <- Nothing, Callers <- {"k1", "k2"},
  Stoppers <- {}, Odd <- {}, table <- v1, shuttingDown <- v2, life <- v3,
  done <- v4, ready <- v5, hostStopped <- v6, watch <- v7, nextID <- v8,
  pending <- v9, wire <- v10, pc <- v11, proc <- v12, id <- v13,
  got <- v14, spc <- v15

Agents == INSTANCE AgentLifecycle WITH
  Calls <- 1 .. 3, MaxVersion <- 3, MaxFails <- 1, MaxRestarts <- 2,
  disk <- v1, live <- v2, known <- v3, pc <- v4, ver <- v5, old <- v6,
  load <- v7, loaded <- v8, next <- v9, leftover <- v10, overlap <- v11,
  fails <- v12, restarts <- v13

\* The slots a machine has no use for hold nothing.
Free18 ==
  /\ v19 = Nothing /\ v20 = Nothing /\ v21 = Nothing /\ v22 = Nothing
  /\ v23 = Nothing /\ v24 = Nothing /\ v25 = Nothing /\ v26 = Nothing
  /\ v27 = Nothing /\ v28 = Nothing
Free15 ==
  /\ v16 = Nothing /\ v17 = Nothing /\ v18 = Nothing /\ Free18
Free13 ==
  /\ v14 = Nothing /\ v15 = Nothing /\ Free15
Free ==
  /\ v1 = Nothing /\ v2 = Nothing /\ v3 = Nothing /\ v4 = Nothing
  /\ v5 = Nothing /\ v6 = Nothing /\ v7 = Nothing /\ v8 = Nothing
  /\ v9 = Nothing /\ v10 = Nothing /\ v11 = Nothing /\ v12 = Nothing
  /\ v13 = Nothing /\ Free13

InitAll ==
  /\ Init
  /\ \/ part = "hosts" /\ Free
     \/ part = "guests" /\ Others!Init /\ Free18
     \/ part = "registry" /\ Registry!Init
     \/ part = "one" /\ One!Init /\ Free15
     \/ part = "next" /\ Two!Init /\ Free15
     \/ part = "shared" /\ Shared!Init /\ Free15
     \/ part = "agents" /\ Agents!Init /\ Free13

\* A step of one machine leaves the rest alone.
NextAll ==
  /\ part' = part
  /\ \/ part = "hosts" /\ Next /\ UNCHANGED slots
     \/ part = "guests" /\ Others!Next /\ UNCHANGED <<vars, past18>>
     \/ part = "registry" /\ Registry!Next /\ UNCHANGED vars
     \/ part = "one" /\ One!Next /\ UNCHANGED <<vars, past15>>
     \/ part = "next" /\ Two!Next /\ UNCHANGED <<vars, past15>>
     \/ part = "shared" /\ Shared!Next /\ UNCHANGED <<vars, past15>>
     \/ part = "agents" /\ Agents!Next /\ UNCHANGED <<vars, past13>>

SpecAll == InitAll /\ [][NextAll]_all

-----------------------------------------------------------------------------
(* Properties: those of the modules, each of the behaviours it is about.    *)

\* GuestKeepsHost, with a window and a guest and with two guests (Manager.Acquire,
\* Host.Close): a Host leaves under a guest only when it was invalidated.
GuestsKeepHost == GuestKeepsHost /\ (part = "guests" => Others!GuestKeepsHost)

\* PluginRegistry and Kraft: a plugin is whole on disk through failures and deaths,
\* its revision covers what changed, and its process answers its own calls and is
\* never out of reach (plugins/plugin.go, kraft/kraft.go, core/plugin_refresh.go).
PluginsAreWhole ==
  /\ part = "registry" =>
       /\ Registry!RegistryTypeOK /\ Registry!SwapIsNewer /\ Registry!RollbackKept
       /\ Registry!SomeCopySurvives /\ Registry!RevisionCovers
       /\ Registry!FreshRead /\ Registry!CallerIsCovered
  /\ part = "one" =>
       One!KraftTypeOK /\ One!AnswerIsMine /\ One!NoStray /\ One!ShutdownIsFinal
  /\ part = "next" =>
       Two!KraftTypeOK /\ Two!AnswerIsMine /\ Two!NoStray /\ Two!ShutdownIsFinal
  /\ part = "shared" =>
       /\ Shared!KraftTypeOK /\ Shared!AnswerIsMine
       /\ Shared!NoStray /\ Shared!ShutdownIsFinal

\* AgentLifecycle: calls that run alone leave the runtime and the declarations of the
\* agents in agreement, a failed step included; after a start or a reload that could not
\* register a declaration nothing runs in its place (agents/lifecycle.go).
AgentsConsistent == part = "agents" => Agents!AgentTypeOK /\ Agents!AloneIsConsistent
=============================================================================
