---------------------------- MODULE DesktopProofs ----------------------------
(***************************************************************************)
(* What the machines on the desktop's side promise, for every value of     *)
(* their constants: the processes of a plugin (Kraft), the registry they   *)
(* come from (PluginRegistry), the questions of a turn (Prompts), the      *)
(* post-turn review (ReviewQueue), a declared subagent (AgentLifecycle)    *)
(* and the feed of a process (ProcessFeed).                                *)
(*                                                                         *)
(* The modules are instances over one list of names, shared where two of   *)
(* them use the same one: a theorem speaks of one instance only, and of    *)
(* the constants and variables that one has.                               *)
(***************************************************************************)
EXTENDS Naturals, FiniteSets, Sequences, FiniteSetTheorems, SequenceTheorems,
        TLAPS

CONSTANTS Procs, NoProc, Callers, Stoppers, Odd, Faces, NoOne, MaxVersion,
          MaxFails, MaxCrashes, Prompts, Clicks, Convs, Texts, Pages, Revivers,
          NoRow, NoText, EveryTurns, MaxSuggestions, MaxItems, KnownLimit, MaxTurns,
          Calls, MaxRestarts, Chunks, CanTrim, Nobody

VARIABLES
  table, shuttingDown, life, done, ready, hostStopped, watch, nextID, pending,
  wire, pc, proc, id, got, spc,
  dir, backup, old, discard, enabled, rev, mu, op, ver, owed, refreshMu, seen,
  passes, refreshRev, built, cacheRev, cacheAt, fpc, frev, published, swapped,
  snapshot, astray, fails, crashes,
  turn, state, announced, ask, reply, ch, taken, reasons, window, dropped,
  clicks, closed,
  turns, counted, at, known, cands, queued, rows, live, stale, ppc, prow, rpc,
  rtext, rflag, applied, missed, overtaken,
  disk, load, loaded, next, leftover, overlap, restarts,
  written, trimmed, exited, tail, cursor, stopped, cancelled, readMu, drain,
  drained, salvage, salvaged, ended

K == INSTANCE Kraft
R == INSTANCE PluginRegistry
P == INSTANCE Prompts
Q == INSTANCE ReviewQueue
A == INSTANCE AgentLifecycle
F == INSTANCE ProcessFeed

-----------------------------------------------------------------------------
(* Kraft: the process of one plugin. *)

\* The null value and the steps of Shutdown are no processes.
KraftNames ==
    /\ NoProc \notin Procs
    /\ {"idle", "wait", "returned"} \cap (Procs \cup {NoProc}) = {}

\* Which functions the state is made of, and what a caller's step tells.
KraftShape ==
    /\ life \in [Procs -> {"unborn", "running", "dead"}]
    /\ watch \in [Procs -> {"none", "waiting", "handler", "over"}]
    /\ nextID \in [Procs -> Nat \ {0}]
    /\ pending \in [Procs -> SUBSET (Nat \X K!Actors)]
    /\ wire \in [Procs -> SUBSET (Nat \X K!Actors)]
    /\ pc \in [K!Actors -> {"idle", "handshake", "call", "write", "wait", "stop", "kill",
                            "ok", "failed"}]
    /\ proc \in [K!Actors -> Procs \cup {NoProc}]
    /\ id \in [K!Actors -> Nat]
    /\ got \in [K!Actors -> SUBSET K!Actors]
    /\ done \subseteq Procs /\ ready \subseteq Procs /\ hostStopped \subseteq Procs
    /\ table \in Procs \cup {NoProc}
    /\ spc \in {"idle", "wait", "returned", NoProc} \cup Procs
    /\ shuttingDown \in BOOLEAN
Calling == {"handshake", "call", "write", "wait", "kill"}
KraftHolds == \A c \in K!Actors : pc[c] \in Calling => proc[c] \in Procs

\* A process is watched from its start; the watcher goes on when it is dead.
KraftWatch ==
    /\ \A p \in Procs : /\ watch[p] = "none" <=> life[p] = "unborn"
                        /\ watch[p] \in {"handler", "over"} => life[p] = "dead"
    /\ done \cup ready \cup hostStopped \subseteq {p \in Procs : life[p] # "unborn"}
    /\ table \in Procs => life[table] # "unborn"
    /\ spc \in Procs => life[spc] # "unborn"
    /\ \A c \in K!Actors : pc[c] \in Calling => life[proc[c]] # "unborn"

\* A number names one request: it is below nextID, an entry and a request with one
\* number are of one caller, and so are the numbers of the calls about to be written.
NumbersBelow ==
    \A p \in Procs : \A r \in pending[p] \cup wire[p] : r[1] \in 1 .. nextID[p] - 1
RequestsMatch ==
    \A p \in Procs : \A r \in pending[p], w \in wire[p] : r[1] = w[1] => r[2] = w[2]
WritersOwn ==
    \A c \in K!Actors : pc[c] = "write" =>
        /\ id[c] \in 1 .. nextID[proc[c]] - 1
        /\ \A r \in pending[proc[c]] \cup wire[proc[c]] : r[1] = id[c] => r[2] = c
WritersApart ==
    \A c, d \in K!Actors :
        pc[c] = "write" /\ pc[d] = "write" /\ proc[c] = proc[d] /\ id[c] = id[d] => c = d
KraftNumbers == NumbersBelow /\ RequestsMatch /\ WritersOwn /\ WritersApart

\* Once Shutdown took the process nothing starts, and it returns when all watchers have.
KraftClosed ==
    /\ spc # "idle" => shuttingDown
    /\ spc = "returned" => \A p \in Procs : watch[p] \in {"none", "over"}

KraftInv ==
    /\ KraftShape /\ KraftHolds /\ KraftWatch /\ KraftNumbers /\ K!AnswerIsMine
    /\ K!NoStray /\ KraftClosed

\* Every action keeps the shape of the state, and a caller in a call has a process.
LEMMA KraftShapeStep ==
  ASSUME KraftNames, KraftShape, KraftHolds, K!Next
  PROVE  KraftShape' /\ KraftHolds'
<1>1. ASSUME NEW c \in K!Actors, K!Get(c) PROVE KraftShape' /\ KraftHolds'
  BY <1>1 DEF K!Get, K!Start, K!Go, K!procVars, K!rpcVars, K!callVars, KraftNames,
     KraftShape, KraftHolds, Calling, K!Actors
<1>2. ASSUME NEW c \in K!Actors, K!CleanupBegins(c) PROVE KraftShape' /\ KraftHolds'
  BY <1>2 DEF K!CleanupBegins, K!Go, K!procVars, K!rpcVars, K!callVars, KraftNames,
     KraftShape, KraftHolds, Calling, K!Actors
<1>3. ASSUME NEW c \in K!Actors, K!StopTakes(c) PROVE KraftShape' /\ KraftHolds'
  BY <1>3 DEF K!StopTakes, K!Go, K!procVars, K!rpcVars, K!callVars, KraftNames,
     KraftShape, KraftHolds, Calling, K!Actors
<1>4. ASSUME NEW c \in K!Actors, K!Handshaken(c) PROVE KraftShape' /\ KraftHolds'
  BY <1>4 DEF K!Handshaken, K!Go, K!Stop, K!Kill, K!procVars, K!rpcVars, K!callVars,
     KraftNames, KraftShape, KraftHolds, Calling, K!Actors
<1>5. ASSUME NEW c \in K!Actors, K!CallRegisters(c) PROVE KraftShape' /\ KraftHolds'
  BY <1>5 DEF K!CallRegisters, K!Registers, K!Go, K!procVars, K!rpcVars, K!callVars,
     KraftNames, KraftShape, KraftHolds, Calling, K!Actors
<1>6. ASSUME NEW c \in K!Actors, K!CallRefused(c) PROVE KraftShape' /\ KraftHolds'
  BY <1>6 DEF K!CallRefused, K!Ends, K!Go, K!procVars, K!rpcVars, K!callVars,
     KraftNames, KraftShape, KraftHolds, Calling, K!Actors
<1>7. ASSUME NEW c \in K!Actors, K!Writes(c) PROVE KraftShape' /\ KraftHolds'
  BY <1>7 DEF K!Writes, K!Drop, K!Ends, K!Go, K!procVars, K!rpcVars, K!callVars,
     KraftNames, KraftShape, KraftHolds, Calling, K!Actors
<1>8. ASSUME NEW c \in K!Actors, K!Answered(c) PROVE KraftShape' /\ KraftHolds'
  BY <1>8 DEF K!Answered, K!Ends, K!Go, K!procVars, K!rpcVars, K!callVars, KraftNames,
     KraftShape, KraftHolds, Calling, K!Actors
<1>9. ASSUME NEW c \in K!Actors, K!GivesUp(c) PROVE KraftShape' /\ KraftHolds'
  BY <1>9 DEF K!GivesUp, K!Drop, K!Ends, K!Go, K!procVars, K!rpcVars, K!callVars,
     KraftNames, KraftShape, KraftHolds, Calling, K!Actors
<1>10. ASSUME NEW c \in K!Actors, K!StopKills(c) PROVE KraftShape' /\ KraftHolds'
  BY <1>10 DEF K!StopKills, K!Stop, K!Kill, K!Go, K!procVars, K!rpcVars, K!callVars,
     KraftNames, KraftShape, KraftHolds, Calling, K!Actors
<1>11. ASSUME NEW p \in Procs, K!ReadHandshake(p) PROVE KraftShape' /\ KraftHolds'
  BY <1>11 DEF K!ReadHandshake, K!Reads, K!Stop, K!Kill, K!procVars, K!rpcVars,
     K!callVars, KraftNames, KraftShape, KraftHolds, Calling, K!Actors
<1>12. ASSUME NEW p \in Procs, K!ReadResponse(p) PROVE KraftShape' /\ KraftHolds'
  BY <1>12 DEF K!ReadResponse, K!Reads, K!procVars, K!rpcVars, K!callVars, KraftNames,
     KraftShape, KraftHolds, Calling, K!Actors
<1>13. ASSUME NEW p \in Procs, K!ReadFails(p) PROVE KraftShape' /\ KraftHolds'
  BY <1>13 DEF K!ReadFails, K!Reads, K!Stop, K!Kill, K!procVars, K!rpcVars, K!callVars,
     KraftNames, KraftShape, KraftHolds, Calling, K!Actors
<1>14. ASSUME NEW p \in Procs, K!ReadEnds(p) PROVE KraftShape' /\ KraftHolds'
  BY <1>14 DEF K!ReadEnds, K!Reads, K!procVars, K!rpcVars, K!callVars, KraftNames,
     KraftShape, KraftHolds, Calling, K!Actors
<1>15. ASSUME NEW p \in Procs, K!Dies(p) PROVE KraftShape' /\ KraftHolds'
  BY <1>15 DEF K!Dies, K!procVars, K!rpcVars, K!callVars, KraftNames, KraftShape,
     KraftHolds, Calling, K!Actors
<1>16. ASSUME NEW p \in Procs, K!WatcherReaps(p) PROVE KraftShape' /\ KraftHolds'
  BY <1>16 DEF K!WatcherReaps, K!procVars, K!rpcVars, K!callVars, KraftNames,
     KraftShape, KraftHolds, Calling, K!Actors
<1>17. ASSUME NEW p \in Procs, K!HandlerReturns(p) PROVE KraftShape' /\ KraftHolds'
  BY <1>17 DEF K!HandlerReturns, K!procVars, K!rpcVars, K!callVars, KraftNames,
     KraftShape, KraftHolds, Calling, K!Actors
<1>18. CASE K!ShutdownTakes
  BY <1>18 DEF K!ShutdownTakes, K!procVars, K!rpcVars, K!callVars, KraftNames,
     KraftShape, KraftHolds, Calling, K!Actors
<1>19. CASE K!ShutdownKills
  <2>1. UNCHANGED <<table, shuttingDown, done, ready, watch, nextID, pending, wire, pc, proc,
                    id, got>> /\ spc' = "wait"
    BY <1>19 DEF K!ShutdownKills, K!rpcVars, K!callVars
  <2>2. CASE UNCHANGED <<hostStopped, life>>
    BY <2>1, <2>2 DEF KraftNames, KraftShape, KraftHolds, Calling, K!Actors
  <2>3. CASE /\ spc \in Procs /\ hostStopped' = hostStopped \cup {spc}
             /\ life' = [life EXCEPT ![spc] = "dead"]
    <3>1. /\ life' \in [Procs -> {"unborn", "running", "dead"}]
          /\ hostStopped' \subseteq Procs
      BY <2>3 DEF KraftShape
    <3> QED BY <2>1, <2>3, <3>1 DEF KraftNames, KraftShape, KraftHolds, Calling, K!Actors
  <2> QED BY <1>19, <2>2, <2>3 DEF K!ShutdownKills, K!Stop, K!Kill
<1>20. CASE K!ShutdownReturned
  BY <1>20 DEF K!ShutdownReturned, K!procVars, K!rpcVars, K!callVars, KraftNames,
     KraftShape, KraftHolds, Calling, K!Actors
<1> QED BY <1>1, <1>2, <1>3, <1>4, <1>5, <1>6, <1>7, <1>8, <1>9, <1>10, <1>11, <1>12,
   <1>13, <1>14, <1>15, <1>16, <1>17, <1>18, <1>19, <1>20 DEF K!Next, K!CallerStep

\* A process is watched from its start until it is dead.
LEMMA KraftWatchStep ==
  ASSUME KraftNames, KraftShape, KraftHolds, KraftWatch, K!Next
  PROVE  KraftWatch'
<1>1. ASSUME NEW c \in K!Actors, K!Get(c) PROVE KraftWatch'
  BY <1>1 DEF K!Get, K!Start, K!Go, K!procVars, K!rpcVars, K!callVars, KraftNames,
     KraftShape, KraftHolds, KraftWatch, Calling
<1>2. ASSUME NEW c \in K!Actors, K!CleanupBegins(c) PROVE KraftWatch'
  BY <1>2 DEF K!CleanupBegins, K!Go, K!procVars, K!rpcVars, K!callVars, KraftNames,
     KraftShape, KraftHolds, KraftWatch, Calling
<1>3. ASSUME NEW c \in K!Actors, K!StopTakes(c) PROVE KraftWatch'
  BY <1>3 DEF K!StopTakes, K!Go, K!procVars, K!rpcVars, K!callVars, KraftNames,
     KraftShape, KraftHolds, KraftWatch, Calling
<1>4. ASSUME NEW c \in K!Actors, K!Handshaken(c) PROVE KraftWatch'
  BY <1>4 DEF K!Handshaken, K!Go, K!Stop, K!Kill, K!procVars, K!rpcVars, K!callVars,
     KraftNames, KraftShape, KraftHolds, KraftWatch, Calling
<1>5. ASSUME NEW c \in K!Actors, K!CallRegisters(c) PROVE KraftWatch'
  BY <1>5 DEF K!CallRegisters, K!Registers, K!Go, K!procVars, K!rpcVars, K!callVars,
     KraftNames, KraftShape, KraftHolds, KraftWatch, Calling
<1>6. ASSUME NEW c \in K!Actors, K!CallRefused(c) PROVE KraftWatch'
  BY <1>6 DEF K!CallRefused, K!Ends, K!Go, K!procVars, K!rpcVars, K!callVars,
     KraftNames, KraftShape, KraftHolds, KraftWatch, Calling
<1>7. ASSUME NEW c \in K!Actors, K!Writes(c) PROVE KraftWatch'
  BY <1>7 DEF K!Writes, K!Drop, K!Ends, K!Go, K!procVars, K!rpcVars, K!callVars,
     KraftNames, KraftShape, KraftHolds, KraftWatch, Calling
<1>8. ASSUME NEW c \in K!Actors, K!Answered(c) PROVE KraftWatch'
  BY <1>8 DEF K!Answered, K!Ends, K!Go, K!procVars, K!rpcVars, K!callVars, KraftNames,
     KraftShape, KraftHolds, KraftWatch, Calling
<1>9. ASSUME NEW c \in K!Actors, K!GivesUp(c) PROVE KraftWatch'
  BY <1>9 DEF K!GivesUp, K!Drop, K!Ends, K!Go, K!procVars, K!rpcVars, K!callVars,
     KraftNames, KraftShape, KraftHolds, KraftWatch, Calling
<1>10. ASSUME NEW c \in K!Actors, K!StopKills(c) PROVE KraftWatch'
  BY <1>10 DEF K!StopKills, K!Stop, K!Kill, K!Go, K!procVars, K!rpcVars, K!callVars,
     KraftNames, KraftShape, KraftHolds, KraftWatch, Calling
<1>11. ASSUME NEW p \in Procs, K!ReadHandshake(p) PROVE KraftWatch'
  BY <1>11 DEF K!ReadHandshake, K!Reads, K!Stop, K!Kill, K!procVars, K!rpcVars,
     K!callVars, KraftNames, KraftShape, KraftHolds, KraftWatch, Calling
<1>12. ASSUME NEW p \in Procs, K!ReadResponse(p) PROVE KraftWatch'
  BY <1>12 DEF K!ReadResponse, K!Reads, K!procVars, K!rpcVars, K!callVars, KraftNames,
     KraftShape, KraftHolds, KraftWatch, Calling
<1>13. ASSUME NEW p \in Procs, K!ReadFails(p) PROVE KraftWatch'
  BY <1>13 DEF K!ReadFails, K!Reads, K!Stop, K!Kill, K!procVars, K!rpcVars, K!callVars,
     KraftNames, KraftShape, KraftHolds, KraftWatch, Calling
<1>14. ASSUME NEW p \in Procs, K!ReadEnds(p) PROVE KraftWatch'
  BY <1>14 DEF K!ReadEnds, K!Reads, K!procVars, K!rpcVars, K!callVars, KraftNames,
     KraftShape, KraftHolds, KraftWatch, Calling
<1>15. ASSUME NEW p \in Procs, K!Dies(p) PROVE KraftWatch'
  BY <1>15 DEF K!Dies, K!procVars, K!rpcVars, K!callVars, KraftNames, KraftShape,
     KraftHolds, KraftWatch, Calling
<1>16. ASSUME NEW p \in Procs, K!WatcherReaps(p) PROVE KraftWatch'
  BY <1>16 DEF K!WatcherReaps, K!procVars, K!rpcVars, K!callVars, KraftNames,
     KraftShape, KraftHolds, KraftWatch, Calling
<1>17. ASSUME NEW p \in Procs, K!HandlerReturns(p) PROVE KraftWatch'
  BY <1>17 DEF K!HandlerReturns, K!procVars, K!rpcVars, K!callVars, KraftNames,
     KraftShape, KraftHolds, KraftWatch, Calling
<1>18. CASE K!ShutdownTakes
  BY <1>18 DEF K!ShutdownTakes, K!procVars, K!rpcVars, K!callVars, KraftNames,
     KraftShape, KraftHolds, KraftWatch, Calling
<1>19. CASE K!ShutdownKills
  <2>1. UNCHANGED <<table, shuttingDown, done, ready, watch, nextID, pending, wire, pc, proc,
                    id, got>> /\ spc' = "wait"
    BY <1>19 DEF K!ShutdownKills, K!rpcVars, K!callVars
  <2>2. CASE UNCHANGED <<hostStopped, life>>
    BY <2>1, <2>2 DEF KraftNames, KraftShape, KraftHolds, KraftWatch, Calling
  <2>3. CASE /\ spc \in Procs /\ hostStopped' = hostStopped \cup {spc}
             /\ life' = [life EXCEPT ![spc] = "dead"]
    <3>1. /\ life' \in [Procs -> {"unborn", "running", "dead"}]
          /\ hostStopped' \subseteq Procs
      BY <2>3 DEF KraftShape
    <3> QED BY <2>1, <2>3, <3>1 DEF KraftNames, KraftShape, KraftHolds, KraftWatch, Calling
  <2> QED BY <1>19, <2>2, <2>3 DEF K!ShutdownKills, K!Stop, K!Kill
<1>20. CASE K!ShutdownReturned
  BY <1>20 DEF K!ShutdownReturned, K!procVars, K!rpcVars, K!callVars, KraftNames,
     KraftShape, KraftHolds, KraftWatch, Calling
<1> QED BY <1>1, <1>2, <1>3, <1>4, <1>5, <1>6, <1>7, <1>8, <1>9, <1>10, <1>11, <1>12,
   <1>13, <1>14, <1>15, <1>16, <1>17, <1>18, <1>19, <1>20 DEF K!Next, K!CallerStep

\* Request numbers are never used again, and a response meets the entry of its own
\* call.
LEMMA KraftNumbersStep ==
  ASSUME KraftNames, KraftShape, KraftHolds, KraftNumbers, K!Next
  PROVE  KraftNumbers'
<1>1. ASSUME NEW c \in K!Actors, K!Get(c) PROVE KraftNumbers'
  BY <1>1 DEF K!Get, K!Start, K!Go, K!procVars, K!rpcVars, K!callVars, KraftShape,
     KraftHolds, KraftNumbers, NumbersBelow, RequestsMatch, WritersOwn, WritersApart,
     Calling
<1>2. ASSUME NEW c \in K!Actors, K!CleanupBegins(c) PROVE KraftNumbers'
  BY <1>2 DEF K!CleanupBegins, K!Go, K!procVars, K!rpcVars, K!callVars, KraftShape,
     KraftHolds, KraftNumbers, NumbersBelow, RequestsMatch, WritersOwn, WritersApart,
     Calling
<1>3. ASSUME NEW c \in K!Actors, K!StopTakes(c) PROVE KraftNumbers'
  BY <1>3 DEF K!StopTakes, K!Go, K!procVars, K!rpcVars, K!callVars, KraftShape,
     KraftHolds, KraftNumbers, NumbersBelow, RequestsMatch, WritersOwn, WritersApart,
     Calling
<1>4. ASSUME NEW c \in K!Actors, K!Handshaken(c) PROVE KraftNumbers'
  BY <1>4 DEF K!Handshaken, K!Go, K!Stop, K!Kill, K!procVars, K!rpcVars, K!callVars,
     KraftShape, KraftHolds, KraftNumbers, NumbersBelow, RequestsMatch, WritersOwn,
     WritersApart, Calling
<1>5. ASSUME NEW c \in K!Actors, K!CallRegisters(c) PROVE KraftNumbers'
  <2> USE <1>5 DEF K!CallRegisters, K!Registers, K!Go, K!procVars, K!rpcVars,
     K!callVars, KraftShape, KraftHolds, Calling
  <2>1. /\ proc[c] \in Procs /\ proc[c] # NoProc
        /\ nextID[proc[c]] \in Nat \ {0} /\ id[c] \in Nat
    BY DEF KraftNames
  <2>2. NumbersBelow'
    BY <2>1 DEF KraftNumbers, NumbersBelow, WritersOwn
  <2>3. RequestsMatch'
    BY <2>1 DEF KraftNumbers, RequestsMatch, NumbersBelow, WritersOwn
  <2>4. WritersOwn'
    BY <2>1 DEF KraftNumbers, WritersOwn, NumbersBelow, WritersApart
  <2>5. WritersApart'
    BY <2>1 DEF KraftNumbers, WritersApart, WritersOwn
  <2> QED BY <2>2, <2>3, <2>4, <2>5 DEF KraftNumbers
<1>6. ASSUME NEW c \in K!Actors, K!CallRefused(c) PROVE KraftNumbers'
  BY <1>6 DEF K!CallRefused, K!Ends, K!Go, K!procVars, K!rpcVars, K!callVars,
     KraftShape, KraftHolds, KraftNumbers, NumbersBelow, RequestsMatch, WritersOwn,
     WritersApart, Calling
<1>7. ASSUME NEW c \in K!Actors, K!Writes(c) PROVE KraftNumbers'
  <2> USE <1>7 DEF K!Writes, K!Drop, K!Ends, K!Go, K!procVars, K!rpcVars, K!callVars,
     KraftShape, KraftHolds, Calling
  <2>1. /\ proc[c] \in Procs /\ proc[c] # NoProc
        /\ nextID[proc[c]] \in Nat \ {0} /\ id[c] \in Nat
    BY DEF KraftNames
  <2>2. NumbersBelow'
    BY <2>1 DEF KraftNumbers, NumbersBelow, WritersOwn
  <2>3. RequestsMatch'
    BY <2>1 DEF KraftNumbers, RequestsMatch, NumbersBelow, WritersOwn
  <2>4. WritersOwn'
    BY <2>1 DEF KraftNumbers, WritersOwn, NumbersBelow, WritersApart
  <2>5. WritersApart'
    BY <2>1 DEF KraftNumbers, WritersApart, WritersOwn
  <2> QED BY <2>2, <2>3, <2>4, <2>5 DEF KraftNumbers
<1>8. ASSUME NEW c \in K!Actors, K!Answered(c) PROVE KraftNumbers'
  BY <1>8 DEF K!Answered, K!Ends, K!Go, K!procVars, K!rpcVars, K!callVars, KraftShape,
     KraftHolds, KraftNumbers, NumbersBelow, RequestsMatch, WritersOwn, WritersApart,
     Calling
<1>9. ASSUME NEW c \in K!Actors, K!GivesUp(c) PROVE KraftNumbers'
  BY <1>9 DEF K!GivesUp, K!Drop, K!Ends, K!Go, K!procVars, K!rpcVars, K!callVars,
     KraftShape, KraftHolds, KraftNumbers, NumbersBelow, RequestsMatch, WritersOwn,
     WritersApart, Calling
<1>10. ASSUME NEW c \in K!Actors, K!StopKills(c) PROVE KraftNumbers'
  BY <1>10 DEF K!StopKills, K!Stop, K!Kill, K!Go, K!procVars, K!rpcVars, K!callVars,
     KraftShape, KraftHolds, KraftNumbers, NumbersBelow, RequestsMatch, WritersOwn,
     WritersApart, Calling
<1>11. ASSUME NEW p \in Procs, K!ReadHandshake(p) PROVE KraftNumbers'
  BY <1>11 DEF K!ReadHandshake, K!Reads, K!Stop, K!Kill, K!procVars, K!rpcVars,
     K!callVars, KraftShape, KraftHolds, KraftNumbers, NumbersBelow, RequestsMatch,
     WritersOwn, WritersApart, Calling
<1>12. ASSUME NEW p \in Procs, K!ReadResponse(p) PROVE KraftNumbers'
  BY <1>12 DEF K!ReadResponse, K!Reads, K!procVars, K!rpcVars, K!callVars, KraftShape,
     KraftHolds, KraftNumbers, NumbersBelow, RequestsMatch, WritersOwn, WritersApart,
     Calling
<1>13. ASSUME NEW p \in Procs, K!ReadFails(p) PROVE KraftNumbers'
  BY <1>13 DEF K!ReadFails, K!Reads, K!Stop, K!Kill, K!procVars, K!rpcVars, K!callVars,
     KraftShape, KraftHolds, KraftNumbers, NumbersBelow, RequestsMatch, WritersOwn,
     WritersApart, Calling
<1>14. ASSUME NEW p \in Procs, K!ReadEnds(p) PROVE KraftNumbers'
  BY <1>14 DEF K!ReadEnds, K!Reads, K!procVars, K!rpcVars, K!callVars, KraftShape,
     KraftHolds, KraftNumbers, NumbersBelow, RequestsMatch, WritersOwn, WritersApart,
     Calling
<1>15. ASSUME NEW p \in Procs, K!Dies(p) PROVE KraftNumbers'
  BY <1>15 DEF K!Dies, K!procVars, K!rpcVars, K!callVars, KraftShape, KraftHolds,
     KraftNumbers, NumbersBelow, RequestsMatch, WritersOwn, WritersApart, Calling
<1>16. ASSUME NEW p \in Procs, K!WatcherReaps(p) PROVE KraftNumbers'
  BY <1>16 DEF K!WatcherReaps, K!procVars, K!rpcVars, K!callVars, KraftShape,
     KraftHolds, KraftNumbers, NumbersBelow, RequestsMatch, WritersOwn, WritersApart,
     Calling
<1>17. ASSUME NEW p \in Procs, K!HandlerReturns(p) PROVE KraftNumbers'
  BY <1>17 DEF K!HandlerReturns, K!procVars, K!rpcVars, K!callVars, KraftShape,
     KraftHolds, KraftNumbers, NumbersBelow, RequestsMatch, WritersOwn, WritersApart,
     Calling
<1>18. CASE K!ShutdownTakes
  BY <1>18 DEF K!ShutdownTakes, K!procVars, K!rpcVars, K!callVars, KraftShape,
     KraftHolds, KraftNumbers, NumbersBelow, RequestsMatch, WritersOwn, WritersApart,
     Calling
<1>19. CASE K!ShutdownKills
  BY <1>19 DEF K!ShutdownKills, K!Stop, K!Kill, K!procVars, K!rpcVars, K!callVars,
     KraftShape, KraftHolds, KraftNumbers, NumbersBelow, RequestsMatch, WritersOwn,
     WritersApart, Calling
<1>20. CASE K!ShutdownReturned
  BY <1>20 DEF K!ShutdownReturned, K!procVars, K!rpcVars, K!callVars, KraftShape,
     KraftHolds, KraftNumbers, NumbersBelow, RequestsMatch, WritersOwn, WritersApart,
     Calling
<1> QED BY <1>1, <1>2, <1>3, <1>4, <1>5, <1>6, <1>7, <1>8, <1>9, <1>10, <1>11, <1>12,
   <1>13, <1>14, <1>15, <1>16, <1>17, <1>18, <1>19, <1>20 DEF K!Next, K!CallerStep

\* What a caller gets is the response to its own request.
LEMMA KraftAnswerStep ==
  ASSUME KraftShape, KraftNumbers, K!AnswerIsMine, K!Next
  PROVE  K!AnswerIsMine'
<1>1. ASSUME NEW c \in K!Actors, K!Get(c) PROVE K!AnswerIsMine'
  BY <1>1 DEF K!Get, K!Start, K!Go, K!procVars, K!rpcVars, K!callVars, KraftShape,
     KraftNumbers, RequestsMatch, K!AnswerIsMine
<1>2. ASSUME NEW c \in K!Actors, K!CleanupBegins(c) PROVE K!AnswerIsMine'
  BY <1>2 DEF K!CleanupBegins, K!Go, K!procVars, K!rpcVars, K!callVars, KraftShape,
     KraftNumbers, RequestsMatch, K!AnswerIsMine
<1>3. ASSUME NEW c \in K!Actors, K!StopTakes(c) PROVE K!AnswerIsMine'
  BY <1>3 DEF K!StopTakes, K!Go, K!procVars, K!rpcVars, K!callVars, KraftShape,
     KraftNumbers, RequestsMatch, K!AnswerIsMine
<1>4. ASSUME NEW c \in K!Actors, K!Handshaken(c) PROVE K!AnswerIsMine'
  BY <1>4 DEF K!Handshaken, K!Go, K!Stop, K!Kill, K!procVars, K!rpcVars, K!callVars,
     KraftShape, KraftNumbers, RequestsMatch, K!AnswerIsMine
<1>5. ASSUME NEW c \in K!Actors, K!CallRegisters(c) PROVE K!AnswerIsMine'
  BY <1>5 DEF K!CallRegisters, K!Registers, K!Go, K!procVars, K!rpcVars, K!callVars,
     KraftShape, KraftNumbers, RequestsMatch, K!AnswerIsMine
<1>6. ASSUME NEW c \in K!Actors, K!CallRefused(c) PROVE K!AnswerIsMine'
  BY <1>6 DEF K!CallRefused, K!Ends, K!Go, K!procVars, K!rpcVars, K!callVars,
     KraftShape, KraftNumbers, RequestsMatch, K!AnswerIsMine
<1>7. ASSUME NEW c \in K!Actors, K!Writes(c) PROVE K!AnswerIsMine'
  BY <1>7 DEF K!Writes, K!Drop, K!Ends, K!Go, K!procVars, K!rpcVars, K!callVars,
     KraftShape, KraftNumbers, RequestsMatch, K!AnswerIsMine
<1>8. ASSUME NEW c \in K!Actors, K!Answered(c) PROVE K!AnswerIsMine'
  BY <1>8 DEF K!Answered, K!Ends, K!Go, K!procVars, K!rpcVars, K!callVars, KraftShape,
     KraftNumbers, RequestsMatch, K!AnswerIsMine
<1>9. ASSUME NEW c \in K!Actors, K!GivesUp(c) PROVE K!AnswerIsMine'
  BY <1>9 DEF K!GivesUp, K!Drop, K!Ends, K!Go, K!procVars, K!rpcVars, K!callVars,
     KraftShape, KraftNumbers, RequestsMatch, K!AnswerIsMine
<1>10. ASSUME NEW c \in K!Actors, K!StopKills(c) PROVE K!AnswerIsMine'
  BY <1>10 DEF K!StopKills, K!Stop, K!Kill, K!Go, K!procVars, K!rpcVars, K!callVars,
     KraftShape, KraftNumbers, RequestsMatch, K!AnswerIsMine
<1>11. ASSUME NEW p \in Procs, K!ReadHandshake(p) PROVE K!AnswerIsMine'
  BY <1>11 DEF K!ReadHandshake, K!Reads, K!Stop, K!Kill, K!procVars, K!rpcVars,
     K!callVars, KraftShape, KraftNumbers, RequestsMatch, K!AnswerIsMine
<1>12. ASSUME NEW p \in Procs, K!ReadResponse(p) PROVE K!AnswerIsMine'
  BY <1>12 DEF K!ReadResponse, K!Reads, K!procVars, K!rpcVars, K!callVars, KraftShape,
     KraftNumbers, RequestsMatch, K!AnswerIsMine
<1>13. ASSUME NEW p \in Procs, K!ReadFails(p) PROVE K!AnswerIsMine'
  BY <1>13 DEF K!ReadFails, K!Reads, K!Stop, K!Kill, K!procVars, K!rpcVars, K!callVars,
     KraftShape, KraftNumbers, RequestsMatch, K!AnswerIsMine
<1>14. ASSUME NEW p \in Procs, K!ReadEnds(p) PROVE K!AnswerIsMine'
  BY <1>14 DEF K!ReadEnds, K!Reads, K!procVars, K!rpcVars, K!callVars, KraftShape,
     KraftNumbers, RequestsMatch, K!AnswerIsMine
<1>15. ASSUME NEW p \in Procs, K!Dies(p) PROVE K!AnswerIsMine'
  BY <1>15 DEF K!Dies, K!procVars, K!rpcVars, K!callVars, KraftShape, KraftNumbers,
     RequestsMatch, K!AnswerIsMine
<1>16. ASSUME NEW p \in Procs, K!WatcherReaps(p) PROVE K!AnswerIsMine'
  BY <1>16 DEF K!WatcherReaps, K!procVars, K!rpcVars, K!callVars, KraftShape,
     KraftNumbers, RequestsMatch, K!AnswerIsMine
<1>17. ASSUME NEW p \in Procs, K!HandlerReturns(p) PROVE K!AnswerIsMine'
  BY <1>17 DEF K!HandlerReturns, K!procVars, K!rpcVars, K!callVars, KraftShape,
     KraftNumbers, RequestsMatch, K!AnswerIsMine
<1>18. CASE K!ShutdownTakes
  BY <1>18 DEF K!ShutdownTakes, K!procVars, K!rpcVars, K!callVars, KraftShape,
     KraftNumbers, RequestsMatch, K!AnswerIsMine
<1>19. CASE K!ShutdownKills
  BY <1>19 DEF K!ShutdownKills, K!Stop, K!Kill, K!procVars, K!rpcVars, K!callVars,
     KraftShape, KraftNumbers, RequestsMatch, K!AnswerIsMine
<1>20. CASE K!ShutdownReturned
  BY <1>20 DEF K!ShutdownReturned, K!procVars, K!rpcVars, K!callVars, KraftShape,
     KraftNumbers, RequestsMatch, K!AnswerIsMine
<1> QED BY <1>1, <1>2, <1>3, <1>4, <1>5, <1>6, <1>7, <1>8, <1>9, <1>10, <1>11, <1>12,
   <1>13, <1>14, <1>15, <1>16, <1>17, <1>18, <1>19, <1>20 DEF K!Next, K!CallerStep

\* A process leaves the table dead, in the hands of somebody who stops it, or with its
\* output closed.
LEMMA KraftStrayStep ==
  ASSUME KraftNames, KraftShape, KraftHolds, KraftWatch, K!NoStray, K!Next
  PROVE  K!NoStray'
<1>1. ASSUME NEW c \in K!Actors, K!Get(c) PROVE K!NoStray'
  BY <1>1 DEF K!Get, K!Start, K!Go, K!procVars, K!rpcVars, K!callVars, KraftNames,
     KraftShape, KraftHolds, KraftWatch, K!NoStray, K!Unreachable, Calling
<1>2. ASSUME NEW c \in K!Actors, K!CleanupBegins(c) PROVE K!NoStray'
  BY <1>2 DEF K!CleanupBegins, K!Go, K!procVars, K!rpcVars, K!callVars, KraftNames,
     KraftShape, KraftHolds, KraftWatch, K!NoStray, K!Unreachable, Calling
<1>3. ASSUME NEW c \in K!Actors, K!StopTakes(c) PROVE K!NoStray'
  BY <1>3 DEF K!StopTakes, K!Go, K!procVars, K!rpcVars, K!callVars, KraftNames,
     KraftShape, KraftHolds, KraftWatch, K!NoStray, K!Unreachable, Calling
<1>4. ASSUME NEW c \in K!Actors, K!Handshaken(c) PROVE K!NoStray'
  BY <1>4 DEF K!Handshaken, K!Go, K!Stop, K!Kill, K!procVars, K!rpcVars, K!callVars,
     KraftNames, KraftShape, KraftHolds, KraftWatch, K!NoStray, K!Unreachable, Calling
<1>5. ASSUME NEW c \in K!Actors, K!CallRegisters(c) PROVE K!NoStray'
  BY <1>5 DEF K!CallRegisters, K!Registers, K!Go, K!procVars, K!rpcVars, K!callVars,
     KraftNames, KraftShape, KraftHolds, KraftWatch, K!NoStray, K!Unreachable, Calling
<1>6. ASSUME NEW c \in K!Actors, K!CallRefused(c) PROVE K!NoStray'
  BY <1>6 DEF K!CallRefused, K!Ends, K!Go, K!procVars, K!rpcVars, K!callVars,
     KraftNames, KraftShape, KraftHolds, KraftWatch, K!NoStray, K!Unreachable, Calling
<1>7. ASSUME NEW c \in K!Actors, K!Writes(c) PROVE K!NoStray'
  BY <1>7 DEF K!Writes, K!Drop, K!Ends, K!Go, K!procVars, K!rpcVars, K!callVars,
     KraftNames, KraftShape, KraftHolds, KraftWatch, K!NoStray, K!Unreachable, Calling
<1>8. ASSUME NEW c \in K!Actors, K!Answered(c) PROVE K!NoStray'
  BY <1>8 DEF K!Answered, K!Ends, K!Go, K!procVars, K!rpcVars, K!callVars, KraftNames,
     KraftShape, KraftHolds, KraftWatch, K!NoStray, K!Unreachable, Calling
<1>9. ASSUME NEW c \in K!Actors, K!GivesUp(c) PROVE K!NoStray'
  BY <1>9 DEF K!GivesUp, K!Drop, K!Ends, K!Go, K!procVars, K!rpcVars, K!callVars,
     KraftNames, KraftShape, KraftHolds, KraftWatch, K!NoStray, K!Unreachable, Calling
<1>10. ASSUME NEW c \in K!Actors, K!StopKills(c) PROVE K!NoStray'
  BY <1>10 DEF K!StopKills, K!Stop, K!Kill, K!Go, K!procVars, K!rpcVars, K!callVars,
     KraftNames, KraftShape, KraftHolds, KraftWatch, K!NoStray, K!Unreachable, Calling
<1>11. ASSUME NEW p \in Procs, K!ReadHandshake(p) PROVE K!NoStray'
  BY <1>11 DEF K!ReadHandshake, K!Reads, K!Stop, K!Kill, K!procVars, K!rpcVars,
     K!callVars, KraftNames, KraftShape, KraftHolds, KraftWatch, K!NoStray, K!Unreachable, Calling
<1>12. ASSUME NEW p \in Procs, K!ReadResponse(p) PROVE K!NoStray'
  BY <1>12 DEF K!ReadResponse, K!Reads, K!procVars, K!rpcVars, K!callVars, KraftNames,
     KraftShape, KraftHolds, KraftWatch, K!NoStray, K!Unreachable, Calling
<1>13. ASSUME NEW p \in Procs, K!ReadFails(p) PROVE K!NoStray'
  BY <1>13 DEF K!ReadFails, K!Reads, K!Stop, K!Kill, K!procVars, K!rpcVars, K!callVars,
     KraftNames, KraftShape, KraftHolds, KraftWatch, K!NoStray, K!Unreachable, Calling
<1>14. ASSUME NEW p \in Procs, K!ReadEnds(p) PROVE K!NoStray'
  BY <1>14 DEF K!ReadEnds, K!Reads, K!procVars, K!rpcVars, K!callVars, KraftNames,
     KraftShape, KraftHolds, KraftWatch, K!NoStray, K!Unreachable, Calling
<1>15. ASSUME NEW p \in Procs, K!Dies(p) PROVE K!NoStray'
  BY <1>15 DEF K!Dies, K!procVars, K!rpcVars, K!callVars, KraftNames, KraftShape,
     KraftHolds, KraftWatch, K!NoStray, K!Unreachable, Calling
<1>16. ASSUME NEW p \in Procs, K!WatcherReaps(p) PROVE K!NoStray'
  BY <1>16 DEF K!WatcherReaps, K!procVars, K!rpcVars, K!callVars, KraftNames,
     KraftShape, KraftHolds, KraftWatch, K!NoStray, K!Unreachable, Calling
<1>17. ASSUME NEW p \in Procs, K!HandlerReturns(p) PROVE K!NoStray'
  BY <1>17 DEF K!HandlerReturns, K!procVars, K!rpcVars, K!callVars, KraftNames,
     KraftShape, KraftHolds, KraftWatch, K!NoStray, K!Unreachable, Calling
<1>18. CASE K!ShutdownTakes
  BY <1>18 DEF K!ShutdownTakes, K!procVars, K!rpcVars, K!callVars, KraftNames,
     KraftShape, KraftHolds, KraftWatch, K!NoStray, K!Unreachable, Calling
<1>19. CASE K!ShutdownKills
  BY <1>19 DEF K!ShutdownKills, K!Stop, K!Kill, K!procVars, K!rpcVars, K!callVars,
     KraftNames, KraftShape, KraftHolds, KraftWatch, K!NoStray, K!Unreachable, Calling
<1>20. CASE K!ShutdownReturned
  BY <1>20 DEF K!ShutdownReturned, K!procVars, K!rpcVars, K!callVars, KraftNames,
     KraftShape, KraftHolds, KraftWatch, K!NoStray, K!Unreachable, Calling
<1> QED BY <1>1, <1>2, <1>3, <1>4, <1>5, <1>6, <1>7, <1>8, <1>9, <1>10, <1>11, <1>12,
   <1>13, <1>14, <1>15, <1>16, <1>17, <1>18, <1>19, <1>20 DEF K!Next, K!CallerStep

\* Nothing starts after Shutdown took the process.
LEMMA KraftClosedStep ==
  ASSUME KraftNames, KraftShape, KraftWatch, KraftClosed, K!Next
  PROVE  KraftClosed'
<1>1. ASSUME NEW c \in K!Actors, K!Get(c) PROVE KraftClosed'
  BY <1>1 DEF K!Get, K!Start, K!Go, K!procVars, K!rpcVars, K!callVars, KraftNames,
     KraftShape, KraftWatch, KraftClosed
<1>2. ASSUME NEW c \in K!Actors, K!CleanupBegins(c) PROVE KraftClosed'
  BY <1>2 DEF K!CleanupBegins, K!Go, K!procVars, K!rpcVars, K!callVars, KraftNames,
     KraftShape, KraftWatch, KraftClosed
<1>3. ASSUME NEW c \in K!Actors, K!StopTakes(c) PROVE KraftClosed'
  BY <1>3 DEF K!StopTakes, K!Go, K!procVars, K!rpcVars, K!callVars, KraftNames,
     KraftShape, KraftWatch, KraftClosed
<1>4. ASSUME NEW c \in K!Actors, K!Handshaken(c) PROVE KraftClosed'
  BY <1>4 DEF K!Handshaken, K!Go, K!Stop, K!Kill, K!procVars, K!rpcVars, K!callVars,
     KraftNames, KraftShape, KraftWatch, KraftClosed
<1>5. ASSUME NEW c \in K!Actors, K!CallRegisters(c) PROVE KraftClosed'
  BY <1>5 DEF K!CallRegisters, K!Registers, K!Go, K!procVars, K!rpcVars, K!callVars,
     KraftNames, KraftShape, KraftWatch, KraftClosed
<1>6. ASSUME NEW c \in K!Actors, K!CallRefused(c) PROVE KraftClosed'
  BY <1>6 DEF K!CallRefused, K!Ends, K!Go, K!procVars, K!rpcVars, K!callVars,
     KraftNames, KraftShape, KraftWatch, KraftClosed
<1>7. ASSUME NEW c \in K!Actors, K!Writes(c) PROVE KraftClosed'
  BY <1>7 DEF K!Writes, K!Drop, K!Ends, K!Go, K!procVars, K!rpcVars, K!callVars,
     KraftNames, KraftShape, KraftWatch, KraftClosed
<1>8. ASSUME NEW c \in K!Actors, K!Answered(c) PROVE KraftClosed'
  BY <1>8 DEF K!Answered, K!Ends, K!Go, K!procVars, K!rpcVars, K!callVars, KraftNames,
     KraftShape, KraftWatch, KraftClosed
<1>9. ASSUME NEW c \in K!Actors, K!GivesUp(c) PROVE KraftClosed'
  BY <1>9 DEF K!GivesUp, K!Drop, K!Ends, K!Go, K!procVars, K!rpcVars, K!callVars,
     KraftNames, KraftShape, KraftWatch, KraftClosed
<1>10. ASSUME NEW c \in K!Actors, K!StopKills(c) PROVE KraftClosed'
  BY <1>10 DEF K!StopKills, K!Stop, K!Kill, K!Go, K!procVars, K!rpcVars, K!callVars,
     KraftNames, KraftShape, KraftWatch, KraftClosed
<1>11. ASSUME NEW p \in Procs, K!ReadHandshake(p) PROVE KraftClosed'
  BY <1>11 DEF K!ReadHandshake, K!Reads, K!Stop, K!Kill, K!procVars, K!rpcVars,
     K!callVars, KraftNames, KraftShape, KraftWatch, KraftClosed
<1>12. ASSUME NEW p \in Procs, K!ReadResponse(p) PROVE KraftClosed'
  BY <1>12 DEF K!ReadResponse, K!Reads, K!procVars, K!rpcVars, K!callVars, KraftNames,
     KraftShape, KraftWatch, KraftClosed
<1>13. ASSUME NEW p \in Procs, K!ReadFails(p) PROVE KraftClosed'
  BY <1>13 DEF K!ReadFails, K!Reads, K!Stop, K!Kill, K!procVars, K!rpcVars, K!callVars,
     KraftNames, KraftShape, KraftWatch, KraftClosed
<1>14. ASSUME NEW p \in Procs, K!ReadEnds(p) PROVE KraftClosed'
  BY <1>14 DEF K!ReadEnds, K!Reads, K!procVars, K!rpcVars, K!callVars, KraftNames,
     KraftShape, KraftWatch, KraftClosed
<1>15. ASSUME NEW p \in Procs, K!Dies(p) PROVE KraftClosed'
  BY <1>15 DEF K!Dies, K!procVars, K!rpcVars, K!callVars, KraftNames, KraftShape,
     KraftWatch, KraftClosed
<1>16. ASSUME NEW p \in Procs, K!WatcherReaps(p) PROVE KraftClosed'
  BY <1>16 DEF K!WatcherReaps, K!procVars, K!rpcVars, K!callVars, KraftNames,
     KraftShape, KraftWatch, KraftClosed
<1>17. ASSUME NEW p \in Procs, K!HandlerReturns(p) PROVE KraftClosed'
  BY <1>17 DEF K!HandlerReturns, K!procVars, K!rpcVars, K!callVars, KraftNames,
     KraftShape, KraftWatch, KraftClosed
<1>18. CASE K!ShutdownTakes
  BY <1>18 DEF K!ShutdownTakes, K!procVars, K!rpcVars, K!callVars, KraftNames,
     KraftShape, KraftWatch, KraftClosed
<1>19. CASE K!ShutdownKills
  BY <1>19 DEF K!ShutdownKills, K!Stop, K!Kill, K!procVars, K!rpcVars, K!callVars,
     KraftNames, KraftShape, KraftWatch, KraftClosed
<1>20. CASE K!ShutdownReturned
  BY <1>20 DEF K!ShutdownReturned, K!procVars, K!rpcVars, K!callVars, KraftNames,
     KraftShape, KraftWatch, KraftClosed
<1> QED BY <1>1, <1>2, <1>3, <1>4, <1>5, <1>6, <1>7, <1>8, <1>9, <1>10, <1>11, <1>12,
   <1>13, <1>14, <1>15, <1>16, <1>17, <1>18, <1>19, <1>20 DEF K!Next, K!CallerStep

\* The inductive invariant holds when no process was ever started (NewManager).
LEMMA KraftStarts ==
  ASSUME KraftNames, K!Init
  PROVE  KraftInv
<1> USE DEF K!Init
<1>1. KraftShape
  <2>1. /\ life \in [Procs -> {"unborn", "running", "dead"}]
        /\ watch \in [Procs -> {"none", "waiting", "handler", "over"}]
        /\ nextID \in [Procs -> Nat \ {0}]
    OBVIOUS
  <2>2. /\ pending \in [Procs -> SUBSET (Nat \X K!Actors)]
        /\ wire \in [Procs -> SUBSET (Nat \X K!Actors)]
        /\ got \in [K!Actors -> SUBSET K!Actors]
    OBVIOUS
  <2>3. /\ pc \in [K!Actors -> {"idle", "handshake", "call", "write", "wait", "stop", "kill",
                               "ok", "failed"}]
        /\ proc \in [K!Actors -> Procs \cup {NoProc}]
        /\ id \in [K!Actors -> Nat]
    OBVIOUS
  <2>4. /\ done \subseteq Procs /\ ready \subseteq Procs /\ hostStopped \subseteq Procs
        /\ table \in Procs \cup {NoProc}
        /\ spc \in {"idle", "wait", "returned", NoProc} \cup Procs
        /\ shuttingDown \in BOOLEAN
    OBVIOUS
  <2> QED BY <2>1, <2>2, <2>3, <2>4 DEF KraftShape
<1>5. KraftHolds
  BY DEF KraftHolds, Calling
<1>2. KraftWatch
  BY DEF KraftNames, KraftWatch, Calling
<1>3. KraftNumbers
  BY DEF KraftNumbers, NumbersBelow, RequestsMatch, WritersOwn, WritersApart
<1>4. K!AnswerIsMine /\ K!NoStray /\ KraftClosed
  BY DEF K!AnswerIsMine, K!NoStray, KraftClosed
<1> QED BY <1>1, <1>2, <1>3, <1>4, <1>5 DEF KraftInv

\* The inductive invariant of the process of a plugin: who waits under which number,
\* who holds a process that left the table, and what Shutdown has seen (kraft.go).
THEOREM KraftInvariance == KraftNames => (K!Spec => []KraftInv)
<1> SUFFICES ASSUME KraftNames PROVE K!Spec => []KraftInv
  OBVIOUS
<1>1. K!Init => KraftInv
  BY KraftStarts
<1>2. KraftInv /\ [K!Next]_K!vars => KraftInv'
  <2> SUFFICES ASSUME KraftInv, [K!Next]_K!vars PROVE KraftInv'
    OBVIOUS
  <2>1. CASE K!Next
    BY <2>1, KraftShapeStep, KraftWatchStep, KraftNumbersStep, KraftAnswerStep,
       KraftStrayStep, KraftClosedStep DEF KraftInv
  <2>2. CASE UNCHANGED K!vars
    BY <2>2 DEF K!vars, K!procVars, K!rpcVars, K!callVars, KraftInv, KraftShape, KraftHolds,
       KraftWatch, KraftNumbers, NumbersBelow, RequestsMatch, WritersOwn, WritersApart,
       K!AnswerIsMine, K!NoStray, K!Unreachable, KraftClosed
  <2> QED BY <2>1, <2>2
<1> QED BY <1>1, <1>2, PTL DEF K!Spec

\* KraftTypeOK: what is done, ready or stopped was started, and a request has a number
\* that was given out (kraft.go).
THEOREM KraftTyping == KraftNames => (K!Spec => []K!KraftTypeOK)
<1>1. KraftInv => K!KraftTypeOK
  BY DEF KraftInv, KraftShape, KraftWatch, KraftNumbers, NumbersBelow, K!KraftTypeOK
<1> QED BY <1>1, KraftInvariance, PTL

\* AnswerIsMine: whatever calls gave up before it, a call gets its own response; the
\* numbers of requests are never used again (process.call, kraft.go).
THEOREM AnswersReachTheirCall == KraftNames => (K!Spec => []K!AnswerIsMine)
<1>1. KraftInv => K!AnswerIsMine
  BY DEF KraftInv
<1> QED BY <1>1, KraftInvariance, PTL

\* NoStray: a process that runs is in the table or in the hands of a Stop, Cleanup or
\* Shutdown that kills it; only one that closed its output and lives is in neither
\* (Manager.get, Stop, Shutdown).
THEOREM NoProcessStrays == KraftNames => (K!Spec => []K!NoStray)
<1>1. KraftInv => K!NoStray
  BY DEF KraftInv
<1> QED BY <1>1, KraftInvariance, PTL

\* ShutdownIsFinal: when Manager.Shutdown has returned no process runs, every exit is
\* booked, and none starts again.
THEOREM ShutdownEndsAll == KraftNames => (K!Spec => []K!ShutdownIsFinal)
<1>1. KraftInv => K!ShutdownIsFinal
  BY DEF KraftInv, KraftShape, KraftWatch, KraftClosed, K!ShutdownIsFinal
<1> QED BY <1>1, KraftInvariance, PTL

-----------------------------------------------------------------------------
(* PluginRegistry: one plugin on the disk, and those who follow it.          *)

\* Bounds are natural numbers, and nobody holds the null value's locks.
RegistryNames ==
    /\ NoOne \notin Callers /\ MaxVersion \in Nat \ {0} /\ MaxFails \in Nat /\ MaxCrashes \in Nat

\* The steps of a mutation under Store.mu, and of RefreshPluginRuntime.
UnderLock == {"aside", "swap", "snapshot", "commit", "discard", "restore", "leave"}
Refreshing == {"check", "rebuild", "note"}
RegistrySteps ==
    {"idle", "staged", "refresh", "done", "failed", "dead"} \cup UnderLock \cup Refreshing

\* What the directories, the locks and the steps of the callers can be.
RegistryShape ==
    /\ dir \in 0 .. MaxVersion /\ backup \in 0 .. MaxVersion /\ pending \in 0 .. MaxVersion
    /\ old \in 0 .. MaxVersion /\ discard \in 0 .. MaxVersion
    /\ enabled \in BOOLEAN /\ mu \in Callers \cup {NoOne} /\ refreshMu \in Callers \cup {NoOne}
    /\ pc \in [Callers -> RegistrySteps]
    /\ op \in [Callers -> {"none", "install", "update", "rollback", "uninstall", "toggle"}]
    /\ ver \in [Callers -> 0 .. MaxVersion] /\ owed \in [Callers -> Nat]
    /\ fpc \in [Faces -> {"idle", "scan", "done"}]
    /\ frev \in [Faces -> Nat] /\ got \in [Faces -> Nat]
    /\ rev \in Nat /\ seen \in Nat /\ passes \in Nat /\ refreshRev \in Nat /\ built \in Nat
    /\ cacheRev \in Nat /\ cacheAt \in Nat

\* Whoever is between two renames, or between two passes, holds the lock.
HoldersOnly ==
    \A c \in Callers : /\ pc[c] \in UnderLock => mu = c
                       /\ pc[c] \in Refreshing => refreshMu = c

\* What a holder of Store.mu may say of the directories at its step.
StepsTell ==
    \A c \in Callers :
        /\ pc[c] = "staged" => op[c] \in {"install", "update"} /\ ver[c] # 0
        /\ pc[c] = "aside" => dir # 0 /\ ver[c] > dir
        /\ pc[c] = "swap" => pending # 0 /\ ver[c] > swapped
        /\ pc[c] \in {"swap", "restore"} => dir = 0
        /\ pc[c] \in {"snapshot", "commit"} => dir # 0 /\ ver[c] > swapped
        /\ pc[c] \in {"swap", "snapshot", "commit"} => pending = swapped
        /\ pc[c] \in {"aside", "swap", "snapshot", "commit"} => op[c] = "update"
        /\ pc[c] \in {"discard", "restore"} => op[c] = "rollback" /\ backup # 0
        /\ op[c] # "none" => pc[c] # "idle"

\* The content the revision tells of is in the directory v, unless it went astray.
Told(v) ==
    /\ enabled = published[2]
    /\ IF astray THEN v = 0 ELSE v = published[1]

\* The content is what the revision says, or would be if the rename is taken back.
MovesAreTold ==
    /\ astray \in BOOLEAN
    /\ astray => dir = 0
    /\ \A c \in Callers :
         /\ pc[c] \in {"aside", "snapshot", "commit", "discard", "leave"} => Told(dir)
         /\ pc[c] = "swap" => Told(pending)
         /\ pc[c] = "restore" => Told(discard)
    /\ R!RevisionCovers

\* A scan is as new as its key, and keys are revisions that have been.
ScansAreFresh ==
    /\ cacheRev <= cacheAt /\ cacheAt <= rev
    /\ \A f \in Faces : frev[f] <= rev
    /\ R!FreshRead

\* What the loop of a refresh has covered at each of its steps.
LoopCovers ==
    /\ refreshRev <= built /\ built <= rev /\ seen <= rev
    /\ \A c \in Callers :
         /\ owed[c] <= rev
         /\ pc[c] \in Refreshing => owed[c] <= seen
         /\ pc[c] \in Refreshing /\ passes # 0 => owed[c] <= refreshRev
         /\ pc[c] = "note" => seen <= built
    /\ R!CallerIsCovered

RegistryInv ==
    /\ RegistryShape /\ HoldersOnly /\ StepsTell /\ MovesAreTold /\ R!RollbackKept
    /\ R!SomeCopySurvives /\ ScansAreFresh /\ LoopCovers

\* Every action keeps the shape of the state.
LEMMA RegistryShapeStep ==
  ASSUME RegistryNames, RegistryShape, R!Next
  PROVE  RegistryShape'
<1>1. ASSUME NEW c \in Callers, R!Stages(c) PROVE RegistryShape'
  BY <1>1 DEF R!Stages, R!Go, R!Quiet, R!disk, R!calls, R!refresh, R!faces, R!hist,
     RegistryNames, RegistryShape, R!Versions, RegistrySteps, UnderLock, Refreshing
<1>2. ASSUME NEW c \in Callers, R!Install(c) PROVE RegistryShape'
  BY <1>2 DEF R!Install, R!Go, R!Fails, R!Failed, R!CanFail, R!Moves, R!Stay, R!Quiet,
     R!disk, R!calls, R!refresh, R!faces, R!hist, RegistryNames, RegistryShape,
     R!Versions, RegistrySteps, UnderLock, Refreshing
<1>3. ASSUME NEW c \in Callers, R!UpdateLocks(c) PROVE RegistryShape'
  BY <1>3 DEF R!UpdateLocks, R!Fails, R!Go, R!Stay, R!Quiet, R!disk, R!calls, R!refresh,
     R!faces, R!hist, RegistryNames, RegistryShape, R!Versions, RegistrySteps,
     UnderLock, Refreshing
<1>4. ASSUME NEW c \in Callers, R!UpdateAside(c) PROVE RegistryShape'
  BY <1>4 DEF R!UpdateAside, R!Fails, R!Go, R!Stay, R!CanFail, R!Failed, R!Quiet,
     R!disk, R!calls, R!refresh, R!faces, R!hist, RegistryNames, RegistryShape,
     R!Versions, RegistrySteps, UnderLock, Refreshing
<1>5. ASSUME NEW c \in Callers, R!UpdateSwaps(c) PROVE RegistryShape'
  BY <1>5 DEF R!UpdateSwaps, R!Fails, R!Go, R!Stay, R!CanFail, R!Failed, R!Moves,
     R!Quiet, R!disk, R!calls, R!refresh, R!faces, R!hist, RegistryNames, RegistryShape,
     R!Versions, RegistrySteps, UnderLock, Refreshing
<1>6. ASSUME NEW c \in Callers, R!SnapshotMoves(c) PROVE RegistryShape'
  BY <1>6 DEF R!SnapshotMoves, R!Fails, R!Go, R!Stay, R!CanFail, R!Failed, R!Quiet,
     R!disk, R!calls, R!refresh, R!faces, R!hist, RegistryNames, RegistryShape,
     R!Versions, RegistrySteps, UnderLock, Refreshing
<1>7. ASSUME NEW c \in Callers, R!SnapshotCommits(c) PROVE RegistryShape'
  BY <1>7 DEF R!SnapshotCommits, R!Fails, R!Go, R!Stay, R!CanFail, R!Failed, R!Quiet,
     R!disk, R!calls, R!refresh, R!faces, R!hist, RegistryNames, RegistryShape,
     R!Versions, RegistrySteps, UnderLock, Refreshing
<1>8. ASSUME NEW c \in Callers, R!RollbackLocks(c) PROVE RegistryShape'
  BY <1>8 DEF R!RollbackLocks, R!Go, R!Quiet, R!disk, R!calls, R!refresh, R!faces,
     R!hist, RegistryNames, RegistryShape, R!Versions, RegistrySteps, UnderLock,
     Refreshing
<1>9. ASSUME NEW c \in Callers, R!RollbackAside(c) PROVE RegistryShape'
  BY <1>9 DEF R!RollbackAside, R!Fails, R!Go, R!Stay, R!CanFail, R!Failed, R!Quiet,
     R!disk, R!calls, R!refresh, R!faces, R!hist, RegistryNames, RegistryShape,
     R!Versions, RegistrySteps, UnderLock, Refreshing
<1>10. ASSUME NEW c \in Callers, R!RollbackRestores(c) PROVE RegistryShape'
  BY <1>10 DEF R!RollbackRestores, R!Fails, R!Go, R!Stay, R!CanFail, R!Failed, R!Moves,
     R!Quiet, R!disk, R!calls, R!refresh, R!faces, R!hist, RegistryNames, RegistryShape,
     R!Versions, RegistrySteps, UnderLock, Refreshing
<1>11. ASSUME NEW c \in Callers, R!Uninstall(c) PROVE RegistryShape'
  BY <1>11 DEF R!Uninstall, R!Go, R!Moves, R!Quiet, R!disk, R!calls, R!refresh, R!faces,
     R!hist, RegistryNames, RegistryShape, R!Versions, RegistrySteps, UnderLock,
     Refreshing
<1>12. ASSUME NEW c \in Callers, R!SetEnabled(c) PROVE RegistryShape'
  BY <1>12 DEF R!SetEnabled, R!Go, R!Moves, R!Quiet, R!disk, R!calls, R!refresh,
     R!faces, R!hist, RegistryNames, RegistryShape, R!Versions, RegistrySteps,
     UnderLock, Refreshing
<1>13. ASSUME NEW c \in Callers, R!Unlocks(c) PROVE RegistryShape'
  BY <1>13 DEF R!Unlocks, R!Leaves, R!Go, R!Quiet, R!disk, R!calls, R!refresh, R!faces,
     R!hist, RegistryNames, RegistryShape, R!Versions, RegistrySteps, UnderLock,
     Refreshing
<1>14. ASSUME NEW c \in Callers, R!RefreshLocks(c) PROVE RegistryShape'
  BY <1>14 DEF R!RefreshLocks, R!Go, R!Stay, R!Quiet, R!disk, R!calls, R!refresh,
     R!faces, R!hist, RegistryNames, RegistryShape, R!Versions, RegistrySteps,
     UnderLock, Refreshing
<1>15. ASSUME NEW c \in Callers, R!RefreshChecks(c) PROVE RegistryShape'
  BY <1>15 DEF R!RefreshChecks, R!Go, R!Stay, R!Quiet, R!disk, R!calls, R!refresh,
     R!faces, R!hist, RegistryNames, RegistryShape, R!Versions, RegistrySteps,
     UnderLock, Refreshing
<1>16. ASSUME NEW c \in Callers, R!Rebuilds(c) PROVE RegistryShape'
  BY <1>16 DEF R!Rebuilds, R!Go, R!Stay, R!Quiet, R!disk, R!calls, R!refresh, R!faces,
     R!hist, RegistryNames, RegistryShape, R!Versions, RegistrySteps, UnderLock,
     Refreshing
<1>17. ASSUME NEW c \in Callers, R!RefreshNotes(c) PROVE RegistryShape'
  BY <1>17 DEF R!RefreshNotes, R!Go, R!Stay, R!Quiet, R!disk, R!calls, R!refresh,
     R!faces, R!hist, RegistryNames, RegistryShape, R!Versions, RegistrySteps,
     UnderLock, Refreshing
<1>18. ASSUME NEW f \in Faces, R!FaceReads(f) PROVE RegistryShape'
  BY <1>18 DEF R!FaceReads, R!Quiet, R!disk, R!calls, R!refresh, R!faces, R!hist,
     RegistryNames, RegistryShape, R!Versions, RegistrySteps, UnderLock, Refreshing
<1>19. ASSUME NEW f \in Faces, R!FaceScans(f) PROVE RegistryShape'
  BY <1>19 DEF R!FaceScans, R!Quiet, R!disk, R!calls, R!refresh, R!faces, R!hist,
     RegistryNames, RegistryShape, R!Versions, RegistrySteps, UnderLock, Refreshing
<1>20. CASE R!Crash
  BY <1>20 DEF R!Crash, R!Over, R!Quiet, R!disk, R!calls, R!refresh, R!faces, R!hist,
     RegistryNames, RegistryShape, R!Versions, RegistrySteps, UnderLock, Refreshing
<1> QED BY <1>1, <1>2, <1>3, <1>4, <1>5, <1>6, <1>7, <1>8, <1>9, <1>10, <1>11, <1>12,
   <1>13, <1>14, <1>15, <1>16, <1>17, <1>18, <1>19, <1>20 DEF R!Next

\* Only the holder of a lock is at a step between its taking and its release.
LEMMA HoldersOnlyStep ==
  ASSUME RegistryNames, RegistryShape, HoldersOnly, R!Next
  PROVE  HoldersOnly'
<1>1. ASSUME NEW c \in Callers, R!Stages(c) PROVE HoldersOnly'
  BY <1>1 DEF R!Stages, R!Go, R!Quiet, R!disk, R!calls, R!refresh, R!faces, R!hist,
     RegistryNames, RegistryShape, HoldersOnly, RegistrySteps, UnderLock, Refreshing
<1>2. ASSUME NEW c \in Callers, R!Install(c) PROVE HoldersOnly'
  BY <1>2 DEF R!Install, R!Go, R!Fails, R!Failed, R!CanFail, R!Moves, R!Stay, R!Quiet,
     R!disk, R!calls, R!refresh, R!faces, R!hist, RegistryNames, RegistryShape,
     HoldersOnly, RegistrySteps, UnderLock, Refreshing
<1>3. ASSUME NEW c \in Callers, R!UpdateLocks(c) PROVE HoldersOnly'
  BY <1>3 DEF R!UpdateLocks, R!Fails, R!Go, R!Stay, R!Quiet, R!disk, R!calls, R!refresh,
     R!faces, R!hist, RegistryNames, RegistryShape, HoldersOnly, RegistrySteps,
     UnderLock, Refreshing
<1>4. ASSUME NEW c \in Callers, R!UpdateAside(c) PROVE HoldersOnly'
  BY <1>4 DEF R!UpdateAside, R!Fails, R!Go, R!Stay, R!CanFail, R!Failed, R!Quiet,
     R!disk, R!calls, R!refresh, R!faces, R!hist, RegistryNames, RegistryShape,
     HoldersOnly, RegistrySteps, UnderLock, Refreshing
<1>5. ASSUME NEW c \in Callers, R!UpdateSwaps(c) PROVE HoldersOnly'
  BY <1>5 DEF R!UpdateSwaps, R!Fails, R!Go, R!Stay, R!CanFail, R!Failed, R!Moves,
     R!Quiet, R!disk, R!calls, R!refresh, R!faces, R!hist, RegistryNames, RegistryShape,
     HoldersOnly, RegistrySteps, UnderLock, Refreshing
<1>6. ASSUME NEW c \in Callers, R!SnapshotMoves(c) PROVE HoldersOnly'
  BY <1>6 DEF R!SnapshotMoves, R!Fails, R!Go, R!Stay, R!CanFail, R!Failed, R!Quiet,
     R!disk, R!calls, R!refresh, R!faces, R!hist, RegistryNames, RegistryShape,
     HoldersOnly, RegistrySteps, UnderLock, Refreshing
<1>7. ASSUME NEW c \in Callers, R!SnapshotCommits(c) PROVE HoldersOnly'
  BY <1>7 DEF R!SnapshotCommits, R!Fails, R!Go, R!Stay, R!CanFail, R!Failed, R!Quiet,
     R!disk, R!calls, R!refresh, R!faces, R!hist, RegistryNames, RegistryShape,
     HoldersOnly, RegistrySteps, UnderLock, Refreshing
<1>8. ASSUME NEW c \in Callers, R!RollbackLocks(c) PROVE HoldersOnly'
  BY <1>8 DEF R!RollbackLocks, R!Go, R!Quiet, R!disk, R!calls, R!refresh, R!faces,
     R!hist, RegistryNames, RegistryShape, HoldersOnly, RegistrySteps, UnderLock,
     Refreshing
<1>9. ASSUME NEW c \in Callers, R!RollbackAside(c) PROVE HoldersOnly'
  BY <1>9 DEF R!RollbackAside, R!Fails, R!Go, R!Stay, R!CanFail, R!Failed, R!Quiet,
     R!disk, R!calls, R!refresh, R!faces, R!hist, RegistryNames, RegistryShape,
     HoldersOnly, RegistrySteps, UnderLock, Refreshing
<1>10. ASSUME NEW c \in Callers, R!RollbackRestores(c) PROVE HoldersOnly'
  BY <1>10 DEF R!RollbackRestores, R!Fails, R!Go, R!Stay, R!CanFail, R!Failed, R!Moves,
     R!Quiet, R!disk, R!calls, R!refresh, R!faces, R!hist, RegistryNames, RegistryShape,
     HoldersOnly, RegistrySteps, UnderLock, Refreshing
<1>11. ASSUME NEW c \in Callers, R!Uninstall(c) PROVE HoldersOnly'
  BY <1>11 DEF R!Uninstall, R!Go, R!Moves, R!Quiet, R!disk, R!calls, R!refresh, R!faces,
     R!hist, RegistryNames, RegistryShape, HoldersOnly, RegistrySteps, UnderLock,
     Refreshing
<1>12. ASSUME NEW c \in Callers, R!SetEnabled(c) PROVE HoldersOnly'
  BY <1>12 DEF R!SetEnabled, R!Go, R!Moves, R!Quiet, R!disk, R!calls, R!refresh,
     R!faces, R!hist, RegistryNames, RegistryShape, HoldersOnly, RegistrySteps,
     UnderLock, Refreshing
<1>13. ASSUME NEW c \in Callers, R!Unlocks(c) PROVE HoldersOnly'
  BY <1>13 DEF R!Unlocks, R!Leaves, R!Go, R!Quiet, R!disk, R!calls, R!refresh, R!faces,
     R!hist, RegistryNames, RegistryShape, HoldersOnly, RegistrySteps, UnderLock,
     Refreshing
<1>14. ASSUME NEW c \in Callers, R!RefreshLocks(c) PROVE HoldersOnly'
  BY <1>14 DEF R!RefreshLocks, R!Go, R!Stay, R!Quiet, R!disk, R!calls, R!refresh,
     R!faces, R!hist, RegistryNames, RegistryShape, HoldersOnly, RegistrySteps,
     UnderLock, Refreshing
<1>15. ASSUME NEW c \in Callers, R!RefreshChecks(c) PROVE HoldersOnly'
  BY <1>15 DEF R!RefreshChecks, R!Go, R!Stay, R!Quiet, R!disk, R!calls, R!refresh,
     R!faces, R!hist, RegistryNames, RegistryShape, HoldersOnly, RegistrySteps,
     UnderLock, Refreshing
<1>16. ASSUME NEW c \in Callers, R!Rebuilds(c) PROVE HoldersOnly'
  BY <1>16 DEF R!Rebuilds, R!Go, R!Stay, R!Quiet, R!disk, R!calls, R!refresh, R!faces,
     R!hist, RegistryNames, RegistryShape, HoldersOnly, RegistrySteps, UnderLock,
     Refreshing
<1>17. ASSUME NEW c \in Callers, R!RefreshNotes(c) PROVE HoldersOnly'
  BY <1>17 DEF R!RefreshNotes, R!Go, R!Stay, R!Quiet, R!disk, R!calls, R!refresh,
     R!faces, R!hist, RegistryNames, RegistryShape, HoldersOnly, RegistrySteps,
     UnderLock, Refreshing
<1>18. ASSUME NEW f \in Faces, R!FaceReads(f) PROVE HoldersOnly'
  BY <1>18 DEF R!FaceReads, R!Quiet, R!disk, R!calls, R!refresh, R!faces, R!hist,
     RegistryNames, RegistryShape, HoldersOnly, RegistrySteps, UnderLock, Refreshing
<1>19. ASSUME NEW f \in Faces, R!FaceScans(f) PROVE HoldersOnly'
  BY <1>19 DEF R!FaceScans, R!Quiet, R!disk, R!calls, R!refresh, R!faces, R!hist,
     RegistryNames, RegistryShape, HoldersOnly, RegistrySteps, UnderLock, Refreshing
<1>20. CASE R!Crash
  BY <1>20 DEF R!Crash, R!Over, R!Quiet, R!disk, R!calls, R!refresh, R!faces, R!hist,
     RegistryNames, RegistryShape, HoldersOnly, RegistrySteps, UnderLock, Refreshing
<1> QED BY <1>1, <1>2, <1>3, <1>4, <1>5, <1>6, <1>7, <1>8, <1>9, <1>10, <1>11, <1>12,
   <1>13, <1>14, <1>15, <1>16, <1>17, <1>18, <1>19, <1>20 DEF R!Next

\* What a step says of the directories stays true, because nobody else renames.
LEMMA StepsTellStep ==
  ASSUME RegistryNames, RegistryShape, HoldersOnly, StepsTell, R!Next
  PROVE  StepsTell'
<1>1. ASSUME NEW c \in Callers, R!Stages(c) PROVE StepsTell'
  BY <1>1 DEF R!Stages, R!Go, R!Quiet, R!disk, R!calls, R!refresh, R!faces, R!hist,
     RegistryNames, RegistryShape, HoldersOnly, StepsTell, R!Versions, RegistrySteps,
     UnderLock, Refreshing
<1>2. ASSUME NEW c \in Callers, R!Install(c) PROVE StepsTell'
  BY <1>2 DEF R!Install, R!Go, R!Fails, R!Failed, R!CanFail, R!Moves, R!Stay, R!Quiet,
     R!disk, R!calls, R!refresh, R!faces, R!hist, RegistryNames, RegistryShape,
     HoldersOnly, StepsTell, R!Versions, RegistrySteps, UnderLock, Refreshing
<1>3. ASSUME NEW c \in Callers, R!UpdateLocks(c) PROVE StepsTell'
  BY <1>3 DEF R!UpdateLocks, R!Fails, R!Go, R!Stay, R!Quiet, R!disk, R!calls, R!refresh,
     R!faces, R!hist, RegistryNames, RegistryShape, HoldersOnly, StepsTell, R!Versions,
     RegistrySteps, UnderLock, Refreshing
<1>4. ASSUME NEW c \in Callers, R!UpdateAside(c) PROVE StepsTell'
  BY <1>4 DEF R!UpdateAside, R!Fails, R!Go, R!Stay, R!CanFail, R!Failed, R!Quiet,
     R!disk, R!calls, R!refresh, R!faces, R!hist, RegistryNames, RegistryShape,
     HoldersOnly, StepsTell, R!Versions, RegistrySteps, UnderLock, Refreshing
<1>5. ASSUME NEW c \in Callers, R!UpdateSwaps(c) PROVE StepsTell'
  BY <1>5 DEF R!UpdateSwaps, R!Fails, R!Go, R!Stay, R!CanFail, R!Failed, R!Moves,
     R!Quiet, R!disk, R!calls, R!refresh, R!faces, R!hist, RegistryNames, RegistryShape,
     HoldersOnly, StepsTell, R!Versions, RegistrySteps, UnderLock, Refreshing
<1>6. ASSUME NEW c \in Callers, R!SnapshotMoves(c) PROVE StepsTell'
  BY <1>6 DEF R!SnapshotMoves, R!Fails, R!Go, R!Stay, R!CanFail, R!Failed, R!Quiet,
     R!disk, R!calls, R!refresh, R!faces, R!hist, RegistryNames, RegistryShape,
     HoldersOnly, StepsTell, R!Versions, RegistrySteps, UnderLock, Refreshing
<1>7. ASSUME NEW c \in Callers, R!SnapshotCommits(c) PROVE StepsTell'
  BY <1>7 DEF R!SnapshotCommits, R!Fails, R!Go, R!Stay, R!CanFail, R!Failed, R!Quiet,
     R!disk, R!calls, R!refresh, R!faces, R!hist, RegistryNames, RegistryShape,
     HoldersOnly, StepsTell, R!Versions, RegistrySteps, UnderLock, Refreshing
<1>8. ASSUME NEW c \in Callers, R!RollbackLocks(c) PROVE StepsTell'
  BY <1>8 DEF R!RollbackLocks, R!Go, R!Quiet, R!disk, R!calls, R!refresh, R!faces,
     R!hist, RegistryNames, RegistryShape, HoldersOnly, StepsTell, R!Versions,
     RegistrySteps, UnderLock, Refreshing
<1>9. ASSUME NEW c \in Callers, R!RollbackAside(c) PROVE StepsTell'
  BY <1>9 DEF R!RollbackAside, R!Fails, R!Go, R!Stay, R!CanFail, R!Failed, R!Quiet,
     R!disk, R!calls, R!refresh, R!faces, R!hist, RegistryNames, RegistryShape,
     HoldersOnly, StepsTell, R!Versions, RegistrySteps, UnderLock, Refreshing
<1>10. ASSUME NEW c \in Callers, R!RollbackRestores(c) PROVE StepsTell'
  BY <1>10 DEF R!RollbackRestores, R!Fails, R!Go, R!Stay, R!CanFail, R!Failed, R!Moves,
     R!Quiet, R!disk, R!calls, R!refresh, R!faces, R!hist, RegistryNames, RegistryShape,
     HoldersOnly, StepsTell, R!Versions, RegistrySteps, UnderLock, Refreshing
<1>11. ASSUME NEW c \in Callers, R!Uninstall(c) PROVE StepsTell'
  BY <1>11 DEF R!Uninstall, R!Go, R!Moves, R!Quiet, R!disk, R!calls, R!refresh, R!faces,
     R!hist, RegistryNames, RegistryShape, HoldersOnly, StepsTell, R!Versions,
     RegistrySteps, UnderLock, Refreshing
<1>12. ASSUME NEW c \in Callers, R!SetEnabled(c) PROVE StepsTell'
  BY <1>12 DEF R!SetEnabled, R!Go, R!Moves, R!Quiet, R!disk, R!calls, R!refresh,
     R!faces, R!hist, RegistryNames, RegistryShape, HoldersOnly, StepsTell, R!Versions,
     RegistrySteps, UnderLock, Refreshing
<1>13. ASSUME NEW c \in Callers, R!Unlocks(c) PROVE StepsTell'
  BY <1>13 DEF R!Unlocks, R!Leaves, R!Go, R!Quiet, R!disk, R!calls, R!refresh, R!faces,
     R!hist, RegistryNames, RegistryShape, HoldersOnly, StepsTell, R!Versions,
     RegistrySteps, UnderLock, Refreshing
<1>14. ASSUME NEW c \in Callers, R!RefreshLocks(c) PROVE StepsTell'
  BY <1>14 DEF R!RefreshLocks, R!Go, R!Stay, R!Quiet, R!disk, R!calls, R!refresh,
     R!faces, R!hist, RegistryNames, RegistryShape, HoldersOnly, StepsTell, R!Versions,
     RegistrySteps, UnderLock, Refreshing
<1>15. ASSUME NEW c \in Callers, R!RefreshChecks(c) PROVE StepsTell'
  BY <1>15 DEF R!RefreshChecks, R!Go, R!Stay, R!Quiet, R!disk, R!calls, R!refresh,
     R!faces, R!hist, RegistryNames, RegistryShape, HoldersOnly, StepsTell, R!Versions,
     RegistrySteps, UnderLock, Refreshing
<1>16. ASSUME NEW c \in Callers, R!Rebuilds(c) PROVE StepsTell'
  BY <1>16 DEF R!Rebuilds, R!Go, R!Stay, R!Quiet, R!disk, R!calls, R!refresh, R!faces,
     R!hist, RegistryNames, RegistryShape, HoldersOnly, StepsTell, R!Versions,
     RegistrySteps, UnderLock, Refreshing
<1>17. ASSUME NEW c \in Callers, R!RefreshNotes(c) PROVE StepsTell'
  BY <1>17 DEF R!RefreshNotes, R!Go, R!Stay, R!Quiet, R!disk, R!calls, R!refresh,
     R!faces, R!hist, RegistryNames, RegistryShape, HoldersOnly, StepsTell, R!Versions,
     RegistrySteps, UnderLock, Refreshing
<1>18. ASSUME NEW f \in Faces, R!FaceReads(f) PROVE StepsTell'
  BY <1>18 DEF R!FaceReads, R!Quiet, R!disk, R!calls, R!refresh, R!faces, R!hist,
     RegistryNames, RegistryShape, HoldersOnly, StepsTell, R!Versions, RegistrySteps,
     UnderLock, Refreshing
<1>19. ASSUME NEW f \in Faces, R!FaceScans(f) PROVE StepsTell'
  BY <1>19 DEF R!FaceScans, R!Quiet, R!disk, R!calls, R!refresh, R!faces, R!hist,
     RegistryNames, RegistryShape, HoldersOnly, StepsTell, R!Versions, RegistrySteps,
     UnderLock, Refreshing
<1>20. CASE R!Crash
  BY <1>20 DEF R!Crash, R!Over, R!Quiet, R!disk, R!calls, R!refresh, R!faces, R!hist,
     RegistryNames, RegistryShape, HoldersOnly, StepsTell, R!Versions, RegistrySteps,
     UnderLock, Refreshing
<1> QED BY <1>1, <1>2, <1>3, <1>4, <1>5, <1>6, <1>7, <1>8, <1>9, <1>10, <1>11, <1>12,
   <1>13, <1>14, <1>15, <1>16, <1>17, <1>18, <1>19, <1>20 DEF R!Next

\* What the caller at the lock leaves is all there is to tell: nobody else renames.
LEMMA ToldByHolder ==
  ASSUME RegistryNames, HoldersOnly', NEW c \in Callers, mu' \in {c, NoOne},
         astray' \in BOOLEAN, astray' => dir' = 0,
         pc'[c] \in {"aside", "snapshot", "commit", "discard", "leave"} => Told(dir)',
         pc'[c] = "swap" => Told(pending)',
         pc'[c] = "restore" => Told(discard)',
         mu' = NoOne => Told(dir)'
  PROVE  MovesAreTold'
<1>1. \A d \in Callers : pc'[d] \in UnderLock => d = c
  BY DEF HoldersOnly, RegistryNames
<1>2. R!RevisionCovers'
  BY DEF R!RevisionCovers, Told
<1> QED BY <1>1, <1>2 DEF MovesAreTold, UnderLock

\* The revision moves with the rename that changes the content, and a rename that is
\* taken back restores it.
LEMMA MovesAreToldStep ==
  ASSUME RegistryNames, RegistryShape, HoldersOnly, StepsTell, MovesAreTold, R!Next
  PROVE  MovesAreTold'
<1>0. HoldersOnly' /\ pc \in [Callers -> RegistrySteps]
  BY HoldersOnlyStep DEF RegistryShape
<1>1. ASSUME NEW c \in Callers, R!Stages(c) PROVE MovesAreTold'
  BY <1>1 DEF R!Stages, R!Go, R!Quiet, R!disk, R!calls, R!refresh, R!faces, R!hist,
     RegistryNames, RegistryShape, HoldersOnly, StepsTell, MovesAreTold, Told, R!RevisionCovers,
     R!Content, RegistrySteps, UnderLock, Refreshing
<1>2. ASSUME NEW c \in Callers, R!Install(c) PROVE MovesAreTold'
  <2>1. CASE pc'[c] = "failed"
    <3>1. /\ mu' = NoOne /\ pc'[c] = "failed" /\ astray' \in BOOLEAN
          /\ astray' => dir' = 0
          /\ enabled' = published'[2] /\ IF astray' THEN dir' = 0 ELSE dir' = published'[1]
      BY <1>2, <2>1, <1>0 DEF R!Install, R!Go, R!Fails, R!Moves, R!Stay, R!Quiet, R!disk, R!hist,
         MovesAreTold, Told, R!RevisionCovers, StepsTell
    <3> QED BY <3>1, <1>0, ToldByHolder DEF Told, UnderLock
  <2>2. CASE pc'[c] # "failed"
    <3>1. /\ mu' = c /\ pc'[c] = "leave" /\ astray' = FALSE
          /\ published'[2] = enabled' /\ published'[1] = dir'
      BY <1>2, <2>2, <1>0 DEF R!Install, R!Go, R!Fails, R!Moves, R!Stay, R!Quiet, R!disk, R!hist,
         MovesAreTold, RegistryShape
    <3> QED BY <3>1, <1>0, ToldByHolder DEF Told, UnderLock
  <2> QED BY <1>2, <2>1, <2>2 DEF R!Install, R!Go, R!Fails, R!Moves
<1>3. ASSUME NEW c \in Callers, R!UpdateLocks(c) PROVE MovesAreTold'
  BY <1>3 DEF R!UpdateLocks, R!Fails, R!Go, R!Stay, R!Quiet, R!disk, R!calls, R!refresh,
     R!faces, R!hist, RegistryNames, RegistryShape, HoldersOnly, StepsTell, MovesAreTold,
     Told, R!RevisionCovers, R!Content, RegistrySteps, UnderLock, Refreshing
<1>4. ASSUME NEW c \in Callers, R!UpdateAside(c) PROVE MovesAreTold'
  BY <1>4 DEF R!UpdateAside, R!Fails, R!Go, R!Stay, R!CanFail, R!Failed, R!Quiet,
     R!disk, R!calls, R!refresh, R!faces, R!hist, RegistryNames, RegistryShape,
     HoldersOnly, StepsTell, MovesAreTold, Told, R!RevisionCovers, R!Content, RegistrySteps, UnderLock,
     Refreshing
<1>5. ASSUME NEW c \in Callers, R!UpdateSwaps(c) PROVE MovesAreTold'
  <2>1. CASE pc'[c] = "failed"
    <3>1. Told(pending) /\ dir = 0
      BY <1>5 DEF R!UpdateSwaps, MovesAreTold, Told, StepsTell
    <3>2. /\ mu' = NoOne /\ published' = published /\ enabled' = enabled
          /\ \/ dir' = pending /\ astray' = astray
             \/ dir' = dir /\ astray' = TRUE
      BY <1>5, <2>1, <1>0 DEF R!UpdateSwaps, R!Go, R!Fails, R!Moves, R!Stay
    <3>3. astray \in BOOLEAN /\ (astray' => dir' = 0) /\ Told(dir)'
      BY <3>1, <3>2 DEF MovesAreTold, Told
    <3> QED BY <3>2, <3>3, <2>1, <1>0, ToldByHolder
  <2>2. CASE pc'[c] # "failed"
    <3>1. /\ mu' = c /\ pc'[c] = "snapshot" /\ astray' = FALSE
          /\ published'[2] = enabled' /\ published'[1] = dir'
      BY <1>5, <2>2, <1>0 DEF R!UpdateSwaps, R!Go, R!Fails, R!Moves, R!Stay, R!Quiet, R!disk, R!hist,
         MovesAreTold, RegistryShape, HoldersOnly, UnderLock
    <3> QED BY <3>1, <1>0, ToldByHolder DEF Told, UnderLock
  <2> QED BY <1>5, <2>1, <2>2 DEF R!UpdateSwaps, R!Go, R!Fails, R!Moves
<1>6. ASSUME NEW c \in Callers, R!SnapshotMoves(c) PROVE MovesAreTold'
  BY <1>6 DEF R!SnapshotMoves, R!Fails, R!Go, R!Stay, R!CanFail, R!Failed, R!Quiet,
     R!disk, R!calls, R!refresh, R!faces, R!hist, RegistryNames, RegistryShape,
     HoldersOnly, StepsTell, MovesAreTold, Told, R!RevisionCovers, R!Content, RegistrySteps, UnderLock,
     Refreshing
<1>7. ASSUME NEW c \in Callers, R!SnapshotCommits(c) PROVE MovesAreTold'
  BY <1>7 DEF R!SnapshotCommits, R!Fails, R!Go, R!Stay, R!CanFail, R!Failed, R!Quiet,
     R!disk, R!calls, R!refresh, R!faces, R!hist, RegistryNames, RegistryShape,
     HoldersOnly, StepsTell, MovesAreTold, Told, R!RevisionCovers, R!Content, RegistrySteps, UnderLock,
     Refreshing
<1>8. ASSUME NEW c \in Callers, R!RollbackLocks(c) PROVE MovesAreTold'
  BY <1>8 DEF R!RollbackLocks, R!Go, R!Quiet, R!disk, R!calls, R!refresh, R!faces,
     R!hist, RegistryNames, RegistryShape, HoldersOnly, StepsTell, MovesAreTold, Told, R!RevisionCovers,
     R!Content, RegistrySteps, UnderLock, Refreshing
<1>9. ASSUME NEW c \in Callers, R!RollbackAside(c) PROVE MovesAreTold'
  BY <1>9 DEF R!RollbackAside, R!Fails, R!Go, R!Stay, R!CanFail, R!Failed, R!Quiet,
     R!disk, R!calls, R!refresh, R!faces, R!hist, RegistryNames, RegistryShape,
     HoldersOnly, StepsTell, MovesAreTold, Told, R!RevisionCovers, R!Content, RegistrySteps, UnderLock,
     Refreshing
<1>10. ASSUME NEW c \in Callers, R!RollbackRestores(c) PROVE MovesAreTold'
  <2>1. CASE pc'[c] = "failed"
    <3>1. Told(discard) /\ dir = 0
      BY <1>10 DEF R!RollbackRestores, MovesAreTold, Told, StepsTell
    <3>2. /\ mu' = NoOne /\ published' = published /\ enabled' = enabled
          /\ \/ dir' = discard /\ astray' = astray
             \/ dir' = dir /\ astray' = TRUE
      BY <1>10, <2>1, <1>0 DEF R!RollbackRestores, R!Go, R!Fails, R!Moves, R!Stay
    <3>3. astray \in BOOLEAN /\ (astray' => dir' = 0) /\ Told(dir)'
      BY <3>1, <3>2 DEF MovesAreTold, Told
    <3> QED BY <3>2, <3>3, <2>1, <1>0, ToldByHolder
  <2>2. CASE pc'[c] # "failed"
    <3>1. /\ mu' = c /\ pc'[c] = "leave" /\ astray' = FALSE
          /\ published'[2] = enabled' /\ published'[1] = dir'
      BY <1>10, <2>2, <1>0 DEF R!RollbackRestores, R!Go, R!Fails, R!Moves, R!Stay, R!Quiet, R!disk, R!hist,
         MovesAreTold, RegistryShape, HoldersOnly, UnderLock
    <3> QED BY <3>1, <1>0, ToldByHolder DEF Told, UnderLock
  <2> QED BY <1>10, <2>1, <2>2 DEF R!RollbackRestores, R!Go, R!Fails, R!Moves
<1>11. ASSUME NEW c \in Callers, R!Uninstall(c) PROVE MovesAreTold'
  BY <1>11 DEF R!Uninstall, R!Go, R!Moves, R!Quiet, R!disk, R!calls, R!refresh, R!faces,
     R!hist, RegistryNames, RegistryShape, HoldersOnly, StepsTell, MovesAreTold, Told, R!RevisionCovers,
     R!Content, RegistrySteps, UnderLock, Refreshing
<1>12. ASSUME NEW c \in Callers, R!SetEnabled(c) PROVE MovesAreTold'
  BY <1>12 DEF R!SetEnabled, R!Go, R!Moves, R!Quiet, R!disk, R!calls, R!refresh,
     R!faces, R!hist, RegistryNames, RegistryShape, HoldersOnly, StepsTell, MovesAreTold,
     Told, R!RevisionCovers, R!Content, RegistrySteps, UnderLock, Refreshing
<1>13. ASSUME NEW c \in Callers, R!Unlocks(c) PROVE MovesAreTold'
  BY <1>13 DEF R!Unlocks, R!Leaves, R!Go, R!Quiet, R!disk, R!calls, R!refresh, R!faces,
     R!hist, RegistryNames, RegistryShape, HoldersOnly, StepsTell, MovesAreTold, Told, R!RevisionCovers,
     R!Content, RegistrySteps, UnderLock, Refreshing
<1>14. ASSUME NEW c \in Callers, R!RefreshLocks(c) PROVE MovesAreTold'
  BY <1>14 DEF R!RefreshLocks, R!Go, R!Stay, R!Quiet, R!disk, R!calls, R!refresh,
     R!faces, R!hist, RegistryNames, RegistryShape, HoldersOnly, StepsTell, MovesAreTold,
     Told, R!RevisionCovers, R!Content, RegistrySteps, UnderLock, Refreshing
<1>15. ASSUME NEW c \in Callers, R!RefreshChecks(c) PROVE MovesAreTold'
  BY <1>15 DEF R!RefreshChecks, R!Go, R!Stay, R!Quiet, R!disk, R!calls, R!refresh,
     R!faces, R!hist, RegistryNames, RegistryShape, HoldersOnly, StepsTell, MovesAreTold,
     Told, R!RevisionCovers, R!Content, RegistrySteps, UnderLock, Refreshing
<1>16. ASSUME NEW c \in Callers, R!Rebuilds(c) PROVE MovesAreTold'
  BY <1>16 DEF R!Rebuilds, R!Go, R!Stay, R!Quiet, R!disk, R!calls, R!refresh, R!faces,
     R!hist, RegistryNames, RegistryShape, HoldersOnly, StepsTell, MovesAreTold, Told, R!RevisionCovers,
     R!Content, RegistrySteps, UnderLock, Refreshing
<1>17. ASSUME NEW c \in Callers, R!RefreshNotes(c) PROVE MovesAreTold'
  BY <1>17 DEF R!RefreshNotes, R!Go, R!Stay, R!Quiet, R!disk, R!calls, R!refresh,
     R!faces, R!hist, RegistryNames, RegistryShape, HoldersOnly, StepsTell, MovesAreTold,
     Told, R!RevisionCovers, R!Content, RegistrySteps, UnderLock, Refreshing
<1>18. ASSUME NEW f \in Faces, R!FaceReads(f) PROVE MovesAreTold'
  BY <1>18 DEF R!FaceReads, R!Quiet, R!disk, R!calls, R!refresh, R!faces, R!hist,
     RegistryNames, RegistryShape, HoldersOnly, StepsTell, MovesAreTold, Told, R!RevisionCovers,
     R!Content, RegistrySteps, UnderLock, Refreshing
<1>19. ASSUME NEW f \in Faces, R!FaceScans(f) PROVE MovesAreTold'
  BY <1>19 DEF R!FaceScans, R!Quiet, R!disk, R!calls, R!refresh, R!faces, R!hist,
     RegistryNames, RegistryShape, HoldersOnly, StepsTell, MovesAreTold, Told, R!RevisionCovers,
     R!Content, RegistrySteps, UnderLock, Refreshing
<1>20. CASE R!Crash
  BY <1>20 DEF R!Crash, R!Over, R!Quiet, R!disk, R!calls, R!refresh, R!faces, R!hist,
     RegistryNames, RegistryShape, HoldersOnly, StepsTell, MovesAreTold, Told, R!RevisionCovers,
     R!Content, RegistrySteps, UnderLock, Refreshing
<1> QED BY <1>1, <1>2, <1>3, <1>4, <1>5, <1>6, <1>7, <1>8, <1>9, <1>10, <1>11, <1>12,
   <1>13, <1>14, <1>15, <1>16, <1>17, <1>18, <1>19, <1>20 DEF R!Next

\* The rollback an update found is in place until the new one is.
LEMMA RollbackKeptStep ==
  ASSUME RegistryNames, RegistryShape, HoldersOnly, StepsTell, R!RollbackKept, R!Next
  PROVE  R!RollbackKept'
<1>1. ASSUME NEW c \in Callers, R!Stages(c) PROVE R!RollbackKept'
  BY <1>1 DEF R!Stages, R!Go, R!Quiet, R!disk, R!calls, R!refresh, R!faces, R!hist,
     RegistryNames, RegistryShape, HoldersOnly, StepsTell, R!RollbackKept,
     RegistrySteps, UnderLock, Refreshing
<1>2. ASSUME NEW c \in Callers, R!Install(c) PROVE R!RollbackKept'
  BY <1>2 DEF R!Install, R!Go, R!Fails, R!Failed, R!CanFail, R!Moves, R!Stay, R!Quiet,
     R!disk, R!calls, R!refresh, R!faces, R!hist, RegistryNames, RegistryShape,
     HoldersOnly, StepsTell, R!RollbackKept, RegistrySteps, UnderLock, Refreshing
<1>3. ASSUME NEW c \in Callers, R!UpdateLocks(c) PROVE R!RollbackKept'
  BY <1>3 DEF R!UpdateLocks, R!Fails, R!Go, R!Stay, R!Quiet, R!disk, R!calls, R!refresh,
     R!faces, R!hist, RegistryNames, RegistryShape, HoldersOnly, StepsTell,
     R!RollbackKept, RegistrySteps, UnderLock, Refreshing
<1>4. ASSUME NEW c \in Callers, R!UpdateAside(c) PROVE R!RollbackKept'
  BY <1>4 DEF R!UpdateAside, R!Fails, R!Go, R!Stay, R!CanFail, R!Failed, R!Quiet,
     R!disk, R!calls, R!refresh, R!faces, R!hist, RegistryNames, RegistryShape,
     HoldersOnly, StepsTell, R!RollbackKept, RegistrySteps, UnderLock, Refreshing
<1>5. ASSUME NEW c \in Callers, R!UpdateSwaps(c) PROVE R!RollbackKept'
  BY <1>5 DEF R!UpdateSwaps, R!Fails, R!Go, R!Stay, R!CanFail, R!Failed, R!Moves,
     R!Quiet, R!disk, R!calls, R!refresh, R!faces, R!hist, RegistryNames, RegistryShape,
     HoldersOnly, StepsTell, R!RollbackKept, RegistrySteps, UnderLock, Refreshing
<1>6. ASSUME NEW c \in Callers, R!SnapshotMoves(c) PROVE R!RollbackKept'
  BY <1>6 DEF R!SnapshotMoves, R!Fails, R!Go, R!Stay, R!CanFail, R!Failed, R!Quiet,
     R!disk, R!calls, R!refresh, R!faces, R!hist, RegistryNames, RegistryShape,
     HoldersOnly, StepsTell, R!RollbackKept, RegistrySteps, UnderLock, Refreshing
<1>7. ASSUME NEW c \in Callers, R!SnapshotCommits(c) PROVE R!RollbackKept'
  BY <1>7 DEF R!SnapshotCommits, R!Fails, R!Go, R!Stay, R!CanFail, R!Failed, R!Quiet,
     R!disk, R!calls, R!refresh, R!faces, R!hist, RegistryNames, RegistryShape,
     HoldersOnly, StepsTell, R!RollbackKept, RegistrySteps, UnderLock, Refreshing
<1>8. ASSUME NEW c \in Callers, R!RollbackLocks(c) PROVE R!RollbackKept'
  BY <1>8 DEF R!RollbackLocks, R!Go, R!Quiet, R!disk, R!calls, R!refresh, R!faces,
     R!hist, RegistryNames, RegistryShape, HoldersOnly, StepsTell, R!RollbackKept,
     RegistrySteps, UnderLock, Refreshing
<1>9. ASSUME NEW c \in Callers, R!RollbackAside(c) PROVE R!RollbackKept'
  BY <1>9 DEF R!RollbackAside, R!Fails, R!Go, R!Stay, R!CanFail, R!Failed, R!Quiet,
     R!disk, R!calls, R!refresh, R!faces, R!hist, RegistryNames, RegistryShape,
     HoldersOnly, StepsTell, R!RollbackKept, RegistrySteps, UnderLock, Refreshing
<1>10. ASSUME NEW c \in Callers, R!RollbackRestores(c) PROVE R!RollbackKept'
  BY <1>10 DEF R!RollbackRestores, R!Fails, R!Go, R!Stay, R!CanFail, R!Failed, R!Moves,
     R!Quiet, R!disk, R!calls, R!refresh, R!faces, R!hist, RegistryNames, RegistryShape,
     HoldersOnly, StepsTell, R!RollbackKept, RegistrySteps, UnderLock, Refreshing
<1>11. ASSUME NEW c \in Callers, R!Uninstall(c) PROVE R!RollbackKept'
  BY <1>11 DEF R!Uninstall, R!Go, R!Moves, R!Quiet, R!disk, R!calls, R!refresh, R!faces,
     R!hist, RegistryNames, RegistryShape, HoldersOnly, StepsTell, R!RollbackKept,
     RegistrySteps, UnderLock, Refreshing
<1>12. ASSUME NEW c \in Callers, R!SetEnabled(c) PROVE R!RollbackKept'
  BY <1>12 DEF R!SetEnabled, R!Go, R!Moves, R!Quiet, R!disk, R!calls, R!refresh,
     R!faces, R!hist, RegistryNames, RegistryShape, HoldersOnly, StepsTell,
     R!RollbackKept, RegistrySteps, UnderLock, Refreshing
<1>13. ASSUME NEW c \in Callers, R!Unlocks(c) PROVE R!RollbackKept'
  BY <1>13 DEF R!Unlocks, R!Leaves, R!Go, R!Quiet, R!disk, R!calls, R!refresh, R!faces,
     R!hist, RegistryNames, RegistryShape, HoldersOnly, StepsTell, R!RollbackKept,
     RegistrySteps, UnderLock, Refreshing
<1>14. ASSUME NEW c \in Callers, R!RefreshLocks(c) PROVE R!RollbackKept'
  BY <1>14 DEF R!RefreshLocks, R!Go, R!Stay, R!Quiet, R!disk, R!calls, R!refresh,
     R!faces, R!hist, RegistryNames, RegistryShape, HoldersOnly, StepsTell,
     R!RollbackKept, RegistrySteps, UnderLock, Refreshing
<1>15. ASSUME NEW c \in Callers, R!RefreshChecks(c) PROVE R!RollbackKept'
  BY <1>15 DEF R!RefreshChecks, R!Go, R!Stay, R!Quiet, R!disk, R!calls, R!refresh,
     R!faces, R!hist, RegistryNames, RegistryShape, HoldersOnly, StepsTell,
     R!RollbackKept, RegistrySteps, UnderLock, Refreshing
<1>16. ASSUME NEW c \in Callers, R!Rebuilds(c) PROVE R!RollbackKept'
  BY <1>16 DEF R!Rebuilds, R!Go, R!Stay, R!Quiet, R!disk, R!calls, R!refresh, R!faces,
     R!hist, RegistryNames, RegistryShape, HoldersOnly, StepsTell, R!RollbackKept,
     RegistrySteps, UnderLock, Refreshing
<1>17. ASSUME NEW c \in Callers, R!RefreshNotes(c) PROVE R!RollbackKept'
  BY <1>17 DEF R!RefreshNotes, R!Go, R!Stay, R!Quiet, R!disk, R!calls, R!refresh,
     R!faces, R!hist, RegistryNames, RegistryShape, HoldersOnly, StepsTell,
     R!RollbackKept, RegistrySteps, UnderLock, Refreshing
<1>18. ASSUME NEW f \in Faces, R!FaceReads(f) PROVE R!RollbackKept'
  BY <1>18 DEF R!FaceReads, R!Quiet, R!disk, R!calls, R!refresh, R!faces, R!hist,
     RegistryNames, RegistryShape, HoldersOnly, StepsTell, R!RollbackKept,
     RegistrySteps, UnderLock, Refreshing
<1>19. ASSUME NEW f \in Faces, R!FaceScans(f) PROVE R!RollbackKept'
  BY <1>19 DEF R!FaceScans, R!Quiet, R!disk, R!calls, R!refresh, R!faces, R!hist,
     RegistryNames, RegistryShape, HoldersOnly, StepsTell, R!RollbackKept,
     RegistrySteps, UnderLock, Refreshing
<1>20. CASE R!Crash
  BY <1>20 DEF R!Crash, R!Over, R!Quiet, R!disk, R!calls, R!refresh, R!faces, R!hist,
     RegistryNames, RegistryShape, HoldersOnly, StepsTell, R!RollbackKept,
     RegistrySteps, UnderLock, Refreshing
<1> QED BY <1>1, <1>2, <1>3, <1>4, <1>5, <1>6, <1>7, <1>8, <1>9, <1>10, <1>11, <1>12,
   <1>13, <1>14, <1>15, <1>16, <1>17, <1>18, <1>19, <1>20 DEF R!Next

\* Before a directory is emptied another one holds a version.
LEMMA SomeCopySurvivesStep ==
  ASSUME RegistryNames, RegistryShape, HoldersOnly, StepsTell, R!SomeCopySurvives,
         R!Next
  PROVE  R!SomeCopySurvives'
<1>1. ASSUME NEW c \in Callers, R!Stages(c) PROVE R!SomeCopySurvives'
  BY <1>1 DEF R!Stages, R!Go, R!Quiet, R!disk, R!calls, R!refresh, R!faces, R!hist,
     RegistryNames, RegistryShape, HoldersOnly, StepsTell, R!SomeCopySurvives,
     R!Versions, RegistrySteps, UnderLock, Refreshing
<1>2. ASSUME NEW c \in Callers, R!Install(c) PROVE R!SomeCopySurvives'
  BY <1>2 DEF R!Install, R!Go, R!Fails, R!Failed, R!CanFail, R!Moves, R!Stay, R!Quiet,
     R!disk, R!calls, R!refresh, R!faces, R!hist, RegistryNames, RegistryShape,
     HoldersOnly, StepsTell, R!SomeCopySurvives, R!Versions, RegistrySteps, UnderLock,
     Refreshing
<1>3. ASSUME NEW c \in Callers, R!UpdateLocks(c) PROVE R!SomeCopySurvives'
  BY <1>3 DEF R!UpdateLocks, R!Fails, R!Go, R!Stay, R!Quiet, R!disk, R!calls, R!refresh,
     R!faces, R!hist, RegistryNames, RegistryShape, HoldersOnly, StepsTell,
     R!SomeCopySurvives, R!Versions, RegistrySteps, UnderLock, Refreshing
<1>4. ASSUME NEW c \in Callers, R!UpdateAside(c) PROVE R!SomeCopySurvives'
  BY <1>4 DEF R!UpdateAside, R!Fails, R!Go, R!Stay, R!CanFail, R!Failed, R!Quiet,
     R!disk, R!calls, R!refresh, R!faces, R!hist, RegistryNames, RegistryShape,
     HoldersOnly, StepsTell, R!SomeCopySurvives, R!Versions, RegistrySteps, UnderLock,
     Refreshing
<1>5. ASSUME NEW c \in Callers, R!UpdateSwaps(c) PROVE R!SomeCopySurvives'
  BY <1>5 DEF R!UpdateSwaps, R!Fails, R!Go, R!Stay, R!CanFail, R!Failed, R!Moves,
     R!Quiet, R!disk, R!calls, R!refresh, R!faces, R!hist, RegistryNames, RegistryShape,
     HoldersOnly, StepsTell, R!SomeCopySurvives, R!Versions, RegistrySteps, UnderLock,
     Refreshing
<1>6. ASSUME NEW c \in Callers, R!SnapshotMoves(c) PROVE R!SomeCopySurvives'
  BY <1>6 DEF R!SnapshotMoves, R!Fails, R!Go, R!Stay, R!CanFail, R!Failed, R!Quiet,
     R!disk, R!calls, R!refresh, R!faces, R!hist, RegistryNames, RegistryShape,
     HoldersOnly, StepsTell, R!SomeCopySurvives, R!Versions, RegistrySteps, UnderLock,
     Refreshing
<1>7. ASSUME NEW c \in Callers, R!SnapshotCommits(c) PROVE R!SomeCopySurvives'
  BY <1>7 DEF R!SnapshotCommits, R!Fails, R!Go, R!Stay, R!CanFail, R!Failed, R!Quiet,
     R!disk, R!calls, R!refresh, R!faces, R!hist, RegistryNames, RegistryShape,
     HoldersOnly, StepsTell, R!SomeCopySurvives, R!Versions, RegistrySteps, UnderLock,
     Refreshing
<1>8. ASSUME NEW c \in Callers, R!RollbackLocks(c) PROVE R!SomeCopySurvives'
  BY <1>8 DEF R!RollbackLocks, R!Go, R!Quiet, R!disk, R!calls, R!refresh, R!faces,
     R!hist, RegistryNames, RegistryShape, HoldersOnly, StepsTell, R!SomeCopySurvives,
     R!Versions, RegistrySteps, UnderLock, Refreshing
<1>9. ASSUME NEW c \in Callers, R!RollbackAside(c) PROVE R!SomeCopySurvives'
  BY <1>9 DEF R!RollbackAside, R!Fails, R!Go, R!Stay, R!CanFail, R!Failed, R!Quiet,
     R!disk, R!calls, R!refresh, R!faces, R!hist, RegistryNames, RegistryShape,
     HoldersOnly, StepsTell, R!SomeCopySurvives, R!Versions, RegistrySteps, UnderLock,
     Refreshing
<1>10. ASSUME NEW c \in Callers, R!RollbackRestores(c) PROVE R!SomeCopySurvives'
  BY <1>10 DEF R!RollbackRestores, R!Fails, R!Go, R!Stay, R!CanFail, R!Failed, R!Moves,
     R!Quiet, R!disk, R!calls, R!refresh, R!faces, R!hist, RegistryNames, RegistryShape,
     HoldersOnly, StepsTell, R!SomeCopySurvives, R!Versions, RegistrySteps, UnderLock,
     Refreshing
<1>11. ASSUME NEW c \in Callers, R!Uninstall(c) PROVE R!SomeCopySurvives'
  BY <1>11 DEF R!Uninstall, R!Go, R!Moves, R!Quiet, R!disk, R!calls, R!refresh, R!faces,
     R!hist, RegistryNames, RegistryShape, HoldersOnly, StepsTell, R!SomeCopySurvives,
     R!Versions, RegistrySteps, UnderLock, Refreshing
<1>12. ASSUME NEW c \in Callers, R!SetEnabled(c) PROVE R!SomeCopySurvives'
  BY <1>12 DEF R!SetEnabled, R!Go, R!Moves, R!Quiet, R!disk, R!calls, R!refresh,
     R!faces, R!hist, RegistryNames, RegistryShape, HoldersOnly, StepsTell,
     R!SomeCopySurvives, R!Versions, RegistrySteps, UnderLock, Refreshing
<1>13. ASSUME NEW c \in Callers, R!Unlocks(c) PROVE R!SomeCopySurvives'
  BY <1>13 DEF R!Unlocks, R!Leaves, R!Go, R!Quiet, R!disk, R!calls, R!refresh, R!faces,
     R!hist, RegistryNames, RegistryShape, HoldersOnly, StepsTell, R!SomeCopySurvives,
     R!Versions, RegistrySteps, UnderLock, Refreshing
<1>14. ASSUME NEW c \in Callers, R!RefreshLocks(c) PROVE R!SomeCopySurvives'
  BY <1>14 DEF R!RefreshLocks, R!Go, R!Stay, R!Quiet, R!disk, R!calls, R!refresh,
     R!faces, R!hist, RegistryNames, RegistryShape, HoldersOnly, StepsTell,
     R!SomeCopySurvives, R!Versions, RegistrySteps, UnderLock, Refreshing
<1>15. ASSUME NEW c \in Callers, R!RefreshChecks(c) PROVE R!SomeCopySurvives'
  BY <1>15 DEF R!RefreshChecks, R!Go, R!Stay, R!Quiet, R!disk, R!calls, R!refresh,
     R!faces, R!hist, RegistryNames, RegistryShape, HoldersOnly, StepsTell,
     R!SomeCopySurvives, R!Versions, RegistrySteps, UnderLock, Refreshing
<1>16. ASSUME NEW c \in Callers, R!Rebuilds(c) PROVE R!SomeCopySurvives'
  BY <1>16 DEF R!Rebuilds, R!Go, R!Stay, R!Quiet, R!disk, R!calls, R!refresh, R!faces,
     R!hist, RegistryNames, RegistryShape, HoldersOnly, StepsTell, R!SomeCopySurvives,
     R!Versions, RegistrySteps, UnderLock, Refreshing
<1>17. ASSUME NEW c \in Callers, R!RefreshNotes(c) PROVE R!SomeCopySurvives'
  BY <1>17 DEF R!RefreshNotes, R!Go, R!Stay, R!Quiet, R!disk, R!calls, R!refresh,
     R!faces, R!hist, RegistryNames, RegistryShape, HoldersOnly, StepsTell,
     R!SomeCopySurvives, R!Versions, RegistrySteps, UnderLock, Refreshing
<1>18. ASSUME NEW f \in Faces, R!FaceReads(f) PROVE R!SomeCopySurvives'
  BY <1>18 DEF R!FaceReads, R!Quiet, R!disk, R!calls, R!refresh, R!faces, R!hist,
     RegistryNames, RegistryShape, HoldersOnly, StepsTell, R!SomeCopySurvives,
     R!Versions, RegistrySteps, UnderLock, Refreshing
<1>19. ASSUME NEW f \in Faces, R!FaceScans(f) PROVE R!SomeCopySurvives'
  BY <1>19 DEF R!FaceScans, R!Quiet, R!disk, R!calls, R!refresh, R!faces, R!hist,
     RegistryNames, RegistryShape, HoldersOnly, StepsTell, R!SomeCopySurvives,
     R!Versions, RegistrySteps, UnderLock, Refreshing
<1>20. CASE R!Crash
  BY <1>20 DEF R!Crash, R!Over, R!Quiet, R!disk, R!calls, R!refresh, R!faces, R!hist,
     RegistryNames, RegistryShape, HoldersOnly, StepsTell, R!SomeCopySurvives,
     R!Versions, RegistrySteps, UnderLock, Refreshing
<1> QED BY <1>1, <1>2, <1>3, <1>4, <1>5, <1>6, <1>7, <1>8, <1>9, <1>10, <1>11, <1>12,
   <1>13, <1>14, <1>15, <1>16, <1>17, <1>18, <1>19, <1>20 DEF R!Next

\* A scan is cached under a revision read before it.
LEMMA ScansAreFreshStep ==
  ASSUME RegistryNames, RegistryShape, ScansAreFresh, R!Next
  PROVE  ScansAreFresh'
<1>1. ASSUME NEW c \in Callers, R!Stages(c) PROVE ScansAreFresh'
  BY <1>1 DEF R!Stages, R!Go, R!Quiet, R!disk, R!calls, R!refresh, R!faces, R!hist,
     RegistryNames, RegistryShape, ScansAreFresh, R!FreshRead
<1>2. ASSUME NEW c \in Callers, R!Install(c) PROVE ScansAreFresh'
  BY <1>2 DEF R!Install, R!Go, R!Fails, R!Failed, R!CanFail, R!Moves, R!Stay, R!Quiet,
     R!disk, R!calls, R!refresh, R!faces, R!hist, RegistryNames, RegistryShape,
     ScansAreFresh, R!FreshRead
<1>3. ASSUME NEW c \in Callers, R!UpdateLocks(c) PROVE ScansAreFresh'
  BY <1>3 DEF R!UpdateLocks, R!Fails, R!Go, R!Stay, R!Quiet, R!disk, R!calls, R!refresh,
     R!faces, R!hist, RegistryNames, RegistryShape, ScansAreFresh, R!FreshRead
<1>4. ASSUME NEW c \in Callers, R!UpdateAside(c) PROVE ScansAreFresh'
  BY <1>4 DEF R!UpdateAside, R!Fails, R!Go, R!Stay, R!CanFail, R!Failed, R!Quiet,
     R!disk, R!calls, R!refresh, R!faces, R!hist, RegistryNames, RegistryShape,
     ScansAreFresh, R!FreshRead
<1>5. ASSUME NEW c \in Callers, R!UpdateSwaps(c) PROVE ScansAreFresh'
  BY <1>5 DEF R!UpdateSwaps, R!Fails, R!Go, R!Stay, R!CanFail, R!Failed, R!Moves,
     R!Quiet, R!disk, R!calls, R!refresh, R!faces, R!hist, RegistryNames, RegistryShape,
     ScansAreFresh, R!FreshRead
<1>6. ASSUME NEW c \in Callers, R!SnapshotMoves(c) PROVE ScansAreFresh'
  BY <1>6 DEF R!SnapshotMoves, R!Fails, R!Go, R!Stay, R!CanFail, R!Failed, R!Quiet,
     R!disk, R!calls, R!refresh, R!faces, R!hist, RegistryNames, RegistryShape,
     ScansAreFresh, R!FreshRead
<1>7. ASSUME NEW c \in Callers, R!SnapshotCommits(c) PROVE ScansAreFresh'
  BY <1>7 DEF R!SnapshotCommits, R!Fails, R!Go, R!Stay, R!CanFail, R!Failed, R!Quiet,
     R!disk, R!calls, R!refresh, R!faces, R!hist, RegistryNames, RegistryShape,
     ScansAreFresh, R!FreshRead
<1>8. ASSUME NEW c \in Callers, R!RollbackLocks(c) PROVE ScansAreFresh'
  BY <1>8 DEF R!RollbackLocks, R!Go, R!Quiet, R!disk, R!calls, R!refresh, R!faces,
     R!hist, RegistryNames, RegistryShape, ScansAreFresh, R!FreshRead
<1>9. ASSUME NEW c \in Callers, R!RollbackAside(c) PROVE ScansAreFresh'
  BY <1>9 DEF R!RollbackAside, R!Fails, R!Go, R!Stay, R!CanFail, R!Failed, R!Quiet,
     R!disk, R!calls, R!refresh, R!faces, R!hist, RegistryNames, RegistryShape,
     ScansAreFresh, R!FreshRead
<1>10. ASSUME NEW c \in Callers, R!RollbackRestores(c) PROVE ScansAreFresh'
  BY <1>10 DEF R!RollbackRestores, R!Fails, R!Go, R!Stay, R!CanFail, R!Failed, R!Moves,
     R!Quiet, R!disk, R!calls, R!refresh, R!faces, R!hist, RegistryNames, RegistryShape,
     ScansAreFresh, R!FreshRead
<1>11. ASSUME NEW c \in Callers, R!Uninstall(c) PROVE ScansAreFresh'
  BY <1>11 DEF R!Uninstall, R!Go, R!Moves, R!Quiet, R!disk, R!calls, R!refresh, R!faces,
     R!hist, RegistryNames, RegistryShape, ScansAreFresh, R!FreshRead
<1>12. ASSUME NEW c \in Callers, R!SetEnabled(c) PROVE ScansAreFresh'
  BY <1>12 DEF R!SetEnabled, R!Go, R!Moves, R!Quiet, R!disk, R!calls, R!refresh,
     R!faces, R!hist, RegistryNames, RegistryShape, ScansAreFresh, R!FreshRead
<1>13. ASSUME NEW c \in Callers, R!Unlocks(c) PROVE ScansAreFresh'
  BY <1>13 DEF R!Unlocks, R!Leaves, R!Go, R!Quiet, R!disk, R!calls, R!refresh, R!faces,
     R!hist, RegistryNames, RegistryShape, ScansAreFresh, R!FreshRead
<1>14. ASSUME NEW c \in Callers, R!RefreshLocks(c) PROVE ScansAreFresh'
  BY <1>14 DEF R!RefreshLocks, R!Go, R!Stay, R!Quiet, R!disk, R!calls, R!refresh,
     R!faces, R!hist, RegistryNames, RegistryShape, ScansAreFresh, R!FreshRead
<1>15. ASSUME NEW c \in Callers, R!RefreshChecks(c) PROVE ScansAreFresh'
  BY <1>15 DEF R!RefreshChecks, R!Go, R!Stay, R!Quiet, R!disk, R!calls, R!refresh,
     R!faces, R!hist, RegistryNames, RegistryShape, ScansAreFresh, R!FreshRead
<1>16. ASSUME NEW c \in Callers, R!Rebuilds(c) PROVE ScansAreFresh'
  BY <1>16 DEF R!Rebuilds, R!Go, R!Stay, R!Quiet, R!disk, R!calls, R!refresh, R!faces,
     R!hist, RegistryNames, RegistryShape, ScansAreFresh, R!FreshRead
<1>17. ASSUME NEW c \in Callers, R!RefreshNotes(c) PROVE ScansAreFresh'
  BY <1>17 DEF R!RefreshNotes, R!Go, R!Stay, R!Quiet, R!disk, R!calls, R!refresh,
     R!faces, R!hist, RegistryNames, RegistryShape, ScansAreFresh, R!FreshRead
<1>18. ASSUME NEW f \in Faces, R!FaceReads(f) PROVE ScansAreFresh'
  BY <1>18 DEF R!FaceReads, R!Quiet, R!disk, R!calls, R!refresh, R!faces, R!hist,
     RegistryNames, RegistryShape, ScansAreFresh, R!FreshRead
<1>19. ASSUME NEW f \in Faces, R!FaceScans(f) PROVE ScansAreFresh'
  BY <1>19 DEF R!FaceScans, R!Quiet, R!disk, R!calls, R!refresh, R!faces, R!hist,
     RegistryNames, RegistryShape, ScansAreFresh, R!FreshRead
<1>20. CASE R!Crash
  BY <1>20 DEF R!Crash, R!Over, R!Quiet, R!disk, R!calls, R!refresh, R!faces, R!hist,
     RegistryNames, RegistryShape, ScansAreFresh, R!FreshRead
<1> QED BY <1>1, <1>2, <1>3, <1>4, <1>5, <1>6, <1>7, <1>8, <1>9, <1>10, <1>11, <1>12,
   <1>13, <1>14, <1>15, <1>16, <1>17, <1>18, <1>19, <1>20 DEF R!Next

\* A pass covers the revision read before its rebuild.
LEMMA LoopCoversStep ==
  ASSUME RegistryNames, RegistryShape, HoldersOnly, LoopCovers, R!Next
  PROVE  LoopCovers'
<1>1. ASSUME NEW c \in Callers, R!Stages(c) PROVE LoopCovers'
  BY <1>1 DEF R!Stages, R!Go, R!Quiet, R!disk, R!calls, R!refresh, R!faces, R!hist,
     RegistryNames, RegistryShape, HoldersOnly, LoopCovers, R!CallerIsCovered,
     RegistrySteps, UnderLock, Refreshing
<1>2. ASSUME NEW c \in Callers, R!Install(c) PROVE LoopCovers'
  BY <1>2 DEF R!Install, R!Go, R!Fails, R!Failed, R!CanFail, R!Moves, R!Stay, R!Quiet,
     R!disk, R!calls, R!refresh, R!faces, R!hist, RegistryNames, RegistryShape,
     HoldersOnly, LoopCovers, R!CallerIsCovered, RegistrySteps, UnderLock, Refreshing
<1>3. ASSUME NEW c \in Callers, R!UpdateLocks(c) PROVE LoopCovers'
  BY <1>3 DEF R!UpdateLocks, R!Fails, R!Go, R!Stay, R!Quiet, R!disk, R!calls, R!refresh,
     R!faces, R!hist, RegistryNames, RegistryShape, HoldersOnly, LoopCovers,
     R!CallerIsCovered, RegistrySteps, UnderLock, Refreshing
<1>4. ASSUME NEW c \in Callers, R!UpdateAside(c) PROVE LoopCovers'
  BY <1>4 DEF R!UpdateAside, R!Fails, R!Go, R!Stay, R!CanFail, R!Failed, R!Quiet,
     R!disk, R!calls, R!refresh, R!faces, R!hist, RegistryNames, RegistryShape,
     HoldersOnly, LoopCovers, R!CallerIsCovered, RegistrySteps, UnderLock, Refreshing
<1>5. ASSUME NEW c \in Callers, R!UpdateSwaps(c) PROVE LoopCovers'
  BY <1>5 DEF R!UpdateSwaps, R!Fails, R!Go, R!Stay, R!CanFail, R!Failed, R!Moves,
     R!Quiet, R!disk, R!calls, R!refresh, R!faces, R!hist, RegistryNames, RegistryShape,
     HoldersOnly, LoopCovers, R!CallerIsCovered, RegistrySteps, UnderLock, Refreshing
<1>6. ASSUME NEW c \in Callers, R!SnapshotMoves(c) PROVE LoopCovers'
  BY <1>6 DEF R!SnapshotMoves, R!Fails, R!Go, R!Stay, R!CanFail, R!Failed, R!Quiet,
     R!disk, R!calls, R!refresh, R!faces, R!hist, RegistryNames, RegistryShape,
     HoldersOnly, LoopCovers, R!CallerIsCovered, RegistrySteps, UnderLock, Refreshing
<1>7. ASSUME NEW c \in Callers, R!SnapshotCommits(c) PROVE LoopCovers'
  BY <1>7 DEF R!SnapshotCommits, R!Fails, R!Go, R!Stay, R!CanFail, R!Failed, R!Quiet,
     R!disk, R!calls, R!refresh, R!faces, R!hist, RegistryNames, RegistryShape,
     HoldersOnly, LoopCovers, R!CallerIsCovered, RegistrySteps, UnderLock, Refreshing
<1>8. ASSUME NEW c \in Callers, R!RollbackLocks(c) PROVE LoopCovers'
  BY <1>8 DEF R!RollbackLocks, R!Go, R!Quiet, R!disk, R!calls, R!refresh, R!faces,
     R!hist, RegistryNames, RegistryShape, HoldersOnly, LoopCovers, R!CallerIsCovered,
     RegistrySteps, UnderLock, Refreshing
<1>9. ASSUME NEW c \in Callers, R!RollbackAside(c) PROVE LoopCovers'
  BY <1>9 DEF R!RollbackAside, R!Fails, R!Go, R!Stay, R!CanFail, R!Failed, R!Quiet,
     R!disk, R!calls, R!refresh, R!faces, R!hist, RegistryNames, RegistryShape,
     HoldersOnly, LoopCovers, R!CallerIsCovered, RegistrySteps, UnderLock, Refreshing
<1>10. ASSUME NEW c \in Callers, R!RollbackRestores(c) PROVE LoopCovers'
  BY <1>10 DEF R!RollbackRestores, R!Fails, R!Go, R!Stay, R!CanFail, R!Failed, R!Moves,
     R!Quiet, R!disk, R!calls, R!refresh, R!faces, R!hist, RegistryNames, RegistryShape,
     HoldersOnly, LoopCovers, R!CallerIsCovered, RegistrySteps, UnderLock, Refreshing
<1>11. ASSUME NEW c \in Callers, R!Uninstall(c) PROVE LoopCovers'
  BY <1>11 DEF R!Uninstall, R!Go, R!Moves, R!Quiet, R!disk, R!calls, R!refresh, R!faces,
     R!hist, RegistryNames, RegistryShape, HoldersOnly, LoopCovers, R!CallerIsCovered,
     RegistrySteps, UnderLock, Refreshing
<1>12. ASSUME NEW c \in Callers, R!SetEnabled(c) PROVE LoopCovers'
  BY <1>12 DEF R!SetEnabled, R!Go, R!Moves, R!Quiet, R!disk, R!calls, R!refresh,
     R!faces, R!hist, RegistryNames, RegistryShape, HoldersOnly, LoopCovers,
     R!CallerIsCovered, RegistrySteps, UnderLock, Refreshing
<1>13. ASSUME NEW c \in Callers, R!Unlocks(c) PROVE LoopCovers'
  BY <1>13 DEF R!Unlocks, R!Leaves, R!Go, R!Quiet, R!disk, R!calls, R!refresh, R!faces,
     R!hist, RegistryNames, RegistryShape, HoldersOnly, LoopCovers, R!CallerIsCovered,
     RegistrySteps, UnderLock, Refreshing
<1>14. ASSUME NEW c \in Callers, R!RefreshLocks(c) PROVE LoopCovers'
  BY <1>14 DEF R!RefreshLocks, R!Go, R!Stay, R!Quiet, R!disk, R!calls, R!refresh,
     R!faces, R!hist, RegistryNames, RegistryShape, HoldersOnly, LoopCovers,
     R!CallerIsCovered, RegistrySteps, UnderLock, Refreshing
<1>15. ASSUME NEW c \in Callers, R!RefreshChecks(c) PROVE LoopCovers'
  BY <1>15 DEF R!RefreshChecks, R!Go, R!Stay, R!Quiet, R!disk, R!calls, R!refresh,
     R!faces, R!hist, RegistryNames, RegistryShape, HoldersOnly, LoopCovers,
     R!CallerIsCovered, RegistrySteps, UnderLock, Refreshing
<1>16. ASSUME NEW c \in Callers, R!Rebuilds(c) PROVE LoopCovers'
  BY <1>16 DEF R!Rebuilds, R!Go, R!Stay, R!Quiet, R!disk, R!calls, R!refresh, R!faces,
     R!hist, RegistryNames, RegistryShape, HoldersOnly, LoopCovers, R!CallerIsCovered,
     RegistrySteps, UnderLock, Refreshing
<1>17. ASSUME NEW c \in Callers, R!RefreshNotes(c) PROVE LoopCovers'
  BY <1>17 DEF R!RefreshNotes, R!Go, R!Stay, R!Quiet, R!disk, R!calls, R!refresh,
     R!faces, R!hist, RegistryNames, RegistryShape, HoldersOnly, LoopCovers,
     R!CallerIsCovered, RegistrySteps, UnderLock, Refreshing
<1>18. ASSUME NEW f \in Faces, R!FaceReads(f) PROVE LoopCovers'
  BY <1>18 DEF R!FaceReads, R!Quiet, R!disk, R!calls, R!refresh, R!faces, R!hist,
     RegistryNames, RegistryShape, HoldersOnly, LoopCovers, R!CallerIsCovered,
     RegistrySteps, UnderLock, Refreshing
<1>19. ASSUME NEW f \in Faces, R!FaceScans(f) PROVE LoopCovers'
  BY <1>19 DEF R!FaceScans, R!Quiet, R!disk, R!calls, R!refresh, R!faces, R!hist,
     RegistryNames, RegistryShape, HoldersOnly, LoopCovers, R!CallerIsCovered,
     RegistrySteps, UnderLock, Refreshing
<1>20. CASE R!Crash
  BY <1>20 DEF R!Crash, R!Over, R!Quiet, R!disk, R!calls, R!refresh, R!faces, R!hist,
     RegistryNames, RegistryShape, HoldersOnly, LoopCovers, R!CallerIsCovered,
     RegistrySteps, UnderLock, Refreshing
<1> QED BY <1>1, <1>2, <1>3, <1>4, <1>5, <1>6, <1>7, <1>8, <1>9, <1>10, <1>11, <1>12,
   <1>13, <1>14, <1>15, <1>16, <1>17, <1>18, <1>19, <1>20 DEF R!Next

\* The inductive invariant holds of a registry nobody has touched (Store.Scan).
LEMMA RegistryStarts ==
  ASSUME RegistryNames, R!Init
  PROVE  RegistryInv
<1> USE DEF R!Init
<1>1. RegistryShape /\ HoldersOnly /\ StepsTell
  BY DEF RegistryNames, RegistryShape, HoldersOnly, StepsTell, RegistrySteps, UnderLock,
         Refreshing
<1>2. MovesAreTold
  BY DEF MovesAreTold, Told, R!RevisionCovers, R!Content
<1>3. R!RollbackKept /\ R!SomeCopySurvives
  BY DEF R!RollbackKept, R!SomeCopySurvives
<1>4. ScansAreFresh /\ LoopCovers
  BY DEF ScansAreFresh, R!FreshRead, LoopCovers, R!CallerIsCovered, Refreshing
<1> QED BY <1>1, <1>2, <1>3, <1>4 DEF RegistryInv

\* The inductive invariant of the registry: what the holder of Store.mu may say of the
\* directories at each rename, and what the revision has been told (plugin.go).
THEOREM RegistryInvariance == RegistryNames => (R!Spec => []RegistryInv)
<1> SUFFICES ASSUME RegistryNames PROVE R!Spec => []RegistryInv
  OBVIOUS
<1>1. R!Init => RegistryInv
  BY RegistryStarts
<1>2. RegistryInv /\ [R!Next]_R!vars => RegistryInv'
  <2> SUFFICES ASSUME RegistryInv, [R!Next]_R!vars PROVE RegistryInv'
    OBVIOUS
  <2>1. CASE R!Next
    BY <2>1, RegistryShapeStep, HoldersOnlyStep, StepsTellStep, MovesAreToldStep,
       RollbackKeptStep, SomeCopySurvivesStep, ScansAreFreshStep, LoopCoversStep
       DEF RegistryInv
  <2>2. CASE UNCHANGED R!vars
    <3> USE <2>2 DEF R!vars, R!disk, R!calls, R!refresh, R!faces, R!hist, RegistryInv
    <3>1. RegistryShape' /\ HoldersOnly' /\ StepsTell'
      BY DEF RegistryShape, HoldersOnly, StepsTell
    <3>2. MovesAreTold' /\ R!RollbackKept' /\ R!SomeCopySurvives'
      BY DEF MovesAreTold, Told, R!RevisionCovers, R!Content, R!RollbackKept, R!SomeCopySurvives
    <3>3. ScansAreFresh' /\ LoopCovers'
      BY DEF ScansAreFresh, R!FreshRead, LoopCovers, R!CallerIsCovered
    <3> QED BY <3>1, <3>2, <3>3
  <2> QED BY <2>1, <2>2
<1> QED BY <1>1, <1>2, PTL DEF R!Spec

\* RegistryTypeOK: who is between two renames or two passes holds the lock, and nothing
\* was built or cached at a revision that has not been (plugin.go, plugin_refresh.go).
THEOREM RegistryTyping == RegistryNames => (R!Spec => []R!RegistryTypeOK)
<1>1. RegistryInv => R!RegistryTypeOK
  BY DEF RegistryInv, RegistryShape, HoldersOnly, UnderLock, Refreshing, ScansAreFresh,
         LoopCovers, R!RegistryTypeOK
<1> QED BY <1>1, RegistryInvariance, PTL

\* SwapIsNewer: an update never puts an older version over a newer one, whatever landed
\* while it staged its files (Store.Update).
THEOREM SwapsGoForward == RegistryNames => (R!Spec => []R!SwapIsNewer)
<1>1. RegistryInv => R!SwapIsNewer
  BY DEF RegistryInv, StepsTell, R!SwapIsNewer
<1> QED BY <1>1, RegistryInvariance, PTL

\* RollbackKept: until the new snapshot is in place the last good rollback is
\* (Store.Update, commitRollbackSnapshot).
THEOREM RollbackSurvives == RegistryNames => (R!Spec => []R!RollbackKept)
<1>1. RegistryInv => R!RollbackKept
  BY DEF RegistryInv
<1> QED BY <1>1, RegistryInvariance, PTL

\* SomeCopySurvives: failed renames and deaths of the process leave some directory with
\* a version of the plugin (Store.Update, Store.Rollback).
THEOREM PluginSurvives == RegistryNames => (R!Spec => []R!SomeCopySurvives)
<1>1. RegistryInv => R!SomeCopySurvives
  BY DEF RegistryInv
<1> QED BY <1>1, RegistryInvariance, PTL

\* RevisionCovers: the content changes only with the revision (Store.rev), through
\* every failing rename but one: when the rename that restores the plugin fails too,
\* the plugin is gone from its place and the revision does not say so.
THEOREM RevisionIsMoved == RegistryNames => (R!Spec => []R!RevisionCovers)
<1>1. RegistryInv => R!RevisionCovers
  BY DEF RegistryInv, MovesAreTold
<1> QED BY <1>1, RegistryInvariance, PTL

\* FreshRead: a read of the agent's scan that begins after a mutation sees it
\* (agent.Host.entries).
THEOREM ReadsAreFresh == RegistryNames => (R!Spec => []R!FreshRead)
<1>1. RegistryInv => R!FreshRead
  BY DEF RegistryInv, ScansAreFresh
<1> QED BY <1>1, RegistryInvariance, PTL

\* CallerIsCovered: when RefreshPluginRuntime returns, the runtime was assembled at the
\* revision its caller's mutation left, or later, in at most two passes of its own.
THEOREM RefreshCoversCaller == RegistryNames => (R!Spec => []R!CallerIsCovered)
<1>1. RegistryInv => R!CallerIsCovered
  BY DEF RegistryInv, LoopCovers
<1> QED BY <1>1, RegistryInvariance, PTL

-----------------------------------------------------------------------------
(* Prompts: the questions of one turn.                                       *)

PromptsShape ==
    /\ turn \in {"started", "bound", "ended", "unbound", "left"} /\ closed \in BOOLEAN
    /\ state \in [Prompts -> {"none", "open", "ended", "replied"}]
    /\ ask \in [Prompts -> {"none", "look", "notify", "wait", "deliver", "over"}]
    /\ ch \in [Prompts -> Nat] /\ window \in [Prompts -> {"unseen", "open", "resolved"}]
    /\ pending \subseteq Prompts /\ taken \subseteq Prompts /\ announced \subseteq Prompts

\* A prompt has one answer: in its entry until an Answer took it, with that Answer
\* until it was sent, in the channel until it was received.
OneAnswer ==
    /\ P!AnswerNeverBlocks
    /\ \A p \in Prompts :
         /\ p \in pending => ch[p] = 0 /\ p \notin taken /\ ask[p] \in {"notify", "wait"}
         /\ ask[p] \in {"none", "look"} => ch[p] = 0 /\ p \notin taken /\ p \notin pending

\* Where the answer to an open prompt is at each step of its question.
AskTells ==
    \A p \in Prompts :
        /\ ask[p] = "none" <=> state[p] = "none"
        /\ window[p] = "open" => ask[p] \in {"wait", "deliver", "over"}
        /\ p \in announced => state[p] = "ended"
        /\ state[p] = "open" /\ ask[p] \in {"notify", "wait"} =>
             p \in pending \/ p \in taken \/ ch[p] > 0
        /\ state[p] = "open" /\ ask[p] = "over" =>
             <<p, "started", "open">> \in dropped \/ <<p, "left", "open">> \in dropped
        /\ state[p] = "open" => turn \in {"started", "bound", "left"}

PromptsInv == PromptsShape /\ OneAnswer /\ AskTells /\ P!DroppedIsLate

\* Every action keeps the shape of the state.
LEMMA PromptsShapeStep ==
  ASSUME PromptsShape, P!Next
  PROVE  PromptsShape'
<1>1. CASE P!BindTurn
  BY <1>1 DEF P!BindTurn, P!backend, P!broker, PromptsShape
<1>2. CASE P!TurnEnds
  BY <1>2 DEF P!TurnEnds, P!Ended, P!backend, P!broker, PromptsShape
<1>3. CASE P!UnbindTurn
  BY <1>3 DEF P!UnbindTurn, P!backend, P!broker, PromptsShape
<1>4. CASE P!Close
  BY <1>4 DEF P!Close, P!backend, P!broker, PromptsShape
<1>5. ASSUME NEW p \in Prompts, P!AskUser(p) PROVE PromptsShape'
  BY <1>5 DEF P!AskUser, P!To, P!backend, P!broker, PromptsShape
<1>6. ASSUME NEW p \in Prompts, P!PromptEnds(p) PROVE PromptsShape'
  BY <1>6 DEF P!PromptEnds, P!Ended, P!backend, P!broker, PromptsShape
<1>7. ASSUME NEW p \in Prompts, P!AutoApproves(p) PROVE PromptsShape'
  BY <1>7 DEF P!AutoApproves, P!To, P!backend, P!broker, PromptsShape
<1>8. ASSUME NEW p \in Prompts, P!Registers(p) PROVE PromptsShape'
  BY <1>8 DEF P!Registers, P!To, P!backend, P!broker, PromptsShape
<1>9. ASSUME NEW p \in Prompts, P!Notifies(p) PROVE PromptsShape'
  BY <1>9 DEF P!Notifies, P!To, P!backend, P!broker, PromptsShape
<1>10. ASSUME NEW p \in Prompts, P!Receives(p) PROVE PromptsShape'
  BY <1>10 DEF P!Receives, P!To, P!backend, P!broker, PromptsShape
<1>11. ASSUME NEW p \in Prompts, P!AskFails(p) PROVE PromptsShape'
  BY <1>11 DEF P!AskFails, P!To, P!backend, P!broker, PromptsShape
<1>12. ASSUME NEW p \in Prompts, P!Deliver(p) PROVE PromptsShape'
  BY <1>12 DEF P!Deliver, P!To, P!backend, P!broker, PromptsShape
<1>13. ASSUME NEW p \in Prompts, P!AnswerTakes(p) PROVE PromptsShape'
  BY <1>13 DEF P!AnswerTakes, P!backend, P!broker, PromptsShape
<1>14. ASSUME NEW p \in Prompts, P!AnswerSends(p) PROVE PromptsShape'
  BY <1>14 DEF P!AnswerSends, P!backend, P!broker, PromptsShape
<1>15. ASSUME NEW p \in Prompts, P!Resolve(p) PROVE PromptsShape'
  BY <1>15 DEF P!Resolve, P!backend, P!broker, PromptsShape
<1> QED BY <1>1, <1>2, <1>3, <1>4, <1>5, <1>6, <1>7, <1>8, <1>9, <1>10, <1>11, <1>12,
   <1>13, <1>14, <1>15 DEF P!Next

\* The entry, the Answer that took it and the channel hold one answer together.
LEMMA OneAnswerStep ==
  ASSUME PromptsShape, OneAnswer, AskTells, P!Next
  PROVE  OneAnswer'
<1>1. CASE P!BindTurn
  BY <1>1 DEF P!BindTurn, P!backend, P!broker, PromptsShape, OneAnswer, AskTells,
     P!AnswerNeverBlocks
<1>2. CASE P!TurnEnds
  BY <1>2 DEF P!TurnEnds, P!Ended, P!backend, P!broker, PromptsShape, OneAnswer,
     AskTells, P!AnswerNeverBlocks
<1>3. CASE P!UnbindTurn
  BY <1>3 DEF P!UnbindTurn, P!backend, P!broker, PromptsShape, OneAnswer, AskTells,
     P!AnswerNeverBlocks
<1>4. CASE P!Close
  BY <1>4 DEF P!Close, P!backend, P!broker, PromptsShape, OneAnswer, AskTells,
     P!AnswerNeverBlocks
<1>5. ASSUME NEW p \in Prompts, P!AskUser(p) PROVE OneAnswer'
  BY <1>5 DEF P!AskUser, P!To, P!backend, P!broker, PromptsShape, OneAnswer, AskTells,
     P!AnswerNeverBlocks
<1>6. ASSUME NEW p \in Prompts, P!PromptEnds(p) PROVE OneAnswer'
  BY <1>6 DEF P!PromptEnds, P!Ended, P!backend, P!broker, PromptsShape, OneAnswer,
     AskTells, P!AnswerNeverBlocks
<1>7. ASSUME NEW p \in Prompts, P!AutoApproves(p) PROVE OneAnswer'
  BY <1>7 DEF P!AutoApproves, P!To, P!backend, P!broker, PromptsShape, OneAnswer,
     AskTells, P!AnswerNeverBlocks
<1>8. ASSUME NEW p \in Prompts, P!Registers(p) PROVE OneAnswer'
  BY <1>8 DEF P!Registers, P!To, P!backend, P!broker, PromptsShape, OneAnswer, AskTells,
     P!AnswerNeverBlocks
<1>9. ASSUME NEW p \in Prompts, P!Notifies(p) PROVE OneAnswer'
  BY <1>9 DEF P!Notifies, P!To, P!backend, P!broker, PromptsShape, OneAnswer, AskTells,
     P!AnswerNeverBlocks
<1>10. ASSUME NEW p \in Prompts, P!Receives(p) PROVE OneAnswer'
  BY <1>10 DEF P!Receives, P!To, P!backend, P!broker, PromptsShape, OneAnswer, AskTells,
     P!AnswerNeverBlocks
<1>11. ASSUME NEW p \in Prompts, P!AskFails(p) PROVE OneAnswer'
  BY <1>11 DEF P!AskFails, P!To, P!backend, P!broker, PromptsShape, OneAnswer, AskTells,
     P!AnswerNeverBlocks
<1>12. ASSUME NEW p \in Prompts, P!Deliver(p) PROVE OneAnswer'
  BY <1>12 DEF P!Deliver, P!To, P!backend, P!broker, PromptsShape, OneAnswer, AskTells,
     P!AnswerNeverBlocks
<1>13. ASSUME NEW p \in Prompts, P!AnswerTakes(p) PROVE OneAnswer'
  BY <1>13 DEF P!AnswerTakes, P!backend, P!broker, PromptsShape, OneAnswer, AskTells,
     P!AnswerNeverBlocks
<1>14. ASSUME NEW p \in Prompts, P!AnswerSends(p) PROVE OneAnswer'
  BY <1>14 DEF P!AnswerSends, P!backend, P!broker, PromptsShape, OneAnswer, AskTells,
     P!AnswerNeverBlocks
<1>15. ASSUME NEW p \in Prompts, P!Resolve(p) PROVE OneAnswer'
  BY <1>15 DEF P!Resolve, P!backend, P!broker, PromptsShape, OneAnswer, AskTells,
     P!AnswerNeverBlocks
<1> QED BY <1>1, <1>2, <1>3, <1>4, <1>5, <1>6, <1>7, <1>8, <1>9, <1>10, <1>11, <1>12,
   <1>13, <1>14, <1>15 DEF P!Next

\* Until its question is over an open prompt keeps its answer, and no prompt is open
\* after its turn.
LEMMA AskTellsStep ==
  ASSUME PromptsShape, OneAnswer, AskTells, P!Next
  PROVE  AskTells'
<1>1. CASE P!BindTurn
  BY <1>1 DEF P!BindTurn, P!backend, P!broker, PromptsShape, OneAnswer,
     P!AnswerNeverBlocks, AskTells
<1>2. CASE P!TurnEnds
  BY <1>2 DEF P!TurnEnds, P!Ended, P!backend, P!broker, PromptsShape, OneAnswer,
     P!AnswerNeverBlocks, AskTells
<1>3. CASE P!UnbindTurn
  BY <1>3 DEF P!UnbindTurn, P!backend, P!broker, PromptsShape, OneAnswer,
     P!AnswerNeverBlocks, AskTells
<1>4. CASE P!Close
  BY <1>4 DEF P!Close, P!backend, P!broker, PromptsShape, OneAnswer,
     P!AnswerNeverBlocks, AskTells
<1>5. ASSUME NEW p \in Prompts, P!AskUser(p) PROVE AskTells'
  BY <1>5 DEF P!AskUser, P!To, P!backend, P!broker, PromptsShape, OneAnswer,
     P!AnswerNeverBlocks, AskTells
<1>6. ASSUME NEW p \in Prompts, P!PromptEnds(p) PROVE AskTells'
  BY <1>6 DEF P!PromptEnds, P!Ended, P!backend, P!broker, PromptsShape, OneAnswer,
     P!AnswerNeverBlocks, AskTells
<1>7. ASSUME NEW p \in Prompts, P!AutoApproves(p) PROVE AskTells'
  BY <1>7 DEF P!AutoApproves, P!To, P!backend, P!broker, PromptsShape, OneAnswer,
     P!AnswerNeverBlocks, AskTells
<1>8. ASSUME NEW p \in Prompts, P!Registers(p) PROVE AskTells'
  BY <1>8 DEF P!Registers, P!To, P!backend, P!broker, PromptsShape, OneAnswer,
     P!AnswerNeverBlocks, AskTells
<1>9. ASSUME NEW p \in Prompts, P!Notifies(p) PROVE AskTells'
  BY <1>9 DEF P!Notifies, P!To, P!backend, P!broker, PromptsShape, OneAnswer,
     P!AnswerNeverBlocks, AskTells
<1>10. ASSUME NEW p \in Prompts, P!Receives(p) PROVE AskTells'
  BY <1>10 DEF P!Receives, P!To, P!backend, P!broker, PromptsShape, OneAnswer,
     P!AnswerNeverBlocks, AskTells
<1>11. ASSUME NEW p \in Prompts, P!AskFails(p) PROVE AskTells'
  BY <1>11 DEF P!AskFails, P!To, P!backend, P!broker, PromptsShape, OneAnswer,
     P!AnswerNeverBlocks, AskTells
<1>12. ASSUME NEW p \in Prompts, P!Deliver(p) PROVE AskTells'
  <2>1. CASE turn \notin {"bound", "ended"}
    <3>1. /\ dropped' = dropped \cup {<<p, turn, state[p]>>}
          /\ ask[p] = "deliver" /\ ask' = [ask EXCEPT ![p] = "over"]
          /\ UNCHANGED <<turn, state, announced, pending, ch, taken, window>>
      BY <1>12, <2>1 DEF P!Deliver, P!To, P!backend
    <3>2. CASE turn \in {"started", "left"}
      BY <3>1, <3>2 DEF PromptsShape, AskTells
    <3>3. CASE turn = "unbound"
      BY <3>1, <3>3 DEF PromptsShape, AskTells
    <3> QED BY <2>1, <3>2, <3>3 DEF PromptsShape
  <2>2. CASE turn \in {"bound", "ended"} /\ state[p] = "open"
    <3>1. /\ state' = [state EXCEPT ![p] = "replied"]
          /\ ask[p] = "deliver" /\ ask' = [ask EXCEPT ![p] = "over"]
          /\ UNCHANGED <<turn, announced, dropped, pending, ch, taken, window>>
      BY <1>12, <2>2 DEF P!Deliver, P!To, P!backend
    <3> QED BY <2>2, <3>1 DEF PromptsShape, AskTells
  <2>3. CASE turn \in {"bound", "ended"} /\ state[p] # "open"
    <3>1. /\ ask[p] = "deliver" /\ ask' = [ask EXCEPT ![p] = "over"]
          /\ UNCHANGED <<turn, state, announced, dropped, pending, ch, taken, window>>
      BY <1>12, <2>3 DEF P!Deliver, P!To, P!backend, P!broker
    <3> QED BY <2>3, <3>1 DEF PromptsShape, AskTells
  <2> QED BY <2>1, <2>2, <2>3
<1>13. ASSUME NEW p \in Prompts, P!AnswerTakes(p) PROVE AskTells'
  BY <1>13 DEF P!AnswerTakes, P!backend, P!broker, PromptsShape, OneAnswer,
     P!AnswerNeverBlocks, AskTells
<1>14. ASSUME NEW p \in Prompts, P!AnswerSends(p) PROVE AskTells'
  <2>1. /\ ch' = [ch EXCEPT ![p] = ch[p] + 1] /\ taken' = taken \ {p} /\ ch[p] = 0
        /\ UNCHANGED <<turn, state, announced, ask, dropped, pending, window>>
    BY <1>14 DEF P!AnswerSends, P!backend, P!broker, PromptsShape, OneAnswer, P!AnswerNeverBlocks
  <2>2. ASSUME NEW q \in Prompts, state'[q] = "open", ask'[q] \in {"notify", "wait"}
        PROVE  q \in pending' \/ q \in taken' \/ ch'[q] > 0
    <3>1. CASE q = p
      BY <2>1, <3>1 DEF PromptsShape
    <3>2. CASE q # p
      BY <2>1, <2>2, <3>2 DEF PromptsShape, AskTells
    <3> QED BY <3>1, <3>2
  <2> QED BY <2>1, <2>2 DEF AskTells
<1>15. ASSUME NEW p \in Prompts, P!Resolve(p) PROVE AskTells'
  BY <1>15 DEF P!Resolve, P!backend, P!broker, PromptsShape, OneAnswer,
     P!AnswerNeverBlocks, AskTells
<1> QED BY <1>1, <1>2, <1>3, <1>4, <1>5, <1>6, <1>7, <1>8, <1>9, <1>10, <1>11, <1>12,
   <1>13, <1>14, <1>15 DEF P!Next

\* A reply that finds its turn over finds its prompt ended.
LEMMA DroppedIsLateStep ==
  ASSUME PromptsShape, AskTells, P!DroppedIsLate, P!Next
  PROVE  P!DroppedIsLate'
<1>1. CASE P!BindTurn
  BY <1>1 DEF P!BindTurn, P!backend, P!broker, PromptsShape, AskTells, P!DroppedIsLate
<1>2. CASE P!TurnEnds
  BY <1>2 DEF P!TurnEnds, P!Ended, P!backend, P!broker, PromptsShape, AskTells,
     P!DroppedIsLate
<1>3. CASE P!UnbindTurn
  BY <1>3 DEF P!UnbindTurn, P!backend, P!broker, PromptsShape, AskTells, P!DroppedIsLate
<1>4. CASE P!Close
  BY <1>4 DEF P!Close, P!backend, P!broker, PromptsShape, AskTells, P!DroppedIsLate
<1>5. ASSUME NEW p \in Prompts, P!AskUser(p) PROVE P!DroppedIsLate'
  BY <1>5 DEF P!AskUser, P!To, P!backend, P!broker, PromptsShape, AskTells,
     P!DroppedIsLate
<1>6. ASSUME NEW p \in Prompts, P!PromptEnds(p) PROVE P!DroppedIsLate'
  BY <1>6 DEF P!PromptEnds, P!Ended, P!backend, P!broker, PromptsShape, AskTells,
     P!DroppedIsLate
<1>7. ASSUME NEW p \in Prompts, P!AutoApproves(p) PROVE P!DroppedIsLate'
  BY <1>7 DEF P!AutoApproves, P!To, P!backend, P!broker, PromptsShape, AskTells,
     P!DroppedIsLate
<1>8. ASSUME NEW p \in Prompts, P!Registers(p) PROVE P!DroppedIsLate'
  BY <1>8 DEF P!Registers, P!To, P!backend, P!broker, PromptsShape, AskTells,
     P!DroppedIsLate
<1>9. ASSUME NEW p \in Prompts, P!Notifies(p) PROVE P!DroppedIsLate'
  BY <1>9 DEF P!Notifies, P!To, P!backend, P!broker, PromptsShape, AskTells,
     P!DroppedIsLate
<1>10. ASSUME NEW p \in Prompts, P!Receives(p) PROVE P!DroppedIsLate'
  BY <1>10 DEF P!Receives, P!To, P!backend, P!broker, PromptsShape, AskTells,
     P!DroppedIsLate
<1>11. ASSUME NEW p \in Prompts, P!AskFails(p) PROVE P!DroppedIsLate'
  BY <1>11 DEF P!AskFails, P!To, P!backend, P!broker, PromptsShape, AskTells,
     P!DroppedIsLate
<1>12. ASSUME NEW p \in Prompts, P!Deliver(p) PROVE P!DroppedIsLate'
  <2>1. CASE turn \notin {"bound", "ended"}
    <3>1. dropped' = dropped \cup {<<p, turn, state[p]>>}
      BY <1>12, <2>1 DEF P!Deliver
    <3>2. state[p] = "open" => turn \in {"started", "left"}
      BY <2>1 DEF AskTells
    <3> QED BY <3>1, <3>2 DEF P!DroppedIsLate
  <2>2. CASE turn \in {"bound", "ended"} /\ state[p] = "open"
    <3>1. /\ state' = [state EXCEPT ![p] = "replied"]
          /\ ask[p] = "deliver" /\ ask' = [ask EXCEPT ![p] = "over"]
          /\ UNCHANGED <<turn, announced, dropped, pending, ch, taken, window>>
      BY <1>12, <2>2 DEF P!Deliver, P!To, P!backend
    <3> QED BY <2>2, <3>1 DEF PromptsShape, P!DroppedIsLate
  <2>3. CASE turn \in {"bound", "ended"} /\ state[p] # "open"
    <3>1. /\ ask[p] = "deliver" /\ ask' = [ask EXCEPT ![p] = "over"]
          /\ UNCHANGED <<turn, state, announced, dropped, pending, ch, taken, window>>
      BY <1>12, <2>3 DEF P!Deliver, P!To, P!backend, P!broker
    <3> QED BY <2>3, <3>1 DEF PromptsShape, P!DroppedIsLate
  <2> QED BY <2>1, <2>2, <2>3
<1>13. ASSUME NEW p \in Prompts, P!AnswerTakes(p) PROVE P!DroppedIsLate'
  BY <1>13 DEF P!AnswerTakes, P!backend, P!broker, PromptsShape, AskTells,
     P!DroppedIsLate
<1>14. ASSUME NEW p \in Prompts, P!AnswerSends(p) PROVE P!DroppedIsLate'
  BY <1>14 DEF P!AnswerSends, P!backend, P!broker, PromptsShape, AskTells,
     P!DroppedIsLate
<1>15. ASSUME NEW p \in Prompts, P!Resolve(p) PROVE P!DroppedIsLate'
  BY <1>15 DEF P!Resolve, P!backend, P!broker, PromptsShape, AskTells, P!DroppedIsLate
<1> QED BY <1>1, <1>2, <1>3, <1>4, <1>5, <1>6, <1>7, <1>8, <1>9, <1>10, <1>11, <1>12,
   <1>13, <1>14, <1>15 DEF P!Next

\* The inductive invariant of the questions of a turn: where the one answer of a prompt
\* is, and where its goroutine (broker.go, prompt.go).
THEOREM PromptsInvariance == P!Spec => []PromptsInv
<1>1. P!Init => PromptsInv
  <2> SUFFICES ASSUME P!Init PROVE PromptsInv
    OBVIOUS
  <2>1. PromptsShape
    BY DEF P!Init, PromptsShape
  <2>2. OneAnswer
    BY DEF P!Init, OneAnswer, P!AnswerNeverBlocks
  <2>3. AskTells
    BY DEF P!Init, AskTells
  <2>4. P!DroppedIsLate
    BY DEF P!Init, P!DroppedIsLate
  <2> QED BY <2>1, <2>2, <2>3, <2>4 DEF PromptsInv
<1>2. PromptsInv /\ [P!Next]_P!vars => PromptsInv'
  <2> SUFFICES ASSUME PromptsInv, [P!Next]_P!vars PROVE PromptsInv'
    OBVIOUS
  <2>1. CASE P!Next
    BY <2>1, PromptsShapeStep, OneAnswerStep, AskTellsStep, DroppedIsLateStep DEF PromptsInv
  <2>2. CASE UNCHANGED P!vars
    BY <2>2 DEF P!vars, P!broker, P!backend, PromptsInv, PromptsShape, OneAnswer,
       P!AnswerNeverBlocks, AskTells, P!DroppedIsLate
  <2> QED BY <2>1, <2>2
<1> QED BY <1>1, <1>2, PTL DEF P!Spec

\* PromptsTypeOK: the entry of a prompt is there or taken, never both, while its Ask
\* waits (Prompt.Ask, Prompt.Answer).
THEOREM PromptsTyping == P!Spec => []P!PromptsTypeOK
<1>1. PromptsInv => P!PromptsTypeOK
  BY DEF PromptsInv, PromptsShape, OneAnswer, AskTells, P!PromptsTypeOK
<1> QED BY <1>1, PromptsInvariance, PTL

\* AnswerNeverBlocks: the channel of a prompt never holds a second reply, however often
\* the window answers (Prompt.Answer).
THEOREM AnswersNeverBlock == P!Spec => []P!AnswerNeverBlocks
<1>1. PromptsInv => P!AnswerNeverBlocks
  BY DEF PromptsInv, OneAnswer
<1> QED BY <1>1, PromptsInvariance, PTL

\* OpenIsAnswerable: a prompt on screen that the runtime waits for can be answered, or
\* its answer is on its way, or was dropped before the turn was bound or after the
\* run's caller gave up (Prompt.Ask, Prompt.Answer, Broker.deliver, Run.settle).
THEOREM OpenPromptsAreAnswerable == P!Spec => []P!OpenIsAnswerable
<1>1. PromptsInv => P!OpenIsAnswerable
  BY DEF PromptsInv, PromptsShape, AskTells, P!OpenIsAnswerable
<1> QED BY <1>1, PromptsInvariance, PTL

\* DroppedIsLate: the reply to an open prompt is dropped only before the turn was bound
\* or after the settle of a caller that gave up unbound it (Broker.deliver, Run.settle).
THEOREM DroppedRepliesAreLate == P!Spec => []P!DroppedIsLate
<1>1. PromptsInv => P!DroppedIsLate
  BY DEF PromptsInv
<1> QED BY <1>1, PromptsInvariance, PTL

-----------------------------------------------------------------------------
(* ReviewQueue: the facts a review proposes and the user's verdict.          *)

\* What the rows, the calls and the memory can be.
Row == [conv : Convs, turn : Nat, text : Texts, status : {"pending", "accepted", "discarded"}]
ReviewShape ==
    /\ turns \in [Convs -> Nat] /\ at \in [Convs -> {"idle", "facts", "known", "queue"}]
    /\ known \in [Convs -> SUBSET Texts] /\ cands \in [Convs -> SUBSET Texts]
    /\ rows \subseteq Row /\ live \subseteq Texts /\ stale \subseteq Texts
    /\ live \cap stale = {}
    /\ ppc \in [Pages -> {"idle", "add", "mark", "over"}]
    /\ rpc \in [Revivers -> {"idle", "write", "over"}]
    /\ prow \in [Pages -> Row \cup {NoRow}] /\ rtext \in [Revivers -> Texts \cup {NoText}]
    /\ rflag \in [Revivers -> BOOLEAN]
    /\ \A w \in Pages : ppc[w] \in {"add", "mark"} => prow[w] \in Row
    /\ missed \in [Convs -> SUBSET Row] /\ overtaken \subseteq Row

\* A review that queues knows every fact its conversation proposed in a row it read.
QueuesKnow ==
    \A c \in Convs : at[c] = "queue" => \A r \in rows : r.conv = c =>
        r.text \in known[c] \/ \E m \in missed[c] : Q!Same(m, r)

\* A row is told from all others by its conversation, its turn and its fact: the review
\* of a turn knows what it proposed for it.
RowsApart ==
    /\ \A r, q \in rows : Q!Same(r, q) => r = q
    /\ \A c \in Convs : \A r \in rows : r.conv = c =>
        /\ at[c] \in {"facts", "known"} => r.turn < turns[c]
        /\ at[c] = "queue" /\ r.turn = turns[c] => r.text \in known[c]

\* An accept that still holds a discarded row had it when it was discarded.
AcceptsTold ==
    \A w \in Pages : ppc[w] = "add" => \A r \in rows :
        r.status = "discarded" /\ Q!Same(prow[w], r) => \E o \in overtaken : Q!Same(o, r)

\* A row names a turn that ended, and a review that is over has no candidates left.
RowsDated ==
    /\ \A r \in rows : r.turn <= turns[r.conv]
    /\ \A c \in Convs : at[c] = "idle" => cands[c] = {}

\* A call marks the row whose fact it wrote.
MarksWritten ==
    /\ \A w \in Pages : ppc[w] = "mark" => prow[w] \in applied
    /\ Q!AcceptedWasWritten

\* Every action keeps the shape of the state, and no fact is both live and retired.
LEMMA ReviewShapeStep ==
  ASSUME ReviewShape, Q!Next
  PROVE  ReviewShape'
<1>1. ASSUME NEW c \in Convs, Q!OnRunEnd(c) PROVE ReviewShape'
  BY <1>1 DEF Q!OnRunEnd, Q!Step, Q!reviewVars, Q!pageVars, Q!reviveVars, ReviewShape,
     Row
<1>2. ASSUME NEW c \in Convs, Q!ReviewReads(c) PROVE ReviewShape'
  BY <1>2 DEF Q!ReviewReads, Q!Step, Q!reviewVars, Q!pageVars, Q!reviveVars,
     ReviewShape, Row
<1>3. ASSUME NEW c \in Convs, Q!KnownReads(c) PROVE ReviewShape'
  BY <1>3 DEF Q!KnownReads, Q!Listed, Q!Step, Q!reviewVars, Q!pageVars, Q!reviveVars,
     ReviewShape, Row
<1>4. ASSUME NEW c \in Convs, Q!Queues(c) PROVE ReviewShape'
  BY <1>4 DEF Q!Queues, Q!Step, Q!Create, Q!reviewVars, Q!pageVars, Q!reviveVars,
     ReviewShape, Row
<1>5. ASSUME NEW w \in Pages, Q!Discard(w) PROVE ReviewShape'
  BY <1>5 DEF Q!Discard, Q!Accepts, Q!SetStatus, Q!Same, Q!reviewVars, Q!pageVars, Q!reviveVars,
     ReviewShape, Row
<1>6. ASSUME NEW w \in Pages, Q!AcceptReads(w) PROVE ReviewShape'
  BY <1>6 DEF Q!AcceptReads, Q!reviewVars, Q!pageVars, Q!reviveVars, ReviewShape, Row
<1>7. ASSUME NEW w \in Pages, Q!AcceptAdds(w) PROVE ReviewShape'
  BY <1>7 DEF Q!AcceptAdds, Q!Add, Q!reviewVars, Q!pageVars, Q!reviveVars, ReviewShape,
     Row
<1>8. ASSUME NEW w \in Pages, Q!AcceptMarks(w) PROVE ReviewShape'
  BY <1>8 DEF Q!AcceptMarks, Q!SetStatus, Q!Same, Q!reviewVars, Q!pageVars,
     Q!reviveVars, ReviewShape, Row
<1>9. ASSUME NEW v \in Revivers, Q!StaleReads(v) PROVE ReviewShape'
  BY <1>9 DEF Q!StaleReads, Q!reviewVars, Q!pageVars, Q!reviveVars, ReviewShape, Row
<1>10. ASSUME NEW v \in Revivers, Q!StaleWrites(v) PROVE ReviewShape'
  BY <1>10 DEF Q!StaleWrites, Q!Marks, Q!reviewVars, Q!pageVars, Q!reviveVars,
     ReviewShape, Row
<1>11. CASE Q!Remove
  BY <1>11 DEF Q!Remove, Q!reviewVars, Q!pageVars, Q!reviveVars, ReviewShape, Row
<1>12. CASE Q!Crash
  BY <1>12 DEF Q!Crash, Q!reviewVars, Q!pageVars, Q!reviveVars, ReviewShape, Row
<1> QED BY <1>1, <1>2, <1>3, <1>4, <1>5, <1>6, <1>7, <1>8, <1>9, <1>10, <1>11, <1>12 DEF
   Q!Next

\* A turn is counted before a row names it; nothing but an end empties the candidates.
LEMMA RowsDatedStep ==
  ASSUME ReviewShape, RowsDated, Q!Next
  PROVE  RowsDated'
<1>1. ASSUME NEW c \in Convs, Q!OnRunEnd(c) PROVE RowsDated'
  BY <1>1 DEF Q!OnRunEnd, Q!Step, Q!reviewVars, Q!pageVars, Q!reviveVars,
     ReviewShape, Row, RowsDated
<1>2. ASSUME NEW c \in Convs, Q!ReviewReads(c) PROVE RowsDated'
  BY <1>2 DEF Q!ReviewReads, Q!Step, Q!reviewVars, Q!pageVars, Q!reviveVars,
     ReviewShape, Row, RowsDated
<1>3. ASSUME NEW c \in Convs, Q!KnownReads(c) PROVE RowsDated'
  BY <1>3 DEF Q!KnownReads, Q!Step, Q!reviewVars, Q!pageVars, Q!reviveVars,
     ReviewShape, Row, RowsDated
<1>4. ASSUME NEW c \in Convs, Q!Queues(c) PROVE RowsDated'
  BY <1>4 DEF Q!Queues, Q!Step, Q!Create, Q!reviewVars, Q!pageVars, Q!reviveVars,
     ReviewShape, Row, RowsDated
<1>5. ASSUME NEW w \in Pages, Q!Discard(w) PROVE RowsDated'
  BY <1>5 DEF Q!Discard, Q!Accepts, Q!SetStatus, Q!Same, Q!reviewVars, Q!pageVars, Q!reviveVars,
     ReviewShape, Row, RowsDated
<1>6. ASSUME NEW w \in Pages, Q!AcceptReads(w) PROVE RowsDated'
  BY <1>6 DEF Q!AcceptReads, Q!reviewVars, Q!pageVars, Q!reviveVars,
     ReviewShape, Row, RowsDated
<1>7. ASSUME NEW w \in Pages, Q!AcceptAdds(w) PROVE RowsDated'
  BY <1>7 DEF Q!AcceptAdds, Q!reviewVars, Q!pageVars, Q!reviveVars,
     ReviewShape, Row, RowsDated
<1>8. ASSUME NEW w \in Pages, Q!AcceptMarks(w) PROVE RowsDated'
  BY <1>8 DEF Q!AcceptMarks, Q!SetStatus, Q!Same, Q!reviewVars, Q!pageVars, Q!reviveVars,
     ReviewShape, Row, RowsDated
<1>9. ASSUME NEW v \in Revivers, Q!StaleReads(v) PROVE RowsDated'
  BY <1>9 DEF Q!StaleReads, Q!reviewVars, Q!pageVars, Q!reviveVars,
     ReviewShape, Row, RowsDated
<1>10. ASSUME NEW v \in Revivers, Q!StaleWrites(v) PROVE RowsDated'
  BY <1>10 DEF Q!StaleWrites, Q!reviewVars, Q!pageVars, Q!reviveVars,
     ReviewShape, Row, RowsDated
<1>11. CASE Q!Remove
  BY <1>11 DEF Q!Remove, Q!reviewVars, Q!pageVars, Q!reviveVars,
     ReviewShape, Row, RowsDated
<1>12. CASE Q!Crash
  BY <1>12 DEF Q!Crash, Q!reviewVars, Q!pageVars, Q!reviveVars,
     ReviewShape, Row, RowsDated
<1> QED BY <1>1, <1>2, <1>3, <1>4, <1>5, <1>6, <1>7,
   <1>8, <1>9, <1>10, <1>11, <1>12 DEF Q!Next

\* A review knows what its conversation proposed, but for the rows it did not read.
LEMMA QueuesKnowStep ==
  ASSUME ReviewShape, QueuesKnow, Q!Next
  PROVE  QueuesKnow'
<1>1. ASSUME NEW c \in Convs, Q!OnRunEnd(c) PROVE QueuesKnow'
  BY <1>1 DEF Q!OnRunEnd, Q!Step, Q!reviewVars, Q!pageVars, Q!reviveVars, ReviewShape,
     Row, QueuesKnow, Q!Same
<1>2. ASSUME NEW c \in Convs, Q!ReviewReads(c) PROVE QueuesKnow'
  BY <1>2 DEF Q!ReviewReads, Q!Step, Q!reviewVars, Q!pageVars, Q!reviveVars,
     ReviewShape, Row, QueuesKnow, Q!Same
<1>3. ASSUME NEW c \in Convs, Q!KnownReads(c) PROVE QueuesKnow'
  BY <1>3 DEF Q!KnownReads, Q!Step, Q!Listed, Q!reviewVars, Q!pageVars, Q!reviveVars,
     ReviewShape, Row, QueuesKnow, Q!Same
<1>4. ASSUME NEW c \in Convs, Q!Queues(c) PROVE QueuesKnow'
  BY <1>4 DEF Q!Queues, Q!Step, Q!Create, Q!reviewVars, Q!pageVars, Q!reviveVars,
     ReviewShape, Row, QueuesKnow, Q!Same
<1>5. ASSUME NEW w \in Pages, Q!Discard(w) PROVE QueuesKnow'
  BY <1>5 DEF Q!Discard, Q!SetStatus, Q!Accepts, Q!reviewVars, Q!pageVars, Q!reviveVars,
     ReviewShape, Row, QueuesKnow, Q!Same
<1>6. ASSUME NEW w \in Pages, Q!AcceptReads(w) PROVE QueuesKnow'
  BY <1>6 DEF Q!AcceptReads, Q!reviewVars, Q!pageVars, Q!reviveVars, ReviewShape, Row,
     QueuesKnow, Q!Same
<1>7. ASSUME NEW w \in Pages, Q!AcceptAdds(w) PROVE QueuesKnow'
  BY <1>7 DEF Q!AcceptAdds, Q!reviewVars, Q!pageVars, Q!reviveVars, ReviewShape, Row,
     QueuesKnow, Q!Same
<1>8. ASSUME NEW w \in Pages, Q!AcceptMarks(w) PROVE QueuesKnow'
  BY <1>8 DEF Q!AcceptMarks, Q!SetStatus, Q!reviewVars, Q!pageVars, Q!reviveVars,
     ReviewShape, Row, QueuesKnow, Q!Same
<1>9. ASSUME NEW v \in Revivers, Q!StaleReads(v) PROVE QueuesKnow'
  BY <1>9 DEF Q!StaleReads, Q!reviewVars, Q!pageVars, Q!reviveVars, ReviewShape, Row,
     QueuesKnow, Q!Same
<1>10. ASSUME NEW v \in Revivers, Q!StaleWrites(v) PROVE QueuesKnow'
  BY <1>10 DEF Q!StaleWrites, Q!reviewVars, Q!pageVars, Q!reviveVars, ReviewShape, Row,
     QueuesKnow, Q!Same
<1>11. CASE Q!Remove
  BY <1>11 DEF Q!Remove, Q!reviewVars, Q!pageVars, Q!reviveVars, ReviewShape, Row,
     QueuesKnow, Q!Same
<1>12. CASE Q!Crash
  BY <1>12 DEF Q!Crash, Q!reviewVars, Q!pageVars, Q!reviveVars, ReviewShape, Row,
     QueuesKnow, Q!Same
<1> QED BY <1>1, <1>2, <1>3, <1>4, <1>5, <1>6, <1>7, <1>8, <1>9, <1>10, <1>11, <1>12 DEF
   Q!Next

\* A row is proposed by one review of one turn, which knows what it proposed itself.
LEMMA RowsApartStep ==
  ASSUME ReviewShape, RowsDated, RowsApart, Q!Next
  PROVE  RowsApart'
<1>1. ASSUME NEW c \in Convs, Q!OnRunEnd(c) PROVE RowsApart'
  BY <1>1 DEF Q!OnRunEnd, Q!Step, Q!reviewVars, Q!pageVars, Q!reviveVars, ReviewShape,
     Row, RowsDated, RowsApart, Q!Same
<1>2. ASSUME NEW c \in Convs, Q!ReviewReads(c) PROVE RowsApart'
  BY <1>2 DEF Q!ReviewReads, Q!Step, Q!reviewVars, Q!pageVars, Q!reviveVars,
     ReviewShape, Row, RowsDated, RowsApart, Q!Same
<1>3. ASSUME NEW c \in Convs, Q!KnownReads(c) PROVE RowsApart'
  BY <1>3 DEF Q!KnownReads, Q!Step, Q!Listed, Q!reviewVars, Q!pageVars, Q!reviveVars,
     ReviewShape, Row, RowsDated, RowsApart, Q!Same
<1>4. ASSUME NEW c \in Convs, Q!Queues(c) PROVE RowsApart'
  BY <1>4 DEF Q!Queues, Q!Step, Q!Create, Q!reviewVars, Q!pageVars, Q!reviveVars,
     ReviewShape, Row, RowsDated, RowsApart, Q!Same
<1>5. ASSUME NEW w \in Pages, Q!Discard(w) PROVE RowsApart'
  BY <1>5 DEF Q!Discard, Q!SetStatus, Q!Accepts, Q!reviewVars, Q!pageVars, Q!reviveVars,
     ReviewShape, Row, RowsDated, RowsApart, Q!Same
<1>6. ASSUME NEW w \in Pages, Q!AcceptReads(w) PROVE RowsApart'
  BY <1>6 DEF Q!AcceptReads, Q!reviewVars, Q!pageVars, Q!reviveVars, ReviewShape, Row,
     RowsDated, RowsApart, Q!Same
<1>7. ASSUME NEW w \in Pages, Q!AcceptAdds(w) PROVE RowsApart'
  BY <1>7 DEF Q!AcceptAdds, Q!reviewVars, Q!pageVars, Q!reviveVars, ReviewShape, Row,
     RowsDated, RowsApart, Q!Same
<1>8. ASSUME NEW w \in Pages, Q!AcceptMarks(w) PROVE RowsApart'
  BY <1>8 DEF Q!AcceptMarks, Q!SetStatus, Q!reviewVars, Q!pageVars, Q!reviveVars,
     ReviewShape, Row, RowsDated, RowsApart, Q!Same
<1>9. ASSUME NEW v \in Revivers, Q!StaleReads(v) PROVE RowsApart'
  BY <1>9 DEF Q!StaleReads, Q!reviewVars, Q!pageVars, Q!reviveVars, ReviewShape, Row,
     RowsDated, RowsApart, Q!Same
<1>10. ASSUME NEW v \in Revivers, Q!StaleWrites(v) PROVE RowsApart'
  BY <1>10 DEF Q!StaleWrites, Q!reviewVars, Q!pageVars, Q!reviveVars, ReviewShape, Row,
     RowsDated, RowsApart, Q!Same
<1>11. CASE Q!Remove
  BY <1>11 DEF Q!Remove, Q!reviewVars, Q!pageVars, Q!reviveVars, ReviewShape, Row,
     RowsDated, RowsApart, Q!Same
<1>12. CASE Q!Crash
  BY <1>12 DEF Q!Crash, Q!reviewVars, Q!pageVars, Q!reviveVars, ReviewShape, Row,
     RowsDated, RowsApart, Q!Same
<1> QED BY <1>1, <1>2, <1>3, <1>4, <1>5, <1>6, <1>7, <1>8, <1>9, <1>10, <1>11, <1>12 DEF
   Q!Next

\* A discard takes note of the accepts that hold its row; none takes it after that.
LEMMA AcceptsToldStep ==
  ASSUME ReviewShape, RowsApart, AcceptsTold, Q!Next
  PROVE  AcceptsTold'
<1>1. ASSUME NEW c \in Convs, Q!OnRunEnd(c) PROVE AcceptsTold'
  BY <1>1 DEF Q!OnRunEnd, Q!Step, Q!reviewVars, Q!pageVars, Q!reviveVars, ReviewShape,
     Row, RowsApart, AcceptsTold, Q!Same
<1>2. ASSUME NEW c \in Convs, Q!ReviewReads(c) PROVE AcceptsTold'
  BY <1>2 DEF Q!ReviewReads, Q!Step, Q!reviewVars, Q!pageVars, Q!reviveVars,
     ReviewShape, Row, RowsApart, AcceptsTold, Q!Same
<1>3. ASSUME NEW c \in Convs, Q!KnownReads(c) PROVE AcceptsTold'
  BY <1>3 DEF Q!KnownReads, Q!Step, Q!Listed, Q!reviewVars, Q!pageVars, Q!reviveVars,
     ReviewShape, Row, RowsApart, AcceptsTold, Q!Same
<1>4. ASSUME NEW c \in Convs, Q!Queues(c) PROVE AcceptsTold'
  BY <1>4 DEF Q!Queues, Q!Step, Q!Create, Q!reviewVars, Q!pageVars, Q!reviveVars,
     ReviewShape, Row, RowsApart, AcceptsTold, Q!Same
<1>5. ASSUME NEW w \in Pages, Q!Discard(w) PROVE AcceptsTold'
  BY <1>5 DEF Q!Discard, Q!SetStatus, Q!Accepts, Q!reviewVars, Q!pageVars, Q!reviveVars,
     ReviewShape, Row, RowsApart, AcceptsTold, Q!Same
<1>6. ASSUME NEW w \in Pages, Q!AcceptReads(w) PROVE AcceptsTold'
  BY <1>6 DEF Q!AcceptReads, Q!reviewVars, Q!pageVars, Q!reviveVars, ReviewShape, Row,
     RowsApart, AcceptsTold, Q!Same
<1>7. ASSUME NEW w \in Pages, Q!AcceptAdds(w) PROVE AcceptsTold'
  BY <1>7 DEF Q!AcceptAdds, Q!reviewVars, Q!pageVars, Q!reviveVars, ReviewShape, Row,
     RowsApart, AcceptsTold, Q!Same
<1>8. ASSUME NEW w \in Pages, Q!AcceptMarks(w) PROVE AcceptsTold'
  BY <1>8 DEF Q!AcceptMarks, Q!SetStatus, Q!reviewVars, Q!pageVars, Q!reviveVars,
     ReviewShape, Row, RowsApart, AcceptsTold, Q!Same
<1>9. ASSUME NEW v \in Revivers, Q!StaleReads(v) PROVE AcceptsTold'
  BY <1>9 DEF Q!StaleReads, Q!reviewVars, Q!pageVars, Q!reviveVars, ReviewShape, Row,
     RowsApart, AcceptsTold, Q!Same
<1>10. ASSUME NEW v \in Revivers, Q!StaleWrites(v) PROVE AcceptsTold'
  BY <1>10 DEF Q!StaleWrites, Q!reviewVars, Q!pageVars, Q!reviveVars, ReviewShape, Row,
     RowsApart, AcceptsTold, Q!Same
<1>11. CASE Q!Remove
  BY <1>11 DEF Q!Remove, Q!reviewVars, Q!pageVars, Q!reviveVars, ReviewShape, Row,
     RowsApart, AcceptsTold, Q!Same
<1>12. CASE Q!Crash
  BY <1>12 DEF Q!Crash, Q!reviewVars, Q!pageVars, Q!reviveVars, ReviewShape, Row,
     RowsApart, AcceptsTold, Q!Same
<1> QED BY <1>1, <1>2, <1>3, <1>4, <1>5, <1>6, <1>7, <1>8, <1>9, <1>10, <1>11, <1>12 DEF
   Q!Next

\* The memory write comes before the verdict.
LEMMA MarksWrittenStep ==
  ASSUME ReviewShape, MarksWritten, Q!Next
  PROVE  MarksWritten'
<1>1. ASSUME NEW c \in Convs, Q!OnRunEnd(c) PROVE MarksWritten'
  BY <1>1 DEF Q!OnRunEnd, Q!Step, Q!reviewVars, Q!pageVars, Q!reviveVars, ReviewShape,
     Row, MarksWritten, Q!AcceptedWasWritten, Q!Same
<1>2. ASSUME NEW c \in Convs, Q!ReviewReads(c) PROVE MarksWritten'
  BY <1>2 DEF Q!ReviewReads, Q!Step, Q!reviewVars, Q!pageVars, Q!reviveVars,
     ReviewShape, Row, MarksWritten, Q!AcceptedWasWritten, Q!Same
<1>3. ASSUME NEW c \in Convs, Q!KnownReads(c) PROVE MarksWritten'
  BY <1>3 DEF Q!KnownReads, Q!Listed, Q!Step, Q!reviewVars, Q!pageVars, Q!reviveVars,
     ReviewShape, Row, MarksWritten, Q!AcceptedWasWritten, Q!Same
<1>4. ASSUME NEW c \in Convs, Q!Queues(c) PROVE MarksWritten'
  BY <1>4 DEF Q!Queues, Q!Step, Q!Create, Q!reviewVars, Q!pageVars, Q!reviveVars,
     ReviewShape, Row, MarksWritten, Q!AcceptedWasWritten, Q!Same
<1>5. ASSUME NEW w \in Pages, Q!Discard(w) PROVE MarksWritten'
  BY <1>5 DEF Q!Discard, Q!Accepts, Q!SetStatus, Q!Same, Q!reviewVars, Q!pageVars, Q!reviveVars,
     ReviewShape, Row, MarksWritten, Q!AcceptedWasWritten, Q!Same
<1>6. ASSUME NEW w \in Pages, Q!AcceptReads(w) PROVE MarksWritten'
  BY <1>6 DEF Q!AcceptReads, Q!reviewVars, Q!pageVars, Q!reviveVars, ReviewShape, Row,
     MarksWritten, Q!AcceptedWasWritten, Q!Same
<1>7. ASSUME NEW w \in Pages, Q!AcceptAdds(w) PROVE MarksWritten'
  BY <1>7 DEF Q!AcceptAdds, Q!Add, Q!reviewVars, Q!pageVars, Q!reviveVars, ReviewShape,
     Row, MarksWritten, Q!AcceptedWasWritten, Q!Same
<1>8. ASSUME NEW w \in Pages, Q!AcceptMarks(w) PROVE MarksWritten'
  BY <1>8 DEF Q!AcceptMarks, Q!SetStatus, Q!Same, Q!reviewVars, Q!pageVars,
     Q!reviveVars, ReviewShape, Row, MarksWritten, Q!AcceptedWasWritten, Q!Same
<1>9. ASSUME NEW v \in Revivers, Q!StaleReads(v) PROVE MarksWritten'
  BY <1>9 DEF Q!StaleReads, Q!reviewVars, Q!pageVars, Q!reviveVars, ReviewShape, Row,
     MarksWritten, Q!AcceptedWasWritten, Q!Same
<1>10. ASSUME NEW v \in Revivers, Q!StaleWrites(v) PROVE MarksWritten'
  BY <1>10 DEF Q!StaleWrites, Q!Marks, Q!reviewVars, Q!pageVars, Q!reviveVars,
     ReviewShape, Row, MarksWritten, Q!AcceptedWasWritten, Q!Same
<1>11. CASE Q!Remove
  BY <1>11 DEF Q!Remove, Q!reviewVars, Q!pageVars, Q!reviveVars, ReviewShape, Row,
     MarksWritten, Q!AcceptedWasWritten, Q!Same
<1>12. CASE Q!Crash
  BY <1>12 DEF Q!Crash, Q!reviewVars, Q!pageVars, Q!reviveVars, ReviewShape, Row,
     MarksWritten, Q!AcceptedWasWritten, Q!Same
<1> QED BY <1>1, <1>2, <1>3, <1>4, <1>5, <1>6, <1>7, <1>8, <1>9, <1>10, <1>11, <1>12 DEF
   Q!Next

\* SetStatus changes a pending row only, and no row goes.
LEMMA VerdictKeptStep ==
  ASSUME ReviewShape, Q!Next
  PROVE  Q!VerdictKept
<1>1. ASSUME NEW c \in Convs, Q!OnRunEnd(c) PROVE Q!VerdictKept
  BY <1>1 DEF Q!OnRunEnd, Q!Step, Q!reviewVars, Q!pageVars, Q!reviveVars, ReviewShape,
     Row, Q!VerdictKept
<1>2. ASSUME NEW c \in Convs, Q!ReviewReads(c) PROVE Q!VerdictKept
  BY <1>2 DEF Q!ReviewReads, Q!Step, Q!reviewVars, Q!pageVars, Q!reviveVars,
     ReviewShape, Row, Q!VerdictKept
<1>3. ASSUME NEW c \in Convs, Q!KnownReads(c) PROVE Q!VerdictKept
  BY <1>3 DEF Q!KnownReads, Q!Listed, Q!Step, Q!reviewVars, Q!pageVars, Q!reviveVars,
     ReviewShape, Row, Q!VerdictKept
<1>4. ASSUME NEW c \in Convs, Q!Queues(c) PROVE Q!VerdictKept
  BY <1>4 DEF Q!Queues, Q!Step, Q!Create, Q!reviewVars, Q!pageVars, Q!reviveVars,
     ReviewShape, Row, Q!VerdictKept
<1>5. ASSUME NEW w \in Pages, Q!Discard(w) PROVE Q!VerdictKept
  BY <1>5 DEF Q!Discard, Q!Accepts, Q!SetStatus, Q!Same, Q!reviewVars, Q!pageVars, Q!reviveVars,
     ReviewShape, Row, Q!VerdictKept
<1>6. ASSUME NEW w \in Pages, Q!AcceptReads(w) PROVE Q!VerdictKept
  BY <1>6 DEF Q!AcceptReads, Q!reviewVars, Q!pageVars, Q!reviveVars, ReviewShape, Row,
     Q!VerdictKept
<1>7. ASSUME NEW w \in Pages, Q!AcceptAdds(w) PROVE Q!VerdictKept
  BY <1>7 DEF Q!AcceptAdds, Q!Add, Q!reviewVars, Q!pageVars, Q!reviveVars, ReviewShape,
     Row, Q!VerdictKept
<1>8. ASSUME NEW w \in Pages, Q!AcceptMarks(w) PROVE Q!VerdictKept
  BY <1>8 DEF Q!AcceptMarks, Q!SetStatus, Q!Same, Q!reviewVars, Q!pageVars,
     Q!reviveVars, ReviewShape, Row, Q!VerdictKept
<1>9. ASSUME NEW v \in Revivers, Q!StaleReads(v) PROVE Q!VerdictKept
  BY <1>9 DEF Q!StaleReads, Q!reviewVars, Q!pageVars, Q!reviveVars, ReviewShape, Row,
     Q!VerdictKept
<1>10. ASSUME NEW v \in Revivers, Q!StaleWrites(v) PROVE Q!VerdictKept
  BY <1>10 DEF Q!StaleWrites, Q!Marks, Q!reviewVars, Q!pageVars, Q!reviveVars,
     ReviewShape, Row, Q!VerdictKept
<1>11. CASE Q!Remove
  BY <1>11 DEF Q!Remove, Q!reviewVars, Q!pageVars, Q!reviveVars, ReviewShape, Row,
     Q!VerdictKept
<1>12. CASE Q!Crash
  BY <1>12 DEF Q!Crash, Q!reviewVars, Q!pageVars, Q!reviveVars, ReviewShape, Row,
     Q!VerdictKept
<1> QED BY <1>1, <1>2, <1>3, <1>4, <1>5, <1>6, <1>7, <1>8, <1>9, <1>10, <1>11, <1>12 DEF
   Q!Next

\* The cap is a number, and the calls of SetStale can be counted.
ReviewBounds == MaxItems \in Nat /\ IsFiniteSet(Revivers)

\* SetStale's calls that are over, each of which may have revived one fact.
Revived == {v \in Revivers : rpc[v] = "over"}

\* The memory can be counted, and keeps its cap.
CapInv == IsFiniteSet(live) /\ Q!CapHolds

\* The calls that are over can be counted.
LEMMA RevivedCount ==
  ASSUME ReviewBounds
  PROVE  IsFiniteSet(Revived) /\ Cardinality(Revived) \in Nat
BY FS_Subset, FS_CardinalityType DEF ReviewBounds, Revived

\* The same of the state after a step.
LEMMA RevivedCountNext ==
  ASSUME ReviewBounds
  PROVE  IsFiniteSet(Revived') /\ Cardinality(Revived') \in Nat
BY FS_Subset, FS_CardinalityType DEF ReviewBounds, Revived

\* The instance of ReviewQueue counts as this module does.
LEMMA SameCount ==
  ASSUME NEW S
  PROVE  Q!Cardinality(S) = Cardinality(S)
BY DEF Q!Cardinality, Cardinality

\* CapHolds, said with the calls of SetStale that are over.
LEMMA CapCounted ==
  /\ Q!CapHolds <=> Cardinality(live) <= MaxItems + Cardinality(Revived)
  /\ Q!CapHolds' <=> Cardinality(live') <= MaxItems + Cardinality(Revived')
<1>1. Q!Cardinality(live) = Cardinality(live) /\ Q!Cardinality(Revived) = Cardinality(Revived)
  BY SameCount
<1>2. /\ Q!Cardinality(live') = Cardinality(live')
      /\ Q!Cardinality(Revived') = Cardinality(Revived')
  BY SameCount
<1> QED BY <1>1, <1>2 DEF Q!CapHolds, Revived

\* The cap is passed by a revival only: an accepted fact is counted before it is added,
\* and a call of SetStale adds at most one.
LEMMA CapStep ==
  ASSUME ReviewBounds, ReviewShape, CapInv, Q!Next
  PROVE  CapInv'
<1>n. MaxItems \in Nat
  BY DEF ReviewBounds
<1>r. /\ IsFiniteSet(Revived) /\ Cardinality(Revived) \in Nat
      /\ IsFiniteSet(Revived') /\ Cardinality(Revived') \in Nat
  BY RevivedCount, RevivedCountNext
<1>1. IsFiniteSet(live) /\ Cardinality(live) \in Nat
      /\ Cardinality(live) <= MaxItems + Cardinality(Revived)
  <2>1. IsFiniteSet(live) /\ Q!CapHolds
    BY DEF CapInv
  <2> QED BY <2>1, CapCounted, FS_CardinalityType
<1>c. ASSUME IsFiniteSet(live'), Cardinality(live') <= MaxItems + Cardinality(Revived')
      PROVE  CapInv'
  BY <1>c, CapCounted DEF CapInv
<1>2. ASSUME live' \subseteq live, Revived \subseteq Revived' PROVE CapInv'
  <2>1. IsFiniteSet(live') /\ Cardinality(live') <= Cardinality(live)
        /\ Cardinality(live') \in Nat
    BY <1>1, <1>2, FS_Subset, FS_CardinalityType
  <2>2. Cardinality(Revived) <= Cardinality(Revived')
    BY <1>2, <1>r, FS_Subset
  <2>3. Cardinality(live') <= MaxItems + Cardinality(Revived')
    BY <1>n, <1>r, <1>1, <2>1, <2>2
  <2> QED BY <1>c, <2>1, <2>3
<1>3. ASSUME NEW t, live' = live \cup {t}, t \notin live, Cardinality(live) < MaxItems
      PROVE CapInv'
  <2>1. IsFiniteSet(live') /\ Cardinality(live') = Cardinality(live) + 1
    BY <1>1, <1>3, FS_AddElement
  <2>2. Cardinality(live') <= MaxItems + Cardinality(Revived')
    BY <1>n, <1>r, <1>1, <1>3, <2>1
  <2> QED BY <1>c, <2>1, <2>2
<1>4. ASSUME NEW t, NEW v \in Revivers, live' = live \cup {t}, t \notin live,
             v \notin Revived, Revived' = Revived \cup {v}
      PROVE CapInv'
  <2>1. IsFiniteSet(live') /\ Cardinality(live') = Cardinality(live) + 1
    BY <1>1, <1>4, FS_AddElement
  <2>2. Cardinality(Revived') = Cardinality(Revived) + 1
    BY <1>4, <1>r, FS_AddElement
  <2>3. Cardinality(live') <= MaxItems + Cardinality(Revived')
    BY <1>n, <1>r, <1>1, <2>1, <2>2
  <2> QED BY <1>c, <2>1, <2>3
<1>5. ASSUME NEW c \in Convs, Q!OnRunEnd(c) \/ Q!ReviewReads(c) \/ Q!KnownReads(c) \/ Q!Queues(c)
      PROVE CapInv'
  BY <1>2, <1>5 DEF Q!OnRunEnd, Q!ReviewReads, Q!KnownReads, Q!Queues, Q!reviveVars, Revived
<1>6. ASSUME NEW w \in Pages, Q!Discard(w) \/ Q!AcceptReads(w) \/ Q!AcceptMarks(w)
      PROVE CapInv'
  BY <1>2, <1>6 DEF Q!Discard, Q!AcceptReads, Q!AcceptMarks, Q!reviveVars, Revived
<1>7. ASSUME NEW w \in Pages, Q!AcceptAdds(w) PROVE CapInv'
  <2>1. UNCHANGED rpc /\ Revived' = Revived
    BY <1>7 DEF Q!AcceptAdds, Q!reviveVars, Revived
  <2>2. CASE live' = live
    BY <2>1, <2>2, <1>2
  <2>3. CASE Q!Add(prow[w].text)
    <3>1. /\ live' = live \cup {prow[w].text}
          /\ prow[w].text \in live \/ Cardinality(live) < MaxItems
      BY <2>3, SameCount DEF Q!Add
    <3>2. CASE prow[w].text \in live
      BY <3>1, <3>2, <2>1, <1>2
    <3>3. CASE prow[w].text \notin live
      BY <3>1, <3>3, <1>3
    <3> QED BY <3>2, <3>3
  <2> QED BY <1>7, <2>2, <2>3 DEF Q!AcceptAdds
<1>8. ASSUME NEW v \in Revivers, Q!StaleReads(v) PROVE CapInv'
  BY <1>2, <1>8 DEF Q!StaleReads, Q!pageVars, Revived, ReviewShape
<1>9. ASSUME NEW v \in Revivers, Q!StaleWrites(v) PROVE CapInv'
  <2>1. v \notin Revived /\ Revived' = Revived \cup {v}
    BY <1>9 DEF Q!StaleWrites, Revived, ReviewShape
  <2>2. live' \subseteq live \/ live' = live \cup {rtext[v]}
    BY <1>9 DEF Q!StaleWrites, Q!Marks
  <2> QED BY <2>1, <2>2, <1>2, <1>4
<1>10. CASE Q!Remove
  BY <1>2, <1>10 DEF Q!Remove, Q!reviveVars, Revived
<1>11. CASE Q!Crash
  BY <1>2, <1>11 DEF Q!Crash, Revived, ReviewShape
<1> QED BY <1>5, <1>6, <1>7, <1>8, <1>9, <1>10, <1>11 DEF Q!Next

\* The invariant of the review.
ReviewInv ==
    /\ ReviewShape /\ RowsDated /\ QueuesKnow /\ RowsApart /\ AcceptsTold /\ MarksWritten

\* The inductive invariant of the review: what a review and a page's call know of the
\* rows they write (review.go, bindings/review.go).
THEOREM ReviewInvariance == Q!Spec => []ReviewInv
<1>1. Q!Init => ReviewInv
  BY DEF Q!Init, ReviewInv, ReviewShape, RowsDated, QueuesKnow, RowsApart,
         AcceptsTold, MarksWritten, Q!AcceptedWasWritten
<1>2. ReviewInv /\ [Q!Next]_Q!vars => ReviewInv'
  <2> SUFFICES ASSUME ReviewInv, [Q!Next]_Q!vars PROVE ReviewInv'
    OBVIOUS
  <2>1. CASE Q!Next
    BY <2>1, ReviewShapeStep, RowsDatedStep, QueuesKnowStep, RowsApartStep,
       AcceptsToldStep, MarksWrittenStep DEF ReviewInv
  <2>2. CASE UNCHANGED Q!vars
    BY <2>2 DEF Q!vars, Q!reviewVars, Q!pageVars, Q!reviveVars, ReviewInv, ReviewShape,
       RowsDated, QueuesKnow, RowsApart, AcceptsTold, MarksWritten, Q!AcceptedWasWritten
  <2> QED BY <2>1, <2>2
<1> QED BY <1>1, <1>2, PTL DEF Q!Spec

\* ReviewTypeOK: no fact is both live and retired, and a row names a turn that ended
\* (review.go, userstore.go).
THEOREM ReviewTyping == Q!Spec => []Q!ReviewTypeOK
<1>1. ReviewInv => Q!ReviewTypeOK
  BY DEF ReviewInv, ReviewShape, Row, RowsDated, Q!ReviewTypeOK
<1> QED BY <1>1, ReviewInvariance, PTL

\* What a review proposes is new to it: no row it read back has it.
LEMMA ProposesNewStep ==
  ASSUME ReviewInv, Q!Next
  PROVE  Q!ProposesNew
<1> USE DEF ReviewInv
<1> SUFFICES ASSUME NEW r \in rows', \A q \in rows : ~Q!Same(q, r),
                    NEW q \in rows, q.conv = r.conv, q.text = r.text
             PROVE  \E m \in missed[q.conv] : Q!Same(m, q)
  BY DEF Q!ProposesNew
<1>1. PICK c \in Convs : Q!Queues(c)
  BY DEF Q!Next, Q!OnRunEnd, Q!ReviewReads, Q!KnownReads, Q!Discard, Q!AcceptReads,
     Q!AcceptAdds, Q!AcceptMarks, Q!StaleReads, Q!StaleWrites, Q!Remove, Q!Crash,
     Q!SetStatus, Q!Same, ReviewShape, Row
<1>2. PICK t \in cands[c] : t \notin known[c] /\ Q!Create(c, t)
  BY <1>1 DEF Q!Queues, Q!Same
<1>3. r.conv = c /\ r.text = t
  BY <1>2 DEF Q!Create, Q!Same
<1> QED BY <1>1, <1>2, <1>3 DEF Q!Queues, QueuesKnow

\* ProposedOnce: a review of the conversation proposes a fact again only when the row
\* that proposed it is one it did not read back (queueCandidates).
THEOREM FactsAreProposedOnce == Q!Spec => Q!ProposedOnce
<1>1. ReviewInv /\ [Q!Next]_Q!vars => [Q!ProposesNew]_Q!vars
  BY ProposesNewStep
<1> QED BY <1>1, ReviewInvariance, PTL DEF Q!Spec, Q!ProposedOnce

\* A fact is written by an accept, which holds its row.
LEMMA NotWrittenStep ==
  ASSUME ReviewInv, Q!Next
  PROVE  Q!NotWritten
<1> SUFFICES ASSUME NEW r \in rows, r.status = "discarded",
                    NEW a \in applied' \ applied, Q!Same(a, r)
             PROVE  \E o \in overtaken : Q!Same(o, r)
  BY DEF Q!NotWritten
<1>1. PICK w \in Pages : Q!AcceptAdds(w)
  BY DEF Q!Next, Q!OnRunEnd, Q!ReviewReads, Q!KnownReads, Q!Queues, Q!Discard,
     Q!AcceptReads, Q!AcceptMarks, Q!StaleReads, Q!StaleWrites, Q!Remove, Q!Crash,
     Q!pageVars
<1>2. ppc[w] = "add" /\ a = prow[w]
  BY <1>1 DEF Q!AcceptAdds
<1> QED BY <1>2 DEF ReviewInv, AcceptsTold

\* DiscardedIsNotWritten: a row that no accept held when it was discarded is not written
\* to memory from then on (DiscardReviewSuggestion, AcceptReviewSuggestion).
THEOREM DiscardedStaysOut == Q!Spec => Q!DiscardedIsNotWritten
<1>1. ReviewInv /\ [Q!Next]_Q!vars => [Q!NotWritten]_Q!vars
  BY NotWrittenStep
<1> QED BY <1>1, ReviewInvariance, PTL DEF Q!Spec, Q!DiscardedIsNotWritten

\* AcceptedWasWritten: a suggestion is recorded as accepted only after its fact was
\* written, through refusals and deaths (AcceptReviewSuggestion).
THEOREM AcceptedFactsWereWritten == Q!Spec => []Q!AcceptedWasWritten
<1>1. ReviewInv => Q!AcceptedWasWritten
  BY DEF ReviewInv, MarksWritten
<1> QED BY <1>1, ReviewInvariance, PTL

\* VerdictIsFinal: a decided row never changes again (Store.SetStatus).
THEOREM VerdictsAreFinal == Q!Spec => Q!VerdictIsFinal
<1>1. ReviewInv /\ [Q!Next]_Q!vars => [Q!VerdictKept]_Q!vars
  BY VerdictKeptStep DEF ReviewInv
<1> QED BY <1>1, ReviewInvariance, PTL DEF Q!Spec, Q!VerdictIsFinal

\* CapHolds: the memory passes its cap only by the calls of SetStale that read their
\* fact before the transaction that counts, one fact each (userstore.go).
THEOREM MemoryKeepsItsCap == ReviewBounds => (Q!Spec => []Q!CapHolds)
<1> SUFFICES ASSUME ReviewBounds PROVE Q!Spec => []Q!CapHolds
  OBVIOUS
<1>1. Q!Init => CapInv
  <2> SUFFICES ASSUME Q!Init PROVE CapInv
    OBVIOUS
  <2>1. live = {} /\ IsFiniteSet(live) /\ Cardinality(live) = 0
    BY FS_EmptySet DEF Q!Init
  <2>2. Cardinality(live) <= MaxItems + Cardinality(Revived)
    <3>1. MaxItems \in Nat /\ Cardinality(Revived) \in Nat
      BY RevivedCount DEF ReviewBounds
    <3> QED BY <2>1, <3>1
  <2> QED BY <2>1, <2>2, CapCounted DEF CapInv
<1>2. ReviewInv /\ CapInv /\ [Q!Next]_Q!vars => CapInv'
  <2>1. ASSUME CapInv, UNCHANGED Q!vars PROVE CapInv'
    BY <2>1 DEF Q!vars, Q!reviveVars, CapInv, Q!CapHolds
  <2> QED BY <2>1, CapStep DEF ReviewInv
<1>3. CapInv => Q!CapHolds
  BY DEF CapInv
<1> QED BY <1>1, <1>2, <1>3, ReviewInvariance, PTL DEF Q!Spec

-----------------------------------------------------------------------------
(* AgentLifecycle: one declared subagent and its registration.               *)

\* AloneIsConsistent speaks of a single failure: the step that takes a failed one
\* back does not fail as well.
OneFailure == MaxVersion \in Nat /\ MaxFails \in {0, 1} /\ MaxRestarts \in Nat

\* What the steps of the calls, the disk and the runtime can be.
AgentShape ==
    /\ pc \in [Calls -> {"idle", "write", "rollback", "swap", "register", "rewrite", "restore",
                         "reregister", "delete", "over"}]
    /\ next \in 1 .. MaxVersion + 1 /\ disk \in 0 .. next - 1 /\ live \in 0 .. next - 1
    /\ loaded \in 0 .. next - 1
    /\ ver \in [Calls -> 0 .. next - 1] /\ old \in [Calls -> 0 .. next - 1]
    /\ load \in {"idle", "register"} /\ (load = "register" => loaded # 0)
    /\ fails \in Nat /\ restarts \in Nat

\* Calls that did not overlap ran one at a time, and no reload beside them.
OneAtATime ==
    ~overlap =>
        /\ \A o, q \in A!Running : o = q
        /\ load # "idle" => A!Running = {}

\* What the runtime and the disk hold while one call runs alone.
AloneTells ==
    ~overlap =>
        /\ \A o \in Calls :
             /\ pc[o] \in {"write", "rollback"} => live = ver[o] /\ (disk = 0 \/ leftover)
             /\ pc[o] \in {"rollback", "restore", "reregister"} => fails = 1
             /\ pc[o] \in {"swap", "register", "rewrite", "restore", "reregister"} => disk = old[o]
             /\ pc[o] = "swap" => live = disk \/ (live = 0 /\ leftover)
             /\ pc[o] \in {"register", "reregister", "delete"} => live = 0
             /\ pc[o] = "rewrite" => live = ver[o]
        /\ load = "register" => loaded = disk
        /\ A!Running = {} => live = disk \/ (live = 0 /\ leftover)

\* Every action keeps the shape of the state, and versions are those handed out.
LEMMA AgentShapeStep ==
  ASSUME OneFailure, AgentShape, A!Next
  PROVE  AgentShape'
<1>1. ASSUME NEW o \in Calls, A!CreateRegisters(o) PROVE AgentShape'
  BY <1>1 DEF A!CreateRegisters, A!Begins, A!Same, A!CanFail, A!Go, A!callVars,
     A!loadVars, OneFailure, AgentShape
<1>2. ASSUME NEW o \in Calls, A!CreateWrites(o) PROVE AgentShape'
  BY <1>2 DEF A!CreateWrites, A!Same, A!CanFail, A!Go, A!callVars, A!loadVars,
     OneFailure, AgentShape
<1>3. ASSUME NEW o \in Calls, A!CreateRollsBack(o) PROVE AgentShape'
  BY <1>3 DEF A!CreateRollsBack, A!Same, A!CanFail, A!Go, A!callVars, A!loadVars,
     OneFailure, AgentShape
<1>4. ASSUME NEW o \in Calls, A!UpdateReads(o) PROVE AgentShape'
  BY <1>4 DEF A!UpdateReads, A!Begins, A!Same, A!CanFail, A!Go, A!callVars, A!loadVars,
     OneFailure, AgentShape
<1>5. ASSUME NEW o \in Calls, A!UpdateUnregisters(o) PROVE AgentShape'
  BY <1>5 DEF A!UpdateUnregisters, A!Same, A!CanFail, A!Go, A!callVars, A!loadVars,
     OneFailure, AgentShape
<1>6. ASSUME NEW o \in Calls, A!UpdateRegisters(o) PROVE AgentShape'
  BY <1>6 DEF A!UpdateRegisters, A!Same, A!CanFail, A!Go, A!callVars, A!loadVars,
     OneFailure, AgentShape
<1>7. ASSUME NEW o \in Calls, A!UpdateWrites(o) PROVE AgentShape'
  BY <1>7 DEF A!UpdateWrites, A!Same, A!CanFail, A!Go, A!callVars, A!loadVars,
     OneFailure, AgentShape
<1>8. ASSUME NEW o \in Calls, A!RestoreUnregisters(o) PROVE AgentShape'
  BY <1>8 DEF A!RestoreUnregisters, A!Same, A!CanFail, A!Go, A!callVars, A!loadVars,
     OneFailure, AgentShape
<1>9. ASSUME NEW o \in Calls, A!RestoreRegisters(o) PROVE AgentShape'
  BY <1>9 DEF A!RestoreRegisters, A!Same, A!CanFail, A!Go, A!callVars, A!loadVars,
     OneFailure, AgentShape
<1>10. ASSUME NEW o \in Calls, A!RemoveUnregisters(o) PROVE AgentShape'
  BY <1>10 DEF A!RemoveUnregisters, A!Begins, A!Same, A!CanFail, A!Go, A!callVars,
     A!loadVars, OneFailure, AgentShape
<1>11. ASSUME NEW o \in Calls, A!RemoveDeletes(o) PROVE AgentShape'
  BY <1>11 DEF A!RemoveDeletes, A!Same, A!CanFail, A!Go, A!callVars, A!loadVars,
     OneFailure, AgentShape
<1>12. CASE A!Restart
  BY <1>12 DEF A!Restart, A!callVars, A!loadVars, OneFailure, AgentShape
<1>13. CASE A!ReloadReads
  BY <1>13 DEF A!ReloadReads, A!callVars, A!loadVars, OneFailure, AgentShape
<1>14. CASE A!LoadRegisters
  BY <1>14 DEF A!LoadRegisters, A!callVars, A!loadVars, OneFailure, AgentShape
<1> QED BY <1>1, <1>2, <1>3, <1>4, <1>5, <1>6, <1>7, <1>8, <1>9, <1>10, <1>11, <1>12,
   <1>13, <1>14 DEF A!Next

\* A call that begins beside another, or beside a reload, is recorded.
LEMMA OneAtATimeStep ==
  ASSUME OneFailure, AgentShape, OneAtATime, A!Next
  PROVE  OneAtATime'
<1>1. ASSUME NEW o \in Calls, A!CreateRegisters(o) PROVE OneAtATime'
  BY <1>1 DEF A!CreateRegisters, A!Begins, A!Same, A!CanFail, A!Go, A!callVars,
     A!loadVars, AgentShape, OneAtATime, A!Running
<1>2. ASSUME NEW o \in Calls, A!CreateWrites(o) PROVE OneAtATime'
  BY <1>2 DEF A!CreateWrites, A!Same, A!CanFail, A!Go, A!callVars, A!loadVars,
     AgentShape, OneAtATime, A!Running
<1>3. ASSUME NEW o \in Calls, A!CreateRollsBack(o) PROVE OneAtATime'
  BY <1>3 DEF A!CreateRollsBack, A!Same, A!CanFail, A!Go, A!callVars, A!loadVars,
     AgentShape, OneAtATime, A!Running
<1>4. ASSUME NEW o \in Calls, A!UpdateReads(o) PROVE OneAtATime'
  BY <1>4 DEF A!UpdateReads, A!Begins, A!Same, A!CanFail, A!Go, A!callVars, A!loadVars,
     AgentShape, OneAtATime, A!Running
<1>5. ASSUME NEW o \in Calls, A!UpdateUnregisters(o) PROVE OneAtATime'
  BY <1>5 DEF A!UpdateUnregisters, A!Same, A!CanFail, A!Go, A!callVars, A!loadVars,
     AgentShape, OneAtATime, A!Running
<1>6. ASSUME NEW o \in Calls, A!UpdateRegisters(o) PROVE OneAtATime'
  BY <1>6 DEF A!UpdateRegisters, A!Same, A!CanFail, A!Go, A!callVars, A!loadVars,
     AgentShape, OneAtATime, A!Running
<1>7. ASSUME NEW o \in Calls, A!UpdateWrites(o) PROVE OneAtATime'
  BY <1>7 DEF A!UpdateWrites, A!Same, A!CanFail, A!Go, A!callVars, A!loadVars,
     AgentShape, OneAtATime, A!Running
<1>8. ASSUME NEW o \in Calls, A!RestoreUnregisters(o) PROVE OneAtATime'
  BY <1>8 DEF A!RestoreUnregisters, A!Same, A!CanFail, A!Go, A!callVars, A!loadVars,
     AgentShape, OneAtATime, A!Running
<1>9. ASSUME NEW o \in Calls, A!RestoreRegisters(o) PROVE OneAtATime'
  BY <1>9 DEF A!RestoreRegisters, A!Same, A!CanFail, A!Go, A!callVars, A!loadVars,
     AgentShape, OneAtATime, A!Running
<1>10. ASSUME NEW o \in Calls, A!RemoveUnregisters(o) PROVE OneAtATime'
  BY <1>10 DEF A!RemoveUnregisters, A!Begins, A!Same, A!CanFail, A!Go, A!callVars,
     A!loadVars, AgentShape, OneAtATime, A!Running
<1>11. ASSUME NEW o \in Calls, A!RemoveDeletes(o) PROVE OneAtATime'
  BY <1>11 DEF A!RemoveDeletes, A!Same, A!CanFail, A!Go, A!callVars, A!loadVars,
     AgentShape, OneAtATime, A!Running
<1>12. CASE A!Restart
  BY <1>12 DEF A!Restart, A!callVars, A!loadVars, AgentShape, OneAtATime, A!Running
<1>13. CASE A!ReloadReads
  BY <1>13 DEF A!ReloadReads, A!callVars, A!loadVars, AgentShape, OneAtATime, A!Running
<1>14. CASE A!LoadRegisters
  BY <1>14 DEF A!LoadRegisters, A!callVars, A!loadVars, AgentShape, OneAtATime,
     A!Running
<1> QED BY <1>1, <1>2, <1>3, <1>4, <1>5, <1>6, <1>7, <1>8, <1>9, <1>10, <1>11, <1>12,
   <1>13, <1>14 DEF A!Next

\* A call alone takes back what it did when a step fails.
LEMMA AloneTellsStep ==
  ASSUME OneFailure, AgentShape, OneAtATime, AloneTells, A!Next
  PROVE  AloneTells'
<1>1. ASSUME NEW o \in Calls, A!CreateRegisters(o) PROVE AloneTells'
  BY <1>1 DEF A!CreateRegisters, A!Begins, A!Same, A!CanFail, A!Go, A!callVars,
     A!loadVars, OneFailure, AgentShape, OneAtATime, AloneTells, A!Running
<1>2. ASSUME NEW o \in Calls, A!CreateWrites(o) PROVE AloneTells'
  BY <1>2 DEF A!CreateWrites, A!Same, A!CanFail, A!Go, A!callVars, A!loadVars,
     OneFailure, AgentShape, OneAtATime, AloneTells, A!Running
<1>3. ASSUME NEW o \in Calls, A!CreateRollsBack(o) PROVE AloneTells'
  BY <1>3 DEF A!CreateRollsBack, A!Same, A!CanFail, A!Go, A!callVars, A!loadVars,
     OneFailure, AgentShape, OneAtATime, AloneTells, A!Running
<1>4. ASSUME NEW o \in Calls, A!UpdateReads(o) PROVE AloneTells'
  BY <1>4 DEF A!UpdateReads, A!Begins, A!Same, A!CanFail, A!Go, A!callVars, A!loadVars,
     OneFailure, AgentShape, OneAtATime, AloneTells, A!Running
<1>5. ASSUME NEW o \in Calls, A!UpdateUnregisters(o) PROVE AloneTells'
  BY <1>5 DEF A!UpdateUnregisters, A!Same, A!CanFail, A!Go, A!callVars, A!loadVars,
     OneFailure, AgentShape, OneAtATime, AloneTells, A!Running
<1>6. ASSUME NEW o \in Calls, A!UpdateRegisters(o) PROVE AloneTells'
  BY <1>6 DEF A!UpdateRegisters, A!Same, A!CanFail, A!Go, A!callVars, A!loadVars,
     OneFailure, AgentShape, OneAtATime, AloneTells, A!Running
<1>7. ASSUME NEW o \in Calls, A!UpdateWrites(o) PROVE AloneTells'
  BY <1>7 DEF A!UpdateWrites, A!Same, A!CanFail, A!Go, A!callVars, A!loadVars,
     OneFailure, AgentShape, OneAtATime, AloneTells, A!Running
<1>8. ASSUME NEW o \in Calls, A!RestoreUnregisters(o) PROVE AloneTells'
  BY <1>8 DEF A!RestoreUnregisters, A!Same, A!CanFail, A!Go, A!callVars, A!loadVars,
     OneFailure, AgentShape, OneAtATime, AloneTells, A!Running
<1>9. ASSUME NEW o \in Calls, A!RestoreRegisters(o) PROVE AloneTells'
  BY <1>9 DEF A!RestoreRegisters, A!Same, A!CanFail, A!Go, A!callVars, A!loadVars,
     OneFailure, AgentShape, OneAtATime, AloneTells, A!Running
<1>10. ASSUME NEW o \in Calls, A!RemoveUnregisters(o) PROVE AloneTells'
  <2>1. CASE live' = 0 /\ known' = FALSE /\ A!Go(o, "delete")
    BY <1>10, <2>1
      DEF A!RemoveUnregisters, A!Begins, A!Same, A!CanFail, A!Go, A!callVars, A!loadVars,
          OneFailure, AgentShape, OneAtATime, AloneTells, A!Running
  <2>2. CASE A!CanFail /\ A!Go(o, "over") /\ UNCHANGED <<live, known>>
    BY <1>10, <2>2
      DEF A!RemoveUnregisters, A!Begins, A!Same, A!CanFail, A!Go, A!callVars, A!loadVars,
          OneFailure, AgentShape, OneAtATime, AloneTells, A!Running
  <2> QED BY <1>10, <2>1, <2>2 DEF A!RemoveUnregisters
<1>11. ASSUME NEW o \in Calls, A!RemoveDeletes(o) PROVE AloneTells'
  <2>1. CASE disk' = 0 /\ leftover' = FALSE
    BY <1>11, <2>1
      DEF A!RemoveDeletes, A!Same, A!CanFail, A!Go, A!callVars, A!loadVars, OneFailure,
          AgentShape, OneAtATime, AloneTells, A!Running
  <2>2. CASE disk = 0 /\ UNCHANGED disk
    BY <1>11, <2>2
      DEF A!RemoveDeletes, A!Same, A!CanFail, A!Go, A!callVars, A!loadVars, OneFailure,
          AgentShape, OneAtATime, AloneTells, A!Running
  <2>3. CASE leftover' = (disk # 0) /\ disk # 0 /\ UNCHANGED disk
    <3>1. leftover'
      BY <2>3
    <3> QED BY <1>11, <3>1, <2>3
           DEF A!RemoveDeletes, A!Same, A!CanFail, A!Go, A!callVars, A!loadVars,
               OneFailure, AgentShape, OneAtATime, AloneTells, A!Running
  <2> QED BY <1>11, <2>1, <2>2, <2>3 DEF A!RemoveDeletes, A!CanFail
<1>12. CASE A!Restart
  BY <1>12 DEF A!Restart, A!callVars, A!loadVars, OneFailure, AgentShape, OneAtATime,
     AloneTells, A!Running
<1>13. CASE A!ReloadReads
  BY <1>13 DEF A!ReloadReads, A!callVars, A!loadVars, OneFailure, AgentShape,
     OneAtATime, AloneTells, A!Running
<1>14. CASE A!LoadRegisters
  BY <1>14 DEF A!LoadRegisters, A!callVars, A!loadVars, OneFailure, AgentShape,
     OneAtATime, AloneTells, A!Running
<1> QED BY <1>1, <1>2, <1>3, <1>4, <1>5, <1>6, <1>7, <1>8, <1>9, <1>10, <1>11, <1>12,
   <1>13, <1>14 DEF A!Next

\* The invariant of a declared subagent.
AgentInv == AgentShape /\ OneAtATime /\ AloneTells

\* The inductive invariant of a declared subagent: what the disk and the runtime hold at
\* each step of a call that runs alone (lifecycle.go).
THEOREM AgentInvariance == OneFailure => (A!Spec => []AgentInv)
<1> SUFFICES ASSUME OneFailure PROVE A!Spec => []AgentInv
  OBVIOUS
<1>1. A!Init => AgentInv
  BY DEF A!Init, OneFailure, AgentInv, AgentShape, OneAtATime, AloneTells, A!Running
<1>2. AgentInv /\ [A!Next]_A!vars => AgentInv'
  <2> SUFFICES ASSUME AgentInv, [A!Next]_A!vars PROVE AgentInv'
    OBVIOUS
  <2>1. CASE A!Next
    BY <2>1, AgentShapeStep, OneAtATimeStep, AloneTellsStep DEF AgentInv
  <2>2. CASE UNCHANGED A!vars
    BY <2>2
      DEF A!vars, A!callVars, A!loadVars, AgentInv, AgentShape, OneAtATime, AloneTells,
       A!Running
  <2> QED BY <2>1, <2>2
<1> QED BY <1>1, <1>2, PTL DEF A!Spec

\* AgentTypeOK: a call writes and restores versions that were given out, and a reload
\* registers one (lifecycle.go).
THEOREM AgentTyping == OneFailure => (A!Spec => []A!AgentTypeOK)
<1> SUFFICES ASSUME OneFailure PROVE A!Spec => []A!AgentTypeOK
  OBVIOUS
<1>1. AgentInv => A!AgentTypeOK
  BY DEF OneFailure, AgentInv, AgentShape, A!AgentTypeOK
<1> QED BY <1>1, AgentInvariance, PTL

\* AloneIsConsistent: the runtime runs what the disk declares after calls that ran one
\* at a time, through a failed step of any of them, of a start or of a reload; where it
\* does not, the step reported it and the runtime runs nothing, never another version
\* (Lifecycle.Create, Update, Remove, LoadAll, LoadMissing).
THEOREM AloneAgentsAgree == OneFailure => (A!Spec => []A!AloneIsConsistent)
<1>1. AgentInv => A!AloneIsConsistent
  BY DEF AgentInv, AgentShape, AloneTells, A!AloneIsConsistent, A!Quiet
<1> QED BY <1>1, AgentInvariance, PTL

-----------------------------------------------------------------------------
(* ProcessFeed: what a process wrote, in the feed of its owner. *)

\* What a read that is under way took: chunks that were written, from where all before
\* are in the tail.
Fetched(out) ==
    /\ out.from \in Nat /\ out.upto \in Nat /\ out.eof \in BOOLEAN
    /\ out.from <= out.upto /\ out.upto <= written
    /\ 1 .. out.from \subseteq F!ToSet(tail)
    /\ out.eof => exited /\ out.upto = written

\* The types, and what a chunk of the tail is.
FeedShape ==
    /\ written \in Nat /\ trimmed \in Nat /\ cursor \in Nat /\ tail \in Seq(Nat)
    /\ exited \in BOOLEAN /\ ended \in BOOLEAN
    /\ trimmed <= written /\ cursor <= written /\ F!ToSet(tail) \subseteq 1 .. written
    /\ readMu = "drain" <=> drain = "read"

\* Where each reader of the feed is, by the step it is at.
FeedReads ==
    /\ 1 .. cursor \subseteq F!ToSet(tail)
    /\ drain \in {"append", "advance"} => Fetched(drained)
    /\ drain = "advance" => 1 .. drained.upto \subseteq F!ToSet(tail)
    /\ salvage \in {"append", "advance"} => Fetched(salvaged)
    /\ salvage = "advance" => 1 .. salvaged.upto \subseteq F!ToSet(tail)

\* The feed closes behind the last chunk.
FeedCloses ==
    /\ ended => exited /\ salvage # "idle"
    /\ salvage \in {"append", "advance"} /\ ended /\ salvaged.upto = salvaged.from =>
         salvaged.upto = written
    /\ salvage \in {"close", "over"} /\ ended => 1 .. written \subseteq F!ToSet(tail)

\* Whatever was lost at the end, nothing is missing before what is in the tail.
Unbroken == \A k \in F!ToSet(tail) : 1 .. k \subseteq F!ToSet(tail)

\* Until a close begins, the tail is the output from its start.
Straight ==
    salvage = "idle" =>
        /\ \A i \in 1 .. Len(tail) : tail[i] = i
        /\ Len(tail) = IF drain = "advance" THEN drained.upto ELSE cursor
        /\ drain = "append" => drained.from = cursor

\* The inductive invariant of ProcessFeed.
FeedInv == FeedShape /\ FeedReads /\ FeedCloses /\ Unbroken /\ Straight

\* The set of the chunks of a feed, position by position.
LEMMA FeedTails ==
  ASSUME NEW s, s \in Seq(Nat)
  PROVE  F!ToSet(s) = {s[i] : i \in 1 .. Len(s)}
BY LenProperties DEF F!ToSet

\* What an append adds to the tail.
LEMMA FeedTaken ==
  ASSUME FeedShape, NEW out, Fetched(out)
  PROVE  LET new == tail \o F!Taken(out)
         IN  /\ new \in Seq(Nat) /\ F!ToSet(new) = F!ToSet(tail) \cup (out.from + 1 .. out.upto)
             /\ F!ToSet(new) \subseteq 1 .. written /\ 1 .. out.upto \subseteq F!ToSet(new)
             /\ Len(new) = Len(tail) + (out.upto - out.from)
             /\ \A i \in 1 .. Len(new) :
                  new[i] = IF i <= Len(tail) THEN tail[i] ELSE out.from + (i - Len(tail))
<1> DEFINE t == F!Taken(out)
           n == out.upto - out.from
           a == out.from
           new == tail \o t
<1>1. n \in Nat /\ a \in Nat /\ tail \in Seq(Nat) /\ out.upto = a + n /\ a + n <= written /\ written \in Nat
  BY DEF Fetched, FeedShape
<1>2. t = [i \in 1 .. n |-> a + i]
  BY DEF F!Taken
<1> HIDE DEF n, a, t
<1>3. t \in Seq(Nat) /\ Len(t) = n /\ \A i \in 1 .. n : t[i] = a + i
  BY <1>1, <1>2
<1>4. /\ new \in Seq(Nat) /\ Len(new) = Len(tail) + n /\ Len(tail) \in Nat
      /\ \A i \in 1 .. Len(tail) + n : new[i] = IF i <= Len(tail) THEN tail[i] ELSE t[i - Len(tail)]
  BY <1>1, <1>3, ConcatProperties, LenProperties
<1> HIDE DEF new
<1>5. \A i \in 1 .. Len(tail) + n :
        new[i] = IF i <= Len(tail) THEN tail[i] ELSE a + (i - Len(tail))
  <2> TAKE i \in 1 .. Len(tail) + n
  <2>1. CASE i <= Len(tail)
    BY <2>1, <1>4
  <2>2. CASE ~(i <= Len(tail))
    <3>1. i - Len(tail) \in 1 .. n
      BY <2>2, <1>1, <1>4
    <3> QED BY <3>1, <2>2, <1>3, <1>4
  <2> QED BY <2>1, <2>2
<1>6. F!ToSet(new) = F!ToSet(tail) \cup (a + 1 .. a + n)
  <2>1. F!ToSet(new) = {new[i] : i \in 1 .. Len(tail) + n}
    BY <1>4, FeedTails
  <2>2. F!ToSet(tail) = {tail[i] : i \in 1 .. Len(tail)}
    BY <1>1, FeedTails
  <2>3. ASSUME NEW x \in F!ToSet(new) PROVE x \in F!ToSet(tail) \/ x \in a + 1 .. a + n
    <3>1. PICK i \in 1 .. Len(tail) + n : x = new[i]
      BY <2>1, <2>3
    <3>2. CASE i <= Len(tail)
      <4>1. x = tail[i] /\ i \in 1 .. Len(tail)
        BY <3>1, <3>2, <1>4, <1>5
      <4> QED BY <4>1, <2>2
    <3>3. CASE ~(i <= Len(tail))
      <4>1. x = a + (i - Len(tail)) /\ i \in Nat /\ i > Len(tail) /\ i <= Len(tail) + n
        BY <3>1, <3>3, <1>1, <1>4, <1>5
      <4> QED BY <4>1, <1>1, <1>4
    <3> QED BY <3>2, <3>3
  <2>4. ASSUME NEW x \in F!ToSet(tail) PROVE x \in F!ToSet(new)
    <3>1. PICK i \in 1 .. Len(tail) : x = tail[i]
      BY <2>2
    <3>2. i \in 1 .. Len(tail) + n /\ new[i] = x
      BY <3>1, <1>1, <1>4, <1>5
    <3> QED BY <3>2, <2>1
  <2>5. ASSUME NEW x \in a + 1 .. a + n PROVE x \in F!ToSet(new)
    <3> DEFINE i == Len(tail) + (x - a)
    <3>1. i \in 1 .. Len(tail) + n /\ ~(i <= Len(tail)) /\ a + (i - Len(tail)) = x
      BY <1>1, <1>4
    <3>2. new[i] = x
      BY <3>1, <1>5
    <3> QED BY <3>1, <3>2, <2>1
  <2> QED BY <2>3, <2>4, <2>5
<1>7. F!ToSet(new) \subseteq 1 .. written /\ 1 .. a + n \subseteq F!ToSet(new)
  <2>1. F!ToSet(tail) \subseteq 1 .. written /\ 1 .. a \subseteq F!ToSet(tail)
    BY DEF FeedShape, Fetched, a
  <2>2. a + 1 .. a + n \subseteq 1 .. written
    BY <1>1
  <2>3. 1 .. a + n \subseteq (1 .. a) \cup (a + 1 .. a + n)
    BY <1>1
  <2> QED BY <1>6, <2>1, <2>2, <2>3
<1> QED BY <1>1, <1>4, <1>5, <1>6, <1>7 DEF a, n, t, new

\* A read that starts now.
LEMMA FeedStartsRead ==
  ASSUME FeedShape, 1 .. cursor \subseteq F!ToSet(tail), NEW out \in F!Reads
  PROVE  /\ Fetched(out) /\ out.from = cursor /\ (out.eof <=> exited /\ out.upto = written)
<1>1. PICK k \in cursor .. written :
        out = [from |-> cursor, upto |-> k, eof |-> exited /\ k = written]
  BY DEF F!Reads
<1>2. /\ cursor \in Nat /\ k \in Nat /\ cursor <= k /\ k <= written /\ out.from = cursor /\ out.upto = k
      /\ exited \in BOOLEAN
  BY <1>1 DEF FeedShape
<1>3. out.eof = (exited /\ k = written)
  BY <1>1
<1>4. out.eof \in BOOLEAN /\ (out.eof <=> exited /\ k = written)
  BY <1>3
<1> QED BY <1>2, <1>4 DEF Fetched

\* A step of the process or of the feed that touches no tail.
FeedKept ==
    /\ tail' = tail /\ cursor' = cursor /\ written' \in Nat /\ written <= written'
    /\ exited => exited' /\ written' = written

\* What a read has fetched stays as it was while the steps go on.
LEMMA FetchedKept ==
  ASSUME FeedShape, NEW out, Fetched(out), FeedKept
  PROVE  Fetched(out)'
BY DEF Fetched, FeedShape, FeedKept

\* Every step of the drain, the stop and the salvage keeps the invariant.
LEMMA FeedStep ==
  ASSUME Nobody # "drain", FeedInv, [F!Next]_F!vars
  PROVE  FeedInv'
<1>0. FeedShape /\ FeedReads /\ FeedCloses /\ Unbroken /\ Straight
  BY DEF FeedInv
<1>1. CASE F!Writes
  <2>1. /\ written' = written + 1 /\ ~exited /\ UNCHANGED <<trimmed, exited, closed, tail, cursor,
           stopped, cancelled, readMu, drain, drained, salvage, salvaged, ended>>
    BY <1>1 DEF F!Writes, F!entry, F!drainVars, F!closeVars
  <2>2. FeedKept /\ ~ended
    BY <2>1, <1>0 DEF FeedKept, FeedShape, FeedCloses
  <2>3. FeedShape'
    BY <2>1, <1>0 DEF FeedShape
  <2>4. FeedReads'
    BY <2>1, <2>2, <1>0, FetchedKept DEF FeedReads
  <2>5. FeedCloses' /\ Unbroken' /\ Straight'
    BY <2>1, <2>2, <1>0 DEF FeedCloses, Unbroken, Straight
  <2> QED BY <2>3, <2>4, <2>5 DEF FeedInv
<1>2. CASE F!Exits
  <2>1. /\ exited' = TRUE /\ UNCHANGED <<written, trimmed, closed, tail, cursor,
           stopped, cancelled, readMu, drain, drained, salvage, salvaged, ended>>
    BY <1>2 DEF F!Exits, F!entry, F!drainVars, F!closeVars
  <2>2. FeedKept
    BY <2>1, <1>0 DEF FeedKept, FeedShape
  <2>3. FeedShape'
    BY <2>1, <1>0 DEF FeedShape
  <2>4. FeedReads'
    BY <2>1, <2>2, <1>0, FetchedKept DEF FeedReads
  <2>5. FeedCloses' /\ Unbroken' /\ Straight'
    BY <2>1, <2>2, <1>0 DEF FeedCloses, Unbroken, Straight
  <2> QED BY <2>3, <2>4, <2>5 DEF FeedInv
<1>3. CASE F!Trims
  <2>1. /\ trimmed < written /\ trimmed' = trimmed + 1 /\ UNCHANGED <<written, exited, closed, tail, cursor,
           stopped, cancelled, readMu, drain, drained, salvage, salvaged, ended>>
    BY <1>3 DEF F!Trims, F!entry, F!drainVars, F!closeVars
  <2>2. FeedKept
    BY <2>1, <1>0 DEF FeedKept, FeedShape
  <2>3. FeedShape'
    BY <2>1, <1>0 DEF FeedShape
  <2>4. FeedReads'
    BY <2>1, <2>2, <1>0, FetchedKept DEF FeedReads
  <2>5. FeedCloses' /\ Unbroken' /\ Straight'
    BY <2>1, <2>2, <1>0 DEF FeedCloses, Unbroken, Straight, FeedShape
  <2> QED BY <2>3, <2>4, <2>5 DEF FeedInv
<1>4. CASE F!DrainLocks
  <2>1. /\ drain = "loop" /\ UNCHANGED <<written, trimmed, exited, closed, tail, cursor,
           stopped, cancelled, drained, salvage, salvaged, ended>>
        /\ \/ drain' = "over" /\ readMu' = readMu
           \/ drain' = "read" /\ readMu' = "drain"
    BY <1>4 DEF F!DrainLocks, F!session, F!entry, F!closeVars
  <2>2. FeedKept
    BY <2>1, <1>0 DEF FeedKept, FeedShape
  <2>3. FeedShape'
    BY <2>1, <1>0 DEF FeedShape
  <2>4. FeedReads'
    BY <2>1, <2>2, <1>0, FetchedKept DEF FeedReads
  <2>5. FeedCloses' /\ Unbroken' /\ Straight'
    BY <2>1, <2>2, <1>0 DEF FeedCloses, Unbroken, Straight
  <2> QED BY <2>3, <2>4, <2>5 DEF FeedInv
<1>5. CASE F!DrainReads
  <2>1. /\ drain = "read" /\ UNCHANGED <<written, trimmed, exited, closed, tail, cursor,
           salvage, salvaged, ended>>
        /\ readMu' = Nobody
        /\ \/ drain' \in {"over", "loop"} /\ drained' = drained
           \/ drain' = "append" /\ drained' \in F!Reads
    BY <1>5 DEF F!DrainReads, F!session, F!entry, F!closeVars
  <2>2. FeedKept
    BY <2>1, <1>0 DEF FeedKept, FeedShape
  <2>3. FeedShape'
    BY <2>1, <1>0 DEF FeedShape
  <2>4. drain' = "append" => Fetched(drained)' /\ drained'.from = cursor
    <3> SUFFICES ASSUME drain' = "append" PROVE Fetched(drained)' /\ drained'.from = cursor
      OBVIOUS
    <3>1. Fetched(drained') /\ drained'.from = cursor
      BY <2>1, <1>0, FeedStartsRead DEF FeedReads
    <3> QED BY <3>1, <2>1 DEF Fetched
  <2>5. FeedReads'
    BY <2>1, <2>2, <2>4, <1>0, FetchedKept DEF FeedReads
  <2>6. FeedCloses' /\ Unbroken' /\ Straight'
    BY <2>1, <2>2, <2>4, <1>0 DEF FeedCloses, Unbroken, Straight
  <2> QED BY <2>3, <2>5, <2>6 DEF FeedInv
<1>6. CASE F!DrainAppends
  <2>1. /\ drain = "append" /\ drain' = "advance" /\ tail' = tail \o F!Taken(drained)
        /\ UNCHANGED <<written, trimmed, exited, closed, cursor, stopped, cancelled, readMu,
           drained, salvage, salvaged, ended>>
    BY <1>6 DEF F!DrainAppends, F!session, F!closeVars
  <2>2. /\ tail' \in Seq(Nat) /\ F!ToSet(tail') = F!ToSet(tail) \cup (drained.from + 1 .. drained.upto)
        /\ F!ToSet(tail') \subseteq 1 .. written /\ 1 .. drained.upto \subseteq F!ToSet(tail')
        /\ Len(tail') = Len(tail) + (drained.upto - drained.from)
        /\ \A i \in 1 .. Len(tail') :
             tail'[i] = IF i <= Len(tail) THEN tail[i] ELSE drained.from + (i - Len(tail))
        /\ Fetched(drained)
    BY <2>1, <1>0, FeedTaken DEF FeedReads
  <2>3. F!ToSet(tail)' = F!ToSet(tail')
    BY DEF F!ToSet
  <2>4. FeedShape'
    BY <2>1, <2>2, <2>3, <1>0 DEF FeedShape
  <2>5. FeedReads'
    BY <2>1, <2>2, <2>3, <1>0 DEF FeedReads, Fetched
  <2>6. FeedCloses'
    BY <2>1, <2>2, <2>3, <1>0 DEF FeedCloses
  <2>7. Unbroken'
    BY <2>1, <2>2, <2>3, <1>0 DEF Unbroken, Fetched
  <2>8. Straight'
    <3> SUFFICES ASSUME salvage = "idle"
                 PROVE  (\A i \in 1 .. Len(tail') : tail'[i] = i) /\ Len(tail') = drained.upto
      BY <2>1 DEF Straight
    <3>1. /\ Len(tail) = cursor /\ drained.from = cursor /\ cursor \in Nat
          /\ \A i \in 1 .. Len(tail) : tail[i] = i
          /\ drained.upto \in Nat
      BY <2>1, <2>2, <1>0 DEF Straight, FeedShape, Fetched
    <3>2. Len(tail') = drained.upto
      BY <3>1, <2>2
    <3> QED BY <3>1, <3>2, <2>2
  <2> QED BY <2>4, <2>5, <2>6, <2>7, <2>8 DEF FeedInv
<1>7. CASE F!DrainAdvances
  <2>1. /\ drain = "advance" /\ drain' \in {"over", "loop"} /\ cursor' = drained.upto
        /\ UNCHANGED <<written, trimmed, exited, closed, tail, readMu, salvage, salvaged, ended>>
    BY <1>7 DEF F!DrainAdvances, F!session, F!closeVars
  <2>2. Fetched(drained) /\ 1 .. drained.upto \subseteq F!ToSet(tail)
    BY <2>1, <1>0 DEF FeedReads
  <2>3. FeedShape'
    BY <2>1, <2>2, <1>0 DEF FeedShape, Fetched
  <2>4. FeedReads'
    BY <2>1, <2>2, <1>0 DEF FeedReads, Fetched
  <2>5. FeedCloses' /\ Unbroken' /\ Straight'
    BY <2>1, <2>2, <1>0 DEF FeedCloses, Unbroken, Straight
  <2> QED BY <2>3, <2>4, <2>5 DEF FeedInv
<1>8. CASE F!CloseBegins
  <2>1. /\ salvage = "idle" /\ salvage' = "read" /\ ended' = exited
        /\ UNCHANGED <<written, trimmed, exited, closed, tail, cursor, readMu, drain, drained, salvaged>>
    BY <1>8 DEF F!CloseBegins, F!session, F!drainVars
  <2>2. FeedKept
    BY <2>1, <1>0 DEF FeedKept, FeedShape
  <2>3. FeedShape'
    BY <2>1, <1>0 DEF FeedShape
  <2>4. FeedReads'
    BY <2>1, <2>2, <1>0, FetchedKept DEF FeedReads
  <2>5. FeedCloses' /\ Unbroken' /\ Straight'
    BY <2>1, <2>2, <1>0 DEF FeedCloses, Unbroken, Straight
  <2> QED BY <2>3, <2>4, <2>5 DEF FeedInv
<1>9. CASE F!SalvageReads
  <2>1. /\ salvage = "read" /\ readMu = Nobody
        /\ UNCHANGED <<written, trimmed, exited, closed, tail, cursor, readMu, drain, drained, ended>>
        /\ \/ salvage' = "failed" /\ salvaged' = salvaged
           \/ /\ salvage' = "append" /\ salvaged' \in F!Reads
              /\ written > cursor => salvaged'.upto > salvaged'.from
    BY <1>9 DEF F!SalvageReads, F!session, F!entry, F!drainVars
  <2>2. FeedKept
    BY <2>1, <1>0 DEF FeedKept, FeedShape
  <2>3. FeedShape'
    BY <2>1, <1>0 DEF FeedShape
  <2>4. salvage' = "append" => Fetched(salvaged)' /\ salvaged'.from = cursor
    <3> SUFFICES ASSUME salvage' = "append" PROVE Fetched(salvaged)' /\ salvaged'.from = cursor
      OBVIOUS
    <3>1. Fetched(salvaged') /\ salvaged'.from = cursor
      BY <2>1, <1>0, FeedStartsRead DEF FeedReads
    <3> QED BY <3>1, <2>1 DEF Fetched
  <2>5. FeedReads'
    BY <2>1, <2>2, <2>4, <1>0, FetchedKept DEF FeedReads
  <2>6. salvage' = "append" /\ salvaged'.upto = salvaged'.from => salvaged'.upto = written
    BY <2>1, <2>4, <1>0 DEF Fetched, FeedShape
  <2>7. FeedCloses' /\ Unbroken' /\ Straight'
    BY <2>1, <2>6, <1>0 DEF FeedCloses, Unbroken, Straight, FeedShape
  <2> QED BY <2>3, <2>5, <2>7 DEF FeedInv
<1>10. CASE F!SalvageAppends
  <2>1. /\ salvage = "append" /\ salvage' = "advance" /\ tail' = tail \o F!Taken(salvaged)
        /\ UNCHANGED <<written, trimmed, exited, closed, cursor, stopped, cancelled, readMu,
           drain, drained, salvaged, ended>>
    BY <1>10 DEF F!SalvageAppends, F!session, F!drainVars
  <2>2. /\ tail' \in Seq(Nat) /\ F!ToSet(tail') = F!ToSet(tail) \cup (salvaged.from + 1 .. salvaged.upto)
        /\ F!ToSet(tail') \subseteq 1 .. written /\ 1 .. salvaged.upto \subseteq F!ToSet(tail')
        /\ Fetched(salvaged)
    BY <2>1, <1>0, FeedTaken DEF FeedReads
  <2>3. F!ToSet(tail)' = F!ToSet(tail')
    BY DEF F!ToSet
  <2>4. FeedShape'
    BY <2>1, <2>2, <2>3, <1>0 DEF FeedShape
  <2>5. FeedReads'
    BY <2>1, <2>2, <2>3, <1>0 DEF FeedReads, Fetched
  <2>6. FeedCloses' /\ Straight'
    BY <2>1, <2>2, <2>3, <1>0 DEF FeedCloses, Straight
  <2>7. Unbroken'
    BY <2>1, <2>2, <2>3, <1>0 DEF Unbroken, Fetched
  <2> QED BY <2>4, <2>5, <2>6, <2>7 DEF FeedInv
<1>11. CASE F!SalvageAdvances
  <2>1. /\ salvage = "advance" /\ cursor' = salvaged.upto
        /\ \/ salvage' = "close" /\ (salvaged.eof \/ salvaged.upto = salvaged.from)
           \/ salvage' = "read" /\ salvaged.upto # salvaged.from
        /\ UNCHANGED <<written, trimmed, exited, closed, tail, readMu, drain, drained, ended>>
    BY <1>11 DEF F!SalvageAdvances, F!session, F!drainVars
  <2>2. Fetched(salvaged) /\ 1 .. salvaged.upto \subseteq F!ToSet(tail)
    BY <2>1, <1>0 DEF FeedReads
  <2>3. FeedShape'
    BY <2>1, <2>2, <1>0 DEF FeedShape, Fetched
  <2>4. FeedReads'
    BY <2>1, <2>2, <1>0 DEF FeedReads, Fetched
  <2>5. FeedCloses' /\ Unbroken'
    BY <2>1, <2>2, <1>0 DEF FeedCloses, Unbroken, Fetched
  <2>6. Straight'
    BY <2>1, <2>2, <1>0 DEF Straight, Fetched
  <2> QED BY <2>3, <2>4, <2>5, <2>6 DEF FeedInv
<1>12. CASE F!SessionCloses
  <2>1. /\ \/ salvage = "close" /\ salvage' = "over"
           \/ salvage = "failed" /\ salvage' = "short"
        /\ UNCHANGED <<written, trimmed, exited, tail, cursor, readMu, drain, drained, salvaged, ended>>
    BY <1>12 DEF F!SessionCloses, F!entry, F!drainVars
  <2>2. FeedKept
    BY <2>1, <1>0 DEF FeedKept, FeedShape
  <2>3. FeedShape'
    BY <2>1, <1>0 DEF FeedShape
  <2>4. FeedReads'
    BY <2>1, <2>2, <1>0, FetchedKept DEF FeedReads
  <2>5. FeedCloses' /\ Unbroken' /\ Straight'
    BY <2>1, <2>2, <1>0 DEF FeedCloses, Unbroken, Straight
  <2> QED BY <2>3, <2>4, <2>5 DEF FeedInv
<1>13. CASE F!Evicts \/ UNCHANGED F!vars
  <2>1. UNCHANGED <<written, trimmed, exited, tail, cursor, readMu, drain, drained, salvage, salvaged, ended>>
    BY <1>13 DEF F!Evicts, F!vars, F!session, F!entry, F!drainVars, F!closeVars
  <2>2. FeedKept
    BY <2>1, <1>0 DEF FeedKept, FeedShape
  <2>3. FeedShape'
    BY <2>1, <1>0 DEF FeedShape
  <2>4. FeedReads'
    BY <2>1, <2>2, <1>0, FetchedKept DEF FeedReads
  <2>5. FeedCloses' /\ Unbroken' /\ Straight'
    BY <2>1, <2>2, <1>0 DEF FeedCloses, Unbroken, Straight
  <2> QED BY <2>3, <2>4, <2>5 DEF FeedInv
<1> QED BY <1>1, <1>2, <1>3, <1>4, <1>5, <1>6, <1>7, <1>8, <1>9, <1>10, <1>11, <1>12, <1>13 DEF F!Next

\* Nothing is written or read at first.
LEMMA FeedStart == ASSUME Nobody # "drain", F!Init PROVE FeedInv
<1>1. F!ToSet(<< >>) = {}
  BY DEF F!ToSet
<1>2. /\ written = 0 /\ trimmed = 0 /\ exited = FALSE /\ tail = << >> /\ cursor = 0
      /\ readMu = Nobody /\ drain = "loop" /\ salvage = "idle" /\ ended = FALSE
  BY DEF F!Init
<1>3. FeedShape
  <2>1. exited \in BOOLEAN /\ ended \in BOOLEAN
    BY <1>2
  <2>2. /\ written \in Nat /\ trimmed \in Nat /\ cursor \in Nat
        /\ trimmed <= written /\ cursor <= written
    BY <1>2
  <2>3. tail \in Seq(Nat) /\ F!ToSet(tail) \subseteq 1 .. written
    BY <1>1, <1>2, EmptySeq
  <2>4. readMu = "drain" <=> drain = "read"
    BY <1>2
  <2> QED BY <2>1, <2>2, <2>3, <2>4 DEF FeedShape
<1>4. FeedReads /\ FeedCloses /\ Unbroken
  BY <1>1, <1>2 DEF FeedReads, FeedCloses, Unbroken
<1>5. Straight
  BY <1>2 DEF Straight
<1> QED BY <1>3, <1>4, <1>5 DEF FeedInv

\* The invariant holds of every behaviour.
LEMMA FeedAlways == Nobody # "drain" /\ F!Spec => []FeedInv
<1> SUFFICES ASSUME Nobody # "drain" PROVE F!Spec => []FeedInv
  OBVIOUS
<1>1. F!Init => FeedInv
  BY FeedStart
<1>2. FeedInv /\ [F!Next]_F!vars => FeedInv'
  BY FeedStep
<1> QED BY <1>1, <1>2, PTL DEF F!Spec

(***************************************************************************)
(* Once the handle of a process that had ended is closed and no read of    *)
(* the salvage failed, all that it wrote is in the feed, whatever the      *)
(* drain, the stop, the salvage and the trims do at the same time. When a  *)
(* read failed the end may be missing, and nothing before it               *)
(* (sandbox/processes.go: drain, salvage).                                 *)
(***************************************************************************)
THEOREM FeedIsComplete == Nobody # "drain" /\ F!Spec => [](F!FeedTypeOK /\ F!ClosedIsComplete)
<1>1. FeedInv => F!FeedTypeOK /\ F!ClosedIsComplete
  BY DEF FeedInv, FeedShape, FeedCloses, Unbroken, F!FeedTypeOK, F!ClosedIsComplete
<1> QED BY <1>1, FeedAlways, PTL

(***************************************************************************)
(* Until a salvage of the spool begins every chunk is appended once and in *)
(* its order; the salvage of a process that still drains is the case the   *)
(* run processes_doc_once shows.                                           *)
(***************************************************************************)
THEOREM FeedInOrder ==
  Nobody # "drain" /\ F!Spec => [](salvage = "idle" => F!AppendedOnce)
<1>1. FeedInv => (salvage = "idle" => F!AppendedOnce)
  <2> SUFFICES ASSUME FeedInv, salvage = "idle", NEW i \in 2 .. Len(tail)
               PROVE  tail[i - 1] < tail[i]
    BY DEF F!AppendedOnce
  <2>1. Len(tail) \in Nat /\ \A j \in 1 .. Len(tail) : tail[j] = j
    BY LenProperties DEF FeedInv, Straight, FeedShape
  <2>2. i - 1 \in 1 .. Len(tail) /\ i \in 1 .. Len(tail) /\ i \in Nat
    BY <2>1
  <2>3. tail[i - 1] = i - 1 /\ tail[i] = i
    BY <2>1, <2>2
  <2> QED BY <2>2, <2>3
<1> QED BY <1>1, FeedAlways, PTL
=============================================================================
