-------------------------------- MODULE Kraft --------------------------------
(***************************************************************************)
(* The subprocess of one plugin: callers that share it, its read loop and  *)
(* its exit watcher, and the host that stops it, asks it to clean up or    *)
(* shuts the manager down.                                                 *)
(*   source: internal/capabilities/plugins/kraft/kraft.go                  *)
(* A step ends where the code gives a mutex back or waits. What a process  *)
(* wrote before it died is still read: the read loop ends at the end of    *)
(* its output, not at the death.                                           *)
(***************************************************************************)
EXTENDS Naturals, FiniteSets

CONSTANTS Procs, NoProc,
          Callers,    \* calls of Invoke
          Stoppers,   \* calls of Stop or Cleanup
          Odd         \* processes that close their output and live on

VARIABLES
  table, shuttingDown,            \* Manager.procs[id], Manager.shuttingDown
  life,                           \* the operating system's process
  done, ready, hostStopped,       \* its channels and flag
  watch,                          \* its exit watcher
  nextID, pending, wire,          \* its request numbers, who waits, what it was sent
  pc, proc, id, got,              \* a caller: its step, process, request, answer
  spc                             \* Shutdown

procVars == <<life, done, ready, hostStopped, watch>>
rpcVars == <<nextID, pending, wire>>
callVars == <<pc, proc, id, got>>
vars == <<table, shuttingDown, procVars, rpcVars, callVars, spc>>

Actors == Callers \cup Stoppers
Over == {"ok", "failed"}

Init ==
  /\ table = NoProc /\ shuttingDown = FALSE
  /\ life = [p \in Procs |-> "unborn"]
  /\ done = {} /\ ready = {} /\ hostStopped = {}
  /\ watch = [p \in Procs |-> "none"]
  /\ nextID = [p \in Procs |-> 1]
  /\ pending = [p \in Procs |-> {}] /\ wire = [p \in Procs |-> {}]
  /\ pc = [c \in Actors |-> "idle"] /\ proc = [c \in Actors |-> NoProc]
  /\ id = [c \in Actors |-> 0] /\ got = [c \in Actors |-> {}]
  /\ spc = "idle"

Go(c, to) == pc' = [pc EXCEPT ![c] = to]

\* process.stop after its check of done: the flag, the kill, stdin closed.
Kill(p) ==
  /\ hostStopped' = hostStopped \cup {p}
  /\ life' = [life EXCEPT ![p] = "dead"]
Stop(p) ==
  IF p \in done THEN UNCHANGED <<hostStopped, life>> ELSE Kill(p)

----------------------------------------------------------------------------
(* Manager.get *)

Start(c, p) ==
  /\ life[p] = "unborn"
  /\ table' = p /\ life' = [life EXCEPT ![p] = "running"]
  /\ watch' = [watch EXCEPT ![p] = "waiting"]
  /\ proc' = [proc EXCEPT ![c] = p] /\ Go(c, "handshake")
  /\ UNCHANGED <<done, ready, hostStopped>>

\* The lock is held from the look at the table to the entry in it.
Get(c) ==
  /\ c \in Callers /\ pc[c] = "idle"
  /\ \/ shuttingDown /\ Go(c, "failed") /\ UNCHANGED <<table, proc, procVars>>
     \/ /\ ~shuttingDown /\ table # NoProc /\ table \notin done
        /\ proc' = [proc EXCEPT ![c] = table] /\ Go(c, "call")
        /\ UNCHANGED <<table, procVars>>
     \/ /\ ~shuttingDown /\ (table = NoProc \/ table \in done)
        /\ \/ \E p \in Procs : Start(c, p)
           \/ table' = NoProc /\ Go(c, "failed") /\ UNCHANGED <<proc, procVars>>
  /\ UNCHANGED <<shuttingDown, rpcVars, id, got, spc>>

Handshaken_Patient(c) ==
  /\ pc[c] = "handshake"
  /\ \/ proc[c] \in ready /\ Go(c, "call")
     \/ proc[c] \in done /\ Go(c, "failed")
  /\ UNCHANGED <<table, shuttingDown, procVars, rpcVars, proc, id, got, spc>>

\* The caller that started the process waits for its handshake, and stops it
\* when the budget or its own context ends first, whoever else uses it by then.
Handshaken(c) ==
  /\ pc[c] = "handshake"
  /\ \/ proc[c] \in ready /\ Go(c, "call") /\ UNCHANGED <<hostStopped, life>>
     \/ proc[c] \in done /\ Go(c, "failed") /\ UNCHANGED <<hostStopped, life>>
     \/ Go(c, "failed") /\ Stop(proc[c])
  /\ UNCHANGED <<table, shuttingDown, done, ready, watch, rpcVars, proc, id, got, spc>>

----------------------------------------------------------------------------
(* process.call *)

Registers(c, n) ==
  LET p == proc[c] IN
  /\ pc[c] = "call" /\ p \in ready
  /\ id' = [id EXCEPT ![c] = n]
  /\ nextID' = [nextID EXCEPT ![p] = n + 1]
  /\ pending' = [pending EXCEPT ![p] = {r \in @ : r[1] # n} \cup {<<n, c>>}]
  /\ Go(c, "write")
  /\ UNCHANGED <<table, shuttingDown, procVars, wire, proc, got, spc>>

CallRegisters(c) == Registers(c, IF proc[c] = NoProc THEN 0 ELSE nextID[proc[c]])

\* A cleanup's call failed or was answered: it goes on to stop the plugin.
Ends(c, to) == Go(c, IF c \in Stoppers THEN "stop" ELSE to)

Drop(c) ==
  pending' = [pending EXCEPT ![proc[c]] = {r \in @ : r[1] # id[c]}]

CallRefused(c) ==
  /\ pc[c] = "call"   \* done, or the context ended, before the process was ready
  /\ Ends(c, "failed")
  /\ UNCHANGED <<table, shuttingDown, procVars, rpcVars, proc, id, got, spc>>

\* Into the pipe of its stdin, with no deadline: it goes through when the process
\* reads (or the pipe has room) and fails when the process is gone.
Writes(c) ==
  LET p == proc[c] IN
  /\ pc[c] = "write"
  /\ \/ /\ life[p] = "running" /\ Go(c, "wait")
        /\ wire' = [wire EXCEPT ![p] = @ \cup {<<id[c], c>>}] /\ UNCHANGED pending
     \/ life[p] = "dead" /\ Drop(c) /\ Ends(c, "failed") /\ UNCHANGED wire
  /\ UNCHANGED <<table, shuttingDown, procVars, nextID, proc, id, got, spc>>

Answered(c) ==
  /\ pc[c] = "wait" /\ got[c] # {} /\ Ends(c, "ok")
  /\ UNCHANGED <<table, shuttingDown, procVars, rpcVars, proc, id, got, spc>>

\* The budget or the context ends, or the process is done.
GivesUp(c) ==
  /\ pc[c] = "wait" /\ Ends(c, "failed")
  /\ \/ Drop(c)
     \/ proc[c] \in done /\ UNCHANGED pending
  /\ UNCHANGED <<table, shuttingDown, procVars, nextID, wire, proc, id, got, spc>>

----------------------------------------------------------------------------
(* The read loop. *)

Reads(p) == life[p] # "unborn" /\ p \notin done

ReadHandshake(p) ==
  /\ Reads(p) /\ p \notin ready
  /\ \/ ready' = ready \cup {p} /\ UNCHANGED <<hostStopped, life>>
     \/ Stop(p) /\ UNCHANGED ready
  /\ UNCHANGED <<table, shuttingDown, done, watch, rpcVars, callVars, spc>>

\* A response finds the caller registered under its number, if any still is.
ReadResponse(p) ==
  /\ Reads(p) /\ \E w \in wire[p] :
       LET waiting == {r \in pending[p] : r[1] = w[1]} IN
       /\ wire' = [wire EXCEPT ![p] = @ \ {w}]
       /\ pending' = [pending EXCEPT ![p] = @ \ waiting]
       /\ got' = [c \in Actors |-> IF <<w[1], c>> \in waiting THEN got[c] \cup {w[2]}
                                                                ELSE got[c]]
  /\ UNCHANGED <<table, shuttingDown, procVars, nextID, pc, proc, id, spc>>

\* A line past the limit: the loop stops the process and ends.
ReadFails(p) ==
  /\ Reads(p) /\ Stop(p) /\ done' = done \cup {p}
  /\ UNCHANGED <<table, shuttingDown, ready, watch, rpcVars, callVars, spc>>

ReadEnds(p) ==
  /\ Reads(p) /\ (life[p] = "dead" \/ p \in Odd)
  /\ done' = done \cup {p}
  /\ UNCHANGED <<table, shuttingDown, life, ready, hostStopped, watch, rpcVars, callVars, spc>>

Dies(p) ==
  /\ life[p] = "running" /\ life' = [life EXCEPT ![p] = "dead"]
  /\ UNCHANGED <<table, shuttingDown, done, ready, hostStopped, watch, rpcVars, callVars, spc>>

----------------------------------------------------------------------------
(* The exit watcher. *)

\* It waits for the end of the output and for the process, and takes its own
\* entry out of the table.
WatcherReaps(p) ==
  /\ watch[p] = "waiting" /\ p \in done /\ life[p] = "dead"
  /\ table' = IF table = p THEN NoProc ELSE table
  /\ watch' = [watch EXCEPT ![p] = IF p \in hostStopped THEN "over" ELSE "handler"]
  /\ UNCHANGED <<shuttingDown, life, done, ready, hostStopped, rpcVars, callVars, spc>>

HandlerReturns(p) ==
  /\ watch[p] = "handler" /\ watch' = [watch EXCEPT ![p] = "over"]
  /\ UNCHANGED <<table, shuttingDown, life, done, ready, hostStopped, rpcVars, callVars, spc>>

----------------------------------------------------------------------------
(* Stop, Cleanup and Shutdown. *)

CleanupBegins(c) ==
  /\ c \in Stoppers /\ pc[c] = "idle"
  /\ IF table = NoProc THEN Go(c, "ok") /\ UNCHANGED proc
                       ELSE proc' = [proc EXCEPT ![c] = table] /\ Go(c, "call")
  /\ UNCHANGED <<table, shuttingDown, procVars, rpcVars, id, got, spc>>

\* Stop takes whatever process the table holds by now, and stops it outside the lock.
StopTakes(c) ==
  /\ (c \in Stoppers /\ pc[c] = "idle") \/ pc[c] = "stop"
  /\ table' = NoProc /\ proc' = [proc EXCEPT ![c] = table]
  /\ Go(c, IF table = NoProc THEN "ok" ELSE "kill")
  /\ UNCHANGED <<shuttingDown, procVars, rpcVars, id, got, spc>>

StopKills(c) ==
  /\ pc[c] = "kill" /\ Stop(proc[c]) /\ Go(c, "ok")
  /\ UNCHANGED <<table, shuttingDown, done, ready, watch, rpcVars, proc, id, got, spc>>

\* Shutdown holds the process it took in spc until it has stopped it.
ShutdownTakes ==
  /\ spc = "idle" /\ shuttingDown' = TRUE
  /\ table' = NoProc /\ spc' = table
  /\ UNCHANGED <<procVars, rpcVars, callVars>>

ShutdownKills ==
  /\ spc \in Procs \cup {NoProc}
  /\ IF spc = NoProc THEN UNCHANGED <<hostStopped, life>> ELSE Stop(spc)
  /\ spc' = "wait"
  /\ UNCHANGED <<table, shuttingDown, done, ready, watch, rpcVars, callVars>>

\* It returns when every exit watcher has.
ShutdownReturned ==
  /\ spc = "wait" /\ \A p \in Procs : watch[p] \in {"none", "over"}
  /\ spc' = "returned"
  /\ UNCHANGED <<table, shuttingDown, procVars, rpcVars, callVars>>

----------------------------------------------------------------------------
\* A call in its write to a process that runs: it stays there for as long as the
\* process reads nothing, whatever the budget and its context say.
Stuck(c) == pc[c] = "write" /\ life[proc[c]] = "running"

CallerStep(c) ==
  \/ Handshaken(c) \/ CallRegisters(c) \/ CallRefused(c)
  \/ ~Stuck(c) /\ Writes(c)
  \/ Answered(c) \/ GivesUp(c) \/ (pc[c] # "idle" /\ StopTakes(c)) \/ StopKills(c)

\* The read loop reaches the end of a dead process' output, its watcher goes on.
ProcessStep(p) ==
  \/ life[p] = "dead" /\ ReadEnds(p)
  \/ WatcherReaps(p) \/ HandlerReturns(p)

ShutdownStep == ShutdownKills \/ ShutdownReturned

Next ==
  \/ \E c \in Actors : \/ Get(c) \/ CleanupBegins(c) \/ StopTakes(c)
                       \/ Writes(c) \/ CallerStep(c)
  \/ \E p \in Procs : \/ ReadHandshake(p) \/ ReadResponse(p) \/ ReadFails(p)
                      \/ ReadEnds(p) \/ Dies(p)
                      \/ WatcherReaps(p) \/ HandlerReturns(p)
  \/ ShutdownTakes \/ ShutdownKills \/ ShutdownReturned

Spec == Init /\ [][Next]_vars

\* A call's waits for the handshake and for its answer are bounded by the budgets, its
\* write is not: it fails once the process is dead. The read loop reaches the end of a
\* dead process' output, the watcher and Shutdown go on. What a process reads and
\* answers, and whether it dies, is its own affair.
Fairness ==
  /\ \A c \in Actors : WF_vars(CallerStep(c))
  /\ \A p \in Procs : WF_vars(ProcessStep(p))
  /\ WF_vars(ShutdownStep)

FairSpec == Spec /\ Fairness

----------------------------------------------------------------------------
(* Properties. *)

KraftTypeOK ==
  /\ table \in Procs \cup {NoProc} /\ spc \in {"idle", "wait", "returned", NoProc} \cup Procs
  /\ done \cup ready \cup hostStopped \subseteq {p \in Procs : life[p] # "unborn"}
  /\ \A p \in Procs : pending[p] \cup wire[p] \subseteq (1 .. nextID[p]) \X Actors
  /\ \A p \in Procs : watch[p] # "none" <=> life[p] # "unborn"

\* A response reaches the call it answers, whatever calls gave up before it
\* (process.call: the numbers are never used again).
AnswerIsMine == \A c \in Actors : got[c] \subseteq {c}

\* A process that closed its output and lives on: Manager.get takes it out of the table
\* and process.stop returns before the kill, so that nothing stops it any more. Its
\* watcher waits for it to die by itself.
Unreachable(p) == p \in Odd /\ p \in done /\ watch[p] = "waiting"

\* A process that runs is in the table, or somebody is about to stop it; the one
\* exception is a process that closed its output first (Manager.get, Manager.Stop,
\* Manager.Shutdown, process.stop).
NoStray ==
  \A p \in Procs : life[p] = "running" =>
    \/ table = p /\ p \notin done
    \/ spc = p /\ p \notin done
    \/ \E c \in Actors : pc[c] = "kill" /\ proc[c] = p /\ p \notin done
    \/ Unreachable(p)

\* "It closes the manager: nothing may start a new kraft process afterwards", and
\* the exit bookkeeping "is finished" when it returns (Manager.Shutdown).
ShutdownIsFinal ==
  spc = "returned" => \A p \in Procs : life[p] # "running" /\ watch[p] \in {"none", "over"}

\* An Invoke, Stop or Cleanup goes on to its end, whatever its process does, unless it
\* is in a write the process does not read; Shutdown returns, and with it every call
\* (ShutdownIsFinal), unless a process it cannot stop lives on; a process that died does
\* not stay in the table for the calls to come. Each of these is owed until it is done,
\* so together: what is owed gets done (process.call, Manager.get, Manager.Shutdown).
CallsOwed == \E c \in Actors : pc[c] \notin {"idle"} \cup Over /\ ~Stuck(c)
ShutdownOwed ==
  /\ spc \notin {"idle", "returned"}
  /\ \A p \in Procs : life[p] = "running" => ~Unreachable(p)
CorpseListed == \E p \in Procs : life[p] = "dead" /\ table = p
Owes == CallsOwed \/ ShutdownOwed \/ CorpseListed
LetsGo == Owes ~> ~Owes
==============================================================================
