---------------------------- MODULE AgentLifecycle ----------------------------
(***************************************************************************)
(* One persistent subagent: its declaration on the disk, its registration  *)
(* in the runtime and the set of known names, through create, update and   *)
(* remove, their rollbacks, a restart and an in-place reload.              *)
(*   source: internal/capabilities/agents/lifecycle.go                     *)
(* No lock spans a call: several calls of one runtime interleave at every  *)
(* registration and every file. A declaration is its version, 0 when there *)
(* is none. The runtime's registry is external: it refuses a name that is  *)
(* taken and forgets an unknown one without complaint.                     *)
(***************************************************************************)
EXTENDS Naturals, FiniteSets

CONSTANTS Calls,        \* calls of create, update and remove
          MaxVersion, MaxFails, MaxRestarts   \* bounds

VARIABLES
  disk, live, known,    \* agent.yaml, the runtime, Lifecycle.known
  pc, ver, old,         \* a call's step, what it writes, what it read
  load, loaded,         \* LoadMissing: its step and what it read
  next,                 \* versions handed out
  leftover,             \* a removal kept the declaration, or a start or a reload
                        \* could not register it (history)
  overlap,              \* two calls ran at once since the last start (history)
  fails, restarts

callVars == <<pc, ver, old>>
loadVars == <<load, loaded>>
vars == <<disk, live, known, callVars, loadVars, next, leftover, overlap, fails, restarts>>

Init ==
  /\ disk = 0 /\ live = 0 /\ known = FALSE
  /\ pc = [o \in Calls |-> "idle"] /\ ver = [o \in Calls |-> 0] /\ old = [o \in Calls |-> 0]
  /\ load = "idle" /\ loaded = 0
  /\ next = 1 /\ leftover = FALSE /\ overlap = FALSE /\ fails = 0 /\ restarts = 0

Go(o, to) == pc' = [pc EXCEPT ![o] = to]
Running == {o \in Calls : pc[o] \notin {"idle", "over"}}
Begins == overlap' = (overlap \/ Running # {} \/ load # "idle")

Same == UNCHANGED <<ver, old, loadVars, next, overlap, restarts>>
CanFail == fails < MaxFails /\ fails' = fails + 1

----------------------------------------------------------------------------
(* Lifecycle.Create *)

CreateRegisters(o) ==
  /\ pc[o] = "idle" /\ next <= MaxVersion /\ next' = next + 1
  /\ ver' = [ver EXCEPT ![o] = next] /\ Begins
  /\ \/ live = 0 /\ live' = next /\ Go(o, "write") /\ UNCHANGED fails
     \/ live # 0 /\ Go(o, "over") /\ UNCHANGED <<live, fails>>
     \/ CanFail /\ Go(o, "over") /\ UNCHANGED live
  /\ UNCHANGED <<disk, known, old, loadVars, leftover, restarts>>

CreateWrites(o) ==
  /\ pc[o] = "write"
  /\ \/ /\ disk' = ver[o] /\ known' = TRUE /\ leftover' = FALSE
        /\ Go(o, "over") /\ UNCHANGED fails
     \/ CanFail /\ Go(o, "rollback") /\ UNCHANGED <<disk, known, leftover>>
  /\ UNCHANGED live /\ Same

CreateRollsBack_Forgets(o) ==
  /\ pc[o] = "rollback" /\ Go(o, "over") /\ known' = FALSE
  /\ UNCHANGED <<disk, live, leftover, fails>> /\ Same

CreateRollsBack(o) ==
  /\ pc[o] = "rollback" /\ Go(o, "over")
  /\ \/ live' = 0 /\ known' = FALSE /\ UNCHANGED fails
     \/ CanFail /\ UNCHANGED <<live, known>>
  /\ UNCHANGED <<disk, leftover>> /\ Same

----------------------------------------------------------------------------
(* Lifecycle.Update *)

UpdateReads(o) ==
  /\ pc[o] = "idle" /\ disk # 0 /\ next <= MaxVersion /\ next' = next + 1
  /\ ver' = [ver EXCEPT ![o] = next] /\ old' = [old EXCEPT ![o] = disk]
  /\ Begins /\ Go(o, "swap")
  /\ UNCHANGED <<disk, live, known, loadVars, leftover, fails, restarts>>

\* In-flight delegations drain; a drain that times out keeps the registration.
UpdateUnregisters(o) ==
  /\ pc[o] = "swap"
  /\ \/ live' = 0 /\ Go(o, "register") /\ UNCHANGED fails
     \/ CanFail /\ Go(o, "over") /\ UNCHANGED live
  /\ UNCHANGED <<disk, known, leftover>> /\ Same

UpdateRegisters(o) ==
  /\ pc[o] = "register"
  /\ \/ live = 0 /\ live' = ver[o] /\ Go(o, "rewrite") /\ UNCHANGED fails
     \/ live # 0 /\ Go(o, "restore") /\ UNCHANGED <<live, fails>>
     \/ CanFail /\ Go(o, "restore") /\ UNCHANGED live
  /\ UNCHANGED <<disk, known, leftover>> /\ Same

UpdateWrites(o) ==
  /\ pc[o] = "rewrite"
  /\ \/ disk' = ver[o] /\ leftover' = FALSE /\ Go(o, "over") /\ UNCHANGED fails
     \/ CanFail /\ Go(o, "restore") /\ UNCHANGED <<disk, leftover>>
  /\ UNCHANGED <<live, known>> /\ Same

\* restoreAfterFailedUpdate: whatever is registered goes, and what the call read
\* before it began comes back.
RestoreUnregisters(o) ==
  /\ pc[o] = "restore"
  /\ \/ live' = 0 /\ Go(o, "reregister") /\ UNCHANGED fails
     \/ CanFail /\ Go(o, "over") /\ UNCHANGED live
  /\ UNCHANGED <<disk, known, leftover>> /\ Same

RestoreRegisters(o) ==
  /\ pc[o] = "reregister" /\ Go(o, "over")
  /\ \/ live' = (IF live = 0 THEN old[o] ELSE live) /\ UNCHANGED fails
     \/ CanFail /\ UNCHANGED live
  /\ UNCHANGED <<disk, known, leftover>> /\ Same

----------------------------------------------------------------------------
(* Lifecycle.Remove *)

RemoveUnregisters(o) ==
  /\ pc[o] = "idle" /\ Begins
  /\ \/ live' = 0 /\ known' = FALSE /\ Go(o, "delete") /\ UNCHANGED fails
     \/ CanFail /\ Go(o, "over") /\ UNCHANGED <<live, known>>
  /\ UNCHANGED <<disk, ver, old, loadVars, next, leftover, restarts>>

RemoveDeletes(o) ==
  /\ pc[o] = "delete" /\ Go(o, "over")
  /\ \/ disk' = 0 /\ leftover' = FALSE /\ UNCHANGED fails
     \/ CanFail /\ leftover' = (disk # 0) /\ UNCHANGED disk
  /\ UNCHANGED <<live, known>> /\ Same

----------------------------------------------------------------------------
(* A restart, and an in-place reload. *)

\* The process dies at any step; the next one registers what is declared (LoadAll). A
\* declaration that cannot be read or registered is reported and passed over.
Restart ==
  /\ restarts < MaxRestarts /\ restarts' = restarts + 1
  /\ \/ live' = disk /\ known' = (disk # 0) /\ leftover' = FALSE
     \/ disk # 0 /\ live' = 0 /\ known' = FALSE /\ leftover' = TRUE
  /\ pc' = [o \in Calls |-> IF pc[o] = "idle" THEN "idle" ELSE "over"]
  /\ load' = "idle" /\ loaded' = 0 /\ overlap' = FALSE
  /\ UNCHANGED <<disk, ver, old, next, fails>>

\* The new generation adopts the known names (AdoptKnown) and reads the declarations
\* of the others,
ReloadReads ==
  /\ load = "idle" /\ restarts < MaxRestarts /\ restarts' = restarts + 1
  /\ disk # 0 /\ ~known
  /\ load' = "register" /\ loaded' = disk
  /\ overlap' = (overlap \/ Running # {})
  /\ UNCHANGED <<disk, live, known, callVars, next, leftover, fails>>

\* which it registers, a name that is taken being live already; one it cannot register
\* stays unknown, for the next reload (LoadMissing).
LoadRegisters ==
  /\ load = "register" /\ load' = "idle" /\ loaded' = 0
  /\ \/ /\ live' = (IF live = 0 THEN loaded ELSE live)
        /\ known' = TRUE /\ leftover' = FALSE
     \/ live = 0 /\ leftover' = TRUE /\ UNCHANGED <<live, known>>
  /\ UNCHANGED <<disk, callVars, next, overlap, fails, restarts>>

Next ==
  \/ \E o \in Calls :
       \/ CreateRegisters(o) \/ CreateWrites(o) \/ CreateRollsBack(o)
       \/ UpdateReads(o) \/ UpdateUnregisters(o) \/ UpdateRegisters(o) \/ UpdateWrites(o)
       \/ RestoreUnregisters(o) \/ RestoreRegisters(o)
       \/ RemoveUnregisters(o) \/ RemoveDeletes(o)
  \/ Restart \/ ReloadReads \/ LoadRegisters

Spec == Init /\ [][Next]_vars

----------------------------------------------------------------------------
(* Properties. *)

AgentTypeOK ==
  /\ {disk, live, loaded} \subseteq 0 .. MaxVersion
  /\ \A o \in Calls : ver[o] < next /\ old[o] < next
  /\ load = "register" => loaded # 0

Quiet == Running = {} /\ load = "idle"

\* The runtime runs what the disk declares after calls that ran one at a time, a
\* single failure of any of their steps, restarts and reloads included; what it may
\* do instead is run nothing, after a removal that kept the declaration or a start or
\* a reload that could not register it, which both report it (Create, Update, Remove,
\* LoadAll, LoadMissing). It never runs a version that is not the declared one.
AloneIsConsistent ==
  Quiet /\ ~overlap => live = disk \/ (leftover /\ live = 0)
==============================================================================
