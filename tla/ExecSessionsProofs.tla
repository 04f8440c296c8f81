-------------------------- MODULE ExecSessionsProofs --------------------------
(***************************************************************************)
(* A process of a child always has somebody who will stop it, for every    *)
(* number of starts, calls and closes of its id.  The invariant says who   *)
(* may touch the table of the child, where a request can be, and what a    *)
(* caller knows of the process it was called on.                           *)
(***************************************************************************)
EXTENDS ExecSessions, TLAPS

\* The requests of one call.
StartOf(s) == <<s, "start">>
WaitOf(w) == <<w, "wait">>
ReleaseOf(c) == <<c, "release">>
TerminateOf(c) == <<c, "terminate">>

InBox(r, p) == \E i \in 1 .. Len(mbox[p]) : mbox[p][i] = r

\* The process was launched, and is dead or about to be killed.
Leaving(p) == os[p] = "exited" \/ Stopped(p)

\* One start at a time is between its reservation and its registration.
OneLaunch ==
    /\ \A s \in Starters : at[StartOf(s)] = "launch" <=> reserved = s
    /\ reserved # NoProc => table = NoProc

\* A start is answered "ok" exactly when its process was launched; before,
\* nobody has ever seen the process.
LaunchedOnce ==
    \A s \in Starters :
        /\ os[s] = "none" <=> out[StartOf(s)] # "ok"
        /\ out[StartOf(s)] = "ok" => at[StartOf(s)] = "answered"
        /\ os[s] = "none" => table # s /\ ~Stopped(s)

\* A stopper holds an entry from the take to the kill.
StoppersHold ==
    /\ \A k \in Stoppers :
           step[k] \in {"mark", "send", "await"} <=> victim[k] # NoProc
    /\ \A c \in Killers :
           victim[ReleaseOf(c)] # NoProc => at[ReleaseOf(c)] = "stopping"
    /\ due => victim[Reaper] = NoProc
    /\ bound => victim[Unbinder] = NoProc /\ step[Unbinder] # "sweep"

Child == OneLaunch /\ LaunchedOnce /\ StoppersHold /\ ServerOwnsProcess

\* What stands in a mailbox, or runs, is still queued or was abandoned, and
\* its process was launched.
Queues ==
    /\ \A r \in ActorRpcs :
           at[r] = "submit" => target[r] \in Procs /\ os[target[r]] # "none"
    /\ \A p \in Procs, r \in Rpcs :
           InBox(r, p) \/ cur[p] = r =>
               /\ r \in ActorRpcs /\ at[r] \in {"queued", "answered"}
               /\ at[r] = "queued" => target[r] = p
               /\ os[p] # "none"

\* A call sends a request once.
CallsOnce ==
    /\ \A s \in Starters : pc[s] = "idle" => at[StartOf(s)] = "off"
    /\ \A c \in Killers :
           pc[c] \in {"idle", "start"} => at[TerminateOf(c)] = "off"
    /\ \A c \in Killers :
           pc[c] \in {"idle", "start", "terminate"} => at[ReleaseOf(c)] = "off"
    /\ \A c \in Users, m \in Uses : pc[c] = "idle" => at[<<c, m>>] = "off"

\* A claim is with its start, a filled slot names a launched process.
SlotTells ==
    slot # NoProc => IF filled THEN os[slot] # "none" ELSE pc[slot] = "start"

\* The caller of a start that is under way is still there or has given up.
StartsAwaited ==
    \A s \in Starters :
        at[StartOf(s)] \in {"sent", "launch"} /\ ~Orphaned(s) => pc[s] = "start"

\* A close is of a launched process; once its release was heard, the process
\* is on its way out.
ClosesLaunched ==
    \A c \in Killers :
        /\ pc[c] \in {"terminate", "release"} \/ at[ReleaseOf(c)] # "off" =>
               aim[c] \in Procs /\ os[aim[c]] # "none"
        /\ pc[c] = "release" => at[ReleaseOf(c)] # "off"
        /\ at[ReleaseOf(c)] \notin {"off", "sent"} => ~bound \/ Leaving(aim[c])

\* A wait that came back is news of the process it was called on, or of a
\* successor in the table after that one had left it.
WaitsTell ==
    \A w \in Users :
        /\ at[WaitOf(w)] # "inline"
        /\ out[WaitOf(w)] = "ok" => at[WaitOf(w)] = "answered"
        /\ at[WaitOf(w)] # "off" \/ pc[w] = "drop" => aim[w] \in Procs /\ os[aim[w]] # "none"
        /\ at[WaitOf(w)] \in {"submit", "queued"} =>
               target[WaitOf(w)] = aim[w] \/ Leaving(aim[w])
        /\ out[WaitOf(w)] = "ok" \/ pc[w] = "drop" => Leaving(aim[w])

Tool == CallsOnce /\ SlotTells /\ StartsAwaited /\ ClosesLaunched /\ WaitsTell

IInv == Child /\ Queues /\ Tool /\ NoStrandedProcess

-----------------------------------------------------------------------------
(* Type correctness                                                       *)

\* The parts of TypeOK, one for each group of fields.
CallTypes  == /\ slot \in Starters \cup {NoProc} /\ filled \in BOOLEAN
              /\ pc \in [Calls -> Methods \cup {"idle", "drop", "done"}]
              /\ aim \in [Calls -> Starters \cup {NoProc}]
AtType     == at \in [Rpcs -> {"off", "sent", "launch", "submit", "queued",
                               "inline", "stopping", "answered"}]
ReplyTypes == /\ out \in [Rpcs -> {"none", "ok", "missing", "refused", "canceled"}]
              /\ target \in [Rpcs -> Procs \cup {NoProc}]
CtxType    == ctx \in [Rpcs -> {"live", "gaveUp", "done"}]
TableTypes == /\ bound \in BOOLEAN
              /\ table \in Procs \cup {NoProc} /\ reserved \in Procs \cup {NoProc}
ProcTypes  == /\ os \in [Procs -> {"none", "running", "exited"}]
              /\ known \in [Procs -> BOOLEAN]
BoxTypes   == /\ mbox \in [Procs -> Seq(Rpcs \cup {Stop})]
              /\ \A p \in Procs : Len(mbox[p]) <= MailboxCap
ActorTypes == /\ gone \in [Procs -> BOOLEAN] /\ stopped \in [Procs -> BOOLEAN]
              /\ cur \in [Procs -> Rpcs \cup {NoRpc}]
              /\ armed \in [Procs -> BOOLEAN] /\ intr \in [Procs -> BOOLEAN]
StopTypes  == /\ step \in [Stoppers -> {"none", "sweep", "mark", "send", "await"}]
              /\ victim \in [Stoppers -> Procs \cup {NoProc}]
              /\ due \in BOOLEAN

LEMMA Types ==
  TypeOK <=> /\ CallTypes /\ AtType /\ ReplyTypes /\ CtxType /\ TableTypes
             /\ ProcTypes /\ BoxTypes /\ ActorTypes /\ StopTypes
BY DEF TypeOK, CallTypes, AtType, ReplyTypes, CtxType, TableTypes, ProcTypes,
       BoxTypes, ActorTypes, StopTypes

LEMMA TypesNext ==
  ASSUME CallTypes', AtType', ReplyTypes', CtxType', TableTypes', ProcTypes',
         BoxTypes', ActorTypes', StopTypes'
  PROVE  TypeOK'
BY DEF TypeOK, CallTypes, AtType, ReplyTypes, CtxType, TableTypes, ProcTypes,
       BoxTypes, ActorTypes, StopTypes

\* Which requests there are.
LEMMA Requests ==
  /\ \A s \in Starters : s \in Calls /\ s \in Killers /\ s \in Procs /\ <<s, "start">> \in Rpcs
  /\ \A c \in Killers : /\ c \in Calls
                        /\ <<c, "terminate">> \in Rpcs /\ <<c, "release">> \in Rpcs
                        /\ <<c, "terminate">> \in ActorRpcs /\ <<c, "release">> \in Stoppers
  /\ \A c \in Closers : c \in Killers
  /\ \A c \in Users : c \in Calls /\ \A m \in Uses : <<c, m>> \in Rpcs /\ m \in Methods
  /\ \A r \in Rpcs : r = <<r[1], r[2]>> /\ r[2] \in Methods
  /\ Stop \notin Rpcs /\ NoProc \notin Procs /\ NoRpc \notin Rpcs /\ Procs = Starters
  /\ ActorRpcs \subseteq Rpcs /\ Reaper \in Stoppers /\ Unbinder \in Stoppers
  /\ \A k \in Stoppers : k \in Rpcs \/ k = Reaper \/ k = Unbinder
BY ExecSessionsAssumption
DEF Rpcs, Calls, Killers, Procs, Uses, Methods, ActorRpcs, Stoppers, Stop

\* What the shared steps do to the types.
LEMMA AnswerTypes ==
  ASSUME AtType, ReplyTypes, NEW r \in Rpcs,
         NEW o \in {"ok", "missing", "refused", "canceled"}, Answer(r, o)
  PROVE  AtType' /\ ReplyTypes'
BY DEF AtType, ReplyTypes, Answer

LEMMA MoveTypes ==
  ASSUME AtType, NEW r \in Rpcs,
         NEW to \in {"launch", "submit", "queued", "inline", "stopping"}, Move(r, to)
  PROVE  AtType'
BY DEF AtType, Move

LEMMA ReplyGoes ==
  ASSUME AtType, ReplyTypes, NEW r \in Rpcs,
         NEW o \in {"ok", "canceled"}, Reply(r, o)
  PROVE  AtType' /\ ReplyTypes'
<1>1. CASE at[r] = "queued" BY <1>1, AnswerTypes DEF Reply
<1>2. CASE at[r] # "queued" BY <1>2 DEF Reply, AtType, ReplyTypes
<1> QED BY <1>1, <1>2

LEMMA TakeGoes ==
  ASSUME StopTypes, TableTypes, NEW k \in Stoppers, Take(k)
  PROVE  /\ step' \in [Stoppers -> {"none", "sweep", "mark", "send", "await"}]
         /\ victim' \in [Stoppers -> Procs \cup {NoProc}]
         /\ table' \in Procs \cup {NoProc}
<1>1. CASE table = NoProc BY <1>1 DEF Take, StopTypes, TableTypes
<1>2. CASE table # NoProc
  <2>1. table \in Procs BY <1>2 DEF TableTypes
  <2> QED BY <1>2, <2>1 DEF Take, Begin, StopTypes, TableTypes
<1> QED BY <1>1, <1>2

LEMMA CallGoes ==
  ASSUME CallTypes, AtType, NEW c \in Calls, NEW m \in Methods, <<c, m>> \in Rpcs, Call(c, m)
  PROVE  /\ AtType' /\ pc' \in [Calls -> Methods \cup {"idle", "drop", "done"}]
BY DEF CallTypes, AtType, Call

LEMMA DoneGoes ==
  ASSUME CallTypes, AtType, NEW c \in Calls, Done(c)
  PROVE  /\ AtType' /\ pc' \in [Calls -> Methods \cup {"idle", "drop", "done"}]
BY DEF CallTypes, AtType, Done

LEMMA BoxGrows ==
  ASSUME BoxTypes, NEW p, NEW x \in Rpcs \cup {Stop}, Len(mbox[p]) < MailboxCap,
         mbox' = [mbox EXCEPT ![p] = Append(@, x)]
  PROVE  BoxTypes'
<1>1. mbox' \in [Procs -> Seq(Rpcs \cup {Stop})]
  <2>1. CASE p \in Procs
    <3>1. mbox[p] \in Seq(Rpcs \cup {Stop}) BY <2>1 DEF BoxTypes
    <3>2. Append(mbox[p], x) \in Seq(Rpcs \cup {Stop}) BY <3>1
    <3> QED BY <3>2 DEF BoxTypes
  <2>2. CASE p \notin Procs BY <2>2 DEF BoxTypes
  <2> QED BY <2>1, <2>2
<1>2. ASSUME NEW q \in Procs PROVE Len(mbox'[q]) <= MailboxCap
  <2>1. CASE q = p BY <2>1, ExecSessionsAssumption DEF BoxTypes
  <2>2. CASE q # p BY <2>2 DEF BoxTypes
  <2> QED BY <2>1, <2>2
<1> QED BY <1>1, <1>2 DEF BoxTypes

LEMMA TailOf ==
  ASSUME NEW X, NEW s \in Seq(X), s # <<>>
  PROVE  Head(s) \in X /\ Tail(s) \in Seq(X) /\ Len(Tail(s)) = Len(s) - 1 /\ Len(s) \in Nat
OBVIOUS

LEMMA BoxShrinks ==
  ASSUME BoxTypes, NEW p \in Procs, mbox[p] # <<>>,
         mbox' = [mbox EXCEPT ![p] = Tail(@)]
  PROVE  BoxTypes' /\ Head(mbox[p]) \in Rpcs \cup {Stop}
<1>1. mbox[p] \in Seq(Rpcs \cup {Stop}) BY DEF BoxTypes
<1>2. /\ Head(mbox[p]) \in Rpcs \cup {Stop} /\ Tail(mbox[p]) \in Seq(Rpcs \cup {Stop})
      /\ Len(Tail(mbox[p])) = Len(mbox[p]) - 1 /\ Len(mbox[p]) \in Nat
  BY <1>1, TailOf
<1> QED BY <1>2, ExecSessionsAssumption DEF BoxTypes

\* Nothing was called, nothing runs.
LEMMA TypeInit == Init => TypeOK
<1> SUFFICES ASSUME Init PROVE TypeOK
  OBVIOUS
<1>1. CallTypes /\ AtType /\ CtxType BY DEF Init, CallTypes, AtType, CtxType
<1>2. ReplyTypes /\ TableTypes /\ ProcTypes BY DEF Init, ReplyTypes, TableTypes, ProcTypes
<1>3. BoxTypes BY ExecSessionsAssumption DEF Init, BoxTypes
<1>4. ActorTypes /\ StopTypes BY DEF Init, ActorTypes, StopTypes
<1> QED BY <1>1, <1>2, <1>3, <1>4, Types

\* Every step keeps the types: a mailbox never takes more than its capacity.
LEMMA TypeStep == TypeOK /\ [Next]_vars => TypeOK'
<1> SUFFICES ASSUME TypeOK, [Next]_vars PROVE TypeOK'
  OBVIOUS
<1>0. /\ CallTypes /\ AtType /\ ReplyTypes /\ CtxType /\ TableTypes
      /\ ProcTypes /\ BoxTypes /\ ActorTypes /\ StopTypes
  BY Types
<1> USE <1>0, Requests
<1>1. ASSUME NEW s \in Starters, StartClaim(s) PROVE TypeOK'
  <2>1. CallTypes' /\ AtType'
    BY <1>1, CallGoes, DoneGoes DEF StartClaim, toolRest, actorVars,
       procVars, tableVars, stopVars, CallTypes, Methods
  <2>2. ReplyTypes' /\ CtxType' /\ TableTypes' /\ ProcTypes' /\ BoxTypes' /\
        ActorTypes' /\ StopTypes'
    BY <1>1 DEF StartClaim, Call, Done, toolRest, actorVars, procVars,
       tableVars, stopVars, ReplyTypes, CtxType, TableTypes, ProcTypes,
       BoxTypes, ActorTypes, StopTypes
  <2> QED BY <2>1, <2>2, TypesNext
<1>2. ASSUME NEW s \in Starters, StartFill(s) PROVE TypeOK'
  <2>1. CASE slot = s
    <3>1. CallTypes' /\ AtType'
      BY <1>2, <2>1, DoneGoes DEF StartFill, CallTypes
    <3> QED BY <1>2, <3>1, TypesNext DEF StartFill, toolRest, actorVars, procVars, tableVars, stopVars, ReplyTypes,
           CtxType, TableTypes, ProcTypes, BoxTypes, ActorTypes, StopTypes
  <2>2. CASE slot # s
    <3>0. /\ Call(s, "terminate") /\ aim' = [aim EXCEPT ![s] = s]
          /\ filled' = filled /\ slot' = slot
      BY <1>2, <2>2 DEF StartFill
    <3>1. CallTypes' /\ AtType'
      BY <3>0, CallGoes DEF CallTypes, Methods
    <3> QED BY <1>2, <3>1, TypesNext DEF StartFill, toolRest, actorVars, procVars, tableVars, stopVars, ReplyTypes,
           CtxType, TableTypes, ProcTypes, BoxTypes, ActorTypes, StopTypes
  <2> QED BY <2>1, <2>2
<1>3. ASSUME NEW s \in Starters, StartFails(s) PROVE TypeOK'
  <2>1. CallTypes' /\ AtType'
    BY <1>3, DoneGoes DEF StartFails, Got, GaveUp, ReleaseClaim, toolRest,
       actorVars, procVars, tableVars, stopVars, CallTypes
  <2>2. CtxType'
    BY <1>3 DEF StartFails, Got, GaveUp, ReleaseClaim, Done, toolRest,
       actorVars, procVars, tableVars, stopVars, CtxType
  <2>3. ReplyTypes' /\ TableTypes' /\ ProcTypes' /\ BoxTypes' /\ ActorTypes'
        /\ StopTypes'
    BY <1>3 DEF StartFails, Got, GaveUp, ReleaseClaim, Done, toolRest,
       actorVars, procVars, tableVars, stopVars, ReplyTypes, TableTypes,
       ProcTypes, BoxTypes, ActorTypes, StopTypes
  <2> QED BY <2>1, <2>2, <2>3, TypesNext
<1>4. ASSUME NEW c \in Users, NEW m \in Uses, Use(c, m) PROVE TypeOK'
  <2>1. CASE slot # NoProc /\ filled
    <3>1. CallTypes' /\ AtType'
      BY <1>4, <2>1, CallGoes DEF Use, CallTypes
    <3> QED BY <1>4, <3>1, TypesNext DEF Use, toolRest, actorVars, procVars, tableVars, stopVars, ReplyTypes,
           CtxType, TableTypes, ProcTypes, BoxTypes, ActorTypes, StopTypes
  <2>2. CASE ~(slot # NoProc /\ filled)
    <3>1. CallTypes' /\ AtType'
      BY <1>4, <2>2, DoneGoes DEF Use, CallTypes
    <3> QED BY <1>4, <3>1, TypesNext DEF Use, toolRest, actorVars, procVars, tableVars, stopVars, ReplyTypes,
           CtxType, TableTypes, ProcTypes, BoxTypes, ActorTypes, StopTypes
  <2> QED BY <2>1, <2>2
<1>5. ASSUME NEW c \in Users, NEW m \in Uses, UseReturns(c, m) PROVE TypeOK'
  <2>1. CallTypes' /\ AtType'
    BY <1>5, DoneGoes DEF UseReturns, Got, GaveUp, toolRest, actorVars,
       procVars, tableVars, stopVars, CallTypes
  <2>2. CtxType'
    BY <1>5 DEF UseReturns, Got, GaveUp, Done, toolRest, actorVars,
       procVars, tableVars, stopVars, CtxType
  <2>3. ReplyTypes' /\ TableTypes' /\ ProcTypes' /\ BoxTypes' /\ ActorTypes'
        /\ StopTypes'
    BY <1>5 DEF UseReturns, Got, GaveUp, Done, toolRest, actorVars,
       procVars, tableVars, stopVars, ReplyTypes, TableTypes, ProcTypes,
       BoxTypes, ActorTypes, StopTypes
  <2> QED BY <2>1, <2>2, <2>3, TypesNext
<1>6. ASSUME NEW c \in Users, WaitEnds(c) PROVE TypeOK'
  <2>1. CallTypes'
    BY <1>6 DEF WaitEnds, Got, toolRest, actorVars, procVars, tableVars,
       stopVars, CallTypes
  <2>2. AtType' /\ ReplyTypes' /\ CtxType' /\ TableTypes' /\ ProcTypes' /\
        BoxTypes' /\ ActorTypes' /\ StopTypes'
    BY <1>6 DEF WaitEnds, Got, toolRest, actorVars, procVars, tableVars,
       stopVars, AtType, ReplyTypes, CtxType, TableTypes, ProcTypes,
       BoxTypes, ActorTypes, StopTypes
  <2> QED BY <2>1, <2>2, TypesNext
<1>7. ASSUME NEW c \in Users, WaitDrops(c) PROVE TypeOK'
  <2>1. CallTypes' /\ AtType'
    BY <1>7, DoneGoes DEF WaitDrops, toolRest, actorVars, procVars,
       tableVars, stopVars, CallTypes
  <2>2. ReplyTypes' /\ CtxType' /\ TableTypes' /\ ProcTypes' /\ BoxTypes' /\
        ActorTypes' /\ StopTypes'
    BY <1>7 DEF WaitDrops, Done, toolRest, actorVars, procVars, tableVars,
       stopVars, ReplyTypes, CtxType, TableTypes, ProcTypes, BoxTypes,
       ActorTypes, StopTypes
  <2> QED BY <2>1, <2>2, TypesNext
<1>8. ASSUME NEW c \in Closers, Close(c) PROVE TypeOK'
  <2>1. CallTypes' /\ AtType'
    BY <1>8, CallGoes, DoneGoes DEF Close, toolRest, actorVars, procVars,
       tableVars, stopVars, CallTypes, Methods
  <2>2. ReplyTypes' /\ CtxType' /\ TableTypes' /\ ProcTypes' /\ BoxTypes' /\
        ActorTypes' /\ StopTypes'
    BY <1>8 DEF Close, Call, Done, toolRest, actorVars, procVars, tableVars,
       stopVars, ReplyTypes, CtxType, TableTypes, ProcTypes, BoxTypes,
       ActorTypes, StopTypes
  <2> QED BY <2>1, <2>2, TypesNext
<1>9. ASSUME NEW c \in Killers, CloseReleases(c) PROVE TypeOK'
  <2>1. CallTypes' /\ AtType'
    BY <1>9, CallGoes DEF CloseReleases, Got, GaveUp, toolRest, actorVars,
       procVars, tableVars, stopVars, CallTypes, Methods
  <2>2. CtxType'
    BY <1>9 DEF CloseReleases, Got, GaveUp, Call, toolRest, actorVars,
       procVars, tableVars, stopVars, CtxType
  <2>3. ReplyTypes' /\ TableTypes' /\ ProcTypes' /\ BoxTypes' /\ ActorTypes'
        /\ StopTypes'
    BY <1>9 DEF CloseReleases, Got, GaveUp, Call, toolRest, actorVars,
       procVars, tableVars, stopVars, ReplyTypes, TableTypes, ProcTypes,
       BoxTypes, ActorTypes, StopTypes
  <2> QED BY <2>1, <2>2, <2>3, TypesNext
<1>10. ASSUME NEW c \in Killers, CloseReturns(c) PROVE TypeOK'
  <2>1. CallTypes' /\ AtType'
    BY <1>10, DoneGoes DEF CloseReturns, toolRest, actorVars, procVars,
       tableVars, stopVars, CallTypes
  <2>2. ReplyTypes' /\ CtxType' /\ TableTypes' /\ ProcTypes' /\ BoxTypes' /\
        ActorTypes' /\ StopTypes'
    BY <1>10 DEF CloseReturns, Done, toolRest, actorVars, procVars,
       tableVars, stopVars, ReplyTypes, CtxType, TableTypes, ProcTypes,
       BoxTypes, ActorTypes, StopTypes
  <2> QED BY <2>1, <2>2, TypesNext
<1>11. ASSUME NEW s \in Starters, StartReserves(s) PROVE TypeOK'
  <2>1. AtType' /\ ReplyTypes'
    BY <1>11, AnswerTypes, MoveTypes DEF StartReserves, Taken, Move,
       actorVars, handlerRest, toolVars, procVars, stopVars, ReplyTypes
  <2>2. TableTypes'
    BY <1>11 DEF StartReserves, Taken, Answer, Move, actorVars, handlerRest,
       toolVars, procVars, stopVars, TableTypes
  <2>3. CallTypes' /\ CtxType' /\ ProcTypes' /\ BoxTypes' /\ ActorTypes' /\
        StopTypes'
    BY <1>11 DEF StartReserves, Taken, Answer, Move, actorVars, handlerRest,
       toolVars, procVars, stopVars, CallTypes, CtxType, ProcTypes,
       BoxTypes, ActorTypes, StopTypes
  <2> QED BY <2>1, <2>2, <2>3, TypesNext
<1>12. ASSUME NEW s \in Starters, StartLaunchFails(s) PROVE TypeOK'
  <2>1. AtType' /\ ReplyTypes'
    BY <1>12, AnswerTypes DEF StartLaunchFails, actorVars, handlerRest,
       toolVars, procVars, stopVars
  <2>2. TableTypes'
    BY <1>12 DEF StartLaunchFails, Answer, actorVars, handlerRest, toolVars,
       procVars, stopVars, TableTypes
  <2>3. CallTypes' /\ CtxType' /\ ProcTypes' /\ BoxTypes' /\ ActorTypes' /\
        StopTypes'
    BY <1>12 DEF StartLaunchFails, Answer, actorVars, handlerRest, toolVars,
       procVars, stopVars, CallTypes, CtxType, ProcTypes, BoxTypes,
       ActorTypes, StopTypes
  <2> QED BY <2>1, <2>2, <2>3, TypesNext
<1>13. ASSUME NEW s \in Starters, StartRegisters(s) PROVE TypeOK'
  <2>1. AtType' /\ ReplyTypes'
    BY <1>13, AnswerTypes DEF StartRegisters, actorVars, toolVars, stopVars
  <2>2. TableTypes'
    BY <1>13 DEF StartRegisters, Answer, actorVars, toolVars, stopVars,
       TableTypes
  <2>3. ProcTypes'
    BY <1>13 DEF StartRegisters, Answer, actorVars, toolVars, stopVars,
       ProcTypes
  <2>4. CallTypes' /\ CtxType' /\ BoxTypes' /\ ActorTypes' /\ StopTypes'
    BY <1>13 DEF StartRegisters, Answer, actorVars, toolVars, stopVars,
       CallTypes, CtxType, BoxTypes, ActorTypes, StopTypes
  <2> QED BY <2>1, <2>2, <2>3, <2>4, TypesNext
<1>14. ASSUME NEW r \in ActorRpcs, CancelLands(r) PROVE TypeOK'
  <2>1. CtxType'
    BY <1>14 DEF CancelLands, toolVars, actorVars, procVars, tableVars,
       stopVars, CtxType
  <2>2. CallTypes' /\ AtType' /\ ReplyTypes' /\ TableTypes' /\ ProcTypes' /\
        BoxTypes' /\ ActorTypes' /\ StopTypes'
    BY <1>14 DEF CancelLands, toolVars, actorVars, procVars, tableVars,
       stopVars, CallTypes, AtType, ReplyTypes, TableTypes, ProcTypes,
       BoxTypes, ActorTypes, StopTypes
  <2> QED BY <2>1, <2>2, TypesNext
<1>15. ASSUME NEW r \in ActorRpcs, OpArrives(r) PROVE TypeOK'
  <2>1. AtType' /\ ReplyTypes'
    BY <1>15, AnswerTypes, MoveTypes DEF OpArrives, Move, Interrupt,
       tableVars, handlerRest, toolVars, procVars, stopVars, ReplyTypes,
       TableTypes
  <2>2. ActorTypes'
    BY <1>15 DEF OpArrives, Answer, Move, Interrupt, tableVars, handlerRest,
       toolVars, procVars, stopVars, ActorTypes
  <2>3. CallTypes' /\ CtxType' /\ TableTypes' /\ ProcTypes' /\ BoxTypes' /\
        StopTypes'
    BY <1>15 DEF OpArrives, Answer, Move, Interrupt, tableVars, handlerRest,
       toolVars, procVars, stopVars, CallTypes, CtxType, TableTypes,
       ProcTypes, BoxTypes, StopTypes
  <2> QED BY <2>1, <2>2, <2>3, TypesNext
<1>16. ASSUME NEW r \in ActorRpcs, InlineReadEnds(r) PROVE TypeOK'
  <2>1. AtType' /\ ReplyTypes'
    BY <1>16, AnswerTypes DEF InlineReadEnds, actorVars, tableVars,
       handlerRest, toolVars, procVars, stopVars
  <2>2. CallTypes' /\ CtxType' /\ TableTypes' /\ ProcTypes' /\ BoxTypes' /\
        ActorTypes' /\ StopTypes'
    BY <1>16 DEF InlineReadEnds, Answer, actorVars, tableVars, handlerRest,
       toolVars, procVars, stopVars, CallTypes, CtxType, TableTypes,
       ProcTypes, BoxTypes, ActorTypes, StopTypes
  <2> QED BY <2>1, <2>2, TypesNext
<1>17. ASSUME NEW r \in ActorRpcs, Enqueue(r) PROVE TypeOK'
  <2>1. AtType' /\ ReplyTypes'
    BY <1>17, AnswerTypes, MoveTypes DEF Enqueue, Move, tableVars,
       handlerRest, toolVars, procVars, stopVars, ReplyTypes
  <2>2. BoxTypes'
    BY <1>17, BoxGrows DEF Enqueue, Answer, Move, tableVars, handlerRest,
       toolVars, procVars, stopVars, BoxTypes
  <2>3. CallTypes' /\ CtxType' /\ TableTypes' /\ ProcTypes' /\ ActorTypes' /\
        StopTypes'
    BY <1>17 DEF Enqueue, Answer, Move, tableVars, handlerRest, toolVars,
       procVars, stopVars, CallTypes, CtxType, TableTypes, ProcTypes,
       ActorTypes, StopTypes
  <2> QED BY <2>1, <2>2, <2>3, TypesNext
<1>18. ASSUME NEW r \in ActorRpcs, Abandon(r) PROVE TypeOK'
  <2>1. AtType' /\ ReplyTypes'
    BY <1>18, AnswerTypes DEF Abandon, Interrupt, tableVars, handlerRest,
       toolVars, procVars, stopVars
  <2>2. ActorTypes'
    BY <1>18 DEF Abandon, Answer, Interrupt, tableVars, handlerRest,
       toolVars, procVars, stopVars, ActorTypes
  <2>3. CallTypes' /\ CtxType' /\ TableTypes' /\ ProcTypes' /\ BoxTypes' /\
        StopTypes'
    BY <1>18 DEF Abandon, Answer, Interrupt, tableVars, handlerRest,
       toolVars, procVars, stopVars, CallTypes, CtxType, TableTypes,
       ProcTypes, BoxTypes, StopTypes
  <2> QED BY <2>1, <2>2, <2>3, TypesNext
<1>19. ASSUME NEW c \in Killers, ReleaseArrives(c) PROVE TypeOK'
  <2>1. AtType' /\ ReplyTypes'
    BY <1>19, AnswerTypes, MoveTypes DEF ReleaseArrives, Move, Take, Begin,
       actorVars, stopRest, toolVars, ReplyTypes
  <2>2. TableTypes'
    BY <1>19 DEF ReleaseArrives, Answer, Move, Take, Begin, actorVars,
       stopRest, toolVars, TableTypes
  <2>3. StopTypes'
    BY <1>19 DEF ReleaseArrives, Answer, Move, Take, Begin, actorVars,
       stopRest, toolVars, StopTypes, TableTypes
  <2>4. CallTypes' /\ CtxType' /\ ProcTypes' /\ BoxTypes' /\ ActorTypes'
    BY <1>19 DEF ReleaseArrives, Answer, Move, Take, Begin, actorVars,
       stopRest, toolVars, CallTypes, CtxType, ProcTypes, BoxTypes,
       ActorTypes
  <2> QED BY <2>1, <2>2, <2>3, <2>4, TypesNext
<1>20. ASSUME NEW p \in Procs, Pop(p) PROVE TypeOK'
  <2>1. AtType' /\ ReplyTypes'
    BY <1>20, BoxShrinks, ReplyGoes DEF Pop, actorRest, toolVars, tableVars,
       stopVars, AtType, ReplyTypes
  <2>2. BoxTypes'
    BY <1>20, BoxShrinks DEF Pop, Reply, Answer, actorRest, toolVars,
       tableVars, stopVars, BoxTypes
  <2>3. ActorTypes'
    <3>1. Head(mbox[p]) \in Rpcs \cup {Stop} BY <1>20, BoxShrinks DEF Pop
    <3>2. \/ cur' = cur
          \/ Head(mbox[p]) \in Rpcs /\ cur' = [cur EXCEPT ![p] = Head(mbox[p])]
      BY <1>20, <3>1 DEF Pop
    <3>3. gone' = gone \/ gone' = [gone EXCEPT ![p] = TRUE] BY <1>20 DEF Pop
    <3>4. stopped' = stopped /\ armed' = armed /\ intr' = intr
      BY <1>20 DEF Pop, actorRest
    <3>5. gone' \in [Procs -> BOOLEAN] BY <3>3 DEF ActorTypes
    <3>6. cur' \in [Procs -> Rpcs \cup {NoRpc}] BY <3>2 DEF ActorTypes
    <3> QED BY <3>4, <3>5, <3>6 DEF ActorTypes
  <2>4. CallTypes' /\ CtxType' /\ TableTypes' /\ ProcTypes' /\ StopTypes'
    BY <1>20 DEF Pop, Reply, Answer, actorRest, toolVars, tableVars,
       stopVars, CallTypes, CtxType, TableTypes, ProcTypes, StopTypes
  <2> QED BY <2>1, <2>2, <2>3, <2>4, TypesNext
<1>21. ASSUME NEW p \in Procs, Arm(p) PROVE TypeOK'
  <2>1. ActorTypes'
    BY <1>21 DEF Arm, actorRest, toolVars, tableVars, stopVars, ActorTypes
  <2>2. CallTypes' /\ AtType' /\ ReplyTypes' /\ CtxType' /\ TableTypes' /\
        ProcTypes' /\ BoxTypes' /\ StopTypes'
    BY <1>21 DEF Arm, actorRest, toolVars, tableVars, stopVars, CallTypes,
       AtType, ReplyTypes, CtxType, TableTypes, ProcTypes, BoxTypes,
       StopTypes
  <2> QED BY <2>1, <2>2, TypesNext
<1>22. ASSUME NEW p \in Procs, Finish(p) PROVE TypeOK'
  <2>1. AtType' /\ ReplyTypes'
    BY <1>22, ReplyGoes DEF Finish, OpEnds, Canceled, actorRest, toolVars,
       tableVars, stopVars, ActorTypes
  <2>2. ProcTypes'
    BY <1>22 DEF Finish, OpEnds, Canceled, Reply, Answer, actorRest,
       toolVars, tableVars, stopVars, ProcTypes
  <2>3. ActorTypes'
    BY <1>22 DEF Finish, OpEnds, Canceled, Reply, Answer, actorRest,
       toolVars, tableVars, stopVars, ActorTypes
  <2>4. CallTypes' /\ CtxType' /\ TableTypes' /\ BoxTypes' /\ StopTypes'
    BY <1>22 DEF Finish, OpEnds, Canceled, Reply, Answer, actorRest,
       toolVars, tableVars, stopVars, CallTypes, CtxType, TableTypes,
       BoxTypes, StopTypes
  <2> QED BY <2>1, <2>2, <2>3, <2>4, TypesNext
<1>23. ASSUME NEW p \in Procs, ProcessExits(p) PROVE TypeOK'
  <2>1. ProcTypes'
    BY <1>23 DEF ProcessExits, toolVars, rpcVars, actorVars, tableVars,
       stopVars, ProcTypes
  <2>2. CallTypes' /\ AtType' /\ ReplyTypes' /\ CtxType' /\ TableTypes' /\
        BoxTypes' /\ ActorTypes' /\ StopTypes'
    BY <1>23 DEF ProcessExits, toolVars, rpcVars, actorVars, tableVars,
       stopVars, CallTypes, AtType, ReplyTypes, CtxType, TableTypes,
       BoxTypes, ActorTypes, StopTypes
  <2> QED BY <2>1, <2>2, TypesNext
<1>24. ASSUME NEW p \in Procs, ExitPublished(p) PROVE TypeOK'
  <2>1. ProcTypes'
    BY <1>24 DEF ExitPublished, toolVars, rpcVars, actorVars, tableVars,
       stopVars, ProcTypes
  <2>2. CallTypes' /\ AtType' /\ ReplyTypes' /\ CtxType' /\ TableTypes' /\
        BoxTypes' /\ ActorTypes' /\ StopTypes'
    BY <1>24 DEF ExitPublished, toolVars, rpcVars, actorVars, tableVars,
       stopVars, CallTypes, AtType, ReplyTypes, CtxType, TableTypes,
       BoxTypes, ActorTypes, StopTypes
  <2> QED BY <2>1, <2>2, TypesNext
<1>25. ASSUME ReaperLists PROVE TypeOK'
  <2>1. StopTypes'
    BY <1>25 DEF ReaperLists, toolVars, rpcVars, actorVars, procVars,
       tableVars, stopVars, StopTypes
  <2>2. CallTypes' /\ AtType' /\ ReplyTypes' /\ CtxType' /\ TableTypes' /\
        ProcTypes' /\ BoxTypes' /\ ActorTypes'
    BY <1>25 DEF ReaperLists, toolVars, rpcVars, actorVars, procVars,
       tableVars, stopVars, CallTypes, AtType, ReplyTypes, CtxType,
       TableTypes, ProcTypes, BoxTypes, ActorTypes
  <2> QED BY <2>1, <2>2, TypesNext
<1>26. ASSUME ReaperTakes PROVE TypeOK'
  <2>1. StopTypes' /\ TableTypes'
    BY <1>26, TakeGoes DEF ReaperTakes, toolVars, rpcVars, actorVars,
       procVars, StopTypes, TableTypes
  <2>2. CallTypes' /\ AtType' /\ ReplyTypes' /\ CtxType' /\ ProcTypes' /\
        BoxTypes' /\ ActorTypes'
    BY <1>26 DEF ReaperTakes, Take, Begin, toolVars, rpcVars, actorVars,
       procVars, CallTypes, AtType, ReplyTypes, CtxType, ProcTypes,
       BoxTypes, ActorTypes
  <2> QED BY <2>1, <2>2, TypesNext
<1>27. ASSUME Unbind PROVE TypeOK'
  <2>1. TableTypes'
    BY <1>27 DEF Unbind, toolVars, rpcVars, actorVars, procVars, TableTypes
  <2>2. StopTypes'
    BY <1>27 DEF Unbind, toolVars, rpcVars, actorVars, procVars, StopTypes
  <2>3. CallTypes' /\ AtType' /\ ReplyTypes' /\ CtxType' /\ ProcTypes' /\
        BoxTypes' /\ ActorTypes'
    BY <1>27 DEF Unbind, toolVars, rpcVars, actorVars, procVars, CallTypes,
       AtType, ReplyTypes, CtxType, ProcTypes, BoxTypes, ActorTypes
  <2> QED BY <2>1, <2>2, <2>3, TypesNext
<1>28. ASSUME UnbindSweeps PROVE TypeOK'
  <2>1. TableTypes'
    BY <1>28 DEF UnbindSweeps, Begin, toolVars, rpcVars, actorVars,
       procVars, TableTypes
  <2>2. StopTypes'
    BY <1>28 DEF UnbindSweeps, Begin, toolVars, rpcVars, actorVars,
       procVars, StopTypes, TableTypes
  <2>3. CallTypes' /\ AtType' /\ ReplyTypes' /\ CtxType' /\ ProcTypes' /\
        BoxTypes' /\ ActorTypes'
    BY <1>28 DEF UnbindSweeps, Begin, toolVars, rpcVars, actorVars,
       procVars, CallTypes, AtType, ReplyTypes, CtxType, ProcTypes,
       BoxTypes, ActorTypes
  <2> QED BY <2>1, <2>2, <2>3, TypesNext
<1>29. ASSUME NEW k \in Stoppers, StopMarks(k) PROVE TypeOK'
  <2>1. ActorTypes'
    BY <1>29 DEF StopMarks, To, Interrupt, stopRest, toolVars, ActorTypes
  <2>2. StopTypes'
    BY <1>29 DEF StopMarks, To, Interrupt, stopRest, toolVars, StopTypes
  <2>3. CallTypes' /\ AtType' /\ ReplyTypes' /\ CtxType' /\ TableTypes' /\
        ProcTypes' /\ BoxTypes'
    BY <1>29 DEF StopMarks, To, Interrupt, stopRest, toolVars, CallTypes,
       AtType, ReplyTypes, CtxType, TableTypes, ProcTypes, BoxTypes
  <2> QED BY <2>1, <2>2, <2>3, TypesNext
<1>30. ASSUME NEW k \in Stoppers, StopSends(k) PROVE TypeOK'
  <2>1. BoxTypes'
    BY <1>30, BoxGrows DEF StopSends, To, stopRest, toolVars, BoxTypes
  <2>2. StopTypes'
    BY <1>30 DEF StopSends, To, stopRest, toolVars, StopTypes
  <2>3. CallTypes' /\ AtType' /\ ReplyTypes' /\ CtxType' /\ TableTypes' /\
        ProcTypes' /\ ActorTypes'
    BY <1>30 DEF StopSends, To, stopRest, toolVars, CallTypes, AtType,
       ReplyTypes, CtxType, TableTypes, ProcTypes, ActorTypes
  <2> QED BY <2>1, <2>2, <2>3, TypesNext
<1>31. ASSUME NEW k \in Stoppers, StopKills(k) PROVE TypeOK'
  <2>1. AtType' /\ ReplyTypes'
    BY <1>31, AnswerTypes DEF StopKills, Killed, toolVars, actorVars,
       tableVars, AtType, ReplyTypes
  <2>2. ProcTypes'
    BY <1>31 DEF StopKills, Killed, Answer, toolVars, actorVars, tableVars,
       ProcTypes
  <2>3. StopTypes'
    BY <1>31 DEF StopKills, Killed, Answer, toolVars, actorVars, tableVars,
       StopTypes
  <2>4. CallTypes' /\ CtxType' /\ TableTypes' /\ BoxTypes' /\ ActorTypes'
    BY <1>31 DEF StopKills, Killed, Answer, toolVars, actorVars, tableVars,
       CallTypes, CtxType, TableTypes, BoxTypes, ActorTypes
  <2> QED BY <2>1, <2>2, <2>3, <2>4, TypesNext
<1>32. CASE UNCHANGED vars
  BY <1>32 DEF TypeOK, vars, toolVars, rpcVars, actorVars, procVars, tableVars, stopVars
<1> QED
  BY <1>1, <1>2, <1>3, <1>4, <1>5, <1>6, <1>7, <1>8, <1>9, <1>10, <1>11,
     <1>12, <1>13, <1>14, <1>15, <1>16, <1>17, <1>18, <1>19, <1>20, <1>21,
     <1>22, <1>23, <1>24, <1>25, <1>26, <1>27, <1>28, <1>29, <1>30, <1>31,
     <1>32
  DEF Next, ToolNext, ChildNext, StartHandler, OpHandler, Actor, Stopping

-----------------------------------------------------------------------------
(* What the steps do, element by element                                  *)

\* The request is where it was and was answered as it was.
Kept(r) == at'[r] = at[r] /\ out'[r] = out[r] /\ target'[r] = target[r]

\* A request on a process is neither a start nor a release.
LEMMA Apart ==
  /\ \A s \in Starters : /\ StartOf(s) \in Rpcs /\ StartOf(s) \notin ActorRpcs
                         /\ StartOf(s) \notin Stoppers
  /\ \A c \in Killers : /\ ReleaseOf(c) \in Rpcs /\ ReleaseOf(c) \notin ActorRpcs
                        /\ ReleaseOf(c) \in Stoppers
                        /\ ReleaseOf(c) # Reaper /\ ReleaseOf(c) # Unbinder
  /\ \A w \in Users : WaitOf(w) \in Rpcs /\ WaitOf(w) \in ActorRpcs
  /\ \A c, d : StartOf(c) = StartOf(d) => c = d
  /\ \A c, d : ReleaseOf(c) = ReleaseOf(d) => c = d
  /\ \A c, d : WaitOf(c) = WaitOf(d) => c = d
  /\ \A c, d : /\ StartOf(c) # ReleaseOf(d) /\ StartOf(c) # WaitOf(d)
               /\ ReleaseOf(c) # WaitOf(d)
  /\ \A k \in Stoppers : \/ k = Reaper \/ k = Unbinder
                         \/ \E c \in Killers : k = ReleaseOf(c)
  /\ Reaper # Unbinder
<1>1. \A c : /\ StartOf(c)[1] = c /\ StartOf(c)[2] = "start"
            /\ ReleaseOf(c)[1] = c /\ ReleaseOf(c)[2] = "release"
            /\ WaitOf(c)[1] = c /\ WaitOf(c)[2] = "wait"
  BY DEF StartOf, ReleaseOf, WaitOf
<1>2. /\ \A s \in Starters : StartOf(s) \in Rpcs
      /\ \A c \in Killers : ReleaseOf(c) \in Rpcs /\ ReleaseOf(c) \in Stoppers
      /\ \A w \in Users : WaitOf(w) \in Rpcs
  BY Requests DEF StartOf, ReleaseOf, WaitOf, Uses
<1>3. \A r \in Rpcs : r \in ActorRpcs <=> r[2] \in Uses \cup {"terminate"}
  BY DEF ActorRpcs
<1>4. \A k \in Stoppers : \/ k = Reaper \/ k = Unbinder
                         \/ \E c \in Killers : k = ReleaseOf(c)
  BY DEF Stoppers, ReleaseOf
<1>5. \A s \in Starters : StartOf(s) \notin Stoppers
  BY <1>1, <1>2, <1>4, ExecSessionsAssumption
<1>6. \A s \in Starters : StartOf(s) \notin ActorRpcs
  BY <1>1, <1>2, <1>3 DEF Uses
<1>7. \A c \in Killers : ReleaseOf(c) \notin ActorRpcs
  BY <1>1, <1>2, <1>3 DEF Uses
<1>8. \A w \in Users : WaitOf(w) \in ActorRpcs
  BY <1>1, <1>2, <1>3 DEF Uses
<1>9. \A c, d : StartOf(c) = StartOf(d) => c = d BY <1>1
<1>10. \A c, d : ReleaseOf(c) = ReleaseOf(d) => c = d BY <1>1
<1>11. \A c, d : WaitOf(c) = WaitOf(d) => c = d BY <1>1
<1>12. \A c, d : /\ StartOf(c) # ReleaseOf(d) /\ StartOf(c) # WaitOf(d)
                /\ ReleaseOf(c) # WaitOf(d)
  BY <1>1
<1>13. /\ \A c \in Killers : ReleaseOf(c) # Reaper /\ ReleaseOf(c) # Unbinder
       /\ Reaper # Unbinder
  BY <1>2, ExecSessionsAssumption
<1> QED BY <1>2, <1>4, <1>5, <1>6, <1>7, <1>8, <1>9, <1>10, <1>11, <1>12, <1>13

LEMMA AnswerKeeps ==
  ASSUME AtType, ReplyTypes, NEW r \in Rpcs, NEW o, Answer(r, o)
  PROVE  /\ at'[r] = "answered" /\ target'[r] = NoProc
         /\ r[2] \in {"start", "wait"} => out'[r] = o
         /\ r[2] \notin {"start", "wait"} => out'[r] = out[r]
         /\ \A x \in Rpcs : x # r => Kept(x)
BY DEF AtType, ReplyTypes, Answer, Kept

LEMMA MoveKeeps ==
  ASSUME AtType, NEW r \in Rpcs, NEW to, Move(r, to)
  PROVE  /\ at'[r] = to /\ out' = out
         /\ \A x \in Rpcs : x # r => at'[x] = at[x]
BY DEF AtType, Move

LEMMA CallKeeps ==
  ASSUME CallTypes, AtType, NEW c \in Calls, NEW m, <<c, m>> \in Rpcs, Call(c, m)
  PROVE  /\ at'[<<c, m>>] = "sent" /\ pc'[c] = m
         /\ \A x \in Rpcs : x # <<c, m>> => at'[x] = at[x]
         /\ \A d \in Calls : d # c => pc'[d] = pc[d]
BY DEF CallTypes, AtType, Call

LEMMA DoneKeeps ==
  ASSUME CallTypes, NEW c \in Calls, Done(c)
  PROVE  /\ at' = at /\ pc'[c] = "done"
         /\ \A d \in Calls : d # c => pc'[d] = pc[d]
BY DEF CallTypes, Done

\* An answer of the actor reaches only a handler that waits on a process.
LEMMA ReplyKeeps ==
  ASSUME AtType, ReplyTypes, Queues, NEW p \in Procs, NEW r \in Rpcs,
         InBox(r, p) \/ cur[p] = r, NEW o, Reply(r, o)
  PROVE  /\ r \in ActorRpcs
         /\ at'[r] = "answered"
         /\ at[r] = "queued" => target[r] = p /\ (r[2] = "wait" => out'[r] = o)
         /\ at[r] # "queued" => Kept(r)
         /\ r[2] # "wait" => out'[r] = out[r]
         /\ \A x \in Rpcs : x # r => Kept(x)
<1>1. r \in ActorRpcs /\ at[r] \in {"queued", "answered"}
      /\ (at[r] = "queued" => target[r] = p)
  BY DEF Queues
<1>2. r[2] # "start" BY <1>1 DEF ActorRpcs, Uses
<1>3. CASE at[r] = "queued" BY <1>1, <1>2, <1>3, AnswerKeeps DEF Reply
<1>4. CASE at[r] # "queued" BY <1>1, <1>4 DEF Reply, Kept
<1> QED BY <1>1, <1>3, <1>4

\* What Pop takes out of the mailbox was in it.
LEMMA HeadInBox ==
  ASSUME BoxTypes, NEW p \in Procs, mbox[p] # <<>>
  PROVE  /\ InBox(Head(mbox[p]), p) /\ Head(mbox[p]) \in Rpcs \cup {Stop}
         /\ mbox' = [mbox EXCEPT ![p] = Tail(@)]
              => \A q \in Procs : \A r : InBox(r, q)' => InBox(r, q)
<1>1. mbox[p] \in Seq(Rpcs \cup {Stop}) BY DEF BoxTypes
<1>2. Len(mbox[p]) \in Nat /\ Len(mbox[p]) > 0 /\ Head(mbox[p]) = mbox[p][1]
      /\ Head(mbox[p]) \in Rpcs \cup {Stop}
  BY <1>1
<1>3. InBox(Head(mbox[p]), p) BY <1>2 DEF InBox
<1>4. ASSUME mbox' = [mbox EXCEPT ![p] = Tail(@)], NEW q \in Procs, NEW r, InBox(r, q)'
      PROVE  InBox(r, q)
  <2>1. CASE q = p
    <3>1. mbox'[q] = Tail(mbox[p]) BY <1>4, <2>1 DEF BoxTypes
    <3>2. PICK i \in 1 .. Len(mbox'[q]) : mbox'[q][i] = r BY <1>4 DEF InBox
    <3>3. i + 1 \in 1 .. Len(mbox[p]) /\ mbox[p][i + 1] = r BY <1>1, <1>2, <3>1, <3>2
    <3> QED BY <2>1, <3>3 DEF InBox
  <2>2. CASE q # p
    <3>1. mbox'[q] = mbox[q] BY <1>4, <2>2 DEF BoxTypes
    <3> QED BY <1>4, <3>1 DEF InBox
  <2> QED BY <2>1, <2>2
<1> QED BY <1>2, <1>3, <1>4

\* What an Append put in.
LEMMA AppendInBox ==
  ASSUME BoxTypes, NEW p, NEW x, x \in Rpcs \cup {Stop},
         mbox' = [mbox EXCEPT ![p] = Append(@, x)]
  PROVE  \A q \in Procs : \A r : InBox(r, q)' => InBox(r, q) \/ (q = p /\ r = x)
<1> SUFFICES ASSUME NEW q \in Procs, NEW r, InBox(r, q)'
             PROVE  InBox(r, q) \/ (q = p /\ r = x)
  OBVIOUS
<1>1. CASE q = p
  <2>1. mbox[q] \in Seq(Rpcs \cup {Stop}) BY DEF BoxTypes
  <2>2. mbox'[q] = Append(mbox[q], x) BY <1>1 DEF BoxTypes
  <2>3. PICK i \in 1 .. Len(mbox'[q]) : mbox'[q][i] = r BY DEF InBox
  <2>4. CASE i = Len(mbox[q]) + 1 BY <1>1, <2>1, <2>2, <2>3, <2>4
  <2>5. CASE i # Len(mbox[q]) + 1
    <3>1. i \in 1 .. Len(mbox[q]) /\ mbox[q][i] = r BY <2>1, <2>2, <2>3, <2>5
    <3> QED BY <3>1 DEF InBox
  <2> QED BY <2>4, <2>5
<1>2. CASE q # p
  <2>1. mbox'[q] = mbox[q] BY <1>2 DEF BoxTypes
  <2> QED BY <2>1 DEF InBox
<1> QED BY <1>1, <1>2

\* A step keeps every other request; the other callers; what the child, the
\* tool and the actors hold.
Keeps(r)     == \A x \in Rpcs : x # r => Kept(x)
PcKeeps(c)   == \A d \in Calls : d # c => pc'[d] = pc[d]
AimKeeps(c)  == \A d \in Calls : d # c => aim'[d] = aim[d]
ChildSame    == UNCHANGED <<bound, table, reserved, os, step, victim, due>>
ToolSame     == UNCHANGED <<slot, filled, pc, aim>>
BoxSame      == UNCHANGED <<mbox, cur>>
StartCtxSame == \A s \in Starters : ctx'[StartOf(s)] = ctx[StartOf(s)]

\* Stopper k takes the entry out of the table.
TookEntry(k) ==
    /\ table \in Procs /\ table' = NoProc
    /\ victim'[k] = table /\ step'[k] = "mark"
    /\ \A j \in Stoppers : j # k => victim'[j] = victim[j] /\ step'[j] = step[j]

LEMMA CallFrame ==
  ASSUME CallTypes, AtType, NEW c \in Calls, NEW m, <<c, m>> \in Rpcs,
         Call(c, m) \/ Done(c), out' = out, target' = target
  PROVE  Keeps(<<c, m>>) /\ PcKeeps(c)
BY CallKeeps, DoneKeeps DEF Keeps, Kept, PcKeeps

LEMMA TakeKeeps ==
  ASSUME StopTypes, TableTypes, NEW k \in Stoppers, Take(k)
  PROVE  \/ table = NoProc /\ UNCHANGED <<table, victim, step>>
         \/ TookEntry(k)
BY DEF Take, Begin, StopTypes, TableTypes, TookEntry

LEMMA Actors ==
  \A r \in ActorRpcs : r \in Rpcs /\ r[2] \in Uses \cup {"terminate"}
BY DEF ActorRpcs

LEMMA StepStartClaim ==
  ASSUME TypeOK, NEW s \in Starters, StartClaim(s)
  PROVE  /\ pc[s] = "idle" /\ ChildSame /\ BoxSame /\ UNCHANGED <<ctx, aim, out, target>>
         /\ Keeps(StartOf(s)) /\ PcKeeps(s)
         /\ \/ /\ slot = NoProc /\ slot' = s /\ filled' = FALSE /\ pc'[s] = "start"
               /\ at'[StartOf(s)] = "sent"
            \/ /\ slot # NoProc /\ slot' = slot /\ filled' = filled /\ pc'[s] = "done"
               /\ at' = at
<1>0. /\ CallTypes /\ AtType /\ ReplyTypes /\ CtxType /\ TableTypes
      /\ ProcTypes /\ BoxTypes /\ ActorTypes /\ StopTypes
  BY Types
<1>1. pc[s] = "idle" /\ ChildSame /\ BoxSame /\ UNCHANGED <<ctx, aim, out, target>>
  BY <1>0 DEF StartClaim, Call, Done, toolRest, actorVars, procVars,
     tableVars, stopVars, ChildSame, BoxSame
<1>2. Keeps(StartOf(s)) /\ PcKeeps(s)
  BY <1>0, Requests, CallFrame DEF StartClaim, toolRest, actorVars,
     procVars, tableVars, stopVars, StartOf
<1>3. \/ /\ slot = NoProc /\ slot' = s /\ filled' = FALSE /\ pc'[s] = "start"
         /\ at'[StartOf(s)] = "sent"
      \/ /\ slot # NoProc /\ slot' = slot /\ filled' = filled /\ pc'[s] = "done"
         /\ at' = at
  BY <1>0, CallKeeps, DoneKeeps, Requests DEF StartClaim, toolRest,
     actorVars, procVars, tableVars, stopVars, StartOf
<1> QED BY <1>1, <1>2, <1>3

LEMMA StepStartFill ==
  ASSUME TypeOK, NEW s \in Starters, StartFill(s)
  PROVE  /\ /\ pc[s] = "start" /\ at[StartOf(s)] = "answered" /\ out[StartOf(s)] = "ok"
            /\ ChildSame /\ BoxSame /\ UNCHANGED <<ctx, slot, out, target>>
         /\ Keeps(TerminateOf(s)) /\ PcKeeps(s)
         /\ AimKeeps(s)
         /\ \/ slot = s /\ filled' = TRUE /\ pc'[s] = "done" /\ at' = at
            \/ /\ slot # s /\ filled' = filled /\ pc'[s] = "terminate" /\ aim'[s] = s
               /\ at'[TerminateOf(s)] = "sent"
<1>0. /\ CallTypes /\ AtType /\ ReplyTypes /\ CtxType /\ TableTypes
      /\ ProcTypes /\ BoxTypes /\ ActorTypes /\ StopTypes
  BY Types
<1>1. /\ pc[s] = "start" /\ at[StartOf(s)] = "answered" /\ out[StartOf(s)] = "ok"
      /\ ChildSame /\ BoxSame /\ UNCHANGED <<ctx, slot, out, target>>
  BY <1>0 DEF StartFill, Got, Call, Done, toolRest, actorVars, procVars,
     tableVars, stopVars, StartOf, ChildSame, BoxSame
<1>2. Keeps(TerminateOf(s)) /\ PcKeeps(s)
  BY <1>0, Requests, CallFrame DEF StartFill, Got, toolRest, actorVars,
     procVars, tableVars, stopVars, TerminateOf
<1>3. AimKeeps(s)
  BY <1>0, Requests, CallFrame DEF StartFill, Got, toolRest, actorVars,
     procVars, tableVars, stopVars, AimKeeps, CallTypes
<1>4. \/ slot = s /\ filled' = TRUE /\ pc'[s] = "done" /\ at' = at
      \/ /\ slot # s /\ filled' = filled /\ pc'[s] = "terminate" /\ aim'[s] = s
         /\ at'[TerminateOf(s)] = "sent"
  <2>1. CASE slot = s
    BY <1>0, <2>1, DoneKeeps, Requests DEF StartFill
  <2>2. CASE slot # s
    <3>1. /\ aim' = [aim EXCEPT ![s] = s] /\ Call(s, "terminate")
          /\ filled' = filled
      BY <2>2 DEF StartFill
    <3> QED BY <1>0, <2>2, <3>1, CallKeeps, Requests DEF CallTypes, TerminateOf
  <2> QED BY <2>1, <2>2
<1> QED BY <1>1, <1>2, <1>3, <1>4

LEMMA StepStartFails ==
  ASSUME TypeOK, NEW s \in Starters, StartFails(s)
  PROVE  /\ /\ pc[s] = "start" /\ ChildSame /\ BoxSame
            /\ UNCHANGED <<filled, aim, at, out, target>>
         /\ slot' = (IF slot = s THEN NoProc ELSE slot) /\ pc'[s] = "done" /\ PcKeeps(s)
         /\ \A t \in Starters : t # s => ctx'[StartOf(t)] = ctx[StartOf(t)]
         /\ \/ at[StartOf(s)] = "answered" /\ out[StartOf(s)] # "ok" /\ ctx' = ctx
            \/ ctx'[StartOf(s)] # "live"
<1>0. /\ CallTypes /\ AtType /\ ReplyTypes /\ CtxType /\ TableTypes
      /\ ProcTypes /\ BoxTypes /\ ActorTypes /\ StopTypes
  BY Types
<1>1. /\ pc[s] = "start" /\ ChildSame /\ BoxSame
      /\ UNCHANGED <<filled, aim, at, out, target>>
  BY <1>0, DoneKeeps, Requests DEF StartFails, Got, GaveUp, ReleaseClaim,
     toolRest, actorVars, procVars, tableVars, stopVars, ChildSame,
     BoxSame
<1>2. slot' = (IF slot = s THEN NoProc ELSE slot) /\ pc'[s] = "done" /\ PcKeeps(s)
  BY <1>0, DoneKeeps, Requests DEF StartFails, Got, GaveUp, ReleaseClaim,
     toolRest, actorVars, procVars, tableVars, stopVars, PcKeeps
<1>3. \A t \in Starters : t # s => ctx'[StartOf(t)] = ctx[StartOf(t)]
  BY <1>0, Requests DEF StartFails, Got, GaveUp, ReleaseClaim, Done,
     toolRest, actorVars, procVars, tableVars, stopVars, StartOf, CtxType,
     Uses
<1>4. \/ at[StartOf(s)] = "answered" /\ out[StartOf(s)] # "ok" /\ ctx' = ctx
      \/ ctx'[StartOf(s)] # "live"
  BY <1>0, Requests DEF StartFails, Got, GaveUp, ReleaseClaim, Done,
     toolRest, actorVars, procVars, tableVars, stopVars, StartOf, CtxType,
     Uses
<1> QED BY <1>1, <1>2, <1>3, <1>4

LEMMA StepUse ==
  ASSUME TypeOK, NEW c \in Users, NEW m \in Uses, Use(c, m)
  PROVE  /\ /\ pc[c] = "idle" /\ ChildSame /\ BoxSame
            /\ UNCHANGED <<ctx, slot, filled, out, target>>
         /\ <<c, m>> \in ActorRpcs
         /\ Keeps(<<c, m>>) /\ PcKeeps(c)
         /\ AimKeeps(c)
         /\ \/ /\ slot # NoProc /\ filled /\ aim'[c] = slot /\ pc'[c] = m
               /\ at'[<<c, m>>] = "sent"
            \/ pc'[c] = "done" /\ aim' = aim /\ at' = at
<1>0. /\ CallTypes /\ AtType /\ ReplyTypes /\ CtxType /\ TableTypes
      /\ ProcTypes /\ BoxTypes /\ ActorTypes /\ StopTypes
  BY Types
<1>1. /\ pc[c] = "idle" /\ ChildSame /\ BoxSame
      /\ UNCHANGED <<ctx, slot, filled, out, target>>
  BY <1>0 DEF Use, Call, Done, toolRest, actorVars, procVars, tableVars,
     stopVars, ChildSame, BoxSame
<1>2. <<c, m>> \in ActorRpcs
  BY <1>0, Requests DEF Use, Call, Done, toolRest, actorVars, procVars,
     tableVars, stopVars, ActorRpcs
<1>3. Keeps(<<c, m>>) /\ PcKeeps(c)
  BY <1>0, Requests, CallFrame DEF Use, toolRest, actorVars, procVars,
     tableVars, stopVars
<1>4. AimKeeps(c)
  BY <1>0, Requests, CallFrame DEF Use, toolRest, actorVars, procVars,
     tableVars, stopVars, AimKeeps, CallTypes
<1>5. \/ /\ slot # NoProc /\ filled /\ aim'[c] = slot /\ pc'[c] = m
         /\ at'[<<c, m>>] = "sent"
      \/ pc'[c] = "done" /\ aim' = aim /\ at' = at
  <2>1. CASE slot # NoProc /\ filled
    <3>1. aim' = [aim EXCEPT ![c] = slot] /\ Call(c, m) BY <2>1 DEF Use
    <3> QED BY <1>0, <2>1, <3>1, CallKeeps, Requests DEF CallTypes
  <2>2. CASE ~(slot # NoProc /\ filled)
    BY <1>0, <2>2, DoneKeeps, Requests DEF Use
  <2> QED BY <2>1, <2>2
<1> QED BY <1>1, <1>2, <1>3, <1>4, <1>5

LEMMA StepUseReturns ==
  ASSUME TypeOK, NEW c \in Users, NEW m \in Uses, UseReturns(c, m)
  PROVE  /\ /\ pc[c] = m /\ ChildSame /\ BoxSame
            /\ UNCHANGED <<slot, filled, aim, at, out, target>>
         /\ pc'[c] = "done" /\ PcKeeps(c)
         /\ StartCtxSame
<1>0. /\ CallTypes /\ AtType /\ ReplyTypes /\ CtxType /\ TableTypes
      /\ ProcTypes /\ BoxTypes /\ ActorTypes /\ StopTypes
  BY Types
<1>1. /\ pc[c] = m /\ ChildSame /\ BoxSame
      /\ UNCHANGED <<slot, filled, aim, at, out, target>>
  BY <1>0, DoneKeeps, Requests DEF UseReturns, Got, GaveUp, toolRest,
     actorVars, procVars, tableVars, stopVars, ChildSame, BoxSame
<1>2. pc'[c] = "done" /\ PcKeeps(c)
  BY <1>0, DoneKeeps, Requests DEF UseReturns, Got, GaveUp, toolRest,
     actorVars, procVars, tableVars, stopVars, PcKeeps
<1>3. StartCtxSame
  BY <1>0, Requests DEF UseReturns, Got, GaveUp, Done, toolRest, actorVars,
     procVars, tableVars, stopVars, StartCtxSame, CtxType, StartOf, Uses
<1> QED BY <1>1, <1>2, <1>3

LEMMA StepWaitEnds ==
  ASSUME TypeOK, NEW c \in Users, WaitEnds(c)
  PROVE  /\ /\ out[WaitOf(c)] = "ok" /\ pc[c] = "wait" /\ ChildSame /\ BoxSame
            /\ UNCHANGED <<slot, filled, aim, at, out, target, ctx>>
         /\ pc'[c] = "drop" /\ PcKeeps(c)
<1>0. /\ CallTypes /\ AtType /\ ReplyTypes /\ CtxType /\ TableTypes
      /\ ProcTypes /\ BoxTypes /\ ActorTypes /\ StopTypes
  BY Types
<1>1. /\ out[WaitOf(c)] = "ok" /\ pc[c] = "wait" /\ ChildSame /\ BoxSame
      /\ UNCHANGED <<slot, filled, aim, at, out, target, ctx>>
  BY <1>0 DEF WaitEnds, Got, toolRest, actorVars, procVars, tableVars,
     stopVars, WaitOf, ChildSame, BoxSame
<1>2. pc'[c] = "drop" /\ PcKeeps(c)
  BY <1>0, Requests DEF WaitEnds, Got, toolRest, actorVars, procVars,
     tableVars, stopVars, PcKeeps, CallTypes
<1> QED BY <1>1, <1>2

LEMMA StepWaitDrops ==
  ASSUME TypeOK, NEW c \in Users, WaitDrops(c)
  PROVE  /\ /\ pc[c] = "drop" /\ ChildSame /\ BoxSame
            /\ UNCHANGED <<filled, aim, at, out, target, ctx>>
         /\ /\ slot' = (IF slot = aim[c] THEN NoProc ELSE slot)
            /\ pc'[c] = "done" /\ PcKeeps(c)
<1>0. /\ CallTypes /\ AtType /\ ReplyTypes /\ CtxType /\ TableTypes
      /\ ProcTypes /\ BoxTypes /\ ActorTypes /\ StopTypes
  BY Types
<1>1. /\ pc[c] = "drop" /\ ChildSame /\ BoxSame
      /\ UNCHANGED <<filled, aim, at, out, target, ctx>>
  BY <1>0, DoneKeeps, Requests DEF WaitDrops, toolRest, actorVars, procVars,
     tableVars, stopVars, ChildSame, BoxSame
<1>2. /\ slot' = (IF slot = aim[c] THEN NoProc ELSE slot)
      /\ pc'[c] = "done" /\ PcKeeps(c)
  BY <1>0, DoneKeeps, Requests DEF WaitDrops, toolRest, actorVars, procVars,
     tableVars, stopVars, PcKeeps
<1> QED BY <1>1, <1>2

LEMMA StepClose ==
  ASSUME TypeOK, NEW c \in Closers, Close(c)
  PROVE  /\ /\ pc[c] = "idle" /\ slot' = NoProc /\ ChildSame /\ BoxSame
            /\ UNCHANGED <<ctx, filled, out, target>>
         /\ Keeps(TerminateOf(c)) /\ PcKeeps(c)
         /\ AimKeeps(c) /\ aim'[c] = slot
         /\ \/ /\ slot # NoProc /\ filled /\ pc'[c] = "terminate"
               /\ at'[TerminateOf(c)] = "sent"
            \/ ~(slot # NoProc /\ filled) /\ pc'[c] = "done" /\ at' = at
<1>0. /\ CallTypes /\ AtType /\ ReplyTypes /\ CtxType /\ TableTypes
      /\ ProcTypes /\ BoxTypes /\ ActorTypes /\ StopTypes
  BY Types
<1>1. /\ pc[c] = "idle" /\ slot' = NoProc /\ ChildSame /\ BoxSame
      /\ UNCHANGED <<ctx, filled, out, target>>
  BY <1>0 DEF Close, Call, Done, toolRest, actorVars, procVars, tableVars,
     stopVars, ChildSame, BoxSame
<1>2. Keeps(TerminateOf(c)) /\ PcKeeps(c)
  BY <1>0, Requests, CallFrame DEF Close, toolRest, actorVars, procVars,
     tableVars, stopVars, TerminateOf
<1>3. AimKeeps(c) /\ aim'[c] = slot
  BY <1>0, Requests, CallFrame DEF Close, toolRest, actorVars, procVars,
     tableVars, stopVars, AimKeeps, CallTypes
<1>4. \/ /\ slot # NoProc /\ filled /\ pc'[c] = "terminate"
         /\ at'[TerminateOf(c)] = "sent"
      \/ ~(slot # NoProc /\ filled) /\ pc'[c] = "done" /\ at' = at
  BY <1>0, CallKeeps, DoneKeeps, Requests DEF Close, toolRest, actorVars,
     procVars, tableVars, stopVars, TerminateOf
<1> QED BY <1>1, <1>2, <1>3, <1>4

LEMMA StepCloseReleases ==
  ASSUME TypeOK, NEW c \in Killers, CloseReleases(c)
  PROVE  /\ /\ pc[c] = "terminate" /\ ChildSame /\ BoxSame
            /\ UNCHANGED <<slot, filled, aim, out, target>>
         /\ /\ Keeps(ReleaseOf(c)) /\ PcKeeps(c)
            /\ pc'[c] = "release" /\ at'[ReleaseOf(c)] = "sent"
         /\ StartCtxSame
<1>0. /\ CallTypes /\ AtType /\ ReplyTypes /\ CtxType /\ TableTypes
      /\ ProcTypes /\ BoxTypes /\ ActorTypes /\ StopTypes
  BY Types
<1>1. /\ pc[c] = "terminate" /\ ChildSame /\ BoxSame
      /\ UNCHANGED <<slot, filled, aim, out, target>>
  BY <1>0 DEF CloseReleases, Got, GaveUp, Call, toolRest, actorVars,
     procVars, tableVars, stopVars, ChildSame, BoxSame
<1>2. /\ Keeps(ReleaseOf(c)) /\ PcKeeps(c)
      /\ pc'[c] = "release" /\ at'[ReleaseOf(c)] = "sent"
  BY <1>0, CallKeeps, DoneKeeps, Requests DEF CloseReleases, Got, GaveUp,
     toolRest, actorVars, procVars, tableVars, stopVars, ReleaseOf, Keeps,
     PcKeeps, Kept
<1>3. StartCtxSame
  BY <1>0, Requests DEF CloseReleases, Got, GaveUp, Call, toolRest,
     actorVars, procVars, tableVars, stopVars, StartCtxSame, CtxType,
     StartOf, Uses
<1> QED BY <1>1, <1>2, <1>3

LEMMA StepCloseReturns ==
  ASSUME TypeOK, NEW c \in Killers, CloseReturns(c)
  PROVE  /\ /\ pc[c] = "release" /\ ChildSame /\ BoxSame
            /\ UNCHANGED <<slot, filled, aim, at, out, target, ctx>>
         /\ pc'[c] = "done" /\ PcKeeps(c)
<1>0. /\ CallTypes /\ AtType /\ ReplyTypes /\ CtxType /\ TableTypes
      /\ ProcTypes /\ BoxTypes /\ ActorTypes /\ StopTypes
  BY Types
<1>1. /\ pc[c] = "release" /\ ChildSame /\ BoxSame
      /\ UNCHANGED <<slot, filled, aim, at, out, target, ctx>>
  BY <1>0, DoneKeeps, Requests DEF CloseReturns, toolRest, actorVars,
     procVars, tableVars, stopVars, ChildSame, BoxSame
<1>2. pc'[c] = "done" /\ PcKeeps(c)
  BY <1>0, DoneKeeps, Requests DEF CloseReturns, toolRest, actorVars,
     procVars, tableVars, stopVars, PcKeeps
<1> QED BY <1>1, <1>2

LEMMA StepStartReserves ==
  ASSUME TypeOK, NEW s \in Starters, StartReserves(s)
  PROVE  /\ /\ at[StartOf(s)] = "sent" /\ ToolSame /\ BoxSame /\ Keeps(StartOf(s))
            /\ UNCHANGED <<bound, table, os, step, victim, due, ctx>>
         /\ \/ /\ reserved' = reserved
               /\ at'[StartOf(s)] = "answered" /\ out'[StartOf(s)] = "refused"
            \/ /\ table = NoProc /\ reserved = NoProc /\ reserved' = s
               /\ at'[StartOf(s)] = "launch" /\ out'[StartOf(s)] = out[StartOf(s)]
<1>0. /\ CallTypes /\ AtType /\ ReplyTypes /\ CtxType /\ TableTypes
      /\ ProcTypes /\ BoxTypes /\ ActorTypes /\ StopTypes
  BY Types
<1>1. /\ at[StartOf(s)] = "sent" /\ ToolSame /\ BoxSame /\ Keeps(StartOf(s))
      /\ UNCHANGED <<bound, table, os, step, victim, due, ctx>>
  BY <1>0, AnswerKeeps, Apart, MoveKeeps DEF StartReserves, Taken,
     actorVars, handlerRest, toolVars, procVars, stopVars, StartOf,
     ToolSame, BoxSame, Keeps, Kept
<1>2. \/ /\ reserved' = reserved
         /\ at'[StartOf(s)] = "answered" /\ out'[StartOf(s)] = "refused"
      \/ /\ table = NoProc /\ reserved = NoProc /\ reserved' = s
         /\ at'[StartOf(s)] = "launch" /\ out'[StartOf(s)] = out[StartOf(s)]
  BY <1>0, AnswerKeeps, Apart, MoveKeeps DEF StartReserves, Taken,
     actorVars, handlerRest, toolVars, procVars, stopVars, StartOf
<1> QED BY <1>1, <1>2

LEMMA StepStartLaunchFails ==
  ASSUME TypeOK, NEW s \in Starters, StartLaunchFails(s)
  PROVE  /\ /\ at[StartOf(s)] = "launch" /\ ToolSame /\ BoxSame /\ Keeps(StartOf(s))
            /\ UNCHANGED <<bound, table, os, step, victim, due, ctx>>
         /\ /\ reserved' = NoProc
            /\ at'[StartOf(s)] = "answered" /\ out'[StartOf(s)] = "refused"
<1>0. /\ CallTypes /\ AtType /\ ReplyTypes /\ CtxType /\ TableTypes
      /\ ProcTypes /\ BoxTypes /\ ActorTypes /\ StopTypes
  BY Types
<1>1. /\ at[StartOf(s)] = "launch" /\ ToolSame /\ BoxSame /\ Keeps(StartOf(s))
      /\ UNCHANGED <<bound, table, os, step, victim, due, ctx>>
  BY <1>0, AnswerKeeps, Apart DEF StartLaunchFails, actorVars, handlerRest,
     toolVars, procVars, stopVars, StartOf, ToolSame, BoxSame, Keeps, Kept
<1>2. /\ reserved' = NoProc
      /\ at'[StartOf(s)] = "answered" /\ out'[StartOf(s)] = "refused"
  BY <1>0, AnswerKeeps, Apart DEF StartLaunchFails, actorVars, handlerRest,
     toolVars, procVars, stopVars, StartOf
<1> QED BY <1>1, <1>2

LEMMA StepStartRegisters ==
  ASSUME TypeOK, NEW s \in Starters, StartRegisters(s)
  PROVE  /\ /\ at[StartOf(s)] = "launch" /\ ToolSame /\ BoxSame /\ Keeps(StartOf(s))
            /\ UNCHANGED <<bound, step, victim, due, ctx>>
         /\ /\ reserved' = NoProc /\ table' = s
            /\ at'[StartOf(s)] = "answered" /\ out'[StartOf(s)] = "ok"
         /\ os'[s] = "running" /\ \A p \in Procs : p # s => os'[p] = os[p]
<1>0. /\ CallTypes /\ AtType /\ ReplyTypes /\ CtxType /\ TableTypes
      /\ ProcTypes /\ BoxTypes /\ ActorTypes /\ StopTypes
  BY Types
<1>1. /\ at[StartOf(s)] = "launch" /\ ToolSame /\ BoxSame /\ Keeps(StartOf(s))
      /\ UNCHANGED <<bound, step, victim, due, ctx>>
  BY <1>0, AnswerKeeps, Apart, Requests DEF StartRegisters, actorVars,
     toolVars, stopVars, StartOf, ToolSame, BoxSame, Keeps, Kept
<1>2. /\ reserved' = NoProc /\ table' = s
      /\ at'[StartOf(s)] = "answered" /\ out'[StartOf(s)] = "ok"
  BY <1>0, AnswerKeeps, Apart, Requests DEF StartRegisters, actorVars,
     toolVars, stopVars, StartOf
<1>3. os'[s] = "running" /\ \A p \in Procs : p # s => os'[p] = os[p]
  BY <1>0, AnswerKeeps, Apart, Requests DEF StartRegisters, actorVars,
     toolVars, stopVars, ProcTypes
<1> QED BY <1>1, <1>2, <1>3

LEMMA StepCancelLands ==
  ASSUME TypeOK, NEW r \in ActorRpcs, CancelLands(r)
  PROVE  /\ /\ ToolSame /\ ChildSame /\ BoxSame
            /\ UNCHANGED <<at, out, target>>
         /\ StartCtxSame
<1>0. /\ CallTypes /\ AtType /\ ReplyTypes /\ CtxType /\ TableTypes
      /\ ProcTypes /\ BoxTypes /\ ActorTypes /\ StopTypes
  BY Types
<1>1. /\ ToolSame /\ ChildSame /\ BoxSame
      /\ UNCHANGED <<at, out, target>>
  BY <1>0, Actors DEF CancelLands, toolVars, actorVars, procVars, tableVars,
     stopVars, ChildSame, ToolSame, BoxSame
<1>2. StartCtxSame
  BY <1>0, Requests, Actors DEF CancelLands, toolVars, actorVars, procVars,
     tableVars, stopVars, StartCtxSame, CtxType, StartOf, Uses
<1> QED BY <1>1, <1>2

LEMMA StepOpArrives ==
  ASSUME TypeOK, NEW r \in ActorRpcs, OpArrives(r)
  PROVE  /\ /\ at[r] = "sent" /\ ToolSame /\ ChildSame /\ BoxSame
            /\ ctx' = ctx
         /\ Keeps(r)
         /\ \/ at'[r] = "answered" /\ (r[2] = "wait" => out'[r] = "missing")
            \/ at'[r] = "inline" /\ r[2] = "read" /\ out'[r] = out[r]
            \/ /\ at'[r] = "submit" /\ table \in Procs /\ target'[r] = table
               /\ out'[r] = out[r]
<1>0. /\ CallTypes /\ AtType /\ ReplyTypes /\ CtxType /\ TableTypes
      /\ ProcTypes /\ BoxTypes /\ ActorTypes /\ StopTypes
  BY Types
<1>1. /\ at[r] = "sent" /\ ToolSame /\ ChildSame /\ BoxSame
      /\ ctx' = ctx
  BY <1>0, AnswerKeeps, Apart, MoveKeeps, Actors DEF OpArrives, Interrupt,
     tableVars, handlerRest, toolVars, procVars, stopVars, ChildSame,
     ToolSame, BoxSame
<1>2. Keeps(r)
  <2>1. CASE \E o : Answer(r, o)
    BY <1>0, <2>1, AnswerKeeps, Actors DEF Keeps
  <2>2. CASE Move(r, "inline") /\ target' = target
    BY <1>0, <2>2, MoveKeeps, Actors DEF Keeps, Kept
  <2>3. CASE Move(r, "submit") /\ target' = [target EXCEPT ![r] = table]
    <3>1. out' = out /\ \A x \in Rpcs : x # r => at'[x] = at[x]
      BY <1>0, <2>3, MoveKeeps, Actors
    <3>2. \A x \in Rpcs : x # r => target'[x] = target[x]
      BY <1>0, <2>3 DEF ReplyTypes
    <3> QED BY <3>1, <3>2 DEF Keeps, Kept
  <2> QED BY <2>1, <2>2, <2>3 DEF OpArrives
<1>3. \/ at'[r] = "answered" /\ (r[2] = "wait" => out'[r] = "missing")
      \/ at'[r] = "inline" /\ r[2] = "read" /\ out'[r] = out[r]
      \/ /\ at'[r] = "submit" /\ table \in Procs /\ target'[r] = table
         /\ out'[r] = out[r]
  BY <1>0, AnswerKeeps, Apart, MoveKeeps, Actors DEF OpArrives, Interrupt,
     tableVars, handlerRest, toolVars, procVars, stopVars, TableTypes,
     ReplyTypes
<1> QED BY <1>1, <1>2, <1>3

LEMMA StepInlineReadEnds ==
  ASSUME TypeOK, NEW r \in ActorRpcs, InlineReadEnds(r)
  PROVE  /\ /\ at[r] = "inline" /\ ToolSame /\ ChildSame /\ BoxSame
            /\ ctx' = ctx /\ Keeps(r) /\ at'[r] = "answered"
<1>0. /\ CallTypes /\ AtType /\ ReplyTypes /\ CtxType /\ TableTypes
      /\ ProcTypes /\ BoxTypes /\ ActorTypes /\ StopTypes
  BY Types
<1>1. /\ at[r] = "inline" /\ ToolSame /\ ChildSame /\ BoxSame
      /\ ctx' = ctx /\ Keeps(r) /\ at'[r] = "answered"
  BY <1>0, AnswerKeeps, Apart, Actors DEF InlineReadEnds, actorVars,
     tableVars, handlerRest, toolVars, procVars, stopVars, ChildSame,
     ToolSame, BoxSame, Keeps, Kept
<1> QED BY <1>1

LEMMA StepEnqueue ==
  ASSUME TypeOK, NEW r \in ActorRpcs, Enqueue(r)
  PROVE  /\ /\ at[r] = "submit" /\ ToolSame /\ ChildSame /\ Keeps(r)
            /\ UNCHANGED <<ctx, cur>>
         /\ \/ /\ at'[r] = "queued" /\ target'[r] = target[r] /\ out'[r] = out[r]
               /\ \A q \in Procs : \A x :
                      InBox(x, q)' => InBox(x, q) \/ (q = target[r] /\ x = r)
            \/ /\ at'[r] = "answered" /\ mbox' = mbox
               /\ r[2] = "wait" => out'[r] \in {"missing", "canceled"}
<1>0. /\ CallTypes /\ AtType /\ ReplyTypes /\ CtxType /\ TableTypes
      /\ ProcTypes /\ BoxTypes /\ ActorTypes /\ StopTypes
  BY Types
<1>1. /\ at[r] = "submit" /\ ToolSame /\ ChildSame /\ Keeps(r)
      /\ UNCHANGED <<ctx, cur>>
  BY <1>0, AnswerKeeps, Apart, MoveKeeps, Actors DEF Enqueue, tableVars,
     handlerRest, toolVars, procVars, stopVars, ChildSame, ToolSame,
     Keeps, Kept
<1>2. \/ /\ at'[r] = "queued" /\ target'[r] = target[r] /\ out'[r] = out[r]
         /\ \A q \in Procs : \A x :
                InBox(x, q)' => InBox(x, q) \/ (q = target[r] /\ x = r)
      \/ /\ at'[r] = "answered" /\ mbox' = mbox
         /\ r[2] = "wait" => out'[r] \in {"missing", "canceled"}
  <2>1. CASE /\ mbox' = [mbox EXCEPT ![target[r]] = Append(@, r)]
             /\ Move(r, "queued") /\ UNCHANGED target
    <3>1. \A q \in Procs : \A x : InBox(x, q)' => InBox(x, q) \/ (q = target[r] /\ x = r)
      BY <1>0, <2>1, AppendInBox, Actors
    <3>2. at'[r] = "queued" /\ target' = target /\ out' = out
      BY <1>0, <2>1, MoveKeeps, Actors
    <3> QED BY <3>1, <3>2
  <2>2. CASE \E o \in {"missing", "canceled"} : Answer(r, o) /\ UNCHANGED mbox
    BY <1>0, <2>2, AnswerKeeps, Actors
  <2> QED BY <2>1, <2>2 DEF Enqueue
<1> QED BY <1>1, <1>2

LEMMA StepAbandon ==
  ASSUME TypeOK, NEW r \in ActorRpcs, Abandon(r)
  PROVE  /\ /\ at[r] = "queued" /\ ToolSame /\ ChildSame /\ BoxSame
            /\ ctx' = ctx /\ Keeps(r) /\ at'[r] = "answered"
            /\ r[2] = "wait" => out'[r] = "canceled"
<1>0. /\ CallTypes /\ AtType /\ ReplyTypes /\ CtxType /\ TableTypes
      /\ ProcTypes /\ BoxTypes /\ ActorTypes /\ StopTypes
  BY Types
<1>1. /\ at[r] = "queued" /\ ToolSame /\ ChildSame /\ BoxSame
      /\ ctx' = ctx /\ Keeps(r) /\ at'[r] = "answered"
      /\ r[2] = "wait" => out'[r] = "canceled"
  BY <1>0, AnswerKeeps, Apart, Actors DEF Abandon, Interrupt, tableVars,
     handlerRest, toolVars, procVars, stopVars, ChildSame, ToolSame,
     BoxSame, Keeps, Kept
<1> QED BY <1>1

LEMMA StepReleaseArrives ==
  ASSUME TypeOK, NEW c \in Killers, ReleaseArrives(c)
  PROVE  /\ /\ at[ReleaseOf(c)] = "sent" /\ ToolSame /\ BoxSame /\ Keeps(ReleaseOf(c))
            /\ UNCHANGED <<bound, reserved, os, due, ctx>>
         /\ \/ /\ at'[ReleaseOf(c)] = "answered" /\ (~bound \/ table = NoProc)
               /\ UNCHANGED <<table, victim, step>>
            \/ /\ at'[ReleaseOf(c)] = "stopping" /\ bound /\ TookEntry(ReleaseOf(c))
<1>0. /\ CallTypes /\ AtType /\ ReplyTypes /\ CtxType /\ TableTypes
      /\ ProcTypes /\ BoxTypes /\ ActorTypes /\ StopTypes
  BY Types
<1>1. /\ at[ReleaseOf(c)] = "sent" /\ ToolSame /\ BoxSame /\ Keeps(ReleaseOf(c))
      /\ UNCHANGED <<bound, reserved, os, due, ctx>>
  BY <1>0, AnswerKeeps, Apart, MoveKeeps DEF ReleaseArrives, Take, Begin,
     actorVars, stopRest, toolVars, ReleaseOf, ToolSame, BoxSame, Keeps,
     Kept
<1>2. \/ /\ at'[ReleaseOf(c)] = "answered" /\ (~bound \/ table = NoProc)
         /\ UNCHANGED <<table, victim, step>>
      \/ /\ at'[ReleaseOf(c)] = "stopping" /\ bound /\ TookEntry(ReleaseOf(c))
  BY <1>0, AnswerKeeps, Apart, MoveKeeps, TakeKeeps, Requests DEF
     ReleaseArrives, actorVars, stopRest, toolVars, ReleaseOf, TookEntry
<1> QED BY <1>1, <1>2

LEMMA StepArm ==
  ASSUME TypeOK, NEW p \in Procs, Arm(p)
  PROVE  /\ /\ ToolSame /\ ChildSame /\ BoxSame
            /\ UNCHANGED <<at, out, target, ctx>>
<1>0. /\ CallTypes /\ AtType /\ ReplyTypes /\ CtxType /\ TableTypes
      /\ ProcTypes /\ BoxTypes /\ ActorTypes /\ StopTypes
  BY Types
<1>1. /\ ToolSame /\ ChildSame /\ BoxSame
      /\ UNCHANGED <<at, out, target, ctx>>
  BY <1>0 DEF Arm, actorRest, toolVars, tableVars, stopVars, ChildSame,
     ToolSame, BoxSame
<1> QED BY <1>1

LEMMA StepProcessExits ==
  ASSUME TypeOK, NEW p \in Procs, ProcessExits(p)
  PROVE  /\ /\ os[p] = "running" /\ ToolSame /\ BoxSame
            /\ UNCHANGED <<bound, table, reserved, step, victim, due, at, out, target, ctx>>
         /\ os'[p] = "exited" /\ \A q \in Procs : q # p => os'[q] = os[q]
<1>0. /\ CallTypes /\ AtType /\ ReplyTypes /\ CtxType /\ TableTypes
      /\ ProcTypes /\ BoxTypes /\ ActorTypes /\ StopTypes
  BY Types
<1>1. /\ os[p] = "running" /\ ToolSame /\ BoxSame
      /\ UNCHANGED <<bound, table, reserved, step, victim, due, at, out, target, ctx>>
  BY <1>0 DEF ProcessExits, toolVars, rpcVars, actorVars, tableVars,
     stopVars, ToolSame, BoxSame
<1>2. os'[p] = "exited" /\ \A q \in Procs : q # p => os'[q] = os[q]
  BY <1>0 DEF ProcessExits, toolVars, rpcVars, actorVars, tableVars,
     stopVars, ProcTypes
<1> QED BY <1>1, <1>2

LEMMA StepExitPublished ==
  ASSUME TypeOK, NEW p \in Procs, ExitPublished(p)
  PROVE  /\ /\ ToolSame /\ ChildSame /\ BoxSame
            /\ UNCHANGED <<at, out, target, ctx>>
<1>0. /\ CallTypes /\ AtType /\ ReplyTypes /\ CtxType /\ TableTypes
      /\ ProcTypes /\ BoxTypes /\ ActorTypes /\ StopTypes
  BY Types
<1>1. /\ ToolSame /\ ChildSame /\ BoxSame
      /\ UNCHANGED <<at, out, target, ctx>>
  BY <1>0 DEF ExitPublished, toolVars, rpcVars, actorVars, tableVars,
     stopVars, ChildSame, ToolSame, BoxSame
<1> QED BY <1>1

LEMMA StepReaperLists ==
  ASSUME TypeOK, ReaperLists
  PROVE  /\ /\ step[Reaper] = "none" /\ ToolSame /\ BoxSame
            /\ UNCHANGED <<bound, table, reserved, os, step, victim, at, out, target, ctx>>
<1>0. /\ CallTypes /\ AtType /\ ReplyTypes /\ CtxType /\ TableTypes
      /\ ProcTypes /\ BoxTypes /\ ActorTypes /\ StopTypes
  BY Types
<1>1. /\ step[Reaper] = "none" /\ ToolSame /\ BoxSame
      /\ UNCHANGED <<bound, table, reserved, os, step, victim, at, out, target, ctx>>
  BY <1>0 DEF ReaperLists, toolVars, rpcVars, actorVars, procVars,
     tableVars, stopVars, ToolSame, BoxSame
<1> QED BY <1>1

LEMMA StepReaperTakes ==
  ASSUME TypeOK, ReaperTakes
  PROVE  /\ /\ due /\ ~due' /\ ToolSame /\ BoxSame
            /\ UNCHANGED <<bound, reserved, os, at, out, target, ctx>>
         /\ \/ table = NoProc /\ UNCHANGED <<table, victim, step>>
            \/ TookEntry(Reaper)
<1>0. /\ CallTypes /\ AtType /\ ReplyTypes /\ CtxType /\ TableTypes
      /\ ProcTypes /\ BoxTypes /\ ActorTypes /\ StopTypes
  BY Types
<1>1. /\ due /\ ~due' /\ ToolSame /\ BoxSame
      /\ UNCHANGED <<bound, reserved, os, at, out, target, ctx>>
  BY <1>0 DEF ReaperTakes, Take, Begin, toolVars, rpcVars, actorVars,
     procVars, ToolSame, BoxSame
<1>2. \/ table = NoProc /\ UNCHANGED <<table, victim, step>>
      \/ TookEntry(Reaper)
  BY <1>0, TakeKeeps, Apart, Requests DEF ReaperTakes, toolVars, rpcVars,
     actorVars, procVars, TookEntry
<1> QED BY <1>1, <1>2

LEMMA StepUnbind ==
  ASSUME TypeOK, Unbind
  PROVE  /\ /\ bound /\ ~bound' /\ ToolSame /\ BoxSame
            /\ UNCHANGED <<table, reserved, os, victim, due, at, out, target, ctx>>
         /\ /\ step'[Unbinder] = "sweep"
            /\ \A k \in Stoppers : k # Unbinder => step'[k] = step[k]
<1>0. /\ CallTypes /\ AtType /\ ReplyTypes /\ CtxType /\ TableTypes
      /\ ProcTypes /\ BoxTypes /\ ActorTypes /\ StopTypes
  BY Types
<1>1. /\ bound /\ ~bound' /\ ToolSame /\ BoxSame
      /\ UNCHANGED <<table, reserved, os, victim, due, at, out, target, ctx>>
  BY <1>0, Requests DEF Unbind, toolVars, rpcVars, actorVars, procVars,
     ToolSame, BoxSame
<1>2. /\ step'[Unbinder] = "sweep"
      /\ \A k \in Stoppers : k # Unbinder => step'[k] = step[k]
  BY <1>0, Requests DEF Unbind, toolVars, rpcVars, actorVars, procVars,
     StopTypes
<1> QED BY <1>1, <1>2

LEMMA StepUnbindSweeps ==
  ASSUME TypeOK, UnbindSweeps
  PROVE  /\ /\ step[Unbinder] = "sweep" /\ ToolSame /\ BoxSame
            /\ UNCHANGED <<bound, reserved, os, due, at, out, target, ctx>>
         /\ \/ /\ table = NoProc /\ UNCHANGED <<table, victim>>
               /\ step'[Unbinder] = "none"
               /\ \A k \in Stoppers : k # Unbinder => step'[k] = step[k]
            \/ TookEntry(Unbinder)
<1>0. /\ CallTypes /\ AtType /\ ReplyTypes /\ CtxType /\ TableTypes
      /\ ProcTypes /\ BoxTypes /\ ActorTypes /\ StopTypes
  BY Types
<1>1. /\ step[Unbinder] = "sweep" /\ ToolSame /\ BoxSame
      /\ UNCHANGED <<bound, reserved, os, due, at, out, target, ctx>>
  BY <1>0, Requests DEF UnbindSweeps, Begin, toolVars, rpcVars, actorVars,
     procVars, ToolSame, BoxSame
<1>2. \/ /\ table = NoProc /\ UNCHANGED <<table, victim>>
         /\ step'[Unbinder] = "none"
         /\ \A k \in Stoppers : k # Unbinder => step'[k] = step[k]
      \/ TookEntry(Unbinder)
  BY <1>0, Requests, TakeKeeps, Apart DEF UnbindSweeps, Begin, toolVars,
     rpcVars, actorVars, procVars, TookEntry, StopTypes, TableTypes
<1> QED BY <1>1, <1>2

LEMMA StepStopMarks ==
  ASSUME TypeOK, NEW k \in Stoppers, StopMarks(k)
  PROVE  /\ /\ ToolSame /\ UNCHANGED <<bound, table, reserved, os, victim, due, at, out, target, ctx>>
            /\ cur' = cur
         /\ mbox' = mbox
         /\ /\ step[k] \in {"mark", "send", "await"}
            /\ step'[k] \in {"mark", "send", "await"}
            /\ \A j \in Stoppers : j # k => step'[j] = step[j]
<1>0. /\ CallTypes /\ AtType /\ ReplyTypes /\ CtxType /\ TableTypes
      /\ ProcTypes /\ BoxTypes /\ ActorTypes /\ StopTypes
  BY Types
<1>1. /\ ToolSame /\ UNCHANGED <<bound, table, reserved, os, victim, due, at, out, target, ctx>>
      /\ cur' = cur
  BY <1>0 DEF StopMarks, To, Interrupt, stopRest, toolVars, ToolSame
<1>2. mbox' = mbox
  BY <1>0 DEF StopMarks, To, Interrupt, stopRest, toolVars
<1>3. /\ step[k] \in {"mark", "send", "await"}
      /\ step'[k] \in {"mark", "send", "await"}
      /\ \A j \in Stoppers : j # k => step'[j] = step[j]
  BY <1>0 DEF StopMarks, To, Interrupt, stopRest, toolVars, StopTypes
<1> QED BY <1>1, <1>2, <1>3

LEMMA StepStopSends ==
  ASSUME TypeOK, NEW k \in Stoppers, StopSends(k)
  PROVE  /\ /\ ToolSame /\ UNCHANGED <<bound, table, reserved, os, victim, due, at, out, target, ctx>>
            /\ cur' = cur
         /\ \A q \in Procs, x \in Rpcs : InBox(x, q)' => InBox(x, q)
         /\ /\ step[k] \in {"mark", "send", "await"}
            /\ step'[k] \in {"mark", "send", "await"}
            /\ \A j \in Stoppers : j # k => step'[j] = step[j]
<1>0. /\ CallTypes /\ AtType /\ ReplyTypes /\ CtxType /\ TableTypes
      /\ ProcTypes /\ BoxTypes /\ ActorTypes /\ StopTypes
  BY Types
<1>1. /\ ToolSame /\ UNCHANGED <<bound, table, reserved, os, victim, due, at, out, target, ctx>>
      /\ cur' = cur
  BY <1>0, Requests DEF StopSends, To, stopRest, toolVars, ToolSame
<1>2. \A q \in Procs, x \in Rpcs : InBox(x, q)' => InBox(x, q)
  <2>0. mbox' = [mbox EXCEPT ![victim[k]] = Append(@, Stop)]
    BY DEF StopSends
  <2>1. CASE victim[k] \in Procs
    <3>1. \A q \in Procs : \A x :
              InBox(x, q)' => InBox(x, q) \/ (q = victim[k] /\ x = Stop)
      BY <1>0, <2>0, <2>1, AppendInBox
    <3> QED BY <3>1, Requests
  <2>2. CASE victim[k] \notin Procs
    <3>1. mbox' = mbox BY <1>0, <2>0, <2>2 DEF BoxTypes
    <3> QED BY <3>1 DEF InBox
  <2> QED BY <2>1, <2>2
<1>3. /\ step[k] \in {"mark", "send", "await"}
      /\ step'[k] \in {"mark", "send", "await"}
      /\ \A j \in Stoppers : j # k => step'[j] = step[j]
  BY <1>0, Requests DEF StopSends, To, stopRest, toolVars, StopTypes
<1> QED BY <1>1, <1>2, <1>3

LEMMA StepStopKills ==
  ASSUME TypeOK, NEW k \in Stoppers, StopKills(k)
  PROVE  /\ /\ step[k] \in {"send", "await"} /\ ToolSame /\ BoxSame
            /\ UNCHANGED <<bound, table, reserved, due, ctx>>
         /\ /\ step'[k] = "none" /\ victim'[k] = NoProc
            /\ \A j \in Stoppers : j # k => step'[j] = step[j] /\ victim'[j] = victim[j]
         /\ \A p \in Procs : os'[p] = IF p = victim[k] THEN "exited" ELSE os[p]
         /\ /\ Keeps(k)
            /\ k \notin Rpcs => UNCHANGED <<at, out, target>>
            /\ k \in Rpcs => at'[k] = "answered"
<1>0. /\ CallTypes /\ AtType /\ ReplyTypes /\ CtxType /\ TableTypes
      /\ ProcTypes /\ BoxTypes /\ ActorTypes /\ StopTypes
  BY Types
<1>1. /\ step[k] \in {"send", "await"} /\ ToolSame /\ BoxSame
      /\ UNCHANGED <<bound, table, reserved, due, ctx>>
  BY <1>0, AnswerKeeps, Apart, Actors DEF StopKills, Killed, toolVars,
     actorVars, tableVars, ToolSame, BoxSame
<1>2. /\ step'[k] = "none" /\ victim'[k] = NoProc
      /\ \A j \in Stoppers : j # k => step'[j] = step[j] /\ victim'[j] = victim[j]
  BY <1>0, AnswerKeeps, Apart, Actors DEF StopKills, Killed, toolVars,
     actorVars, tableVars, StopTypes
<1>3. \A p \in Procs : os'[p] = IF p = victim[k] THEN "exited" ELSE os[p]
  BY <1>0, AnswerKeeps, Apart, Actors DEF StopKills, Killed, toolVars,
     actorVars, tableVars, ProcTypes
<1>4. /\ Keeps(k)
      /\ k \notin Rpcs => UNCHANGED <<at, out, target>>
      /\ k \in Rpcs => at'[k] = "answered"
  BY <1>0, AnswerKeeps, Apart, Actors DEF StopKills, Killed, toolVars,
     actorVars, tableVars, Keeps, Kept
<1> QED BY <1>1, <1>2, <1>3, <1>4

\* The actor answers at most one request, which waits on its own process.
ActorAnswers(p) ==
    \/ UNCHANGED <<at, out, target>>
    \/ \E r \in ActorRpcs :
           /\ Keeps(r) /\ at[r] = "queued" /\ target[r] = p /\ at'[r] = "answered"
           /\ r[2] = "wait" /\ out'[r] = "ok" => os[p] = "exited"

\* It holds no request that was not in its mailbox.
BoxShrank ==
    \A q \in Procs, x \in Rpcs :
        InBox(x, q)' \/ cur'[q] = x => InBox(x, q) \/ cur[q] = x

LEMMA ReplyAnswers ==
  ASSUME AtType, ReplyTypes, Queues, NEW p \in Procs, NEW r \in Rpcs,
         InBox(r, p) \/ cur[p] = r, NEW o, Reply(r, o),
         r[2] = "wait" /\ o = "ok" => os[p] = "exited"
  PROVE  ActorAnswers(p)
<1>1. r \in ActorRpcs /\ at'[r] = "answered" /\ \A x \in Rpcs : x # r => Kept(x)
  BY ReplyKeeps
<1>2. CASE at[r] = "queued"
  <2>1. target[r] = p /\ (r[2] = "wait" => out'[r] = o) BY <1>2, ReplyKeeps
  <2> QED BY <1>1, <1>2, <2>1 DEF ActorAnswers, Keeps
<1>3. CASE at[r] # "queued" BY <1>3 DEF Reply, ActorAnswers
<1> QED BY <1>2, <1>3

LEMMA StepPop ==
  ASSUME TypeOK, Queues, NEW p \in Procs, Pop(p)
  PROVE  /\ ToolSame /\ ChildSame /\ ctx' = ctx
         /\ BoxShrank
         /\ ActorAnswers(p)
<1>0. /\ CallTypes /\ AtType /\ ReplyTypes /\ CtxType /\ TableTypes
      /\ ProcTypes /\ BoxTypes /\ ActorTypes /\ StopTypes
  BY Types
<1>1. ToolSame /\ ChildSame /\ ctx' = ctx
  BY DEF Pop, actorRest, toolVars, tableVars, stopVars, ToolSame, ChildSame
<1>2. /\ InBox(Head(mbox[p]), p) /\ Head(mbox[p]) \in Rpcs \cup {Stop}
      /\ \A q \in Procs : \A r : InBox(r, q)' => InBox(r, q)
  BY <1>0, HeadInBox DEF Pop
<1>3. \/ cur' = cur \/ cur' = [cur EXCEPT ![p] = Head(mbox[p])]
  BY DEF Pop
<1>4. BoxShrank BY <1>0, <1>2, <1>3 DEF BoxShrank, ActorTypes
<1>5. ActorAnswers(p)
  <2>1. CASE UNCHANGED <<at, out, target>> BY <2>1 DEF ActorAnswers
  <2>2. CASE Head(mbox[p]) # Stop /\ Reply(Head(mbox[p]), "canceled")
    <3>1. Head(mbox[p]) \in Rpcs BY <1>2, <2>2
    <3> QED BY <1>0, <1>2, <2>2, <3>1, ReplyAnswers
  <2> QED BY <2>1, <2>2 DEF Pop
<1> QED BY <1>1, <1>4, <1>5

LEMMA StepFinish ==
  ASSUME TypeOK, Queues, NEW p \in Procs, Finish(p)
  PROVE  /\ ToolSame /\ UNCHANGED <<bound, table, reserved, step, victim, due, ctx>>
         /\ BoxShrank
         /\ os[p] # "none"
         /\ \A q \in Procs : os'[q] = os[q] \/ (q = p /\ os'[q] = "exited")
         /\ ActorAnswers(p)
<1>0. /\ CallTypes /\ AtType /\ ReplyTypes /\ CtxType /\ TableTypes
      /\ ProcTypes /\ BoxTypes /\ ActorTypes /\ StopTypes
  BY Types
<1>1. ToolSame /\ UNCHANGED <<bound, table, reserved, step, victim, due, ctx>>
  BY DEF Finish, actorRest, toolVars, tableVars, stopVars, ToolSame
<1>2. cur[p] \in Rpcs BY <1>0 DEF Finish, ActorTypes
<1>3. os[p] # "none" BY <1>2 DEF Queues
<1>4. BoxShrank
  <2>1. mbox' = mbox /\ cur' = [cur EXCEPT ![p] = NoRpc] BY DEF Finish
  <2>2. \A q \in Procs : \A x : InBox(x, q)' => InBox(x, q) BY <2>1 DEF InBox
  <2>3. \A q \in Procs, x \in Rpcs : cur'[q] = x => cur[q] = x
    BY <1>0, <2>1, Requests DEF ActorTypes
  <2> QED BY <2>2, <2>3 DEF BoxShrank
<1>5. PICK o \in {"ok", "canceled"} : OpEnds(p, o) /\ Reply(cur[p], o)
  BY DEF Finish
<1>6. \A q \in Procs : os'[q] = os[q] \/ (q = p /\ os'[q] = "exited")
  BY <1>0, <1>5 DEF OpEnds, ProcTypes
<1>7. cur[p][2] = "wait" /\ o = "ok" => os[p] = "exited"
  BY <1>5 DEF OpEnds
<1>8. ActorAnswers(p) BY <1>0, <1>2, <1>5, <1>7, ReplyAnswers
<1> QED BY <1>1, <1>3, <1>4, <1>6, <1>8

-----------------------------------------------------------------------------
(* The child                                                              *)

\* A step that launches, takes and kills nothing.
LEMMA ChildStay ==
  ASSUME Child,
         \A s \in Starters : Kept(StartOf(s)),
         \A c \in Killers : at[ReleaseOf(c)] = "stopping" => at'[ReleaseOf(c)] = "stopping",
         \A p \in Procs : os'[p] = "none" <=> os[p] = "none",
         \A p \in Procs : os'[p] = "running" => os[p] = "running",
         table' = table, reserved' = reserved, victim' = victim,
         \A k \in Stoppers : step'[k] \in {"mark", "send", "await"}
                              <=> step[k] \in {"mark", "send", "await"},
         due' => due \/ victim[Reaper] = NoProc,
         bound' => bound /\ (step'[Unbinder] = "sweep" => step[Unbinder] = "sweep")
  PROVE  Child'
<1>1. OneLaunch' BY DEF Child, OneLaunch, Kept
<1>2. \A p : Stopped(p)' <=> Stopped(p) BY DEF Stopped
<1>3. LaunchedOnce' BY <1>2, Requests DEF Child, LaunchedOnce, Kept
<1>4. StoppersHold' BY DEF Child, StoppersHold
<1>5. ServerOwnsProcess' BY <1>2 DEF Child, ServerOwnsProcess
<1> QED BY <1>1, <1>3, <1>4, <1>5 DEF Child

\* The tool, or a request on a process, goes on.
LEMMA ActorChild ==
  ASSUME Child, NEW r \in ActorRpcs, Keeps(r), ChildSame
  PROVE  Child'
<1>1. /\ \A s \in Starters : Kept(StartOf(s))
      /\ \A c \in Killers : Kept(ReleaseOf(c))
  BY Apart DEF Keeps
<1> QED BY <1>1, ChildStay DEF ChildSame, Kept

LEMMA QuietChild ==
  ASSUME Child, UNCHANGED <<at, out, target>>, ChildSame
  PROVE  Child'
BY ChildStay DEF ChildSame, Kept

LEMMA AnswersChild ==
  ASSUME Child, NEW p, ActorAnswers(p), UNCHANGED <<bound, table, reserved, step, victim, due>>,
         \A q \in Procs : os'[q] = "none" <=> os[q] = "none",
         \A q \in Procs : os'[q] = "running" => os[q] = "running"
  PROVE  Child'
<1>1. \A s \in Starters : Kept(StartOf(s)) BY Apart DEF ActorAnswers, Keeps, Kept
<1>2. \A c \in Killers : Kept(ReleaseOf(c)) BY Apart DEF ActorAnswers, Keeps, Kept
<1> QED BY <1>1, <1>2, ChildStay DEF Kept

\* A stopper takes the entry of the table.
LEMMA TakeChild ==
  ASSUME TypeOK, Child, NEW k \in Stoppers, TookEntry(k), victim[k] = NoProc,
         \A s \in Starters : Kept(StartOf(s)),
         \A c \in Killers : k = ReleaseOf(c) => at'[ReleaseOf(c)] = "stopping",
         \A c \in Killers : k # ReleaseOf(c) => at'[ReleaseOf(c)] = at[ReleaseOf(c)],
         os' = os, reserved' = reserved, bound' = bound,
         k = Unbinder => ~bound, due' => due /\ k # Reaper
  PROVE  Child'
<1>0. NoProc \notin Procs /\ Procs = Starters BY Requests
<1>1. OneLaunch'
  BY <1>0 DEF Child, OneLaunch, Kept, TookEntry
<1>2. \A p \in Procs : p # table => (Stopped(p)' <=> Stopped(p))
  <2> SUFFICES ASSUME NEW p \in Procs, p # table PROVE Stopped(p)' <=> Stopped(p)
    OBVIOUS
  <2>1. \A j \in Stoppers : victim'[j] = p <=> victim[j] = p BY <1>0 DEF TookEntry
  <2> QED BY <2>1 DEF Stopped
<1>3. LaunchedOnce'
  <2>1. \A s \in Starters : os[s] = "none" => s # table BY DEF Child, LaunchedOnce
  <2> QED BY <1>0, <1>2, <2>1 DEF Child, LaunchedOnce, Kept, TookEntry
<1>4. StoppersHold'
  <2>1. \A j \in Stoppers :
           step'[j] \in {"mark", "send", "await"} <=> victim'[j] # NoProc
    BY <1>0 DEF Child, StoppersHold, TookEntry
  <2>2. \A c \in Killers :
           victim'[ReleaseOf(c)] # NoProc => at'[ReleaseOf(c)] = "stopping"
    BY Apart DEF Child, StoppersHold, TookEntry
  <2>3. due' => victim'[Reaper] = NoProc
    BY Requests DEF Child, StoppersHold, TookEntry
  <2>4. bound' => victim'[Unbinder] = NoProc /\ step'[Unbinder] # "sweep"
    BY Requests DEF Child, StoppersHold, TookEntry
  <2> QED BY <2>1, <2>2, <2>3, <2>4 DEF StoppersHold
<1>5. /\ table \in Procs /\ ~Stopped(table) /\ table' = NoProc
      /\ \E j \in Stoppers : victim'[j] = table
  <2>1. table \in Procs /\ table' = NoProc /\ victim'[k] = table BY DEF TookEntry
  <2>2. ~Stopped(table) BY <2>1 DEF Child, ServerOwnsProcess
  <2> QED BY <2>1, <2>2
<1>6. ServerOwnsProcess'
  <2>1. ASSUME NEW p \in Procs, os'[p] = "running" PROVE table' = p \/ Stopped(p)'
    <3>1. CASE p = table BY <1>5, <3>1 DEF Stopped
    <3>2. CASE p # table BY <1>2, <2>1, <3>2 DEF Child, ServerOwnsProcess
    <3> QED BY <3>1, <3>2
  <2>2. ASSUME NEW p \in Procs, NEW i \in Stoppers, NEW j \in Stoppers,
               victim'[i] = p, victim'[j] = p
        PROVE  i = j
    <3>1. CASE p = table
      <4>1. \A x \in Stoppers : x # k => victim'[x] # table
        BY <1>5 DEF Stopped, TookEntry
      <4> QED BY <2>2, <3>1, <4>1
    <3>2. CASE p # table
      <4>1. i # k /\ j # k BY <2>2, <3>2 DEF TookEntry
      <4>2. victim[i] = p /\ victim[j] = p BY <2>2, <4>1 DEF TookEntry
      <4> QED BY <4>2 DEF Child, ServerOwnsProcess
    <3> QED BY <3>1, <3>2
  <2>3. \A p \in Procs : table' # p BY <1>0, <1>5
  <2> QED BY <2>1, <2>2, <2>3 DEF ServerOwnsProcess
<1> QED BY <1>1, <1>3, <1>4, <1>6 DEF Child

LEMMA ChildStep ==
  ASSUME TypeOK, Child, Queues, CallsOnce, [Next]_vars
  PROVE  Child'
<1>1. ASSUME NEW s \in Starters, StartClaim(s) PROVE Child'
  <2>1. at[StartOf(s)] = "off" BY <1>1, StepStartClaim DEF CallsOnce
  <2>2. /\ Keeps(StartOf(s)) /\ ChildSame /\ UNCHANGED <<out, target>>
        /\ at'[StartOf(s)] \in {"sent", "off"}
    BY <1>1, <2>1, StepStartClaim
  <2>3. /\ \A c \in Killers : Kept(ReleaseOf(c))
        /\ \A t \in Starters : t # s => Kept(StartOf(t))
    BY <2>2, Apart DEF Keeps
  <2>4. \A p : Stopped(p)' <=> Stopped(p) BY <2>2 DEF Stopped, ChildSame
  <2>5. OneLaunch' BY <2>1, <2>2, <2>3 DEF Child, OneLaunch, Kept, ChildSame
  <2>6. LaunchedOnce'
    BY <2>1, <2>2, <2>3, <2>4 DEF Child, LaunchedOnce, Kept, ChildSame
  <2>7. StoppersHold' BY <2>2, <2>3 DEF Child, StoppersHold, Kept, ChildSame
  <2>8. ServerOwnsProcess' BY <2>2, <2>4 DEF Child, ServerOwnsProcess, ChildSame
  <2> QED BY <2>5, <2>6, <2>7, <2>8 DEF Child
<1>2. ASSUME NEW s \in Starters, StartFill(s) PROVE Child'
  BY <1>2, StepStartFill, ActorChild, Requests DEF TerminateOf
<1>3. ASSUME NEW s \in Starters, StartFails(s) PROVE Child'
  BY <1>3, StepStartFails, QuietChild
<1>4. ASSUME NEW c \in Users, NEW m \in Uses, Use(c, m) PROVE Child'
  BY <1>4, StepUse, ActorChild
<1>5. ASSUME NEW c \in Users, NEW m \in Uses, UseReturns(c, m) PROVE Child'
  BY <1>5, StepUseReturns, QuietChild
<1>6. ASSUME NEW c \in Users, WaitEnds(c) PROVE Child'
  BY <1>6, StepWaitEnds, QuietChild
<1>7. ASSUME NEW c \in Users, WaitDrops(c) PROVE Child'
  BY <1>7, StepWaitDrops, QuietChild
<1>8. ASSUME NEW c \in Closers, Close(c) PROVE Child'
  BY <1>8, StepClose, ActorChild, Requests DEF TerminateOf
<1>9. ASSUME NEW c \in Killers, CloseReleases(c) PROVE Child'
  <2>1. /\ Keeps(ReleaseOf(c)) /\ ChildSame /\ at[ReleaseOf(c)] = "off"
    BY <1>9, StepCloseReleases DEF CallsOnce
  <2>2. \A s \in Starters : Kept(StartOf(s)) BY <2>1, Apart DEF Keeps
  <2>3. \A d \in Killers : d # c => Kept(ReleaseOf(d)) BY <2>1, Apart DEF Keeps
  <2> QED BY <2>1, <2>2, <2>3, ChildStay DEF Kept, ChildSame
<1>10. ASSUME NEW c \in Killers, CloseReturns(c) PROVE Child'
  BY <1>10, StepCloseReturns, QuietChild
<1>11. ASSUME NEW s \in Starters, StartReserves(s) PROVE Child'
  <2>1. /\ at[StartOf(s)] = "sent" /\ Keeps(StartOf(s))
        /\ UNCHANGED <<bound, table, os, step, victim, due>>
    BY <1>11, StepStartReserves
  <2>2. \A c \in Killers : Kept(ReleaseOf(c)) BY <2>1, Apart DEF Keeps
  <2>3. \A t \in Starters : t # s => Kept(StartOf(t)) BY <2>1, Apart DEF Keeps
  <2>4. \A p : Stopped(p)' <=> Stopped(p) BY <2>1 DEF Stopped
  <2>5. StoppersHold' BY <2>1, <2>2 DEF Child, StoppersHold, Kept
  <2>6. ServerOwnsProcess' BY <2>1, <2>4 DEF Child, ServerOwnsProcess
  <2>7. reserved # s BY <2>1 DEF Child, OneLaunch
  <2>8. out[StartOf(s)] # "ok" /\ out'[StartOf(s)] # "ok"
    BY <1>11, <2>1, StepStartReserves DEF Child, LaunchedOnce
  <2>9. LaunchedOnce'
    BY <2>1, <2>3, <2>4, <2>8 DEF Child, LaunchedOnce, Kept
  <2>10. OneLaunch'
    <3>1. \/ reserved' = reserved /\ at'[StartOf(s)] = "answered"
          \/ /\ table = NoProc /\ reserved = NoProc /\ reserved' = s
             /\ at'[StartOf(s)] = "launch"
      BY <1>11, StepStartReserves
    <3> QED BY <2>1, <2>3, <2>7, <3>1, Requests DEF Child, OneLaunch, Kept
  <2> QED BY <2>5, <2>6, <2>9, <2>10 DEF Child
<1>12. ASSUME NEW s \in Starters, StartLaunchFails(s) PROVE Child'
  <2>1. /\ at[StartOf(s)] = "launch" /\ Keeps(StartOf(s))
        /\ UNCHANGED <<bound, table, os, step, victim, due>>
        /\ reserved' = NoProc /\ at'[StartOf(s)] = "answered"
        /\ out'[StartOf(s)] = "refused"
    BY <1>12, StepStartLaunchFails
  <2>2. \A c \in Killers : Kept(ReleaseOf(c)) BY <2>1, Apart DEF Keeps
  <2>3. \A t \in Starters : t # s => Kept(StartOf(t)) BY <2>1, Apart DEF Keeps
  <2>4. \A p : Stopped(p)' <=> Stopped(p) BY <2>1 DEF Stopped
  <2>5. StoppersHold' BY <2>1, <2>2 DEF Child, StoppersHold, Kept
  <2>6. ServerOwnsProcess' BY <2>1, <2>4 DEF Child, ServerOwnsProcess
  <2>7. out[StartOf(s)] # "ok" BY <2>1 DEF Child, LaunchedOnce
  <2>8. LaunchedOnce'
    BY <2>1, <2>3, <2>4, <2>7 DEF Child, LaunchedOnce, Kept
  <2>9. OneLaunch' BY <2>1, <2>3, Requests DEF Child, OneLaunch, Kept
  <2> QED BY <2>5, <2>6, <2>8, <2>9 DEF Child
<1>13. ASSUME NEW s \in Starters, StartRegisters(s) PROVE Child'
  <2>1. /\ at[StartOf(s)] = "launch" /\ Keeps(StartOf(s))
        /\ UNCHANGED <<bound, step, victim, due>>
        /\ reserved' = NoProc /\ table' = s /\ at'[StartOf(s)] = "answered"
        /\ out'[StartOf(s)] = "ok" /\ os'[s] = "running"
        /\ \A p \in Procs : p # s => os'[p] = os[p]
    BY <1>13, StepStartRegisters
  <2>2. \A c \in Killers : Kept(ReleaseOf(c)) BY <2>1, Apart DEF Keeps
  <2>3. \A t \in Starters : t # s => Kept(StartOf(t)) BY <2>1, Apart DEF Keeps
  <2>4. \A p : Stopped(p)' <=> Stopped(p) BY <2>1 DEF Stopped
  <2>5. StoppersHold' BY <2>1, <2>2 DEF Child, StoppersHold, Kept
  <2>6. table = NoProc /\ reserved = s BY <2>1, Requests DEF Child, OneLaunch
  <2>7. os[s] = "none" /\ ~Stopped(s) BY <2>1 DEF Child, LaunchedOnce
  <2>8. ServerOwnsProcess'
    BY <2>1, <2>4, <2>6, <2>7, Requests DEF Child, ServerOwnsProcess
  <2>9. LaunchedOnce'
    BY <2>1, <2>3, <2>4, <2>7, Requests DEF Child, LaunchedOnce, Kept
  <2>10. OneLaunch' BY <2>1, <2>3, <2>6, Requests DEF Child, OneLaunch, Kept
  <2> QED BY <2>5, <2>8, <2>9, <2>10 DEF Child
<1>14. ASSUME NEW r \in ActorRpcs, CancelLands(r) PROVE Child'
  BY <1>14, StepCancelLands, QuietChild
<1>15. ASSUME NEW r \in ActorRpcs, OpArrives(r) PROVE Child'
  BY <1>15, StepOpArrives, ActorChild
<1>16. ASSUME NEW r \in ActorRpcs, InlineReadEnds(r) PROVE Child'
  BY <1>16, StepInlineReadEnds, ActorChild
<1>17. ASSUME NEW r \in ActorRpcs, Enqueue(r) PROVE Child'
  BY <1>17, StepEnqueue, ActorChild
<1>18. ASSUME NEW r \in ActorRpcs, Abandon(r) PROVE Child'
  BY <1>18, StepAbandon, ActorChild
<1>19. ASSUME NEW c \in Killers, ReleaseArrives(c) PROVE Child'
  <2>1. /\ victim[ReleaseOf(c)] = NoProc /\ Keeps(ReleaseOf(c))
        /\ UNCHANGED <<bound, reserved, os, due>>
    BY <1>19, StepReleaseArrives DEF Child, StoppersHold
  <2>2. \A s \in Starters : Kept(StartOf(s)) BY <2>1, Apart DEF Keeps
  <2>3. \A d \in Killers : ReleaseOf(d) # ReleaseOf(c) => Kept(ReleaseOf(d))
    BY <2>1, Apart DEF Keeps
  <2>4. CASE TookEntry(ReleaseOf(c)) /\ at'[ReleaseOf(c)] = "stopping"
    <3>1. \A d \in Killers : ReleaseOf(d) = ReleaseOf(c) => at'[ReleaseOf(d)] = "stopping"
      BY <2>4
    <3>2. due' => due /\ ReleaseOf(c) # Reaper BY <2>1, Apart
    <3> QED BY <2>1, <2>2, <2>3, <2>4, <3>1, <3>2, Apart, TakeChild DEF Kept
  <2>5. CASE UNCHANGED <<table, victim, step>>
    BY <1>19, <2>1, <2>2, <2>3, <2>5, StepReleaseArrives, ChildStay DEF Kept
  <2> QED BY <1>19, <2>4, <2>5, StepReleaseArrives
<1>20. ASSUME NEW p \in Procs, Pop(p) PROVE Child'
  BY <1>20, StepPop, AnswersChild DEF ChildSame
<1>21. ASSUME NEW p \in Procs, Arm(p) PROVE Child'
  BY <1>21, StepArm, QuietChild
<1>22. ASSUME NEW p \in Procs, Finish(p) PROVE Child'
  <2>1. \A q \in Procs : os'[q] = "none" <=> os[q] = "none" BY <1>22, StepFinish
  <2>2. \A q \in Procs : os'[q] = "running" => os[q] = "running" BY <1>22, StepFinish
  <2> QED BY <1>22, <2>1, <2>2, StepFinish, AnswersChild
<1>23. ASSUME NEW p \in Procs, ProcessExits(p) PROVE Child'
  BY <1>23, StepProcessExits, ChildStay DEF Kept
<1>24. ASSUME NEW p \in Procs, ExitPublished(p) PROVE Child'
  BY <1>24, StepExitPublished, QuietChild
<1>25. ASSUME ReaperLists PROVE Child'
  <2>1. victim[Reaper] = NoProc
    BY <1>25, StepReaperLists, Requests DEF Child, StoppersHold
  <2> QED BY <1>25, <2>1, StepReaperLists, ChildStay DEF Kept
<1>26. ASSUME ReaperTakes PROVE Child'
  <2>1. victim[Reaper] = NoProc BY <1>26, StepReaperTakes DEF Child, StoppersHold
  <2>2. CASE TookEntry(Reaper)
    BY <1>26, <2>1, <2>2, StepReaperTakes, Apart, Requests, TakeChild DEF Kept
  <2>3. CASE UNCHANGED <<table, victim, step>>
    BY <1>26, <2>3, StepReaperTakes, ChildStay DEF Kept
  <2> QED BY <1>26, <2>2, <2>3, StepReaperTakes
<1>27. ASSUME Unbind PROVE Child'
  <2>1. step[Unbinder] \notin {"mark", "send", "await"}
    BY <1>27, StepUnbind, Requests DEF Child, StoppersHold
  <2> QED BY <1>27, <2>1, StepUnbind, ChildStay DEF Kept
<1>28. ASSUME UnbindSweeps PROVE Child'
  <2>1. victim[Unbinder] = NoProc
    BY <1>28, StepUnbindSweeps, Requests DEF Child, StoppersHold
  <2>2. CASE TookEntry(Unbinder)
    <3>1. ~bound BY <1>28, StepUnbindSweeps DEF Child, StoppersHold
    <3> QED BY <1>28, <2>1, <2>2, <3>1, StepUnbindSweeps, Apart, Requests, TakeChild DEF Kept
  <2>3. CASE /\ UNCHANGED <<table, victim>> /\ step'[Unbinder] = "none"
             /\ \A k \in Stoppers : k # Unbinder => step'[k] = step[k]
    BY <1>28, <2>3, StepUnbindSweeps, ChildStay DEF Kept
  <2> QED BY <1>28, <2>2, <2>3, StepUnbindSweeps
<1>29. ASSUME NEW k \in Stoppers, StopMarks(k) PROVE Child'
  BY <1>29, StepStopMarks, ChildStay, Requests DEF Kept
<1>30. ASSUME NEW k \in Stoppers, StopSends(k) PROVE Child'
  BY <1>30, StepStopSends, ChildStay, Requests DEF Kept
<1>31. ASSUME NEW k \in Stoppers, StopKills(k) PROVE Child'
  <2>1. /\ step[k] \in {"send", "await"} /\ Keeps(k)
        /\ UNCHANGED <<bound, table, reserved, due>>
        /\ step'[k] = "none" /\ victim'[k] = NoProc
        /\ \A j \in Stoppers : j # k => step'[j] = step[j] /\ victim'[j] = victim[j]
        /\ \A p \in Procs : os'[p] = IF p = victim[k] THEN "exited" ELSE os[p]
    BY <1>31, StepStopKills
  <2>2. \A s \in Starters : Kept(StartOf(s)) BY <2>1, Apart DEF Keeps
  <2>3. \A c \in Killers : ReleaseOf(c) # k => Kept(ReleaseOf(c))
    BY <2>1, Apart DEF Keeps
  <2>4. \A p \in Procs : /\ Stopped(p)' => Stopped(p)
                         /\ Stopped(p) /\ p # victim[k] => Stopped(p)'
    BY <2>1, Requests DEF Stopped
  <2>5. StoppersHold'
    <3>1. \A j \in Stoppers :
             step'[j] \in {"mark", "send", "await"} <=> victim'[j] # NoProc
      BY <2>1 DEF Child, StoppersHold
    <3>2. \A c \in Killers :
             victim'[ReleaseOf(c)] # NoProc => at'[ReleaseOf(c)] = "stopping"
      BY <2>1, <2>3, Apart DEF Child, StoppersHold, Kept
    <3>3. due' => victim'[Reaper] = NoProc
      BY <2>1, Requests DEF Child, StoppersHold
    <3>4. bound' => victim'[Unbinder] = NoProc /\ step'[Unbinder] # "sweep"
      BY <2>1, Requests DEF Child, StoppersHold
    <3> QED BY <3>1, <3>2, <3>3, <3>4 DEF StoppersHold
  <2>6. ServerOwnsProcess'
    <3>1. ASSUME NEW p \in Procs, os'[p] = "running" PROVE table' = p \/ Stopped(p)'
      BY <2>1, <2>4, <3>1 DEF Child, ServerOwnsProcess
    <3>2. ASSUME NEW p \in Procs, NEW i \in Stoppers, NEW j \in Stoppers,
                 victim'[i] = p, victim'[j] = p
          PROVE  i = j
      BY <2>1, <3>2, Requests DEF Child, ServerOwnsProcess
    <3>3. \A p \in Procs : table' = p => ~Stopped(p)'
      BY <2>1, <2>4 DEF Child, ServerOwnsProcess
    <3> QED BY <3>1, <3>2, <3>3 DEF ServerOwnsProcess
  <2>7. \A p \in Procs : os[p] = "none" <=> os'[p] = "none"
    <3>1. \A p \in Procs : p = victim[k] => os[p] # "none"
      BY Requests DEF Child, LaunchedOnce, Stopped
    <3> QED BY <2>1, <3>1
  <2>8. LaunchedOnce'
    BY <2>1, <2>2, <2>4, <2>7, Requests DEF Child, LaunchedOnce, Kept
  <2>9. OneLaunch' BY <2>1, <2>2 DEF Child, OneLaunch, Kept
  <2> QED BY <2>5, <2>6, <2>8, <2>9 DEF Child
<1>32. CASE UNCHANGED vars
  BY <1>32, QuietChild DEF ChildSame, vars, toolVars, rpcVars, actorVars, procVars, tableVars, stopVars
<1> QED
  BY <1>1, <1>2, <1>3, <1>4, <1>5, <1>6, <1>7, <1>8, <1>9, <1>10, <1>11,
     <1>12, <1>13, <1>14, <1>15, <1>16, <1>17, <1>18, <1>19, <1>20, <1>21,
     <1>22, <1>23, <1>24, <1>25, <1>26, <1>27, <1>28, <1>29, <1>30, <1>31,
     <1>32
  DEF Next, ToolNext, ChildNext, StartHandler, OpHandler, Actor, Stopping

-----------------------------------------------------------------------------
(* How requests and processes go on                                       *)

\* A request on a process goes from its handler to the mailbox, or is
\* answered; the process a wait tells of has exited.
OpMoves(r) ==
    \/ Kept(r)
    \/ at[r] = "sent" /\ at'[r] = "inline" /\ r[2] = "read" /\ out'[r] = out[r]
    \/ /\ at[r] = "sent" /\ at'[r] = "submit"
       /\ table \in Procs /\ target'[r] = table /\ out'[r] = out[r]
    \/ /\ at[r] = "submit" /\ at'[r] = "queued"
       /\ target'[r] = target[r] /\ out'[r] = out[r]
    \/ /\ at[r] \in {"sent", "inline", "submit", "queued"} /\ at'[r] = "answered"
       /\ r[2] = "wait" /\ out'[r] = "ok" =>
              \/ at[r] = "inline"
              \/ at[r] = "queued" /\ target[r] \in Procs /\ os[target[r]] = "exited"

\* A start reserves and launches, or is refused.
StartMoves(s) ==
    \/ Kept(StartOf(s))
    \/ at[StartOf(s)] = "sent" /\ at'[StartOf(s)] \in {"launch", "answered"}
    \/ at[StartOf(s)] = "launch" /\ at'[StartOf(s)] = "answered"

\* A release takes the entry of a bound child, or finds none.
ReleaseMoves(c) ==
    \/ Kept(ReleaseOf(c))
    \/ /\ at[ReleaseOf(c)] = "sent" /\ at'[ReleaseOf(c)] = "stopping"
       /\ TookEntry(ReleaseOf(c))
    \/ /\ at[ReleaseOf(c)] = "sent" /\ at'[ReleaseOf(c)] = "answered"
       /\ ~bound \/ table = NoProc
    \/ at[ReleaseOf(c)] = "stopping" /\ at'[ReleaseOf(c)] = "answered"

RequestsMove ==
    /\ \A r \in ActorRpcs : OpMoves(r)
    /\ \A s \in Starters : StartMoves(s)
    /\ \A c \in Killers : ReleaseMoves(c)

\* A request is put only into the mailbox of its target.
BoxMoves ==
    \A q \in Procs, x \in Rpcs :
        InBox(x, q)' \/ cur'[q] = x =>
            \/ InBox(x, q) \/ cur[q] = x
            \/ /\ x \in ActorRpcs /\ at[x] = "submit" /\ at'[x] = "queued"
               /\ target[x] = q /\ target'[x] = q

\* A launched process only leaves, and one that leaves does not come back.
ProcAges(p) ==
    /\ os[p] # "none" => os'[p] # "none"
    /\ Leaving(p) => Leaving(p)'
    /\ os'[p] = "running" => os[p] = "running" \/ at[StartOf(p)] = "launch"

LEMMA NoneMoves ==
  ASSUME UNCHANGED <<at, out, target>>
  PROVE  RequestsMove
BY DEF RequestsMove, OpMoves, StartMoves, ReleaseMoves, Kept

LEMMA OneOpMoves ==
  ASSUME NEW r \in ActorRpcs, Keeps(r), OpMoves(r)
  PROVE  RequestsMove
<1>1. \A x \in ActorRpcs : OpMoves(x) BY Actors DEF Keeps, OpMoves
<1>2. \A s \in Starters : StartMoves(s) BY Apart DEF Keeps, StartMoves
<1>3. \A c \in Killers : ReleaseMoves(c) BY Apart DEF Keeps, ReleaseMoves
<1> QED BY <1>1, <1>2, <1>3 DEF RequestsMove

LEMMA OneStartMoves ==
  ASSUME NEW s \in Starters, Keeps(StartOf(s)), StartMoves(s)
  PROVE  RequestsMove
<1>1. \A x \in ActorRpcs : OpMoves(x) BY Actors, Apart DEF Keeps, OpMoves
<1>2. \A t \in Starters : StartMoves(t)
  <2> SUFFICES ASSUME NEW t \in Starters PROVE StartMoves(t) OBVIOUS
  <2>1. CASE t = s BY <2>1
  <2>2. CASE t # s BY <2>2, Apart DEF Keeps, StartMoves
  <2> QED BY <2>1, <2>2
<1>3. \A c \in Killers : ReleaseMoves(c) BY Apart DEF Keeps, ReleaseMoves
<1> QED BY <1>1, <1>2, <1>3 DEF RequestsMove

LEMMA OneReleaseMoves ==
  ASSUME NEW c \in Killers, Keeps(ReleaseOf(c)), ReleaseMoves(c)
  PROVE  RequestsMove
<1>1. \A x \in ActorRpcs : OpMoves(x) BY Actors, Apart DEF Keeps, OpMoves
<1>2. \A t \in Starters : StartMoves(t) BY Apart DEF Keeps, StartMoves
<1>3. \A d \in Killers : ReleaseMoves(d)
  <2> SUFFICES ASSUME NEW d \in Killers PROVE ReleaseMoves(d) OBVIOUS
  <2>1. CASE d = c BY <2>1
  <2>2. CASE d # c BY <2>2, Apart DEF Keeps, ReleaseMoves
  <2> QED BY <2>1, <2>2
<1> QED BY <1>1, <1>2, <1>3 DEF RequestsMove

LEMMA ActorMoves ==
  ASSUME NEW p \in Procs, ActorAnswers(p)
  PROVE  RequestsMove
<1>1. CASE UNCHANGED <<at, out, target>> BY <1>1, NoneMoves
<1>2. ASSUME NEW r \in ActorRpcs, Keeps(r), at[r] = "queued", target[r] = p,
             at'[r] = "answered", r[2] = "wait" /\ out'[r] = "ok" => os[p] = "exited"
      PROVE  RequestsMove
  <2>1. OpMoves(r) BY <1>2 DEF OpMoves
  <2> QED BY <1>2, <2>1, OneOpMoves
<1> QED BY <1>1, <1>2 DEF ActorAnswers

LEMMA ChildMoves ==
  ASSUME TypeOK, Child, Queues, ChildNext
  PROVE  RequestsMove
<1>1. ASSUME NEW s \in Starters, StartReserves(s) PROVE RequestsMove
  <2>1. Keeps(StartOf(s)) /\ StartMoves(s) BY <1>1, StepStartReserves DEF StartMoves
  <2> QED BY <2>1, OneStartMoves
<1>2. ASSUME NEW s \in Starters, StartLaunchFails(s) PROVE RequestsMove
  <2>1. Keeps(StartOf(s)) /\ StartMoves(s) BY <1>2, StepStartLaunchFails DEF StartMoves
  <2> QED BY <2>1, OneStartMoves
<1>3. ASSUME NEW s \in Starters, StartRegisters(s) PROVE RequestsMove
  <2>1. Keeps(StartOf(s)) /\ StartMoves(s) BY <1>3, StepStartRegisters DEF StartMoves
  <2> QED BY <2>1, OneStartMoves
<1>4. ASSUME NEW r \in ActorRpcs, CancelLands(r) PROVE RequestsMove
  BY <1>4, StepCancelLands, NoneMoves
<1>5. ASSUME NEW r \in ActorRpcs, OpArrives(r) PROVE RequestsMove
  <2>1. Keeps(r) /\ OpMoves(r) BY <1>5, StepOpArrives DEF OpMoves
  <2> QED BY <2>1, OneOpMoves
<1>6. ASSUME NEW r \in ActorRpcs, InlineReadEnds(r) PROVE RequestsMove
  <2>1. Keeps(r) /\ OpMoves(r) BY <1>6, StepInlineReadEnds DEF OpMoves
  <2> QED BY <2>1, OneOpMoves
<1>7. ASSUME NEW r \in ActorRpcs, Enqueue(r) PROVE RequestsMove
  <2>1. Keeps(r) /\ OpMoves(r) BY <1>7, StepEnqueue DEF OpMoves
  <2> QED BY <2>1, OneOpMoves
<1>8. ASSUME NEW r \in ActorRpcs, Abandon(r) PROVE RequestsMove
  <2>1. Keeps(r) /\ OpMoves(r) BY <1>8, StepAbandon DEF OpMoves
  <2> QED BY <2>1, OneOpMoves
<1>9. ASSUME NEW c \in Killers, ReleaseArrives(c) PROVE RequestsMove
  <2>1. Keeps(ReleaseOf(c)) /\ ReleaseMoves(c)
    BY <1>9, StepReleaseArrives DEF ReleaseMoves
  <2> QED BY <2>1, OneReleaseMoves
<1>10. ASSUME NEW p \in Procs, Pop(p) PROVE RequestsMove
  BY <1>10, StepPop, ActorMoves
<1>11. ASSUME NEW p \in Procs, Arm(p) PROVE RequestsMove
  BY <1>11, StepArm, NoneMoves
<1>12. ASSUME NEW p \in Procs, Finish(p) PROVE RequestsMove
  BY <1>12, StepFinish, ActorMoves
<1>13. ASSUME NEW p \in Procs, ProcessExits(p) PROVE RequestsMove
  BY <1>13, StepProcessExits, NoneMoves
<1>14. ASSUME NEW p \in Procs, ExitPublished(p) PROVE RequestsMove
  BY <1>14, StepExitPublished, NoneMoves
<1>15. ASSUME ReaperLists PROVE RequestsMove
  BY <1>15, StepReaperLists, NoneMoves
<1>16. ASSUME ReaperTakes PROVE RequestsMove
  BY <1>16, StepReaperTakes, NoneMoves
<1>17. ASSUME Unbind PROVE RequestsMove
  BY <1>17, StepUnbind, NoneMoves
<1>18. ASSUME UnbindSweeps PROVE RequestsMove
  BY <1>18, StepUnbindSweeps, NoneMoves
<1>19. ASSUME NEW k \in Stoppers, StopMarks(k) PROVE RequestsMove
  BY <1>19, StepStopMarks, NoneMoves
<1>20. ASSUME NEW k \in Stoppers, StopSends(k) PROVE RequestsMove
  BY <1>20, StepStopSends, NoneMoves
<1>21. ASSUME NEW k \in Stoppers, StopKills(k) PROVE RequestsMove
  <2>1. CASE k \notin Rpcs BY <1>21, <2>1, StepStopKills, NoneMoves
  <2>2. ASSUME NEW c \in Killers, k = ReleaseOf(c) PROVE RequestsMove
    <3>1. Keeps(ReleaseOf(c)) /\ at'[ReleaseOf(c)] = "answered"
      BY <1>21, <2>2, StepStopKills, Apart
    <3>2. at[ReleaseOf(c)] = "stopping"
      BY <1>21, <2>2, StepStopKills DEF Child, StoppersHold
    <3>3. ReleaseMoves(c) BY <3>1, <3>2 DEF ReleaseMoves
    <3> QED BY <3>1, <3>3, OneReleaseMoves
  <2> QED BY <2>1, <2>2, Apart, ExecSessionsAssumption
<1> QED
  BY <1>1, <1>2, <1>3, <1>4, <1>5, <1>6, <1>7, <1>8, <1>9, <1>10, <1>11,
     <1>12, <1>13, <1>14, <1>15, <1>16, <1>17, <1>18, <1>19, <1>20, <1>21
  DEF ChildNext, StartHandler, OpHandler, Actor, Stopping

LEMMA BoxesMove ==
  ASSUME TypeOK, Queues, ChildNext
  PROVE  BoxMoves
<1>1. ASSUME NEW s \in Starters, StartReserves(s) PROVE BoxMoves
  BY <1>1, StepStartReserves DEF BoxMoves, InBox, BoxSame
<1>2. ASSUME NEW s \in Starters, StartLaunchFails(s) PROVE BoxMoves
  BY <1>2, StepStartLaunchFails DEF BoxMoves, InBox, BoxSame
<1>3. ASSUME NEW s \in Starters, StartRegisters(s) PROVE BoxMoves
  BY <1>3, StepStartRegisters DEF BoxMoves, InBox, BoxSame
<1>4. ASSUME NEW r \in ActorRpcs, CancelLands(r) PROVE BoxMoves
  BY <1>4, StepCancelLands DEF BoxMoves, InBox, BoxSame
<1>5. ASSUME NEW r \in ActorRpcs, OpArrives(r) PROVE BoxMoves
  BY <1>5, StepOpArrives DEF BoxMoves, InBox, BoxSame
<1>6. ASSUME NEW r \in ActorRpcs, InlineReadEnds(r) PROVE BoxMoves
  BY <1>6, StepInlineReadEnds DEF BoxMoves, InBox, BoxSame
<1>7. ASSUME NEW r \in ActorRpcs, Enqueue(r) PROVE BoxMoves
  <2>1. CASE /\ at'[r] = "queued" /\ target'[r] = target[r]
             /\ \A q \in Procs : \A x : InBox(x, q)' => InBox(x, q) \/ (q = target[r] /\ x = r)
    BY <1>7, <2>1, StepEnqueue DEF BoxMoves
  <2>2. CASE mbox' = mbox BY <1>7, <2>2, StepEnqueue DEF BoxMoves, InBox
  <2> QED BY <1>7, <2>1, <2>2, StepEnqueue
<1>8. ASSUME NEW r \in ActorRpcs, Abandon(r) PROVE BoxMoves
  BY <1>8, StepAbandon DEF BoxMoves, InBox, BoxSame
<1>9. ASSUME NEW c \in Killers, ReleaseArrives(c) PROVE BoxMoves
  BY <1>9, StepReleaseArrives DEF BoxMoves, InBox, BoxSame
<1>10. ASSUME NEW p \in Procs, Pop(p) PROVE BoxMoves
  BY <1>10, StepPop DEF BoxShrank, BoxMoves
<1>11. ASSUME NEW p \in Procs, Arm(p) PROVE BoxMoves
  BY <1>11, StepArm DEF BoxMoves, InBox, BoxSame
<1>12. ASSUME NEW p \in Procs, Finish(p) PROVE BoxMoves
  BY <1>12, StepFinish DEF BoxShrank, BoxMoves
<1>13. ASSUME NEW p \in Procs, ProcessExits(p) PROVE BoxMoves
  BY <1>13, StepProcessExits DEF BoxMoves, InBox, BoxSame
<1>14. ASSUME NEW p \in Procs, ExitPublished(p) PROVE BoxMoves
  BY <1>14, StepExitPublished DEF BoxMoves, InBox, BoxSame
<1>15. ASSUME ReaperLists PROVE BoxMoves
  BY <1>15, StepReaperLists DEF BoxMoves, InBox, BoxSame
<1>16. ASSUME ReaperTakes PROVE BoxMoves
  BY <1>16, StepReaperTakes DEF BoxMoves, InBox, BoxSame
<1>17. ASSUME Unbind PROVE BoxMoves
  BY <1>17, StepUnbind DEF BoxMoves, InBox, BoxSame
<1>18. ASSUME UnbindSweeps PROVE BoxMoves
  BY <1>18, StepUnbindSweeps DEF BoxMoves, InBox, BoxSame
<1>19. ASSUME NEW k \in Stoppers, StopMarks(k) PROVE BoxMoves
  BY <1>19, StepStopMarks DEF BoxMoves, InBox, BoxSame
<1>20. ASSUME NEW k \in Stoppers, StopSends(k) PROVE BoxMoves
  BY <1>20, StepStopSends DEF BoxMoves
<1>21. ASSUME NEW k \in Stoppers, StopKills(k) PROVE BoxMoves
  BY <1>21, StepStopKills DEF BoxMoves, InBox, BoxSame
<1> QED
  BY <1>1, <1>2, <1>3, <1>4, <1>5, <1>6, <1>7, <1>8, <1>9, <1>10, <1>11,
     <1>12, <1>13, <1>14, <1>15, <1>16, <1>17, <1>18, <1>19, <1>20, <1>21
  DEF ChildNext, StartHandler, OpHandler, Actor, Stopping

\* What no stopper and no launch touches is as it was.
LEMMA SameAge ==
  ASSUME NEW p \in Procs, os'[p] = os[p] \/ (os'[p] = "exited" /\ os[p] = "running"),
         \A k \in Stoppers : victim[k] = p => victim'[k] = p
  PROVE  ProcAges(p)
<1>1. Stopped(p) => Stopped(p)' BY DEF Stopped
<1> QED BY <1>1 DEF ProcAges, Leaving

LEMMA ProcsAge ==
  ASSUME TypeOK, Child, Queues, ChildNext
  PROVE  \A p \in Procs : ProcAges(p)
<1> SUFFICES ASSUME NEW x \in Procs PROVE ProcAges(x)
  OBVIOUS
<1>1. ASSUME NEW s \in Starters, StartReserves(s) PROVE ProcAges(x)
  BY <1>1, StepStartReserves, SameAge DEF ChildSame
<1>2. ASSUME NEW s \in Starters, StartLaunchFails(s) PROVE ProcAges(x)
  BY <1>2, StepStartLaunchFails, SameAge DEF ChildSame
<1>3. ASSUME NEW s \in Starters, StartRegisters(s) PROVE ProcAges(x)
  <2>1. /\ at[StartOf(s)] = "launch" /\ victim' = victim /\ os'[s] = "running"
        /\ \A p \in Procs : p # s => os'[p] = os[p]
    BY <1>3, StepStartRegisters
  <2>2. CASE x = s
    <3>1. os[x] = "none" /\ ~Stopped(x) BY <2>1, <2>2 DEF Child, LaunchedOnce
    <3> QED BY <2>1, <2>2, <3>1 DEF ProcAges, Leaving
  <2>3. CASE x # s BY <2>1, <2>3, SameAge
  <2> QED BY <2>2, <2>3
<1>4. ASSUME NEW r \in ActorRpcs, CancelLands(r) PROVE ProcAges(x)
  BY <1>4, StepCancelLands, SameAge DEF ChildSame
<1>5. ASSUME NEW r \in ActorRpcs, OpArrives(r) PROVE ProcAges(x)
  BY <1>5, StepOpArrives, SameAge DEF ChildSame
<1>6. ASSUME NEW r \in ActorRpcs, InlineReadEnds(r) PROVE ProcAges(x)
  BY <1>6, StepInlineReadEnds, SameAge DEF ChildSame
<1>7. ASSUME NEW r \in ActorRpcs, Enqueue(r) PROVE ProcAges(x)
  BY <1>7, StepEnqueue, SameAge DEF ChildSame
<1>8. ASSUME NEW r \in ActorRpcs, Abandon(r) PROVE ProcAges(x)
  BY <1>8, StepAbandon, SameAge DEF ChildSame
<1>9. ASSUME NEW c \in Killers, ReleaseArrives(c) PROVE ProcAges(x)
  <2>1. victim[ReleaseOf(c)] = NoProc /\ os' = os
    BY <1>9, StepReleaseArrives, Requests, Apart DEF Child, StoppersHold
  <2>2. \A k \in Stoppers : victim[k] = x => victim'[k] = x
    BY <1>9, <2>1, StepReleaseArrives, Requests DEF TookEntry
  <2> QED BY <2>1, <2>2, SameAge
<1>10. ASSUME NEW p \in Procs, Pop(p) PROVE ProcAges(x)
  BY <1>10, StepPop, SameAge DEF ChildSame
<1>11. ASSUME NEW p \in Procs, Arm(p) PROVE ProcAges(x)
  BY <1>11, StepArm, SameAge DEF ChildSame
<1>12. ASSUME NEW p \in Procs, Finish(p) PROVE ProcAges(x)
  <2>1. victim' = victim /\ os[p] # "none" /\ (os'[x] = os[x] \/ (x = p /\ os'[x] = "exited"))
    BY <1>12, StepFinish
  <2>2. os[x] \in {"none", "running", "exited"} BY Types DEF ProcTypes
  <2> QED BY <2>1, <2>2, SameAge
<1>13. ASSUME NEW p \in Procs, ProcessExits(p) PROVE ProcAges(x)
  BY <1>13, StepProcessExits, SameAge DEF ChildSame
<1>14. ASSUME NEW p \in Procs, ExitPublished(p) PROVE ProcAges(x)
  BY <1>14, StepExitPublished, SameAge DEF ChildSame
<1>15. ASSUME ReaperLists PROVE ProcAges(x)
  BY <1>15, StepReaperLists, SameAge DEF ChildSame
<1>16. ASSUME ReaperTakes PROVE ProcAges(x)
  <2>1. victim[Reaper] = NoProc /\ os' = os
    BY <1>16, StepReaperTakes, Requests, Apart DEF Child, StoppersHold
  <2>2. \A k \in Stoppers : victim[k] = x => victim'[k] = x
    BY <1>16, <2>1, StepReaperTakes, Requests DEF TookEntry
  <2> QED BY <2>1, <2>2, SameAge
<1>17. ASSUME Unbind PROVE ProcAges(x)
  BY <1>17, StepUnbind, SameAge DEF ChildSame
<1>18. ASSUME UnbindSweeps PROVE ProcAges(x)
  <2>1. victim[Unbinder] = NoProc /\ os' = os
    BY <1>18, StepUnbindSweeps, Requests, Apart DEF Child, StoppersHold
  <2>2. \A k \in Stoppers : victim[k] = x => victim'[k] = x
    BY <1>18, <2>1, StepUnbindSweeps, Requests DEF TookEntry
  <2> QED BY <2>1, <2>2, SameAge
<1>19. ASSUME NEW k \in Stoppers, StopMarks(k) PROVE ProcAges(x)
  BY <1>19, StepStopMarks, SameAge DEF ChildSame
<1>20. ASSUME NEW k \in Stoppers, StopSends(k) PROVE ProcAges(x)
  BY <1>20, StepStopSends, SameAge DEF ChildSame
<1>21. ASSUME NEW k \in Stoppers, StopKills(k) PROVE ProcAges(x)
  <2>1. CASE x = victim[k]
    <3>1. os'[x] = "exited" BY <1>21, <2>1, StepStopKills
    <3> QED BY <3>1 DEF ProcAges, Leaving
  <2>2. CASE x # victim[k] BY <1>21, <2>2, StepStopKills, SameAge
  <2> QED BY <2>1, <2>2
<1> QED
  BY <1>1, <1>2, <1>3, <1>4, <1>5, <1>6, <1>7, <1>8, <1>9, <1>10, <1>11,
     <1>12, <1>13, <1>14, <1>15, <1>16, <1>17, <1>18, <1>19, <1>20, <1>21
  DEF ChildNext, StartHandler, OpHandler, Actor, Stopping

\* The tool is left alone, and so are the contexts of the starts.
LEMMA ChildRest ==
  ASSUME TypeOK, Queues, ChildNext
  PROVE  ToolSame /\ StartCtxSame /\ (bound' => bound)
<1>1. ASSUME NEW s \in Starters, StartReserves(s) PROVE ToolSame /\
     StartCtxSame /\ (bound' => bound)
  BY <1>1, StepStartReserves DEF StartCtxSame, ChildSame
<1>2. ASSUME NEW s \in Starters, StartLaunchFails(s) PROVE ToolSame /\
     StartCtxSame /\ (bound' => bound)
  BY <1>2, StepStartLaunchFails DEF StartCtxSame, ChildSame
<1>3. ASSUME NEW s \in Starters, StartRegisters(s) PROVE ToolSame /\
     StartCtxSame /\ (bound' => bound)
  BY <1>3, StepStartRegisters DEF StartCtxSame, ChildSame
<1>4. ASSUME NEW r \in ActorRpcs, CancelLands(r) PROVE ToolSame /\
     StartCtxSame /\ (bound' => bound)
  BY <1>4, StepCancelLands DEF StartCtxSame, ChildSame
<1>5. ASSUME NEW r \in ActorRpcs, OpArrives(r) PROVE ToolSame /\ StartCtxSame
     /\ (bound' => bound)
  BY <1>5, StepOpArrives DEF StartCtxSame, ChildSame
<1>6. ASSUME NEW r \in ActorRpcs, InlineReadEnds(r) PROVE ToolSame /\
     StartCtxSame /\ (bound' => bound)
  BY <1>6, StepInlineReadEnds DEF StartCtxSame, ChildSame
<1>7. ASSUME NEW r \in ActorRpcs, Enqueue(r) PROVE ToolSame /\ StartCtxSame /\
     (bound' => bound)
  BY <1>7, StepEnqueue DEF StartCtxSame, ChildSame
<1>8. ASSUME NEW r \in ActorRpcs, Abandon(r) PROVE ToolSame /\ StartCtxSame /\
     (bound' => bound)
  BY <1>8, StepAbandon DEF StartCtxSame, ChildSame
<1>9. ASSUME NEW c \in Killers, ReleaseArrives(c) PROVE ToolSame /\
     StartCtxSame /\ (bound' => bound)
  BY <1>9, StepReleaseArrives DEF StartCtxSame, ChildSame
<1>10. ASSUME NEW p \in Procs, Pop(p) PROVE ToolSame /\ StartCtxSame /\
     (bound' => bound)
  BY <1>10, StepPop DEF StartCtxSame, ChildSame
<1>11. ASSUME NEW p \in Procs, Arm(p) PROVE ToolSame /\ StartCtxSame /\
     (bound' => bound)
  BY <1>11, StepArm DEF StartCtxSame, ChildSame
<1>12. ASSUME NEW p \in Procs, Finish(p) PROVE ToolSame /\ StartCtxSame /\
     (bound' => bound)
  BY <1>12, StepFinish DEF StartCtxSame, ChildSame
<1>13. ASSUME NEW p \in Procs, ProcessExits(p) PROVE ToolSame /\ StartCtxSame
     /\ (bound' => bound)
  BY <1>13, StepProcessExits DEF StartCtxSame, ChildSame
<1>14. ASSUME NEW p \in Procs, ExitPublished(p) PROVE ToolSame /\ StartCtxSame
     /\ (bound' => bound)
  BY <1>14, StepExitPublished DEF StartCtxSame, ChildSame
<1>15. ASSUME ReaperLists PROVE ToolSame /\ StartCtxSame /\ (bound' => bound)
  BY <1>15, StepReaperLists DEF StartCtxSame, ChildSame
<1>16. ASSUME ReaperTakes PROVE ToolSame /\ StartCtxSame /\ (bound' => bound)
  BY <1>16, StepReaperTakes DEF StartCtxSame, ChildSame
<1>17. ASSUME Unbind PROVE ToolSame /\ StartCtxSame /\ (bound' => bound)
  BY <1>17, StepUnbind DEF StartCtxSame, ChildSame
<1>18. ASSUME UnbindSweeps PROVE ToolSame /\ StartCtxSame /\ (bound' => bound)
  BY <1>18, StepUnbindSweeps DEF StartCtxSame, ChildSame
<1>19. ASSUME NEW k \in Stoppers, StopMarks(k) PROVE ToolSame /\ StartCtxSame
     /\ (bound' => bound)
  BY <1>19, StepStopMarks DEF StartCtxSame, ChildSame
<1>20. ASSUME NEW k \in Stoppers, StopSends(k) PROVE ToolSame /\ StartCtxSame
     /\ (bound' => bound)
  BY <1>20, StepStopSends DEF StartCtxSame, ChildSame
<1>21. ASSUME NEW k \in Stoppers, StopKills(k) PROVE ToolSame /\ StartCtxSame
     /\ (bound' => bound)
  BY <1>21, StepStopKills DEF StartCtxSame, ChildSame
<1> QED
  BY <1>1, <1>2, <1>3, <1>4, <1>5, <1>6, <1>7, <1>8, <1>9, <1>10, <1>11,
     <1>12, <1>13, <1>14, <1>15, <1>16, <1>17, <1>18, <1>19, <1>20, <1>21
  DEF ChildNext, StartHandler, OpHandler, Actor, Stopping

-----------------------------------------------------------------------------
(* A step of the child keeps what callers know                            *)

\* A launched process that is not in the table is on its way out.
LEMMA OutOfTable ==
  ASSUME TypeOK, Child, NEW p \in Procs, os[p] # "none", table # p
  PROVE  Leaving(p)
<1>1. os[p] \in {"none", "running", "exited"} BY Types DEF ProcTypes
<1> QED BY <1>1 DEF Child, ServerOwnsProcess, Leaving

LEMMA ChildQueues ==
  ASSUME Child, Queues, RequestsMove, BoxMoves, \A p \in Procs : ProcAges(p)
  PROVE  Queues'
<1>1. ASSUME NEW r \in ActorRpcs, at'[r] = "submit"
      PROVE  target'[r] \in Procs /\ os'[target'[r]] # "none"
  <2>1. OpMoves(r) BY DEF RequestsMove
  <2>2. CASE Kept(r) BY <1>1, <2>2 DEF Queues, Kept, ProcAges
  <2>3. CASE table \in Procs /\ target'[r] = table
    <3>1. os[table] # "none" BY <2>3, Requests DEF Child, LaunchedOnce
    <3> QED BY <2>3, <3>1 DEF ProcAges
  <2> QED BY <1>1, <2>1, <2>2, <2>3 DEF OpMoves
<1>2. ASSUME NEW p \in Procs, NEW r \in Rpcs, InBox(r, p)' \/ cur'[p] = r
      PROVE  /\ r \in ActorRpcs /\ at'[r] \in {"queued", "answered"}
             /\ at'[r] = "queued" => target'[r] = p
             /\ os'[p] # "none"
  <2>1. CASE InBox(r, p) \/ cur[p] = r
    <3>1. /\ r \in ActorRpcs /\ at[r] \in {"queued", "answered"}
          /\ at[r] = "queued" => target[r] = p
          /\ os[p] # "none"
      BY <2>1 DEF Queues
    <3>2. OpMoves(r) BY <3>1 DEF RequestsMove
    <3> QED BY <3>1, <3>2 DEF OpMoves, Kept, ProcAges
  <2>2. CASE /\ r \in ActorRpcs /\ at[r] = "submit" /\ at'[r] = "queued"
             /\ target[r] = p /\ target'[r] = p
    <3>1. os[p] # "none" BY <2>2 DEF Queues
    <3> QED BY <2>2, <3>1 DEF ProcAges
  <2> QED BY <1>2, <2>1, <2>2 DEF BoxMoves
<1> QED BY <1>1, <1>2 DEF Queues

LEMMA ChildCallsOnce ==
  ASSUME CallsOnce, RequestsMove, ToolSame
  PROVE  CallsOnce'
<1>1. \A r \in ActorRpcs : at[r] = "off" => at'[r] = "off"
  BY DEF RequestsMove, OpMoves, Kept
<1>2. \A s \in Starters : at[StartOf(s)] = "off" => at'[StartOf(s)] = "off"
  BY DEF RequestsMove, StartMoves, Kept
<1>3. \A c \in Killers : at[ReleaseOf(c)] = "off" => at'[ReleaseOf(c)] = "off"
  BY DEF RequestsMove, ReleaseMoves, Kept
<1>4. \A c \in Killers : TerminateOf(c) \in ActorRpcs BY Requests DEF TerminateOf
<1>5. \A c \in Users, m \in Uses : <<c, m>> \in ActorRpcs
  BY Requests DEF ActorRpcs
<1> QED BY <1>1, <1>2, <1>3, <1>4, <1>5 DEF CallsOnce, ToolSame

LEMMA ChildSlot ==
  ASSUME TypeOK, SlotTells, ToolSame, \A p \in Procs : ProcAges(p)
  PROVE  SlotTells'
<1>1. slot # NoProc => slot \in Procs BY Types, Requests DEF CallTypes
<1> QED BY <1>1 DEF SlotTells, ToolSame, ProcAges

LEMMA ChildStarts ==
  ASSUME StartsAwaited, ToolSame, StartCtxSame, RequestsMove
  PROVE  StartsAwaited'
<1> SUFFICES ASSUME NEW s \in Starters, at'[StartOf(s)] \in {"sent", "launch"},
                    ~Orphaned(s)'
             PROVE  pc'[s] = "start"
  BY DEF StartsAwaited
<1>1. at[StartOf(s)] \in {"sent", "launch"} BY DEF RequestsMove, StartMoves, Kept
<1>2. ~Orphaned(s) BY DEF Orphaned, StartCtxSame, StartOf
<1> QED BY <1>1, <1>2 DEF StartsAwaited, ToolSame

LEMMA ChildCloses ==
  ASSUME TypeOK, Child, ClosesLaunched, ToolSame, RequestsMove, bound' => bound,
         \A p \in Procs : ProcAges(p)
  PROVE  ClosesLaunched'
<1> SUFFICES ASSUME NEW c \in Killers
             PROVE  /\ pc'[c] \in {"terminate", "release"} \/ at'[ReleaseOf(c)] # "off" =>
                           aim'[c] \in Procs /\ os'[aim'[c]] # "none"
                    /\ pc'[c] = "release" => at'[ReleaseOf(c)] # "off"
                    /\ at'[ReleaseOf(c)] \notin {"off", "sent"} =>
                           ~bound' \/ Leaving(aim[c])'
  BY DEF ClosesLaunched
<1>1. /\ ReleaseMoves(c) /\ pc'[c] = pc[c] /\ aim'[c] = aim[c]
      /\ at'[ReleaseOf(c)] = "off" <=> at[ReleaseOf(c)] = "off"
  BY DEF RequestsMove, ToolSame, ReleaseMoves, Kept
<1>2. pc[c] \in {"terminate", "release"} \/ at[ReleaseOf(c)] # "off" =>
          aim[c] \in Procs /\ os[aim[c]] # "none"
  BY DEF ClosesLaunched
<1>3. ASSUME at'[ReleaseOf(c)] \notin {"off", "sent"}
      PROVE  ~bound' \/ Leaving(aim[c])'
  <2>1. aim[c] \in Procs /\ os[aim[c]] # "none" BY <1>1, <1>2, <1>3
  <2>2. Leaving(aim[c]) => Leaving(aim[c])' BY <2>1, <1>1 DEF ProcAges, Leaving, Stopped
  <2>3. CASE at[ReleaseOf(c)] # "sent"
    <3>1. ~bound \/ Leaving(aim[c]) BY <1>1, <1>3, <2>3 DEF ClosesLaunched
    <3> QED BY <2>2, <3>1
  <2>4. CASE table # aim[c] BY <2>1, <2>2, <2>4, OutOfTable
  <2>5. CASE at[ReleaseOf(c)] = "sent" /\ TookEntry(ReleaseOf(c)) /\ table = aim[c]
    <3>1. victim'[ReleaseOf(c)] = aim'[c] /\ ReleaseOf(c) \in Stoppers
      BY <1>1, <2>5, Apart DEF TookEntry
    <3> QED BY <3>1 DEF Leaving, Stopped
  <2>6. CASE ~bound BY <2>6
  <2>7. CASE at[ReleaseOf(c)] = "sent" /\ table = NoProc
    BY <2>1, <2>4, <2>7, Requests
  <2> QED BY <1>1, <1>3, <2>3, <2>4, <2>5, <2>6, <2>7 DEF ReleaseMoves, Kept
<1> QED BY <1>1, <1>2, <1>3 DEF ClosesLaunched, ProcAges

LEMMA ChildWaits ==
  ASSUME TypeOK, Child, WaitsTell, ToolSame, RequestsMove,
         \A p \in Procs : ProcAges(p)
  PROVE  WaitsTell'
<1>0. aim' = aim /\ pc' = pc BY DEF ToolSame
<1> SUFFICES ASSUME NEW w \in Users
             PROVE  /\ at'[WaitOf(w)] # "inline"
                    /\ out'[WaitOf(w)] = "ok" => at'[WaitOf(w)] = "answered"
                    /\ at'[WaitOf(w)] # "off" \/ pc'[w] = "drop" =>
                           aim'[w] \in Procs /\ os'[aim'[w]] # "none"
                    /\ at'[WaitOf(w)] \in {"submit", "queued"} =>
                           target'[WaitOf(w)] = aim'[w] \/ Leaving(aim[w])'
                    /\ out'[WaitOf(w)] = "ok" \/ pc'[w] = "drop" => Leaving(aim[w])'
  BY DEF WaitsTell
<1>1. /\ at[WaitOf(w)] # "inline"
      /\ out[WaitOf(w)] = "ok" => at[WaitOf(w)] = "answered"
      /\ at[WaitOf(w)] # "off" \/ pc[w] = "drop" =>
             aim[w] \in Procs /\ os[aim[w]] # "none"
      /\ at[WaitOf(w)] \in {"submit", "queued"} =>
             target[WaitOf(w)] = aim[w] \/ Leaving(aim[w])
      /\ out[WaitOf(w)] = "ok" \/ pc[w] = "drop" => Leaving(aim[w])
  BY DEF WaitsTell
<1>2. OpMoves(WaitOf(w)) /\ WaitOf(w)[2] = "wait"
  BY Apart DEF RequestsMove, WaitOf
<1>3. aim[w] \in Procs => /\ os[aim[w]] # "none" => os'[aim[w]] # "none"
                          /\ Leaving(aim[w]) => Leaving(aim[w])'
  <2>1. aim'[w] = aim[w] BY <1>0
  <2> QED BY <2>1 DEF ProcAges, Leaving, Stopped
<1>4. CASE Kept(WaitOf(w)) BY <1>0, <1>1, <1>3, <1>4 DEF Kept
<1>5. CASE /\ at[WaitOf(w)] = "sent" /\ at'[WaitOf(w)] = "submit"
           /\ table \in Procs /\ target'[WaitOf(w)] = table
           /\ out'[WaitOf(w)] = out[WaitOf(w)]
  <2>1. table = aim[w] \/ Leaving(aim[w]) BY <1>1, <1>5, OutOfTable
  <2> QED BY <1>0, <1>1, <1>3, <1>5, <2>1
<1>6. CASE /\ at[WaitOf(w)] = "submit" /\ at'[WaitOf(w)] = "queued"
           /\ target'[WaitOf(w)] = target[WaitOf(w)]
           /\ out'[WaitOf(w)] = out[WaitOf(w)]
  BY <1>0, <1>1, <1>3, <1>6
<1>7. CASE /\ at[WaitOf(w)] \in {"sent", "inline", "submit", "queued"}
           /\ at'[WaitOf(w)] = "answered"
           /\ out'[WaitOf(w)] = "ok" =>
                  \/ at[WaitOf(w)] = "inline"
                  \/ /\ at[WaitOf(w)] = "queued" /\ target[WaitOf(w)] \in Procs
                     /\ os[target[WaitOf(w)]] = "exited"
  <2>1. out'[WaitOf(w)] = "ok" => Leaving(aim[w]) BY <1>1, <1>7 DEF Leaving
  <2> QED BY <1>0, <1>1, <1>3, <1>7, <2>1
<1> QED BY <1>2, <1>4, <1>5, <1>6, <1>7 DEF OpMoves

LEMMA ChildStranded ==
  ASSUME TypeOK, NoStrandedProcess, StartsAwaited, ClosesLaunched',
         ToolSame, StartCtxSame, RequestsMove, bound' => bound,
         \A p \in Procs : ProcAges(p)
  PROVE  NoStrandedProcess'
<1> SUFFICES ASSUME NEW p \in Procs, os'[p] = "running", bound', ~Orphaned(p)'
             PROVE  \/ slot' = p \/ pc'[p] = "start" \/ Stopped(p)'
                    \/ \E c \in Killers : Closing(c, p)'
  BY DEF NoStrandedProcess
<1>1. ~Orphaned(p) BY Requests DEF Orphaned, StartCtxSame, StartOf
<1>2. CASE at[StartOf(p)] = "launch"
  BY <1>1, <1>2, Requests DEF StartsAwaited, ToolSame
<1>3. CASE os[p] = "running"
  <2>1. Leaving(p)' => Stopped(p)' BY DEF Leaving
  <2>2. CASE slot = p \/ pc[p] = "start" BY <2>2 DEF ToolSame
  <2>3. CASE Stopped(p) BY <2>1, <2>3 DEF ProcAges, Leaving
  <2>4. ASSUME NEW c \in Killers, Closing(c, p)
        PROVE  Closing(c, p)' \/ Stopped(p)'
    <3>1. aim'[c] = p /\ pc'[c] = pc[c] BY <2>4 DEF Closing, ToolSame
    <3>2. CASE pc[c] \in {"terminate", "release"} BY <3>1, <3>2 DEF Closing
    <3>3. CASE at'[ReleaseOf(c)] = "sent" BY <3>1, <3>3 DEF Closing, ReleaseOf
    <3>4. CASE at[ReleaseOf(c)] = "sent" /\ at'[ReleaseOf(c)] # "sent"
      <4>1. at'[ReleaseOf(c)] \notin {"off", "sent"}
        BY <3>4 DEF RequestsMove, ReleaseMoves, Kept
      <4>2. Leaving(aim[c])' BY <4>1 DEF ClosesLaunched
      <4>3. Leaving(p)' BY <3>1, <4>2 DEF Leaving, Stopped
      <4> QED BY <2>1, <4>3
    <3> QED BY <2>4, <3>2, <3>3, <3>4 DEF Closing, ReleaseOf
  <2> QED BY <1>1, <1>3, <2>2, <2>3, <2>4 DEF NoStrandedProcess
<1> QED BY <1>2, <1>3 DEF ProcAges

-----------------------------------------------------------------------------
(* The tool                                                               *)

\* What a step of the tool leaves alone.
ToolFrame ==
    /\ ChildSame /\ BoxSame /\ UNCHANGED <<out, target>>
    /\ \A r \in Rpcs : at'[r] = at[r] \/ (at[r] = "off" /\ at'[r] = "sent")

LEMMA ToolQueues ==
  ASSUME Queues, ToolFrame
  PROVE  Queues'
BY Actors DEF Queues, ToolFrame, ChildSame, BoxSame, InBox

LEMMA ToolChild ==
  ASSUME Child, ToolFrame
  PROVE  Child'
<1>1. \A p : Stopped(p)' <=> Stopped(p) BY DEF Stopped, ToolFrame, ChildSame
<1>2. OneLaunch' BY Requests, Apart DEF Child, OneLaunch, ToolFrame, ChildSame
<1>3. LaunchedOnce'
  BY <1>1, Requests, Apart DEF Child, LaunchedOnce, ToolFrame, ChildSame
<1>4. StoppersHold'
  BY Requests, Apart DEF Child, StoppersHold, ToolFrame, ChildSame
<1>5. ServerOwnsProcess'
  BY <1>1 DEF Child, ServerOwnsProcess, ToolFrame, ChildSame
<1> QED BY <1>2, <1>3, <1>4, <1>5 DEF Child

LEMMA FrameLeaving ==
  ASSUME ToolFrame
  PROVE  \A p : (Leaving(p)' <=> Leaving(p)) /\ (Stopped(p)' <=> Stopped(p))
BY DEF ToolFrame, ChildSame, Leaving, Stopped

\* The calls a step of the tool is not about know what they knew.
LEMMA CallsOnceStay ==
  ASSUME CallsOnce, NEW c \in Calls, PcKeeps(c),
         \A r \in Rpcs : r[1] # c => at'[r] = at[r],
         pc'[c] # "idle",
         c \in Killers /\ pc'[c] = "start" => at'[TerminateOf(c)] = "off",
         c \in Killers /\ pc'[c] \in {"start", "terminate"} => at'[ReleaseOf(c)] = "off"
  PROVE  CallsOnce'
<1>1. /\ \A d : StartOf(d)[1] = d /\ TerminateOf(d)[1] = d /\ ReleaseOf(d)[1] = d
      /\ \A d \in Users, m \in Uses : <<d, m>>[1] = d
  BY DEF StartOf, TerminateOf, ReleaseOf
<1>2. /\ \A s \in Starters : StartOf(s) \in Rpcs /\ s \in Calls
      /\ \A d \in Killers : TerminateOf(d) \in Rpcs /\ ReleaseOf(d) \in Rpcs /\ d \in Calls
      /\ \A d \in Users : d \in Calls /\ \A m \in Uses : <<d, m>> \in Rpcs
  BY Requests DEF StartOf, TerminateOf, ReleaseOf
<1> QED BY <1>1, <1>2 DEF CallsOnce, PcKeeps

LEMMA StartsStay ==
  ASSUME StartsAwaited, NEW c \in Calls, PcKeeps(c),
         \A r \in Rpcs : r[1] # c => at'[r] = at[r],
         \A s \in Starters : s # c => ctx'[StartOf(s)] = ctx[StartOf(s)],
         c \in Starters /\ at'[StartOf(c)] \in {"sent", "launch"} /\ ~Orphaned(c)'
             => pc'[c] = "start"
  PROVE  StartsAwaited'
<1>1. \A d : StartOf(d)[1] = d BY DEF StartOf
<1>2. \A s \in Starters : StartOf(s) \in Rpcs /\ s \in Calls
  BY Requests DEF StartOf
<1>3. \A s \in Starters : s # c => (Orphaned(s)' <=> Orphaned(s))
  BY DEF Orphaned, StartOf
<1> QED BY <1>1, <1>2, <1>3 DEF StartsAwaited, PcKeeps

LEMMA ClosesStay ==
  ASSUME ClosesLaunched, ToolFrame, NEW c \in Calls, PcKeeps(c), AimKeeps(c),
         \A r \in Rpcs : r[1] # c => at'[r] = at[r],
         c \in Killers =>
             /\ pc'[c] \in {"terminate", "release"} \/ at'[ReleaseOf(c)] # "off" =>
                    aim'[c] \in Procs /\ os'[aim'[c]] # "none"
             /\ pc'[c] = "release" => at'[ReleaseOf(c)] # "off"
             /\ at'[ReleaseOf(c)] \notin {"off", "sent"} => ~bound' \/ Leaving(aim'[c])
  PROVE  ClosesLaunched'
<1>1. \A d : ReleaseOf(d)[1] = d BY DEF ReleaseOf
<1>2. \A d \in Killers : ReleaseOf(d) \in Rpcs /\ d \in Calls
  BY Requests DEF ReleaseOf
<1>3. bound' = bound /\ os' = os /\ \A p : (Leaving(p)' <=> Leaving(p))
  BY FrameLeaving DEF ToolFrame, ChildSame
<1> SUFFICES ASSUME NEW d \in Killers
             PROVE  /\ pc'[d] \in {"terminate", "release"} \/ at'[ReleaseOf(d)] # "off" =>
                           aim'[d] \in Procs /\ os'[aim'[d]] # "none"
                    /\ pc'[d] = "release" => at'[ReleaseOf(d)] # "off"
                    /\ at'[ReleaseOf(d)] \notin {"off", "sent"} =>
                           ~bound' \/ Leaving(aim'[d])
  <2>1. \A d \in Killers : Leaving(aim[d])' <=> Leaving(aim'[d])
    BY <1>3 DEF Leaving, Stopped, ToolFrame, ChildSame
  <2> QED BY <2>1 DEF ClosesLaunched
<1>4. CASE d = c BY <1>4
<1>5. CASE d # c
  <2>1. pc'[d] = pc[d] /\ aim'[d] = aim[d] /\ at'[ReleaseOf(d)] = at[ReleaseOf(d)]
    BY <1>1, <1>2, <1>5 DEF PcKeeps, AimKeeps
  <2> QED BY <1>3, <2>1 DEF ClosesLaunched
<1> QED BY <1>4, <1>5

LEMMA WaitsStay ==
  ASSUME WaitsTell, ToolFrame, NEW c \in Calls, PcKeeps(c), AimKeeps(c),
         \A r \in Rpcs : r[1] # c => at'[r] = at[r],
         c \in Users =>
             /\ at'[WaitOf(c)] # "inline"
             /\ out'[WaitOf(c)] = "ok" => at'[WaitOf(c)] = "answered"
             /\ at'[WaitOf(c)] # "off" \/ pc'[c] = "drop" =>
                    aim'[c] \in Procs /\ os'[aim'[c]] # "none"
             /\ at'[WaitOf(c)] \in {"submit", "queued"} =>
                    target'[WaitOf(c)] = aim'[c] \/ Leaving(aim'[c])
             /\ out'[WaitOf(c)] = "ok" \/ pc'[c] = "drop" => Leaving(aim'[c])
  PROVE  WaitsTell'
<1>1. \A d : WaitOf(d)[1] = d BY DEF WaitOf
<1>2. \A d \in Users : WaitOf(d) \in Rpcs /\ d \in Calls BY Requests, Apart
<1>3. out' = out /\ target' = target /\ os' = os
  BY DEF ToolFrame, ChildSame
<1> SUFFICES ASSUME NEW d \in Users
             PROVE  /\ at'[WaitOf(d)] # "inline"
                    /\ out'[WaitOf(d)] = "ok" => at'[WaitOf(d)] = "answered"
                    /\ at'[WaitOf(d)] # "off" \/ pc'[d] = "drop" =>
                           aim'[d] \in Procs /\ os'[aim'[d]] # "none"
                    /\ at'[WaitOf(d)] \in {"submit", "queued"} =>
                           target'[WaitOf(d)] = aim'[d] \/ Leaving(aim'[d])
                    /\ out'[WaitOf(d)] = "ok" \/ pc'[d] = "drop" => Leaving(aim'[d])
  <2>1. \A d \in Users : Leaving(aim[d])' <=> Leaving(aim'[d])
    BY DEF Leaving, Stopped, ToolFrame, ChildSame
  <2> QED BY <2>1 DEF WaitsTell
<1>4. CASE d = c BY <1>4
<1>5. CASE d # c
  <2>1. pc'[d] = pc[d] /\ aim'[d] = aim[d] /\ at'[WaitOf(d)] = at[WaitOf(d)]
    BY <1>1, <1>2, <1>5 DEF PcKeeps, AimKeeps
  <2> QED BY <1>3, <2>1 DEF WaitsTell
<1> QED BY <1>4, <1>5

\* A process that was pointed at by somebody else still is.
LEMMA StrandedStay ==
  ASSUME NoStrandedProcess, ToolFrame, NEW c \in Calls, PcKeeps(c), AimKeeps(c),
         \A r \in Rpcs : r[1] # c => at'[r] = at[r],
         \A s \in Starters : Orphaned(s) => Orphaned(s)',
         \A p \in Procs : os[p] = "running" /\ bound /\ ~Orphaned(p)' /\ slot = p =>
             slot' = p \/ pc'[p] = "start" \/ Stopped(p) \/ \E k \in Killers : Closing(k, p)',
         c \in Procs /\ os[c] = "running" /\ bound /\ ~Orphaned(c)' /\ pc[c] = "start" =>
             slot' = c \/ pc'[c] = "start" \/ Closing(c, c)',
         c \in Killers => \A p \in Procs :
             Closing(c, p) => Closing(c, p)' \/ Stopped(p) \/ ~bound \/ os[p] # "running"
  PROVE  NoStrandedProcess'
<1>1. os' = os /\ bound' = bound /\ \A p : (Stopped(p)' <=> Stopped(p))
  BY FrameLeaving DEF ToolFrame, ChildSame
<1>2. \A d \in Killers : <<d, "release">> \in Rpcs /\ d \in Calls /\ <<d, "release">>[1] = d
  BY Requests
<1> SUFFICES ASSUME NEW p \in Procs, os[p] = "running", bound, ~Orphaned(p)'
             PROVE  \/ slot' = p \/ pc'[p] = "start" \/ Stopped(p)
                    \/ \E k \in Killers : Closing(k, p)'
  BY <1>1 DEF NoStrandedProcess
<1>3. \/ slot = p \/ pc[p] = "start" \/ Stopped(p)
      \/ \E k \in Killers : Closing(k, p)
  BY Requests DEF NoStrandedProcess
<1>4. CASE pc[p] = "start"
  <2>1. p \in Killers /\ p \in Calls BY Requests
  <2> QED BY <1>4, <2>1 DEF PcKeeps
<1>5. ASSUME NEW k \in Killers, Closing(k, p), k # c PROVE Closing(k, p)'
  BY <1>2, <1>5 DEF Closing, PcKeeps, AimKeeps
<1> QED BY <1>3, <1>4, <1>5

\* The requests of a caller are its own.
LEMMA Own ==
  /\ \A c : /\ StartOf(c)[1] = c /\ TerminateOf(c)[1] = c
            /\ ReleaseOf(c)[1] = c /\ WaitOf(c)[1] = c
  /\ \A c : /\ StartOf(c) # TerminateOf(c) /\ StartOf(c) # ReleaseOf(c)
            /\ ReleaseOf(c) # TerminateOf(c)
  /\ \A c \in Calls : c \in Starters => c \in Killers /\ c \in Procs /\ c \notin Users
  /\ \A c \in Killers : c \in Calls /\ c \notin Users
  /\ \A c \in Users : c \in Calls /\ c \notin Killers /\ c \notin Starters /\ c \notin Procs
  /\ \A c \in Closers : c \in Killers /\ c \notin Starters /\ c \notin Users
  /\ \A c \in Starters : StartOf(c) \in Rpcs
  /\ \A c \in Killers : TerminateOf(c) \in Rpcs /\ ReleaseOf(c) \in Rpcs
  /\ \A c \in Users : WaitOf(c) \in Rpcs
BY Requests, Apart, ExecSessionsAssumption
DEF StartOf, TerminateOf, ReleaseOf, WaitOf, Killers

\* One request goes out.
LEMMA SendFrame ==
  ASSUME ChildSame, BoxSame, out' = out, target' = target,
         NEW x, Keeps(x), at'[x] = at[x] \/ (at[x] = "off" /\ at'[x] = "sent")
  PROVE  ToolFrame /\ \A r \in Rpcs : r[1] # x[1] => at'[r] = at[r]
BY DEF ToolFrame, Keeps, Kept

LEMMA SilentFrame ==
  ASSUME ChildSame, BoxSame, out' = out, target' = target, at' = at
  PROVE  ToolFrame
BY DEF ToolFrame

LEMMA KeptStartClaim ==
  ASSUME TypeOK, IInv, NEW s \in Starters, StartClaim(s)
  PROVE  IInv'
<1>0. /\ pc[s] = "idle" /\ ChildSame /\ BoxSame
      /\ UNCHANGED <<ctx, aim, out, target>>
      /\ Keeps(StartOf(s)) /\ PcKeeps(s) /\ AimKeeps(s)
      /\ pc'[s] \in {"start", "done"} /\ at'[StartOf(s)] \in {at[StartOf(s)], "sent"}
      /\ pc'[s] = "done" => at' = at
      /\ s \in Calls /\ s \in Killers /\ s \notin Users /\ s \in Procs
  BY StepStartClaim, Own, Requests DEF AimKeeps
<1>1. /\ at[StartOf(s)] = "off" /\ at[TerminateOf(s)] = "off" /\ at[ReleaseOf(s)] = "off"
  BY <1>0 DEF IInv, Tool, CallsOnce
<1>2. ToolFrame /\ (\A r \in Rpcs : r[1] # s => at'[r] = at[r])
      /\ at'[TerminateOf(s)] = "off" /\ at'[ReleaseOf(s)] = "off"
  BY <1>0, <1>1, Own, SendFrame DEF Keeps, Kept
<1>3. CallsOnce' BY <1>0, <1>2, CallsOnceStay DEF IInv, Tool
<1>4. SlotTells'
  <2>1. slot' = s => (~filled' /\ pc'[s] = "start") \/ slot = s
    BY StepStartClaim
  <2>2. slot' # s => slot' = slot /\ filled' = filled BY StepStartClaim
  <2>3. slot = s => filled /\ os[s] # "none"
    BY <1>0, Requests DEF IInv, Tool, SlotTells
  <2>4. slot = s => filled' = filled /\ slot' = slot
    BY <1>0, StepStartClaim, Requests
  <2>5. slot \in Calls \cup {NoProc} BY Types, Requests DEF CallTypes
  <2> QED BY <1>0, <2>1, <2>2, <2>3, <2>4, <2>5
          DEF IInv, Tool, SlotTells, ChildSame, PcKeeps
<1>5. StartsAwaited' BY <1>0, <1>1, <1>2, StartsStay DEF IInv, Tool
<1>6. ClosesLaunched' BY <1>0, <1>2, ClosesStay DEF IInv, Tool
<1>7. WaitsTell' BY <1>0, <1>2, WaitsStay DEF IInv, Tool
<1>8. NoStrandedProcess'
  <2>1. \A p \in Procs : slot = p => slot' = p BY StepStartClaim, Requests
  <2>2. \A p : ~Closing(s, p) BY <1>0, <1>1 DEF Closing, ReleaseOf
  <2>3. \A t \in Starters : Orphaned(t) => Orphaned(t)' BY <1>0 DEF Orphaned
  <2> QED BY <1>0, <1>2, <2>1, <2>2, <2>3, StrandedStay DEF IInv
<1> QED BY <1>2, <1>3, <1>4, <1>5, <1>6, <1>7, <1>8, ToolQueues, ToolChild
        DEF IInv, Tool

LEMMA KeptStartFill ==
  ASSUME TypeOK, IInv, NEW s \in Starters, StartFill(s)
  PROVE  IInv'
<1>0. /\ pc[s] = "start" /\ at[StartOf(s)] = "answered" /\ out[StartOf(s)] = "ok"
      /\ ChildSame /\ BoxSame /\ UNCHANGED <<ctx, slot, out, target>>
      /\ Keeps(TerminateOf(s)) /\ PcKeeps(s) /\ AimKeeps(s)
      /\ \/ slot = s /\ filled' = TRUE /\ pc'[s] = "done" /\ at' = at
         \/ /\ slot # s /\ filled' = filled /\ pc'[s] = "terminate" /\ aim'[s] = s
            /\ at'[TerminateOf(s)] = "sent"
      /\ s \in Calls /\ s \in Killers /\ s \notin Users /\ s \in Procs
  BY StepStartFill, Own, Requests
<1>1. /\ at[TerminateOf(s)] = "off" /\ at[ReleaseOf(s)] = "off" /\ os[s] # "none"
  BY <1>0 DEF IInv, Tool, CallsOnce, Child, LaunchedOnce
<1>2. /\ ToolFrame /\ \A r \in Rpcs : r[1] # s => at'[r] = at[r]
      /\ at'[StartOf(s)] = "answered" /\ at'[ReleaseOf(s)] = "off"
  BY <1>0, <1>1, Own, SendFrame DEF Keeps, Kept
<1>3. CallsOnce' BY <1>0, <1>2, CallsOnceStay DEF IInv, Tool
<1>4. SlotTells'
  <2>1. slot \in Calls \cup {NoProc} BY Types, Requests DEF CallTypes
  <2> QED BY <1>0, <1>1, <2>1 DEF IInv, Tool, SlotTells, ChildSame, PcKeeps
<1>5. StartsAwaited' BY <1>0, <1>2, StartsStay DEF IInv, Tool
<1>6. ClosesLaunched' BY <1>0, <1>1, <1>2, ClosesStay DEF IInv, Tool, ChildSame
<1>7. WaitsTell' BY <1>0, <1>2, WaitsStay DEF IInv, Tool
<1>8. NoStrandedProcess'
  <2>1. \A p : ~Closing(s, p) BY <1>0, <1>1 DEF Closing, ReleaseOf
  <2>2. slot' = s \/ Closing(s, s)' BY <1>0 DEF Closing
  <2>3. \A t \in Starters : Orphaned(t) => Orphaned(t)' BY <1>0 DEF Orphaned
  <2> QED BY <1>0, <1>2, <2>1, <2>2, <2>3, StrandedStay DEF IInv
<1> QED BY <1>2, <1>3, <1>4, <1>5, <1>6, <1>7, <1>8, ToolQueues, ToolChild
        DEF IInv, Tool

LEMMA KeptStartFails ==
  ASSUME TypeOK, IInv, NEW s \in Starters, StartFails(s)
  PROVE  IInv'
<1>0. /\ pc[s] = "start" /\ ChildSame /\ BoxSame
      /\ UNCHANGED <<filled, aim, at, out, target>>
      /\ slot' = (IF slot = s THEN NoProc ELSE slot) /\ pc'[s] = "done"
      /\ PcKeeps(s) /\ AimKeeps(s)
      /\ \A t \in Starters : t # s => ctx'[StartOf(t)] = ctx[StartOf(t)]
      /\ \/ at[StartOf(s)] = "answered" /\ out[StartOf(s)] # "ok" /\ ctx' = ctx
         \/ Orphaned(s)'
      /\ s \in Calls /\ s \in Killers /\ s \notin Users /\ s \in Procs
  BY StepStartFails, Own, Requests DEF AimKeeps, Orphaned, StartOf
<1>1. at[ReleaseOf(s)] = "off" /\ (os[s] = "none" \/ out[StartOf(s)] = "ok")
  BY <1>0 DEF IInv, Tool, CallsOnce, Child, LaunchedOnce
<1>2. ToolFrame /\ \A r \in Rpcs : r[1] # s => at'[r] = at[r]
  BY <1>0, SilentFrame
<1>3. CallsOnce' BY <1>0, <1>2, CallsOnceStay DEF IInv, Tool
<1>4. SlotTells'
  <2>1. slot \in Calls \cup {NoProc} BY Types, Requests DEF CallTypes
  <2> QED BY <1>0, <2>1 DEF IInv, Tool, SlotTells, ChildSame, PcKeeps
<1>5. StartsAwaited' BY <1>0, <1>2, StartsStay DEF IInv, Tool
<1>6. ClosesLaunched' BY <1>0, <1>1, <1>2, ClosesStay DEF IInv, Tool
<1>7. WaitsTell' BY <1>0, <1>2, WaitsStay DEF IInv, Tool
<1>8. NoStrandedProcess'
  <2>1. \A p : ~Closing(s, p) BY <1>0, <1>1 DEF Closing, ReleaseOf
  <2>2. \A t \in Starters : Orphaned(t) => Orphaned(t)' BY <1>0 DEF Orphaned, StartOf
  <2>3. os[s] = "running" => Orphaned(s)' BY <1>0, <1>1
  <2>4. \A p \in Procs : slot = p => slot' = p \/ p = s BY <1>0
  <2> QED BY <1>0, <1>2, <2>1, <2>2, <2>3, <2>4, StrandedStay DEF IInv
<1> QED BY <1>2, <1>3, <1>4, <1>5, <1>6, <1>7, <1>8, ToolQueues, ToolChild
        DEF IInv, Tool

LEMMA KeptUse ==
  ASSUME TypeOK, IInv, NEW c \in Users, NEW m \in Uses, Use(c, m)
  PROVE  IInv'
<1>0. /\ pc[c] = "idle" /\ ChildSame /\ BoxSame
      /\ UNCHANGED <<ctx, slot, filled, out, target>>
      /\ Keeps(<<c, m>>) /\ PcKeeps(c) /\ AimKeeps(c)
      /\ \/ /\ slot # NoProc /\ filled /\ aim'[c] = slot /\ pc'[c] = m
            /\ at'[<<c, m>>] = "sent"
         \/ pc'[c] = "done" /\ aim' = aim /\ at' = at
      /\ c \in Calls /\ c \notin Killers /\ c \notin Starters /\ c \notin Procs
      /\ m # "idle" /\ m # "drop" 
  <2>1. c \in Calls /\ c \notin Killers /\ c \notin Starters /\ c \notin Procs
    BY Own
  <2>2. m # "idle" /\ m # "drop" BY DEF Uses
  <2> QED BY <2>1, <2>2, StepUse
<1>1. \A n \in Uses : at[<<c, n>>] = "off" BY <1>0 DEF IInv, Tool, CallsOnce
<1>2. ToolFrame /\ \A r \in Rpcs : r[1] # c => at'[r] = at[r]
  BY <1>0, <1>1, SendFrame
<1>3. CallsOnce' BY <1>0, <1>2, CallsOnceStay DEF IInv, Tool
<1>4. SlotTells'
  <2>1. slot \in Calls \cup {NoProc} /\ slot \in Procs \cup {NoProc}
    BY Types, Requests DEF CallTypes
  <2> QED BY <1>0, <2>1, Own DEF IInv, Tool, SlotTells, ChildSame, PcKeeps
<1>5. StartsAwaited' BY <1>0, <1>2, StartsStay DEF IInv, Tool
<1>6. ClosesLaunched' BY <1>0, <1>2, ClosesStay DEF IInv, Tool
<1>7. WaitsTell' 
  <2>1. WaitOf(c) = <<c, "wait">> /\ at[WaitOf(c)] = "off" /\ out[WaitOf(c)] # "ok"
    BY <1>1 DEF WaitOf, Uses, IInv, Tool, WaitsTell
  <2>2. WaitOf(c) \in Rpcs /\ (at'[WaitOf(c)] # "off" => aim'[c] = slot /\ at'[WaitOf(c)] = "sent" /\ slot # NoProc /\ filled)
    BY <1>0, <2>1, Own DEF Keeps, Kept
  <2>3. slot \in Procs \cup {NoProc} BY Types, Requests DEF CallTypes
  <2>4. slot # NoProc /\ filled => slot \in Procs /\ os'[slot] # "none"
    BY <1>0, <2>3 DEF IInv, Tool, SlotTells, ChildSame
  <2> QED BY <1>0, <1>2, <2>1, <2>2, <2>4, WaitsStay DEF IInv, Tool
<1>8. NoStrandedProcess'
  <2>1. \A t \in Starters : Orphaned(t) => Orphaned(t)' BY <1>0 DEF Orphaned, StartOf
  <2> QED BY <1>0, <1>2, <2>1, StrandedStay DEF IInv
<1> QED BY <1>2, <1>3, <1>4, <1>5, <1>6, <1>7, <1>8, ToolQueues, ToolChild
        DEF IInv, Tool

LEMMA KeptUseReturns ==
  ASSUME TypeOK, IInv, NEW c \in Users, NEW m \in Uses, UseReturns(c, m)
  PROVE  IInv'
<1>0. /\ ChildSame /\ BoxSame
      /\ UNCHANGED <<slot, filled, aim, at, out, target>>
      /\ pc[c] # "start" /\ pc'[c] = "done" /\ PcKeeps(c) /\ AimKeeps(c)
      /\ \A s \in Starters : ctx'[StartOf(s)] = ctx[StartOf(s)]
      /\ c \in Calls /\ c \notin Killers /\ c \notin Starters /\ c \notin Procs
  BY StepUseReturns, Own, Requests DEF AimKeeps, StartCtxSame, Orphaned, StartOf, Uses
<1>2. ToolFrame /\ \A r \in Rpcs : r[1] # c => at'[r] = at[r]
  BY <1>0, SilentFrame
<1>3. CallsOnce' BY <1>0, <1>2, CallsOnceStay DEF IInv, Tool
<1>4. SlotTells'
  <2>1. slot \in Calls \cup {NoProc} /\ slot \in Procs \cup {NoProc}
    BY Types, Requests DEF CallTypes
  <2> QED BY <1>0, <2>1, Own DEF IInv, Tool, SlotTells, ChildSame, PcKeeps
<1>5. StartsAwaited' BY <1>0, <1>2, StartsStay DEF IInv, Tool
<1>6. ClosesLaunched' BY <1>0, <1>2, ClosesStay DEF IInv, Tool
<1>7. WaitsTell' 
  <2>1. os' = os BY <1>0 DEF ChildSame
  <2> QED BY <1>0, <1>2, <2>1, WaitsStay DEF IInv, Tool, WaitsTell
<1>8. NoStrandedProcess'
  <2>1. \A t \in Starters : Orphaned(t) => Orphaned(t)' BY <1>0 DEF Orphaned, StartOf
  <2> QED BY <1>0, <1>2, <2>1, StrandedStay DEF IInv
<1> QED BY <1>2, <1>3, <1>4, <1>5, <1>6, <1>7, <1>8, ToolQueues, ToolChild
        DEF IInv, Tool

LEMMA KeptWaitEnds ==
  ASSUME TypeOK, IInv, NEW c \in Users, WaitEnds(c)
  PROVE  IInv'
<1>0. /\ out[WaitOf(c)] = "ok" /\ pc[c] = "wait" /\ ChildSame /\ BoxSame
      /\ UNCHANGED <<slot, filled, aim, at, out, target, ctx>>
      /\ pc'[c] = "drop" /\ PcKeeps(c) /\ AimKeeps(c)
      /\ c \in Calls /\ c \notin Killers /\ c \notin Starters /\ c \notin Procs
  BY StepWaitEnds, Own, Requests DEF AimKeeps, StartCtxSame, Orphaned, StartOf
<1>2. ToolFrame /\ \A r \in Rpcs : r[1] # c => at'[r] = at[r]
  BY <1>0, SilentFrame
<1>3. CallsOnce' BY <1>0, <1>2, CallsOnceStay DEF IInv, Tool
<1>4. SlotTells'
  <2>1. slot \in Calls \cup {NoProc} /\ slot \in Procs \cup {NoProc}
    BY Types, Requests DEF CallTypes
  <2> QED BY <1>0, <2>1, Own DEF IInv, Tool, SlotTells, ChildSame, PcKeeps
<1>5. StartsAwaited' BY <1>0, <1>2, StartsStay DEF IInv, Tool
<1>6. ClosesLaunched' BY <1>0, <1>2, ClosesStay DEF IInv, Tool
<1>7. WaitsTell' 
  <2>1. os' = os BY <1>0 DEF ChildSame
  <2> QED BY <1>0, <1>2, <2>1, WaitsStay DEF IInv, Tool, WaitsTell
<1>8. NoStrandedProcess'
  <2>1. \A t \in Starters : Orphaned(t) => Orphaned(t)' BY <1>0 DEF Orphaned, StartOf
  <2> QED BY <1>0, <1>2, <2>1, StrandedStay DEF IInv
<1> QED BY <1>2, <1>3, <1>4, <1>5, <1>6, <1>7, <1>8, ToolQueues, ToolChild
        DEF IInv, Tool

LEMMA KeptWaitDrops ==
  ASSUME TypeOK, IInv, NEW c \in Users, WaitDrops(c)
  PROVE  IInv'
<1>0. /\ pc[c] = "drop" /\ ChildSame /\ BoxSame
      /\ UNCHANGED <<filled, aim, at, out, target, ctx>>
      /\ slot' = (IF slot = aim[c] THEN NoProc ELSE slot)
      /\ pc'[c] = "done" /\ PcKeeps(c) /\ AimKeeps(c)
      /\ c \in Calls /\ c \notin Killers /\ c \notin Starters /\ c \notin Procs
  BY StepWaitDrops, Own, Requests DEF AimKeeps, StartCtxSame, Orphaned, StartOf
<1>2. ToolFrame /\ \A r \in Rpcs : r[1] # c => at'[r] = at[r]
  BY <1>0, SilentFrame
<1>3. CallsOnce' BY <1>0, <1>2, CallsOnceStay DEF IInv, Tool
<1>4. SlotTells'
  <2>1. slot \in Calls \cup {NoProc} /\ slot \in Procs \cup {NoProc}
    BY Types, Requests DEF CallTypes
  <2> QED BY <1>0, <2>1, Own DEF IInv, Tool, SlotTells, ChildSame, PcKeeps
<1>5. StartsAwaited' BY <1>0, <1>2, StartsStay DEF IInv, Tool
<1>6. ClosesLaunched' BY <1>0, <1>2, ClosesStay DEF IInv, Tool
<1>7. WaitsTell' 
  <2>1. os' = os BY <1>0 DEF ChildSame
  <2> QED BY <1>0, <1>2, <2>1, WaitsStay DEF IInv, Tool, WaitsTell
<1>8. NoStrandedProcess'
  <2>1. \A t \in Starters : Orphaned(t) => Orphaned(t)' BY <1>0 DEF Orphaned, StartOf
  <2>2. Leaving(aim[c]) BY <1>0 DEF IInv, Tool, WaitsTell
  <2>3. \A p \in Procs : os[p] = "running" /\ slot = p => slot' = p \/ Stopped(p)
    BY <1>0, <2>2 DEF Leaving
  <2> QED BY <1>0, <1>2, <2>1, <2>3, StrandedStay DEF IInv
<1> QED BY <1>2, <1>3, <1>4, <1>5, <1>6, <1>7, <1>8, ToolQueues, ToolChild
        DEF IInv, Tool

LEMMA KeptClose ==
  ASSUME TypeOK, IInv, NEW c \in Closers, Close(c)
  PROVE  IInv'
<1>0. /\ pc[c] = "idle" /\ slot' = NoProc /\ ChildSame /\ BoxSame
      /\ UNCHANGED <<ctx, filled, out, target>>
      /\ Keeps(TerminateOf(c)) /\ PcKeeps(c)
      /\ AimKeeps(c) /\ aim'[c] = slot
      /\ \/ /\ slot # NoProc /\ filled /\ pc'[c] = "terminate"
            /\ at'[TerminateOf(c)] = "sent"
         \/ ~(slot # NoProc /\ filled) /\ pc'[c] = "done" /\ at' = at
      /\ c \in Calls /\ c \in Killers /\ c \notin Users /\ c \notin Starters /\ c \notin Procs
  BY StepClose, Own, Requests DEF AimKeeps, StartCtxSame, Orphaned, StartOf
<1>1. at[TerminateOf(c)] = "off" /\ at[ReleaseOf(c)] = "off"
  BY <1>0 DEF IInv, Tool, CallsOnce
<1>2. /\ ToolFrame /\ \A r \in Rpcs : r[1] # c => at'[r] = at[r]
      /\ at'[ReleaseOf(c)] = "off"
  BY <1>0, <1>1, Own, SendFrame DEF Keeps, Kept
<1>3. CallsOnce' BY <1>0, <1>2, CallsOnceStay DEF IInv, Tool
<1>4. SlotTells'
  BY <1>0 DEF SlotTells
<1>5. StartsAwaited' BY <1>0, <1>2, StartsStay DEF IInv, Tool
<1>6. ClosesLaunched' 
  <2>1. slot \in Procs \cup {NoProc} BY Types, Requests DEF CallTypes
  <2>2. pc'[c] = "terminate" => slot \in Procs /\ os'[slot] # "none"
    BY <1>0, <2>1 DEF IInv, Tool, SlotTells, ChildSame
  <2> QED BY <1>0, <1>2, <2>2, ClosesStay DEF IInv, Tool
<1>7. WaitsTell' BY <1>0, <1>2, WaitsStay DEF IInv, Tool
<1>8. NoStrandedProcess'
  <2>1. \A t \in Starters : Orphaned(t) => Orphaned(t)' BY <1>0 DEF Orphaned, StartOf
  <2>2. \A p : ~Closing(c, p) BY <1>0, <1>1 DEF Closing, ReleaseOf
  <2>3. \A p \in Procs : slot = p => pc'[p] = "start" \/ Closing(c, p)'
    <3> SUFFICES ASSUME NEW p \in Procs, slot = p
                 PROVE  pc'[p] = "start" \/ Closing(c, p)'
      OBVIOUS
    <3>1. CASE filled BY <1>0, <3>1, Requests DEF Closing
    <3>2. CASE ~filled
      <4>1. pc[p] = "start" /\ p # c /\ p \in Calls
        BY <1>0, <3>2, Requests DEF IInv, Tool, SlotTells
      <4> QED BY <1>0, <4>1 DEF PcKeeps
    <3> QED BY <3>1, <3>2
  <2> QED BY <1>0, <1>2, <2>1, <2>2, <2>3, StrandedStay DEF IInv
<1> QED BY <1>2, <1>3, <1>4, <1>5, <1>6, <1>7, <1>8, ToolQueues, ToolChild
        DEF IInv, Tool

LEMMA KeptCloseReleases ==
  ASSUME TypeOK, IInv, NEW c \in Killers, CloseReleases(c)
  PROVE  IInv'
<1>0. /\ pc[c] = "terminate" /\ ChildSame /\ BoxSame
      /\ UNCHANGED <<slot, filled, aim, out, target>>
      /\ Keeps(ReleaseOf(c)) /\ PcKeeps(c) /\ AimKeeps(c)
      /\ pc'[c] = "release" /\ at'[ReleaseOf(c)] = "sent"
      /\ \A s \in Starters : ctx'[StartOf(s)] = ctx[StartOf(s)]
      /\ c \in Calls /\ c \in Killers /\ c \notin Users
  BY StepCloseReleases, Own, Requests DEF AimKeeps, StartCtxSame, Orphaned, StartOf
<1>1. at[ReleaseOf(c)] = "off" BY <1>0 DEF IInv, Tool, CallsOnce
<1>2. /\ ToolFrame /\ \A r \in Rpcs : r[1] # c => at'[r] = at[r]
  BY <1>0, <1>1, Own, SendFrame
<1>3. CallsOnce' BY <1>0, <1>2, CallsOnceStay DEF IInv, Tool
<1>4. SlotTells'
  <2>1. slot \in Calls \cup {NoProc} /\ slot \in Procs \cup {NoProc}
    BY Types, Requests DEF CallTypes
  <2> QED BY <1>0, <2>1, Own DEF IInv, Tool, SlotTells, ChildSame, PcKeeps
<1>5. StartsAwaited' 
  <2>1. c \in Starters => at'[StartOf(c)] = at[StartOf(c)] /\ (Orphaned(c) => Orphaned(c)')
    BY <1>0, Own DEF Keeps, Kept, Orphaned, StartOf
  <2> QED BY <1>0, <1>2, <2>1, StartsStay DEF IInv, Tool, StartsAwaited
<1>6. ClosesLaunched' 
  <2>1. aim[c] \in Procs /\ os'[aim[c]] # "none"
    BY <1>0 DEF IInv, Tool, ClosesLaunched, ChildSame
  <2> QED BY <1>0, <1>2, <2>1, ClosesStay DEF IInv, Tool
<1>7. WaitsTell' BY <1>0, <1>2, WaitsStay DEF IInv, Tool
<1>8. NoStrandedProcess'
  <2>1. \A t \in Starters : Orphaned(t) => Orphaned(t)' BY <1>0 DEF Orphaned, StartOf
  <2>2. \A p : Closing(c, p) => Closing(c, p)' BY <1>0 DEF Closing
  <2> QED BY <1>0, <1>2, <2>1, <2>2, StrandedStay DEF IInv
<1> QED BY <1>2, <1>3, <1>4, <1>5, <1>6, <1>7, <1>8, ToolQueues, ToolChild
        DEF IInv, Tool

LEMMA KeptCloseReturns ==
  ASSUME TypeOK, IInv, NEW c \in Killers, CloseReturns(c)
  PROVE  IInv'
<1>0. /\ pc[c] = "release" /\ ChildSame /\ BoxSame
      /\ UNCHANGED <<slot, filled, aim, at, out, target, ctx>>
      /\ pc'[c] = "done" /\ PcKeeps(c) /\ AimKeeps(c)
      /\ c \in Calls /\ c \in Killers /\ c \notin Users
  BY StepCloseReturns, Own, Requests DEF AimKeeps, StartCtxSame, Orphaned, StartOf
<1>2. ToolFrame /\ \A r \in Rpcs : r[1] # c => at'[r] = at[r]
  BY <1>0, SilentFrame
<1>3. CallsOnce' BY <1>0, <1>2, CallsOnceStay DEF IInv, Tool
<1>4. SlotTells'
  <2>1. slot \in Calls \cup {NoProc} /\ slot \in Procs \cup {NoProc}
    BY Types, Requests DEF CallTypes
  <2> QED BY <1>0, <2>1, Own DEF IInv, Tool, SlotTells, ChildSame, PcKeeps
<1>5. StartsAwaited' 
  <2>1. c \in Starters => at'[StartOf(c)] = at[StartOf(c)] /\ (Orphaned(c) => Orphaned(c)')
    BY <1>0 DEF Orphaned
  <2> QED BY <1>0, <1>2, <2>1, StartsStay DEF IInv, Tool, StartsAwaited
<1>6. ClosesLaunched' 
  <2>1. bound' = bound /\ os' = os BY <1>0 DEF ChildSame
  <2> QED BY <1>0, <1>2, <2>1, ClosesStay DEF IInv, Tool, ClosesLaunched
<1>7. WaitsTell' BY <1>0, <1>2, WaitsStay DEF IInv, Tool
<1>8. NoStrandedProcess'
  <2>1. \A t \in Starters : Orphaned(t) => Orphaned(t)' BY <1>0 DEF Orphaned, StartOf
  <2>2. ASSUME NEW p \in Procs, Closing(c, p)
        PROVE  Closing(c, p)' \/ Stopped(p) \/ ~bound \/ os[p] # "running"
    <3>1. aim[c] = p BY <2>2 DEF Closing
    <3>2. CASE at[ReleaseOf(c)] = "sent" BY <1>0, <3>1, <3>2 DEF Closing, ReleaseOf
    <3>3. CASE at[ReleaseOf(c)] # "sent"
      <4>1. ~bound \/ Leaving(p)
        BY <1>0, <3>1, <3>3 DEF IInv, Tool, ClosesLaunched
      <4> QED BY <4>1 DEF Leaving
    <3> QED BY <3>2, <3>3
  <2> QED BY <1>0, <1>2, <2>1, <2>2, StrandedStay DEF IInv
<1> QED BY <1>2, <1>3, <1>4, <1>5, <1>6, <1>7, <1>8, ToolQueues, ToolChild
        DEF IInv, Tool

-----------------------------------------------------------------------------
(* The invariant                                                          *)

\* Nothing was called yet.
LEMMA InitInv == Init => TypeOK /\ IInv
<1> SUFFICES ASSUME Init PROVE TypeOK /\ IInv
  OBVIOUS
<1>0. TypeOK BY TypeInit
<1>1. /\ \A r \in Rpcs : at[r] = "off" /\ out[r] = "none"
      /\ \A c \in Calls : pc[c] = "idle"
      /\ \A p \in Procs : os[p] = "none" /\ mbox[p] = <<>> /\ cur[p] = NoRpc
      /\ \A k \in Stoppers : step[k] = "none" /\ victim[k] = NoProc
      /\ table = NoProc /\ reserved = NoProc /\ slot = NoProc /\ bound
  BY DEF Init
<1>2. \A p \in Procs : ~Stopped(p) BY <1>1, Requests DEF Stopped
<1>3. Child
  <2>1. OneLaunch BY <1>1, Requests, Own DEF OneLaunch
  <2>2. LaunchedOnce BY <1>1, <1>2, Requests, Own DEF LaunchedOnce
  <2>3. StoppersHold BY <1>1, Requests, Apart DEF StoppersHold
  <2>4. ServerOwnsProcess BY <1>1, <1>2, Requests DEF ServerOwnsProcess
  <2> QED BY <2>1, <2>2, <2>3, <2>4 DEF Child
<1>4. Queues BY <1>1, Requests DEF Queues, InBox
<1>5. Tool
  <2>1. CallsOnce BY <1>1, Own, Requests DEF CallsOnce
  <2>2. SlotTells BY <1>1 DEF SlotTells
  <2>3. StartsAwaited BY <1>1, Own DEF StartsAwaited
  <2>4. ClosesLaunched BY <1>1, Own DEF ClosesLaunched
  <2>5. WaitsTell BY <1>1, Own DEF WaitsTell
  <2> QED BY <2>1, <2>2, <2>3, <2>4, <2>5 DEF Tool
<1>6. NoStrandedProcess BY <1>1 DEF NoStrandedProcess
<1> QED BY <1>0, <1>3, <1>4, <1>5, <1>6 DEF IInv

LEMMA KnownToChild ==
  ASSUME TypeOK, IInv, ChildNext
  PROVE  IInv'
<1>0. Child /\ Queues /\ Tool /\ NoStrandedProcess BY DEF IInv
<1>1. /\ RequestsMove /\ BoxMoves /\ \A p \in Procs : ProcAges(p)
      /\ ToolSame /\ StartCtxSame /\ (bound' => bound)
  BY <1>0, ChildMoves, BoxesMove, ProcsAge, ChildRest
<1>2. Child' BY <1>0, ChildStep DEF Next, Tool
<1>3. Queues' BY <1>0, <1>1, ChildQueues
<1>4. CallsOnce' BY <1>0, <1>1, ChildCallsOnce DEF Tool
<1>5. SlotTells' BY <1>0, <1>1, ChildSlot DEF Tool
<1>6. StartsAwaited' BY <1>0, <1>1, ChildStarts DEF Tool
<1>7. ClosesLaunched' BY <1>0, <1>1, ChildCloses DEF Tool
<1>8. WaitsTell' BY <1>0, <1>1, ChildWaits DEF Tool
<1>9. NoStrandedProcess' BY <1>0, <1>1, <1>7, ChildStranded DEF Tool
<1> QED BY <1>2, <1>3, <1>4, <1>5, <1>6, <1>7, <1>8, <1>9 DEF IInv, Tool

LEMMA KnownToTool ==
  ASSUME TypeOK, IInv, ToolNext
  PROVE  IInv'
BY KeptStartClaim, KeptStartFill, KeptStartFails, KeptUse, KeptUseReturns,
   KeptWaitEnds, KeptWaitDrops, KeptClose, KeptCloseReleases, KeptCloseReturns
DEF ToolNext

LEMMA KnownStutters ==
  ASSUME IInv, UNCHANGED vars
  PROVE  IInv'
<1>0. /\ UNCHANGED <<slot, filled, pc, aim, at, out, ctx, target, bound, table,
                     reserved, os, mbox, cur, step, victim, due>>
  BY DEF vars, toolVars, rpcVars, actorVars, procVars, tableVars, stopVars
<1>1. ToolFrame BY <1>0 DEF ToolFrame, ChildSame, BoxSame
<1>2. Child' /\ Queues' BY <1>1, ToolChild, ToolQueues DEF IInv
<1>3. CallsOnce' BY <1>0 DEF IInv, Tool, CallsOnce
<1>4. SlotTells' BY <1>0 DEF IInv, Tool, SlotTells
<1>5. StartsAwaited' BY <1>0 DEF IInv, Tool, StartsAwaited, Orphaned
<1>6. ClosesLaunched' BY <1>0 DEF IInv, Tool, ClosesLaunched, Leaving, Stopped
<1>7. WaitsTell' BY <1>0 DEF IInv, Tool, WaitsTell, Leaving, Stopped
<1>8. NoStrandedProcess'
  BY <1>0 DEF IInv, NoStrandedProcess, Orphaned, Stopped, Closing
<1> QED BY <1>2, <1>3, <1>4, <1>5, <1>6, <1>7, <1>8 DEF IInv, Tool

\* The table gains an entry only when it has none.
LEMMA TableOfChild ==
  ASSUME TypeOK, Child, Queues, ChildNext
  PROVE  table' # table => table = NoProc \/ table' = NoProc
<1> DEFINE Free == table' # table => table = NoProc \/ table' = NoProc
<1>1. ASSUME NEW s \in Starters, StartReserves(s) PROVE Free
  BY <1>1, StepStartReserves DEF ChildSame, TookEntry
<1>2. ASSUME NEW s \in Starters, StartLaunchFails(s) PROVE Free
  BY <1>2, StepStartLaunchFails DEF ChildSame, TookEntry
<1>3. ASSUME NEW s \in Starters, StartRegisters(s) PROVE Free
  <2>1. table = NoProc BY <1>3, StepStartRegisters, Requests DEF Child, OneLaunch
  <2> QED BY <2>1
<1>4. ASSUME NEW r \in ActorRpcs, CancelLands(r) PROVE Free
  BY <1>4, StepCancelLands DEF ChildSame, TookEntry
<1>5. ASSUME NEW r \in ActorRpcs, OpArrives(r) PROVE Free
  BY <1>5, StepOpArrives DEF ChildSame, TookEntry
<1>6. ASSUME NEW r \in ActorRpcs, InlineReadEnds(r) PROVE Free
  BY <1>6, StepInlineReadEnds DEF ChildSame, TookEntry
<1>7. ASSUME NEW r \in ActorRpcs, Enqueue(r) PROVE Free
  BY <1>7, StepEnqueue DEF ChildSame, TookEntry
<1>8. ASSUME NEW r \in ActorRpcs, Abandon(r) PROVE Free
  BY <1>8, StepAbandon DEF ChildSame, TookEntry
<1>9. ASSUME NEW c \in Killers, ReleaseArrives(c) PROVE Free
  BY <1>9, StepReleaseArrives DEF ChildSame, TookEntry
<1>10. ASSUME NEW p \in Procs, Pop(p) PROVE Free
  BY <1>10, StepPop DEF ChildSame, TookEntry
<1>11. ASSUME NEW p \in Procs, Arm(p) PROVE Free
  BY <1>11, StepArm DEF ChildSame, TookEntry
<1>12. ASSUME NEW p \in Procs, Finish(p) PROVE Free
  BY <1>12, StepFinish DEF ChildSame, TookEntry
<1>13. ASSUME NEW p \in Procs, ProcessExits(p) PROVE Free
  BY <1>13, StepProcessExits DEF ChildSame, TookEntry
<1>14. ASSUME NEW p \in Procs, ExitPublished(p) PROVE Free
  BY <1>14, StepExitPublished DEF ChildSame, TookEntry
<1>15. ASSUME ReaperLists PROVE Free
  BY <1>15, StepReaperLists DEF ChildSame, TookEntry
<1>16. ASSUME ReaperTakes PROVE Free
  BY <1>16, StepReaperTakes DEF ChildSame, TookEntry
<1>17. ASSUME Unbind PROVE Free
  BY <1>17, StepUnbind DEF ChildSame, TookEntry
<1>18. ASSUME UnbindSweeps PROVE Free
  BY <1>18, StepUnbindSweeps DEF ChildSame, TookEntry
<1>19. ASSUME NEW k \in Stoppers, StopMarks(k) PROVE Free
  BY <1>19, StepStopMarks DEF ChildSame, TookEntry
<1>20. ASSUME NEW k \in Stoppers, StopSends(k) PROVE Free
  BY <1>20, StepStopSends DEF ChildSame, TookEntry
<1>21. ASSUME NEW k \in Stoppers, StopKills(k) PROVE Free
  BY <1>21, StepStopKills DEF ChildSame, TookEntry
<1> QED
  BY <1>1, <1>2, <1>3, <1>4, <1>5, <1>6, <1>7, <1>8, <1>9, <1>10, <1>11,
     <1>12, <1>13, <1>14, <1>15, <1>16, <1>17, <1>18, <1>19, <1>20, <1>21
  DEF ChildNext, StartHandler, OpHandler, Actor, Stopping

\* A request that a step of the tool touches goes out.
LEMMA ToolSends ==
  ASSUME TypeOK, ToolNext
  PROVE  \A r \in Rpcs : at'[r] # at[r] => at'[r] = "sent"
<1> SUFFICES ASSUME NEW r \in Rpcs, at'[r] # at[r] PROVE at'[r] = "sent"
  OBVIOUS
<1>1. ASSUME NEW s \in Starters, StartClaim(s) PROVE at'[r] = "sent"
  BY <1>1, StepStartClaim DEF Keeps, Kept
<1>2. ASSUME NEW s \in Starters, StartFill(s) PROVE at'[r] = "sent"
  BY <1>2, StepStartFill DEF Keeps, Kept
<1>3. ASSUME NEW s \in Starters, StartFails(s) PROVE at'[r] = "sent"
  BY <1>3, StepStartFails DEF Keeps, Kept
<1>4. ASSUME NEW c \in Users, NEW m \in Uses, Use(c, m) PROVE at'[r] = "sent"
  BY <1>4, StepUse DEF Keeps, Kept
<1>5. ASSUME NEW c \in Users, NEW m \in Uses, UseReturns(c, m) PROVE at'[r] =
     "sent"
  BY <1>5, StepUseReturns DEF Keeps, Kept
<1>6. ASSUME NEW c \in Users, WaitEnds(c) PROVE at'[r] = "sent"
  BY <1>6, StepWaitEnds DEF Keeps, Kept
<1>7. ASSUME NEW c \in Users, WaitDrops(c) PROVE at'[r] = "sent"
  BY <1>7, StepWaitDrops DEF Keeps, Kept
<1>8. ASSUME NEW c \in Closers, Close(c) PROVE at'[r] = "sent"
  BY <1>8, StepClose DEF Keeps, Kept
<1>9. ASSUME NEW c \in Killers, CloseReleases(c) PROVE at'[r] = "sent"
  BY <1>9, StepCloseReleases DEF Keeps, Kept
<1>10. ASSUME NEW c \in Killers, CloseReturns(c) PROVE at'[r] = "sent"
  BY <1>10, StepCloseReturns DEF Keeps, Kept
<1> QED
  BY <1>1, <1>2, <1>3, <1>4, <1>5, <1>6, <1>7, <1>8, <1>9, <1>10
  DEF ToolNext

\* Only the kill answers a release that took a process.
LEMMA ReleaseOfChild ==
  ASSUME TypeOK, Child, Queues, ChildNext, NEW d \in Killers,
         at[ReleaseOf(d)] = "stopping", at'[ReleaseOf(d)] = "answered"
  PROVE  os'[victim[ReleaseOf(d)]] = "exited"
<1> DEFINE IsDead == os'[victim[ReleaseOf(d)]] = "exited"
<1>0. ReleaseOf(d) \in Rpcs BY Own
<1>1. ASSUME NEW s \in Starters, StartReserves(s) PROVE IsDead
  BY <1>1, <1>0, StepStartReserves, Apart DEF Keeps, Kept
<1>2. ASSUME NEW s \in Starters, StartLaunchFails(s) PROVE IsDead
  BY <1>2, <1>0, StepStartLaunchFails, Apart DEF Keeps, Kept
<1>3. ASSUME NEW s \in Starters, StartRegisters(s) PROVE IsDead
  BY <1>3, <1>0, StepStartRegisters, Apart DEF Keeps, Kept
<1>4. ASSUME NEW r \in ActorRpcs, CancelLands(r) PROVE IsDead
  BY <1>4, StepCancelLands
<1>5. ASSUME NEW r \in ActorRpcs, OpArrives(r) PROVE IsDead
  BY <1>5, <1>0, StepOpArrives, Apart DEF Keeps, Kept
<1>6. ASSUME NEW r \in ActorRpcs, InlineReadEnds(r) PROVE IsDead
  BY <1>6, <1>0, StepInlineReadEnds, Apart DEF Keeps, Kept
<1>7. ASSUME NEW r \in ActorRpcs, Enqueue(r) PROVE IsDead
  BY <1>7, <1>0, StepEnqueue, Apart DEF Keeps, Kept
<1>8. ASSUME NEW r \in ActorRpcs, Abandon(r) PROVE IsDead
  BY <1>8, <1>0, StepAbandon, Apart DEF Keeps, Kept
<1>9. ASSUME NEW c \in Killers, ReleaseArrives(c) PROVE IsDead
  BY <1>9, <1>0, StepReleaseArrives, Apart DEF Keeps, Kept
<1>10. ASSUME NEW p \in Procs, Pop(p) PROVE IsDead
  BY <1>10, <1>0, StepPop, Apart DEF ActorAnswers, Keeps, Kept
<1>11. ASSUME NEW p \in Procs, Arm(p) PROVE IsDead
  BY <1>11, StepArm
<1>12. ASSUME NEW p \in Procs, Finish(p) PROVE IsDead
  BY <1>12, <1>0, StepFinish, Apart DEF ActorAnswers, Keeps, Kept
<1>13. ASSUME NEW p \in Procs, ProcessExits(p) PROVE IsDead
  BY <1>13, StepProcessExits
<1>14. ASSUME NEW p \in Procs, ExitPublished(p) PROVE IsDead
  BY <1>14, StepExitPublished
<1>15. ASSUME ReaperLists PROVE IsDead
  BY <1>15, StepReaperLists
<1>16. ASSUME ReaperTakes PROVE IsDead
  BY <1>16, StepReaperTakes
<1>17. ASSUME Unbind PROVE IsDead
  BY <1>17, StepUnbind
<1>18. ASSUME UnbindSweeps PROVE IsDead
  BY <1>18, StepUnbindSweeps
<1>19. ASSUME NEW k \in Stoppers, StopMarks(k) PROVE IsDead
  BY <1>19, StepStopMarks
<1>20. ASSUME NEW k \in Stoppers, StopSends(k) PROVE IsDead
  BY <1>20, StepStopSends
<1>21. ASSUME NEW k \in Stoppers, StopKills(k) PROVE IsDead
  <2>1. CASE k = ReleaseOf(d)
    <3>1. victim[k] \in Procs
      BY <1>21, StepStopKills, Types DEF Child, StoppersHold, StopTypes
    <3> QED BY <1>21, <2>1, <3>1, StepStopKills
  <2>2. CASE k # ReleaseOf(d) BY <1>21, <1>0, <2>2, StepStopKills DEF Keeps, Kept
  <2> QED BY <2>1, <2>2
<1> QED
  BY <1>1, <1>2, <1>3, <1>4, <1>5, <1>6, <1>7, <1>8, <1>9, <1>10, <1>11,
     <1>12, <1>13, <1>14, <1>15, <1>16, <1>17, <1>18, <1>19, <1>20, <1>21
  DEF ChildNext, StartHandler, OpHandler, Actor, Stopping

\* The invariant of the exec session: TypeOK and what every part knows of the
\* others (execd/server_processes.go, tools/exec/session.go).
THEOREM Invariance == Spec => [](TypeOK /\ IInv)
<1>1. Init => TypeOK /\ IInv BY InitInv
<1>2. TypeOK /\ IInv /\ [Next]_vars => TypeOK' /\ IInv'
  BY TypeStep, KnownToChild, KnownToTool, KnownStutters DEF Next
<1> QED BY <1>1, <1>2, PTL DEF Spec

\* A running process is in the table of the child, or in the hands of exactly
\* one stopEntry (server_processes.go:103); and whatever starts, closes of a
\* claim and late waits interleave, the tool never loses the last reference to
\* it (tools/exec/session.go:213).
THEOREM ProcessesAreKept == Spec => []ProcessesKept
<1>1. TypeOK /\ IInv => ProcessesKept BY DEF IInv, Child, ProcessesKept
<1> QED BY <1>1, Invariance, PTL

\* The reservation keeps a start from registering over an entry
\* (server_processes.go:133-160).
THEOREM StartsFindFreeSlot == Spec => [][RegistersIntoFreeSlot]_vars
<1>1. TypeOK /\ IInv /\ [Next]_vars => [RegistersIntoFreeSlot]_vars
  <2> SUFFICES ASSUME TypeOK, IInv, [Next]_vars PROVE RegistersIntoFreeSlot
    OBVIOUS
  <2>1. CASE ToolNext
    <3>1. table' = table
      BY <2>1, StepStartClaim, StepStartFill, StepStartFails, StepUse,
         StepUseReturns, StepWaitEnds, StepWaitDrops, StepClose,
         StepCloseReleases, StepCloseReturns DEF ToolNext, ChildSame
    <3> QED BY <3>1 DEF RegistersIntoFreeSlot
  <2>2. CASE ChildNext
    BY <2>2, TableOfChild DEF RegistersIntoFreeSlot, IInv
  <2>3. CASE UNCHANGED vars
    BY <2>3 DEF RegistersIntoFreeSlot, vars, tableVars
  <2> QED BY <2>1, <2>2, <2>3 DEF Next
<1> QED BY <1>1, Invariance, PTL DEF Spec

\* A release that took a process answers only when it was killed
\* (stopEntry, server_processes.go:539).
THEOREM ReleasesKill == Spec => [][ReleaseLeavesNothing]_vars
<1>1. TypeOK /\ IInv /\ [Next]_vars => [ReleaseLeavesNothing]_vars
  <2> SUFFICES ASSUME TypeOK, IInv, [Next]_vars, NEW c \in Killers,
                      at[ReleaseOf(c)] = "stopping", at'[ReleaseOf(c)] = "answered"
               PROVE  os'[victim[ReleaseOf(c)]] = "exited"
    BY DEF ReleaseLeavesNothing, ReleaseOf
  <2>1. CASE ToolNext
    <3>1. \A r \in Rpcs : at'[r] # at[r] => at'[r] = "sent"
      BY <2>1, ToolSends
    <3> QED BY <3>1, Own
  <2>2. CASE ChildNext BY <2>2, ReleaseOfChild DEF IInv
  <2>3. CASE UNCHANGED vars BY <2>3 DEF vars, rpcVars
  <2> QED BY <2>1, <2>2, <2>3 DEF Next
<1> QED BY <1>1, Invariance, PTL DEF Spec

\* An id passes on over an empty slot, and from a dead process.
THEOREM HandoversAreClean == Spec => HandoverIsClean
<1>1. [RegistersIntoFreeSlot]_vars /\ [ReleaseLeavesNothing]_vars
        => [RegistersIntoFreeSlot /\ ReleaseLeavesNothing]_vars
  OBVIOUS
<1> QED BY <1>1, StartsFindFreeSlot, ReleasesKill, PTL DEF HandoverIsClean
=============================================================================
