------------------------------ MODULE ExecPool ------------------------------
(***************************************************************************)
(* The pool of sandbox children (execd/pool.go) and the runners that lease *)
(* from it (execd/runner.go): leases on idle, pooled and dedicated         *)
(* children, the janitor loop that prewarms, reaps and trims, settings     *)
(* changes, Close, and the watchdog of each runner, which stops a child    *)
(* that does not answer and installs a new one.                            *)
(*                                                                         *)
(* A child is a slot of a finite set: it is used again once its process    *)
(* was stopped. launch.go starts and stops one (Launch, its stop function).*)
(***************************************************************************)
EXTENDS Naturals, Sequences, FiniteSets, SequencesExt

CONSTANTS Runners, Children, NoChild, NoRunner,
          Settings      \* the normalized settings that may be set: records
                        \* [prewarm, maxIdle, maxActive]

ASSUME ExecPoolAssumption ==
    /\ IsFiniteSet(Runners) /\ NoRunner \notin Runners /\ NoChild \notin Children
    /\ Settings \subseteq [prewarm : Nat, maxIdle : Nat, maxActive : Nat]

VARIABLES
    conf, idle, active, used, closed,   \* Pool
    retrim,         \* settingsCh holds a signal
    loop, warm,     \* the janitor's step, the child it launched
    os, boundTo,    \* per child: its process, the runner it is bound for
    pc, client, leased, pooled,         \* per runner: its step, r.client,
                    \* the child the pool handed over, withRelease was given
    ended,          \* per runner: r.closed
    wd, fresh       \* per runner: the watchdog's step, the child it launched

poolVars == <<conf, idle, active, used, closed, retrim>>
loopVars == <<loop, warm>>
childVars == <<os, boundTo>>
runnerVars == <<pc, client, leased, pooled, ended>>
watchVars == <<wd, fresh>>
vars == <<poolVars, loopVars, childVars, runnerVars, watchVars>>

RunnerSteps == {"none", "scan", "check", "take", "launch", "bind", "leased",
                "closing", "unbind", "release", "ping", "return", "drop"}

TypeOK ==
    /\ conf \in Settings /\ active \in Nat
    /\ idle \in Seq(Children)
    /\ used \in BOOLEAN /\ closed \in BOOLEAN /\ retrim \in BOOLEAN
    /\ loop \in {"wait", "prewarm", "launch", "keep", "gone"}
    /\ warm \in Children \cup {NoChild}
    /\ os \in [Children -> {"none", "up", "down"}]
    /\ boundTo \in [Children -> Runners \cup {NoRunner}]
    /\ pc \in [Runners -> RunnerSteps]
    /\ client \in [Runners -> Children \cup {NoChild}]
    /\ leased \in [Runners -> Children \cup {NoChild}]
    /\ pooled \in [Runners -> BOOLEAN] /\ ended \in [Runners -> BOOLEAN]
    /\ wd \in [Runners -> {"off", "watch", "stop", "relaunch", "install"}]
    /\ fresh \in [Runners -> Children \cup {NoChild}]

Init ==
    /\ conf \in Settings /\ idle = <<>> /\ active = 0
    /\ used = FALSE /\ closed = FALSE /\ retrim = FALSE
    /\ loop = "wait" /\ warm = NoChild
    /\ os = [c \in Children |-> "none"]
    /\ boundTo = [c \in Children |-> NoRunner]
    /\ pc = [r \in Runners |-> "none"]
    /\ client = [r \in Runners |-> NoChild]
    /\ leased = [r \in Runners |-> NoChild]
    /\ pooled = [r \in Runners |-> FALSE]
    /\ ended = [r \in Runners |-> FALSE]
    /\ wd = [r \in Runners |-> "off"]
    /\ fresh = [r \in Runners |-> NoChild]

-----------------------------------------------------------------------------
(* Children                                                                 *)

Launched(c) == os[c] = "none" /\ os' = [os EXCEPT ![c] = "up"]

\* stop(): the channel is closed and the process gone; a second call and a
\* call on no child do nothing.
StopAll(C) ==
    /\ os' = [c \in Children |-> IF c \in C THEN "none" ELSE os[c]]
    /\ boundTo' = [c \in Children |-> IF c \in C THEN NoRunner ELSE boundTo[c]]

\* A process crashes or hangs: no ping, bind or unbind is answered.
ChildFails(c) ==
    /\ os[c] = "up" /\ os' = [os EXCEPT ![c] = "down"]
    /\ UNCHANGED <<poolVars, loopVars, boundTo, runnerVars, watchVars>>

healthy(c) == c # NoChild /\ os[c] = "up"

-----------------------------------------------------------------------------
(* Lease                                                                    *)

Go(r, from, to) == pc[r] = from /\ pc' = [pc EXCEPT ![r] = to]

leaseRest == <<loopVars, watchVars, conf, used, closed, retrim, ended>>

\* A new runner; the name is free once its last watchdog is gone.
LeaseBegins(r) ==
    /\ Go(r, "none", "scan") /\ wd[r] = "off"
    /\ ended' = [ended EXCEPT ![r] = FALSE]
    /\ UNCHANGED <<poolVars, loopVars, childVars, client, leased, pooled,
                   watchVars>>

LeaseRefused(r) ==
    /\ closed /\ Go(r, "scan", "none")
    /\ UNCHANGED <<poolVars, loopVars, childVars, client, leased, pooled,
                   ended, watchVars>>

TakeIdle(r) ==
    /\ ~closed /\ idle # <<>> /\ Go(r, "scan", "check")
    /\ client' = [client EXCEPT ![r] = Last(idle)] /\ idle' = Front(idle)
    /\ UNCHANGED <<active, childVars, leased, pooled, leaseRest>>

\* Outside the lock: a child past its TTL or deaf to a ping is stopped, and
\* the next one is looked at.
CheckIdle(r) ==
    /\ \/ /\ Go(r, "check", "scan") /\ StopAll({client[r]})
          /\ client' = [client EXCEPT ![r] = NoChild]
       \/ /\ healthy(client[r]) /\ Go(r, "check", "take")
          /\ UNCHANGED <<client, childVars>>
    /\ UNCHANGED <<idle, active, leased, pooled, leaseRest>>

\* The cap is not looked at here.
KeepIdle(r) ==
    /\ IF closed
       THEN /\ Go(r, "take", "none") /\ StopAll({client[r]})
            /\ client' = [client EXCEPT ![r] = NoChild]
            /\ UNCHANGED <<active, pooled>>
       ELSE /\ Go(r, "take", "bind") /\ active' = active + 1
            /\ pooled' = [pooled EXCEPT ![r] = TRUE]
            /\ UNCHANGED <<client, childVars>>
    /\ UNCHANGED <<idle, leased, leaseRest>>

\* No idle child: a pooled launch takes its slot first, a dedicated one none.
LeaseLaunches(r) ==
    /\ ~closed /\ idle = <<>> /\ Go(r, "scan", "launch")
    /\ pooled' = [pooled EXCEPT ![r] = active < conf.maxActive]
    /\ active' = IF active < conf.maxActive THEN active + 1 ELSE active
    /\ UNCHANGED <<idle, childVars, client, leased, leaseRest>>

dropSlot(r) == active' = IF pooled[r] /\ active > 0 THEN active - 1 ELSE active

LaunchEnds(r) ==
    /\ \/ \E c \in Children :
            /\ Launched(c) /\ Go(r, "launch", "bind")
            /\ client' = [client EXCEPT ![r] = c]
            /\ UNCHANGED <<active, pooled, boundTo>>
       \/ /\ Go(r, "launch", "none") /\ dropSlot(r)
          /\ pooled' = [pooled EXCEPT ![r] = FALSE]
          /\ UNCHANGED <<client, childVars>>
    /\ UNCHANGED <<idle, leased, leaseRest>>

\* NewRemoteRunner: the child is bound and its watchdog runs, or the child
\* is stopped and the slot comes back. A lease that succeeded arms the
\* janitor (signalWarm).
BindEnds(r) ==
    /\ \/ /\ healthy(client[r]) /\ Go(r, "bind", "leased")
          /\ boundTo' = [boundTo EXCEPT ![client[r]] = r]
          /\ leased' = [leased EXCEPT ![r] = client[r]]
          /\ wd' = [wd EXCEPT ![r] = "watch"] /\ used' = TRUE
          /\ UNCHANGED <<client, os, active, pooled>>
       \/ /\ Go(r, "bind", "none") /\ StopAll({client[r]}) /\ dropSlot(r)
          /\ client' = [client EXCEPT ![r] = NoChild]
          /\ pooled' = [pooled EXCEPT ![r] = FALSE]
          /\ UNCHANGED <<leased, wd, used>>
    /\ UNCHANGED <<idle, loopVars, fresh, conf, closed, retrim, ended>>

-----------------------------------------------------------------------------
(* The watchdog                                                             *)

watchRest == <<poolVars, loopVars, pc, pooled, ended>>

\* maxFailures pings in a row went unanswered: restart drops the child
\* first, unless the runner was closed meanwhile.
WatchdogDrops(r) ==
    /\ wd[r] = "watch" /\ ~ended[r]
    /\ client[r] # NoChild /\ ~healthy(client[r])
    /\ fresh' = [fresh EXCEPT ![r] = client[r]]
    /\ client' = [client EXCEPT ![r] = NoChild]
    /\ wd' = [wd EXCEPT ![r] = "stop"]
    /\ UNCHANGED <<leased, childVars, watchRest>>

WatchdogStops(r) ==
    /\ wd[r] = "stop" /\ StopAll({fresh[r]})
    /\ leased' = [leased EXCEPT ![r] = IF @ = fresh[r] THEN NoChild ELSE @]
    /\ fresh' = [fresh EXCEPT ![r] = NoChild]
    /\ wd' = [wd EXCEPT ![r] = "relaunch"]
    /\ UNCHANGED <<client, watchRest>>

\* The backoff is over: a child is launched and answers the probe; or the
\* attempts are used up, or watchStop was closed meanwhile.
WatchdogRelaunches(r) ==
    /\ wd[r] = "relaunch"
    /\ \/ \E c \in Children :
            /\ Launched(c) /\ fresh' = [fresh EXCEPT ![r] = c]
            /\ wd' = [wd EXCEPT ![r] = "install"]
       \/ wd' = [wd EXCEPT ![r] = "off"] /\ UNCHANGED <<fresh, os>>
    /\ UNCHANGED <<client, leased, boundTo, watchRest>>

\* Variant: the new child is installed without a look at closed.
WatchdogInstalls_Blind(r) ==
    /\ wd[r] = "install"
    /\ fresh' = [fresh EXCEPT ![r] = NoChild]
    /\ client' = [client EXCEPT ![r] = fresh[r]]
    /\ wd' = [wd EXCEPT ![r] = "watch"]
    /\ UNCHANGED <<leased, childVars, watchRest>>

\* Install and the look at closed are one critical section.
WatchdogInstalls(r) ==
    /\ wd[r] = "install"
    /\ fresh' = [fresh EXCEPT ![r] = NoChild]
    /\ IF ended[r]
       THEN /\ StopAll({fresh[r]}) /\ wd' = [wd EXCEPT ![r] = "off"]
            /\ UNCHANGED client
       ELSE /\ client' = [client EXCEPT ![r] = fresh[r]]
            /\ wd' = [wd EXCEPT ![r] = "watch"] /\ UNCHANGED childVars
    /\ UNCHANGED <<leased, watchRest>>

\* watchStop: the watchdog of a closing runner ends at its next select.
WatchdogQuits(r) ==
    /\ wd[r] = "watch" /\ pc[r] # "leased" /\ wd' = [wd EXCEPT ![r] = "off"]
    /\ UNCHANGED <<client, leased, fresh, childVars, watchRest>>

\* ensureBound: the next start binds the new child.
Rebind(r) ==
    /\ pc[r] = "leased" /\ healthy(client[r])
    /\ boundTo[client[r]] = NoRunner
    /\ boundTo' = [boundTo EXCEPT ![client[r]] = r]
    /\ UNCHANGED <<os, client, leased, watchVars, watchRest>>

-----------------------------------------------------------------------------
(* RemoteRunner.Close and releaseChild                                      *)

CloseBegins(r) ==
    /\ Go(r, "leased", "closing")
    /\ UNCHANGED <<poolVars, loopVars, childVars, client, leased, pooled,
                   ended, watchVars>>

\* The watchdog is gone, or the wait for it ran out: client is taken over
\* and the runner marked closed in one critical section.
CloseTakes(r) ==
    /\ Go(r, "closing", "unbind") /\ ended' = [ended EXCEPT ![r] = TRUE]
    /\ UNCHANGED <<poolVars, loopVars, childVars, client, leased, pooled,
                   watchVars>>

\* A dedicated child, and a child the watchdog launched, is stopped here.
\* The leased child goes back to the pool; one that the watchdog is stopping
\* right now is as good as stopped, a stop function runs once.
CloseUnbinds(r) ==
    LET c == client[r]
        mine == ~pooled[r] \/ c # leased[r]
    IN  /\ Go(r, "unbind", IF pooled[r] THEN "release" ELSE "none")
        /\ \/ mine /\ StopAll({c})
           \/ /\ ~mine /\ UNCHANGED os
              /\ boundTo' = [d \in Children |->
                               IF d = c /\ healthy(d) THEN NoRunner
                               ELSE boundTo[d]]
        /\ client' = [client EXCEPT ![r] =
                        IF pooled[r] /\ leased[r] # fresh[r]
                        THEN leased[r] ELSE NoChild]
        /\ leased' = [leased EXCEPT ![r] = NoChild]
        /\ UNCHANGED <<poolVars, loopVars, pooled, ended, watchVars>>

Full == Len(idle) >= conf.maxIdle

closeRest == <<loopVars, watchVars, conf, used, closed, retrim, ended, leased>>

Discard(r, from) ==
    /\ Go(r, from, "none") /\ StopAll({client[r]})
    /\ client' = [client EXCEPT ![r] = NoChild]

ReleaseSlot(r) ==
    /\ \/ (closed \/ Full) /\ Discard(r, "release")
       \/ /\ ~(closed \/ Full) /\ Go(r, "release", "ping")
          /\ UNCHANGED <<client, childVars>>
    /\ dropSlot(r) /\ pooled' = [pooled EXCEPT ![r] = FALSE]
    /\ UNCHANGED <<idle, closeRest>>

ReleasePings(r) ==
    /\ \/ Discard(r, "ping")
       \/ /\ healthy(client[r])
          /\ Go(r, "ping", "return") /\ UNCHANGED <<client, childVars>>
    /\ UNCHANGED <<idle, active, pooled, closeRest>>

ReleaseReturns(r) ==
    /\ \/ (closed \/ Full) /\ Discard(r, "return") /\ UNCHANGED idle
       \/ /\ ~(closed \/ Full) /\ Go(r, "return", "none")
          /\ idle' = Append(idle, client[r])
          /\ client' = [client EXCEPT ![r] = NoChild] /\ UNCHANGED childVars
    /\ UNCHANGED <<active, pooled, closeRest>>

-----------------------------------------------------------------------------
(* The janitor, settings and Close of the pool                              *)

poolRest == <<runnerVars, watchVars, active, used>>

SetSettings(s) ==
    /\ s # conf /\ conf' = s /\ retrim' = (retrim \/ ~closed)
    /\ UNCHANGED <<idle, closed, loopVars, childVars, poolRest>>

\* trimIdle: the newest beyond MaxIdle go.
TrimIdle ==
    /\ loop = "wait" /\ retrim /\ retrim' = FALSE
    /\ LET n == IF Full THEN conf.maxIdle ELSE Len(idle) IN
        /\ idle' = SubSeq(idle, 1, n)
        /\ StopAll({idle[i] : i \in n + 1 .. Len(idle)})
    /\ UNCHANGED <<conf, closed, loopVars, poolRest>>

\* A tick, or a lease's signal: the children past their TTL go, except the
\* first Prewarm ones, and the loop tops the pool up. The list is in the order
\* of since, so those past it are the next ones up to some k.
Tick ==
    /\ loop = "wait" /\ loop' = "prewarm"
    /\ \/ \E k \in conf.prewarm + 1 .. Len(idle) :
            /\ idle' = SubSeq(idle, 1, conf.prewarm) \o SubSeq(idle, k + 1, Len(idle))
            /\ StopAll({idle[i] : i \in conf.prewarm + 1 .. k})
       \/ UNCHANGED <<idle, childVars>>
    /\ UNCHANGED <<conf, closed, retrim, warm, poolRest>>

Prewarm ==
    /\ loop = "prewarm"
    /\ loop' = IF /\ ~closed /\ used /\ active < conf.maxActive
                  /\ Len(idle) < conf.prewarm
               THEN "launch" ELSE "wait"
    /\ UNCHANGED <<conf, idle, closed, retrim, warm, childVars, poolRest>>

PrewarmLaunches ==
    /\ loop = "launch"
    /\ \/ \E c \in Children : Launched(c) /\ warm' = c /\ loop' = "keep"
       \/ loop' = "wait" /\ UNCHANGED <<warm, os>>
    /\ UNCHANGED <<conf, idle, closed, retrim, boundTo, poolRest>>

PrewarmKeeps ==
    /\ loop = "keep" /\ warm' = NoChild
    /\ IF closed \/ Full
       THEN loop' = "wait" /\ StopAll({warm}) /\ UNCHANGED idle
       ELSE /\ loop' = "prewarm" /\ idle' = Append(idle, warm)
            /\ UNCHANGED childVars
    /\ UNCHANGED <<conf, closed, retrim, poolRest>>

\* stopCh is closed.
LoopEnds ==
    /\ loop = "wait" /\ closed /\ loop' = "gone"
    /\ UNCHANGED <<poolVars, warm, childVars, runnerVars, watchVars>>

PoolCloses ==
    /\ ~closed /\ closed' = TRUE
    /\ idle' = <<>> /\ StopAll(ToSet(idle))
    /\ UNCHANGED <<conf, retrim, loopVars, poolRest>>

-----------------------------------------------------------------------------
Leasing(r) ==
    \/ LeaseRefused(r) \/ TakeIdle(r) \/ CheckIdle(r) \/ KeepIdle(r)
    \/ LeaseLaunches(r) \/ LaunchEnds(r) \/ BindEnds(r)
Watching(r) ==
    \/ WatchdogDrops(r) \/ WatchdogStops(r) \/ WatchdogRelaunches(r)
    \/ WatchdogInstalls(r) \/ WatchdogQuits(r)
Closing(r) ==
    \/ CloseTakes(r) \/ CloseUnbinds(r) \/ ReleaseSlot(r) \/ ReleasePings(r)
    \/ ReleaseReturns(r)
Janitor ==
    \/ TrimIdle \/ Tick \/ Prewarm \/ PrewarmLaunches \/ PrewarmKeeps
    \/ LoopEnds

Next ==
    \/ \E r \in Runners : \/ LeaseBegins(r) \/ Leasing(r) \/ Watching(r)
                          \/ Rebind(r) \/ CloseBegins(r) \/ Closing(r)
    \/ Janitor \/ PoolCloses
    \/ \E s \in Settings : SetSettings(s)
    \/ \E c \in Children : ChildFails(c)

Spec == Init /\ [][Next]_vars

-----------------------------------------------------------------------------
(* Properties                                                               *)

HoldsSlot(r) == pooled[r] /\ pc[r] # "none"

\* active counts the leases that hold a slot, so that a bind that fails, a
\* child that died while leased and a release to a closed pool give the slot
\* back exactly once (pool.go, acquire, dropSlot, releaseChild).
SlotsAccounted == active = Cardinality({r \in Runners : HoldsSlot(r)})

Owners(c) ==
    Cardinality({i \in DOMAIN idle : idle[i] = c})
    + Cardinality({r \in Runners : client[r] = c})
    + Cardinality({r \in Runners : fresh[r] = c})
    + (IF warm = c THEN 1 ELSE 0)

\* A child that runs has exactly one owner that will stop it or hand it on:
\* the idle list, one runner, one watchdog or the janitor. None leaks out of
\* Close and the watchdog racing (runner.go:390-393, "owned by nobody"), and
\* none is leased twice.
OneOwner == \A c \in Children : os[c] # "none" => Owners(c) = 1

\* The pool hands out children that no workspace is bound to.
IdleIsUnbound == \A i \in DOMAIN idle : boundTo[idle[i]] = NoRunner

\* Close emptied the pool for good: no release and no prewarm that was
\* under way puts a child back.
ClosedStaysEmpty == closed => idle = <<>>

\* The idle list is within MaxIdle, except until the janitor trims it after
\* a change of the settings.
IdleWithinMax == Len(idle) <= conf.maxIdle \/ retrim

\* Each child of the pool has one owner and the pool counts its leases,
\* whatever leases, releases, the janitor, the watchdog and Close interleave
\* (execd/pool.go, runner.go).
ChildrenAccounted ==
    /\ TypeOK /\ SlotsAccounted /\ OneOwner
    /\ IdleIsUnbound /\ ClosedStaysEmpty /\ IdleWithinMax
=============================================================================
