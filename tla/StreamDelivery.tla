---------------------------- MODULE StreamDelivery ----------------------------
(***************************************************************************)
(* How the text of turns and of the runs they delegate reaches the window: *)
(* the registry of live sinks, the closing of a sink when its turn is      *)
(* over, the buffer that folds adjacent deltas, the barrier every other    *)
(* event is, and the reload of the window's document.                      *)
(*   source: internal/adapters/desktop/core/stream.go, shell.go,           *)
(*           streams.go, reload_window.go, bindings/conversation.go,       *)
(*           internal/capabilities/subagents/streams.go                    *)
(* All turns are of one conversation. A delta is <<who emitted it, its     *)
(* number>>; streamBuffer.mu is held across one action.                    *)
(***************************************************************************)
EXTENDS Naturals, Sequences, FiniteSets, SequencesExt

CONSTANTS Turns,      \* calls of StartTurn on the conversation
          Workers,    \* delegated runs that outlive their caller
          Impatient,  \* turns whose caller may give up its Wait
          NoTurn,
          Kinds,      \* the kinds of a delta: "tool" is a boundary, others are text
          MaxDeltas,  \* bound: deltas between reloads
          MaxFirings, \* bound: timer callbacks that wait for the lock at once
          MaxFolded,  \* streamMaxDeltas, and streamMaxBytes
          MaxReloads  \* bound: reloads of the document

VARIABLES
  registered,  \* StreamTargets.sinks: the conversation's sink, by its turn
  closed,      \* the sinks that were closed
  newest,      \* the turn that registered last (history)
  tpc,         \* a turn's step
  wpc, sink,   \* a worker's step and the sink it resolved; a turn is a worker
               \* of its own sink once its caller has left it
  sent,        \* deltas an emitter has emitted
  pending,     \* streamBuffer.pending
  folded,      \* streamBuffer.folded
  timer,       \* streamBuffer.timer: nil, armed, or fired and not yet cleared
  firing,      \* timer callbacks that wait for the lock
  wire,        \* what the window was given
  arrived,     \* deltas in the order EmitStream took them (history)
  late,        \* deltas emitted so through a closed sink (history)
  rpc, live,   \* the reload's step and the runs it found live
  dropped, reloads

turnVars == <<registered, closed, newest, tpc>>
workerVars == <<wpc, sink, late>>
bufVars == <<sent, pending, folded, timer, wire, arrived>>
reloadVars == <<rpc, live, dropped, reloads>>
vars == <<turnVars, workerVars, bufVars, firing, reloadVars>>

Emitters == Turns \cup Workers

Init ==
  /\ registered = NoTurn /\ closed = {} /\ newest = NoTurn
  /\ tpc = [t \in Turns |-> "idle"]
  /\ wpc = [e \in Emitters |-> "idle"] /\ sink = [e \in Emitters |-> NoTurn]
  /\ late = [e \in Emitters |-> 0]
  /\ sent = [e \in Emitters |-> 0]
  /\ pending = << >> /\ folded = 0 /\ timer = "nil" /\ firing = 0
  /\ wire = << >> /\ arrived = << >>
  /\ rpc = "idle" /\ live = {} /\ dropped = {} /\ reloads = 0

----------------------------------------------------------------------------
(* The buffer. *)

Event(e, kind, items) == [who |-> e, kind |-> kind, items |-> items]

\* flushStreamLocked: the pending entries ship in their order.
Flushed == wire \o pending
Empties == pending' = << >> /\ folded' = 0 /\ timer' = "nil"

\* Only the last entry takes a delta, of the same stream and kind.
Fold(e, kind, item) ==
  LET n == Len(pending) IN
  IF n > 0 /\ pending[n].who = e /\ pending[n].kind = kind
    THEN [pending EXCEPT ![n].items = Append(@, item)]
    ELSE Append(pending, Event(e, kind, <<item>>))

\* Shell.EmitStream. A delta that is not text is a boundary.
EmitStream(e, kind) ==
  LET item == <<e, sent[e] + 1>> IN
  /\ Len(arrived) < MaxDeltas
  /\ sent' = [sent EXCEPT ![e] = @ + 1]
  /\ arrived' = Append(arrived, item)
  /\ \/ /\ kind = "tool"
        /\ wire' = Append(Flushed, Event(e, kind, <<item>>)) /\ Empties
     \/ /\ kind # "tool" /\ folded + 1 >= MaxFolded
        /\ wire' = wire \o Fold(e, kind, item) /\ Empties
     \/ /\ kind # "tool" /\ folded + 1 < MaxFolded
        /\ pending' = Fold(e, kind, item) /\ folded' = folded + 1
        /\ timer' = (IF timer = "nil" THEN "armed" ELSE timer) /\ UNCHANGED wire

\* The window of the buffer passes; its callback may find the lock taken, and
\* a flush that stops the timer does not stop a callback that already runs.
TimerFires ==
  /\ timer = "armed" /\ firing < MaxFirings
  /\ timer' = "fired" /\ firing' = firing + 1
  /\ UNCHANGED <<turnVars, workerVars, sent, pending, folded, wire, arrived, reloadVars>>

FlushStreams ==
  /\ firing > 0 /\ firing' = firing - 1
  /\ wire' = Flushed /\ Empties
  /\ UNCHANGED <<turnVars, workerVars, sent, arrived, reloadVars>>

----------------------------------------------------------------------------
(* A turn: register, start, stream, end, release. *)

Go(t, to) == tpc' = [tpc EXCEPT ![t] = to]

\* StreamTargets.Register, before the run is started: the newest turn owns
\* the conversation's entry.
Register(t) ==
  /\ tpc[t] = "idle" /\ Go(t, "starting")
  /\ registered' = t /\ newest' = t
  /\ UNCHANGED <<closed, workerVars, bufVars, firing, reloadVars>>

\* Host.StartRun refuses, or the run starts; the turns before it are
\* preempted when it does, those their callers have left included.
TurnStarts(t) ==
  /\ tpc[t] = "starting"
  /\ \/ Go(t, "release")
     \/ (\A u \in Turns : tpc[u] # "running" /\ wpc[u] = "idle") /\ Go(t, "running")
  /\ UNCHANGED <<registered, closed, newest, workerVars, bufVars, firing, reloadVars>>

Streams(t) ==
  /\ tpc[t] = "running"
  /\ \E kind \in Kinds : EmitStream(t, kind)
  /\ UNCHANGED <<turnVars, workerVars, firing, reloadVars>>

\* The run settles and is no longer live: its stream is over,
Settles(t) ==
  /\ tpc[t] = "running" /\ Go(t, "flush")
  /\ UNCHANGED <<registered, closed, newest, workerVars, bufVars, firing, reloadVars>>

\* or the context of Wait has ended, and the turn streams on through its sink
LeavesTurn(t) ==
  /\ t \in Impatient /\ tpc[t] = "running" /\ Go(t, "flush")
  /\ wpc' = [wpc EXCEPT ![t] = "streaming"] /\ sink' = [sink EXCEPT ![t] = t]
  /\ UNCHANGED <<registered, closed, newest, late, bufVars, firing, reloadVars>>

\* until it ends too.
LeftEnds(t) ==
  /\ wpc[t] = "streaming" /\ wpc' = [wpc EXCEPT ![t] = "idle"]
  /\ UNCHANGED <<turnVars, sink, late, bufVars, firing, reloadVars>>

EmitFlushes_NoBarrier(t) ==
  /\ tpc[t] = "flush" /\ Go(t, "deliver")
  /\ UNCHANGED <<registered, closed, newest, workerVars, bufVars, firing, reloadVars>>

\* Shell.Emit(turn_end): the buffer is flushed under its lock,
EmitFlushes(t) ==
  /\ tpc[t] = "flush" /\ Go(t, "deliver")
  /\ wire' = Flushed /\ Empties
  /\ UNCHANGED <<registered, closed, newest, workerVars, sent, arrived, firing, reloadVars>>

\* and the event is delivered outside it.
EmitDelivers(t) ==
  /\ tpc[t] = "deliver" /\ Go(t, "release")
  /\ wire' = Append(wire, Event(t, "turn_end", << >>))
  /\ UNCHANGED <<registered, closed, newest, workerVars, sent, pending, folded, timer,
                 arrived, firing, reloadVars>>

\* The release removes the entry if it is still this turn's, under the lock,
Unregister(t) ==
  /\ tpc[t] = "release" /\ Go(t, "close")
  /\ registered' = IF registered = t THEN NoTurn ELSE registered
  /\ UNCHANGED <<closed, newest, workerVars, bufVars, firing, reloadVars>>

\* and closes the sink in any case.
CloseSink(t) ==
  /\ tpc[t] = "close" /\ Go(t, "done")
  /\ closed' = closed \cup {t}
  /\ UNCHANGED <<registered, newest, workerVars, bufVars, firing, reloadVars>>

----------------------------------------------------------------------------
(* A delegated run streams through the sink it resolved. *)

\* StreamTargets.Resolver: the live sink, or none.
Resolves(w) ==
  /\ wpc[w] = "idle" /\ registered # NoTurn
  /\ wpc' = [wpc EXCEPT ![w] = "streaming"]
  /\ sink' = [sink EXCEPT ![w] = registered]
  /\ UNCHANGED <<turnVars, late, bufVars, firing, reloadVars>>

\* ConversationSink.OnDelta: a closed sink drops the delta,
OnDelta(e) ==
  /\ wpc[e] = "streaming" /\ sink[e] \notin closed
  /\ wpc' = [wpc EXCEPT ![e] = "next"]
  /\ UNCHANGED <<turnVars, sink, late, bufVars, firing, reloadVars>>

\* an open one hands it on, and may have been closed since.
OnDeltaEmits(e) ==
  /\ wpc[e] = "next"
  /\ \E kind \in Kinds : EmitStream(e, kind)
  /\ wpc' = [wpc EXCEPT ![e] = "streaming"]
  /\ late' = [late EXCEPT ![e] = @ + (IF sink[e] \in closed THEN 1 ELSE 0)]
  /\ UNCHANGED <<turnVars, sink, firing, reloadVars>>

----------------------------------------------------------------------------
(* The window's document is dropped and loaded again. *)

Running == {t \in Turns : tpc[t] = "running"}

\* Core.ReloadWindow: with a live run it refuses,
ReloadChecks ==
  /\ rpc = "idle" /\ reloads < MaxReloads /\ Running = {}
  /\ rpc' = "reload" /\ live' = Running
  /\ UNCHANGED <<turnVars, workerVars, bufVars, firing, dropped, reloads>>

Items(s) == FlattenSeq([i \in DOMAIN s |-> s[i].items])

\* and otherwise the pending deltas are dropped with the old document.
ReloadClears ==
  /\ rpc = "reload" /\ rpc' = "idle"
  /\ Empties
  /\ arrived' = SubSeq(arrived, 1, Len(arrived) - Len(Items(pending)))
  /\ dropped' = dropped \cup {d[1] : d \in ToSet(Items(pending))}
  /\ reloads' = reloads + 1
  /\ UNCHANGED <<turnVars, workerVars, sent, wire, firing, live>>

Next ==
  \/ \E t \in Turns : \/ Register(t) \/ TurnStarts(t) \/ Streams(t) \/ Settles(t)
                      \/ LeavesTurn(t) \/ LeftEnds(t)
                      \/ EmitFlushes(t) \/ EmitDelivers(t)
                      \/ Unregister(t) \/ CloseSink(t)
  \/ \E w \in Workers : Resolves(w)
  \/ \E e \in Emitters : OnDelta(e) \/ OnDeltaEmits(e)
  \/ TimerFires \/ FlushStreams
  \/ ReloadChecks \/ ReloadClears

Spec == Init /\ [][Next]_vars

----------------------------------------------------------------------------
(* Properties. *)

StreamTypeOK ==
  /\ registered \in Turns \cup {NoTurn} /\ closed \subseteq Turns
  /\ newest \in Turns \cup {NoTurn}
  /\ tpc \in [Turns -> {"idle", "starting", "running", "flush", "deliver",
                        "release", "close", "done"}]
  /\ wpc \in [Emitters -> {"idle", "streaming", "next"}]
  /\ sink \in [Emitters -> Turns \cup {NoTurn}]
  /\ sent \in [Emitters -> 0 .. MaxDeltas * (MaxReloads + 1)]
  /\ folded \in 0 .. MaxFolded - 1 /\ timer \in {"nil", "armed", "fired"} /\ firing \in 0 .. MaxFirings
  /\ folded = Len(Items(pending))

(***************************************************************************)
(* "wire order equals arrival order" (stream.go:99): what the window has   *)
(* and what is buffered are the deltas in the order they were taken, of    *)
(* all streams, with nothing lost but what a reload dropped.               *)
(***************************************************************************)
ArrivalOrder == Items(wire) \o Items(pending) = arrived

\* No event carries text of two streams, and the two kinds never mix.
OneStreamPerEvent ==
  \A i \in DOMAIN (wire \o pending) :
    \A d \in ToSet((wire \o pending)[i].items) : d[1] = (wire \o pending)[i].who

\* "turn_end ... can never overtake the text it follows" (shell.go Emit): the end of a
\* turn is its last event, unless its caller left it and it streams on.
EndFollowsText ==
  \A t \in {u \in Turns : sink[u] # u} :
    \A i \in DOMAIN wire :
      wire[i].kind = "turn_end" /\ wire[i].who = t =>
        \A j \in DOMAIN (wire \o pending) :
          (wire \o pending)[j].who = t => j <= i

\* What is buffered has a timer, or its callback, on the way: "nothing can
\* outlive the turn it belongs to" (EmitStream).
BufferedIsTimed == pending # << >> => timer = "armed" \/ firing > 0

\* A delegated run that outlives its turn, or a turn that outlives its caller, writes
\* at most the one delta that had already passed the check (ConversationSink.Close).
OneLateDelta == \A e \in Emitters : late[e] <= 1

(***************************************************************************)
(* The registry names the turn that registered last, until that turn       *)
(* itself releases: the release of an older turn never removes it          *)
(* (Register), and a sink that can be resolved is open.                    *)
(***************************************************************************)
NewestIsRegistered ==
  newest # NoTurn =>
    \/ registered = newest
    \/ registered = NoTurn /\ tpc[newest] \in {"close", "done"}
ResolvedIsOpen == registered \notin closed

\* "unless a live run would lose text to the swap" (ReloadWindow): the text a
\* reload drops is never that of a turn the reload found live.
ReloadSparesLive == dropped \cap live = {}
==============================================================================
