------------------------------- MODULE Prompts -------------------------------
(***************************************************************************)
(* The questions one turn asks the user: the broker between the runtime    *)
(* and the window's backend, the pending registry, and the turn that binds *)
(* itself after it was started and is unbound when it ends.                *)
(*   source: internal/orchestration/interact/broker.go,                    *)
(*           internal/adapters/desktop/core/prompt.go,                     *)
(*           internal/orchestration/host/run.go                            *)
(* The runtime's prompt is external: open until a reply or its end, and    *)
(* only an end is announced with PromptResolved.                           *)
(***************************************************************************)
EXTENDS Naturals

CONSTANTS Prompts,
          Clicks     \* bound: answers given in the window, doubled ones included

VARIABLES
  turn,      \* "started", "bound", "ended", "unbound"; "left": unbound and alive
  state,     \* the runtime's prompt
  announced, \* prompts whose PromptResolved is on its way
  ask,       \* the goroutine of Broker.ask
  reply,     \* what it got
  pending,   \* Prompt.pending
  ch,        \* replies in a pending prompt's channel
  taken,     \* an Answer that took the entry and has not sent yet
  reasons,   \* Broker.reasons
  window,    \* what the window shows
  dropped,   \* replies delivered to no turn, and whether the prompt was open (history)
  clicks, closed

backend == <<pending, ch, taken, window, clicks>>
broker == <<ask, reply, reasons, dropped>>
vars == <<turn, state, announced, broker, backend, closed>>

Init ==
  /\ turn = "started" /\ closed = FALSE /\ clicks = 0
  /\ state = [p \in Prompts |-> "none"] /\ announced = {}
  /\ ask = [p \in Prompts |-> "none"] /\ reply = [p \in Prompts |-> "none"]
  /\ pending = {} /\ ch = [p \in Prompts |-> 0] /\ taken = {}
  /\ reasons = {} /\ dropped = {}
  /\ window = [p \in Prompts |-> "unseen"]

To(p, s) == ask' = [ask EXCEPT ![p] = s]

----------------------------------------------------------------------------
(* The turn. *)

\* The run asks as soon as it is started; its event starts Broker.ask.
AskUser(p) ==
  /\ turn \in {"started", "bound", "left"} /\ state[p] = "none" /\ ~closed
  /\ state' = [state EXCEPT ![p] = "open"] /\ To(p, "look")
  /\ UNCHANGED <<turn, announced, reply, reasons, dropped, backend, closed>>

BindTurn ==
  /\ turn = "started" /\ turn' = "bound"
  /\ UNCHANGED <<state, announced, broker, backend, closed>>

Ended(S) ==
  /\ state' = [p \in Prompts |-> IF p \in S THEN "ended" ELSE state[p]]
  /\ announced' = announced \cup S

\* A prompt expires, or ends with its turn.
PromptEnds(p) ==
  /\ state[p] = "open" /\ Ended({p})
  /\ UNCHANGED <<turn, broker, backend, closed>>

TurnEnds ==
  /\ \/ turn = "bound" /\ turn' = "ended"
     \/ turn = "left" /\ turn' = "unbound"
  /\ Ended({p \in Prompts : state[p] = "open"})
  /\ UNCHANGED <<broker, backend, closed>>

\* The settle of the run unbinds its turn when the wait for it returns: the turn is
\* over, or it lives on and the context of who waits for it has ended.
UnbindTurn ==
  /\ \/ turn = "ended" /\ turn' = "unbound"
     \/ turn = "bound" /\ turn' = "left"
  /\ UNCHANGED <<state, announced, broker, backend, closed>>

----------------------------------------------------------------------------
(* Broker.ask and Prompt.Ask *)

AutoApproves(p) ==
  /\ ask[p] = "look" /\ To(p, "deliver") /\ reply' = [reply EXCEPT ![p] = "ok"]
  /\ UNCHANGED <<turn, state, announced, reasons, dropped, backend, closed>>

Registers(p) ==
  /\ ask[p] = "look" /\ To(p, "notify") /\ pending' = pending \cup {p}
  /\ UNCHANGED <<turn, state, announced, reply, reasons, dropped, ch, taken, window,
                 clicks, closed>>

Notifies(p) ==
  /\ ask[p] = "notify" /\ To(p, "wait")
  /\ window' = [window EXCEPT ![p] = "open"]
  /\ UNCHANGED <<turn, state, announced, reply, reasons, dropped, pending, ch, taken,
                 clicks, closed>>

Receives(p) ==
  /\ ask[p] = "wait" /\ ch[p] > 0
  /\ ch' = [ch EXCEPT ![p] = @ - 1] /\ pending' = pending \ {p}
  /\ To(p, "deliver") /\ reply' = [reply EXCEPT ![p] = "ok"]
  /\ UNCHANGED <<turn, state, announced, reasons, dropped, taken, window, clicks, closed>>

\* The context of the subscription ends: an empty reply, and why it is empty.
AskFails(p) ==
  /\ ask[p] = "wait" /\ closed
  /\ To(p, "deliver") /\ reply' = [reply EXCEPT ![p] = "cancelled"]
  /\ reasons' = reasons \cup {p} /\ pending' = pending \ {p}
  /\ UNCHANGED <<turn, state, announced, dropped, ch, taken, window, clicks, closed>>

Deliver(p) ==
  /\ ask[p] = "deliver" /\ To(p, "over")
  /\ IF turn \notin {"bound", "ended"}
       THEN /\ dropped' = dropped \cup {<<p, turn, state[p]>>}
            /\ UNCHANGED <<state, reasons>>
       ELSE IF state[p] = "open"
              THEN /\ state' = [state EXCEPT ![p] = "replied"]
                   /\ reasons' = reasons \ {p} /\ UNCHANGED dropped
              ELSE UNCHANGED <<state, reasons, dropped>>
  /\ UNCHANGED <<turn, announced, reply, backend, closed>>

----------------------------------------------------------------------------
(* The window. *)

AnswerTakes_Keeps(p) ==
  /\ clicks < Clicks /\ clicks' = clicks + 1
  /\ p \in pending /\ taken' = taken \cup {p}
  /\ UNCHANGED <<turn, state, announced, broker, pending, ch, window, closed>>

\* Answer takes the entry under the lock,
AnswerTakes(p) ==
  /\ clicks < Clicks /\ clicks' = clicks + 1
  /\ window[p] # "unseen" /\ p \in pending
  /\ pending' = pending \ {p} /\ taken' = taken \cup {p}
  /\ UNCHANGED <<turn, state, announced, broker, ch, window, closed>>

\* and sends into its channel of one outside it.
AnswerSends(p) ==
  /\ p \in taken /\ taken' = taken \ {p} /\ ch' = [ch EXCEPT ![p] = @ + 1]
  /\ UNCHANGED <<turn, state, announced, broker, pending, window, clicks, closed>>

\* onPromptResolved: the entry goes and the window hears of it; whoever waits in
\* Ask is not woken.
Resolve(p) ==
  /\ p \in announced /\ ~closed /\ announced' = announced \ {p}
  /\ reasons' = reasons \ {p} /\ pending' = pending \ {p}
  /\ window' = [window EXCEPT ![p] = "resolved"]
  /\ UNCHANGED <<turn, state, ask, reply, dropped, ch, taken, clicks, closed>>

\* The Host closes: its broker and the subscriptions' context with it, once no run is
\* registered on it.
Close ==
  /\ ~closed /\ turn \in {"unbound", "left"} /\ closed' = TRUE
  /\ UNCHANGED <<turn, state, announced, broker, backend>>

Next ==
  \/ BindTurn \/ TurnEnds \/ UnbindTurn \/ Close
  \/ \E p \in Prompts :
       \/ AskUser(p) \/ PromptEnds(p)
       \/ AutoApproves(p) \/ Registers(p) \/ Notifies(p) \/ Receives(p)
       \/ AskFails(p) \/ Deliver(p)
       \/ AnswerTakes(p) \/ AnswerSends(p) \/ Resolve(p)

Spec == Init /\ [][Next]_vars

----------------------------------------------------------------------------
(* Properties. *)

PromptsTypeOK ==
  /\ pending \cap taken = {}
  /\ \A p \in Prompts : /\ ask[p] = "none" <=> state[p] = "none"
                        /\ p \in pending => ask[p] \in {"notify", "wait"}
                        /\ window[p] = "open" => ask[p] \in {"wait", "deliver", "over"}

\* Answering a prompt never blocks the window: its channel holds one reply, and a
\* doubled click finds the entry gone (Prompt.Answer).
AnswerNeverBlocks == \A p \in Prompts : ch[p] + (IF p \in taken THEN 1 ELSE 0) <= 1

\* While the runtime waits for an answer to a prompt on screen, the answer can be
\* given, is on its way, or came while no turn was bound for it: before the bind, or
\* after the run's caller gave up (Prompt.Ask, Prompt.Answer, Broker.deliver).
OpenIsAnswerable ==
  \A p \in Prompts : window[p] = "open" /\ state[p] = "open" =>
    \/ p \in pending \/ p \in taken \/ ch[p] > 0
    \/ ask[p] = "deliver"
    \/ \E s \in {"started", "left"} : <<p, s, "open">> \in dropped

\* The reply to a prompt that is open is dropped in two cases only: it came before the
\* turn was bound, or after the caller of the run gave up and its settle unbound the
\* living turn (Broker.deliver, Run.settle).
DroppedIsLate == \A d \in dropped : d[3] = "open" => d[2] \in {"started", "left"}

\* What Broker.deliver says of every reply it drops: "The reply arrived after the
\* turn unbound: its prompt already resolved as ended".
DroppedIsOver == \A d \in dropped : d[3] # "open"
==============================================================================
