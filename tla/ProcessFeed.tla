----------------------------- MODULE ProcessFeed -----------------------------
(***************************************************************************)
(* One tapped process of a conversation: the background drain and the      *)
(* close-time salvage read the session's output log with one cursor into   *)
(* one tail, while the process writes, the backend trims, and the feed     *)
(* evicts the entry or shuts down.                                         *)
(*   source: internal/capabilities/sandbox/processes.go                    *)
(* Output is numbered by chunk. The session is external: a read answers    *)
(* with the chunks after a cursor that it still has, up to any of them.    *)
(***************************************************************************)
EXTENDS Naturals, Sequences, SequencesExt

CONSTANTS Chunks,     \* bound: chunks the process writes
          CanTrim,    \* whether the backend may drop output nobody read
          Nobody

VARIABLES
  written, trimmed, exited, closed,   \* the session
  tail, cursor, stopped, cancelled,   \* the entry
  readMu,
  drain, drained,                     \* the drain: its step and what it read
  salvage, salvaged,                  \* the close: its step and what it read
  ended                               \* the process had ended when the close began (history)

session == <<written, trimmed, exited, closed>>
entry == <<tail, cursor, stopped, cancelled>>
drainVars == <<drain, drained>>
closeVars == <<salvage, salvaged, ended>>
vars == <<session, entry, readMu, drainVars, closeVars>>

None == [from |-> 0, upto |-> 0, eof |-> FALSE]

Init ==
  /\ written = 0 /\ trimmed = 0 /\ exited = FALSE /\ closed = FALSE
  /\ tail = <<>> /\ cursor = 0 /\ stopped = FALSE /\ cancelled = FALSE
  /\ readMu = Nobody
  /\ drain = "loop" /\ drained = None
  /\ salvage = "idle" /\ salvaged = None /\ ended = FALSE

Reads == {[from |-> cursor, upto |-> k, eof |-> exited /\ k = written] : k \in cursor .. written}
Taken(out) == [i \in 1 .. out.upto - out.from |-> out.from + i]

Stop == stopped' = TRUE /\ cancelled' = TRUE

----------------------------------------------------------------------------
(* The session. *)

Writes ==
  /\ ~exited /\ written < Chunks /\ written' = written + 1
  /\ UNCHANGED <<trimmed, exited, closed, entry, readMu, drainVars, closeVars>>

Exits ==
  /\ ~exited /\ exited' = TRUE
  /\ UNCHANGED <<written, trimmed, closed, entry, readMu, drainVars, closeVars>>

Trims ==
  /\ CanTrim /\ trimmed < written /\ trimmed' = trimmed + 1
  /\ UNCHANGED <<written, exited, closed, entry, readMu, drainVars, closeVars>>

----------------------------------------------------------------------------
(* processEntry.drain *)

DrainLocks ==
  /\ drain = "loop"
  /\ IF cancelled THEN drain' = "over" /\ UNCHANGED readMu
     ELSE /\ readMu = Nobody
          /\ IF stopped THEN drain' = "over" /\ UNCHANGED readMu
                        ELSE drain' = "read" /\ readMu' = "drain"
  /\ UNCHANGED <<session, entry, drained, closeVars>>

\* The read gives the mutex back before what it brought is appended. Nothing within
\* the window, or a cancelled one, goes round again; a gap or a closed session stops.
DrainReads ==
  /\ drain = "read" /\ readMu' = Nobody
  /\ \/ /\ closed \/ cursor < trimmed
        /\ Stop /\ drain' = "over" /\ UNCHANGED drained
     \/ /\ ~closed /\ cursor >= trimmed
        /\ \E out \in Reads :
             /\ out.eof \/ out.upto > out.from
             /\ drained' = out /\ drain' = "append"
        /\ UNCHANGED <<stopped, cancelled>>
     \/ drain' = "loop" /\ UNCHANGED <<drained, stopped, cancelled>>
  /\ UNCHANGED <<session, tail, cursor, closeVars>>

DrainAppends ==
  /\ drain = "append" /\ tail' = tail \o Taken(drained) /\ drain' = "advance"
  /\ UNCHANGED <<session, cursor, stopped, cancelled, readMu, drained, closeVars>>

DrainAdvances ==
  /\ drain = "advance" /\ cursor' = drained.upto /\ drained' = None
  /\ IF drained.eof THEN Stop /\ drain' = "over"
                    ELSE drain' = "loop" /\ UNCHANGED <<stopped, cancelled>>
  /\ UNCHANGED <<session, tail, readMu, closeVars>>

----------------------------------------------------------------------------
(* tappedSession.Close: finish, salvage, and the session's own Close. *)

CloseBegins ==
  /\ salvage = "idle" /\ Stop /\ salvage' = "read" /\ ended' = exited
  /\ UNCHANGED <<session, tail, cursor, readMu, drainVars, salvaged>>

\* A read fails at a gap, or at any time: the session's error, the end of the window
\* of one read or of the budget of them all. That ends the salvage.
SalvageReads ==
  /\ salvage = "read" /\ readMu = Nobody
  /\ \/ salvage' = "failed" /\ UNCHANGED salvaged
     \/ /\ cursor >= trimmed
        /\ \E out \in Reads :
             /\ written > cursor => out.upto > out.from
             /\ salvaged' = out /\ salvage' = "append"
  /\ UNCHANGED <<session, entry, readMu, drainVars, ended>>

SalvageAppends ==
  /\ salvage = "append" /\ tail' = tail \o Taken(salvaged) /\ salvage' = "advance"
  /\ UNCHANGED <<session, cursor, stopped, cancelled, readMu, drainVars, salvaged, ended>>

\* Variant: the salvage is one read.
SalvageAdvances_Once ==
  /\ salvage = "advance" /\ cursor' = salvaged.upto /\ salvaged' = None
  /\ salvage' = "close"
  /\ UNCHANGED <<session, tail, stopped, cancelled, readMu, drainVars, ended>>

\* It goes on until the end of the output, or a read that brings nothing.
SalvageAdvances ==
  /\ salvage = "advance" /\ cursor' = salvaged.upto /\ salvaged' = None
  /\ salvage' = IF salvaged.eof \/ salvaged.upto = salvaged.from THEN "close" ELSE "read"
  /\ UNCHANGED <<session, tail, stopped, cancelled, readMu, drainVars, ended>>

\* The handle is closed after a salvage that came to its end and after one that failed.
SessionCloses ==
  /\ \/ salvage = "close" /\ salvage' = "over"
     \/ salvage = "failed" /\ salvage' = "short"
  /\ closed' = TRUE
  /\ UNCHANGED <<written, trimmed, exited, entry, readMu, drainVars, salvaged, ended>>

\* The conversation has too many processes, or the feed closes with its runtime.
Evicts ==
  /\ ~stopped /\ Stop
  /\ UNCHANGED <<session, tail, cursor, readMu, drainVars, closeVars>>

Next ==
  \/ Writes \/ Exits \/ Trims
  \/ DrainLocks \/ DrainReads \/ DrainAppends \/ DrainAdvances
  \/ CloseBegins \/ SalvageReads \/ SalvageAppends \/ SalvageAdvances \/ SessionCloses
  \/ Evicts

Spec == Init /\ [][Next]_vars

----------------------------------------------------------------------------
(* Properties. *)

FeedTypeOK ==
  /\ trimmed <= written /\ cursor <= written /\ ToSet(tail) \subseteq 1 .. written
  /\ readMu = "drain" <=> drain = "read"

\* "a short-lived command ... still lands in the feed complete instead of racing the
\* drain" (ProcessFeed): once the handle of a process that had ended is closed, and no
\* read of the salvage failed, its whole output is in the tail, whatever the drain was
\* doing and the backend dropped. When one failed the end may be missing; the tail has
\* no hole either way (processEntry.salvage, processEntry.drain).
ClosedIsComplete ==
  /\ salvage = "over" /\ ended => 1 .. written \subseteq ToSet(tail)
  /\ \A k \in ToSet(tail) : 1 .. k \subseteq ToSet(tail)

\* processEntry: "every read goes through readMu and advances the same cursor. That
\* keeps the tail in order (a reader appends what it read, once)".
AppendedOnce == \A i \in 2 .. Len(tail) : tail[i - 1] < tail[i]
==============================================================================
