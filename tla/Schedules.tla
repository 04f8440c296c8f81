----------------------------- MODULE Schedules -----------------------------
(***************************************************************************)
(* When an automation runs next (automations/recurrence.go, model.go):     *)
(* the scans that look for the next occurrence, as the code scans, beside  *)
(* what the four modes promise; and a task whose trigger the scheduler     *)
(* moves and whose schedule is saved again.                                *)
(*                                                                         *)
(* Time is counted in clock readings, DayLen of them a day; time 0 is      *)
(* 00:00 of a Monday. Changes of the clock (DST) are left out.             *)
(***************************************************************************)
EXTENDS Integers, FiniteSets, FiniteSetsExt

CONSTANTS DayLen,      \* readings of a clock that are told apart
          Lookahead,   \* maxHourlyLookahead, maxDailyLookahead, maxWeeklyLookahead
          Inputs,      \* bound: the schedules that are saved
          Horizon,     \* bound: how long time passes
          MaxSaves     \* bound: edits

VARIABLES now, sched,  \* the stored schedule
          nextRun,     \* NextRunAt
          since,       \* when nextRun was computed
          saves

vars == <<now, sched, nextRun, since, saves>>

NoTime == -1
Day(t) == t \div DayLen
Weekday(t) == Day(t) % 7
WeekStart(t) == (Day(t) - Weekday(t)) * DayLen
EveryDay == 0 .. 6

\* recurrence: weekly takes an interval below one for one.
recurrenceFromSchedule(s) ==
    CASE s.type = "hourly" ->
           [freq |-> "hourly", interval |-> s.every,
            days |-> IF s.days = {} THEN EveryDay ELSE s.days]
      [] s.type = "daily" ->
           [freq |-> "daily", interval |-> 1, at |-> s.at, days |-> EveryDay]
      [] s.type = "weekdays" ->
           [freq |-> "daily", interval |-> 1, at |-> s.at, days |-> 0 .. 4]
      [] s.type = "weekly" ->
           [freq |-> "weekly", interval |-> Max({1, s.every}), at |-> s.at,
            days |-> s.days, origin |-> s.origin]

\* A scan gives the first of its candidates, in their order, that is after
\* the anchor and on a day of the rule.
Scan(r, after, indexes, Candidate(_)) ==
    LET hits == {k \in indexes : /\ Candidate(k) > after
                                 /\ Weekday(Candidate(k)) \in r.days}
    IN  IF hits = {} THEN NoTime ELSE Candidate(Min(hits))

NextHourly(r, after) ==
    LET at(k) == after + k * r.interval
    IN  Scan(r, after, {k \in 1 .. Lookahead : k * r.interval < Lookahead}, at)

NextDaily(r, after) ==
    LET at(k) == (Day(after) + k * r.interval) * DayLen + r.at
    IN  Scan(r, after,
             {k \in 0 .. Lookahead : k * r.interval * DayLen <= Lookahead}, at)

\* On-weeks are counted from the Monday of origin; the seven days of each.
NextWeekly(r, after) ==
    LET start(k) == WeekStart(r.origin) + (k \div 7) * r.interval * 7 * DayLen
        at(k) == start(k) + (k % 7) * DayLen + r.at
    IN  Scan(r, after, {k \in 0 .. after + Lookahead :
                          start(k) < after + Lookahead}, at)

NextAfter(s, after) ==
    LET r == recurrenceFromSchedule(s)
    IN  CASE r.freq = "hourly" -> NextHourly(r, after)
          [] r.freq = "daily" -> NextDaily(r, after)
          [] r.freq = "weekly" -> NextWeekly(r, after)

\* A weekly schedule that has no origin is anchored to this day.
ensureOrigin(s) ==
    IF s.type = "weekly" /\ s.origin = NoTime
    THEN [s EXCEPT !.origin = Day(now) * DayLen] ELSE s

-----------------------------------------------------------------------------
\* SaveTask, of a task of the window or of the tool, whose NextRunAt is zero:
\* an omitted origin is the stored one; a schedule without a next run is
\* refused.
Save(s) ==
    /\ saves < MaxSaves /\ saves' = saves + 1
    /\ sched' = ensureOrigin(IF s.origin = NoTime
                             THEN [s EXCEPT !.origin = sched.origin] ELSE s)
    /\ nextRun' = NextAfter(sched', now) /\ nextRun' # NoTime /\ since' = now
    /\ UNCHANGED now

Passes == /\ now < Horizon /\ now' = now + 1
          /\ UNCHANGED <<sched, nextRun, since, saves>>

\* Tick at its task. Whether the occurrence is run or was missed, the
\* trigger moves; one that cannot be computed is pushed a day out.
Tick ==
    /\ nextRun <= now
    /\ LET n == NextAfter(sched, now)
       IN  nextRun' = IF n = NoTime THEN now + DayLen ELSE n
    /\ since' = now /\ UNCHANGED <<now, sched, saves>>

\* A task was saved at time 0.
Init ==
    /\ now = 0 /\ since = 0 /\ saves = 0
    /\ \E s \in Inputs :
        /\ sched = IF s.type = "weekly" /\ s.origin = NoTime
                   THEN [s EXCEPT !.origin = 0] ELSE s
        /\ nextRun = NextAfter(sched, 0) /\ nextRun # NoTime

Next == Passes \/ Tick \/ \E s \in Inputs : Save(s)

Spec == Init /\ [][Next]_vars

-----------------------------------------------------------------------------
(* Properties                                                               *)

\* What the modes promise, without a scan: t is a time of schedule s, whose
\* hours are counted from anchor.
Promised(s, anchor, t) ==
    CASE s.type = "hourly" ->
           /\ (t - anchor) % s.every = 0
           /\ s.days # {} => Weekday(t) \in s.days
      [] s.type = "daily" -> t % DayLen = s.at
      [] s.type = "weekdays" -> t % DayLen = s.at /\ Weekday(t) < 5
      [] s.type = "weekly" ->
           /\ t % DayLen = s.at /\ Weekday(t) \in s.days
           /\ t >= WeekStart(s.origin)
           /\ s.every > 1 =>
                (Day(t) \div 7 - Day(s.origin) \div 7) % s.every = 0

\* The trigger is a time the schedule promises, ahead of the moment it was
\* computed at, and no promised time lies between (recurrence.go, next). Only
\* an hourly rule that never meets its days from here, and a weekly one whose
\* next on-week is beyond the look-ahead, waits one day: no promised time is
\* nearer than the look-ahead.
NextIsFirst ==
    \/ /\ nextRun > since /\ Promised(sched, since, nextRun)
       /\ \A t \in since + 1 .. nextRun - 1 : ~Promised(sched, since, t)
    \/ /\ sched.type \in {"hourly", "weekly"} /\ nextRun = since + DayLen
       /\ \A k \in 1 .. Lookahead - 1 : ~Promised(sched, since, since + k)

\* Saving a weekly task again, without naming an origin, does not move its
\* on-weeks (store.go:128).
PhaseKept ==
    sched.type = "weekly" /\ sched'.type = "weekly" =>
        sched'.origin \in {sched.origin} \cup {s.origin : s \in Inputs}
=============================================================================
