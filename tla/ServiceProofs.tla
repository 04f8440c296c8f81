---------------------------- MODULE ServiceProofs ----------------------------
(***************************************************************************)
(* The services beside the turns, for every value of their constants: the  *)
(* pool of execd children (ExecPool, this module's own), the automations   *)
(* (Automations) and the times they are due at (Schedules).  The last two  *)
(* are instances: their theorems speak of the instance alone, and of the   *)
(* constants and variables it has.                                         *)
(***************************************************************************)
EXTENDS ExecPool, FiniteSetTheorems, SequenceTheorems, WellFoundedInduction, TLAPS

CONSTANTS Tasks, NoTask, Runs, Scheduled, Limit, MaxOcc, MaxEdits, MaxCrashes,
          DayLen, Lookahead, Inputs, Horizon, MaxSaves

VARIABLES
  row, occ, next, record, pending, pendingSet, running, mgr, canceled, tick,
  todo, at, asked, rtask, rocc, ctx, res, edits, crashes,
  now, sched, nextRun, since, saves

U == INSTANCE Automations
H == INSTANCE Schedules

-----------------------------------------------------------------------------
(* ExecPool: where a live child can be, what a runner holds at each of its  *)
(* steps and which children a workspace may still be bound to.              *)

Inside == ToSet(idle)
Live(c) == os[c] # "none"

\* What a place holds is alive.
HeldLive ==
    /\ \A c \in Inside : Live(c)
    /\ \A r \in Runners : client[r] # NoChild => Live(client[r])
    /\ \A r \in Runners : fresh[r] # NoChild => Live(fresh[r])
    /\ warm # NoChild => Live(warm)

\* Two places hold different children.
Distinct(s) == \A i, j \in 1 .. Len(s) : s[i] = s[j] => i = j
IdleApart == Distinct(idle)
PlacesApart ==
    /\ \A r \in Runners : client[r] \notin Inside /\ fresh[r] \notin Inside
    /\ warm \notin Inside
    /\ \A r, s \in Runners :
          client[r] # NoChild => /\ client[r] # fresh[s] /\ client[r] # warm
                                 /\ client[r] = client[s] => r = s
    /\ \A r, s \in Runners :
          fresh[r] # NoChild => /\ fresh[r] # warm
                                /\ fresh[r] = fresh[s] => r = s

\* A live child is in some place.
LiveHeld ==
    \A c \in Children :
        Live(c) => \/ c \in Inside \/ c = warm
                   \/ \E r \in Runners : c = client[r] \/ c = fresh[r]

\* What a runner and its watchdog hold at each of their steps.
StepsFit ==
    /\ \A r \in Runners :
          /\ pc[r] \in {"none", "scan", "check", "take", "ping", "return"} => ~pooled[r]
          /\ pc[r] \in {"none", "scan", "launch"} => client[r] = NoChild
          /\ pc[r] \in {"check", "take", "bind", "return"} => client[r] # NoChild
          /\ pc[r] \in {"scan", "check", "take", "launch", "bind"} => wd[r] = "off"
          /\ pc[r] \in {"scan", "check", "take", "launch", "bind", "leased", "closing"} => ~ended[r]
          /\ wd[r] # "off" => ended[r] \/ pc[r] \in {"leased", "closing"}
          /\ wd[r] \in {"stop", "relaunch", "install"} /\ ~ended[r] => client[r] = NoChild
          /\ fresh[r] # NoChild <=> wd[r] \in {"stop", "install"}
          /\ leased[r] # NoChild =>
                /\ pc[r] \in {"leased", "closing", "unbind"}
                /\ leased[r] = client[r] \/ (leased[r] = fresh[r] /\ wd[r] = "stop")
    /\ warm # NoChild <=> loop = "keep"

\* A workspace is bound only to a child that is leased, dead or about to be
\* stopped.
Unbound(c) == boundTo[c] = NoRunner
BoundFit ==
    /\ \A c \in Children : ~Live(c) => Unbound(c)
    /\ \A c \in Inside : Unbound(c)
    /\ warm # NoChild => Unbound(warm)
    /\ \A r \in Runners :
          /\ pc[r] \in {"check", "take", "bind", "return"} => Unbound(client[r])
          /\ pc[r] \in {"release", "ping"} /\ client[r] # NoChild =>
                Unbound(client[r]) \/ os[client[r]] = "down"

IInv ==
    /\ TypeOK /\ HeldLive /\ IdleApart /\ PlacesApart /\ LiveHeld
    /\ StepsFit /\ BoundFit
    /\ SlotsAccounted /\ ClosedStaysEmpty /\ IdleWithinMax

-----------------------------------------------------------------------------
(* The idle list: what taking, appending and cutting leave of it.          *)

\* Elements of a sequence by their positions.
LEMMA Elements ==
  ASSUME NEW S, NEW s \in Seq(S)
  PROVE  /\ \A c : c \in ToSet(s) <=> \E i \in 1 .. Len(s) : s[i] = c
         /\ ToSet(s) \subseteq S
<1>1. ToSet(s) = {s[i] : i \in 1 .. Len(s)} BY LenProperties DEF ToSet
<1>2. \A i \in 1 .. Len(s) : s[i] \in S BY ElementOfSeq
<1> QED BY <1>1, <1>2

\* A stretch of a sequence, from m to n.
LEMMA Stretch ==
  ASSUME NEW S, NEW s \in Seq(S),
         NEW m \in 1 .. Len(s) + 1, NEW n \in m - 1 .. Len(s)
  PROVE  /\ SubSeq(s, m, n) \in Seq(S) /\ Len(SubSeq(s, m, n)) = n - m + 1
         /\ \A i \in 1 .. n - m + 1 : SubSeq(s, m, n)[i] = s[m + i - 1]
<1>1. Len(s) \in Nat BY LenProperties
<1>2. m \in Int /\ n \in Int /\ \A i \in m .. n : i \in 1 .. Len(s) BY <1>1
<1>3. \A i \in m .. n : s[i] \in S BY <1>2, ElementOfSeq
<1>4. /\ SubSeq(s, m, n) \in Seq(S)
      /\ Len(SubSeq(s, m, n)) = IF m <= n THEN n - m + 1 ELSE 0
      /\ \A i \in 1 .. n - m + 1 : SubSeq(s, m, n)[i] = s[m + i - 1]
  <2> HIDE DEF ToSet
  <2> QED BY <1>2, <1>3, SubSeqProperties
<1>5. (IF m <= n THEN n - m + 1 ELSE 0) = n - m + 1 BY <1>1
<1> QED BY <1>4, <1>5

\* acquire takes the freshest idle child.
LEMMA TakeLast ==
  ASSUME NEW S, NEW s \in Seq(S), Distinct(s), s # <<>>
  PROVE  /\ Front(s) \in Seq(S) /\ Distinct(Front(s)) /\ Len(Front(s)) <= Len(s)
         /\ Last(s) \in ToSet(s) /\ ToSet(Front(s)) = ToSet(s) \ {Last(s)}
<1>1. Len(s) \in Nat /\ Len(s) > 0 BY EmptySeq, LenProperties
<1> DEFINE n == Len(s) - 1
           f == Front(s)
<1>2. /\ f \in Seq(S) /\ Len(f) = n /\ \A i \in 1 .. n : f[i] = s[i]
  <2>1. 1 \in 1 .. Len(s) + 1 /\ n \in 1 - 1 .. Len(s) BY <1>1
  <2>2. /\ SubSeq(s, 1, n) \in Seq(S) /\ Len(SubSeq(s, 1, n)) = n - 1 + 1
        /\ \A i \in 1 .. n - 1 + 1 : SubSeq(s, 1, n)[i] = s[1 + i - 1]
    BY <2>1, Stretch
  <2>3. n - 1 + 1 = n /\ \A i \in 1 .. n : 1 + i - 1 = i BY <1>1
  <2> QED BY <2>2, <2>3 DEF Front
<1>3. Last(s) = s[Len(s)] /\ Len(s) \in 1 .. Len(s) BY <1>1 DEF Last
<1>4. n <= Len(s) /\ \A i \in 1 .. n : i \in 1 .. Len(s) /\ i # Len(s)
  BY <1>1
<1>5. \A i \in 1 .. Len(s) : i # Len(s) => i \in 1 .. n BY <1>1
<1> HIDE DEF n, f
<1>6. Distinct(f) BY <1>2, <1>4 DEF Distinct
<1>7. \A c : c \in ToSet(f) <=> c \in ToSet(s) /\ c # Last(s)
  <2>1. \A c : c \in ToSet(f) <=> \E i \in 1 .. n : s[i] = c
    BY <1>2, Elements
  <2>2. \A c : c \in ToSet(s) <=> \E i \in 1 .. Len(s) : s[i] = c
    BY Elements
  <2> QED BY <1>3, <1>4, <1>5, <2>1, <2>2 DEF Distinct
<1>8. Last(s) \in ToSet(s) BY <1>3, Elements
<1> QED BY <1>2, <1>4, <1>6, <1>7, <1>8 DEF f

\* A child that comes back or was prewarmed goes to the end.
LEMMA PutLast ==
  ASSUME NEW S, NEW s \in Seq(S), Distinct(s), NEW c \in S, c \notin ToSet(s)
  PROVE  /\ Append(s, c) \in Seq(S) /\ Distinct(Append(s, c))
         /\ Len(Append(s, c)) = Len(s) + 1
         /\ ToSet(Append(s, c)) = ToSet(s) \cup {c}
<1> DEFINE a == Append(s, c)
           n == Len(s)
<1>1. /\ a \in Seq(S) /\ Len(a) = n + 1 /\ n \in Nat
      /\ \A i \in 1 .. n : a[i] = s[i]
      /\ a[n + 1] = c
  BY AppendProperties, LenProperties
<1>2. \A d : d \in ToSet(s) <=> \E i \in 1 .. n : s[i] = d BY Elements
<1>3. \A d : d \in ToSet(a) <=> \E i \in 1 .. n + 1 : a[i] = d BY <1>1, Elements
<1>4. \A i : i \in 1 .. n + 1 <=> i \in 1 .. n \/ i = n + 1 BY <1>1
<1> HIDE DEF a
<1>5. Distinct(a)
  <2>1. \A i \in 1 .. n : a[i] # c BY <1>1, <1>2
  <2>2. \A i, j \in 1 .. n + 1 : a[i] = a[j] => i = j
    BY <1>1, <1>4, <2>1 DEF Distinct
  <2> QED BY <1>1, <2>2 DEF Distinct
<1>6. \A d : d \in ToSet(a) <=> d \in ToSet(s) \/ d = c
  BY <1>1, <1>2, <1>3, <1>4
<1> QED BY <1>1, <1>5, <1>6 DEF a

\* The janitor drops what lies between p and q.
Kept(s, p, q) == SubSeq(s, 1, p) \o SubSeq(s, q + 1, Len(s))
Cut(s, p, q) == {s[i] : i \in p + 1 .. q}

LEMMA CutOut ==
  ASSUME NEW S, NEW s \in Seq(S), Distinct(s),
         NEW p \in 0 .. Len(s), NEW q \in p .. Len(s)
  PROVE  /\ Kept(s, p, q) \in Seq(S) /\ Distinct(Kept(s, p, q))
         /\ Len(Kept(s, p, q)) = Len(s) - (q - p)
         /\ Cut(s, p, q) \subseteq ToSet(s)
         /\ ToSet(Kept(s, p, q)) = ToSet(s) \ Cut(s, p, q)
<1> DEFINE u == SubSeq(s, 1, p)
           v == SubSeq(s, q + 1, Len(s))
           t == u \o v
           gone == {s[i] : i \in p + 1 .. q}
           n == Len(s) - (q - p)
           src(i) == IF i <= p THEN i ELSE i + (q - p)
<1>0. Len(s) \in Nat BY LenProperties
<1>1. u \in Seq(S) /\ Len(u) = p /\ \A i \in 1 .. p : u[i] = s[i]
  <2>1. 1 \in 1 .. Len(s) + 1 /\ p \in 1 - 1 .. Len(s) BY <1>0
  <2>2. /\ u \in Seq(S) /\ Len(u) = p - 1 + 1
        /\ \A i \in 1 .. p - 1 + 1 : u[i] = s[1 + i - 1]
    BY <2>1, Stretch
  <2>3. p - 1 + 1 = p /\ \A i \in 1 .. p : 1 + i - 1 = i OBVIOUS
  <2> HIDE DEF u
  <2> QED BY <2>2, <2>3
<1>2. /\ v \in Seq(S) /\ Len(v) = Len(s) - q
      /\ \A i \in 1 .. Len(s) - q : v[i] = s[q + i]
  <2>1. q + 1 \in 1 .. Len(s) + 1 /\ Len(s) \in q + 1 - 1 .. Len(s) BY <1>0
  <2>2. /\ v \in Seq(S) /\ Len(v) = Len(s) - (q + 1) + 1
        /\ \A i \in 1 .. Len(s) - (q + 1) + 1 : v[i] = s[q + 1 + i - 1]
    BY <2>1, Stretch
  <2>3. Len(s) - (q + 1) + 1 = Len(s) - q BY <1>0
  <2>4. \A i \in 1 .. Len(s) - q : q + 1 + i - 1 = q + i BY <1>0
  <2> HIDE DEF v
  <2> QED BY <2>2, <2>3, <2>4
<1> HIDE DEF u, v
<1>3. t \in Seq(S) /\ Len(t) = n /\ \A i \in 1 .. n : t[i] = s[src(i)]
  <2>1. /\ t \in Seq(S) /\ Len(t) = p + (Len(s) - q)
        /\ \A i \in 1 .. p + (Len(s) - q) :
              t[i] = IF i <= p THEN u[i] ELSE v[i - p]
    <3>1. /\ u \o v \in Seq(S) /\ Len(u \o v) = Len(u) + Len(v)
          /\ \A i \in 1 .. Len(u) + Len(v) :
                (u \o v)[i] = IF i <= Len(u) THEN u[i] ELSE v[i - Len(u)]
      BY <1>1, <1>2, ConcatProperties, Zenon
    <3>2. Len(u) = p /\ Len(v) = Len(s) - q
      BY <1>1, <1>2
    <3> QED BY <3>1, <3>2, Zenon
  <2>2. p + (Len(s) - q) = n BY <1>0
  <2>3. ASSUME NEW i \in 1 .. n, i <= p PROVE i \in 1 .. p /\ t[i] = u[i]
    <3> HIDE DEF t
    <3> QED BY <2>1, <2>2, <2>3
  <2>4. \A i \in 1 .. n : ~(i <= p) => /\ i - p \in 1 .. Len(s) - q
                                       /\ q + (i - p) = i + (q - p)
                                       /\ t[i] = v[i - p]
    BY <1>0, <2>1, <2>2
  <2>5. ASSUME NEW i \in 1 .. n PROVE t[i] = s[src(i)]
    <3> HIDE DEF t
    <3>1. CASE i <= p BY <1>1, <2>3, <3>1
    <3>2. CASE ~(i <= p) BY <1>2, <2>4, <3>2
    <3> QED BY <3>1, <3>2
  <2> QED BY <2>1, <2>2, <2>5
<1>4. \A i \in 1 .. n : src(i) \in 1 .. Len(s) /\ src(i) \notin p + 1 .. q
  BY <1>0
<1>5. \A i, j \in 1 .. n : src(i) = src(j) => i = j BY <1>0
<1>6. \A j \in 1 .. Len(s) : j \notin p + 1 .. q => \E i \in 1 .. n : src(i) = j
  <2> TAKE j \in 1 .. Len(s)
  <2> HAVE j \notin p + 1 .. q
  <2>1. CASE j <= p
    <3>1. j \in 1 .. n /\ src(j) = j BY <1>0, <2>1
    <3> QED BY <3>1
  <2>2. CASE ~(j <= p)
    <3>1. j - (q - p) \in 1 .. n /\ src(j - (q - p)) = j BY <1>0, <2>2
    <3> QED BY <3>1
  <2> QED BY <2>1, <2>2
<1>7. \A i \in p + 1 .. q : i \in 1 .. Len(s) BY <1>0
<1> HIDE DEF t, src, n
<1>8. Distinct(t) BY <1>3, <1>4, <1>5 DEF Distinct
<1>9. \A c : c \in ToSet(s) <=> \E i \in 1 .. Len(s) : s[i] = c BY Elements
<1>10. \A c : c \in ToSet(t) <=> \E i \in 1 .. n : t[i] = c BY <1>3, Elements
<1>11. gone \subseteq ToSet(s) BY <1>7, <1>9
<1>12. \A c : c \in ToSet(t) <=> c \in ToSet(s) /\ c \notin gone
  <2> TAKE c
  <2>1. ASSUME c \in ToSet(t) PROVE c \in ToSet(s) /\ c \notin gone
    <3>1. PICK i \in 1 .. n : c = s[src(i)] BY <1>3, <1>10, <2>1
    <3>2. src(i) \in 1 .. Len(s) /\ src(i) \notin p + 1 .. q BY <1>4
    <3> QED BY <1>7, <1>9, <3>1, <3>2 DEF Distinct
  <2>2. ASSUME c \in ToSet(s), c \notin gone PROVE c \in ToSet(t)
    <3>1. PICK j \in 1 .. Len(s) : c = s[j] BY <1>9, <2>2
    <3>2. j \notin p + 1 .. q BY <2>2, <3>1
    <3> QED BY <1>3, <1>6, <1>10, <3>1, <3>2
  <2> QED BY <2>1, <2>2
<1> HIDE DEF gone
<1>13. ToSet(t) = ToSet(s) \ gone BY <1>12
<1> QED BY <1>3, <1>8, <1>11, <1>13 DEF t, gone, u, v, n, Kept, Cut

-----------------------------------------------------------------------------
(* What the actions that change the idle list do to it.                    *)

ListOK == idle \in Seq(Children) /\ IdleApart /\ ClosedStaysEmpty /\ IdleWithinMax

\* A lease takes one child off the list (acquire).
LEMMA ListTakes ==
  ASSUME TypeOK, ListOK, NEW r \in Runners, TakeIdle(r)
  PROVE  ListOK' /\ Last(idle) \in Inside /\ Inside' = Inside \ {Last(idle)}
<1>1. idle \in Seq(Children) /\ Distinct(idle) /\ idle # <<>>
      /\ conf \in Settings /\ conf.maxIdle \in Nat
  BY ExecPoolAssumption DEF TypeOK, ListOK, IdleApart, TakeIdle
<1>2. /\ idle' = Front(idle) /\ ~closed
      /\ UNCHANGED <<conf, closed, retrim>>
  BY DEF TakeIdle, leaseRest
<1>3. /\ idle' \in Seq(Children) /\ Distinct(idle') /\ Len(idle') <= Len(idle)
      /\ Last(idle) \in ToSet(idle) /\ ToSet(idle') = ToSet(idle) \ {Last(idle)}
  BY <1>1, <1>2, TakeLast
<1>4. Len(idle) \in Nat /\ Len(idle') \in Nat BY <1>1, <1>3, LenProperties
<1>5. IdleWithinMax' BY <1>1, <1>2, <1>3, <1>4 DEF ListOK, IdleWithinMax
<1> QED BY <1>1, <1>2, <1>3, <1>5 DEF ListOK, IdleApart, ClosedStaysEmpty, Inside

\* A child is put back, or kept after a prewarm, only while the pool is open
\* and has room (releaseChild, maybePrewarm).
LEMMA ListGains ==
  ASSUME TypeOK, ListOK, NEW c \in Children, c \notin Inside,
         ~(closed \/ Full), idle' = Append(idle, c),
         UNCHANGED <<conf, closed, retrim>>
  PROVE  ListOK' /\ Inside' = Inside \cup {c}
<1>1. idle \in Seq(Children) /\ Distinct(idle) /\ c \notin ToSet(idle)
      /\ conf.maxIdle \in Nat
  BY ExecPoolAssumption DEF TypeOK, ListOK, IdleApart, Inside
<1>2. /\ idle' \in Seq(Children) /\ Distinct(idle') /\ Len(idle') = Len(idle) + 1
      /\ ToSet(idle') = ToSet(idle) \cup {c}
  BY <1>1, PutLast
<1>3. Len(idle) \in Nat BY <1>1, LenProperties
<1>4. IdleWithinMax' BY <1>1, <1>2, <1>3 DEF Full, IdleWithinMax
<1> QED BY <1>1, <1>2, <1>4 DEF ListOK, IdleApart, ClosedStaysEmpty, Inside

\* The janitor takes children off the list and stops exactly those
\* (trimIdle, reapExpired).
LEMMA ListCut ==
  ASSUME TypeOK, ListOK, TrimIdle \/ Tick
  PROVE  ListOK' /\ \E gone \in SUBSET Inside : Inside' = Inside \ gone /\ StopAll(gone)
<1>1. idle \in Seq(Children) /\ Distinct(idle) /\ Len(idle) \in Nat
      /\ conf.maxIdle \in Nat /\ conf.prewarm \in Nat
  BY ExecPoolAssumption, LenProperties DEF TypeOK, ListOK, IdleApart
<1>2. CASE TrimIdle
  <2> DEFINE n == IF Full THEN conf.maxIdle ELSE Len(idle)
             gone == {idle[i] : i \in n + 1 .. Len(idle)}
  <2>1. n \in 0 .. Len(idle) /\ Len(idle) \in n .. Len(idle) /\ n <= conf.maxIdle
    BY <1>1 DEF Full
  <2>2. idle' = SubSeq(idle, 1, n) /\ StopAll(gone) /\ UNCHANGED <<conf, closed>>
    BY <1>2 DEF TrimIdle
  <2>g. gone = Cut(idle, n, Len(idle)) BY DEF Cut
  <2> HIDE DEF n, gone
  <2>3. SubSeq(idle, Len(idle) + 1, Len(idle)) = <<>>
    BY <1>1, SubSeqEmpty
  <2>4. SubSeq(idle, 1, n) \in Seq(Children)
    BY <1>1, <2>1, Stretch
  <2>5. idle' = Kept(idle, n, Len(idle))
    BY <2>2, <2>3, <2>4, ConcatEmptySeq DEF Kept
  <2>6. /\ idle' \in Seq(Children) /\ Distinct(idle')
        /\ Len(idle') = Len(idle) - (Len(idle) - n)
        /\ gone \subseteq ToSet(idle) /\ ToSet(idle') = ToSet(idle) \ gone
    <3> DEFINE m == Len(idle)
    <3>1. /\ Kept(idle, n, m) \in Seq(Children) /\ Distinct(Kept(idle, n, m))
          /\ Len(Kept(idle, n, m)) = Len(idle) - (m - n)
          /\ Cut(idle, n, m) \subseteq ToSet(idle)
          /\ ToSet(Kept(idle, n, m)) = ToSet(idle) \ Cut(idle, n, m)
      <4>1. m \in n .. Len(idle) BY <2>1
      <4> HIDE DEF m
      <4> QED BY <1>1, <2>1, <4>1, CutOut
    <3> QED BY <2>5, <2>g, <3>1
  <2>7. Len(idle') <= conf'.maxIdle BY <1>1, <2>1, <2>2, <2>6
  <2>8. closed' => idle' = <<>>
    <3>1. SUFFICES ASSUME closed' PROVE idle' = <<>> OBVIOUS
    <3>2. idle = <<>> BY <2>2, <3>1 DEF ListOK, ClosedStaysEmpty
    <3>3. Len(idle) = 0 BY <3>2
    <3>n. n = 0 BY <2>1, <3>3
    <3>4. Len(idle') = 0 BY <2>6, <3>3, <3>n
    <3> QED BY <2>6, <3>4, EmptySeq
  <2> QED BY <2>2, <2>6, <2>7, <2>8
          DEF ListOK, IdleApart, ClosedStaysEmpty, IdleWithinMax, Inside
<1>3. ASSUME Tick, UNCHANGED <<idle, childVars>>
      PROVE  ListOK' /\ Inside' = Inside \ {} /\ StopAll({})
  <2>1. UNCHANGED <<conf, closed, retrim>> BY <1>3 DEF Tick
  <2>2. os \in [Children -> {"none", "up", "down"}]
        /\ boundTo \in [Children -> Runners \cup {NoRunner}]
    BY DEF TypeOK
  <2>3. StopAll({}) BY <1>3, <2>2 DEF StopAll, childVars
  <2> QED BY <1>3, <2>1, <2>3
          DEF ListOK, IdleApart, ClosedStaysEmpty, IdleWithinMax, Inside
<1>4. ASSUME Tick, NEW k \in conf.prewarm + 1 .. Len(idle),
             idle' = SubSeq(idle, 1, conf.prewarm) \o SubSeq(idle, k + 1, Len(idle)),
             StopAll({idle[i] : i \in conf.prewarm + 1 .. k})
      PROVE  ListOK' /\ \E gone \in SUBSET Inside : Inside' = Inside \ gone /\ StopAll(gone)
  <2> DEFINE p == conf.prewarm
             gone == {idle[i] : i \in p + 1 .. k}
  <2>1. p \in 0 .. Len(idle) /\ k \in p .. Len(idle) /\ k - p > 0 BY <1>1
  <2>2. UNCHANGED <<conf, closed, retrim>> BY <1>4 DEF Tick
  <2>3. /\ idle' \in Seq(Children) /\ Distinct(idle')
        /\ Len(idle') = Len(idle) - (k - p)
        /\ gone \subseteq ToSet(idle) /\ ToSet(idle') = ToSet(idle) \ gone
    <3>1. gone = Cut(idle, p, k) BY DEF Cut
    <3>2. idle' = Kept(idle, p, k) BY <1>4 DEF Kept
    <3> HIDE DEF p, gone
    <3>3. /\ Kept(idle, p, k) \in Seq(Children) /\ Distinct(Kept(idle, p, k))
          /\ Len(Kept(idle, p, k)) = Len(idle) - (k - p)
          /\ Cut(idle, p, k) \subseteq ToSet(idle)
          /\ ToSet(Kept(idle, p, k)) = ToSet(idle) \ Cut(idle, p, k)
      BY <1>1, <2>1, CutOut
    <3> QED BY <3>1, <3>2, <3>3
  <2>4. StopAll(gone) BY <1>4
  <2> HIDE DEF gone
  <2>5. IdleWithinMax' BY <1>1, <2>1, <2>2, <2>3 DEF ListOK, IdleWithinMax
  <2>6. ~closed'
    <3>1. idle # <<>> BY <1>1, <2>1, EmptySeq
    <3> QED BY <2>2, <3>1 DEF ListOK, ClosedStaysEmpty
  <2> QED BY <2>3, <2>4, <2>5, <2>6 DEF ListOK, IdleApart, ClosedStaysEmpty, Inside
<1>5. CASE Tick
  <2>1. \/ UNCHANGED <<idle, childVars>>
        \/ \E k \in conf.prewarm + 1 .. Len(idle) :
              /\ idle' = SubSeq(idle, 1, conf.prewarm) \o SubSeq(idle, k + 1, Len(idle))
              /\ StopAll({idle[i] : i \in conf.prewarm + 1 .. k})
    BY <1>5 DEF Tick
  <2>2. CASE UNCHANGED <<idle, childVars>> BY <1>3, <1>5, <2>2
  <2>3. CASE ~UNCHANGED <<idle, childVars>> BY <1>4, <1>5, <2>1, <2>3
  <2> QED BY <2>2, <2>3
<1> QED BY <1>2, <1>5

\* Close empties the list and stops what was in it.
LEMMA ListEmptied ==
  ASSUME TypeOK, PoolCloses
  PROVE  ListOK' /\ Inside' = {} /\ StopAll(Inside)
<1>1. idle' = <<>> /\ closed' /\ UNCHANGED <<conf, retrim>> /\ StopAll(Inside)
  BY DEF PoolCloses, Inside
<1>2. conf.maxIdle \in Nat BY ExecPoolAssumption DEF TypeOK
<1>3. idle' \in Seq(Children) /\ Len(idle') = 0 BY <1>1, EmptySeq
<1>4. ToSet(idle') = {}
  <2>1. \A c : c \in ToSet(idle') <=> \E i \in 1 .. Len(idle') : idle'[i] = c
    BY <1>3, Elements
  <2> QED BY <1>3, <2>1
<1>5. Distinct(idle') BY <1>3 DEF Distinct
<1> QED BY <1>1, <1>2, <1>3, <1>4, <1>5
        DEF ListOK, IdleApart, ClosedStaysEmpty, IdleWithinMax, Inside

\* What the actions do to the children in the list: nothing, or one of the
\* following.
LEMMA InsideStays ==
  ASSUME ListOK, UNCHANGED <<idle, conf, closed, retrim>>
  PROVE  ListOK' /\ Inside' = Inside
BY DEF ListOK, IdleApart, ClosedStaysEmpty, IdleWithinMax, Inside

LEMMA Returns ==
  ASSUME TypeOK, ListOK, PlacesApart, StepsFit, NEW r \in Runners, ReleaseReturns(r)
  PROVE  /\ ListOK'
         /\ \/ Inside' = Inside /\ Discard(r, "return")
            \/ /\ Inside' = Inside \cup {client[r]} /\ Go(r, "return", "none")
               /\ client' = [client EXCEPT ![r] = NoChild] /\ UNCHANGED childVars
<1>1. UNCHANGED <<conf, closed, retrim>> BY DEF ReleaseReturns, closeRest
<1>2. CASE (closed \/ Full) /\ Discard(r, "return") /\ UNCHANGED idle
  BY <1>1, <1>2, InsideStays
<1>3. CASE /\ ~(closed \/ Full) /\ Go(r, "return", "none")
           /\ idle' = Append(idle, client[r])
           /\ client' = [client EXCEPT ![r] = NoChild] /\ UNCHANGED childVars
  <2>1. client[r] \in Children /\ client[r] \notin Inside
    BY <1>3 DEF TypeOK, StepsFit, PlacesApart, Go
  <2> QED BY <1>1, <1>3, <2>1, ListGains
<1> QED BY <1>2, <1>3 DEF ReleaseReturns

LEMMA Keeps ==
  ASSUME TypeOK, ListOK, PlacesApart, StepsFit, PrewarmKeeps
  PROVE  /\ ListOK' /\ loop = "keep" /\ warm' = NoChild /\ loop' \in {"wait", "prewarm"}
         /\ \/ Inside' = Inside /\ StopAll({warm})
            \/ Inside' = Inside \cup {warm} /\ UNCHANGED childVars
<1>1. /\ UNCHANGED <<conf, closed, retrim>>
      /\ loop = "keep" /\ warm' = NoChild /\ loop' \in {"wait", "prewarm"}
  BY DEF PrewarmKeeps
<1>2. CASE closed \/ Full
  <2>1. StopAll({warm}) /\ UNCHANGED idle BY <1>2 DEF PrewarmKeeps
  <2> QED BY <1>1, <2>1, InsideStays
<1>3. CASE ~(closed \/ Full)
  <2>1. idle' = Append(idle, warm) /\ UNCHANGED childVars BY <1>3 DEF PrewarmKeeps
  <2>2. warm \in Children /\ warm \notin Inside
    BY <1>1 DEF TypeOK, StepsFit, PlacesApart
  <2> QED BY <1>1, <1>3, <2>1, <2>2, ListGains
<1> QED BY <1>2, <1>3

LEMMA Resets ==
  ASSUME TypeOK, ListOK, NEW s \in Settings, SetSettings(s)
  PROVE  ListOK' /\ Inside' = Inside
<1>1. /\ UNCHANGED <<idle, closed>> /\ conf' = s /\ retrim' = (retrim \/ ~closed)
      /\ s.maxIdle \in Nat
  BY ExecPoolAssumption DEF SetSettings
<1>2. IdleWithinMax'
  <2>1. CASE ~closed BY <1>1, <2>1 DEF IdleWithinMax, TypeOK
  <2>2. CASE closed
    <3>1. Len(idle') = 0 BY <1>1, <2>2 DEF ListOK, ClosedStaysEmpty
    <3> QED BY <1>1, <3>1 DEF IdleWithinMax
  <2> QED BY <2>1, <2>2
<1> QED BY <1>1, <1>2 DEF ListOK, IdleApart, ClosedStaysEmpty, Inside

LEMMA InsideIn ==
  ASSUME ListOK
  PROVE  Inside \subseteq Children /\ NoChild \notin Children
BY Elements, ExecPoolAssumption DEF ListOK, Inside

\* A step keeps the types.
LEMMA TypeStep ==
  ASSUME TypeOK, ListOK, HeldLive, PlacesApart, LiveHeld, StepsFit,
         BoundFit, [Next]_vars
  PROVE  TypeOK'
<1>1. ASSUME NEW r \in Runners, LeaseBegins(r) PROVE TypeOK'
  BY <1>1, InsideStays, InsideIn DEF LeaseBegins, Go, poolVars,
      loopVars, childVars, watchVars, TypeOK, RunnerSteps, ListOK
<1>2. ASSUME NEW r \in Runners, LeaseRefused(r) PROVE TypeOK'
  BY <1>2, InsideStays, InsideIn DEF LeaseRefused, Go, poolVars,
      loopVars, childVars, watchVars, TypeOK, RunnerSteps, ListOK
<1>3. ASSUME NEW r \in Runners, TakeIdle(r) PROVE TypeOK'
  <2>1. PICK c \in Inside : /\ ListOK' /\ Go(r, "scan", "check")
                          /\ client' = [client EXCEPT ![r] = c]
    BY <1>3, ListTakes DEF TakeIdle
  <2>2. UNCHANGED <<active, childVars, leased, pooled, leaseRest>> BY <1>3 DEF TakeIdle
  <2> QED BY <2>1, <2>2, InsideIn DEF Go, leaseRest, loopVars,
          childVars, watchVars, TypeOK, RunnerSteps, ListOK
<1>4. ASSUME NEW r \in Runners, CheckIdle(r) PROVE TypeOK'
  <2>1. CASE /\ Go(r, "check", "scan") /\ StopAll({client[r]})
             /\ client' = [client EXCEPT ![r] = NoChild]
             /\ UNCHANGED <<idle, active, leased, pooled, leaseRest>>
    BY <1>4, <2>1, InsideStays, InsideIn DEF Go, StopAll, healthy,
        leaseRest, loopVars, childVars, watchVars, TypeOK,
        RunnerSteps, ListOK
  <2>2. CASE /\ healthy(client[r]) /\ Go(r, "check", "take")
             /\ UNCHANGED <<client, childVars, idle, active, leased, pooled, leaseRest>>
    BY <1>4, <2>2, InsideStays, InsideIn DEF Go, StopAll, healthy,
        leaseRest, loopVars, childVars, watchVars, TypeOK,
        RunnerSteps, ListOK
  <2> QED BY <1>4, <2>1, <2>2 DEF CheckIdle
<1>5. ASSUME NEW r \in Runners, KeepIdle(r) PROVE TypeOK'
  <2>1. active' \in {active, active + 1} \/ (active > 0 /\ active' = active - 1)
    BY <1>5 DEF KeepIdle, dropSlot
  <2>2. pooled' = pooled \/ \E b \in BOOLEAN : pooled' = [pooled EXCEPT ![r] = b]
    BY <1>5 DEF KeepIdle, closeRest
  <2>3. active' \in Nat BY <2>1 DEF TypeOK
  <2>4. pooled' \in [Runners -> BOOLEAN] BY <2>2 DEF TypeOK
  <2> QED BY <1>5, <2>3, <2>4, InsideStays DEF KeepIdle, Go,
          StopAll, leaseRest, loopVars, watchVars, childVars,
          TypeOK, RunnerSteps, ListOK
<1>6. ASSUME NEW r \in Runners, LeaseLaunches(r) PROVE TypeOK'
  BY <1>6, InsideStays, InsideIn DEF LeaseLaunches, Go, leaseRest,
      loopVars, childVars, watchVars, TypeOK, RunnerSteps, ListOK
<1>7. ASSUME NEW r \in Runners, LaunchEnds(r) PROVE TypeOK'
  <2>1. active' \in {active, active + 1} \/ (active > 0 /\ active' = active - 1)
    BY <1>7 DEF LaunchEnds, dropSlot
  <2>2. pooled' = pooled \/ \E b \in BOOLEAN : pooled' = [pooled EXCEPT ![r] = b]
    BY <1>7 DEF LaunchEnds, closeRest
  <2>3. active' \in Nat BY <2>1 DEF TypeOK
  <2>4. pooled' \in [Runners -> BOOLEAN] BY <2>2 DEF TypeOK
  <2> QED BY <1>7, <2>3, <2>4, InsideStays DEF LaunchEnds, Launched,
          Go, leaseRest, loopVars, watchVars, childVars, TypeOK,
          RunnerSteps, ListOK
<1>8. ASSUME NEW r \in Runners, BindEnds(r) PROVE TypeOK'
  <2>1. active' \in {active, active + 1} \/ (active > 0 /\ active' = active - 1)
    BY <1>8 DEF BindEnds, dropSlot
  <2>2. pooled' = pooled \/ \E b \in BOOLEAN : pooled' = [pooled EXCEPT ![r] = b]
    BY <1>8 DEF BindEnds, closeRest
  <2>3. active' \in Nat BY <2>1 DEF TypeOK
  <2>4. pooled' \in [Runners -> BOOLEAN] BY <2>2 DEF TypeOK
  <2>5. CASE /\ healthy(client[r]) /\ Go(r, "bind", "leased")
             /\ boundTo' = [boundTo EXCEPT ![client[r]] = r]
             /\ leased' = [leased EXCEPT ![r] = client[r]]
             /\ wd' = [wd EXCEPT ![r] = "watch"] /\ used' = TRUE
             /\ UNCHANGED <<client, os, idle, loopVars, fresh, conf, closed,
                            retrim, ended>>
    BY <1>8, <2>3, <2>4, <2>5, InsideStays DEF Go, StopAll, healthy,
        loopVars, TypeOK, RunnerSteps, ListOK
  <2>6. CASE /\ Go(r, "bind", "none") /\ StopAll({client[r]})
             /\ client' = [client EXCEPT ![r] = NoChild]
             /\ UNCHANGED <<leased, wd, used, idle, loopVars, fresh, conf,
                            closed, retrim, ended>>
    BY <1>8, <2>3, <2>4, <2>6, InsideStays DEF Go, StopAll, healthy,
        loopVars, TypeOK, RunnerSteps, ListOK
  <2> QED BY <1>8, <2>5, <2>6 DEF BindEnds
<1>9. ASSUME NEW r \in Runners, WatchdogDrops(r) PROVE TypeOK'
  BY <1>9, InsideStays, InsideIn DEF WatchdogDrops, healthy, watchRest,
      poolVars, loopVars, childVars, TypeOK, RunnerSteps, ListOK
<1>10. ASSUME NEW r \in Runners, WatchdogStops(r) PROVE TypeOK'
  BY <1>10, InsideStays, InsideIn DEF WatchdogStops, StopAll, watchRest,
      poolVars, loopVars, TypeOK, RunnerSteps, ListOK
<1>11. ASSUME NEW r \in Runners, WatchdogRelaunches(r) PROVE TypeOK'
  <2>1. ASSUME NEW c \in Children, Launched(c), wd[r] = "relaunch",
                fresh' = [fresh EXCEPT ![r] = c], wd' = [wd EXCEPT ![r] = "install"],
                UNCHANGED <<client, leased, boundTo, watchRest>> PROVE TypeOK'
    BY <1>11, <2>1, InsideStays, InsideIn DEF Launched, watchRest,
        poolVars, loopVars, TypeOK, RunnerSteps, ListOK
  <2>2. CASE /\ wd[r] = "relaunch" /\ wd' = [wd EXCEPT ![r] = "off"]
             /\ UNCHANGED <<fresh, os, client, leased, boundTo, watchRest>>
    BY <1>11, <2>2, InsideStays, InsideIn DEF Launched, watchRest,
        poolVars, loopVars, TypeOK, RunnerSteps, ListOK
  <2> QED BY <1>11, <2>1, <2>2 DEF WatchdogRelaunches
<1>12. ASSUME NEW r \in Runners, WatchdogInstalls(r) PROVE TypeOK'
  <2>1. CASE /\ ended[r] /\ StopAll({fresh[r]}) /\ wd[r] = "install"
             /\ wd' = [wd EXCEPT ![r] = "off"]
             /\ fresh' = [fresh EXCEPT ![r] = NoChild]
             /\ UNCHANGED <<client, leased, watchRest>>
    BY <1>12, <2>1, InsideStays, InsideIn DEF StopAll, watchRest,
        poolVars, loopVars, childVars, TypeOK, RunnerSteps, ListOK
  <2>2. CASE /\ ~ended[r] /\ wd[r] = "install" /\ client' = [client EXCEPT ![r] = fresh[r]]
             /\ fresh' = [fresh EXCEPT ![r] = NoChild]
             /\ wd' = [wd EXCEPT ![r] = "watch"]
             /\ UNCHANGED <<childVars, leased, watchRest>>
    BY <1>12, <2>2, InsideStays, InsideIn DEF StopAll, watchRest,
        poolVars, loopVars, childVars, TypeOK, RunnerSteps, ListOK
  <2> QED BY <1>12, <2>1, <2>2 DEF WatchdogInstalls
<1>13. ASSUME NEW r \in Runners, WatchdogQuits(r) PROVE TypeOK'
  BY <1>13, InsideStays, InsideIn DEF WatchdogQuits, watchRest,
      poolVars, loopVars, childVars, TypeOK, RunnerSteps, ListOK
<1>14. ASSUME NEW r \in Runners, Rebind(r) PROVE TypeOK'
  BY <1>14, InsideStays, InsideIn DEF Rebind, healthy, watchRest,
      poolVars, loopVars, watchVars, TypeOK, RunnerSteps, ListOK
<1>15. ASSUME NEW r \in Runners, CloseBegins(r) PROVE TypeOK'
  BY <1>15, InsideStays, InsideIn DEF CloseBegins, Go, poolVars,
      loopVars, childVars, watchVars, TypeOK, RunnerSteps, ListOK
<1>16. ASSUME NEW r \in Runners, CloseTakes(r) PROVE TypeOK'
  BY <1>16, InsideStays, InsideIn DEF CloseTakes, Go, poolVars,
      loopVars, childVars, watchVars, TypeOK, RunnerSteps, ListOK
<1>17. ASSUME NEW r \in Runners, CloseUnbinds(r) PROVE TypeOK'
  BY <1>17, InsideStays, InsideIn DEF CloseUnbinds, Go, StopAll,
      healthy, poolVars, loopVars, watchVars, TypeOK, RunnerSteps,
      ListOK
<1>18. ASSUME NEW r \in Runners, ReleaseSlot(r) PROVE TypeOK'
  <2>1. active' \in {active, active + 1} \/ (active > 0 /\ active' = active - 1)
    BY <1>18 DEF ReleaseSlot, dropSlot
  <2>2. pooled' = pooled \/ \E b \in BOOLEAN : pooled' = [pooled EXCEPT ![r] = b]
    BY <1>18 DEF ReleaseSlot, closeRest
  <2>3. active' \in Nat BY <2>1 DEF TypeOK
  <2>4. pooled' \in [Runners -> BOOLEAN] BY <2>2 DEF TypeOK
  <2>5. CASE Discard(r, "release") /\ UNCHANGED <<idle, closeRest>>
    BY <1>18, <2>3, <2>4, <2>5, InsideStays DEF Discard, Go, StopAll,
        loopVars, watchVars, childVars, closeRest, TypeOK,
        RunnerSteps, ListOK
  <2>6. CASE /\ Go(r, "release", "ping")
             /\ UNCHANGED <<client, childVars, idle, closeRest>>
    BY <1>18, <2>3, <2>4, <2>6, InsideStays DEF Discard, Go, StopAll,
        loopVars, watchVars, childVars, closeRest, TypeOK,
        RunnerSteps, ListOK
  <2> QED BY <1>18, <2>5, <2>6 DEF ReleaseSlot
<1>19. ASSUME NEW r \in Runners, ReleasePings(r) PROVE TypeOK'
  <2>1. CASE /\ Discard(r, "ping") /\ UNCHANGED <<idle, active, pooled, closeRest>>
    BY <1>19, <2>1, InsideStays, InsideIn DEF Discard, Go, StopAll,
        healthy, closeRest, loopVars, childVars, watchVars, TypeOK,
        RunnerSteps, ListOK
  <2>2. CASE /\ healthy(client[r]) /\ Go(r, "ping", "return")
             /\ UNCHANGED <<client, childVars, idle, active, pooled, closeRest>>
    BY <1>19, <2>2, InsideStays, InsideIn DEF Discard, Go, StopAll,
        healthy, closeRest, loopVars, childVars, watchVars, TypeOK,
        RunnerSteps, ListOK
  <2> QED BY <1>19, <2>1, <2>2 DEF ReleasePings
<1>20. ASSUME NEW r \in Runners, ReleaseReturns(r) PROVE TypeOK'
  <2>1. UNCHANGED <<loop, warm, wd, fresh, conf, used, closed, retrim, ended, leased, active, pooled>>
    BY <1>20 DEF ReleaseReturns, closeRest, loopVars, watchVars
  <2>2. CASE Inside' = Inside /\ Discard(r, "return")
    BY <1>20, <2>1, <2>2, Returns, InsideIn DEF Discard, Go, StopAll,
        childVars, TypeOK, RunnerSteps, ListOK
  <2>3. CASE /\ Inside' = Inside \cup {client[r]} /\ Go(r, "return", "none")
             /\ client' = [client EXCEPT ![r] = NoChild] /\ UNCHANGED childVars
    BY <1>20, <2>1, <2>3, Returns, InsideIn DEF Go, childVars, TypeOK,
        RunnerSteps, ListOK
  <2> QED BY <1>20, <2>2, <2>3, Returns
<1>21. ASSUME TrimIdle PROVE TypeOK'
  <2>1. PICK gone \in SUBSET Inside : Inside' = Inside \ gone /\ StopAll(gone)
    BY <1>21, ListCut
  <2>2. UNCHANGED <<loop, warm, active, used, conf, closed, runnerVars, watchVars>> /\ retrim' = FALSE
    BY <1>21 DEF TrimIdle, poolRest, loopVars
  <2>3. ListOK' BY <1>21, ListCut
  <2> QED BY <2>1, <2>2, <2>3 DEF StopAll, loopVars, childVars, runnerVars,
          watchVars, TypeOK, ListOK
<1>22. ASSUME Tick PROVE TypeOK'
  <2>1. PICK gone \in SUBSET Inside : Inside' = Inside \ gone /\ StopAll(gone)
    BY <1>22, ListCut
  <2>2. UNCHANGED <<warm, active, used, conf, closed, retrim, runnerVars, watchVars>> /\ loop = "wait" /\ loop' = "prewarm"
    BY <1>22 DEF Tick, poolRest, loopVars
  <2>3. ListOK' BY <1>22, ListCut
  <2> QED BY <2>1, <2>2, <2>3 DEF StopAll, loopVars, childVars, runnerVars,
          watchVars, TypeOK, ListOK
<1>23. ASSUME Prewarm PROVE TypeOK'
  BY <1>23, InsideStays, InsideIn DEF Prewarm, poolRest, childVars,
      runnerVars, watchVars, TypeOK, RunnerSteps, ListOK
<1>24. ASSUME PrewarmLaunches PROVE TypeOK'
  BY <1>24, InsideStays, InsideIn DEF PrewarmLaunches, Launched,
      poolRest, runnerVars, watchVars, TypeOK, RunnerSteps, ListOK
<1>25. ASSUME PrewarmKeeps PROVE TypeOK'
  <2>1. UNCHANGED <<active, used, conf, closed, retrim, runnerVars, watchVars>>
    BY <1>25 DEF PrewarmKeeps, poolRest
  <2> QED BY <1>25, <2>1, Keeps, InsideIn DEF StopAll, childVars,
          runnerVars, watchVars, TypeOK, RunnerSteps, ListOK
<1>26. ASSUME LoopEnds PROVE TypeOK'
  BY <1>26, InsideStays, InsideIn DEF LoopEnds, poolVars, childVars,
      runnerVars, watchVars, TypeOK, RunnerSteps, ListOK
<1>27. ASSUME PoolCloses PROVE TypeOK'
  <2>1. UNCHANGED <<loop, warm, active, used, conf, retrim, runnerVars, watchVars>> /\ closed' = TRUE
    BY <1>27 DEF PoolCloses, poolRest, loopVars
  <2> QED BY <1>27, <2>1, ListEmptied, InsideIn DEF StopAll,
          childVars, runnerVars, watchVars, TypeOK, RunnerSteps,
          ListOK
<1>28. ASSUME NEW s \in Settings, SetSettings(s) PROVE TypeOK'
  BY <1>28, Resets, InsideIn DEF SetSettings, poolRest, loopVars,
      childVars, runnerVars, watchVars, TypeOK, RunnerSteps, ListOK
<1>29. ASSUME NEW c \in Children, ChildFails(c) PROVE TypeOK'
  BY <1>29, InsideStays, InsideIn DEF ChildFails, poolVars, loopVars,
      runnerVars, watchVars, TypeOK, RunnerSteps, ListOK
<1>30. CASE UNCHANGED vars
  BY <1>30, InsideStays, InsideIn DEF vars, poolVars, loopVars,
      childVars, runnerVars, watchVars, TypeOK, RunnerSteps, ListOK
<1> QED BY <1>1, <1>2, <1>3, <1>4, <1>5, <1>6, <1>7, <1>8, <1>9, <1>10,
     <1>11, <1>12, <1>13, <1>14, <1>15, <1>16, <1>17, <1>18, <1>19,
     <1>20, <1>21, <1>22, <1>23, <1>24, <1>25, <1>26, <1>27, <1>28,
     <1>29, <1>30
       DEF Next, Leasing, Watching, Closing, Janitor

\* Whatever a place holds after a step is alive.
LEMMA HeldStep ==
  ASSUME TypeOK, ListOK, HeldLive, PlacesApart, LiveHeld, StepsFit,
         [Next]_vars
  PROVE  HeldLive'
<1>1. ASSUME NEW r \in Runners, LeaseBegins(r) PROVE HeldLive'
  BY <1>1, InsideStays, InsideIn DEF LeaseBegins, Go, poolVars,
      loopVars, childVars, watchVars, TypeOK, StepsFit, HeldLive,
      PlacesApart, Live
<1>2. ASSUME NEW r \in Runners, LeaseRefused(r) PROVE HeldLive'
  BY <1>2, InsideStays, InsideIn DEF LeaseRefused, Go, poolVars,
      loopVars, childVars, watchVars, TypeOK, StepsFit, HeldLive,
      PlacesApart, Live
<1>3. ASSUME NEW r \in Runners, TakeIdle(r) PROVE HeldLive'
  <2>1. PICK c \in Inside : /\ Inside' = Inside \ {c} /\ Go(r, "scan", "check")
                          /\ client' = [client EXCEPT ![r] = c]
    BY <1>3, ListTakes DEF TakeIdle
  <2>2. UNCHANGED <<active, childVars, leased, pooled, leaseRest>> BY <1>3 DEF TakeIdle
  <2> QED BY <2>1, <2>2, InsideIn DEF Go, leaseRest, loopVars,
          childVars, watchVars, TypeOK, StepsFit, HeldLive,
          PlacesApart, Live
<1>4. ASSUME NEW r \in Runners, CheckIdle(r) PROVE HeldLive'
  <2>1. CASE /\ Go(r, "check", "scan") /\ StopAll({client[r]})
             /\ client' = [client EXCEPT ![r] = NoChild]
             /\ UNCHANGED <<idle, active, leased, pooled, leaseRest>>
    BY <1>4, <2>1, InsideStays, InsideIn DEF Go, StopAll, healthy,
        leaseRest, loopVars, childVars, watchVars, TypeOK, StepsFit,
        HeldLive, PlacesApart, Live
  <2>2. CASE /\ healthy(client[r]) /\ Go(r, "check", "take")
             /\ UNCHANGED <<client, childVars, idle, active, leased, pooled, leaseRest>>
    BY <1>4, <2>2, InsideStays, InsideIn DEF Go, StopAll, healthy,
        leaseRest, loopVars, childVars, watchVars, TypeOK, StepsFit,
        HeldLive, PlacesApart, Live
  <2> QED BY <1>4, <2>1, <2>2 DEF CheckIdle
<1>5. ASSUME NEW r \in Runners, KeepIdle(r) PROVE HeldLive'
  <2>1. CASE /\ closed /\ Go(r, "take", "none") /\ StopAll({client[r]})
             /\ client' = [client EXCEPT ![r] = NoChild]
             /\ UNCHANGED <<idle, active, pooled, leased, leaseRest>>
    BY <1>5, <2>1, InsideStays, InsideIn DEF Go, StopAll, leaseRest,
        loopVars, childVars, watchVars, TypeOK, StepsFit, HeldLive,
        PlacesApart, Live
  <2>2. CASE /\ ~closed /\ Go(r, "take", "bind") /\ pooled' = [pooled EXCEPT ![r] = TRUE]
             /\ UNCHANGED <<client, childVars, idle, leased, leaseRest>>
    BY <1>5, <2>2, InsideStays, InsideIn DEF Go, StopAll, leaseRest,
        loopVars, childVars, watchVars, TypeOK, StepsFit, HeldLive,
        PlacesApart, Live
  <2> QED BY <1>5, <2>1, <2>2 DEF KeepIdle
<1>6. ASSUME NEW r \in Runners, LeaseLaunches(r) PROVE HeldLive'
  BY <1>6, InsideStays, InsideIn DEF LeaseLaunches, Go, leaseRest,
      loopVars, childVars, watchVars, TypeOK, StepsFit, HeldLive,
      PlacesApart, Live
<1>7. ASSUME NEW r \in Runners, LaunchEnds(r) PROVE HeldLive'
  <2>1. ASSUME NEW c \in Children, Launched(c), Go(r, "launch", "bind"),
                client' = [client EXCEPT ![r] = c],
                UNCHANGED <<active, pooled, boundTo, idle, leased, leaseRest>> PROVE HeldLive'
    BY <1>7, <2>1, InsideStays, InsideIn DEF Launched, Go, leaseRest,
        loopVars, childVars, watchVars, TypeOK, StepsFit, HeldLive,
        PlacesApart, Live
  <2>2. CASE /\ Go(r, "launch", "none") /\ pooled' = [pooled EXCEPT ![r] = FALSE]
             /\ UNCHANGED <<client, childVars, idle, leased, leaseRest>>
    BY <1>7, <2>2, InsideStays, InsideIn DEF Launched, Go, leaseRest,
        loopVars, childVars, watchVars, TypeOK, StepsFit, HeldLive,
        PlacesApart, Live
  <2> QED BY <1>7, <2>1, <2>2 DEF LaunchEnds
<1>8. ASSUME NEW r \in Runners, BindEnds(r) PROVE HeldLive'
  <2>1. CASE /\ healthy(client[r]) /\ Go(r, "bind", "leased")
             /\ boundTo' = [boundTo EXCEPT ![client[r]] = r]
             /\ leased' = [leased EXCEPT ![r] = client[r]]
             /\ wd' = [wd EXCEPT ![r] = "watch"] /\ used' = TRUE
             /\ UNCHANGED <<client, os, active, pooled, idle, loopVars, fresh,
                            conf, closed, retrim, ended>>
    BY <1>8, <2>1, InsideStays, InsideIn DEF Go, StopAll, healthy,
        loopVars, TypeOK, StepsFit, HeldLive, PlacesApart, Live
  <2>2. CASE /\ Go(r, "bind", "none") /\ StopAll({client[r]})
             /\ client' = [client EXCEPT ![r] = NoChild]
             /\ pooled' = [pooled EXCEPT ![r] = FALSE]
             /\ UNCHANGED <<leased, wd, used, idle, loopVars, fresh, conf,
                            closed, retrim, ended>>
    BY <1>8, <2>2, InsideStays, InsideIn DEF Go, StopAll, healthy,
        loopVars, TypeOK, StepsFit, HeldLive, PlacesApart, Live
  <2> QED BY <1>8, <2>1, <2>2 DEF BindEnds
<1>9. ASSUME NEW r \in Runners, WatchdogDrops(r) PROVE HeldLive'
  BY <1>9, InsideStays, InsideIn DEF WatchdogDrops, healthy, watchRest,
      poolVars, loopVars, childVars, TypeOK, StepsFit, HeldLive,
      PlacesApart, Live
<1>10. ASSUME NEW r \in Runners, WatchdogStops(r) PROVE HeldLive'
  BY <1>10, InsideStays, InsideIn DEF WatchdogStops, StopAll, watchRest,
      poolVars, loopVars, TypeOK, StepsFit, HeldLive, PlacesApart, Live
<1>11. ASSUME NEW r \in Runners, WatchdogRelaunches(r) PROVE HeldLive'
  <2>1. ASSUME NEW c \in Children, Launched(c), wd[r] = "relaunch",
                fresh' = [fresh EXCEPT ![r] = c], wd' = [wd EXCEPT ![r] = "install"],
                UNCHANGED <<client, leased, boundTo, watchRest>> PROVE HeldLive'
    BY <1>11, <2>1, InsideStays, InsideIn DEF Launched, watchRest,
        poolVars, loopVars, TypeOK, StepsFit, HeldLive, PlacesApart,
        Live
  <2>2. CASE /\ wd[r] = "relaunch" /\ wd' = [wd EXCEPT ![r] = "off"]
             /\ UNCHANGED <<fresh, os, client, leased, boundTo, watchRest>>
    BY <1>11, <2>2, InsideStays, InsideIn DEF Launched, watchRest,
        poolVars, loopVars, TypeOK, StepsFit, HeldLive, PlacesApart,
        Live
  <2> QED BY <1>11, <2>1, <2>2 DEF WatchdogRelaunches
<1>12. ASSUME NEW r \in Runners, WatchdogInstalls(r) PROVE HeldLive'
  <2>1. CASE /\ ended[r] /\ StopAll({fresh[r]}) /\ wd[r] = "install"
             /\ wd' = [wd EXCEPT ![r] = "off"]
             /\ fresh' = [fresh EXCEPT ![r] = NoChild]
             /\ UNCHANGED <<client, leased, watchRest>>
    BY <1>12, <2>1, InsideStays, InsideIn DEF StopAll, watchRest,
        poolVars, loopVars, childVars, TypeOK, StepsFit, HeldLive,
        PlacesApart, Live
  <2>2. CASE /\ ~ended[r] /\ wd[r] = "install" /\ client' = [client EXCEPT ![r] = fresh[r]]
             /\ fresh' = [fresh EXCEPT ![r] = NoChild]
             /\ wd' = [wd EXCEPT ![r] = "watch"]
             /\ UNCHANGED <<childVars, leased, watchRest>>
    BY <1>12, <2>2, InsideStays, InsideIn DEF StopAll, watchRest,
        poolVars, loopVars, childVars, TypeOK, StepsFit, HeldLive,
        PlacesApart, Live
  <2> QED BY <1>12, <2>1, <2>2 DEF WatchdogInstalls
<1>13. ASSUME NEW r \in Runners, WatchdogQuits(r) PROVE HeldLive'
  BY <1>13, InsideStays, InsideIn DEF WatchdogQuits, watchRest,
      poolVars, loopVars, childVars, TypeOK, StepsFit, HeldLive,
      PlacesApart, Live
<1>14. ASSUME NEW r \in Runners, Rebind(r) PROVE HeldLive'
  BY <1>14, InsideStays, InsideIn DEF Rebind, healthy, watchRest,
      poolVars, loopVars, watchVars, TypeOK, StepsFit, HeldLive,
      PlacesApart, Live
<1>15. ASSUME NEW r \in Runners, CloseBegins(r) PROVE HeldLive'
  BY <1>15, InsideStays, InsideIn DEF CloseBegins, Go, poolVars,
      loopVars, childVars, watchVars, TypeOK, StepsFit, HeldLive,
      PlacesApart, Live
<1>16. ASSUME NEW r \in Runners, CloseTakes(r) PROVE HeldLive'
  BY <1>16, InsideStays, InsideIn DEF CloseTakes, Go, poolVars,
      loopVars, childVars, watchVars, TypeOK, StepsFit, HeldLive,
      PlacesApart, Live
<1>17. ASSUME NEW r \in Runners, CloseUnbinds(r) PROVE HeldLive'
  BY <1>17, InsideStays, InsideIn DEF CloseUnbinds, Go, StopAll,
      healthy, poolVars, loopVars, watchVars, TypeOK, StepsFit,
      HeldLive, PlacesApart, Live
<1>18. ASSUME NEW r \in Runners, ReleaseSlot(r) PROVE HeldLive'
  <2>1. CASE /\ Discard(r, "release") /\ pooled' = [pooled EXCEPT ![r] = FALSE]
             /\ UNCHANGED <<idle, closeRest>>
    BY <1>18, <2>1, InsideStays, InsideIn DEF Discard, Go, StopAll,
        closeRest, loopVars, childVars, watchVars, TypeOK, StepsFit,
        HeldLive, PlacesApart, Live
  <2>2. CASE /\ Go(r, "release", "ping") /\ pooled' = [pooled EXCEPT ![r] = FALSE]
             /\ UNCHANGED <<client, childVars, idle, closeRest>>
    BY <1>18, <2>2, InsideStays, InsideIn DEF Discard, Go, StopAll,
        closeRest, loopVars, childVars, watchVars, TypeOK, StepsFit,
        HeldLive, PlacesApart, Live
  <2> QED BY <1>18, <2>1, <2>2 DEF ReleaseSlot
<1>19. ASSUME NEW r \in Runners, ReleasePings(r) PROVE HeldLive'
  <2>1. CASE /\ Discard(r, "ping") /\ UNCHANGED <<idle, active, pooled, closeRest>>
    BY <1>19, <2>1, InsideStays, InsideIn DEF Discard, Go, StopAll,
        healthy, closeRest, loopVars, childVars, watchVars, TypeOK,
        StepsFit, HeldLive, PlacesApart, Live
  <2>2. CASE /\ healthy(client[r]) /\ Go(r, "ping", "return")
             /\ UNCHANGED <<client, childVars, idle, active, pooled, closeRest>>
    BY <1>19, <2>2, InsideStays, InsideIn DEF Discard, Go, StopAll,
        healthy, closeRest, loopVars, childVars, watchVars, TypeOK,
        StepsFit, HeldLive, PlacesApart, Live
  <2> QED BY <1>19, <2>1, <2>2 DEF ReleasePings
<1>20. ASSUME NEW r \in Runners, ReleaseReturns(r) PROVE HeldLive'
  <2>1. UNCHANGED <<loop, warm, wd, fresh, conf, used, closed, retrim, ended, leased, active, pooled>>
    BY <1>20 DEF ReleaseReturns, closeRest, loopVars, watchVars
  <2>2. CASE Inside' = Inside /\ Discard(r, "return")
    BY <1>20, <2>1, <2>2, Returns, InsideIn DEF Discard, Go, StopAll,
        childVars, TypeOK, StepsFit, HeldLive, PlacesApart, Live
  <2>3. CASE /\ Inside' = Inside \cup {client[r]} /\ Go(r, "return", "none")
             /\ client' = [client EXCEPT ![r] = NoChild] /\ UNCHANGED childVars
    BY <1>20, <2>1, <2>3, Returns, InsideIn DEF Go, childVars, TypeOK,
        StepsFit, HeldLive, PlacesApart, Live
  <2> QED BY <1>20, <2>2, <2>3, Returns
<1>21. ASSUME TrimIdle PROVE HeldLive'
  <2>1. PICK gone \in SUBSET Inside : Inside' = Inside \ gone /\ StopAll(gone)
    BY <1>21, ListCut
  <2>2. UNCHANGED <<loop, warm, active, used, conf, closed, runnerVars, watchVars>> /\ retrim' = FALSE
    BY <1>21 DEF TrimIdle, poolRest, loopVars
  <2> QED BY <2>1, <2>2, InsideIn DEF StopAll, loopVars, childVars,
          runnerVars, watchVars, TypeOK, StepsFit, HeldLive,
          PlacesApart, Live
<1>22. ASSUME Tick PROVE HeldLive'
  <2>1. PICK gone \in SUBSET Inside : Inside' = Inside \ gone /\ StopAll(gone)
    BY <1>22, ListCut
  <2>2. UNCHANGED <<warm, active, used, conf, closed, retrim, runnerVars, watchVars>> /\ loop = "wait" /\ loop' = "prewarm"
    BY <1>22 DEF Tick, poolRest, loopVars
  <2> QED BY <2>1, <2>2, InsideIn DEF StopAll, loopVars, childVars,
          runnerVars, watchVars, TypeOK, StepsFit, HeldLive,
          PlacesApart, Live
<1>23. ASSUME Prewarm PROVE HeldLive'
  BY <1>23, InsideStays, InsideIn DEF Prewarm, poolRest, childVars,
      runnerVars, watchVars, TypeOK, StepsFit, HeldLive, PlacesApart,
      Live
<1>24. ASSUME PrewarmLaunches PROVE HeldLive'
  BY <1>24, InsideStays, InsideIn DEF PrewarmLaunches, Launched,
      poolRest, runnerVars, watchVars, TypeOK, StepsFit, HeldLive,
      PlacesApart, Live
<1>25. ASSUME PrewarmKeeps PROVE HeldLive'
  <2>1. UNCHANGED <<active, used, conf, closed, retrim, runnerVars, watchVars>>
    BY <1>25 DEF PrewarmKeeps, poolRest
  <2> QED BY <1>25, <2>1, Keeps, InsideIn DEF StopAll, childVars,
          runnerVars, watchVars, TypeOK, StepsFit, HeldLive,
          PlacesApart, Live
<1>26. ASSUME LoopEnds PROVE HeldLive'
  BY <1>26, InsideStays, InsideIn DEF LoopEnds, poolVars, childVars,
      runnerVars, watchVars, TypeOK, StepsFit, HeldLive, PlacesApart,
      Live
<1>27. ASSUME PoolCloses PROVE HeldLive'
  <2>1. UNCHANGED <<loop, warm, active, used, conf, retrim, runnerVars, watchVars>> /\ closed' = TRUE
    BY <1>27 DEF PoolCloses, poolRest, loopVars
  <2> QED BY <1>27, <2>1, ListEmptied, InsideIn DEF StopAll,
          childVars, runnerVars, watchVars, TypeOK, StepsFit,
          HeldLive, PlacesApart, Live
<1>28. ASSUME NEW s \in Settings, SetSettings(s) PROVE HeldLive'
  BY <1>28, Resets, InsideIn DEF SetSettings, poolRest, loopVars,
      childVars, runnerVars, watchVars, TypeOK, StepsFit, HeldLive,
      PlacesApart, Live
<1>29. ASSUME NEW c \in Children, ChildFails(c) PROVE HeldLive'
  BY <1>29, InsideStays, InsideIn DEF ChildFails, poolVars, loopVars,
      runnerVars, watchVars, TypeOK, StepsFit, HeldLive, PlacesApart,
      Live
<1>30. CASE UNCHANGED vars
  BY <1>30, InsideStays, InsideIn DEF vars, poolVars, loopVars,
      childVars, runnerVars, watchVars, TypeOK, StepsFit, HeldLive,
      PlacesApart, Live
<1> QED BY <1>1, <1>2, <1>3, <1>4, <1>5, <1>6, <1>7, <1>8, <1>9, <1>10,
     <1>11, <1>12, <1>13, <1>14, <1>15, <1>16, <1>17, <1>18, <1>19,
     <1>20, <1>21, <1>22, <1>23, <1>24, <1>25, <1>26, <1>27, <1>28,
     <1>29, <1>30
       DEF Next, Leasing, Watching, Closing, Janitor

\* No step puts a child in two places.
LEMMA ApartStep ==
  ASSUME TypeOK, ListOK, HeldLive, PlacesApart, LiveHeld, StepsFit,
         [Next]_vars
  PROVE  PlacesApart'
<1>1. ASSUME NEW r \in Runners, LeaseBegins(r) PROVE PlacesApart'
  BY <1>1, InsideStays, InsideIn DEF LeaseBegins, Go, poolVars,
      loopVars, childVars, watchVars, TypeOK, StepsFit, HeldLive,
      PlacesApart, Live
<1>2. ASSUME NEW r \in Runners, LeaseRefused(r) PROVE PlacesApart'
  BY <1>2, InsideStays, InsideIn DEF LeaseRefused, Go, poolVars,
      loopVars, childVars, watchVars, TypeOK, StepsFit, HeldLive,
      PlacesApart, Live
<1>3. ASSUME NEW r \in Runners, TakeIdle(r) PROVE PlacesApart'
  <2>1. PICK c \in Inside : /\ Inside' = Inside \ {c} /\ Go(r, "scan", "check")
                          /\ client' = [client EXCEPT ![r] = c]
    BY <1>3, ListTakes DEF TakeIdle
  <2>2. UNCHANGED <<active, childVars, leased, pooled, leaseRest>> BY <1>3 DEF TakeIdle
  <2> QED BY <2>1, <2>2, InsideIn DEF Go, leaseRest, loopVars,
          childVars, watchVars, TypeOK, StepsFit, HeldLive,
          PlacesApart, Live
<1>4. ASSUME NEW r \in Runners, CheckIdle(r) PROVE PlacesApart'
  <2>1. CASE /\ Go(r, "check", "scan") /\ StopAll({client[r]})
             /\ client' = [client EXCEPT ![r] = NoChild]
             /\ UNCHANGED <<idle, active, leased, pooled, leaseRest>>
    BY <1>4, <2>1, InsideStays, InsideIn DEF Go, StopAll, healthy,
        leaseRest, loopVars, childVars, watchVars, TypeOK, StepsFit,
        HeldLive, PlacesApart, Live
  <2>2. CASE /\ healthy(client[r]) /\ Go(r, "check", "take")
             /\ UNCHANGED <<client, childVars, idle, active, leased, pooled, leaseRest>>
    BY <1>4, <2>2, InsideStays, InsideIn DEF Go, StopAll, healthy,
        leaseRest, loopVars, childVars, watchVars, TypeOK, StepsFit,
        HeldLive, PlacesApart, Live
  <2> QED BY <1>4, <2>1, <2>2 DEF CheckIdle
<1>5. ASSUME NEW r \in Runners, KeepIdle(r) PROVE PlacesApart'
  <2>1. CASE /\ closed /\ Go(r, "take", "none") /\ StopAll({client[r]})
             /\ client' = [client EXCEPT ![r] = NoChild]
             /\ UNCHANGED <<idle, active, pooled, leased, leaseRest>>
    BY <1>5, <2>1, InsideStays, InsideIn DEF Go, StopAll, leaseRest,
        loopVars, childVars, watchVars, TypeOK, StepsFit, HeldLive,
        PlacesApart, Live
  <2>2. CASE /\ ~closed /\ Go(r, "take", "bind") /\ pooled' = [pooled EXCEPT ![r] = TRUE]
             /\ UNCHANGED <<client, childVars, idle, leased, leaseRest>>
    BY <1>5, <2>2, InsideStays, InsideIn DEF Go, StopAll, leaseRest,
        loopVars, childVars, watchVars, TypeOK, StepsFit, HeldLive,
        PlacesApart, Live
  <2> QED BY <1>5, <2>1, <2>2 DEF KeepIdle
<1>6. ASSUME NEW r \in Runners, LeaseLaunches(r) PROVE PlacesApart'
  BY <1>6, InsideStays, InsideIn DEF LeaseLaunches, Go, leaseRest,
      loopVars, childVars, watchVars, TypeOK, StepsFit, HeldLive,
      PlacesApart, Live
<1>7. ASSUME NEW r \in Runners, LaunchEnds(r) PROVE PlacesApart'
  <2>1. ASSUME NEW c \in Children, Launched(c), Go(r, "launch", "bind"),
                client' = [client EXCEPT ![r] = c],
                UNCHANGED <<active, pooled, boundTo, idle, leased, leaseRest>> PROVE PlacesApart'
    BY <1>7, <2>1, InsideStays, InsideIn DEF Launched, Go, leaseRest,
        loopVars, childVars, watchVars, TypeOK, StepsFit, HeldLive,
        PlacesApart, Live
  <2>2. CASE /\ Go(r, "launch", "none") /\ pooled' = [pooled EXCEPT ![r] = FALSE]
             /\ UNCHANGED <<client, childVars, idle, leased, leaseRest>>
    BY <1>7, <2>2, InsideStays, InsideIn DEF Launched, Go, leaseRest,
        loopVars, childVars, watchVars, TypeOK, StepsFit, HeldLive,
        PlacesApart, Live
  <2> QED BY <1>7, <2>1, <2>2 DEF LaunchEnds
<1>8. ASSUME NEW r \in Runners, BindEnds(r) PROVE PlacesApart'
  <2>1. CASE /\ healthy(client[r]) /\ Go(r, "bind", "leased")
             /\ boundTo' = [boundTo EXCEPT ![client[r]] = r]
             /\ leased' = [leased EXCEPT ![r] = client[r]]
             /\ wd' = [wd EXCEPT ![r] = "watch"] /\ used' = TRUE
             /\ UNCHANGED <<client, os, active, pooled, idle, loopVars, fresh,
                            conf, closed, retrim, ended>>
    BY <1>8, <2>1, InsideStays, InsideIn DEF Go, StopAll, healthy,
        loopVars, TypeOK, StepsFit, HeldLive, PlacesApart, Live
  <2>2. CASE /\ Go(r, "bind", "none") /\ StopAll({client[r]})
             /\ client' = [client EXCEPT ![r] = NoChild]
             /\ pooled' = [pooled EXCEPT ![r] = FALSE]
             /\ UNCHANGED <<leased, wd, used, idle, loopVars, fresh, conf,
                            closed, retrim, ended>>
    BY <1>8, <2>2, InsideStays, InsideIn DEF Go, StopAll, healthy,
        loopVars, TypeOK, StepsFit, HeldLive, PlacesApart, Live
  <2> QED BY <1>8, <2>1, <2>2 DEF BindEnds
<1>9. ASSUME NEW r \in Runners, WatchdogDrops(r) PROVE PlacesApart'
  BY <1>9, InsideStays, InsideIn DEF WatchdogDrops, healthy, watchRest,
      poolVars, loopVars, childVars, TypeOK, StepsFit, HeldLive,
      PlacesApart, Live
<1>10. ASSUME NEW r \in Runners, WatchdogStops(r) PROVE PlacesApart'
  BY <1>10, InsideStays, InsideIn DEF WatchdogStops, StopAll, watchRest,
      poolVars, loopVars, TypeOK, StepsFit, HeldLive, PlacesApart, Live
<1>11. ASSUME NEW r \in Runners, WatchdogRelaunches(r) PROVE PlacesApart'
  <2>1. ASSUME NEW c \in Children, Launched(c), wd[r] = "relaunch",
                fresh' = [fresh EXCEPT ![r] = c], wd' = [wd EXCEPT ![r] = "install"],
                UNCHANGED <<client, leased, boundTo, watchRest>> PROVE PlacesApart'
    BY <1>11, <2>1, InsideStays, InsideIn DEF Launched, watchRest,
        poolVars, loopVars, TypeOK, StepsFit, HeldLive, PlacesApart,
        Live
  <2>2. CASE /\ wd[r] = "relaunch" /\ wd' = [wd EXCEPT ![r] = "off"]
             /\ UNCHANGED <<fresh, os, client, leased, boundTo, watchRest>>
    BY <1>11, <2>2, InsideStays, InsideIn DEF Launched, watchRest,
        poolVars, loopVars, TypeOK, StepsFit, HeldLive, PlacesApart,
        Live
  <2> QED BY <1>11, <2>1, <2>2 DEF WatchdogRelaunches
<1>12. ASSUME NEW r \in Runners, WatchdogInstalls(r) PROVE PlacesApart'
  <2>1. CASE /\ ended[r] /\ StopAll({fresh[r]}) /\ wd[r] = "install"
             /\ wd' = [wd EXCEPT ![r] = "off"]
             /\ fresh' = [fresh EXCEPT ![r] = NoChild]
             /\ UNCHANGED <<client, leased, watchRest>>
    BY <1>12, <2>1, InsideStays, InsideIn DEF StopAll, watchRest,
        poolVars, loopVars, childVars, TypeOK, StepsFit, HeldLive,
        PlacesApart, Live
  <2>2. CASE /\ ~ended[r] /\ wd[r] = "install" /\ client' = [client EXCEPT ![r] = fresh[r]]
             /\ fresh' = [fresh EXCEPT ![r] = NoChild]
             /\ wd' = [wd EXCEPT ![r] = "watch"]
             /\ UNCHANGED <<childVars, leased, watchRest>>
    BY <1>12, <2>2, InsideStays, InsideIn DEF StopAll, watchRest,
        poolVars, loopVars, childVars, TypeOK, StepsFit, HeldLive,
        PlacesApart, Live
  <2> QED BY <1>12, <2>1, <2>2 DEF WatchdogInstalls
<1>13. ASSUME NEW r \in Runners, WatchdogQuits(r) PROVE PlacesApart'
  BY <1>13, InsideStays, InsideIn DEF WatchdogQuits, watchRest,
      poolVars, loopVars, childVars, TypeOK, StepsFit, HeldLive,
      PlacesApart, Live
<1>14. ASSUME NEW r \in Runners, Rebind(r) PROVE PlacesApart'
  BY <1>14, InsideStays, InsideIn DEF Rebind, healthy, watchRest,
      poolVars, loopVars, watchVars, TypeOK, StepsFit, HeldLive,
      PlacesApart, Live
<1>15. ASSUME NEW r \in Runners, CloseBegins(r) PROVE PlacesApart'
  BY <1>15, InsideStays, InsideIn DEF CloseBegins, Go, poolVars,
      loopVars, childVars, watchVars, TypeOK, StepsFit, HeldLive,
      PlacesApart, Live
<1>16. ASSUME NEW r \in Runners, CloseTakes(r) PROVE PlacesApart'
  BY <1>16, InsideStays, InsideIn DEF CloseTakes, Go, poolVars,
      loopVars, childVars, watchVars, TypeOK, StepsFit, HeldLive,
      PlacesApart, Live
<1>17. ASSUME NEW r \in Runners, CloseUnbinds(r) PROVE PlacesApart'
  BY <1>17, InsideStays, InsideIn DEF CloseUnbinds, Go, StopAll,
      healthy, poolVars, loopVars, watchVars, TypeOK, StepsFit,
      HeldLive, PlacesApart, Live
<1>18. ASSUME NEW r \in Runners, ReleaseSlot(r) PROVE PlacesApart'
  <2>1. CASE /\ Discard(r, "release") /\ pooled' = [pooled EXCEPT ![r] = FALSE]
             /\ UNCHANGED <<idle, closeRest>>
    BY <1>18, <2>1, InsideStays, InsideIn DEF Discard, Go, StopAll,
        closeRest, loopVars, childVars, watchVars, TypeOK, StepsFit,
        HeldLive, PlacesApart, Live
  <2>2. CASE /\ Go(r, "release", "ping") /\ pooled' = [pooled EXCEPT ![r] = FALSE]
             /\ UNCHANGED <<client, childVars, idle, closeRest>>
    BY <1>18, <2>2, InsideStays, InsideIn DEF Discard, Go, StopAll,
        closeRest, loopVars, childVars, watchVars, TypeOK, StepsFit,
        HeldLive, PlacesApart, Live
  <2> QED BY <1>18, <2>1, <2>2 DEF ReleaseSlot
<1>19. ASSUME NEW r \in Runners, ReleasePings(r) PROVE PlacesApart'
  <2>1. CASE /\ Discard(r, "ping") /\ UNCHANGED <<idle, active, pooled, closeRest>>
    BY <1>19, <2>1, InsideStays, InsideIn DEF Discard, Go, StopAll,
        healthy, closeRest, loopVars, childVars, watchVars, TypeOK,
        StepsFit, HeldLive, PlacesApart, Live
  <2>2. CASE /\ healthy(client[r]) /\ Go(r, "ping", "return")
             /\ UNCHANGED <<client, childVars, idle, active, pooled, closeRest>>
    BY <1>19, <2>2, InsideStays, InsideIn DEF Discard, Go, StopAll,
        healthy, closeRest, loopVars, childVars, watchVars, TypeOK,
        StepsFit, HeldLive, PlacesApart, Live
  <2> QED BY <1>19, <2>1, <2>2 DEF ReleasePings
<1>20. ASSUME NEW r \in Runners, ReleaseReturns(r) PROVE PlacesApart'
  <2>1. UNCHANGED <<loop, warm, wd, fresh, conf, used, closed, retrim, ended, leased, active, pooled>>
    BY <1>20 DEF ReleaseReturns, closeRest, loopVars, watchVars
  <2>2. CASE Inside' = Inside /\ Discard(r, "return")
    BY <1>20, <2>1, <2>2, Returns, InsideIn DEF Discard, Go, StopAll,
        childVars, TypeOK, StepsFit, HeldLive, PlacesApart, Live
  <2>3. CASE /\ Inside' = Inside \cup {client[r]} /\ Go(r, "return", "none")
             /\ client' = [client EXCEPT ![r] = NoChild] /\ UNCHANGED childVars
    BY <1>20, <2>1, <2>3, Returns, InsideIn DEF Go, childVars, TypeOK,
        StepsFit, HeldLive, PlacesApart, Live
  <2> QED BY <1>20, <2>2, <2>3, Returns
<1>21. ASSUME TrimIdle PROVE PlacesApart'
  <2>1. PICK gone \in SUBSET Inside : Inside' = Inside \ gone /\ StopAll(gone)
    BY <1>21, ListCut
  <2>2. UNCHANGED <<loop, warm, active, used, conf, closed, runnerVars, watchVars>> /\ retrim' = FALSE
    BY <1>21 DEF TrimIdle, poolRest, loopVars
  <2> QED BY <2>1, <2>2, InsideIn DEF StopAll, loopVars, childVars,
          runnerVars, watchVars, TypeOK, StepsFit, HeldLive,
          PlacesApart, Live
<1>22. ASSUME Tick PROVE PlacesApart'
  <2>1. PICK gone \in SUBSET Inside : Inside' = Inside \ gone /\ StopAll(gone)
    BY <1>22, ListCut
  <2>2. UNCHANGED <<warm, active, used, conf, closed, retrim, runnerVars, watchVars>> /\ loop = "wait" /\ loop' = "prewarm"
    BY <1>22 DEF Tick, poolRest, loopVars
  <2> QED BY <2>1, <2>2, InsideIn DEF StopAll, loopVars, childVars,
          runnerVars, watchVars, TypeOK, StepsFit, HeldLive,
          PlacesApart, Live
<1>23. ASSUME Prewarm PROVE PlacesApart'
  BY <1>23, InsideStays, InsideIn DEF Prewarm, poolRest, childVars,
      runnerVars, watchVars, TypeOK, StepsFit, HeldLive, PlacesApart,
      Live
<1>24. ASSUME PrewarmLaunches PROVE PlacesApart'
  BY <1>24, InsideStays, InsideIn DEF PrewarmLaunches, Launched,
      poolRest, runnerVars, watchVars, TypeOK, StepsFit, HeldLive,
      PlacesApart, Live
<1>25. ASSUME PrewarmKeeps PROVE PlacesApart'
  <2>1. UNCHANGED <<active, used, conf, closed, retrim, runnerVars, watchVars>>
    BY <1>25 DEF PrewarmKeeps, poolRest
  <2> QED BY <1>25, <2>1, Keeps, InsideIn DEF StopAll, childVars,
          runnerVars, watchVars, TypeOK, StepsFit, HeldLive,
          PlacesApart, Live
<1>26. ASSUME LoopEnds PROVE PlacesApart'
  BY <1>26, InsideStays, InsideIn DEF LoopEnds, poolVars, childVars,
      runnerVars, watchVars, TypeOK, StepsFit, HeldLive, PlacesApart,
      Live
<1>27. ASSUME PoolCloses PROVE PlacesApart'
  <2>1. UNCHANGED <<loop, warm, active, used, conf, retrim, runnerVars, watchVars>> /\ closed' = TRUE
    BY <1>27 DEF PoolCloses, poolRest, loopVars
  <2> QED BY <1>27, <2>1, ListEmptied, InsideIn DEF StopAll,
          childVars, runnerVars, watchVars, TypeOK, StepsFit,
          HeldLive, PlacesApart, Live
<1>28. ASSUME NEW s \in Settings, SetSettings(s) PROVE PlacesApart'
  BY <1>28, Resets, InsideIn DEF SetSettings, poolRest, loopVars,
      childVars, runnerVars, watchVars, TypeOK, StepsFit, HeldLive,
      PlacesApart, Live
<1>29. ASSUME NEW c \in Children, ChildFails(c) PROVE PlacesApart'
  BY <1>29, InsideStays, InsideIn DEF ChildFails, poolVars, loopVars,
      runnerVars, watchVars, TypeOK, StepsFit, HeldLive, PlacesApart,
      Live
<1>30. CASE UNCHANGED vars
  BY <1>30, InsideStays, InsideIn DEF vars, poolVars, loopVars,
      childVars, runnerVars, watchVars, TypeOK, StepsFit, HeldLive,
      PlacesApart, Live
<1> QED BY <1>1, <1>2, <1>3, <1>4, <1>5, <1>6, <1>7, <1>8, <1>9, <1>10,
     <1>11, <1>12, <1>13, <1>14, <1>15, <1>16, <1>17, <1>18, <1>19,
     <1>20, <1>21, <1>22, <1>23, <1>24, <1>25, <1>26, <1>27, <1>28,
     <1>29, <1>30
       DEF Next, Leasing, Watching, Closing, Janitor

\* No step loses a live child.
LEMMA HoldStep ==
  ASSUME TypeOK, ListOK, HeldLive, PlacesApart, LiveHeld, StepsFit,
         [Next]_vars
  PROVE  LiveHeld'
<1>1. ASSUME NEW r \in Runners, LeaseBegins(r) PROVE LiveHeld'
  BY <1>1, InsideStays, InsideIn DEF LeaseBegins, Go, poolVars,
      loopVars, childVars, watchVars, TypeOK, StepsFit, LiveHeld,
      PlacesApart, Live
<1>2. ASSUME NEW r \in Runners, LeaseRefused(r) PROVE LiveHeld'
  BY <1>2, InsideStays, InsideIn DEF LeaseRefused, Go, poolVars,
      loopVars, childVars, watchVars, TypeOK, StepsFit, LiveHeld,
      PlacesApart, Live
<1>3. ASSUME NEW r \in Runners, TakeIdle(r) PROVE LiveHeld'
  <2>1. PICK c \in Inside : /\ Inside' = Inside \ {c} /\ Go(r, "scan", "check")
                          /\ client' = [client EXCEPT ![r] = c]
    BY <1>3, ListTakes DEF TakeIdle
  <2>2. UNCHANGED <<active, childVars, leased, pooled, leaseRest>> BY <1>3 DEF TakeIdle
  <2> QED BY <2>1, <2>2, InsideIn DEF Go, leaseRest, loopVars,
          childVars, watchVars, TypeOK, StepsFit, LiveHeld,
          PlacesApart, Live
<1>4. ASSUME NEW r \in Runners, CheckIdle(r) PROVE LiveHeld'
  <2>1. CASE /\ Go(r, "check", "scan") /\ StopAll({client[r]})
             /\ client' = [client EXCEPT ![r] = NoChild]
             /\ UNCHANGED <<idle, active, leased, pooled, leaseRest>>
    BY <1>4, <2>1, InsideStays, InsideIn DEF Go, StopAll, healthy,
        leaseRest, loopVars, childVars, watchVars, TypeOK, StepsFit,
        LiveHeld, PlacesApart, Live
  <2>2. CASE /\ healthy(client[r]) /\ Go(r, "check", "take")
             /\ UNCHANGED <<client, childVars, idle, active, leased, pooled, leaseRest>>
    BY <1>4, <2>2, InsideStays, InsideIn DEF Go, StopAll, healthy,
        leaseRest, loopVars, childVars, watchVars, TypeOK, StepsFit,
        LiveHeld, PlacesApart, Live
  <2> QED BY <1>4, <2>1, <2>2 DEF CheckIdle
<1>5. ASSUME NEW r \in Runners, KeepIdle(r) PROVE LiveHeld'
  <2>1. CASE /\ closed /\ Go(r, "take", "none") /\ StopAll({client[r]})
             /\ client' = [client EXCEPT ![r] = NoChild]
             /\ UNCHANGED <<idle, active, pooled, leased, leaseRest>>
    BY <1>5, <2>1, InsideStays, InsideIn DEF Go, StopAll, leaseRest,
        loopVars, childVars, watchVars, TypeOK, StepsFit, LiveHeld,
        PlacesApart, Live
  <2>2. CASE /\ ~closed /\ Go(r, "take", "bind") /\ pooled' = [pooled EXCEPT ![r] = TRUE]
             /\ UNCHANGED <<client, childVars, idle, leased, leaseRest>>
    BY <1>5, <2>2, InsideStays, InsideIn DEF Go, StopAll, leaseRest,
        loopVars, childVars, watchVars, TypeOK, StepsFit, LiveHeld,
        PlacesApart, Live
  <2> QED BY <1>5, <2>1, <2>2 DEF KeepIdle
<1>6. ASSUME NEW r \in Runners, LeaseLaunches(r) PROVE LiveHeld'
  BY <1>6, InsideStays, InsideIn DEF LeaseLaunches, Go, leaseRest,
      loopVars, childVars, watchVars, TypeOK, StepsFit, LiveHeld,
      PlacesApart, Live
<1>7. ASSUME NEW r \in Runners, LaunchEnds(r) PROVE LiveHeld'
  <2>1. ASSUME NEW c \in Children, Launched(c), Go(r, "launch", "bind"),
                client' = [client EXCEPT ![r] = c],
                UNCHANGED <<active, pooled, boundTo, idle, leased, leaseRest>> PROVE LiveHeld'
    BY <1>7, <2>1, InsideStays, InsideIn DEF Launched, Go, leaseRest,
        loopVars, childVars, watchVars, TypeOK, StepsFit, LiveHeld,
        PlacesApart, Live
  <2>2. CASE /\ Go(r, "launch", "none") /\ pooled' = [pooled EXCEPT ![r] = FALSE]
             /\ UNCHANGED <<client, childVars, idle, leased, leaseRest>>
    BY <1>7, <2>2, InsideStays, InsideIn DEF Launched, Go, leaseRest,
        loopVars, childVars, watchVars, TypeOK, StepsFit, LiveHeld,
        PlacesApart, Live
  <2> QED BY <1>7, <2>1, <2>2 DEF LaunchEnds
<1>8. ASSUME NEW r \in Runners, BindEnds(r) PROVE LiveHeld'
  <2>1. CASE /\ healthy(client[r]) /\ Go(r, "bind", "leased")
             /\ boundTo' = [boundTo EXCEPT ![client[r]] = r]
             /\ leased' = [leased EXCEPT ![r] = client[r]]
             /\ wd' = [wd EXCEPT ![r] = "watch"] /\ used' = TRUE
             /\ UNCHANGED <<client, os, active, pooled, idle, loopVars, fresh,
                            conf, closed, retrim, ended>>
    BY <1>8, <2>1, InsideStays, InsideIn DEF Go, StopAll, healthy,
        loopVars, TypeOK, StepsFit, LiveHeld, PlacesApart, Live
  <2>2. CASE /\ Go(r, "bind", "none") /\ StopAll({client[r]})
             /\ client' = [client EXCEPT ![r] = NoChild]
             /\ pooled' = [pooled EXCEPT ![r] = FALSE]
             /\ UNCHANGED <<leased, wd, used, idle, loopVars, fresh, conf,
                            closed, retrim, ended>>
    BY <1>8, <2>2, InsideStays, InsideIn DEF Go, StopAll, healthy,
        loopVars, TypeOK, StepsFit, LiveHeld, PlacesApart, Live
  <2> QED BY <1>8, <2>1, <2>2 DEF BindEnds
<1>9. ASSUME NEW r \in Runners, WatchdogDrops(r) PROVE LiveHeld'
  BY <1>9, InsideStays, InsideIn DEF WatchdogDrops, healthy, watchRest,
      poolVars, loopVars, childVars, TypeOK, StepsFit, LiveHeld,
      PlacesApart, Live
<1>10. ASSUME NEW r \in Runners, WatchdogStops(r) PROVE LiveHeld'
  BY <1>10, InsideStays, InsideIn DEF WatchdogStops, StopAll, watchRest,
      poolVars, loopVars, TypeOK, StepsFit, LiveHeld, PlacesApart, Live
<1>11. ASSUME NEW r \in Runners, WatchdogRelaunches(r) PROVE LiveHeld'
  <2>1. ASSUME NEW c \in Children, Launched(c), wd[r] = "relaunch",
               fresh' = [fresh EXCEPT ![r] = c], UNCHANGED <<client, watchRest>>
        PROVE  LiveHeld'
    <3>1. fresh[r] = NoChild BY <2>1 DEF StepsFit
    <3>2. fresh'[r] = c /\ \A q \in Runners \ {r} : fresh'[q] = fresh[q]
      BY <2>1 DEF TypeOK
    <3>3. Inside' = Inside /\ warm' = warm /\ client' = client
      BY <2>1, InsideStays DEF watchRest, poolVars, loopVars
    <3>4. \A d \in Children : os'[d] # "none" => os[d] # "none" \/ d = c
      BY <2>1 DEF Launched, TypeOK
    <3> QED BY <3>1, <3>2, <3>3, <3>4, ExecPoolAssumption DEF LiveHeld, Live
  <2>2. CASE UNCHANGED <<fresh, os, client, watchRest>>
    BY <2>2, InsideStays DEF watchRest, poolVars, loopVars, LiveHeld, Live
  <2> QED BY <1>11, <2>1, <2>2 DEF WatchdogRelaunches
<1>12. ASSUME NEW r \in Runners, WatchdogInstalls(r) PROVE LiveHeld'
  <2>1. CASE /\ ended[r] /\ StopAll({fresh[r]}) /\ wd[r] = "install"
             /\ wd' = [wd EXCEPT ![r] = "off"]
             /\ fresh' = [fresh EXCEPT ![r] = NoChild]
             /\ UNCHANGED <<client, leased, watchRest>>
    BY <1>12, <2>1, InsideStays, InsideIn DEF StopAll, watchRest,
        poolVars, loopVars, childVars, TypeOK, StepsFit, LiveHeld,
        PlacesApart, Live
  <2>2. CASE /\ ~ended[r] /\ wd[r] = "install" /\ client' = [client EXCEPT ![r] = fresh[r]]
             /\ fresh' = [fresh EXCEPT ![r] = NoChild]
             /\ wd' = [wd EXCEPT ![r] = "watch"]
             /\ UNCHANGED <<childVars, leased, watchRest>>
    BY <1>12, <2>2, InsideStays, InsideIn DEF StopAll, watchRest,
        poolVars, loopVars, childVars, TypeOK, StepsFit, LiveHeld,
        PlacesApart, Live
  <2> QED BY <1>12, <2>1, <2>2 DEF WatchdogInstalls
<1>13. ASSUME NEW r \in Runners, WatchdogQuits(r) PROVE LiveHeld'
  BY <1>13, InsideStays, InsideIn DEF WatchdogQuits, watchRest,
      poolVars, loopVars, childVars, TypeOK, StepsFit, LiveHeld,
      PlacesApart, Live
<1>14. ASSUME NEW r \in Runners, Rebind(r) PROVE LiveHeld'
  BY <1>14, InsideStays, InsideIn DEF Rebind, healthy, watchRest,
      poolVars, loopVars, watchVars, TypeOK, StepsFit, LiveHeld,
      PlacesApart, Live
<1>15. ASSUME NEW r \in Runners, CloseBegins(r) PROVE LiveHeld'
  BY <1>15, InsideStays, InsideIn DEF CloseBegins, Go, poolVars,
      loopVars, childVars, watchVars, TypeOK, StepsFit, LiveHeld,
      PlacesApart, Live
<1>16. ASSUME NEW r \in Runners, CloseTakes(r) PROVE LiveHeld'
  BY <1>16, InsideStays, InsideIn DEF CloseTakes, Go, poolVars,
      loopVars, childVars, watchVars, TypeOK, StepsFit, LiveHeld,
      PlacesApart, Live
<1>17. ASSUME NEW r \in Runners, CloseUnbinds(r) PROVE LiveHeld'
  BY <1>17, InsideStays, InsideIn DEF CloseUnbinds, Go, StopAll,
      healthy, poolVars, loopVars, watchVars, TypeOK, StepsFit,
      LiveHeld, PlacesApart, Live
<1>18. ASSUME NEW r \in Runners, ReleaseSlot(r) PROVE LiveHeld'
  <2>1. CASE /\ Discard(r, "release") /\ pooled' = [pooled EXCEPT ![r] = FALSE]
             /\ UNCHANGED <<idle, closeRest>>
    BY <1>18, <2>1, InsideStays, InsideIn DEF Discard, Go, StopAll,
        closeRest, loopVars, childVars, watchVars, TypeOK, StepsFit,
        LiveHeld, PlacesApart, Live
  <2>2. CASE /\ Go(r, "release", "ping") /\ pooled' = [pooled EXCEPT ![r] = FALSE]
             /\ UNCHANGED <<client, childVars, idle, closeRest>>
    BY <1>18, <2>2, InsideStays, InsideIn DEF Discard, Go, StopAll,
        closeRest, loopVars, childVars, watchVars, TypeOK, StepsFit,
        LiveHeld, PlacesApart, Live
  <2> QED BY <1>18, <2>1, <2>2 DEF ReleaseSlot
<1>19. ASSUME NEW r \in Runners, ReleasePings(r) PROVE LiveHeld'
  <2>1. CASE /\ Discard(r, "ping") /\ UNCHANGED <<idle, active, pooled, closeRest>>
    BY <1>19, <2>1, InsideStays, InsideIn DEF Discard, Go, StopAll,
        healthy, closeRest, loopVars, childVars, watchVars, TypeOK,
        StepsFit, LiveHeld, PlacesApart, Live
  <2>2. CASE /\ healthy(client[r]) /\ Go(r, "ping", "return")
             /\ UNCHANGED <<client, childVars, idle, active, pooled, closeRest>>
    BY <1>19, <2>2, InsideStays, InsideIn DEF Discard, Go, StopAll,
        healthy, closeRest, loopVars, childVars, watchVars, TypeOK,
        StepsFit, LiveHeld, PlacesApart, Live
  <2> QED BY <1>19, <2>1, <2>2 DEF ReleasePings
<1>20. ASSUME NEW r \in Runners, ReleaseReturns(r) PROVE LiveHeld'
  <2>1. UNCHANGED <<loop, warm, wd, fresh, conf, used, closed, retrim, ended, leased, active, pooled>>
    BY <1>20 DEF ReleaseReturns, closeRest, loopVars, watchVars
  <2>2. CASE Inside' = Inside /\ Discard(r, "return")
    BY <1>20, <2>1, <2>2, Returns, InsideIn DEF Discard, Go, StopAll,
        childVars, TypeOK, StepsFit, LiveHeld, PlacesApart, Live
  <2>3. CASE /\ Inside' = Inside \cup {client[r]} /\ Go(r, "return", "none")
             /\ client' = [client EXCEPT ![r] = NoChild] /\ UNCHANGED childVars
    BY <1>20, <2>1, <2>3, Returns, InsideIn DEF Go, childVars, TypeOK,
        StepsFit, LiveHeld, PlacesApart, Live
  <2> QED BY <1>20, <2>2, <2>3, Returns
<1>21. ASSUME TrimIdle PROVE LiveHeld'
  <2>1. PICK gone \in SUBSET Inside : Inside' = Inside \ gone /\ StopAll(gone)
    BY <1>21, ListCut
  <2>2. UNCHANGED <<loop, warm, active, used, conf, closed, runnerVars, watchVars>> /\ retrim' = FALSE
    BY <1>21 DEF TrimIdle, poolRest, loopVars
  <2> QED BY <2>1, <2>2, InsideIn DEF StopAll, loopVars, childVars,
          runnerVars, watchVars, TypeOK, StepsFit, LiveHeld,
          PlacesApart, Live
<1>22. ASSUME Tick PROVE LiveHeld'
  <2>1. PICK gone \in SUBSET Inside : Inside' = Inside \ gone /\ StopAll(gone)
    BY <1>22, ListCut
  <2>2. UNCHANGED <<warm, active, used, conf, closed, retrim, runnerVars, watchVars>> /\ loop = "wait" /\ loop' = "prewarm"
    BY <1>22 DEF Tick, poolRest, loopVars
  <2> QED BY <2>1, <2>2, InsideIn DEF StopAll, loopVars, childVars,
          runnerVars, watchVars, TypeOK, StepsFit, LiveHeld,
          PlacesApart, Live
<1>23. ASSUME Prewarm PROVE LiveHeld'
  BY <1>23, InsideStays, InsideIn DEF Prewarm, poolRest, childVars,
      runnerVars, watchVars, TypeOK, StepsFit, LiveHeld, PlacesApart,
      Live
<1>24. ASSUME PrewarmLaunches PROVE LiveHeld'
  BY <1>24, InsideStays, InsideIn DEF PrewarmLaunches, Launched,
      poolRest, runnerVars, watchVars, TypeOK, StepsFit, LiveHeld,
      PlacesApart, Live
<1>25. ASSUME PrewarmKeeps PROVE LiveHeld'
  <2>1. UNCHANGED <<active, used, conf, closed, retrim, runnerVars, watchVars>>
    BY <1>25 DEF PrewarmKeeps, poolRest
  <2> QED BY <1>25, <2>1, Keeps, InsideIn DEF StopAll, childVars,
          runnerVars, watchVars, TypeOK, StepsFit, LiveHeld,
          PlacesApart, Live
<1>26. ASSUME LoopEnds PROVE LiveHeld'
  BY <1>26, InsideStays, InsideIn DEF LoopEnds, poolVars, childVars,
      runnerVars, watchVars, TypeOK, StepsFit, LiveHeld, PlacesApart,
      Live
<1>27. ASSUME PoolCloses PROVE LiveHeld'
  <2>1. UNCHANGED <<loop, warm, active, used, conf, retrim, runnerVars, watchVars>> /\ closed' = TRUE
    BY <1>27 DEF PoolCloses, poolRest, loopVars
  <2> QED BY <1>27, <2>1, ListEmptied, InsideIn DEF StopAll,
          childVars, runnerVars, watchVars, TypeOK, StepsFit,
          LiveHeld, PlacesApart, Live
<1>28. ASSUME NEW s \in Settings, SetSettings(s) PROVE LiveHeld'
  BY <1>28, Resets, InsideIn DEF SetSettings, poolRest, loopVars,
      childVars, runnerVars, watchVars, TypeOK, StepsFit, LiveHeld,
      PlacesApart, Live
<1>29. ASSUME NEW c \in Children, ChildFails(c) PROVE LiveHeld'
  BY <1>29, InsideStays, InsideIn DEF ChildFails, poolVars, loopVars,
      runnerVars, watchVars, TypeOK, StepsFit, LiveHeld, PlacesApart,
      Live
<1>30. CASE UNCHANGED vars
  BY <1>30, InsideStays, InsideIn DEF vars, poolVars, loopVars,
      childVars, runnerVars, watchVars, TypeOK, StepsFit, LiveHeld,
      PlacesApart, Live
<1> QED BY <1>1, <1>2, <1>3, <1>4, <1>5, <1>6, <1>7, <1>8, <1>9, <1>10,
     <1>11, <1>12, <1>13, <1>14, <1>15, <1>16, <1>17, <1>18, <1>19,
     <1>20, <1>21, <1>22, <1>23, <1>24, <1>25, <1>26, <1>27, <1>28,
     <1>29, <1>30
       DEF Next, Leasing, Watching, Closing, Janitor

\* What a runner holds fits its step after every action.
LEMMA FitStep ==
  ASSUME TypeOK, ListOK, HeldLive, PlacesApart, LiveHeld, StepsFit,
         [Next]_vars
  PROVE  StepsFit'
<1>1. ASSUME NEW r \in Runners, LeaseBegins(r) PROVE StepsFit'
  BY <1>1, InsideStays, InsideIn DEF LeaseBegins, Go, poolVars,
      loopVars, childVars, watchVars, TypeOK, StepsFit, HeldLive, Live,
      RunnerSteps
<1>2. ASSUME NEW r \in Runners, LeaseRefused(r) PROVE StepsFit'
  BY <1>2, InsideStays, InsideIn DEF LeaseRefused, Go, poolVars,
      loopVars, childVars, watchVars, TypeOK, StepsFit, HeldLive, Live,
      RunnerSteps
<1>3. ASSUME NEW r \in Runners, TakeIdle(r) PROVE StepsFit'
  <2>1. PICK c \in Inside : /\ Inside' = Inside \ {c} /\ Go(r, "scan", "check")
                          /\ client' = [client EXCEPT ![r] = c]
    BY <1>3, ListTakes DEF TakeIdle
  <2>2. UNCHANGED <<active, childVars, leased, pooled, leaseRest>> BY <1>3 DEF TakeIdle
  <2> QED BY <2>1, <2>2, InsideIn DEF Go, leaseRest, loopVars,
          childVars, watchVars, TypeOK, StepsFit, HeldLive, Live,
          RunnerSteps
<1>4. ASSUME NEW r \in Runners, CheckIdle(r) PROVE StepsFit'
  <2>1. CASE /\ Go(r, "check", "scan") /\ StopAll({client[r]})
             /\ client' = [client EXCEPT ![r] = NoChild]
             /\ UNCHANGED <<idle, active, leased, pooled, leaseRest>>
    BY <1>4, <2>1, InsideStays, InsideIn DEF Go, StopAll, healthy,
        leaseRest, loopVars, childVars, watchVars, TypeOK, StepsFit,
        HeldLive, Live, RunnerSteps
  <2>2. CASE /\ healthy(client[r]) /\ Go(r, "check", "take")
             /\ UNCHANGED <<client, childVars, idle, active, leased, pooled, leaseRest>>
    BY <1>4, <2>2, InsideStays, InsideIn DEF Go, StopAll, healthy,
        leaseRest, loopVars, childVars, watchVars, TypeOK, StepsFit,
        HeldLive, Live, RunnerSteps
  <2> QED BY <1>4, <2>1, <2>2 DEF CheckIdle
<1>5. ASSUME NEW r \in Runners, KeepIdle(r) PROVE StepsFit'
  <2>1. CASE /\ closed /\ Go(r, "take", "none") /\ StopAll({client[r]})
             /\ client' = [client EXCEPT ![r] = NoChild]
             /\ UNCHANGED <<idle, active, pooled, leased, leaseRest>>
    BY <1>5, <2>1, InsideStays, InsideIn DEF Go, StopAll, leaseRest,
        loopVars, childVars, watchVars, TypeOK, StepsFit, HeldLive,
        Live, RunnerSteps
  <2>2. CASE /\ ~closed /\ Go(r, "take", "bind") /\ pooled' = [pooled EXCEPT ![r] = TRUE]
             /\ UNCHANGED <<client, childVars, idle, leased, leaseRest>>
    BY <1>5, <2>2, InsideStays, InsideIn DEF Go, StopAll, leaseRest,
        loopVars, childVars, watchVars, TypeOK, StepsFit, HeldLive,
        Live, RunnerSteps
  <2> QED BY <1>5, <2>1, <2>2 DEF KeepIdle
<1>6. ASSUME NEW r \in Runners, LeaseLaunches(r) PROVE StepsFit'
  BY <1>6, InsideStays, InsideIn DEF LeaseLaunches, Go, leaseRest,
      loopVars, childVars, watchVars, TypeOK, StepsFit, HeldLive, Live,
      RunnerSteps
<1>7. ASSUME NEW r \in Runners, LaunchEnds(r) PROVE StepsFit'
  <2>1. ASSUME NEW c \in Children, Launched(c), Go(r, "launch", "bind"),
                client' = [client EXCEPT ![r] = c],
                UNCHANGED <<active, pooled, boundTo, idle, leased, leaseRest>> PROVE StepsFit'
    BY <1>7, <2>1, InsideStays, InsideIn DEF Launched, Go, leaseRest,
        loopVars, childVars, watchVars, TypeOK, StepsFit, HeldLive,
        Live, RunnerSteps
  <2>2. CASE /\ Go(r, "launch", "none") /\ pooled' = [pooled EXCEPT ![r] = FALSE]
             /\ UNCHANGED <<client, childVars, idle, leased, leaseRest>>
    BY <1>7, <2>2, InsideStays, InsideIn DEF Launched, Go, leaseRest,
        loopVars, childVars, watchVars, TypeOK, StepsFit, HeldLive,
        Live, RunnerSteps
  <2> QED BY <1>7, <2>1, <2>2 DEF LaunchEnds
<1>8. ASSUME NEW r \in Runners, BindEnds(r) PROVE StepsFit'
  <2>1. CASE /\ healthy(client[r]) /\ Go(r, "bind", "leased")
             /\ boundTo' = [boundTo EXCEPT ![client[r]] = r]
             /\ leased' = [leased EXCEPT ![r] = client[r]]
             /\ wd' = [wd EXCEPT ![r] = "watch"] /\ used' = TRUE
             /\ UNCHANGED <<client, os, active, pooled, idle, loopVars, fresh,
                            conf, closed, retrim, ended>>
    BY <1>8, <2>1, InsideStays, InsideIn DEF Go, StopAll, healthy,
        loopVars, TypeOK, StepsFit, HeldLive, Live, RunnerSteps
  <2>2. CASE /\ Go(r, "bind", "none") /\ StopAll({client[r]})
             /\ client' = [client EXCEPT ![r] = NoChild]
             /\ pooled' = [pooled EXCEPT ![r] = FALSE]
             /\ UNCHANGED <<leased, wd, used, idle, loopVars, fresh, conf,
                            closed, retrim, ended>>
    BY <1>8, <2>2, InsideStays, InsideIn DEF Go, StopAll, healthy,
        loopVars, TypeOK, StepsFit, HeldLive, Live, RunnerSteps
  <2> QED BY <1>8, <2>1, <2>2 DEF BindEnds
<1>9. ASSUME NEW r \in Runners, WatchdogDrops(r) PROVE StepsFit'
  BY <1>9, InsideStays, InsideIn DEF WatchdogDrops, healthy, watchRest,
      poolVars, loopVars, childVars, TypeOK, StepsFit, HeldLive, Live,
      RunnerSteps
<1>10. ASSUME NEW r \in Runners, WatchdogStops(r) PROVE StepsFit'
  BY <1>10, InsideStays, InsideIn DEF WatchdogStops, StopAll, watchRest,
      poolVars, loopVars, TypeOK, StepsFit, HeldLive, Live, RunnerSteps
<1>11. ASSUME NEW r \in Runners, WatchdogRelaunches(r) PROVE StepsFit'
  <2>1. ASSUME NEW c \in Children, Launched(c), wd[r] = "relaunch",
                fresh' = [fresh EXCEPT ![r] = c], wd' = [wd EXCEPT ![r] = "install"],
                UNCHANGED <<client, leased, boundTo, watchRest>> PROVE StepsFit'
    BY <1>11, <2>1, InsideStays, InsideIn DEF Launched, watchRest,
        poolVars, loopVars, TypeOK, StepsFit, HeldLive, Live,
        RunnerSteps
  <2>2. CASE /\ wd[r] = "relaunch" /\ wd' = [wd EXCEPT ![r] = "off"]
             /\ UNCHANGED <<fresh, os, client, leased, boundTo, watchRest>>
    BY <1>11, <2>2, InsideStays, InsideIn DEF Launched, watchRest,
        poolVars, loopVars, TypeOK, StepsFit, HeldLive, Live,
        RunnerSteps
  <2> QED BY <1>11, <2>1, <2>2 DEF WatchdogRelaunches
<1>12. ASSUME NEW r \in Runners, WatchdogInstalls(r) PROVE StepsFit'
  <2>1. CASE /\ ended[r] /\ StopAll({fresh[r]}) /\ wd[r] = "install"
             /\ wd' = [wd EXCEPT ![r] = "off"]
             /\ fresh' = [fresh EXCEPT ![r] = NoChild]
             /\ UNCHANGED <<client, leased, watchRest>>
    BY <1>12, <2>1, InsideStays, InsideIn DEF StopAll, watchRest,
        poolVars, loopVars, childVars, TypeOK, StepsFit, HeldLive,
        Live, RunnerSteps
  <2>2. CASE /\ ~ended[r] /\ wd[r] = "install" /\ client' = [client EXCEPT ![r] = fresh[r]]
             /\ fresh' = [fresh EXCEPT ![r] = NoChild]
             /\ wd' = [wd EXCEPT ![r] = "watch"]
             /\ UNCHANGED <<childVars, leased, watchRest>>
    BY <1>12, <2>2, InsideStays, InsideIn DEF StopAll, watchRest,
        poolVars, loopVars, childVars, TypeOK, StepsFit, HeldLive,
        Live, RunnerSteps
  <2> QED BY <1>12, <2>1, <2>2 DEF WatchdogInstalls
<1>13. ASSUME NEW r \in Runners, WatchdogQuits(r) PROVE StepsFit'
  BY <1>13, InsideStays, InsideIn DEF WatchdogQuits, watchRest,
      poolVars, loopVars, childVars, TypeOK, StepsFit, HeldLive, Live,
      RunnerSteps
<1>14. ASSUME NEW r \in Runners, Rebind(r) PROVE StepsFit'
  BY <1>14, InsideStays, InsideIn DEF Rebind, healthy, watchRest,
      poolVars, loopVars, watchVars, TypeOK, StepsFit, HeldLive, Live,
      RunnerSteps
<1>15. ASSUME NEW r \in Runners, CloseBegins(r) PROVE StepsFit'
  BY <1>15, InsideStays, InsideIn DEF CloseBegins, Go, poolVars,
      loopVars, childVars, watchVars, TypeOK, StepsFit, HeldLive, Live,
      RunnerSteps
<1>16. ASSUME NEW r \in Runners, CloseTakes(r) PROVE StepsFit'
  BY <1>16, InsideStays, InsideIn DEF CloseTakes, Go, poolVars,
      loopVars, childVars, watchVars, TypeOK, StepsFit, HeldLive, Live,
      RunnerSteps
<1>17. ASSUME NEW r \in Runners, CloseUnbinds(r) PROVE StepsFit'
  BY <1>17, InsideStays, InsideIn DEF CloseUnbinds, Go, StopAll,
      healthy, poolVars, loopVars, watchVars, TypeOK, StepsFit,
      HeldLive, Live, RunnerSteps
<1>18. ASSUME NEW r \in Runners, ReleaseSlot(r) PROVE StepsFit'
  <2>1. CASE /\ Discard(r, "release") /\ pooled' = [pooled EXCEPT ![r] = FALSE]
             /\ UNCHANGED <<idle, closeRest>>
    BY <1>18, <2>1, InsideStays, InsideIn DEF Discard, Go, StopAll,
        closeRest, loopVars, childVars, watchVars, TypeOK, StepsFit,
        HeldLive, Live, RunnerSteps
  <2>2. CASE /\ Go(r, "release", "ping") /\ pooled' = [pooled EXCEPT ![r] = FALSE]
             /\ UNCHANGED <<client, childVars, idle, closeRest>>
    BY <1>18, <2>2, InsideStays, InsideIn DEF Discard, Go, StopAll,
        closeRest, loopVars, childVars, watchVars, TypeOK, StepsFit,
        HeldLive, Live, RunnerSteps
  <2> QED BY <1>18, <2>1, <2>2 DEF ReleaseSlot
<1>19. ASSUME NEW r \in Runners, ReleasePings(r) PROVE StepsFit'
  <2>1. CASE /\ Discard(r, "ping") /\ UNCHANGED <<idle, active, pooled, closeRest>>
    BY <1>19, <2>1, InsideStays, InsideIn DEF Discard, Go, StopAll,
        healthy, closeRest, loopVars, childVars, watchVars, TypeOK,
        StepsFit, HeldLive, Live, RunnerSteps
  <2>2. CASE /\ healthy(client[r]) /\ Go(r, "ping", "return")
             /\ UNCHANGED <<client, childVars, idle, active, pooled, closeRest>>
    BY <1>19, <2>2, InsideStays, InsideIn DEF Discard, Go, StopAll,
        healthy, closeRest, loopVars, childVars, watchVars, TypeOK,
        StepsFit, HeldLive, Live, RunnerSteps
  <2> QED BY <1>19, <2>1, <2>2 DEF ReleasePings
<1>20. ASSUME NEW r \in Runners, ReleaseReturns(r) PROVE StepsFit'
  <2>1. UNCHANGED <<loop, warm, wd, fresh, conf, used, closed, retrim, ended, leased, active, pooled>>
    BY <1>20 DEF ReleaseReturns, closeRest, loopVars, watchVars
  <2>2. CASE Inside' = Inside /\ Discard(r, "return")
    BY <1>20, <2>1, <2>2, Returns, InsideIn DEF Discard, Go, StopAll,
        childVars, TypeOK, StepsFit, HeldLive, Live, RunnerSteps
  <2>3. CASE /\ Inside' = Inside \cup {client[r]} /\ Go(r, "return", "none")
             /\ client' = [client EXCEPT ![r] = NoChild] /\ UNCHANGED childVars
    BY <1>20, <2>1, <2>3, Returns, InsideIn DEF Go, childVars, TypeOK,
        StepsFit, HeldLive, Live, RunnerSteps
  <2> QED BY <1>20, <2>2, <2>3, Returns
<1>21. ASSUME TrimIdle PROVE StepsFit'
  <2>1. PICK gone \in SUBSET Inside : Inside' = Inside \ gone /\ StopAll(gone)
    BY <1>21, ListCut
  <2>2. UNCHANGED <<loop, warm, active, used, conf, closed, runnerVars, watchVars>> /\ retrim' = FALSE
    BY <1>21 DEF TrimIdle, poolRest, loopVars
  <2> QED BY <2>1, <2>2, InsideIn DEF StopAll, loopVars, childVars,
          runnerVars, watchVars, TypeOK, StepsFit, HeldLive, Live,
          RunnerSteps
<1>22. ASSUME Tick PROVE StepsFit'
  <2>1. PICK gone \in SUBSET Inside : Inside' = Inside \ gone /\ StopAll(gone)
    BY <1>22, ListCut
  <2>2. UNCHANGED <<warm, active, used, conf, closed, retrim, runnerVars, watchVars>> /\ loop = "wait" /\ loop' = "prewarm"
    BY <1>22 DEF Tick, poolRest, loopVars
  <2> QED BY <2>1, <2>2, InsideIn DEF StopAll, loopVars, childVars,
          runnerVars, watchVars, TypeOK, StepsFit, HeldLive, Live,
          RunnerSteps
<1>23. ASSUME Prewarm PROVE StepsFit'
  BY <1>23, InsideStays, InsideIn DEF Prewarm, poolRest, childVars,
      runnerVars, watchVars, TypeOK, StepsFit, HeldLive, Live,
      RunnerSteps
<1>24. ASSUME PrewarmLaunches PROVE StepsFit'
  BY <1>24, InsideStays, InsideIn DEF PrewarmLaunches, Launched,
      poolRest, runnerVars, watchVars, TypeOK, StepsFit, HeldLive, Live,
      RunnerSteps
<1>25. ASSUME PrewarmKeeps PROVE StepsFit'
  <2>1. UNCHANGED <<active, used, conf, closed, retrim, runnerVars, watchVars>>
    BY <1>25 DEF PrewarmKeeps, poolRest
  <2> QED BY <1>25, <2>1, Keeps, InsideIn DEF StopAll, childVars,
          runnerVars, watchVars, TypeOK, StepsFit, HeldLive, Live,
          RunnerSteps
<1>26. ASSUME LoopEnds PROVE StepsFit'
  BY <1>26, InsideStays, InsideIn DEF LoopEnds, poolVars, childVars,
      runnerVars, watchVars, TypeOK, StepsFit, HeldLive, Live,
      RunnerSteps
<1>27. ASSUME PoolCloses PROVE StepsFit'
  <2>1. UNCHANGED <<loop, warm, active, used, conf, retrim, runnerVars, watchVars>> /\ closed' = TRUE
    BY <1>27 DEF PoolCloses, poolRest, loopVars
  <2> QED BY <1>27, <2>1, ListEmptied, InsideIn DEF StopAll,
          childVars, runnerVars, watchVars, TypeOK, StepsFit,
          HeldLive, Live, RunnerSteps
<1>28. ASSUME NEW s \in Settings, SetSettings(s) PROVE StepsFit'
  BY <1>28, Resets, InsideIn DEF SetSettings, poolRest, loopVars,
      childVars, runnerVars, watchVars, TypeOK, StepsFit, HeldLive,
      Live, RunnerSteps
<1>29. ASSUME NEW c \in Children, ChildFails(c) PROVE StepsFit'
  BY <1>29, InsideStays, InsideIn DEF ChildFails, poolVars, loopVars,
      runnerVars, watchVars, TypeOK, StepsFit, HeldLive, Live,
      RunnerSteps
<1>30. CASE UNCHANGED vars
  BY <1>30, InsideStays, InsideIn DEF vars, poolVars, loopVars,
      childVars, runnerVars, watchVars, TypeOK, StepsFit, HeldLive,
      Live, RunnerSteps
<1> QED BY <1>1, <1>2, <1>3, <1>4, <1>5, <1>6, <1>7, <1>8, <1>9, <1>10,
     <1>11, <1>12, <1>13, <1>14, <1>15, <1>16, <1>17, <1>18, <1>19,
     <1>20, <1>21, <1>22, <1>23, <1>24, <1>25, <1>26, <1>27, <1>28,
     <1>29, <1>30
       DEF Next, Leasing, Watching, Closing, Janitor

\* A child that a workspace is bound to never comes to the list.
LEMMA BoundStep ==
  ASSUME TypeOK, ListOK, HeldLive, PlacesApart, LiveHeld, StepsFit,
         BoundFit, [Next]_vars
  PROVE  BoundFit'
<1>1. ASSUME NEW r \in Runners, LeaseBegins(r) PROVE BoundFit'
  BY <1>1, InsideStays, InsideIn DEF LeaseBegins, Go, poolVars,
      loopVars, childVars, watchVars, TypeOK, StepsFit, HeldLive,
      PlacesApart, BoundFit, Unbound, Live
<1>2. ASSUME NEW r \in Runners, LeaseRefused(r) PROVE BoundFit'
  BY <1>2, InsideStays, InsideIn DEF LeaseRefused, Go, poolVars,
      loopVars, childVars, watchVars, TypeOK, StepsFit, HeldLive,
      PlacesApart, BoundFit, Unbound, Live
<1>3. ASSUME NEW r \in Runners, TakeIdle(r) PROVE BoundFit'
  <2>1. PICK c \in Inside : /\ Inside' = Inside \ {c} /\ Go(r, "scan", "check")
                          /\ client' = [client EXCEPT ![r] = c]
    BY <1>3, ListTakes DEF TakeIdle
  <2>2. UNCHANGED <<active, childVars, leased, pooled, leaseRest>> BY <1>3 DEF TakeIdle
  <2> QED BY <2>1, <2>2, InsideIn DEF Go, leaseRest, loopVars,
          childVars, watchVars, TypeOK, StepsFit, HeldLive,
          PlacesApart, BoundFit, Unbound, Live
<1>4. ASSUME NEW r \in Runners, CheckIdle(r) PROVE BoundFit'
  <2>1. CASE /\ Go(r, "check", "scan") /\ StopAll({client[r]})
             /\ client' = [client EXCEPT ![r] = NoChild]
             /\ UNCHANGED <<idle, active, leased, pooled, leaseRest>>
    BY <1>4, <2>1, InsideStays, InsideIn DEF Go, StopAll, healthy,
        leaseRest, loopVars, childVars, watchVars, TypeOK, StepsFit,
        HeldLive, PlacesApart, BoundFit, Unbound, Live
  <2>2. CASE /\ healthy(client[r]) /\ Go(r, "check", "take")
             /\ UNCHANGED <<client, childVars, idle, active, leased, pooled, leaseRest>>
    BY <1>4, <2>2, InsideStays, InsideIn DEF Go, StopAll, healthy,
        leaseRest, loopVars, childVars, watchVars, TypeOK, StepsFit,
        HeldLive, PlacesApart, BoundFit, Unbound, Live
  <2> QED BY <1>4, <2>1, <2>2 DEF CheckIdle
<1>5. ASSUME NEW r \in Runners, KeepIdle(r) PROVE BoundFit'
  <2>1. CASE /\ closed /\ Go(r, "take", "none") /\ StopAll({client[r]})
             /\ client' = [client EXCEPT ![r] = NoChild]
             /\ UNCHANGED <<idle, active, pooled, leased, leaseRest>>
    BY <1>5, <2>1, InsideStays, InsideIn DEF Go, StopAll, leaseRest,
        loopVars, childVars, watchVars, TypeOK, StepsFit, HeldLive,
        PlacesApart, BoundFit, Unbound, Live
  <2>2. CASE /\ ~closed /\ Go(r, "take", "bind") /\ pooled' = [pooled EXCEPT ![r] = TRUE]
             /\ UNCHANGED <<client, childVars, idle, leased, leaseRest>>
    BY <1>5, <2>2, InsideStays, InsideIn DEF Go, StopAll, leaseRest,
        loopVars, childVars, watchVars, TypeOK, StepsFit, HeldLive,
        PlacesApart, BoundFit, Unbound, Live
  <2> QED BY <1>5, <2>1, <2>2 DEF KeepIdle
<1>6. ASSUME NEW r \in Runners, LeaseLaunches(r) PROVE BoundFit'
  BY <1>6, InsideStays, InsideIn DEF LeaseLaunches, Go, leaseRest,
      loopVars, childVars, watchVars, TypeOK, StepsFit, HeldLive,
      PlacesApart, BoundFit, Unbound, Live
<1>7. ASSUME NEW r \in Runners, LaunchEnds(r) PROVE BoundFit'
  <2>1. ASSUME NEW c \in Children, Launched(c), Go(r, "launch", "bind"),
                client' = [client EXCEPT ![r] = c],
                UNCHANGED <<active, pooled, boundTo, idle, leased, leaseRest>> PROVE BoundFit'
    BY <1>7, <2>1, InsideStays, InsideIn DEF Launched, Go, leaseRest,
        loopVars, childVars, watchVars, TypeOK, StepsFit, HeldLive,
        PlacesApart, BoundFit, Unbound, Live
  <2>2. CASE /\ Go(r, "launch", "none") /\ pooled' = [pooled EXCEPT ![r] = FALSE]
             /\ UNCHANGED <<client, childVars, idle, leased, leaseRest>>
    BY <1>7, <2>2, InsideStays, InsideIn DEF Launched, Go, leaseRest,
        loopVars, childVars, watchVars, TypeOK, StepsFit, HeldLive,
        PlacesApart, BoundFit, Unbound, Live
  <2> QED BY <1>7, <2>1, <2>2 DEF LaunchEnds
<1>8. ASSUME NEW r \in Runners, BindEnds(r) PROVE BoundFit'
  <2>1. CASE /\ healthy(client[r]) /\ Go(r, "bind", "leased")
             /\ boundTo' = [boundTo EXCEPT ![client[r]] = r]
             /\ leased' = [leased EXCEPT ![r] = client[r]]
             /\ wd' = [wd EXCEPT ![r] = "watch"] /\ used' = TRUE
             /\ UNCHANGED <<client, os, active, pooled, idle, loopVars, fresh,
                            conf, closed, retrim, ended>>
    BY <1>8, <2>1, InsideStays, InsideIn DEF Go, StopAll, healthy,
        loopVars, TypeOK, StepsFit, HeldLive, PlacesApart, BoundFit,
        Unbound, Live
  <2>2. CASE /\ Go(r, "bind", "none") /\ StopAll({client[r]})
             /\ client' = [client EXCEPT ![r] = NoChild]
             /\ pooled' = [pooled EXCEPT ![r] = FALSE]
             /\ UNCHANGED <<leased, wd, used, idle, loopVars, fresh, conf,
                            closed, retrim, ended>>
    BY <1>8, <2>2, InsideStays, InsideIn DEF Go, StopAll, healthy,
        loopVars, TypeOK, StepsFit, HeldLive, PlacesApart, BoundFit,
        Unbound, Live
  <2> QED BY <1>8, <2>1, <2>2 DEF BindEnds
<1>9. ASSUME NEW r \in Runners, WatchdogDrops(r) PROVE BoundFit'
  BY <1>9, InsideStays, InsideIn DEF WatchdogDrops, healthy, watchRest,
      poolVars, loopVars, childVars, TypeOK, StepsFit, HeldLive,
      PlacesApart, BoundFit, Unbound, Live
<1>10. ASSUME NEW r \in Runners, WatchdogStops(r) PROVE BoundFit'
  BY <1>10, InsideStays, InsideIn DEF WatchdogStops, StopAll, watchRest,
      poolVars, loopVars, TypeOK, StepsFit, HeldLive, PlacesApart,
      BoundFit, Unbound, Live
<1>11. ASSUME NEW r \in Runners, WatchdogRelaunches(r) PROVE BoundFit'
  <2>1. ASSUME NEW c \in Children, Launched(c), wd[r] = "relaunch",
                fresh' = [fresh EXCEPT ![r] = c], wd' = [wd EXCEPT ![r] = "install"],
                UNCHANGED <<client, leased, boundTo, watchRest>> PROVE BoundFit'
    BY <1>11, <2>1, InsideStays, InsideIn DEF Launched, watchRest,
        poolVars, loopVars, TypeOK, StepsFit, HeldLive, PlacesApart,
        BoundFit, Unbound, Live
  <2>2. CASE /\ wd[r] = "relaunch" /\ wd' = [wd EXCEPT ![r] = "off"]
             /\ UNCHANGED <<fresh, os, client, leased, boundTo, watchRest>>
    BY <1>11, <2>2, InsideStays, InsideIn DEF Launched, watchRest,
        poolVars, loopVars, TypeOK, StepsFit, HeldLive, PlacesApart,
        BoundFit, Unbound, Live
  <2> QED BY <1>11, <2>1, <2>2 DEF WatchdogRelaunches
<1>12. ASSUME NEW r \in Runners, WatchdogInstalls(r) PROVE BoundFit'
  <2>1. CASE /\ ended[r] /\ StopAll({fresh[r]}) /\ wd[r] = "install"
             /\ wd' = [wd EXCEPT ![r] = "off"]
             /\ fresh' = [fresh EXCEPT ![r] = NoChild]
             /\ UNCHANGED <<client, leased, watchRest>>
    BY <1>12, <2>1, InsideStays, InsideIn DEF StopAll, watchRest,
        poolVars, loopVars, childVars, TypeOK, StepsFit, HeldLive,
        PlacesApart, BoundFit, Unbound, Live
  <2>2. CASE /\ ~ended[r] /\ wd[r] = "install" /\ client' = [client EXCEPT ![r] = fresh[r]]
             /\ fresh' = [fresh EXCEPT ![r] = NoChild]
             /\ wd' = [wd EXCEPT ![r] = "watch"]
             /\ UNCHANGED <<childVars, leased, watchRest>>
    BY <1>12, <2>2, InsideStays, InsideIn DEF StopAll, watchRest,
        poolVars, loopVars, childVars, TypeOK, StepsFit, HeldLive,
        PlacesApart, BoundFit, Unbound, Live
  <2> QED BY <1>12, <2>1, <2>2 DEF WatchdogInstalls
<1>13. ASSUME NEW r \in Runners, WatchdogQuits(r) PROVE BoundFit'
  BY <1>13, InsideStays, InsideIn DEF WatchdogQuits, watchRest,
      poolVars, loopVars, childVars, TypeOK, StepsFit, HeldLive,
      PlacesApart, BoundFit, Unbound, Live
<1>14. ASSUME NEW r \in Runners, Rebind(r) PROVE BoundFit'
  BY <1>14, InsideStays, InsideIn DEF Rebind, healthy, watchRest,
      poolVars, loopVars, watchVars, TypeOK, StepsFit, HeldLive,
      PlacesApart, BoundFit, Unbound, Live
<1>15. ASSUME NEW r \in Runners, CloseBegins(r) PROVE BoundFit'
  BY <1>15, InsideStays, InsideIn DEF CloseBegins, Go, poolVars,
      loopVars, childVars, watchVars, TypeOK, StepsFit, HeldLive,
      PlacesApart, BoundFit, Unbound, Live
<1>16. ASSUME NEW r \in Runners, CloseTakes(r) PROVE BoundFit'
  BY <1>16, InsideStays, InsideIn DEF CloseTakes, Go, poolVars,
      loopVars, childVars, watchVars, TypeOK, StepsFit, HeldLive,
      PlacesApart, BoundFit, Unbound, Live
<1>17. ASSUME NEW r \in Runners, CloseUnbinds(r) PROVE BoundFit'
  BY <1>17, InsideStays, InsideIn DEF CloseUnbinds, Go, StopAll,
      healthy, poolVars, loopVars, watchVars, TypeOK, StepsFit,
      HeldLive, PlacesApart, BoundFit, Unbound, Live
<1>18. ASSUME NEW r \in Runners, ReleaseSlot(r) PROVE BoundFit'
  <2>1. CASE /\ Discard(r, "release") /\ pooled' = [pooled EXCEPT ![r] = FALSE]
             /\ UNCHANGED <<idle, closeRest>>
    BY <1>18, <2>1, InsideStays, InsideIn DEF Discard, Go, StopAll,
        closeRest, loopVars, childVars, watchVars, TypeOK, StepsFit,
        HeldLive, PlacesApart, BoundFit, Unbound, Live
  <2>2. CASE /\ Go(r, "release", "ping") /\ pooled' = [pooled EXCEPT ![r] = FALSE]
             /\ UNCHANGED <<client, childVars, idle, closeRest>>
    BY <1>18, <2>2, InsideStays, InsideIn DEF Discard, Go, StopAll,
        closeRest, loopVars, childVars, watchVars, TypeOK, StepsFit,
        HeldLive, PlacesApart, BoundFit, Unbound, Live
  <2> QED BY <1>18, <2>1, <2>2 DEF ReleaseSlot
<1>19. ASSUME NEW r \in Runners, ReleasePings(r) PROVE BoundFit'
  <2>1. CASE /\ Discard(r, "ping") /\ UNCHANGED <<idle, active, pooled, closeRest>>
    BY <1>19, <2>1, InsideStays, InsideIn DEF Discard, Go, StopAll,
        healthy, closeRest, loopVars, childVars, watchVars, TypeOK,
        StepsFit, HeldLive, PlacesApart, BoundFit, Unbound, Live
  <2>2. CASE /\ healthy(client[r]) /\ Go(r, "ping", "return")
             /\ UNCHANGED <<client, childVars, idle, active, pooled, closeRest>>
    BY <1>19, <2>2, InsideStays, InsideIn DEF Discard, Go, StopAll,
        healthy, closeRest, loopVars, childVars, watchVars, TypeOK,
        StepsFit, HeldLive, PlacesApart, BoundFit, Unbound, Live
  <2> QED BY <1>19, <2>1, <2>2 DEF ReleasePings
<1>20. ASSUME NEW r \in Runners, ReleaseReturns(r) PROVE BoundFit'
  <2>1. UNCHANGED <<loop, warm, wd, fresh, conf, used, closed, retrim, ended, leased, active, pooled>>
    BY <1>20 DEF ReleaseReturns, closeRest, loopVars, watchVars
  <2>2. CASE Inside' = Inside /\ Discard(r, "return")
    BY <1>20, <2>1, <2>2, Returns, InsideIn DEF Discard, Go, StopAll,
        childVars, TypeOK, StepsFit, HeldLive, PlacesApart, BoundFit,
        Unbound, Live
  <2>3. CASE /\ Inside' = Inside \cup {client[r]} /\ Go(r, "return", "none")
             /\ client' = [client EXCEPT ![r] = NoChild] /\ UNCHANGED childVars
    BY <1>20, <2>1, <2>3, Returns, InsideIn DEF Go, childVars, TypeOK,
        StepsFit, HeldLive, PlacesApart, BoundFit, Unbound, Live
  <2> QED BY <1>20, <2>2, <2>3, Returns
<1>21. ASSUME TrimIdle PROVE BoundFit'
  <2>1. PICK gone \in SUBSET Inside : Inside' = Inside \ gone /\ StopAll(gone)
    BY <1>21, ListCut
  <2>2. UNCHANGED <<loop, warm, active, used, conf, closed, runnerVars, watchVars>> /\ retrim' = FALSE
    BY <1>21 DEF TrimIdle, poolRest, loopVars
  <2> QED BY <2>1, <2>2, InsideIn DEF StopAll, loopVars, childVars,
          runnerVars, watchVars, TypeOK, StepsFit, HeldLive,
          PlacesApart, BoundFit, Unbound, Live
<1>22. ASSUME Tick PROVE BoundFit'
  <2>1. PICK gone \in SUBSET Inside : Inside' = Inside \ gone /\ StopAll(gone)
    BY <1>22, ListCut
  <2>2. UNCHANGED <<warm, active, used, conf, closed, retrim, runnerVars, watchVars>> /\ loop = "wait" /\ loop' = "prewarm"
    BY <1>22 DEF Tick, poolRest, loopVars
  <2> QED BY <2>1, <2>2, InsideIn DEF StopAll, loopVars, childVars,
          runnerVars, watchVars, TypeOK, StepsFit, HeldLive,
          PlacesApart, BoundFit, Unbound, Live
<1>23. ASSUME Prewarm PROVE BoundFit'
  BY <1>23, InsideStays, InsideIn DEF Prewarm, poolRest, childVars,
      runnerVars, watchVars, TypeOK, StepsFit, HeldLive, PlacesApart,
      BoundFit, Unbound, Live
<1>24. ASSUME PrewarmLaunches PROVE BoundFit'
  BY <1>24, InsideStays, InsideIn DEF PrewarmLaunches, Launched,
      poolRest, runnerVars, watchVars, TypeOK, StepsFit, HeldLive,
      PlacesApart, BoundFit, Unbound, Live
<1>25. ASSUME PrewarmKeeps PROVE BoundFit'
  <2>1. UNCHANGED <<active, used, conf, closed, retrim, runnerVars, watchVars>>
    BY <1>25 DEF PrewarmKeeps, poolRest
  <2> QED BY <1>25, <2>1, Keeps, InsideIn DEF StopAll, childVars,
          runnerVars, watchVars, TypeOK, StepsFit, HeldLive,
          PlacesApart, BoundFit, Unbound, Live
<1>26. ASSUME LoopEnds PROVE BoundFit'
  BY <1>26, InsideStays, InsideIn DEF LoopEnds, poolVars, childVars,
      runnerVars, watchVars, TypeOK, StepsFit, HeldLive, PlacesApart,
      BoundFit, Unbound, Live
<1>27. ASSUME PoolCloses PROVE BoundFit'
  <2>1. UNCHANGED <<loop, warm, active, used, conf, retrim, runnerVars, watchVars>> /\ closed' = TRUE
    BY <1>27 DEF PoolCloses, poolRest, loopVars
  <2> QED BY <1>27, <2>1, ListEmptied, InsideIn DEF StopAll,
          childVars, runnerVars, watchVars, TypeOK, StepsFit,
          HeldLive, PlacesApart, BoundFit, Unbound, Live
<1>28. ASSUME NEW s \in Settings, SetSettings(s) PROVE BoundFit'
  BY <1>28, Resets, InsideIn DEF SetSettings, poolRest, loopVars,
      childVars, runnerVars, watchVars, TypeOK, StepsFit, HeldLive,
      PlacesApart, BoundFit, Unbound, Live
<1>29. ASSUME NEW c \in Children, ChildFails(c) PROVE BoundFit'
  BY <1>29, InsideStays, InsideIn DEF ChildFails, poolVars, loopVars,
      runnerVars, watchVars, TypeOK, StepsFit, HeldLive, PlacesApart,
      BoundFit, Unbound, Live
<1>30. CASE UNCHANGED vars
  BY <1>30, InsideStays, InsideIn DEF vars, poolVars, loopVars,
      childVars, runnerVars, watchVars, TypeOK, StepsFit, HeldLive,
      PlacesApart, BoundFit, Unbound, Live
<1> QED BY <1>1, <1>2, <1>3, <1>4, <1>5, <1>6, <1>7, <1>8, <1>9, <1>10,
     <1>11, <1>12, <1>13, <1>14, <1>15, <1>16, <1>17, <1>18, <1>19,
     <1>20, <1>21, <1>22, <1>23, <1>24, <1>25, <1>26, <1>27, <1>28,
     <1>29, <1>30
       DEF Next, Leasing, Watching, Closing, Janitor

-----------------------------------------------------------------------------
(* The count of the slots.                                                 *)

Holding == {r \in Runners : HoldsSlot(r)}
SlotSame(q) == (pooled'[q] /\ pc'[q] # "none") <=> HoldsSlot(q)

\* The three ways a step can treat the slots.
LEMMA SlotsStay ==
  ASSUME SlotsAccounted, active' = active,
         \A q \in Runners : SlotSame(q)
  PROVE  SlotsAccounted'
<1>1. Holding' = Holding BY DEF Holding, HoldsSlot, SlotSame
<1> QED BY <1>1 DEF SlotsAccounted, Holding

LEMMA SlotTaken ==
  ASSUME SlotsAccounted, active' = active + 1, NEW r \in Runners,
         ~HoldsSlot(r), pooled'[r] /\ pc'[r] # "none",
         \A q \in Runners \ {r} : SlotSame(q)
  PROVE  SlotsAccounted'
<1>1. Holding' = Holding \cup {r} /\ r \notin Holding BY DEF Holding, HoldsSlot, SlotSame
<1>2. IsFiniteSet(Holding) BY FS_Subset, ExecPoolAssumption DEF Holding
<1>3. Cardinality(Holding \cup {r}) = Cardinality(Holding) + 1
  BY <1>1, <1>2, FS_AddElement
<1> QED BY <1>1, <1>3 DEF SlotsAccounted, Holding

LEMMA SlotGiven ==
  ASSUME SlotsAccounted, NEW r \in Runners, dropSlot(r),
         HoldsSlot(r), ~(pooled'[r] /\ pc'[r] # "none"),
         \A q \in Runners \ {r} : SlotSame(q)
  PROVE  SlotsAccounted'
<1>1. Holding' = Holding \ {r} /\ r \in Holding BY DEF Holding, HoldsSlot, SlotSame
<1>2. IsFiniteSet(Holding) BY FS_Subset, ExecPoolAssumption DEF Holding
<1>3. Cardinality(Holding \ {r}) = Cardinality(Holding) - 1
  BY <1>1, <1>2, FS_RemoveElement
<1>4. active = Cardinality(Holding) /\ Cardinality(Holding) \in Nat
  BY <1>2, FS_CardinalityType DEF SlotsAccounted, Holding
<1>5. Holding # {} BY <1>1
<1>6. Cardinality(Holding) # 0 BY <1>2, <1>5, FS_EmptySet
<1>7. active > 0 BY <1>4, <1>6
<1>8. active' = active - 1 BY <1>7 DEF dropSlot, HoldsSlot
<1> QED BY <1>1, <1>3, <1>4, <1>8 DEF SlotsAccounted, Holding

\* active follows the leases that hold a slot.
LEMMA SlotStep ==
  ASSUME TypeOK, StepsFit, SlotsAccounted, [Next]_vars
  PROVE  SlotsAccounted'
<1>1. ASSUME NEW r \in Runners, LeaseBegins(r) PROVE SlotsAccounted'
  <2>1. active' = active
    BY <1>1 DEF LeaseBegins, Go, poolVars, loopVars, childVars, watchVars
  <2>2. \A q \in Runners : SlotSame(q)
    BY <1>1 DEF LeaseBegins, Go, poolVars, loopVars, childVars, watchVars, TypeOK, StepsFit, SlotSame, HoldsSlot
  <2> QED BY <2>1, <2>2, SlotsStay
<1>2. ASSUME NEW r \in Runners, LeaseRefused(r) PROVE SlotsAccounted'
  <2>1. active' = active
    BY <1>2 DEF LeaseRefused, Go, poolVars, loopVars, childVars, watchVars
  <2>2. \A q \in Runners : SlotSame(q)
    BY <1>2 DEF LeaseRefused, Go, poolVars, loopVars, childVars, watchVars, TypeOK, StepsFit, SlotSame, HoldsSlot
  <2> QED BY <2>1, <2>2, SlotsStay
<1>3. ASSUME NEW r \in Runners, TakeIdle(r) PROVE SlotsAccounted'
  <2>1. active' = active
    BY <1>3 DEF TakeIdle, Go, leaseRest, loopVars, childVars, watchVars
  <2>2. \A q \in Runners : SlotSame(q)
    BY <1>3 DEF TakeIdle, Go, leaseRest, loopVars, childVars, watchVars, TypeOK, StepsFit, SlotSame, HoldsSlot
  <2> QED BY <2>1, <2>2, SlotsStay
<1>4. ASSUME NEW r \in Runners, CheckIdle(r) PROVE SlotsAccounted'
  <2>1. active' = active
    BY <1>4 DEF CheckIdle, Go, StopAll, healthy, leaseRest, loopVars,
          childVars, watchVars
  <2>2. \A q \in Runners : SlotSame(q)
    BY <1>4 DEF CheckIdle, Go, StopAll, healthy, leaseRest, loopVars,
          childVars, watchVars, TypeOK, StepsFit, SlotSame, HoldsSlot
  <2> QED BY <2>1, <2>2, SlotsStay
<1>5. ASSUME NEW r \in Runners, KeepIdle(r) PROVE SlotsAccounted'
  <2>1. CASE closed
    <3>1. active' = active /\ pooled' = pooled /\ Go(r, "take", "none")
      BY <1>5, <2>1 DEF KeepIdle
    <3>2. \A q \in Runners : SlotSame(q)
      BY <3>1 DEF Go, TypeOK, StepsFit, SlotSame, HoldsSlot
    <3> QED BY <3>1, <3>2, SlotsStay
  <2>2. CASE ~closed
    <3>1. /\ active' = active + 1 /\ pooled' = [pooled EXCEPT ![r] = TRUE]
          /\ Go(r, "take", "bind")
      BY <1>5, <2>2 DEF KeepIdle
    <3>2. pooled'[r] /\ pc'[r] # "none" /\ ~pooled[r] BY <3>1 DEF Go, TypeOK, StepsFit, SlotSame, HoldsSlot
    <3>3. \A q \in Runners \ {r} : SlotSame(q)
      BY <3>1 DEF Go, TypeOK, StepsFit, SlotSame, HoldsSlot
    <3> QED BY <3>1, <3>2, <3>3, SlotTaken DEF HoldsSlot
  <2> QED BY <2>1, <2>2
<1>6. ASSUME NEW r \in Runners, LeaseLaunches(r) PROVE SlotsAccounted'
  <2>1. Go(r, "scan", "launch") /\ ~pooled[r] BY <1>6 DEF LeaseLaunches, Go, StepsFit
  <2>2. CASE active < conf.maxActive
    <3>1. active' = active + 1 /\ pooled' = [pooled EXCEPT ![r] = TRUE]
      BY <1>6, <2>2 DEF LeaseLaunches
    <3>2. pooled'[r] /\ pc'[r] # "none" BY <2>1, <3>1 DEF Go, TypeOK, StepsFit, SlotSame, HoldsSlot
    <3>3. \A q \in Runners \ {r} : SlotSame(q)
      BY <2>1, <3>1 DEF Go, TypeOK, StepsFit, SlotSame, HoldsSlot
    <3> QED BY <2>1, <3>1, <3>2, <3>3, SlotTaken DEF HoldsSlot
  <2>3. CASE ~(active < conf.maxActive)
    <3>0. (active < conf.maxActive) = FALSE BY <2>3
    <3>1. active' = active /\ pooled' = [pooled EXCEPT ![r] = FALSE]
      BY <1>6, <2>3, <3>0 DEF LeaseLaunches
    <3>2. \A q \in Runners : SlotSame(q)
      BY <2>1, <3>1 DEF Go, TypeOK, StepsFit, SlotSame, HoldsSlot
    <3> QED BY <3>1, <3>2, SlotsStay
  <2> QED BY <2>2, <2>3
<1>7. ASSUME NEW r \in Runners, LaunchEnds(r) PROVE SlotsAccounted'
  <2>1. CASE dropSlot(r) /\ pooled' = [pooled EXCEPT ![r] = FALSE] /\ pc[r] = "launch"
             /\ \E l \in RunnerSteps : pc' = [pc EXCEPT ![r] = l]
    <3>1. ~pooled'[r] BY <2>1 DEF TypeOK
    <3>2. \A q \in Runners \ {r} : SlotSame(q)
      BY <2>1 DEF TypeOK, SlotSame, HoldsSlot
    <3>3. CASE pooled[r] BY <2>1, <3>1, <3>2, <3>3, SlotGiven DEF HoldsSlot
    <3>4. CASE ~pooled[r]
      <4>1. active' = active BY <2>1, <3>4 DEF dropSlot
      <4>2. \A q \in Runners : SlotSame(q)
        BY <3>1, <3>2, <3>4 DEF SlotSame, HoldsSlot
      <4> QED BY <4>1, <4>2, SlotsStay
    <3> QED BY <3>3, <3>4
  <2>2. CASE active' = active /\ pooled' = pooled /\ Go(r, "launch", "bind")
    <3>1. \A q \in Runners : SlotSame(q)
      BY <2>2 DEF Go, TypeOK, StepsFit, SlotSame, HoldsSlot
    <3> QED BY <2>2, <3>1, SlotsStay
  <2> QED BY <1>7, <2>1, <2>2 DEF LaunchEnds, Go, RunnerSteps
<1>8. ASSUME NEW r \in Runners, BindEnds(r) PROVE SlotsAccounted'
  <2>1. CASE dropSlot(r) /\ pooled' = [pooled EXCEPT ![r] = FALSE] /\ pc[r] = "bind"
             /\ \E l \in RunnerSteps : pc' = [pc EXCEPT ![r] = l]
    <3>1. ~pooled'[r] BY <2>1 DEF TypeOK
    <3>2. \A q \in Runners \ {r} : SlotSame(q)
      BY <2>1 DEF TypeOK, SlotSame, HoldsSlot
    <3>3. CASE pooled[r] BY <2>1, <3>1, <3>2, <3>3, SlotGiven DEF HoldsSlot
    <3>4. CASE ~pooled[r]
      <4>1. active' = active BY <2>1, <3>4 DEF dropSlot
      <4>2. \A q \in Runners : SlotSame(q)
        BY <3>1, <3>2, <3>4 DEF SlotSame, HoldsSlot
      <4> QED BY <4>1, <4>2, SlotsStay
    <3> QED BY <3>3, <3>4
  <2>2. CASE active' = active /\ pooled' = pooled /\ Go(r, "bind", "leased")
    <3>1. \A q \in Runners : SlotSame(q)
      BY <2>2 DEF Go, TypeOK, StepsFit, SlotSame, HoldsSlot
    <3> QED BY <2>2, <3>1, SlotsStay
  <2> QED BY <1>8, <2>1, <2>2 DEF BindEnds, Go, RunnerSteps
<1>9. ASSUME NEW r \in Runners, WatchdogDrops(r) PROVE SlotsAccounted'
  <2>1. active' = active
    BY <1>9 DEF WatchdogDrops, healthy, watchRest, poolVars, loopVars,
          childVars
  <2>2. \A q \in Runners : SlotSame(q)
    BY <1>9 DEF WatchdogDrops, healthy, watchRest, poolVars, loopVars,
          childVars, TypeOK, StepsFit, SlotSame, HoldsSlot
  <2> QED BY <2>1, <2>2, SlotsStay
<1>10. ASSUME NEW r \in Runners, WatchdogStops(r) PROVE SlotsAccounted'
  <2>1. active' = active
    BY <1>10 DEF WatchdogStops, StopAll, watchRest, poolVars, loopVars
  <2>2. \A q \in Runners : SlotSame(q)
    BY <1>10 DEF WatchdogStops, StopAll, watchRest, poolVars, loopVars, TypeOK, StepsFit, SlotSame, HoldsSlot
  <2> QED BY <2>1, <2>2, SlotsStay
<1>11. ASSUME NEW r \in Runners, WatchdogRelaunches(r) PROVE SlotsAccounted'
  <2>1. active' = active
    BY <1>11 DEF WatchdogRelaunches, Launched, watchRest, poolVars,
          loopVars
  <2>2. \A q \in Runners : SlotSame(q)
    BY <1>11 DEF WatchdogRelaunches, Launched, watchRest, poolVars,
          loopVars, TypeOK, StepsFit, SlotSame, HoldsSlot
  <2> QED BY <2>1, <2>2, SlotsStay
<1>12. ASSUME NEW r \in Runners, WatchdogInstalls(r) PROVE SlotsAccounted'
  <2>1. active' = active
    BY <1>12 DEF WatchdogInstalls, StopAll, watchRest, poolVars, loopVars,
          childVars
  <2>2. \A q \in Runners : SlotSame(q)
    BY <1>12 DEF WatchdogInstalls, StopAll, watchRest, poolVars, loopVars,
          childVars, TypeOK, StepsFit, SlotSame, HoldsSlot
  <2> QED BY <2>1, <2>2, SlotsStay
<1>13. ASSUME NEW r \in Runners, WatchdogQuits(r) PROVE SlotsAccounted'
  <2>1. active' = active
    BY <1>13 DEF WatchdogQuits, watchRest, poolVars, loopVars, childVars
  <2>2. \A q \in Runners : SlotSame(q)
    BY <1>13 DEF WatchdogQuits, watchRest, poolVars, loopVars, childVars, TypeOK, StepsFit, SlotSame, HoldsSlot
  <2> QED BY <2>1, <2>2, SlotsStay
<1>14. ASSUME NEW r \in Runners, Rebind(r) PROVE SlotsAccounted'
  <2>1. active' = active
    BY <1>14 DEF Rebind, healthy, watchRest, poolVars, loopVars, watchVars
  <2>2. \A q \in Runners : SlotSame(q)
    BY <1>14 DEF Rebind, healthy, watchRest, poolVars, loopVars, watchVars, TypeOK, StepsFit, SlotSame, HoldsSlot
  <2> QED BY <2>1, <2>2, SlotsStay
<1>15. ASSUME NEW r \in Runners, CloseBegins(r) PROVE SlotsAccounted'
  <2>1. active' = active
    BY <1>15 DEF CloseBegins, Go, poolVars, loopVars, childVars, watchVars
  <2>2. \A q \in Runners : SlotSame(q)
    BY <1>15 DEF CloseBegins, Go, poolVars, loopVars, childVars, watchVars, TypeOK, StepsFit, SlotSame, HoldsSlot
  <2> QED BY <2>1, <2>2, SlotsStay
<1>16. ASSUME NEW r \in Runners, CloseTakes(r) PROVE SlotsAccounted'
  <2>1. active' = active
    BY <1>16 DEF CloseTakes, Go, poolVars, loopVars, childVars, watchVars
  <2>2. \A q \in Runners : SlotSame(q)
    BY <1>16 DEF CloseTakes, Go, poolVars, loopVars, childVars, watchVars, TypeOK, StepsFit, SlotSame, HoldsSlot
  <2> QED BY <2>1, <2>2, SlotsStay
<1>17. ASSUME NEW r \in Runners, CloseUnbinds(r) PROVE SlotsAccounted'
  <2>1. active' = active
    BY <1>17 DEF CloseUnbinds, Go, StopAll, healthy, poolVars, loopVars,
          watchVars
  <2>2. \A q \in Runners : SlotSame(q)
    BY <1>17 DEF CloseUnbinds, Go, StopAll, healthy, poolVars, loopVars,
          watchVars, TypeOK, StepsFit, SlotSame, HoldsSlot
  <2> QED BY <2>1, <2>2, SlotsStay
<1>18. ASSUME NEW r \in Runners, ReleaseSlot(r) PROVE SlotsAccounted'
  <2>1. CASE dropSlot(r) /\ pooled' = [pooled EXCEPT ![r] = FALSE] /\ pc[r] = "release"
             /\ \E l \in RunnerSteps : pc' = [pc EXCEPT ![r] = l]
    <3>1. ~pooled'[r] BY <2>1 DEF TypeOK
    <3>2. \A q \in Runners \ {r} : SlotSame(q)
      BY <2>1 DEF TypeOK, SlotSame, HoldsSlot
    <3>3. CASE pooled[r] BY <2>1, <3>1, <3>2, <3>3, SlotGiven DEF HoldsSlot
    <3>4. CASE ~pooled[r]
      <4>1. active' = active BY <2>1, <3>4 DEF dropSlot
      <4>2. \A q \in Runners : SlotSame(q)
        BY <3>1, <3>2, <3>4 DEF SlotSame, HoldsSlot
      <4> QED BY <4>1, <4>2, SlotsStay
    <3> QED BY <3>3, <3>4
  <2> QED BY <1>18, <2>1 DEF ReleaseSlot, Discard, Go, RunnerSteps
<1>19. ASSUME NEW r \in Runners, ReleasePings(r) PROVE SlotsAccounted'
  <2>1. active' = active
    BY <1>19 DEF ReleasePings, Discard, Go, StopAll, healthy, closeRest,
          loopVars, childVars, watchVars
  <2>2. \A q \in Runners : SlotSame(q)
    BY <1>19 DEF ReleasePings, Discard, Go, StopAll, healthy, closeRest,
          loopVars, childVars, watchVars, TypeOK, StepsFit, SlotSame, HoldsSlot
  <2> QED BY <2>1, <2>2, SlotsStay
<1>20. ASSUME NEW r \in Runners, ReleaseReturns(r) PROVE SlotsAccounted'
  <2>1. active' = active
    BY <1>20 DEF ReleaseReturns, Discard, Go, StopAll, Full, closeRest,
          loopVars, childVars, watchVars
  <2>2. \A q \in Runners : SlotSame(q)
    BY <1>20 DEF ReleaseReturns, Discard, Go, StopAll, Full, closeRest,
          loopVars, childVars, watchVars, TypeOK, StepsFit, SlotSame, HoldsSlot
  <2> QED BY <2>1, <2>2, SlotsStay
<1>21. ASSUME TrimIdle PROVE SlotsAccounted'
  <2>1. active' = active
    BY <1>21 DEF TrimIdle, StopAll, poolRest, loopVars, runnerVars,
          watchVars
  <2>2. \A q \in Runners : SlotSame(q)
    BY <1>21 DEF TrimIdle, StopAll, poolRest, loopVars, runnerVars,
          watchVars, TypeOK, StepsFit, SlotSame, HoldsSlot
  <2> QED BY <2>1, <2>2, SlotsStay
<1>22. ASSUME Tick PROVE SlotsAccounted'
  <2>1. active' = active
    BY <1>22 DEF Tick, StopAll, poolRest, childVars, runnerVars, watchVars
  <2>2. \A q \in Runners : SlotSame(q)
    BY <1>22 DEF Tick, StopAll, poolRest, childVars, runnerVars, watchVars, TypeOK, StepsFit, SlotSame, HoldsSlot
  <2> QED BY <2>1, <2>2, SlotsStay
<1>23. ASSUME Prewarm PROVE SlotsAccounted'
  <2>1. active' = active
    BY <1>23 DEF Prewarm, poolRest, childVars, runnerVars, watchVars
  <2>2. \A q \in Runners : SlotSame(q)
    BY <1>23 DEF Prewarm, poolRest, childVars, runnerVars, watchVars, TypeOK, StepsFit, SlotSame, HoldsSlot
  <2> QED BY <2>1, <2>2, SlotsStay
<1>24. ASSUME PrewarmLaunches PROVE SlotsAccounted'
  <2>1. active' = active
    BY <1>24 DEF PrewarmLaunches, Launched, poolRest, runnerVars, watchVars
  <2>2. \A q \in Runners : SlotSame(q)
    BY <1>24 DEF PrewarmLaunches, Launched, poolRest, runnerVars, watchVars, TypeOK, StepsFit, SlotSame, HoldsSlot
  <2> QED BY <2>1, <2>2, SlotsStay
<1>25. ASSUME PrewarmKeeps PROVE SlotsAccounted'
  <2>1. active' = active
    BY <1>25 DEF PrewarmKeeps, StopAll, Full, poolRest, childVars,
          runnerVars, watchVars
  <2>2. \A q \in Runners : SlotSame(q)
    BY <1>25 DEF PrewarmKeeps, StopAll, Full, poolRest, childVars,
          runnerVars, watchVars, TypeOK, StepsFit, SlotSame, HoldsSlot
  <2> QED BY <2>1, <2>2, SlotsStay
<1>26. ASSUME LoopEnds PROVE SlotsAccounted'
  <2>1. active' = active
    BY <1>26 DEF LoopEnds, poolVars, childVars, runnerVars, watchVars
  <2>2. \A q \in Runners : SlotSame(q)
    BY <1>26 DEF LoopEnds, poolVars, childVars, runnerVars, watchVars, TypeOK, StepsFit, SlotSame, HoldsSlot
  <2> QED BY <2>1, <2>2, SlotsStay
<1>27. ASSUME PoolCloses PROVE SlotsAccounted'
  <2>1. active' = active
    BY <1>27 DEF PoolCloses, StopAll, poolRest, loopVars, runnerVars,
          watchVars
  <2>2. \A q \in Runners : SlotSame(q)
    BY <1>27 DEF PoolCloses, StopAll, poolRest, loopVars, runnerVars,
          watchVars, TypeOK, StepsFit, SlotSame, HoldsSlot
  <2> QED BY <2>1, <2>2, SlotsStay
<1>28. ASSUME NEW s \in Settings, SetSettings(s) PROVE SlotsAccounted'
  <2>1. active' = active
    BY <1>28 DEF SetSettings, poolRest, loopVars, childVars, runnerVars,
          watchVars
  <2>2. \A q \in Runners : SlotSame(q)
    BY <1>28 DEF SetSettings, poolRest, loopVars, childVars, runnerVars,
          watchVars, TypeOK, StepsFit, SlotSame, HoldsSlot
  <2> QED BY <2>1, <2>2, SlotsStay
<1>29. ASSUME NEW c \in Children, ChildFails(c) PROVE SlotsAccounted'
  <2>1. active' = active
    BY <1>29 DEF ChildFails, poolVars, loopVars, runnerVars, watchVars
  <2>2. \A q \in Runners : SlotSame(q)
    BY <1>29 DEF ChildFails, poolVars, loopVars, runnerVars, watchVars, TypeOK, StepsFit, SlotSame, HoldsSlot
  <2> QED BY <2>1, <2>2, SlotsStay
<1>30. CASE UNCHANGED vars
  BY <1>30, SlotsStay DEF vars, poolVars, runnerVars, SlotSame, HoldsSlot
<1> QED BY <1>1, <1>2, <1>3, <1>4, <1>5, <1>6, <1>7, <1>8, <1>9, <1>10,
     <1>11, <1>12, <1>13, <1>14, <1>15, <1>16, <1>17, <1>18, <1>19,
     <1>20, <1>21, <1>22, <1>23, <1>24, <1>25, <1>26, <1>27, <1>28,
     <1>29, <1>30
       DEF Next, Leasing, Watching, Closing, Janitor

-----------------------------------------------------------------------------
\* An empty pool satisfies the invariant.
LEMMA InitInv == ASSUME Init PROVE IInv
<1>1. idle = <<>> /\ idle \in Seq(Children) /\ Len(idle) = 0
  BY EmptySeq DEF Init
<1>2. TypeOK BY <1>1, ExecPoolAssumption DEF Init, TypeOK, RunnerSteps
<1>3. Inside = {}
  <2>1. \A c : c \in ToSet(idle) <=> \E i \in 1 .. Len(idle) : idle[i] = c
    <3>1. idle \in Seq(Children) BY <1>1
    <3> QED BY <3>1, Elements
  <2> QED BY <1>1, <2>1 DEF Inside
<1>4. HeldLive /\ PlacesApart /\ LiveHeld BY <1>3 DEF Init, HeldLive, PlacesApart, LiveHeld, Live
<1>5. StepsFit /\ BoundFit BY <1>3 DEF Init, StepsFit, BoundFit, Unbound
<1>6. SlotsAccounted
  <2>1. Holding = {} BY DEF Init, Holding, HoldsSlot
  <2> QED BY <2>1, FS_EmptySet DEF Init, SlotsAccounted, Holding
<1>7. IdleApart /\ ClosedStaysEmpty /\ IdleWithinMax
  <2>1. conf.maxIdle \in Nat BY ExecPoolAssumption DEF Init
  <2> QED BY <1>1, <2>1 DEF IdleApart, Distinct, ClosedStaysEmpty, IdleWithinMax
<1> QED BY <1>2, <1>4, <1>5, <1>6, <1>7 DEF IInv

\* Every action keeps the list in order.
LEMMA ListStep ==
  ASSUME TypeOK, ListOK, PlacesApart, StepsFit, [Next]_vars
  PROVE  ListOK'
<1>1. ASSUME NEW r \in Runners, LeaseBegins(r) PROVE ListOK'
  BY <1>1, InsideStays DEF LeaseBegins, poolVars
<1>2. ASSUME NEW r \in Runners, LeaseRefused(r) PROVE ListOK'
  BY <1>2, InsideStays DEF LeaseRefused, poolVars
<1>3. ASSUME NEW r \in Runners, TakeIdle(r) PROVE ListOK'
  BY <1>3, ListTakes
<1>4. ASSUME NEW r \in Runners, CheckIdle(r) PROVE ListOK'
  BY <1>4, InsideStays DEF CheckIdle, leaseRest
<1>5. ASSUME NEW r \in Runners, KeepIdle(r) PROVE ListOK'
  BY <1>5, InsideStays DEF KeepIdle, leaseRest
<1>6. ASSUME NEW r \in Runners, LeaseLaunches(r) PROVE ListOK'
  BY <1>6, InsideStays DEF LeaseLaunches, leaseRest
<1>7. ASSUME NEW r \in Runners, LaunchEnds(r) PROVE ListOK'
  BY <1>7, InsideStays DEF LaunchEnds, leaseRest
<1>8. ASSUME NEW r \in Runners, BindEnds(r) PROVE ListOK'
  BY <1>8, InsideStays DEF BindEnds
<1>9. ASSUME NEW r \in Runners, WatchdogDrops(r) PROVE ListOK'
  BY <1>9, InsideStays DEF WatchdogDrops, watchRest, poolVars
<1>10. ASSUME NEW r \in Runners, WatchdogStops(r) PROVE ListOK'
  BY <1>10, InsideStays DEF WatchdogStops, watchRest, poolVars
<1>11. ASSUME NEW r \in Runners, WatchdogRelaunches(r) PROVE ListOK'
  BY <1>11, InsideStays DEF WatchdogRelaunches, watchRest, poolVars
<1>12. ASSUME NEW r \in Runners, WatchdogInstalls(r) PROVE ListOK'
  BY <1>12, InsideStays DEF WatchdogInstalls, watchRest, poolVars
<1>13. ASSUME NEW r \in Runners, WatchdogQuits(r) PROVE ListOK'
  BY <1>13, InsideStays DEF WatchdogQuits, watchRest, poolVars
<1>14. ASSUME NEW r \in Runners, Rebind(r) PROVE ListOK'
  BY <1>14, InsideStays DEF Rebind, watchRest, poolVars
<1>15. ASSUME NEW r \in Runners, CloseBegins(r) PROVE ListOK'
  BY <1>15, InsideStays DEF CloseBegins, poolVars
<1>16. ASSUME NEW r \in Runners, CloseTakes(r) PROVE ListOK'
  BY <1>16, InsideStays DEF CloseTakes, poolVars
<1>17. ASSUME NEW r \in Runners, CloseUnbinds(r) PROVE ListOK'
  BY <1>17, InsideStays DEF CloseUnbinds, poolVars
<1>18. ASSUME NEW r \in Runners, ReleaseSlot(r) PROVE ListOK'
  BY <1>18, InsideStays DEF ReleaseSlot, closeRest
<1>19. ASSUME NEW r \in Runners, ReleasePings(r) PROVE ListOK'
  BY <1>19, InsideStays DEF ReleasePings, closeRest
<1>20. ASSUME NEW r \in Runners, ReleaseReturns(r) PROVE ListOK'
  BY <1>20, Returns
<1>21. ASSUME TrimIdle PROVE ListOK'
  BY <1>21, ListCut
<1>22. ASSUME Tick PROVE ListOK'
  BY <1>22, ListCut
<1>23. ASSUME Prewarm PROVE ListOK'
  BY <1>23, InsideStays DEF Prewarm, poolRest
<1>24. ASSUME PrewarmLaunches PROVE ListOK'
  BY <1>24, InsideStays DEF PrewarmLaunches, poolRest
<1>25. ASSUME PrewarmKeeps PROVE ListOK'
  BY <1>25, Keeps
<1>26. ASSUME LoopEnds PROVE ListOK'
  BY <1>26, InsideStays DEF LoopEnds, poolVars
<1>27. ASSUME PoolCloses PROVE ListOK'
  BY <1>27, ListEmptied
<1>28. ASSUME NEW s \in Settings, SetSettings(s) PROVE ListOK'
  BY <1>28, Resets
<1>29. ASSUME NEW c \in Children, ChildFails(c) PROVE ListOK'
  BY <1>29, InsideStays DEF ChildFails, poolVars
<1>30. CASE UNCHANGED vars
  BY <1>30, InsideStays DEF vars, poolVars
<1> QED BY <1>1, <1>2, <1>3, <1>4, <1>5, <1>6, <1>7, <1>8, <1>9, <1>10,
     <1>11, <1>12, <1>13, <1>14, <1>15, <1>16, <1>17, <1>18, <1>19,
     <1>20, <1>21, <1>22, <1>23, <1>24, <1>25, <1>26, <1>27, <1>28,
     <1>29, <1>30
       DEF Next, Leasing, Watching, Closing, Janitor

\* Every step keeps the invariant.
LEMMA InvStep == ASSUME IInv, [Next]_vars PROVE IInv'
<1>1. TypeOK /\ ListOK /\ HeldLive /\ PlacesApart /\ LiveHeld /\ StepsFit
      /\ BoundFit /\ SlotsAccounted
  BY DEF IInv, ListOK, TypeOK
<1>2. TypeOK' BY <1>1, TypeStep
<1>3. ListOK' BY <1>1, ListStep
<1>4. HeldLive' BY <1>1, HeldStep
<1>5. PlacesApart' BY <1>1, ApartStep
<1>6. LiveHeld' BY <1>1, HoldStep
<1>7. StepsFit' BY <1>1, FitStep
<1>8. BoundFit' BY <1>1, BoundStep
<1>9. SlotsAccounted' BY <1>1, SlotStep
<1> QED BY <1>2, <1>3, <1>4, <1>5, <1>6, <1>7, <1>8, <1>9 DEF IInv, ListOK

\* The invariant holds in every state that the pool can reach.
THEOREM Invariance == Spec => []IInv
<1>1. Init => IInv BY InitInv
<1>2. IInv /\ [Next]_vars => IInv' BY InvStep
<1> QED BY <1>1, <1>2, PTL DEF Spec

\* The places of a live child, counted: being held, apart and found make one.
LEMMA OwnedOnce == ASSUME IInv PROVE OneOwner
<1> SUFFICES ASSUME NEW c \in Children, Live(c) PROVE Owners(c) = 1
  BY DEF OneOwner, Live
<1> DEFINE A == {i \in DOMAIN idle : idle[i] = c}
           B == {r \in Runners : client[r] = c}
           F == {r \in Runners : fresh[r] = c}
           n == IF warm = c THEN 1 ELSE 0
<1>1. Owners(c) = Cardinality(A) + Cardinality(B) + Cardinality(F) + n
  BY DEF Owners
<1>2. c # NoChild BY ExecPoolAssumption
<1>3. PlacesApart /\ LiveHeld BY DEF IInv
<1>4. DOMAIN idle = 1 .. Len(idle) /\ \A d : d \in Inside <=> \E i \in 1 .. Len(idle) : idle[i] = d
  <2>1. idle \in Seq(Children) BY DEF IInv, TypeOK
  <2> QED BY <2>1, Elements, LenProperties DEF Inside
<1>e. Cardinality({}) = 0 BY FS_EmptySet
<1>s. \A x : Cardinality({x}) = 1 BY FS_Singleton
<1>5. CASE c \in Inside
  <2>1. PICK i \in DOMAIN idle : idle[i] = c BY <1>4, <1>5
  <2>2. A = {i} BY <1>4, <2>1 DEF IInv, IdleApart, Distinct
  <2>3. B = {} /\ F = {} /\ n = 0 BY <1>3, <1>5 DEF PlacesApart
  <2> HIDE DEF A, B, F, n
  <2>4. Cardinality({i}) = 1 BY <1>s
  <2>5. Cardinality(A) = 1 /\ Cardinality(B) = 0 /\ Cardinality(F) = 0
    BY <1>e, <2>2, <2>3, <2>4
  <2> QED BY <1>1, <2>3, <2>5
<1>6. CASE c \notin Inside
  <2>1. A = {} BY <1>4, <1>6
  <2>2. CASE c = warm
    <3>1. B = {} /\ F = {} /\ n = 1 BY <1>2, <1>3, <2>2 DEF PlacesApart
    <3> HIDE DEF A, B, F, n
    <3> QED BY <1>1, <1>e, <2>1, <3>1
  <2>3. CASE \E r \in Runners : c = client[r]
    <3>1. PICK r \in Runners : c = client[r] BY <2>3
    <3>2. B = {r} /\ F = {} /\ n = 0 BY <1>2, <1>3, <3>1 DEF PlacesApart
    <3> HIDE DEF A, B, F, n
    <3>3. Cardinality({r}) = 1 BY <1>s
    <3> QED BY <1>1, <1>e, <2>1, <3>2, <3>3
  <2>4. CASE \E r \in Runners : c = fresh[r]
    <3>1. PICK r \in Runners : c = fresh[r] BY <2>4
    <3>2. F = {r} /\ B = {} /\ n = 0 BY <1>2, <1>3, <3>1 DEF PlacesApart
    <3> HIDE DEF A, B, F, n
    <3>3. Cardinality({r}) = 1 BY <1>s
    <3> QED BY <1>1, <1>e, <2>1, <3>2, <3>3
  <2> QED BY <1>3, <1>6, <2>2, <2>3, <2>4 DEF LiveHeld
<1> QED BY <1>5, <1>6

\* Every child has one owner, the slots are counted, and what the pool hands
\* out is bound to no workspace, for every number of runners, children and
\* slots (pool.go, runner.go).
THEOREM ChildrenAreAccounted == Spec => []ChildrenAccounted
<1>1. IInv => ChildrenAccounted
  <2> SUFFICES ASSUME IInv PROVE ChildrenAccounted OBVIOUS
  <2>1. OneOwner BY OwnedOnce
  <2>2. IdleIsUnbound
    <3>1. idle \in Seq(Children) BY DEF IInv, TypeOK
    <3>2. \A i \in DOMAIN idle : idle[i] \in Inside
      BY <3>1, Elements, LenProperties DEF Inside
    <3> QED BY <3>2 DEF IdleIsUnbound, IInv, BoundFit, Unbound
  <2> QED BY <2>1, <2>2 DEF IInv, ChildrenAccounted
<1> QED BY <1>1, Invariance, PTL

-----------------------------------------------------------------------------
(* Automations: the manager, its queue and its runs. *)

\* An occurrence counts from 1; the bounds are numbers.
AutoAssumption == MaxOcc \in Nat \ {0} /\ MaxEdits \in Nat /\ MaxCrashes \in Nat

\* A process that is down, or has not started its manager, has nothing queued.
AutoQuiet ==
    mgr \in {"down", "starting"} =>
        /\ pending = << >> /\ tick = "idle" /\ ~ asked
        /\ \A r \in Runs : pc[r] \in {"none", "dead"}

\* What the row of a run says while the run goes through its steps.
RecordsFollow ==
    \A r \in Runs : /\ pc[r] \in {"none", "load", "append"} => record[r] = "none"
                    /\ pc[r] \in {"run", "persist"} => record[r] \in {"running", "none"}

\* The trigger of the task has moved past an occurrence, or will before anybody lists
\* the task again: a deleted task is listed only after a save.
Spent(t, o) == o < occ[t] \/ (o = occ[t] /\ next[t] # "ahead" /\ row[t] = "none")

\* The occurrence has come: the trigger is at it or past it.
Comes(t, o) == o >= 1 /\ (o < occ[t] \/ (o = occ[t] /\ next[t] # "ahead"))

\* No entry of the queue and no run is of this occurrence.
Unused(t, o) ==
    /\ \A k \in DOMAIN pending : ~ (pending[k].task = t /\ pending[k].occ = o)
    /\ \A r \in Runs : ~ (pc[r] # "none" /\ rtask[r] = t /\ rocc[r] = o)

\* What is queued or runs is spent.
UsedAreSpent ==
    /\ \A k \in DOMAIN pending : Spent(pending[k].task, pending[k].occ)
    /\ \A r \in Runs : pc[r] # "none" => rtask[r] \in Tasks /\ Spent(rtask[r], rocc[r])

\* What a tick has listed and not yet queued is used by nobody.
ListedAreUnused ==
    /\ \A i \in todo : Comes(i.task, i.occ) /\ Unused(i.task, i.occ)
    /\ \A i, j \in todo : i.task = j.task => i = j
    /\ tick \in {"advance", "queue"} =>
         /\ at \in U!Items /\ at.occ >= 1 /\ Unused(at.task, at.occ)
         /\ \A i \in todo : i.task # at.task
    /\ tick = "advance" => Comes(at.task, at.occ)
    /\ tick = "queue" => Spent(at.task, at.occ)

\* No two entries, no two runs, and no entry and run, are of one occurrence.
UsedOnce ==
    /\ \A k, l \in DOMAIN pending :
         pending[k].occ >= 1 /\ pending[k].task = pending[l].task
           /\ pending[k].occ = pending[l].occ => k = l
    /\ \A r, s \in Runs :
         pc[r] # "none" /\ pc[s] # "none" /\ rocc[r] >= 1 /\ rtask[r] = rtask[s]
           /\ rocc[r] = rocc[s] => r = s
    /\ \A k \in DOMAIN pending, r \in Runs :
         ~ (pc[r] # "none" /\ rocc[r] >= 1 /\ pending[k].task = rtask[r]
              /\ pending[k].occ = rocc[r])

\* The inductive invariant of Automations.
AutoInv ==
    /\ U!TypeOK /\ AutoQuiet /\ RecordsFollow /\ U!NoStaleRunning /\ U!QueueIsServed
    /\ UsedAreSpent /\ ListedAreUnused /\ UsedOnce

\* What a queue entry is made of.
Entries == [task : Tasks, occ : 0 .. MaxOcc]

\* The types, action by action.
LEMMA AutoTypes ==
  ASSUME AutoAssumption, U!TypeOK, ListedAreUnused, [U!Next]_(U!vars)
  PROVE  U!TypeOK'
<1> DEFINE Goal == U!TypeOK'
<1> SUFFICES Goal
  OBVIOUS
<1> USE DEF AutoAssumption
<1>0. /\ row \in [Tasks -> {"none", "enabled", "disabled"}]
      /\ occ \in [Tasks -> 1 .. MaxOcc]
      /\ next \in [Tasks -> {"ahead", "due", "missed"}]
      /\ record \in [Runs -> {"none", "running"} \cup U!Settled]
      /\ pending \in Seq(Entries)
      /\ pendingSet \subseteq Tasks /\ running \subseteq Tasks
      /\ mgr \in {"down", "starting", "on", "stopped"}
      /\ active \subseteq Runs /\ canceled \subseteq active
      /\ tick \in {"idle", "scan", "look", "advance", "queue", "dispatch"}
      /\ todo \subseteq U!Items /\ at \in U!Items \cup {U!Nothing}
      /\ asked \in BOOLEAN
      /\ pc \in [Runs -> {"none", "load", "append", "run", "persist", "dispatch",
                          "done", "dead", "left"}]
      /\ rtask \in [Runs -> Tasks \cup {NoTask}] /\ rocc \in [Runs -> 0 .. MaxOcc]
      /\ ctx \in [Runs -> {"live", "deadline", "stopped"}]
      /\ res \in [Runs -> {"none"} \cup U!Settled]
      /\ edits \in 0 .. MaxEdits /\ crashes \in 0 .. MaxCrashes
  BY DEF U!TypeOK, Entries
<1>1. ASSUME NEW t \in Tasks, U!TimePasses(t) PROVE Goal
  BY <1>0, <1>1 DEF U!TimePasses, U!TypeOK, Entries, U!queue, U!entries, U!scan, U!runs
<1>a. ASSUME NEW t \in Tasks, U!Ahead(t), next[t] = "ahead" \/ occ[t] < MaxOcc
      PROVE  occ' \in [Tasks -> 1 .. MaxOcc] /\ next' \in [Tasks -> {"ahead", "due", "missed"}]
  BY <1>0, <1>a DEF U!Ahead
<1>2. ASSUME NEW t \in Tasks, U!Save(t) PROVE Goal
  <2>1. occ' \in [Tasks -> 1 .. MaxOcc] /\ next' \in [Tasks -> {"ahead", "due", "missed"}]
    BY <1>2, <1>a DEF U!Save
  <2>2. row' \in [Tasks -> {"none", "enabled", "disabled"}] /\ edits' \in 0 .. MaxEdits
    BY <1>0, <1>2 DEF U!Save
  <2> QED BY <1>0, <1>2, <2>1, <2>2 DEF U!Save, U!TypeOK, Entries, U!queue, U!entries, U!scan, U!runs
<1>3. ASSUME NEW t \in Tasks, U!Delete(t) PROVE Goal
  BY <1>0, <1>3 DEF U!Delete, U!TypeOK, Entries, U!queue, U!entries, U!scan, U!runs
<1>4. ASSUME NEW t \in Tasks, U!RunNow(t) PROVE Goal
  <2>1. [task |-> t, occ |-> 0] \in Entries
    BY DEF Entries
  <2>2. pending' \in Seq(Entries) /\ pendingSet' \subseteq Tasks
    BY <1>0, <1>4, <2>1 DEF U!RunNow, U!Enqueue
  <2> QED BY <1>0, <1>4, <2>2 DEF U!RunNow, U!TypeOK, Entries, U!store, U!entries, U!scan, U!runs
<1>5. ASSUME U!TickLists PROVE Goal
  <2>1. todo' \subseteq U!Items
    BY <1>5 DEF U!TickLists
  <2> QED BY <1>0, <1>5, <2>1 DEF U!TickLists, U!TypeOK, Entries, U!tickRest, U!entries, U!runs
<1>6. ASSUME U!TickLooks PROVE Goal
  <2>1. tick' \in {"dispatch", "look", "advance"} /\ todo' \subseteq U!Items
        /\ at' \in U!Items \cup {U!Nothing}
    BY <1>0, <1>6 DEF U!TickLooks
  <2> QED BY <1>0, <1>6, <2>1 DEF U!TickLooks, U!TypeOK, Entries, U!tickRest, U!entries, U!runs
<1>7. ASSUME U!TickAdvances PROVE Goal
  <2>1. at.task \in Tasks
    BY <1>7 DEF U!TickAdvances, ListedAreUnused, U!Items
  <2>2. tick' \in {"look", "queue"}
    BY <1>7 DEF U!TickAdvances
  <2>3. occ' \in [Tasks -> 1 .. MaxOcc] /\ next' \in [Tasks -> {"ahead", "due", "missed"}]
    BY <1>0, <1>7, <1>a, <2>1 DEF U!TickAdvances
  <2> QED BY <1>0, <1>7, <2>2, <2>3 DEF U!TickAdvances, U!TypeOK, Entries, U!tickRest, U!entries, U!runs
<1>8. ASSUME U!TickQueues PROVE Goal
  <2>1. [task |-> at.task, occ |-> at.occ] \in Entries /\ at.task \in Tasks
    BY <1>8 DEF U!TickQueues, ListedAreUnused, U!Items, Entries
  <2>2. pending' \in Seq(Entries) /\ pendingSet' \subseteq Tasks
    BY <1>0, <1>8, <2>1 DEF U!TickQueues, U!Enqueue
  <2> QED BY <1>0, <1>8, <2>2 DEF U!TickQueues, U!TypeOK, Entries, U!tickRest, U!entries, U!runs
<1>9. ASSUME U!Dispatch PROVE Goal
  <2>1. pending # << >>
    BY <1>9 DEF U!Dispatch, U!Starts, U!CanStart
  <2>2. Head(pending) \in Entries /\ pending' \in Seq(Entries)
    BY <1>0, <1>9, <2>1 DEF U!Dispatch, U!Starts
  <2>3. Head(pending).task \in Tasks /\ Head(pending).occ \in 0 .. MaxOcc
    BY <2>2 DEF Entries
  <2> HIDE DEF Entries
  <2>4. pc' \in [Runs -> {"none", "load", "append", "run", "persist", "dispatch", "done", "dead", "left"}]
        /\ rtask' \in [Runs -> Tasks \cup {NoTask}] /\ rocc' \in [Runs -> 0 .. MaxOcc]
    BY <1>0, <1>9, <2>3 DEF U!Dispatch, U!Starts
  <2>5. pendingSet' \subseteq Tasks /\ running' \subseteq Tasks
    BY <1>0, <1>9, <2>3 DEF U!Dispatch, U!Starts
  <2> QED BY <1>0, <1>9, <2>2, <2>4, <2>5
      DEF U!Dispatch, U!Starts, U!TypeOK, Entries, U!store, U!entries, U!scan
<1>10. ASSUME U!DispatchEnds PROVE Goal
  BY <1>0, <1>10 DEF U!DispatchEnds, U!TypeOK, Entries, U!store, U!queue, U!entries, U!scan, U!runs
<1>11. ASSUME NEW r \in Runs, U!Loads(r) PROVE Goal
  BY <1>0, <1>11 DEF U!Loads, U!Leaves, U!Go, U!TypeOK, Entries, U!runRest, U!entries, U!scan
<1>12. ASSUME NEW r \in Runs, U!Appends(r) PROVE Goal
  BY <1>0, <1>12 DEF U!Appends, U!Leaves, U!Go, U!TypeOK, Entries, U!runRest, U!entries, U!scan
<1>13. ASSUME NEW r \in Runs, U!DeadlineFires(r) PROVE Goal
  BY <1>0, <1>13 DEF U!DeadlineFires, U!TypeOK, Entries, U!runRest, U!entries, U!scan
<1>14. ASSUME NEW r \in Runs, U!CancelRun(r) PROVE Goal
  BY <1>0, <1>14 DEF U!CancelRun, U!TypeOK, Entries, U!runRest, U!entries, U!scan
<1>15. ASSUME NEW r \in Runs, U!Settles(r) PROVE Goal
  <2>1. res' \in [Runs -> {"none"} \cup U!Settled]
    BY <1>0, <1>15 DEF U!Settles, U!Verdict, U!Settled
  <2> QED BY <1>0, <1>15, <2>1 DEF U!Settles, U!Go, U!TypeOK, Entries, U!runRest, U!entries, U!scan
<1>16. ASSUME NEW r \in Runs, U!Persists(r) PROVE Goal
  <2>1. record' \in [Runs -> {"none", "running"} \cup U!Settled]
    <3>1. res[r] \in {"none"} \cup U!Settled
      BY <1>0
    <3>2. [record EXCEPT ![r] = IF @ = "none" THEN @ ELSE res[r]]
             \in [Runs -> {"none", "running"} \cup U!Settled]
      BY <1>0, <3>1
    <3>3. record' \in {record, [record EXCEPT ![r] = IF @ = "none" THEN @ ELSE res[r]]}
      BY <1>16 DEF U!Persists
    <3> QED BY <1>0, <3>2, <3>3
  <2> QED BY <1>0, <1>16, <2>1 DEF U!Persists, U!Leaves, U!Go, U!TypeOK, Entries, U!runRest, U!entries, U!scan
<1>17. ASSUME U!Start PROVE Goal
  <2>1. record' \in [Runs -> {"none", "running"} \cup U!Settled]
    BY <1>0, <1>17 DEF U!Start, U!Settled
  <2> QED BY <1>0, <1>17, <2>1 DEF U!Start, U!TypeOK, Entries, U!lifeRest, U!entries, U!scan, U!runs
<1>18. ASSUME U!Stop PROVE Goal
  BY <1>0, <1>18 DEF U!Stop, U!TypeOK, Entries, U!lifeRest, U!entries, U!scan, U!runs
<1>19. ASSUME U!Dies PROVE Goal
  <2>1. /\ pc' \in [Runs -> {"none", "load", "append", "run", "persist", "dispatch",
                              "done", "dead", "left"}]
        /\ ctx' \in [Runs -> {"live", "deadline", "stopped"}]
        /\ res' \in [Runs -> {"none"} \cup U!Settled]
        /\ crashes' \in 0 .. MaxCrashes
    BY <1>0, <1>19 DEF U!Dies
  <2>2. /\ row' \in [Tasks -> {"none", "enabled", "disabled"}]
        /\ occ' \in [Tasks -> 1 .. MaxOcc]
        /\ next' \in [Tasks -> {"ahead", "due", "missed"}]
        /\ record' \in [Runs -> {"none", "running"} \cup U!Settled]
        /\ rtask' \in [Runs -> Tasks \cup {NoTask}] /\ rocc' \in [Runs -> 0 .. MaxOcc]
        /\ edits' \in 0 .. MaxEdits
    BY <1>0, <1>19 DEF U!Dies, U!store
  <2>3. pending' \in Seq(Entries) /\ mgr' = "down" /\ tick' = "idle"
    BY <1>19 DEF U!Dies
  <2>4. todo' \subseteq U!Items /\ at' \in U!Items \cup {U!Nothing} /\ asked' \in BOOLEAN
    BY <1>19 DEF U!Dies
  <2>5. pendingSet' \subseteq Tasks /\ running' \subseteq Tasks
        /\ active' \subseteq Runs /\ canceled' \subseteq active'
    BY <1>19 DEF U!Dies
  <2> QED BY <2>1, <2>2, <2>3, <2>4, <2>5 DEF U!TypeOK, Entries
<1>20. ASSUME U!Boots PROVE Goal
  BY <1>0, <1>20 DEF U!Boots, U!TypeOK, Entries, U!store, U!entries, U!scan, U!runs
<1>21. ASSUME UNCHANGED U!vars PROVE Goal
  BY <1>0, <1>21 DEF U!vars, U!TypeOK, Entries, U!store, U!queue, U!entries, U!scan, U!runs
<1> HIDE DEF Goal
<1> QED BY <1>1, <1>2, <1>3, <1>4, <1>5, <1>6, <1>7, <1>8, <1>9, <1>10, <1>11, <1>12, <1>13,
        <1>14, <1>15, <1>16, <1>17, <1>18, <1>19, <1>20, <1>21 DEF U!Next, U!Tick, U!Run

\* The types of what the occurrences are counted by.
Shape ==
    /\ \A t \in Tasks : occ[t] \in Nat /\ occ[t] >= 1
    /\ \A k \in DOMAIN pending : pending[k].task \in Tasks /\ pending[k].occ \in Nat
    /\ \A i \in todo : i.task \in Tasks /\ i.occ \in Nat
    /\ \A r \in Runs : rocc[r] \in Nat

\* The entry a tick works on.
AtShape == at \in U!Items => at.task \in Tasks /\ at.occ \in Nat

\* What TypeOK says, field by field.
LEMMA AutoShape ==
  ASSUME AutoAssumption, U!TypeOK
  PROVE  Shape /\ AtShape
<1>1. \A k \in DOMAIN pending : pending[k].task \in Tasks /\ pending[k].occ \in Nat
  <2>1. pending \in Seq(Entries)
    BY DEF U!TypeOK, Entries
  <2>2. \A e \in Entries : e.task \in Tasks /\ e.occ \in Nat
    BY DEF Entries, AutoAssumption
  <2> HIDE DEF Entries
  <2>3. \A k \in DOMAIN pending : pending[k] \in Entries
    BY <2>1
  <2> QED BY <2>2, <2>3
<1>2. \A n \in 0 .. MaxOcc : n \in Nat
  OBVIOUS
<1>3. \A i \in U!Items : i.task \in Tasks /\ i.occ \in Nat
  BY <1>2 DEF U!Items
<1>4. \A t \in Tasks : occ[t] \in Nat /\ occ[t] >= 1
  BY DEF U!TypeOK, AutoAssumption
<1>5. \A r \in Runs : rocc[r] \in Nat
  <2>1. rocc \in [Runs -> 0 .. MaxOcc]
    BY DEF U!TypeOK
  <2> QED BY <2>1, <1>2
<1>6. todo \subseteq U!Items
  BY DEF U!TypeOK
<1> QED BY <1>1, <1>3, <1>4, <1>5, <1>6 DEF Shape, AtShape

\* The occurrences are kept apart.
QueueInv == UsedAreSpent /\ ListedAreUnused /\ UsedOnce

\* Triggers move only forward, and a deleted task comes back with a later one.
Forward ==
    \A t \in Tasks :
        /\ occ[t] <= occ'[t]
        /\ next[t] # "ahead" => occ[t] < occ'[t] \/ next'[t] # "ahead"
        /\ row[t] = "none" /\ next[t] # "ahead" => occ[t] < occ'[t] \/ row'[t] = "none"

\* A step that starts and ends no run.
RunsStay == rtask' = rtask /\ rocc' = rocc /\ \A r \in Runs : pc[r] = "none" <=> pc'[r] = "none"

\* An occurrence that is spent, or has come, stays so while triggers only move on.
LEMMA SpentStays ==
  ASSUME Shape, Shape', Forward
  PROVE  \A t \in Tasks, o \in Nat : (Spent(t, o) => Spent(t, o)') /\ (Comes(t, o) => Comes(t, o)')
<1> TAKE t \in Tasks, o \in Nat
<1> DEFINE a == occ[t]
           b == occ'[t]
<1>1. a \in Nat /\ b \in Nat /\ a <= b
  BY DEF Shape, Forward
<1>2. next[t] # "ahead" => a < b \/ next'[t] # "ahead"
  BY DEF Forward
<1>3. row[t] = "none" /\ next[t] # "ahead" => a < b \/ row'[t] = "none"
  BY DEF Forward
<1> HIDE DEF a, b
<1>4. (o < a => o < b) /\ (o = a => o = b \/ o < b) /\ (o = a /\ a < b => o < b)
  BY <1>1
<1>5. Spent(t, o) => Spent(t, o)'
  BY <1>2, <1>3, <1>4 DEF Spent, a, b
<1>6. Comes(t, o) => Comes(t, o)'
  BY <1>2, <1>4 DEF Comes, a, b
<1> QED BY <1>5, <1>6

\* Nothing is queued or started, and nothing is listed.
LEMMA TriggersMove ==
  ASSUME Shape, AtShape, QueueInv, Shape', Forward, RunsStay, todo' \subseteq todo,
         pending' = pending \/ pending' = << >>,
         (tick' = tick /\ at' = at) \/ tick' \notin {"advance", "queue"}
  PROVE  QueueInv'
<1>1. \A t \in Tasks, o \in Nat : (Spent(t, o) => Spent(t, o)') /\ (Comes(t, o) => Comes(t, o)')
  BY SpentStays
<1>2. DOMAIN pending' \subseteq DOMAIN pending
      /\ \A k \in DOMAIN pending' : pending'[k] = pending[k]
  OBVIOUS
<1>3. \A t, o : Unused(t, o) => Unused(t, o)'
  BY <1>2 DEF Unused, RunsStay
<1>4. UsedAreSpent'
  BY <1>1, <1>2 DEF UsedAreSpent, QueueInv, Shape, RunsStay
<1>5. ListedAreUnused'
  BY <1>1, <1>3 DEF ListedAreUnused, QueueInv, Shape, AtShape
<1>6. UsedOnce'
  BY <1>2 DEF UsedOnce, QueueInv, RunsStay
<1> QED BY <1>4, <1>5, <1>6 DEF QueueInv

\* One entry is queued: of occurrence 0, or one that was not.
LEMMA EntryQueued ==
  ASSUME Shape, AtShape, QueueInv, Shape', NEW t \in Tasks, NEW o \in Nat,
         pending \in Seq(Entries), pending' = Append(pending, [task |-> t, occ |-> o]),
         Spent(t, o), Unused(t, o) \/ o = 0, \A i \in todo : i.task = t => o = 0,
         occ' = occ, next' = next, row' = row, RunsStay, todo' = todo,
         (tick' = tick /\ at' = at /\ o = 0) \/ tick' \notin {"advance", "queue"}
  PROVE  QueueInv'
<1> DEFINE n == Len(pending) + 1
<1>1. /\ DOMAIN pending' = DOMAIN pending \cup {n} /\ n \notin DOMAIN pending
      /\ pending'[n].task = t /\ pending'[n].occ = o
      /\ \A k \in DOMAIN pending : pending'[k] = pending[k]
  OBVIOUS
<1> HIDE DEF n
<1>2. Forward
  BY DEF Forward, Shape
<1>3. \A u \in Tasks, q \in Nat : (Spent(u, q) => Spent(u, q)') /\ (Comes(u, q) => Comes(u, q)')
  BY <1>2, SpentStays
<1>4. \A u, q : Unused(u, q) /\ ~ (u = t /\ q = o) => Unused(u, q)'
  BY <1>1 DEF Unused, RunsStay
<1>5. UsedAreSpent'
  BY <1>1, <1>3 DEF UsedAreSpent, QueueInv, Shape, RunsStay
<1>6. ListedAreUnused'
  <2>1. \A i \in todo : ~ (i.task = t /\ i.occ = o)
    BY DEF QueueInv, ListedAreUnused, Comes
  <2>2. \A i \in todo' : (Comes(i.task, i.occ) /\ Unused(i.task, i.occ))'
    BY <1>3, <1>4, <2>1 DEF QueueInv, ListedAreUnused, Shape
  <2>3. tick' \in {"advance", "queue"} =>
          at \in U!Items /\ at.occ >= 1 /\ Unused(at.task, at.occ)'
          /\ \A i \in todo : i.task # at.task
    BY <1>4 DEF QueueInv, ListedAreUnused
  <2>4. tick' = "advance" => Comes(at.task, at.occ)'
    BY <1>3 DEF QueueInv, ListedAreUnused, AtShape
  <2>5. tick' = "queue" => Spent(at.task, at.occ)'
    BY <1>3 DEF QueueInv, ListedAreUnused, AtShape
  <2> QED BY <2>2, <2>3, <2>4, <2>5 DEF QueueInv, ListedAreUnused
<1>7. UsedOnce'
  <2>1. \A k \in DOMAIN pending : pending[k].task = t /\ pending[k].occ = o => o = 0
    BY DEF Unused
  <2>2. \A r \in Runs : pc[r] # "none" /\ rtask[r] = t /\ rocc[r] = o => o = 0
    BY DEF Unused
  <2> QED BY <1>1, <2>1, <2>2 DEF UsedOnce, QueueInv, RunsStay
<1> QED BY <1>5, <1>6, <1>7 DEF QueueInv

\* The head of the queue becomes a run.
LEMMA EntryStarts ==
  ASSUME Shape, AtShape, QueueInv, Shape', pending \in Seq(Entries), pending # << >>,
         NEW r \in Runs, pc[r] = "none",
         \A s \in Runs : s # r => pc'[s] = pc[s] /\ rtask'[s] = rtask[s] /\ rocc'[s] = rocc[s],
         pc'[r] = "load", rtask'[r] = Head(pending).task, rocc'[r] = Head(pending).occ,
         pending' = Tail(pending), occ' = occ, next' = next, row' = row, todo' = todo,
         tick' = tick, at' = at
  PROVE  QueueInv'
<1>1. /\ \A k \in DOMAIN pending' : k + 1 \in DOMAIN pending /\ pending'[k] = pending[k + 1]
      /\ 1 \in DOMAIN pending /\ Head(pending) = pending[1]
      /\ \A k \in DOMAIN pending' : k \in Nat \ {0}
  OBVIOUS
<1>2. Forward
  BY DEF Forward, Shape
<1>3. \A u \in Tasks, q \in Nat : (Spent(u, q) => Spent(u, q)') /\ (Comes(u, q) => Comes(u, q)')
  BY <1>2, SpentStays
<1>h. pending[1].task \in Tasks /\ pending[1].occ \in Nat
  BY <1>1 DEF Shape
<1>4. \A u, q : Unused(u, q) => Unused(u, q)'
  <2> SUFFICES ASSUME NEW u, NEW q, Unused(u, q) PROVE Unused(u, q)'
    OBVIOUS
  <2>1. \A k \in DOMAIN pending' : ~ (pending'[k].task = u /\ pending'[k].occ = q)
    BY <1>1 DEF Unused
  <2>2. \A s \in Runs : ~ (pc'[s] # "none" /\ rtask'[s] = u /\ rocc'[s] = q)
    BY <1>1 DEF Unused
  <2> QED BY <2>1, <2>2 DEF Unused
<1>5. UsedAreSpent'
  <2>1. ASSUME NEW k \in DOMAIN pending' PROVE Spent(pending[k].task, pending[k].occ)'
    <3> DEFINE u == pending[k + 1].task
               q == pending[k + 1].occ
    <3>1. pending'[k].task = u /\ pending'[k].occ = q /\ u \in Tasks /\ q \in Nat /\ Spent(u, q)
      BY <1>1 DEF UsedAreSpent, QueueInv, Shape
    <3> HIDE DEF u, q
    <3> QED BY <3>1, <1>2 DEF Spent
  <2>2. ASSUME NEW s \in Runs, pc'[s] # "none"
        PROVE  rtask'[s] \in Tasks /\ Spent(rtask[s], rocc[s])'
    <3>1. CASE s = r
      BY <1>1, <1>h, <3>1 DEF UsedAreSpent, QueueInv, Spent
    <3>2. CASE s # r
      BY <2>2, <3>2 DEF UsedAreSpent, QueueInv, Spent
    <3> QED BY <3>1, <3>2
  <2> QED BY <2>1, <2>2 DEF UsedAreSpent
<1>6. ListedAreUnused'
  BY <1>3, <1>4 DEF ListedAreUnused, QueueInv, Shape, AtShape
<1>7. UsedOnce'
  <2>1. \A k, l \in DOMAIN pending' :
          pending'[k].occ >= 1 /\ pending'[k].task = pending'[l].task
            /\ pending'[k].occ = pending'[l].occ => k = l
    <3> SUFFICES ASSUME NEW k \in DOMAIN pending', NEW l \in DOMAIN pending',
                        pending'[k].occ >= 1, pending'[k].task = pending'[l].task,
                        pending'[k].occ = pending'[l].occ
                 PROVE  k = l
      OBVIOUS
    <3>1. k + 1 = l + 1
      BY <1>1 DEF UsedOnce, QueueInv
    <3> QED BY <3>1, <1>1
  <2>2. \A p, s \in Runs :
          pc'[p] # "none" /\ pc'[s] # "none" /\ rocc'[p] >= 1 /\ rtask'[p] = rtask'[s]
            /\ rocc'[p] = rocc'[s] => p = s
    BY <1>1 DEF UsedOnce, QueueInv
  <2>3. \A k \in DOMAIN pending', s \in Runs :
          ~ (pc'[s] # "none" /\ rocc'[s] >= 1 /\ pending'[k].task = rtask'[s]
               /\ pending'[k].occ = rocc'[s])
    <3> SUFFICES ASSUME NEW k \in DOMAIN pending', NEW s \in Runs, pc'[s] # "none",
                        rocc'[s] >= 1, pending'[k].task = rtask'[s], pending'[k].occ = rocc'[s]
                 PROVE  FALSE
      OBVIOUS
    <3>1. CASE s # r
      BY <3>1, <1>1 DEF UsedOnce, QueueInv
    <3>2. CASE s = r
      <4>1. k + 1 = 1
        BY <3>2, <1>1 DEF UsedOnce, QueueInv
      <4> QED BY <4>1, <1>1
    <3> QED BY <3>1, <3>2
  <2> QED BY <2>1, <2>2, <2>3 DEF UsedOnce
<1> QED BY <1>5, <1>6, <1>7 DEF QueueInv

\* Every step of the manager keeps the occurrences apart: in the queue, of a run, or
\* still to come.
LEMMA QueueStep ==
  ASSUME AutoAssumption, U!TypeOK, U!TypeOK', QueueInv, [U!Next]_(U!vars)
  PROVE  QueueInv'
<1> DEFINE Goal == QueueInv'
<1> SUFFICES Goal
  OBVIOUS
<1> USE DEF U!store, U!queue, U!entries, U!scan, U!runs, U!tickRest, U!runRest, U!lifeRest
<1>s. Shape /\ AtShape /\ Shape' /\ pending \in Seq(Entries)
  <2>1. Shape /\ AtShape
    BY AutoShape
  <2>2. Shape'
    BY AutoShape, PTL
  <2>3. pending \in Seq(Entries)
    BY DEF U!TypeOK, Entries
  <2> QED BY <2>1, <2>2, <2>3
<1>f. /\ row \in [Tasks -> {"none", "enabled", "disabled"}]
      /\ occ \in [Tasks -> 1 .. MaxOcc]
      /\ next \in [Tasks -> {"ahead", "due", "missed"}]
      /\ pc \in [Runs -> {"none", "load", "append", "run", "persist", "dispatch",
                          "done", "dead", "left"}]
      /\ rtask \in [Runs -> Tasks \cup {NoTask}] /\ rocc \in [Runs -> 0 .. MaxOcc]
  BY DEF U!TypeOK
<1>u. occ' = occ /\ next' = next /\ row' = row => Forward
  BY <1>s DEF Forward, Shape
<1>k. \A t \in Tasks : U!Ahead(t) =>
        /\ \A u \in Tasks : occ[u] <= occ'[u] /\ (u # t => occ'[u] = occ[u] /\ next'[u] = next[u])
        /\ next[t] # "ahead" => occ[t] < occ'[t]
  BY <1>f DEF U!Ahead, AutoAssumption
<1>m. Forward /\ RunsStay /\ todo' \subseteq todo /\ (pending' = pending \/ pending' = << >>)
      /\ ((tick' = tick /\ at' = at) \/ tick' \notin {"advance", "queue"}) => Goal
  BY <1>s, TriggersMove
<1>1. ASSUME NEW t \in Tasks, U!TimePasses(t) PROVE Goal
  <2>1. Forward
    BY <1>1, <1>f, <1>s DEF U!TimePasses, Forward, Shape
  <2> QED BY <1>1, <1>m, <2>1 DEF U!TimePasses, RunsStay
<1>2. ASSUME NEW t \in Tasks, U!Save(t) PROVE Goal
  <2>1. Forward
    BY <1>2, <1>f, <1>k DEF U!Save, Forward
  <2> QED BY <1>2, <1>m, <2>1 DEF U!Save, RunsStay
<1>3. ASSUME NEW t \in Tasks, U!Delete(t) PROVE Goal
  <2>1. Forward
    BY <1>3, <1>f, <1>s DEF U!Delete, Forward, Shape
  <2> QED BY <1>3, <1>m, <2>1 DEF U!Delete, RunsStay
<1>4. ASSUME NEW t \in Tasks, U!RunNow(t) PROVE Goal
  <2>1. Spent(t, 0)
    BY <1>s DEF Spent, Shape
  <2>2. /\ pending' = Append(pending, [task |-> t, occ |-> 0]) /\ occ' = occ /\ next' = next
        /\ row' = row /\ todo' = todo /\ tick' = tick /\ at' = at
    BY <1>4 DEF U!RunNow, U!Enqueue
  <2>3. RunsStay
    BY <1>4 DEF U!RunNow, RunsStay
  <2> HIDE DEF Goal
  <2>4. QueueInv'
    BY <1>s, <2>1, <2>2, <2>3, EntryQueued, 0 \in Nat
  <2> QED BY <2>4 DEF Goal
<1>5. ASSUME U!TickLists PROVE Goal
  <2>1. \A i \in todo' : /\ i \in U!Items /\ row[i.task] = "enabled" /\ i.occ = occ[i.task]
                         /\ next[i.task] # "ahead" /\ i.missed = (next[i.task] = "missed")
    BY <1>5 DEF U!TickLists
  <2>2. \A i \in U!Items : i.task \in Tasks /\ i.occ \in 0 .. MaxOcc /\ i.missed \in BOOLEAN
    BY DEF U!Items
  <2>3. /\ pending' = pending /\ occ' = occ /\ next' = next /\ row' = row /\ tick' = "look"
        /\ pc' = pc /\ rtask' = rtask /\ rocc' = rocc
    BY <1>5 DEF U!TickLists
  <2>4. \A t \in Tasks : row[t] = "enabled" => Unused(t, occ[t])
    BY <1>s DEF QueueInv, UsedAreSpent, Spent, Unused, Shape
  <2>5. \A i \in todo' : (Comes(i.task, i.occ) /\ Unused(i.task, i.occ))'
    BY <1>s, <2>1, <2>2, <2>3, <2>4 DEF Comes, Unused, Shape
  <2>6. \A i, j \in todo' : i.task = j.task => i = j
    <3> SUFFICES ASSUME NEW i \in todo', NEW j \in todo', i.task = j.task PROVE i = j
      OBVIOUS
    <3>1. i.occ = j.occ /\ i.missed = j.missed /\ i \in U!Items /\ j \in U!Items
      BY <2>1
    <3> QED BY <3>1 DEF U!Items
  <2>7. UsedAreSpent' /\ UsedOnce'
    BY <2>3 DEF QueueInv, UsedAreSpent, UsedOnce, Spent
  <2> QED BY <2>3, <2>5, <2>6, <2>7 DEF QueueInv, ListedAreUnused
<1>6. ASSUME U!TickLooks PROVE Goal
  <2>1. /\ pending' = pending /\ occ' = occ /\ next' = next /\ row' = row
        /\ pc' = pc /\ rtask' = rtask /\ rocc' = rocc /\ tick = "look"
    BY <1>6 DEF U!TickLooks
  <2>2. CASE todo = {}
    BY <1>6, <2>1, <2>2, <1>m, <1>u DEF U!TickLooks, RunsStay
  <2>3. ASSUME NEW i \in todo, todo' = todo \ {i}, at' = IF U!Busy(i.task) THEN U!Nothing ELSE i,
               tick' = IF U!Busy(i.task) THEN "look" ELSE "advance"
        PROVE  Goal
    <3>1. CASE U!Busy(i.task)
      BY <2>1, <2>3, <3>1, <1>m, <1>u DEF RunsStay
    <3>2. CASE ~ U!Busy(i.task)
      <4>1. at' = i /\ tick' = "advance" /\ i \in U!Items
        BY <2>3, <3>2 DEF U!TypeOK
      <4>2. UsedAreSpent' /\ UsedOnce'
        BY <2>1 DEF QueueInv, UsedAreSpent, UsedOnce, Spent
      <4>3. \A t, o : (Unused(t, o) <=> Unused(t, o)') /\ (Comes(t, o) <=> Comes(t, o)')
        BY <2>1 DEF Unused, Comes
      <4>4. ListedAreUnused'
        BY <4>1, <4>3, <2>3 DEF QueueInv, ListedAreUnused, Comes
      <4> QED BY <4>2, <4>4 DEF QueueInv
    <3> QED BY <3>1, <3>2
  <2> QED BY <1>6, <2>2, <2>3 DEF U!TickLooks
<1>7. ASSUME U!TickAdvances PROVE Goal
  <2>1. /\ pending' = pending /\ row' = row /\ todo' = todo /\ at' = at
        /\ pc' = pc /\ rtask' = rtask /\ rocc' = rocc /\ tick = "advance"
    BY <1>7 DEF U!TickAdvances
  <2>2. at \in U!Items /\ at.task \in Tasks /\ at.occ \in Nat /\ at.occ >= 1
        /\ Comes(at.task, at.occ) /\ Unused(at.task, at.occ)
    BY <2>1, <1>s DEF QueueInv, ListedAreUnused, AtShape
  <2>3. Forward
    <3>1. CASE U!Ahead(at.task)
      BY <3>1, <2>1, <2>2, <1>f, <1>k DEF Forward
    <3>2. CASE occ' = occ /\ next' = next
      BY <3>2, <2>1, <1>u
    <3> QED BY <1>7, <3>1, <3>2 DEF U!TickAdvances
  <2>4. CASE tick' # "queue"
    <3>1. tick' = "look"
      BY <1>7, <2>4 DEF U!TickAdvances
    <3> QED BY <3>1, <2>1, <2>3, <1>m DEF RunsStay
  <2>5. CASE tick' = "queue"
    <3>1. Spent(at.task, at.occ)'
      <4> DEFINE t == at.task
                 o == at.occ
      <4>1. t \in Tasks /\ o \in Nat /\ Comes(t, o) /\ occ[t] \in Nat /\ occ'[t] \in Nat
        BY <2>2, <1>s DEF Shape
      <4>2. CASE row[t] = "none" /\ occ' = occ /\ next' = next
        <5>1. o < occ'[t] \/ (o = occ'[t] /\ next'[t] # "ahead" /\ row'[t] = "none")
          <6> HIDE DEF t, o
          <6> QED BY <4>1, <4>2, <2>1 DEF Comes
        <5> QED BY <5>1, <2>1 DEF Spent
      <4>3. CASE U!Ahead(t)
        <5>1. occ[t] <= occ'[t] /\ (next[t] # "ahead" => occ[t] < occ'[t])
          BY <4>3, <4>1, <1>k
        <5>2. o < occ'[t]
          <6> HIDE DEF t, o
          <6> QED BY <4>1, <5>1 DEF Comes
        <5> QED BY <5>2, <2>1 DEF Spent
      <4> QED BY <1>7, <2>5, <4>2, <4>3 DEF U!TickAdvances
    <3>2. \A t \in Tasks, o \in Nat : (Spent(t, o) => Spent(t, o)') /\ (Comes(t, o) => Comes(t, o)')
      BY <1>s, <2>3, SpentStays
    <3>3. \A t, o : Unused(t, o) => Unused(t, o)'
      BY <2>1 DEF Unused
    <3>4. UsedAreSpent'
      BY <3>2, <2>1, <1>s DEF QueueInv, UsedAreSpent, Shape
    <3>5. ListedAreUnused'
      BY <3>1, <3>2, <3>3, <2>1, <2>2, <2>5, <1>s DEF QueueInv, ListedAreUnused, Shape
    <3>6. UsedOnce'
      BY <2>1 DEF QueueInv, UsedOnce
    <3> QED BY <3>4, <3>5, <3>6 DEF QueueInv
  <2> QED BY <2>4, <2>5
<1>8. ASSUME U!TickQueues PROVE Goal
  <2>1. at \in U!Items /\ at.task \in Tasks /\ at.occ \in Nat
        /\ Spent(at.task, at.occ) /\ Unused(at.task, at.occ)
        /\ \A i \in todo : i.task # at.task
    BY <1>8, <1>s DEF U!TickQueues, QueueInv, ListedAreUnused, AtShape
  <2>2. /\ pending' = Append(pending, [task |-> at.task, occ |-> at.occ]) /\ occ' = occ
        /\ next' = next /\ row' = row /\ todo' = todo /\ tick' = "look"
    BY <1>8 DEF U!TickQueues, U!Enqueue
  <2>3. RunsStay
    BY <1>8 DEF U!TickQueues, RunsStay
  <2> HIDE DEF Goal
  <2>4. tick' \notin {"advance", "queue"}
    BY <2>2
  <2>5. QueueInv'
    BY <1>s, <2>1, <2>2, <2>3, <2>4, EntryQueued
  <2> QED BY <2>5 DEF Goal
<1>9. ASSUME U!Dispatch PROVE Goal
  <2>1. PICK r \in Runs : /\ pc[r] = "none" /\ pc' = [pc EXCEPT ![r] = "load"]
                          /\ rtask' = [rtask EXCEPT ![r] = Head(pending).task]
                          /\ rocc' = [rocc EXCEPT ![r] = Head(pending).occ]
    BY <1>9 DEF U!Dispatch, U!Starts
  <2>2. /\ pending # << >> /\ pending' = Tail(pending) /\ occ' = occ /\ next' = next
        /\ row' = row /\ todo' = todo /\ tick' = tick /\ at' = at
    BY <1>9 DEF U!Dispatch, U!Starts, U!CanStart
  <2>3. /\ \A s \in Runs : s # r => pc'[s] = pc[s] /\ rtask'[s] = rtask[s] /\ rocc'[s] = rocc[s]
        /\ pc'[r] = "load" /\ rtask'[r] = Head(pending).task /\ rocc'[r] = Head(pending).occ
    BY <2>1, <1>f
  <2> HIDE DEF Goal
  <2>4. QueueInv'
    BY <1>s, <2>1, <2>2, <2>3, EntryStarts
  <2> QED BY <2>4 DEF Goal
<1>10. ASSUME U!DispatchEnds PROVE Goal
  <2>1. RunsStay /\ todo' = todo /\ pending' = pending /\ occ' = occ /\ next' = next /\ row' = row
    BY <1>10, <1>f DEF U!DispatchEnds, RunsStay
  <2>2. (tick' = tick /\ at' = at) \/ tick' \notin {"advance", "queue"}
    BY <1>10 DEF U!DispatchEnds
  <2> QED BY <2>1, <2>2, <1>m, <1>u
<1>11. ASSUME NEW r \in Runs, U!Run(r) PROVE Goal
  <2>1. RunsStay
    BY <1>11, <1>f DEF U!Run, U!Loads, U!Appends, U!DeadlineFires, U!CancelRun, U!Settles,
       U!Persists, U!Leaves, U!Go, RunsStay
  <2>2. /\ todo' = todo /\ pending' = pending /\ occ' = occ /\ next' = next /\ row' = row
        /\ tick' = tick /\ at' = at
    BY <1>11 DEF U!Run, U!Loads, U!Appends, U!DeadlineFires, U!CancelRun, U!Settles, U!Persists
  <2> QED BY <2>1, <2>2, <1>m, <1>u
<1>12. ASSUME U!Start \/ U!Stop \/ U!Boots \/ UNCHANGED U!vars PROVE Goal
  <2>1. /\ RunsStay /\ todo' = todo /\ (pending' = pending \/ pending' = << >>)
        /\ occ' = occ /\ next' = next /\ row' = row /\ tick' = tick /\ at' = at
    BY <1>12 DEF U!Start, U!Stop, U!Boots, U!vars, RunsStay
  <2> QED BY <2>1, <1>m, <1>u
<1>13. ASSUME U!Dies PROVE Goal
  <2>1. /\ RunsStay /\ todo' = {} /\ pending' = << >> /\ tick' = "idle"
        /\ occ' = occ /\ next' = next /\ row' = row
    BY <1>13 DEF U!Dies, RunsStay
  <2> QED BY <2>1, <1>m, <1>u
<1> HIDE DEF Goal
<1> QED BY <1>1, <1>2, <1>3, <1>4, <1>5, <1>6, <1>7, <1>8, <1>9, <1>10, <1>11, <1>12, <1>13
        DEF U!Next, U!Tick

\* If the queue could move, somebody is on the way to move it.
Served == U!CanStart /\ mgr = "on" => U!Dispatchers # {} \/ tick # "idle"

\* The runs, their records and the queue.
RunInv == AutoQuiet /\ RecordsFollow /\ U!NoStaleRunning /\ Served

\* A step that queues nothing, gives no slot back and takes nobody out of dispatch.
LEMMA ServedStays ==
  ASSUME Served, pending' = pending, running' = running, mgr' = "on" => mgr = "on",
         tick # "idle" => tick' # "idle",
         asked => asked', tick = "dispatch" => tick' # "idle",
         \A r \in Runs : pc[r] = "dispatch" => pc'[r] = "dispatch"
  PROVE  Served'
<1>1. U!CanStart' /\ mgr' = "on" => U!CanStart /\ mgr = "on"
  BY DEF U!CanStart
<1>2. U!Dispatchers # {} => U!Dispatchers' # {} \/ tick' # "idle"
  <2>1. asked => U!Dispatchers' # {}
    BY DEF U!Dispatchers
  <2>2. \A r \in Runs : pc[r] = "dispatch" => U!Dispatchers' # {}
    BY DEF U!Dispatchers
  <2>3. U!Dispatchers # {} => asked \/ tick = "dispatch" \/ \E r \in Runs : pc[r] = "dispatch"
    BY DEF U!Dispatchers
  <2> QED BY <2>1, <2>2, <2>3
<1> QED BY <1>1, <1>2 DEF Served

\* A tick, a request to dispatch and a run that ends each serve the queue.
LEMMA SomebodyServes ==
  /\ tick' # "idle" => Served'
  /\ asked' => Served'
  /\ (\E r \in Runs : pc'[r] = "dispatch") => Served'
BY DEF Served, U!Dispatchers

\* Every step keeps the records of the runs with the runs, and the queue served.
LEMMA RunStep ==
  ASSUME AutoAssumption, U!TypeOK, RunInv, [U!Next]_(U!vars)
  PROVE  RunInv'
<1> DEFINE Goal == RunInv'
<1> SUFFICES Goal
  OBVIOUS
<1> USE DEF U!store, U!queue, U!entries, U!scan, U!runs, U!tickRest, U!runRest, U!lifeRest
<1>f. /\ record \in [Runs -> {"none", "running"} \cup U!Settled]
      /\ pc \in [Runs -> {"none", "load", "append", "run", "persist", "dispatch",
                          "done", "dead", "left"}]
      /\ res \in [Runs -> {"none"} \cup U!Settled]
      /\ mgr \in {"down", "starting", "on", "stopped"}
  BY DEF U!TypeOK
<1>i. AutoQuiet /\ RecordsFollow /\ U!NoStaleRunning /\ Served
  BY DEF RunInv
<1>1. ASSUME NEW t \in Tasks, U!TimePasses(t) \/ U!Save(t) PROVE Goal
  <2>1. /\ pending' = pending /\ running' = running /\ mgr' = mgr /\ tick' = tick
        /\ asked' = asked /\ pc' = pc /\ record' = record
    BY <1>1 DEF U!TimePasses, U!Save
  <2>2. Served'
    BY <2>1, <1>i, ServedStays
  <2> QED BY <2>1, <2>2, <1>i DEF RunInv, AutoQuiet, RecordsFollow, U!NoStaleRunning
<1>2. ASSUME NEW t \in Tasks, U!Delete(t) PROVE Goal
  <2>1. /\ pending' = pending /\ running' = running /\ mgr' = mgr /\ tick' = tick
        /\ asked' = asked /\ pc' = pc
    BY <1>2 DEF U!Delete
  <2>2. Served'
    BY <2>1, <1>i, ServedStays
  <2>3. \A r \in Runs : record'[r] \in {"none", record[r]}
    BY <1>2 DEF U!Delete
  <2> QED BY <2>1, <2>2, <2>3, <1>i DEF RunInv, AutoQuiet, RecordsFollow, U!NoStaleRunning
<1>3. ASSUME NEW t \in Tasks, U!RunNow(t) PROVE Goal
  <2>1. asked' /\ mgr = "on" /\ mgr' = mgr /\ pc' = pc /\ record' = record
    BY <1>3 DEF U!RunNow
  <2>2. Served'
    BY <2>1, SomebodyServes
  <2> QED BY <2>1, <2>2, <1>i DEF RunInv, AutoQuiet, RecordsFollow, U!NoStaleRunning
<1>4. ASSUME U!Tick PROVE Goal
  <2>1. tick' # "idle" /\ mgr' = mgr /\ pc' = pc /\ record' = record /\ asked' = asked
    BY <1>4 DEF U!Tick, U!TickLists, U!TickLooks, U!TickAdvances, U!TickQueues
  <2>2. Served'
    BY <2>1, SomebodyServes
  <2>3. mgr \notin {"down", "starting"}
    BY <1>4, <1>i DEF U!Tick, U!TickLists, U!TickLooks, U!TickAdvances, U!TickQueues, AutoQuiet
  <2> QED BY <2>1, <2>2, <2>3, <1>i DEF RunInv, AutoQuiet, RecordsFollow, U!NoStaleRunning
<1>5. ASSUME U!Dispatch PROVE Goal
  <2>1. PICK r \in Runs : pc[r] = "none" /\ pc' = [pc EXCEPT ![r] = "load"]
    BY <1>5 DEF U!Dispatch, U!Starts
  <2>2. /\ record' = record /\ mgr' = mgr /\ mgr # "stopped" /\ asked' = asked /\ tick' = tick
        /\ pending # << >>
    BY <1>5 DEF U!Dispatch, U!Starts, U!CanStart
  <2>3. mgr = "on"
    BY <1>f, <1>i, <2>2 DEF AutoQuiet
  <2>4. U!Dispatchers # {} => U!Dispatchers' # {}
    <3>1. \A s \in Runs : pc[s] = "dispatch" => pc'[s] = "dispatch"
      BY <2>1, <1>f
    <3>2. asked => U!Dispatchers' # {}
      BY <2>2 DEF U!Dispatchers
    <3>3. tick = "dispatch" => U!Dispatchers' # {}
      BY <2>2 DEF U!Dispatchers
    <3>4. \A s \in Runs : pc[s] = "dispatch" => U!Dispatchers' # {}
      BY <3>1 DEF U!Dispatchers
    <3>5. U!Dispatchers # {} => asked \/ tick = "dispatch" \/ \E s \in Runs : pc[s] = "dispatch"
      BY DEF U!Dispatchers
    <3> QED BY <3>2, <3>3, <3>4, <3>5
  <2>5. Served'
    BY <1>5, <2>4 DEF U!Dispatch, Served
  <2>6. RecordsFollow' /\ U!NoStaleRunning'
    BY <2>1, <2>2, <1>i, <1>f DEF RecordsFollow, U!NoStaleRunning
  <2>7. AutoQuiet'
    BY <2>2, <2>3 DEF AutoQuiet
  <2> QED BY <2>5, <2>6, <2>7 DEF RunInv
<1>6. ASSUME U!DispatchEnds PROVE Goal
  <2>1. /\ pending' = pending /\ running' = running /\ mgr' = mgr /\ record' = record
        /\ mgr = "stopped" \/ ~ U!CanStart
    BY <1>6 DEF U!DispatchEnds
  <2>2. Served'
    BY <2>1 DEF Served, U!CanStart
  <2>3. /\ \A r \in Runs : pc'[r] = pc[r] \/ (pc[r] = "dispatch" /\ pc'[r] = "done")
        /\ asked' => asked
        /\ tick = "idle" => tick' = "idle"
    BY <1>6, <1>f DEF U!DispatchEnds
  <2>4. AutoQuiet'
    BY <2>1, <2>3, <1>i DEF AutoQuiet
  <2>5. RecordsFollow' /\ U!NoStaleRunning'
    BY <2>1, <2>3, <1>i DEF RecordsFollow, U!NoStaleRunning
  <2> QED BY <2>2, <2>4, <2>5 DEF RunInv
<1>7. ASSUME NEW r \in Runs, U!Run(r) PROVE Goal
  <2>1. /\ pending' = pending /\ mgr' = mgr /\ tick' = tick /\ asked' = asked
    BY <1>7 DEF U!Run, U!Loads, U!Appends, U!DeadlineFires, U!CancelRun, U!Settles, U!Persists
  <2>2. \A s \in Runs : s # r => pc'[s] = pc[s] /\ record'[s] = record[s]
    BY <1>7, <1>f DEF U!Run, U!Loads, U!Appends, U!DeadlineFires, U!CancelRun, U!Settles, U!Persists,
       U!Leaves, U!Go
  <2>3. \/ pc[r] = "load" /\ pc'[r] = "append" /\ record'[r] = record[r] /\ running' = running
        \/ pc[r] = "append" /\ pc'[r] = "run" /\ record'[r] = "running" /\ running' = running
        \/ pc[r] = "run" /\ pc'[r] = "persist" /\ record'[r] = record[r] /\ running' = running
        \/ pc[r] \in {"load", "append", "persist"} /\ pc'[r] = "dispatch"
        \/ pc'[r] = pc[r] /\ record'[r] = record[r] /\ running' = running
    BY <1>7, <1>f DEF U!Run, U!Loads, U!Appends, U!DeadlineFires, U!CancelRun, U!Settles, U!Persists,
       U!Leaves, U!Go
  <2>4. AutoQuiet'
    <3>1. CASE mgr \in {"down", "starting"}
      <4>1. pc[r] \in {"none", "dead"}
        BY <3>1, <1>i DEF AutoQuiet
      <4>2. pc'[r] = pc[r]
        BY <4>1, <2>3
      <4> QED BY <2>1, <2>2, <4>1, <4>2, <1>i DEF AutoQuiet
    <3>2. CASE mgr \notin {"down", "starting"}
      BY <3>2, <2>1 DEF AutoQuiet
    <3> QED BY <3>1, <3>2
  <2>5. RecordsFollow'
    BY <2>2, <2>3, <1>i DEF RecordsFollow
  <2>6. U!NoStaleRunning'
    BY <2>1, <2>2, <2>3, <1>i DEF U!NoStaleRunning
  <2>7. Served'
    <3>1. CASE pc'[r] = "dispatch" /\ pc[r] # "dispatch"
      BY <3>1, SomebodyServes
    <3>2. CASE ~ (pc'[r] = "dispatch" /\ pc[r] # "dispatch")
      <4>1. running' = running /\ (pc[r] = "dispatch" => pc'[r] = "dispatch")
        BY <2>3, <3>2
      <4> QED BY <4>1, <2>1, <2>2, <1>i, ServedStays
    <3> QED BY <3>1, <3>2
  <2> QED BY <2>4, <2>5, <2>6, <2>7 DEF RunInv
<1>8. ASSUME U!Start PROVE Goal
  <2>1. /\ mgr = "starting" /\ mgr' = "on" /\ pending' = pending /\ pending = << >>
        /\ \A r \in Runs : pc[r] \in {"none", "dead"}
    BY <1>8, <1>i DEF U!Start, AutoQuiet
  <2>2. Served' /\ AutoQuiet'
    BY <2>1 DEF Served, U!CanStart, AutoQuiet
  <2>3. ASSUME NEW r \in Runs
        PROVE  \/ pc'[r] = pc[r] /\ record'[r] = (IF record[r] = "running" THEN "failed" ELSE record[r])
               \/ pc'[r] = pc[r] /\ record'[r] = record[r] /\ (pc[r] = "none" \/ record[r] # "running")
               \/ pc'[r] = "left" /\ record'[r] = record[r]
    BY <1>8, <2>1 DEF U!Start
  <2>4. \A r \in Runs : pc[r] = "none" => record[r] = "none"
    BY <1>i DEF RecordsFollow
  <2>5. RecordsFollow' /\ U!NoStaleRunning'
    BY <2>1, <2>3, <2>4, <1>i DEF RecordsFollow, U!NoStaleRunning
  <2> QED BY <2>2, <2>5 DEF RunInv
<1>9. ASSUME U!Stop PROVE Goal
  <2>1. mgr = "on" /\ mgr' = "stopped" /\ pc' = pc /\ record' = record
    BY <1>9 DEF U!Stop
  <2>2. Served' /\ AutoQuiet'
    BY <2>1 DEF Served, AutoQuiet
  <2> QED BY <2>1, <2>2, <1>i DEF RunInv, RecordsFollow, U!NoStaleRunning
<1>10. ASSUME U!Dies PROVE Goal
  <2>1. /\ mgr' = "down" /\ pending' = << >> /\ tick' = "idle" /\ ~ asked' /\ record' = record
        /\ \A r \in Runs : pc'[r] = IF pc[r] = "none" THEN "none" ELSE "dead"
    BY <1>10 DEF U!Dies
  <2>2. Served' /\ AutoQuiet' /\ U!NoStaleRunning'
    BY <2>1 DEF Served, AutoQuiet, U!NoStaleRunning
  <2>3. RecordsFollow'
    BY <2>1, <1>i DEF RecordsFollow
  <2> QED BY <2>2, <2>3 DEF RunInv
<1>11. ASSUME U!Boots PROVE Goal
  <2>1. /\ mgr = "down" /\ mgr' = "starting" /\ pending' = pending /\ tick' = tick /\ asked' = asked
        /\ pc' = pc /\ record' = record
    BY <1>11 DEF U!Boots
  <2> QED BY <2>1, <1>i DEF RunInv, Served, AutoQuiet, RecordsFollow, U!NoStaleRunning
<1>12. ASSUME UNCHANGED U!vars PROVE Goal
  <2>1. /\ mgr' = mgr /\ pending' = pending /\ tick' = tick /\ asked' = asked /\ running' = running
        /\ pc' = pc /\ record' = record
    BY <1>12 DEF U!vars
  <2>2. Served'
    BY <2>1, <1>i, ServedStays
  <2> QED BY <2>1, <2>2, <1>i DEF RunInv, AutoQuiet, RecordsFollow, U!NoStaleRunning
<1> HIDE DEF Goal
<1> QED BY <1>1, <1>2, <1>3, <1>4, <1>5, <1>6, <1>7, <1>8, <1>9, <1>10, <1>11, <1>12 DEF U!Next

\* What a step does to a run that is stopped, and to a row that is settled.
LEMMA AutoReopens ==
  ASSUME AutoAssumption, U!TypeOK, RunInv, [U!Next]_(U!vars)
  PROVE  U!NeverReopens
<1> USE DEF U!store, U!queue, U!entries, U!scan, U!runs, U!tickRest, U!runRest, U!lifeRest
<1>f. /\ record \in [Runs -> {"none", "running"} \cup U!Settled]
      /\ pc \in [Runs -> {"none", "load", "append", "run", "persist", "dispatch",
                          "done", "dead", "left"}]
      /\ res \in [Runs -> {"none"} \cup U!Settled]
  BY DEF U!TypeOK
<1>i. AutoQuiet /\ RecordsFollow
  BY DEF RunInv
<1>1. U!StopStartsNothing
  <2> SUFFICES ASSUME mgr = "stopped", NEW r \in Runs, pc[r] = "none" PROVE pc'[r] = "none"
    BY DEF U!StopStartsNothing
  <2>1. CASE \E s \in Runs : U!Run(s)
    BY <2>1, <1>f DEF U!Run, U!Loads, U!Appends, U!DeadlineFires, U!CancelRun, U!Settles, U!Persists,
       U!Leaves, U!Go
  <2>2. CASE U!Tick \/ \E t \in Tasks : U!TimePasses(t) \/ U!Save(t) \/ U!Delete(t) \/ U!RunNow(t)
    BY <2>2 DEF U!Tick, U!TickLists, U!TickLooks, U!TickAdvances, U!TickQueues, U!TimePasses, U!Save,
       U!Delete, U!RunNow
  <2>3. CASE U!DispatchEnds
    BY <2>3, <1>f DEF U!DispatchEnds
  <2>4. CASE U!Start \/ U!Stop \/ U!Boots \/ UNCHANGED U!vars
    BY <2>4 DEF U!Start, U!Stop, U!Boots, U!vars
  <2>5. CASE U!Dies
    BY <2>5 DEF U!Dies
  <2>6. ~ U!Dispatch
    BY DEF U!Dispatch, U!Starts
  <2> QED BY <2>1, <2>2, <2>3, <2>4, <2>5, <2>6 DEF U!Next
<1>2. U!SettledIsFinal
  <2> SUFFICES ASSUME NEW r \in Runs, record[r] \in U!Settled
               PROVE  record'[r] \in {record[r], "none"}
    BY DEF U!SettledIsFinal
  <2>0. record[r] \notin {"none", "running"}
    BY DEF U!Settled
  <2>p. pc[r] \notin {"none", "load", "append", "run", "persist"}
    BY <2>0, <1>i DEF RecordsFollow
  <2>1. ASSUME NEW s \in Runs, U!Run(s) PROVE record'[r] = record[r]
    <3>1. CASE s = r
      BY <3>1, <2>1, <2>p, <1>f DEF U!Run, U!Loads, U!Appends, U!DeadlineFires, U!CancelRun, U!Settles,
         U!Persists, U!Leaves, U!Go
    <3>2. CASE s # r
      BY <3>2, <2>1, <1>f DEF U!Run, U!Loads, U!Appends, U!DeadlineFires, U!CancelRun, U!Settles,
         U!Persists, U!Leaves, U!Go
    <3> QED BY <3>1, <3>2
  <2>2. CASE U!Tick \/ U!Dispatch \/ U!DispatchEnds
             \/ \E t \in Tasks : U!TimePasses(t) \/ U!Save(t) \/ U!RunNow(t)
    BY <2>2 DEF U!Tick, U!TickLists, U!TickLooks, U!TickAdvances, U!TickQueues, U!TimePasses, U!Save,
       U!RunNow, U!Dispatch, U!Starts, U!DispatchEnds
  <2>3. CASE \E t \in Tasks : U!Delete(t)
    BY <2>3 DEF U!Delete
  <2>4. CASE U!Start
    BY <2>4, <2>0 DEF U!Start
  <2>5. CASE U!Stop \/ U!Dies \/ U!Boots \/ UNCHANGED U!vars
    BY <2>5 DEF U!Stop, U!Dies, U!Boots, U!vars
  <2> QED BY <2>1, <2>2, <2>3, <2>4, <2>5 DEF U!Next
<1>3. U!StopIsNoFailure
  <2> SUFFICES ASSUME NEW r \in canceled \ canceled', mgr' # "down"
               PROVE  res'[r] \in {"completed", "timeout", "canceled"}
    BY DEF U!StopIsNoFailure
  <2>1. PICK s \in Runs : U!Settles(s)
    BY DEF U!Next, U!Tick, U!TickLists, U!TickLooks, U!TickAdvances, U!TickQueues, U!TimePasses,
       U!Save, U!Delete, U!RunNow, U!Dispatch, U!Starts, U!DispatchEnds, U!Run, U!Loads, U!Appends,
       U!DeadlineFires, U!CancelRun, U!Persists, U!Start, U!Stop, U!Dies, U!Boots, U!vars
  <2>2. canceled' = canceled \ {s} /\ \E o : res' = [res EXCEPT ![s] = U!Verdict(s, o)]
    BY <2>1 DEF U!Settles
  <2>3. r = s /\ r \in canceled
    BY <2>2
  <2>4. PICK o : res' = [res EXCEPT ![r] = U!Verdict(r, o)]
    BY <2>2, <2>3
  <2>5. U!Verdict(r, o) \in {"completed", "timeout", "canceled"}
    BY <2>3 DEF U!Verdict
  <2>6. r \in Runs
    BY <2>1, <2>3
  <2> QED BY <2>4, <2>5, <2>6, <1>f
<1> QED BY <1>1, <1>2, <1>3 DEF U!NeverReopens

\* A set with at most one member.
LEMMA AtMostOne ==
  ASSUME NEW S, \A x, y \in S : x = y
  PROVE  Cardinality(S) = IF S = {} THEN 0 ELSE 1
<1>1. CASE S = {}
  BY <1>1, FS_EmptySet
<1>2. CASE S # {}
  <2>1. PICK x \in S : TRUE
    BY <1>2
  <2>2. S = {x}
    BY <2>1
  <2> QED BY <2>2, <1>2, FS_Singleton
<1> QED BY <1>1, <1>2

\* The Cardinality of the instance is the one of the library.
LEMMA CountedSame ==
  ASSUME NEW S
  PROVE  U!Cardinality(S) = Cardinality(S)
BY DEF U!Cardinality, Cardinality

\* Used once is counted once.
LEMMA OccurrenceOnce ==
  ASSUME UsedOnce
  PROVE  U!OncePerOccurrence
<1> SUFFICES ASSUME NEW t \in Tasks, NEW o \in 1 .. MaxOcc
             PROVE  U!Cardinality({k \in DOMAIN pending : pending[k] = [task |-> t, occ |-> o]})
                    + U!Cardinality({r \in Runs : pc[r] # "none" /\ rtask[r] = t /\ rocc[r] = o}) <= 1
  BY DEF U!OncePerOccurrence
<1> DEFINE I == {k \in DOMAIN pending : pending[k] = [task |-> t, occ |-> o]}
           J == {r \in Runs : pc[r] # "none" /\ rtask[r] = t /\ rocc[r] = o}
<1>0. o >= 1
  OBVIOUS
<1>1. \A k \in I : k \in DOMAIN pending /\ pending[k].task = t /\ pending[k].occ = o
  OBVIOUS
<1>2. \A x, y \in I : x = y
  BY <1>0, <1>1 DEF UsedOnce
<1>3. \A x, y \in J : x = y
  BY <1>0 DEF UsedOnce
<1>4. I = {} \/ J = {}
  BY <1>0, <1>1 DEF UsedOnce
<1> HIDE DEF I, J
<1>5. Cardinality(I) = (IF I = {} THEN 0 ELSE 1) /\ Cardinality(J) = (IF J = {} THEN 0 ELSE 1)
  BY <1>2, <1>3, AtMostOne
<1>6. U!Cardinality(I) = Cardinality(I) /\ U!Cardinality(J) = Cardinality(J)
  BY CountedSame
<1>7. U!Cardinality(I) + U!Cardinality(J) <= 1
  BY <1>4, <1>5, <1>6
<1> QED BY <1>7 DEF I, J

\* No task is due, queued or running at first.
LEMMA AutoInit ==
  ASSUME AutoAssumption, U!Init
  PROVE  U!TypeOK /\ QueueInv /\ RunInv
<1>1. pending = << >> /\ DOMAIN pending = {}
  BY DEF U!Init
<1>2. U!TypeOK
  <2>1. /\ row \in [Tasks -> {"none", "enabled", "disabled"}]
        /\ occ \in [Tasks -> 1 .. MaxOcc]
        /\ next \in [Tasks -> {"ahead", "due", "missed"}]
    BY DEF U!Init, AutoAssumption
  <2>2. /\ record \in [Runs -> {"none", "running"} \cup U!Settled]
        /\ pc \in [Runs -> {"none", "load", "append", "run", "persist", "dispatch",
                            "done", "dead", "left"}]
        /\ rtask \in [Runs -> Tasks \cup {NoTask}] /\ rocc \in [Runs -> 0 .. MaxOcc]
        /\ ctx \in [Runs -> {"live", "deadline", "stopped"}]
        /\ res \in [Runs -> {"none"} \cup U!Settled]
    BY DEF U!Init, AutoAssumption
  <2>3. /\ pending \in Seq([task : Tasks, occ : 0 .. MaxOcc])
        /\ todo \subseteq U!Items /\ at \in U!Items \cup {U!Nothing}
        /\ edits \in 0 .. MaxEdits /\ crashes \in 0 .. MaxCrashes
    BY DEF U!Init, AutoAssumption
  <2>4. /\ pendingSet \subseteq Tasks /\ running \subseteq Tasks
        /\ mgr \in {"down", "starting", "on", "stopped"}
        /\ active \subseteq Runs /\ canceled \subseteq active
        /\ tick \in {"idle", "scan", "look", "advance", "queue", "dispatch"}
        /\ asked \in BOOLEAN
    BY DEF U!Init
  <2> QED BY <2>1, <2>2, <2>3, <2>4 DEF U!TypeOK
<1>3. QueueInv
  BY <1>1 DEF U!Init, QueueInv, UsedAreSpent, ListedAreUnused, UsedOnce
<1>4. RunInv
  BY DEF U!Init, RunInv, AutoQuiet, RecordsFollow, U!NoStaleRunning, Served, U!CanStart
<1> QED BY <1>2, <1>3, <1>4

\* The invariants hold of every behaviour.
LEMMA AutoAlways == AutoAssumption /\ U!Spec => [](U!TypeOK /\ QueueInv /\ RunInv)
<1> SUFFICES ASSUME AutoAssumption PROVE U!Spec => [](U!TypeOK /\ QueueInv /\ RunInv)
  OBVIOUS
<1>1. U!Init => U!TypeOK /\ QueueInv /\ RunInv
  BY AutoInit
<1>2. U!TypeOK /\ QueueInv /\ RunInv /\ [U!Next]_(U!vars) => (U!TypeOK /\ QueueInv /\ RunInv)'
  BY AutoTypes, QueueStep, RunStep DEF QueueInv
<1> QED BY <1>1, <1>2, PTL DEF U!Spec

(***************************************************************************)
(* An occurrence of an automation is queued or run at most once, for any   *)
(* tasks, runs and limit, across edits, stops, restarts and manual runs    *)
(* (automations/manager.go, store.go).                                     *)
(***************************************************************************)
THEOREM OccurrencesRunOnce == AutoAssumption /\ U!Spec => [](U!TypeOK /\ U!OncePerOccurrence)
<1> SUFFICES ASSUME AutoAssumption PROVE U!Spec => [](U!TypeOK /\ U!OncePerOccurrence)
  OBVIOUS
<1>1. QueueInv => U!OncePerOccurrence
  BY OccurrenceOnce DEF QueueInv
<1> QED BY <1>1, AutoAlways, PTL

(***************************************************************************)
(* When a slot is free and a task waits, somebody is on the way to start   *)
(* it; and a row that says "running" is that of a run on its way, of one   *)
(* whose update at the end failed, or of an earlier process whose rows a   *)
(* failing Reconcile left (manager.go: dispatch, Start; store.go:          *)
(* Reconcile).                                                             *)
(***************************************************************************)
THEOREM QueueServed == AutoAssumption /\ U!Spec => [](U!QueueIsServed /\ U!NoStaleRunning)
<1> SUFFICES ASSUME AutoAssumption PROVE U!Spec => [](U!QueueIsServed /\ U!NoStaleRunning)
  OBVIOUS
<1>1. RunInv => U!QueueIsServed /\ U!NoStaleRunning
  BY DEF RunInv, Served, U!QueueIsServed
<1> QED BY <1>1, AutoAlways, PTL

(***************************************************************************)
(* A run that was settled, by its end, a stop or recovery, never takes     *)
(* another outcome.                                                        *)
(***************************************************************************)
THEOREM SettledStays == AutoAssumption /\ U!Spec => [][U!NeverReopens]_(U!vars)
<1> SUFFICES ASSUME AutoAssumption PROVE U!Spec => [][U!NeverReopens]_(U!vars)
  OBVIOUS
<1>1. U!TypeOK /\ RunInv /\ [U!Next]_(U!vars) => [U!NeverReopens]_(U!vars)
  BY AutoReopens
<1> QED BY <1>1, AutoAlways, PTL DEF U!Spec

-----------------------------------------------------------------------------
(* Schedules: when an automation runs next. *)

\* What Validate accepts.
Valid(s) ==
    /\ s \in [type : {"hourly", "daily", "weekdays", "weekly"}, every : Nat,
              at : 0 .. DayLen - 1, days : SUBSET H!EveryDay, origin : Nat \cup {H!NoTime}]
    /\ s.type = "hourly" => s.every >= 1
    /\ s.type = "weekly" => s.days # {}

\* A day has a reading, the scans reach a week, and schedules are validated.
ClockAssumption ==
    /\ DayLen \in Nat \ {0} /\ Lookahead \in Nat /\ 7 * (DayLen + 1) <= Lookahead
    /\ \A s \in Inputs : Valid(s)

\* A weekly schedule has its anchor.
Anchored(s) == Valid(s) /\ (s.type = "weekly" => s.origin \in Nat)

\* The least of a set of numbers is one of them (the first hit of a scan).
LEMMA LeastHit ==
  ASSUME NEW S, S \subseteq Nat, S # {}
  PROVE  H!Min(S) \in S /\ \A y \in S : H!Min(S) <= y
<1> DEFINE Less == OpToRel(<, Nat)
<1>1. IsWellFoundedOn(Less, Nat)
  BY NatLessThanWellFounded, Zenon
<1> HIDE DEF Less
<1>2. PICK x \in S : \A y \in S : ~ (<<y, x>> \in Less)
  BY <1>1, WFMin
<1>3. \A y \in S : ~(y < x)
  BY <1>2 DEF Less, OpToRel
<1>4. \A y \in S : x <= y
  BY <1>3
<1>5. \E z \in S : \A y \in S : z <= y
  BY <1>4
<1> QED BY <1>5, Zenon DEF H!Min

\* The day and the time of day of a clock reading (recurrence.go, onDate).
LEMMA OfDay ==
  ASSUME NEW D \in Nat \ {0}, NEW x \in Nat, NEW a \in 0 .. D - 1
  PROVE  /\ x * D + a \in Nat /\ (x * D + a) \div D = x /\ (x * D + a) % D = a
<1>1. (x * D + a) \div D = x
  OBVIOUS
<1>2. (x * D + a) % D = a
  OBVIOUS
<1>3. x * D + a \in Nat
  OBVIOUS
<1> QED BY <1>1, <1>2, <1>3

\* A clock reading is a day and a time of that day.
LEMMA DayAndTime ==
  ASSUME NEW D \in Nat \ {0}, NEW t \in Nat
  PROVE  /\ t \div D \in Nat /\ t % D \in 0 .. D - 1 /\ t = (t \div D) * D + (t % D)
<1> DEFINE S == {r \in Nat : \E x \in Nat : t = x * D + r}
<1>1. t \in S
  <2>1. t = 0 * D + t
    OBVIOUS
  <2> QED BY <2>1
<1>2. PICK r \in S : \A y \in S : r <= y
  BY <1>1, LeastHit
<1>3. PICK x \in Nat : t = x * D + r
  BY <1>2
<1>4. r < D
  <2> SUFFICES ASSUME ~ (r < D) PROVE FALSE
    OBVIOUS
  <2>1. r - D \in Nat /\ r - D < r /\ t = (x + 1) * D + (r - D) /\ x + 1 \in Nat
    BY <1>3
  <2>2. r - D \in S
    BY <2>1
  <2> QED BY <1>2, <2>1, <2>2
<1>5. r \in 0 .. D - 1
  BY <1>4
<1>6. t \div D = x /\ t % D = r
  BY <1>3, <1>5, OfDay
<1>7. (t \div D) * D + (t % D) = x * D + r
  BY <1>6, Zenon
<1> QED BY <1>3, <1>5, <1>6, <1>7, Zenon

\* A reading of an earlier day is earlier (recurrence.go, the scans count days up).
LEMMA DaysApart ==
  ASSUME NEW D \in Nat \ {0}, NEW x \in Nat, NEW y \in Nat, x < y, NEW a \in 0 .. D - 1, NEW b \in Nat
  PROVE  x * D + a < y * D + b
OBVIOUS

\* Multiples come in the order of their factors (the steps of a scan).
LEMMA Multiples ==
  ASSUME NEW d \in Nat \ {0}, NEW k \in Nat
  PROVE  /\ (k * d) % d = 0 /\ k * d \in Nat /\ k <= k * d
         /\ \A j \in Nat : j * d < k * d => j < k
         /\ \A j \in Nat : j <= k => j * d <= k * d
<1>1. (k * d) % d = 0
  OBVIOUS
<1>2. k * d \in Nat /\ k <= k * d
  OBVIOUS
<1>3. \A j \in Nat : j * d < k * d => j < k
  OBVIOUS
<1>4. \A j \in Nat : j <= k => j * d <= k * d
  OBVIOUS
<1> QED BY <1>1, <1>2, <1>3, <1>4

\* The rule of a schedule, mode by mode (recurrenceFromSchedule).
LEMMA RuleOf ==
  ASSUME NEW s, Valid(s), NEW after \in Nat
  PROVE  /\ s.type = "hourly" =>
              H!NextAfter(s, after) =
                H!NextHourly([freq |-> "hourly", interval |-> s.every,
                              days |-> IF s.days = {} THEN H!EveryDay ELSE s.days], after)
         /\ s.type = "daily" =>
              H!NextAfter(s, after) =
                H!NextDaily([freq |-> "daily", interval |-> 1, at |-> s.at,
                             days |-> H!EveryDay], after)
         /\ s.type = "weekdays" =>
              H!NextAfter(s, after) =
                H!NextDaily([freq |-> "daily", interval |-> 1, at |-> s.at,
                             days |-> 0 .. 4], after)
         /\ s.type = "weekly" =>
              H!NextAfter(s, after) =
                H!NextWeekly([freq |-> "weekly", interval |-> H!Max({1, s.every}), at |-> s.at,
                              days |-> s.days, origin |-> s.origin], after)
BY DEF H!NextAfter, H!recurrenceFromSchedule

\* An hourly scan gives its first hit (recurrence.go, nextHourly).
LEMMA HourlyScan ==
  ASSUME NEW e \in Nat \ {0}, NEW days, NEW after \in Nat, ClockAssumption
  PROVE  LET r == [freq |-> "hourly", interval |-> e, days |-> days]
             hits == {k \in 1 .. Lookahead : /\ k * e < Lookahead
                                             /\ H!Weekday(after + k * e) \in days}
         IN  IF hits = {} THEN H!NextHourly(r, after) = H!NoTime
             ELSE \E k \in hits : /\ H!NextHourly(r, after) = after + k * e
                                  /\ \A j \in hits : k <= j
<1> DEFINE r == [freq |-> "hourly", interval |-> e, days |-> days]
           hits == {k \in 1 .. Lookahead : /\ k * e < Lookahead
                                           /\ H!Weekday(after + k * e) \in days}
           scan == {k \in {k \in 1 .. Lookahead : k * r.interval < Lookahead} :
                      /\ after + k * r.interval > after
                      /\ H!Weekday(after + k * r.interval) \in r.days}
<1>1. H!NextHourly(r, after) = IF scan = {} THEN H!NoTime ELSE after + H!Min(scan) * r.interval
  BY DEF H!NextHourly, H!Scan
<1>2. r.interval = e /\ r.days = days
  OBVIOUS
<1>3. \A k \in 1 .. Lookahead : after + k * e > after
  BY DEF ClockAssumption
<1>4. scan = hits
  <2> HIDE DEF r
  <2> QED BY <1>2, <1>3
<1>5. hits \subseteq Nat
  OBVIOUS
<1>6. hits # {} => H!Min(hits) \in hits /\ \A j \in hits : H!Min(hits) <= j
  <2> HIDE DEF hits
  <2> QED BY <1>5, LeastHit
<1> HIDE DEF r, hits, scan
<1>7. IF hits = {} THEN H!NextHourly(r, after) = H!NoTime
      ELSE \E k \in hits : /\ H!NextHourly(r, after) = after + k * e
                           /\ \A j \in hits : k <= j
  BY <1>1, <1>2, <1>4, <1>6
<1> QED BY <1>7 DEF r, hits

\* A daily scan gives its first hit (recurrence.go, nextDaily).
LEMMA DailyScan ==
  ASSUME NEW a \in 0 .. DayLen - 1, NEW days, NEW after \in Nat, ClockAssumption
  PROVE  LET r == [freq |-> "daily", interval |-> 1, at |-> a, days |-> days]
             moment(k) == (H!Day(after) + k) * DayLen + a
             hits == {k \in 0 .. Lookahead : /\ k * DayLen <= Lookahead
                                             /\ moment(k) > after /\ H!Weekday(moment(k)) \in days}
         IN  IF hits = {} THEN H!NextDaily(r, after) = H!NoTime
             ELSE \E k \in hits : /\ H!NextDaily(r, after) = moment(k)
                                  /\ \A j \in hits : k <= j
<1> DEFINE r == [freq |-> "daily", interval |-> 1, at |-> a, days |-> days]
           moment(k) == (H!Day(after) + k) * DayLen + a
           hits == {k \in 0 .. Lookahead : /\ k * DayLen <= Lookahead
                                           /\ moment(k) > after /\ H!Weekday(moment(k)) \in days}
           can(k) == (H!Day(after) + k * r.interval) * DayLen + r.at
           scan == {k \in {k \in 0 .. Lookahead : k * r.interval * DayLen <= Lookahead} :
                      can(k) > after /\ H!Weekday(can(k)) \in r.days}
<1>1. H!NextDaily(r, after) = IF scan = {} THEN H!NoTime ELSE can(H!Min(scan))
  BY DEF H!NextDaily, H!Scan
<1>2. r.interval = 1 /\ r.days = days /\ r.at = a
  OBVIOUS
<1>3. \A k \in Nat : k * r.interval = k /\ can(k) = moment(k)
  <2> HIDE DEF r
  <2>1. \A k \in Nat : k * r.interval = k
    BY <1>2
  <2> QED BY <1>2, <2>1
<1>4. scan = hits
  <2>1. \A k \in 0 .. Lookahead : k \in Nat
    BY DEF ClockAssumption
  <2> HIDE DEF r, moment, can
  <2> QED BY <1>2, <1>3, <2>1
<1>5. hits \subseteq Nat
  OBVIOUS
<1>6. hits # {} => H!Min(hits) \in hits /\ \A j \in hits : H!Min(hits) <= j
  <2> HIDE DEF hits
  <2> QED BY <1>5, LeastHit
<1> HIDE DEF r, hits, scan, moment, can
<1>7. IF hits = {} THEN H!NextDaily(r, after) = H!NoTime
      ELSE \E k \in hits : /\ H!NextDaily(r, after) = moment(k)
                           /\ \A j \in hits : k <= j
  BY <1>1, <1>3, <1>4, <1>5, <1>6
<1> QED BY <1>7 DEF r, hits, moment

\* The scan of a weekly rule: its on-weeks, the times in them, and those that count.
OnWeek(o, i, k) == H!WeekStart(o) + (k \div 7) * i * 7 * DayLen
WeekTime(o, i, a, k) == OnWeek(o, i, k) + (k % 7) * DayLen + a
WeeklyHits(o, i, a, days, after) ==
    {k \in 0 .. after + Lookahead :
        /\ OnWeek(o, i, k) < after + Lookahead
        /\ WeekTime(o, i, a, k) > after /\ H!Weekday(WeekTime(o, i, a, k)) \in days}

\* A weekly scan gives its first hit (recurrence.go, nextWeekly).
LEMMA WeeklyScan ==
  ASSUME NEW a \in 0 .. DayLen - 1, NEW days, NEW after \in Nat, NEW o \in Nat,
         NEW i \in Nat \ {0}, ClockAssumption
  PROVE  LET r == [freq |-> "weekly", interval |-> i, at |-> a, days |-> days, origin |-> o]
             hits == WeeklyHits(o, i, a, days, after)
         IN  IF hits = {} THEN H!NextWeekly(r, after) = H!NoTime
             ELSE \E k \in hits : /\ H!NextWeekly(r, after) = WeekTime(o, i, a, k)
                                  /\ \A j \in hits : k <= j
<1> DEFINE r == [freq |-> "weekly", interval |-> i, at |-> a, days |-> days, origin |-> o]
           start(k) == OnWeek(o, i, k)
           moment(k) == WeekTime(o, i, a, k)
           hits == WeeklyHits(o, i, a, days, after)
           begin(k) == H!WeekStart(r.origin) + (k \div 7) * r.interval * 7 * DayLen
           can(k) == begin(k) + (k % 7) * DayLen + r.at
           scan == {k \in {k \in 0 .. after + Lookahead : begin(k) < after + Lookahead} :
                      can(k) > after /\ H!Weekday(can(k)) \in r.days}
<1>1. H!NextWeekly(r, after) = IF scan = {} THEN H!NoTime ELSE can(H!Min(scan))
  BY DEF H!NextWeekly, H!Scan
<1>2. r.interval = i /\ r.days = days /\ r.at = a /\ r.origin = o
  OBVIOUS
<1>3. \A k : begin(k) = start(k) /\ can(k) = moment(k)
  <2> HIDE DEF r
  <2> QED BY <1>2 DEF OnWeek, WeekTime
<1>4. scan = hits
  <2> HIDE DEF r, can, begin
  <2> QED BY <1>2, <1>3 DEF WeeklyHits
<1>5. hits \subseteq Nat
  BY DEF ClockAssumption, WeeklyHits
<1>6. hits # {} => H!Min(hits) \in hits /\ \A j \in hits : H!Min(hits) <= j
  <2> HIDE DEF hits
  <2> QED BY <1>5, LeastHit
<1> HIDE DEF r, hits, scan, moment, can
<1>7. IF hits = {} THEN H!NextWeekly(r, after) = H!NoTime
      ELSE \E k \in hits : /\ H!NextWeekly(r, after) = moment(k)
                           /\ \A j \in hits : k <= j
  BY <1>1, <1>3, <1>4, <1>6
<1> QED BY <1>7 DEF r, hits, moment

\* The first time after a moment that a schedule promises.
FirstAfter(s, after, n) ==
    /\ n \in Nat /\ n > after /\ H!Promised(s, after, n)
    /\ \A t \in after + 1 .. n - 1 : ~ H!Promised(s, after, t)

\* A time has a weekday.
LEMMA HasWeekday ==
  ASSUME NEW t \in Nat, ClockAssumption
  PROVE  H!Day(t) \in Nat /\ H!Weekday(t) \in 0 .. 6
<1>1. H!Day(t) \in Nat
  BY DayAndTime DEF H!Day, ClockAssumption
<1>2. \A d \in Nat : d % 7 \in 0 .. 6
  OBVIOUS
<1> QED BY <1>1, <1>2 DEF H!Weekday

\* The hourly scan finds the first promised time, if one is within its look-ahead.
LEMMA HourlyFirst ==
  ASSUME NEW s, Valid(s), s.type = "hourly", NEW after \in Nat, ClockAssumption
  PROVE  IF H!NextAfter(s, after) = H!NoTime
         THEN \A k \in 1 .. Lookahead - 1 : ~ H!Promised(s, after, after + k)
         ELSE FirstAfter(s, after, H!NextAfter(s, after))
<1> DEFINE days == IF s.days = {} THEN H!EveryDay ELSE s.days
           e == s.every
           n == H!NextAfter(s, after)
           hits == {k \in 1 .. Lookahead : /\ k * e < Lookahead
                                           /\ H!Weekday(after + k * e) \in days}
<1>1. e \in Nat \ {0} /\ Lookahead \in Nat
  BY DEF Valid, ClockAssumption
<1>2. IF hits = {} THEN n = H!NoTime
      ELSE \E k \in hits : n = after + k * e /\ \A j \in hits : k <= j
  <2> HIDE DEF days
  <2>1. n = H!NextHourly([freq |-> "hourly", interval |-> e, days |-> days], after)
    BY RuleOf DEF days
  <2> HIDE DEF e, n
  <2> QED BY <1>1, <2>1, HourlyScan
<1>3. \A t \in Nat : t > after =>
        (H!Promised(s, after, t) <=> (t - after) % e = 0 /\ H!Weekday(t) \in days)
  <2> SUFFICES ASSUME NEW t \in Nat, t > after
               PROVE  H!Promised(s, after, t) <=> (t - after) % e = 0 /\ H!Weekday(t) \in days
    OBVIOUS
  <2>1. H!Promised(s, after, t) <=>
          (t - after) % e = 0 /\ (s.days # {} => H!Weekday(t) \in s.days)
    BY DEF H!Promised
  <2>2. H!Weekday(t) \in days <=> (s.days # {} => H!Weekday(t) \in s.days)
    BY HasWeekday DEF H!EveryDay
  <2> QED BY <2>1, <2>2
<1> HIDE DEF days, e, n
\* A promised time within the look-ahead is a hit.
<1>4. ASSUME NEW t \in Nat, t > after, t < after + Lookahead, H!Promised(s, after, t)
      PROVE  \E j \in hits : t = after + j * e
  <2>1. (t - after) % e = 0 /\ H!Weekday(t) \in days
    BY <1>3, <1>4
  <2>2. PICK x \in Nat : x = t - after /\ x >= 1 /\ x < Lookahead
    BY <1>1, <1>4
  <2>3. x % e = 0
    BY <2>1, <2>2
  <2>4. PICK j \in Nat : x = j * e
    <3>1. PICK y \in Nat : x = y * e + (x % e)
      BY <1>1, <2>2, DayAndTime
    <3>2. y * e \in Nat /\ x = y * e
      BY <1>1, <2>3, <3>1, Multiples
    <3> QED BY <3>2
  <2>5. j <= j * e /\ j # 0
    <3>1. j <= j * e
      BY <1>1, Multiples
    <3>2. j = 0 => j * e = 0
      BY <1>1
    <3> QED BY <3>1, <3>2, <2>2, <2>4
  <2>6. j \in 1 .. Lookahead /\ j * e < Lookahead
    BY <1>1, <2>2, <2>4, <2>5
  <2>7. t = after + j * e
    BY <1>1, <2>2, <2>4
  <2> QED BY <2>1, <2>6, <2>7
<1>5. CASE n = H!NoTime
  <2>1. hits = {}
    <3> SUFFICES ASSUME hits # {} PROVE FALSE
      OBVIOUS
    <3>1. PICK k \in hits : n = after + k * e
      BY <1>2
    <3>2. k * e \in Nat
      BY <1>1, Multiples
    <3> QED BY <1>5, <3>1, <3>2 DEF H!NoTime
  <2>2. \A k \in 1 .. Lookahead - 1 : ~ H!Promised(s, after, after + k)
    <3> SUFFICES ASSUME NEW k \in 1 .. Lookahead - 1, H!Promised(s, after, after + k) PROVE FALSE
      OBVIOUS
    <3>1. after + k \in Nat /\ after + k > after /\ after + k < after + Lookahead
      BY <1>1
    <3> HIDE DEF hits
    <3> QED BY <1>4, <2>1, <3>1
  <2> QED BY <1>5, <2>2 DEF n
<1>6. CASE n # H!NoTime
  <2>1. PICK k \in hits : n = after + k * e /\ \A j \in hits : k <= j
    BY <1>2, <1>6
  <2>2. k \in Nat /\ k >= 1 /\ k * e < Lookahead /\ H!Weekday(n) \in days
    BY <1>1, <2>1
  <2>3. (k * e) % e = 0 /\ k * e \in Nat /\ k <= k * e
    BY <1>1, <2>2, Multiples
  <2>4. n \in Nat /\ n > after /\ n - after = k * e
    BY <2>1, <2>2, <2>3
  <2>5. H!Promised(s, after, n)
    BY <1>3, <2>2, <2>3, <2>4
  <2>6. ASSUME NEW t \in after + 1 .. n - 1, H!Promised(s, after, t) PROVE FALSE
    <3>1. t \in Nat /\ t > after /\ t < after + Lookahead /\ t < n
      BY <1>1, <2>1, <2>2, <2>3, <2>4
    <3>2. PICK j \in hits : t = after + j * e
      BY <1>4, <2>6, <3>1
    <3>3. j \in Nat /\ j * e \in Nat /\ k <= j
      BY <1>1, <2>1, <3>2, Multiples
    <3>4. k * e <= j * e
      BY <1>1, <2>2, <3>3, Multiples
    <3> QED BY <2>1, <2>3, <3>1, <3>2, <3>3, <3>4
  <2>7. FirstAfter(s, after, n)
    BY <2>4, <2>5, <2>6 DEF FirstAfter
  <2> QED BY <1>6, <2>7 DEF n
<1> QED BY <1>5, <1>6

\* The next time of a clock, on the days of a rule, at latest a week ahead.
LEMMA DailyFirst ==
  ASSUME NEW a \in 0 .. DayLen - 1, NEW after \in Nat, ClockAssumption,
         NEW days \in {0 .. 4, 0 .. 6}
  PROVE  LET n == H!NextDaily([freq |-> "daily", interval |-> 1, at |-> a, days |-> days], after)
         IN  /\ n \in Nat /\ n > after /\ n % DayLen = a /\ H!Weekday(n) \in days
             /\ \A t \in after + 1 .. n - 1 : ~ (t % DayLen = a /\ H!Weekday(t) \in days)
<1> DEFINE n == H!NextDaily([freq |-> "daily", interval |-> 1, at |-> a, days |-> days], after)
           d == H!Day(after)
           moment(k) == (d + k) * DayLen + a
           hits == {k \in 0 .. Lookahead : /\ k * DayLen <= Lookahead
                                           /\ moment(k) > after /\ H!Weekday(moment(k)) \in days}
<1>1. IF hits = {} THEN n = H!NoTime
      ELSE \E k \in hits : n = moment(k) /\ \A j \in hits : k <= j
  BY DailyScan
<1>0. DayLen \in Nat \ {0} /\ Lookahead \in Nat /\ 7 * (DayLen + 1) <= Lookahead /\ a \in Nat
  BY DEF ClockAssumption
<1>2. d \in Nat /\ \E r \in 0 .. DayLen - 1 : after = d * DayLen + r
  BY <1>0, DayAndTime DEF H!Day
<1>3. ASSUME NEW k \in Nat
      PROVE  /\ moment(k) \in Nat /\ moment(k) % DayLen = a
             /\ H!Day(moment(k)) = d + k /\ H!Weekday(moment(k)) = (d + k) % 7
  <2>1. d + k \in Nat
    BY <1>2
  <2>2. moment(k) \in Nat /\ moment(k) % DayLen = a /\ H!Day(moment(k)) = d + k
    BY <1>0, <2>1, OfDay DEF H!Day
  <2> QED BY <2>2 DEF H!Weekday
<1> HIDE DEF n, d
<1>4. hits # {}
  <2>1. PICK k \in 1 .. 3 : (d + k) % 7 \in days
    <3>1. (d + 1) % 7 \in 0 .. 6
      BY <1>2
    <3>2. (d + 1) % 7 \in 0 .. 4 \/ (d + 2) % 7 \in 0 .. 4 \/ (d + 3) % 7 \in 0 .. 4
      BY <1>2
    <3> QED BY <3>1, <3>2
  <2>2. k \in Nat /\ k \in 0 .. Lookahead
    BY <1>0
  <2>3. k * DayLen <= Lookahead
    <3>1. k * DayLen <= 3 * DayLen
      BY <1>0, <2>2, Multiples
    <3> QED BY <1>0, <2>2, <3>1
  <2>4. moment(k) > after
    <3>1. PICK r \in 0 .. DayLen - 1 : after = d * DayLen + r
      BY <1>2
    <3>2. d < d + k /\ d + k \in Nat
      BY <1>2, <2>2
    <3> QED BY <1>0, <1>2, <3>1, <3>2, DaysApart
  <2>5. H!Weekday(moment(k)) \in days
    BY <1>3, <2>1, <2>2
  <2> HIDE DEF moment
  <2> QED BY <2>2, <2>3, <2>4, <2>5
<1>5. PICK k \in hits : n = moment(k) /\ \A j \in hits : k <= j
  BY <1>1, <1>4
<1>6. k \in Nat /\ k * DayLen <= Lookahead /\ moment(k) > after /\ H!Weekday(moment(k)) \in days /\ k <= Lookahead
  BY <1>0, <1>5
<1>7. n \in Nat /\ n > after /\ n % DayLen = a /\ H!Weekday(n) \in days
  <2> HIDE DEF moment
  <2> QED BY <1>3, <1>5, <1>6
<1>8. ASSUME NEW t \in after + 1 .. n - 1, t % DayLen = a, H!Weekday(t) \in days PROVE FALSE
  <2>1. t \in Nat /\ t > after /\ t < n
    BY <1>7
  <2> DEFINE b == H!Day(t)
  <2>2. b \in Nat /\ t = b * DayLen + a
    BY <1>0, <1>8, <2>1, DayAndTime DEF H!Day
  <2> HIDE DEF b
  <2>3. b >= d
    <3> SUFFICES ASSUME b < d PROVE FALSE
      BY <1>2, <2>2
    <3>1. PICK r \in 0 .. DayLen - 1 : after = d * DayLen + r
      BY <1>2
    <3>2. b * DayLen + a < d * DayLen + r
      BY <1>0, <1>2, <2>2, DaysApart
    <3> QED BY <2>1, <2>2, <3>1, <3>2
  <2>4. PICK j \in Nat : j = b - d
    BY <1>2, <2>2, <2>3
  <2>5. b = d + j
    BY <1>2, <2>2, <2>4
  <2>6. t = moment(j)
    BY <2>2, <2>5
  <2>7. j < k
    <3> SUFFICES ASSUME j >= k PROVE FALSE
      BY <1>6
    <3>1. (d + k) * DayLen <= (d + j) * DayLen
      BY <1>0, <1>2, <1>6, Multiples
    <3>2. (d + k) * DayLen \in Nat /\ (d + j) * DayLen \in Nat
      BY <1>0, <1>2, <1>6, Multiples
    <3> QED BY <1>0, <1>5, <2>1, <2>6, <3>1, <3>2
  <2>8. j * DayLen <= Lookahead
    <3>1. j * DayLen <= k * DayLen /\ j * DayLen \in Nat /\ k * DayLen \in Nat
      BY <1>0, <1>6, <2>7, Multiples
    <3> QED BY <1>0, <1>6, <3>1
  <2>9. j \in hits
    <3>1. j \in 0 .. Lookahead
      BY <1>0, <1>6, <2>7
    <3>2. moment(j) > after /\ H!Weekday(moment(j)) \in days
      BY <1>8, <2>1, <2>6
    <3> HIDE DEF moment
    <3> QED BY <2>8, <3>1, <3>2
  <2> QED BY <1>5, <1>6, <2>7, <2>9
<1> QED BY <1>7, <1>8 DEF n

\* Weeks of seven days.
LEMMA OfWeek ==
  ASSUME NEW w \in Nat, NEW d \in 0 .. 6
  PROVE  (7 * w + d) \div 7 = w /\ (7 * w + d) % 7 = d /\ 7 * w + d \in Nat
OBVIOUS

\* A day is a week and a weekday.
LEMMA WeekAndDay ==
  ASSUME NEW k \in Nat
  PROVE  k \div 7 \in Nat /\ k % 7 \in 0 .. 6 /\ k = 7 * (k \div 7) + (k % 7)
OBVIOUS

\* The Monday of a week begins it.
LEMMA MondayOf ==
  ASSUME NEW t \in Nat, ClockAssumption
  PROVE  /\ H!Day(t) \div 7 \in Nat
         /\ H!WeekStart(t) = (7 * (H!Day(t) \div 7)) * DayLen
<1>1. H!Day(t) \in Nat
  BY HasWeekday
<1>2. \A d \in Nat : d \div 7 \in Nat /\ d - (d % 7) = 7 * (d \div 7)
  BY WeekAndDay
<1>3. H!Day(t) - H!Weekday(t) = 7 * (H!Day(t) \div 7)
  BY <1>1, <1>2 DEF H!Weekday
<1> QED BY <1>1, <1>2, <1>3 DEF H!WeekStart

\* An interval below one counts as one.
LEMMA IntervalOf ==
  ASSUME NEW e \in Nat
  PROVE  H!Max({1, e}) = IF e > 1 THEN e ELSE 1
<1> DEFINE m == IF e > 1 THEN e ELSE 1
<1>1. m \in {1, e} \/ (e = 0 /\ m = 1)
  OBVIOUS
<1>2. m \in {1, e} /\ \A y \in {1, e} : m >= y
  OBVIOUS
<1>3. \A x \in {1, e} : (\A y \in {1, e} : x >= y) => x = m
  OBVIOUS
<1> HIDE DEF m
<1>4. H!Max({1, e}) \in {1, e} /\ \A y \in {1, e} : H!Max({1, e}) >= y
  BY <1>2, Zenon DEF H!Max
<1>5. H!Max({1, e}) = m
  BY <1>3, <1>4
<1> QED BY <1>5 DEF m

\* Day k of the rule: k \div 7 counts the on-weeks from the week of the origin.
DayOf(wo, i, k) == 7 * (wo + (k \div 7) * i) + (k % 7)

\* The week and the weekday of a day of the rule (recurrence.go, nextWeekly).
LEMMA DayAndWeek ==
  ASSUME NEW wo \in Nat, NEW i \in Nat \ {0}, NEW k \in Nat
  PROVE  /\ DayOf(wo, i, k) \in Nat /\ wo + (k \div 7) * i \in Nat
         /\ DayOf(wo, i, k) \div 7 = wo + (k \div 7) * i
         /\ DayOf(wo, i, k) % 7 = k % 7
<1>1. k \div 7 \in Nat /\ k % 7 \in 0 .. 6
  BY WeekAndDay
<1> DEFINE y == (k \div 7) * i
<1>2. y \in Nat
  BY <1>1, Multiples
<1> HIDE DEF y
<1>3. wo + y \in Nat
  BY <1>2
<1>4. /\ (7 * (wo + y) + (k % 7)) \div 7 = wo + y /\ (7 * (wo + y) + (k % 7)) % 7 = k % 7
      /\ 7 * (wo + y) + (k % 7) \in Nat
  BY <1>1, <1>3, OfWeek
<1> QED BY <1>3, <1>4 DEF y, DayOf

\* The days of a weekly rule are scanned in their order (recurrence.go, nextWeekly).
LEMMA DaysInOrder ==
  ASSUME NEW wo \in Nat, NEW i \in Nat \ {0}, NEW j \in Nat, NEW k \in Nat
  PROVE  /\ DayOf(wo, i, k) \in Nat /\ wo + (k \div 7) * i \in Nat
         /\ DayOf(wo, i, k) \div 7 = wo + (k \div 7) * i
         /\ DayOf(wo, i, k) % 7 = k % 7
         /\ j <= k => DayOf(wo, i, j) <= DayOf(wo, i, k)
         /\ j <= k => wo + (j \div 7) * i <= wo + (k \div 7) * i
<1>1. /\ j \div 7 \in Nat /\ j % 7 \in 0 .. 6 /\ j = 7 * (j \div 7) + (j % 7)
      /\ k \div 7 \in Nat /\ k % 7 \in 0 .. 6 /\ k = 7 * (k \div 7) + (k % 7)
  BY WeekAndDay
<1> DEFINE p == j \div 7
           q == k \div 7
           x == p * i
           y == q * i
<1>2. x \in Nat /\ y \in Nat
  BY <1>1, Multiples
<1>3. j <= k => p <= q
  BY <1>1
<1>4. p <= q => x <= y
  BY <1>1, Multiples
<1>5. p < q => x + 1 <= y
  BY <1>1, <1>2, Multiples
<1> HIDE DEF x, y
<1>6. j <= k => 7 * (wo + x) + (j % 7) <= 7 * (wo + y) + (k % 7)
  <2>1. CASE p < q
    BY <2>1, <1>1, <1>2, <1>5
  <2>2. CASE p = q
    <3>1. x = y
      BY <2>2 DEF x, y
    <3>2. j <= k => (j % 7) <= (k % 7)
      BY <2>2, <1>1
    <3> QED BY <3>1, <3>2, <1>1, <1>2
  <2> QED BY <2>1, <2>2, <1>1, <1>3
<1>7. /\ (7 * (wo + y) + (k % 7)) \div 7 = wo + y /\ (7 * (wo + y) + (k % 7)) % 7 = k % 7
      /\ 7 * (wo + y) + (k % 7) \in Nat /\ wo + y \in Nat
  <2>1. wo + y \in Nat
    BY <1>2
  <2> QED BY <2>1, <1>1, OfWeek
<1>8. j <= k => wo + x <= wo + y
  BY <1>2, <1>3, <1>4
<1> QED BY <1>6, <1>7, <1>8 DEF x, y, DayOf

\* What a weekly schedule promises, by day and week.
LEMMA PromisedWeekly ==
  ASSUME NEW s, Valid(s), s.type = "weekly", s.origin \in Nat, NEW after, NEW t \in Nat,
         ClockAssumption
  PROVE  H!Promised(s, after, t) <=>
           /\ t % DayLen = s.at /\ H!Weekday(t) \in s.days
           /\ t >= H!WeekStart(s.origin)
           /\ s.every > 1 => (H!Day(t) \div 7 - H!Day(s.origin) \div 7) % s.every = 0
BY DEF H!Promised

\* The weekly scan finds the first promised time, or there is none within the look-ahead
\* (recurrence.go, nextWeekly: on-weeks are counted from the origin).
LEMMA WeeklyFirst ==
  ASSUME NEW s, Valid(s), s.type = "weekly", s.origin \in Nat, NEW after \in Nat,
         ClockAssumption
  PROVE  IF H!NextAfter(s, after) = H!NoTime
         THEN \A k \in 1 .. Lookahead - 1 : ~ H!Promised(s, after, after + k)
         ELSE FirstAfter(s, after, H!NextAfter(s, after))
<1> DEFINE o == s.origin
           a == s.at
           e == s.every
           i == H!Max({1, s.every})
           n == H!NextAfter(s, after)
           wo == H!Day(o) \div 7
           start(k) == OnWeek(o, i, k)
           moment(k) == WeekTime(o, i, a, k)
           hits == {k \in 0 .. after + Lookahead :
                      /\ start(k) < after + Lookahead
                      /\ moment(k) > after /\ H!Weekday(moment(k)) \in s.days}
           day(k) == DayOf(wo, i, k)
<1>0. /\ DayLen \in Nat \ {0} /\ Lookahead \in Nat /\ 7 * (DayLen + 1) <= Lookahead
      /\ a \in 0 .. DayLen - 1 /\ a \in Nat
      /\ e \in Nat /\ s.days # {} /\ s.days \subseteq 0 .. 6 /\ o \in Nat
  BY DEF ClockAssumption, Valid, H!EveryDay
<1>1. i \in Nat \ {0} /\ (e > 1 => i = e) /\ (~ (e > 1) => i = 1)
  <2>1. i = IF e > 1 THEN e ELSE 1
    BY <1>0, IntervalOf
  <2> HIDE DEF i, e
  <2> QED BY <1>0, <2>1
<1>2. IF hits = {} THEN n = H!NoTime
      ELSE \E k \in hits : n = moment(k) /\ \A j \in hits : k <= j
  <2>1. n = H!NextWeekly([freq |-> "weekly", interval |-> i, at |-> a,
                          days |-> s.days, origin |-> o], after)
    BY RuleOf
  <2> HIDE DEF i, n, a, o
  <2>2. hits = WeeklyHits(o, i, a, s.days, after)
    BY DEF WeeklyHits
  <2> HIDE DEF hits
  <2> QED BY <1>0, <1>1, <2>1, <2>2, WeeklyScan
<1>3. wo \in Nat /\ H!WeekStart(o) = (7 * wo) * DayLen
  BY <1>0, MondayOf
<1>31. \A k \in Nat : day(k) % 7 = k % 7 /\ day(k) \div 7 = wo + (k \div 7) * i
  <2> HIDE DEF wo, i
  <2> SUFFICES ASSUME NEW k \in Nat
               PROVE  day(k) % 7 = k % 7 /\ day(k) \div 7 = wo + (k \div 7) * i
    OBVIOUS
  <2>1. wo \in Nat /\ i \in Nat \ {0}
    BY <1>1, <1>3
  <2> QED BY <2>1, DayAndWeek
<1>4. \A t \in Nat : H!Promised(s, after, t) <=>
           /\ t % DayLen = a /\ H!Weekday(t) \in s.days
           /\ t >= H!WeekStart(o)
           /\ e > 1 => (H!Day(t) \div 7 - wo) % e = 0
  BY PromisedWeekly
<1> HIDE DEF o, a, e, i, n, wo
<1>5. ASSUME NEW k \in Nat
      PROVE  /\ start(k) = (7 * (wo + (k \div 7) * i)) * DayLen
             /\ moment(k) = day(k) * DayLen + a /\ moment(k) \in Nat /\ moment(k) % DayLen = a
             /\ H!Day(moment(k)) = day(k) /\ H!Weekday(moment(k)) = k % 7
             /\ start(k) \in Nat /\ start(k) <= moment(k)
  <2>1. PICK y \in Nat, r \in Nat : y = (k \div 7) * i /\ r = k % 7
    BY <1>1, WeekAndDay, Multiples
  <2>2. start(k) = (7 * wo) * DayLen + y * 7 * DayLen
    BY <1>3, <2>1 DEF OnWeek
  <2>3. (7 * wo) * DayLen + y * 7 * DayLen = (7 * (wo + y)) * DayLen
    BY <1>0, <1>3
  <2>4. (7 * (wo + y)) * DayLen + r * DayLen + a = (7 * (wo + y) + r) * DayLen + a
    BY <1>0, <1>3
  <2>5. day(k) = 7 * (wo + y) + r /\ day(k) \in Nat
    BY <1>1, <1>3, <2>1, DaysInOrder DEF DayOf
  <2>6. moment(k) = day(k) * DayLen + a
    BY <2>1, <2>2, <2>3, <2>4, <2>5 DEF WeekTime
  <2>7. moment(k) \in Nat /\ moment(k) % DayLen = a /\ H!Day(moment(k)) = day(k)
    <3>1. \A x \in Nat : /\ x * DayLen + a \in Nat /\ (x * DayLen + a) \div DayLen = x
                        /\ (x * DayLen + a) % DayLen = a
      BY <1>0, OfDay
    <3> HIDE DEF day, moment
    <3> QED BY <2>5, <2>6, <3>1, Zenon DEF H!Day
  <2>8. H!Weekday(moment(k)) = k % 7
    <3>1. day(k) % 7 = k % 7
      BY <1>31, Zenon
    <3> HIDE DEF day, moment
    <3>2. H!Weekday(moment(k)) = H!Day(moment(k)) % 7
      BY DEF H!Weekday
    <3> QED BY <2>7, <3>1, <3>2
  <2>9. start(k) = (7 * (wo + (k \div 7) * i)) * DayLen
    BY <2>1, <2>2, <2>3
  <2>10. start(k) \in Nat /\ start(k) <= moment(k)
    <3>1. (7 * (wo + y)) * DayLen \in Nat /\ r * DayLen \in Nat
      BY <1>0, <1>3, <2>1
    <3>2. moment(k) = start(k) + r * DayLen + a /\ start(k) = (7 * (wo + y)) * DayLen
      BY <2>1, <2>2, <2>3 DEF WeekTime
    <3> QED BY <1>0, <3>1, <3>2
  <2> QED BY <2>6, <2>7, <2>8, <2>9, <2>10
<1> HIDE DEF start, moment
\* Positions in order are times in order.
<1>6. ASSUME NEW j \in Nat, NEW k \in Nat, j <= k PROVE moment(j) <= moment(k) /\ start(j) <= start(k)
  <2>1. /\ day(j) \in Nat /\ day(k) \in Nat /\ day(j) <= day(k)
        /\ wo + (j \div 7) * i \in Nat /\ wo + (k \div 7) * i \in Nat
        /\ wo + (j \div 7) * i <= wo + (k \div 7) * i
    BY <1>1, <1>3, <1>6, DaysInOrder
  <2>2. day(j) * DayLen <= day(k) * DayLen /\ day(j) * DayLen \in Nat /\ day(k) * DayLen \in Nat
    BY <1>0, <2>1, Multiples
  <2>3. ASSUME NEW x \in Nat, NEW y \in Nat, x <= y PROVE (7 * x) * DayLen <= (7 * y) * DayLen
    BY <1>0, <2>3, Multiples
  <2>4. start(j) <= start(k)
    BY <1>5, <2>1, <2>3
  <2>5. moment(j) = day(j) * DayLen + a /\ moment(k) = day(k) * DayLen + a
    BY <1>5
  <2> HIDE DEF day
  <2>6. moment(j) <= moment(k)
    BY <1>0, <2>2, <2>5
  <2> QED BY <2>4, <2>6
\* A promised time is the time of a position.
<1>7. ASSUME NEW t \in Nat, H!Promised(s, after, t)
      PROVE  \E j \in Nat : t = moment(j) /\ H!Weekday(t) = j % 7
  <2>1. /\ t % DayLen = a /\ t >= (7 * wo) * DayLen
        /\ e > 1 => (H!Day(t) \div 7 - wo) % e = 0
    BY <1>3, <1>4, <1>7
  <2>2. PICK d \in Nat : d = H!Day(t) /\ t = d * DayLen + a
    BY <1>0, <2>1, DayAndTime DEF H!Day
  <2>3. PICK w \in Nat, r \in 0 .. 6 : w = d \div 7 /\ r = d % 7 /\ d = 7 * w + r
    BY <2>2, WeekAndDay
  <2>4. w >= wo
    <3> SUFFICES ASSUME w < wo PROVE FALSE
      BY <1>3, <2>3
    <3>1. d < 7 * wo /\ 7 * wo \in Nat
      BY <1>3, <2>3
    <3>2. d * DayLen + a < (7 * wo) * DayLen + 0
      BY <1>0, <2>2, <3>1, DaysApart
    <3> QED BY <1>0, <1>3, <2>1, <2>2, <3>2
  <2>5. PICK x \in Nat : w = wo + x
    BY <1>3, <2>3, <2>4
  <2>6. \E q \in Nat : x = q * i
    <3>1. CASE e > 1
      <4>1. x % e = 0 /\ i = e /\ e \in Nat \ {0}
        <5>0. w = H!Day(t) \div 7
          BY <2>2, <2>3, Zenon
        <5>1. x = H!Day(t) \div 7 - wo
          BY <1>3, <2>5, <5>0
        <5> QED BY <1>0, <1>1, <2>1, <3>1, <5>1
      <4>2. PICK q \in Nat : x = q * e + (x % e)
        BY <4>1, DayAndTime
      <4>3. q * e \in Nat
        BY <4>1, Multiples
      <4> QED BY <4>1, <4>2, <4>3
    <3>2. CASE ~ (e > 1)
      BY <1>1, <3>2
    <3> QED BY <3>1, <3>2
  <2>7. PICK q \in Nat : x = q * i
    BY <2>6
  <2> DEFINE j == 7 * q + r
  <2>8. j \in Nat /\ j \div 7 = q /\ j % 7 = r
    BY <2>3, OfWeek
  <2> HIDE DEF j
  <2>9. day(j) = d
    BY <2>3, <2>5, <2>7, <2>8 DEF DayOf
  <2>10. t = moment(j)
    BY <1>5, <2>2, <2>8, <2>9
  <2> QED BY <2>2, <2>3, <2>8, <2>10 DEF H!Weekday
<1>8. CASE hits = {}
  <2>1. n = H!NoTime
    BY <1>2, <1>8
  <2>2. ASSUME NEW m \in 1 .. Lookahead - 1, H!Promised(s, after, after + m) PROVE FALSE
    <3>1. PICK t \in Nat : t = after + m /\ t > after /\ t < after + Lookahead
      BY <1>0
    <3>2. PICK k \in Nat : t = moment(k) /\ H!Weekday(t) = k % 7
      BY <1>7, <2>2, <3>1
    <3>3. start(k) < after + Lookahead
      <4>1. start(k) <= moment(k) /\ start(k) \in Nat
        BY <1>5
      <4> QED BY <1>0, <3>1, <3>2, <4>1
    <3>4. k <= t
      <4>1. PICK y \in Nat, r \in Nat : y = (k \div 7) * i /\ r = k % 7 /\ k <= 7 * y + r
        <5>1. PICK q \in Nat, r \in 0 .. 6 : q = k \div 7 /\ r = k % 7 /\ k = 7 * q + r
          BY WeekAndDay
        <5>2. q * i \in Nat /\ q <= q * i
          BY <1>1, <5>1, Multiples
        <5> QED BY <5>1, <5>2
      <4>2. day(k) = 7 * (wo + y) + r /\ moment(k) = day(k) * DayLen + a
        BY <1>5, <4>1 DEF DayOf
      <4>3. day(k) \in Nat /\ k <= day(k)
        BY <1>3, <4>1, <4>2
      <4> HIDE DEF day
      <4>4. day(k) * DayLen \in Nat /\ day(k) <= day(k) * DayLen
        BY <1>0, <4>3, Multiples
      <4> QED BY <1>0, <3>2, <4>2, <4>3, <4>4
    <3>5. H!Weekday(t) \in s.days
      BY <1>4, <2>2, <3>1
    <3>6. k \in hits
      BY <1>0, <3>1, <3>2, <3>3, <3>4, <3>5
    <3> QED BY <1>8, <3>6
  <2> QED BY <2>1, <2>2 DEF n
<1>9. CASE hits # {}
  <2>1. PICK k \in hits : n = moment(k) /\ \A j \in hits : k <= j
    BY <1>2, <1>9
  <2>2. /\ k \in Nat /\ k <= after + Lookahead /\ start(k) < after + Lookahead
        /\ moment(k) > after /\ H!Weekday(moment(k)) \in s.days
    BY <1>0, <2>1
  <2>3. n \in Nat /\ n > after
    BY <1>5, <2>1, <2>2
  <2>4. H!Promised(s, after, n)
    <3>1. n % DayLen = a /\ H!Weekday(n) \in s.days
      BY <1>5, <2>1, <2>2
    <3>2. n >= H!WeekStart(o)
      <4>1. (7 * wo) * DayLen = start(0)
        <5>1. 0 \div 7 = 0 /\ 0 * i = 0
          BY <1>1
        <5>2. wo + (0 \div 7) * i = wo
          BY <1>3, <5>1
        <5> QED BY <1>5, <5>2
      <4>2. moment(0) <= moment(k) /\ start(0) <= moment(0) /\ moment(0) \in Nat /\ start(0) \in Nat
        BY <1>5, <1>6, <2>2
      <4> QED BY <1>3, <2>1, <2>3, <4>1, <4>2
    <3>3. ASSUME e > 1 PROVE (H!Day(n) \div 7 - wo) % e = 0
      <4>1. H!Day(n) \div 7 = wo + (k \div 7) * i /\ i = e
        <5>1. H!Day(n) = day(k)
          BY <1>5, <2>1, <2>2
        <5>2. day(k) \div 7 = wo + (k \div 7) * i
          BY <1>31, <2>2, Zenon
        <5> HIDE DEF day
        <5> QED BY <1>1, <3>3, <5>1, <5>2
      <4>2. PICK q \in Nat : q = k \div 7
        BY <2>2, WeekAndDay
      <4>3. q * e \in Nat /\ (q * e) % e = 0
        BY <1>0, <3>3, Multiples
      <4>4. H!Day(n) \div 7 - wo = q * e
        BY <1>3, <4>1, <4>2, <4>3
      <4> QED BY <4>3, <4>4
    <3> QED BY <1>4, <2>3, <3>1, <3>2, <3>3
  <2>5. ASSUME NEW t \in after + 1 .. n - 1, H!Promised(s, after, t) PROVE FALSE
    <3>1. t \in Nat /\ t > after /\ t < n
      BY <2>3
    <3>2. PICK j \in Nat : t = moment(j) /\ H!Weekday(t) = j % 7
      BY <1>7, <2>5, <3>1
    <3>3. j < k
      <4> SUFFICES ASSUME j >= k PROVE FALSE
        BY <2>2
      <4>1. moment(k) <= moment(j)
        BY <1>6, <2>2
      <4> QED BY <2>1, <2>3, <3>1, <3>2, <4>1
    <3>4. start(j) <= start(k) /\ start(j) \in Nat /\ start(k) \in Nat
      <4>1. j <= k /\ j \in Nat /\ k \in Nat
        BY <2>2, <3>2, <3>3
      <4> QED BY <1>5, <1>6, <4>1
    <3>5. j \in 0 .. after + Lookahead /\ start(j) < after + Lookahead
      BY <1>0, <2>2, <3>3, <3>4
    <3>6. H!Weekday(t) \in s.days
      BY <1>4, <2>5, <3>1
    <3>7. j \in hits
      BY <3>1, <3>2, <3>5, <3>6
    <3> QED BY <2>1, <2>2, <3>3, <3>7
  <2>6. FirstAfter(s, after, n)
    BY <2>3, <2>4, <2>5 DEF FirstAfter
  <2>7. n # H!NoTime
    BY <2>3 DEF H!NoTime
  <2> QED BY <2>6, <2>7 DEF n
<1> QED BY <1>8, <1>9

\* A rule whose days come within the look-ahead has a next run; a daily one always has.
LEMMA Computed ==
  ASSUME NEW s, Anchored(s), NEW after \in Nat, ClockAssumption
  PROVE  /\ H!NextAfter(s, after) # H!NoTime => FirstAfter(s, after, H!NextAfter(s, after))
         /\ H!NextAfter(s, after) = H!NoTime =>
              /\ s.type \in {"hourly", "weekly"}
              /\ \A k \in 1 .. Lookahead - 1 : ~ H!Promised(s, after, after + k)
<1> DEFINE n == H!NextAfter(s, after)
<1>1. Valid(s) /\ (s.type = "weekly" => s.origin \in Nat)
  BY DEF Anchored
<1>2. s.type \in {"hourly", "daily", "weekdays", "weekly"} /\ s.at \in 0 .. DayLen - 1
  BY <1>1 DEF Valid
<1>3. CASE s.type = "hourly"
  <2> HIDE DEF n
  <2> QED BY <1>1, <1>3, HourlyFirst, Zenon
<1>4. CASE s.type = "weekly"
  BY <1>1, <1>4, WeeklyFirst, Zenon
<1>5. ASSUME s.type \in {"daily", "weekdays"} PROVE n # H!NoTime /\ FirstAfter(s, after, n)
  <2> DEFINE days == IF s.type = "daily" THEN 0 .. 6 ELSE 0 .. 4
  <2>1. n = H!NextDaily([freq |-> "daily", interval |-> 1, at |-> s.at, days |-> days], after)
    BY <1>1, <1>5, RuleOf DEF H!EveryDay
  <2>2. days \in {0 .. 4, 0 .. 6}
    OBVIOUS
  <2>3. \A t \in Nat : H!Promised(s, after, t) <=> (t % DayLen = s.at /\ H!Weekday(t) \in days)
    <3> SUFFICES ASSUME NEW t \in Nat
                 PROVE  H!Promised(s, after, t) <=> (t % DayLen = s.at /\ H!Weekday(t) \in days)
      OBVIOUS
    <3>1. H!Weekday(t) \in 0 .. 6
      BY HasWeekday
    <3>2. CASE s.type = "daily"
      <4>1. H!Promised(s, after, t) <=> t % DayLen = s.at
        BY <3>2 DEF H!Promised
      <4>2. days = 0 .. 6
        BY <3>2
      <4> HIDE DEF days
      <4> QED BY <3>1, <4>1, <4>2
    <3>3. CASE s.type = "weekdays"
      <4>1. H!Promised(s, after, t) <=> (t % DayLen = s.at /\ H!Weekday(t) < 5)
        BY <3>3 DEF H!Promised
      <4>2. days = 0 .. 4
        BY <3>3
      <4>3. H!Weekday(t) < 5 <=> H!Weekday(t) \in 0 .. 4
        BY <3>1
      <4> HIDE DEF days
      <4> QED BY <4>1, <4>2, <4>3
    <3> QED BY <1>5, <3>2, <3>3
  <2> HIDE DEF n, days
  <2>4. /\ n \in Nat /\ n > after /\ n % DayLen = s.at /\ H!Weekday(n) \in days
        /\ \A t \in after + 1 .. n - 1 : ~ (t % DayLen = s.at /\ H!Weekday(t) \in days)
    BY <1>2, <2>1, <2>2, DailyFirst
  <2>5. \A t \in after + 1 .. n - 1 : t \in Nat
    BY <2>4
  <2>6. n # H!NoTime
    BY <2>4 DEF H!NoTime
  <2> QED BY <2>3, <2>4, <2>5, <2>6 DEF FirstAfter
<1> QED BY <1>2, <1>3, <1>4, <1>5

\* A task has a validated schedule with its anchor, and the trigger of it.
TimesInv ==
    /\ now \in Nat /\ since \in Nat /\ since <= now /\ nextRun \in Nat
    /\ Anchored(sched) /\ H!NextIsFirst

\* A trigger that could be computed is the first.
LEMMA FirstIsNext ==
  ASSUME FirstAfter(sched, since, nextRun)
  PROVE  H!NextIsFirst
BY DEF FirstAfter, H!NextIsFirst

\* A schedule that is saved is anchored.
LEMMA SavesAnchored ==
  ASSUME TimesInv, ClockAssumption, NEW s \in Inputs
  PROVE  LET z == H!ensureOrigin(IF s.origin = H!NoTime
                                 THEN [s EXCEPT !.origin = sched.origin] ELSE s)
         IN  /\ Anchored(z)
             /\ sched.type = "weekly" /\ z.type = "weekly" =>
                  z.origin \in {sched.origin} \cup {x.origin : x \in Inputs}
<1> DEFINE y == IF s.origin = H!NoTime THEN [s EXCEPT !.origin = sched.origin] ELSE s
           z == H!ensureOrigin(y)
<1>1. Valid(s) /\ Valid(sched) /\ (sched.type = "weekly" => sched.origin \in Nat)
  BY DEF ClockAssumption, TimesInv, Anchored
<1>2. Valid(y) /\ y.origin \in {sched.origin, s.origin} /\ y.type = s.type
      /\ (s.origin # H!NoTime => y.origin = s.origin)
      /\ (s.origin = H!NoTime => y.origin = sched.origin)
  BY <1>1 DEF Valid
<1>3. H!Day(now) \in Nat /\ H!Day(now) * DayLen \in Nat
  BY HasWeekday DEF TimesInv, ClockAssumption
<1> HIDE DEF y
<1>4. z = IF y.type = "weekly" /\ y.origin = H!NoTime
          THEN [y EXCEPT !.origin = H!Day(now) * DayLen] ELSE y
  BY DEF H!ensureOrigin
<1> HIDE DEF z
<1>5. Valid(z)
  BY <1>2, <1>3, <1>4 DEF Valid
<1>6. z.type = y.type
  BY <1>2, <1>4 DEF Valid
<1>7. z.type = "weekly" => z.origin \in Nat
  BY <1>2, <1>3, <1>4, <1>6 DEF Valid
<1>8. sched.type = "weekly" /\ z.type = "weekly" =>
        z.origin \in {sched.origin} \cup {x.origin : x \in Inputs}
  <2> SUFFICES ASSUME sched.type = "weekly", z.type = "weekly"
               PROVE  z.origin \in {sched.origin} \cup {x.origin : x \in Inputs}
    OBVIOUS
  <2>1. y.origin # H!NoTime
    BY <1>1, <1>2 DEF H!NoTime
  <2>2. z.origin = y.origin
    BY <1>4, <2>1
  <2> QED BY <1>2, <2>2
<1> QED BY <1>5, <1>7, <1>8 DEF Anchored, y, z

\* A task that was saved has its trigger.
LEMMA InitTimes ==
  ASSUME ClockAssumption, H!Init
  PROVE  TimesInv
<1>1. PICK s \in Inputs :
        /\ sched = IF s.type = "weekly" /\ s.origin = H!NoTime
                   THEN [s EXCEPT !.origin = 0] ELSE s
        /\ nextRun = H!NextAfter(sched, 0) /\ nextRun # H!NoTime
  BY DEF H!Init
<1>2. now = 0 /\ since = 0
  BY DEF H!Init
<1>3. Valid(s)
  BY DEF ClockAssumption
<1>4. Anchored(sched)
  <2>1. Valid(sched) /\ (sched.type = "weekly" => sched.origin # H!NoTime)
    BY <1>1, <1>3 DEF Valid, H!NoTime
  <2> QED BY <2>1 DEF Valid, Anchored
<1>5. FirstAfter(sched, since, nextRun)
  BY <1>1, <1>2, <1>4, Computed
<1>6. nextRun \in Nat
  BY <1>5 DEF FirstAfter
<1> QED BY <1>2, <1>4, <1>5, <1>6, FirstIsNext DEF TimesInv

\* The trigger is moved once its time has come; a rule that meets no day within the
\* look-ahead is pushed one day out.
LEMMA TickTimes ==
  ASSUME ClockAssumption, TimesInv, H!Tick
  PROVE  TimesInv'
<1> DEFINE n == H!NextAfter(sched, now)
<1>1. /\ nextRun <= now /\ now' = now /\ sched' = sched /\ since' = now
      /\ nextRun' = IF n = H!NoTime THEN now + DayLen ELSE n
  BY DEF H!Tick
<1>2. /\ now \in Nat /\ since \in Nat /\ since <= now /\ nextRun \in Nat
      /\ Anchored(sched) /\ H!NextIsFirst
  BY DEF TimesInv
<1>3. /\ n # H!NoTime => FirstAfter(sched, now, n)
      /\ n = H!NoTime =>
           /\ sched.type \in {"hourly", "weekly"}
           /\ \A k \in 1 .. Lookahead - 1 : ~ H!Promised(sched, now, now + k)
  BY <1>2, Computed
<1> HIDE DEF n
<1>6. CASE n = H!NoTime
  <2>1. /\ sched.type \in {"hourly", "weekly"}
        /\ \A k \in 1 .. Lookahead - 1 : ~ H!Promised(sched, now, now + k)
    BY <1>3, <1>6
  <2>2. nextRun' = now + DayLen /\ nextRun' \in Nat
    BY <1>1, <1>2, <1>6 DEF ClockAssumption
  <2>3. H!NextIsFirst'
    BY <1>1, <2>1, <2>2 DEF H!NextIsFirst, H!Promised, H!Weekday, H!Day, H!WeekStart
  <2> QED BY <1>1, <1>2, <2>2, <2>3 DEF TimesInv, Anchored, Valid, H!EveryDay, H!NoTime
<1>7. CASE n # H!NoTime
  <2>1. nextRun' = n /\ FirstAfter(sched, now, n)
    BY <1>1, <1>3, <1>7
  <2>2. (FirstAfter(sched, since, nextRun))' /\ nextRun' \in Nat
    BY <1>1, <2>1 DEF FirstAfter, H!Promised, H!Weekday, H!Day, H!WeekStart
  <2>3. H!NextIsFirst'
    BY <2>2 DEF FirstAfter, H!NextIsFirst
  <2> QED BY <1>1, <1>2, <2>2, <2>3 DEF TimesInv, Anchored, Valid, H!EveryDay, H!NoTime
<1> QED BY <1>6, <1>7

\* A save is refused when its schedule has no next run.
LEMMA SaveTimes ==
  ASSUME ClockAssumption, TimesInv, NEW s \in Inputs, H!Save(s)
  PROVE  TimesInv' /\ H!PhaseKept
<1> DEFINE z == H!ensureOrigin(IF s.origin = H!NoTime
                               THEN [s EXCEPT !.origin = sched.origin] ELSE s)
<1>1. now' = now /\ sched' = z /\ since' = now
  BY DEF H!Save
<1>2. now \in Nat /\ since \in Nat /\ since <= now
  BY DEF TimesInv
<1>3. /\ Anchored(z)
      /\ sched.type = "weekly" /\ z.type = "weekly" =>
           z.origin \in {sched.origin} \cup {x.origin : x \in Inputs}
  BY SavesAnchored
<1> HIDE DEF z
<1>4. nextRun' = H!NextAfter(z, now) /\ nextRun' # H!NoTime
  <2>1. nextRun' = H!NextAfter(sched', now) /\ nextRun' # H!NoTime
    BY DEF H!Save
  <2> QED BY <1>1, <2>1
<1>5. FirstAfter(z, now, nextRun')
  BY <1>2, <1>3, <1>4, Computed
<1>6. (FirstAfter(sched, since, nextRun))' /\ nextRun' \in Nat
  BY <1>1, <1>5 DEF FirstAfter, H!Promised, H!Weekday, H!Day, H!WeekStart
<1>7. H!NextIsFirst'
  BY <1>6 DEF FirstAfter, H!NextIsFirst
<1>8. Anchored(sched)'
  BY <1>1, <1>3 DEF Anchored, Valid, H!EveryDay, H!NoTime
<1>9. H!PhaseKept
  BY <1>1, <1>3 DEF H!PhaseKept
<1> QED BY <1>1, <1>2, <1>6, <1>7, <1>8, <1>9 DEF TimesInv

\* Every step keeps the trigger the first promised time.
LEMMA TimesStep ==
  ASSUME ClockAssumption, TimesInv, [H!Next]_(H!vars)
  PROVE  TimesInv' /\ (H!PhaseKept \/ UNCHANGED H!vars)
<1>1. CASE H!Passes
  <2>1. /\ now' = now + 1 /\ sched' = sched /\ nextRun' = nextRun /\ since' = since
    BY <1>1 DEF H!Passes
  <2>2. H!NextIsFirst'
    BY <2>1 DEF TimesInv, H!NextIsFirst, H!Promised, H!Weekday, H!Day, H!WeekStart
  <2>3. TimesInv'
    BY <2>1, <2>2 DEF TimesInv, Anchored, Valid, H!EveryDay, H!NoTime
  <2> QED BY <2>1, <2>3 DEF H!PhaseKept
<1>2. CASE H!Tick
  <2>1. sched' = sched
    BY <1>2 DEF H!Tick
  <2> QED BY <1>2, <2>1, TickTimes DEF H!PhaseKept
<1>3. ASSUME NEW s \in Inputs, H!Save(s) PROVE TimesInv' /\ H!PhaseKept
  BY <1>3, SaveTimes
<1>4. CASE UNCHANGED H!vars
  <2>1. now' = now /\ sched' = sched /\ nextRun' = nextRun /\ since' = since
    BY <1>4 DEF H!vars
  <2>2. H!NextIsFirst'
    BY <2>1 DEF TimesInv, H!NextIsFirst, H!Promised, H!Weekday, H!Day, H!WeekStart
  <2>3. TimesInv'
    BY <2>1, <2>2 DEF TimesInv, Anchored, Valid, H!EveryDay, H!NoTime
  <2> QED BY <1>4, <2>3
<1> QED BY <1>1, <1>2, <1>3, <1>4 DEF H!Next

\* The invariant holds of every behaviour, and every step keeps the phase.
LEMMA TimesAlways == ClockAssumption /\ H!Spec => []TimesInv /\ [][H!PhaseKept]_(H!vars)
<1> SUFFICES ASSUME ClockAssumption
             PROVE  H!Spec => []TimesInv /\ [][H!PhaseKept]_(H!vars)
  OBVIOUS
<1>1. H!Init => TimesInv
  BY InitTimes
<1>2. TimesInv /\ [H!Next]_(H!vars) => TimesInv' /\ [H!PhaseKept]_(H!vars)
  BY TimesStep
<1> QED BY <1>1, <1>2, PTL DEF H!Spec

(***************************************************************************)
(* The trigger of a task is a time its schedule promises, and the first    *)
(* one after the moment it was computed, for any validated schedules,      *)
(* saves, ticks and gaps; only an hourly or a weekly rule that promises no *)
(* time within the look-ahead waits a day (recurrence.go: next,            *)
(* nextHourly, nextDaily, nextWeekly; store.go: SaveTask).                 *)
(***************************************************************************)
THEOREM TriggerIsFirst == ClockAssumption /\ H!Spec => []H!NextIsFirst
<1> SUFFICES ASSUME ClockAssumption PROVE H!Spec => []H!NextIsFirst
  OBVIOUS
<1>1. TimesInv => H!NextIsFirst
  BY DEF TimesInv
<1> QED BY <1>1, TimesAlways, PTL

(***************************************************************************)
(* Saving a weekly task again without naming an origin leaves its on-weeks *)
(* where they are (store.go: SaveTask; model.go: ensureOrigin).            *)
(***************************************************************************)
THEOREM PhaseStays == ClockAssumption /\ H!Spec => [][H!PhaseKept]_(H!vars)
BY TimesAlways, PTL
=============================================================================
