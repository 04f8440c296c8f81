------------------------- MODULE ConversationProofs -------------------------
(***************************************************************************)
(* For any number of starts and deletions of a conversation: the start lock *)
(* keeps automations from interrupting a turn, a deletion waits for the     *)
(* runs, and what was deleted stays gone.                                   *)
(***************************************************************************)
EXTENDS Conversation, TLAPS

\* The start lock is held by exactly the start that decides.
Deciding == {"prepare", "open", "start", "seed", "bind", "register"}
LockHeld == \A s \in Starts : gate = s <=> pc[s] \in Deciding

\* One deletion is under way, and it has marked the conversation.
Deletion == {"waiting", "session", "rows", "files", "points", "finish"}
OneDeletion ==
    /\ \A d \in Deleters : del[d] \in Deletion => deleting
    /\ \A d, e \in Deleters : del[d] \in Deletion /\ del[e] \in Deletion => d = e

\* The id is retired once the rows are gone, and stays so.
Retires ==
    /\ deleted => retired
    /\ \A d \in Deleters : del[d] \in {"files", "points", "finish"} => retired

\* A turn that nobody stopped is a registered run, belongs to the start that holds
\* the lock, or was left running by a caller that gave up its wait; a run that
\* settles has no turn, or such a one.
LiveIsKnown ==
    \A s \in Starts :
        /\ turn[s] = "live" => \/ pc[s] \in {"seed", "bind", "register", "running"}
                              \/ LeftRunning(s)
        /\ pc[s] = "settle" => turn[s] = "ended" \/ s \in Impatient

\* The broker knows the turn of a start that is past its bind until the run has
\* left Host.runs.
BoundRuns ==
    \A s \in Starts : pc[s] \in {"register", "running", "settle"} => s \in bound

\* A start that steps aside goes on only while no run is registered.
PoliteAlone ==
    \A s \in Polite : pc[s] \in {"prepare", "open", "start"} => runs = {}

-----------------------------------------------------------------------------
\* The types and the set of runs, step by step.
LEMMA TypeStep == TypeOK /\ [Next]_vars => TypeOK'
<1>. SUFFICES ASSUME TypeOK, [Next]_vars PROVE TypeOK'
  OBVIOUS
<1>. USE ConversationAssumption DEF TypeOK, Steps, Turns
<1>1. ASSUME NEW s \in Starts, Enter(s) PROVE TypeOK'
  BY <1>1 DEF Enter, Go, startVars, turnVars, delVars, lateVars, diskVars
<1>2. ASSUME NEW s \in Starts, TakeGate(s) PROVE TypeOK'
  BY <1>2 DEF TakeGate, Go, startVars, turnVars, delVars, lateVars, diskVars
<1>3. ASSUME NEW s \in Starts, Busy(s) PROVE TypeOK'
  BY <1>3 DEF Busy, Go, startVars, turnVars, delVars, lateVars, diskVars
<1>4. ASSUME NEW s \in Starts, Prepare(s) PROVE TypeOK'
  BY ZenonT(60), <1>4 DEF Prepare, Go, startVars, turnVars, delVars, lateVars, diskVars
<1>5. ASSUME NEW s \in Starts, Open(s) PROVE TypeOK'
  BY <1>5 DEF Open, Go, startVars, turnVars, delVars, lateVars, diskVars
<1>6. ASSUME NEW s \in Starts, Start(s) PROVE TypeOK'
  BY <1>6 DEF Start, Go, startVars, turnVars, delVars, lateVars, diskVars
<1>7. ASSUME NEW s \in Starts, StartFails(s) PROVE TypeOK'
  BY <1>7 DEF StartFails, Go, startVars, turnVars, delVars, lateVars, diskVars
<1>8. ASSUME NEW s \in Starts, Seed(s) PROVE TypeOK'
  BY <1>8 DEF Seed, Go, startVars, turnVars, delVars, lateVars, diskVars
<1>9. ASSUME NEW s \in Starts, SeedFails(s) PROVE TypeOK'
  BY <1>9 DEF SeedFails, Go, Stop, startVars, turnVars, delVars, lateVars,
    diskVars
<1>10. ASSUME NEW s \in Starts, Bind(s) PROVE TypeOK'
  BY <1>10 DEF Bind, Go, startVars, turnVars, delVars, lateVars, diskVars
<1>11. ASSUME NEW s \in Starts, Register(s) PROVE TypeOK'
  BY <1>11 DEF Register, Go, Gone, startVars, turnVars, delVars, lateVars,
    diskVars
<1>12. ASSUME NEW s \in Starts, RegisterLost(s) PROVE TypeOK'
  BY <1>12 DEF RegisterLost, Go, Stop, Gone, startVars, turnVars, delVars,
    lateVars, diskVars
<1>13. ASSUME NEW s \in Starts, Wave(s) PROVE TypeOK'
  BY <1>13 DEF Wave, startVars, turnVars, delVars, lateVars, diskVars
<1>14. ASSUME NEW s \in Starts, CancelRun(s) PROVE TypeOK'
  BY <1>14 DEF CancelRun, Stop, startVars, turnVars, delVars, lateVars, diskVars
<1>15. ASSUME NEW s \in Starts, ArchiveRow(s) PROVE TypeOK'
  BY <1>15 DEF ArchiveRow, startVars, turnVars, delVars, lateVars, diskVars
<1>16. ASSUME NEW s \in Starts, ArchiveTurn(s) PROVE TypeOK'
  BY <1>16 DEF ArchiveTurn, startVars, turnVars, delVars, lateVars, diskVars
<1>17. ASSUME NEW s \in Starts, EndUnarchived(s) PROVE TypeOK'
  BY <1>17 DEF EndUnarchived, startVars, turnVars, delVars, lateVars, diskVars
<1>18. ASSUME NEW s \in Starts, Ask(s) PROVE TypeOK'
  BY <1>18 DEF Ask, startVars, turnVars, delVars, lateVars, diskVars
<1>19. ASSUME NEW s \in Starts, Deliver(s) PROVE TypeOK'
  BY <1>19 DEF Deliver, startVars, turnVars, delVars, lateVars, diskVars
<1>20. ASSUME NEW s \in Starts, Settle(s) PROVE TypeOK'
  BY <1>20 DEF Settle, Go, startVars, turnVars, delVars, lateVars, diskVars
<1>21. ASSUME NEW s \in Starts, DropRun(s) PROVE TypeOK'
  BY <1>21 DEF DropRun, Go, startVars, turnVars, delVars, lateVars, diskVars
<1>22. ASSUME NEW s \in Starts, UnbindTurn(s) PROVE TypeOK'
  BY <1>22 DEF UnbindTurn, Go, startVars, turnVars, delVars, lateVars, diskVars
<1>23. ASSUME TitleGenerated PROVE TypeOK'
  BY <1>23 DEF TitleGenerated, startVars, turnVars, delVars, lateVars, diskVars
<1>24. ASSUME TitleFails PROVE TypeOK'
  BY <1>24 DEF TitleFails, startVars, turnVars, delVars, lateVars, diskVars
<1>25. ASSUME TitleWrite PROVE TypeOK'
  BY <1>25 DEF TitleWrite, startVars, turnVars, delVars, lateVars, diskVars
<1>26. ASSUME NoteArrives PROVE TypeOK'
  BY <1>26 DEF NoteArrives, startVars, turnVars, delVars, lateVars, diskVars
<1>27. ASSUME NoteRow PROVE TypeOK'
  BY <1>27 DEF NoteRow, startVars, turnVars, delVars, lateVars, diskVars
<1>28. ASSUME NoteCommit PROVE TypeOK'
  BY <1>28 DEF NoteCommit, startVars, turnVars, delVars, lateVars, diskVars
<1>29. ASSUME NEW d \in Deleters, Mark(d) PROVE TypeOK'
  BY <1>29 DEF Mark, DelGo, Stop, Gone, startVars, turnVars, delVars,
    lateVars, diskVars
<1>30. ASSUME NEW d \in Deleters, InProgress(d) PROVE TypeOK'
  BY <1>30 DEF InProgress, DelGo, startVars, turnVars, delVars, lateVars,
    diskVars
<1>31. ASSUME NEW d \in Deleters, Idle(d) PROVE TypeOK'
  BY <1>31 DEF Idle, DelGo, startVars, turnVars, delVars, lateVars, diskVars
<1>32. ASSUME NEW d \in Deleters, DeleteSession(d) PROVE TypeOK'
  BY <1>32 DEF DeleteSession, DelGo, startVars, turnVars, delVars, lateVars,
    diskVars
<1>33. ASSUME NEW d \in Deleters, RemoveRows(d) PROVE TypeOK'
  BY <1>33 DEF RemoveRows, DelGo, startVars, turnVars, delVars, lateVars,
    diskVars
<1>34. ASSUME NEW d \in Deleters, RemoveFiles(d) PROVE TypeOK'
  BY <1>34 DEF RemoveFiles, DelGo, startVars, turnVars, delVars, lateVars,
    diskVars
<1>35. ASSUME NEW d \in Deleters, RemovePoints(d) PROVE TypeOK'
  BY <1>35 DEF RemovePoints, DelGo, startVars, turnVars, delVars, lateVars,
    diskVars
<1>36. ASSUME NEW d \in Deleters, Finish(d) PROVE TypeOK'
  BY <1>36 DEF Finish, DelGo, startVars, turnVars, delVars, lateVars, diskVars
<1>37. ASSUME NEW d \in Deleters, DeleteFails(d) PROVE TypeOK'
  BY <1>37 DEF DeleteFails, DelGo, startVars, turnVars, delVars, lateVars,
    diskVars
<1>38. ASSUME NEW d \in Deleters, Purge(d) PROVE TypeOK'
  BY <1>38 DEF Purge, DelGo, startVars, turnVars, delVars, lateVars, diskVars
<1>39. ASSUME Rehost PROVE TypeOK'
  BY <1>39 DEF Rehost, startVars, turnVars, delVars, lateVars, diskVars
<1>40. CASE UNCHANGED vars
  BY <1>40 DEF vars, startVars, turnVars, delVars, lateVars, diskVars
<1>. QED
  BY <1>1, <1>2, <1>3, <1>4, <1>5, <1>6, <1>7, <1>8, <1>9, <1>10, <1>11,
    <1>12, <1>13, <1>14, <1>15, <1>16, <1>17, <1>18, <1>19, <1>20, <1>21,
    <1>22, <1>23, <1>24, <1>25, <1>26, <1>27, <1>28, <1>29, <1>30, <1>31,
    <1>32, <1>33, <1>34, <1>35, <1>36, <1>37, <1>38, <1>39, <1>40
  DEF Next, StartStep, TurnEnds, SettleStep, DeleteStep

\* Every way out of a start gives the lock back.
LEMMA LockStep == TypeOK /\ LockHeld /\ [Next]_vars => LockHeld'
<1>. SUFFICES ASSUME TypeOK, LockHeld, [Next]_vars PROVE LockHeld'
  OBVIOUS
<1>. USE ConversationAssumption DEF TypeOK, LockHeld, Deciding
<1>1. ASSUME NEW s \in Starts, TakeGate(s) PROVE LockHeld'
  BY <1>1 DEF TakeGate, Go, startVars, turnVars, delVars, lateVars, diskVars
<1>2. ASSUME NEW s \in Starts, Prepare(s) PROVE LockHeld'
  BY <1>2 DEF Prepare, Go, startVars, turnVars, delVars, lateVars, diskVars
<1>3. ASSUME NEW s \in Starts, Open(s) PROVE LockHeld'
  BY <1>3 DEF Open, Go, startVars, turnVars, delVars, lateVars, diskVars
<1>4. ASSUME NEW s \in Starts, Start(s) PROVE LockHeld'
  BY <1>4 DEF Start, Go, startVars, turnVars, delVars, lateVars, diskVars
<1>5. ASSUME NEW s \in Starts, StartFails(s) PROVE LockHeld'
  BY <1>5 DEF StartFails, Go, startVars, turnVars, delVars, lateVars, diskVars
<1>6. ASSUME NEW s \in Starts, Seed(s) PROVE LockHeld'
  BY <1>6 DEF Seed, Go, startVars, turnVars, delVars, lateVars, diskVars
<1>7. ASSUME NEW s \in Starts, SeedFails(s) PROVE LockHeld'
  BY <1>7 DEF SeedFails, Go, Stop, startVars, turnVars, delVars, lateVars,
    diskVars
<1>8. ASSUME NEW s \in Starts, Bind(s) PROVE LockHeld'
  BY <1>8 DEF Bind, Go, startVars, turnVars, delVars, lateVars, diskVars
<1>9. ASSUME NEW s \in Starts, Register(s) PROVE LockHeld'
  BY <1>9 DEF Register, Go, Gone, startVars, turnVars, delVars, lateVars,
    diskVars
<1>10. ASSUME NEW s \in Starts, RegisterLost(s) PROVE LockHeld'
  BY <1>10 DEF RegisterLost, Go, Stop, Gone, startVars, turnVars, delVars,
    lateVars, diskVars
<1>11. ASSUME NEW s \in Starts,
              Enter(s) \/ Busy(s) \/ Wave(s) \/ CancelRun(s) \/
              ArchiveRow(s) \/ ArchiveTurn(s) \/ EndUnarchived(s) \/ Ask(s)
              \/ Deliver(s) \/ Settle(s) \/ DropRun(s) \/ UnbindTurn(s)
      PROVE  LockHeld'
  BY <1>11 DEF Enter, Go, Busy, Wave, CancelRun, Stop, ArchiveRow,
    ArchiveTurn, EndUnarchived, Ask, Deliver, Settle, DropRun, UnbindTurn,
    startVars, turnVars, delVars, lateVars, diskVars
<1>12. ASSUME NEW d \in Deleters,
              Mark(d) \/ InProgress(d) \/ Idle(d) \/ DeleteSession(d) \/
              RemoveRows(d) \/ RemoveFiles(d) \/ RemovePoints(d) \/
              Finish(d) \/ DeleteFails(d) \/ Purge(d)
      PROVE  LockHeld'
  BY <1>12 DEF Mark, DelGo, Stop, Gone, InProgress, Idle, DeleteSession,
    RemoveRows, RemoveFiles, RemovePoints, Finish, DeleteFails, Purge,
    startVars, turnVars, delVars, lateVars, diskVars
<1>13. ASSUME TitleGenerated \/ TitleFails \/ TitleWrite \/ NoteArrives \/
              NoteRow \/ NoteCommit \/ Rehost \/ UNCHANGED vars
      PROVE  LockHeld'
  BY <1>13 DEF TitleGenerated, TitleFails, TitleWrite, NoteArrives, NoteRow,
    NoteCommit, Rehost, vars, startVars, turnVars, delVars, lateVars, diskVars
<1>. QED BY <1>1, <1>2, <1>3, <1>4, <1>5, <1>6, <1>7, <1>8, <1>9, <1>10,
  <1>11, <1>12, <1>13
     DEF Next, StartStep, TurnEnds, SettleStep, DeleteStep

\* Mark refuses while a deletion is under way; every other step leaves it, or
\* ends it together with its mark.
LEMMA DeletionStep == TypeOK /\ OneDeletion /\ [Next]_vars => OneDeletion'
<1>. SUFFICES ASSUME TypeOK, OneDeletion, [Next]_vars PROVE OneDeletion'
  OBVIOUS
<1>. USE DEF TypeOK, OneDeletion, Deletion
<1>1. ASSUME NEW d \in Deleters, Mark(d) PROVE OneDeletion'
  BY <1>1 DEF Mark, DelGo, Stop, Gone, startVars, turnVars, delVars,
    lateVars, diskVars
<1>2. ASSUME NEW d \in Deleters, InProgress(d) PROVE OneDeletion'
  BY <1>2 DEF InProgress, DelGo, startVars, turnVars, delVars, lateVars,
    diskVars
<1>3. ASSUME NEW d \in Deleters, Idle(d) PROVE OneDeletion'
  BY <1>3 DEF Idle, DelGo, startVars, turnVars, delVars, lateVars, diskVars
<1>4. ASSUME NEW d \in Deleters, DeleteSession(d) PROVE OneDeletion'
  BY <1>4 DEF DeleteSession, DelGo, startVars, turnVars, delVars, lateVars,
    diskVars
<1>5. ASSUME NEW d \in Deleters, RemoveRows(d) PROVE OneDeletion'
  BY <1>5 DEF RemoveRows, DelGo, startVars, turnVars, delVars, lateVars,
    diskVars
<1>6. ASSUME NEW d \in Deleters, RemoveFiles(d) PROVE OneDeletion'
  BY <1>6 DEF RemoveFiles, DelGo, startVars, turnVars, delVars, lateVars,
    diskVars
<1>7. ASSUME NEW d \in Deleters, RemovePoints(d) PROVE OneDeletion'
  BY <1>7 DEF RemovePoints, DelGo, startVars, turnVars, delVars, lateVars,
    diskVars
<1>8. ASSUME NEW d \in Deleters, Finish(d) PROVE OneDeletion'
  BY <1>8 DEF Finish, DelGo, startVars, turnVars, delVars, lateVars, diskVars
<1>9. ASSUME NEW d \in Deleters, DeleteFails(d) PROVE OneDeletion'
  BY <1>9 DEF DeleteFails, DelGo, startVars, turnVars, delVars, lateVars,
    diskVars
<1>10. ASSUME NEW d \in Deleters, Purge(d) PROVE OneDeletion'
  BY <1>10 DEF Purge, DelGo, startVars, turnVars, delVars, lateVars, diskVars
<1>11. ASSUME NEW s \in Starts,
              Enter(s) \/ TakeGate(s) \/ Busy(s) \/ Prepare(s) \/ Open(s) \/
              Start(s) \/ StartFails(s) \/ Seed(s) \/ SeedFails(s) \/
              Bind(s) \/ Register(s)
      PROVE  OneDeletion'
  BY <1>11 DEF Enter, Go, TakeGate, Busy, Prepare, Open, Start, StartFails,
    Seed, SeedFails, Stop, Bind, Register, Gone, startVars, turnVars, delVars,
    lateVars, diskVars
<1>12. ASSUME NEW s \in Starts,
              RegisterLost(s) \/ Wave(s) \/ CancelRun(s) \/ ArchiveRow(s) \/
              ArchiveTurn(s) \/ EndUnarchived(s) \/ Ask(s) \/ Deliver(s) \/
              Settle(s) \/ DropRun(s) \/ UnbindTurn(s)
      PROVE  OneDeletion'
  BY <1>12 DEF RegisterLost, Go, Stop, Gone, Wave, CancelRun, ArchiveRow,
    ArchiveTurn, EndUnarchived, Ask, Deliver, Settle, DropRun, UnbindTurn,
    startVars, turnVars, delVars, lateVars, diskVars
<1>13. ASSUME TitleGenerated \/ TitleFails \/ TitleWrite \/ NoteArrives \/
              NoteRow \/ NoteCommit \/ Rehost \/ UNCHANGED vars
      PROVE  OneDeletion'
  BY <1>13 DEF TitleGenerated, TitleFails, TitleWrite, NoteArrives, NoteRow,
    NoteCommit, Rehost, vars, startVars, turnVars, delVars, lateVars, diskVars
<1>. QED BY <1>1, <1>2, <1>3, <1>4, <1>5, <1>6, <1>7, <1>8, <1>9, <1>10,
  <1>11, <1>12, <1>13
     DEF Next, StartStep, TurnEnds, SettleStep, DeleteStep

\* The rows and the mark of a retired id are never taken back.
LEMMA RetiresStep == TypeOK /\ Retires /\ [Next]_vars => Retires'
<1>. SUFFICES ASSUME TypeOK, Retires, [Next]_vars PROVE Retires'
  OBVIOUS
<1>. USE DEF TypeOK, Retires
<1>1. ASSUME NEW d \in Deleters, RemoveFiles(d) PROVE Retires'
  BY <1>1 DEF RemoveFiles, DelGo, startVars, turnVars, delVars, lateVars,
    diskVars
<1>2. ASSUME NEW d \in Deleters, RemovePoints(d) PROVE Retires'
  BY <1>2 DEF RemovePoints, DelGo, startVars, turnVars, delVars, lateVars,
    diskVars
<1>3. ASSUME NEW d \in Deleters, RemoveRows(d) PROVE Retires'
  BY <1>3 DEF RemoveRows, DelGo, startVars, turnVars, delVars, lateVars,
    diskVars
<1>4. ASSUME NEW d \in Deleters, Finish(d) PROVE Retires'
  BY <1>4 DEF Finish, DelGo, startVars, turnVars, delVars, lateVars, diskVars
<1>5. ASSUME NEW d \in Deleters, Purge(d) PROVE Retires'
  BY <1>5 DEF Purge, DelGo, startVars, turnVars, delVars, lateVars, diskVars
<1>6. ASSUME NEW s \in Starts,
              Enter(s) \/ TakeGate(s) \/ Busy(s) \/ Prepare(s) \/ Open(s) \/
              Start(s) \/ StartFails(s) \/ Seed(s) \/ SeedFails(s) \/
              Bind(s) \/ Register(s)
      PROVE  UNCHANGED <<deleted, retired, del>>
  BY <1>6 DEF Enter, Go, TakeGate, Busy, Prepare, Open, Start, StartFails,
    Seed, SeedFails, Stop, Bind, Register, Gone, startVars, turnVars, delVars,
    lateVars, diskVars
<1>7. ASSUME NEW s \in Starts,
              RegisterLost(s) \/ Wave(s) \/ CancelRun(s) \/ ArchiveRow(s) \/
              ArchiveTurn(s) \/ EndUnarchived(s) \/ Ask(s) \/ Deliver(s) \/
              Settle(s) \/ DropRun(s) \/ UnbindTurn(s)
      PROVE  UNCHANGED <<deleted, retired, del>>
  BY <1>7 DEF RegisterLost, Go, Stop, Gone, Wave, CancelRun, ArchiveRow,
    ArchiveTurn, EndUnarchived, Ask, Deliver, Settle, DropRun, UnbindTurn,
    startVars, turnVars, delVars, lateVars, diskVars
<1>8. ASSUME NEW d \in Deleters,
              Mark(d) \/ InProgress(d) \/ Idle(d) \/ DeleteSession(d) \/
              DeleteFails(d)
      PROVE  Retires'
  BY <1>8 DEF Mark, DelGo, Stop, Gone, InProgress, Idle, DeleteSession,
    DeleteFails, startVars, turnVars, delVars, lateVars, diskVars
<1>9. ASSUME TitleGenerated \/ TitleFails \/ TitleWrite \/ NoteArrives \/
              NoteRow \/ NoteCommit \/ Rehost \/ UNCHANGED vars
      PROVE  Retires'
  BY <1>9 DEF TitleGenerated, TitleFails, TitleWrite, NoteArrives, NoteRow,
    NoteCommit, Rehost, vars, startVars, turnVars, delVars, lateVars, diskVars
<1>. QED BY <1>1, <1>2, <1>3, <1>4, <1>5, <1>6, <1>7, <1>8, <1>9
     DEF Next, StartStep, TurnEnds, SettleStep, DeleteStep

\* Every writer asks for the retired id or, like the turns, needs the row.
LEMMA GoneStep == TypeOK /\ RetiredIsGone /\ [Next]_vars => RetiredIsGone'
<1>. SUFFICES ASSUME TypeOK, RetiredIsGone, [Next]_vars PROVE RetiredIsGone'
  OBVIOUS
<1>. USE DEF TypeOK, RetiredIsGone
<1>1. ASSUME NEW s \in Starts, Prepare(s) PROVE RetiredIsGone'
  BY <1>1 DEF Prepare, Go, startVars, turnVars, delVars, lateVars, diskVars
<1>2. ASSUME NEW s \in Starts, Seed(s) PROVE RetiredIsGone'
  BY <1>2 DEF Seed, Go, startVars, turnVars, delVars, lateVars, diskVars
<1>3. ASSUME NEW s \in Starts, ArchiveRow(s) PROVE RetiredIsGone'
  BY <1>3 DEF ArchiveRow, startVars, turnVars, delVars, lateVars, diskVars
<1>4. ASSUME NEW s \in Starts, ArchiveTurn(s) PROVE RetiredIsGone'
  BY <1>4 DEF ArchiveTurn, startVars, turnVars, delVars, lateVars, diskVars
<1>5. ASSUME TitleWrite PROVE RetiredIsGone'
  BY <1>5 DEF TitleWrite, startVars, turnVars, delVars, lateVars, diskVars
<1>6. ASSUME NoteRow PROVE RetiredIsGone'
  BY <1>6 DEF NoteRow, startVars, turnVars, delVars, lateVars, diskVars
<1>7. ASSUME NoteCommit PROVE RetiredIsGone'
  BY <1>7 DEF NoteCommit, startVars, turnVars, delVars, lateVars, diskVars
<1>8. ASSUME NEW d \in Deleters, RemoveRows(d) PROVE RetiredIsGone'
  BY <1>8 DEF RemoveRows, DelGo, startVars, turnVars, delVars, lateVars,
    diskVars
<1>9. ASSUME NEW d \in Deleters, Purge(d) PROVE RetiredIsGone'
  BY <1>9 DEF Purge, DelGo, startVars, turnVars, delVars, lateVars, diskVars
<1>10. ASSUME NEW s \in Starts,
              Enter(s) \/ TakeGate(s) \/ Busy(s) \/ Open(s) \/ Start(s) \/
              StartFails(s) \/ SeedFails(s) \/ Bind(s) \/ Register(s) \/
              RegisterLost(s) \/ Wave(s) \/ CancelRun(s) \/ EndUnarchived(s)
              \/ Ask(s) \/ Deliver(s) \/ Settle(s) \/ DropRun(s) \/
              UnbindTurn(s)
      PROVE  RetiredIsGone'
  BY <1>10 DEF Enter, Go, TakeGate, Busy, Open, Start, StartFails,
    SeedFails, Stop, Bind, Register, Gone, RegisterLost, Wave, CancelRun,
    EndUnarchived, Ask, Deliver, Settle, DropRun, UnbindTurn, startVars,
    turnVars, delVars, lateVars, diskVars
<1>11. ASSUME NEW d \in Deleters,
              Mark(d) \/ InProgress(d) \/ Idle(d) \/ DeleteSession(d) \/
              RemoveFiles(d) \/ RemovePoints(d) \/ Finish(d) \/
              DeleteFails(d)
      PROVE  RetiredIsGone'
  BY <1>11 DEF Mark, DelGo, Stop, Gone, InProgress, Idle, DeleteSession,
    RemoveFiles, RemovePoints, Finish, DeleteFails, startVars, turnVars,
    delVars, lateVars, diskVars
<1>12. ASSUME TitleGenerated \/ TitleFails \/ NoteArrives \/ Rehost \/
              UNCHANGED vars
      PROVE  RetiredIsGone'
  BY <1>12 DEF TitleGenerated, TitleFails, NoteArrives, Rehost, vars,
    startVars, turnVars, delVars, lateVars, diskVars
<1>. QED BY <1>1, <1>2, <1>3, <1>4, <1>5, <1>6, <1>7, <1>8, <1>9, <1>10,
  <1>11, <1>12
     DEF Next, StartStep, TurnEnds, SettleStep, DeleteStep

\* A run registers only while no deletion is under way.
LEMMA AwaitStep ==
    TypeOK /\ OneDeletion /\ DeletionAwaitsRuns /\ [Next]_vars
        => DeletionAwaitsRuns'
<1>. SUFFICES ASSUME TypeOK, OneDeletion, DeletionAwaitsRuns, [Next]_vars
              PROVE  DeletionAwaitsRuns'
  OBVIOUS
<1>. USE DEF TypeOK, OneDeletion, Deletion, DeletionAwaitsRuns
<1>1. ASSUME NEW s \in Starts, Register(s) PROVE DeletionAwaitsRuns'
  BY <1>1 DEF Register, Go, Gone, startVars, turnVars, delVars, lateVars,
    diskVars
<1>2. ASSUME NEW s \in Starts, DropRun(s) PROVE DeletionAwaitsRuns'
  BY <1>2 DEF DropRun, Go, startVars, turnVars, delVars, lateVars, diskVars
<1>3. ASSUME NEW d \in Deleters, Mark(d) PROVE DeletionAwaitsRuns'
  BY <1>3 DEF Mark, DelGo, Stop, Gone, startVars, turnVars, delVars,
    lateVars, diskVars
<1>4. ASSUME NEW d \in Deleters, Idle(d) PROVE DeletionAwaitsRuns'
  BY <1>4 DEF Idle, DelGo, startVars, turnVars, delVars, lateVars, diskVars
<1>5. ASSUME NEW d \in Deleters, DeleteSession(d) PROVE DeletionAwaitsRuns'
  BY <1>5 DEF DeleteSession, DelGo, startVars, turnVars, delVars, lateVars,
    diskVars
<1>6. ASSUME NEW d \in Deleters, RemoveRows(d) PROVE DeletionAwaitsRuns'
  BY <1>6 DEF RemoveRows, DelGo, startVars, turnVars, delVars, lateVars,
    diskVars
<1>7. ASSUME NEW d \in Deleters, RemoveFiles(d) PROVE DeletionAwaitsRuns'
  BY <1>7 DEF RemoveFiles, DelGo, startVars, turnVars, delVars, lateVars,
    diskVars
<1>8. ASSUME NEW d \in Deleters, RemovePoints(d) PROVE DeletionAwaitsRuns'
  BY <1>8 DEF RemovePoints, DelGo, startVars, turnVars, delVars, lateVars,
    diskVars
<1>9. ASSUME NEW s \in Starts,
              Enter(s) \/ TakeGate(s) \/ Busy(s) \/ Prepare(s) \/ Open(s) \/
              Start(s) \/ StartFails(s) \/ Seed(s) \/ SeedFails(s) \/
              Bind(s) \/ RegisterLost(s)
      PROVE  DeletionAwaitsRuns'
  BY <1>9 DEF Enter, Go, TakeGate, Busy, Prepare, Open, Start, StartFails,
    Seed, SeedFails, Stop, Bind, RegisterLost, Gone, startVars, turnVars,
    delVars, lateVars, diskVars
<1>10. ASSUME NEW s \in Starts,
              Wave(s) \/ CancelRun(s) \/ ArchiveRow(s) \/ ArchiveTurn(s) \/
              EndUnarchived(s) \/ Ask(s) \/ Deliver(s) \/ Settle(s) \/
              UnbindTurn(s)
      PROVE  DeletionAwaitsRuns'
  BY <1>10 DEF Wave, CancelRun, Stop, ArchiveRow, ArchiveTurn,
    EndUnarchived, Ask, Deliver, Settle, Go, UnbindTurn, startVars, turnVars,
    delVars, lateVars, diskVars
<1>11. ASSUME NEW d \in Deleters,
              InProgress(d) \/ Finish(d) \/ DeleteFails(d) \/ Purge(d)
      PROVE  DeletionAwaitsRuns'
  BY <1>11 DEF InProgress, DelGo, Finish, DeleteFails, Purge, startVars,
    turnVars, delVars, lateVars, diskVars
<1>12. ASSUME TitleGenerated \/ TitleFails \/ TitleWrite \/ NoteArrives \/
              NoteRow \/ NoteCommit \/ Rehost \/ UNCHANGED vars
      PROVE  DeletionAwaitsRuns'
  BY <1>12 DEF TitleGenerated, TitleFails, TitleWrite, NoteArrives, NoteRow,
    NoteCommit, Rehost, vars, startVars, turnVars, delVars, lateVars, diskVars
<1>. QED BY <1>1, <1>2, <1>3, <1>4, <1>5, <1>6, <1>7, <1>8, <1>9, <1>10,
  <1>11, <1>12
     DEF Next, StartStep, TurnEnds, SettleStep, DeleteStep

\* A turn leaves its start only when the run is registered or the turn stopped.
LEMMA LiveStep == TypeOK /\ LiveIsKnown /\ [Next]_vars => LiveIsKnown'
<1>. SUFFICES ASSUME TypeOK, LiveIsKnown, [Next]_vars PROVE LiveIsKnown'
  OBVIOUS
<1>. USE DEF TypeOK, LiveIsKnown, LeftRunning
<1>1. ASSUME NEW s \in Starts, Start(s) PROVE LiveIsKnown'
  BY <1>1 DEF Start, Go, startVars, turnVars, delVars, lateVars, diskVars
<1>2. ASSUME NEW s \in Starts, StartFails(s) PROVE LiveIsKnown'
  BY <1>2 DEF StartFails, Go, startVars, turnVars, delVars, lateVars, diskVars
<1>3. ASSUME NEW s \in Starts, SeedFails(s) PROVE LiveIsKnown'
  BY <1>3 DEF SeedFails, Go, Stop, startVars, turnVars, delVars, lateVars,
    diskVars
<1>4. ASSUME NEW s \in Starts, Bind(s) PROVE LiveIsKnown'
  BY <1>4 DEF Bind, Go, startVars, turnVars, delVars, lateVars, diskVars
<1>5. ASSUME NEW s \in Starts, Seed(s) PROVE LiveIsKnown'
  BY <1>5 DEF Seed, Go, startVars, turnVars, delVars, lateVars, diskVars
<1>6. ASSUME NEW s \in Starts, Register(s) PROVE LiveIsKnown'
  BY <1>6 DEF Register, Go, Gone, startVars, turnVars, delVars, lateVars,
    diskVars
<1>7. ASSUME NEW s \in Starts, RegisterLost(s) PROVE LiveIsKnown'
  BY <1>7 DEF RegisterLost, Go, Stop, Gone, startVars, turnVars, delVars,
    lateVars, diskVars
<1>8. ASSUME NEW s \in Starts, CancelRun(s) PROVE LiveIsKnown'
  BY <1>8 DEF CancelRun, Stop, startVars, turnVars, delVars, lateVars, diskVars
<1>9. ASSUME NEW s \in Starts, EndUnarchived(s) PROVE LiveIsKnown'
  BY <1>9 DEF EndUnarchived, startVars, turnVars, delVars, lateVars, diskVars
<1>10. ASSUME NEW s \in Starts, ArchiveRow(s) PROVE LiveIsKnown'
  BY <1>10 DEF ArchiveRow, startVars, turnVars, delVars, lateVars, diskVars
<1>11. ASSUME NEW s \in Starts, ArchiveTurn(s) PROVE LiveIsKnown'
  BY <1>11 DEF ArchiveTurn, startVars, turnVars, delVars, lateVars, diskVars
<1>12. ASSUME NEW s \in Starts, Settle(s) PROVE LiveIsKnown'
  BY <1>12 DEF Settle, Waited, Go, startVars, turnVars, delVars, lateVars, diskVars
<1>13. ASSUME NEW s \in Starts, DropRun(s) PROVE LiveIsKnown'
  BY <1>13 DEF DropRun, Go, startVars, turnVars, delVars, lateVars, diskVars
<1>14. ASSUME NEW s \in Starts,
              Enter(s) \/ TakeGate(s) \/ Busy(s) \/ Prepare(s) \/ Open(s) \/
              Wave(s) \/ Ask(s) \/ Deliver(s) \/ UnbindTurn(s)
      PROVE  LiveIsKnown'
  BY ZenonT(60), <1>14 DEF Enter, Go, TakeGate, Busy, Prepare, Open, Wave, Ask, Deliver,
    UnbindTurn, startVars, turnVars, delVars, lateVars, diskVars
<1>15. ASSUME NEW d \in Deleters,
              Mark(d) \/ InProgress(d) \/ Idle(d) \/ DeleteSession(d) \/
              RemoveRows(d) \/ RemoveFiles(d) \/ RemovePoints(d) \/
              Finish(d) \/ DeleteFails(d) \/ Purge(d)
      PROVE  LiveIsKnown'
  BY ZenonT(60), <1>15 DEF Mark, DelGo, Stop, Gone, InProgress, Idle, DeleteSession,
    RemoveRows, RemoveFiles, RemovePoints, Finish, DeleteFails, Purge,
    startVars, turnVars, delVars, lateVars, diskVars
<1>16. ASSUME TitleGenerated \/ TitleFails \/ TitleWrite \/ NoteArrives \/
              NoteRow \/ NoteCommit \/ Rehost \/ UNCHANGED vars
      PROVE  LiveIsKnown'
  BY <1>16 DEF TitleGenerated, TitleFails, TitleWrite, NoteArrives, NoteRow,
    NoteCommit, Rehost, vars, startVars, turnVars, delVars, lateVars, diskVars
<1>. QED BY <1>1, <1>2, <1>3, <1>4, <1>5, <1>6, <1>7, <1>8, <1>9, <1>10,
  <1>11, <1>12, <1>13, <1>14, <1>15, <1>16
     DEF Next, StartStep, TurnEnds, SettleStep, DeleteStep

\* Registering a run takes the lock that the polite start would hold.
LEMMA PoliteStep ==
    TypeOK /\ LockHeld /\ PoliteAlone /\ [Next]_vars => PoliteAlone'
<1>. SUFFICES ASSUME TypeOK, LockHeld, PoliteAlone, [Next]_vars PROVE PoliteAlone'
  OBVIOUS
<1>. USE ConversationAssumption DEF TypeOK, LockHeld, PoliteAlone, Deciding
<1>1. ASSUME NEW s \in Starts, TakeGate(s) PROVE PoliteAlone'
  BY <1>1 DEF TakeGate, Go, startVars, turnVars, delVars, lateVars, diskVars
<1>2. ASSUME NEW s \in Starts, Prepare(s) PROVE PoliteAlone'
  BY <1>2 DEF Prepare, Go, startVars, turnVars, delVars, lateVars, diskVars
<1>3. ASSUME NEW s \in Starts, Open(s) PROVE PoliteAlone'
  BY <1>3 DEF Open, Go, startVars, turnVars, delVars, lateVars, diskVars
<1>4. ASSUME NEW s \in Starts, Register(s) PROVE PoliteAlone'
  BY <1>4 DEF Register, Go, Gone, startVars, turnVars, delVars, lateVars,
    diskVars
<1>5. ASSUME NEW s \in Starts,
              Enter(s) \/ Busy(s) \/ Start(s) \/ StartFails(s) \/ Seed(s) \/
              SeedFails(s) \/ Bind(s) \/ RegisterLost(s) \/ Wave(s) \/
              CancelRun(s) \/ ArchiveRow(s) \/ ArchiveTurn(s) \/
              EndUnarchived(s) \/ Ask(s) \/ Deliver(s) \/ Settle(s) \/
              DropRun(s) \/ UnbindTurn(s)
      PROVE  PoliteAlone'
  BY <1>5 DEF Enter, Go, Busy, Start, StartFails, Seed, SeedFails, Stop,
    Bind, RegisterLost, Gone, Wave, CancelRun, ArchiveRow, ArchiveTurn,
    EndUnarchived, Ask, Deliver, Settle, DropRun, UnbindTurn, startVars,
    turnVars, delVars, lateVars, diskVars
<1>6. ASSUME NEW d \in Deleters,
              Mark(d) \/ InProgress(d) \/ Idle(d) \/ DeleteSession(d) \/
              RemoveRows(d) \/ RemoveFiles(d) \/ RemovePoints(d) \/
              Finish(d) \/ DeleteFails(d) \/ Purge(d)
      PROVE  PoliteAlone'
  BY <1>6 DEF Mark, DelGo, Stop, Gone, InProgress, Idle, DeleteSession,
    RemoveRows, RemoveFiles, RemovePoints, Finish, DeleteFails, Purge,
    startVars, turnVars, delVars, lateVars, diskVars
<1>7. ASSUME TitleGenerated \/ TitleFails \/ TitleWrite \/ NoteArrives \/
              NoteRow \/ NoteCommit \/ Rehost \/ UNCHANGED vars
      PROVE  PoliteAlone'
  BY <1>7 DEF TitleGenerated, TitleFails, TitleWrite, NoteArrives, NoteRow,
    NoteCommit, Rehost, vars, startVars, turnVars, delVars, lateVars, diskVars
<1>. QED BY <1>1, <1>2, <1>3, <1>4, <1>5, <1>6, <1>7
     DEF Next, StartStep, TurnEnds, SettleStep, DeleteStep

\* A turn is bound before it can be registered and unbound after it was dropped;
\* no other start takes its binding away.
LEMMA BoundStep == TypeOK /\ BoundRuns /\ [Next]_vars => BoundRuns'
<1>. SUFFICES ASSUME TypeOK, BoundRuns, [Next]_vars PROVE BoundRuns'
  OBVIOUS
<1>. USE DEF TypeOK, BoundRuns
<1>1. ASSUME NEW s \in Starts, Bind(s) PROVE BoundRuns'
  BY <1>1 DEF Bind, Go
<1>2. ASSUME NEW s \in Starts, UnbindTurn(s) PROVE BoundRuns'
  BY <1>2 DEF UnbindTurn, Go
<1>3. ASSUME NEW s \in Starts, Register(s) \/ Settle(s) PROVE BoundRuns'
  BY <1>3 DEF Register, Settle, Go, turnVars
<1>4. ASSUME NEW s \in Starts,
             \/ Enter(s) \/ TakeGate(s) \/ Busy(s) \/ Prepare(s) \/ Open(s)
             \/ Seed(s) \/ DropRun(s)
      PROVE  BoundRuns'
  BY <1>4 DEF Enter, TakeGate, Busy, Prepare, Open, Seed, DropRun, Go, turnVars
<1>5. ASSUME NEW s \in Starts,
             Start(s) \/ StartFails(s) \/ SeedFails(s) \/ RegisterLost(s)
      PROVE  BoundRuns'
  BY <1>5 DEF Start, StartFails, SeedFails, RegisterLost, Go, turnVars
<1>6. ASSUME NEW s \in Starts,
             \/ Wave(s) \/ CancelRun(s) \/ ArchiveRow(s) \/ ArchiveTurn(s)
             \/ EndUnarchived(s) \/ Ask(s) \/ Deliver(s)
      PROVE  BoundRuns'
  BY <1>6 DEF Wave, CancelRun, ArchiveRow, ArchiveTurn, EndUnarchived, Ask,
     Deliver, startVars, turnVars
<1>7. ASSUME NEW d \in Deleters,
             \/ Mark(d) \/ InProgress(d) \/ Idle(d) \/ DeleteSession(d)
             \/ RemoveRows(d) \/ RemoveFiles(d) \/ RemovePoints(d)
             \/ Finish(d) \/ DeleteFails(d) \/ Purge(d)
      PROVE  BoundRuns'
  BY <1>7 DEF Mark, InProgress, Idle, DeleteSession, RemoveRows, RemoveFiles,
     RemovePoints, Finish, DeleteFails, Purge, startVars, turnVars
<1>8. ASSUME \/ TitleGenerated \/ TitleFails \/ TitleWrite \/ NoteArrives
             \/ NoteRow \/ NoteCommit \/ Rehost \/ UNCHANGED vars
      PROVE  BoundRuns'
  BY <1>8 DEF TitleGenerated, TitleFails, TitleWrite, NoteArrives, NoteRow,
     NoteCommit, Rehost, vars, startVars, turnVars
<1>. QED BY <1>1, <1>2, <1>3, <1>4, <1>5, <1>6, <1>7, <1>8
     DEF Next, StartStep, TurnEnds, SettleStep, DeleteStep

-----------------------------------------------------------------------------
Inv == /\ TypeOK /\ LockHeld /\ OneDeletion /\ Retires /\ RetiredIsGone
       /\ DeletionAwaitsRuns /\ LiveIsKnown /\ BoundRuns /\ PoliteAlone

LEMMA InitInv == Init => Inv
<1>. SUFFICES ASSUME Init PROVE Inv
  OBVIOUS
<1>1. \A s \in Starts : pc[s] = "idle" /\ turn[s] = "none" BY DEF Init
<1>2. \A d \in Deleters : del[d] = "idle" BY DEF Init
<1>3. runs = {} /\ gate = NoStart /\ ~deleted /\ ~retired BY DEF Init
<1>4. TypeOK
  <2>1. runs = {s \in Starts : pc[s] \in {"running", "settle"}} BY <1>1, <1>3
  <2>. QED BY ConversationAssumption, <2>1 DEF Init, TypeOK, Steps, Turns
<1>5. OneDeletion /\ Retires BY <1>2, <1>3 DEF OneDeletion, Deletion, Retires
<1>6. RetiredIsGone /\ DeletionAwaitsRuns
  BY <1>2, <1>3 DEF RetiredIsGone, DeletionAwaitsRuns
<1>7. LockHeld BY ConversationAssumption, <1>1, <1>3 DEF LockHeld, Deciding
<1>8. LiveIsKnown /\ BoundRuns /\ PoliteAlone
  BY <1>1, <1>3 DEF LiveIsKnown, BoundRuns, PoliteAlone
<1>. QED BY <1>4, <1>5, <1>6, <1>7, <1>8 DEF Inv

LEMMA InvHolds == Spec => []Inv
<1>1. Inv /\ [Next]_vars => Inv'
  BY TypeStep, LockStep, DeletionStep, RetiresStep, GoneStep, AwaitStep, LiveStep,
     BoundStep, PoliteStep
  DEF Inv
<1>. QED BY InitInv, <1>1, PTL DEF Spec

\* Host.runs: the registered runs are the ones that have not settled.
THEOREM ConversationTyping == Spec => []TypeOK
BY InvHolds, PTL DEF Inv

\* Host.DeleteConversation: the rows go when no run is left to write them.
THEOREM DeletionAfterRuns == Spec => []DeletionAwaitsRuns
BY InvHolds, PTL DEF Inv

\* state.ErrRetired: a deleted conversation stays deleted.
THEOREM DeletedForGood == Spec => []RetiredIsGone
BY InvHolds, PTL DEF Inv

\* Host.lockStart: deciding and registering are one step, so a start that steps
\* aside finds no turn to interrupt but one that nobody waits for.
THEOREM AutomationsStepAside == Spec => PoliteNeverPreempts
<1>1. Inv /\ [Next]_vars
        => [\A s \in Polite : pc[s] = "start" /\ pc'[s] = "seed"
                => \A t \in Starts : turn[t] = "live" => LeftRunning(t)]_vars
  <2>. SUFFICES ASSUME Inv, NEW s \in Polite, pc[s] = "start",
                       NEW t \in Starts, turn[t] = "live", ~LeftRunning(t)
                PROVE  FALSE
    OBVIOUS
  <2>1. runs = {} /\ gate = s
    BY ConversationAssumption DEF Inv, LockHeld, PoliteAlone, Deciding
  <2>2. pc[t] \in {"seed", "bind", "register"} BY <2>1 DEF Inv, LiveIsKnown, TypeOK
  <2>3. gate = t BY <2>2 DEF Inv, LockHeld, Deciding
  <2>. QED BY <2>1, <2>2, <2>3
<1>. QED BY InvHolds, <1>1, PTL DEF Spec, PoliteNeverPreempts

\* Host.dropRunCheckpoint and deleteConversationCheckpoints: only the archive or
\* the deletion takes the checkpoint of a turn.
THEOREM CheckpointsLast == Spec => TurnKeepsTrace
<1>1. Inv /\ [Next]_vars => [\A s \in points \ points' : s \in archive \/ retired]_vars
  <2>. SUFFICES ASSUME Inv, [Next]_vars,
                       NEW t \in points, t \notin points', t \notin archive
                PROVE  retired
    OBVIOUS
  <2>. USE DEF Inv, TypeOK, Retires
  <2>1. ASSUME NEW s \in Starts, Settle(s) PROVE retired
    BY <2>1 DEF Settle
  <2>2. ASSUME NEW d \in Deleters, RemovePoints(d) \/ Purge(d) PROVE retired
    BY <2>2 DEF RemovePoints, Purge, DelGo
  <2>3. ASSUME NEW s \in Starts,
               Enter(s) \/ StartStep(s) \/ CancelRun(s) \/ TurnEnds(s) \/ Ask(s)
               \/ Deliver(s) \/ Wave(s) \/ DropRun(s) \/ UnbindTurn(s)
        PROVE  FALSE
    BY <2>3
    DEF Enter, StartStep, TakeGate, Busy, Prepare, Open, Start, StartFails, Seed,
        SeedFails, Bind, Register, RegisterLost, CancelRun, TurnEnds, ArchiveRow,
        ArchiveTurn, EndUnarchived, Ask, Deliver, Wave, DropRun, UnbindTurn,
        diskVars
  <2>4. ASSUME NEW d \in Deleters,
               Mark(d) \/ InProgress(d) \/ Idle(d) \/ DeleteSession(d)
               \/ RemoveRows(d) \/ RemoveFiles(d) \/ Finish(d) \/ DeleteFails(d)
        PROVE  FALSE
    BY <2>4
    DEF Mark, InProgress, Idle, DeleteSession, RemoveRows, RemoveFiles, Finish,
        DeleteFails, diskVars
  <2>5. ASSUME \/ TitleGenerated \/ TitleFails \/ TitleWrite \/ NoteArrives
               \/ NoteRow \/ NoteCommit \/ Rehost \/ UNCHANGED vars
        PROVE  FALSE
    BY <2>5
    DEF TitleGenerated, TitleFails, TitleWrite, NoteArrives, NoteRow, NoteCommit,
        Rehost, vars, diskVars
  <2>. QED BY <2>1, <2>2, <2>3, <2>4, <2>5 DEF Next, SettleStep, DeleteStep
<1>. QED BY InvHolds, <1>1, PTL DEF Spec, TurnKeepsTrace

\* Broker.deliver and UnbindTurn: the broker drops a reply only before the turn
\* was bound, or when the turn is over, told to stop or given up by its caller.
THEOREM RepliesReachTurns == Spec => RunningTurnIsAnswered
<1>1. Inv /\ [Next]_vars
        => [\A s \in Starts : prompt'[s] = "dropped" /\ prompt[s] # "dropped"
                => pc[s] \in {"seed", "bind"} \/ turn[s] # "live" \/ LeftRunning(s)]_vars
  <2>. SUFFICES ASSUME Inv, [Next]_vars, NEW s \in Starts,
                       prompt'[s] = "dropped", prompt[s] # "dropped",
                       turn[s] = "live", ~LeftRunning(s)
                PROVE  pc[s] \in {"seed", "bind"}
    OBVIOUS
  <2>1. CASE \E t \in Starts : Deliver(t)
    <3>1. s \notin bound BY <2>1 DEF Deliver, Inv, TypeOK
    <3>. QED BY <3>1 DEF Inv, TypeOK, LiveIsKnown, BoundRuns
  <2>2. CASE \E t \in Starts : Ask(t)
    BY <2>2 DEF Ask, Inv, TypeOK
  <2>3. ASSUME NEW t \in Starts,
               \/ Enter(t) \/ StartStep(t) \/ Wave(t) \/ CancelRun(t)
               \/ TurnEnds(t) \/ SettleStep(t)
        PROVE  prompt' = prompt
    BY <2>3
    DEF Enter, StartStep, TakeGate, Busy, Prepare, Open, Start, StartFails, Seed,
        SeedFails, Bind, Register, RegisterLost, Wave, CancelRun, TurnEnds,
        ArchiveRow, ArchiveTurn, EndUnarchived, SettleStep, Settle, DropRun,
        UnbindTurn, turnVars
  <2>4. ASSUME NEW d \in Deleters,
               \/ Mark(d) \/ InProgress(d) \/ DeleteStep(d) \/ DeleteFails(d)
               \/ Purge(d)
        PROVE  prompt' = prompt
    BY <2>4
    DEF Mark, InProgress, DeleteStep, Idle, DeleteSession, RemoveRows,
        RemoveFiles, RemovePoints, Finish, DeleteFails, Purge, turnVars
  <2>5. ASSUME \/ TitleGenerated \/ TitleFails \/ TitleWrite \/ NoteArrives
               \/ NoteRow \/ NoteCommit \/ Rehost \/ UNCHANGED vars
        PROVE  prompt' = prompt
    BY <2>5 DEF TitleGenerated, TitleFails, TitleWrite, NoteArrives, NoteRow,
       NoteCommit, Rehost, vars, turnVars
  <2>. QED BY <2>1, <2>2, <2>3, <2>4, <2>5 DEF Next
<1>. QED BY InvHolds, <1>1, PTL DEF Spec, RunningTurnIsAnswered
=============================================================================
