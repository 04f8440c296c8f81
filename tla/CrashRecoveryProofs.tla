------------------------ MODULE CrashRecoveryProofs ------------------------
(***************************************************************************)
(* For any number of processes and turns: recovery loses no turn, leaves    *)
(* none unreported, and never touches the turns of the live process that    *)
(* holds the workspace lock.                                                *)
(***************************************************************************)
EXTENDS CrashRecovery, TLAPS

\* The process of a turn that runs or settles has passed its own recovery.
OwnersServe ==
    \A r \in Runs : run[r] \in {"live", "settle"}
                       => owner[r] \in Procs /\ pc[owner[r]] = "serving"

\* Whoever recovers holds the lock, unless it cannot reach it.
Passing == {"list", "pass", "write", "drop"}
PassLocked ==
    \A p \in Procs \ Lockless : pc[p] \in Passing => lock = p

\* A deletion touches the files and the checkpoints only of a retired id.
RetiredFirst == \A p \in Procs : del[p] \in {"files", "points"} => retired

\* A pass recovers one turn at a time, and drops its checkpoint after writing it.
WrittenFirst ==
    \A p \in Procs :
        /\ \A q, r \in cur[p] : q = r
        /\ pc[p] = "drop" => \A r \in cur[p] : archive[r] # "none" \/ retired

\* Every turn a pass has not settled is still to do or reported.
Accounted ==
    \A p \in Procs : pc[p] \in {"pass", "write", "drop"} =>
        \A r \in point \ Blank :
            \/ archive[r] # "none" \/ retired
            \/ r \in newer[p] \cup kept[p] \cup todo[p] \cup cur[p]

Inv == TypeOK /\ OwnersServe /\ PassLocked /\ RetiredFirst /\ WrittenFirst /\ Accounted

-----------------------------------------------------------------------------
\* The types, step by step.
LEMMA TypeStep == TypeOK /\ [Next]_vars => TypeOK'
<1>. SUFFICES ASSUME TypeOK, [Next]_vars PROVE TypeOK'
  OBVIOUS
<1>. USE RecoveryAssumption DEF TypeOK
<1>1. ASSUME NEW p \in Procs, Boot(p) PROVE TypeOK'
  BY <1>1 DEF Boot, Go, passVars, runVars, convVars
<1>2. ASSUME NEW p \in Procs, ClaimLock(p) PROVE TypeOK'
  BY <1>2 DEF ClaimLock, Go, passVars, runVars, convVars
<1>3. ASSUME NEW p \in Procs, ClaimHeld(p) PROVE TypeOK'
  BY <1>3 DEF ClaimHeld, Go, passVars, runVars, convVars
<1>4. ASSUME NEW p \in Procs, ClaimBroken(p) PROVE TypeOK'
  BY <1>4 DEF ClaimBroken, Go, passVars, runVars, convVars
<1>5. ASSUME NEW p \in Procs, List(p) PROVE TypeOK'
  BY <1>5 DEF List, Go, runVars, convVars
<1>6. ASSUME NEW p \in Procs, WriteTurn(p) PROVE TypeOK'
  BY <1>6 DEF WriteTurn, Go, Commit, passVars, runVars
<1>7. ASSUME NEW p \in Procs, WriteFails(p) PROVE TypeOK'
  BY <1>7 DEF WriteFails, Go, runVars, convVars
<1>8. ASSUME NEW p \in Procs, DropPoint(p) PROVE TypeOK'
  BY <1>8 DEF DropPoint, Go, Drop, runVars, convVars
<1>9. ASSUME NEW p \in Procs, PassEnds(p) PROVE TypeOK'
  BY <1>9 DEF PassEnds, Go, passVars, runVars, convVars
<1>10. ASSUME NEW p \in Procs, Delete(p) PROVE TypeOK'
  BY <1>10 DEF Delete, Del, procVars, passVars, runVars, convVars
<1>11. ASSUME NEW p \in Procs, RemoveRows(p) PROVE TypeOK'
  BY <1>11 DEF RemoveRows, Del, procVars, passVars, runVars
<1>12. ASSUME NEW p \in Procs, RemoveFiles(p) PROVE TypeOK'
  BY <1>12 DEF RemoveFiles, Del, procVars, passVars, runVars
<1>13. ASSUME NEW p \in Procs, RemovePoints(p) PROVE TypeOK'
  BY <1>13 DEF RemovePoints, Del, procVars, passVars, runVars, convVars
<1>14. ASSUME NEW p \in Procs, DeleteFails(p) PROVE TypeOK'
  BY <1>14 DEF DeleteFails, Del, procVars, passVars, runVars, convVars
<1>15. ASSUME NEW p \in Procs, Crash(p) PROVE TypeOK'
  BY <1>15 DEF Crash, convVars
<1>16. ASSUME NEW p \in Procs, NEW r \in Runs, Skip(p, r) PROVE TypeOK'
  BY <1>16 DEF Skip, procVars, runVars, convVars
<1>17. ASSUME NEW p \in Procs, NEW r \in Runs, ReadFails(p, r) PROVE TypeOK'
  BY <1>17 DEF ReadFails, procVars, runVars, convVars
<1>18. ASSUME NEW p \in Procs, NEW r \in Runs, Discard(p, r) PROVE TypeOK'
  BY <1>18 DEF Discard, Drop, Exists, procVars, runVars, convVars
<1>19. ASSUME NEW p \in Procs, NEW r \in Runs, Recover(p, r) PROVE TypeOK'
  BY <1>19 DEF Recover, Go, Exists, runVars, convVars
<1>20. ASSUME NEW p \in Procs, NEW r \in Runs, StartRun(p, r) PROVE TypeOK'
  BY <1>20 DEF StartRun, procVars, passVars
<1>21. ASSUME NEW r \in Runs, Wave(r) PROVE TypeOK'
  BY <1>21 DEF Wave, passVars, runVars, convVars
<1>22. ASSUME NEW r \in Runs, EndTurn(r) PROVE TypeOK'
  BY <1>22 DEF EndTurn, Commit, procVars, passVars
<1>23. ASSUME NEW r \in Runs, EndUnarchived(r) PROVE TypeOK'
  BY <1>23 DEF EndUnarchived, procVars, passVars, convVars
<1>24. ASSUME NEW r \in Runs, Settle(r) PROVE TypeOK'
  BY <1>24 DEF Settle, Drop, procVars, passVars, convVars
<1>25. ASSUME UNCHANGED vars PROVE TypeOK'
  BY <1>25 DEF vars, procVars, passVars, runVars, convVars
<1>26. ASSUME NEW p \in Procs, ListFails(p) PROVE TypeOK'
  BY <1>26 DEF ListFails, Go, passVars, runVars, convVars
<1>27. ASSUME NEW r \in Runs, SeedTitle(r) PROVE TypeOK'
  BY <1>27 DEF SeedTitle, procVars, passVars
<1>28. ASSUME NEW r \in Runs, SeedFails(r) PROVE TypeOK'
  BY <1>28 DEF SeedFails, procVars, passVars, convVars
<1>29. ASSUME NEW r \in Runs, OpenRollout(r) PROVE TypeOK'
  BY <1>29 DEF OpenRollout, procVars, passVars, runVars
<1>. QED BY <1>1, <1>2, <1>3, <1>4, <1>5, <1>6, <1>7, <1>8, <1>9, <1>10, <1>11,
            <1>12, <1>13, <1>14, <1>15, <1>16, <1>17, <1>18, <1>19, <1>20, <1>21,
            <1>22, <1>23, <1>24, <1>25, <1>26, <1>27, <1>28, <1>29 DEF Next

\* A step keeps the owners of live turns serving.
LEMMA OwnersStep == TypeOK /\ OwnersServe /\ [Next]_vars => OwnersServe'
<1>. SUFFICES ASSUME TypeOK, OwnersServe, [Next]_vars PROVE OwnersServe'
  OBVIOUS
<1>. USE RecoveryAssumption DEF TypeOK, OwnersServe
<1>1. ASSUME NEW p \in Procs, Boot(p) PROVE OwnersServe'
  BY <1>1 DEF Boot, Go, passVars, runVars, convVars
<1>2. ASSUME NEW p \in Procs, ClaimLock(p) PROVE OwnersServe'
  BY <1>2 DEF ClaimLock, Go, passVars, runVars, convVars
<1>3. ASSUME NEW p \in Procs, ClaimHeld(p) PROVE OwnersServe'
  BY <1>3 DEF ClaimHeld, Go, passVars, runVars, convVars
<1>4. ASSUME NEW p \in Procs, ClaimBroken(p) PROVE OwnersServe'
  BY <1>4 DEF ClaimBroken, Go, passVars, runVars, convVars
<1>5. ASSUME NEW p \in Procs, List(p) PROVE OwnersServe'
  BY <1>5 DEF List, Go, runVars, convVars
<1>6. ASSUME NEW p \in Procs, WriteTurn(p) PROVE OwnersServe'
  BY <1>6 DEF WriteTurn, Go, Commit, passVars, runVars
<1>7. ASSUME NEW p \in Procs, WriteFails(p) PROVE OwnersServe'
  BY <1>7 DEF WriteFails, Go, runVars, convVars
<1>8. ASSUME NEW p \in Procs, DropPoint(p) PROVE OwnersServe'
  BY <1>8 DEF DropPoint, Go, Drop, runVars, convVars
<1>9. ASSUME NEW p \in Procs, PassEnds(p) PROVE OwnersServe'
  BY <1>9 DEF PassEnds, Go, passVars, runVars, convVars
<1>10. ASSUME NEW p \in Procs, Delete(p) PROVE OwnersServe'
  BY <1>10 DEF Delete, Del, procVars, passVars, runVars, convVars
<1>11. ASSUME NEW p \in Procs, RemoveRows(p) PROVE OwnersServe'
  BY <1>11 DEF RemoveRows, Del, procVars, passVars, runVars
<1>12. ASSUME NEW p \in Procs, RemoveFiles(p) PROVE OwnersServe'
  BY <1>12 DEF RemoveFiles, Del, procVars, passVars, runVars
<1>13. ASSUME NEW p \in Procs, RemovePoints(p) PROVE OwnersServe'
  BY <1>13 DEF RemovePoints, Del, procVars, passVars, runVars, convVars
<1>14. ASSUME NEW p \in Procs, DeleteFails(p) PROVE OwnersServe'
  BY <1>14 DEF DeleteFails, Del, procVars, passVars, runVars, convVars
<1>15. ASSUME NEW p \in Procs, Crash(p) PROVE OwnersServe'
  BY <1>15 DEF Crash, convVars
<1>16. ASSUME NEW p \in Procs, NEW r \in Runs, Skip(p, r) PROVE OwnersServe'
  BY <1>16 DEF Skip, procVars, runVars, convVars
<1>17. ASSUME NEW p \in Procs, NEW r \in Runs, ReadFails(p, r) PROVE OwnersServe'
  BY <1>17 DEF ReadFails, procVars, runVars, convVars
<1>18. ASSUME NEW p \in Procs, NEW r \in Runs, Discard(p, r) PROVE OwnersServe'
  BY <1>18 DEF Discard, Drop, Exists, procVars, runVars, convVars
<1>19. ASSUME NEW p \in Procs, NEW r \in Runs, Recover(p, r) PROVE OwnersServe'
  BY <1>19 DEF Recover, Go, Exists, runVars, convVars
<1>20. ASSUME NEW p \in Procs, NEW r \in Runs, StartRun(p, r) PROVE OwnersServe'
  BY <1>20 DEF StartRun, procVars, passVars
<1>21. ASSUME NEW r \in Runs, Wave(r) PROVE OwnersServe'
  BY <1>21 DEF Wave, passVars, runVars, convVars
<1>22. ASSUME NEW r \in Runs, EndTurn(r) PROVE OwnersServe'
  BY <1>22 DEF EndTurn, Commit, procVars, passVars
<1>23. ASSUME NEW r \in Runs, EndUnarchived(r) PROVE OwnersServe'
  BY <1>23 DEF EndUnarchived, procVars, passVars, convVars
<1>24. ASSUME NEW r \in Runs, Settle(r) PROVE OwnersServe'
  BY <1>24 DEF Settle, Drop, procVars, passVars, convVars
<1>25. ASSUME UNCHANGED vars PROVE OwnersServe'
  BY <1>25 DEF vars, procVars, passVars, runVars, convVars
<1>26. ASSUME NEW p \in Procs, ListFails(p) PROVE OwnersServe'
  BY <1>26 DEF ListFails, Go, passVars, runVars, convVars
<1>27. ASSUME NEW r \in Runs, SeedTitle(r) PROVE OwnersServe'
  BY <1>27 DEF SeedTitle, procVars, passVars
<1>28. ASSUME NEW r \in Runs, SeedFails(r) PROVE OwnersServe'
  BY <1>28 DEF SeedFails, procVars, passVars, convVars
<1>29. ASSUME NEW r \in Runs, OpenRollout(r) PROVE OwnersServe'
  BY <1>29 DEF OpenRollout, procVars, passVars, runVars
<1>. QED BY <1>1, <1>2, <1>3, <1>4, <1>5, <1>6, <1>7, <1>8, <1>9, <1>10, <1>11,
            <1>12, <1>13, <1>14, <1>15, <1>16, <1>17, <1>18, <1>19, <1>20, <1>21,
            <1>22, <1>23, <1>24, <1>25, <1>26, <1>27, <1>28, <1>29 DEF Next

\* A step keeps the lock with the process that recovers.
LEMMA LockStep == TypeOK /\ PassLocked /\ [Next]_vars => PassLocked'
<1>. SUFFICES ASSUME TypeOK, PassLocked, [Next]_vars PROVE PassLocked'
  OBVIOUS
<1>. USE RecoveryAssumption DEF TypeOK, PassLocked, Passing
<1>1. ASSUME NEW p \in Procs, Boot(p) PROVE PassLocked'
  BY <1>1 DEF Boot, Go, passVars, runVars, convVars
<1>2. ASSUME NEW p \in Procs, ClaimLock(p) PROVE PassLocked'
  BY <1>2 DEF ClaimLock, Go, passVars, runVars, convVars
<1>3. ASSUME NEW p \in Procs, ClaimHeld(p) PROVE PassLocked'
  BY <1>3 DEF ClaimHeld, Go, passVars, runVars, convVars
<1>4. ASSUME NEW p \in Procs, ClaimBroken(p) PROVE PassLocked'
  BY <1>4 DEF ClaimBroken, Go, passVars, runVars, convVars
<1>5. ASSUME NEW p \in Procs, List(p) PROVE PassLocked'
  BY <1>5 DEF List, Go, runVars, convVars
<1>6. ASSUME NEW p \in Procs, WriteTurn(p) PROVE PassLocked'
  BY <1>6 DEF WriteTurn, Go, Commit, passVars, runVars
<1>7. ASSUME NEW p \in Procs, WriteFails(p) PROVE PassLocked'
  BY <1>7 DEF WriteFails, Go, runVars, convVars
<1>8. ASSUME NEW p \in Procs, DropPoint(p) PROVE PassLocked'
  BY <1>8 DEF DropPoint, Go, Drop, runVars, convVars
<1>9. ASSUME NEW p \in Procs, PassEnds(p) PROVE PassLocked'
  BY <1>9 DEF PassEnds, Go, passVars, runVars, convVars
<1>10. ASSUME NEW p \in Procs, Delete(p) PROVE PassLocked'
  BY <1>10 DEF Delete, Del, procVars, passVars, runVars, convVars
<1>11. ASSUME NEW p \in Procs, RemoveRows(p) PROVE PassLocked'
  BY <1>11 DEF RemoveRows, Del, procVars, passVars, runVars
<1>12. ASSUME NEW p \in Procs, RemoveFiles(p) PROVE PassLocked'
  BY <1>12 DEF RemoveFiles, Del, procVars, passVars, runVars
<1>13. ASSUME NEW p \in Procs, RemovePoints(p) PROVE PassLocked'
  BY <1>13 DEF RemovePoints, Del, procVars, passVars, runVars, convVars
<1>14. ASSUME NEW p \in Procs, DeleteFails(p) PROVE PassLocked'
  BY <1>14 DEF DeleteFails, Del, procVars, passVars, runVars, convVars
<1>15. ASSUME NEW p \in Procs, Crash(p) PROVE PassLocked'
  BY <1>15 DEF Crash, convVars
<1>16. ASSUME NEW p \in Procs, NEW r \in Runs, Skip(p, r) PROVE PassLocked'
  BY <1>16 DEF Skip, procVars, runVars, convVars
<1>17. ASSUME NEW p \in Procs, NEW r \in Runs, ReadFails(p, r) PROVE PassLocked'
  BY <1>17 DEF ReadFails, procVars, runVars, convVars
<1>18. ASSUME NEW p \in Procs, NEW r \in Runs, Discard(p, r) PROVE PassLocked'
  BY <1>18 DEF Discard, Drop, Exists, procVars, runVars, convVars
<1>19. ASSUME NEW p \in Procs, NEW r \in Runs, Recover(p, r) PROVE PassLocked'
  BY <1>19 DEF Recover, Go, Exists, runVars, convVars
<1>20. ASSUME NEW p \in Procs, NEW r \in Runs, StartRun(p, r) PROVE PassLocked'
  BY <1>20 DEF StartRun, procVars, passVars
<1>21. ASSUME NEW r \in Runs, Wave(r) PROVE PassLocked'
  BY <1>21 DEF Wave, passVars, runVars, convVars
<1>22. ASSUME NEW r \in Runs, EndTurn(r) PROVE PassLocked'
  BY <1>22 DEF EndTurn, Commit, procVars, passVars
<1>23. ASSUME NEW r \in Runs, EndUnarchived(r) PROVE PassLocked'
  BY <1>23 DEF EndUnarchived, procVars, passVars, convVars
<1>24. ASSUME NEW r \in Runs, Settle(r) PROVE PassLocked'
  BY <1>24 DEF Settle, Drop, procVars, passVars, convVars
<1>25. ASSUME UNCHANGED vars PROVE PassLocked'
  BY <1>25 DEF vars, procVars, passVars, runVars, convVars
<1>26. ASSUME NEW p \in Procs, ListFails(p) PROVE PassLocked'
  BY <1>26 DEF ListFails, Go, passVars, runVars, convVars
<1>27. ASSUME NEW r \in Runs, SeedTitle(r) PROVE PassLocked'
  BY <1>27 DEF SeedTitle, procVars, passVars
<1>28. ASSUME NEW r \in Runs, SeedFails(r) PROVE PassLocked'
  BY <1>28 DEF SeedFails, procVars, passVars, convVars
<1>29. ASSUME NEW r \in Runs, OpenRollout(r) PROVE PassLocked'
  BY <1>29 DEF OpenRollout, procVars, passVars, runVars
<1>. QED BY <1>1, <1>2, <1>3, <1>4, <1>5, <1>6, <1>7, <1>8, <1>9, <1>10, <1>11,
            <1>12, <1>13, <1>14, <1>15, <1>16, <1>17, <1>18, <1>19, <1>20, <1>21,
            <1>22, <1>23, <1>24, <1>25, <1>26, <1>27, <1>28, <1>29 DEF Next

\* A step keeps the id retired before the files go.
LEMMA RetiredStep == TypeOK /\ RetiredFirst /\ [Next]_vars => RetiredFirst'
<1>. SUFFICES ASSUME TypeOK, RetiredFirst, [Next]_vars PROVE RetiredFirst'
  OBVIOUS
<1>. USE RecoveryAssumption DEF TypeOK, RetiredFirst
<1>1. ASSUME NEW p \in Procs, Boot(p) PROVE RetiredFirst'
  BY <1>1 DEF Boot, Go, passVars, runVars, convVars
<1>2. ASSUME NEW p \in Procs, ClaimLock(p) PROVE RetiredFirst'
  BY <1>2 DEF ClaimLock, Go, passVars, runVars, convVars
<1>3. ASSUME NEW p \in Procs, ClaimHeld(p) PROVE RetiredFirst'
  BY <1>3 DEF ClaimHeld, Go, passVars, runVars, convVars
<1>4. ASSUME NEW p \in Procs, ClaimBroken(p) PROVE RetiredFirst'
  BY <1>4 DEF ClaimBroken, Go, passVars, runVars, convVars
<1>5. ASSUME NEW p \in Procs, List(p) PROVE RetiredFirst'
  BY <1>5 DEF List, Go, runVars, convVars
<1>6. ASSUME NEW p \in Procs, WriteTurn(p) PROVE RetiredFirst'
  BY <1>6 DEF WriteTurn, Go, Commit, passVars, runVars
<1>7. ASSUME NEW p \in Procs, WriteFails(p) PROVE RetiredFirst'
  BY <1>7 DEF WriteFails, Go, runVars, convVars
<1>8. ASSUME NEW p \in Procs, DropPoint(p) PROVE RetiredFirst'
  BY <1>8 DEF DropPoint, Go, Drop, runVars, convVars
<1>9. ASSUME NEW p \in Procs, PassEnds(p) PROVE RetiredFirst'
  BY <1>9 DEF PassEnds, Go, passVars, runVars, convVars
<1>10. ASSUME NEW p \in Procs, Delete(p) PROVE RetiredFirst'
  BY <1>10 DEF Delete, Del, procVars, passVars, runVars, convVars
<1>11. ASSUME NEW p \in Procs, RemoveRows(p) PROVE RetiredFirst'
  BY <1>11 DEF RemoveRows, Del, procVars, passVars, runVars
<1>12. ASSUME NEW p \in Procs, RemoveFiles(p) PROVE RetiredFirst'
  BY <1>12 DEF RemoveFiles, Del, procVars, passVars, runVars
<1>13. ASSUME NEW p \in Procs, RemovePoints(p) PROVE RetiredFirst'
  BY <1>13 DEF RemovePoints, Del, procVars, passVars, runVars, convVars
<1>14. ASSUME NEW p \in Procs, DeleteFails(p) PROVE RetiredFirst'
  BY <1>14 DEF DeleteFails, Del, procVars, passVars, runVars, convVars
<1>15. ASSUME NEW p \in Procs, Crash(p) PROVE RetiredFirst'
  BY <1>15 DEF Crash, convVars
<1>16. ASSUME NEW p \in Procs, NEW r \in Runs, Skip(p, r) PROVE RetiredFirst'
  BY <1>16 DEF Skip, procVars, runVars, convVars
<1>17. ASSUME NEW p \in Procs, NEW r \in Runs, ReadFails(p, r) PROVE RetiredFirst'
  BY <1>17 DEF ReadFails, procVars, runVars, convVars
<1>18. ASSUME NEW p \in Procs, NEW r \in Runs, Discard(p, r) PROVE RetiredFirst'
  BY <1>18 DEF Discard, Drop, Exists, procVars, runVars, convVars
<1>19. ASSUME NEW p \in Procs, NEW r \in Runs, Recover(p, r) PROVE RetiredFirst'
  BY <1>19 DEF Recover, Go, Exists, runVars, convVars
<1>20. ASSUME NEW p \in Procs, NEW r \in Runs, StartRun(p, r) PROVE RetiredFirst'
  BY <1>20 DEF StartRun, procVars, passVars
<1>21. ASSUME NEW r \in Runs, Wave(r) PROVE RetiredFirst'
  BY <1>21 DEF Wave, passVars, runVars, convVars
<1>22. ASSUME NEW r \in Runs, EndTurn(r) PROVE RetiredFirst'
  BY <1>22 DEF EndTurn, Commit, procVars, passVars
<1>23. ASSUME NEW r \in Runs, EndUnarchived(r) PROVE RetiredFirst'
  BY <1>23 DEF EndUnarchived, procVars, passVars, convVars
<1>24. ASSUME NEW r \in Runs, Settle(r) PROVE RetiredFirst'
  BY <1>24 DEF Settle, Drop, procVars, passVars, convVars
<1>25. ASSUME UNCHANGED vars PROVE RetiredFirst'
  BY <1>25 DEF vars, procVars, passVars, runVars, convVars
<1>26. ASSUME NEW p \in Procs, ListFails(p) PROVE RetiredFirst'
  BY <1>26 DEF ListFails, Go, passVars, runVars, convVars
<1>27. ASSUME NEW r \in Runs, SeedTitle(r) PROVE RetiredFirst'
  BY <1>27 DEF SeedTitle, procVars, passVars
<1>28. ASSUME NEW r \in Runs, SeedFails(r) PROVE RetiredFirst'
  BY <1>28 DEF SeedFails, procVars, passVars, convVars
<1>29. ASSUME NEW r \in Runs, OpenRollout(r) PROVE RetiredFirst'
  BY <1>29 DEF OpenRollout, procVars, passVars, runVars
<1>. QED BY <1>1, <1>2, <1>3, <1>4, <1>5, <1>6, <1>7, <1>8, <1>9, <1>10, <1>11,
            <1>12, <1>13, <1>14, <1>15, <1>16, <1>17, <1>18, <1>19, <1>20, <1>21,
            <1>22, <1>23, <1>24, <1>25, <1>26, <1>27, <1>28, <1>29 DEF Next

\* A step keeps the order of write and drop.
LEMMA WrittenStep == TypeOK /\ WrittenFirst /\ [Next]_vars => WrittenFirst'
<1>. SUFFICES ASSUME TypeOK, WrittenFirst, [Next]_vars PROVE WrittenFirst'
  OBVIOUS
<1>. USE RecoveryAssumption DEF TypeOK, WrittenFirst
<1>1. ASSUME NEW p \in Procs, Boot(p) PROVE WrittenFirst'
  BY <1>1 DEF Boot, Go, passVars, runVars, convVars
<1>2. ASSUME NEW p \in Procs, ClaimLock(p) PROVE WrittenFirst'
  BY <1>2 DEF ClaimLock, Go, passVars, runVars, convVars
<1>3. ASSUME NEW p \in Procs, ClaimHeld(p) PROVE WrittenFirst'
  BY <1>3 DEF ClaimHeld, Go, passVars, runVars, convVars
<1>4. ASSUME NEW p \in Procs, ClaimBroken(p) PROVE WrittenFirst'
  BY <1>4 DEF ClaimBroken, Go, passVars, runVars, convVars
<1>5. ASSUME NEW p \in Procs, List(p) PROVE WrittenFirst'
  BY <1>5 DEF List, Go, runVars, convVars
<1>6. ASSUME NEW p \in Procs, WriteTurn(p) PROVE WrittenFirst'
  BY <1>6 DEF WriteTurn, Go, Commit, passVars, runVars
<1>7. ASSUME NEW p \in Procs, WriteFails(p) PROVE WrittenFirst'
  BY <1>7 DEF WriteFails, Go, runVars, convVars
<1>8. ASSUME NEW p \in Procs, DropPoint(p) PROVE WrittenFirst'
  BY <1>8 DEF DropPoint, Go, Drop, runVars, convVars
<1>9. ASSUME NEW p \in Procs, PassEnds(p) PROVE WrittenFirst'
  BY <1>9 DEF PassEnds, Go, passVars, runVars, convVars
<1>10. ASSUME NEW p \in Procs, Delete(p) PROVE WrittenFirst'
  BY <1>10 DEF Delete, Del, procVars, passVars, runVars, convVars
<1>11. ASSUME NEW p \in Procs, RemoveRows(p) PROVE WrittenFirst'
  BY <1>11 DEF RemoveRows, Del, procVars, passVars, runVars
<1>12. ASSUME NEW p \in Procs, RemoveFiles(p) PROVE WrittenFirst'
  BY <1>12 DEF RemoveFiles, Del, procVars, passVars, runVars
<1>13. ASSUME NEW p \in Procs, RemovePoints(p) PROVE WrittenFirst'
  BY <1>13 DEF RemovePoints, Del, procVars, passVars, runVars, convVars
<1>14. ASSUME NEW p \in Procs, DeleteFails(p) PROVE WrittenFirst'
  BY <1>14 DEF DeleteFails, Del, procVars, passVars, runVars, convVars
<1>15. ASSUME NEW p \in Procs, Crash(p) PROVE WrittenFirst'
  BY <1>15 DEF Crash, convVars
<1>16. ASSUME NEW p \in Procs, NEW r \in Runs, Skip(p, r) PROVE WrittenFirst'
  BY <1>16 DEF Skip, procVars, runVars, convVars
<1>17. ASSUME NEW p \in Procs, NEW r \in Runs, ReadFails(p, r) PROVE WrittenFirst'
  BY <1>17 DEF ReadFails, procVars, runVars, convVars
<1>18. ASSUME NEW p \in Procs, NEW r \in Runs, Discard(p, r) PROVE WrittenFirst'
  BY <1>18 DEF Discard, Drop, Exists, procVars, runVars, convVars
<1>19. ASSUME NEW p \in Procs, NEW r \in Runs, Recover(p, r) PROVE WrittenFirst'
  BY <1>19 DEF Recover, Go, Exists, runVars, convVars
<1>20. ASSUME NEW p \in Procs, NEW r \in Runs, StartRun(p, r) PROVE WrittenFirst'
  BY <1>20 DEF StartRun, procVars, passVars
<1>21. ASSUME NEW r \in Runs, Wave(r) PROVE WrittenFirst'
  BY <1>21 DEF Wave, passVars, runVars, convVars
<1>22. ASSUME NEW r \in Runs, EndTurn(r) PROVE WrittenFirst'
  BY <1>22 DEF EndTurn, Commit, procVars, passVars
<1>23. ASSUME NEW r \in Runs, EndUnarchived(r) PROVE WrittenFirst'
  BY <1>23 DEF EndUnarchived, procVars, passVars, convVars
<1>24. ASSUME NEW r \in Runs, Settle(r) PROVE WrittenFirst'
  BY <1>24 DEF Settle, Drop, procVars, passVars, convVars
<1>25. ASSUME UNCHANGED vars PROVE WrittenFirst'
  BY <1>25 DEF vars, procVars, passVars, runVars, convVars
<1>26. ASSUME NEW p \in Procs, ListFails(p) PROVE WrittenFirst'
  BY <1>26 DEF ListFails, Go, passVars, runVars, convVars
<1>27. ASSUME NEW r \in Runs, SeedTitle(r) PROVE WrittenFirst'
  BY <1>27 DEF SeedTitle, procVars, passVars
<1>28. ASSUME NEW r \in Runs, SeedFails(r) PROVE WrittenFirst'
  BY <1>28 DEF SeedFails, procVars, passVars, convVars
<1>29. ASSUME NEW r \in Runs, OpenRollout(r) PROVE WrittenFirst'
  BY <1>29 DEF OpenRollout, procVars, passVars, runVars
<1>. QED BY <1>1, <1>2, <1>3, <1>4, <1>5, <1>6, <1>7, <1>8, <1>9, <1>10, <1>11,
            <1>12, <1>13, <1>14, <1>15, <1>16, <1>17, <1>18, <1>19, <1>20, <1>21,
            <1>22, <1>23, <1>24, <1>25, <1>26, <1>27, <1>28, <1>29 DEF Next

\* A step keeps every unsettled turn accounted for.
LEMMA AccountStep ==
    TypeOK /\ RetiredFirst /\ WrittenFirst /\ Accounted /\ [Next]_vars => Accounted'
<1>. SUFFICES ASSUME TypeOK, RetiredFirst, WrittenFirst, Accounted, [Next]_vars
              PROVE  Accounted'
  OBVIOUS
<1>. USE RecoveryAssumption DEF TypeOK, RetiredFirst, WrittenFirst, Accounted
<1>1. ASSUME NEW p \in Procs, Boot(p) PROVE Accounted'
  BY <1>1 DEF Boot, Go, passVars, runVars, convVars
<1>2. ASSUME NEW p \in Procs, ClaimLock(p) PROVE Accounted'
  BY <1>2 DEF ClaimLock, Go, passVars, runVars, convVars
<1>3. ASSUME NEW p \in Procs, ClaimHeld(p) PROVE Accounted'
  BY <1>3 DEF ClaimHeld, Go, passVars, runVars, convVars
<1>4. ASSUME NEW p \in Procs, ClaimBroken(p) PROVE Accounted'
  BY <1>4 DEF ClaimBroken, Go, passVars, runVars, convVars
<1>5. ASSUME NEW p \in Procs, List(p) PROVE Accounted'
  BY <1>5 DEF List, Go, runVars, convVars
<1>6. ASSUME NEW p \in Procs, WriteTurn(p) PROVE Accounted'
  BY <1>6 DEF WriteTurn, Go, Commit, passVars, runVars
<1>7. ASSUME NEW p \in Procs, WriteFails(p) PROVE Accounted'
  BY <1>7 DEF WriteFails, Go, runVars, convVars
<1>8. ASSUME NEW p \in Procs, DropPoint(p) PROVE Accounted'
  BY <1>8 DEF DropPoint, Go, Drop, runVars, convVars
<1>9. ASSUME NEW p \in Procs, PassEnds(p) PROVE Accounted'
  BY <1>9 DEF PassEnds, Go, passVars, runVars, convVars
<1>10. ASSUME NEW p \in Procs, Delete(p) PROVE Accounted'
  BY <1>10 DEF Delete, Del, procVars, passVars, runVars, convVars
<1>11. ASSUME NEW p \in Procs, RemoveRows(p) PROVE Accounted'
  BY <1>11 DEF RemoveRows, Del, procVars, passVars, runVars
<1>12. ASSUME NEW p \in Procs, RemoveFiles(p) PROVE Accounted'
  BY <1>12 DEF RemoveFiles, Del, procVars, passVars, runVars
<1>13. ASSUME NEW p \in Procs, RemovePoints(p) PROVE Accounted'
  BY <1>13 DEF RemovePoints, Del, procVars, passVars, runVars, convVars
<1>14. ASSUME NEW p \in Procs, DeleteFails(p) PROVE Accounted'
  BY <1>14 DEF DeleteFails, Del, procVars, passVars, runVars, convVars
<1>15. ASSUME NEW p \in Procs, Crash(p) PROVE Accounted'
  BY <1>15 DEF Crash, convVars
<1>16. ASSUME NEW p \in Procs, NEW r \in Runs, Skip(p, r) PROVE Accounted'
  BY <1>16 DEF Skip, procVars, runVars, convVars
<1>17. ASSUME NEW p \in Procs, NEW r \in Runs, ReadFails(p, r) PROVE Accounted'
  BY <1>17 DEF ReadFails, procVars, runVars, convVars
<1>18. ASSUME NEW p \in Procs, NEW r \in Runs, Discard(p, r) PROVE Accounted'
  BY <1>18 DEF Discard, Drop, Exists, procVars, runVars, convVars
<1>19. ASSUME NEW p \in Procs, NEW r \in Runs, Recover(p, r) PROVE Accounted'
  BY <1>19 DEF Recover, Go, Exists, runVars, convVars
<1>20. ASSUME NEW p \in Procs, NEW r \in Runs, StartRun(p, r) PROVE Accounted'
  BY <1>20 DEF StartRun, procVars, passVars
<1>21. ASSUME NEW r \in Runs, Wave(r) PROVE Accounted'
  BY <1>21 DEF Wave, passVars, runVars, convVars
<1>22. ASSUME NEW r \in Runs, EndTurn(r) PROVE Accounted'
  BY <1>22 DEF EndTurn, Commit, procVars, passVars
<1>23. ASSUME NEW r \in Runs, EndUnarchived(r) PROVE Accounted'
  BY <1>23 DEF EndUnarchived, procVars, passVars, convVars
<1>24. ASSUME NEW r \in Runs, Settle(r) PROVE Accounted'
  BY <1>24 DEF Settle, Drop, procVars, passVars, convVars
<1>25. ASSUME UNCHANGED vars PROVE Accounted'
  BY <1>25 DEF vars, procVars, passVars, runVars, convVars
<1>26. ASSUME NEW p \in Procs, ListFails(p) PROVE Accounted'
  BY <1>26 DEF ListFails, Go, passVars, runVars, convVars
<1>27. ASSUME NEW r \in Runs, SeedTitle(r) PROVE Accounted'
  BY <1>27 DEF SeedTitle, procVars, passVars
<1>28. ASSUME NEW r \in Runs, SeedFails(r) PROVE Accounted'
  BY <1>28 DEF SeedFails, procVars, passVars, convVars
<1>29. ASSUME NEW r \in Runs, OpenRollout(r) PROVE Accounted'
  BY <1>29 DEF OpenRollout, procVars, passVars, runVars
<1>. QED BY <1>1, <1>2, <1>3, <1>4, <1>5, <1>6, <1>7, <1>8, <1>9, <1>10, <1>11,
            <1>12, <1>13, <1>14, <1>15, <1>16, <1>17, <1>18, <1>19, <1>20, <1>21,
            <1>22, <1>23, <1>24, <1>25, <1>26, <1>27, <1>28, <1>29 DEF Next

-----------------------------------------------------------------------------
LEMMA InvHolds == Spec => []Inv
<1>1. Init => Inv
  <2>. SUFFICES ASSUME Init PROVE Inv
    OBVIOUS
  <2>. USE RecoveryAssumption DEF Init
  <2>1. TypeOK
    <3>1. 0 \in 0..MaxBoots OBVIOUS
    <3>2. \A p \in Procs : pc[p] = "down" /\ cur[p] = {} OBVIOUS
    <3>3. pc \in [Procs -> {"down", "claim", "list", "pass", "write", "drop", "serving"}]
      OBVIOUS
    <3>4. boots \in [Procs -> 0..MaxBoots] BY <3>1
    <3>5. archive \in [Runs -> {"none", "full", "interrupted"}] /\ point \subseteq Runs
          /\ run \in [Runs -> {"idle", "live", "settle", "done", "dead"}]
      OBVIOUS
    <3>. QED BY <3>2, <3>3, <3>4, <3>5 DEF TypeOK
  <2>2. OwnersServe /\ PassLocked BY DEF OwnersServe, PassLocked, Passing
  <2>3. RetiredFirst /\ WrittenFirst BY DEF RetiredFirst, WrittenFirst
  <2>4. Accounted BY DEF Accounted
  <2>. QED BY <2>1, <2>2, <2>3, <2>4 DEF Inv
<1>2. Inv /\ [Next]_vars => Inv'
  BY TypeStep, OwnersStep, LockStep, RetiredStep, WrittenStep, AccountStep DEF Inv
<1>. QED BY <1>1, <1>2, PTL DEF Spec

\* The fields of a process, its pass and the disk keep their types.
THEOREM RecoveryTyping == Spec => []TypeOK
BY InvHolds, PTL DEF Inv

\* recoverRun and dropRunCheckpoint: once its conversation is on record, no crash
\* between two steps loses a turn that left a checkpoint or was archived.
THEOREM RecoveryLosesNothing == Spec => TraceSurvives
<1>1. Inv /\ [Next]_vars
        => [\A r \in Runs \ Blank :
               /\ r \in point /\ Exists
                     => r \in point' \/ archive'[r] # "none" \/ retired'
               /\ archive[r] # "none" => archive'[r] # "none" \/ retired']_vars
  <2>. SUFFICES ASSUME Inv, [Next]_vars, NEW r \in Runs \ Blank,
                       \/ r \in point /\ Exists /\ r \notin point'
                       \/ archive[r] # "none",
                       archive'[r] = "none"
                PROVE  retired'
    OBVIOUS
  <2>. USE DEF Inv, TypeOK, RetiredFirst, WrittenFirst
  <2>1. ASSUME NEW p \in Procs,
               Boot(p) \/ ClaimLock(p) \/ ClaimHeld(p) \/ ClaimBroken(p) \/ List(p)
               \/ ListFails(p) \/ WriteFails(p) \/ PassEnds(p) \/ Delete(p) \/ RemoveFiles(p)
               \/ DeleteFails(p) \/ Crash(p)
        PROVE  retired'
    BY <2>1
    DEF Boot, ClaimLock, ClaimHeld, ClaimBroken, List, ListFails, WriteFails, PassEnds, Delete,
        RemoveFiles, DeleteFails, Crash, convVars
  <2>2. ASSUME NEW p \in Procs, WriteTurn(p) PROVE retired'
    BY <2>2 DEF WriteTurn, Commit
  <2>3. ASSUME NEW p \in Procs, DropPoint(p) PROVE retired'
    BY <2>3 DEF DropPoint, Go, Drop, convVars
  <2>4. ASSUME NEW p \in Procs, RemoveRows(p) \/ RemovePoints(p) PROVE retired'
    BY <2>4 DEF RemoveRows, RemovePoints, Del, convVars
  <2>5. ASSUME NEW p \in Procs, NEW q \in Runs,
               Skip(p, q) \/ ReadFails(p, q) \/ Recover(p, q) \/ StartRun(p, q)
        PROVE  retired'
    BY <2>5 DEF Skip, ReadFails, Recover, StartRun, convVars
  <2>6. ASSUME NEW p \in Procs, NEW q \in Runs, Discard(p, q) PROVE retired'
    BY <2>6 DEF Discard, Drop, Exists, convVars
  <2>7. ASSUME NEW q \in Runs,
               \/ SeedTitle(q) \/ SeedFails(q) \/ OpenRollout(q) \/ Wave(q)
               \/ EndUnarchived(q)
        PROVE  retired'
    BY <2>7 DEF SeedTitle, SeedFails, OpenRollout, Wave, EndUnarchived, convVars
  <2>8. ASSUME NEW q \in Runs, EndTurn(q) PROVE retired'
    BY <2>8 DEF EndTurn, Commit
  <2>9. ASSUME NEW q \in Runs, Settle(q) PROVE retired'
    BY <2>9 DEF Settle, Drop, convVars
  <2>10. CASE UNCHANGED vars
    BY <2>10 DEF vars, convVars
  <2>. QED BY <2>1, <2>2, <2>3, <2>4, <2>5, <2>6, <2>7, <2>8, <2>9, <2>10 DEF Next
<1>. QED BY InvHolds, <1>1, PTL DEF Spec, TraceSurvives

\* claimWorkspaceLock: the holder's turns are its own.
THEOREM HolderIsLeftAlone == Spec => HolderIsNotRecovered
<1>1. Inv /\ [Next]_vars
        => [\A p \in Procs \ Lockless, r \in Runs :
              (pc[p] = "write" /\ pc'[p] = "drop" /\ r \in cur[p])
                 => ~(run[r] = "live" /\ lock = owner[r])]_vars
  <2>. SUFFICES ASSUME Inv, NEW p \in Procs \ Lockless, NEW r \in Runs,
                       pc[p] = "write", run[r] = "live", lock = owner[r]
                PROVE  FALSE
    OBVIOUS
  <2>1. lock = p BY DEF Inv, PassLocked, Passing
  <2>2. pc[owner[r]] = "serving" BY DEF Inv, OwnersServe
  <2>. QED BY <2>1, <2>2
<1>. QED BY InvHolds, <1>1, PTL DEF Spec, HolderIsNotRecovered

\* RecoveryReport: a pass ends with every turn it found archived or reported.
THEOREM PassAccounts == Spec => PassSettles
<1>1. Inv /\ [Next]_vars
        => [\A p \in Procs :
              (pc[p] = "pass" /\ pc'[p] = "serving" /\ ~retired)
                 => \A r \in point \ Blank :
                       archive[r] # "none" \/ r \in newer[p] \cup kept[p]]_vars
  <2>. SUFFICES ASSUME Inv, [Next]_vars, NEW p \in Procs, pc[p] = "pass",
                       pc'[p] = "serving", ~retired, NEW r \in point \ Blank
                PROVE  archive[r] # "none" \/ r \in newer[p] \cup kept[p]
    OBVIOUS
  <2>. USE DEF Inv, TypeOK
  <2>1. cur[p] = {} OBVIOUS
  <2>2. todo[p] = {}
    <3>1. ASSUME NEW q \in Procs,
                 Boot(q) \/ ClaimLock(q) \/ ClaimHeld(q) \/ ClaimBroken(q)
                 \/ List(q) \/ ListFails(q) \/ WriteTurn(q) \/ WriteFails(q) \/ DropPoint(q)
          PROVE  FALSE
      BY <3>1 DEF Boot, ClaimLock, ClaimHeld, ClaimBroken, List, ListFails, WriteTurn,
                  WriteFails, DropPoint, Go
    <3>2. ASSUME NEW q \in Procs, PassEnds(q) PROVE todo[p] = {}
      BY <3>2 DEF PassEnds, Go
    <3>3. ASSUME NEW q \in Procs,
                 Delete(q) \/ RemoveRows(q) \/ RemoveFiles(q) \/ RemovePoints(q)
                 \/ DeleteFails(q) \/ Crash(q)
          PROVE  FALSE
      BY <3>3 DEF Delete, RemoveRows, RemoveFiles, RemovePoints, DeleteFails, Crash,
                  procVars
    <3>4. ASSUME NEW q \in Procs, NEW t \in Runs,
                 Skip(q, t) \/ ReadFails(q, t) \/ Discard(q, t) \/ Recover(q, t)
                 \/ StartRun(q, t)
          PROVE  FALSE
      BY <3>4 DEF Skip, ReadFails, Discard, Recover, StartRun, Go, procVars
    <3>5. ASSUME NEW t \in Runs,
                 SeedTitle(t) \/ SeedFails(t) \/ OpenRollout(t) \/ Wave(t) \/ EndTurn(t) \/ EndUnarchived(t) \/ Settle(t)
          PROVE  FALSE
      BY <3>5 DEF SeedTitle, SeedFails, OpenRollout, Wave, EndTurn, EndUnarchived, Settle, procVars
    <3>6. CASE UNCHANGED vars BY <3>6 DEF vars, procVars
    <3>. QED BY <3>1, <3>2, <3>3, <3>4, <3>5, <3>6 DEF Next
  <2>. QED BY <2>1, <2>2 DEF Accounted
<1>. QED BY InvHolds, <1>1, PTL DEF Spec, PassSettles
=============================================================================
