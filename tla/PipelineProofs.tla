--------------------------- MODULE PipelineProofs ---------------------------
(***************************************************************************)
(* Theorems about Pipeline, for every number of runs and every content.    *)
(* The inductive invariant follows each part through the run: untouched,   *)
(* saved, replaced, and on the way back removed and restored.              *)
(***************************************************************************)
EXTENDS PipelineRefinement, TLAPS

\* The steps at which the rollback has not come to a part.
Forward == TrySteps \cup {"gate"}
RollingBack == {"undo", "restore"}

\* Parts whose rollback is still to come, if it comes to that.
Left ==
  IF pc \in Forward THEN Parts
  ELSE IF pc \in RollingBack
    THEN CASE part = "mission" -> Parts
           [] part = "site" -> {"site", "index"}
           [] part = "index" -> {"index"}
    ELSE {}

\* A part is taken away only when a copy of it is at a path the catch block
\* knows, or there was nothing to copy.
HasCopy(p) == before[p] = Absent \/ (bak[p] = before[p] /\ p \in bakPath)

\* Where each step finds the locals that say what was moved and published.
Progress ==
  /\ pc \in {"gate", "mkStaging", "mkExecution", "execute", "check"}
       => published = {} /\ bakPath = {}
  /\ pc \in {"mkBackup", "move", "publish"} /\ part = "mission"
       => published = {} /\ bakPath \subseteq (IF pc = "publish" THEN {"mission"} ELSE {})
  /\ pc \in {"mkLedger", "buildLedger", "publishIndexOnly", "mkSiteStaging", "render"}
       => published = {"mission"} /\ bakPath \subseteq {"mission"}
  /\ pc \in {"mkBackup", "move"} /\ part = "index"
       => /\ published = {"mission"}
          /\ bakPath \subseteq (IF pc = "move" THEN {"mission", "index"} ELSE {"mission"})
  /\ pc \in {"mkBackup", "move"} /\ part = "site"
       => published = {"mission"} /\ (pc = "mkBackup" => bakPath \subseteq {"mission", "index"})
  /\ pc = "publish" /\ part = "index" => published = {"mission"}
  /\ pc = "publish" /\ part = "site" => published = {"mission", "index"}
  /\ pc = "rmLedger" => published = IF input.site THEN Parts ELSE {"mission"}
  /\ pc \in {"mkBackup", "move", "publish"} /\ part # "mission" => input.site
  /\ pc \in {"mkSiteStaging", "render"} => input.site
  /\ pc = "publishIndexOnly" => ~input.site

\* The locals and the disk agree about each part.
Copies ==
  /\ \A p \in Parts : bak[p] \in {Absent, before[p]}
  /\ \A p \in Parts : Saved(p) /\ p \notin published \cup bakPath => live[p] = before[p]
  /\ pc = "move" => live[part] = before[part]
  /\ pc = "publish" /\ part = "mission" => HasCopy("mission")
  /\ pc = "publish" /\ part = "index" => HasCopy("index") /\ HasCopy("site")
  /\ pc = "mkBackup" /\ part = "site" => HasCopy("index")
  /\ pc = "move" /\ part = "site" => HasCopy("index")
  /\ pc = "publish" /\ part = "site" => HasCopy("site")
  /\ \A p \in published \cap Left : HasCopy(p)

\* The finally block is entered with the fate of the run decided, which is
\* what makes its report defined.
Decided == pc = "finally" => result # "pending"

\* What the rollback has achieved so far, and what it reports.
Rollback ==
  /\ pc \in Forward => result = "pending" /\ ~rollbackFailed
  /\ pc \in RollingBack => result = "pending"
  /\ pc = "restore" /\ part \in published => live[part] = Absent
  /\ pc \in RollingBack /\ ~rollbackFailed =>
       \A p \in Parts \ Left : Saved(p) => live[p] = before[p]
  /\ result = "restored" => \A p \in Parts : Saved(p) => live[p] = before[p]
  /\ outcome # "none" => pc = "idle"
  /\ Decided
  /\ outcome = "error" => result = "restored"

IInv == Progress /\ Copies /\ Rollback /\ OldCopySurvives

-----------------------------------------------------------------------------
\* Every variable keeps its type, whatever MaxRuns is.
THEOREM TypeCorrect == Spec => []TypeOK
<1> DEFINE TInv == TypeOK /\ Decided
<1>1. Init => TInv
  <2> SUFFICES ASSUME Init PROVE TInv
    OBVIOUS
  <2>1. live \in [Parts -> Content] /\ before = live
    BY DEF Init, Content
  <2>2. bak \in [Parts -> Content]
    BY DEF Init, Content
  <2>3. QED
    BY <2>1, <2>2 DEF Init, TypeOK, Decided, Parts, Steps, Verdicts
<1>2. TInv /\ [Next]_vars => TInv'
  <2> SUFFICES ASSUME TInv, [Next]_vars PROVE TInv'
    OBVIOUS
  <2>a. Absent \in Content /\ Torn \in Content /\ Nat \subseteq Content
    BY DEF Content
  <2>b. {"mission", "index", "site"} \subseteq Parts
    BY DEF Parts
  <2>c. {"staging", "execution", "ledger", "siteStaging"} \cup BakRoots \subseteq TempDirs
    BY DEF TempDirs
  <2> USE <2>a, <2>b, <2>c DEF TypeOK, Decided, Steps, Verdicts
  <2>1. CASE Begin
    <3>1. kept' \subseteq KeptCopy
      <4>1. \A p \in Parts : <<p, bak[p]>> \in KeptCopy
        BY DEF KeptCopy
      <4>2. QED
        BY <2>1, <4>1 DEF Begin
    <3>2. bak' \in [Parts -> Content] /\ before' \in [Parts -> Content]
      BY <2>1 DEF Begin
    <3>3. UNCHANGED live /\ pc' = "gate" /\ part' = "mission" /\ input' \in Inputs
          /\ run' = run + 1 /\ dirs' = {} /\ verdict' = "none" /\ published' = {}
          /\ bakPath' = {} /\ held' = {} /\ rollbackFailed' = FALSE
          /\ result' = "pending" /\ outcome' = "none"
      BY <2>1 DEF Begin, Goto
    <3>4. dirs' \subseteq TempDirs /\ held' \subseteq TempDirs
          /\ published' \subseteq Parts /\ bakPath' \subseteq Parts
      BY <3>3
    <3>5. run' \in Nat /\ live' \in [Parts -> Content] /\ part' \in Parts
      BY <3>3
    <3>6. Decided' /\ pc' \in Steps /\ verdict' \in Verdicts /\ rollbackFailed' \in BOOLEAN
      BY <3>3
    <3>7. QED
      BY <3>1, <3>2, <3>3, <3>4, <3>5, <3>6
  <2>2. CASE PassGate
    BY <2>2 DEF PassGate, Goto, diskVars, localVars, inputVars
  <2>3. CASE Refuse
    BY <2>3 DEF Refuse, Goto, diskVars, localVars, inputVars
  <2>4. CASE MkStaging
    BY <2>4 DEF MkStaging, Mkdtemp, Goto, diskVars, localVars, inputVars
  <2>5. CASE MkExecution
    BY <2>5 DEF MkExecution, Mkdtemp, Goto, diskVars, localVars, inputVars
  <2>6. CASE Execute
    BY <2>6 DEF Execute, Goto, diskVars, localVars, inputVars
  <2>7. CASE Check
    BY <2>7 DEF Check, Goto, diskVars, localVars, inputVars
  <2>8. CASE MkBackup
    <3>1. BakRoot[part] \in BakRoots
      BY DEF BakRoot, BakRoots, Parts
    <3>2. QED
      BY <2>8, <3>1 DEF MkBackup, Goto, inputVars
  <2>9. CASE Move
    <3>1. pc' \in {"publish", "mkBackup"} /\ part' \in Parts
      BY <2>9 DEF Move, AfterBackup, AfterIndexBackup, Goto, Parts
    <3>2. QED
      BY <2>9, <3>1 DEF Move, inputVars
  <2>10. CASE Publish
    <3>1. pc' \in {"mkLedger", "publish", "rmLedger"} /\ part' \in Parts
      BY <2>10 DEF Publish, AfterPublish, Goto, Parts
    <3>2. QED
      BY <2>10, <3>1 DEF Publish, inputVars
  <2>11. CASE MkLedger
    BY <2>11 DEF MkLedger, Mkdtemp, Goto, diskVars, localVars, inputVars
  <2>12. CASE BuildLedger
    BY <2>12 DEF BuildLedger, Goto, diskVars, localVars, inputVars
  <2>13. CASE PublishIndexOnly
    BY <2>13 DEF PublishIndexOnly, Goto, diskVars, localVars, inputVars
  <2>14. CASE MkSiteStaging
    BY <2>14 DEF MkSiteStaging, Mkdtemp, Goto, diskVars, localVars, inputVars
  <2>15. CASE Render
    BY <2>15 DEF Render, AfterIndexBackup, Goto, diskVars, localVars, inputVars
  <2>16. CASE RmLedger
    BY <2>16 DEF RmLedger, Goto, diskVars, localVars, inputVars
  <2>17. CASE StepThrows
    BY <2>17 DEF StepThrows, Throw, TrySteps, Goto, diskVars, localVars, inputVars
  <2>18. CASE UndoNothing
    BY <2>18 DEF UndoNothing, Goto, diskVars, localVars, inputVars
  <2>19. CASE Undo
    BY <2>19 DEF Undo, Goto, diskVars, localVars, inputVars
  <2>20. CASE UndoFails
    BY <2>20 DEF UndoFails, NextRollback, Goto, diskVars, localVars, inputVars
  <2>21. CASE RestoreNothing
    BY <2>21 DEF RestoreNothing, NextRollback, Goto, diskVars, localVars, inputVars
  <2>22. CASE Restore
    BY <2>22 DEF Restore, NextRollback, Goto, diskVars, localVars, inputVars
  <2>23. CASE RestoreFails
    BY <2>23 DEF RestoreFails, NextRollback, Goto, diskVars, localVars, inputVars
  <2>24. ASSUME NEW d \in TempDirs, Remove(d) PROVE TInv'
    BY <2>24 DEF Remove, BakRoot, inputVars
  <2>25. CASE RemoveFails
    BY <2>25 DEF RemoveFails, Goto, diskVars, localVars, inputVars
  <2>26. CASE Finish
    BY <2>26 DEF Finish, Report, Goto, diskVars, localVars, inputVars
  <2>27. CASE Crash
    BY <2>27 DEF Crash, Goto, diskVars, localVars, inputVars
  <2>28. CASE UNCHANGED vars
    BY <2>28 DEF vars
  <2>29. QED
    BY <2>1, <2>2, <2>3, <2>4, <2>5, <2>6, <2>7, <2>8, <2>9, <2>10, <2>11, <2>12, <2>13, <2>14, <2>15, <2>16, <2>17, <2>18, <2>19, <2>20, <2>21, <2>22, <2>23, <2>24, <2>25, <2>26, <2>27, <2>28 DEF Next, TryNext, CatchNext, FinallyNext
<1>3. QED
  BY <1>1, <1>2, PTL DEF Spec


-----------------------------------------------------------------------------
(* The inductive invariant, one lemma for each of its parts.               *)

\* The try block is a straight line: each step knows which moves and
\* publications precede it.
LEMMA ProgressStep ==
  TypeOK /\ Progress /\ [Next]_vars => Progress'
<1> SUFFICES ASSUME TypeOK, Progress, [Next]_vars PROVE Progress'
  OBVIOUS
<1> USE DEF TypeOK, Progress, Parts, TrySteps
<1>1. CASE Begin
  BY <1>1 DEF Begin, Goto, diskVars, localVars, inputVars
<1>2. CASE PassGate
  BY <1>2 DEF PassGate, Goto, diskVars, localVars, inputVars
<1>3. CASE Refuse
  BY <1>3 DEF Refuse, Goto, diskVars, localVars, inputVars
<1>4. CASE MkStaging
  BY <1>4 DEF MkStaging, Mkdtemp, Goto, diskVars, localVars, inputVars
<1>5. CASE MkExecution
  BY <1>5 DEF MkExecution, Mkdtemp, Goto, diskVars, localVars, inputVars
<1>6. CASE Execute
  BY <1>6 DEF Execute, Goto, diskVars, localVars, inputVars
<1>7. CASE Check
  BY <1>7 DEF Check, MissionExisted, Goto, diskVars, localVars, inputVars
<1>8. CASE MkBackup
  BY <1>8 DEF MkBackup, Goto, diskVars, localVars, inputVars
<1>9. CASE Move
  <2>1. CASE part = "mission"
    BY <1>9, <2>1 DEF Move, AfterBackup, AfterIndexBackup, Goto, diskVars, localVars, inputVars
  <2>2. CASE part = "index"
    <3>1. \/ pc' = "mkBackup" /\ part' = "site"
          \/ pc' = "publish" /\ part' = "index"
      BY <1>9, <2>2 DEF Move, AfterBackup, AfterIndexBackup, Goto
    <3>2. published' = {"mission"} /\ bakPath' \subseteq Parts /\ input' = input
      BY <1>9, <2>2 DEF Move, inputVars
    <3>3. pc' = "mkBackup" => bakPath' \subseteq {"mission", "index"}
      BY <1>9, <2>2 DEF Move, AfterBackup, AfterIndexBackup, Goto
    <3>4. input.site
      BY <1>9, <2>2 DEF Move
    <3>5. QED
      BY <3>1, <3>2, <3>3, <3>4
  <2>3. CASE part = "site"
    BY <1>9, <2>3 DEF Move, AfterBackup, AfterIndexBackup, Goto, diskVars, localVars, inputVars
  <2>4. QED
    BY <2>1, <2>2, <2>3
<1>10. CASE Publish
  <2>1. CASE part = "mission"
    <3>1. pc' = "mkLedger" /\ part' = "mission"
      BY <1>10, <2>1 DEF Publish, AfterPublish, Goto
    <3>2. published' = {"mission"} /\ bakPath' = bakPath
      BY <1>10, <2>1 DEF Publish
    <3>3. bakPath \subseteq {"mission"}
      BY <1>10, <2>1 DEF Publish
    <3>4. QED
      BY <3>1, <3>2, <3>3
  <2>2. CASE part = "index"
    BY <1>10, <2>2 DEF Publish, AfterPublish, Goto, diskVars, localVars, inputVars
  <2>3. CASE part = "site"
    BY <1>10, <2>3 DEF Publish, AfterPublish, Goto, diskVars, localVars, inputVars
  <2>4. QED
    BY <2>1, <2>2, <2>3
<1>11. CASE MkLedger
  BY <1>11 DEF MkLedger, Mkdtemp, Goto, diskVars, localVars, inputVars
<1>12. CASE BuildLedger
  BY <1>12 DEF BuildLedger, Goto, diskVars, localVars, inputVars
<1>13. CASE PublishIndexOnly
  BY <1>13 DEF PublishIndexOnly, Goto, diskVars, localVars, inputVars
<1>14. CASE MkSiteStaging
  BY <1>14 DEF MkSiteStaging, Mkdtemp, Goto, diskVars, localVars, inputVars
<1>15. CASE Render
  BY <1>15 DEF Render, AfterIndexBackup, Goto, diskVars, localVars, inputVars
<1>16. CASE RmLedger
  BY <1>16 DEF RmLedger, Goto, diskVars, localVars, inputVars
<1>17. CASE StepThrows
  BY <1>17 DEF StepThrows, Throw, Goto, diskVars, localVars, inputVars
<1>18. CASE UndoNothing
  BY <1>18 DEF UndoNothing, Goto, diskVars, localVars, inputVars
<1>19. CASE Undo
  BY <1>19 DEF Undo, Goto, diskVars, localVars, inputVars
<1>20. CASE UndoFails
  BY <1>20 DEF UndoFails, NextRollback, Goto, diskVars, localVars, inputVars
<1>21. CASE RestoreNothing
  BY <1>21 DEF RestoreNothing, NextRollback, Goto, diskVars, localVars, inputVars
<1>22. CASE Restore
  BY <1>22 DEF Restore, NextRollback, Goto, diskVars, localVars, inputVars
<1>23. CASE RestoreFails
  BY <1>23 DEF RestoreFails, NextRollback, Goto, diskVars, localVars, inputVars
<1>24. ASSUME NEW d \in TempDirs, Remove(d) PROVE Progress'
  BY <1>24 DEF Remove, inputVars
<1>25. CASE RemoveFails
  BY <1>25 DEF RemoveFails, Goto, diskVars, localVars, inputVars
<1>26. CASE Finish
  BY <1>26 DEF Finish, Goto, diskVars, localVars, inputVars
<1>27. CASE Crash
  BY <1>27 DEF Crash, Goto, diskVars, localVars, inputVars
<1>28. CASE UNCHANGED vars
  BY <1>28 DEF vars
<1>29. QED
  BY <1>1, <1>2, <1>3, <1>4, <1>5, <1>6, <1>7, <1>8, <1>9, <1>10, <1>11, <1>12, <1>13, <1>14, <1>15, <1>16, <1>17, <1>18, <1>19, <1>20, <1>21, <1>22, <1>23, <1>24, <1>25, <1>26, <1>27, <1>28 DEF Next, TryNext, CatchNext, FinallyNext

\* No step takes a part away before its copy is where the catch block looks.
LEMMA CopiesStep ==
  TypeOK /\ Progress /\ Copies /\ Rollback /\ [Next]_vars => Copies'
<1> SUFFICES ASSUME TypeOK, Progress, Copies, Rollback, [Next]_vars PROVE Copies'
  OBVIOUS
<1> USE DEF TypeOK, Progress, Copies, Rollback, Parts, TrySteps, Left, HasCopy, Forward, RollingBack, Saved, BakRoot, Content, BakRoots
<1>1. CASE Begin
  BY <1>1 DEF Begin, Goto, diskVars, localVars, inputVars
<1>2. CASE PassGate
  BY <1>2 DEF PassGate, Goto, diskVars, localVars, inputVars
<1>3. CASE Refuse
  BY <1>3 DEF Refuse, Goto, diskVars, localVars, inputVars
<1>4. CASE MkStaging
  BY <1>4 DEF MkStaging, Mkdtemp, Goto, diskVars, localVars, inputVars
<1>5. CASE MkExecution
  BY <1>5 DEF MkExecution, Mkdtemp, Goto, diskVars, localVars, inputVars
<1>6. CASE Execute
  BY <1>6 DEF Execute, Goto, diskVars, localVars, inputVars
<1>7. CASE Check
  BY <1>7 DEF Check, MissionExisted, Goto, diskVars, localVars, inputVars
<1>8. CASE MkBackup
  BY <1>8 DEF MkBackup, Goto, diskVars, localVars, inputVars
<1>9. CASE Move
  <2>1. CASE part = "mission"
    BY <1>9, <2>1 DEF Move, AfterBackup, AfterIndexBackup, Goto, diskVars, localVars, inputVars
  <2>2. CASE part = "index"
    <3>1. \/ pc' = "mkBackup" /\ part' = "site"
          \/ pc' = "publish" /\ part' = "index"
      BY <1>9, <2>2 DEF Move, AfterBackup, AfterIndexBackup, Goto
    <3>2. /\ bak' = [bak EXCEPT !["index"] = before["index"]]
          /\ live' = [live EXCEPT !["index"] = Absent]
          /\ bakPath' = bakPath \cup {"index"}
          /\ UNCHANGED <<published, before, input>>
          /\ published = {"mission"} /\ input.site
      BY <1>9, <2>2 DEF Move, inputVars
    <3>3. HasCopy("mission")
      BY <1>9, <2>2 DEF Move
    <3>4. pc' = "publish" => live["site"] = Absent /\ "site" \notin published
      BY <1>9, <2>2 DEF Move, AfterBackup, AfterIndexBackup, Goto
    <3>5. pc' = "publish" => HasCopy("site")'
      BY <3>2, <3>4, <1>9, <2>2 DEF Move
    <3>6. QED
      BY <3>1, <3>2, <3>3, <3>5
  <2>3. CASE part = "site"
    BY <1>9, <2>3 DEF Move, AfterBackup, AfterIndexBackup, Goto, diskVars, localVars, inputVars
  <2>4. QED
    BY <2>1, <2>2, <2>3
<1>10. CASE Publish
  <2>1. CASE part = "mission"
    BY <1>10, <2>1 DEF Publish, AfterPublish, Goto, diskVars, localVars, inputVars
  <2>2. CASE part = "index"
    BY <1>10, <2>2 DEF Publish, AfterPublish, Goto, diskVars, localVars, inputVars
  <2>3. CASE part = "site"
    BY <1>10, <2>3 DEF Publish, AfterPublish, Goto, diskVars, localVars, inputVars
  <2>4. QED
    BY <2>1, <2>2, <2>3
<1>11. CASE MkLedger
  BY <1>11 DEF MkLedger, Mkdtemp, Goto, diskVars, localVars, inputVars
<1>12. CASE BuildLedger
  BY <1>12 DEF BuildLedger, Goto, diskVars, localVars, inputVars
<1>13. CASE PublishIndexOnly
  BY <1>13 DEF PublishIndexOnly, Goto, diskVars, localVars, inputVars
<1>14. CASE MkSiteStaging
  BY <1>14 DEF MkSiteStaging, Mkdtemp, Goto, diskVars, localVars, inputVars
<1>15. CASE Render
  BY <1>15 DEF Render, AfterIndexBackup, Goto, diskVars, localVars, inputVars
<1>16. CASE RmLedger
  BY <1>16 DEF RmLedger, Goto, diskVars, localVars, inputVars
<1>17. CASE StepThrows
  BY <1>17 DEF StepThrows, Throw, Goto, diskVars, localVars, inputVars
<1>18. CASE UndoNothing
  BY <1>18 DEF UndoNothing, Goto, diskVars, localVars, inputVars
<1>19. CASE Undo
  BY <1>19 DEF Undo, Goto, diskVars, localVars, inputVars
<1>20. CASE UndoFails
  BY <1>20 DEF UndoFails, NextRollback, Goto, diskVars, localVars, inputVars
<1>21. CASE RestoreNothing
  BY <1>21 DEF RestoreNothing, NextRollback, Goto, diskVars, localVars, inputVars
<1>22. CASE Restore
  BY <1>22 DEF Restore, NextRollback, Goto, diskVars, localVars, inputVars
<1>23. CASE RestoreFails
  BY <1>23 DEF RestoreFails, NextRollback, Goto, diskVars, localVars, inputVars
<1>24. ASSUME NEW d \in TempDirs, Remove(d) PROVE Copies'
  BY <1>24 DEF Remove, inputVars
<1>25. CASE RemoveFails
  BY <1>25 DEF RemoveFails, Goto, diskVars, localVars, inputVars
<1>26. CASE Finish
  BY <1>26 DEF Finish, Goto, diskVars, localVars, inputVars
<1>27. CASE Crash
  BY <1>27 DEF Crash, Goto, diskVars, localVars, inputVars
<1>28. CASE UNCHANGED vars
  BY <1>28 DEF vars
<1>29. QED
  BY <1>1, <1>2, <1>3, <1>4, <1>5, <1>6, <1>7, <1>8, <1>9, <1>10, <1>11, <1>12, <1>13, <1>14, <1>15, <1>16, <1>17, <1>18, <1>19, <1>20, <1>21, <1>22, <1>23, <1>24, <1>25, <1>26, <1>27, <1>28 DEF Next, TryNext, CatchNext, FinallyNext

\* The rollback puts back the parts it has passed, unless it says it failed.
LEMMA RollbackStep ==
  TypeOK /\ Progress /\ Copies /\ Rollback /\ [Next]_vars => Rollback'
<1> SUFFICES ASSUME TypeOK, Progress, Copies, Rollback, [Next]_vars PROVE Rollback'
  OBVIOUS
<1> USE DEF TypeOK, Progress, Copies, Rollback, Decided, Parts, TrySteps, Left, HasCopy, Forward, RollingBack, Saved, Report, Content
<1>1. CASE Begin
  BY <1>1 DEF Begin, Goto, diskVars, localVars, inputVars
<1>2. CASE PassGate
  BY <1>2 DEF PassGate, Goto, diskVars, localVars, inputVars
<1>3. CASE Refuse
  BY <1>3 DEF Refuse, Goto, diskVars, localVars, inputVars
<1>4. CASE MkStaging
  BY <1>4 DEF MkStaging, Mkdtemp, Goto, diskVars, localVars, inputVars
<1>5. CASE MkExecution
  BY <1>5 DEF MkExecution, Mkdtemp, Goto, diskVars, localVars, inputVars
<1>6. CASE Execute
  BY <1>6 DEF Execute, Goto, diskVars, localVars, inputVars
<1>7. CASE Check
  BY <1>7 DEF Check, MissionExisted, Goto, diskVars, localVars, inputVars
<1>8. CASE MkBackup
  BY <1>8 DEF MkBackup, Goto, diskVars, localVars, inputVars
<1>9. CASE Move
  BY <1>9 DEF Move, AfterBackup, AfterIndexBackup, Goto, diskVars, localVars, inputVars
<1>10. CASE Publish
  BY <1>10 DEF Publish, AfterPublish, Goto, diskVars, localVars, inputVars
<1>11. CASE MkLedger
  BY <1>11 DEF MkLedger, Mkdtemp, Goto, diskVars, localVars, inputVars
<1>12. CASE BuildLedger
  BY <1>12 DEF BuildLedger, Goto, diskVars, localVars, inputVars
<1>13. CASE PublishIndexOnly
  BY <1>13 DEF PublishIndexOnly, Goto, diskVars, localVars, inputVars
<1>14. CASE MkSiteStaging
  BY <1>14 DEF MkSiteStaging, Mkdtemp, Goto, diskVars, localVars, inputVars
<1>15. CASE Render
  BY <1>15 DEF Render, AfterIndexBackup, Goto, diskVars, localVars, inputVars
<1>16. CASE RmLedger
  BY <1>16 DEF RmLedger, Goto, diskVars, localVars, inputVars
<1>17. CASE StepThrows
  BY <1>17 DEF StepThrows, Throw, Goto, diskVars, localVars, inputVars
<1>18. CASE UndoNothing
  BY <1>18 DEF UndoNothing, Goto, diskVars, localVars, inputVars
<1>19. CASE Undo
  BY <1>19 DEF Undo, Goto, diskVars, localVars, inputVars
<1>20. CASE UndoFails
  BY <1>20 DEF UndoFails, NextRollback, Goto, diskVars, localVars, inputVars
<1>21. CASE RestoreNothing
  BY <1>21 DEF RestoreNothing, NextRollback, Goto, diskVars, localVars, inputVars
<1>22. CASE Restore
  BY <1>22 DEF Restore, NextRollback, Goto, diskVars, localVars, inputVars
<1>23. CASE RestoreFails
  BY <1>23 DEF RestoreFails, NextRollback, Goto, diskVars, localVars, inputVars
<1>24. ASSUME NEW d \in TempDirs, Remove(d) PROVE Rollback'
  BY <1>24 DEF Remove, inputVars
<1>25. CASE RemoveFails
  BY <1>25 DEF RemoveFails, Goto, diskVars, localVars, inputVars
<1>26. CASE Finish
  BY <1>26 DEF Finish, Goto, diskVars, localVars, inputVars
<1>27. CASE Crash
  BY <1>27 DEF Crash, Goto, diskVars, localVars, inputVars
<1>28. CASE UNCHANGED vars
  BY <1>28 DEF vars
<1>29. QED
  BY <1>1, <1>2, <1>3, <1>4, <1>5, <1>6, <1>7, <1>8, <1>9, <1>10, <1>11, <1>12, <1>13, <1>14, <1>15, <1>16, <1>17, <1>18, <1>19, <1>20, <1>21, <1>22, <1>23, <1>24, <1>25, <1>26, <1>27, <1>28 DEF Next, TryNext, CatchNext, FinallyNext

\* A removal of published content finds the old copy in the backup, and a
\* removal of the backup finds the old or the complete new content in place.
LEMMA SurviveStep ==
  TypeOK /\ Progress /\ Copies /\ Rollback /\ OldCopySurvives /\ [Next]_vars => OldCopySurvives'
<1> SUFFICES ASSUME TypeOK, Progress, Copies, Rollback, OldCopySurvives, [Next]_vars PROVE OldCopySurvives'
  OBVIOUS
<1> USE DEF TypeOK, Progress, Copies, Rollback, Parts, TrySteps, Left, HasCopy, Forward, RollingBack, Saved, OldCopySurvives, BakRoot, Removable, BakRoots, Content
<1>1. CASE Begin
  BY <1>1 DEF Begin, Goto, diskVars, localVars, inputVars
<1>2. CASE PassGate
  BY <1>2 DEF PassGate, Goto, diskVars, localVars, inputVars
<1>3. CASE Refuse
  BY <1>3 DEF Refuse, Goto, diskVars, localVars, inputVars
<1>4. CASE MkStaging
  BY <1>4 DEF MkStaging, Mkdtemp, Goto, diskVars, localVars, inputVars
<1>5. CASE MkExecution
  BY <1>5 DEF MkExecution, Mkdtemp, Goto, diskVars, localVars, inputVars
<1>6. CASE Execute
  BY <1>6 DEF Execute, Goto, diskVars, localVars, inputVars
<1>7. CASE Check
  BY <1>7 DEF Check, MissionExisted, Goto, diskVars, localVars, inputVars
<1>8. CASE MkBackup
  BY <1>8 DEF MkBackup, Goto, diskVars, localVars, inputVars
<1>9. CASE Move
  BY <1>9 DEF Move, AfterBackup, AfterIndexBackup, Goto, diskVars, localVars, inputVars
<1>10. CASE Publish
  BY <1>10 DEF Publish, AfterPublish, Goto, diskVars, localVars, inputVars
<1>11. CASE MkLedger
  BY <1>11 DEF MkLedger, Mkdtemp, Goto, diskVars, localVars, inputVars
<1>12. CASE BuildLedger
  BY <1>12 DEF BuildLedger, Goto, diskVars, localVars, inputVars
<1>13. CASE PublishIndexOnly
  BY <1>13 DEF PublishIndexOnly, Goto, diskVars, localVars, inputVars
<1>14. CASE MkSiteStaging
  BY <1>14 DEF MkSiteStaging, Mkdtemp, Goto, diskVars, localVars, inputVars
<1>15. CASE Render
  BY <1>15 DEF Render, AfterIndexBackup, Goto, diskVars, localVars, inputVars
<1>16. CASE RmLedger
  BY <1>16 DEF RmLedger, Goto, diskVars, localVars, inputVars
<1>17. CASE StepThrows
  BY <1>17 DEF StepThrows, Throw, Goto, diskVars, localVars, inputVars
<1>18. CASE UndoNothing
  BY <1>18 DEF UndoNothing, Goto, diskVars, localVars, inputVars
<1>19. CASE Undo
  BY <1>19 DEF Undo, Goto, diskVars, localVars, inputVars
<1>20. CASE UndoFails
  BY <1>20 DEF UndoFails, NextRollback, Goto, diskVars, localVars, inputVars
<1>21. CASE RestoreNothing
  BY <1>21 DEF RestoreNothing, NextRollback, Goto, diskVars, localVars, inputVars
<1>22. CASE Restore
  BY <1>22 DEF Restore, NextRollback, Goto, diskVars, localVars, inputVars
<1>23. CASE RestoreFails
  BY <1>23 DEF RestoreFails, NextRollback, Goto, diskVars, localVars, inputVars
<1>24. ASSUME NEW d \in TempDirs, Remove(d) PROVE OldCopySurvives'
  BY <1>24 DEF Remove, inputVars
<1>25. CASE RemoveFails
  BY <1>25 DEF RemoveFails, Goto, diskVars, localVars, inputVars
<1>26. CASE Finish
  BY <1>26 DEF Finish, Goto, diskVars, localVars, inputVars
<1>27. CASE Crash
  BY <1>27 DEF Crash, Goto, diskVars, localVars, inputVars
<1>28. CASE UNCHANGED vars
  BY <1>28 DEF vars
<1>29. QED
  BY <1>1, <1>2, <1>3, <1>4, <1>5, <1>6, <1>7, <1>8, <1>9, <1>10, <1>11, <1>12, <1>13, <1>14, <1>15, <1>16, <1>17, <1>18, <1>19, <1>20, <1>21, <1>22, <1>23, <1>24, <1>25, <1>26, <1>27, <1>28 DEF Next, TryNext, CatchNext, FinallyNext

\* IInv always holds.
LEMMA Invariance == Spec => []IInv
<1>1. Init => IInv
  BY DEF Init, IInv, Progress, Copies, Rollback, Decided, OldCopySurvives, Parts, Left,
         Forward, RollingBack, TrySteps, HasCopy, Saved
<1>2. TypeOK /\ IInv /\ [Next]_vars => IInv'
  BY ProgressStep, CopiesStep, RollbackStep, SurviveStep DEF IInv
<1>3. QED
  BY TypeCorrect, <1>1, <1>2, PTL DEF Spec

-----------------------------------------------------------------------------
\* runPipeline never loses what it replaces: for any number of runs, with
\* failing awaits, failing rollbacks and crashes at every step, the content
\* a run found is live or in its backup directory until the run succeeded.
THEOREM OldCopyNeverLost == Spec => []OldCopySurvives
<1>1. IInv => OldCopySurvives
  BY DEF IInv
<1>2. QED
  BY Invariance, <1>1, PTL

\* A run that reports an ordinary error restored the mission, and with
\* --site the index and the site tree as well.
THEOREM ErrorMeansRestored == Spec => []CleanErrorRestores
<1>1. IInv => CleanErrorRestores
  BY DEF IInv, Rollback, CleanErrorRestores
<1>2. QED
  BY Invariance, <1>1, PTL

-----------------------------------------------------------------------------
(* Where the content at each path comes from.                               *)

\* Runs are told apart by their numbers, and none but this one uses its own.
Numbered ==
  /\ run <= MaxRuns
  /\ pc # "idle" => run > 0
  /\ \A p \in Parts : live[p] \in Nat => live[p] <= run
  /\ \A p \in Parts : before[p] \in Nat => before[p] <= run /\ (run > 0 => before[p] < run)

\* What the gate and the check on the execution let through stays so.
Checking  == {"mkStaging", "mkExecution", "execute", "check"}
Replacing == TrySteps \ Checking

Verified ==
  /\ pc \in Checking => GateAccepts
  /\ pc \in Checking \cup {"gate"} => \A p \in Parts : live[p] # run
  /\ pc \in Replacing => verdict = "pass" /\ GateAccepts
  /\ OnlyVerifiedIsLive

Provenance == Numbered /\ Verified

\* What is on the disk at the start is of no run.
LEMMA ProvenanceInit == Init => Provenance
<1> SUFFICES ASSUME Init PROVE Provenance
  OBVIOUS
<1>1. run = 0 /\ pc = "idle" /\ before = live /\ \A p \in Parts : live[p] \in {0, Absent}
  BY DEF Init
<1>2. Numbered
  BY <1>1, ContentAssumption DEF Numbered
<1> QED
  BY <1>1, <1>2 DEF Provenance, Verified, Checking, Replacing, TrySteps, OnlyVerifiedIsLive

\* Every step keeps what is known of where the contents come from.
LEMMA ProvenanceStep ==
  ASSUME TypeOK, IInv, Provenance, [Next]_vars
  PROVE  Provenance'
<1> USE ContentAssumption DEF TypeOK, Provenance, Numbered, Verified, Checking, Replacing, TrySteps,
        OnlyVerifiedIsLive, GateAccepts, MissionExisted
<1>1. CASE Begin
  <2>1. run' = run + 1 /\ run' \in Nat /\ run' <= MaxRuns /\ before' = live /\ live' = live
        /\ pc' = "gate"
    BY <1>1 DEF Begin, Goto
  <2>2. \A p \in Parts : live[p] \in Nat => live[p] < run'
    BY <2>1
  <2>3. \A p \in Parts : live'[p] # run'
    BY <2>1, <2>2
  <2>4. Numbered'
    BY <2>1, <2>2
  <2>5. Verified'
    BY <2>1, <2>3
  <2> QED
    BY <2>4, <2>5
<1>2. CASE PassGate \/ Refuse \/ RemoveFails \/ Finish \/ Crash
  BY <1>2 DEF PassGate, Refuse, RemoveFails, Finish, Crash, Goto, diskVars, localVars, inputVars
<1>3. CASE MkStaging \/ MkExecution \/ MkLedger \/ MkSiteStaging
  BY <1>3 DEF MkStaging, MkExecution, MkLedger, MkSiteStaging, Mkdtemp, Goto, inputVars
<1>4. CASE Execute \/ Check
  BY <1>4 DEF Execute, Check, Goto, diskVars, localVars, inputVars
<1>5. CASE MkBackup \/ BuildLedger \/ Render \/ RmLedger
  BY <1>5 DEF MkBackup, BuildLedger, Render, AfterIndexBackup, RmLedger, Goto, diskVars, localVars,
     inputVars
<1>6. CASE Move
  <2>1. pc' \in Replacing /\ UNCHANGED <<run, before, input, verdict>> /\ pc \in Replacing
    BY <1>6 DEF Move, AfterBackup, AfterIndexBackup, Goto, Parts, inputVars
  <2>2. \A p \in Parts : live'[p] \in {live[p], Absent}
    BY <1>6 DEF Move
  <2> QED
    BY <2>1, <2>2
<1>7. CASE Publish
  <2>1. pc' \in Replacing /\ UNCHANGED <<run, before, input, verdict>> /\ pc \in Replacing
    BY <1>7 DEF Publish, AfterPublish, Goto, Parts, inputVars
  <2>2. \A p \in Parts : live'[p] \in {live[p], run}
    BY <1>7 DEF Publish
  <2> QED
    BY <2>1, <2>2
<1>8. CASE PublishIndexOnly
  <2>1. \A p \in Parts : live'[p] \in {live[p], run}
    BY <1>8 DEF PublishIndexOnly
  <2> QED
    BY <1>8, <2>1 DEF PublishIndexOnly, Goto, inputVars
<1>9. CASE StepThrows \/ UndoNothing \/ RestoreNothing \/ RestoreFails
  BY <1>9 DEF StepThrows, Throw, UndoNothing, RestoreNothing, RestoreFails, NextRollback, Goto,
     diskVars, localVars, inputVars
<1>10. CASE Undo \/ UndoFails
  <2>1. \A p \in Parts : live'[p] \in {live[p], Absent, Torn}
    BY <1>10 DEF Undo, UndoFails
  <2> QED
    BY <1>10, <2>1 DEF Undo, UndoFails, NextRollback, Goto, localVars, inputVars
<1>11. CASE Restore
  <2>1. \A p \in Parts : live'[p] \in {live[p], before[p]}
    BY <1>11 DEF Restore, IInv, Copies
  <2> QED
    BY <1>11, <2>1 DEF Restore, NextRollback, Goto, inputVars
<1>12. ASSUME NEW d \in TempDirs, Remove(d) PROVE Provenance'
  BY <1>12 DEF Remove, inputVars
<1>13. CASE UNCHANGED vars
  BY <1>13 DEF vars
<1> QED
  BY <1>1, <1>2, <1>3, <1>4, <1>5, <1>6, <1>7, <1>8, <1>9, <1>10, <1>11, <1>12, <1>13
     DEF Next, TryNext, CatchNext, FinallyNext

\* For any number of runs on the same disk: nothing a run has produced is ever
\* live unless its execution passed and the policy guard accepted its input.
THEOREM VerifiedBeforeLive == Spec => []OnlyVerifiedIsLive
<1>1. Provenance => OnlyVerifiedIsLive
  BY DEF Provenance, Verified
<1> QED
  BY TypeCorrect, Invariance, ProvenanceInit, ProvenanceStep, <1>1, PTL DEF Spec

-----------------------------------------------------------------------------
(* The refinement: what is kept aside, and what a success has replaced.     *)

\* The parts a run with these options replaces all come from it.
AllReplaced ==
  \A p \in Parts : live[p] = IF input.site \/ p # "site" THEN run ELSE before[p]

\* A backup is in a directory that the finally block will find, and what was
\* published stays until the catch block undoes it.
Accounted ==
  /\ pc = "gate" => \A p \in Parts : bak[p] = Absent
  /\ pc # "idle" => \A p \in Parts : bak[p] # Absent => BakRoot[p] \in held
  /\ pc = "move" => BakRoot[part] \in held
  /\ pc \in Forward => \A p \in published : live[p] = run
  /\ pc = "rmLedger" => live["index"] = run
  /\ ~input.site => published \cup bakPath \subseteq {"mission"}
  /\ result = "succeeded" => pc \in {"finally", "idle"} /\ AllReplaced

\* At the start there is nothing to account for.
LEMMA AccountedInit == Init => Accounted
  BY DEF Init, Accounted, Forward, TrySteps

\* Each backup and each published part stays accounted for until the finally block.
LEMMA AccountedStep ==
  ASSUME TypeOK, IInv, Accounted, [Next]_vars
  PROVE  Accounted'
<1> USE DEF TypeOK, IInv, Accounted, AllReplaced, Forward, TrySteps, Parts, BakRoot, Content
<1>1. CASE Begin
  BY <1>1 DEF Begin, Goto
<1>2. CASE PassGate \/ Refuse \/ RemoveFails \/ Finish \/ Crash
  BY <1>2 DEF PassGate, Refuse, RemoveFails, Finish, Crash, Goto, diskVars, localVars, inputVars
<1>3. CASE MkStaging \/ MkExecution \/ MkLedger \/ MkSiteStaging
  BY <1>3 DEF MkStaging, MkExecution, MkLedger, MkSiteStaging, Mkdtemp, Goto, inputVars
<1>4. CASE Execute \/ Check \/ BuildLedger \/ Render
  BY <1>4 DEF Execute, Check, BuildLedger, Render, AfterIndexBackup, Goto, diskVars, localVars,
     inputVars, Rollback
<1>5. CASE MkBackup
  BY <1>5 DEF MkBackup, Goto, inputVars, Progress, Rollback
<1>6. CASE Move
  BY <1>6 DEF Move, AfterBackup, AfterIndexBackup, Goto, inputVars, Progress, Rollback
<1>7. CASE Publish
  <2>1. \A p \in Parts : BakRoot[p] \in held => BakRoot[p] \in held'
    BY <1>7 DEF Publish, Staged
  <2>2. /\ pc' \in {"mkLedger", "publish", "rmLedger"}
        /\ pc' = "rmLedger" => part = "site" /\ published = {"mission", "index"}
        /\ part # "mission" => input.site
        /\ result = "pending"
    BY <1>7 DEF Publish, AfterPublish, Goto, Progress, Rollback
  <2>3. /\ live' = [live EXCEPT ![part] = run]
        /\ published' = published \cup {part}
        /\ UNCHANGED <<bak, bakPath, result, run, before, input>>
        /\ pc = "publish"
    BY <1>7 DEF Publish, inputVars
  <2> QED
    BY <2>1, <2>2, <2>3
<1>8. CASE PublishIndexOnly
  BY <1>8 DEF PublishIndexOnly, Goto, inputVars, Progress, Rollback
<1>9. CASE RmLedger
  BY <1>9 DEF RmLedger, Goto, inputVars, Progress, Copies, Saved
<1>10. CASE StepThrows \/ UndoNothing \/ RestoreNothing \/ RestoreFails
  BY <1>10 DEF StepThrows, Throw, UndoNothing, RestoreNothing, RestoreFails, NextRollback, Goto,
     diskVars, localVars, inputVars, Rollback, RollingBack
<1>11. CASE Undo \/ UndoFails \/ Restore
  BY <1>11 DEF Undo, UndoFails, Restore, NextRollback, Goto, localVars, inputVars, Rollback,
     RollingBack
<1>12. ASSUME NEW d \in TempDirs, Remove(d) PROVE Accounted'
  BY <1>12 DEF Remove, inputVars
<1>13. CASE UNCHANGED vars
  BY <1>13 DEF vars
<1> QED
  BY <1>1, <1>2, <1>3, <1>4, <1>5, <1>6, <1>7, <1>8, <1>9, <1>10, <1>11, <1>12, <1>13
     DEF Next, TryNext, CatchNext, FinallyNext

-----------------------------------------------------------------------------
(* Each step is one of the abstract store, or none.                         *)

RInv == TypeOK /\ IInv /\ Numbered /\ Accounted

\* What is live when a run ends is a store the abstract one can have.
LEMMA LiveIsAStore ==
  ASSUME TypeOK, Numbered
  PROVE  live \in [Parts -> Contents] /\ (pc # "idle" => run \in Contents)
<1> QED
  BY ContentAssumption DEF TypeOK, Numbered, Content, Contents

\* The initial states are those of the abstract store.
LEMMA RefinementInit == Init => Abstract!Init
<1> SUFFICES ASSUME Init PROVE Abstract!Init
  OBVIOUS
<1>1. storeBar \in [Parts -> Contents]
  BY ContentAssumption DEF Init, storeBar, Contents
<1>2. savedBar = {}
  BY DEF Init, savedBar, SavedNow
<1>3. scopeBar \in Abstract!Scopes
  BY DEF scopeBar, Abstract!Scopes
<1>4. reportBar = "none"
  BY DEF Init, reportBar
<1> QED
  BY <1>1, <1>2, <1>3, <1>4 DEF Abstract!Init

\* A run that begins finds the store as the last one left it.
LEMMA BeginStarts ==
  ASSUME RInv, Begin
  PROVE  Abstract!Start
<1>1. storeBar' = storeBar /\ savedBar' = savedBar
  BY DEF Begin, Goto, storeBar, savedBar, SavedNow
<1>2. reportBar # "running" /\ reportBar' = "running"
  BY DEF Begin, Goto, reportBar, RInv, TypeOK
<1>3. scopeBar' \in Abstract!Scopes
  BY DEF scopeBar, Abstract!Scopes
<1> QED
  BY <1>1, <1>2, <1>3 DEF Abstract!Start

\* Between two awaits of a run nobody sees the store.
LEMMA InsideIsHidden ==
  ASSUME pc # "idle", pc' # "idle", UNCHANGED <<before, kept, input>>
  PROVE  UNCHANGED Abstract!storeVars
  BY DEF storeBar, savedBar, scopeBar, reportBar, Abstract!storeVars

\* The end of a run, however it comes.
Ends ==
  /\ pc # "idle" /\ pc' = "idle"
  /\ UNCHANGED <<live, bak, kept, before, input, run, result>>

\* At its end a run shows the store: what it found gives way to what is live now.
LEMMA EndsShows ==
  ASSUME RInv, Ends
  PROVE  /\ storeBar = before /\ storeBar' = live /\ live \in [Parts -> Contents]
         /\ run \in Contents
         /\ savedBar = kept /\ savedBar' = kept \cup SavedNow
         /\ UNCHANGED scopeBar
         /\ reportBar = "running"
         /\ Abstract!Guarded = {p \in Parts : Saved(p)}
<1>1. Abstract!Guarded = {p \in Parts : Saved(p)}
  BY DEF Abstract!Guarded, scopeBar, Saved, Parts
<1> QED
  BY <1>1, LiveIsAStore DEF RInv, Ends, storeBar, savedBar, scopeBar, reportBar, SavedNow

\* A success has replaced every part in scope.
LEMMA SuccessReplaces ==
  ASSUME RInv, Ends, result = "succeeded"
  PROVE  Abstract!Replace(run)
<1>1. \A p \in Parts : live[p] = IF p \in scopeBar THEN run ELSE before[p]
  BY DEF RInv, Accounted, AllReplaced, scopeBar, Parts
<1>2. live = [p \in Parts |-> IF p \in scopeBar THEN run ELSE before[p]]
  BY <1>1 DEF RInv, TypeOK
<1> QED
  BY <1>2, EndsShows DEF Abstract!Replace

\* Whatever the caller is not told, no old part is lost.
LEMMA UnknownBreaks ==
  ASSUME RInv, Ends, reportBar' = "unknown"
  PROVE  Abstract!Break
<1>1. \/ \E v \in Contents : Abstract!Replace(v)
      \/ \A p \in Abstract!Guarded :
           storeBar[p] \in {storeBar'[p], Absent} \/ <<p, storeBar[p]>> \in savedBar'
  <2>1. CASE result = "succeeded"
    BY <2>1, SuccessReplaces, EndsShows
  <2>2. CASE result # "succeeded"
    <3>1. ASSUME NEW p \in Parts, Saved(p)
          PROVE  before[p] \in {live[p], Absent} \/ <<p, before[p]>> \in SavedNow
      BY <2>2, <3>1 DEF RInv, IInv, OldCopySurvives, SavedNow
    <3> QED
      BY <3>1, EndsShows
  <2> QED
    BY <2>1, <2>2
<1>2. savedBar \subseteq savedBar'
  BY EndsShows
<1> QED
  BY <1>1, <1>2, EndsShows DEF Abstract!Break

\* A refused run and one that was rolled back have changed nothing that had a
\* copy, and have no copy left.
LEMMA FailureRestores ==
  ASSUME RInv, Ends, reportBar' = "failed", \A p \in Parts : bak[p] = Absent,
         \A p \in Parts : Saved(p) => live[p] = before[p]
  PROVE  Abstract!Fail
<1>1. SavedNow = {}
  BY DEF SavedNow
<1> QED
  BY <1>1, EndsShows DEF Abstract!Fail, Abstract!Unharmed

\* The end of a run is one of the three ends of the abstract store.
LEMMA FinishEnds ==
  ASSUME RInv, Finish
  PROVE  \/ \E v \in Contents : Abstract!Commit(v)
         \/ Abstract!Fail
         \/ Abstract!Break
<1>1. Ends /\ outcome' = Report[result] /\ Removable = {} /\ result # "pending"
  BY DEF Finish, Goto, diskVars, inputVars, localVars, Ends, RInv, IInv, Rollback, Decided
<1>2. result \in {"succeeded", "restored"} => \A p \in Parts : bak[p] = Absent
  BY <1>1 DEF Removable, RInv, Accounted, Finish
<1>3. CASE result = "succeeded"
  <2>1. SavedNow = {} /\ reportBar' = "ok"
    BY <1>1, <1>2, <1>3 DEF SavedNow, Report, reportBar, Ends
  <2>2. Abstract!Commit(run)
    BY <1>1, <1>3, <2>1, EndsShows, SuccessReplaces DEF Abstract!Commit
  <2> QED
    BY <1>1, <2>2, EndsShows
<1>4. CASE result = "restored"
  <2>1. reportBar' = "failed"
    BY <1>1, <1>4 DEF Report, reportBar, Ends
  <2>2. \A p \in Parts : Saved(p) => live[p] = before[p]
    BY <1>4 DEF RInv, IInv, Rollback
  <2> QED
    BY <1>1, <1>2, <1>4, <2>1, <2>2, FailureRestores
<1>5. CASE result = "unrestored"
  <2>1. reportBar' = "unknown"
    BY <1>1, <1>5 DEF Report, reportBar, Ends
  <2> QED
    BY <1>1, <2>1, UnknownBreaks
<1> QED
  BY <1>1, <1>3, <1>4, <1>5 DEF RInv, TypeOK

\* Every step is a step of the abstract store or leaves it alone.
LEMMA RefinementStep ==
  ASSUME RInv, [Next]_vars
  PROVE  [Abstract!Next]_(Abstract!storeVars)
<1>1. CASE Begin
  BY <1>1, BeginStarts DEF Abstract!Next
<1>2. CASE Refuse
  <2>1. Ends /\ pc = "gate" /\ reportBar' = "failed"
    BY <1>2 DEF Refuse, Goto, diskVars, inputVars, localVars, Ends, reportBar
  <2>2. \A p \in Parts : Saved(p) => live[p] = before[p]
    BY <2>1 DEF RInv, IInv, Progress, Copies
  <2>3. \A p \in Parts : bak[p] = Absent
    BY <2>1 DEF RInv, Accounted
  <2> QED
    BY <2>1, <2>2, <2>3, FailureRestores DEF Abstract!Next
<1>3. CASE RemoveFails \/ Crash
  <2>1. Ends /\ reportBar' = "unknown"
    BY <1>3 DEF RemoveFails, Crash, Goto, diskVars, inputVars, localVars, Ends, reportBar
  <2> QED
    BY <2>1, UnknownBreaks DEF Abstract!Next
<1>4. CASE Finish
  BY <1>4, FinishEnds DEF Abstract!Next
<1>5. CASE PassGate \/ TryNext \/ CatchNext \/ \E d \in TempDirs : Remove(d)
  <2>1. pc # "idle" /\ UNCHANGED <<before, kept, input>>
    BY <1>5 DEF PassGate, TryNext, CatchNext, Remove, MkStaging, MkExecution, MkLedger,
       MkSiteStaging, Mkdtemp, Execute, Check, MkBackup, Move, Publish, BuildLedger,
       PublishIndexOnly, Render, RmLedger, StepThrows, TrySteps, Throw, UndoNothing, Undo,
       UndoFails, RestoreNothing, Restore, RestoreFails, diskVars, inputVars
  <2>2. pc' # "idle"
    <3>1. CASE PassGate \/ \E d \in TempDirs : Remove(d)
      BY <3>1 DEF PassGate, Remove, Goto
    <3>2. CASE TryNext
      BY <3>2 DEF TryNext, MkStaging, MkExecution, MkLedger, MkSiteStaging, Mkdtemp, Execute,
         Check, MkBackup, Move, AfterBackup, AfterIndexBackup, Publish, AfterPublish, BuildLedger,
         PublishIndexOnly, Render, RmLedger, StepThrows, Throw, Goto, RInv, TypeOK, Parts
    <3>3. CASE CatchNext
      BY <3>3 DEF CatchNext, UndoNothing, Undo, UndoFails, RestoreNothing, Restore, RestoreFails,
         NextRollback, Goto
    <3> QED
      BY <1>5, <3>1, <3>2, <3>3
  <2> QED
    BY <2>1, <2>2, InsideIsHidden
<1>6. CASE UNCHANGED vars
  BY <1>6 DEF vars, storeBar, savedBar, SavedNow, scopeBar, reportBar, Abstract!storeVars
<1> QED
  BY <1>1, <1>2, <1>3, <1>4, <1>5, <1>6 DEF Next, FinallyNext

\* Whatever fails inside a run, and however many runs there are, a caller sees
\* one of the abstract store: all parts of one run, or the old ones, or a
\* report that says so and an old copy of every part that has one.
THEOREM PipelineIsAtomic == Spec => ImplementsAtomicPublish
<1>1. RInv /\ [Next]_vars => [Abstract!Next]_(Abstract!storeVars)
  BY RefinementStep
<1>2. Spec => []Numbered
  <2>1. Provenance => Numbered
    BY DEF Provenance
  <2> QED
    BY TypeCorrect, Invariance, ProvenanceInit, ProvenanceStep, <2>1, PTL DEF Spec
<1>3. Spec => []Accounted
  BY TypeCorrect, Invariance, AccountedInit, AccountedStep, PTL DEF Spec
<1>4. Spec => []RInv
  BY TypeCorrect, Invariance, <1>2, <1>3, PTL DEF RInv
<1> QED
  BY <1>1, <1>4, RefinementInit, PTL DEF Spec, ImplementsAtomicPublish, Abstract!Spec
=============================================================================
