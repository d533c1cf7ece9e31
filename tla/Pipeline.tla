------------------------------ MODULE Pipeline ------------------------------
(***************************************************************************)
(* lib/pipeline.mjs, runPipeline: one mission is gated, executed, bundled  *)
(* and published next to the ledger index and the site tree.  Every await  *)
(* of the function is an action that may also throw; the catch block rolls *)
(* back, the finally block cleans up, and the process may be killed        *)
(* between any two awaits.  Runs follow one another on the same disk.      *)
(*                                                                         *)
(* A part is what a run replaces: the mission directory, missions/index.json*)
(* or the site tree.  The content of a part is the number of the run that  *)
(* produced it, 0 being what was there at the start.                       *)
(***************************************************************************)
EXTENDS Naturals

CONSTANTS
  MaxRuns,   \* bound on the number of runs of one behaviour
  Absent,    \* nothing is at the path
  Torn       \* what a recursive rm that failed half-way leaves behind

ASSUME ContentAssumption ==
  /\ MaxRuns \in Nat
  /\ Absent \notin Nat
  /\ Torn \notin Nat
  /\ Absent # Torn

VARIABLES
  live,       \* disk: the content at the published path of each part
  bak,        \* disk: the content in this run's backup directory of each part
  dirs,       \* disk: temporary directories this run created and did not remove
  kept,       \* disk: backups that ended runs left behind, <<part, content>>
  pc,         \* the await the run is at; "idle" between runs
  part,       \* the part the backup, publish and rollback steps are at
  input,      \* the mission input and the options of the run
  verdict,    \* what the executor returned
  published,  \* locals published, indexPublished and sitePublished
  bakPath,    \* parts whose local *BackupPath is not null
  held,       \* temporary directories a local path variable points to
  rollbackFailed, \* local rollbackErrors is not empty
  result,     \* locals succeeded and restored
  outcome,    \* how the last run ended, for its caller
  run,        \* number of the current run, the content it produces
  before      \* live when the run began

diskVars   == <<live, bak, dirs, kept>>
localVars  == <<verdict, published, bakPath, held, rollbackFailed, result>>
inputVars  == <<input, run, before>>
vars == <<live, bak, dirs, kept, pc, part, input, verdict, published, bakPath,
          held, rollbackFailed, result, outcome, run, before>>

Parts    == {"mission", "index", "site"}
BakRoots == {"missionBak", "indexBak", "siteBak"}
TempDirs == {"staging", "execution", "ledger", "siteStaging"} \cup BakRoots
BakRoot  == [mission |-> "missionBak", index |-> "indexBak", site |-> "siteBak"]

Content  == Nat \cup {Absent, Torn}
KeptCopy == Parts \X Content
Verdicts == {"none", "pass", "failedCommand", "wrongCommands", "unbound"}
Steps == {"idle", "gate", "mkStaging", "mkExecution", "execute", "check",
          "mkBackup", "move", "publish", "mkLedger", "buildLedger",
          "publishIndexOnly", "mkSiteStaging", "render", "rmLedger",
          "undo", "restore", "finally"}
Inputs == [consent : {"notNeeded", "valid", "missing"}, \* variant and consent file
           attested : BOOLEAN,                          \* attestation_uri is set
           force : BOOLEAN, site : BOOLEAN]             \* --force, --site

Goto(step, p) == pc' = step /\ part' = p

\* The await throws before it changed anything: control enters the catch
\* block, which starts with the mission.
Throw ==
  /\ Goto("undo", "mission")
  /\ UNCHANGED <<diskVars, localVars, inputVars, outcome>>

-----------------------------------------------------------------------------
(* The policy guard, before the try block.                                  *)

\* `before` is also what pathExists(missionDir) sees.
MissionExisted == before["mission"] # Absent

GateAccepts ==
  /\ input.consent # "missing"
  /\ ~input.attested
  /\ MissionExisted => input.force

\* A process starts runPipeline: fresh locals, the disk as it was left.
Begin ==
  /\ pc = "idle"
  /\ run < MaxRuns
  /\ Goto("gate", "mission")
  /\ input' \in Inputs
  /\ run' = run + 1
  /\ before' = live
  /\ kept' = kept \cup {<<p, bak[p]>> : p \in {q \in Parts : bak[q] # Absent}}
  /\ bak' = [p \in Parts |-> Absent]
  /\ dirs' = {}
  /\ verdict' = "none"
  /\ published' = {}
  /\ bakPath' = {}
  /\ held' = {}
  /\ rollbackFailed' = FALSE
  /\ result' = "pending"
  /\ outcome' = "none"
  /\ UNCHANGED live

PassGate ==
  /\ pc = "gate"
  /\ GateAccepts
  /\ Goto("mkStaging", "mission")
  /\ UNCHANGED <<diskVars, localVars, inputVars, outcome>>

\* A policy issue, a config error or an unreadable artifact: thrown before
\* the try block, so neither catch nor finally runs.
Refuse ==
  /\ pc = "gate"
  /\ Goto("idle", "mission")
  /\ outcome' = "refused"
  /\ UNCHANGED <<diskVars, localVars, inputVars>>

-----------------------------------------------------------------------------
(* The try block: mkdtemp, execute, check.                                  *)

\* mkdtemp of a directory whose path is kept in a local of the same step.
Mkdtemp(at, d, next, p) ==
  /\ pc = at
  /\ dirs' = dirs \cup {d}
  /\ held' = held \cup {d}
  /\ Goto(next, p)
  /\ UNCHANGED <<live, bak, kept, verdict, published, bakPath, rollbackFailed,
                 result, inputVars, outcome>>

MkStaging     == Mkdtemp("mkStaging", "staging", "mkExecution", "mission")
MkExecution   == Mkdtemp("mkExecution", "execution", "execute", "mission")
MkLedger      == Mkdtemp("mkLedger", "ledger", "buildLedger", "index")
MkSiteStaging == Mkdtemp("mkSiteStaging", "siteStaging", "render", "site")

Execute ==
  /\ pc = "execute"
  /\ verdict' \in Verdicts \ {"none"}
  /\ Goto("check", "mission")
  /\ UNCHANGED <<diskVars, published, bakPath, held, rollbackFailed, result,
                 inputVars, outcome>>

\* Mutant: assertCommandsSucceeded is missing.
CheckBindingOnly ==
  /\ pc = "check"
  /\ verdict \in {"pass", "failedCommand"}
  /\ Goto(IF MissionExisted THEN "mkBackup" ELSE "publish", "mission")
  /\ UNCHANGED <<diskVars, localVars, inputVars, outcome>>

\* Commands, code binding and exit codes agree, the economic record
\* validates and createBundle succeeds; otherwise the step throws.
Check ==
  /\ pc = "check"
  /\ verdict = "pass"
  /\ Goto(IF MissionExisted THEN "mkBackup" ELSE "publish", "mission")
  /\ UNCHANGED <<diskVars, localVars, inputVars, outcome>>

-----------------------------------------------------------------------------
(* The try block: backups and publication.                                  *)

\* Mutant: the backup path is set to the directory made for it.
MkBackupRootAsPath ==
  /\ pc = "mkBackup"
  /\ dirs' = dirs \cup {BakRoot[part]}
  /\ held' = held \cup {BakRoot[part]}
  /\ bakPath' = IF part = "mission" THEN bakPath ELSE bakPath \cup {BakRoot[part]}
  /\ Goto("move", part)
  /\ UNCHANGED <<live, bak, kept, verdict, published, rollbackFailed, result,
                 inputVars, outcome>>

\* The local backup path is assigned with the mkdtemp for the index and the
\* site, but only after the rename for the mission.
MkBackup ==
  /\ pc = "mkBackup"
  /\ dirs' = dirs \cup {BakRoot[part]}
  /\ held' = held \cup {BakRoot[part]}
  /\ bakPath' = IF part = "mission" THEN bakPath ELSE bakPath \cup {part}
  /\ Goto("move", part)
  /\ UNCHANGED <<live, bak, kept, verdict, published, rollbackFailed, result,
                 inputVars, outcome>>

\* The site is saved after the index if there is one, and both are saved
\* before either is replaced.
AfterIndexBackup ==
  IF live["site"] # Absent THEN Goto("mkBackup", "site") ELSE Goto("publish", "index")

AfterBackup ==
  CASE part = "mission" -> Goto("publish", "mission")
    [] part = "index"   -> AfterIndexBackup
    [] part = "site"    -> Goto("publish", "index")

\* Mutant: where the copy went is not recorded.
MoveUnrecorded ==
  /\ pc = "move"
  /\ bak' = [bak EXCEPT ![part] = live[part]]
  /\ live' = [live EXCEPT ![part] = Absent]
  /\ AfterBackup
  /\ UNCHANGED <<dirs, kept, verdict, published, bakPath, held, rollbackFailed,
                 result, inputVars, outcome>>

\* rename(live path, backup path)
Move ==
  /\ pc = "move"
  /\ bak' = [bak EXCEPT ![part] = live[part]]
  /\ live' = [live EXCEPT ![part] = Absent]
  /\ bakPath' = bakPath \cup {part}
  /\ AfterBackup
  /\ UNCHANGED <<dirs, kept, verdict, published, held, rollbackFailed, result,
                 inputVars, outcome>>

\* What the rename consumes: the local variable is nulled with it.  The
\* directory around the staged index stays on disk.
Staged == [mission |-> "staging", index |-> "ledger", site |-> "siteStaging"]

AfterPublish ==
  CASE part = "mission" -> Goto("mkLedger", "mission")
    [] part = "index"   -> Goto("publish", "site")
    [] part = "site"    -> Goto("rmLedger", "site")

\* rename(staged path, live path)
Publish ==
  /\ pc = "publish"
  /\ live' = [live EXCEPT ![part] = run]
  /\ published' = published \cup {part}
  /\ held' = held \ {Staged[part]}
  /\ dirs' = IF part = "index" THEN dirs ELSE dirs \ {Staged[part]}
  /\ AfterPublish
  /\ UNCHANGED <<bak, kept, verdict, bakPath, rollbackFailed, result, inputVars,
                 outcome>>

BuildLedger ==
  /\ pc = "buildLedger"
  /\ IF input.site THEN Goto("mkSiteStaging", "site") ELSE Goto("publishIndexOnly", "index")
  /\ UNCHANGED <<diskVars, localVars, inputVars, outcome>>

\* Without --site the index is renamed over the old one: no backup, and
\* indexPublished stays false.
PublishIndexOnly ==
  /\ pc = "publishIndexOnly"
  /\ live' = [live EXCEPT !["index"] = run]
  /\ held' = held \ {"ledger"}
  /\ Goto("rmLedger", "index")
  /\ UNCHANGED <<bak, dirs, kept, verdict, published, bakPath, rollbackFailed,
                 result, inputVars, outcome>>

\* cp of the old site and renderLedger into the staging copy.
Render ==
  /\ pc = "render"
  /\ IF live["index"] # Absent THEN Goto("mkBackup", "index") ELSE AfterIndexBackup
  /\ UNCHANGED <<diskVars, localVars, inputVars, outcome>>

\* The last await of the try block; succeeded = true follows it.
RmLedger ==
  /\ pc = "rmLedger"
  /\ dirs' = dirs \ {"ledger"}
  /\ result' = "succeeded"
  /\ Goto("finally", "mission")
  /\ UNCHANGED <<live, bak, kept, verdict, published, bakPath, held,
                 rollbackFailed, inputVars, outcome>>

\* Any await of the try block may reject, and the checks on the execution
\* do for every verdict but "pass".
TrySteps == {"mkStaging", "mkExecution", "execute", "check", "mkBackup", "move",
             "publish", "mkLedger", "buildLedger", "publishIndexOnly",
             "mkSiteStaging", "render", "rmLedger"}

StepThrows == pc \in TrySteps /\ Throw

-----------------------------------------------------------------------------
(* The catch block: mission, then site, then index.                         *)

\* Mutant: collected errors are not looked at.
NextRollbackOptimist(failed) ==
  /\ rollbackFailed' = (rollbackFailed \/ failed)
  /\ IF part = "index"
       THEN result' = "restored" /\ Goto("finally", "mission")
       ELSE /\ UNCHANGED result
            /\ Goto("undo", IF part = "mission" THEN "site" ELSE "index")

\* An error of one part is collected and the next part still has its turn.
NextRollback(failed) ==
  /\ rollbackFailed' = (rollbackFailed \/ failed)
  /\ IF part = "index"
       THEN /\ result' = IF rollbackFailed' THEN "unrestored" ELSE "restored"
            /\ Goto("finally", "mission")
       ELSE /\ UNCHANGED result
            /\ Goto("undo", IF part = "mission" THEN "site" ELSE "index")

UndoNothing ==
  /\ pc = "undo"
  /\ part \notin published
  /\ Goto("restore", part)
  /\ UNCHANGED <<diskVars, localVars, inputVars, outcome>>

\* rm of what this run published
Undo ==
  /\ pc = "undo"
  /\ part \in published
  /\ live' = [live EXCEPT ![part] = Absent]
  /\ Goto("restore", part)
  /\ UNCHANGED <<bak, dirs, kept, localVars, inputVars, outcome>>

\* rm throws: the rename back is skipped.  A directory may be half removed.
UndoFails ==
  /\ pc = "undo"
  /\ part \in published
  /\ \/ UNCHANGED live
     \/ part # "index" /\ live' = [live EXCEPT ![part] = Torn]
  /\ NextRollback(TRUE)
  /\ UNCHANGED <<bak, dirs, kept, verdict, published, bakPath, held, inputVars,
                 outcome>>

RestoreNothing ==
  /\ pc = "restore"
  /\ part \notin bakPath
  /\ NextRollback(FALSE)
  /\ UNCHANGED <<diskVars, verdict, published, bakPath, held, inputVars, outcome>>

\* rename(backup path, live path).  Its source is missing when the move
\* that should have filled it is what threw.
Restore ==
  /\ pc = "restore"
  /\ part \in bakPath
  /\ bak[part] # Absent
  /\ live' = [live EXCEPT ![part] = bak[part]]
  /\ bak' = [bak EXCEPT ![part] = Absent]
  /\ NextRollback(FALSE)
  /\ UNCHANGED <<dirs, kept, verdict, published, bakPath, held, inputVars, outcome>>

RestoreFails ==
  /\ pc = "restore"
  /\ part \in bakPath
  /\ NextRollback(TRUE)
  /\ UNCHANGED <<diskVars, verdict, published, bakPath, held, inputVars, outcome>>

-----------------------------------------------------------------------------
(* The finally block.                                                       *)

\* Mutant: backups are dropped in every case.
RemovableAlways == held

\* Backups go only once the new content or the old one is in place.
Removable == IF result \in {"succeeded", "restored"} THEN held ELSE held \ BakRoots

\* The directories the block removes before d.
Earlier ==
  [staging     |-> {},
   execution   |-> {"staging"},
   ledger      |-> {"staging", "execution"},
   siteStaging |-> {"staging", "execution", "ledger"},
   siteBak     |-> {"staging", "execution", "ledger", "siteStaging"},
   indexBak    |-> {"staging", "execution", "ledger", "siteStaging", "siteBak"},
   missionBak  |-> {"staging", "execution", "ledger", "siteStaging", "siteBak", "indexBak"}]

Remove(d) ==
  /\ pc = "finally"
  /\ d \in Removable
  /\ Earlier[d] \cap Removable = {}
  /\ held' = held \ {d}
  /\ dirs' = dirs \ {d}
  /\ bak' = [p \in Parts |-> IF BakRoot[p] = d THEN Absent ELSE bak[p]]
  /\ UNCHANGED <<live, kept, pc, part, verdict, published, bakPath,
                 rollbackFailed, result, inputVars, outcome>>

\* An rm of the finally block throws: the rest is skipped and its error
\* replaces the return value or the error under way.
RemoveFails ==
  /\ pc = "finally"
  /\ Removable # {}
  /\ outcome' = "cleanupError"
  /\ Goto("idle", "mission")
  /\ UNCHANGED <<diskVars, localVars, inputVars>>

Report == [succeeded |-> "ok", restored |-> "error", unrestored |-> "rollbackError"]

Finish ==
  /\ pc = "finally"
  /\ Removable = {}
  /\ outcome' = Report[result]
  /\ Goto("idle", "mission")
  /\ UNCHANGED <<diskVars, localVars, inputVars>>

-----------------------------------------------------------------------------
\* The process is killed, or the machine stops, between two awaits.
Crash ==
  /\ pc # "idle"
  /\ outcome' = "crash"
  /\ Goto("idle", "mission")
  /\ UNCHANGED <<diskVars, localVars, inputVars>>

Init ==
  /\ live \in [Parts -> {0, Absent}]
  /\ bak = [p \in Parts |-> Absent]
  /\ dirs = {}
  /\ kept = {}
  /\ pc = "idle"
  /\ part = "mission"
  /\ input \in {i \in Inputs : i.consent = "notNeeded" /\ ~i.attested /\ ~i.force}
  /\ verdict = "none"
  /\ published = {}
  /\ bakPath = {}
  /\ held = {}
  /\ rollbackFailed = FALSE
  /\ result = "pending"
  /\ outcome = "none"
  /\ run = 0
  /\ before = live

TryNext ==
  \/ MkStaging \/ MkExecution \/ Execute \/ Check
  \/ MkBackup \/ Move \/ Publish
  \/ MkLedger \/ BuildLedger \/ PublishIndexOnly \/ MkSiteStaging \/ Render
  \/ RmLedger
  \/ StepThrows

CatchNext ==
  \/ UndoNothing \/ Undo \/ UndoFails
  \/ RestoreNothing \/ Restore \/ RestoreFails

FinallyNext ==
  \/ \E d \in TempDirs : Remove(d)
  \/ RemoveFails
  \/ Finish

Next ==
  \/ Begin \/ PassGate \/ Refuse
  \/ TryNext
  \/ CatchNext
  \/ FinallyNext
  \/ Crash

Spec == Init /\ [][Next]_vars

-----------------------------------------------------------------------------
(* Properties.                                                              *)

\* Every variable holds a value of its type.
TypeOK ==
  /\ live \in [Parts -> Content]
  /\ bak \in [Parts -> Content]
  /\ dirs \subseteq TempDirs
  /\ kept \subseteq KeptCopy
  /\ pc \in Steps
  /\ part \in Parts
  /\ input \in Inputs
  /\ verdict \in Verdicts
  /\ published \subseteq Parts
  /\ bakPath \subseteq Parts
  /\ held \subseteq TempDirs
  /\ rollbackFailed \in BOOLEAN
  /\ result \in {"pending", "succeeded", "restored", "unrestored"}
  /\ outcome \in {"none", "refused", "ok", "error", "rollbackError", "cleanupError", "crash"}
  /\ run \in Nat
  /\ before \in [Parts -> Content]

\* Without --site the index has no backup; everything else is saved first.
Saved(p) == p # "index" \/ input.site

\* Whatever await throws, whatever rollback step fails and wherever the
\* process dies, the content a run found is still at its path or in the
\* backup directory of the run, until the run has published all of its own.
OldCopySurvives ==
  \A p \in Parts : Saved(p) =>
    \/ before[p] = live[p]
    \/ before[p] = bak[p]
    \/ before[p] = Absent
    \/ result = "succeeded"

\* A run that reports an ordinary error (no rollback failure) left mission,
\* index and site as it found them: the catch block undoes every prefix of
\* the publication sequence.
CleanErrorRestores ==
  outcome = "error" => \A p \in Parts : Saved(p) => live[p] = before[p]

\* At no moment, crashes and failed rollbacks included, is a mission of this
\* run live whose execution failed, was not bound to the declared code, or
\* whose input the policy guard refuses.
OnlyVerifiedIsLive ==
  run > 0 /\ (\E p \in Parts : live[p] = run) => verdict = "pass" /\ GateAccepts
=============================================================================
