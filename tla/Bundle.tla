-------------------------------- MODULE Bundle --------------------------------
(***************************************************************************)
(* lib/bundle.mjs: createBundle builds <mission>/bundle next to the files  *)
(* it is made from, and verifyBundle checks what is there.  The files may  *)
(* be edited while either runs, any await may fail, and the process that   *)
(* creates may be killed.  The mission is one that needs consent.          *)
(*                                                                         *)
(* A file is represented by the version of the mission it belongs to, 0    *)
(* where there is none (for a run record: none that is valid).  A manifest, and with it a digest, is what the     *)
(* files were when they were hashed.                                       *)
(***************************************************************************)
EXTENDS Naturals

CONSTANTS
  Versions,   \* versions of the mission
  Patched,    \* those that declare a patch
  MaxEdits    \* bound on the edits of source files

ASSUME BundleAssumption ==
  /\ Versions \subseteq Nat \ {0}
  /\ Patched \subseteq Versions
  /\ MaxEdits \in Nat

VARIABLES
  source,     \* the files in the mission directory, and the run record
  bundle,     \* the directory bundle: files, manifest, state
  pc,         \* the await createBundle is at
  mission,    \* local missionResult
  record,     \* local runRecordResult
  temp,       \* its temporary directory
  left,       \* the temporary directory the last call left behind
  outcome,    \* how the last call ended
  returned,   \* the digest it returned
  check,      \* the await verifyBundle is at
  manifest,   \* its local manifest
  verdict,    \* what it found
  disturbed,  \* history: the bundle or the mission changed while it ran
  had,        \* history: there was a bundle when the call began
  edits       \* how often a source file was edited

createVars == <<pc, mission, record, temp, left, outcome, returned>>
verifyVars == <<check, manifest, verdict>>
vars == <<source, bundle, createVars, verifyVars, disturbed, had, edits>>

Files    == {"mission", "consent", "patch", "economic", "record"}
Contents == [Files -> {0} \cup Versions]
Empty    == [f \in Files |-> 0]
States   == {"absent", "torn", "partial", "whole"}
Directories == [files : Contents, manifest : Contents, state : States]
Nowhere  == [files |-> Empty, manifest |-> Empty, state |-> "absent"]

\* The files that may be missing.
Optional == {"consent", "patch", "economic"}

Goto(step) == pc' = step

-----------------------------------------------------------------------------
(* What the files have to do with one another.                              *)

\* validatePublicConsent: the consent names this mission.
Consents(m, consent) == consent = m

\* patch.diff is there exactly when the mission has its digest, and has it.
PatchFits(m, patch) == patch = IF m \in Patched THEN m ELSE 0

\* validateRunRecord: the record has every field, in its range.
ValidRecord(run) == run # 0

\* validateEconomicIdentity: economic.json may be missing; what is there names
\* this mission and its usage is that of this run, to the millisecond.
Accounts(m, run, economic) == economic # 0 => economic = m /\ economic = run

\* Mutant: the bundled consent was validated when the bundle was made.
AgreesButConsent(files) ==
  /\ files["mission"] # 0
  /\ PatchFits(files["mission"], files["patch"])
  /\ ValidRecord(files["record"]) /\ files["record"] = files["mission"]
  /\ Accounts(files["mission"], files["record"], files["economic"])

\* semanticIssues finds nothing within the bundle: consent, patch, record and
\* economic.json belong to the bundled mission.
Agrees(files) ==
  /\ files["mission"] # 0
  /\ Consents(files["mission"], files["consent"])
  /\ PatchFits(files["mission"], files["patch"])
  /\ ValidRecord(files["record"]) /\ files["record"] = files["mission"]
  /\ Accounts(files["mission"], files["record"], files["economic"])

-----------------------------------------------------------------------------
(* Edits.                                                                   *)

Edit(f) ==
  /\ edits < MaxEdits
  /\ edits' = edits + 1
  /\ \E v \in Versions \cup (IF f \in Optional \cup {"record"} THEN {0} ELSE {}) :
       v # source[f] /\ source' = [source EXCEPT ![f] = v]
  /\ disturbed' = (disturbed \/ f = "mission")
  /\ UNCHANGED <<bundle, createVars, verifyVars, had>>

-----------------------------------------------------------------------------
(* createBundle.                                                            *)

\* Mutant: the temporary directory is forgotten.
QuitLeaving(report) ==
  /\ Goto("idle")
  /\ outcome' = report
  /\ mission' = 0 /\ record' = 0
  /\ UNCHANGED <<temp, returned>>

Quit(report) ==
  /\ Goto("idle")
  /\ outcome' = report
  /\ temp' = Nowhere
  /\ mission' = 0 /\ record' = 0
  /\ UNCHANGED returned

\* The mission is read and validated; its bytes are what is bundled.
ReadMission ==
  /\ pc = "idle"
  /\ Goto("consent")
  /\ mission' = source["mission"]
  /\ outcome' = "running"
  /\ returned' = Empty
  /\ left' = Nowhere
  /\ had' = (bundle.state = "whole")
  /\ UNCHANGED <<source, bundle, record, temp, verifyVars, disturbed, edits>>

ReadConsent ==
  /\ pc = "consent"
  /\ Consents(mission, source["consent"])
  /\ Goto("record")
  /\ UNCHANGED <<source, bundle, mission, record, temp, left, outcome, returned,
                 verifyVars, disturbed, had, edits>>

ReadRecord ==
  /\ pc = "record"
  /\ ValidRecord(source["record"])
  /\ Goto("mkdtemp")
  /\ record' = source["record"]
  /\ UNCHANGED <<source, bundle, mission, temp, left, outcome, returned,
                 verifyVars, disturbed, had, edits>>

\* Missing or invalid input, or a file that cannot be read.
Reject ==
  /\ pc \in {"consent", "record", "mkdtemp"}
  /\ Quit("error")
  /\ UNCHANGED <<source, bundle, left, verifyVars, disturbed, had, edits>>

\* Mutant: room is made for the new bundle first.
WriteFilesOverOld ==
  /\ pc = "mkdtemp"
  /\ Goto("copyConsent")
  /\ temp' = [files    |-> [Empty EXCEPT !["mission"] = mission, !["record"] = record],
              manifest |-> Empty,
              state    |-> "partial"]
  /\ bundle' = Nowhere
  /\ disturbed' = TRUE
  /\ UNCHANGED <<source, mission, record, left, outcome, returned, verifyVars, had, edits>>

\* The directory is made and the files derived from what was read go in.
WriteFiles ==
  /\ pc = "mkdtemp"
  /\ Goto("copyConsent")
  /\ temp' = [files    |-> [Empty EXCEPT !["mission"] = mission, !["record"] = record],
              manifest |-> Empty,
              state    |-> "partial"]
  /\ UNCHANGED <<source, bundle, mission, record, left, outcome, returned,
                 verifyVars, disturbed, had, edits>>

Copied(f) == temp' = [temp EXCEPT !.files[f] = source[f]]

\* The consent is copied as it is now; without it the copy fails.
CopyConsent ==
  /\ pc = "copyConsent"
  /\ source["consent"] # 0
  /\ Copied("consent")
  /\ Goto("copyPatch")
  /\ UNCHANGED <<source, bundle, mission, record, left, outcome, returned,
                 verifyVars, disturbed, had, edits>>

\* An optional file is copied if it is there, whatever is in it.
CopyPatch ==
  /\ pc = "copyPatch"
  /\ Copied("patch")
  /\ Goto("copyEconomic")
  /\ UNCHANGED <<source, bundle, mission, record, left, outcome, returned,
                 verifyVars, disturbed, had, edits>>

CopyEconomic ==
  /\ pc = "copyEconomic"
  /\ Copied("economic")
  /\ Goto("manifest")
  /\ UNCHANGED <<source, bundle, mission, record, left, outcome, returned,
                 verifyVars, disturbed, had, edits>>

\* Mutant: the manifest lists the required files only.
WriteManifestOfRequired ==
  /\ pc = "manifest"
  /\ temp' = [temp EXCEPT !.manifest = [temp.files EXCEPT !["patch"] = 0], !.state = "whole"]
  /\ Goto("rmOld")
  /\ UNCHANGED <<source, bundle, mission, record, left, outcome, returned,
                 verifyVars, disturbed, had, edits>>

\* Every file that is there is hashed.
WriteManifest ==
  /\ pc = "manifest"
  /\ temp' = [temp EXCEPT !.manifest = temp.files, !.state = "whole"]
  /\ Goto("rmOld")
  /\ UNCHANGED <<source, bundle, mission, record, left, outcome, returned,
                 verifyVars, disturbed, had, edits>>

RemoveOld ==
  /\ pc = "rmOld"
  /\ bundle' = Nowhere
  /\ disturbed' = TRUE
  /\ Goto("rename")
  /\ UNCHANGED <<source, mission, record, temp, left, outcome, returned, verifyVars, had, edits>>

\* A recursive removal that fails half-way has removed some files.
RemoveOldFails ==
  /\ pc = "rmOld"
  /\ bundle' \in {bundle} \cup
       (IF bundle.state = "absent" THEN {} ELSE {[bundle EXCEPT !.state = "torn"]})
  /\ disturbed' = TRUE
  /\ Goto("catch")
  /\ UNCHANGED <<source, mission, record, temp, left, outcome, returned, verifyVars, had, edits>>

Rename ==
  /\ pc = "rename"
  /\ bundle' = temp
  /\ returned' = temp.manifest
  /\ disturbed' = TRUE
  /\ Goto("idle")
  /\ outcome' = "ok"
  /\ temp' = Nowhere
  /\ mission' = 0 /\ record' = 0
  /\ UNCHANGED <<source, left, verifyVars, had, edits>>

StepThrows ==
  /\ pc \in {"copyConsent", "copyPatch", "copyEconomic", "manifest", "rename"}
  /\ Goto("catch")
  /\ UNCHANGED <<source, bundle, mission, record, temp, left, outcome, returned,
                 verifyVars, disturbed, had, edits>>

\* Mutant: on the way out the old bundle is cleaned up as well.
CatchRemovesBoth ==
  /\ pc = "catch"
  /\ bundle' = Nowhere
  /\ Quit("error")
  /\ UNCHANGED <<source, left, verifyVars, disturbed, had, edits>>

Catch ==
  /\ pc = "catch"
  /\ Quit("error")
  /\ UNCHANGED <<source, bundle, left, verifyVars, disturbed, had, edits>>

\* The directory cannot be removed, for one because a write that Promise.all
\* did not wait for still adds files; or the process is killed here.
CatchFails ==
  /\ pc = "catch"
  /\ left' = [temp EXCEPT !.state = "partial"]
  /\ Quit("error")
  /\ UNCHANGED <<source, bundle, verifyVars, disturbed, had, edits>>

\* The process is killed.
Crash ==
  /\ pc \notin {"idle", "catch"}
  /\ left' = temp
  /\ Quit("crash")
  /\ UNCHANGED <<source, bundle, verifyVars, disturbed, had, edits>>

-----------------------------------------------------------------------------
(* verifyBundle, the files of which are read anew in each phase.            *)

Conclude(v) == check' = "idle" /\ verdict' = v /\ manifest' = Empty

\* In a torn directory the manifest may be gone or not.
ReadManifest ==
  /\ check = "idle"
  /\ disturbed' = FALSE
  /\ \/ /\ bundle.state # "absent"
        /\ check' = "files"
        /\ manifest' = bundle.manifest
        /\ verdict' = "none"
     \/ /\ bundle.state # "whole"
        /\ Conclude("failed")
  /\ UNCHANGED <<source, bundle, createVars, had, edits>>

Intact == bundle.state = "whole" /\ bundle.files = manifest

HashFiles ==
  /\ check = "files"
  /\ IF Intact THEN check' = "semantic" /\ UNCHANGED <<verdict, manifest>> ELSE Conclude("failed")
  /\ UNCHANGED <<source, bundle, createVars, disturbed, had, edits>>

\* The bundled mission is also compared with the one next to the bundle.
CheckSemantics ==
  /\ check = "semantic"
  /\ IF /\ bundle.state = "whole"
        /\ Agrees(bundle.files)
        /\ bundle.files["mission"] = source["mission"]
     THEN Conclude("ok")
     ELSE Conclude("failed")
  /\ UNCHANGED <<source, bundle, createVars, disturbed, had, edits>>

-----------------------------------------------------------------------------
Init ==
  /\ \E v \in Versions, costed \in BOOLEAN :
       source = [f \in Files |-> IF \/ f = "patch" /\ v \notin Patched
                                    \/ f = "economic" /\ ~costed
                                 THEN 0 ELSE v]
  /\ bundle = Nowhere
  /\ pc = "idle"
  /\ mission = 0 /\ record = 0
  /\ temp = Nowhere
  /\ left = Nowhere
  /\ outcome = "none"
  /\ returned = Empty
  /\ check = "idle"
  /\ manifest = Empty
  /\ verdict = "none"
  /\ disturbed = FALSE
  /\ had = FALSE
  /\ edits = 0

Create ==
  \/ ReadMission \/ ReadConsent \/ ReadRecord \/ Reject
  \/ WriteFiles \/ CopyConsent \/ CopyPatch \/ CopyEconomic \/ WriteManifest
  \/ RemoveOld \/ RemoveOldFails \/ Rename
  \/ StepThrows \/ Catch \/ CatchFails \/ Crash

Verify == ReadManifest \/ HashFiles \/ CheckSemantics

Next == Create \/ Verify \/ \E f \in Files : Edit(f)

Spec == Init /\ [][Next]_vars

-----------------------------------------------------------------------------
TypeOK ==
  /\ source \in Contents
  /\ bundle \in Directories
  /\ pc \in {"idle", "consent", "record", "mkdtemp", "copyConsent", "copyPatch", "copyEconomic",
             "manifest", "rmOld", "rename", "catch"}
  /\ mission \in {0} \cup Versions /\ record \in {0} \cup Versions
  /\ temp \in Directories
  /\ left \in Directories
  /\ outcome \in {"none", "running", "ok", "error", "crash"}
  /\ returned \in Contents
  /\ check \in {"idle", "files", "semantic"}
  /\ manifest \in Contents
  /\ verdict \in {"none", "ok", "failed"}
  /\ disturbed \in BOOLEAN /\ had \in BOOLEAN
  /\ edits \in 0..MaxEdits
  /\ bundle.state # "partial"
  /\ temp.state = "absent" <=> pc \in {"idle", "consent", "record", "mkdtemp"}

(* A bundle that was there goes away, whole or in part, only once its
   replacement is complete: bundle.mjs:537 comes after everything that can
   fail for want of input.                                                  *)
GoesForAnother ==
  [][bundle.state = "whole" /\ bundle' # bundle => temp.state = "whole"]_vars

(* A process that is killed leaves the mission with a complete bundle, the
   old one or its replacement in the temporary directory, if it had one.    *)
KilledLosesNothing ==
  outcome = "crash" /\ had => "whole" \in {bundle.state, left.state}

(* The digest createBundle returned covers every file of the bundle it left,
   until the next call: nothing is in it that the manifest does not list.   *)
ReturnedCoversBundle ==
  outcome = "ok" => bundle.state = "whole" /\ bundle.files = returned

(* Verification that ends well, with no creation and no change of the mission
   meanwhile, saw a whole bundle of files that belong together, also when
   createBundle bundled a consent that was replaced after its validation.   *)
VerifiedIsSound ==
  verdict = "ok" /\ ~disturbed =>
    /\ bundle.state = "whole" /\ bundle.files = bundle.manifest
    /\ \A f \in {"mission", "consent", "record"} : bundle.files[f] = source["mission"]
    /\ bundle.files["patch"] # 0 <=> source["mission"] \in Patched
    /\ bundle.files["economic"] \in {0, source["mission"]}
=============================================================================
