---------------------------- MODULE RecordProofs ----------------------------
(***************************************************************************)
(* Theorems about Bundle, for every set of versions and any number of      *)
(* edits, and about MissionRecord, for all inputs, edits, durations and    *)
(* numbers of runs.  They share a module because a mission directory is    *)
(* the record and its bundle.                                              *)
(*                                                                         *)
(* Bundle: the inductive invariant says what the creator knows of its two  *)
(* directories at each await, and what the verifier, if nobody disturbs    *)
(* it, knows of the bundle it reads.                                       *)
(*                                                                         *)
(* MissionRecord: the inductive invariant RecordInv says that a directory  *)
(* comes from one run of an input that passed every check on the way, that *)
(* only the envelope is written after it, and of which bundle and which    *)
(* time everything is that the publisher saw or wrote.                     *)
(***************************************************************************)
EXTENDS Bundle, MissionRecord, TLAPS, WellFoundedInduction

\* Once the manifest is written the temporary directory is complete.
Complete ==
  pc \in {"rmOld", "rename"} => temp.state = "whole" /\ temp.manifest = temp.files

\* The awaits of a call up to the removal of the old bundle.
UntilRemoval ==
  {"consent", "record", "mkdtemp", "copyConsent", "copyPatch", "copyEconomic", "manifest", "rmOld"}

\* The bundle a call found is there until the call removes it.
OldKept == had /\ pc \in UntilRemoval => bundle.state = "whole"

\* A call that is under way has no result, and one that is over has.
Running == outcome = "running" <=> pc # "idle"

CInv == TypeOK /\ Complete /\ OldKept /\ Running /\ KilledLosesNothing /\ ReturnedCoversBundle

\* What an undisturbed verifier has established at each of its awaits.
VInv ==
  ~disturbed =>
    /\ check = "files" => manifest = bundle.manifest
    /\ check = "semantic" =>
         bundle.state = "whole" /\ bundle.files = manifest /\ manifest = bundle.manifest

-----------------------------------------------------------------------------
\* The empty directory, and one whose state changes or whose manifest is
\* written, are directories.
LEMMA DirectoryTypes ==
  /\ Empty \in Contents /\ Nowhere \in Directories
  /\ \A d \in Directories, s \in States :
       LET e == [d EXCEPT !.state = s] IN
       e \in Directories /\ e.state = s
  /\ \A d \in Directories :
       LET e == [d EXCEPT !.manifest = d.files, !.state = "whole"] IN
       e \in Directories /\ e.state = "whole" /\ e.manifest = e.files
<1>1. Empty \in Contents
  BY DEF Empty, Contents
<1>2. Nowhere \in Directories
  BY <1>1 DEF Nowhere, Directories, States
<1>3. ASSUME NEW d \in Directories, NEW s \in States
      PROVE  LET e == [d EXCEPT !.state = s] IN e \in Directories /\ e.state = s
  BY DEF Directories
<1>4. ASSUME NEW d \in Directories
      PROVE  LET e == [d EXCEPT !.manifest = d.files, !.state = "whole"] IN
             e \in Directories /\ e.state = "whole" /\ e.manifest = e.files
  BY DEF Directories, States
<1> QED
  BY <1>1, <1>2, <1>3, <1>4

\* The creator's invariant holds at first.
LEMMA CreatorInit == Init => CInv
<1> SUFFICES ASSUME Init PROVE CInv
  OBVIOUS
<1>1. source \in Contents
  BY DEF Init, Contents
<1>2. Empty \in Contents /\ Nowhere \in Directories /\ Nowhere.state = "absent"
  BY DirectoryTypes DEF Nowhere
<1>3. 0 \in 0..MaxEdits
  BY BundleAssumption
<1>4. TypeOK
  BY <1>1, <1>2, <1>3 DEF Init, TypeOK
<1> QED
  BY <1>4
  DEF Init, CInv, Complete, OldKept, UntilRemoval, Running, KilledLosesNothing,
      ReturnedCoversBundle

\* An edit concerns the sources and a verification its own locals.
LEMMA OthersKeepCreator ==
  CInv /\ ((\E f \in Files : Edit(f)) \/ Verify) => CInv'
<1> SUFFICES ASSUME CInv, (\E f \in Files : Edit(f)) \/ Verify
             PROVE  CInv'
  OBVIOUS
<1> USE DEF CInv
<1>1. UNCHANGED <<bundle, pc, mission, record, temp, left, outcome, returned, had>>
  BY DEF Edit, Verify, ReadManifest, HashFiles, CheckSemantics, createVars
<1>2. source' \in Contents /\ edits' \in 0..MaxEdits /\ disturbed' \in BOOLEAN
  <2>1. CASE \E f \in Files : Edit(f)
    <3>1. PICK f \in Files : Edit(f)
      BY <2>1
    <3>2. PICK v \in Versions \cup {0} : source' = [source EXCEPT ![f] = v]
      BY <3>1 DEF Edit
    <3>3. source \in Contents
      BY DEF TypeOK
    <3>4. source' \in Contents
      BY ONLY <3>2, <3>3 DEF Contents
    <3>5. edits' \in 0..MaxEdits
      BY <3>1, BundleAssumption DEF Edit, TypeOK
    <3> QED
      BY <3>1, <3>4, <3>5 DEF Edit, TypeOK
  <2>2. CASE Verify
    BY <2>2 DEF Verify, ReadManifest, HashFiles, CheckSemantics, TypeOK
  <2> QED
    BY <2>1, <2>2
<1>3. check' \in {"idle", "files", "semantic"} /\ manifest' \in Contents
      /\ verdict' \in {"none", "ok", "failed"}
  <2>1. CASE \E f \in Files : Edit(f)
    BY <2>1 DEF Edit, TypeOK, verifyVars
  <2>2. CASE ReadManifest
    BY <2>2, DirectoryTypes DEF ReadManifest, Conclude, TypeOK, Directories
  <2>3. CASE HashFiles
    BY <2>3, DirectoryTypes DEF HashFiles, Conclude, TypeOK
  <2>4. CASE CheckSemantics
    BY <2>4, DirectoryTypes DEF CheckSemantics, Conclude, TypeOK
  <2> QED
    BY <2>1, <2>2, <2>3, <2>4 DEF Verify
<1>4. TypeOK'
  BY <1>1, <1>2, <1>3 DEF TypeOK
<1> QED
  BY <1>1, <1>4
  DEF Complete, OldKept, Running, KilledLosesNothing, ReturnedCoversBundle

\* Every step of createBundle keeps the creator's invariant: the temporary
\* directory is complete when the old bundle goes.
LEMMA CreatorSteps == CInv /\ Create => CInv'
<1> SUFFICES ASSUME CInv, Create
             PROVE  CInv'
  OBVIOUS
<1> USE DEF CInv, Goto
<1>0. /\ bundle \in Directories /\ temp \in Directories /\ left \in Directories
      /\ source \in Contents
      /\ \A f \in Files : source[f] \in {0} \cup Versions
      /\ "mission" \in Files /\ "record" \in Files /\ "consent" \in Files /\ "patch" \in Files
      /\ "economic" \in Files
      /\ Nowhere.state = "absent"
  BY DEF TypeOK, Contents, Files, Nowhere
<1>1. CASE ReadMission
  <2>1. TypeOK'
    BY <1>0, <1>1, DirectoryTypes DEF ReadMission, TypeOK, verifyVars
  <2> QED
    BY <1>1, <2>1 DEF ReadMission, Complete, OldKept, Running, KilledLosesNothing,
                      ReturnedCoversBundle
<1>2. CASE ReadConsent
  <2>1. TypeOK'
    BY <1>0, <1>2 DEF ReadConsent, TypeOK, verifyVars
  <2> QED
    BY <1>2, <2>1 DEF ReadConsent, Complete, OldKept, UntilRemoval, Running,
                      KilledLosesNothing, ReturnedCoversBundle
<1>3. CASE ReadRecord
  <2>1. TypeOK'
    BY <1>0, <1>3 DEF ReadRecord, TypeOK, verifyVars
  <2> QED
    BY <1>3, <2>1 DEF ReadRecord, Complete, OldKept, UntilRemoval, Running,
                      KilledLosesNothing, ReturnedCoversBundle
<1>4. CASE Reject
  <2>1. TypeOK'
    BY <1>0, <1>4, DirectoryTypes DEF Reject, Quit, TypeOK, verifyVars
  <2> QED
    BY <1>4, <2>1 DEF Reject, Quit, Complete, OldKept, UntilRemoval, Running,
                      KilledLosesNothing, ReturnedCoversBundle
<1>5. CASE WriteFiles
  <2>1. [[Empty EXCEPT !["mission"] = mission] EXCEPT !["record"] = record] \in Contents
    BY <1>0, DirectoryTypes DEF TypeOK, Contents
  <2>2. temp' \in Directories /\ temp'.state = "partial"
    BY <1>5, <2>1, DirectoryTypes DEF WriteFiles, Directories, States
  <2>3. TypeOK'
    BY <1>0, <1>5, <2>2 DEF WriteFiles, TypeOK, verifyVars
  <2> QED
    BY <1>5, <2>3 DEF WriteFiles, Complete, OldKept, UntilRemoval, Running,
                      KilledLosesNothing, ReturnedCoversBundle
<1>6. CASE CopyConsent \/ CopyPatch \/ CopyEconomic
  <2>1. temp' \in Directories /\ temp'.state = temp.state
    <3>1. PICK f \in Files : temp' = [temp EXCEPT !.files[f] = source[f]]
      BY <1>0, <1>6 DEF CopyConsent, CopyPatch, CopyEconomic, Copied
    <3>2. source[f] \in {0} \cup Versions
      BY <1>0
    <3> DEFINE copy == [temp EXCEPT !.files[f] = source[f]]
    <3>3. [temp.files EXCEPT ![f] = source[f]] \in Contents
      BY <1>0, <3>2 DEF Directories, Contents
    <3>4. copy \in Directories /\ copy.state = temp.state
      BY <1>0, <3>3 DEF Directories
    <3> QED
      BY <3>1, <3>4
  <2>2. TypeOK'
    BY <1>0, <1>6, <2>1 DEF CopyConsent, CopyPatch, CopyEconomic, TypeOK, verifyVars
  <2> QED
    BY <1>6, <2>2 DEF CopyConsent, CopyPatch, CopyEconomic, Complete, OldKept, UntilRemoval, Running,
                      KilledLosesNothing, ReturnedCoversBundle
<1>7. CASE WriteManifest
  <2>1. temp' \in Directories /\ temp'.state = "whole" /\ temp'.manifest = temp'.files
    BY <1>0, <1>7, DirectoryTypes DEF WriteManifest
  <2>2. TypeOK'
    BY <1>0, <1>7, <2>1 DEF WriteManifest, TypeOK, verifyVars
  <2> QED
    BY <1>7, <2>1, <2>2 DEF WriteManifest, Complete, OldKept, UntilRemoval, Running,
                      KilledLosesNothing, ReturnedCoversBundle
<1>8. CASE RemoveOld
  <2>1. TypeOK'
    BY <1>0, <1>8, DirectoryTypes DEF RemoveOld, TypeOK, verifyVars
  <2> QED
    BY <1>8, <2>1 DEF RemoveOld, Complete, OldKept, UntilRemoval, Running,
                      KilledLosesNothing, ReturnedCoversBundle
<1>9. CASE RemoveOldFails
  <2>1. bundle' \in Directories /\ bundle'.state # "partial"
    <3>1. [bundle EXCEPT !.state = "torn"] \in Directories
          /\ [bundle EXCEPT !.state = "torn"].state = "torn"
      BY <1>0, DirectoryTypes DEF States
    <3> QED
      BY <1>0, <1>9, <3>1 DEF RemoveOldFails, TypeOK
  <2>2. TypeOK'
    BY <1>0, <1>9, <2>1 DEF RemoveOldFails, TypeOK, verifyVars
  <2> QED
    BY <1>9, <2>2 DEF RemoveOldFails, Complete, OldKept, UntilRemoval, Running,
                      KilledLosesNothing, ReturnedCoversBundle
<1>10. CASE Rename
  <2>1. temp.state = "whole" /\ temp.manifest = temp.files /\ temp.manifest \in Contents
    BY <1>0, <1>10 DEF Rename, Complete, Directories
  <2>2. TypeOK'
    BY <1>0, <1>10, <2>1, DirectoryTypes DEF Rename, TypeOK, verifyVars
  <2> QED
    BY <1>10, <2>1, <2>2 DEF Rename, Complete, OldKept, UntilRemoval, Running,
                      KilledLosesNothing, ReturnedCoversBundle
<1>11. CASE StepThrows
  <2>1. TypeOK'
    BY <1>0, <1>11 DEF StepThrows, TypeOK, verifyVars
  <2> QED
    BY <1>11, <2>1 DEF StepThrows, Complete, OldKept, UntilRemoval, Running,
                      KilledLosesNothing, ReturnedCoversBundle
<1>12. CASE Catch
  <2>1. TypeOK'
    BY <1>0, <1>12, DirectoryTypes DEF Catch, Quit, TypeOK, verifyVars
  <2> QED
    BY <1>12, <2>1 DEF Catch, Quit, Complete, OldKept, UntilRemoval, Running,
                      KilledLosesNothing, ReturnedCoversBundle
<1>13. CASE CatchFails
  <2>1. left' \in Directories
    BY <1>0, <1>13, DirectoryTypes DEF CatchFails, States
  <2>2. TypeOK'
    BY <1>0, <1>13, <2>1, DirectoryTypes DEF CatchFails, Quit, TypeOK, verifyVars
  <2> QED
    BY <1>13, <2>2 DEF CatchFails, Quit, Complete, OldKept, UntilRemoval, Running,
                      KilledLosesNothing, ReturnedCoversBundle
<1>14. CASE Crash
  <2>1. TypeOK'
    BY <1>0, <1>14, DirectoryTypes DEF Crash, Quit, TypeOK, verifyVars
  <2>2. had => "whole" \in {bundle.state, temp.state}
    BY <1>14 DEF Crash, OldKept, UntilRemoval, Complete, TypeOK
  <2> QED
    BY <1>14, <2>1, <2>2 DEF Crash, Quit, Complete, OldKept, UntilRemoval, Running,
                      KilledLosesNothing, ReturnedCoversBundle
<1> QED
  BY <1>1, <1>2, <1>3, <1>4, <1>5, <1>6, <1>7, <1>8, <1>9, <1>10, <1>11, <1>12, <1>13, <1>14
  DEF Create

\* The creator's invariant holds always.
LEMMA CreatorInvariant == Spec => []CInv
<1>1. CInv /\ [Next]_vars => CInv'
  <2> SUFFICES ASSUME CInv, [Next]_vars PROVE CInv'
    OBVIOUS
  <2>1. CASE UNCHANGED vars
    BY <2>1 DEF vars, createVars, verifyVars, CInv, TypeOK, Complete, OldKept, Running,
                KilledLosesNothing, ReturnedCoversBundle
  <2>2. CASE Next
    BY <2>2, CreatorSteps, OthersKeepCreator DEF Next
  <2> QED
    BY <2>1, <2>2
<1> QED
  BY <1>1, CreatorInit, PTL DEF Spec

-----------------------------------------------------------------------------
\* The undisturbed verifier's knowledge is kept by its own steps and by edits;
\* every step of the creator that changes the bundle disturbs it.
LEMMA VerifierSteps ==
  CInv /\ VInv /\ VerifiedIsSound /\ [Next]_vars => VInv' /\ VerifiedIsSound'
<1> SUFFICES ASSUME CInv, VInv, VerifiedIsSound, [Next]_vars
             PROVE  VInv' /\ VerifiedIsSound'
  OBVIOUS
<1>0. TypeOK
  BY DEF CInv
<1>1. CASE UNCHANGED vars
  BY <1>1 DEF vars, createVars, verifyVars, VInv, VerifiedIsSound
<1>2. ASSUME NEW f \in Files, Edit(f)
      PROVE  VInv' /\ VerifiedIsSound'
  <2>1. ~disturbed' => ~disturbed /\ source'["mission"] = source["mission"]
    BY <1>0, <1>2 DEF Edit, TypeOK, Contents, Files
  <2> QED
    BY <1>2, <2>1 DEF Edit, VInv, VerifiedIsSound, verifyVars
<1>3. CASE Create
  <2>1. UNCHANGED <<source, check, manifest, verdict>>
    BY <1>3 DEF Create, ReadMission, ReadConsent, ReadRecord, Reject, WriteFiles, CopyConsent,
                CopyPatch, CopyEconomic, WriteManifest, RemoveOld, RemoveOldFails, Rename,
                StepThrows, Catch, CatchFails, Crash, verifyVars
  <2>2. ~disturbed' => ~disturbed /\ bundle' = bundle
    BY <1>3 DEF Create, ReadMission, ReadConsent, ReadRecord, Reject, WriteFiles, CopyConsent,
                CopyPatch, CopyEconomic, WriteManifest, RemoveOld, RemoveOldFails, Rename,
                StepThrows, Catch, CatchFails, Crash
  <2> QED
    BY <2>1, <2>2 DEF VInv, VerifiedIsSound
<1>4. CASE ReadManifest
  BY <1>4 DEF ReadManifest, Conclude, VInv, VerifiedIsSound
<1>5. CASE HashFiles
  BY <1>5 DEF HashFiles, Conclude, Intact, VInv, VerifiedIsSound
<1>6. CASE CheckSemantics
  <2>1. CASE ~disturbed /\ verdict' = "ok"
    <3>1. /\ bundle.state = "whole" /\ bundle.files = bundle.manifest
          /\ bundle.files["mission"] = source["mission"]
          /\ Agrees(bundle.files)
      BY <1>6, <2>1 DEF CheckSemantics, Conclude, VInv
    <3>2. \A f \in {"mission", "consent", "record"} : bundle.files[f] = source["mission"]
      BY <3>1 DEF Agrees, Consents
    <3>3. bundle.files["patch"] # 0 <=> source["mission"] \in Patched
      BY <3>1 DEF Agrees, PatchFits
    <3>4. bundle.files["economic"] \in {0, source["mission"]}
      BY <3>1 DEF Agrees, Accounts
    <3> QED
      BY <1>6, <3>1, <3>2, <3>3, <3>4 DEF CheckSemantics, Conclude, VInv, VerifiedIsSound
  <2>2. CASE disturbed \/ verdict' # "ok"
    BY <1>6, <2>2 DEF CheckSemantics, Conclude, VInv, VerifiedIsSound
  <2> QED
    BY <2>1, <2>2
<1> QED
  BY <1>1, <1>2, <1>3, <1>4, <1>5, <1>6 DEF Next, Verify

-----------------------------------------------------------------------------
\* Every variable keeps its type; in particular a half-written directory never
\* takes the bundle's place, and a call that is over has no temporary directory.
THEOREM TypeCorrect == Spec => []TypeOK
BY CreatorInvariant, PTL DEF CInv

\* The digest a successful creation returned covers every file of the bundle,
\* until the next call of createBundle.
THEOREM DigestCoversBundle == Spec => []ReturnedCoversBundle
BY CreatorInvariant, PTL DEF CInv

\* Killed at any await of createBundle, a mission that had a bundle has a
\* complete one, in its place or in the temporary directory left behind.
THEOREM KilledKeepsBundle == Spec => []KilledLosesNothing
BY CreatorInvariant, PTL DEF CInv

\* A complete bundle is removed or damaged only when its replacement is complete.
THEOREM OldGoesForAnother == Spec => GoesForAnother
<1>1. CInv /\ [Next]_vars =>
        [bundle.state = "whole" /\ bundle' # bundle => temp.state = "whole"]_vars
  <2> SUFFICES ASSUME CInv, Next, bundle' # bundle
               PROVE  temp.state = "whole"
    BY DEF vars
  <2>1. RemoveOld \/ RemoveOldFails \/ Rename
    BY DEF Next, Edit, Verify, ReadManifest, HashFiles, CheckSemantics, Create, ReadMission,
           ReadConsent, ReadRecord, Reject, WriteFiles, CopyConsent, CopyPatch, CopyEconomic,
           WriteManifest, StepThrows, Catch, CatchFails, Crash
  <2>2. pc \in {"rmOld", "rename"}
    BY <2>1 DEF RemoveOld, RemoveOldFails, Rename
  <2> QED
    BY <2>2 DEF CInv, Complete
<1> QED
  BY <1>1, CreatorInvariant, PTL DEF Spec, GoesForAnother

\* A good verdict of an undisturbed verification means a whole bundle of files
\* that belong to the mission next to it, whatever was edited before.
THEOREM GoodVerdictIsSound == Spec => []VerifiedIsSound
<1>1. Init => VInv /\ VerifiedIsSound
  BY DEF Init, VInv, VerifiedIsSound
<1> QED
  BY <1>1, VerifierSteps, CreatorInvariant, PTL DEF Spec
-----------------------------------------------------------------------------
\* What an action that leaves the bundle alone cannot change in a directory: it
\* comes from a run of an input that passed the gate and every later check.
FromRun ==
  disk # None =>
    LET published == Published(ran.input, ran.run, ran.input.patch, disk.digest) IN
    /\ Gate(ran.input) /\ LateChecks(ran.input, ran.run)
    /\ ran.run.commands = ran.input.mission.commands /\ ran.run.install = ran.input.install
    /\ \A f \in {"bundled", "consent", "patch", "snapshot", "economic", "run"} :
         disk[f] = published[f]

\* Unless somebody edits it, only the envelope of mission.json is written, and
\* with nothing but a release tag.
Unedited ==
  disk # None /\ edited = 0 =>
    /\ \A f \in DOMAIN disk.top \ Envelope : disk.top[f] = disk.bundled[f]
    /\ disk.top.uri \in Tags \cup {None}

\* A tag with a digest is that of its bundle.
TagsAreNames == \A t \in DOMAIN assets : t # Legacy => assets[t] = t

\* An attestation somebody wrote down for a bundle is that of the bundle.
Attests(uri, digest) == uri # None => uri \in DOMAIN assets /\ assets[uri] = digest

\* What the publisher saw is past, and is about the bundle that is there or
\* about one that was there before its run ended.
Seen ==
  draft # None =>
    /\ draft.digest <= runs /\ Attests(draft.uri, draft.digest)
    /\ steady => draft.at <= clock
    /\ disk # None =>
         IF draft.digest = disk.digest THEN draft.economic = disk.economic
         ELSE steady => draft.at < disk.run.finished

\* The same of what it wrote.
Written ==
  disk # None =>
    /\ disk.publication # None =>
         Attests(disk.publication.uri, disk.publication.digest)
    /\ disk.approval # None =>
         IF disk.approval.for = disk.digest THEN ApprovalFits(disk.approval, disk.economic)
         ELSE steady => disk.approval.at < disk.run.finished

RecordInv ==
  RecordTypeOK /\ FromRun /\ Unedited /\ TagsAreNames /\ Seen /\ Written /\ ~wasted

-----------------------------------------------------------------------------
\* An envelope cut off changes nothing else.
LEMMA FreshFields ==
  ASSUME NEW m \in MissionRecords
  PROVE  /\ Fresh(m) \in MissionRecords /\ DOMAIN Fresh(m) = DOMAIN m
         /\ Fresh(m).digest = None /\ Fresh(m).uri = None
         /\ \A f \in DOMAIN m \ Envelope : Fresh(m)[f] = m[f]
BY DEF Fresh, MissionRecords, Missions, Envelope

\* mission.json with a new envelope: nothing else has changed.
Enveloped(m, digest, uri) == [m EXCEPT !.digest = digest, !.uri = uri]

\* An envelope that is written changes nothing else.
LEMMA EnvelopeFields ==
  ASSUME NEW m \in MissionRecords, NEW d \in Digests, NEW u \in Tags \cup {None}
  PROVE  /\ Enveloped(m, d, u) \in MissionRecords
         /\ Enveloped(m, d, u).uri = u /\ DOMAIN Enveloped(m, d, u) = DOMAIN m
         /\ \A f \in DOMAIN m \ Envelope : Enveloped(m, d, u)[f] = m[f]
<1>1. d \in Tags \cup {None} /\ u \in Tags \cup {None, Elsewhere}
  BY DEF Tags
<1>2. Enveloped(m, d, u) \in MissionRecords
  <2>1. [m EXCEPT !.digest = d] \in MissionRecords
    BY <1>1 DEF MissionRecords, Missions
  <2>2. \A l \in MissionRecords : [l EXCEPT !.uri = u] \in MissionRecords
    BY <1>1 DEF MissionRecords, Missions
  <2> QED
    BY <2>1, <2>2 DEF Enveloped
<1>3. /\ Enveloped(m, d, u).uri = u /\ DOMAIN Enveloped(m, d, u) = DOMAIN m
      /\ \A f \in DOMAIN m \ Envelope : Enveloped(m, d, u)[f] = m[f]
  BY DEF MissionRecords, Missions, Envelope, Enveloped
<1> QED
  BY <1>2, <1>3

\* An edit that suits one mission suits them all.
LEMMA EditedTypes ==
  ASSUME NEW input \in Inputs, NEW m \in MissionRecords, NEW change \in Edits
  PROVE  [m EXCEPT ![change[1]] = change[2]] \in MissionRecords
<1>1. /\ input.mission \in MissionRecords
      /\ [input.mission EXCEPT ![change[1]] = change[2]] \in MissionRecords
  BY RecordAssumption DEF InputRecords
<1> QED
  BY <1>1 DEF MissionRecords, Missions

\* What is written into economic.json after a run fits its format, and what it
\* says about the task and the costs is as before.
LEMMA FinalizedTypes ==
  ASSUME NEW e \in EconomicRecords, NEW run \in Runs
  PROVE  /\ Finalize(e, run) \in EconomicRecords /\ Finalize(e, run) # None
         /\ Finalize(e, run).usage = UsageOf(run) /\ UsageOf(run) \in Usages
         /\ \A f \in DOMAIN e \ {"usage"} : Finalize(e, run)[f] = e[f]
         /\ {"issue", "checks", "attempts", "attempt", "snapshot", "cap", "costs"}
              \subseteq DOMAIN e \ {"usage"}
<1>1. UsageOf(run) \in Usages
  BY DEF Runs, UsageOf, Usages, Measured, Larger, Elapsed
<1>2. Finalize(e, run) \in EconomicRecords
  BY <1>1 DEF Finalize, EconomicRecords
<1> QED
  BY <1>1, <1>2, RecordAssumption DEF Finalize, EconomicRecords

\* A run the executor reports is a run of the input's commands.
LEMMA RunTypes ==
  ASSUME RecordTypeOK, NEW input \in Inputs,
         NEW applied \in IF input.patch = None THEN {None} ELSE Patches,
         NEW run \in RunsOf(input, applied)
  PROVE  /\ run \in Runs /\ run.commands = input.mission.commands /\ run.install = input.install
         /\ run.started = clock /\ run.setup = 1
         /\ input \in InputRecords /\ input.mission \in MissionRecords
<1>1. input \in InputRecords /\ input.mission \in MissionRecords
  BY RecordAssumption DEF InputRecords
<1>2. input.mission.commands \in Seq(STRING)
  <2>1. input.mission.commands \in Seq(DOMAIN Redacted)
    BY <1>1 DEF MissionRecords, Missions
  <2>2. DOMAIN Redacted \subseteq STRING
    BY RecordAssumption
  <2> QED
    BY <2>1, <2>2
<1>3. input.install \in SUBSET STRING
  BY <1>1 DEF InputRecords
<1> QED
  BY <1>1, <1>2, <1>3, RecordAssumption DEF RunsOf, Runs, RecordTypeOK

\* The checks after a run find nothing in economic input that the gate let
\* through, unless the clock was set back: only a consent file, the code, or
\* the commands can make a run fail.
LEMMA LateChecksAreNotLate ==
  ASSUME NEW input \in InputRecords, NEW run \in Runs, run.setup = 1,
         Gate(input), WentWell(input, run), BundleAccepts(input, run)
  PROVE  LateChecks(input, run)
<1> DEFINE e == Finalize(input.economic, run)
<1>1. CASE input.economic = None
  BY <1>1 DEF LateChecks, WentWell
<1>2. CASE input.economic # None
  <2>1. input.economic \in EconomicRecords
    BY <1>2 DEF InputRecords
  <2>2. /\ e.usage = UsageOf(run)
        /\ \A f \in DOMAIN input.economic \ {"usage"} : e[f] = input.economic[f]
        /\ {"issue", "checks", "attempts", "attempt", "costs"}
             \subseteq DOMAIN input.economic \ {"usage"}
        /\ UsageOf(run) \in Usages
    BY <2>1, FinalizedTypes
  <2>3. FitsMission(input.economic, input.mission)
    BY <1>2 DEF Gate
  <2>4. ValidUsage(e.usage)
    BY <2>2 DEF ValidUsage, Usages, Measured
  <2>5. ValidLineage(e) /\ ValidCosts(e.costs)
    BY <2>2, <2>3 DEF FitsMission, ValidAlone, ValidLineage
  <2>6. FitsMission(e, input.mission)
    BY <2>2, <2>3, <2>4, <2>5 DEF FitsMission, ValidAlone
  <2>7. FitsRun(e, run)
    <3>1. Elapsed(run) \in Nat /\ Larger(0, Elapsed(run)) = Elapsed(run)
      BY DEF WentWell, Elapsed, Larger, Runs
    <3> QED
      BY <2>2, <3>1 DEF FitsRun, UsageOf
  <2> QED
    BY <1>2, <2>6, <2>7 DEF LateChecks, WentWell
<1> QED
  BY <1>1, <1>2

\* A published directory has its type.
LEMMA PublishedTypes ==
  ASSUME NEW input \in InputRecords, NEW run \in Runs, NEW d \in Digests,
         run.commands = input.mission.commands
  PROVE  Published(input, run, input.patch, d) \in MissionDirs
<1>1. Fresh(input.mission) \in MissionRecords
  BY FreshFields DEF InputRecords
<1>2. (IF input.economic = None THEN None ELSE Finalize(input.economic, run))
        \in EconomicRecords \cup {None}
  BY FinalizedTypes DEF InputRecords
<1>3. [run EXCEPT !.commands = [i \in DOMAIN @ |-> Redacted[@[i]]]] \in Runs
  <2>1. run.commands \in Seq(DOMAIN Redacted)
    BY DEF InputRecords, MissionRecords, Missions
  <2>2. [i \in DOMAIN run.commands |-> Redacted[run.commands[i]]] \in Seq(STRING)
    BY <2>1, RecordAssumption
  <2> QED
    BY <2>2 DEF Runs
<1> QED
  BY <1>1, <1>2, <1>3 DEF Published, MissionDirs, InputRecords

-----------------------------------------------------------------------------
\* The invariant holds at first.
LEMMA RecordInit == InitRecord => RecordInv
<1> SUFFICES ASSUME InitRecord PROVE RecordInv
  OBVIOUS
<1>1. DOMAIN assets = {}
  BY DEF InitRecord
<1>2. /\ disk = None /\ draft = None /\ wasted = FALSE /\ steady = TRUE
      /\ runs \in 0..MaxRuns /\ clock \in Int /\ edited \in 0..MaxEdited
  BY RecordAssumption DEF InitRecord
<1>3. RecordTypeOK
  BY <1>1, <1>2 DEF RecordTypeOK
<1> QED
  BY <1>1, <1>2, <1>3 DEF RecordInv, FromRun, Unedited, TagsAreNames, Seen, Written

\* A run keeps it: what was seen or written before is about an earlier bundle
\* and, on a clock that moves, earlier than the end of the run.
LEMMA RunKeeps ==
  ASSUME RecordInv, NEW input \in Inputs, RunPipeline(input)
  PROVE  RecordInv'
<1>1. PICK applied \in IF input.patch = None THEN {None} ELSE Patches :
      \E run \in RunsOf(input, applied) :
       /\ clock' = run.finished
       /\ runs' = runs + 1
       /\ steady' = (steady /\ Elapsed(run) > 0)
       /\ IF LateChecks(input, run)
            THEN /\ disk' = Published(input, run, input.patch, runs')
                 /\ ran' = [input |-> input, run |-> run]
                 /\ edited' = 0
                 /\ UNCHANGED wasted
            ELSE /\ wasted' = (wasted \/ (WentWell(input, run) /\ BundleAccepts(input, run)))
                 /\ UNCHANGED <<disk, ran, edited>>
  BY DEF RunPipeline
<1>2. PICK run \in RunsOf(input, applied) :
       /\ clock' = run.finished
       /\ runs' = runs + 1
       /\ steady' = (steady /\ Elapsed(run) > 0)
       /\ IF LateChecks(input, run)
            THEN /\ disk' = Published(input, run, input.patch, runs')
                 /\ ran' = [input |-> input, run |-> run]
                 /\ edited' = 0
                 /\ UNCHANGED wasted
            ELSE /\ wasted' = (wasted \/ (WentWell(input, run) /\ BundleAccepts(input, run)))
                 /\ UNCHANGED <<disk, ran, edited>>
  BY <1>1
<1>3. /\ run \in Runs /\ run.commands = input.mission.commands /\ run.install = input.install
      /\ run.started = clock /\ run.setup = 1
      /\ input \in InputRecords /\ input.mission \in MissionRecords
  BY RunTypes DEF RecordInv
<1>4. /\ runs \in Nat /\ runs' = runs + 1 /\ runs' \in Digests /\ runs' \in 0..MaxRuns
      /\ Gate(input) /\ UNCHANGED <<assets, draft>>
  BY <1>2, RecordAssumption DEF RunPipeline, RecordInv, RecordTypeOK, Digests
<1>5. clock \in Int /\ clock' \in Int /\ run.finished \in Int /\ steady' \in BOOLEAN
      /\ (steady' => steady /\ clock < run.finished)
  BY <1>2, <1>3 DEF RecordInv, RecordTypeOK, Runs, Elapsed
<1>6. CASE LateChecks(input, run)
  <2>1. /\ disk' = Published(input, run, input.patch, runs')
        /\ ran' = [input |-> input, run |-> run] /\ edited' = 0 /\ wasted' = wasted
    BY <1>2, <1>6
  <2>2. disk' \in MissionDirs
    BY <1>3, <1>4, <2>1, PublishedTypes
  <2>3. /\ disk'.digest = runs' /\ disk'.publication = None /\ disk'.approval = None
        /\ disk'.top = Fresh(input.mission) /\ disk'.bundled = Fresh(input.mission)
        /\ disk'.run.finished = run.finished
    BY <1>3, <2>1 DEF Published, Runs
  <2>4. ValidMission(disk'.bundled) /\ disk'.bundled.digest = None /\ disk'.bundled.uri = None
    BY <1>3, <1>6, <2>3, FreshFields DEF LateChecks, BundleAccepts
  <2>5. RecordTypeOK'
    <3>1. {disk'.bundled[f] : f \in Envelope} = {None}
      BY <2>4 DEF Envelope
    <3>2. runs' \in 1..runs' /\ edited' \in 0..MaxEdited
      BY <1>4, <2>1, RecordAssumption
    <3>3. ran' \in [input : Inputs, run : Runs]
      BY <1>3, <2>1
    <3>4. {wasted', steady'} \subseteq BOOLEAN
      BY <1>5, <2>1 DEF RecordInv, RecordTypeOK
    <3>5. /\ DOMAIN assets' \subseteq Tags /\ \A t \in DOMAIN assets' : assets'[t] \in Digests
          /\ draft' \in Drafts \cup {None}
      BY <1>4 DEF RecordInv, RecordTypeOK
    <3> QED
      BY <1>4, <1>5, <2>2, <2>3, <2>4, <3>1, <3>2, <3>3, <3>4, <3>5 DEF RecordTypeOK
  <2>6. FromRun'
    BY <1>3, <1>4, <1>6, <2>1, <2>3 DEF FromRun
  <2>7. Unedited'
    BY <1>3, <2>3, <2>4, FreshFields DEF Unedited
  <2>8. TagsAreNames'
    BY <1>4 DEF RecordInv, TagsAreNames
  <2>9. Seen'
    <3>1. ASSUME draft # None
          PROVE  /\ draft.digest \in Nat /\ draft.at \in Int
                 /\ draft.digest <= runs /\ Attests(draft.uri, draft.digest)
                 /\ steady => draft.at <= clock
      BY <3>1 DEF RecordInv, RecordTypeOK, Drafts, Digests, Seen
    <3> QED
      BY <1>2, <1>4, <1>5, <2>3, <3>1 DEF Seen, Attests
  <2>10. Written'
    BY <2>3 DEF Written
  <2> QED
    BY <2>1, <2>5, <2>6, <2>7, <2>8, <2>9, <2>10 DEF RecordInv
<1>7. CASE ~LateChecks(input, run)
  <2>1. UNCHANGED <<disk, ran, edited, wasted>>
    <3>1. ~(WentWell(input, run) /\ BundleAccepts(input, run))
      BY <1>3, <1>4, <1>7, LateChecksAreNotLate
    <3>2. wasted = FALSE
      BY DEF RecordInv, RecordTypeOK
    <3>3. wasted' = FALSE
      BY <1>2, <1>7, <3>1, <3>2, Zenon
    <3> QED
      BY <1>2, <1>7, <3>2, <3>3
  <2>2. RecordTypeOK'
    BY <1>4, <1>5, <2>1 DEF RecordInv, RecordTypeOK
  <2>3. FromRun' /\ Unedited' /\ TagsAreNames' /\ Written'
    BY <1>4, <1>5, <2>1 DEF RecordInv, FromRun, Unedited, TagsAreNames, Written, Attests
  <2>4. Seen'
    BY <1>2, <1>4, <1>5, <2>1 DEF RecordInv, RecordTypeOK, Seen, Attests, Drafts, Digests
  <2> QED
    BY <2>1, <2>2, <2>3, <2>4 DEF RecordInv
<1> QED
  BY <1>6, <1>7

\* Signing: a tag with a digest is new, as no asset holds the bundle yet, and
\* the other tag is taken only while there is no asset at all.
LEMMA SignKeeps ==
  ASSUME RecordInv, Sign
  PROVE  RecordInv'
<1>1. /\ disk # None /\ disk.digest \notin Range(assets)
      /\ UNCHANGED <<disk, runs, ran, wasted, steady, clock, draft, edited>>
  BY DEF Sign, Live, history
<1>2. PICK tag \in {Legacy, disk.digest} :
        /\ assets' = [t \in DOMAIN assets \cup {tag} |-> IF t = tag THEN disk.digest ELSE assets[t]]
        /\ tag = Legacy => tag = disk.digest \/ assets = <<>>
  BY DEF Sign
<1>3. disk \in MissionDirs /\ disk.digest \in Digests /\ disk.digest # Legacy
  BY <1>1, RecordAssumption DEF RecordInv, RecordTypeOK, MissionDirs
<1>4. tag \notin DOMAIN assets
  <2>1. CASE tag = Legacy
    BY <1>2, <1>3, <2>1
  <2>2. CASE tag = disk.digest
    <3>1. tag \in DOMAIN assets => assets[tag] = disk.digest
      BY <1>3, <2>2 DEF RecordInv, TagsAreNames
    <3> QED
      BY <1>1, <3>1 DEF Range
  <2> QED
    BY <2>1, <2>2
<1>5. /\ DOMAIN assets' = {tag} \cup DOMAIN assets /\ assets'[tag] = disk.digest
      /\ \A t \in DOMAIN assets : assets'[t] = assets[t]
  BY <1>2, <1>4
<1>6. RecordTypeOK'
  <2>1. DOMAIN assets' \subseteq Tags /\ \A t \in DOMAIN assets' : assets'[t] \in Digests
    BY <1>2, <1>3, <1>5 DEF RecordInv, RecordTypeOK, Tags
  <2> QED
    BY <1>1, <2>1 DEF RecordInv, RecordTypeOK
<1>7. FromRun' /\ Unedited'
  BY <1>1 DEF RecordInv, FromRun, Unedited
<1>8. TagsAreNames'
  BY <1>2, <1>5 DEF RecordInv, TagsAreNames
<1>9. \A uri, digest : Attests(uri, digest) => Attests(uri, digest)'
  BY <1>4, <1>5 DEF Attests
<1>10. Seen' /\ Written'
  BY <1>1, <1>9 DEF RecordInv, Seen, Written
<1> QED
  BY <1>1, <1>6, <1>7, <1>8, <1>10 DEF RecordInv

\* The publisher sees the bundle that is there, now.
LEMMA ObserveKeeps ==
  ASSUME RecordInv, Observe
  PROVE  RecordInv'
<1>1. disk # None /\ UNCHANGED <<disk, runs, ran, wasted, steady, clock, assets, edited>>
  BY DEF Observe, history
<1>2. PICK tag \in {None} \cup {t \in DOMAIN assets : assets[t] = disk.digest} :
        draft' = [digest |-> disk.digest, uri |-> tag, at |-> clock, economic |-> disk.economic]
  BY DEF Observe
<1>3. disk \in MissionDirs /\ disk.digest \in 1..runs /\ runs \in Nat /\ clock \in Int
  BY <1>1 DEF RecordInv, RecordTypeOK
<1>4. RecordTypeOK'
  <2>1. tag \in Tags \cup {None}
    BY DEF RecordInv, RecordTypeOK
  <2>2. draft' \in Drafts
    BY <1>2, <1>3, <2>1 DEF Drafts, MissionDirs
  <2> QED
    BY <1>1, <2>2 DEF RecordInv, RecordTypeOK
<1>5. FromRun' /\ Unedited' /\ TagsAreNames' /\ Written'
  BY <1>1 DEF RecordInv, FromRun, Unedited, TagsAreNames, Written, Attests
<1>6. Seen'
  BY <1>1, <1>2, <1>3 DEF Seen, Attests
<1> QED
  BY <1>1, <1>4, <1>5, <1>6 DEF RecordInv

\* The publisher writes publication.json, of the bundle it saw.
LEMMA PublishKeeps ==
  ASSUME RecordInv, Publish
  PROVE  RecordInv'
<1>1. /\ disk # None /\ draft # None
      /\ UNCHANGED <<runs, ran, wasted, steady, clock, assets, draft, edited>>
  BY DEF Publish, history
<1>2. PICK request \in PullRequests :
        disk' = [disk EXCEPT !.publication =
                  [digest |-> draft.digest, uri |-> draft.uri, state |-> request.state,
                   head |-> request.head, drift |-> request.drift, end |-> request.end]]
  BY DEF Publish
<1>3. disk \in MissionDirs /\ draft \in Drafts
  BY <1>1 DEF RecordInv, RecordTypeOK
<1>4. /\ disk' \in MissionDirs
      /\ disk'.publication.digest = draft.digest /\ disk'.publication.uri = draft.uri
      /\ \A f \in DOMAIN disk \ {"publication"} : disk'[f] = disk[f]
  <2>1. [digest |-> draft.digest, uri |-> draft.uri, state |-> request.state,
         head |-> request.head, drift |-> request.drift, end |-> request.end] \in Publications
    BY <1>3, RecordAssumption DEF Drafts, Publications
  <2> QED
    BY <1>2, <1>3, <2>1 DEF MissionDirs
<1>5. /\ disk'.top = disk.top /\ disk'.bundled = disk.bundled /\ disk'.consent = disk.consent
      /\ disk'.patch = disk.patch /\ disk'.snapshot = disk.snapshot
      /\ disk'.economic = disk.economic /\ disk'.run = disk.run /\ disk'.digest = disk.digest
      /\ disk'.approval = disk.approval
  BY <1>3, <1>4 DEF MissionDirs
<1>6. RecordTypeOK'
  BY <1>1, <1>4, <1>5 DEF RecordInv, RecordTypeOK
<1>7. FromRun' /\ Unedited' /\ TagsAreNames'
  BY <1>1, <1>5 DEF RecordInv, FromRun, Unedited, TagsAreNames
<1>8. Seen' /\ Written'
  BY <1>1, <1>4, <1>5 DEF RecordInv, Seen, Written, Attests
<1> QED
  BY <1>1, <1>6, <1>7, <1>8 DEF RecordInv

\* An approval of the bundle it saw fits what the bundle says of the task.
LEMMA ApproveKeeps ==
  ASSUME RecordInv, Approve
  PROVE  RecordInv'
<1>1. /\ disk # None /\ draft # None /\ draft.economic # None
      /\ UNCHANGED <<runs, ran, wasted, steady, clock, assets, draft, edited>>
      /\ disk' = [disk EXCEPT !.approval =
                    [for |-> draft.digest, at |-> draft.at,
                     issue |-> draft.economic.issue, cap |-> draft.economic.cap]]
  BY DEF Approve, history
<1>2. disk \in MissionDirs /\ draft \in Drafts
  BY <1>1 DEF RecordInv, RecordTypeOK
<1>3. /\ disk' \in MissionDirs
      /\ disk'.approval = [for |-> draft.digest, at |-> draft.at,
                           issue |-> draft.economic.issue, cap |-> draft.economic.cap]
      /\ disk'.top = disk.top /\ disk'.bundled = disk.bundled /\ disk'.consent = disk.consent
      /\ disk'.patch = disk.patch /\ disk'.snapshot = disk.snapshot
      /\ disk'.economic = disk.economic /\ disk'.run = disk.run /\ disk'.digest = disk.digest
      /\ disk'.publication = disk.publication
  <2>1. draft.economic \in EconomicRecords
    BY <1>1, <1>2 DEF Drafts
  <2>2. [for |-> draft.digest, at |-> draft.at,
         issue |-> draft.economic.issue, cap |-> draft.economic.cap] \in Approvals
    BY <1>2, <2>1 DEF Drafts, Approvals, EconomicRecords
  <2> QED
    BY <1>1, <1>2, <2>2 DEF MissionDirs
<1>4. RecordTypeOK'
  BY <1>1, <1>3 DEF RecordInv, RecordTypeOK
<1>5. FromRun' /\ Unedited' /\ TagsAreNames'
  BY <1>1, <1>3 DEF RecordInv, FromRun, Unedited, TagsAreNames
<1>6. Seen'
  BY <1>1, <1>3 DEF RecordInv, Seen, Attests
<1>7. Written'
  <2>1. IF draft.digest = disk.digest THEN draft.economic = disk.economic
        ELSE steady => draft.at < disk.run.finished
    BY <1>1 DEF RecordInv, Seen
  <2>2. IF disk'.approval.for = disk'.digest THEN ApprovalFits(disk'.approval, disk'.economic)
        ELSE steady' => disk'.approval.at < disk'.run.finished
    BY <1>1, <1>3, <2>1 DEF ApprovalFits
  <2>3. disk'.publication # None /\ disk'.publication.uri # None =>
          /\ disk'.publication.uri \in DOMAIN assets'
          /\ assets'[disk'.publication.uri] = disk'.publication.digest
    BY <1>1, <1>3 DEF RecordInv, Written, Attests
  <2> QED
    BY <2>2, <2>3 DEF Written, Attests
<1> QED
  BY <1>1, <1>4, <1>5, <1>6, <1>7 DEF RecordInv

\* The envelope of mission.json is written with a digest and a tag.
LEMMA EnvelopeKeeps ==
  ASSUME RecordInv, RecordEnvelope
  PROVE  RecordInv'
<1>1. /\ disk # None /\ draft # None
      /\ UNCHANGED <<runs, ran, wasted, steady, clock, assets, draft, edited>>
      /\ disk' = [disk EXCEPT !.top.digest = draft.digest, !.top.uri = draft.uri]
  BY DEF RecordEnvelope, history
<1>2. disk \in MissionDirs /\ draft \in Drafts
  BY <1>1 DEF RecordInv, RecordTypeOK
<1> DEFINE top == Enveloped(disk.top, draft.digest, draft.uri)
<1>3. /\ top \in MissionRecords /\ top.uri = draft.uri /\ DOMAIN top = DOMAIN disk.top
      /\ \A f \in DOMAIN disk.top \ Envelope : top[f] = disk.top[f]
      /\ draft.uri \in Tags \cup {None}
  <2>1. disk.top \in MissionRecords /\ draft.digest \in Digests /\ draft.uri \in Tags \cup {None}
    BY <1>2 DEF MissionDirs, Drafts
  <2> QED
    BY <2>1, EnvelopeFields
<1>4. disk' = [disk EXCEPT !.top = top]
  BY <1>1, <1>2 DEF MissionDirs, Enveloped
<1> HIDE DEF top
<1>5. /\ disk' \in MissionDirs /\ disk'.top = top
      /\ disk'.bundled = disk.bundled /\ disk'.consent = disk.consent
      /\ disk'.patch = disk.patch /\ disk'.snapshot = disk.snapshot
      /\ disk'.economic = disk.economic /\ disk'.run = disk.run /\ disk'.digest = disk.digest
      /\ disk'.publication = disk.publication /\ disk'.approval = disk.approval
  BY <1>2, <1>3, <1>4 DEF MissionDirs
<1>6. RecordTypeOK'
  BY <1>1, <1>5 DEF RecordInv, RecordTypeOK
<1>7. FromRun' /\ TagsAreNames'
  BY <1>1, <1>5 DEF RecordInv, FromRun, TagsAreNames
<1>8. Unedited'
  BY <1>1, <1>3, <1>5 DEF RecordInv, Unedited
<1>9. Seen' /\ Written'
  BY <1>1, <1>5 DEF RecordInv, Seen, Written, Attests
<1> QED
  BY <1>1, <1>6, <1>7, <1>8, <1>9 DEF RecordInv

\* An edit of mission.json.
LEMMA EditKeeps ==
  ASSUME RecordInv, NEW change \in Edits, EditMission(change)
  PROVE  RecordInv'
<1>1. /\ disk # None /\ edited < MaxEdited /\ edited' = edited + 1
      /\ UNCHANGED <<runs, ran, wasted, steady, clock, assets, draft>>
      /\ disk' = [disk EXCEPT !.top[change[1]] = change[2]]
  BY DEF EditMission, history
<1>2. disk \in MissionDirs /\ ran.input \in Inputs /\ edited \in 0..MaxEdited
  BY <1>1 DEF RecordInv, RecordTypeOK
<1> DEFINE top == [disk.top EXCEPT ![change[1]] = change[2]]
<1>3. top \in MissionRecords
  BY <1>2, EditedTypes DEF MissionDirs
<1>4. disk' = [disk EXCEPT !.top = top]
  BY <1>1, <1>2 DEF MissionDirs
<1> HIDE DEF top
<1>5. /\ disk' \in MissionDirs
      /\ disk'.bundled = disk.bundled /\ disk'.consent = disk.consent
      /\ disk'.patch = disk.patch /\ disk'.snapshot = disk.snapshot
      /\ disk'.economic = disk.economic /\ disk'.run = disk.run /\ disk'.digest = disk.digest
      /\ disk'.publication = disk.publication /\ disk'.approval = disk.approval
  BY <1>2, <1>3, <1>4 DEF MissionDirs
<1>6. edited' \in 1..MaxEdited /\ edited' # 0
  BY <1>1, <1>2, RecordAssumption
<1>7. RecordTypeOK'
  BY <1>1, <1>5, <1>6 DEF RecordInv, RecordTypeOK
<1>8. FromRun' /\ Unedited' /\ TagsAreNames'
  BY <1>1, <1>5, <1>6 DEF RecordInv, FromRun, Unedited, TagsAreNames
<1>9. Seen' /\ Written'
  BY <1>1, <1>5 DEF RecordInv, Seen, Written, Attests
<1> QED
  BY <1>1, <1>7, <1>8, <1>9 DEF RecordInv

\* The invariant holds always.
LEMMA RecordInvariant == RecordSpec => []RecordInv
<1>1. RecordInv /\ [NextRecord]_recordVars => RecordInv'
  <2> SUFFICES ASSUME RecordInv, [NextRecord]_recordVars PROVE RecordInv'
    OBVIOUS
  <2>1. CASE FirstRun \/ Rerun
    <3>1. PICK input \in Inputs : RunPipeline(input)
      BY <2>1, RecordAssumption DEF FirstRun, Rerun
    <3> QED
      BY <3>1, RunKeeps
  <2>2. CASE \E change \in Edits : EditMission(change)
    BY <2>2, EditKeeps
  <2>3. CASE UNCHANGED recordVars
    BY <2>3 DEF recordVars, history, RecordInv, RecordTypeOK, FromRun, Unedited, TagsAreNames,
                Seen, Written, Attests
  <2> QED
    BY <2>1, <2>2, <2>3, SignKeeps, ObserveKeeps, PublishKeeps, ApproveKeeps, EnvelopeKeeps
    DEF NextRecord
<1> QED
  BY <1>1, RecordInit, PTL DEF RecordSpec

-----------------------------------------------------------------------------
\* What the files next to mission.json say, as they were published.
LEMMA PublishedFields ==
  ASSUME RecordInv, disk # None
  PROVE  /\ disk \in MissionDirs /\ ran.input \in InputRecords /\ ran.run \in Runs
         /\ ran.input.mission \in MissionRecords
         /\ Gate(ran.input) /\ LateChecks(ran.input, ran.run)
         /\ ran.run.commands = ran.input.mission.commands /\ ran.run.install = ran.input.install
         /\ disk.bundled = Fresh(ran.input.mission) /\ disk.patch = ran.input.patch
         /\ disk.consent = ran.input.consent /\ disk.snapshot = ran.input.snapshot
         /\ disk.economic = IF ran.input.economic = None THEN None
                            ELSE Finalize(ran.input.economic, ran.run)
         /\ disk.run = [ran.run EXCEPT !.commands = [i \in DOMAIN @ |-> Redacted[@[i]]]]
         /\ disk.run.source = ran.run.source /\ disk.run.applied = ran.run.applied
         /\ disk.run.passed = ran.run.passed /\ disk.run.started = ran.run.started
         /\ disk.run.finished = ran.run.finished /\ disk.run.setup = ran.run.setup
         /\ disk.run.declared = ran.run.declared /\ disk.run.install = ran.run.install
         /\ disk.run.commands =
              [i \in DOMAIN ran.input.mission.commands |-> Redacted[ran.input.mission.commands[i]]]
         /\ ran.run.passed
<1>1. /\ disk \in MissionDirs /\ ran.input \in InputRecords /\ ran.run \in Runs
      /\ ran.input.mission \in MissionRecords
  BY RecordAssumption DEF RecordInv, RecordTypeOK, InputRecords
<1>2. /\ Gate(ran.input) /\ LateChecks(ran.input, ran.run)
      /\ ran.run.commands = ran.input.mission.commands /\ ran.run.install = ran.input.install
      /\ \A f \in {"bundled", "consent", "patch", "snapshot", "economic", "run"} :
           disk[f] = Published(ran.input, ran.run, ran.input.patch, disk.digest)[f]
  BY DEF RecordInv, FromRun
<1>3. /\ disk.bundled = Fresh(ran.input.mission) /\ disk.patch = ran.input.patch
      /\ disk.consent = ran.input.consent /\ disk.snapshot = ran.input.snapshot
      /\ disk.economic = IF ran.input.economic = None THEN None
                         ELSE Finalize(ran.input.economic, ran.run)
      /\ disk.run = [ran.run EXCEPT !.commands = [i \in DOMAIN @ |-> Redacted[@[i]]]]
  BY <1>2 DEF Published
<1>4. /\ disk.run.source = ran.run.source /\ disk.run.applied = ran.run.applied
      /\ disk.run.passed = ran.run.passed /\ disk.run.started = ran.run.started
      /\ disk.run.finished = ran.run.finished /\ disk.run.setup = ran.run.setup
      /\ disk.run.declared = ran.run.declared /\ disk.run.install = ran.run.install
      /\ disk.run.commands =
           [i \in DOMAIN ran.input.mission.commands |-> Redacted[ran.input.mission.commands[i]]]
  BY <1>1, <1>2, <1>3 DEF Runs
<1>5. ran.run.passed
  BY <1>2 DEF LateChecks
<1> QED
  BY <1>1, <1>2, <1>3, <1>4, <1>5

\* Parity with the bundle is parity with the input of the run.
LEMMA ParityFields ==
  ASSUME RecordInv, disk # None, Parity(disk)
  PROVE  /\ Fresh(disk.top) = Fresh(ran.input.mission)
         /\ \A f \in DOMAIN disk.top \ Envelope : disk.top[f] = ran.input.mission[f]
         /\ {"variant", "consent", "base", "patch", "commands", "worker", "label", "limitations",
             "issue"} \subseteq DOMAIN disk.top \ Envelope
<1>1. disk.top \in MissionRecords /\ ran.input.mission \in MissionRecords
  BY PublishedFields DEF MissionDirs
<1>2. DOMAIN disk.top = DOMAIN ran.input.mission
  BY <1>1 DEF MissionRecords, Missions
<1>3. \A f \in DOMAIN disk.top \ Envelope : disk.top[f] = ran.input.mission[f]
  BY <1>1, <1>2, PublishedFields, FreshFields DEF Parity
<1>4. Fresh(disk.top) = Fresh(ran.input.mission)
  BY <1>1, <1>2, <1>3 DEF Fresh, Envelope, MissionRecords, Missions
<1>5. {"variant", "consent", "base", "patch", "commands", "worker", "label", "limitations", "issue"}
        \subseteq DOMAIN disk.top \ Envelope
  BY <1>1 DEF MissionRecords, Missions, Envelope
<1> QED
  BY <1>3, <1>4, <1>5

\* The code that ran is the declared code.
LEMMA LiveCode ==
  ASSUME RecordInv, Live
  PROVE  /\ disk.top.base = ran.run.source
         /\ disk.top.patch = ran.run.applied /\ disk.patch = ran.run.applied
<1>1. disk # None /\ Verified(disk) /\ Parity(disk)
  BY DEF Live, Verified
<1>2. /\ disk.top.base = ran.input.mission.base /\ disk.top.patch = ran.input.mission.patch
      /\ disk.bundled.base = ran.input.mission.base /\ disk.bundled.patch = ran.input.mission.patch
  <2>1. disk.top.base = ran.input.mission.base /\ disk.top.patch = ran.input.mission.patch
    BY <1>1, ParityFields
  <2>2. \A f \in {"base", "patch"} : disk.bundled[f] = disk.top[f]
    BY <1>1, ParityFields DEF Parity
  <2> QED
    BY <2>1, <2>2
<1>3. /\ disk.run.source = ran.run.source /\ disk.run.applied = ran.run.applied
      /\ LateChecks(ran.input, ran.run)
  BY <1>1, PublishedFields
<1>4. /\ disk.patch = disk.bundled.patch /\ disk.run.source = disk.bundled.base
      /\ disk.patch # None => disk.run.applied = disk.patch
  BY <1>1 DEF Verified
<1>5. disk.patch = None => ran.run.applied = None
  BY <1>2, <1>3, <1>4 DEF LateChecks, CodeBinding
<1> QED
  BY <1>2, <1>3, <1>4, <1>5

\* The invariant implies that what goes live was run.
LEMMA RunIsShown == RecordInv => ShownWasRun
<1> SUFFICES ASSUME RecordInv, Live PROVE ShownWasRun
  BY DEF ShownWasRun
<1> DEFINE m == ran.input.mission
<1>1. disk # None /\ Verified(disk) /\ Shown(disk) /\ Parity(disk) /\ ValidMission(disk.top)
  BY DEF Live, Verified, Shown
<1>2. /\ Fresh(disk.top) = Fresh(m)
      /\ \A f \in {"variant", "consent", "base", "patch", "commands"} : disk.top[f] = m[f]
  BY <1>1, ParityFields
<1>3. /\ ran.run.commands = m.commands /\ ran.run.passed /\ Gate(ran.input)
      /\ ran.input \in InputRecords /\ m \in MissionRecords
  BY <1>1, PublishedFields
<1>4. m.variant \in Consented =>
        ran.input.consent = [variant |-> m.variant, artifact |-> disk.top.consent]
  <2> SUFFICES ASSUME m.variant \in Consented
               PROVE  ran.input.consent = [variant |-> m.variant, artifact |-> disk.top.consent]
    OBVIOUS
  <2>1. /\ ran.input.consent \in ConsentFiles
        /\ ran.input.consent.variant = m.variant /\ ran.input.consent.artifact = m.consent
    BY <1>3 DEF Gate, ConsentFits, InputRecords
  <2>2. disk.top.consent = m.consent
    BY <1>2
  <2> HIDE DEF m
  <2> QED
    BY <2>1, <2>2 DEF ConsentFiles
<1>5. disk.top.consent = None =>
        \/ m.variant = "own_repo_rehearsal"
        \/ m.variant = "author_contribution" /\ None \notin {ran.run.source, ran.run.applied}
  <2>1. m.variant \in Variants
    BY <1>3 DEF MissionRecords, Missions
  <2>2. disk.top.consent = None => m.variant \notin Consented
    BY <1>1, <1>2 DEF ValidMission, ConsentIsNamed
  <2>3. m.variant = "author_contribution" => disk.top.base # None /\ disk.top.patch # None
    BY <1>1, <1>2 DEF ValidMission, ContributionIsOurs
  <2> QED
    BY <2>1, <2>2, <2>3, LiveCode DEF Variants, Consented
<1>6. disk.top.commands = ran.run.commands
  BY <1>2, <1>3
<1> QED
  BY <1>2, <1>3, <1>4, <1>5, <1>6, LiveCode DEF ShownWasRun

\* The invariant implies that the envelope of what goes live is current.
LEMMA CurrentIsShown == RecordInv => EnvelopeIsCurrent
<1> SUFFICES ASSUME RecordInv, Live PROVE EnvelopeIsCurrent
  BY DEF EnvelopeIsCurrent
<1>1. disk # None /\ Shown(disk) /\ disk.publication # None
  BY DEF Live, Shown
<1>2. disk.publication.digest = disk.digest
  BY <1>1 DEF Shown, DigestsAgree
<1>3. disk.publication.state # "prepared" => disk.publication.uri # None
  BY <1>1 DEF Shown, ValidPublication
<1>4. disk.publication.uri # None => assets[disk.publication.uri] = disk.digest
  BY <1>1, <1>2 DEF RecordInv, Written, Attests
<1>5. disk.approval # None /\ steady => disk.approval.for = disk.digest
  <2> SUFFICES ASSUME disk.approval # None, steady PROVE disk.approval.for = disk.digest
    OBVIOUS
  <2>1. disk.approval.at >= disk.run.finished
    BY <1>1 DEF Shown, EconomicReceipt, ApprovedAfter
  <2>2. disk.approval.at \in Int /\ disk.run.finished \in Int
    BY <1>1, PublishedFields DEF MissionDirs, Approvals, Runs
  <2>3. disk.approval.for # disk.digest => disk.approval.at < disk.run.finished
    BY <1>1 DEF RecordInv, Written
  <2> QED
    BY <2>1, <2>2, <2>3
<1> QED
  BY <1>2, <1>3, <1>4, <1>5 DEF EnvelopeIsCurrent

\* Redaction left a command alone exactly when every command is as it was run.
LEMMA UnredactedCommands ==
  ASSUME NEW commands \in Seq(DOMAIN Redacted)
  PROVE  [i \in DOMAIN commands |-> Redacted[commands[i]]] = commands
           <=> \A i \in DOMAIN commands : Redacted[commands[i]] = commands[i]
OBVIOUS

\* What goes live has none of the gaps between gate and CI.
LEMMA LiveHasNoGap ==
  ASSUME RecordInv, Live
  PROVE  ~Gap(ran.input, ran.run)
<1> DEFINE m == ran.input.mission
<1>1. disk # None /\ Verified(disk) /\ Shown(disk) /\ Parity(disk)
  BY DEF Live, Verified
<1>2. \A f \in {"base", "patch", "commands", "worker", "label", "limitations", "issue"} :
        disk.top[f] = m[f]
  BY <1>1, ParityFields
<1>3. m.base = ran.run.source /\ m.patch = ran.run.applied /\ ran.input.patch = ran.run.applied
  BY <1>1, <1>2, LiveCode, PublishedFields
<1>4. \A i \in DOMAIN m.commands : Redacted[m.commands[i]] = m.commands[i]
  <2>1. m.commands \in Seq(DOMAIN Redacted)
    BY <1>1, PublishedFields DEF MissionRecords, Missions
  <2>2. [i \in DOMAIN m.commands |-> Redacted[m.commands[i]]] = m.commands
    BY <1>1, <1>2, PublishedFields DEF Shown, ProofOfPass
  <2> QED
    BY <2>1, <2>2, UnredactedCommands
<1>5. /\ m.worker /\ m.label # "blank" /\ m.limitations # "blank"
      /\ Blank \notin Range(m.commands) \cup ran.input.install
  BY <1>1, <1>2, PublishedFields DEF Shown, NothingIsBlank
<1>6. ran.input.snapshot # None => IssueOf[ran.input.snapshot] \in {m.issue, Absent} \ {None}
  BY <1>1, <1>2, PublishedFields DEF Shown, SnapshotIsDeclared
<1>7. ran.input.economic # None =>
        ran.input.snapshot = ran.input.economic.snapshot /\ SourcesAreThere(ran.input.economic)
  <2> SUFFICES ASSUME ran.input.economic # None
               PROVE  /\ ran.input.snapshot = ran.input.economic.snapshot
                      /\ SourcesAreThere(ran.input.economic)
    OBVIOUS
  <2>1. ran.input.economic \in EconomicRecords /\ ran.run \in Runs
    BY <1>1, PublishedFields DEF InputRecords
  <2>2. disk.economic = Finalize(ran.input.economic, ran.run)
    BY <1>1, PublishedFields
  <2>3. /\ disk.economic # None /\ disk.economic.snapshot = ran.input.economic.snapshot
        /\ disk.economic.costs = ran.input.economic.costs
    BY <2>1, <2>2, FinalizedTypes
  <2>4. disk.economic.snapshot = disk.snapshot /\ SourcesAreThere(disk.economic)
    BY <1>1, <2>3 DEF Shown, EconomicReceipt
  <2> QED
    BY <1>1, <2>3, <2>4, PublishedFields DEF SourcesAreThere
<1>8. ran.input.patch # None => Decoded[ran.input.patch] = ran.input.patch
  <2> SUFFICES ASSUME ran.input.patch # None
               PROVE  Decoded[ran.input.patch] = ran.input.patch
    OBVIOUS
  <2>1. disk.patch = ran.input.patch /\ disk.top.patch = ran.input.patch
    BY <1>1, <1>2, <1>3, PublishedFields
  <2>2. ran.input.patch \in Patches
    BY <1>1, PublishedFields DEF InputRecords
  <2>3. ran.input.patch \notin {None, Absent}
    BY <2>2, RecordAssumption
  <2> QED
    BY <1>1, <2>1, <2>3 DEF Shown, PatchIsDeclared
<1> QED
  BY <1>3, <1>4, <1>5, <1>6, <1>7, <1>8 DEF Gap

\* An envelope does not decide whether a mission is valid that has no tier
\* which needs one.
LEMMA ValidInEnvelope ==
  ASSUME NEW m \in MissionRecords, NEW n \in MissionRecords, ValidMission(Fresh(m)),
         \A f \in DOMAIN n \ Envelope : n[f] = Fresh(m)[f],
         n.uri # Elsewhere
  PROVE  ValidMission(n)
<1> DEFINE b == Fresh(m)
<1>1. b \in MissionRecords /\ b.digest = None /\ ValidMission(b)
  BY FreshFields
<1> HIDE DEF b
<1>2. \A f \in {"bounty", "variant", "tiers", "grade", "label", "role", "counterparty", "consent",
                "worker", "environment", "base", "patchCommit", "patch", "commands", "issue",
                "status", "link", "payment", "contingent", "limitations", "plain"} : n[f] = b[f]
  BY DEF b, MissionRecords, Missions, Envelope
<1>3. "R1" \notin n.tiers
  BY <1>1, <1>2 DEF ValidMission, TiersAreEarned
<1>4. OutcomeIsBacked(n) /\ ConsentIsNamed(n) /\ ~n.contingent /\ TiersFitVariant(n)
  BY <1>1, <1>2 DEF ValidMission, OutcomeIsBacked, ConsentIsNamed, TiersFitVariant
<1>5. TiersAreEarned(n) /\ AttestedHere(n)
  BY <1>1, <1>2, <1>3 DEF ValidMission, TiersAreEarned, AttestedHere
<1>6. SidesAreTold(n) /\ BountyIsFunded(n) /\ LabelFits(n) /\ ContributionIsOurs(n)
  BY <1>1, <1>2
  DEF ValidMission, SidesAreTold, BountyIsFunded, LabelFits, ContributionIsOurs
<1>7. GradeFits(n) /\ WordsAreHonest(n)
  BY <1>1, <1>2 DEF ValidMission, GradeFits, WordsAreHonest
<1> QED
  BY <1>4, <1>5, <1>6, <1>7 DEF ValidMission

\* A tag that attests a bundle has its digest or none.
LEMMA AttestedTagFits ==
  ASSUME RecordInv, NEW uri \in Tags \cup {None}, NEW digest, Attests(uri, digest)
  PROVE  TagFits(uri, digest)
BY DEF RecordInv, TagsAreNames, Attests, TagFits, Tags

\* Economic input that passed the checks after a run passes those of CI: they
\* read nothing of mission and run that publication changes.
LEMMA EconomicStays ==
  ASSUME NEW e, NEW m, NEW n, NEW run, NEW published,
         FitsMission(e, m), FitsRun(e, run),
         n.issue = m.issue, n.commands = m.commands, n.payment = m.payment,
         n.contingent = m.contingent,
         published.finished = run.finished, published.started = run.started,
         published.setup = run.setup, published.declared = run.declared
  PROVE  FitsMission(e, n) /\ FitsRun(e, published)
<1>1. FitsMission(e, n)
  BY DEF FitsMission
<1>2. FitsRun(e, published)
  BY DEF FitsRun, Elapsed
<1> QED
  BY <1>1, <1>2

\* What is published of a run without a gap passes every check of CI, as soon as
\* its publication and approval are in order.
LEMMA NoGapIsLive ==
  ASSUME RecordInv, InOrder, ~Gap(ran.input, ran.run)
  PROVE  Live
<1> DEFINE m == ran.input.mission
           fields == {"variant", "consent", "base", "patch", "commands", "worker", "label",
                      "limitations", "issue", "payment", "contingent"}
<1>1. disk # None
  BY DEF InOrder
<1>2. /\ disk \in MissionDirs /\ disk.top \in MissionRecords /\ m \in MissionRecords
      /\ disk.bundled = Fresh(m) /\ ran.run \in Runs /\ ran.input \in InputRecords
      /\ Gate(ran.input) /\ LateChecks(ran.input, ran.run)
  BY <1>1, PublishedFields DEF MissionDirs
<1>3. /\ \A f \in DOMAIN disk.top \ Envelope : disk.top[f] = disk.bundled[f]
      /\ disk.top.uri \in Tags \cup {None} /\ disk.top.uri # Elsewhere
  BY RecordAssumption DEF RecordInv, Unedited, InOrder
<1>4. Parity(disk)
  BY <1>2, <1>3, FreshFields DEF Parity, Envelope
<1>5. \A f \in fields : disk.top[f] = m[f] /\ disk.bundled[f] = m[f]
  <2>1. fields \subseteq DOMAIN disk.top \ Envelope /\ DOMAIN disk.top = DOMAIN m
    BY <1>2 DEF MissionRecords, Missions, Envelope
  <2> QED
    BY <1>2, <1>3, <2>1, FreshFields
<1> HIDE DEF fields
<1>6. /\ disk.top.variant = m.variant /\ disk.bundled.variant = m.variant
      /\ disk.top.consent = m.consent /\ disk.bundled.consent = m.consent
      /\ disk.top.base = m.base /\ disk.bundled.base = m.base
      /\ disk.top.patch = m.patch /\ disk.bundled.patch = m.patch
      /\ disk.top.commands = m.commands /\ disk.bundled.commands = m.commands
      /\ disk.top.worker = m.worker /\ disk.top.label = m.label
      /\ disk.top.limitations = m.limitations
      /\ disk.top.issue = m.issue /\ disk.bundled.issue = m.issue
      /\ disk.top.payment = m.payment /\ disk.bundled.payment = m.payment
      /\ disk.top.contingent = m.contingent /\ disk.bundled.contingent = m.contingent
  BY <1>5 DEF fields
<1>7. ValidMission(disk.bundled) /\ ValidMission(disk.top)
  <2>1. ValidMission(Fresh(m))
    BY <1>2 DEF LateChecks, BundleAccepts
  <2> QED
    BY <1>2, <1>3, <2>1, ValidInEnvelope
<1>8. /\ m.base = ran.run.source /\ m.patch = ran.run.applied /\ ran.input.patch = ran.run.applied
      /\ \A i \in DOMAIN m.commands : Redacted[m.commands[i]] = m.commands[i]
      /\ m.worker /\ m.label # "blank" /\ m.limitations # "blank"
      /\ Blank \notin Range(m.commands) \cup ran.input.install
      /\ ran.input.patch # None => Decoded[ran.input.patch] = ran.input.patch
      /\ ran.input.snapshot # None => IssueOf[ran.input.snapshot] \in {m.issue, Absent} \ {None}
      /\ ran.input.economic # None =>
           ran.input.snapshot = ran.input.economic.snapshot /\ SourcesAreThere(ran.input.economic)
  BY DEF Gap
<1>9. /\ disk.run.source = ran.run.source /\ disk.run.applied = ran.run.applied
      /\ disk.run.passed /\ disk.run.commands = m.commands /\ m.commands # <<>>
  <2>1. m.commands \in Seq(DOMAIN Redacted)
    BY <1>2 DEF MissionRecords, Missions
  <2> QED
    BY <1>1, <1>2, <1>8, <2>1, PublishedFields, UnredactedCommands DEF Gate
<1>10. ProofOfPass(disk) /\ ProofOfPass([disk EXCEPT !.top = disk.bundled])
  BY <1>2, <1>6, <1>9 DEF ProofOfPass, MissionDirs
<1>11. disk.bundled.variant \in Consented =>
         disk.consent # None /\ ConsentFits(disk.consent, disk.bundled)
  BY <1>1, <1>2, <1>6, PublishedFields DEF Gate, ConsentFits
<1>12. disk.economic # None =>
         /\ ran.input.economic # None /\ ran.input.economic \in EconomicRecords
         /\ disk.economic = Finalize(ran.input.economic, ran.run)
  BY <1>1, <1>2, PublishedFields DEF InputRecords
<1>13. disk.economic # None =>
         /\ FitsMission(disk.economic, disk.bundled) /\ FitsMission(disk.economic, disk.top)
         /\ FitsRun(disk.economic, disk.run)
  <2> SUFFICES ASSUME disk.economic # None
               PROVE  /\ FitsMission(disk.economic, disk.bundled)
                      /\ FitsMission(disk.economic, disk.top)
                      /\ FitsRun(disk.economic, disk.run)
    OBVIOUS
  <2>1. FitsMission(disk.economic, m) /\ FitsRun(disk.economic, ran.run)
    BY <1>2, <1>12 DEF LateChecks
  <2>2. /\ disk.run.finished = ran.run.finished /\ disk.run.started = ran.run.started
        /\ disk.run.setup = ran.run.setup /\ disk.run.declared = ran.run.declared
    BY <1>1, PublishedFields
  <2> QED
    BY <1>6, <2>1, <2>2, EconomicStays
<1>14. Verified(disk)
  <2>1. ValidRun(disk.run)
    BY <1>1, <1>2, PublishedFields DEF LateChecks, BundleAccepts, ValidRun, Elapsed
  <2> QED
    BY <1>1, <1>4, <1>6, <1>7, <1>8, <1>9, <1>10, <1>11, <1>13, <2>1, PublishedFields
    DEF Verified
<1>15. /\ disk.publication # None /\ disk.publication.state = "prepared"
       /\ ~disk.publication.drift
       /\ disk.publication.head = None /\ disk.publication.end = None
       /\ disk.publication.digest = disk.digest /\ disk.top.digest \in {None, disk.digest}
       /\ disk.economic = None <=> disk.approval = None
       /\ disk.approval # None =>
            disk.approval.for = disk.digest /\ disk.approval.at >= disk.run.finished
  BY DEF InOrder
<1>16. ValidPublication(disk.publication)
  <2>1. /\ Attests(disk.publication.uri, disk.publication.digest)
        /\ disk.publication.uri \in Tags \cup {None}
    BY <1>1, <1>2, <1>15 DEF RecordInv, Written, MissionDirs, Publications
  <2>2. TagFits(disk.publication.uri, disk.publication.digest)
    BY <2>1, AttestedTagFits
  <2> QED
    BY <1>15, <2>2 DEF ValidPublication
<1>17. EconomicReceipt(disk)
  <2> SUFFICES ASSUME disk.economic # None
               PROVE  /\ ApprovedAfter(disk) /\ disk.snapshot # None
                      /\ disk.economic.snapshot = disk.snapshot /\ SourcesAreThere(disk.economic)
    BY <1>13, <1>15 DEF EconomicReceipt
  <2>1. ApprovedAfter(disk)
    BY <1>1, <1>15 DEF ApprovedAfter, RecordInv, Written
  <2>2. /\ disk.economic.snapshot = ran.input.economic.snapshot
        /\ disk.economic.costs = ran.input.economic.costs
    BY <1>2, <1>12, FinalizedTypes
  <2>3. disk.snapshot = ran.input.economic.snapshot /\ disk.snapshot # None
    <3>1. ran.input.economic.snapshot \in STRING
      BY <1>12 DEF EconomicRecords
    <3> QED
      BY <1>1, <1>8, <1>12, <3>1, PublishedFields, RecordAssumption
  <2>4. SourcesAreThere(disk.economic)
    BY <1>8, <1>12, <2>2 DEF SourcesAreThere
  <2> QED
    BY <2>1, <2>2, <2>3, <2>4
<1>18. DigestsAgree(disk) /\ TagsAgree(disk)
  BY <1>15 DEF DigestsAgree, TagsAgree
<1>19. NothingIsBlank(disk) /\ PatchIsDeclared(disk) /\ SnapshotIsDeclared(disk)
  <2>1. NothingIsBlank(disk)
    BY <1>1, <1>6, <1>8, PublishedFields DEF NothingIsBlank
  <2>2. PatchIsDeclared(disk)
    BY <1>1, <1>6, <1>8, <1>9, PublishedFields DEF PatchIsDeclared
  <2>3. SnapshotIsDeclared(disk)
    BY <1>1, <1>6, <1>8, PublishedFields DEF SnapshotIsDeclared
  <2> QED
    BY <2>1, <2>2, <2>3
<1>20. Shown(disk)
  BY <1>1, <1>3, <1>4, <1>6, <1>7, <1>8, <1>9, <1>10, <1>15, <1>16, <1>17, <1>18, <1>19
  DEF Shown
<1> QED
  BY <1>1, <1>14, <1>20 DEF Live

-----------------------------------------------------------------------------
(* Costs: what the comparisons of decimal strings at their own scales say   *)
(* at one common scale.  Sums and powers are recursive functions; that they *)
(* are what their definitions say, and each fact about them, is proved by   *)
(* induction in the form of SetInduction.                                   *)

\* A set of naturals that is not empty has a least member.
LEMMA LeastOf ==
  ASSUME NEW T \in SUBSET Nat, T # {}
  PROVE  \E x \in T : \A y \in T : x <= y
<1> DEFINE R == OpToRel(<, Nat)
<1>1. \E x \in T : \A y \in T : <<y, x>> \notin R
  <2>1. IsWellFoundedOn(R, Nat)
    BY NatLessThanWellFounded
  <2> HIDE DEF R
  <2> QED BY <2>1, WFMin
<1>2. \A x, y \in T : <<y, x>> \in R <=> y < x
  BY DEF OpToRel
<1>3. \A x, y \in T : ~(y < x) => x <= y
  OBVIOUS
<1> HIDE DEF R
<1> QED BY <1>1, <1>2, <1>3

\* Induction, about a set of numbers.
LEMMA SetInduction ==
  ASSUME NEW P \in SUBSET Nat, 0 \in P, \A n \in P : n + 1 \in P
  PROVE  P = Nat
<1> SUFFICES ASSUME Nat \ P # {} PROVE FALSE
  OBVIOUS
<1>1. PICK x \in Nat \ P : \A y \in Nat \ P : x <= y
  BY LeastOf
<1>2. x - 1 \in Nat /\ x - 1 \in P
  BY <1>1
<1> QED
  BY <1>1, <1>2

\* What a recursive function computes is there: next is told the argument and
\* the value before it.
LEMMA Recursion ==
  ASSUME NEW first \in Int, NEW next \in [Nat \X Int -> Int]
  PROVE  \E f \in [Nat -> Int] :
           f[0] = first /\ \A n \in Nat : f[n + 1] = next[<<n + 1, f[n]>>]
<1> DEFINE Good(g, n) == g \in [0..n -> Int] /\ g[0] = first
                         /\ \A i \in 0..(n - 1) : g[i + 1] = next[<<i + 1, g[i]>>]
           P == {n \in Nat : \E g : Good(g, n)}
<1>1. P = Nat
  <2>1. 0 \in P
    <3>1. Good([i \in 0..0 |-> first], 0)
      OBVIOUS
    <3> QED
      BY <3>1
  <2>2. ASSUME NEW n \in P
        PROVE  n + 1 \in P
    <3>1. n \in Nat
      OBVIOUS
    <3>2. PICK g : Good(g, n)
      OBVIOUS
    <3> DEFINE h == [i \in 0..(n + 1) |-> IF i <= n THEN g[i] ELSE next[<<n + 1, g[n]>>]]
    <3>3. g[n] \in Int /\ next[<<n + 1, g[n]>>] \in Int
      BY <3>1, <3>2
    <3>4. h \in [0..(n + 1) -> Int] /\ h[0] = first
      BY <3>1, <3>2, <3>3
    <3>5. ASSUME NEW i \in 0..n
          PROVE  h[i + 1] = next[<<i + 1, h[i]>>]
      <4>1. CASE i = n
        <5>1. h[n] = g[n] /\ h[n + 1] = next[<<n + 1, g[n]>>]
          BY <3>1
        <5> HIDE DEF h
        <5> QED
          BY <4>1, <5>1
      <4>2. CASE i # n
        <5>1. i \in 0..(n - 1) /\ i \in 0..(n + 1) /\ i + 1 \in 0..(n + 1) /\ i <= n /\ i + 1 <= n
          BY <3>1, <4>2
        <5>2. h[i] = g[i] /\ h[i + 1] = g[i + 1]
          BY <5>1
        <5>3. g[i + 1] = next[<<i + 1, g[i]>>]
          BY <3>2, <5>1
        <5> HIDE DEF h
        <5> QED
          BY <5>2, <5>3
      <4> QED
        BY <4>1, <4>2
    <3>6. Good(h, n + 1)
      <4>1. (n + 1) - 1 = n
        BY <3>1
      <4> HIDE DEF h
      <4> QED
        BY <3>4, <3>5, <4>1
    <3> HIDE DEF Good
    <3> QED
      BY <3>1, <3>6
  <2> HIDE DEF P
  <2>3. P \in SUBSET Nat
    BY DEF P
  <2> QED
    BY <2>1, <2>2, <2>3, SetInduction
<1>2. ASSUME NEW g, NEW h, NEW m \in Nat, NEW n \in Nat, Good(g, m), Good(h, n),
             NEW k \in Nat, k <= m, k <= n
      PROVE  g[k] = h[k]
  <2> DEFINE E == {i \in Nat : i <= m /\ i <= n => g[i] = h[i]}
  <2>1. 0 \in E
    BY <1>2
  <2>2. ASSUME NEW i \in E
        PROVE  i + 1 \in E
    <3> SUFFICES ASSUME i + 1 <= m, i + 1 <= n
                 PROVE  g[i + 1] = h[i + 1]
      OBVIOUS
    <3>1. i \in 0..(m - 1) /\ i \in 0..(n - 1) /\ g[i] = h[i]
      OBVIOUS
    <3> QED
      BY <1>2, <3>1
  <2> HIDE DEF E
  <2>3. E \in SUBSET Nat
    BY DEF E
  <2>4. k \in E
    BY <2>1, <2>2, <2>3, SetInduction
  <2> QED
    BY <1>2, <2>4 DEF E
<1> HIDE DEF Good
<1> DEFINE part(n) == CHOOSE g : Good(g, n)
           f == [n \in Nat |-> part(n)[n]]
<1>3. \A n \in Nat : Good(part(n), n)
  BY <1>1
<1> HIDE DEF part
<1>4. \A n \in Nat : part(n)[n] \in Int
  BY <1>3 DEF Good
<1>5. f \in [Nat -> Int]
  BY <1>4
<1>6. f[0] = first
  BY <1>3 DEF Good
<1>7. ASSUME NEW n \in Nat
      PROVE  f[n + 1] = next[<<n + 1, f[n]>>]
  <2>1. part(n + 1)[n] = part(n)[n]
    BY <1>2, <1>3
  <2>2. part(n + 1)[n + 1] = next[<<n + 1, part(n + 1)[n]>>]
    <3>1. n \in 0..((n + 1) - 1)
      OBVIOUS
    <3> QED
      BY <1>3, <3>1 DEF Good
  <2> QED
    BY <2>1, <2>2
<1> QED
  BY <1>5, <1>6, <1>7

\* Power is the power of ten.
LEMMA PowerDef ==
  /\ Power[0] = 1
  /\ \A n \in Nat : Power[n] \in Nat \ {0} /\ Power[n + 1] = 10 * Power[n]
<1> DEFINE next == [p \in Nat \X Int |-> 10 * p[2]]
<1>1. next \in [Nat \X Int -> Int]
  OBVIOUS
<1>2. PICK f \in [Nat -> Int] : f[0] = 1 /\ \A n \in Nat : f[n + 1] = next[<<n + 1, f[n]>>]
  <2>1. 1 \in Int
    OBVIOUS
  <2> HIDE DEF next
  <2> QED
    BY <1>1, <2>1, Recursion, Zenon
<1>3. \A n \in Nat : f[n + 1] = 10 * f[n]
  <2> TAKE n \in Nat
  <2>1. <<n + 1, f[n]>> \in Nat \X Int
    OBVIOUS
  <2> QED
    BY <1>2, <2>1
<1> HIDE DEF next
<1>4. \A n \in Nat : f[n] = IF n = 0 THEN 1 ELSE 10 * f[n - 1]
  <2> TAKE n \in Nat
  <2>1. CASE n = 0
    BY <1>2, <2>1
  <2>2. CASE n # 0
    <3>1. n - 1 \in Nat /\ (n - 1) + 1 = n
      BY <2>2
    <3>2. f[(n - 1) + 1] = 10 * f[n - 1]
      BY <1>3, <3>1
    <3> QED
      BY <2>2, <3>1, <3>2
  <2> QED
    BY <2>1, <2>2
<1>5. f = [n \in Nat |-> IF n = 0 THEN 1 ELSE 10 * f[n - 1]]
  BY <1>2, <1>4
<1>6. Power = [n \in Nat |-> IF n = 0 THEN 1 ELSE 10 * Power[n - 1]]
  BY <1>5 DEF Power
<1>7. Power[0] = 1
  BY <1>6
<1>8. \A n \in Nat : Power[n + 1] = 10 * Power[n]
  <2> TAKE n \in Nat
  <2>1. n + 1 \in Nat /\ n + 1 # 0 /\ (n + 1) - 1 = n
    OBVIOUS
  <2>2. Power[n + 1] = 10 * Power[(n + 1) - 1]
    BY <1>6, <2>1
  <2> QED
    BY <2>1, <2>2
<1> DEFINE P == {n \in Nat : Power[n] \in Nat \ {0}}
<1>9. \A n \in P : n + 1 \in P
  BY <1>8
<1>10. 0 \in P
  BY <1>7
<1>11. P = Nat
  <2>1. P \in SUBSET Nat
    OBVIOUS
  <2> HIDE DEF P
  <2> QED
    BY <1>9, <1>10, <2>1, SetInduction
<1>12. \A n \in Nat : Power[n] \in Nat \ {0}
  BY <1>11
<1> QED
  BY <1>7, <1>8, <1>12

\* Powers of ten multiply when their exponents add.
LEMMA PowerAdd ==
  ASSUME NEW a \in Nat, NEW b \in Nat
  PROVE  Power[a + b] = Power[a] * Power[b]
<1> DEFINE P == {n \in Nat : Power[a + n] = Power[a] * Power[n]}
<1>1. 0 \in P
  BY PowerDef
<1>2. ASSUME NEW n \in P
      PROVE  n + 1 \in P
  <2>1. a + n \in Nat /\ a + (n + 1) = (a + n) + 1
    OBVIOUS
  <2>2. Power[(a + n) + 1] = 10 * Power[a + n] /\ Power[n + 1] = 10 * Power[n]
    BY <2>1, PowerDef
  <2>3. Power[a + n] = Power[a] * Power[n]
    OBVIOUS
  <2>4. Power[a] \in Int /\ Power[n] \in Int
    BY PowerDef
  <2>5. \A x, y \in Int : 10 * (x * y) = x * (10 * y)
    OBVIOUS
  <2> QED
    BY <2>1, <2>2, <2>3, <2>4, <2>5
<1>3. P = Nat
  <2>1. P \in SUBSET Nat
    OBVIOUS
  <2> HIDE DEF P
  <2> QED
    BY <1>1, <1>2, <2>1, SetInduction
<1> QED
  BY <1>3

\* Decimal strings of any scale, such as a product.
LEMMA AtScale ==
  ASSUME NEW d \in [units : Nat, scale : Nat], NEW s \in Nat, NEW t \in Nat,
         d.scale <= s, s <= t
  PROVE  At(d, s) \in Nat /\ At(d, t) = At(d, s) * Power[t - s]
<1>1. s - d.scale \in Nat /\ t - s \in Nat /\ t - d.scale = (s - d.scale) + (t - s)
  OBVIOUS
<1>2. Power[t - d.scale] = Power[s - d.scale] * Power[t - s]
  BY <1>1, PowerAdd
<1>3. Power[s - d.scale] \in Nat /\ Power[t - s] \in Nat
  BY <1>1, PowerDef
<1>4. \A x, y, z \in Nat : x * (y * z) = (x * y) * z /\ x * y \in Nat
  OBVIOUS
<1>5. d.units \in Nat
  OBVIOUS
<1> QED
  BY <1>2, <1>3, <1>4, <1>5 DEF At

\* Decimals that sameDecimal calls the same are the same at every finer scale.
LEMMA SameAtScale ==
  ASSUME NEW a \in [units : Nat, scale : Nat], NEW b \in [units : Nat, scale : Nat],
         NEW t \in Nat, a.scale <= t, b.scale <= t, SameDecimal(a, b)
  PROVE  At(a, t) = At(b, t)
<1> DEFINE s == IF a.scale > b.scale THEN a.scale ELSE b.scale
<1>1. s \in Nat /\ a.scale <= s /\ b.scale <= s /\ s <= t
  OBVIOUS
<1>2. At(a, s) = At(b, s)
  BY DEF SameDecimal
<1> HIDE DEF s
<1>3. At(a, t) = At(a, s) * Power[t - s] /\ At(b, t) = At(b, s) * Power[t - s]
  BY <1>1, AtScale
<1> QED
  BY <1>2, <1>3

\* An amount that was computed is quantity times rate.
LEMMA ProductAtScale ==
  ASSUME NEW amount \in Decimals, NEW quantity \in Decimals, NEW rate \in Decimals,
         NEW scale \in Nat, MaxScale <= scale, MaxScale \in Nat,
         ProductEquals(amount, quantity, rate)
  PROVE  At(quantity, scale) * At(rate, scale) = At(amount, scale) * Power[scale]
<1> DEFINE product == Decimal(quantity.units * rate.units, quantity.scale + rate.scale)
<1>1. /\ quantity.units \in Nat /\ quantity.scale \in Nat /\ quantity.scale <= scale
      /\ rate.units \in Nat /\ rate.scale \in Nat /\ rate.scale <= scale
      /\ amount.scale <= scale /\ amount.scale \in Nat
      /\ amount \in [units : Nat, scale : Nat]
  BY DEF Decimals
<1>2. /\ product \in [units : Nat, scale : Nat]
      /\ product.units = quantity.units * rate.units
      /\ product.scale = quantity.scale + rate.scale
  <2>1. quantity.units * rate.units \in Nat /\ quantity.scale + rate.scale \in Nat
    <3>1. \A x, y \in Nat : x * y \in Nat /\ x + y \in Nat
      OBVIOUS
    <3> QED
      BY <1>1, <3>1
  <2> QED
    BY <2>1 DEF Decimal
<1>3. SameDecimal(amount, product)
  BY DEF ProductEquals
<1>4. scale + scale \in Nat /\ amount.scale <= scale + scale /\ scale <= scale + scale
      /\ (scale + scale) - scale = scale
  BY <1>1
<1>5. quantity.scale + rate.scale <= scale + scale
  BY <1>1
<1> HIDE DEF product
<1>6. At(amount, scale + scale) = At(product, scale + scale)
  BY <1>1, <1>2, <1>3, <1>4, <1>5, SameAtScale
<1>7. At(amount, scale + scale) = At(amount, scale) * Power[scale]
  BY <1>1, <1>4, AtScale
<1>8. At(product, scale + scale)
        = (quantity.units * rate.units) * Power[(scale + scale) - (quantity.scale + rate.scale)]
  BY <1>2 DEF At
<1>9. Power[(scale + scale) - (quantity.scale + rate.scale)]
        = Power[scale - quantity.scale] * Power[scale - rate.scale]
  <2>1. /\ scale - quantity.scale \in Nat /\ scale - rate.scale \in Nat
        /\ (scale + scale) - (quantity.scale + rate.scale)
             = (scale - quantity.scale) + (scale - rate.scale)
    BY <1>1
  <2> QED
    BY <2>1, PowerAdd
<1>10. Power[scale - quantity.scale] \in Nat /\ Power[scale - rate.scale] \in Nat
  <2>1. scale - quantity.scale \in Nat /\ scale - rate.scale \in Nat
    BY <1>1
  <2> QED
    BY <2>1, PowerDef
<1>11. \A w, x, y, z \in Nat : (w * x) * (y * z) = (w * y) * (x * z)
  OBVIOUS
<1>12. (quantity.units * rate.units) * (Power[scale - quantity.scale] * Power[scale - rate.scale])
         = (quantity.units * Power[scale - quantity.scale])
             * (rate.units * Power[scale - rate.scale])
  BY <1>1, <1>10, <1>11
<1> QED
  BY <1>6, <1>7, <1>8, <1>9, <1>12 DEF At

\* What a sum is: the last of its partial sums.
LEMMA TotalIs ==
  ASSUME NEW numbers \in Seq(Int), NEW u, u[0] = 0,
         u = [i \in 0..Len(numbers) |-> u[i]],
         \A i \in 1..Len(numbers) : u[i] = u[i - 1] + numbers[i]
  PROVE  Total(numbers) = u[Len(numbers)]
<1> DEFINE v == CHOOSE f : f = [i \in 0..Len(numbers) |->
                                  IF i = 0 THEN 0 ELSE f[i - 1] + numbers[i]]
<1>1. Len(numbers) \in Nat
  OBVIOUS
<1>2. u = [i \in 0..Len(numbers) |-> IF i = 0 THEN 0 ELSE u[i - 1] + numbers[i]]
  <2>1. ASSUME NEW i \in 0..Len(numbers)
        PROVE  u[i] = IF i = 0 THEN 0 ELSE u[i - 1] + numbers[i]
    <3>1. CASE i = 0
      BY <3>1
    <3>2. CASE i # 0
      <4>1. i \in 1..Len(numbers)
        BY <1>1, <3>2
      <4> QED
        BY <3>2, <4>1
    <3> QED
      BY <3>1, <3>2
  <2> QED
    BY <2>1
<1>3. v = [i \in 0..Len(numbers) |-> IF i = 0 THEN 0 ELSE v[i - 1] + numbers[i]]
  BY <1>2
<1>4. Total(numbers) = v[Len(numbers)]
  BY DEF Total
<1> HIDE DEF v
<1> DEFINE P == {n \in Nat : n <= Len(numbers) => v[n] = u[n]}
<1>5. 0 \in P
  BY <1>1, <1>3
<1>6. ASSUME NEW n \in P
      PROVE  n + 1 \in P
  <2> SUFFICES ASSUME n + 1 <= Len(numbers)
               PROVE  v[n + 1] = u[n + 1]
    OBVIOUS
  <2>1. n + 1 \in 1..Len(numbers) /\ n + 1 \in 0..Len(numbers) /\ (n + 1) - 1 = n /\ n + 1 # 0
    <3>1. n \in Nat
      OBVIOUS
    <3> HIDE DEF P
    <3> QED
      BY <1>1, <3>1
  <2>2. v[n + 1] = v[n] + numbers[n + 1]
    BY <1>3, <2>1
  <2>3. u[n + 1] = u[n] + numbers[n + 1]
    BY <2>1
  <2>4. v[n] = u[n]
    BY <1>1
  <2> QED
    BY <2>2, <2>3, <2>4
<1>7. P = Nat
  <2>1. P \in SUBSET Nat
    OBVIOUS
  <2> HIDE DEF P
  <2> QED
    BY <1>5, <1>6, <2>1, SetInduction
<1> QED
  BY <1>1, <1>4, <1>7

\* The partial sums of numbers are there, and Total is the last.
LEMMA PartialSums ==
  ASSUME NEW numbers \in Seq(Int)
  PROVE  \E u \in [0..Len(numbers) -> Int] :
           /\ u[0] = 0
           /\ \A i \in 1..Len(numbers) : u[i] = u[i - 1] + numbers[i]
           /\ Total(numbers) = u[Len(numbers)]
<1> DEFINE n == Len(numbers)
           next == [p \in Nat \X Int |-> IF p[1] \in 1..n THEN p[2] + numbers[p[1]] ELSE 0]
<1>1. n \in Nat /\ DOMAIN numbers = 1..n /\ \A i \in 1..n : numbers[i] \in Int
  OBVIOUS
<1>2. next \in [Nat \X Int -> Int]
  BY <1>1
<1>3. PICK f \in [Nat -> Int] : f[0] = 0 /\ \A k \in Nat : f[k + 1] = next[<<k + 1, f[k]>>]
  <2>1. 0 \in Int
    OBVIOUS
  <2> HIDE DEF next
  <2> QED
    BY <1>2, <2>1, Recursion, Zenon
<1> DEFINE u == [i \in 0..n |-> f[i]]
<1>4. u \in [0..n -> Int] /\ u[0] = 0 /\ u = [i \in 0..n |-> u[i]]
  BY <1>1, <1>3
<1>5. ASSUME NEW i \in 1..n
      PROVE  u[i] = u[i - 1] + numbers[i]
  <2>1. i - 1 \in Nat /\ (i - 1) + 1 = i /\ i \in 0..n /\ i - 1 \in 0..n
    BY <1>1
  <2>2. <<i, f[i - 1]>> \in Nat \X Int
    BY <2>1, <1>3
  <2>3. f[i] = next[<<i, f[i - 1]>>]
    <3> HIDE DEF next
    <3>1. f[(i - 1) + 1] = next[<<(i - 1) + 1, f[i - 1]>>]
      BY <1>3, <2>1
    <3> QED
      BY <2>1, <3>1
  <2>4. next[<<i, f[i - 1]>>] = f[i - 1] + numbers[i]
    BY <2>2
  <2> QED
    BY <2>1, <2>3, <2>4
<1> HIDE DEF u, n
<1>6. Total(numbers) = u[n]
  BY <1>4, <1>5, TotalIs DEF n
<1> QED
  BY <1>4, <1>5, <1>6 DEF n

\* Sums are linear.
LEMMA TotalScaled ==
  ASSUME NEW short \in Seq(Int), NEW long \in Seq(Int), NEW factor \in Int,
         Len(long) = Len(short), \A i \in 1..Len(short) : long[i] = short[i] * factor
  PROVE  Total(long) = Total(short) * factor
<1> DEFINE n == Len(short)
<1>1. n \in Nat
  OBVIOUS
<1>2. PICK u \in [0..n -> Int] :
        u[0] = 0 /\ (\A i \in 1..n : u[i] = u[i - 1] + short[i]) /\ Total(short) = u[n]
  BY PartialSums
<1> DEFINE v == [i \in 0..n |-> u[i] * factor]
<1>3. v = [i \in 0..n |-> v[i]] /\ v[0] = 0 /\ v[n] = u[n] * factor
  BY <1>1, <1>2
<1>4. ASSUME NEW i \in 1..n
      PROVE  v[i] = v[i - 1] + long[i]
  <2>1. i \in 0..n /\ i - 1 \in 0..n
    BY <1>1
  <2>2. v[i] = u[i] * factor /\ v[i - 1] = u[i - 1] * factor
    BY <2>1
  <2>3. u[i] = u[i - 1] + short[i] /\ long[i] = short[i] * factor
    BY <1>2
  <2>4. u[i - 1] \in Int /\ short[i] \in Int
    <3>1. short[i] \in Int
      OBVIOUS
    <3> HIDE DEF v, n
    <3> QED
      BY <1>2, <2>1, <3>1
  <2>5. \A x, y, z \in Int : (x + y) * z = x * z + y * z
    OBVIOUS
  <2> HIDE DEF v, n
  <2> QED
    BY <2>2, <2>3, <2>4, <2>5
<1> HIDE DEF v
<1>5. Total(long) = v[n]
  BY <1>3, <1>4, TotalIs
<1> QED
  BY <1>2, <1>3, <1>5

\* A sum of pairwise sums is the sum of both sums.
LEMMA TotalAdded ==
  ASSUME NEW a \in Seq(Int), NEW b \in Seq(Int), NEW both \in Seq(Int),
         Len(a) = Len(both), Len(b) = Len(both),
         \A i \in 1..Len(both) : both[i] = a[i] + b[i]
  PROVE  Total(both) = Total(a) + Total(b)
<1> DEFINE n == Len(both)
<1>1. n \in Nat
  OBVIOUS
<1>2. PICK u \in [0..n -> Int] :
        u[0] = 0 /\ (\A i \in 1..n : u[i] = u[i - 1] + a[i]) /\ Total(a) = u[n]
  BY PartialSums
<1>3. PICK v \in [0..n -> Int] :
        v[0] = 0 /\ (\A i \in 1..n : v[i] = v[i - 1] + b[i]) /\ Total(b) = v[n]
  BY PartialSums
<1> DEFINE s == [i \in 0..n |-> u[i] + v[i]]
<1>4. s = [i \in 0..n |-> s[i]] /\ s[0] = 0 /\ s[n] = u[n] + v[n]
  BY <1>1, <1>2, <1>3
<1>5. ASSUME NEW i \in 1..n
      PROVE  s[i] = s[i - 1] + both[i]
  <2>1. i \in 0..n /\ i - 1 \in 0..n
    BY <1>1
  <2>2. s[i] = u[i] + v[i] /\ s[i - 1] = u[i - 1] + v[i - 1]
    BY <2>1
  <2>3. u[i] = u[i - 1] + a[i] /\ v[i] = v[i - 1] + b[i] /\ both[i] = a[i] + b[i]
    BY <1>2, <1>3
  <2>4. u[i - 1] \in Int /\ v[i - 1] \in Int /\ a[i] \in Int /\ b[i] \in Int
    <3>1. a[i] \in Int /\ b[i] \in Int
      OBVIOUS
    <3> HIDE DEF s, n
    <3> QED
      BY <1>2, <1>3, <2>1, <3>1
  <2> HIDE DEF s, n
  <2>5. (u[i - 1] + a[i]) + (v[i - 1] + b[i]) = (u[i - 1] + v[i - 1]) + (a[i] + b[i])
    BY <2>4
  <2> QED
    BY <2>2, <2>3, <2>5, Zenon
<1> HIDE DEF s
<1>6. Total(both) = s[n]
  BY <1>4, <1>5, TotalIs
<1> QED
  BY <1>2, <1>3, <1>4, <1>6

\* The sum of three numbers, such as the subtotals.
LEMMA TotalOfThree ==
  ASSUME NEW numbers \in Seq(Int), Len(numbers) = 3
  PROVE  Total(numbers) = numbers[1] + numbers[2] + numbers[3]
<1>1. PICK u \in [0..3 -> Int] :
        u[0] = 0 /\ (\A i \in 1..3 : u[i] = u[i - 1] + numbers[i]) /\ Total(numbers) = u[3]
  BY PartialSums
<1>2. u[1] = u[0] + numbers[1] /\ u[2] = u[1] + numbers[2] /\ u[3] = u[2] + numbers[3]
  BY <1>1
<1>3. numbers[1] \in Int /\ numbers[2] \in Int /\ numbers[3] \in Int
  <2>1. \A i \in 1..Len(numbers) : numbers[i] \in Int
    <3> SUFFICES \A q \in Seq(Int) : \A i \in 1..Len(q) : q[i] \in Int
      OBVIOUS
    <3> QED
      OBVIOUS
  <2>2. 1 \in 1..3 /\ 2 \in 1..3 /\ 3 \in 1..3
    OBVIOUS
  <2> QED
    BY <2>1, <2>2
<1> QED
  BY <1>1, <1>2, <1>3

\* The finest scale of some decimals is one of theirs.
LEMMA FinestScale ==
  ASSUME NEW S \in SUBSET (0..MaxScale), S # {}, MaxScale \in Nat
  PROVE  Max(S) \in S /\ \A x \in S : x <= Max(S)
<1> DEFINE T == {MaxScale - x : x \in S}
<1>1. T \in SUBSET Nat /\ T # {}
  <2>1. \A x \in 0..MaxScale : MaxScale - x \in Nat
    OBVIOUS
  <2>2. \A x \in S : MaxScale - x \in Nat
    BY <2>1
  <2> QED
    BY <2>2
<1>2. PICK y \in T : \A z \in T : y <= z
  <2> HIDE DEF T
  <2> QED
    BY <1>1, LeastOf
<1>3. PICK m \in S : y = MaxScale - m
  BY <1>2
<1>4. \A x \in S : m >= x
  <2> TAKE x \in S
  <2>1. MaxScale - x \in T
    OBVIOUS
  <2>2. MaxScale - m <= MaxScale - x
    BY <1>2, <1>3, <2>1
  <2>3. x \in Int /\ m \in Int
    OBVIOUS
  <2> HIDE DEF T
  <2> QED
    BY <2>2, <2>3
<1>5. Max(S) \in S /\ \A x \in S : Max(S) >= x
  BY <1>4 DEF Max
<1>6. S \subseteq Int
  OBVIOUS
<1> HIDE DEF T
<1> QED
  BY <1>5, <1>6

\* A sum that decimalSumEquals accepts is the sum of the parts.
LEMMA SumAtScale ==
  ASSUME NEW expected \in Decimals, NEW values \in Seq(Decimals), MaxScale \in Nat,
         SumEquals(expected, values)
  PROVE  /\ [i \in DOMAIN values |-> At(values[i], MaxScale)] \in Seq(Int)
         /\ At(expected, MaxScale) = Total([i \in DOMAIN values |-> At(values[i], MaxScale)])
<1> DEFINE S == {expected.scale} \cup {values[i].scale : i \in DOMAIN values}
           s == Max(S)
           short == [i \in DOMAIN values |-> At(values[i], s)]
           long == [i \in DOMAIN values |-> At(values[i], MaxScale)]
           n == Len(values)
<1>1. n \in Nat /\ DOMAIN values = 1..n /\ \A i \in 1..n : values[i] \in Decimals
  OBVIOUS
<1>2. S \in SUBSET (0..MaxScale) /\ S # {}
  BY <1>1 DEF Decimals
<1>3. SameDecimal(expected, Decimal(Total(short), s))
  BY DEF SumEquals
<1>4. s \in S /\ \A x \in S : x <= s
  <2> HIDE DEF S
  <2> QED
    BY <1>2, FinestScale
<1>5. s \in Nat /\ s <= MaxScale /\ MaxScale - s \in Nat
  <2>1. s \in 0..MaxScale
    BY <1>2, <1>4
  <2> HIDE DEF S, s
  <2> QED
    BY <2>1
<1>6. expected.scale <= s /\ \A i \in 1..n : values[i].scale <= s
  BY <1>1, <1>4
<1> HIDE DEF s, S
<1>7. ASSUME NEW i \in 1..n
      PROVE  At(values[i], s) \in Nat /\ At(values[i], MaxScale) = At(values[i], s) * Power[MaxScale - s]
  <2>1. values[i] \in [units : Nat, scale : Nat]
    BY <1>1 DEF Decimals
  <2> QED
    BY <1>5, <1>6, <2>1, AtScale
<1>8. Power[MaxScale - s] \in Nat
  BY <1>5, PowerDef
<1>9. short \in Seq(Int) /\ Len(short) = n /\ \A i \in 1..n : short[i] = At(values[i], s)
  BY <1>1, <1>7
<1>10. long \in Seq(Int) /\ Len(long) = n /\ \A i \in 1..n : long[i] = At(values[i], MaxScale)
  <2>1. \A i \in 1..n : At(values[i], MaxScale) \in Int
    BY <1>7, <1>8
  <2> QED
    BY <1>1, <2>1
<1> HIDE DEF short, long
<1>11. Total(long) = Total(short) * Power[MaxScale - s]
  <2>1. \A i \in 1..n : long[i] = short[i] * Power[MaxScale - s]
    BY <1>7, <1>9, <1>10
  <2>2. Len(long) = Len(short) /\ Power[MaxScale - s] \in Int /\ Len(short) = n
    BY <1>8, <1>9, <1>10
  <2> HIDE DEF n
  <2> QED
    BY <1>9, <1>10, <2>1, <2>2, TotalScaled
<1>12. At(expected, s) = Total(short) * Power[0]
  <2>1. At(expected, s) = At(Decimal(Total(short), s), s)
    BY <1>3, <1>5, <1>6 DEF SameDecimal, Decimal, Decimals
  <2> QED
    BY <1>5, <2>1 DEF At, Decimal
<1>13. Total(short) \in Int
  <2>1. PICK u \in [0..n -> Int] : Total(short) = u[n]
    BY <1>9, PartialSums
  <2> QED
    BY <1>1, <2>1
<1>14. At(expected, s) = Total(short)
  BY <1>12, <1>13, PowerDef
<1>15. At(expected, MaxScale) = At(expected, s) * Power[MaxScale - s]
  BY <1>5, <1>6, AtScale DEF Decimals
<1> QED
  BY <1>10, <1>11, <1>14, <1>15 DEF long

\* What the amounts of a cost line are.
LEMMA LineFields ==
  ASSUME NEW lines \in Seq(CostLines), NEW i \in DOMAIN lines
  PROVE  /\ lines[i].class \in Classes /\ lines[i].amount \in Amount
         /\ lines[i].quantity \in Amount /\ lines[i].rate \in Amount
<1>1. lines[i] \in CostLines
  OBVIOUS
<1>2. \A line \in CostLines :
        /\ line.class \in Classes /\ line.amount \in Amount
        /\ line.quantity \in Amount /\ line.rate \in Amount
  <2> HIDE DEF Classes, Amount
  <2> QED
    BY DEF CostLines
<1> QED
  BY <1>1, <1>2

\* Amounts are decimals, one per line, and naturals at the common scale.
LEMMA AmountsAreDecimals ==
  ASSUME NEW lines \in Seq(CostLines), NEW classes, MaxScale \in Nat
  PROVE  /\ Amounts(lines, classes) \in Seq(Decimals)
         /\ DOMAIN Amounts(lines, classes) = DOMAIN lines
         /\ \A i \in DOMAIN lines : At(Amounts(lines, classes)[i], MaxScale) \in Nat
<1>1. Len(lines) \in Nat /\ DOMAIN lines = 1..Len(lines)
      /\ \A i \in 1..Len(lines) : lines[i].amount \in Decimals \cup {None}
  BY LineFields DEF Amount
<1>2. Zero \in Decimals
  BY DEF Zero, Decimal, Decimals
<1>3. \A i \in 1..Len(lines) :
        (IF i \in Priced(lines, classes) THEN lines[i].amount ELSE Zero) \in Decimals
  BY <1>1, <1>2 DEF Priced
<1>4. Amounts(lines, classes) \in [1..Len(lines) -> Decimals]
  BY <1>1, <1>3 DEF Amounts
<1>5. \A i \in 1..Len(lines) : At(Amounts(lines, classes)[i], MaxScale) \in Nat
  <2> TAKE i \in 1..Len(lines)
  <2>1. Amounts(lines, classes)[i] \in Decimals
    BY <1>4
  <2>2. /\ Amounts(lines, classes)[i] \in [units : Nat, scale : Nat]
        /\ Amounts(lines, classes)[i].scale <= MaxScale
    BY <2>1 DEF Decimals
  <2> QED
    BY <2>2, AtScale
<1> QED
  BY <1>1, <1>4, <1>5

\* The subtotal of classes, once it is there, is the sum of the amounts in them.
LEMMA SubtotalIsSum ==
  ASSUME NEW subtotal \in Amount, NEW lines \in Seq(CostLines), NEW classes,
         MaxScale \in Nat, SubtotalFits(subtotal, lines, classes), subtotal # None
  PROVE  /\ [i \in DOMAIN lines |-> At(Amounts(lines, classes)[i], MaxScale)] \in Seq(Int)
         /\ At(subtotal, MaxScale) =
              Total([i \in DOMAIN lines |-> At(Amounts(lines, classes)[i], MaxScale)])
<1>1. subtotal \in Decimals /\ SumEquals(subtotal, Amounts(lines, classes))
  BY DEF Amount, SubtotalFits
<1>2. Amounts(lines, classes) \in Seq(Decimals) /\ DOMAIN Amounts(lines, classes) = DOMAIN lines
  BY AmountsAreDecimals
<1> QED
  BY <1>1, <1>2, SumAtScale

\* A total that is there says what everything together has cost.
LEMMA CostsAreExact ==
  ASSUME NEW costs \in Costs, MaxScale \in Nat, ValidCosts(costs), costs.total # None
  PROVE  /\ At(costs.total, MaxScale) =
              Total([i \in DOMAIN costs.lines |->
                      At(Amounts(costs.lines, Classes)[i], MaxScale)])
         /\ \A i \in Priced(costs.lines, Classes) :
              /\ costs.lines[i].currency = costs.currency
              /\ costs.lines[i].class \in Multiplied =>
                   At(costs.lines[i].quantity, MaxScale) * At(costs.lines[i].rate, MaxScale)
                     = At(costs.lines[i].amount, MaxScale) * Power[MaxScale]
         /\ ~costs.missing
<1> DEFINE lines == costs.lines
           n == Len(lines)
           units(classes) == [i \in DOMAIN lines |-> At(Amounts(lines, classes)[i], MaxScale)]
           middle == [i \in DOMAIN lines |-> units(Direct)[i] + units(Shared)[i]]
<1>1. lines \in Seq(CostLines) /\ DOMAIN lines = 1..n /\ n \in Nat
  BY DEF Costs
<1>2. /\ costs.direct \in Amount /\ costs.shared \in Amount
      /\ costs.human \in Amount /\ costs.total \in Amount
  BY DEF Costs
<1>3. /\ SubtotalFits(costs.direct, lines, Direct)
      /\ SubtotalFits(costs.shared, lines, Shared)
      /\ SubtotalFits(costs.human, lines, Human)
      /\ None \notin Range(Subtotals(costs)) /\ SumEquals(costs.total, Subtotals(costs))
      /\ ~costs.missing
      /\ \A i \in DOMAIN lines :
           /\ ValidLine(lines[i])
           /\ lines[i].amount # None => lines[i].currency = costs.currency
  BY DEF ValidCosts
<1>4. costs.direct # None /\ costs.shared # None /\ costs.human # None
  <2>1. {Subtotals(costs)[1], Subtotals(costs)[2], Subtotals(costs)[3]}
          \subseteq Range(Subtotals(costs))
    BY DEF Range, Subtotals
  <2> QED
    BY <1>3, <2>1 DEF Subtotals
<1> HIDE DEF lines
<1>5. /\ units(Direct) \in Seq(Int) /\ At(costs.direct, MaxScale) = Total(units(Direct))
      /\ units(Shared) \in Seq(Int) /\ At(costs.shared, MaxScale) = Total(units(Shared))
      /\ units(Human) \in Seq(Int) /\ At(costs.human, MaxScale) = Total(units(Human))
  <2>1. units(Direct) \in Seq(Int) /\ At(costs.direct, MaxScale) = Total(units(Direct))
    BY <1>1, <1>2, <1>3, <1>4, SubtotalIsSum
  <2>2. units(Shared) \in Seq(Int) /\ At(costs.shared, MaxScale) = Total(units(Shared))
    BY <1>1, <1>2, <1>3, <1>4, SubtotalIsSum
  <2>3. units(Human) \in Seq(Int) /\ At(costs.human, MaxScale) = Total(units(Human))
    BY <1>1, <1>2, <1>3, <1>4, SubtotalIsSum
  <2> QED
    BY <2>1, <2>2, <2>3
<1>6. At(costs.total, MaxScale)
        = At(costs.direct, MaxScale) + At(costs.shared, MaxScale) + At(costs.human, MaxScale)
  <2> DEFINE parts == [i \in DOMAIN Subtotals(costs) |-> At(Subtotals(costs)[i], MaxScale)]
  <2>1. Subtotals(costs) \in Seq(Decimals) /\ costs.total \in Decimals
    BY <1>2, <1>4 DEF Amount, Subtotals
  <2>2. parts \in Seq(Int) /\ At(costs.total, MaxScale) = Total(parts)
    BY <1>3, <2>1, SumAtScale
  <2>3. DOMAIN Subtotals(costs) = 1..3
    BY DEF Subtotals
  <2>4. /\ parts[1] = At(costs.direct, MaxScale) /\ parts[2] = At(costs.shared, MaxScale)
        /\ parts[3] = At(costs.human, MaxScale)
    BY <2>3 DEF Subtotals
  <2>5. Len(parts) = 3
    BY <2>2, <2>3
  <2> HIDE DEF parts
  <2> QED
    BY <2>2, <2>4, <2>5, TotalOfThree
<1>7. ASSUME NEW i \in 1..n
      PROVE  /\ units(Direct)[i] \in Int /\ units(Shared)[i] \in Int /\ units(Human)[i] \in Int
             /\ units(Classes)[i] = (units(Direct)[i] + units(Shared)[i]) + units(Human)[i]
  <2>1. /\ \A classes : units(classes)[i] =
             At(IF lines[i].amount # None /\ lines[i].class \in classes
                THEN lines[i].amount ELSE Zero, MaxScale)
    BY <1>1 DEF Amounts, Priced
  <2>2. \A classes : units(classes)[i] \in Nat
    BY <1>1, AmountsAreDecimals
  <2>3. At(Zero, MaxScale) = 0
    <3>1. Power[MaxScale - 0] \in Nat
      <4>1. MaxScale - 0 = MaxScale
        OBVIOUS
      <4> QED
        BY <4>1, PowerDef
    <3> QED
      BY <3>1 DEF At, Zero, Decimal
  <2>4. lines[i].class \in Classes
    BY <1>1, LineFields
  <2> HIDE DEF units
  <2>5. CASE lines[i].amount = None
    <3>1. \A classes : units(classes)[i] = 0
      BY <2>1, <2>3, <2>5
    <3> QED
      BY <3>1
  <2>6. CASE lines[i].amount # None
    <3>1. units(Classes)[i] = At(lines[i].amount, MaxScale)
      BY <2>1, <2>4, <2>6
    <3>2. \A classes : units(classes)[i] =
             IF lines[i].class \in classes THEN units(Classes)[i] ELSE 0
      BY <2>1, <2>3, <2>6, <3>1
    <3>3. units(Classes)[i] \in Int
      BY <2>2
    <3>4. CASE lines[i].class \in Direct
      <4>1. lines[i].class \notin Shared /\ lines[i].class \notin Human
        BY <3>4 DEF Direct
      <4>2. /\ units(Direct)[i] = units(Classes)[i]
            /\ units(Shared)[i] = 0 /\ units(Human)[i] = 0
        BY <3>2, <3>4, <4>1
      <4> QED
        BY <3>3, <4>2
    <3>5. CASE lines[i].class \in Shared
      <4>1. lines[i].class \notin Direct /\ lines[i].class \notin Human
        BY <3>5 DEF Direct, Shared, Human
      <4>2. /\ units(Shared)[i] = units(Classes)[i]
            /\ units(Direct)[i] = 0 /\ units(Human)[i] = 0
        BY <3>2, <3>5, <4>1
      <4> QED
        BY <3>3, <4>2
    <3>6. CASE lines[i].class \in Human
      <4>1. lines[i].class \notin Direct /\ lines[i].class \notin Shared
        BY <3>6 DEF Direct, Shared, Human
      <4>2. /\ units(Human)[i] = units(Classes)[i]
            /\ units(Direct)[i] = 0 /\ units(Shared)[i] = 0
        BY <3>2, <3>6, <4>1
      <4> QED
        BY <3>3, <4>2
    <3> QED
      BY <2>4, <3>4, <3>5, <3>6 DEF Direct
  <2> QED
    BY <2>5, <2>6
<1>8. Total(units(Classes)) =
        (Total(units(Direct)) + Total(units(Shared))) + Total(units(Human))
  <2>1. units(Classes) \in Seq(Int) /\ Len(units(Classes)) = n
    BY <1>1, AmountsAreDecimals
  <2>2. /\ Len(units(Direct)) = n /\ Len(units(Shared)) = n /\ Len(units(Human)) = n
    BY <1>1, <1>5
  <2> HIDE DEF units
  <2>3. /\ middle \in Seq(Int) /\ Len(middle) = n
        /\ \A i \in 1..n : middle[i] = units(Direct)[i] + units(Shared)[i]
    BY <1>1, <1>7
  <2> HIDE DEF middle
  <2>4. Total(middle) = Total(units(Direct)) + Total(units(Shared))
    BY <1>5, <2>2, <2>3, TotalAdded
  <2>5. \A i \in 1..n : units(Classes)[i] = middle[i] + units(Human)[i]
    BY <1>7, <2>3
  <2>6. Total(units(Classes)) = Total(middle) + Total(units(Human))
    BY <1>5, <2>1, <2>2, <2>3, <2>5, TotalAdded
  <2> QED
    BY <2>4, <2>6
<1>9. ASSUME NEW i \in Priced(lines, Classes)
      PROVE  /\ lines[i].currency = costs.currency
             /\ lines[i].class \in Multiplied =>
                  At(lines[i].quantity, MaxScale) * At(lines[i].rate, MaxScale)
                    = At(lines[i].amount, MaxScale) * Power[MaxScale]
  <2>1. i \in 1..n /\ lines[i].amount # None
    BY <1>1 DEF Priced
  <2>2. ValidLine(lines[i]) /\ lines[i].currency = costs.currency
    BY <1>1, <1>3, <2>1
  <2>3. ASSUME lines[i].class \in Multiplied
        PROVE  At(lines[i].quantity, MaxScale) * At(lines[i].rate, MaxScale)
                 = At(lines[i].amount, MaxScale) * Power[MaxScale]
    <3>1. /\ lines[i].quantity # None /\ lines[i].rate # None
          /\ ProductEquals(lines[i].amount, lines[i].quantity, lines[i].rate)
      BY <2>2, <2>3 DEF ValidLine
    <3>2. /\ lines[i].quantity \in Decimals /\ lines[i].rate \in Decimals
          /\ lines[i].amount \in Decimals
      BY <1>1, <2>1, <3>1, LineFields DEF Amount
    <3> QED
      BY <3>1, <3>2, ProductAtScale
  <2> QED
    BY <2>2, <2>3
<1> HIDE DEF units, middle
<1>10. At(costs.total, MaxScale) = Total(units(Classes))
  BY <1>5, <1>6, <1>8
<1> QED
  BY <1>3, <1>9, <1>10 DEF lines, units

\* Costs of a record that goes live are exact.
LEMMA TotalsAreShown == DecimalAssumption /\ RecordTypeOK => ShownTotalsAreExact
<1> SUFFICES ASSUME DecimalAssumption, RecordTypeOK, Live, disk.economic # None,
                    disk.economic.costs.total # None
             PROVE  ShownTotalsAreExact
  BY DEF ShownTotalsAreExact
<1> DEFINE costs == disk.economic.costs
<1>1. disk # None /\ Verified(disk)
  BY DEF Live
<1>2. disk.economic \in EconomicRecords
  BY <1>1 DEF RecordTypeOK, MissionDirs
<1>3. costs \in Costs
  <2> HIDE DEF Costs
  <2> QED
    BY <1>2 DEF EconomicRecords
<1>4. ValidCosts(costs)
  BY <1>1 DEF Verified, FitsMission, ValidAlone
<1>5. MaxScale \in Nat
  BY DEF DecimalAssumption
<1> QED
  BY <1>3, <1>4, <1>5, CostsAreExact DEF ShownTotalsAreExact, Parts


-----------------------------------------------------------------------------
\* Every variable of the record keeps its type; a bundled mission is valid and
\* comes without an envelope, whatever was in the input.
THEOREM RecordTypeCorrect == RecordSpec => []RecordTypeOK
BY RecordInvariant, PTL DEF RecordInv

\* Whatever the inputs, the edits and the order of runs and publications: what
\* goes live is what the gate saw and the executor ran.
THEOREM LiveWasRun == RecordSpec => []ShownWasRun
BY RecordInvariant, RunIsShown, PTL

\* Publication, attestation and approval of what goes live are for the bundle
\* that is there, also after any number of reruns with --force.
THEOREM LiveIsCurrent == RecordSpec => []EnvelopeIsCurrent
BY RecordInvariant, CurrentIsShown, PTL

\* No run that went well is thrown away; of what the gate and the run let through,
\* the checks of CI that are modelled refuse what Gap lists and nothing else.
THEOREM NoRunWasted == RecordSpec => []NoRunIsWasted
<1>1. RecordInv => NoRunIsWasted
  <2> SUFFICES ASSUME RecordInv PROVE NoRunIsWasted
    OBVIOUS
  <2>1. ~wasted
    BY DEF RecordInv
  <2>2. InOrder => (Live <=> ~Gap(ran.input, ran.run))
    BY LiveHasNoGap, NoGapIsLive
  <2> QED
    BY <2>1, <2>2 DEF NoRunIsWasted
<1> QED
  BY <1>1, RecordInvariant, PTL

\* The totals that are shown are exact: whoever adds up the amounts of the lines
\* comes to the total (validateEconomicIdentity, at every stage that shows a record).
THEOREM LiveTotalsAreExact == RecordSpec => []ShownTotalsAreExact
<1>1. RecordTypeOK => ShownTotalsAreExact
  BY DecimalAssumption, TotalsAreShown
<1> QED
  BY RecordTypeCorrect, <1>1, PTL

=============================================================================
