---------------------------- MODULE MissionRecord ----------------------------
(***************************************************************************)
(* The life of one mission record, from the input of lib/pipeline.mjs to   *)
(* the receipt lib/ledger.mjs shows: the gate before a run and the checks  *)
(* after it, --force, the publisher that writes publication.json and       *)
(* approval.json next to a bundle, edits of the public mission.json, and   *)
(* the checks of CI (bundle verify, parity, Proof-of-Pass, the strict      *)
(* ledger build) that decide what can go live.                             *)
(*                                                                         *)
(* A bundle is never edited in place: that is what module Bundle is about. *)
(* Its digest is the number of the run that made it.  The publisher, a     *)
(* program outside this repository, reports truly what it saw, perhaps     *)
(* late.                                                                   *)
(***************************************************************************)
EXTENDS EconomicIdentity

CONSTANTS
  Inputs,    \* inputs of a first run
  Reruns,    \* inputs of a run with --force
  Lower,     \* hash as declared -> as a program writes it, in lower case
  Redacted,  \* command -> the same after redaction
  Blank,     \* a command of nothing but spaces
  Decoded,   \* bytes a patch file can have, each the hash of itself
             \* -> the hash of the text they are decoded to
  IssueOf,   \* issue snapshot -> the URL of the issue in it, None if it is not
             \* JSON or its issue has no title, Absent if it is about no issue
  Commits,   \* commits a clean checkout can be at
  Durations, \* milliseconds by which the clock moves during a run
  PullRequests, \* what the publisher may write about a pull request
  Edits,     \* changes of mission.json: <<field, value>>
  Legacy,    \* the release tag run-record-<mission>, without a digest
  MaxRuns,   \* bound on the runs
  MaxEdited  \* bound on the edits since a run

Patches == DOMAIN Decoded
Digests == 1..MaxRuns
Tags    == Digests \cup {Legacy}

MissionRecords ==
  Missions(STRING, DOMAIN Lower, DOMAIN Lower, Seq(DOMAIN Redacted), Tags)
ConsentFiles == [variant : Consented, artifact : STRING]
InputRecords ==
  [ mission : MissionRecords, patch : Patches \cup {None}, consent : ConsentFiles \cup {None},
    snapshot : DOMAIN IssueOf \cup {None}, economic : EconomicRecords \cup {None},
    install : SUBSET STRING ]

RequestStates == {"prepared", "open", "merged", "closed_unmerged"}
Ends == {None, "merged", "closed"}

ASSUME RecordAssumption ==
  /\ Inputs \subseteq InputRecords /\ Reruns \subseteq Inputs
  /\ DOMAIN Redacted \subseteq STRING /\ Redacted \in [DOMAIN Redacted -> STRING]
  /\ Decoded \in [Patches -> STRING] /\ Patches \subseteq STRING
  /\ IssueOf \in [DOMAIN IssueOf -> STRING \cup {None, Absent}] /\ DOMAIN IssueOf \subseteq STRING
  /\ Durations \subseteq Int
  /\ PullRequests \subseteq
       [state : RequestStates, head : Commits \cup {None}, drift : BOOLEAN, end : Ends]
  /\ \A input \in Inputs, change \in Edits :
       [input.mission EXCEPT ![change[1]] = change[2]] \in MissionRecords
  /\ Legacy \notin Digests /\ Elsewhere \notin Tags \cup {None}
  /\ None \notin STRING \cup EconomicRecords /\ Absent \notin STRING \cup {None}
  /\ MaxRuns \in Nat /\ MaxEdited \in Nat

VARIABLES
  disk,   \* <missions>/<mission_id>, None where there is no such directory
  runs,   \* how many times the commands were run
  ran,    \* history: input and run of the last call that published
  wasted, \* history: a run that went well was thrown away
  steady, \* history: the clock moved forward during every run
  clock,  \* the time
  assets, \* release tag -> digest of the signed bundle in it
  draft,  \* what the publisher saw last
  edited  \* how often mission.json was edited since the last run

history == <<ran, wasted, steady>>
recordVars == <<disk, runs, history, clock, assets, draft, edited>>

-----------------------------------------------------------------------------
(* lib/pipeline.mjs.                                                        *)

\* validatePublicConsent.
ConsentFits(consent, m) ==
  /\ m.variant \in Consented
  /\ consent.variant = m.variant /\ consent.artifact = m.consent

\* enforceConsentGate, and what runPipeline checks before it executes.
Gate(input) ==
  /\ ValidMission(input.mission)
  /\ input.mission.variant \in Consented =>
       input.consent # None /\ ConsentFits(input.consent, input.mission)
  /\ input.mission.uri = None
  /\ input.economic # None => FitsMission(input.economic, input.mission)
  /\ input.mission.commands # <<>>

\* assertCodeBinding: a patch that is left out is none.
CodeBinding(m, run) ==
  /\ m.base # None => run.source # None /\ Lower[m.base] = run.source
  /\ (IF m.patch \in {None, Absent} THEN None ELSE Lower[m.patch]) = run.applied

\* Mutant: the digest of an earlier bundle is kept.
FreshAttestation(m) == [m EXCEPT !.uri = None]

\* missionRecord: a fresh execution inherits no digest and no attestation.
Fresh(m) == [m EXCEPT !.digest = None, !.uri = None]

\* validateRunRecord, of a record the executor wrote: it does not end before it
\* started.
ValidRun(run) == Elapsed(run) >= 0

\* createBundle: a consent file that is there has to be one for the mission.
BundleAccepts(input, run) ==
  /\ ValidMission(Fresh(input.mission))
  /\ input.consent # None => ConsentFits(input.consent, input.mission)
  /\ ValidRun(run)

\* What runPipeline checks between the end of the run and its publication.
LateChecks(input, run) ==
  /\ CodeBinding(input.mission, run)
  /\ run.passed
  /\ input.economic # None =>
       LET e == Finalize(input.economic, run)
       IN FitsMission(e, input.mission) /\ FitsRun(e, run)
  /\ BundleAccepts(input, run)

\* The directory a run publishes.  patch is the file that was bundled.  Every text
\* of the run record is redacted; it is the commands that are compared with others.
Published(input, run, patch, digest) ==
  [ top       |-> Fresh(input.mission),
    bundled   |-> Fresh(input.mission),
    consent   |-> input.consent,
    patch     |-> patch,
    snapshot  |-> input.snapshot,
    economic  |-> IF input.economic = None THEN None ELSE Finalize(input.economic, run),
    run       |-> [run EXCEPT !.commands = [i \in DOMAIN @ |-> Redacted[@[i]]]],
    digest    |-> digest,
    publication |-> None,
    approval  |-> None ]

\* The runs an executor can report: a checkout that is not clean has no commit,
\* and the commands may fail.
RunsOf(input, applied) ==
  { [ source |-> source, applied |-> applied, passed |-> passed,
      commands |-> input.mission.commands, install |-> input.install,
      started |-> clock, finished |-> clock + duration, declared |-> 1, setup |-> 1 ]
    : source \in Commits \cup {None}, passed \in BOOLEAN, duration \in Durations }

\* The run itself gives no reason to refuse it: the commands passed, on the
\* declared code, and the clock was not set back.
WentWell(input, run) ==
  CodeBinding(input.mission, run) /\ run.passed /\ Elapsed(run) >= 0

\* One call of the pipeline.  The patch file is read before the run to be
\* bundled, and by the executor to be applied: it may change in between.
RunPipeline(input) ==
  /\ runs < MaxRuns
  /\ Gate(input)
  /\ \E applied \in IF input.patch = None THEN {None} ELSE Patches :
     \E run \in RunsOf(input, applied) :
       /\ clock' = run.finished
       /\ runs' = runs + 1
       /\ steady' = (steady /\ Elapsed(run) > 0)
       /\ IF LateChecks(input, run)
            THEN /\ disk' = Published(input, run, input.patch, runs')
                 /\ ran' = [input |-> input, run |-> run]
                 /\ edited' = 0
                 /\ UNCHANGED wasted
            ELSE /\ wasted' = (wasted \/ (WentWell(input, run) /\ BundleAccepts(input, run)))
                 /\ UNCHANGED <<disk, ran, edited>>
  /\ UNCHANGED <<assets, draft>>

-----------------------------------------------------------------------------
(* What CI asks of a committed mission: bin/validate-mission, bundle verify, *)
(* verify-receipt-parity, verify-proof-of-pass and the strict ledger build.  *)

Envelope == {"digest", "uri"}

\* Mutant: the variant is compared nowhere.
ParityButVariant(d) ==
  /\ \A f \in DOMAIN d.top \ (Envelope \cup {"variant", "label"}) : d.top[f] = d.bundled[f]
  /\ \A f \in Envelope : d.bundled[f] # None => d.bundled[f] = d.top[f]

\* receiptParityViolations.
Parity(d) ==
  /\ \A f \in DOMAIN d.top \ Envelope : d.top[f] = d.bundled[f]
  /\ \A f \in Envelope : d.bundled[f] # None => d.bundled[f] = d.top[f]

\* assertProofOfPass.
ProofOfPass(d) ==
  d.top.commands # <<>> /\ d.run.commands = d.top.commands /\ d.run.passed

\* semanticIssues finds nothing in a bundle whose files are those of its manifest.
\* A hash that is left out asks for a patch file, as it is not null, and no file
\* has it.
Verified(d) ==
  /\ ValidMission(d.bundled)
  /\ Parity(d)
  /\ ValidRun(d.run)
  /\ ProofOfPass([d EXCEPT !.top = d.bundled])
  /\ d.patch = d.bundled.patch
  /\ d.patch # None => d.run.applied = d.patch
  /\ d.run.source = d.bundled.base
  /\ d.bundled.variant \in Consented => d.consent # None /\ ConsentFits(d.consent, d.bundled)
  /\ d.economic # None => FitsMission(d.economic, d.bundled) /\ FitsRun(d.economic, d.run)

\* attestationAsset, and the tag suffix in validatePublication.
TagFits(tag, digest) == tag \in {None, Legacy, digest}

\* validatePublication.
ValidPublication(p) ==
  /\ TagFits(p.uri, p.digest)
  /\ IF p.state = "prepared"
       THEN p.head = None /\ ~p.drift /\ p.end = None
       ELSE /\ p.uri # None /\ p.head # None
            /\ p.end = (CASE p.state = "open" -> None
                          [] p.state = "merged" -> "merged"
                          [] p.state = "closed_unmerged" -> "closed")

\* Mutant: the manifest has no say in the digest.
AgreeWithoutManifest(d) == d.top.digest \in {None, d.publication.digest}

\* requireAgreement of the digests in manifest, publication and mission.
DigestsAgree(d) ==
  /\ d.publication.digest = d.digest
  /\ d.top.digest \in {None, d.digest}

\* The attestation a receipt shows is that of the publication; once there is a
\* pull request, the one in mission.json has to be the same.
TagsAgree(d) ==
  d.publication.state # "prepared" =>
    d.top.uri \in {None, d.publication.uri}

\* The approval is for this task and was given after the run.
ApprovedAfter(d) ==
  ApprovalFits(d.approval, d.economic) /\ d.approval.at >= d.run.finished

\* validateEconomicSourceRefs: what a cost line cites is in the bundle.
SourcesAreThere(e) == \A i \in DOMAIN e.costs.lines : e.costs.lines[i].cited

\* The schema-v2 part of buildReceiptViewModel.
EconomicReceipt(d) ==
  /\ (d.economic = None) = (d.approval = None)
  /\ d.economic # None =>
       /\ FitsMission(d.economic, d.top) /\ FitsRun(d.economic, d.run)
       /\ ApprovedAfter(d)
       /\ d.snapshot # None /\ d.economic.snapshot = d.snapshot
       /\ SourcesAreThere(d.economic)

\* requiredString, of every text the receipt quotes from mission and run record.
NothingIsBlank(d) ==
  /\ d.top.worker /\ d.top.label # "blank" /\ d.top.limitations # "blank"
  /\ Blank \notin Range(d.top.commands) \cup d.run.install

\* The patch is the declared one; its hash is taken of the decoded text.
PatchIsDeclared(d) ==
  d.top.patch \notin {None, Absent} =>
    /\ d.run.applied \in {None, d.top.patch}
    /\ d.patch # None => Decoded[d.patch] = d.top.patch

\* A snapshot that is about an issue is about the mission's.
SnapshotIsDeclared(d) ==
  d.snapshot # None => IssueOf[d.snapshot] \in {d.top.issue, Absent} \ {None}

\* buildReceiptViewModel makes a receipt of the mission.
Shown(d) ==
  /\ ValidMission(d.top)
  /\ Parity(d)
  /\ d.publication # None /\ ValidPublication(d.publication)
  /\ ProofOfPass(d)
  /\ NothingIsBlank(d)
  /\ DigestsAgree(d)
  /\ d.top.uri # Elsewhere /\ TagsAgree(d)
  /\ None \notin {d.top.base, d.run.source} => d.top.base = d.run.source
  /\ d.publication.state # "prepared" =>
       d.publication.drift = (d.top.patchCommit # d.publication.head)
  /\ PatchIsDeclared(d)
  /\ SnapshotIsDeclared(d)
  /\ EconomicReceipt(d)

Live == disk # None /\ Verified(disk) /\ Shown(disk)

-----------------------------------------------------------------------------
(* The signer, the publisher and the operator.                              *)

\* The signer works on what has passed CI, once for each bundle.  Its early
\* releases had one tag per mission.
Sign ==
  /\ Live /\ disk.digest \notin Range(assets)
  /\ \E tag \in IF assets = <<>> THEN {Legacy, disk.digest} ELSE {disk.digest} :
       assets' = [t \in DOMAIN assets \cup {tag} |-> IF t = tag THEN disk.digest ELSE assets[t]]
  /\ UNCHANGED <<disk, runs, history, clock, draft, edited>>

\* The publisher reads the bundle, and takes the tag of an asset only after it
\* has verified that the bundle is in it.
Observe ==
  /\ disk # None
  /\ \E tag \in {None} \cup {t \in DOMAIN assets : assets[t] = disk.digest} :
       draft' = [digest |-> disk.digest, uri |-> tag, at |-> clock,
                 economic |-> disk.economic]
  /\ UNCHANGED <<disk, runs, history, clock, assets, edited>>

\* It writes what it saw then, and what it sees of the pull request.
Publish ==
  /\ disk # None /\ draft # None
  /\ \E request \in PullRequests :
       disk' = [disk EXCEPT !.publication =
                  [digest |-> draft.digest, uri |-> draft.uri, state |-> request.state,
                   head |-> request.head, drift |-> request.drift, end |-> request.end]]
  /\ UNCHANGED <<runs, history, clock, assets, draft, edited>>

\* The approval of the bundle it saw.
Approve ==
  /\ disk # None /\ draft # None /\ draft.economic # None
  /\ disk' = [disk EXCEPT !.approval =
                 [for |-> draft.digest, at |-> draft.at,
                  issue |-> draft.economic.issue, cap |-> draft.economic.cap]]
  /\ UNCHANGED <<runs, history, clock, assets, draft, edited>>

\* The envelope of mission.json: digest and attestation, after signing.
RecordEnvelope ==
  /\ disk # None /\ draft # None
  /\ disk' = [disk EXCEPT !.top.digest = draft.digest, !.top.uri = draft.uri]
  /\ UNCHANGED <<runs, history, clock, assets, draft, edited>>

\* Anything else an editor may do to mission.json.
EditMission(change) ==
  /\ disk # None /\ edited < MaxEdited
  /\ disk' = [disk EXCEPT !.top[change[1]] = change[2]]
  /\ edited' = edited + 1
  /\ UNCHANGED <<runs, history, clock, assets, draft>>

\* Without --force a directory that exists is an error.
FirstRun == disk = None /\ \E input \in Inputs : RunPipeline(input)
Rerun    == disk # None /\ \E input \in Reruns : RunPipeline(input)

InitRecord ==
  /\ disk = None /\ runs = 0 /\ clock = 0 /\ edited = 0
  /\ ran = None /\ wasted = FALSE /\ steady = TRUE
  /\ assets = <<>>
  /\ draft = None

NextRecord ==
  \/ FirstRun \/ Rerun
  \/ Sign \/ Observe \/ Publish \/ Approve \/ RecordEnvelope
  \/ \E change \in Edits : EditMission(change)

RecordSpec == InitRecord /\ [][NextRecord]_recordVars

-----------------------------------------------------------------------------
(* Properties.                                                              *)

Runs ==
  [ source : Commits \cup {None}, applied : Patches \cup {None}, passed : BOOLEAN,
    commands : Seq(STRING), install : SUBSET STRING, started : Int, finished : Int, declared : Nat, setup : Nat ]
Publications ==
  [ digest : Digests, uri : Tags \cup {None}, state : RequestStates, head : Commits \cup {None},
    drift : BOOLEAN, end : Ends ]
Approvals == [for : Digests, at : Int, issue : STRING, cap : Amount]
Drafts    == [digest : Digests, uri : Tags \cup {None}, at : Int,
              economic : EconomicRecords \cup {None}]
MissionDirs ==
  [ top : MissionRecords, bundled : MissionRecords, consent : ConsentFiles \cup {None},
    patch : Patches \cup {None}, snapshot : DOMAIN IssueOf \cup {None},
    economic : EconomicRecords \cup {None}, run : Runs, digest : Digests,
    publication : Publications \cup {None}, approval : Approvals \cup {None} ]

\* Every variable has its type.  The bundled mission is valid and names neither
\* a digest nor an attestation.
RecordTypeOK ==
  /\ disk \in MissionDirs \cup {None}
  /\ disk # None =>
       /\ ValidMission(disk.bundled) /\ {disk.bundled[f] : f \in Envelope} = {None}
       /\ disk.digest \in 1..runs
       /\ ran \in [input : Inputs, run : Runs]
  /\ runs \in 0..MaxRuns /\ clock \in Int /\ edited \in 0..MaxEdited
  /\ {wasted, steady} \subseteq BOOLEAN
  /\ DOMAIN assets \subseteq Tags /\ \A t \in DOMAIN assets : assets[t] \in Digests
  /\ draft \in Drafts \cup {None}

\* What CI lets through is what the gate saw and the executor ran, whatever was
\* written to mission.json since: variant, consent, commit, patch and commands
\* are those of the run, the bundled patch is the one that was applied, and
\* every command passed (gate, code binding, parity and bundle verify together).
\* Without the consent of a maintainer it is about our own code: a rehearsal, or
\* a patch of ours that was applied to a commit with a name.
ShownWasRun ==
  Live =>
    LET m == ran.input.mission IN
    /\ Fresh(disk.top) = Fresh(m)
    /\ m.variant \in Consented =>
         ran.input.consent = [variant |-> m.variant, artifact |-> disk.top.consent]
    /\ disk.top.base = ran.run.source
    /\ disk.top.patch = ran.run.applied /\ disk.patch = ran.run.applied
    /\ disk.top.commands = ran.run.commands /\ ran.run.passed
    /\ disk.top.consent = None =>
         \/ m.variant = "own_repo_rehearsal"
         \/ m.variant = "author_contribution" /\ None \notin {ran.run.source, ran.run.applied}

\* Publication and approval vouch for the bundle that is there: after a rerun
\* what was written for the one before it does not go live, an attestation
\* that is shown is of this bundle, and, if the clock moves forward during every
\* run, an approval was given for it.
EnvelopeIsCurrent ==
  Live =>
    /\ disk.publication.digest = disk.digest
    /\ disk.publication.state # "prepared" => disk.publication.uri # None
    /\ disk.publication.uri # None => assets[disk.publication.uri] = disk.digest
    /\ disk.approval # None /\ steady => disk.approval.for = disk.digest

Parts(d) == At(d, MaxScale)

\* A total that is shown is exactly the sum of all amounts, each of them quantity
\* times rate where it was computed, in one currency and with nothing missing
\* (the decimal comparisons of validateEconomicIdentity at every stage).
ShownTotalsAreExact ==
  Live /\ disk.economic # None /\ disk.economic.costs.total # None =>
    LET costs == disk.economic.costs
        lines == costs.lines
    IN /\ Parts(costs.total) =
            Total([i \in DOMAIN lines |-> Parts(Amounts(lines, Classes)[i])])
       /\ \A i \in Priced(lines, Classes) :
            /\ lines[i].currency = costs.currency
            /\ lines[i].class \in Multiplied =>
                 Parts(lines[i].quantity) * Parts(lines[i].rate)
                   = Parts(lines[i].amount) * Power[MaxScale]
       /\ ~costs.missing

\* What CI refuses although the gate and the run let it through, among the
\* checks modelled here:
\*   a commit that is derived and not declared, hashes in upper case, a patch that
\*   is left out instead of null, a patch file that was replaced under the run;
\*   a patch file that is not UTF-8;
\*   a command that redaction changes;
\*   no worker, a blank label, limitation, command or install command;
\*   the snapshot of another issue, of one without a title, or no JSON;
\*   costs without their snapshot, or with stale sources.
Gap(input, run) ==
  LET m == input.mission IN
  \/ m.base # run.source \/ m.patch # run.applied \/ input.patch # run.applied
  \/ input.patch # None /\ Decoded[input.patch] # input.patch
  \/ \E i \in DOMAIN m.commands : Redacted[m.commands[i]] # m.commands[i]
  \/ ~m.worker \/ m.label = "blank" \/ m.limitations = "blank"
  \/ Blank \in Range(m.commands) \cup input.install
  \/ input.snapshot # None /\ IssueOf[input.snapshot] \notin {m.issue, Absent} \ {None}
  \/ /\ input.economic # None
     /\ input.snapshot # input.economic.snapshot \/ ~SourcesAreThere(input.economic)

\* Publication and approval are there and in order, and nobody has edited.
InOrder ==
  /\ disk # None /\ edited = 0
  /\ disk.publication # None
  /\ disk.publication.state = "prepared" /\ ~disk.publication.drift
  /\ {disk.publication.head, disk.publication.end} = {None}
  /\ disk.publication.digest = disk.digest /\ disk.top.digest \in {None, disk.digest}
  /\ disk.economic = None <=> disk.approval = None
  /\ disk.approval # None =>
       disk.approval.for = disk.digest /\ disk.approval.at >= disk.run.finished

\* A run that went well is not thrown away: economic input is refused before it
\* or not at all ("This prevents malformed economic metadata from consuming an
\* authoring run", lib/pipeline.mjs:403), and only a consent file the variant has
\* no use for is found after it.  What it published goes live as soon as its
\* publication and approval are in order, except for the cases of Gap; one of
\* those stops every later build, of this mission and of all others.  Left out are
\* the checks of CI that compare the committed ledger and site with a fresh build,
\* and those that look at a text for its form.
NoRunIsWasted ==
  /\ ~wasted
  /\ InOrder => (Live <=> ~Gap(ran.input, ran.run))

===============================================================================
