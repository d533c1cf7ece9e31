# TLA+ models of the verification pilot

This directory holds TLA+ models of the tooling in `src/lib`, `src/bin` and
`src/.github/workflows`: how a mission is executed, bundled, published, signed and shown, and how
outside policies are watched. TLC checks the models on small instances; TLAPS proves some of the
results for every value of the constants. `PROJECT.json` lists the runs, which line of the code
each definition stands for, the hazards, and the mutations each property was tried against.

## 1. The system

The repository is a set of Node programs without a server. They share files, Git branches and
GitHub Actions, and the hard behaviour is in what lies between two awaits or two workflow runs.

| Component | State it keeps | Operations | What must hold | Module |
| --- | --- | --- | --- | --- |
| pipeline (`lib/pipeline.mjs`) | `missions/<id>`, `missions/index.json`, `site/`, backup and temporary directories, the locals that say how far it came | `runPipeline`: gate, execute, check, back up, publish, roll back, clean up | the old content survives every failure; an ordinary error means nothing changed; success means everything changed; only verified missions become live | `Pipeline` |
| executor (`lib/executor.mjs`) | containers, timers, the copied workspace, the command records | `runDocker` (one client), `execute` (copy, Git controls, patch, phase A, commands, manifests, outputs, cleanup) | a passing record tells what ran, and from which commit; nothing is left but the record; it ends | `DockerRun`, `Workspace`, `Executor` |
| bundle (`lib/bundle.mjs`) | `<mission>/bundle`, its manifest | `createBundle`, `verifyBundle` | the old bundle goes only for a complete new one; a good verdict is sound | `Bundle` |
| signing (`lib/signing-handoff.mjs`, `ci.yml`, `attest-bundle.yml`) | Git ranges, CI artifacts, attestations, releases and assets | package, verify, attest, verify again, publish one after another | what is published was packaged and attested; ranges leave no gap | `Signing` |
| pages (`pages.yml`, `receipt-pages-source.yml`, `lib/factory-receipts.mjs`) | the branches main and receipts, the concurrency group, the site, attestations of proofs | resolve revisions, check and merge the receipts branch, project receipts, select and attest new proofs, deploy | only added proofs are attested; a shown receipt holds of the bytes it links; the site ends up current | `FactoryReceipts`, `Pages` |
| policy monitor (`lib/policy-monitor.mjs`, `bin/policy-monitor.mjs`) | `targets.json`, `state.json` | check, with or without `--write` | no false removal, nothing reported twice, no change hidden by a check that gives an exit code | `PolicyMonitor` |
| ledger (`lib/ledger.mjs`) | `publication.json` per mission, the index, the rendered tree | strict build, outcome of a publication, render and prune | one bad mission stops the build; a render that fails loses no receipt, one that ends leaves exactly its index | `Ledger` |
| foreign runner (`bin/foreign-runner.mjs`) | a micro-VM, a quota volume, the decision | probe, execute, copy out, remove | no GO without removal; the candidate runs only contained and on what was approved | `ForeignRunner` |
| mission record (`lib/mission-validator.mjs`, `lib/economic-identity.mjs`, and the checks in pipeline, bundle, parity, Proof-of-Pass and ledger) | `mission.json` beside its bundle, `publication.json`, `approval.json`, release assets | gate, run, `--force`, sign, publish, approve, edit; the checks of CI | what is shown was gated and run; publication and approval are of the bundle shown; totals are exact; of what gate and run accept, the modelled checks of CI refuse a known list and nothing else | `MissionRules`, `EconomicIdentity`, `MissionRecord` |
| redaction, QR codes, rehearsal script | none | pure functions and a demonstration | | not modelled |

How they interact. The pipeline calls the executor in the same process, then `createBundle` on a
staging copy of the mission, then the ledger's build and render; it publishes by renames. A commit
of `missions/` pushed to main starts CI, which packages the changed bundles into an artifact; the
completion of CI starts the signer and also the pages workflow. The pages workflow also starts
after a push to the receipts branch, which an external program writes. The policy monitor runs on
its own.

Hard behaviour, by kind: every await of `runPipeline` and `createBundle` may throw, and its
catch and finally blocks may throw again; the process may die between two renames; a docker client
and its container die separately, and timer, monitor, kill and close race for one promise;
workflows end in another order than their pushes, are cancelled in a concurrency group, fail
half-way and are repeated from the start; policies change while they are read. `PROJECT.json`
lists 40 hazards of this sort at their lines, with the property that covers each, or the reason
why none does.

## 2. The modules

### Pipeline, AtomicPublish, PipelineRefinement, PipelineProofs

`Pipeline` is `runPipeline` with one action per await. The content of a part (mission, index or
site) is the number of the run that produced it, so that "restored" and "published" are equalities.
`pc` and `part` say which await is next, `published`, `bakPath` and `held` are the locals the catch
and finally blocks read (`published`, `indexPublished`, `sitePublished`, the `*BackupPath`s, the
temporary directory paths), `live`, `bak` and `dirs` are the disk. `Torn` is what a recursive
removal that failed half-way leaves. Executor, bundle and ledger are each one await that works or
throws. Runs follow one another on the same disk; what earlier runs left as backups is in `kept`.

`AtomicPublish` is what a caller may rely on: the store changes as a whole, or not at all, or the
report says that nothing is known and then every guarded old part is in place or was kept aside.
`PipelineRefinement` maps the pipeline to it: the store of a run under way is what the run found.
Without `--site` the index has no backup in the code; `Saved` and `Guarded` name this exception.

### DockerRun, Workspace, Executor, MCExecutor, ExecutorProofs

`DockerRun` is `runDocker` together with the docker client and daemon, which are external: the
client may fail to start, may die and leave its container running, docker kill may fail or land
late. `timeout`, `forceKill`, `checking`, `monitorError` and `result` are the timers, the local
flags and the promise.

`Workspace` is `execute` up to phase A. `copy` is the copied source: its files, and what Git keeps
of them (HEAD, the index, the files the index hides, unmerged entries and submodules, the
configuration, and whether `.git` is a directory of its own). The source is whatever somebody hands
in; each step is a guard or a change of the code in its order. `misbound` and `escaped` are history
variables: the containers get something other than the commit that the record will name plus the
patch, or something outside the copy was written. No action reads them.

Git converts files between what it stores and what it writes (line ends, encoding, `$Id$`) where
attributes say so: those that the commit tracks, and those of `.git/info/attributes`, which
`removeLocalGitControls` leaves in place. So `git status` can be clean over bytes that the commit
does not have, and `git apply` can write such bytes. `SameToGit` and `PatchedConverted` are this,
and `IsTree` says what is left of the claim that the record names the commit that ran: byte for
byte, unless attributes of `HEAD` or of `.git/info` had Git convert some files, and then those files
are conversions of the commit's. The tree digest in the record (`base_tree_digest`) is of the real
bytes. Conversion filters are programs that only a configuration can name, and that one has been
replaced. A `.git` that was forged more deeply (objects that hold something else than their name
says, stat data of the index that hides a change) is not modelled: docs/executor.md:119-121 rests on
the source being what the operator checked out.

`Executor` goes on with phase A, each command with its checks before and after, the manifests, the
outputs and the cleanup. From there on the tree is abstracted to which of its three `Aspects`
(tracked files, other paths, Git metadata) differ from what was approved. A container that is alive
in `writable_copy` mode may change and undo any of them at any time.

Left out: the checks of the configuration, the identity of the image, the caps on sizes and
outputs (a cap that is exceeded is a throw) and how a manifest walks the files.

### Bundle, RecordProofs

Files are represented by the version of the mission they belong to. Sources are edited while
`createBundle` and `verifyBundle` run, so that reading twice can give two answers: the consent is
validated at one await and copied at another, and the verifier hashes at one and reads at another.
A run record that no source would produce is version 0: `createBundle` stops at it, and `Agrees`,
the verdict of `verifyBundle`, counts it as invalid. `economic.json` is copied unread; that it
belongs to the mission, the run and nothing else is only decided by the verifier (`Accounts`).
One creator at a time; the pipeline uses a private staging directory.

### Signing, MCSigning, SigningProofs

Per push to main one CI run and one signer with its own step. Some bundles are `Broken`: their
files are not those of their manifest, which CI refuses to package. `handoff` is the artifact as it
arrived (any set of bundles when the platform fails us), `Verify` and `Confirm` are the two
comparisons with Git (the missions of the metadata with the range, each archive with the head
tree), `View`, `Create` and `Upload` the publish loop. A failed CI run or signer can
be repeated, from its start.

### FactoryReceipts, Pages, MCPages, PagesProofs

`FactoryReceipts` is what `lib/factory-receipts.mjs` says of one directory of the receipts branch:
when a proof, its pointer and its publication are valid, when the directory can be projected, and
which receipt comes out. A proof is its digest, and `ProofOf` says what the bytes with that digest
say, so that a proof that was changed in place is another digest at the same path. Times are
compared, their format is not; display texts, file modes and sizes are left out.

In `Pages`, `running` and `waiting` are the concurrency group: an event that arrives while another
waits takes its place, and an event takes its place before the job's condition skips its run: that
of an unsuccessful CI run, and that of a CI run which was dispatched by hand or belongs to a pull
request from a branch called main (`Bystander`, `OtherCompletes`). A run resolves the two revisions
in two actions, because the branch it was not started by can move in between, and the source check
reads the whole tree of the revision it resolved. `lost` keeps the events whose run failed or was
displaced, except those that would have been skipped. The receipts branch begins as one of
`Beginnings`; a branch without any mission directory cannot be merged, because there is nothing to
read. A push to receipts may bring several commits; `Touched` looks at the last one only, as the
code does. The branch is written by a program outside the repository; of that program it is assumed
that it names as attested only digests that were attested (`Seen`), and nothing else: it may write
invalid directories.

### PolicyMonitor, PolicyMonitorProofs

One check at a time, with or without `--write`, on the version 1 configuration. File requests run
side by side, documents after them in order. `NextState` and `Status` are the new snapshot and the
comparison; the write truncates the file first. A check compares (`results`), writes, then prints
its listing line by line (`report`), and then gives its exit code; it can be killed, or lose the
reader of its output, before each of these, and the write can fail with the file truncated or not.
The scheduled workflow is a check without `--write`
in a fresh checkout, which is the case `snapshot = committed`. `gone`, `moved`, `fresh` and
`settled` are history variables for the properties and no action reads them.

### Ledger, MCLedger, LedgerProofs

`buildLedger` and `renderLedger` as they are used on the command line, repeatedly and over one
another's output. A build reads all missions at one action (`StartBuild`, with or without skips and
exclusions) and writes the index at another, in place, so that it can be torn. A render is one
action per file: `step` is the file it is at, `todo` the rest of its loop, and `Work` what each
loop goes over, the last three over what is in the directory. A generated file is represented by
the `generated_at` of its index, so that a page of another generation can be told from one of this.
`RenderStops` is a write or removal that fails, or a kill, with the half of it that may be done.
`Unrelated` is a repository page that the generator has not written. What a mission's directory
holds is two digests: the bundle's, and the one `publication.json` names. A mission executed anew
has no receipt until its publication follows (`HasReceipt`). Concurrent builds, edits of a mission
while a build reads it, and the other rules of a valid publication are left out. Rendering does not
read the missions, so that edits interleave with it without effect.

### ForeignRunner, ForeignRunnerProofs

One call of `main`, as gate or as run. Commands that change the VM, its network rules, the staged
files or `--out` are actions of their own; the others are the `Checks`, which pass or throw. `vm`
has two values that outlive a command the runner has abandoned: a VM that is still to come after
its creation was given up, and one that is still to go after its removal was. A candidate that was
abandoned goes on. Config and patch on the host are versions that anybody may edit between their
check and their use. `faulty` is a history variable: sbx did not carry out a create, rm or ls.
`RemoveRefused` is the status of `sbx rm` that the code ignores and leaves to `sbx ls`.

### MissionRules, EconomicIdentity, MissionRecord, MCMissionRecord, RecordProofs

`MissionRules` has one operator per family of rules of `validatePolicy`; `ValidMission` is their
conjunction. `EconomicIdentity` has the decimals (an integer and a number of fraction digits), the
rules for cost lines, subtotals, totals, lineage and usage, the match with a mission, a run and an
approval, and `Finalize`, what the pipeline writes after a run. Both are operators on records; a
text is the phrases the rules look for in it. Powers of ten and sums are recursive functions
(`Power`, `Total`), so that the provers can reason about them; the types of the fields
(`CostLines`, `Costs`, `EconomicRecords`) are what the format checks of the code let through.

`MissionRecord` puts them where the code uses them. `RunPipeline` is one call of the pipeline: the
gate, a run that may fail, find another commit, meet a patch file that was replaced, or see the
clock go back, the late checks, and the directory that is published (how it is published is
`Pipeline`'s matter). `Verified` and `Shown` are what CI says of that directory: `bundle verify`,
parity, Proof-of-Pass and the strict build of the ledger; `Live` is both. Around it are the signer,
the publisher, which writes `publication.json`, `approval.json` and the envelope of `mission.json`
from what it saw, perhaps before a rerun, and an editor of `mission.json`. `ran`, `wasted` and
`steady` are history variables.

What the module shows about the code, besides the properties:

- `approval.json` names a digest of the manifest that was approved, and nothing compares it
  (`lib/economic-identity.mjs:409`). That an approval is of the bundle shown rests on
  `approved_at` not being before the end of the run (`lib/ledger.mjs:711`), and so on a clock that
  moves forward during every run: hence `steady` in `EnvelopeIsCurrent`. A clock that is not set
  back is not enough, as the proof showed: a rerun that ends in the millisecond it began in can end
  in the one in which the bundle before it was approved, and then the old approval passes.
- The gate asks less than CI. `Gap` lists what gets through it and is refused after the run:
  - a base commit that is derived and not declared, hashes in upper case, and a patch hash that is
    left out where `null` is wanted (`undefined !== null`, `lib/bundle.mjs:643`);
  - a patch file that is replaced under the run, and a patch that is not valid UTF-8, which the
    ledger hashes after decoding it (`lib/ledger.mjs:560`);
  - a command that redaction changes; no worker;
  - a label, a limitation, a command or an install command of nothing but spaces;
  - a snapshot of another issue, one without a title, and one that is no JSON;
  - costs without a snapshot, without their sources, or with stale ones.

  `NoRunIsWasted` says that of what gate and run accept, the checks of CI *that are modelled* refuse
  exactly these. Not modelled, and so not in the list: the comparison of the committed index and
  site with a fresh build, and of the pictures (`ci.yml`); checks of the form of a text that the
  gate does not make either (a blank image reference, a repository name that is no path,
  `lib/ledger.mjs:984`); redaction of other texts than the commands; the workspace fields of the
  evidence; and whatever is said of several missions together. A consent file for a variant that
  needs none passes the gate too, and is only refused by `createBundle`, as is a run during which
  the clock was set back (`validateRunRecord`, `lib/bundle.mjs:141`).
- Tier R1 cannot be reached: `docs/schema.md:17` wants a public attestation for it, and the gate
  refuses a mission that has one (`STALE_ATTESTATION`, `lib/pipeline.mjs:370`), while parity keeps
  the tiers from being edited later.

## 3. What is checked

Runs that pass:

| Run | Instance | Shows |
| --- | --- | --- |
| `pipeline` | 2 consecutive runs, all inputs | `OldCopySurvives`, `CleanErrorRestores`, `OnlyVerifiedIsLive`, and the refinement `ImplementsAtomicPublish` |
| `executor` | some 230 sources, 8 patches, phase A and 2 commands, both workspace modes | `PassingRecordDescribesRun`, `NothingIsLeftBehind`, `SettledIsQuiet`, and that `execute` ends |
| `bundle` | 2 versions, one with a patch, with or without costs, 3 edits | `KilledLosesNothing`, `GoesForAnother`, `ReturnedCoversBundle`, `VerifiedIsSound` |
| `signing` | 2 pushes, 3 missions, 2 of them with 2 bundles, one broken, a limit of 2 per push, 1 failure | `PublishedIsGenuine`, `AllDoneCoversMain`, `UntroubledPushIsSigned` |
| `pages` | 2 pushes to main, 2 commits to receipts, 10 contents of a directory, 1 failure | `SettledSiteIsCurrent`, `AttestedAsAdded`, `ShownReceiptIsReal` |
| `policy` | 2 files, 1 document, 2 edits, any number of failures and kills | `RemovalIsReal`, `NothingIsHidden`, `SettledStaysQuiet` |
| `ledger` | 2 missions of one repository, one a rehearsal, 2 builds, 1 edit, any number of renders | `LastSetSurvives`, `CompleteRenderIsExact`, `UnrelatedStays` |
| `foreign` | both modes, 2 pull hosts, 2 versions of each file, 2 edits | `ContainedWhileRunning`, `GoIsEarned`, `SandboxIsRemoved` |
| `record` | some 250 inputs, 2 runs, 1 edit after each | `ShownWasRun`, `EnvelopeIsCurrent`, `ShownTotalsAreExact`, `NoRunIsWasted` |

Each also checks one type invariant. Runs that show a disagreement between the code and what is
said of it (see `findings`):

| Run | Statement | Why it fails |
| --- | --- | --- |
| `executor_docs` | a change aborts the run before a later command can consume it (docs/executor.md:55) | a container that outlives its call keeps the tree mounted |
| `signing_docs` | each tarball is published (docs/attestation.md:27) | the second attempt stops at the asset the first one uploaded |
| `pages_docs` | proof attestation proceeds asynchronously after the commit (docs/ledger.md:111) | a waiting run is cancelled by the next event and nothing looks back |

Seen on the way, and not a run of their own:

- The cleanup of `runPipeline` in `finally` can throw after success: the caller gets an error, and
  the new mission stays (docs/pipeline.md:17 says that a failure of any stage undoes it).
  `ImplementsAtomicPublish` reports "unknown" there.
- One directory of the receipts branch that cannot be projected stops the site of all missions
  until the branch is mended. So does a branch without any directory (`readdir`,
  `lib/factory-receipts.mjs:652`).
- A CI run on main that was dispatched by hand takes a place in the concurrency group, displaces the
  run that waits there, and is then skipped (`pages.yml:18-20`, `ci.yml:8-9`). All runs succeed, and
  the site stays without the push it displaced. `SettledSiteIsCurrent` excludes it (`orderly`).
- A policy check with `--write` that is killed, or whose output is closed, after its write
  (`bin/policy-monitor.mjs:152`) and before the last line of its listing (155-164) leaves changes in
  the snapshot that no check lists, now or later. `NothingIsHidden` is about checks that give an
  exit code.
- A source whose `.git/info/attributes` converts files has a clean status over other bytes than its
  commit's, and the record names that commit.
- The immutability of a proof is checked for pushes to receipts, against one parent. A proof that
  was changed in place by an earlier commit is shown when a run of CI deploys that revision; it is
  shown as pending, and never under the attestation of the bytes it replaced (`ShownReceiptIsReal`).

Bounds, and why they are enough for the question (the theorems of section 4 hold without them, so
that they matter to liveness and to the three findings):

- `MaxRuns = 2` (Pipeline): the second run meets everything one run can leave behind (stale backups,
  temporary directories, torn parts, a crash).
- `Commands = 2` (Executor): a first, a later and phase A's container; a container can outlive its
  call into the next one and into the last.
- Sources and patches (MCExecutor): a clean checkout with up to two deviations of ten kinds, among
  them attributes that the commit tracks and attributes of `.git/info`, with and without a link in
  the tree, and a tree without a repository; patches that change a file, with or without adding or
  removing the attributes, turn it into a link, remove a link, write below one, make a link and
  write below it, or leave the copy.
  Two deviations are what it takes for one to hide the other from a check.
- `MaxEdits` (Bundle, PolicyMonitor): enough for a value to change and change back between two reads
  of one call, or to differ between two calls.
- `MaxPushes`, `MaxFailures`, `MaxMissions` (Signing): two signers that run side by side, one of
  which fails and is repeated. A push of all three missions is one over the limit of two and is
  refused; the next push then has to cover its range. `signing_docs` needs no third mission.
- `MaxMains`, `MaxCommits`, `MaxFailures` (Pages): four events for a group of two places, so that
  events displace one another; two commits in one push; any number of bystanders. The branch begins empty or
  with a first proof.
- Directories (MCPages): empty, one or two proofs, a proof changed in place, a legacy proof, a
  patched tree that fails as declared, no publication, one for the bytes there and one for other
  bytes, and a pointer to either proof or none. `ValidPairs` checks `ValidStructured` over all pairs
  of observations.
- `MaxBuilds`, `MaxEdits` (Ledger): two generations, and between them an edit that gives a mission
  its publication, makes it stale or removes it; each mission begins with or without one, and a
  build can leave one out. The rehearsal shows a receipt without a repository page. An index always
  has its time: one built without `--now` has none, and `renderLedger` refuses it before it writes.
- `MaxEdits`, two pull hosts (ForeignRunner): each approved file, or one of them twice, can change
  after its check; a rule is removed while another is left.
- Inputs, `MaxRuns`, `MaxEdited`, `MaxScale` (MissionRecord): a good input of each kind, inputs that
  differ from one in a field or two, and some 270 statements of costs, most of them flawed, each
  rule by one of its own. Two runs, so that what was written for the first meets the second; an edit
  after each, of any field that parity or the ledger looks at. Four fraction digits are the most an
  input has.

Exceptions the properties name: after a render was cut short, a repository page without its marker
may survive every later render, because the marker is what makes it removable (`troubled` in
`CompleteRenderIsExact`); a VM may be left over when sbx itself failed (`faulty` in
`SandboxIsRemoved`), and then no GO is printed; a container may be left over when its `docker rm`
failed (`spared` in `NothingIsLeftBehind`); a killed policy check says nothing (`NothingIsHidden`);
a site can be stale when a skipped run displaced one that would have been served (`orderly` in
`SettledSiteIsCurrent`); Git's conversions can stand between the commit and the bytes that ran
(`IsTree` in `PassingRecordDescribesRun`).

Fairness. Safety runs assume none. `executor` assumes that timers fire, that Node delivers the
events of a client that ended, that SIGKILL ends a process and that `execute` goes on, including
the docker commands of its cleanup, which have no timer in the code. Nothing is assumed of a
container, of docker kill or of a client that got SIGTERM. `signing` assumes that started workflow
runs go on and, for the finding, that somebody repeats a failed signer; `pages_docs` that runs and
completions happen. Nobody has to push, edit or repeat anything.

Deadlock checking is off where the system may stop: all runs done, `execute` over, nothing left to
push.

## 4. What is proved

`PipelineProofs`, for every `MaxRuns`:

- `TypeCorrect`: the type invariant.
- `OldCopyNeverLost`: `OldCopySurvives` always holds.
- `ErrorMeansRestored`: `CleanErrorRestores` always holds.
- `VerifiedBeforeLive`: `OnlyVerifiedIsLive` always holds.
- `PipelineIsAtomic`: the pipeline implements `AtomicPublish` (`ImplementsAtomicPublish`).

`OldCopySurvives` and `CleanErrorRestores` are not inductive. `IInv` adds what the code relies on at
each step: `Progress` (which locals are set at which await), `Copies` (a part that was moved away or
replaced has its copy in a backup whose path the catch block knows, and everything else is
untouched) and `Rollback` (what has been undone so far, and that a result of "restored" means that
nothing failed). Each has a lemma with one step per group of actions. The only assumption is
`ContentAssumption`: the markers `Absent` and `Torn` are no run numbers.

`OnlyVerifiedIsLive` needs `Provenance`: everything on the disk is of a run that has begun
(`Numbered`), and from the moment the current run can have published something it is one that
passed and was accepted (`Verified`). The refinement needs in addition `Accounted`: every backup is
in a directory that the finally block will find, what is published stays until it is undone, and a
run that reports success has replaced every part in scope. On that ground each action
is a step of the store or a stutter: `BeginStarts` begins, everything inside is hidden
(`InsideIsHidden`), and the end shows one of the three outcomes the abstract store allows
(`SuccessReplaces`, `FailureRestores`, `UnknownBreaks`).

`RecordProofs` holds the theorems about `Bundle` and `MissionRecord`. Those about `Bundle`, for
every set of versions and every number of edits:

- `TypeCorrect`: the type invariant.
- `DigestCoversBundle`: `ReturnedCoversBundle` always holds.
- `KilledKeepsBundle`: `KilledLosesNothing` always holds.
- `OldGoesForAnother`: the action property `GoesForAnother` holds.
- `GoodVerdictIsSound`: `VerifiedIsSound` always holds.

`CInv` is the creator's part of the invariant. It says that the temporary directory is complete, and
its manifest lists its files, from the manifest's await until the rename; that a bundle found at the
start is whole until its removal; and that a call has a result exactly when it is over. None of the
four properties of the creator is inductive without these: a kill at the removal, for one, is
harmless only because the replacement is complete there. `VInv` says what an undisturbed verifier
knows: after the manifest, that it is the bundle's; after the hashes, that the files are the
manifest's. It needs of the creator only that every step that changes the bundle disturbs the
verifier. The assumptions are those of `BundleAssumption`: versions are positive numbers, and
`MaxEdits` is a number.

Those about `MissionRecord`, for every set of inputs, edits, durations and pull requests, every
number of runs and edits, any number of cost lines and any number of fraction digits:

- `RecordTypeCorrect`: `RecordTypeOK`, the type invariant, with every field of the directory.
- `LiveWasRun`: `ShownWasRun` always holds.
- `LiveIsCurrent`: `EnvelopeIsCurrent` always holds.
- `LiveTotalsAreExact`: `ShownTotalsAreExact` always holds.
- `NoRunWasted`: `NoRunIsWasted` always holds.

None of them is inductive. `RecordInv` adds where things come from. `FromRun`: everything in the
directory but `mission.json` at its top, the publication and the approval is what the run in `ran`
published, of an input that passed the gate and the late checks. `Unedited`: without an edit only
the envelope differs from the bundled mission. `Seen` and `Written`: what the publisher saw, or
wrote, is of the bundle that is there, or was there before its run ended. A rerun is the hard step:
it replaces the bundle under a publisher who has already looked, and all that is left to tell the
old approval from a new one is its time. Each action has a lemma (`RunKeeps` to `EditKeeps`).

`LiveWasRun` follows because parity ties the top to the bundle whatever was edited, and
`LiveIsCurrent` from `Seen`, `Written` and the comparison of digests. `NoRunWasted` is an
equivalence, so that it needs both directions for each modelled check of CI: a gap is refused
(`LiveHasNoGap`), and without one every check passes (`NoGapIsLive`), which goes through the rules
of `validatePolicy` once more for a mission that now has an envelope (`ValidInEnvelope`).

`LiveTotalsAreExact` needs none of this, only that what is live is valid, and then arithmetic. Every
comparison in the code is at a scale of its own: that of the finest of two numbers, or of all
numbers of a sum. `AtScale` and `SameAtScale` carry it to one common scale, `SumAtScale` and
`ProductAtScale` the sums and products; `CostsAreExact` puts together that the three classes of
costs partition the lines (`TotalAdded`). `Power` and `Total` are defined by recursion, and the
provers cannot use the induction theorems of the library. What they can use is that a set of
numbers which is not empty has a least member (`LeastOf`), and from it `SetInduction`, induction
about a set instead of a predicate; `Recursion` proves with it that the function a recursive
definition describes exists.

The assumptions are those of `RecordAssumption` (inputs are records of the formats the code checks;
edits leave a record in its format; redaction maps texts to texts, decoding patches to texts, and a
snapshot has one issue or none; the tag of an old bundle and a
link to somewhere else are no tags of a bundle made here; `None` and `Absent` are two things, and no
text and no record) and
`DecimalAssumption`. The finite number of fraction digits names a common scale; the theorem is for
each such number.

`ForeignRunnerProofs`, for every set of pull hosts, every set of versions and every number of edits:

- `TypeCorrect`: the type invariant. Not inductive by itself: that "NO-GO" is never printed needs
  the decision at the removal.
- `CandidateIsContained`: `ContainedWhileRunning` always holds.
- `PrintedGoIsEarned`: `GoIsEarned` always holds.
- `NoSandboxIsLeft`: `SandboxIsRemoved` always holds.

`IInv` says at each position of `main` which network rules are in force (`NetworkInv`), where the VM
is (`MachineInv`), how far the approved bytes have come (`InputInv`), which checks have passed
(`CheckInv`), and what the finally block knows when nothing was thrown (`EndInv`). The assumptions
are those of `ForeignRunnerAssumption`: the registry is no pull host and the probed host is one.

`ExecutorProofs`, for every number of commands and every set of sources and
patches, in both workspace modes:

- `TypeCorrect`: the type invariant.
- `PassIsHonest`: `PassingRecordDescribesRun` always holds.
- `NothingStays`: `NothingIsLeftBehind` always holds.
- `LateChecksAreDropped`: the action property `SettledIsQuiet` holds.

The last one needs no invariant: every step that could start a kill or a timer is guarded by the
call not having settled, or begins the next call. The two before it are about the end of `execute`
and rest on what each earlier await established. `WInv` says it of the preparation: a copy whose Git
controls were checked has none that could act (`GitTamed`), the index holds the applied patch and no
more (`PatchChecked`), and a copy whose commit the record names has the files of that commit, as Git
may convert them (`NamedIsHead`; `IsTree` for the copy that is approved). `EInv` says it of the run:
`CallInv` (a call under way is the one waited for, and a settled one has no client left),
`CleanupInv` (containers that the cleanup has passed are gone, or their removal failed and the
record says so), `AloneInv` (as long as the record can still pass, no container runs but the one
waited for) and `TreeInv` (nothing in the tree was tainted since its baseline). `AloneInv` is the
heart of the argument: with a container of an earlier command alive, a manifest measured at a
command's end would say nothing of the tree a moment later. The assumptions are `CommandsAssumption`
(a number of commands) and `WorkspaceAssumption` (sources and patches have the fields the
preparation looks at; a conversion neither makes nor removes a link).

`SigningProofs`, for every set of missions and bundles, every limit, and every number of pushes and
failures:

- `TypeCorrect`: the type invariant.
- `GenuineRelease`: `PublishedIsGenuine` always holds.
- `NoGapInMain`: `AllDoneCoversMain` always holds.

`RangeInv` fixes the range of a push once CI has run over it: later pushes do not move its two ends.
`SignerInv` says what a signer knows at each step. Between the first verification and the
attestation, and again from the second on, its handoff is the range of its push; in between only
the attestations are known, because the files may change while they are signed. That is why the
second verification cannot be left out. A publish loop has something to do, and what it has not to
do is uploaded; that `Current` exists is the least-number principle on the mission numbers
(`LeastOf`). Not even the type invariant is inductive without this. `CoverInv` says that whatever a
tree on main holds is in the range of that push or of an earlier one; it is what "no gap" means,
and with it `AllDoneCoversMain` follows from each signer being done with its own range. The
assumptions are those of `SigningAssumption`: missions are numbers, a bundle is a mission with a
digest other than 0.

`PagesProofs`, for every set of missions, proofs and directories, and every number of pushes,
commits and failures:

- `TypeCorrect`: the type invariant.
- `SettledIsCurrent`: `SettledSiteIsCurrent` always holds.
- `ReceiptIsReal`: `ShownReceiptIsReal` always holds.
- `AttestedIsAdded`: `AttestedAsAdded` always holds.

`Known` are the events in the group or lost. `ArriveKeeps`, `MoveKeeps` and `EndKeeps` say what an
event that arrives, a run that goes on and a run that ends preserve, whichever it is. `ServedInv`
carries `AttestedAsAdded`: the event of a signal leaves `Known` only at a deployment, and a signal
that is about to be deployed has its news attested. `LedgerInv` and `ReceiptsInv` are the same
statement of the two branches: as long as everything is orderly, the last push has its event still
to come, or else the last event in the group that will be served is its own, or one that looks the
branch up and cannot come too early, or the site is of it already. A bystander that waits changes
nothing in this: what it displaced was not to be served, or `orderly` has ended. Commits that are
not pushed yet change no revision that an event can name (`HeadsInv`). `ReceiptIsOfProof` is the
part of `FactoryReceipts`: what `Receipt` shows of a directory that is `Projectable` holds of the
proof it links. An attestation shown rests on `SeenInv` as well, which is what is assumed of the
factory. The assumptions are those of `FactoryAssumption` and `PagesAssumption`: the fields a
directory has, and nothing about what a proof or a publication says.

`PolicyMonitorProofs`, for every set of files and documents and any number of edits, failed
requests and killed checks:

- `TypeCorrect`: the type invariant.
- `NoFalseRemoval`: `RemovalIsReal` always holds.
- `NoSilentChange`: the action property `NothingIsHidden` holds.
- `NothingCriedTwice`: the action property `SettledStaysQuiet` holds.

The invariant says when there are results and of what (`ReportInv`: while the snapshot is written,
and while the listing is printed, what is not in the results is in the snapshot as it was found, and
what the check has changed there is in the results), who has been away (`GoneInv`, and `RemovedInv`
for what is called removed), and that what is `fresh` or `settled` is as it was seen or as the
snapshot has it (`FreshInv`, `SettledInv`). `StatusTells` says of one key what the comparison tells.
`PolicyAssumption` says that something is watched: `bin/policy-monitor.mjs:70` refuses a
configuration that watches nothing. Without it exit code 0 would be given to a check that saw
nothing, which `NothingIsHidden` excludes. That theorem is of the exit codes: a check that gives one
has printed every key that it changed in the snapshot, and one that gives 0 has changed none and saw
all as it is stored.

`LedgerProofs`, for every set of missions and repositories and any number of builds, edits and
renders:

- `TypeCorrect`: the type invariant.
- `LastSetIsNotLost`: `LastSetSurvives` always holds.
- `EndedRenderIsExact`: `CompleteRenderIsExact` always holds.
- `OthersPagesStay`: the action property `UnrelatedStays` holds.

`LInv` follows a render through its five loops. `PageInv` and `RepoInv` say what the two writing
loops have written, with `todo` what is left; `PruneInv` says that the three removing loops remove
only what the index has not, and what they have passed is gone; `MarkInv` says that a repository
page is marked only if the generator has written it. `last`, the set that must survive, becomes the
index's own before the first removal; before that nothing is removed, and from then on nothing of
it is. The assumptions are those of `LedgerAssumption`.

Only model-checked: the liveness properties `ExecuteEnds` and `UntroubledPushIsSigned`, because
fairness is outside the prover. All other properties of the runs that pass are theorems.

## 5. Plan

Done, in this order: Pipeline with its refinement and proofs, DockerRun and Executor, Signing,
PolicyMonitor, Pages, Bundle with its proofs, Ledger, ForeignRunner with its proofs; then
MissionRecord with its rules and costs, FactoryReceipts, pushes over the signing limit, Workspace,
and the proofs of the executor; then the steps of the refinement to `AtomicPublish`, and the proofs
of the policy monitor, the ledger, signing and pages; then those of the mission record and its
totals.

Next:

1. Two pipelines at once on one missions directory, and builds that read a mission while it is
   replaced (`lib/ledger.mjs:526` onwards): the run record and the logs are read apart from the
   manifest.
2. The states of a publication from one to the next (`lib/ledger.mjs:244-464`).

Not planned: HTML and SVG templates, redaction patterns, QR encoding, the shape of single
documents. They are pure functions over text with fixtures in `src/test`, and have no interleaving
or failure a model would add to.
