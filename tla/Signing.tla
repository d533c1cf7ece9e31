------------------------------- MODULE Signing -------------------------------
(***************************************************************************)
(* lib/signing-handoff.mjs and .github/workflows/{ci,attest-bundle}.yml:   *)
(* the path of a bundle from a push to main to a signed release asset.  CI *)
(* packages the bundles that differ between the two ends of the push; one  *)
(* signer per successful CI run verifies the delivered handoff against Git,*)
(* attests it, verifies it again and publishes bundle after bundle.        *)
(* Signers of different pushes run side by side, each step of one may fail,*)
(* and a failed one may be run again from its start.                       *)
(*                                                                         *)
(* A bundle is <<mission, digest>>; its tag and asset name determine it.   *)
(***************************************************************************)
EXTENDS Naturals, FiniteSets

CONSTANTS
  Missions,     \* mission identities; publication is in their order
  Bundles,      \* the bundles there can be
  Broken,       \* those whose files are not the ones of their manifest
  MaxMissions,  \* MAX_SIGNING_MISSIONS
  MaxPushes,    \* bound on the pushes to main
  MaxFailures   \* bound on what fails for reasons outside the code

ASSUME SigningAssumption ==
  /\ Missions \subseteq Nat
  /\ Bundles \subseteq Missions \X (Nat \ {0})
  /\ Broken \subseteq Bundles
  /\ MaxMissions \in Nat
  /\ MaxPushes \in Nat
  /\ MaxFailures \in Nat

VARIABLES
  pushed,    \* number of pushes to main
  main,      \* the tree after each push: mission -> digest of its bundle, 0 if none
  ci,        \* the CI run of each push
  signer,    \* the step the signer of each push is at
  handoff,   \* the bundles in each signer's handoff directory
  todo,      \* the missions each signer still has to publish
  attested,  \* bundles with an attestation
  releases,  \* bundles with a release
  assets,    \* bundles uploaded to their release
  failures   \* how often something failed from outside

vars == <<pushed, main, ci, signer, handoff, todo, attested, releases, assets, failures>>

Pushes  == 1..MaxPushes
Trees   == {t \in [Missions -> {0} \cup {x[2] : x \in Bundles}] :
              \A m \in Missions : t[m] = 0 \/ <<m, t[m]>> \in Bundles}
CiStates == {"none", "queued", "passed", "failed"}
SignerSteps == {"waiting", "resolve", "verify", "attest", "confirm", "view",
                "create", "upload", "done", "failed"}

\* The two ends of the range of push p.
BeforeOf(p) == main[p - 1]
HeadOf(p)   == main[p]

\* Mutant: a push over the limit is cut off instead of refused.
ChangedUpToLimit(p) ==
  LET changed == {m \in Missions : BeforeOf(p)[m] # HeadOf(p)[m]} IN
  {m \in changed : Cardinality({k \in changed : k < m}) < MaxMissions}

\* discoverChangedMissions: a bundle that appeared, changed or went away.
Changed(p) == {m \in Missions : BeforeOf(p)[m] # HeadOf(p)[m]}

\* The bundle of m can be read from the head tree.
Loadable(p, m) == HeadOf(p)[m] # 0

\* validateBundleEntries: the files, their sizes and digests, the bundle digest
\* and the missions inside and beside the bundle agree.
ValidBundle(x) == x \notin Broken

\* Only ranges whose changed bundles can all be loaded and are valid, and
\* that are small enough, make a handoff.
Packable(p) ==
  /\ Cardinality(Changed(p)) <= MaxMissions
  /\ \A m \in Changed(p) : Loadable(p, m) /\ ValidBundle(<<m, HeadOf(p)[m]>>)

Expected(p) == {<<m, HeadOf(p)[m]>> : m \in Changed(p)}

-----------------------------------------------------------------------------
(* Pushes and CI.                                                           *)

Push ==
  /\ pushed < MaxPushes
  /\ pushed' = pushed + 1
  /\ \E tree \in Trees : main' = [main EXCEPT ![pushed'] = tree]
  /\ ci' = [ci EXCEPT ![pushed'] = "queued"]
  /\ UNCHANGED <<signer, handoff, todo, attested, releases, assets, failures>>

\* A successful run has packaged and uploaded the handoff; its completion
\* starts the signer.
CiPasses(p) ==
  /\ ci[p] = "queued"
  /\ Packable(p)
  /\ ci' = [ci EXCEPT ![p] = "passed"]
  /\ signer' = [signer EXCEPT ![p] = "resolve"]
  /\ UNCHANGED <<pushed, main, handoff, todo, attested, releases, assets, failures>>

CiRefuses(p) ==
  /\ ci[p] = "queued"
  /\ ~Packable(p)
  /\ ci' = [ci EXCEPT ![p] = "failed"]
  /\ UNCHANGED <<pushed, main, signer, handoff, todo, attested, releases, assets, failures>>

\* A test, a pull or an upload fails.
CiFails(p) ==
  /\ ci[p] = "queued"
  /\ failures < MaxFailures
  /\ failures' = failures + 1
  /\ ci' = [ci EXCEPT ![p] = "failed"]
  /\ UNCHANGED <<pushed, main, signer, handoff, todo, attested, releases, assets>>

CiRerun(p) ==
  /\ ci[p] = "failed"
  /\ Packable(p)
  /\ ci' = [ci EXCEPT ![p] = "queued"]
  /\ UNCHANGED <<pushed, main, signer, handoff, todo, attested, releases, assets, failures>>

-----------------------------------------------------------------------------
(* The signer.                                                              *)

Goto(p, step) == signer' = [signer EXCEPT ![p] = step]

\* Several bundles of one mission cannot be told apart from a wrong digest.
Deliveries == {h \in SUBSET Bundles : \A x, y \in h : x[1] = y[1] => x = y}

\* The handoff of this run is found and downloaded.  What arrives is what
\* CI uploaded, or the platform fails us.
Resolve(p) ==
  /\ signer[p] = "resolve"
  /\ Goto(p, "verify")
  /\ \/ handoff' = [handoff EXCEPT ![p] = Expected(p)] /\ UNCHANGED failures
     \/ /\ failures < MaxFailures
        /\ failures' = failures + 1
        /\ \E h \in Deliveries : handoff' = [handoff EXCEPT ![p] = h]
  /\ UNCHANGED <<pushed, main, ci, todo, attested, releases, assets>>

\* The missions of the metadata are the changed ones of the trusted range.
MetadataMatches(p) == {x[1] : x \in handoff[p]} = Changed(p)

\* Every archive is a valid bundle with the bytes of the head tree.
ArchivesMatch(p) == \A x \in handoff[p] : ValidBundle(x) /\ x[2] = HeadOf(p)[x[1]]

\* verifySigningHandoff
Verified(p) == MetadataMatches(p) /\ ArchivesMatch(p)

\* Mutant: a push without bundles is not told apart.
VerifyAlwaysAttests(p) ==
  /\ signer[p] = "verify"
  /\ Goto(p, IF Verified(p) /\ handoff[p] # {} THEN "attest" ELSE "failed")
  /\ UNCHANGED <<pushed, main, ci, handoff, todo, attested, releases, assets, failures>>

\* A push without bundles is a no-op that ends here.
Verify(p) ==
  /\ signer[p] = "verify"
  /\ Goto(p, IF ~Verified(p) THEN "failed" ELSE IF handoff[p] = {} THEN "done" ELSE "attest")
  /\ UNCHANGED <<pushed, main, ci, handoff, todo, attested, releases, assets, failures>>

\* The attest action signs what it finds, and the files may not be the same
\* afterwards.
Attest(p) ==
  /\ signer[p] = "attest"
  /\ Goto(p, "confirm")
  /\ attested' = attested \cup handoff[p]
  /\ \/ UNCHANGED <<handoff, failures>>
     \/ /\ failures < MaxFailures
        /\ failures' = failures + 1
        /\ \E h \in Deliveries : handoff' = [handoff EXCEPT ![p] = h]
  /\ UNCHANGED <<pushed, main, ci, todo, releases, assets>>

\* Mutant: the step that confirms the subjects is missing.
ConfirmNothing(p) ==
  /\ signer[p] = "confirm"
  /\ Goto(p, IF handoff[p] = {} THEN "done" ELSE "view")
  /\ todo' = [todo EXCEPT ![p] = {x[1] : x \in handoff[p]}]
  /\ UNCHANGED <<pushed, main, ci, handoff, attested, releases, assets, failures>>

\* Mutant: the columns of the release plan are read in another order.
ConfirmSwapped(p) ==
  /\ signer[p] = "confirm"
  /\ Goto(p, IF Verified(p) THEN "view" ELSE "failed")
  /\ todo' = [todo EXCEPT ![p] = {x[2] : x \in handoff[p]}]
  /\ UNCHANGED <<pushed, main, ci, handoff, attested, releases, assets, failures>>

\* The second verification, and the release plan of the publish loop.
Confirm(p) ==
  /\ signer[p] = "confirm"
  /\ Goto(p, IF Verified(p) THEN "view" ELSE "failed")
  /\ todo' = [todo EXCEPT ![p] = {x[1] : x \in handoff[p]}]
  /\ UNCHANGED <<pushed, main, ci, handoff, attested, releases, assets, failures>>

\* The bundle the publish loop is at.
Current(p) == CHOOSE x \in handoff[p] : x[1] \in todo[p] /\ \A m \in todo[p] : x[1] <= m

\* gh release view
View(p) ==
  /\ signer[p] = "view"
  /\ Goto(p, IF Current(p) \in releases THEN "upload" ELSE "create")
  /\ UNCHANGED <<pushed, main, ci, handoff, todo, attested, releases, assets, failures>>

\* gh release create; another signer may have made the release meanwhile.
Create(p) ==
  /\ signer[p] = "create"
  /\ Goto(p, IF Current(p) \in releases THEN "failed" ELSE "upload")
  /\ releases' = releases \cup {Current(p)}
  /\ UNCHANGED <<pushed, main, ci, handoff, todo, attested, assets, failures>>

\* gh release upload, without --clobber: an asset that exists is an error,
\* and set -e ends the loop.
Upload(p) ==
  /\ signer[p] = "upload"
  /\ IF Current(p) \in assets
       THEN Goto(p, "failed") /\ UNCHANGED <<assets, todo>>
       ELSE /\ assets' = assets \cup {Current(p)}
            /\ todo' = [todo EXCEPT ![p] = @ \ {Current(p)[1]}]
            /\ Goto(p, IF todo'[p] = {} THEN "done" ELSE "view")
  /\ UNCHANGED <<pushed, main, ci, handoff, attested, releases, failures>>

\* A step fails, or the runner is lost.
SignerFails(p) ==
  /\ signer[p] \notin {"waiting", "done", "failed"}
  /\ failures < MaxFailures
  /\ failures' = failures + 1
  /\ Goto(p, "failed")
  /\ UNCHANGED <<pushed, main, ci, handoff, todo, attested, releases, assets>>

SignerRerun(p) ==
  /\ signer[p] = "failed"
  /\ Goto(p, "resolve")
  /\ UNCHANGED <<pushed, main, ci, handoff, todo, attested, releases, assets, failures>>

Sign(p) ==
  \/ Resolve(p) \/ Verify(p) \/ Attest(p) \/ Confirm(p)
  \/ View(p) \/ Create(p) \/ Upload(p)

Init ==
  /\ pushed = 0
  /\ main = [p \in 0..MaxPushes |-> [m \in Missions |-> 0]]
  /\ ci = [p \in Pushes |-> "none"]
  /\ signer = [p \in Pushes |-> "waiting"]
  /\ handoff = [p \in Pushes |-> {}]
  /\ todo = [p \in Pushes |-> {}]
  /\ attested = {}
  /\ releases = {}
  /\ assets = {}
  /\ failures = 0

Next ==
  \/ Push
  \/ \E p \in Pushes :
       \/ CiPasses(p) \/ CiRefuses(p) \/ CiFails(p) \/ CiRerun(p)
       \/ Sign(p) \/ SignerFails(p) \/ SignerRerun(p)

\* Workflow runs that were started go on, and a failed signer is run again.
Fairness ==
  \A p \in Pushes :
    /\ WF_vars(CiPasses(p) \/ CiRefuses(p))
    /\ WF_vars(Sign(p))
    /\ WF_vars(SignerRerun(p))

Spec == Init /\ [][Next]_vars /\ Fairness

-----------------------------------------------------------------------------
(* Properties.                                                              *)

TypeOK ==
  /\ pushed \in 0..MaxPushes
  /\ main \in [0..MaxPushes -> Trees]
  /\ ci \in [Pushes -> CiStates]
  /\ signer \in [Pushes -> SignerSteps]
  /\ handoff \in [Pushes -> SUBSET Bundles]
  /\ todo \in [Pushes -> SUBSET Missions]
  /\ attested \subseteq Bundles
  /\ releases \subseteq Bundles
  /\ assets \subseteq Bundles
  /\ failures \in 0..MaxFailures

\* Nothing is published that is not valid, was not attested, or was not packaged
\* from a main tree by some successful CI run: whatever arrives instead of the
\* handoff and whatever happens to the files while they are signed.
PublishedIsGenuine ==
  \A x \in assets :
    /\ x \in attested \ Broken
    /\ \E p \in Pushes : ci[p] = "passed" /\ x \in Expected(p)

\* The ranges of consecutive pushes leave no gap: once the signers of all
\* pushes are done, every bundle on main is published, whatever the order
\* they ran in.
AllDoneCoversMain ==
  (\A p \in 1..pushed : signer[p] = "done") =>
    \A m \in Missions : main[pushed][m] # 0 => <<m, main[pushed][m]>> \in assets

\* A push whose CI passed is signed, with nothing for anyone to repeat, unless
\* the platform failed or another push carries one of its bundles as well (a
\* digest that comes back).
Repeated(p) == \E q \in 1..pushed : q # p /\ Expected(q) \cap Expected(p) # {}

UntroubledPushIsSigned ==
  \A p \in Pushes :
    ci[p] = "passed" ~> (signer[p] = "done" \/ failures > 0 \/ Repeated(p))

\* docs/attestation.md:27: the signer "publishes each unchanged tarball under
\* its metadata-bound mission release tag".  Run again after a failure often
\* enough, it gets there.
SignedInTheEnd == \A p \in Pushes : ci[p] = "passed" ~> signer[p] = "done"
=============================================================================
