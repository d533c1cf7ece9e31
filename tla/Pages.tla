-------------------------------- MODULE Pages --------------------------------
(***************************************************************************)
(* .github/workflows/{pages,receipt-pages-source}.yml and the part of      *)
(* lib/factory-receipts.mjs they run: how the ledger on main and the       *)
(* factory proofs on the receipts branch become one site, and how new      *)
(* proofs are attested on the way.  Runs of the pages workflow are started *)
(* by the completion of CI on main and of the signal of a receipts push,   *)
(* and also of a CI run that was dispatched or belongs to a pull request   *)
(* from a branch of that name, whose run then does nothing.  They share a  *)
(* concurrency group: one runs, one waits, and an event that arrives while *)
(* another waits takes its place.                                          *)
(*                                                                         *)
(* A push to receipts may bring several commits.  What a commit can make   *)
(* of a mission's directory is a constant, since the factory that writes   *)
(* the branch is not in this repository; see FactoryReceipts for what a    *)
(* directory holds.                                                        *)
(***************************************************************************)
EXTENDS FactoryReceipts

CONSTANTS
  Missions,     \* missions that can have a proof on the receipts branch
  Canonical,    \* missions that can be in the ledger on main
  Directories,  \* what the factory can make of a mission's directory
  Beginnings,   \* what the receipts branch can hold at first
  MaxMains,     \* bound on the pushes to main
  MaxCommits,   \* bound on the commits to receipts
  MaxFailures   \* bound on what fails for reasons outside the code

ASSUME PagesAssumption ==
  /\ Directories \subseteq
       [current : {None} \cup [mission : Missions, commit : Oids, digest : Digests],
        proofs  : [Oids -> {None} \cup Digests],
        notes   : [Oids -> {None} \cup Notes]]
  /\ Beginnings \subseteq [Missions -> {Empty} \cup Directories]
  /\ \A first \in Beginnings : \A m \in Missions :
       /\ first[m] # Empty => Projectable(m, first[m])
       /\ \A o \in Oids : first[m].notes[o] # None => NoteOf[first[m].notes[o]].link = None
  /\ MaxMains \in Nat /\ MaxCommits \in Nat /\ MaxFailures \in Nat

VARIABLES
  mains,      \* number of pushes to main
  canonical,  \* push to main -> missions of its ledger
  head,       \* number of commits on the receipts branch
  tree,       \* commit -> mission -> its directory
  heads,      \* the commits that were the end of a push
  tests,      \* pushes to main whose CI runs
  signals,    \* receipts pushes whose signal runs
  running,    \* the pages run that runs
  waiting,    \* the event that waits
  lost,       \* events with something to do whose run was displaced or failed
  site,       \* the revisions the deployed site was built from
  attested,   \* proofs with an attestation, as <<mission, contribution, digest>>
  failures,   \* how often something failed from outside
  orderly     \* history: everything succeeded, and in the order of the pushes

branches == <<mains, canonical, head, tree, heads>>
sources  == <<tests, signals>>
group    == <<running, waiting, lost>>
vars == <<branches, sources, group, site, attested, failures, orderly>>

Mains   == 0..MaxMains
Commits == 0..MaxCommits
NoEvent == [kind |-> "none", at |-> 0, ok |-> FALSE]

\* The completion of a CI run that was not started by a push.
Bystander == [kind |-> "other", at |-> 0, ok |-> FALSE]

\* ok: the job's condition holds of the event.
Events  == [kind : {"ci"}, at : Mains, ok : BOOLEAN]
             \cup [kind : {"signal"}, at : Commits, ok : {TRUE}]
             \cup {Bystander}
Steps   == {"idle", "ledger", "receipts", "build", "deploy"}
Idle    == [event |-> NoEvent, step |-> "idle", ledger |-> 0, receipts |-> 0]

-----------------------------------------------------------------------------
(* The branches.                                                            *)

PushMain ==
  /\ mains < MaxMains
  /\ mains' = mains + 1
  /\ \E missions \in SUBSET Canonical : canonical' = [canonical EXCEPT ![mains'] = missions]
  /\ tests' = tests \cup {mains'}
  /\ UNCHANGED <<head, tree, heads, signals, group, site, attested, failures, orderly>>

\* The factory records an attestation of a proof when it has seen one.
Seen(m, dir) ==
  \A o \in Oids :
    dir.notes[o] # None /\ NoteOf[dir.notes[o]].link # None =>
      <<m, o, NoteOf[dir.notes[o]].link>> \in attested

\* One commit changes the directory of one mission ...
CommitReceipts ==
  /\ head < MaxCommits
  /\ head' = head + 1
  /\ \E m \in Missions : \E dir \in Directories \ {tree[head][m]} :
       /\ Seen(m, dir)
       /\ tree' = [tree EXCEPT ![head'] = [tree[head] EXCEPT ![m] = dir]]
  /\ UNCHANGED <<mains, canonical, heads, sources, group, site, attested, failures, orderly>>

\* ... and a push makes the commits since the last one visible.
PushReceipts ==
  /\ head \notin heads
  /\ heads' = heads \cup {head}
  /\ signals' = signals \cup {head}
  /\ UNCHANGED <<mains, canonical, head, tree, tests, group, site, attested, failures, orderly>>

\* The end of the receipts branch as everybody sees it.
ReceiptsHead == CHOOSE c \in heads : \A d \in heads : d <= c

-----------------------------------------------------------------------------
(* Events and the concurrency group.                                        *)

\* A new run starts, or waits in the place of one that waited.
Arrive(event) ==
  IF running = Idle
  THEN /\ running' = [Idle EXCEPT !.event = event, !.step = "ledger"]
       /\ lost' = lost \ {event}
       /\ UNCHANGED waiting
  ELSE /\ waiting' = event
       /\ lost' = (lost \ {event}) \cup {e \in {waiting} : e.ok}
       /\ UNCHANGED running

CiCompletes(p) ==
  /\ p \in tests
  /\ tests' = tests \ {p}
  /\ \/ /\ Arrive([kind |-> "ci", at |-> p, ok |-> TRUE])
        /\ orderly' = (orderly /\ \A q \in tests : p <= q)
        /\ UNCHANGED failures
     \/ /\ failures < MaxFailures
        /\ failures' = failures + 1
        /\ Arrive([kind |-> "ci", at |-> p, ok |-> FALSE])
        /\ orderly' = FALSE
  /\ UNCHANGED <<branches, signals, site, attested>>

SignalCompletes(c) ==
  /\ c \in signals
  /\ signals' = signals \ {c}
  /\ Arrive([kind |-> "signal", at |-> c, ok |-> TRUE])
  /\ orderly' = (orderly /\ \A d \in signals : c <= d)
  /\ UNCHANGED <<branches, tests, site, attested, failures>>

\* It arrives like any other; orderly ends if an event that would have been
\* served loses its place to it.
OtherCompletes ==
  /\ Arrive(Bystander)
  /\ orderly' = (orderly /\ ~waiting.ok)
  /\ UNCHANGED <<branches, sources, site, attested, failures>>

\* Somebody repeats a run that failed or was displaced.
Rerun(event) ==
  /\ event \in lost
  /\ Arrive(event)
  /\ orderly' = FALSE
  /\ UNCHANGED <<branches, sources, site, attested, failures>>

\* The run is over and the one that waits starts.
Leave ==
  IF waiting = NoEvent
  THEN running' = Idle /\ UNCHANGED waiting
  ELSE /\ running' = [Idle EXCEPT !.event = waiting, !.step = "ledger"]
       /\ waiting' = NoEvent

-----------------------------------------------------------------------------
(* One run.                                                                 *)

At(step) == running.step = step /\ running.event.ok

\* The job's condition: the run of a CI run that failed, or was started by
\* something else than a push, does nothing, but only after it had its place
\* in the group.
Skip ==
  /\ running.step = "ledger"
  /\ ~running.event.ok
  /\ Leave
  /\ UNCHANGED <<branches, sources, lost, site, attested, failures, orderly>>

\* Mutant: a signal is built on the ledger that was deployed last.
ResolveLedgerDeployed ==
  /\ At("ledger")
  /\ running' = [running EXCEPT !.step = "receipts",
       !.ledger = IF running.event.kind = "ci" THEN running.event.at ELSE site.ledger]
  /\ UNCHANGED <<branches, sources, waiting, lost, site, attested, failures, orderly>>

\* CI's own revision, or whatever main is now.
ResolveLedger ==
  /\ At("ledger")
  /\ running' = [running EXCEPT !.step = "receipts",
       !.ledger = IF running.event.kind = "ci" THEN running.event.at ELSE mains]
  /\ UNCHANGED <<branches, sources, waiting, lost, site, attested, failures, orderly>>

\* Mutant: the revision of the event is used whichever branch it is from.
ResolveReceiptsFromEvent ==
  /\ At("receipts")
  /\ running' = [running EXCEPT !.step = "build", !.receipts = running.event.at]
  /\ UNCHANGED <<branches, sources, waiting, lost, site, attested, failures, orderly>>

\* The signal's own revision, or whatever receipts is now.
ResolveReceipts ==
  /\ At("receipts")
  /\ running' = [running EXCEPT !.step = "build",
       !.receipts = IF running.event.kind = "signal" THEN running.event.at ELSE ReceiptsHead]
  /\ UNCHANGED <<branches, sources, waiting, lost, site, attested, failures, orderly>>

\* Git keeps no empty directory.
Proved(c) == {m \in Missions : tree[c][m] # Empty}

\* mergeFactoryReceipts: a mission is in the ledger or in the receipts, one
\* directory that cannot be projected stops the site of all, and so does a
\* branch without any, which has no directory to read.
Mergeable ==
  LET proved == Proved(running.receipts) IN
  /\ proved # {}
  /\ canonical[running.ledger] \cap proved = {}
  /\ \A m \in proved : Projectable(m, tree[running.receipts][m])

\* The proof files that the last commit of the revision touched, and added.
Touched(c) == {f \in Missions \X Oids :
                 c # 0 /\ tree[c][f[1]].proofs[f[2]] # tree[c - 1][f[1]].proofs[f[2]]}
Added(c)   == {f \in Touched(c) : tree[c - 1][f[1]].proofs[f[2]] = None}

\* The file with its bytes in a revision.
InRevision(f, c) == <<f[1], f[2], tree[c][f[1]].proofs[f[2]]>>

\* Mutant: a proof that was changed is published like a new one.
SelectableWithoutFilter ==
  \A f \in Touched(running.receipts) :
    LET d == InRevision(f, running.receipts)[3] IN d # None /\ ValidProof(ProofOf[d], f[1], f[2])

\* selectFactoryProofAttestationSubjects: proofs may only be added, and the
\* added ones have to be valid, current or not.
Selectable ==
  /\ Touched(running.receipts) = Added(running.receipts)
  /\ \A f \in Added(running.receipts) :
       ValidProof(ProofOf[InRevision(f, running.receipts)[3]], f[1], f[2])

\* What is attested: the selected files with their bytes in the revision.
Subjects == {InRevision(f, running.receipts) : f \in Touched(running.receipts)}

Build ==
  /\ At("build")
  /\ Mergeable
  /\ running' = [running EXCEPT !.step = "deploy"]
  /\ \/ running.event.kind = "ci" /\ UNCHANGED attested
     \/ running.event.kind = "signal" /\ Selectable /\ attested' = attested \cup Subjects
  /\ UNCHANGED <<branches, sources, waiting, lost, site, failures, orderly>>

Deploy ==
  /\ At("deploy")
  /\ site' = [ledger |-> running.ledger, receipts |-> running.receipts]
  /\ Leave
  /\ UNCHANGED <<branches, sources, lost, attested, failures, orderly>>

Abandon ==
  /\ lost' = lost \cup {running.event}
  /\ Leave
  /\ orderly' = FALSE
  /\ UNCHANGED <<branches, sources, site, attested>>

\* The projector or the selection refuses what it was given.
Refuse ==
  /\ At("build")
  /\ ~Mergeable \/ (running.event.kind = "signal" /\ ~Selectable)
  /\ Abandon
  /\ UNCHANGED failures

\* A step fails for a reason outside the code.
Fail ==
  /\ running # Idle /\ running.event.ok
  /\ failures < MaxFailures
  /\ failures' = failures + 1
  /\ Abandon

-----------------------------------------------------------------------------
Init ==
  /\ mains = 0
  /\ canonical = [p \in Mains |-> {}]
  /\ head = 0
  /\ \E first \in Beginnings : tree = [c \in Commits |-> first]
  /\ heads = {0}
  /\ tests = {} /\ signals = {}
  /\ running = Idle
  /\ waiting = NoEvent
  /\ lost = {}
  /\ site = [ledger |-> 0, receipts |-> 0]
  /\ attested = {}
  /\ failures = 0
  /\ orderly = TRUE

Run == Skip \/ ResolveLedger \/ ResolveReceipts \/ Build \/ Deploy \/ Refuse

Environment ==
  \/ PushMain \/ CommitReceipts \/ PushReceipts \/ Fail \/ OtherCompletes
  \/ \E event \in lost : Rerun(event)

Completions ==
  \/ \E p \in tests : CiCompletes(p)
  \/ \E c \in signals : SignalCompletes(c)

Next == Run \/ Environment \/ Completions

Spec == Init /\ [][Next]_vars

\* The runs of GitHub Actions make progress; nobody has to push or to repeat.
FairSpec == Spec /\ WF_vars(Run) /\ WF_vars(Completions)

-----------------------------------------------------------------------------
TypeOK ==
  /\ mains \in Mains
  /\ canonical \in [Mains -> SUBSET Canonical]
  /\ head \in Commits
  /\ tree \in [Commits -> [Missions -> {Empty} \cup Directories]]
  /\ heads \subseteq Commits
  /\ tests \subseteq 1..mains
  /\ signals \subseteq heads
  /\ running \in [event : Events \cup {NoEvent}, step : Steps, ledger : Mains, receipts : Commits]
  /\ running.step = "idle" <=> running = Idle
  /\ waiting \in Events \cup {NoEvent}
  /\ waiting # NoEvent => running # Idle
  /\ lost \subseteq Events
  /\ site \in [ledger : Mains, receipts : Commits]
  /\ site.ledger <= mains /\ site.receipts \in heads
  /\ attested \subseteq Missions \X Oids \X Digests
  /\ failures \in 0..MaxFailures
  /\ orderly \in BOOLEAN

Quiet == tests = {} /\ signals = {} /\ running = Idle /\ head \in heads

(* When every run succeeded, completions came in the order of the pushes, and
   no run that is only skipped took the place of one that would be served, the
   site that is left when all is quiet was built from the ends of both
   branches: an event that is served may take the place of one that waits,
   because whichever runs last looks up the branch it was not started by.  The
   last condition is needed: a dispatched run of CI that completes while a push
   waits leaves the site without that push (pages.yml:18-20).               *)
SettledSiteIsCurrent ==
  Quiet /\ orderly => site = [ledger |-> mains, receipts |-> ReceiptsHead]

(* What the site says of a mission of the factory holds of the very bytes it
   links: a PASS, that in them the patched tree was run last and exited with
   0 as was declared; an attestation, that these bytes were attested for this
   mission and this commit, also after the pointer, the publication or the
   proof was changed.                                                       *)
ShownReceiptIsReal ==
  \A m \in Proved(site.receipts) :
    LET shown == Receipt(m, tree[site.receipts][m])
        proof == ProofOf[shown.digest]
    IN /\ tree[site.receipts][m].proofs[shown.commit] = shown.digest
       /\ shown.result = "PASS" =>
            /\ shown.declared > 0
            /\ proof.patched.phase = "patched_observation"
            /\ proof.patched.exit = 0 /\ WantsSuccess(proof.patched)
       /\ shown.link # None => <<m, shown.commit, shown.digest>> \in attested

(* What is attested is what commits of the receipts branch added, with the
   bytes they added it with: all of it once the signal of its push has run
   its course, unless that run failed or was displaced, in which case it is
   known and can be repeated; and nothing else, so that a later change of a
   published proof is not attested in its place.                            *)
AttestedAsAdded ==
  LET News(c) == {InRevision(f, c) : f \in Added(c)}
      Signal(c) == [kind |-> "signal", at |-> c, ok |-> TRUE]
      Served == {c \in heads \ (signals \cup {0}) :
                   Signal(c) \notin lost \cup {running.event, waiting}}
  IN /\ UNION {News(c) : c \in Served} \subseteq attested
     /\ attested \subseteq UNION {News(c) : c \in heads}

(* docs/ledger.md:112: once the proof bytes are committed to the receipts
   branch, rendering and proof attestation proceed asynchronously: every
   proof that a receipts push added is attested in the end.                 *)
ProofsAreAttested ==
  \A c \in Commits \ {0} : \A f \in Missions \X Oids :
    (c \in heads /\ f \in Added(c)) ~> (\E d \in Digests : <<f[1], f[2], d>> \in attested)
=============================================================================
