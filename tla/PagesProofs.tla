----------------------------- MODULE PagesProofs -----------------------------
(***************************************************************************)
(* Theorems about Pages, for any missions, commits, proofs and number of   *)
(* pushes and failures.  The invariant follows the events: each is known   *)
(* to the concurrency group or its run was successful, and as long as all  *)
(* is orderly the last of a branch is followed by nothing that would look  *)
(* at an older end of it.                                                  *)
(***************************************************************************)
EXTENDS Pages, TLAPS, WellFoundedInduction, FiniteSetTheorems

\* The group knows of what runs, waits, or was lost.
Known == lost \cup {running.event, waiting}

Signal(c) == [kind |-> "signal", at |-> c, ok |-> TRUE]
Started(event) == [Idle EXCEPT !.event = event, !.step = "ledger"]

\* The proofs that a push added.
News(c) == {InRevision(f, c) : f \in Added(c)}

Located == {"receipts", "build", "deploy"}

\* Pushes end where a commit is.
HeadsInv == 0 \in heads /\ heads \subseteq 0..head

EventsInv == \A event \in Known :
  /\ event.kind = "ci" => event.at <= mains
  /\ event.kind = "signal" => event.at \in heads

\* What a run works on, and what it has found out.
RunInv ==
  /\ running # Idle => running.event \in Events
  /\ running.step \in Located =>
       /\ running.event.ok /\ running.ledger <= mains
       /\ running.event.kind = "ci" => running.ledger = running.event.at
  /\ running.step \in {"build", "deploy"} =>
       /\ running.receipts \in heads
       /\ running.event.kind = "signal" => running.receipts = running.event.at

\* What a run deploys, and what is deployed, could be projected.
Projected(c) == \A m \in Proved(c) : Projectable(m, tree[c][m])

MergedInv == \A c \in Commits :
  site.receipts = c \/ (running.step = "deploy" /\ running.receipts = c) => Projected(c)

\* Whatever the branch says was attested was attested.
SeenInv == \A c \in Commits : \A m \in Missions : Seen(m, tree[c][m])

\* A push whose signal is over and not known has its news attested, and so
\* has one that is about to be deployed; and nothing else is attested.
ServedInv ==
  /\ \A c \in heads \ {0} : c \in signals \/ Signal(c) \in Known \/ News(c) \subseteq attested
  /\ \A c \in heads : running.step = "deploy" /\ running.event = Signal(c) => News(c) \subseteq attested
  /\ attested \subseteq UNION {News(c) : c \in heads}

\* As long as all is orderly the last push of a branch is the last to have its
\* run completed, and what is served last in the group, or is deployed if nothing
\* in it is served, will be or is built from its end: an event of the other
\* branch looks it up, and one that is skipped comes and goes.
LedgerInv == orderly =>
  /\ tests # {} => mains \in tests
  /\ tests = {} =>
       /\ waiting.kind = "ci" /\ waiting.ok => waiting.at = mains
       /\ ~waiting.ok =>
            /\ running.event.kind = "ci" /\ running.event.ok => running.event.at = mains
            /\ running.step \in Located => running.ledger = mains
            /\ ~running.event.ok => site.ledger = mains

ReceiptsInv == orderly =>
  /\ signals # {} => ReceiptsHead \in signals
  /\ signals = {} =>
       /\ waiting.kind = "signal" => waiting.at = ReceiptsHead
       /\ ~waiting.ok =>
            /\ running.event.kind = "signal" => running.event.at = ReceiptsHead
            /\ running.step \in {"build", "deploy"} => running.receipts = ReceiptsHead
            /\ ~running.event.ok => site.receipts = ReceiptsHead

IInv ==
  /\ TypeOK /\ HeadsInv /\ EventsInv /\ RunInv
  /\ MergedInv /\ SeenInv /\ ServedInv
  /\ LedgerInv /\ ReceiptsInv

-----------------------------------------------------------------------------
(* What is read of a directory.                                             *)

DirectoryTypes ==
  [current : {None} \cup [mission : Missions, commit : Oids, digest : Digests],
   proofs  : [Oids -> {None} \cup Digests],
   notes   : [Oids -> {None} \cup Notes]]

\* What a commit has of a mission is a directory.
LEMMA DirectoryType ==
  ASSUME TypeOK, NEW c \in Commits, NEW m \in Missions
  PROVE  tree[c][m] \in DirectoryTypes
<1>1. Empty \in DirectoryTypes
  BY DEF Empty, DirectoryTypes
<1>2. Directories \subseteq DirectoryTypes
  BY PagesAssumption DEF DirectoryTypes
<1> QED BY <1>1, <1>2 DEF TypeOK

\* Only what has a proof can be the current one.
LEMMA PointerIsNamed ==
  ASSUME NEW m \in Missions, NEW dir \in DirectoryTypes, Pointer(m, dir) # None
  PROVE  Pointer(m, dir).commit \in Oids
<1> DEFINE named == {o \in Oids : dir.proofs[o] # None \/ dir.notes[o] # None}
<1>1. CASE dir.current # None
  BY <1>1 DEF Pointer, DirectoryTypes
<1>2. CASE dir.current = None
  <2>1. Cardinality(named) = 1
    BY <1>2 DEF Pointer
  <2>2. named # {}
    BY <2>1, FS_EmptySet
  <2>3. (CHOOSE o \in named : TRUE) \in Oids
    BY <2>2
  <2>4. Pointer(m, dir) = [mission |-> m, commit |-> (CHOOSE o \in named : TRUE),
                           digest |-> dir.proofs[CHOOSE o \in named : TRUE]]
    BY <1>2, <2>1 DEF Pointer
  <2> QED BY <2>3, <2>4
<1> QED BY <1>1, <1>2

\* A structured proof that is valid ran the patched tree last, and well.
LEMMA ValidPasses ==
  ASSUME NEW proof, NEW m, NEW oid, ValidStructured(proof, m, oid)
  PROVE  /\ proof.patched.phase = "patched_observation"
         /\ proof.patched.exit = 0 /\ WantsSuccess(proof.patched)
         /\ Cardinality({i \in DOMAIN proof.executed : WantsSuccess(proof.executed[i])}) > 0
<1> DEFINE ran   == proof.executed
           wants == {i \in DOMAIN ran : WantsSuccess(ran[i])}
<1>1. /\ DOMAIN ran = 1..2 /\ ran[2] = proof.patched
      /\ ran[2].phase = "patched_observation"
      /\ ValidObservation(ran[2]) /\ ran[2].met /\ Succeeds(ran[2])
  BY DEF ValidStructured
<1>2. WantsSuccess(ran[2]) /\ ran[2].exit = 0
  BY <1>1 DEF ValidObservation, Succeeds
<1>3. IsFiniteSet(wants) /\ wants # {}
  <2>1. \A a, b \in Int : IsFiniteSet(a..b)
    BY FS_Interval, Zenon
  <2>2. IsFiniteSet(1..2)
    <3>1. 1 \in Int /\ 2 \in Int
      OBVIOUS
    <3> QED BY <2>1, <3>1, Zenon
  <2>3. wants \in SUBSET (1..2) /\ 2 \in wants
    BY <1>1, <1>2
  <2> HIDE DEF wants
  <2> QED BY <2>2, <2>3, FS_Subset
<1>4. Cardinality(wants) > 0
  BY <1>3, FS_EmptySet, FS_CardinalityType
<1> QED BY <1>1, <1>2, <1>4

\* What a receipt says holds of the proof it links.
LEMMA ReceiptIsOfProof ==
  ASSUME NEW m \in Missions, NEW dir \in DirectoryTypes, Projectable(m, dir)
  PROVE  LET shown == Receipt(m, dir)
             proof == ProofOf[shown.digest]
         IN /\ shown.commit \in Oids
            /\ dir.proofs[shown.commit] = shown.digest
            /\ shown.result = "PASS" =>
                 /\ shown.declared > 0
                 /\ proof.patched.phase = "patched_observation"
                 /\ proof.patched.exit = 0 /\ WantsSuccess(proof.patched)
            /\ shown.link # None =>
                 /\ dir.notes[shown.commit] # None
                 /\ NoteOf[dir.notes[shown.commit]].link = shown.link
                 /\ shown.link = shown.digest
<1> DEFINE shown == Receipt(m, dir)
           at    == Pointer(m, dir)
           proof == ProofOf[at.digest]
<1>1. /\ at # None /\ dir.proofs[at.commit] = at.digest
      /\ ValidProof(proof, m, at.commit)
      /\ dir.notes[at.commit] # None =>
           ValidPublication(NoteOf[dir.notes[at.commit]], m, at.commit, at.digest, proof.repository)
  BY DEF Projectable
<1>2. /\ shown.commit = at.commit /\ shown.digest = at.digest
      /\ shown.result = IF proof.schema = 2 THEN "PASS" ELSE "INCOMPLETE"
      /\ shown.link = IF dir.notes[at.commit] = None THEN None ELSE NoteOf[dir.notes[at.commit]].link
  BY DEF Receipt
<1>3. at.commit \in Oids
  BY <1>1, PointerIsNamed
<1>4. ASSUME shown.result = "PASS"
      PROVE  /\ shown.declared > 0
             /\ proof.patched.phase = "patched_observation"
             /\ proof.patched.exit = 0 /\ WantsSuccess(proof.patched)
  <2>1. proof.schema = 2
    BY <1>2, <1>4
  <2>2. ValidStructured(proof, m, at.commit)
    BY <1>1, <2>1 DEF ValidProof
  <2>3. shown.declared =
          Cardinality({i \in DOMAIN proof.executed : WantsSuccess(proof.executed[i])})
    BY <2>1 DEF Receipt
  <2> QED BY <2>2, <2>3, ValidPasses
<1>5. ASSUME shown.link # None
      PROVE  /\ dir.notes[at.commit] # None
             /\ NoteOf[dir.notes[at.commit]].link = shown.link
             /\ shown.link = at.digest
  BY <1>1, <1>2, <1>5 DEF ValidPublication
<1> QED BY <1>1, <1>2, <1>3, <1>4, <1>5

-----------------------------------------------------------------------------
(* The ends of the branch, and the group.                                   *)

\* A set of numbers with a bound has a greatest one.
LEMMA LastOf ==
  ASSUME NEW n \in Nat, NEW T \in SUBSET (0..n), T # {}
  PROVE  \E x \in T : \A y \in T : y <= x
<1> DEFINE R == OpToRel(<, Nat)
           U == {n - x : x \in T}
<1>1. U \in SUBSET Nat /\ U # {}
  <2>1. \A x \in T : n - x \in Nat
    OBVIOUS
  <2> QED BY <2>1, Zenon
<1>2. \E x \in U : \A y \in U : <<y, x>> \notin R
  <2>1. IsWellFoundedOn(R, Nat)
    BY NatLessThanWellFounded
  <2> HIDE DEF R, U
  <2> QED BY <1>1, <2>1, WFMin
<1>3. \A x, y \in U : <<y, x>> \in R <=> y < x
  BY DEF OpToRel
<1> HIDE DEF R
<1>4. PICK x \in T : \A y \in T : ~(n - y < n - x)
  BY <1>2, <1>3
<1> QED BY <1>4

HeadIsFound == ReceiptsHead \in heads /\ \A c \in heads : c <= ReceiptsHead

\* The commit a run finds at the head of receipts is the last one pushed.
LEMMA HeadIsLast == TypeOK /\ HeadsInv => HeadIsFound
<1> SUFFICES ASSUME TypeOK, HeadsInv PROVE HeadIsFound
  OBVIOUS
<1>1. \E c \in heads : \A d \in heads : d <= c
  BY LastOf, PagesAssumption DEF TypeOK, HeadsInv, Commits
<1> QED BY <1>1 DEF HeadIsFound, ReceiptsHead

\* What each kind of event carries.
LEMMA EventTypes ==
  ASSUME NEW event \in Events
  PROVE  /\ event.kind = "ci" => event.at \in Mains
         /\ event.kind = "signal" => event.at \in Commits /\ event = Signal(event.at)
         /\ event.kind = "other" => ~event.ok
         /\ event.kind \in {"ci", "signal", "other"} /\ event.ok \in BOOLEAN
<1>1. CASE event \in [kind : {"ci"}, at : Mains, ok : BOOLEAN]
  BY <1>1
<1>2. CASE event \in [kind : {"signal"}, at : Commits, ok : {TRUE}]
  BY <1>2 DEF Signal
<1>3. CASE event = Bystander
  BY <1>3 DEF Bystander
<1> QED BY <1>1, <1>2, <1>3 DEF Events

\* The run in the group, and the events in it or lost.
LEMMA GroupTypes ==
  ASSUME TypeOK
  PROVE  /\ running.event \in Events \cup {NoEvent} /\ running.step \in Steps
         /\ running.ledger \in Mains /\ running.receipts \in Commits
         /\ Known \subseteq Events \cup {NoEvent}
<1>1. /\ running \in [event : Events \cup {NoEvent}, step : Steps, ledger : Mains, receipts : Commits]
      /\ waiting \in Events \cup {NoEvent} /\ lost \subseteq Events
  BY DEF TypeOK
<1>2. /\ running.event \in Events \cup {NoEvent} /\ running.step \in Steps
      /\ running.ledger \in Mains /\ running.receipts \in Commits
  BY <1>1
<1> QED BY <1>1, <1>2 DEF Known

\* An event that arrives is known, and of what was only that is forgotten which
\* would not have been served.
LEMMA ArriveLemma ==
  ASSUME TypeOK, RunInv, NEW event \in Events, Arrive(event)
  PROVE  /\ \/ running = Idle /\ running' = Started(event) /\ waiting' = NoEvent /\ waiting = NoEvent
            \/ running # Idle /\ running' = running /\ waiting' = event
         /\ lost' \subseteq Events
         /\ Known' \subseteq Known \cup {event, NoEvent}
         /\ event \in Known'
         /\ \A e \in Known : e.ok => e \in Known'
<1>1. NoEvent \notin Events /\ ~NoEvent.ok
  BY DEF NoEvent, Events, Bystander
<1>2. running = Idle => waiting = NoEvent /\ running.event = NoEvent
  BY DEF TypeOK, Idle
<1>3. Started(event).event = event
  BY DEF Started, Idle
<1> QED BY <1>1, <1>2, <1>3 DEF Arrive, TypeOK, Known, Started

\* The event that waits starts when a run is over.
LEMMA LeaveLemma ==
  ASSUME TypeOK, Leave
  PROVE  /\ waiting' = NoEvent
         /\ \/ waiting = NoEvent /\ running' = Idle
            \/ waiting # NoEvent /\ running' = Started(waiting)
         /\ running'.event = waiting
<1>1. Idle.event = NoEvent /\ Started(waiting).event = waiting
  BY DEF Started, Idle
<1>2. CASE waiting = NoEvent
  BY <1>1, <1>2 DEF Leave
<1>3. CASE waiting # NoEvent
  BY <1>1, <1>3 DEF Leave, Started
<1> QED BY <1>2, <1>3

\* A run that starts has resolved nothing.
LEMMA StartedIs ==
  ASSUME NEW event
  PROVE  /\ Started(event).event = event
         /\ Started(event).step = "ledger"
         /\ Started(event) # Idle
         /\ Started(event).ledger = 0 /\ Started(event).receipts = 0
BY DEF Started, Idle, NoEvent

-----------------------------------------------------------------------------
(* Frames.                                                                  *)

\* Without a commit no revision has other news or another projection.
LEMMA TreeStays ==
  ASSUME UNCHANGED tree
  PROVE  \A c : News(c)' = News(c) /\ (Projected(c)' <=> Projected(c))
BY DEF News, Added, Touched, InRevision, Projected, Proved

\* What was attested stays attested.
LEMMA SeenStays ==
  ASSUME SeenInv, UNCHANGED tree, attested \subseteq attested'
  PROVE  SeenInv'
BY DEF SeenInv, Seen

\* The site is built from what is not touched.
LEMMA OrderlyStays ==
  ASSUME LedgerInv, ReceiptsInv,
         UNCHANGED <<mains, tests, signals, heads, running, waiting, site, orderly>>
  PROVE  LedgerInv' /\ ReceiptsInv'
<1>1. ReceiptsHead' = ReceiptsHead
  BY DEF ReceiptsHead
<1> QED BY <1>1 DEF LedgerInv, ReceiptsInv

-----------------------------------------------------------------------------
(* The steps on the branches.                                               *)

\* At the start no event is known.
LEMMA InitInv == Init => IInv
<1> SUFFICES ASSUME Init PROVE IInv
  OBVIOUS
<1> USE DEF Init
<1>1. TypeOK
  BY PagesAssumption DEF TypeOK, Mains, Commits, Idle, Steps
<1>2. PICK first \in Beginnings : tree = [c \in Commits |-> first]
  OBVIOUS
<1>3. /\ first \in [Missions -> {Empty} \cup Directories]
      /\ \A m \in Missions : first[m] # Empty => Projectable(m, first[m])
      /\ \A m \in Missions : \A o \in Oids :
           first[m].notes[o] # None => NoteOf[first[m].notes[o]].link = None
  BY PagesAssumption
<1>4. HeadsInv /\ EventsInv /\ RunInv
  BY DEF HeadsInv, EventsInv, RunInv, Known, Idle, NoEvent, Located
<1>5. MergedInv
  BY <1>2, <1>3 DEF MergedInv, Projected, Proved
<1>6. SeenInv
  BY <1>2, <1>3 DEF SeenInv, Seen
<1>7. ServedInv
  BY DEF ServedInv, Idle
<1>8. ReceiptsHead = 0
  BY DEF ReceiptsHead
<1>9. LedgerInv /\ ReceiptsInv
  BY <1>8 DEF LedgerInv, ReceiptsInv, Idle, NoEvent, Located
<1> QED BY <1>1, <1>4, <1>5, <1>6, <1>7, <1>9 DEF IInv

\* A push to main: its CI run is still to come.
LEMMA PushMainKeeps ==
  ASSUME IInv, PushMain
  PROVE  IInv'
<1>1. /\ mains \in Mains /\ mains < MaxMains /\ mains' = mains + 1 /\ MaxMains \in Nat
      /\ tests' = tests \cup {mains + 1}
      /\ UNCHANGED <<head, tree, heads, signals, running, waiting, lost, site, attested,
                     failures, orderly>>
  BY PagesAssumption DEF PushMain, group, IInv, TypeOK
<1>2. canonical' \in [Mains -> SUBSET Canonical]
  BY DEF PushMain, IInv, TypeOK
<1>3. TypeOK'
  <2>1. tests' \subseteq 1..mains' /\ mains' \in Mains /\ site.ledger <= mains'
    BY <1>1 DEF IInv, TypeOK, Mains
  <2> QED BY <1>1, <1>2, <2>1 DEF IInv, TypeOK
<1>4. HeadsInv' /\ SeenInv'
  BY <1>1, SeenStays DEF IInv, HeadsInv
<1>5. MergedInv' /\ ServedInv'
  BY <1>1, TreeStays DEF IInv, MergedInv, ServedInv, Known
<1>6. EventsInv'
  <2>1. \A event \in Known : event.kind = "ci" => event.at \in Nat
    <3>1. Known \subseteq Events \cup {NoEvent}
      BY GroupTypes DEF IInv
    <3>2. \A event \in Events : event.kind = "ci" => event.at \in Nat
      BY EventTypes DEF Mains
    <3>3. NoEvent.kind # "ci"
      BY DEF NoEvent
    <3> QED BY <3>1, <3>2, <3>3
  <2> QED BY <1>1, <2>1 DEF IInv, EventsInv, Known, Mains
<1>7. RunInv'
  BY <1>1 DEF IInv, RunInv, TypeOK, Mains
<1>8. LedgerInv' /\ ReceiptsInv'
  <2>1. ReceiptsHead' = ReceiptsHead
    BY <1>1 DEF ReceiptsHead
  <2> QED BY <1>1, <2>1 DEF IInv, LedgerInv, ReceiptsInv
<1> QED BY <1>3, <1>4, <1>5, <1>6, <1>7, <1>8 DEF IInv

\* A commit says of an attestation only what it has seen, and changes nothing
\* that a push has made visible.
LEMMA CommitKeeps ==
  ASSUME IInv, CommitReceipts
  PROVE  IInv'
<1>1. /\ head \in Commits /\ head < MaxCommits /\ head' = head + 1 /\ MaxCommits \in Nat
      /\ UNCHANGED <<mains, canonical, heads, tests, signals, running, waiting, lost, site,
                     attested, failures, orderly>>
  BY PagesAssumption DEF CommitReceipts, sources, group, IInv, TypeOK
<1>2. PICK m \in Missions, dir \in Directories :
        Seen(m, dir) /\ tree' = [tree EXCEPT ![head + 1] = [tree[head] EXCEPT ![m] = dir]]
  BY <1>1 DEF CommitReceipts
<1>3. /\ tree'[head + 1] = [tree[head] EXCEPT ![m] = dir]
      /\ \A c \in 0..head : tree'[c] = tree[c]
      /\ tree' \in [Commits -> [Missions -> {Empty} \cup Directories]]
  BY <1>1, <1>2 DEF IInv, TypeOK, Commits
<1>4. TypeOK'
  BY <1>1, <1>3 DEF IInv, TypeOK, Commits
<1>5. HeadsInv' /\ EventsInv' /\ RunInv'
  BY <1>1 DEF IInv, TypeOK, HeadsInv, EventsInv, RunInv, Known, Commits
<1>6. ASSUME NEW c \in heads
      PROVE  News(c)' = News(c) /\ (Projected(c)' <=> Projected(c))
  <2>1. c \in 0..head
    BY DEF IInv, HeadsInv
  <2>2. c # 0 => c - 1 \in 0..head
    BY <1>1, <2>1 DEF Commits
  <2>3. tree'[c] = tree[c] /\ (c # 0 => tree'[c - 1] = tree[c - 1])
    BY <1>3, <2>1, <2>2
  <2> QED BY <2>3 DEF News, Added, Touched, InRevision, Projected, Proved
<1>7. MergedInv'
  BY <1>1, <1>6 DEF IInv, MergedInv, RunInv, TypeOK
<1>8. ServedInv'
  BY <1>1, <1>6 DEF IInv, ServedInv, Known
<1>9. SeenInv'
  <2> SUFFICES ASSUME NEW c \in Commits, NEW k \in Missions
               PROVE  Seen(k, tree'[c][k])
    BY <1>1 DEF SeenInv, Seen
  <2>1. CASE c # head + 1
    BY <1>1, <1>2, <2>1 DEF IInv, TypeOK, SeenInv
  <2>2. CASE c = head + 1
    <3>1. tree'[c][k] = IF k = m THEN dir ELSE tree[head][k]
      BY <1>1, <1>3, <2>2 DEF IInv, TypeOK
    <3> QED BY <1>1, <1>2, <3>1 DEF IInv, SeenInv
  <2> QED BY <2>1, <2>2
<1>10. LedgerInv' /\ ReceiptsInv'
  BY <1>1, OrderlyStays DEF IInv
<1> QED BY <1>4, <1>5, <1>7, <1>8, <1>9, <1>10 DEF IInv

\* What a push makes visible has its signal to come, which is the last.
LEMMA PushReceiptsKeeps ==
  ASSUME IInv, PushReceipts
  PROVE  IInv'
<1>1. /\ head \in Commits /\ head \notin heads
      /\ heads' = heads \cup {head} /\ signals' = signals \cup {head}
      /\ UNCHANGED <<mains, canonical, head, tree, tests, running, waiting, lost, site,
                     attested, failures, orderly>>
  BY DEF PushReceipts, group, IInv, TypeOK
<1>2. TypeOK'
  BY <1>1 DEF IInv, TypeOK
<1>3. HeadsInv' /\ EventsInv' /\ RunInv'
  BY <1>1 DEF IInv, HeadsInv, EventsInv, RunInv, Known, Commits
<1>4. MergedInv' /\ SeenInv'
  BY <1>1, TreeStays, SeenStays DEF IInv, MergedInv
<1>5. ServedInv'
  <2>1. \A c \in heads : head # c
    BY <1>1
  <2>2. ~(running.event = Signal(head))
    BY <1>1 DEF IInv, EventsInv, Known, Signal
  <2>3. \A c : News(c)' = News(c)
    BY <1>1, TreeStays
  <2> QED BY <1>1, <2>2, <2>3 DEF IInv, ServedInv, Known
<1>6. HeadIsFound'
  BY <1>2, <1>3, HeadIsLast, PTL
<1>7. ReceiptsHead' = head
  BY <1>1, <1>6 DEF HeadIsFound, IInv, HeadsInv, Commits
<1>8. LedgerInv' /\ ReceiptsInv'
  BY <1>1, <1>7 DEF IInv, LedgerInv, ReceiptsInv
<1> QED BY <1>2, <1>3, <1>4, <1>5, <1>8 DEF IInv

-----------------------------------------------------------------------------
(* Events arrive.                                                           *)

\* A run that starts has the type of the running one.
LEMMA StartedType ==
  ASSUME NEW event \in Events
  PROVE  Started(event) \in [event : Events \cup {NoEvent}, step : Steps,
                             ledger : Mains, receipts : Commits]
<1>1. 0 \in Mains /\ 0 \in Commits
  BY PagesAssumption DEF Mains, Commits
<1>2. Idle \in [event : Events \cup {NoEvent}, step : Steps, ledger : Mains, receipts : Commits]
  BY <1>1 DEF Idle, Steps
<1>3. "ledger" \in Steps
  BY DEF Steps
<1> QED BY <1>2, <1>3 DEF Started

\* Any event that arrives, whatever brings it: it takes the free place or that of
\* the event that waits.
LEMMA ArriveKeeps ==
  ASSUME IInv, NEW event \in Events, Arrive(event),
         UNCHANGED <<mains, canonical, head, tree, heads, site, attested>>,
         tests' \subseteq tests, signals' \subseteq signals,
         \A c \in signals : c \in signals' \/ event = Signal(c),
         event.kind = "ci" => event.at <= mains,
         event.kind = "signal" => event.at \in heads,
         failures' \in 0..MaxFailures, orderly' \in BOOLEAN
  PROVE  /\ TypeOK' /\ HeadsInv' /\ EventsInv' /\ RunInv'
         /\ MergedInv' /\ SeenInv' /\ ServedInv'
<1>1. /\ \/ running = Idle /\ running' = Started(event) /\ waiting' = NoEvent
         \/ running # Idle /\ running' = running /\ waiting' = event
      /\ lost' \subseteq Events
      /\ Known' \subseteq Known \cup {event, NoEvent}
      /\ event \in Known'
      /\ \A e \in Known : e.ok => e \in Known'
  BY ArriveLemma DEF IInv
<1>2. /\ Started(event).event = event /\ Started(event).step = "ledger" /\ Started(event) # Idle
  BY StartedIs
<1>3. TypeOK'
  <2>1. /\ running' \in [event : Events \cup {NoEvent}, step : Steps, ledger : Mains, receipts : Commits]
        /\ running'.step = "idle" <=> running' = Idle
        /\ waiting' \in Events \cup {NoEvent}
        /\ waiting' # NoEvent => running' # Idle
    BY <1>1, <1>2, StartedType DEF IInv, TypeOK, Idle
  <2> QED BY <1>1, <2>1 DEF IInv, TypeOK
<1>4. HeadsInv' /\ SeenInv'
  BY SeenStays DEF IInv, HeadsInv
<1>5. EventsInv'
  <2>1. NoEvent.kind = "none"
    BY DEF NoEvent
  <2>2. \A e \in Known' : e = NoEvent \/ e \in Known \/ e = event
    BY <1>1
  <2> QED BY <2>1, <2>2 DEF IInv, EventsInv
<1>6. RunInv'
  BY <1>1, <1>2 DEF IInv, RunInv, Located
<1>7. MergedInv'
  BY <1>1, <1>2, TreeStays DEF IInv, MergedInv
<1>8. ServedInv'
  <2>1. ASSUME NEW c \in heads
        PROVE  Signal(c) \in Known \/ event = Signal(c) => Signal(c) \in Known'
    BY <1>1 DEF Signal
  <2>2. \A c : News(c)' = News(c)
    BY TreeStays
  <2> QED BY <1>1, <1>2, <2>1, <2>2 DEF IInv, ServedInv
<1> QED BY <1>3, <1>4, <1>5, <1>6, <1>7, <1>8

\* In order, the last of the tests is that of the last push.
LEMMA CiCompletesKeeps ==
  ASSUME IInv, NEW p \in tests, CiCompletes(p)
  PROVE  IInv'
<1>1. p \in Mains /\ p <= mains /\ mains \in Mains /\ tests \subseteq 1..mains
  BY PagesAssumption DEF IInv, TypeOK, Mains
<1>2. PICK ok \in BOOLEAN :
        /\ Arrive([kind |-> "ci", at |-> p, ok |-> ok])
        /\ orderly' = (orderly /\ ok /\ \A q \in tests : p <= q)
        /\ failures' \in 0..MaxFailures
  <2>1. orderly \in BOOLEAN /\ failures \in 0..MaxFailures /\ MaxFailures \in Nat
    BY PagesAssumption DEF IInv, TypeOK
  <2>2. CASE /\ Arrive([kind |-> "ci", at |-> p, ok |-> TRUE])
             /\ orderly' = (orderly /\ \A q \in tests : p <= q)
             /\ UNCHANGED failures
    <3>1. orderly' = (orderly /\ TRUE /\ \A q \in tests : p <= q)
      BY <2>2
    <3> QED BY <2>1, <2>2, <3>1
  <2>3. CASE /\ failures < MaxFailures
             /\ failures' = failures + 1
             /\ Arrive([kind |-> "ci", at |-> p, ok |-> FALSE])
             /\ orderly' = FALSE
    <3>1. orderly' = (orderly /\ FALSE /\ \A q \in tests : p <= q)
      BY <2>3
    <3>2. failures' \in 0..MaxFailures
      BY <2>1, <2>3
    <3> QED BY <2>3, <3>1, <3>2
  <2> QED BY <2>2, <2>3 DEF CiCompletes
<1> DEFINE event == [kind |-> "ci", at |-> p, ok |-> ok]
<1>3. /\ UNCHANGED <<mains, canonical, head, tree, heads, signals, site, attested>>
      /\ tests' = tests \ {p}
  BY DEF CiCompletes, branches
<1>4. event \in Events /\ event.kind = "ci" /\ event.at = p /\ event.ok = ok
  BY <1>1 DEF Events
<1> HIDE DEF event
<1>5. orderly' \in BOOLEAN
  BY <1>2 DEF IInv, TypeOK
<1>6. /\ TypeOK' /\ HeadsInv' /\ EventsInv' /\ RunInv'
      /\ MergedInv' /\ SeenInv' /\ ServedInv'
  <2>1. Arrive(event)
    BY <1>2 DEF event
  <2> QED BY <1>1, <1>2, <1>3, <1>4, <1>5, <2>1, ArriveKeeps
<1>7. CASE ~orderly'
  BY <1>6, <1>7 DEF IInv, LedgerInv, ReceiptsInv
<1>8. CASE orderly'
  <2>1. orderly /\ ok /\ \A q \in tests : p <= q
    BY <1>2, <1>8
  <2>2. /\ \/ running = Idle /\ running' = Started(event) /\ waiting' = NoEvent /\ waiting = NoEvent
           \/ running # Idle /\ running' = running /\ waiting' = event
    <3>1. Arrive(event)
      BY <1>2 DEF event
    <3> QED BY <1>4, <3>1, ArriveLemma DEF IInv
  <2>3. /\ Started(event).event = event /\ Started(event).step = "ledger" /\ Started(event) # Idle
    BY StartedIs
  <2>4. event # NoEvent /\ NoEvent.kind = "none"
    BY <1>4 DEF NoEvent
  <2>6. LedgerInv'
    <3>1. mains \in tests
      BY <2>1 DEF IInv, LedgerInv
    <3>2. tests' # {} => mains \in tests'
      <4>1. \A q \in tests : q \in Int /\ q <= mains
        BY <1>1 DEF Mains
      <4>2. p = mains => \A q \in tests : q = p
        BY <2>1, <4>1
      <4> QED BY <1>3, <3>1, <4>2
    <3>3. tests' = {} => p = mains
      BY <1>3, <3>1
    <3> QED BY <1>3, <1>4, <2>1, <2>2, <2>3, <2>4, <3>2, <3>3 DEF LedgerInv, Located
  <2>7. ReceiptsInv'
    <3>1. ReceiptsHead' = ReceiptsHead
      BY <1>3 DEF ReceiptsHead
    <3> QED BY <1>3, <1>4, <2>1, <2>2, <2>3, <2>4, <3>1 DEF IInv, ReceiptsInv
  <2> QED BY <1>6, <2>6, <2>7 DEF IInv
<1> QED BY <1>7, <1>8

\* The same of the signals.
LEMMA SignalCompletesKeeps ==
  ASSUME IInv, NEW s \in signals, SignalCompletes(s)
  PROVE  IInv'
<1> DEFINE event == Signal(s)
<1>1. /\ UNCHANGED <<mains, canonical, head, tree, heads, tests, site, attested, failures>>
      /\ signals' = signals \ {s} /\ Arrive(event)
      /\ orderly' = (orderly /\ \A d \in signals : s <= d)
  BY DEF SignalCompletes, branches, Signal
<1>2. /\ signals \subseteq heads /\ heads \subseteq Commits /\ s \in heads
      /\ orderly \in BOOLEAN /\ failures \in 0..MaxFailures
  BY DEF IInv, TypeOK
<1>3. /\ event \in Events /\ event.kind = "signal" /\ event.at = s /\ event.ok = TRUE
  BY <1>2 DEF Events, Signal
<1>4. \A c \in signals : c \in signals' \/ event = Signal(c)
  BY <1>1
<1> HIDE DEF event
<1>5. /\ TypeOK' /\ HeadsInv' /\ EventsInv' /\ RunInv'
      /\ MergedInv' /\ SeenInv' /\ ServedInv'
  BY <1>1, <1>2, <1>3, <1>4, ArriveKeeps
<1>6. CASE ~orderly'
  BY <1>5, <1>6 DEF IInv, LedgerInv, ReceiptsInv
<1>7. CASE orderly'
  <2>1. orderly /\ \A d \in signals : s <= d
    BY <1>1, <1>7
  <2>2. /\ \/ running = Idle /\ running' = Started(event) /\ waiting' = NoEvent /\ waiting = NoEvent
           \/ running # Idle /\ running' = running /\ waiting' = event
    BY <1>1, <1>3, ArriveLemma DEF IInv
  <2>3. /\ Started(event).event = event /\ Started(event).step = "ledger" /\ Started(event) # Idle
    BY StartedIs
  <2>4. event # NoEvent /\ NoEvent.kind = "none"
    BY <1>3 DEF NoEvent
  <2>6. LedgerInv'
    BY <1>1, <1>3, <2>1, <2>2, <2>3, <2>4 DEF IInv, LedgerInv, Located
  <2>7. ReceiptsInv'
    <3>1. ReceiptsHead' = ReceiptsHead
      BY <1>1 DEF ReceiptsHead
    <3>2. ReceiptsHead \in signals /\ \A d \in signals : d <= ReceiptsHead
      BY <1>2, <2>1, HeadIsLast DEF IInv, ReceiptsInv, HeadIsFound
    <3>3. signals' # {} => ReceiptsHead \in signals'
      <4>1. \A d \in signals : d \in Int
        BY <1>2 DEF Commits
      <4>2. s = ReceiptsHead => \A d \in signals : d = s
        BY <2>1, <3>2, <4>1
      <4> QED BY <1>1, <3>2, <4>2
    <3>4. signals' = {} => s = ReceiptsHead
      BY <1>1, <3>2
    <3> QED BY <1>3, <2>2, <2>3, <2>4, <3>1, <3>3, <3>4 DEF ReceiptsInv
  <2> QED BY <1>5, <2>6, <2>7 DEF IInv
<1> QED BY <1>6, <1>7

\* An event that will be skipped: the order holds as long as it takes the place
\* of none that would be served.
LEMMA OtherKeeps ==
  ASSUME IInv, OtherCompletes
  PROVE  IInv'
<1>1. /\ UNCHANGED <<mains, canonical, head, tree, heads, tests, signals, site, attested, failures>>
      /\ Arrive(Bystander) /\ orderly' = (orderly /\ ~waiting.ok)
  BY DEF OtherCompletes, branches, sources
<1>2. /\ Bystander \in Events /\ Bystander.kind = "other" /\ ~Bystander.ok
      /\ failures \in 0..MaxFailures /\ orderly \in BOOLEAN
  BY DEF Bystander, Events, IInv, TypeOK
<1> HIDE DEF Bystander
<1>3. orderly' \in BOOLEAN
  BY <1>1, <1>2 DEF IInv, TypeOK
<1>4. /\ TypeOK' /\ HeadsInv' /\ EventsInv' /\ RunInv'
      /\ MergedInv' /\ SeenInv' /\ ServedInv'
  BY <1>1, <1>2, <1>3, ArriveKeeps
<1>5. CASE ~orderly'
  BY <1>4, <1>5 DEF IInv, LedgerInv, ReceiptsInv
<1>6. CASE orderly'
  <2>1. orderly /\ ~waiting.ok
    BY <1>1, <1>6
  <2>2. \/ running = Idle /\ running' = Started(Bystander) /\ waiting' = NoEvent
        \/ running' = running /\ waiting' = Bystander
    BY <1>1, <1>2, ArriveLemma DEF IInv
  <2>3. /\ Started(Bystander).event = Bystander /\ Started(Bystander).step \notin Located
        /\ ~Idle.event.ok /\ NoEvent.kind = "none" /\ ~NoEvent.ok
    BY StartedIs DEF Located, Idle, NoEvent
  <2>4. LedgerInv'
    BY <1>1, <1>2, <2>1, <2>2, <2>3 DEF IInv, LedgerInv
  <2>5. ReceiptsInv'
    <3>1. ReceiptsHead' = ReceiptsHead
      BY <1>1 DEF ReceiptsHead
    <3> QED BY <1>1, <1>2, <2>1, <2>2, <2>3, <3>1 DEF IInv, ReceiptsInv, Located
  <2> QED BY <1>4, <2>4, <2>5 DEF IInv
<1> QED BY <1>5, <1>6

\* A lost event that is run again arrives like a new one.
LEMMA RerunKeeps ==
  ASSUME IInv, NEW event \in lost, Rerun(event)
  PROVE  IInv'
<1>1. /\ UNCHANGED <<mains, canonical, head, tree, heads, tests, signals, site, attested, failures>>
      /\ Arrive(event) /\ orderly' = FALSE
  BY DEF Rerun, branches, sources
<1>2. event \in Events /\ event \in Known /\ failures \in 0..MaxFailures
  BY DEF IInv, TypeOK, Known
<1>3. /\ event.kind = "ci" => event.at <= mains
      /\ event.kind = "signal" => event.at \in heads
  BY <1>2 DEF IInv, EventsInv
<1>4. /\ TypeOK' /\ HeadsInv' /\ EventsInv' /\ RunInv'
      /\ MergedInv' /\ SeenInv' /\ ServedInv'
  BY <1>1, <1>2, <1>3, ArriveKeeps
<1> QED BY <1>1, <1>4 DEF IInv, LedgerInv, ReceiptsInv

-----------------------------------------------------------------------------
(* One run.                                                                 *)

\* A run that finds out a revision has a step less to go, and no more.
LEMMA MoveKeeps ==
  ASSUME IInv, running.step \in {"ledger", "receipts"},
         running' \in [event : Events \cup {NoEvent}, step : Steps, ledger : Mains, receipts : Commits],
         running'.event = running.event, running'.step \in {"receipts", "build"}, RunInv',
         UNCHANGED <<branches, sources, waiting, lost, site, attested, failures, orderly>>
  PROVE  /\ TypeOK' /\ HeadsInv' /\ EventsInv'
         /\ MergedInv' /\ SeenInv' /\ ServedInv'
         /\ running # Idle /\ running' # Idle
<1>1. /\ UNCHANGED <<mains, canonical, head, tree, heads, tests, signals, waiting, lost, site,
                     attested, failures, orderly>>
  BY DEF branches, sources
<1>2. Idle.step = "idle"
  BY DEF Idle
<1>3. running # Idle /\ running' # Idle
  BY <1>2
<1>4. TypeOK'
  BY <1>1, <1>2, <1>3 DEF IInv, TypeOK
<1>5. HeadsInv' /\ EventsInv'
  BY <1>1 DEF IInv, HeadsInv, EventsInv, Known
<1>6. MergedInv' /\ SeenInv'
  BY <1>1, TreeStays, SeenStays DEF IInv, MergedInv
<1>7. ServedInv'
  BY <1>1, TreeStays DEF IInv, ServedInv, Known
<1> QED BY <1>3, <1>4, <1>5, <1>6, <1>7

\* CI built on its own revision, which is the last if its event is; whoever
\* looks main up now does not come too early.
LEMMA ResolveLedgerKeeps ==
  ASSUME IInv, ResolveLedger
  PROVE  IInv'
<1> DEFINE found == IF running.event.kind = "ci" THEN running.event.at ELSE mains
<1>1. /\ running.step = "ledger" /\ running.event.ok
      /\ running' = [running EXCEPT !.step = "receipts", !.ledger = found]
      /\ UNCHANGED <<branches, sources, waiting, lost, site, attested, failures, orderly>>
      /\ UNCHANGED <<mains, heads, tests, signals>>
  BY DEF ResolveLedger, At, branches, sources
<1>2. /\ running \in [event : Events \cup {NoEvent}, step : Steps, ledger : Mains, receipts : Commits]
      /\ mains \in Mains /\ running # Idle
  BY <1>1 DEF IInv, TypeOK, Idle
<1>3. running.event \in Events /\ running.event \in Known
  BY <1>2 DEF IInv, RunInv, Known
<1>4. found \in Mains /\ found <= mains
  BY <1>2, <1>3, EventTypes DEF IInv, EventsInv, Mains
<1> HIDE DEF found
<1>5. /\ running' \in [event : Events \cup {NoEvent}, step : Steps, ledger : Mains, receipts : Commits]
      /\ running'.event = running.event /\ running'.step = "receipts" /\ running'.ledger = found
  BY <1>1, <1>2, <1>4 DEF Steps
<1>6. RunInv'
  BY <1>1, <1>3, <1>4, <1>5 DEF RunInv, Located, found
<1>7. /\ TypeOK' /\ HeadsInv' /\ EventsInv' /\ MergedInv' /\ SeenInv' /\ ServedInv'
      /\ running' # Idle
  BY <1>1, <1>5, <1>6, MoveKeeps
<1>8. LedgerInv'
  BY <1>1, <1>2, <1>5, <1>7 DEF IInv, LedgerInv, found
<1>9. ReceiptsInv'
  <2>1. ReceiptsHead' = ReceiptsHead
    BY <1>1 DEF ReceiptsHead
  <2> QED BY <1>1, <1>2, <1>5, <1>7, <2>1 DEF IInv, ReceiptsInv
<1> QED BY <1>6, <1>7, <1>8, <1>9 DEF IInv

\* The run takes the revision of receipts: the one it was started by, or the head
\* of the branch.
LEMMA ResolveReceiptsKeeps ==
  ASSUME IInv, ResolveReceipts
  PROVE  IInv'
<1> DEFINE found == IF running.event.kind = "signal" THEN running.event.at ELSE ReceiptsHead
<1>1. /\ running.step = "receipts" /\ running.event.ok
      /\ running' = [running EXCEPT !.step = "build", !.receipts = found]
      /\ UNCHANGED <<branches, sources, waiting, lost, site, attested, failures, orderly>>
      /\ UNCHANGED <<mains, heads, tests, signals>>
  BY DEF ResolveReceipts, At, branches, sources
<1>2. /\ running \in [event : Events \cup {NoEvent}, step : Steps, ledger : Mains, receipts : Commits]
      /\ heads \subseteq Commits /\ running # Idle
  BY <1>1 DEF IInv, TypeOK, Idle
<1>3. running.event \in Events /\ running.event \in Known
  BY <1>2 DEF IInv, RunInv, Known
<1>4. found \in heads /\ found \in Commits
  BY <1>2, <1>3, HeadIsLast DEF IInv, EventsInv, HeadIsFound
<1> HIDE DEF found
<1>5. /\ running' \in [event : Events \cup {NoEvent}, step : Steps, ledger : Mains, receipts : Commits]
      /\ running'.event = running.event /\ running'.step = "build"
      /\ running'.ledger = running.ledger /\ running'.receipts = found
  BY <1>1, <1>2, <1>4 DEF Steps
<1>6. RunInv'
  BY <1>1, <1>3, <1>4, <1>5 DEF IInv, RunInv, Located, found
<1>7. /\ TypeOK' /\ HeadsInv' /\ EventsInv' /\ MergedInv' /\ SeenInv' /\ ServedInv'
      /\ running' # Idle
  BY <1>1, <1>5, <1>6, MoveKeeps
<1>8. LedgerInv'
  BY <1>1, <1>2, <1>5, <1>7 DEF IInv, LedgerInv, Located
<1>9. ReceiptsInv'
  <2>1. ReceiptsHead' = ReceiptsHead
    BY <1>1 DEF ReceiptsHead
  <2> QED BY <1>1, <1>2, <1>5, <1>7, <2>1 DEF IInv, ReceiptsInv, found
<1> QED BY <1>6, <1>7, <1>8, <1>9 DEF IInv

\* What was built can be projected, and a signal has its news attested.
LEMMA BuildKeeps ==
  ASSUME IInv, Build
  PROVE  IInv'
<1>1. /\ running.step = "build" /\ running.event.ok /\ Mergeable
      /\ running' = [running EXCEPT !.step = "deploy"]
      /\ UNCHANGED <<mains, canonical, head, tree, heads, tests, signals, waiting, lost, site,
                     failures, orderly>>
  BY DEF Build, At, branches, sources
<1>2. /\ running \in [event : Events \cup {NoEvent}, step : Steps, ledger : Mains, receipts : Commits]
      /\ running # Idle
  BY <1>1 DEF IInv, TypeOK, Idle
<1>3. /\ running' \in [event : Events \cup {NoEvent}, step : Steps, ledger : Mains, receipts : Commits]
      /\ running'.event = running.event /\ running'.step = "deploy"
      /\ running'.ledger = running.ledger /\ running'.receipts = running.receipts
      /\ running' # Idle
  BY <1>1, <1>2 DEF Steps, Idle
<1> DEFINE c == running.receipts
<1>4. /\ c \in heads /\ c \in Commits /\ running.event.ok
      /\ running.event.kind = "signal" => c = running.event.at
      /\ running.ledger <= mains
      /\ running.event.kind = "ci" => running.ledger = running.event.at
  BY <1>1 DEF IInv, RunInv, TypeOK, Located
<1>5. Projected(c)
  BY <1>1 DEF Mergeable, Projected
<1>6. \/ UNCHANGED attested /\ running.event.kind = "ci"
      \/ attested' = attested \cup News(c)
  <2>1. Selectable => Subjects = News(c)
    BY DEF Selectable, Subjects, News
  <2> QED BY <2>1 DEF Build
<1>7. News(c) \subseteq Missions \X Oids \X Digests
  <2> SUFFICES ASSUME NEW f \in Added(c)
               PROVE  InRevision(f, c) \in Missions \X Oids \X Digests
    BY DEF News
  <2>1. f \in Missions \X Oids /\ c # 0
    BY DEF Added, Touched
  <2>2. tree[c][f[1]].proofs[f[2]] # None
    BY DEF Added, Touched
  <2>3. tree[c][f[1]] \in DirectoryTypes
    BY <1>4, <2>1, DirectoryType DEF IInv
  <2>4. tree[c][f[1]].proofs[f[2]] \in Digests
    BY <2>1, <2>2, <2>3 DEF DirectoryTypes
  <2> QED BY <2>1, <2>4 DEF InRevision
<1> HIDE DEF c
<1>8. TypeOK'
  <2>1. attested' \subseteq Missions \X Oids \X Digests
    BY <1>6, <1>7 DEF IInv, TypeOK
  <2>2. running'.step # "idle"
    BY <1>3
  <2> QED BY <1>1, <1>3, <2>1, <2>2 DEF IInv, TypeOK
<1>9. HeadsInv' /\ EventsInv'
  BY <1>1, <1>3 DEF IInv, HeadsInv, EventsInv, Known
<1>10. RunInv'
  BY <1>1, <1>2, <1>3, <1>4 DEF IInv, RunInv, c
<1>11. MergedInv'
  BY <1>1, <1>3, <1>5, TreeStays DEF IInv, MergedInv, c
<1>12. SeenInv'
  BY <1>1, <1>6, SeenStays DEF IInv
<1>13. ServedInv'
  <2>1. \A d : News(d)' = News(d)
    BY <1>1, TreeStays
  <2>2. Known' = Known /\ attested \subseteq attested'
    BY <1>1, <1>3, <1>6 DEF Known
  <2>3. \A d \in heads : running.event = Signal(d) => News(d) \subseteq attested'
    BY <1>4, <1>6 DEF Signal
  <2> QED BY <1>1, <1>3, <1>4, <1>6, <2>1, <2>2, <2>3 DEF IInv, ServedInv
<1>14. LedgerInv' /\ ReceiptsInv'
  <2>1. ReceiptsHead' = ReceiptsHead
    BY <1>1 DEF ReceiptsHead
  <2> QED BY <1>1, <1>2, <1>3, <2>1 DEF IInv, LedgerInv, ReceiptsInv, Located
<1> QED BY <1>8, <1>9, <1>10, <1>11, <1>12, <1>13, <1>14 DEF IInv

\* When a run ends its event is no longer known, unless it is lost; that of a
\* signal may be forgotten once its news is attested.
LEMMA EndKeeps ==
  ASSUME IInv, Leave, running # Idle,
         UNCHANGED <<mains, canonical, head, tree, heads, tests, signals, attested>>,
         UNCHANGED lost \/ lost' = lost \cup {running.event},
         running.event.kind = "signal" => running.step = "deploy" \/ running.event \in lost',
         \/ UNCHANGED site
         \/ running.step = "deploy" /\ site' = [ledger |-> running.ledger, receipts |-> running.receipts],
         failures' \in 0..MaxFailures, orderly' \in BOOLEAN
  PROVE  /\ TypeOK' /\ HeadsInv' /\ EventsInv' /\ RunInv'
         /\ MergedInv' /\ SeenInv' /\ ServedInv'
<1>1. /\ waiting' = NoEvent
      /\ \/ waiting = NoEvent /\ running' = Idle
         \/ waiting # NoEvent /\ running' = Started(waiting)
      /\ running'.event = waiting
  BY LeaveLemma DEF IInv
<1>2. /\ Started(waiting).step = "ledger" /\ Started(waiting) # Idle
      /\ Idle.step = "idle" /\ Idle.event = NoEvent
  BY StartedIs DEF Idle
<1>3. /\ running.event \in Events
      /\ waiting \in Events \cup {NoEvent} /\ lost \subseteq Events
      /\ running.ledger \in Mains /\ running.receipts \in Commits
  BY GroupTypes DEF IInv, RunInv, TypeOK
<1>4. TypeOK'
  <2>1. /\ running' \in [event : Events \cup {NoEvent}, step : Steps, ledger : Mains, receipts : Commits]
        /\ running'.step = "idle" <=> running' = Idle
    <3>1. Idle \in [event : Events \cup {NoEvent}, step : Steps, ledger : Mains, receipts : Commits]
      BY PagesAssumption DEF Idle, Steps, Mains, Commits
    <3> QED BY <1>1, <1>2, <1>3, <3>1, StartedType
  <2>2. lost' \subseteq Events
    BY <1>3
  <2>3. /\ site' \in [ledger : Mains, receipts : Commits]
        /\ site'.ledger <= mains /\ site'.receipts \in heads
    BY <1>3 DEF IInv, TypeOK, RunInv, Located
  <2> QED BY <1>1, <2>1, <2>2, <2>3 DEF IInv, TypeOK
<1>5. HeadsInv' /\ SeenInv'
  BY SeenStays DEF IInv, HeadsInv
<1>6. EventsInv'
  <2>1. \A e \in Known' : e = NoEvent \/ e \in Known
    BY <1>1 DEF Known
  <2>2. NoEvent.kind = "none"
    BY DEF NoEvent
  <2> QED BY <2>1, <2>2 DEF IInv, EventsInv
<1>7. RunInv'
  BY <1>1, <1>2, <1>3 DEF RunInv, Located
<1>8. MergedInv'
  BY <1>1, <1>2, TreeStays DEF IInv, MergedInv
<1>9. ServedInv'
  <2>1. \A d : News(d)' = News(d)
    BY TreeStays
  <2>2. ASSUME NEW d \in heads, Signal(d) \in Known
        PROVE  Signal(d) \in Known' \/ News(d) \subseteq attested
    <3>1. CASE Signal(d) # running.event
      BY <1>1, <2>2, <3>1 DEF Known
    <3>2. CASE Signal(d) = running.event
      <4>1. running.event.kind = "signal"
        BY <3>2 DEF Signal
      <4> QED BY <3>2, <4>1 DEF Known, IInv, ServedInv
    <3> QED BY <3>1, <3>2
  <2> QED BY <1>1, <1>2, <2>1, <2>2 DEF IInv, ServedInv
<1> QED BY <1>4, <1>5, <1>6, <1>7, <1>8, <1>9

\* A run that failed ends the order.
LEMMA FailKeeps ==
  ASSUME IInv, Refuse \/ Fail
  PROVE  IInv'
<1>1. /\ Leave /\ running # Idle
      /\ UNCHANGED <<mains, canonical, head, tree, heads, tests, signals, site, attested>>
      /\ lost' = lost \cup {running.event}
      /\ ~orderly'
  BY DEF Refuse, Fail, Abandon, At, branches, sources, IInv, TypeOK, Idle
<1>2. failures' \in 0..MaxFailures
  BY PagesAssumption DEF Refuse, Fail, IInv, TypeOK
<1>3. orderly' \in BOOLEAN
  BY DEF Refuse, Fail, Abandon, IInv, TypeOK
<1>4. /\ TypeOK' /\ HeadsInv' /\ EventsInv' /\ RunInv'
      /\ MergedInv' /\ SeenInv' /\ ServedInv'
  BY <1>1, <1>2, <1>3, EndKeeps
<1> QED BY <1>1, <1>4 DEF IInv, LedgerInv, ReceiptsInv

\* A run that is skipped leaves the site as it is, and what is served next
\* looks at the branches after it.
LEMMA SkipKeeps ==
  ASSUME IInv, Skip
  PROVE  IInv'
<1>1. /\ running.step = "ledger" /\ ~running.event.ok /\ Leave /\ running # Idle
      /\ UNCHANGED <<mains, canonical, head, tree, heads, tests, signals, lost, site, attested,
                     failures, orderly>>
  BY DEF Skip, branches, sources, IInv, TypeOK, Idle
<1>2. running.event.kind # "signal"
  <2>1. running.event \in Events
    BY <1>1 DEF IInv, RunInv
  <2> QED BY <1>1, <2>1, EventTypes DEF Signal
<1>3. failures \in 0..MaxFailures /\ orderly \in BOOLEAN
  BY DEF IInv, TypeOK
<1>4. /\ TypeOK' /\ HeadsInv' /\ EventsInv' /\ RunInv'
      /\ MergedInv' /\ SeenInv' /\ ServedInv'
  BY <1>1, <1>2, <1>3, EndKeeps
<1>5. /\ waiting' = NoEvent /\ running'.event = waiting
      /\ running'.step \notin Located
  BY <1>1, LeaveLemma, StartedIs DEF IInv, Located, Idle
<1>6. NoEvent.kind = "none" /\ ~NoEvent.ok
  BY DEF NoEvent
<1>7. LedgerInv'
  BY <1>1, <1>5, <1>6 DEF IInv, LedgerInv
<1>8. ReceiptsInv'
  <2>1. ReceiptsHead' = ReceiptsHead
    BY <1>1 DEF ReceiptsHead
  <2> QED BY <1>1, <1>5, <1>6, <2>1 DEF IInv, ReceiptsInv, Located
<1> QED BY <1>4, <1>7, <1>8 DEF IInv

\* A deployment: the site is of the revisions the run resolved.
LEMMA DeployKeeps ==
  ASSUME IInv, Deploy
  PROVE  IInv'
<1>1. /\ running.step = "deploy" /\ Leave
      /\ site' = [ledger |-> running.ledger, receipts |-> running.receipts]
      /\ UNCHANGED <<mains, canonical, head, tree, heads, tests, signals, lost, attested,
                     failures, orderly>>
  BY DEF Deploy, At, branches, sources
<1>2. /\ running # Idle /\ failures \in 0..MaxFailures /\ orderly \in BOOLEAN
  BY <1>1 DEF IInv, TypeOK, Idle
<1>3. /\ TypeOK' /\ HeadsInv' /\ EventsInv' /\ RunInv'
      /\ MergedInv' /\ SeenInv' /\ ServedInv'
  BY <1>1, <1>2, EndKeeps
<1>4. /\ waiting' = NoEvent
      /\ \/ waiting = NoEvent /\ running' = Idle
         \/ waiting # NoEvent /\ running' = Started(waiting)
      /\ running'.event = waiting
  BY <1>1, LeaveLemma DEF IInv
<1>5. /\ Started(waiting).step = "ledger" /\ Started(waiting) # Idle
      /\ Idle.step = "idle" /\ NoEvent.kind = "none"
  BY StartedIs DEF Idle, NoEvent
<1>7. LedgerInv'
  BY <1>1, <1>4, <1>5 DEF IInv, LedgerInv, Located
<1>8. ReceiptsInv'
  <2>1. ReceiptsHead' = ReceiptsHead
    BY <1>1 DEF ReceiptsHead
  <2> QED BY <1>1, <1>4, <1>5, <2>1 DEF IInv, ReceiptsInv
<1> QED BY <1>3, <1>7, <1>8 DEF IInv

\* A step of nobody keeps the invariant.
LEMMA StutterKeeps ==
  ASSUME IInv, UNCHANGED vars
  PROVE  IInv'
<1>1. UNCHANGED <<mains, canonical, head, tree, heads, tests, signals, running, waiting, lost,
                  site, attested, failures, orderly>>
  BY DEF vars, branches, sources, group
<1>2. TypeOK' /\ HeadsInv' /\ EventsInv' /\ RunInv'
  BY <1>1 DEF IInv, TypeOK, HeadsInv, EventsInv, RunInv, Known
<1>3. MergedInv' /\ SeenInv' /\ ServedInv'
  BY <1>1, TreeStays, SeenStays DEF IInv, MergedInv, ServedInv, Known
<1> QED BY <1>1, <1>2, <1>3, OrderlyStays DEF IInv

\* Every step keeps the invariant: one case per action.
LEMMA NextKeeps == IInv /\ [Next]_vars => IInv'
BY PushMainKeeps, CommitKeeps, PushReceiptsKeeps, CiCompletesKeeps, SignalCompletesKeeps,
   RerunKeeps, ResolveLedgerKeeps, ResolveReceiptsKeeps, BuildKeeps, DeployKeeps,
   FailKeeps, SkipKeeps, OtherKeeps, StutterKeeps
   DEF Next, Run, Environment, Completions

\* IInv always holds.
LEMMA Inductive == Spec => []IInv
BY InitInv, NextKeeps, PTL DEF Spec

-----------------------------------------------------------------------------
(* The theorems.                                                            *)

\* Pages.TypeOK: the state of the branches and of the pages workflow.  That the
\* site is of revisions that were pushed rests on what each event is of.
THEOREM TypeCorrect == Spec => []TypeOK
BY Inductive, PTL DEF IInv

\* Pages.SettledSiteIsCurrent: with runs that succeed and complete in order an
\* event that is served may displace another, of either branch, and events that
\* are not may come as long as they displace none that is, and yet the site that
\* is left is of the ends of both.
THEOREM SettledIsCurrent == Spec => []SettledSiteIsCurrent
<1>1. IInv => SettledSiteIsCurrent
  <2> SUFFICES ASSUME IInv, Quiet, orderly
               PROVE  site = [ledger |-> mains, receipts |-> ReceiptsHead]
    BY DEF SettledSiteIsCurrent
  <2>1. waiting = NoEvent /\ site \in [ledger : Mains, receipts : Commits]
    BY DEF Quiet, IInv, TypeOK
  <2>2. site.ledger = mains /\ site.receipts = ReceiptsHead
    BY <2>1 DEF Quiet, IInv, LedgerInv, ReceiptsInv, Idle, NoEvent
  <2> QED BY <2>1, <2>2
<1> QED BY <1>1, Inductive, PTL

\* Pages.ShownReceiptIsReal: a deployed site was projected from directories the
\* projector accepted, and an attestation that a publication names had been
\* made when the factory wrote it there.
THEOREM ReceiptIsReal == Spec => []ShownReceiptIsReal
<1>1. IInv => ShownReceiptIsReal
  <2> SUFFICES ASSUME IInv, NEW m \in Proved(site.receipts)
               PROVE  LET shown == Receipt(m, tree[site.receipts][m])
                          proof == ProofOf[shown.digest]
                      IN /\ tree[site.receipts][m].proofs[shown.commit] = shown.digest
                         /\ shown.result = "PASS" =>
                              /\ shown.declared > 0
                              /\ proof.patched.phase = "patched_observation"
                              /\ proof.patched.exit = 0 /\ WantsSuccess(proof.patched)
                         /\ shown.link # None => <<m, shown.commit, shown.digest>> \in attested
    BY DEF ShownReceiptIsReal
  <2> DEFINE dir   == tree[site.receipts][m]
             shown == Receipt(m, dir)
  <2>1. m \in Missions /\ site.receipts \in Commits
    BY DEF Proved, IInv, TypeOK
  <2>2. dir \in DirectoryTypes
    BY <2>1, DirectoryType DEF IInv
  <2>3. Projectable(m, dir)
    BY <2>1 DEF IInv, MergedInv, Projected
  <2>4. Seen(m, dir)
    BY <2>1 DEF IInv, SeenInv
  <2>5. shown.link # None => <<m, shown.commit, shown.digest>> \in attested
    <3>1. /\ shown.commit \in Oids
          /\ shown.link # None =>
               /\ dir.notes[shown.commit] # None
               /\ NoteOf[dir.notes[shown.commit]].link = shown.link
               /\ shown.link = shown.digest
      BY <2>1, <2>2, <2>3, ReceiptIsOfProof
    <3> QED BY <2>4, <3>1 DEF Seen
  <2> QED BY <2>1, <2>2, <2>3, <2>5, ReceiptIsOfProof
<1> QED BY <1>1, Inductive, PTL

\* Pages.AttestedAsAdded: a signal leaves the group only for lost or after a
\* build that attested what its push added, and no build attests anything else.
THEOREM AttestedIsAdded == Spec => []AttestedAsAdded
<1>1. IInv => AttestedAsAdded
  <2> SUFFICES ASSUME IInv PROVE AttestedAsAdded
    OBVIOUS
  <2>1. \A c \in heads \ (signals \cup {0}) :
          Signal(c) \notin Known => News(c) \subseteq attested
    BY DEF IInv, ServedInv
  <2>2. attested \subseteq UNION {News(c) : c \in heads}
    BY DEF IInv, ServedInv
  <2> QED BY <2>1, <2>2 DEF AttestedAsAdded, News, Signal, Known
<1> QED BY <1>1, Inductive, PTL
=============================================================================
