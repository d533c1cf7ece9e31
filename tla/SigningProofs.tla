---------------------------- MODULE SigningProofs ----------------------------
(***************************************************************************)
(* Theorems about Signing, for any missions, bundles, limits and number of *)
(* pushes and failures.  The range of a push is fixed once CI has run over *)
(* it; the invariant says what each signer knows of its handoff at each of *)
(* its steps, and that the ranges of the pushes cover main.                *)
(***************************************************************************)
EXTENDS Signing, TLAPS, WellFoundedInduction

Publishing == {"view", "create", "upload"}

\* CI runs for pushes, passes for what can be packaged, and starts the signer.
RangeInv == \A p \in Pushes :
  /\ ci[p] # "none" => p <= pushed
  /\ ci[p] = "passed" => Packable(p)
  /\ signer[p] # "waiting" => ci[p] = "passed"

\* The signer of push p attests what the range changed, publishes no other
\* handoff than that, and at least one bundle; what is not to do is published.
SignerInv(p) ==
  /\ signer[p] \in {"attest", "confirm"} \cup Publishing => Changed(p) # {}
  /\ signer[p] \in {"attest"} \cup Publishing => handoff[p] = Expected(p)
  /\ signer[p] \in {"confirm"} \cup Publishing => Expected(p) \subseteq attested
  /\ signer[p] \in Publishing =>
       /\ todo[p] # {} /\ todo[p] \subseteq Changed(p)
       /\ \A x \in Expected(p) : x[1] \in todo[p] \/ x \in assets
  /\ signer[p] = "done" => Expected(p) \subseteq assets

SignersInv == \A p \in Pushes : SignerInv(p)

\* What a tree holds is in the range of that push or of an earlier one.
CoverInv == \A q \in 0..pushed : \A m \in Missions :
  main[q][m] # 0 => \E p \in 1..q : <<m, main[q][m]>> \in Expected(p)

IInv == TypeOK /\ RangeInv /\ SignersInv /\ CoverInv /\ PublishedIsGenuine

-----------------------------------------------------------------------------
(* Ranges.                                                                  *)

\* A set of numbers that is not empty has a least member.
LEMMA LeastOf ==
  ASSUME NEW T \in SUBSET Nat, T # {}
  PROVE  \E x \in T : \A y \in T : x <= y
<1> DEFINE R == OpToRel(<, Nat)
<1>1. \E x \in T : \A y \in T : <<y, x>> \notin R
  <2>1. IsWellFoundedOn(R, Nat)
    BY NatLessThanWellFounded
  <2> HIDE DEF R
  <2> QED BY <2>1, WFMin
<1>2. \A x, y \in T : <<y, x>> \in R <=> y < x
  BY DEF OpToRel
<1>3. \A x, y \in T : ~(y < x) => x <= y
  OBVIOUS
<1> HIDE DEF R
<1> QED BY <1>1, <1>2, <1>3

\* A bundle is a mission and a digest.
LEMMA PairsOfBundles ==
  ASSUME NEW x \in Bundles
  PROVE  /\ x = <<x[1], x[2]>>
         /\ x[1] \in Missions
         /\ x[2] \in Nat \ {0}
  BY SigningAssumption

\* A bundle is expected of a push if and only if the push changed it.
LEMMA ExpectedIs ==
  ASSUME NEW p \in Pushes, NEW x
  PROVE  x \in Expected(p) <=>
           \E m \in Missions : main[p - 1][m] # main[p][m] /\ x = <<m, main[p][m]>>
  BY DEF Expected, Changed, BeforeOf, HeadOf

\* A handoff that is verified is the range of its push.
LEMMA VerifiedIsExpected ==
  ASSUME TypeOK, NEW p \in Pushes, Verified(p)
  PROVE  handoff[p] = Expected(p)
<1>1. handoff[p] \subseteq Bundles
  BY DEF TypeOK
<1>2. ASSUME NEW x \in handoff[p]
      PROVE  x \in Expected(p)
  <2>1. x[1] \in Changed(p) /\ x[2] = HeadOf(p)[x[1]]
    BY <1>2 DEF Verified, MetadataMatches, ArchivesMatch
  <2> QED BY <2>1, <1>1, <1>2, PairsOfBundles DEF Expected
<1>3. ASSUME NEW x \in Expected(p)
      PROVE  x \in handoff[p]
  <2>1. PICK m \in Changed(p) : x = <<m, HeadOf(p)[m]>>
    BY <1>3 DEF Expected
  <2>2. PICK y \in handoff[p] : y[1] = m
    BY DEF Verified, MetadataMatches
  <2>3. y = <<m, HeadOf(p)[m]>>
    BY <2>2, <1>1, PairsOfBundles DEF Verified, ArchivesMatch
  <2> QED BY <2>1, <2>3
<1> QED BY <1>2, <1>3

\* What CI packages is valid, and what is packaged are bundles.
LEMMA PackableIsValid ==
  ASSUME TypeOK, NEW p \in Pushes, Packable(p)
  PROVE  Expected(p) \subseteq Bundles \ Broken
<1>1. main[p] \in Trees
  BY DEF TypeOK, Pushes
<1>2. \A m \in Changed(p) : main[p][m] # 0 /\ <<m, main[p][m]>> \notin Broken
  BY DEF Packable, Loadable, ValidBundle, HeadOf
<1>3. \A m \in Changed(p) : <<m, main[p][m]>> \in Bundles
  BY <1>1, <1>2 DEF Trees, Changed
<1> QED BY <1>2, <1>3 DEF Expected, HeadOf

\* The bundle a publish loop is at is one of its range that it has to do.
LEMMA CurrentIsToDo ==
  ASSUME IInv, NEW p \in Pushes, signer[p] \in Publishing
  PROVE  /\ Current(p) \in Expected(p)
         /\ Current(p)[1] \in todo[p]
<1>1. /\ handoff[p] = Expected(p)
      /\ todo[p] # {} /\ todo[p] \subseteq Changed(p)
  BY DEF IInv, SignersInv, SignerInv
<1>2. PICK n \in todo[p] : \A m \in todo[p] : n <= m
  BY <1>1, LeastOf, SigningAssumption DEF Changed
<1>3. <<n, HeadOf(p)[n]>> \in handoff[p]
  BY <1>1, <1>2 DEF Expected
<1>4. \E x \in handoff[p] : x[1] \in todo[p] /\ \A m \in todo[p] : x[1] <= m
  BY <1>2, <1>3
<1> QED BY <1>1, <1>4 DEF Current

-----------------------------------------------------------------------------
(* Frames.                                                                  *)

\* Between pushes the ranges stay as they are.
LEMMA RangesStay ==
  ASSUME UNCHANGED <<pushed, main>>
  PROVE  /\ \A p \in Pushes : Changed(p)' = Changed(p) /\ Expected(p)' = Expected(p)
         /\ \A p \in Pushes : Packable(p)' <=> Packable(p)
         /\ CoverInv => CoverInv'
<1>1. \A p \in Pushes : Changed(p)' = Changed(p) /\ Expected(p)' = Expected(p)
  BY DEF Changed, Expected, BeforeOf, HeadOf
<1>2. \A p \in Pushes : Packable(p)' <=> Packable(p)
  BY <1>1 DEF Packable, Loadable, ValidBundle, HeadOf
<1>3. CoverInv => CoverInv'
  BY DEF CoverInv, Expected, Changed, BeforeOf, HeadOf
<1> QED BY <1>1, <1>2, <1>3

\* A step of one signer leaves what is known of the others, as long as nothing
\* attested or published goes away.
LEMMA SignerStep ==
  ASSUME IInv, NEW p \in Pushes, NEW step, Goto(p, step), signer[p] # "waiting",
         UNCHANGED <<pushed, main, ci>>,
         \A q \in Pushes \ {p} : handoff'[q] = handoff[q] /\ todo'[q] = todo[q],
         attested \subseteq attested', assets \subseteq assets',
         SignerInv(p)'
  PROVE  RangeInv' /\ SignersInv' /\ CoverInv'
<1>1. \A q \in Pushes \ {p} : signer'[q] = signer[q]
  BY DEF Goto, IInv, TypeOK
<1>2. RangeInv'
  BY <1>1, RangesStay DEF IInv, RangeInv
<1>3. ASSUME NEW q \in Pushes \ {p}
      PROVE  SignerInv(q)'
  <2>1. SignerInv(q)
    BY DEF IInv, SignersInv
  <2>2. Changed(q)' = Changed(q) /\ Expected(q)' = Expected(q)
    BY RangesStay
  <2> QED BY <1>1, <2>1, <2>2 DEF SignerInv
<1>4. SignersInv'
  BY <1>3 DEF SignersInv
<1>5. CoverInv'
  BY RangesStay DEF IInv
<1> QED BY <1>2, <1>4, <1>5

\* What is published stays genuine as long as nothing is added to it.
LEMMA PublishedStays ==
  ASSUME PublishedIsGenuine, UNCHANGED <<pushed, main, assets>>,
         attested \subseteq attested',
         \A p \in Pushes : ci[p] = "passed" => ci'[p] = "passed"
  PROVE  PublishedIsGenuine'
BY RangesStay DEF PublishedIsGenuine

-----------------------------------------------------------------------------
(* The steps.                                                               *)

\* At the start nothing is pushed.
LEMMA InitInv == Init => IInv
<1> SUFFICES ASSUME Init PROVE IInv
  OBVIOUS
<1> USE DEF Init
<1>1. TypeOK
  BY SigningAssumption DEF TypeOK, Pushes, Trees, CiStates, SignerSteps
<1>2. RangeInv /\ SignersInv
  BY DEF RangeInv, SignersInv, SignerInv, Publishing
<1>3. CoverInv /\ PublishedIsGenuine
  BY SigningAssumption DEF CoverInv, PublishedIsGenuine
<1> QED BY <1>1, <1>2, <1>3 DEF IInv

\* A push: no range of an earlier one moves.
LEMMA PushKeeps ==
  ASSUME IInv, Push
  PROVE  IInv'
<1>1. pushed \in 0..MaxPushes /\ pushed < MaxPushes /\ pushed' = pushed + 1 /\ MaxPushes \in Nat
  BY SigningAssumption DEF Push, IInv, TypeOK
<1>2. PICK tree \in Trees : main' = [main EXCEPT ![pushed + 1] = tree]
  BY <1>1 DEF Push
<1>3. \A q \in 0..pushed : main'[q] = main[q]
  BY <1>1, <1>2 DEF IInv, TypeOK
<1>4. ASSUME NEW p \in Pushes, p <= pushed
      PROVE  Changed(p)' = Changed(p) /\ Expected(p)' = Expected(p) /\ (Packable(p)' <=> Packable(p))
  <2>1. main'[p] = main[p] /\ main'[p - 1] = main[p - 1]
    BY <1>1, <1>3, <1>4 DEF Pushes
  <2> QED BY <2>1 DEF Changed, Expected, Packable, Loadable, ValidBundle, BeforeOf, HeadOf
<1>5. TypeOK'
  BY <1>1, <1>2 DEF Push, IInv, TypeOK, Pushes, CiStates
<1>6. \A p \in Pushes : ci[p] # "none" => p # pushed + 1 /\ p <= pushed /\ ci'[p] = ci[p]
  BY <1>1 DEF Push, IInv, TypeOK, RangeInv, Pushes
<1>7. RangeInv'
  <2> SUFFICES ASSUME NEW p \in Pushes
               PROVE  /\ ci'[p] # "none" => p <= pushed + 1
                      /\ ci'[p] = "passed" => Packable(p)'
                      /\ signer'[p] # "waiting" => ci'[p] = "passed"
    BY <1>1 DEF RangeInv
  <2>1. CASE p = pushed + 1
    BY <2>1, <1>1, <1>6 DEF Push, IInv, TypeOK, RangeInv
  <2>2. CASE p # pushed + 1
    <3>1. ci'[p] = ci[p] /\ signer'[p] = signer[p]
      BY <2>2, <1>1 DEF Push, IInv, TypeOK
    <3> QED BY <3>1, <1>1, <1>4, <1>6 DEF IInv, RangeInv, Pushes
  <2> QED BY <2>1, <2>2
<1>8. ASSUME NEW p \in Pushes
      PROVE  SignerInv(p)'
  <2>1. UNCHANGED <<signer, handoff, todo, attested, assets>>
    BY DEF Push
  <2>2. SignerInv(p)
    BY DEF IInv, SignersInv
  <2>3. CASE signer[p] = "waiting"
    BY <2>1, <2>3 DEF SignerInv, Publishing
  <2>4. CASE signer[p] # "waiting"
    <3>1. Changed(p)' = Changed(p) /\ Expected(p)' = Expected(p)
      BY <2>4, <1>4 DEF IInv, RangeInv
    <3> QED BY <2>1, <2>2, <3>1 DEF SignerInv
  <2> QED BY <2>3, <2>4
<1>9. CoverInv'
  <2> SUFFICES ASSUME NEW q \in 0..(pushed + 1), NEW m \in Missions, main'[q][m] # 0
               PROVE  \E p \in 1..q : <<m, main'[q][m]>> \in Expected(p)'
    BY <1>1 DEF CoverInv
  <2>1. ASSUME NEW r \in 0..pushed, main[r][m] # 0
        PROVE  \E p \in 1..r : <<m, main'[r][m]>> \in Expected(p)'
    <3>1. PICK p \in 1..r : <<m, main[r][m]>> \in Expected(p)
      BY <2>1 DEF IInv, CoverInv
    <3>2. p \in Pushes /\ p <= pushed
      BY <1>1 DEF Pushes
    <3> QED BY <3>1, <3>2, <1>3, <1>4
  <2>2. CASE q \in 0..pushed
    BY <2>1, <2>2, <1>3
  <2>3. CASE q = pushed + 1 /\ main'[q - 1][m] = main'[q][m]
    <3>1. q - 1 \in 0..pushed /\ main'[q - 1] = main[q - 1] /\ 1..(q - 1) \subseteq 1..q
      BY <2>3, <1>1, <1>3
    <3> QED BY <2>1, <2>3, <3>1
  <2>4. CASE q = pushed + 1 /\ main'[q - 1][m] # main'[q][m]
    <3>1. <<m, main'[q][m]>> \in Expected(q)'
      BY <2>4 DEF Expected, Changed, BeforeOf, HeadOf
    <3> QED BY <2>4, <3>1, <1>1
  <2> QED BY <2>2, <2>3, <2>4, <1>1
<1>10. PublishedIsGenuine'
  <2> SUFFICES ASSUME NEW x \in assets
               PROVE  /\ x \in attested \ Broken
                      /\ \E p \in Pushes : ci'[p] = "passed" /\ x \in Expected(p)'
    BY DEF Push, PublishedIsGenuine
  <2>1. x \in attested \ Broken
    BY DEF IInv, PublishedIsGenuine
  <2>2. PICK p \in Pushes : ci[p] = "passed" /\ x \in Expected(p)
    BY DEF IInv, PublishedIsGenuine
  <2> QED BY <2>1, <2>2, <1>4, <1>6
<1> QED BY <1>5, <1>7, <1>8, <1>9, <1>10 DEF IInv, SignersInv

\* CI is at one push, and starts its signer only with what can be packaged.
LEMMA CiKeeps ==
  ASSUME IInv, NEW p \in Pushes, CiPasses(p) \/ CiRefuses(p) \/ CiFails(p) \/ CiRerun(p)
  PROVE  IInv'
<1> USE DEF CiPasses, CiRefuses, CiFails, CiRerun
<1>1. TypeOK'
  BY SigningAssumption DEF IInv, TypeOK, CiStates, SignerSteps
<1>2. /\ UNCHANGED <<pushed, main, handoff, todo, attested, assets>>
      /\ signer' = signer \/ (Packable(p) /\ ci' = [ci EXCEPT ![p] = "passed"]
                               /\ signer' = [signer EXCEPT ![p] = "resolve"])
      /\ ci[p] \in {"queued", "failed"}
      /\ \E state \in {"queued", "failed", "passed"} :
           ci' = [ci EXCEPT ![p] = state] /\ (state = "passed" => Packable(p))
  OBVIOUS
<1> HIDE DEF CiPasses, CiRefuses, CiFails, CiRerun
<1>3. \A q \in Pushes : ci[q] = "passed" => ci'[q] = "passed"
  BY <1>2 DEF IInv, TypeOK
<1>4. RangeInv'
  BY <1>2, RangesStay DEF IInv, TypeOK, RangeInv
<1>5. ASSUME NEW q \in Pushes
      PROVE  SignerInv(q)'
  <2>1. SignerInv(q) /\ Changed(q)' = Changed(q) /\ Expected(q)' = Expected(q)
    BY <1>2, RangesStay DEF IInv, SignersInv
  <2>2. signer'[q] = signer[q] \/ signer'[q] = "resolve"
    BY <1>2 DEF IInv, TypeOK
  <2> QED BY <1>2, <2>1, <2>2 DEF SignerInv, Publishing
<1>6. CoverInv' /\ PublishedIsGenuine'
  BY <1>2, <1>3, RangesStay, PublishedStays DEF IInv
<1> QED BY <1>1, <1>4, <1>5, <1>6 DEF IInv, SignersInv

\* A handoff is downloaded, checked, or lost; nothing is known of it yet.
LEMMA EarlyKeeps ==
  ASSUME IInv, NEW p \in Pushes,
         Resolve(p) \/ Verify(p) \/ SignerFails(p) \/ SignerRerun(p)
  PROVE  IInv'
<1>1. PICK step \in SignerSteps : Goto(p, step) /\ signer[p] # "waiting"
  BY DEF Resolve, Verify, SignerFails, SignerRerun, SignerSteps
<1>2. /\ UNCHANGED <<pushed, main, ci, todo, attested, assets, releases>>
      /\ \A q \in Pushes \ {p} : handoff'[q] = handoff[q]
  BY DEF Resolve, Verify, SignerFails, SignerRerun, IInv, TypeOK
<1>3. Expected(p) \subseteq Bundles
  BY <1>1, PackableIsValid DEF IInv, RangeInv
<1>4. TypeOK'
  <2>1. handoff' \in [Pushes -> SUBSET Bundles]
    BY <1>3 DEF Resolve, Verify, SignerFails, SignerRerun, Deliveries, IInv, TypeOK
  <2>2. failures' \in 0..MaxFailures
    BY SigningAssumption DEF Resolve, Verify, SignerFails, SignerRerun, IInv, TypeOK
  <2> QED BY <1>1, <1>2, <2>1, <2>2 DEF Goto, IInv, TypeOK
<1>5. Changed(p)' = Changed(p) /\ Expected(p)' = Expected(p)
  BY <1>2, RangesStay
<1>6. signer'[p] = step
  BY <1>1 DEF Goto, IInv, TypeOK
<1>7. SignerInv(p)'
  <2>1. CASE Verify(p) /\ Verified(p)
    <3>1. handoff[p] = Expected(p) /\ handoff' = handoff
      BY <2>1, VerifiedIsExpected DEF Verify, IInv
    <3>2. Changed(p) = {} <=> handoff[p] = {}
      BY <2>1 DEF Verified, MetadataMatches
    <3>3. signer'[p] = IF handoff[p] = {} THEN "done" ELSE "attest"
      BY <2>1 DEF Verify, Goto, IInv, TypeOK
    <3> QED BY <1>5, <3>1, <3>2, <3>3 DEF SignerInv, Publishing
  <2>2. CASE ~(Verify(p) /\ Verified(p))
    <3>1. signer'[p] \in {"resolve", "verify", "failed"}
      BY <2>2 DEF Resolve, Verify, SignerFails, SignerRerun, Goto, IInv, TypeOK
    <3> QED BY <3>1 DEF SignerInv, Publishing
  <2> QED BY <2>1, <2>2
<1>8. RangeInv' /\ SignersInv' /\ CoverInv'
  BY <1>1, <1>2, <1>7, SignerStep
<1>9. PublishedIsGenuine'
  BY <1>2, PublishedStays DEF IInv
<1> QED BY <1>4, <1>8, <1>9 DEF IInv

\* What is attested is the range; the files may be others afterwards.
LEMMA AttestKeeps ==
  ASSUME IInv, NEW p \in Pushes, Attest(p)
  PROVE  IInv'
<1>1. /\ signer[p] = "attest" /\ Goto(p, "confirm")
      /\ UNCHANGED <<pushed, main, ci, todo, releases, assets>>
      /\ attested' = attested \cup handoff[p]
      /\ \A q \in Pushes \ {p} : handoff'[q] = handoff[q]
  BY DEF Attest, IInv, TypeOK
<1>2. TypeOK'
  <2>1. handoff' \in [Pushes -> SUBSET Bundles] /\ failures' \in 0..MaxFailures
    BY SigningAssumption DEF Attest, Deliveries, IInv, TypeOK
  <2> QED BY <1>1, <2>1 DEF Goto, IInv, TypeOK, SignerSteps
<1>3. handoff[p] = Expected(p) /\ Changed(p) # {}
  BY <1>1 DEF IInv, SignersInv, SignerInv
<1>4. SignerInv(p)'
  <2>1. signer'[p] = "confirm"
    BY <1>1 DEF Goto, IInv, TypeOK
  <2>2. Changed(p)' = Changed(p) /\ Expected(p)' = Expected(p)
    BY <1>1, RangesStay
  <2> QED BY <1>1, <1>3, <2>1, <2>2 DEF SignerInv, Publishing
<1>5. RangeInv' /\ SignersInv' /\ CoverInv'
  BY <1>1, <1>4, SignerStep
<1>6. PublishedIsGenuine'
  BY <1>1, PublishedStays DEF IInv
<1> QED BY <1>2, <1>5, <1>6 DEF IInv

\* The second verification finds the range again, all of it to publish.
LEMMA ConfirmKeeps ==
  ASSUME IInv, NEW p \in Pushes, Confirm(p)
  PROVE  IInv'
<1> DEFINE step == IF Verified(p) THEN "view" ELSE "failed"
<1>1. /\ signer[p] = "confirm" /\ Goto(p, step)
      /\ UNCHANGED <<pushed, main, ci, handoff, attested, releases, assets, failures>>
      /\ todo' = [todo EXCEPT ![p] = {x[1] : x \in handoff[p]}]
  BY DEF Confirm
<1>2. handoff[p] \subseteq Bundles
  BY DEF IInv, TypeOK
<1>3. {x[1] : x \in handoff[p]} \subseteq Missions
  BY <1>2, PairsOfBundles
<1>4. TypeOK'
  BY <1>1, <1>3 DEF Goto, IInv, TypeOK, SignerSteps
<1>5. Changed(p) # {} /\ Expected(p) \subseteq attested
  BY <1>1 DEF IInv, SignersInv, SignerInv
<1>6. SignerInv(p)'
  <2>1. Changed(p)' = Changed(p) /\ Expected(p)' = Expected(p)
    BY <1>1, RangesStay
  <2>2. CASE Verified(p)
    <3>1. handoff[p] = Expected(p)
      BY <2>2, VerifiedIsExpected DEF IInv
    <3>2. todo'[p] = Changed(p)
      BY <1>1, <2>2 DEF IInv, TypeOK, Verified, MetadataMatches
    <3>3. signer'[p] = "view"
      BY <1>1, <2>2 DEF Goto, IInv, TypeOK
    <3>4. \A x \in Expected(p) : x[1] \in Changed(p)
      BY DEF Expected
    <3> QED BY <1>1, <1>5, <2>1, <3>1, <3>2, <3>3, <3>4 DEF SignerInv, Publishing
  <2>3. CASE ~Verified(p)
    <3>1. signer'[p] = "failed"
      BY <1>1, <2>3 DEF Goto, IInv, TypeOK
    <3> QED BY <3>1 DEF SignerInv, Publishing
  <2> QED BY <2>2, <2>3
<1>7. \A q \in Pushes \ {p} : todo'[q] = todo[q]
  BY <1>1 DEF IInv, TypeOK
<1>8. RangeInv' /\ SignersInv' /\ CoverInv'
  BY <1>1, <1>6, <1>7, SignerStep
<1>9. PublishedIsGenuine'
  BY <1>1, PublishedStays DEF IInv
<1> QED BY <1>4, <1>8, <1>9 DEF IInv

\* Making a release publishes nothing.
LEMMA ReleaseKeeps ==
  ASSUME IInv, NEW p \in Pushes, View(p) \/ Create(p)
  PROVE  IInv'
<1>1. /\ signer[p] \in Publishing
      /\ UNCHANGED <<pushed, main, ci, handoff, todo, attested, assets, failures>>
      /\ releases' = releases \/ releases' = releases \cup {Current(p)}
  BY DEF View, Create, Publishing
<1>2. PICK step \in {"upload", "create", "failed"} : Goto(p, step)
  BY DEF View, Create
<1>3. Current(p) \in Bundles
  BY <1>1, CurrentIsToDo, PackableIsValid DEF IInv, RangeInv, Publishing
<1>4. TypeOK'
  BY <1>1, <1>2, <1>3 DEF Goto, IInv, TypeOK, SignerSteps
<1>5. SignerInv(p)'
  <2>1. signer'[p] = step
    BY <1>2 DEF Goto, IInv, TypeOK
  <2>2. SignerInv(p) /\ Changed(p)' = Changed(p) /\ Expected(p)' = Expected(p)
    BY <1>1, RangesStay DEF IInv, SignersInv
  <2> QED BY <1>1, <2>1, <2>2 DEF SignerInv, Publishing
<1>6. RangeInv' /\ SignersInv' /\ CoverInv'
  BY <1>1, <1>2, <1>5, SignerStep DEF Publishing
<1>7. PublishedIsGenuine'
  BY <1>1, PublishedStays DEF IInv
<1> QED BY <1>4, <1>6, <1>7 DEF IInv

\* What is uploaded is one of the range; once all are, the signer is done.
LEMMA UploadKeeps ==
  ASSUME IInv, NEW p \in Pushes, Upload(p)
  PROVE  IInv'
<1> DEFINE x == Current(p)
<1>1. /\ signer[p] = "upload" /\ signer[p] \in Publishing
      /\ UNCHANGED <<pushed, main, ci, handoff, attested, releases, failures>>
  BY DEF Upload, Publishing
<1>2. x \in Expected(p) /\ x[1] \in todo[p]
  BY <1>1, CurrentIsToDo
<1>3. ci[p] = "passed" /\ x \in Bundles \ Broken
  BY <1>1, <1>2, PackableIsValid DEF IInv, RangeInv
<1>4. /\ handoff[p] = Expected(p) /\ Changed(p) # {}
      /\ Expected(p) \subseteq attested
      /\ todo[p] \subseteq Changed(p)
      /\ \A y \in Expected(p) : y[1] \in todo[p] \/ y \in assets
  BY <1>1 DEF IInv, SignersInv, SignerInv
<1>5. Changed(p)' = Changed(p) /\ Expected(p)' = Expected(p)
  BY <1>1, RangesStay
<1>6. CASE x \in assets
  <2>1. Goto(p, "failed") /\ UNCHANGED <<assets, todo>>
    BY <1>6 DEF Upload
  <2>2. TypeOK'
    BY <1>1, <2>1 DEF Goto, IInv, TypeOK, SignerSteps
  <2>3. SignerInv(p)'
    BY <2>1 DEF Goto, IInv, TypeOK, SignerInv, Publishing
  <2>4. RangeInv' /\ SignersInv' /\ CoverInv'
    BY <1>1, <2>1, <2>3, SignerStep
  <2>5. PublishedIsGenuine'
    BY <1>1, <2>1, PublishedStays DEF IInv
  <2> QED BY <2>2, <2>4, <2>5 DEF IInv
<1>7. CASE x \notin assets
  <2> DEFINE rest == todo[p] \ {x[1]}
             step == IF rest = {} THEN "done" ELSE "view"
  <2>1. /\ assets' = assets \cup {x}
        /\ todo' = [todo EXCEPT ![p] = rest]
    BY <1>7 DEF Upload
  <2>2. todo'[p] = rest /\ \A q \in Pushes \ {p} : todo'[q] = todo[q]
    BY <2>1 DEF IInv, TypeOK
  <2>3. Goto(p, step)
    BY <1>7, <2>2 DEF Upload
  <2>4. signer'[p] = step
    BY <2>3 DEF Goto, IInv, TypeOK
  <2>5. TypeOK'
    BY <1>1, <1>3, <2>1, <2>3 DEF Goto, IInv, TypeOK, SignerSteps
  <2>6. \A y \in Expected(p) : y[1] \in rest \/ y \in assets'
    <3>1. \A y \in Expected(p) : y[1] = x[1] => y = x
      BY <1>2 DEF Expected
    <3> QED BY <1>4, <2>1, <3>1
  <2>7. SignerInv(p)'
    <3> HIDE DEF x
    <3>1. CASE rest = {}
      BY <1>1, <1>5, <2>4, <2>6, <3>1 DEF SignerInv, Publishing
    <3>2. CASE rest # {}
      BY <1>1, <1>4, <1>5, <2>2, <2>4, <2>6, <3>2 DEF SignerInv, Publishing
    <3> QED BY <3>1, <3>2
  <2>8. RangeInv' /\ SignersInv' /\ CoverInv'
    BY <1>1, <2>1, <2>2, <2>3, <2>7, SignerStep
  <2>9. PublishedIsGenuine'
    <3>1. \A q \in Pushes : ci'[q] = ci[q] /\ Expected(q)' = Expected(q)
      BY <1>1, RangesStay
    <3> QED BY <1>1, <1>2, <1>3, <1>4, <2>1, <3>1 DEF IInv, PublishedIsGenuine
  <2> QED BY <2>5, <2>8, <2>9 DEF IInv
<1> QED BY <1>6, <1>7

\* A step of nobody keeps the invariant.
LEMMA StutterKeeps ==
  ASSUME IInv, UNCHANGED vars
  PROVE  IInv'
<1>1. TypeOK' /\ PublishedIsGenuine'
  BY RangesStay, PublishedStays DEF IInv, vars, TypeOK
<1>2. RangeInv' /\ CoverInv'
  BY RangesStay DEF IInv, vars, RangeInv
<1>3. SignersInv'
  BY RangesStay DEF IInv, vars, SignersInv, SignerInv
<1> QED BY <1>1, <1>2, <1>3 DEF IInv

\* Every step keeps the invariant: one case per action.
LEMMA NextKeeps == IInv /\ [Next]_vars => IInv'
BY PushKeeps, CiKeeps, EarlyKeeps, AttestKeeps, ConfirmKeeps, ReleaseKeeps,
   UploadKeeps, StutterKeeps DEF Next, Sign

\* IInv always holds.
LEMMA Inductive == Spec => []IInv
BY InitInv, NextKeeps, PTL DEF Spec

-----------------------------------------------------------------------------
(* The theorems.                                                            *)

\* Signing.TypeOK: the state of lib/signing-handoff.mjs and its workflows.
\* What a signer publishes is a bundle because its handoff is the range of
\* its push whenever the publish loop runs.
THEOREM TypeCorrect == Spec => []TypeOK
BY Inductive, PTL DEF IInv

\* Signing.PublishedIsGenuine: what is uploaded is valid, attested and from a
\* range that a successful CI run packaged, though deliveries go wrong, files
\* change between attesting and publishing, and signers fail and run again.
THEOREM GenuineRelease == Spec => []PublishedIsGenuine
BY Inductive, PTL DEF IInv

\* Signing.AllDoneCoversMain: what is on main changed in some push, so once
\* the signer of every push is done all of it is published.
THEOREM NoGapInMain == Spec => []AllDoneCoversMain
<1>1. IInv => AllDoneCoversMain
  <2> SUFFICES ASSUME IInv, \A p \in 1..pushed : signer[p] = "done",
                      NEW m \in Missions, main[pushed][m] # 0
               PROVE  <<m, main[pushed][m]>> \in assets
    BY DEF AllDoneCoversMain
  <2>1. pushed \in 0..MaxPushes /\ pushed \in 0..pushed /\ MaxPushes \in Nat
    BY SigningAssumption DEF IInv, TypeOK
  <2>2. PICK p \in 1..pushed : <<m, main[pushed][m]>> \in Expected(p)
    BY <2>1 DEF IInv, CoverInv
  <2>3. p \in Pushes
    BY <2>1 DEF Pushes
  <2> QED BY <2>2, <2>3 DEF IInv, SignersInv, SignerInv
<1> QED BY <1>1, Inductive, PTL
=============================================================================
