----------------------------- MODULE MissionRules -----------------------------
(***************************************************************************)
(* lib/mission-validator.mjs: when a mission receipt is valid.             *)
(*                                                                         *)
(* A receipt is a record of the fields its rules read.  A text is          *)
(* represented by what the rules look for in it, a URL or a hash by a      *)
(* constant, and a field that is null or left out by None, except for      *)
(* patch_diff_hash: bin/bundle.mjs tells the two apart.                    *)
(***************************************************************************)
CONSTANTS
  None,       \* null
  Absent,     \* undefined: the field is left out
  Elsewhere   \* an attestation URI outside this repository

Variants  == {"own_repo_rehearsal", "V", "W", "F", "author_contribution"}
External  == Variants \ {"own_repo_rehearsal"}
Consented == {"V", "W", "F"}

Tiers          == {"R0", "R1", "R2"}
Grades         == {"B0", "B1", "B+", "A-", "A"}
ExternalGrades == Grades \ {"B0"}
Roles == {"worker_runtime_operator", "funder", "verifier", "both_sides_disclosed"}

\* The sentence a disclosure label contains; "blank" is the empty label.
Labels == {"rehearsal", "contributor", "other", "blank"}

Statuses   == {"merged", "approved", "rejected", "silent", "closed", "pending"}
Decided    == {"merged", "approved", "rejected", "silent"}
Attributed == {"merged", "approved", "rejected", "closed"}
Payments   == {"none", "fixed_review_honorarium", "post_decision_donation"}

\* All sentences of the baseline are there, or one of them is missing, or they
\* are there and so is a limitation of nothing but spaces.
Limitations == {"whole", "short", "blank"}

\* What validateStructural lets through, given the ranges of the fields that
\* are hashes, URLs and texts.
Missions(URLs, Commits, Patches, Texts, Digests) ==
  [ bounty : BOOLEAN, variant : Variants, tiers : SUBSET Tiers,
    grade : Grades \cup {None}, label : Labels, role : Roles,
    counterparty : BOOLEAN, consent : URLs \cup {None}, worker : BOOLEAN,
    environment : BOOLEAN, base : Commits \cup {None},
    patchCommit : Commits \cup {None}, patch : Patches \cup {None, Absent},
    commands : Texts, issue : URLs \cup {None}, status : Statuses,
    link : BOOLEAN, payment : Payments, contingent : BOOLEAN,
    limitations : Limitations, plain : BOOLEAN,
    digest : Digests \cup {None}, uri : Digests \cup {None, Elsewhere} ]

-----------------------------------------------------------------------------
(* validatePolicy, one operator per family of rules.                        *)

\* OUTCOME_EVIDENCE_REQUIRED and PAYMENT_TIMING: an outcome somebody is said to
\* have decided is linked, and a donation after it waits for it.
OutcomeIsBacked(m) ==
  /\ m.status \in Attributed => m.link
  /\ m.payment = "post_decision_donation" => m.status # "pending"

\* CONSENT_REQUIRED.
ConsentIsNamed(m) == m.variant \in Consented => m.consent # None

\* TIER_VARIANT.
TiersFitVariant(m) ==
  /\ "R0" \in m.tiers => m.variant = "own_repo_rehearsal"
  /\ m.tiers \cap {"R1", "R2"} # {} => m.variant \in External

\* R1_EVIDENCE, R2_OUTCOME and CODE_IDENTITY.
TiersAreEarned(m) ==
  /\ "R1" \in m.tiers => m.uri # None /\ m.digest # None /\ m.environment
  /\ "R2" \in m.tiers => m.status \in Decided
  /\ m.tiers \cap {"R1", "R2"} # {} => m.base # None

\* ATTESTATION_ORIGIN.
AttestedHere(m) == m.uri # Elsewhere

\* SIDE_ALTERNATION and EXTERNAL_COUNTERPARTY.
SidesAreTold(m) ==
  /\ m.role = "both_sides_disclosed" => m.variant = "own_repo_rehearsal"
  /\ m.counterparty <=> m.variant \in External

\* E2_VARIANT.
BountyIsFunded(m) == m.bounty => m.variant = "F"

\* REHEARSAL_LABEL and CONTRIBUTOR_LABEL.
LabelFits(m) ==
  /\ m.variant = "own_repo_rehearsal" => m.label = "rehearsal"
  /\ m.variant = "author_contribution" => m.label = "contributor"

\* CONTRIBUTION_BASE_COMMIT, CONTRIBUTION_ROLE and CONTRIBUTION_PATCH.
ContributionIsOurs(m) ==
  m.variant = "author_contribution" =>
    m.base # None /\ m.patch \notin {None, Absent} /\ m.role = "worker_runtime_operator"

\* GRADE_OUTCOME_CONSISTENCY and GRADE_VARIANT.
GradeFits(m) ==
  /\ m.grade = "B+" => m.status \in {"merged", "approved"}
  /\ m.grade = "B1" => m.status \in Decided
  /\ m.grade = "B0" => m.variant = "own_repo_rehearsal"
  /\ m.grade \in ExternalGrades => m.variant \in External

\* LIMITATIONS_BASELINE, BANNED_PHRASES and TIER_LANGUAGE.
WordsAreHonest(m) == m.limitations # "short" /\ m.plain

ValidMission(m) ==
  /\ OutcomeIsBacked(m)
  /\ ConsentIsNamed(m)
  /\ ~m.contingent
  /\ TiersFitVariant(m)
  /\ TiersAreEarned(m)
  /\ AttestedHere(m)
  /\ SidesAreTold(m)
  /\ BountyIsFunded(m)
  /\ LabelFits(m)
  /\ ContributionIsOurs(m)
  /\ GradeFits(m)
  /\ WordsAreHonest(m)

===============================================================================
