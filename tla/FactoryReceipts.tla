---------------------------- MODULE FactoryReceipts ----------------------------
(***************************************************************************)
(* lib/factory-receipts.mjs, what it reads: the directory of a mission on  *)
(* the receipts branch, which of its proofs is the current one, and the    *)
(* receipt that is projected from it or refused.                           *)
(*                                                                         *)
(* A directory holds current.json or not, and for each contribution commit *)
(* a proof.json and a publication.json or not.  A proof is its digest, and *)
(* ProofOf says what the bytes with that digest say; a publication is a    *)
(* name, and NoteOf says what the file of that name says.  The formats of  *)
(* times, object names and digests are the ranges of the fields.           *)
(***************************************************************************)
EXTENDS Integers, Sequences, FiniteSets

CONSTANTS
  Oids,      \* commits contributed upstream, which name the proof directories
  Digests,   \* digests of proofs
  ProofOf,   \* digest -> what the proof says
  Notes,     \* publication files
  NoteOf,    \* publication file -> what it says
  None       \* a file or a field that is not there

ASSUME FactoryAssumption ==
  /\ None \notin Oids \cup Digests \cup Notes
  /\ DOMAIN ProofOf = Digests /\ DOMAIN NoteOf = Notes

Empty == [current |-> None, proofs |-> [o \in Oids |-> None], notes |-> [o \in Oids |-> None]]

-----------------------------------------------------------------------------
(* Proofs.                                                                  *)

Succeeds(o) == o.exit = 0
WantsSuccess(o) == o.expected = "success"

ValidObservation(o) ==
  /\ o.started <= o.finished
  /\ Succeeds(o) <=> o.result = "PASS"
  /\ o.met <=> (WantsSuccess(o) <=> Succeeds(o))

ValidCommon(proof, m, oid) ==
  /\ proof.mission = m
  /\ proof.commit = oid
  /\ proof.checks # {}

\* Without commands and times: never the ground of a PASS.
ValidLegacy(proof, m, oid) == ValidCommon(proof, m, oid)

ValidStructured(proof, m, oid) ==
  LET ran == proof.executed
      Passed(o) == Succeeds(o) /\ o.result = "PASS"
  IN /\ ValidCommon(proof, m, oid)
     /\ DOMAIN ran = 1..2
     /\ \A i \in DOMAIN ran : ValidObservation(ran[i])
     /\ ran[1].phase = "base_observation" /\ ran[2].phase = "patched_observation"
     /\ ran[1] = proof.base /\ ran[2] = proof.patched
     /\ proof.started <= proof.finished
     /\ \A i \in DOMAIN ran : ran[i].met
     /\ \E i \in DOMAIN ran : WantsSuccess(ran[i])
     /\ \A i \in DOMAIN ran : WantsSuccess(ran[i]) => Passed(ran[i])
     /\ Passed(ran[2])

ValidProof(proof, m, oid) ==
  \/ proof.schema = 1 /\ ValidLegacy(proof, m, oid)
  \/ proof.schema = 2 /\ ValidStructured(proof, m, oid)

-----------------------------------------------------------------------------
(* current.json and publication.json.                                       *)

\* Without current.json the only proof directory is the current one.
Pointer(m, dir) ==
  LET named == {o \in Oids : dir.proofs[o] # None \/ dir.notes[o] # None} IN
  IF dir.current # None THEN dir.current
  ELSE IF Cardinality(named) # 1 THEN None
  ELSE LET only == CHOOSE o \in named : TRUE IN
       [mission |-> m, commit |-> only, digest |-> dir.proofs[only]]

\* Mutant: any attestation of a proof of ours will do.
UnboundPublication(note, m, oid, digest, repository) ==
  /\ note.mission = m /\ note.commit = oid
  /\ note.attestation = "RECEIPT_ATTESTED" <=> note.link # None

ValidPublication(note, m, oid, digest, repository) ==
  /\ note.mission = m
  /\ note.commit = oid
  /\ note.pr = [repository |-> repository, number |-> note.number]
  /\ note.merged <=> note.state = "MERGED"
  /\ note.schema = 2 => (note.merged <=> note.merge # None)
  /\ IF note.attestation = "RECEIPT_ATTESTED"
     THEN note.link = digest
     ELSE note.link = None

\* What mergeFactoryReceipts asks of a mission before it projects it.
Projectable(m, dir) ==
  LET at == Pointer(m, dir) IN
  /\ at # None /\ at.mission = m
  /\ dir.proofs[at.commit] # None /\ dir.proofs[at.commit] = at.digest
  /\ ValidProof(ProofOf[at.digest], m, at.commit)
  /\ dir.notes[at.commit] # None =>
       ValidPublication(NoteOf[dir.notes[at.commit]], m, at.commit, at.digest,
                        ProofOf[at.digest].repository)

-----------------------------------------------------------------------------
(* The receipt.                                                             *)

\* What became of the pull request; only version 2 knows its last commit.
Outcome(note) ==
  LET head == IF note.schema = 2 THEN note.head ELSE note.commit IN
  [state |-> CASE note.merged -> "merged"
               [] note.state = "CLOSED" -> "closed_unmerged"
               [] OTHER -> "open",
   head  |-> head,
   drift |-> head # note.commit]

Receipt(m, dir) ==
  LET at    == Pointer(m, dir)
      proof == ProofOf[at.digest]
      file  == dir.notes[at.commit]
      wants == IF proof.schema = 2
               THEN {i \in DOMAIN proof.executed : WantsSuccess(proof.executed[i])} ELSE {}
  IN [commit   |-> at.commit,
      digest   |-> at.digest,
      result   |-> IF proof.schema = 2 THEN "PASS" ELSE "INCOMPLETE",
      declared |-> Cardinality(wants),
      outcome  |-> IF file = None THEN None ELSE Outcome(NoteOf[file]),
      link     |-> IF file = None THEN None ELSE NoteOf[file].link]
=============================================================================
