-------------------------------- MODULE MCPages --------------------------------
(* Proofs, publications and directories for the runs of Pages. *)
EXTENDS Pages

Observed(phase, expected, exit) ==
  [phase |-> phase, expected |-> expected, exit |-> exit,
   result |-> IF exit = 0 THEN "PASS" ELSE "FAIL",
   met |-> (expected = "success") = (exit = 0), started |-> 0, finished |-> 1]

Before == Observed("base_observation", "failure", 1)
After  == Observed("patched_observation", "success", 0)

Structured(oid, before, after) ==
  [schema |-> 2, mission |-> "M1", commit |-> oid, repository |-> "r", checks |-> {"test"},
   base |-> before, patched |-> after, executed |-> <<before, after>>,
   started |-> 0, finished |-> 1]

\* p2 is p1 with other bytes, p3 is legacy, and in p4 the patched tree still
\* fails, as it was declared to.
MCProofOf == [d \in Digests |->
  CASE d \in {"p1", "p2"} -> Structured("a", Before, After)
    [] d = "p3" -> [schema |-> 1, mission |-> "M1", commit |-> "b", repository |-> "r",
                    checks |-> {"test"}]
    [] d = "p4" -> Structured("b", Before, Observed("patched_observation", "failure", 1))]

Note(oid, digest) ==
  [schema |-> 2, mission |-> "M1", commit |-> oid, number |-> 7,
   pr |-> [repository |-> "r", number |-> 7], state |-> "OPEN", merged |-> FALSE,
   head |-> oid, merge |-> None,
   attestation |-> IF digest = None THEN "ATTESTATION_PENDING" ELSE "RECEIPT_ATTESTED",
   link |-> digest]

MCNoteOf == [n \in {"attested1", "attested3"} |->
               IF n = "attested1" THEN Note("a", "p1") ELSE Note("b", "p3")]

Holding(current, a, b, noteA, noteB) ==
  [current |-> IF current = None THEN None
               ELSE [mission |-> "M1", commit |-> current, digest |-> IF current = "a" THEN a ELSE b],
   proofs |-> [o \in Oids |-> IF o = "a" THEN a ELSE b],
   notes  |-> [o \in Oids |-> IF o = "a" THEN noteA ELSE noteB]]

MCDirectories == {
  Empty,
  Holding(None, "p1", None, None, None),
  Holding(None, "p2", None, None, None),
  Holding("a",  "p1", "p3", None, None),
  Holding("b",  "p1", "p3", None, None),
  Holding("a",  "p1", "p4", None, None),
  Holding("b",  "p1", "p4", None, None),
  Holding(None, "p1", None, "attested1", None),
  Holding("a",  "p2", None, "attested1", None),
  Holding("b",  "p1", "p3", "attested1", "attested3") }

\* The branch is new, or has a first proof already.
MCBeginnings == [Missions -> {Empty, Holding(None, "p1", None, None, None)}]

\* Of all pairs of observations only those are valid that ran the tree before
\* and after the patch, in this order, and end with a success that was wanted.
Observations ==
  [phase : {"base_observation", "patched_observation"}, expected : {"success", "failure", "nonzero"},
   exit : {0, 1}, result : {"PASS", "FAIL"}, met : BOOLEAN, started : {0}, finished : {-1, 0}]

ASSUME ValidPairs ==
  \A before, after \in Observations :
    ValidStructured(Structured("a", before, after), "M1", "a") <=>
      /\ before \in {[Observed("base_observation", e, x) EXCEPT !.finished = 0] :
                      e \in {"success", "failure", "nonzero"}, x \in {0, 1}}
      /\ before.expected = "success" <=> before.exit = 0
      /\ after = [After EXCEPT !.finished = 0]

\* For the finding one good proof after the other is enough.
TwoProofs == { Holding(None, "p1", None, None, None), Holding("b", "p1", "p3", None, None) }
=============================================================================
