\* Ten contents of a directory, good and refused; see MCPages.
SPECIFICATION Spec
CONSTANTS
  None = None
  Oids = {"a", "b"}
  Digests = {"p1", "p2", "p3", "p4"}
  ProofOf <- MCProofOf
  Notes = {"attested1", "attested3"}
  NoteOf <- MCNoteOf
  Missions = {"M1"}
  Canonical = {"M1"}
  Directories <- MCDirectories
  Beginnings <- MCBeginnings
  MaxMains = 2
  MaxCommits = 2
  MaxFailures = 1
INVARIANTS TypeOK SettledSiteIsCurrent AttestedAsAdded ShownReceiptIsReal
CHECK_DEADLOCK FALSE
