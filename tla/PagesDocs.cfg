SPECIFICATION FairSpec
CONSTANTS
  None = None
  Oids = {"a", "b"}
  Digests = {"p1", "p2", "p3", "p4"}
  ProofOf <- MCProofOf
  Notes = {"attested1", "attested3"}
  NoteOf <- MCNoteOf
  Missions = {"M1"}
  Canonical = {}
  Directories <- TwoProofs
  Beginnings <- MCBeginnings
  MaxMains = 1
  MaxCommits = 2
  MaxFailures = 0
PROPERTIES ProofsAreAttested
CHECK_DEADLOCK FALSE
