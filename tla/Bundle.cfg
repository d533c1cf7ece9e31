SPECIFICATION Spec
CONSTANTS
  Versions = {1, 2}
  Patched = {2}
  MaxEdits = 3
INVARIANTS TypeOK KilledLosesNothing ReturnedCoversBundle VerifiedIsSound
PROPERTIES GoesForAnother
