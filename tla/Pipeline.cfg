CONSTANTS
  MaxRuns = 2
  Absent = Absent
  Torn = Torn
SPECIFICATION Spec
INVARIANTS
  TypeOK
  OldCopySurvives
  CleanErrorRestores
  OnlyVerifiedIsLive
PROPERTY
  ImplementsAtomicPublish
CHECK_DEADLOCK FALSE
