CONSTANTS
  Missions = {1, 2}
  Bundles <- TwoEach
  Broken <- OneBroken
  MaxMissions = 2
  MaxPushes = 1
  MaxFailures = 1
SPECIFICATION Spec
PROPERTY
  SignedInTheEnd
CHECK_DEADLOCK FALSE
