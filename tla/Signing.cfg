CONSTANTS
  Missions = {1, 2, 3}
  Bundles <- ThreeMissions
  Broken <- OneBroken
  MaxMissions = 2
  MaxPushes = 2
  MaxFailures = 1
SPECIFICATION Spec
INVARIANTS
  TypeOK
  PublishedIsGenuine
  AllDoneCoversMain
PROPERTY
  UntroubledPushIsSigned
CHECK_DEADLOCK FALSE
