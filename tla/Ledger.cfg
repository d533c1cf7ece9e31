CONSTANTS
  Missions = {11, 12}
  Rehearsals = {12}
  Repos = {101}
  RepoOf <- SameRepo
  Nothing = Nothing
  Torn = Torn
  Unrelated = Unrelated
  MaxBuilds = 2
  MaxEdits = 1
SPECIFICATION Spec
INVARIANTS TypeOK LastSetSurvives CompleteRenderIsExact
PROPERTIES UnrelatedStays
CHECK_DEADLOCK FALSE
