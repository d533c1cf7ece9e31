\* One good input per kind of mission, 29 with a flaw or a peculiarity, some 270 statements of costs.
SPECIFICATION RecordSpec
CONSTANTS
  None = None
  Absent = Absent
  Elsewhere = Elsewhere
  Legacy = Legacy
  Inputs <- MCInputs
  Reruns <- Rerunnable
  Lower <- MCLower
  Redacted <- MCRedacted
  Blank = " "
  Decoded <- MCDecoded
  IssueOf <- MCIssueOf
  Commits = {"c1", "c2"}
  Durations <- MCDurations
  PullRequests <- Requests
  Edits <- Changes
  MaxScale = 4
  MaxRuns = 2
  MaxEdited = 1
INVARIANTS
  RecordTypeOK
  ShownWasRun
  EnvelopeIsCurrent
  ShownTotalsAreExact
  NoRunIsWasted
CHECK_DEADLOCK FALSE
