CONSTANTS
  Versions = {v1, v2}
  Approved = v1
  PullHosts = {auth, cdn}
  Probed = cdn
  Registry = registry
  MaxEdits = 2
SPECIFICATION Spec
INVARIANTS TypeOK ContainedWhileRunning GoIsEarned SandboxIsRemoved
CHECK_DEADLOCK FALSE
