CONSTANT
  Commands = 2
  None = None
  Paths <- MCPaths
  ParentOf <- MCParentOf
  Unsafe = {"../out"}
  CacheRoot = ".northset"
  Attributes = ".gitattributes"
  Contents = {"file1", "file1+x", "file1/crlf", "file2", "file2/crlf", "link"}
  Converted <- MCConverted
  Sources <- MCSources
  Patches <- MCPatches
SPECIFICATION Spec
INVARIANT
  ChangesAbortTheRun
CHECK_DEADLOCK FALSE
