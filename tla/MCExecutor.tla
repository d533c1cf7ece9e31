------------------------------ MODULE MCExecutor ------------------------------
(***************************************************************************)
(* Sources and patches for Executor.  A source has a tracked file, a name  *)
(* that can be a link with a path below it, a path that is not tracked,    *)
(* attributes, and what Git keeps of them.                                 *)
(***************************************************************************)
EXTENDS Executor, FiniteSets

MCPaths == {"file", "dir", "dir/below", "other", "../out", ".northset", ".gitattributes"}
MCParentOf == [p \in MCPaths |-> IF p = "dir/below" THEN "dir" ELSE None]

MCConverted == [c \in Contents |-> CASE c = "file1" -> "file1/crlf"
                                      [] c = "file2" -> "file2/crlf" [] OTHER -> c]

Files(file, dir, other, northset, attributes) ==
  [p \in MCPaths |-> CASE p = "file" -> file [] p = "dir" -> dir [] p = "other" -> other
                       [] p = ".northset" -> northset [] p = ".gitattributes" -> attributes
                       [] OTHER -> None]

Nothing == Files(None, None, None, None, None)

Source(s, dir) ==
  LET commit == Files("file1", dir, None, None, s.tracked) IN
  [tree |-> Files(s.file, dir, s.other, s.northset, s.tracked), head |-> commit,
   index |-> [commit EXCEPT !["file"] = s.staged], hidden |-> s.hidden, attributes |-> s.info,
   git |-> s.git, config |-> s.config, conflict |-> s.conflict]

Good == [file |-> "file1", other |-> None, northset |-> None, staged |-> "file1", hidden |-> {},
         tracked |-> None, info |-> FALSE,
         git |-> "own", config |-> "plain", conflict |-> "none"]

\* A clean checkout but for two things at most.
Almost ==
  {s \in [file : {"file1", "file1+x", "file1/crlf", "file2"}, other : {None, "file1"}, northset : {None, "link"},
          staged : {"file1", "file2"}, hidden : {{}, {"file"}},
          tracked : {None, "file1"}, info : BOOLEAN, git : {"own", "elsewhere", "linked"},
          config : {"plain", "worktree", "filemode"}, conflict : {"none", "unmerged", "submodule"}] :
     Cardinality({f \in DOMAIN Good : s[f] # Good[f]}) <= 2}

NoRepository(dir) ==
  [tree |-> Files("file1", dir, None, None, None), head |-> Nothing, index |-> Nothing,
   hidden |-> {}, attributes |-> FALSE,
   git |-> "absent", config |-> "plain", conflict |-> "none"]

MCSources == UNION {{NoRepository(dir)} \cup {Source(s, dir) : s \in Almost} : dir \in {None, "link"}}

Change(path, from, to) == [path |-> path, from |-> from, to |-> to]

MCPatches == {
  {Change("file", "file1", "file2")},
  {Change("file", "file1", "link")},
  {Change("file", "file1", "file2"), Change(".gitattributes", "file1", None)},
  {Change("file", "file1", "file2"), Change(".gitattributes", None, "file1")},
  {Change("dir", "link", None)},
  {Change("dir/below", None, "file1")},
  {Change("dir", None, "link"), Change("dir/below", None, "file1")},
  {Change("../out", None, "file1")} }
===============================================================================
