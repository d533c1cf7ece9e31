------------------------------ MODULE Workspace ------------------------------
(***************************************************************************)
(* lib/executor.mjs, the first half of execute: the source is copied, Git  *)
(* in the copy is made harmless, the commit the copy stands for is derived,*)
(* the approved patch is applied, first to the index and then to the files,*)
(* and all Git metadata is removed.  Any step may throw instead of what is *)
(* described here; that is Throw in Executor.                              *)
(*                                                                         *)
(* The source is whatever somebody hands in.  A content is that of a file, *)
(* "link" for a symbolic link that leads out of the copy, or None.         *)
(***************************************************************************)
CONSTANTS
  Paths,      \* the paths of the source and of the patches
  ParentOf,   \* path -> the path it is below, None at the top
  Unsafe,     \* paths whose name leads out of the copy, into .git or into .northset
  CacheRoot,  \* the path .northset
  Attributes, \* the path .gitattributes
  Contents,   \* contents of a file, "link" among them
  Converted,  \* content -> its bytes when Git converts its line ends, encoding or $Id$
  Sources,    \* what the copy can be: its files and its Git metadata
  Patches,    \* approved patches, as sets of changes of a path
  None

Trees   == [Paths -> Contents \cup {None}]
Changes == [path : Paths, from : Contents \cup {None}, to : Contents \cup {None}]

\* What Git keeps of the files: HEAD, as the objects of the copy have it, the
\* index, the files it hides, and entries that are unmerged or submodules; where
\* .git is, whose configuration, and whether .git/info/attributes converts files.
Copies ==
  [tree : Trees, head : Trees, index : Trees, hidden : SUBSET Paths, attributes : BOOLEAN,
   git : {"own", "absent", "elsewhere", "linked"},
   config : {"plain", "worktree", "filemode", "ours"},
   conflict : {"none", "unmerged", "submodule"}]

ASSUME WorkspaceAssumption ==
  /\ ParentOf \in [Paths -> Paths \cup {None}]
  /\ CacheRoot \in Paths /\ Attributes \in Paths
  /\ Sources \subseteq Copies
  /\ Patches \subseteq SUBSET Changes
  /\ "link" \in Contents
  /\ Converted \in [Contents -> Contents]
  /\ \A content \in Contents : Converted[content] = "link" <=> content = "link"
  /\ None \notin Contents /\ None \notin Patches

VARIABLES
  pc,     \* the await execute is at
  copy,   \* the copy, None before it is made and when it is only compared
  patch,  \* the bytes of the patch, None without one
  named,  \* sourceCommit: the record will name the commit of HEAD
  \* and, for the properties only:
  misbound,  \* the containers got something else than that commit and the patch,
             \* Git's conversions apart
  escaped    \* something outside the copy was changed

workspaceVars == <<copy, patch, named, misbound, escaped>>

Goto(next) == pc' = next

\* Attributes have Git convert files: those the commit brings, and those of
\* .git/info, which no configuration turns off.  Filters need one and are gone.
Converting == copy.attributes \/ copy.tree[Attributes] # None

\* A file that Git takes for what it has stored: the same bytes, or these
\* converted, the sizes in the index being those of the files.  Mode bits are
\* seen unless the repository's own configuration denies it.
SameToGit(content, stored) ==
  \/ content = stored
  \/ Converting /\ stored # None /\ content = Converted[stored]
  \/ copy.config = "filemode" /\ content = "file1+x" /\ stored = "file1"

Tracked == {p \in Paths : copy.index[p] # None}

-----------------------------------------------------------------------------
(* The copy and its Git metadata.                                           *)

\* The directory is there and small enough, and so is the copy of it.
CopySource ==
  /\ pc = "copy"
  /\ \E s \in Sources : copy' = s
  /\ Goto("metadata")
  /\ UNCHANGED <<patch, named, misbound, escaped>>

\* assertSelfContainedGitMetadata: .git is no file and no link.
CheckMetadata ==
  /\ pc = "metadata"
  /\ copy.git # "elsewhere"
  /\ Goto("controls")
  /\ UNCHANGED workspaceVars

\* removeLocalGitControls: no link within .git, and a configuration of our own.
\* The attributes of .git/info stay.
RemoveControls ==
  /\ pc = "controls"
  /\ copy.git # "linked"
  /\ copy' = [copy EXCEPT !.config = "ours"]
  /\ Goto("derive")
  /\ UNCHANGED <<patch, named, misbound, escaped>>

\* git status has nothing to say, untracked and ignored files included.
StatusClean ==
  /\ copy.conflict # "unmerged"
  /\ copy.index = copy.head
  /\ \A p \in Paths \ copy.hidden : SameToGit(copy.tree[p], copy.index[p])

\* Mutant: what the index hides is not looked for.
DeriveFromStatus ==
  /\ pc = "derive"
  /\ named' = (copy.git = "own" /\ copy.config # "worktree" /\ StatusClean)
  /\ Goto("cache")
  /\ UNCHANGED <<copy, patch, misbound, escaped>>

\* deriveSourceCommit: HEAD is named only if it is the copy that Git looks at,
\* the index hides no file from it, and the copy is clean.
DeriveCommit ==
  /\ pc = "derive"
  /\ named' = (/\ copy.git = "own" /\ copy.config # "worktree"
               /\ copy.hidden = {}
               /\ StatusClean)
  /\ Goto("cache")
  /\ UNCHANGED <<copy, patch, misbound, escaped>>

\* prepareWorkspaceCacheRoot: nothing of the source is in the place of ours.
MakeCacheRoot ==
  /\ pc = "cache"
  /\ copy.tree[CacheRoot] = None
  /\ escaped' = (escaped \/ copy.tree[CacheRoot] = "link")
  /\ Goto("patch")
  /\ UNCHANGED <<copy, patch, named, misbound>>

-----------------------------------------------------------------------------
(* The patch.                                                               *)

ReadPatch ==
  /\ pc = "patch"
  /\ \/ Goto("list") /\ UNCHANGED patch
     \/ Goto("refresh") /\ \E p \in Patches : patch' = p
  /\ UNCHANGED <<copy, named, misbound, escaped>>

\* Writes to .git end up elsewhere when it is not a directory of the copy.
EscapesThroughGit == copy.git \in {"elsewhere", "linked"}

\* git update-index --really-refresh; of a hidden file it may say anything.
RefreshIndex ==
  /\ pc = "refresh"
  /\ copy.git # "absent"
  /\ \A p \in Tracked \ copy.hidden : SameToGit(copy.tree[p], copy.index[p])
  /\ escaped' = (escaped \/ EscapesThroughGit)
  /\ Goto("contained")
  /\ UNCHANGED <<copy, patch, named, misbound>>

\* assertPatchPathIsContained, for every path of the patch: its name is safe,
\* and it neither is nor crosses a link.
CheckContained ==
  /\ pc = "contained"
  /\ \A change \in patch :
       /\ change.path \notin Unsafe
       /\ copy.tree[change.path] # "link"
       /\ ParentOf[change.path] # None => copy.tree[ParentOf[change.path]] # "link"
  /\ Goto("index")
  /\ UNCHANGED workspaceVars

Patched(contents) ==
  [p \in Paths |-> IF \E change \in patch : change.path = p
                   THEN (CHOOSE change \in patch : change.path = p).to
                   ELSE contents[p]]

\* What git apply writes under attributes that have it convert.
PatchedConverted(contents) ==
  LET patched == Patched(contents) IN
  [p \in Paths |-> IF patched[p] # None /\ \E change \in patch : change.path = p
                   THEN Converted[patched[p]] ELSE patched[p]]

\* git apply --cached: nothing is written but the index.
ApplyToIndex ==
  /\ pc = "index"
  /\ \A change \in patch : copy.index[change.path] = change.from
  /\ copy' = [copy EXCEPT !.index = Patched(copy.index)]
  /\ Goto("modes")
  /\ UNCHANGED <<patch, named, misbound, escaped>>

\* Mutant: the modes of the patched paths are not looked at.
CheckEntriesOnly ==
  /\ pc = "modes"
  /\ copy.conflict = "none"
  /\ Goto("apply")
  /\ UNCHANGED workspaceVars

\* trackedIndexEntries and rejectPatchedSymlinks: every entry of the index is
\* a merged file or link, and the patch has left no link behind.
CheckModes ==
  /\ pc = "modes"
  /\ copy.conflict = "none"
  /\ \A change \in patch : copy.index[change.path] # "link"
  /\ Goto("apply")
  /\ UNCHANGED workspaceVars

\* Where a change lands when Git follows whatever the patch or the copy has
\* put in its way.
EscapesThroughTree(change) ==
  LET above == ParentOf[change.path] IN
  \/ copy.config = "worktree"
  \/ change.path \in Unsafe
  \/ above # None /\ "link" \in {copy.tree[above], Patched(copy.tree)[above]}

\* git apply to the files.  It goes by the attributes from before the patch, and
\* some conversions only act on what is read.
ApplyToTree ==
  /\ pc = "apply"
  /\ \A change \in patch : SameToGit(copy.tree[change.path], change.from)
  /\ \E written \in {Patched(copy.tree)}
                    \cup IF Converting THEN {PatchedConverted(copy.tree)} ELSE {} :
       copy' = [copy EXCEPT !.tree = written]
  /\ escaped' = (escaped \/ \E change \in patch : EscapesThroughTree(change))
  /\ Goto("approved")
  /\ UNCHANGED <<patch, named, misbound>>

\* trackedFileList without a patch.
ListTracked ==
  /\ pc = "list"
  /\ copy.git = "absent" \/ copy.conflict = "none"
  /\ Goto("approved")
  /\ UNCHANGED workspaceVars

\* The files the containers get are those of HEAD and the patch: byte for byte,
\* unless attributes, of HEAD or of .git/info, had Git convert some.
IsTree(commit) ==
  \A p \in Paths :
    \/ copy.tree[p] = commit[p]
    \/ /\ copy.attributes \/ copy.head[Attributes] # None
       /\ commit[p] # None /\ copy.tree[p] = Converted[commit[p]]

\* The digest of the approved tracked files, and the end of Git in the copy.
\* From here on Executor keeps in which respects the copy differs from what
\* it is now.
ApproveTree ==
  /\ pc = "approved"
  /\ misbound' = (named /\ ~IsTree(IF patch = None THEN copy.head ELSE Patched(copy.head)))
  /\ copy' = None /\ patch' = None /\ named' = FALSE
  /\ Goto("startA")
  /\ UNCHANGED escaped

InitWorkspace ==
  /\ pc = "copy"
  /\ copy = None
  /\ patch = None
  /\ named = FALSE
  /\ misbound = FALSE
  /\ escaped = FALSE

PrepareWorkspace ==
  \/ CopySource \/ CheckMetadata \/ RemoveControls \/ DeriveCommit \/ MakeCacheRoot
  \/ ReadPatch \/ RefreshIndex \/ CheckContained \/ ApplyToIndex \/ CheckModes \/ ApplyToTree
  \/ ListTracked \/ ApproveTree

WorkspaceTypeOK ==
  /\ copy \in Copies \cup {None}
  /\ patch \in Patches \cup {None}
  /\ named \in BOOLEAN /\ misbound \in BOOLEAN /\ escaped \in BOOLEAN
=============================================================================
