---------------------------- MODULE ExecutorProofs ----------------------------
(***************************************************************************)
(* Theorems about Executor, for every number of declared commands, every   *)
(* set of sources and every set of patches.  The invariant says where the  *)
(* containers are: as long as a record can pass, none runs but the one     *)
(* that is waited for, and those the cleanup has come past are gone unless *)
(* their docker rm failed.  What the preparation of the copy preserves     *)
(* comes first: WInv, and the lemmas about the steps of Workspace.         *)
(***************************************************************************)
EXTENDS Executor, TLAPS

-----------------------------------------------------------------------------
(* The copy of the source while it is prepared.                             *)

\* The steps from one on, without a patch and with one.
Patching == {"refresh", "contained", "index", "modes", "apply"}
FromCache    == {"cache", "patch", "list"} \cup Patching
FromDerive   == FromCache \cup {"derive"}
FromControls == FromDerive \cup {"controls", "approved"}
FromMetadata == FromControls \cup {"metadata"}

\* What the patch makes of a path it changes.
Result(p) == (CHOOSE change \in patch : change.path = p).to

\* Git in the copy is a directory of the copy's own, with our configuration.
GitTamed ==
  /\ pc \in FromMetadata => copy \in Copies
  /\ pc \in FromControls => copy.git # "elsewhere"
  /\ pc \in FromDerive \cup {"approved"} => copy.git # "linked" /\ copy.config = "ours"

Contained(change) ==
  /\ change.path \notin Unsafe
  /\ copy.tree[change.path] # "link"
  /\ ParentOf[change.path] # None => copy.tree[ParentOf[change.path]] # "link"

\* What is known of the patch before it is applied to the files.
PatchChecked ==
  /\ pc \in {"copy", "metadata", "controls", "derive", "cache", "patch", "list"} => patch = None
  /\ pc \in Patching => patch \in Patches
  /\ pc \in {"index", "modes", "apply"} => \A change \in patch : Contained(change)
  /\ pc \in {"modes", "apply"} =>
       \A change \in patch : copy.index[change.path] = Result(change.path)
  /\ pc = "apply" => \A change \in patch : Result(change.path) # "link"

\* When HEAD will be named the files are its, and then those of the patch, but
\* for what Git has converted.
NamedIsHead ==
  /\ named /\ pc \in FromCache => IsTree(copy.head)
  /\ named /\ pc = "approved" => IsTree(IF patch = None THEN copy.head ELSE Patched(copy.head))

WInv == WorkspaceTypeOK /\ GitTamed /\ PatchChecked /\ NamedIsHead /\ ~misbound /\ ~escaped

-----------------------------------------------------------------------------
\* The patched contents are contents, those of Result where the patch changes
\* something and the old ones elsewhere.
LEMMA PatchedTree ==
  ASSUME patch \in Patches, NEW t \in Trees
  PROVE  /\ Patched(t) \in Trees
         /\ \A p \in Paths : Patched(t)[p] = IF \E change \in patch : change.path = p
                                              THEN Result(p) ELSE t[p]
<1>1. patch \subseteq Changes
  BY WorkspaceAssumption
<1>2. ASSUME NEW p \in Paths, \E change \in patch : change.path = p
      PROVE  Result(p) \in Contents \cup {None}
  <2>1. (CHOOSE change \in patch : change.path = p) \in patch
    BY <1>2
  <2> QED
    BY <1>1, <2>1 DEF Result, Changes
<1>3. \A p \in Paths : Patched(t)[p] = IF \E change \in patch : change.path = p
                                       THEN Result(p) ELSE t[p]
  BY DEF Patched, Result
<1>4. Patched(t) \in Trees
  BY <1>2 DEF Patched, Result, Trees
<1> QED
  BY <1>3, <1>4

\* Nothing is prepared at first.
LEMMA WorkspaceInit == InitWorkspace => WInv
BY DEF InitWorkspace, WInv, WorkspaceTypeOK, GitTamed, PatchChecked, NamedIsHead,
       FromMetadata, FromControls, FromDerive, FromCache, Patching

-----------------------------------------------------------------------------
(* The steps.                                                               *)

\* The files of a clean copy, none of them hidden, are those of HEAD when the
\* configuration is ours; attributes that convert them are HEAD's or those of
\* .git/info.
LEMMA CleanIsHead ==
  ASSUME copy.config = "ours", copy.hidden = {}, StatusClean
  PROVE  IsTree(copy.head)
<1>1. \A p \in Paths : \/ copy.tree[p] = copy.head[p]
                       \/ Converting /\ copy.head[p] # None /\ copy.tree[p] = Converted[copy.head[p]]
  BY DEF StatusClean, SameToGit
<1>2. Converting => copy.attributes \/ copy.head[Attributes] # None
  BY <1>1, WorkspaceAssumption DEF Converting
<1> QED
  BY <1>1, <1>2 DEF IsTree

\* Steps that change neither the files nor HEAD nor the attributes do not
\* change what the files are those of.
LEMMA SameTree ==
  ASSUME copy'.tree = copy.tree, copy'.head = copy.head, copy'.attributes = copy.attributes,
         IsTree(copy.head)
  PROVE  IsTree(copy.head)'
BY DEF IsTree

\* The copy and its Git metadata.
LEMMA CopyStep ==
  ASSUME WInv, CopySource \/ CheckMetadata \/ RemoveControls
  PROVE  WInv'
<1> USE DEF WInv, WorkspaceTypeOK, GitTamed, PatchChecked, NamedIsHead, Goto,
            FromMetadata, FromControls, FromDerive, FromCache, Patching
<1>1. CASE CopySource
  <2>1. copy' \in Copies
    BY <1>1, WorkspaceAssumption DEF CopySource
  <2> QED
    BY <1>1, <2>1 DEF CopySource
<1>2. CASE CheckMetadata
  BY <1>2 DEF CheckMetadata, workspaceVars
<1>3. CASE RemoveControls
  <2>1. copy' \in Copies /\ copy'.config = "ours" /\ copy'.git = copy.git
    BY <1>3 DEF RemoveControls, Copies
  <2> QED
    BY <1>3, <2>1 DEF RemoveControls
<1> QED
  BY <1>1, <1>2, <1>3

\* The preparation from the derived commit to the list of tracked files.
LEMMA DeriveStep ==
  ASSUME WInv, DeriveCommit \/ MakeCacheRoot \/ ReadPatch \/ RefreshIndex \/ ListTracked
  PROVE  WInv'
<1>1. UNCHANGED <<copy, misbound>>
  BY DEF DeriveCommit, MakeCacheRoot, ReadPatch, RefreshIndex, ListTracked, workspaceVars
<1>2. named' /\ pc' \in FromCache \cup {"approved"} => IsTree(copy.head)
  BY CleanIsHead DEF DeriveCommit, MakeCacheRoot, ReadPatch, RefreshIndex, ListTracked,
     workspaceVars, WInv, GitTamed, NamedIsHead, FromDerive, FromCache, Patching
<1>3. pc' = "approved" => patch' = None
  BY DEF DeriveCommit, MakeCacheRoot, ReadPatch, RefreshIndex, ListTracked, workspaceVars,
     WInv, PatchChecked, Goto
<1>4. NamedIsHead'
  <2>1. named' /\ pc' \in FromCache \cup {"approved"} => IsTree(copy.head)'
    BY <1>1, <1>2, SameTree
  <2>2. pc' = "approved" =>
          IsTree(IF patch = None THEN copy.head ELSE Patched(copy.head))' = IsTree(copy.head)'
    BY <1>3 DEF IsTree
  <2> QED
    BY <2>1, <2>2 DEF NamedIsHead
<1>5. WorkspaceTypeOK' /\ ~misbound' /\ ~escaped'
  <2>1. patch' \in Patches \cup {None} /\ named' \in BOOLEAN
    BY DEF WInv, WorkspaceTypeOK, DeriveCommit, MakeCacheRoot, ReadPatch, RefreshIndex,
           ListTracked, workspaceVars
  <2>2. escaped' = FALSE
    <3>1. CASE RefreshIndex
      BY <3>1 DEF RefreshIndex, EscapesThroughGit, WInv, WorkspaceTypeOK, GitTamed, FromMetadata,
                  FromControls, FromDerive, FromCache, Patching
    <3>2. CASE MakeCacheRoot
      BY <3>2, WorkspaceAssumption DEF MakeCacheRoot, WInv, WorkspaceTypeOK
    <3>3. CASE DeriveCommit \/ ReadPatch \/ ListTracked
      BY <3>3 DEF DeriveCommit, ReadPatch, ListTracked, workspaceVars, WInv, WorkspaceTypeOK
    <3> QED
      BY <3>1, <3>2, <3>3
  <2> QED
    BY <1>1, <2>1, <2>2 DEF WInv, WorkspaceTypeOK
<1>6. GitTamed' /\ PatchChecked'
  BY <1>1 DEF WInv, GitTamed, PatchChecked, FromMetadata, FromControls, FromDerive, FromCache,
     Patching, Goto, DeriveCommit, MakeCacheRoot, ReadPatch, RefreshIndex, ListTracked, workspaceVars
<1> QED
  BY <1>4, <1>5, <1>6 DEF WInv

\* The patch.
LEMMA PatchStep ==
  ASSUME WInv, CheckContained \/ ApplyToIndex \/ CheckModes
  PROVE  WInv'
<1>0. NamedIsHead'
  <2>1. /\ pc \in FromCache /\ pc' \in FromCache /\ named' = named
        /\ copy'.tree = copy.tree /\ copy'.head = copy.head /\ copy'.attributes = copy.attributes
    <3>1. copy \in Copies /\ pc \in FromCache /\ pc' \in FromCache /\ named' = named
      BY DEF WInv, GitTamed, CheckContained, ApplyToIndex, CheckModes, Goto, workspaceVars,
             FromMetadata, FromControls, FromDerive, FromCache, Patching
    <3> QED
      BY <3>1 DEF CheckContained, ApplyToIndex, CheckModes, workspaceVars, Copies
  <2>2. named => IsTree(copy.head)
    BY <2>1 DEF WInv, NamedIsHead
  <2>3. named' => IsTree(copy.head)'
    BY <2>1, <2>2, SameTree
  <2>4. pc' # "approved"
    BY <2>1 DEF FromCache, Patching
  <2> QED
    BY <2>3, <2>4 DEF NamedIsHead
<1> USE DEF WInv, WorkspaceTypeOK, GitTamed, PatchChecked, Goto,
            FromMetadata, FromControls, FromDerive, FromCache, Patching
<1>1. CASE CheckContained
  BY <1>0, <1>1 DEF CheckContained, workspaceVars, Contained
<1>2. CASE ApplyToIndex
  <2> DEFINE index == Patched(copy.index)
  <2>1. patch \in Patches /\ copy \in Copies
    BY <1>2 DEF ApplyToIndex
  <2>2. index \in Trees /\ \A change \in patch : index[change.path] = Result(change.path)
    <3>1. copy.index \in Trees /\ patch \subseteq Changes
      BY <2>1, WorkspaceAssumption DEF Copies
    <3>2. \A change \in patch : change.path \in Paths
      BY <3>1 DEF Changes
    <3> QED
      BY <2>1, <3>1, <3>2, PatchedTree
  <2>3. copy' = [copy EXCEPT !.index = index]
    BY <1>2 DEF ApplyToIndex
  <2>4. /\ copy' \in Copies /\ copy'.index = index
        /\ copy'.tree = copy.tree /\ copy'.head = copy.head
        /\ copy'.git = copy.git /\ copy'.config = copy.config
    <3> HIDE DEF index
    <3> QED
      BY <2>1, <2>2, <2>3 DEF Copies
  <2>5. pc = "index" /\ pc' = "modes" /\ UNCHANGED <<patch, named, misbound, escaped>>
    BY <1>2 DEF ApplyToIndex
  <2>6. PatchChecked'
    <3>1. \A change \in patch' : Contained(change)'
      BY <2>4, <2>5 DEF Contained
    <3>2. \A change \in patch' : copy'.index[change.path] = Result(change.path)'
      BY <2>2, <2>4, <2>5 DEF Result
    <3> QED
      BY <2>1, <2>5, <3>1, <3>2
  <2> QED
    BY <1>0, <2>1, <2>4, <2>5, <2>6
<1>3. CASE CheckModes
  BY <1>0, <1>3 DEF CheckModes, workspaceVars, Contained, Result
<1> QED
  BY <1>1, <1>2, <1>3

\* No change of the patch leaves the copy: its path is safe, and what it is
\* below is no link, neither before the patch nor after it.
LEMMA NoChangeEscapes ==
  ASSUME WInv, pc = "apply", NEW change \in patch
  PROVE  ~EscapesThroughTree(change)
<1> DEFINE above == ParentOf[change.path]
<1>1. /\ patch \in Patches /\ copy \in Copies /\ copy.tree \in Trees
      /\ copy.config = "ours" /\ Contained(change)
      /\ \A c \in patch : Result(c.path) # "link"
  BY DEF WInv, GitTamed, PatchChecked, FromMetadata, FromControls, FromDerive, FromCache,
         Patching, Copies
<1>2. change.path \in Paths
  BY <1>1, WorkspaceAssumption DEF Changes
<1>3. above # None => copy.tree[above] # "link" /\ Patched(copy.tree)[above] # "link"
  <2> SUFFICES ASSUME above # None
               PROVE  copy.tree[above] # "link" /\ Patched(copy.tree)[above] # "link"
    OBVIOUS
  <2>1. above \in Paths
    BY <1>2, WorkspaceAssumption
  <2>2. Patched(copy.tree)[above] = IF \E c \in patch : c.path = above
                                    THEN Result(above) ELSE copy.tree[above]
    BY <1>1, <2>1, PatchedTree
  <2>3. copy.tree[above] # "link"
    BY <1>1 DEF Contained
  <2> QED
    BY <1>1, <2>2, <2>3
<1> QED
  BY <1>1, <1>3 DEF EscapesThroughTree, Contained

\* What git apply writes when it converts are contents, too.
LEMMA ConvertedTree ==
  ASSUME patch \in Patches, NEW t \in Trees
  PROVE  PatchedConverted(t) \in Trees
<1> DEFINE patched == Patched(t)
<1>1. patched \in Trees
  BY PatchedTree
<1> HIDE DEF patched
<1>2. \A p \in Paths : patched[p] # None => Converted[patched[p]] \in Contents
  BY <1>1, WorkspaceAssumption DEF Trees
<1>3. PatchedConverted(t) =
        [p \in Paths |-> IF patched[p] # None /\ \E change \in patch : change.path = p
                         THEN Converted[patched[p]] ELSE patched[p]]
  BY DEF PatchedConverted, patched
<1> QED
  BY <1>1, <1>2, <1>3 DEF Trees

\* When the files are those of HEAD, the patched files are those of HEAD with
\* the patch: attributes that convert are HEAD's or those of .git/info.
LEMMA PatchedIsTree ==
  ASSUME patch \in Patches, copy.tree \in Trees, copy.head \in Trees, IsTree(copy.head),
         NEW tree \in {Patched(copy.tree)}
                     \cup IF Converting THEN {PatchedConverted(copy.tree)} ELSE {},
         NEW p \in Paths
  PROVE  \/ tree[p] = Patched(copy.head)[p]
         \/ /\ copy.attributes \/ copy.head[Attributes] # None
            /\ Patched(copy.head)[p] # None /\ tree[p] = Converted[Patched(copy.head)[p]]
<1> DEFINE inPatch(q) == \E change \in patch : change.path = q
<1>1. /\ Patched(copy.tree)[p] = IF inPatch(p) THEN Result(p) ELSE copy.tree[p]
      /\ Patched(copy.head)[p] = IF inPatch(p) THEN Result(p) ELSE copy.head[p]
  BY PatchedTree
<1>2. Converting => copy.attributes \/ copy.head[Attributes] # None
  BY WorkspaceAssumption DEF Converting, IsTree
<1>3. PatchedConverted(copy.tree)[p] =
        IF Patched(copy.tree)[p] # None /\ inPatch(p)
        THEN Converted[Patched(copy.tree)[p]] ELSE Patched(copy.tree)[p]
  BY DEF PatchedConverted
<1> HIDE DEF inPatch
<1>4. CASE inPatch(p)
  BY <1>1, <1>2, <1>3, <1>4
<1>5. CASE ~inPatch(p)
  BY <1>1, <1>3, <1>5 DEF IsTree
<1> QED
  BY <1>4, <1>5

\* Applying the patch to the tree and approving what it made of it.
LEMMA ApplyStep ==
  ASSUME WInv, ApplyToTree \/ ApproveTree
  PROVE  WInv'
<1>1. CASE ApplyToTree
  <2>1. /\ patch \in Patches /\ patch # None /\ copy \in Copies
        /\ copy.tree \in Trees /\ copy.head \in Trees
        /\ copy.git \notin {"elsewhere", "linked"} /\ copy.config = "ours"
        /\ named => IsTree(copy.head)
    BY <1>1, WorkspaceAssumption DEF ApplyToTree, WInv, GitTamed, PatchChecked, NamedIsHead,
         FromMetadata, FromControls, FromDerive, FromCache, Patching, Copies
  <2>2. PICK tree \in {Patched(copy.tree)}
                    \cup IF Converting THEN {PatchedConverted(copy.tree)} ELSE {} :
          copy' = [copy EXCEPT !.tree = tree]
    BY <1>1 DEF ApplyToTree
  <2>3. /\ pc = "apply" /\ pc' = "approved"
        /\ escaped' = (escaped \/ \E change \in patch : EscapesThroughTree(change))
        /\ UNCHANGED <<patch, named, misbound>>
    BY <1>1 DEF ApplyToTree, Goto
  <2>4. tree \in Trees
    BY <2>1, <2>2, PatchedTree, ConvertedTree
  <2>5. /\ copy' \in Copies /\ copy'.tree = tree /\ copy'.head = copy.head
        /\ copy'.attributes = copy.attributes
        /\ copy'.git = copy.git /\ copy'.config = copy.config
    BY <2>1, <2>2, <2>4 DEF Copies
  <2>6. escaped' = FALSE /\ misbound' = FALSE
    <3>1. ~ \E change \in patch : EscapesThroughTree(change)
      BY <2>3, NoChangeEscapes
    <3>2. ~escaped /\ ~misbound /\ misbound \in BOOLEAN
      BY DEF WInv, WorkspaceTypeOK
    <3>3. escaped' = FALSE
      BY <2>3, <3>1, <3>2, Zenon
    <3> QED
      BY <2>3, <3>2, <3>3
  <2>7. WorkspaceTypeOK'
    BY <2>3, <2>5, <2>6 DEF WInv, WorkspaceTypeOK
  <2>8. GitTamed' /\ PatchChecked'
    BY <2>1, <2>3, <2>5 DEF GitTamed, PatchChecked, FromMetadata, FromControls, FromDerive,
                            FromCache, Patching
  <2>9. NamedIsHead'
    <3> SUFFICES ASSUME named PROVE IsTree(Patched(copy.head))'
      BY <2>1, <2>3 DEF NamedIsHead, FromCache, Patching
    <3>1. \A p \in Paths :
            \/ tree[p] = Patched(copy.head)[p]
            \/ /\ copy.attributes \/ copy.head[Attributes] # None
               /\ Patched(copy.head)[p] # None /\ tree[p] = Converted[Patched(copy.head)[p]]
      BY <2>1, <2>2, PatchedIsTree
    <3>2. Patched(copy.head)' = Patched(copy.head)
      BY <2>3, <2>5 DEF Patched
    <3> QED
      BY <2>5, <3>1, <3>2 DEF IsTree
  <2> QED
    BY <2>6, <2>7, <2>8, <2>9 DEF WInv
<1>2. CASE ApproveTree
  <2>1. misbound' = FALSE
    BY <1>2 DEF ApproveTree, WInv, NamedIsHead, WorkspaceTypeOK
  <2> QED
    BY <1>2, <2>1 DEF ApproveTree, Goto, WInv, WorkspaceTypeOK, GitTamed, PatchChecked,
         NamedIsHead, FromMetadata, FromControls, FromDerive, FromCache, Patching
<1> QED
  BY <1>1, <1>2

\* Every step of the preparation keeps the invariant.
LEMMA WorkspaceStep == WInv /\ PrepareWorkspace => WInv'
BY CopyStep, DeriveStep, PatchStep, ApplyStep DEF PrepareWorkspace

\* So does every step that leaves the copy and the position alone, and one
\* from phase A on.
LEMMA WorkspaceStutter ==
  ASSUME WInv, UNCHANGED <<workspaceVars, pc>>
  PROVE  WInv'
<1>1. NamedIsHead'
  BY DEF WInv, workspaceVars, NamedIsHead, IsTree, Patched
<1> QED
  BY <1>1 DEF WInv, workspaceVars, WorkspaceTypeOK, GitTamed, PatchChecked, Contained, Result

\* Once the copy is made and prepared, only the history variables matter to WInv.
LEMMA WorkspaceOver ==
  ASSUME WInv, pc' \notin FromMetadata \cup {"copy"},
         copy' \in Copies \cup {None}, patch' \in Patches \cup {None}, named' \in BOOLEAN,
         UNCHANGED <<misbound, escaped>>
  PROVE  WInv'
BY DEF WInv, WorkspaceTypeOK, GitTamed, PatchChecked, NamedIsHead, FromMetadata, FromControls,
       FromDerive, FromCache, Patching

-----------------------------------------------------------------------------
(* The invariant of a run.                                                  *)

Waiting  == {"waitA", "wait"}
Cleaning == {"cleanup", "rmTemp", "end"}

\* A call under way is waited for, and a settled one has no client left.
CallInv ==
  /\ pc \notin Waiting => Settled
  /\ Settled => client \notin Running

\* The cleanup has come to rmNext.
CleanupInv ==
  /\ pc \notin Cleaning => rmNext = 0 /\ outcome = "none"
  /\ pc = "cleanup" => \A c \in alive : c < rmNext => c \in spared
  /\ pc \in {"rmTemp", "end"} => alive \subseteq spared

\* The record can still become, or is, one of commands that all exited 0.
AllPassed == \A i \in DOMAIN records : records[i] = "exit0"
Sound == AllPassed /\ (pc \in Cleaning => outcome = "record")

\* Then a container runs only while its call is waited for, and not any more
\* when its client has ended with 0.
AloneInv ==
  Sound =>
    /\ alive \subseteq {call}
    /\ client \in {"starting", "failed", "exit0"} => alive = {}
    /\ pc \notin Waiting => alive = {}
    /\ result = "exit0" => client = "exit0"

\* And every command began on what the manifests describe.
Measured == {"caches", "git", "start", "final", "write"} \cup Cleaning

TreeInv ==
  Sound =>
    /\ tainted = {}
    /\ pc \in Measured => ~Deviates(changed)
    /\ pc = "start" => "git" \notin changed

EInv == TypeOK /\ WInv /\ CallInv /\ CleanupInv /\ AloneInv /\ TreeInv

\* TypeOK without what WInv says.
Typed ==
  /\ DockerTypeOK
  /\ pc \in Steps
  /\ writable \in BOOLEAN
  /\ cmd \in Containers
  /\ changed \subseteq Aspects
  /\ baseline \in BOOLEAN
  /\ records \in Seq({"exit0", "exitN", "timedOut"})
  /\ rmNext \in Containers
  /\ outcome \in {"none", "record", "error", "cleanupError"}
  /\ tainted \subseteq Containers
  /\ spared \subseteq Containers

-----------------------------------------------------------------------------
\* Nothing runs and nothing was recorded at the start.
LEMMA Initially == Init => EInv
<1> SUFFICES ASSUME Init PROVE EInv
  OBVIOUS
<1>1. WInv
  BY WorkspaceInit DEF Init
<1>2. Typed
  <2>1. 0 \in Containers
    BY CommandsAssumption DEF Containers
  <2>2. DockerTypeOK
    BY <2>1 DEF Init, InitDocker, DockerTypeOK, Results
  <2>3. records \in Seq({"exit0", "exitN", "timedOut"}) /\ pc \in Steps
    BY DEF Init, InitWorkspace, Steps
  <2> QED
    BY <2>1, <2>2, <2>3 DEF Init, Typed
<1>3. CallInv /\ CleanupInv /\ AloneInv /\ TreeInv
  BY DEF Init, InitDocker, InitWorkspace, CallInv, CleanupInv, AloneInv, TreeInv, Waiting,
     Cleaning, Settled, Running, Measured
<1> QED
  BY <1>1, <1>2, <1>3 DEF EInv, TypeOK, Typed, WInv

-----------------------------------------------------------------------------
(* The docker client and the daemon, and runDocker.                         *)

\* What both leave alone.
Outside == UNCHANGED execVars

\* A docker client or daemon that goes on by itself leaves the copy, and what is
\* known of the tree, alone.
LEMMA OutsideKeeps ==
  ASSUME EInv, Outside
  PROVE  /\ WInv'
         /\ DockerTypeOK' => Typed'
         /\ TreeInv'
<1>1. WInv'
  BY WorkspaceStutter DEF EInv, Outside, execVars
<1> QED
  BY <1>1 DEF EInv, TypeOK, Outside, execVars, Typed, TreeInv, Sound, AllPassed, Deviates

\* A container starts only while its call is waited for, and when it stops
\* its client goes with it.
LEMMA DaemonStep ==
  ASSUME EInv, Daemon, Outside
  PROVE  EInv'
<1> USE DEF EInv, TypeOK, DockerTypeOK, CallInv, CleanupInv, AloneInv, Sound, AllPassed, Settled,
            Running, Exits, Outside, execVars
<1>1. CASE ContainerStarts
  <2>1. DockerTypeOK' /\ CallInv' /\ CleanupInv' /\ AloneInv'
    BY <1>1 DEF ContainerStarts, Waiting, Cleaning
  <2> QED
    BY <2>1, OutsideKeeps DEF Typed, WInv
<1>2. CASE ClientFails
  <2>1. DockerTypeOK' /\ CallInv' /\ CleanupInv' /\ AloneInv'
    BY <1>2 DEF ClientFails
  <2> QED
    BY <2>1, OutsideKeeps DEF Typed, WInv
<1>3. CASE SignalEndsClient
  <2>1. DockerTypeOK' /\ CallInv' /\ CleanupInv' /\ AloneInv'
    BY <1>3 DEF SignalEndsClient
  <2> QED
    BY <2>1, OutsideKeeps DEF Typed, WInv
<1>4. ASSUME NEW c \in Containers, ContainerExits(c) \/ KillLands(c) \/ KillFails(c)
      PROVE  EInv'
  <2>1. DockerTypeOK' /\ CallInv' /\ CleanupInv' /\ AloneInv'
    BY <1>4 DEF ContainerExits, KillLands, KillFails, Stop
  <2> QED
    BY <2>1, OutsideKeeps DEF Typed, WInv
<1> QED
  BY <1>1, <1>2, <1>3, <1>4 DEF Daemon

\* A step of the supervision of one docker client.
LEMMA RunDockerStep ==
  ASSUME EInv, RunDocker, Outside
  PROVE  EInv'
<1> USE DEF EInv, TypeOK, DockerTypeOK, CallInv, CleanupInv, AloneInv, Sound, AllPassed, Settled,
            Running, Exits, Results, Outside, execVars
<1>1. DockerTypeOK' /\ CallInv' /\ CleanupInv' /\ AloneInv'
  <2>1. CASE TimeoutFires \/ GraceEnds
    <3>1. call \in Containers /\ killing' \subseteq Containers
      BY <2>1 DEF TimeoutFires, GraceEnds, StopContainer
    <3> QED
      BY <2>1, <3>1 DEF TimeoutFires, GraceEnds, StopContainer
  <2>2. CASE MonitorTick \/ MonitorPasses \/ MonitorThrows
    <3>1. /\ checking' \in BOOLEAN /\ monitorError' \in BOOLEAN
          /\ killing' \subseteq killing \cup {call}
          /\ forceKill' \in {forceKill, "armed"}
      BY <2>2 DEF MonitorTick, MonitorPasses, MonitorThrows, StopContainer
    <3>2. UNCHANGED <<call, client, alive, monitored, timeout, result>>
      BY <2>2 DEF MonitorTick, MonitorPasses, MonitorThrows
    <3> QED
      BY <3>1, <3>2
  <2>3. CASE Close
    <3>1. \E r \in {"monitorError"} \cup Exits :
            /\ result' = r /\ (r = "exit0" => client = "exit0")
            /\ timeout' \in {"fired", "off"} /\ forceKill' = "off"
            /\ client \in Exits
            /\ UNCHANGED <<call, client, alive, killing, monitored, checking, monitorError>>
      BY <2>3 DEF Close, Finish
    <3> QED
      BY <3>1
  <2>4. CASE ErrorEvent
    BY <2>4 DEF ErrorEvent, Finish
  <2> QED
    BY <2>1, <2>2, <2>3, <2>4 DEF RunDocker, Timers
<1> QED
  BY <1>1, OutsideKeeps DEF Typed, WInv
-----------------------------------------------------------------------------
(* Containers and the steps of execute.                                     *)

\* A live container that writes: only the one waited for can be alive while the
\* record can pass.
LEMMA WriteStep ==
  ASSUME EInv, NEW c \in Containers, Write(c)
  PROVE  EInv'
<1>1. WInv'
  BY WorkspaceStutter DEF EInv, Write
<1>2. Typed'
  BY DEF EInv, TypeOK, Typed, Write, dockerVars, DockerTypeOK
<1>3. CallInv' /\ CleanupInv' /\ AloneInv'
  BY DEF EInv, Write, dockerVars, CallInv, CleanupInv, AloneInv, Settled, Sound, AllPassed
<1>4. TreeInv'
  <2> SUFFICES ASSUME Sound' PROVE TreeInv'
    BY DEF TreeInv
  <2>1. Sound /\ alive = {c} /\ c = call /\ pc \in Waiting
    BY DEF EInv, AloneInv, Write, dockerVars, Sound, AllPassed
  <2> QED
    BY <2>1 DEF EInv, TreeInv, Write, Measured, Waiting, Cleaning
<1> QED
  BY <1>1, <1>2, <1>3, <1>4 DEF EInv, TypeOK, Typed, WInv
\* The preparation comes before every container.
LEMMA PrepareStep ==
  ASSUME EInv, Prepare
  PROVE  EInv'
<1>1. WInv'
  BY WorkspaceStep DEF EInv, Prepare
<1>2. pc \in FromMetadata \cup {"copy"} /\ pc' \in FromMetadata \cup {"startA"}
  BY DEF Prepare, PrepareWorkspace, CopySource, CheckMetadata, RemoveControls, DeriveCommit,
     MakeCacheRoot, ReadPatch, RefreshIndex, CheckContained, ApplyToIndex, CheckModes,
     ApplyToTree, ListTracked, ApproveTree, Goto, FromMetadata, FromControls, FromDerive,
     FromCache, Patching
<1> USE DEF FromMetadata, FromControls, FromDerive, FromCache, Patching, Prepare, dockerVars
<1>3. Typed'
  BY <1>2 DEF EInv, TypeOK, Typed, DockerTypeOK, Steps
<1>4. CallInv' /\ CleanupInv'
  BY <1>2 DEF EInv, CallInv, CleanupInv, Settled, Waiting, Cleaning
<1>5. AloneInv' /\ TreeInv'
  BY <1>2 DEF EInv, AloneInv, TreeInv, Sound, AllPassed, Waiting, Cleaning, Measured
<1> QED
  BY <1>1, <1>3, <1>4, <1>5 DEF EInv, TypeOK, Typed, WInv

\* After it the copy is left alone, or dropped.
LaterSteps == Steps \ (FromMetadata \cup {"copy"})

\* From phase A on the copy is as it was prepared, or removed.
LEMMA LaterKeepsCopy ==
  ASSUME EInv, pc' \in LaterSteps, UNCHANGED <<misbound, escaped>>,
         UNCHANGED <<copy, patch, named>> \/ (copy' = None /\ patch' = None /\ named' = FALSE)
  PROVE  WInv'
<1>1. copy' \in Copies \cup {None} /\ patch' \in Patches \cup {None} /\ named' \in BOOLEAN
  BY DEF EInv, TypeOK, WorkspaceTypeOK
<1> QED
  BY <1>1, WorkspaceOver DEF LaterSteps, EInv

\* Everything that can throw: the cleanup follows.
LEMMA ThrowStep ==
  ASSUME EInv, StepThrows \/ PhaseAThrows \/ CommandThrows
  PROVE  EInv'
<1>1. Throw /\ pc \notin Cleaning /\ Settled
  BY DEF EInv, CallInv, StepThrows, PhaseAThrows, CommandThrows, Waiting, Cleaning, Settled
<1>2. pc' = "cleanup" /\ outcome' = "error"
  BY <1>1 DEF Throw, Goto
<1>3. WInv'
  <2>1. pc' \in LaterSteps
    BY <1>2 DEF LaterSteps, Steps, FromMetadata, FromControls, FromDerive, FromCache, Patching
  <2> QED
    BY <1>1, <2>1, LaterKeepsCopy DEF Throw
<1>4. Typed'
  BY <1>1, <1>2 DEF Throw, EInv, TypeOK, Typed, DockerTypeOK, dockerVars, Steps
<1>5. CallInv'
  BY <1>1, <1>2 DEF Throw, EInv, CallInv, Settled, dockerVars, Waiting
<1>6. CleanupInv'
  <2>1. rmNext' = 0 /\ alive' \subseteq Containers
    BY <1>1, <1>4 DEF Throw, EInv, CleanupInv, Typed, DockerTypeOK
  <2> QED
    BY <1>2, <2>1 DEF CleanupInv, Cleaning, Containers
<1>7. AloneInv' /\ TreeInv'
  BY <1>2 DEF AloneInv, TreeInv, Sound, Cleaning
<1> QED
  BY <1>3, <1>4, <1>5, <1>6, <1>7 DEF EInv, TypeOK, Typed, WInv

\* A call begins, with the other containers gone if the record can pass.
LEMMA CallStep ==
  ASSUME EInv, StartPhaseA \/ StartCommand
  PROVE  EInv'
<1> USE DEF Proceed, Goto, Call
<1>1. pc \in {"startA", "start"} /\ pc' \in Waiting /\ result' = "none"
  BY DEF StartPhaseA, StartCommand, Waiting
<1>2. WInv'
  <2>1. pc' \in LaterSteps
    BY <1>1 DEF LaterSteps, Waiting, Steps, FromMetadata, FromControls, FromDerive, FromCache,
       Patching
  <2> QED
    BY <2>1, LaterKeepsCopy DEF StartPhaseA, StartCommand, workspaceVars
<1>3. Typed'
  <2>1. call' \in Containers
    BY CommandsAssumption DEF StartPhaseA, StartCommand, EInv, TypeOK, Containers
  <2>2. DockerTypeOK'
    BY <2>1 DEF StartPhaseA, StartCommand, EInv, TypeOK, DockerTypeOK, Results
  <2>3. tainted' \subseteq Containers
    BY DEF StartPhaseA, StartCommand, EInv, TypeOK
  <2> QED
    BY <1>1, <2>2, <2>3 DEF StartPhaseA, StartCommand, EInv, TypeOK, Typed, Steps, Waiting
<1>4. CallInv' /\ CleanupInv'
  BY <1>1 DEF StartPhaseA, StartCommand, EInv, CallInv, CleanupInv, Settled, Waiting, Cleaning
<1>5. AloneInv'
  BY <1>1 DEF StartPhaseA, StartCommand, EInv, AloneInv, Sound, AllPassed, Waiting, Cleaning
<1>6. TreeInv'
  BY <1>1 DEF StartPhaseA, StartCommand, EInv, TreeInv, Sound, AllPassed, Waiting, Cleaning,
     Measured
<1> QED
  BY <1>2, <1>3, <1>4, <1>5, <1>6 DEF EInv, TypeOK, Typed, WInv
\* The steps between the calls move on when all is in order at this moment;
\* some of them remove Git metadata.
Checks ==
  \/ AfterPhaseA
  \/ Assert("sizeA", "cachesA") \/ Assert("cachesA", "gitA") \/ RemoveGit("gitA", "digestA")
  \/ Assert("caches", "git") \/ RemoveGit("git", "start")
  \/ RemoveGit("gitAfter", "cachesAfter") \/ Assert("cachesAfter", "sizeAfter")
  \/ Assert("sizeAfter", "manifest")

\* The checks before and after a command.
LEMMA CheckStep ==
  ASSUME EInv, Checks
  PROVE  EInv'
<1> USE DEF Checks, AfterPhaseA, Assert, RemoveGit, Proceed, Goto
<1>1. /\ pc' \in {"sizeA", "cachesA", "gitA", "digestA", "git", "start", "cachesAfter",
                  "sizeAfter", "manifest"}
      /\ pc \notin Cleaning \cup {"wait"}
      /\ pc = "waitA" => result = "exit0"
      /\ changed' \in {changed, changed \ {"git"}}
      /\ pc' = "start" => pc = "git" /\ "git" \notin changed'
      /\ pc' = "git" => pc = "caches"
      /\ UNCHANGED <<dockerVars, workspaceVars, writable, cmd, baseline, records, rmNext,
                     outcome, tainted, spared>>
  BY DEF Cleaning
<1>2. WInv'
  <2>1. pc' \in LaterSteps
    BY <1>1 DEF LaterSteps, Steps, FromMetadata, FromControls, FromDerive, FromCache, Patching
  <2> QED
    BY <1>1, <2>1, LaterKeepsCopy DEF workspaceVars
<1> HIDE DEF Checks, AfterPhaseA, Assert, RemoveGit, Proceed, Goto
<1>3. Typed'
  BY <1>1 DEF EInv, TypeOK, Typed, DockerTypeOK, dockerVars, Steps
<1>4. CallInv' /\ CleanupInv'
  BY <1>1 DEF EInv, CallInv, CleanupInv, Settled, Waiting, Cleaning, dockerVars
<1>5. AloneInv'
  BY <1>1 DEF EInv, AloneInv, Sound, AllPassed, Waiting, Cleaning, dockerVars
<1>6. TreeInv'
  <2>1. Sound' => Sound
    BY <1>1 DEF Sound, AllPassed, Cleaning
  <2>2. pc' \in Measured => pc \in Measured
    BY <1>1 DEF Measured, Cleaning
  <2>3. Deviates(changed)' => Deviates(changed)
    BY <1>1 DEF Deviates
  <2> QED
    BY <1>1, <2>1, <2>2, <2>3 DEF EInv, TreeInv
<1> QED
  BY <1>2, <1>3, <1>4, <1>5, <1>6 DEF EInv, TypeOK, Typed, WInv

\* The comparisons with the approved files and with the manifest of phase A,
\* and the outputs.
Comparisons == DigestPhaseA \/ Manifest \/ FinalManifest \/ WriteOutputs

\* The comparisons of the tree with its baseline, and the writing of the outputs.
LEMMA ComparisonStep ==
  ASSUME EInv, Comparisons
  PROVE  EInv'
<1> USE DEF Comparisons, DigestPhaseA, Manifest, FinalManifest, WriteOutputs, Proceed, Goto
<1>1. /\ pc \in {"digestA", "manifest", "final", "write"}
      /\ pc' \in {"caches", "final", "write", "cleanup"}
      /\ pc' = "cleanup" <=> pc = "write"
      /\ UNCHANGED <<dockerVars, workspaceVars, writable, changed, records, rmNext, tainted,
                     spared>>
      /\ cmd' \in {1, cmd} \/ (cmd < Commands /\ cmd' = cmd + 1)
      /\ baseline' \in BOOLEAN
      /\ outcome' = IF pc = "write" THEN "record" ELSE outcome
  <2>1. CASE DigestPhaseA
    <3>1. baseline' = ("other" \in changed)
      BY <2>1
    <3> HIDE DEF DigestPhaseA, Comparisons
    <3>2. baseline' \in BOOLEAN
      BY <3>1
    <3> QED
      BY <2>1, <3>2 DEF DigestPhaseA
  <2>2. CASE Manifest
    BY <2>2 DEF EInv, TypeOK
  <2>3. CASE FinalManifest \/ WriteOutputs
    BY <2>3 DEF EInv, TypeOK
  <2> QED
    BY <2>1, <2>2, <2>3
<1>2. Sound => ~Deviates(changed)'
  <2>1. CASE DigestPhaseA
    BY <2>1 DEF Deviates
  <2>2. CASE Manifest \/ FinalManifest
    BY <2>2 DEF Deviates
  <2>3. CASE WriteOutputs
    BY <2>3 DEF EInv, TreeInv, Deviates, Measured
  <2> QED
    BY <2>1, <2>2, <2>3
<1>3. WInv'
  <2>1. pc' \in LaterSteps
    BY <1>1 DEF LaterSteps, Steps, FromMetadata, FromControls, FromDerive, FromCache, Patching
  <2> QED
    BY <1>1, <2>1, LaterKeepsCopy DEF workspaceVars
<1> HIDE DEF Comparisons, DigestPhaseA, Manifest, FinalManifest, WriteOutputs, Proceed, Goto
<1>4. Typed'
  <2>1. cmd' \in Containers
    BY <1>1, CommandsAssumption DEF EInv, TypeOK, Containers
  <2> QED
    BY <1>1, <2>1 DEF EInv, TypeOK, Typed, DockerTypeOK, dockerVars, Steps
<1>5. CallInv'
  BY <1>1 DEF EInv, CallInv, Settled, Waiting, dockerVars
<1>6. CleanupInv'
  <2>1. /\ rmNext' = 0 /\ alive' \subseteq 0..Commands
        /\ pc' # "cleanup" => outcome' = "none"
    BY <1>1 DEF EInv, TypeOK, DockerTypeOK, Containers, CleanupInv, Cleaning, dockerVars
  <2>2. \A c \in alive' : ~(c < rmNext')
    BY <2>1, CommandsAssumption
  <2> QED
    BY <1>1, <2>1, <2>2 DEF CleanupInv, Cleaning
<1>7. Sound' => Sound
  BY <1>1 DEF Sound, AllPassed, Cleaning
<1>8. AloneInv'
  BY <1>1, <1>7 DEF EInv, AloneInv, Waiting, dockerVars
<1>9. TreeInv'
  BY <1>1, <1>2, <1>7 DEF EInv, TreeInv
<1> QED
  BY <1>3, <1>4, <1>5, <1>6, <1>8, <1>9 DEF EInv, TypeOK, Typed, WInv

\* A command is recorded as exit0 only when its client ended so, and then its
\* container is gone.
LEMMA RecordStep ==
  ASSUME EInv, Record
  PROVE  EInv'
<1> DEFINE kind == IF TimedOut THEN "timedOut" ELSE result
<1>1. /\ pc = "wait" /\ pc' = "gitAfter" /\ result \in Exits
      /\ records' = Append(records, kind)
      /\ kind \in {"exit0", "exitN", "timedOut"}
      /\ UNCHANGED <<dockerVars, workspaceVars, writable, cmd, changed, baseline, rmNext,
                     outcome, tainted, spared>>
  BY DEF Record, Proceed, Goto, Exits
<1>2. records \in Seq({"exit0", "exitN", "timedOut"})
  BY DEF EInv, TypeOK
<1>3. AllPassed' => AllPassed /\ result = "exit0"
  <2> SUFFICES ASSUME AllPassed' PROVE AllPassed /\ kind = "exit0"
    OBVIOUS
  <2>1. /\ Len(records') = Len(records) + 1 /\ Len(records) \in Nat
        /\ DOMAIN records = 1..Len(records) /\ DOMAIN records' = 1..(Len(records) + 1)
        /\ \A i \in 1..Len(records) : records'[i] = records[i]
        /\ records'[Len(records) + 1] = kind
    <3> HIDE DEF kind
    <3> QED
      BY <1>1, <1>2
  <2> HIDE DEF kind
  <2> QED
    BY <2>1 DEF AllPassed
<1>4. WInv'
  <2>1. pc' \in LaterSteps
    BY <1>1 DEF LaterSteps, Steps, FromMetadata, FromControls, FromDerive, FromCache, Patching
  <2> QED
    BY <1>1, <2>1, LaterKeepsCopy DEF workspaceVars
<1>5. Typed'
  <2>1. records' \in Seq({"exit0", "exitN", "timedOut"})
    <3> HIDE DEF kind
    <3> QED
      BY <1>1, <1>2
  <2> QED
    BY <1>1, <2>1 DEF EInv, TypeOK, Typed, DockerTypeOK, dockerVars, Steps
<1>6. CallInv' /\ CleanupInv'
  BY <1>1 DEF EInv, CallInv, CleanupInv, Settled, Waiting, Cleaning, dockerVars, Exits
<1>7. Sound' => Sound /\ result = "exit0"
  BY <1>1, <1>3 DEF Sound, Cleaning
<1>8. AloneInv' /\ TreeInv'
  BY <1>1, <1>7 DEF EInv, AloneInv, TreeInv, Waiting, dockerVars, Measured, Cleaning
<1> QED
  BY <1>4, <1>5, <1>6, <1>8 DEF EInv, TypeOK, Typed, WInv

-----------------------------------------------------------------------------
(* The finally block.                                                       *)

\* The container rmNext is gone or spared, and the last one is the last.
LEMMA RemoveStep ==
  ASSUME EInv, NEW failed \in BOOLEAN, RemoveNext(failed)
  PROVE  EInv'
<1>1. /\ pc = "cleanup" /\ pc' \in {"cleanup", "rmTemp"}
      /\ pc' = "cleanup" => rmNext < Commands /\ rmNext' = rmNext + 1
      /\ pc' = "rmTemp" => ~(rmNext < Commands) /\ rmNext' = rmNext
      /\ alive' \subseteq alive /\ spared \subseteq spared'
      /\ spared' \subseteq spared \cup {rmNext}
      /\ rmNext \in alive' => rmNext \in spared'
      /\ UNCHANGED <<call, client, killing, monitored, checking, monitorError, timeout,
                     forceKill, result, workspaceVars, writable, cmd, changed, baseline,
                     records, outcome, tainted>>
  BY DEF RemoveNext
<1>2. rmNext \in 0..Commands /\ alive \subseteq 0..Commands /\ Commands \in Nat
  BY CommandsAssumption DEF EInv, TypeOK, DockerTypeOK, Containers
<1>3. WInv'
  <2>1. pc' \in LaterSteps
    BY <1>1 DEF LaterSteps, Steps, FromMetadata, FromControls, FromDerive, FromCache, Patching
  <2> QED
    BY <1>1, <2>1, LaterKeepsCopy DEF workspaceVars
<1>4. Typed'
  <2>1. rmNext' \in Containers
    BY <1>1, <1>2 DEF Containers
  <2> QED
    BY <1>1, <2>1 DEF EInv, TypeOK, Typed, DockerTypeOK, Steps
<1>5. CallInv'
  BY <1>1 DEF EInv, CallInv, Settled, Waiting
<1>6. CleanupInv'
  <2>1. \A c \in alive' : c < rmNext + 1 => c \in spared'
    BY <1>1, <1>2 DEF EInv, CleanupInv
  <2> QED
    BY <1>1, <1>2, <2>1 DEF CleanupInv, Cleaning
<1>7. AloneInv' /\ TreeInv'
  BY <1>1 DEF EInv, AloneInv, TreeInv, Sound, AllPassed, Waiting, Cleaning, Measured, Deviates
<1> QED
  BY <1>3, <1>4, <1>5, <1>6, <1>7 DEF EInv, TypeOK, Typed, WInv

\* The removal of the temporary directory, the last step of the cleanup.
LEMMA TempStep ==
  ASSUME EInv, RemoveTemp \/ RemoveTempFails
  PROVE  EInv'
<1>1. /\ pc = "rmTemp" /\ pc' = "end"
      /\ outcome' \in {outcome, "cleanupError"}
      /\ UNCHANGED <<dockerVars, workspaceVars, writable, cmd, changed, baseline, records,
                     rmNext, tainted, spared>>
  BY DEF RemoveTemp, RemoveTempFails, Proceed, Goto
<1>2. WInv'
  <2>1. pc' \in LaterSteps
    BY <1>1 DEF LaterSteps, Steps, FromMetadata, FromControls, FromDerive, FromCache, Patching
  <2> QED
    BY <1>1, <2>1, LaterKeepsCopy DEF workspaceVars
<1>3. Typed'
  BY <1>1 DEF EInv, TypeOK, Typed, DockerTypeOK, dockerVars, Steps
<1>4. CallInv' /\ CleanupInv'
  BY <1>1 DEF EInv, CallInv, CleanupInv, Settled, Waiting, Cleaning, dockerVars
<1>5. AloneInv' /\ TreeInv'
  BY <1>1 DEF EInv, AloneInv, TreeInv, Sound, AllPassed, Waiting, Cleaning, Measured, Deviates,
     dockerVars
<1> QED
  BY <1>2, <1>3, <1>4, <1>5 DEF EInv, TypeOK, Typed, WInv

-----------------------------------------------------------------------------
(* The theorems.                                                            *)

\* Every step keeps the invariant: one case per group of actions.
LEMMA NextKeeps == EInv /\ [Next]_vars => EInv'
<1> SUFFICES ASSUME EInv, [Next]_vars PROVE EInv'
  OBVIOUS
<1>1. CASE Execute
  <2>1. CASE Checks
    BY <2>1, CheckStep
  <2>2. CASE Comparisons
    BY <2>2, ComparisonStep
  <2>3. CASE StartPhaseA \/ StartCommand
    BY <2>3, CallStep
  <2>4. CASE StepThrows \/ PhaseAThrows \/ CommandThrows
    BY <2>4, ThrowStep
  <2>5. CASE RemoveContainer
    BY <2>5, RemoveStep DEF RemoveContainer
  <2>6. CASE RemoveTemp \/ RemoveTempFails
    BY <2>6, TempStep
  <2> QED
    BY <1>1, <2>1, <2>2, <2>3, <2>4, <2>5, <2>6, PrepareStep, RecordStep
    DEF Execute, Checks, Comparisons
<1>2. CASE RunDocker /\ UNCHANGED execVars
  BY <1>2, RunDockerStep DEF Outside
<1>3. CASE Daemon /\ UNCHANGED execVars
  BY <1>3, DaemonStep DEF Outside
<1>4. CASE \E c \in Containers : Write(c)
  BY <1>4, WriteStep
<1>5. CASE UNCHANGED vars
  <2>1. WInv'
    BY <1>5, WorkspaceStutter DEF EInv, vars, workspaceVars
  <2> QED
    BY <1>5, <2>1 DEF EInv, vars, TypeOK, WInv, DockerTypeOK, CallInv, CleanupInv, AloneInv,
       TreeInv, Settled, Sound, AllPassed, Deviates
<1> QED
  BY <1>1, <1>2, <1>3, <1>4, <1>5 DEF Next

\* EInv always holds.
LEMMA InvariantHolds == Spec => []EInv
BY Initially, NextKeeps, PTL DEF Spec

\* Every variable keeps its type, whatever containers, clients, timers and
\* the daemon do (runDocker and execute in lib/executor.mjs).
THEOREM TypeCorrect == Spec => []TypeOK
BY InvariantHolds, PTL DEF EInv

\* A record of commands that all exited 0 names no commit but the one whose
\* files, with the patch, the containers got, and every command began and
\* ended on what the manifests describe.
THEOREM PassIsHonest == Spec => []PassingRecordDescribesRun
<1>1. EInv => PassingRecordDescribesRun
  BY DEF EInv, WInv, CleanupInv, TreeInv, Sound, AllPassed, Measured, Cleaning, Passed,
     PassingRecordDescribesRun
<1> QED
  BY <1>1, InvariantHolds, PTL

\* When execute is over no container is left but those whose docker rm failed,
\* and the preparation has written nothing outside the copy, whatever the
\* source and the patch hold.
THEOREM NothingStays == Spec => []NothingIsLeftBehind
<1>1. EInv => NothingIsLeftBehind
  BY DEF EInv, WInv, CleanupInv, NothingIsLeftBehind
<1> QED
  BY <1>1, InvariantHolds, PTL

\* A call that has settled stops nothing any more: its timers are cleared, and
\* a monitor check that comes back late is dropped.  Of execute only the next
\* call of runDocker touches the timers, and that one has not settled.
THEOREM LateChecksAreDropped == Spec => SettledIsQuiet
<1>1. ASSUME Execute, Settled'
      PROVE  UNCHANGED <<killing, forceKill>>
  <2>1. ASSUME NEW c, NEW watch, Call(c, watch)
        PROVE  FALSE
    BY <1>1, <2>1 DEF Call, Settled
  <2>2. CASE StartPhaseA \/ StartCommand
    BY <2>1, <2>2 DEF StartPhaseA, StartCommand
  <2>3. CASE RemoveContainer
    BY <2>3 DEF RemoveContainer, RemoveNext
  <2>4. CASE UNCHANGED dockerVars
    BY <2>4 DEF dockerVars
  <2> QED
    BY <1>1, <2>2, <2>3, <2>4 DEF Execute, Prepare, AfterPhaseA, Assert, RemoveGit, DigestPhaseA,
       Record, Manifest, FinalManifest, WriteOutputs, StepThrows, PhaseAThrows, CommandThrows,
       Throw, RemoveTemp, RemoveTempFails
<1>2. ASSUME RunDocker, Settled
      PROVE  UNCHANGED <<killing, forceKill>>
  BY <1>2 DEF RunDocker, Timers, TimeoutFires, GraceEnds, MonitorTick, MonitorPasses,
     MonitorThrows, Close, ErrorEvent, Finish
<1>3. ASSUME Daemon
      PROVE  killing' \subseteq killing /\ forceKill' = forceKill
  BY <1>3 DEF Daemon, ContainerStarts, ClientFails, SignalEndsClient, ContainerExits,
     KillLands, KillFails
<1>4. ASSUME NEW c \in Containers, Write(c)
      PROVE  UNCHANGED <<killing, forceKill>>
  BY <1>4 DEF Write, dockerVars
<1>5. [Next]_vars =>
        (Settled /\ Settled' /\ call' = call => killing' \subseteq killing /\ forceKill' = forceKill)
  <2> SUFFICES ASSUME [Next]_vars, Settled, Settled'
               PROVE  killing' \subseteq killing /\ forceKill' = forceKill
    OBVIOUS
  <2>1. CASE Next
    BY <2>1, <1>1, <1>2, <1>3, <1>4 DEF Next
  <2>2. CASE UNCHANGED vars
    BY <2>2 DEF vars, dockerVars
  <2> QED
    BY <2>1, <2>2
<1> QED
  BY <1>5, PTL DEF Spec, SettledIsQuiet
=============================================================================
