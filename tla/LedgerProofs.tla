----------------------------- MODULE LedgerProofs -----------------------------
(***************************************************************************)
(* Theorems about Ledger, for every set of missions and repositories and   *)
(* any number of builds and edits.  The invariant follows a render through *)
(* its loops: what it has written is of its index, what it has yet to do   *)
(* is in todo, and it removes only what its index does not have.           *)
(***************************************************************************)
EXTENDS Ledger, TLAPS

Writing == {"page", "og", "summary"}
Listing == {"repo", "marker"}
Pruning == {"pruneDir", "pruneOg", "pruneRepo"}

Shown  == current.missions
Hidden == Missions \ Shown

\* The files of a receipt, and a repository page with its marker.
Written(m) == {site.page[m], site.og[m], site.summary[m]} = {current.stamp}
Filed(r)   == site.repo[r] = current.stamp /\ r \in site.marked

\* A build that is about to write has its number, and a render its index.
StampInv ==
  /\ build.busy => built \in Stamps
  /\ step # "idle" => current.stamp \in Stamps /\ outcome = "running"
  /\ step \notin {"idle", "home"} => site.home = current.stamp
  /\ step \notin {"idle", "home", "data"} => site.data = current.stamp

\* The first loop has written what it has passed.
PageInv ==
  /\ step \in Writing =>
       /\ todo \subseteq Shown
       /\ \A m \in Shown \ todo : Written(m) \/ (step # "page" /\ m = item)
  /\ step \in {"og", "summary"} => item \in Shown \ todo /\ site.page[item] = current.stamp
  /\ step = "summary" => site.og[item] = current.stamp
  /\ step \in Listing \cup Pruning => \A m \in Shown : Written(m)

\* So has the second.
RepoInv ==
  /\ step \in Listing =>
       /\ todo \subseteq Groups(Shown)
       /\ \A r \in Groups(Shown) \ todo : Filed(r) \/ (step = "marker" /\ r = item)
  /\ step = "marker" => item \in Groups(Shown) \ todo /\ site.repo[item] = current.stamp
  /\ step \in Pruning => \A r \in Groups(Shown) : Filed(r)

\* The other three remove nothing the index has, and all else.
PruneInv ==
  /\ step \in Pruning => last = Shown
  /\ step \in {"pruneDir", "pruneOg"} => todo \subseteq Hidden
  /\ step = "pruneRepo" => todo \cap Groups(Shown) = {} /\ site.marked \subseteq Groups(Shown) \cup todo
  /\ step \in Pruning => \A m \in Hidden :
       \/ site.page[m] = Nothing /\ site.summary[m] = Nothing
       \/ step = "pruneDir" /\ m \in todo
  /\ step \in {"pruneOg", "pruneRepo"} => \A m \in Hidden :
       \/ site.og[m] = Nothing
       \/ step = "pruneOg" /\ m \in todo

\* A marker is written after its page, and removed with it.
MarkInv ==
  /\ \A r \in site.marked : site.repo[r] # Unrelated
  /\ \A r \in Repos \ site.marked :
       site.repo[r] \in {Nothing, Unrelated} \/ troubled \/ (step = "marker" /\ r = item)

LInv == StampInv /\ PageInv /\ RepoInv /\ PruneInv /\ MarkInv

IInv == TypeOK /\ LInv /\ LastSetSurvives /\ CompleteRenderIsExact

Sites ==
  [home : Contents, data : Contents, page : [Missions -> Contents],
   og : [Missions -> Contents], summary : [Missions -> Contents],
   repo : [Repos -> Contents \cup {Unrelated}], marked : SUBSET Repos]

-----------------------------------------------------------------------------
\* The markers of a file are none of the times an index can have, and differ.
LEMMA Markers ==
  /\ Nothing \notin Stamps /\ Torn \notin Stamps /\ Unrelated \notin Stamps
  /\ Nothing # Torn /\ Nothing # Unrelated /\ Torn # Unrelated
  BY LedgerAssumption DEF Stamps

\* The repositories of some missions are repositories.
LEMMA GroupsType ==
  ASSUME NEW missions \in SUBSET Missions
  PROVE  Groups(missions) \subseteq Repos
  BY LedgerAssumption DEF Groups

\* The type invariant, in two halves, and loop by loop.
Builds == [missions : SUBSET Missions, excluded : SUBSET Missions, skips : BOOLEAN, busy : BOOLEAN]

BuildTypes ==
  /\ store \in [Missions -> [bundle : {0} \cup Digests, publication : {0} \cup Digests]]
  /\ index \in Indexes
  /\ build \in Builds
  /\ built \in 0..MaxBuilds /\ edits \in 0..MaxEdits

OfMissions == {"page", "og", "summary", "pruneDir", "pruneOg"}
OfRepos    == {"repo", "marker", "pruneRepo"}
OfNone     == {"idle", "home", "data", "start"}

RenderTypes ==
  /\ site \in Sites
  /\ current \in Indexes
  /\ step \in OfMissions \cup OfRepos \cup OfNone
  /\ item \in Missions \cup Repos \cup {Nothing}
  /\ step \in OfMissions => todo \subseteq Missions
  /\ step \in OfRepos => todo \subseteq Repos
  /\ step \in OfNone => todo = {}
  /\ outcome \in {"none", "running", "ok", "error"}
  /\ last \subseteq Missions
  /\ troubled \in BOOLEAN

\* The type invariant, apart for build and render.
LEMMA TypesSplit == TypeOK <=> BuildTypes /\ RenderTypes
<1> DEFINE Loop == CASE step \in {"page", "og", "summary", "pruneDir", "pruneOg"} -> Missions
                     [] step \in {"repo", "marker", "pruneRepo"} -> Repos
                     [] OTHER -> {}
<1>1. /\ step \in OfMissions => Loop = Missions
      /\ step \in OfRepos => Loop = Repos
      /\ step \in OfNone => Loop = {}
  <2>1. CASE step \in OfMissions
    BY <2>1 DEF OfMissions, OfRepos, OfNone
  <2>2. CASE step \in OfRepos
    BY <2>2 DEF OfMissions, OfRepos, OfNone
  <2>3. CASE step \in OfNone
    BY <2>3 DEF OfMissions, OfRepos, OfNone
  <2> QED
    BY <2>1, <2>2, <2>3
<1>2. TypeOK <=>
        /\ BuildTypes
        /\ site \in Sites /\ current \in Indexes
        /\ step \in OfMissions \cup OfRepos \cup OfNone
        /\ item \in Missions \cup Repos \cup {Nothing}
        /\ todo \subseteq Loop
        /\ outcome \in {"none", "running", "ok", "error"}
        /\ last \subseteq Missions
        /\ troubled \in BOOLEAN
  BY DEF TypeOK, BuildTypes, Sites, OfMissions, OfRepos, OfNone, Builds
<1> HIDE DEF Loop
<1> QED
  BY <1>1, <1>2 DEF RenderTypes

\* At the start nothing was built or rendered.
LEMMA InitHolds == Init => IInv
<1> SUFFICES ASSUME Init PROVE IInv
  OBVIOUS
<1>1. site \in Sites /\ site.marked = {} /\ \A r \in Repos : site.repo[r] \in {Nothing, Unrelated}
  BY DEF Init, Sites, Contents
<1>2. BuildTypes
  <2>1. store \in [Missions -> [bundle : {0} \cup Digests, publication : {0} \cup Digests]]
    BY LedgerAssumption DEF Init, Digests
  <2>2. index \in Indexes /\ build \in Builds
    BY DEF Init, Absent, Indexes, Idle, Builds
  <2> QED
    BY <2>1, <2>2, LedgerAssumption DEF Init, BuildTypes
<1>3. RenderTypes
  <2>1. current \in Indexes
    BY DEF Init, Absent, Indexes
  <2> QED
    BY <1>1, <2>1 DEF Init, RenderTypes, OfMissions, OfRepos, OfNone
<1>4. StampInv /\ PageInv /\ RepoInv /\ PruneInv
  BY DEF Init, Idle, StampInv, PageInv, RepoInv, PruneInv, Writing, Listing, Pruning
<1>5. MarkInv
  BY <1>1 DEF Init, MarkInv
<1> QED
  BY <1>2, <1>3, <1>4, <1>5, TypesSplit
     DEF Init, IInv, LInv, LastSetSurvives, CompleteRenderIsExact, Groups

-----------------------------------------------------------------------------
(* Builds leave the site alone.                                             *)

Building == BuildTypes /\ (build.busy => built \in Stamps)

\* A build leaves the variables of rendering alone.
LEMMA BuildKeepsTypes ==
  ASSUME Building, Build
  PROVE  Building' /\ UNCHANGED renderVars
<1>1. ASSUME NEW m \in Missions, EditMission(m)
      PROVE  Building' /\ UNCHANGED renderVars
  <2>1. edits' \in 0..MaxEdits /\ edits' + 1 \in Digests
    BY <1>1, LedgerAssumption DEF EditMission, Building, BuildTypes, Digests
  <2>2. \E s \in [bundle : {0} \cup Digests, publication : {0} \cup Digests] :
          store' = [store EXCEPT ![m] = s]
    BY <1>1, <2>1 DEF EditMission, Building, BuildTypes, Empty
  <2> QED
    BY <1>1, <2>1, <2>2 DEF EditMission, Building, BuildTypes
<1>2. ASSUME NEW skips \in BOOLEAN, NEW excluded \in SUBSET Missions, StartBuild(skips, excluded)
      PROVE  Building' /\ UNCHANGED renderVars
  <2>1. Included(excluded) \subseteq Missions
    BY DEF Included, Found
  <2>2. built' \in 0..MaxBuilds /\ built' \in Stamps
    BY <1>2, LedgerAssumption DEF StartBuild, Building, BuildTypes, Stamps
  <2> QED
    BY <1>2, <2>1, <2>2 DEF StartBuild, Building, BuildTypes, Builds
<1>3. ASSUME WriteIndex \/ WriteIndexFails
      PROVE  Building' /\ UNCHANGED renderVars
  <2>1. index' \in Indexes
    <3>1. ASSUME NEW x \in Stamps \cup {Nothing, Torn}, NEW y \in SUBSET Missions
          PROVE  [stamp |-> x, missions |-> y] \in Indexes
      BY DEF Indexes
    <3>2. CASE WriteIndex
      BY <3>1, <3>2 DEF WriteIndex, Building, BuildTypes, Builds
    <3>3. CASE WriteIndexFails
      BY <3>1, <3>3 DEF WriteIndexFails, Building, BuildTypes
    <3> QED
      BY <1>3, <3>2, <3>3
  <2>2. Idle \in Builds /\ ~Idle.busy
    BY DEF Idle, Builds
  <2>3. build' = Idle /\ UNCHANGED <<store, built, edits, renderVars>>
    BY <1>3 DEF WriteIndex, WriteIndexFails
  <2> QED
    BY <2>1, <2>2, <2>3 DEF Building, BuildTypes
<1>4. \A excluded \in {{}} \cup {{m} : m \in Missions} : excluded \in SUBSET Missions
  OBVIOUS
<1> QED
  BY <1>1, <1>2, <1>3, <1>4 DEF Build

\* A build step keeps the invariant: a render reads the index only once.
LEMMA BuildStep ==
  ASSUME IInv, Build
  PROVE  IInv'
<1>1. Building' /\ UNCHANGED renderVars
  BY BuildKeepsTypes, TypesSplit DEF IInv, LInv, StampInv, Building
<1>2. BuildTypes' /\ RenderTypes'
  BY <1>1, TypesSplit DEF IInv, Building, RenderTypes, renderVars
<1>3. LInv'
  BY <1>1 DEF IInv, LInv, StampInv, PageInv, RepoInv, PruneInv, MarkInv, Shown, Hidden, Written,
     Filed, Building, renderVars
<1>4. LastSetSurvives' /\ CompleteRenderIsExact'
  BY <1>1 DEF IInv, LastSetSurvives, CompleteRenderIsExact, renderVars
<1>5. TypeOK'
  BY <1>2, TypesSplit, PTL
<1> QED
  BY <1>3, <1>4, <1>5 DEF IInv

-----------------------------------------------------------------------------
(* One render.                                                              *)

\* What the steps of a render leave alone.
Apart == UNCHANGED <<buildVars, current, outcome, last, troubled>>

\* A step inside a render decides nothing about its end, and changes nothing of the
\* build.
LEMMA Apartness ==
  ASSUME IInv, Apart, step # "idle", step' # "idle"
  PROVE  BuildTypes' /\ outcome' = "running" /\ CompleteRenderIsExact'
  BY TypesSplit DEF IInv, LInv, StampInv, Apart, buildVars, BuildTypes, CompleteRenderIsExact

\* A render begins: its loops have all before them.
LEMMA ReadStep ==
  ASSUME IInv, ReadIndex
  PROVE  IInv'
<1>1. /\ step = "idle" /\ step' = "home" /\ current' = index /\ index.stamp \in Stamps
      /\ outcome' = "running"
      /\ UNCHANGED <<buildVars, site, item, todo, last, troubled>>
  BY DEF ReadIndex
<1>2. BuildTypes' /\ RenderTypes'
  BY <1>1, TypesSplit DEF IInv, BuildTypes, RenderTypes, OfMissions, OfRepos, OfNone, buildVars
<1>3. TypeOK'
  BY <1>2, TypesSplit, PTL
<1>4. StampInv' /\ PageInv' /\ RepoInv' /\ PruneInv' /\ MarkInv'
  BY <1>1 DEF IInv, LInv, StampInv, PageInv, RepoInv, PruneInv, MarkInv, Writing, Listing, Pruning,
     buildVars
<1>5. LastSetSurvives' /\ CompleteRenderIsExact'
  BY <1>1 DEF IInv, LastSetSurvives, CompleteRenderIsExact
<1> QED
  BY <1>3, <1>4, <1>5 DEF IInv, LInv

\* The home page and the data files, which no loop covers.
LEMMA HomeStep ==
  ASSUME IInv, WriteHome \/ WriteData
  PROVE  IInv'
<1>1. /\ \/ step = "home" /\ step' = "data" /\ site'.home = current.stamp
         \/ step = "data" /\ step' = "start" /\ site'.home = site.home /\ site'.data = current.stamp
      /\ site' \in Sites
      /\ site'.page = site.page /\ site'.og = site.og /\ site'.summary = site.summary
      /\ site'.repo = site.repo /\ site'.marked = site.marked
      /\ Apart /\ UNCHANGED <<item, todo>>
  BY TypesSplit DEF IInv, LInv, StampInv, RenderTypes, Sites, Contents, WriteHome, WriteData, Apart
<1>2. BuildTypes' /\ RenderTypes' /\ CompleteRenderIsExact'
  BY <1>1, TypesSplit, Apartness
     DEF IInv, RenderTypes, OfMissions, OfRepos, OfNone, Apart
<1>3. TypeOK'
  BY <1>2, TypesSplit, PTL
<1>4. StampInv' /\ PageInv' /\ RepoInv' /\ PruneInv' /\ MarkInv'
  BY <1>1 DEF IInv, LInv, StampInv, PageInv, RepoInv, PruneInv, MarkInv, Writing, Listing, Pruning,
     Apart, buildVars
<1>5. LastSetSurvives'
  BY <1>1 DEF IInv, LastSetSurvives, Apart
<1> QED
  BY <1>2, <1>3, <1>4, <1>5 DEF IInv, LInv

\* What the three files of a receipt do to the site.
LEMMA PageStep ==
  ASSUME IInv, WritePage \/ WriteOg \/ WriteSummary
  PROVE  IInv'
<1>1. PICK m \in Shown :
        /\ \/ step = "page" /\ step' = "og" /\ m \in todo /\ todo' = todo \ {m} /\ item' = m
              /\ site' = [site EXCEPT !.page[m] = current.stamp]
           \/ step = "og" /\ step' = "summary" /\ m = item /\ UNCHANGED <<todo, item>>
              /\ site' = [site EXCEPT !.og[m] = current.stamp]
           \/ step = "summary" /\ step' = "page" /\ m = item /\ todo' = todo /\ item' = Nothing
              /\ site' = [site EXCEPT !.summary[m] = current.stamp]
        /\ Apart
  BY DEF WritePage, WriteOg, WriteSummary, Apart, IInv, LInv, PageInv, Writing
<1>2. current.stamp \in Contents /\ current.stamp \in Stamps /\ m \in Missions /\ site \in Sites
      /\ Shown \subseteq Missions /\ m \in Missions \cup Repos \cup {Nothing}
  BY <1>1, TypesSplit DEF IInv, LInv, StampInv, RenderTypes, Contents, Indexes, Shown
<1>3. /\ site' \in Sites
      /\ site'.home = site.home /\ site'.data = site.data
      /\ site'.repo = site.repo /\ site'.marked = site.marked
      /\ \A k \in Missions : site'.page[k] \in {site.page[k], current.stamp}
                           /\ site'.og[k] \in {site.og[k], current.stamp}
                           /\ site'.summary[k] \in {site.summary[k], current.stamp}
      /\ step = "page" => site'.page[m] = current.stamp
      /\ step = "og" => site'.og[m] = current.stamp
      /\ step = "summary" => site'.summary[m] = current.stamp
  BY <1>1, <1>2 DEF Sites
<1>4. BuildTypes' /\ RenderTypes' /\ CompleteRenderIsExact'
  BY <1>1, <1>2, <1>3, TypesSplit, Apartness
     DEF IInv, RenderTypes, OfMissions, OfRepos, OfNone, Apart
<1>5. TypeOK'
  BY <1>4, TypesSplit, PTL
<1>6. StampInv' /\ RepoInv' /\ PruneInv'
  BY <1>1, <1>3 DEF IInv, LInv, StampInv, RepoInv, PruneInv, Listing, Pruning, Apart, buildVars
<1>7. MarkInv'
  BY <1>1, <1>3 DEF IInv, LInv, MarkInv, Apart
<1>8. PageInv'
  <2>1. \A k \in Shown : Written(k) => Written(k)'
    BY <1>1, <1>2, <1>3 DEF Written, Apart
  <2>2. Shown' = Shown /\ step \in Writing /\ step' \in Writing
    BY <1>1 DEF Shown, Apart, Writing
  <2>3. todo \subseteq Shown /\ todo' \subseteq Shown
    BY <1>1, <2>2 DEF IInv, LInv, PageInv
  <2>4. step = "summary" => Written(m)'
    BY <1>1, <1>2, <1>3 DEF IInv, LInv, PageInv, Written, Apart
  <2>5. step' \in {"og", "summary"} => m = item' /\ m \notin todo' /\ site'.page[m] = current.stamp
    BY <1>1, <1>2, <1>3 DEF IInv, LInv, PageInv
  <2>6. step' = "summary" => site'.og[m] = current.stamp
    BY <1>1, <1>3
  <2>7. \A k \in Shown \ todo' : Written(k)' \/ (step' # "page" /\ k = item')
    BY <1>1, <2>1, <2>2, <2>3, <2>4 DEF IInv, LInv, PageInv
  <2> QED
    BY <1>1, <2>2, <2>3, <2>5, <2>6, <2>7 DEF PageInv, Apart, Writing, Listing, Pruning
<1>9. LastSetSurvives'
  <2>1. Nothing # current.stamp /\ last \subseteq Missions
    BY <1>2, Markers, TypesSplit DEF IInv, RenderTypes
  <2> QED
    BY <1>1, <1>3, <2>1 DEF IInv, LastSetSurvives, Apart
<1> QED
  BY <1>4, <1>5, <1>6, <1>7, <1>8, <1>9 DEF IInv, LInv

\* A repository page, or the marker of one that was just written.
LEMMA RepoStep ==
  ASSUME IInv, WriteRepo \/ WriteMarker
  PROVE  IInv'
<1>1. PICK r \in Groups(Shown) :
        /\ \/ step = "repo" /\ step' = "marker" /\ r \in todo /\ todo' = todo \ {r} /\ item' = r
              /\ site' = [site EXCEPT !.repo[r] = current.stamp]
           \/ step = "marker" /\ step' = "repo" /\ r = item /\ todo' = todo /\ item' = Nothing
              /\ site' = [site EXCEPT !.marked = @ \cup {r}]
        /\ Apart
  BY DEF WriteRepo, WriteMarker, Apart, IInv, LInv, RepoInv, Listing
<1>2. current.stamp \in Contents /\ current.stamp \in Stamps /\ r \in Repos /\ site \in Sites
      /\ Groups(Shown) \subseteq Repos /\ Shown \subseteq Missions
  BY <1>1, GroupsType, TypesSplit DEF IInv, LInv, StampInv, RenderTypes, Contents, Indexes, Shown
<1>3. /\ site' \in Sites
      /\ site'.home = site.home /\ site'.data = site.data
      /\ site'.page = site.page /\ site'.og = site.og /\ site'.summary = site.summary
      /\ \A k \in Repos \ {r} : site'.repo[k] = site.repo[k]
      /\ site'.repo[r] = (IF step = "repo" THEN current.stamp ELSE site.repo[r])
      /\ site'.marked = (IF step = "repo" THEN site.marked ELSE site.marked \cup {r})
  BY <1>1, <1>2 DEF Sites
<1>4. BuildTypes' /\ RenderTypes' /\ CompleteRenderIsExact'
  BY <1>1, <1>2, <1>3, TypesSplit, Apartness
     DEF IInv, RenderTypes, OfMissions, OfRepos, OfNone, Apart
<1>5. TypeOK'
  BY <1>4, TypesSplit, PTL
<1>6. StampInv' /\ PruneInv'
  BY <1>1, <1>3 DEF IInv, LInv, StampInv, PruneInv, Pruning, Apart, buildVars
<1>7. PageInv'
  <2>1. Shown' = Shown /\ \A k \in Shown : Written(k)' = Written(k)
    BY <1>1, <1>3 DEF Shown, Written, Apart
  <2> QED
    BY <1>1, <2>1 DEF IInv, LInv, PageInv, Writing, Listing, Pruning
<1>8. RepoInv' /\ MarkInv'
  <2>1. \A k \in Repos : Filed(k) => Filed(k)'
    BY <1>1, <1>2, <1>3 DEF Filed, Apart
  <2>2. Groups(Shown)' = Groups(Shown) /\ step \in Listing /\ step' \in Listing
    BY <1>1 DEF Shown, Groups, Apart, Listing
  <2>3. todo \subseteq Groups(Shown) /\ todo' \subseteq Groups(Shown)
    BY <1>1, <2>2 DEF IInv, LInv, RepoInv
  <2>4. site.repo[r] = current.stamp \/ step = "repo"
    BY <1>1 DEF IInv, LInv, RepoInv
  <2>5. site'.repo[r] = current.stamp
    BY <1>3, <2>4
  <2>6. step = "marker" => Filed(r)'
    BY <1>1, <1>3, <2>5 DEF Filed, Apart
  <2>7. step' = "marker" => r = item' /\ r \notin todo'
    BY <1>1
  <2>8. \A k \in Groups(Shown) \ todo' : Filed(k)' \/ (step' = "marker" /\ k = item')
    BY <1>1, <1>2, <2>1, <2>2, <2>3, <2>6 DEF IInv, LInv, RepoInv
  <2>9. RepoInv'
    BY <1>1, <2>2, <2>3, <2>5, <2>7, <2>8 DEF RepoInv, Apart, Pruning, Listing
  <2>10. current.stamp # Unrelated
    BY <1>2, Markers
  <2>11. MarkInv'
    <3>1. site'.marked \subseteq site.marked \cup {r} /\ troubled' = troubled
      BY <1>1, <1>3 DEF Apart
    <3>2. \A k \in site'.marked : site'.repo[k] # Unrelated
      BY <1>2, <1>3, <2>5, <2>10, <3>1 DEF IInv, LInv, MarkInv, Sites
    <3>3. ASSUME NEW k \in Repos \ site'.marked
          PROVE  \/ site'.repo[k] \in {Nothing, Unrelated}
                 \/ troubled \/ (step' = "marker" /\ k = item')
      <4>1. k = r => step' = "marker" /\ k = item'
        BY <1>1, <1>3
      <4>2. k # r => site'.repo[k] = site.repo[k] /\ k \notin site.marked
                    /\ ~(step = "marker" /\ k = item)
        BY <1>1, <1>3
      <4> QED
        BY <4>1, <4>2 DEF IInv, LInv, MarkInv
    <3> QED
      BY <3>1, <3>2, <3>3 DEF MarkInv
  <2> QED
    BY <2>9, <2>11
<1>9. LastSetSurvives'
  <2>1. Nothing # current.stamp /\ Groups(last) \subseteq Repos
    BY <1>2, Markers, TypesSplit, GroupsType DEF IInv, RenderTypes
  <2> QED
    BY <1>1, <1>3, <2>1 DEF IInv, LastSetSurvives, Apart
<1> QED
  BY <1>4, <1>5, <1>6, <1>7, <1>8, <1>9 DEF IInv, LInv

\* A removal begins when everything the index has is there.
LEMMA LoopStep ==
  ASSUME IInv, NextLoop
  PROVE  IInv'
<1>1. /\ todo = {} /\ todo' = Work(step')
      /\ \/ step = "start" /\ step' = "page"
         \/ step = "page" /\ step' = "repo"
         \/ step = "repo" /\ step' = "pruneDir"
         \/ step = "pruneDir" /\ step' = "pruneOg"
         \/ step = "pruneOg" /\ step' = "pruneRepo"
      /\ last' = IF step' = "pruneDir" THEN Shown ELSE last
      /\ UNCHANGED <<buildVars, site, item, current, outcome, troubled>>
  BY DEF NextLoop, After, Shown
<1>2. Shown' = Shown /\ Shown \subseteq Missions /\ Groups(Shown) \subseteq Repos /\ site \in Sites
      /\ Groups(Shown)' = Groups(Shown) /\ Hidden' = Hidden
  BY <1>1, GroupsType, TypesSplit DEF IInv, RenderTypes, Indexes, Shown, Hidden, Groups
<1>3. /\ step' = "page" => todo' = Shown
      /\ step' = "repo" => todo' = Groups(Shown)
      /\ step' = "pruneDir" =>
           todo' = {m \in Missions : site.page[m] # Nothing \/ site.summary[m] # Nothing} \ Shown
      /\ step' = "pruneOg" => todo' = {m \in Missions : site.og[m] # Nothing} \ Shown
      /\ step' = "pruneRepo" =>
           todo' = ({r \in Repos : site.repo[r] # Nothing} \cup site.marked) \ Groups(Shown)
  <2>1. /\ DOMAIN site.page = Missions /\ DOMAIN site.summary = Missions
        /\ DOMAIN site.og = Missions /\ DOMAIN site.repo = Repos
    BY <1>2 DEF Sites
  <2>2. CASE step' = "page"
    BY <1>1, <2>2 DEF Work, Shown
  <2>3. CASE step' = "repo"
    BY <1>1, <2>3 DEF Work, Shown
  <2>4. CASE step' = "pruneDir"
    BY <1>1, <2>1, <2>4 DEF Work, Present, Shown
  <2>5. CASE step' = "pruneOg"
    BY <1>1, <2>1, <2>5 DEF Work, Present, Shown
  <2>6. CASE step' = "pruneRepo"
    BY <1>1, <2>1, <2>6 DEF Work, Present, Shown
  <2> QED
    BY <1>1, <2>2, <2>3, <2>4, <2>5, <2>6
<1>4. BuildTypes' /\ RenderTypes'
  BY <1>1, <1>2, <1>3, TypesSplit
     DEF IInv, BuildTypes, RenderTypes, OfMissions, OfRepos, OfNone, buildVars, Sites
<1>5. TypeOK'
  BY <1>4, TypesSplit, PTL
<1>6. StampInv' /\ CompleteRenderIsExact'
  BY <1>1 DEF IInv, LInv, StampInv, CompleteRenderIsExact, buildVars
<1>7. PageInv'
  <2>1. \A m \in Shown : Written(m)' = Written(m)
    BY <1>1 DEF Written
  <2> QED
    BY <1>1, <1>2, <1>3, <2>1 DEF IInv, LInv, PageInv, Writing, Listing, Pruning
<1>8. RepoInv' /\ MarkInv'
  <2>1. \A r \in Repos : Filed(r)' = Filed(r)
    BY <1>1 DEF Filed
  <2> QED
    BY <1>1, <1>2, <1>3, <2>1 DEF IInv, LInv, RepoInv, MarkInv, Listing, Pruning
<1>9. PruneInv'
  <2>1. site' = site /\ (step' \in Pruning => last' = Shown)
    BY <1>1 DEF IInv, LInv, PruneInv, Pruning
  <2> QED
    BY <1>1, <1>2, <1>3, <2>1 DEF IInv, LInv, PruneInv, Pruning, Hidden, Sites
<1>10. LastSetSurvives'
  <2>1. CASE step' = "pruneDir"
    <3>1. last' = Shown /\ step = "repo" /\ todo = {} /\ current.stamp # Nothing
      BY <1>1, <2>1, Markers DEF IInv, LInv, StampInv
    <3>2. \A m \in Shown : Written(m)
      BY <3>1 DEF IInv, LInv, PageInv, Listing
    <3>3. \A r \in Groups(Shown) : Filed(r)
      BY <3>1 DEF IInv, LInv, RepoInv, Listing
    <3> QED
      BY <1>1, <3>1, <3>2, <3>3 DEF LastSetSurvives, Written, Filed, Groups
  <2>2. CASE step' # "pruneDir"
    BY <1>1, <2>2 DEF IInv, LastSetSurvives
  <2> QED
    BY <2>1, <2>2
<1> QED
  BY <1>5, <1>6, <1>7, <1>8, <1>9, <1>10 DEF IInv, LInv

\* A render ends: all five loops are over, and what they say together is that the
\* site is exact.
LEMMA FinishStep ==
  ASSUME IInv, Finish
  PROVE  IInv'
<1>1. /\ step = "pruneRepo" /\ step' = "idle" /\ todo = {} /\ todo' = {} /\ outcome' = "ok"
      /\ UNCHANGED <<buildVars, site, item, current, last, troubled>>
  BY DEF Finish
<1>2. BuildTypes' /\ RenderTypes'
  BY <1>1, TypesSplit DEF IInv, BuildTypes, RenderTypes, OfMissions, OfRepos, OfNone, buildVars
<1>3. TypeOK'
  BY <1>2, TypesSplit, PTL
<1>4. StampInv' /\ PageInv' /\ RepoInv' /\ PruneInv' /\ MarkInv'
  BY <1>1 DEF IInv, LInv, StampInv, PageInv, RepoInv, PruneInv, MarkInv, Writing, Listing, Pruning,
     buildVars
<1>5. LastSetSurvives'
  BY <1>1 DEF IInv, LastSetSurvives
<1>6. CompleteRenderIsExact'
  <2>1. site.home = current.stamp /\ site.data = current.stamp
    BY <1>1 DEF IInv, LInv, StampInv
  <2>2. ASSUME NEW m \in Missions
        PROVE  {site.page[m], site.og[m], site.summary[m]} =
                 {IF m \in Shown THEN current.stamp ELSE Nothing}
    <3>1. CASE m \in Shown
      BY <1>1, <3>1 DEF IInv, LInv, PageInv, Pruning, Written
    <3>2. CASE m \notin Shown
      BY <1>1, <3>2 DEF IInv, LInv, PruneInv, Pruning, Hidden
    <3> QED
      BY <3>1, <3>2
  <2>3. site.marked = Groups(Shown) /\ \A r \in Groups(Shown) : site.repo[r] = current.stamp
    BY <1>1 DEF IInv, LInv, PruneInv, RepoInv, Pruning, Filed
  <2>4. \A r \in Repos \ site.marked : site.repo[r] \in {Nothing, Unrelated} \/ troubled
    BY <1>1 DEF IInv, LInv, MarkInv
  <2> QED
    BY <1>1, <2>1, <2>2, <2>3, <2>4 DEF CompleteRenderIsExact, Shown, Groups
<1> QED
  BY <1>3, <1>4, <1>5, <1>6 DEF IInv, LInv

\* What a removal takes belongs to no receipt of the index.
LEMMA PruneMissionStep ==
  ASSUME IInv, PruneDir \/ PruneOg
  PROVE  IInv'
<1>1. PICK m \in Hidden :
        /\ m \in todo /\ todo' = todo \ {m}
        /\ \/ step = "pruneDir" /\ site' = [site EXCEPT !.page[m] = Nothing, !.summary[m] = Nothing]
           \/ step = "pruneOg" /\ site' = [site EXCEPT !.og[m] = Nothing]
        /\ Apart /\ UNCHANGED <<step, item>>
  BY DEF PruneDir, PruneOg, Apart, IInv, LInv, PruneInv
<1>2. m \in Missions /\ m \notin Shown /\ site \in Sites /\ Shown \subseteq Missions
  BY TypesSplit DEF Hidden, Shown, Indexes, IInv, RenderTypes
<1>3. /\ site' \in Sites
      /\ site'.home = site.home /\ site'.data = site.data
      /\ site'.repo = site.repo /\ site'.marked = site.marked
      /\ \A k \in Missions \ {m} : site'.page[k] = site.page[k] /\ site'.og[k] = site.og[k]
                                 /\ site'.summary[k] = site.summary[k]
      /\ site'.page[m] \in {site.page[m], Nothing} /\ site'.summary[m] \in {site.summary[m], Nothing}
      /\ step = "pruneDir" => site'.page[m] = Nothing /\ site'.summary[m] = Nothing
      /\ step = "pruneOg" => site'.og[m] = Nothing
  <2>1. CASE step = "pruneDir"
    <3>1. site' = [site EXCEPT !.page = [site.page EXCEPT ![m] = Nothing],
                               !.summary = [site.summary EXCEPT ![m] = Nothing]]
      BY <1>1, <2>1
    <3> QED
      BY <1>2, <2>1, <3>1 DEF Sites, Contents
  <2>2. CASE step = "pruneOg"
    BY <1>1, <1>2, <2>2 DEF Sites, Contents
  <2> QED
    BY <1>1, <2>1, <2>2
<1>4. BuildTypes' /\ RenderTypes' /\ CompleteRenderIsExact'
  BY <1>1, <1>3, TypesSplit, Apartness DEF IInv, RenderTypes, OfMissions, OfRepos, OfNone, Apart
<1>5. TypeOK'
  BY <1>4, TypesSplit, PTL
<1>6. StampInv' /\ MarkInv'
  BY <1>1, <1>3 DEF IInv, LInv, StampInv, MarkInv, Apart, buildVars
<1>7. PageInv' /\ RepoInv'
  <2>1. Shown' = Shown /\ Groups(Shown)' = Groups(Shown) /\ step' = step /\ step \in Pruning
    BY <1>1 DEF Shown, Groups, Apart, Pruning
  <2>2. \A k \in Shown : Written(k)' = Written(k)
    BY <1>1, <1>2, <1>3 DEF Written, Apart
  <2>3. \A r \in Repos : Filed(r)' = Filed(r)
    BY <1>1, <1>3 DEF Filed, Apart
  <2>4. Groups(Shown) \subseteq Repos
    BY <1>2, GroupsType
  <2> QED
    BY <2>1, <2>2, <2>3, <2>4 DEF IInv, LInv, PageInv, RepoInv, Writing, Listing, Pruning
<1>8. PruneInv'
  <2>1. Hidden' = Hidden /\ Shown' = Shown /\ last' = last
    BY <1>1 DEF Hidden, Shown, Apart
  <2> QED
    BY <1>1, <1>2, <1>3, <2>1 DEF IInv, LInv, PruneInv, Pruning, Hidden
<1>9. LastSetSurvives'
  <2>1. last = Shown
    BY <1>1 DEF IInv, LInv, PruneInv, Pruning
  <2> QED
    BY <1>1, <1>2, <1>3, <2>1 DEF IInv, LastSetSurvives, Apart
<1> QED
  BY <1>4, <1>5, <1>6, <1>7, <1>8, <1>9 DEF IInv, LInv

\* A repository page that goes is not of the index, and was made by the generator.
LEMMA PruneRepoStep ==
  ASSUME IInv, PruneRepo
  PROVE  IInv'
<1>1. PICK r \in todo :
        /\ step = "pruneRepo" /\ todo' = todo \ {r}
        /\ site' = IF r \in site.marked
                   THEN [site EXCEPT !.repo[r] = Nothing, !.marked = @ \ {r}]
                   ELSE site
        /\ Apart /\ UNCHANGED <<step, item>>
  BY DEF PruneRepo, Removable, Apart
<1>2. r \in Repos /\ r \notin Groups(Shown) /\ site \in Sites /\ Shown \subseteq Missions
  BY <1>1, TypesSplit DEF Shown, Indexes, IInv, LInv, PruneInv, RenderTypes, OfRepos
<1>3. /\ site' \in Sites
      /\ site'.home = site.home /\ site'.data = site.data
      /\ site'.page = site.page /\ site'.og = site.og /\ site'.summary = site.summary
      /\ \A k \in Repos \ {r} : site'.repo[k] = site.repo[k]
      /\ site'.marked = site.marked \ {r}
      /\ site'.repo[r] = IF r \in site.marked THEN Nothing ELSE site.repo[r]
  BY <1>1, <1>2 DEF Sites, Contents
<1>4. BuildTypes' /\ RenderTypes' /\ CompleteRenderIsExact'
  BY <1>1, <1>3, TypesSplit, Apartness DEF IInv, RenderTypes, OfMissions, OfRepos, OfNone, Apart
<1>5. TypeOK'
  BY <1>4, TypesSplit, PTL
<1>6. StampInv' /\ MarkInv'
  BY <1>1, <1>2, <1>3 DEF IInv, LInv, StampInv, MarkInv, Apart, buildVars
<1>7. PageInv' /\ RepoInv'
  <2>1. Shown' = Shown /\ Groups(Shown)' = Groups(Shown) /\ step' = step /\ step \in Pruning
    BY <1>1 DEF Shown, Groups, Apart, Pruning
  <2>2. \A k \in Shown : Written(k)' = Written(k)
    BY <1>1, <1>3 DEF Written, Apart
  <2>3. \A k \in Groups(Shown) : Filed(k) => Filed(k)'
    BY <1>1, <1>2, <1>3, GroupsType DEF Filed, Apart
  <2> QED
    BY <2>1, <2>2, <2>3 DEF IInv, LInv, PageInv, RepoInv, Writing, Listing, Pruning
<1>8. PruneInv'
  <2>1. Hidden' = Hidden /\ Shown' = Shown /\ last' = last /\ Groups(Shown)' = Groups(Shown)
    BY <1>1 DEF Hidden, Shown, Groups, Apart
  <2> QED
    BY <1>1, <1>2, <1>3, <2>1 DEF IInv, LInv, PruneInv, Pruning
<1>9. LastSetSurvives'
  <2>1. last = Shown
    BY <1>1 DEF IInv, LInv, PruneInv, Pruning
  <2> QED
    BY <1>1, <1>2, <1>3, <2>1, GroupsType DEF IInv, LastSetSurvives, Apart
<1> QED
  BY <1>4, <1>5, <1>6, <1>7, <1>8, <1>9 DEF IInv, LInv

\* What a write or removal that is cut short can do to the site.
HalfDone ==
  /\ site' \in Sites
  /\ \A m \in Missions :
       /\ site'.page[m] \in {site.page[m], Torn} \/ (step = "pruneDir" /\ m \in todo)
       /\ site'.og[m] \in {site.og[m], Torn}
       /\ site'.summary[m] \in {site.summary[m], Torn} \/ (step = "pruneDir" /\ m \in todo)
  /\ \A r \in Repos :
       \/ site'.repo[r] = site.repo[r]
       \/ site'.repo[r] = Torn /\ step = "repo" /\ r \in todo
       \/ site'.repo[r] = Nothing /\ step = "pruneRepo" /\ r \in todo \cap site.marked
  /\ site'.marked \subseteq site.marked

\* What a render that stops can leave of the file it is at.
LEMMA HalfwayTells ==
  ASSUME IInv, site' \in {site} \cup Halfway
  PROVE  HalfDone
<1>1. site \in Sites /\ Torn \in Contents /\ Nothing \in Contents
  BY TypesSplit DEF IInv, RenderTypes, Contents
<1>2. /\ step \in OfMissions => todo \subseteq Missions
      /\ step \in OfRepos => todo \subseteq Repos
      /\ step \in {"og", "summary"} => item \in Missions
  <2>1. Shown \subseteq Missions
    BY TypesSplit DEF IInv, RenderTypes, Indexes, Shown
  <2> QED
    BY <2>1, TypesSplit DEF IInv, RenderTypes, LInv, PageInv
<1>3. CASE site' = site
  BY <1>1, <1>3 DEF HalfDone
<1>4. CASE step \in {"home", "data"} /\ site' \in Halfway
  <2>1. site' = [site EXCEPT !.home = Torn] \/ site' = [site EXCEPT !.data = Torn]
    BY <1>4 DEF Halfway
  <2> QED
    BY <1>1, <2>1 DEF HalfDone, Sites
<1>5. CASE step = "page" /\ site' \in Halfway
  <2>1. PICK m \in todo : site' = [site EXCEPT !.page[m] = Torn]
    BY <1>5 DEF Halfway
  <2> QED
    BY <1>1, <1>2, <1>5, <2>1 DEF HalfDone, Sites, OfMissions
<1>6. CASE step = "og" /\ site' \in Halfway
  <2>1. site' = [site EXCEPT !.og[item] = Torn]
    BY <1>6 DEF Halfway
  <2> QED
    BY <1>1, <1>2, <1>6, <2>1 DEF HalfDone, Sites
<1>7. CASE step = "summary" /\ site' \in Halfway
  <2>1. site' = [site EXCEPT !.summary[item] = Torn]
    BY <1>7 DEF Halfway
  <2> QED
    BY <1>1, <1>2, <1>7, <2>1 DEF HalfDone, Sites
<1>8. CASE step = "repo" /\ site' \in Halfway
  <2>1. PICK r \in todo : site' = [site EXCEPT !.repo[r] = Torn]
    BY <1>8 DEF Halfway
  <2> QED
    BY <1>1, <1>2, <1>8, <2>1 DEF HalfDone, Sites, OfRepos
<1>9. CASE step = "marker" /\ site' \in Halfway
  <2>1. site' = [site EXCEPT !.marked = @ \ {item}]
    BY <1>9 DEF Halfway
  <2> QED
    BY <1>1, <2>1 DEF HalfDone, Sites
<1>10. CASE step = "pruneDir" /\ site' \in Halfway
  <2>1. PICK m \in todo :
          site' = [site EXCEPT !.page[m] = Nothing] \/ site' = [site EXCEPT !.summary[m] = Nothing]
    BY <1>10 DEF Halfway
  <2> QED
    BY <1>1, <1>2, <1>10, <2>1 DEF HalfDone, Sites, OfMissions
<1>11. CASE step = "pruneRepo" /\ site' \in Halfway
  <2>1. \/ \E r \in todo \cap site.marked : site' = [site EXCEPT !.repo[r] = Nothing]
        \/ \E r \in todo : site' = [site EXCEPT !.marked = @ \ {r}]
    BY <1>11 DEF Halfway
  <2>2. CASE \E r \in todo \cap site.marked : site' = [site EXCEPT !.repo[r] = Nothing]
    BY <1>1, <1>2, <1>11, <2>2 DEF HalfDone, Sites, OfRepos
  <2>3. CASE \E r \in todo : site' = [site EXCEPT !.marked = @ \ {r}]
    BY <1>1, <1>11, <2>3 DEF HalfDone, Sites
  <2> QED
    BY <2>1, <2>2, <2>3
<1>12. CASE step \in {"idle", "start", "pruneOg"} /\ site' \in Halfway
  <2>1. Halfway = {}
    BY <1>12 DEF Halfway
  <2> QED
    BY <1>12, <2>1
<1>13. step \in OfMissions \cup OfRepos \cup OfNone
  BY TypesSplit DEF IInv, RenderTypes
<1> QED
  BY <1>3, <1>4, <1>5, <1>6, <1>7, <1>8, <1>9, <1>10, <1>11, <1>12, <1>13
     DEF OfMissions, OfRepos, OfNone

\* A render that is cut short has torn a file or removed a hidden one.
LEMMA StopStep ==
  ASSUME IInv, RenderStops
  PROVE  IInv'
<1>1. /\ step # "idle" /\ step' = "idle" /\ todo' = {} /\ item' = Nothing /\ current' = Absent
      /\ outcome' = "error" /\ troubled' = TRUE
      /\ UNCHANGED <<buildVars, last>>
  BY DEF RenderStops
<1>2. HalfDone
  BY HalfwayTells DEF RenderStops
<1>3. BuildTypes' /\ RenderTypes'
  <2>1. Absent \in Indexes
    BY DEF Absent, Indexes
  <2> QED
    BY <1>1, <1>2, <2>1, TypesSplit
       DEF IInv, BuildTypes, RenderTypes, OfMissions, OfRepos, OfNone, HalfDone, buildVars
<1>4. TypeOK'
  BY <1>3, TypesSplit, PTL
<1>5. StampInv' /\ PageInv' /\ RepoInv' /\ PruneInv' /\ CompleteRenderIsExact'
  BY <1>1 DEF IInv, LInv, StampInv, PageInv, RepoInv, PruneInv, Writing, Listing, Pruning, buildVars,
     CompleteRenderIsExact
<1>6. MarkInv'
  <2>1. ASSUME NEW r \in site'.marked
        PROVE  site'.repo[r] # Unrelated
    <3>1. r \in Repos
      BY <1>2 DEF HalfDone, Sites
    <3>2. site.repo[r] # Unrelated
      BY <1>2, Markers DEF HalfDone, IInv, LInv, MarkInv
    <3> QED
      BY <1>2, <3>1, <3>2, Markers DEF HalfDone
  <2> QED
    BY <1>1, <2>1 DEF MarkInv
<1>7. LastSetSurvives'
  <2>1. last \subseteq Missions /\ Groups(last) \subseteq Repos
    BY TypesSplit, GroupsType DEF IInv, RenderTypes
  <2>2. step = "pruneDir" => todo \cap last = {}
    BY DEF IInv, LInv, PruneInv, Pruning, Hidden
  <2>3. step = "pruneRepo" => todo \cap Groups(last) = {}
    BY DEF IInv, LInv, PruneInv, Pruning
  <2>4. \A m \in last : Nothing \notin {site'.page[m], site'.og[m], site'.summary[m]}
    BY <1>2, <2>1, <2>2, Markers DEF HalfDone, IInv, LastSetSurvives
  <2>5. \A r \in Groups(last) : site'.repo[r] # Nothing
    BY <1>2, <2>1, <2>3, Markers DEF HalfDone, IInv, LastSetSurvives
  <2> QED
    BY <1>1, <2>4, <2>5 DEF LastSetSurvives, Groups
<1> QED
  BY <1>4, <1>5, <1>6, <1>7 DEF IInv, LInv

\* Every step keeps the invariant: one case per action.
LEMMA StepHolds ==
  ASSUME IInv, [Next]_vars
  PROVE  IInv'
<1>1. CASE UNCHANGED vars
  <2>1. UNCHANGED <<store, index, build, built, edits>> /\ UNCHANGED renderVars
    BY <1>1 DEF vars, buildVars
  <2>2. TypeOK'
    BY <2>1 DEF IInv, TypeOK, renderVars
  <2>3. LInv'
    BY <2>1 DEF IInv, LInv, StampInv, PageInv, RepoInv, PruneInv, MarkInv, Shown, Hidden, Written,
       Filed, renderVars
  <2>4. LastSetSurvives' /\ CompleteRenderIsExact'
    BY <2>1 DEF IInv, LastSetSurvives, CompleteRenderIsExact, renderVars
  <2> QED
    BY <2>2, <2>3, <2>4 DEF IInv
<1> QED
  BY <1>1, BuildStep, ReadStep, HomeStep, PageStep, RepoStep, LoopStep, FinishStep,
     PruneMissionStep, PruneRepoStep, StopStep DEF Next, Render

\* IInv always holds.
LEMMA Invariance == Spec => []IInv
  BY InitHolds, StepHolds, PTL DEF Spec

-----------------------------------------------------------------------------
\* Every variable keeps its type, for all missions, repositories and builds.
THEOREM TypeCorrect == Spec => []TypeOK
<1>1. IInv => TypeOK
  BY DEF IInv
<1> QED
  BY <1>1, Invariance, PTL

\* However often renders are cut short, and whatever later builds leave out:
\* every file of the last complete set of receipts is still there.
THEOREM LastSetIsNotLost == Spec => []LastSetSurvives
<1>1. IInv => LastSetSurvives
  BY DEF IInv
<1> QED
  BY <1>1, Invariance, PTL

\* A render that ends well has left exactly the files of its index, whatever
\* earlier ones left half done.
THEOREM EndedRenderIsExact == Spec => []CompleteRenderIsExact
<1>1. IInv => CompleteRenderIsExact
  BY DEF IInv
<1> QED
  BY <1>1, Invariance, PTL

\* A repository page somebody else put there goes only for a receipt of that
\* repository.
THEOREM OthersPagesStay == Spec => UnrelatedStays
<1> DEFINE Stays == \A r \in Repos :
             site.repo[r] = Unrelated /\ site'.repo[r] # Unrelated => r \in Groups(current.missions)
<1>1. IInv /\ [Next]_vars => Stays
  <2> SUFFICES ASSUME IInv, [Next]_vars, NEW r \in Repos,
                      site.repo[r] = Unrelated, site'.repo[r] # Unrelated
               PROVE  r \in Groups(Shown)
    BY DEF Shown
  <2>1. site \in Sites /\ r \notin site.marked
    BY TypesSplit DEF IInv, LInv, MarkInv, RenderTypes
  <2>2. CASE RenderStops
    BY <2>1, <2>2, HalfwayTells DEF RenderStops, HalfDone, IInv, LInv, RepoInv, Listing
  <2>3. CASE WriteRepo
    BY <2>1, <2>3 DEF WriteRepo, Sites, IInv, LInv, RepoInv, Listing
  <2>4. CASE PruneRepo
    BY <2>1, <2>4 DEF PruneRepo, Removable, Sites
  <2>5. CASE WriteHome \/ WriteData \/ WritePage \/ WriteOg \/ WriteSummary \/ WriteMarker
             \/ PruneDir \/ PruneOg
    BY <2>1, <2>5 DEF WriteHome, WriteData, WritePage, WriteOg, WriteSummary, WriteMarker, PruneDir,
       PruneOg, Sites
  <2>6. CASE site' = site
    BY <2>6
  <2> QED
    BY <2>2, <2>3, <2>4, <2>5, <2>6
       DEF Next, Build, Render, EditMission, StartBuild, WriteIndex, WriteIndexFails, ReadIndex,
           NextLoop, Finish, vars, renderVars
<1> QED
  BY <1>1, Invariance, PTL DEF Spec, UnrelatedStays
===============================================================================
