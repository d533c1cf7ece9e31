-------------------------------- MODULE Ledger --------------------------------
(***************************************************************************)
(* lib/ledger.mjs on the command line: buildLedger turns the missions      *)
(* directory into an index, renderLedger writes the site of an index file  *)
(* by file, over the site of an earlier one, and then removes what is no   *)
(* longer in it.  Either may fail, or be killed, at any file.              *)
(*                                                                         *)
(* A generated file is represented by the generated_at of its index, and   *)
(* every index has one.  A mission's directory is the digest of its bundle *)
(* (mission.json, run record, manifest and patch, all valid and of one run)*)
(* and the digest its publication names.  The missions directory is not    *)
(* edited while a build reads it.                                          *)
(***************************************************************************)
EXTENDS Naturals

CONSTANTS
  Missions,     \* mission ids
  Rehearsals,   \* those of the repository's own, which get no repository page
  Repos,        \* target repositories
  RepoOf,       \* the repository of a mission
  Nothing,      \* no such file
  Torn,         \* a file whose writing was cut short
  Unrelated,    \* a repository page that was not generated
  MaxBuilds,    \* bound on the indexes built
  MaxEdits      \* bound on the edits of the missions directory

ASSUME LedgerAssumption ==
  /\ Rehearsals \subseteq Missions
  /\ RepoOf \in [Missions -> Repos]
  /\ MaxBuilds \in Nat /\ MaxEdits \in Nat
  /\ Nothing \notin Nat /\ Torn \notin Nat /\ Unrelated \notin Nat
  /\ Nothing # Torn /\ Nothing # Unrelated /\ Torn # Unrelated

VARIABLES
  store,     \* what each mission's directory holds: the digest of its bundle and
             \* the one its publication.json names
  index,     \* missions/index.json
  build,     \* the build that is about to write
  built,     \* how many indexes were built
  edits,     \* how often a mission was edited
  site,      \* the generated files
  step,      \* the file renderLedger writes or removes next
  item,      \* whose it is
  todo,      \* the rest of its loop
  current,   \* the index it read
  outcome,   \* how it ended
  last,      \* history: missions whose pages were last written completely
  troubled   \* history: a render was cut short

buildVars  == <<store, index, build, built, edits>>
renderVars == <<site, step, item, todo, current, outcome, last, troubled>>
vars == <<buildVars, renderVars>>

Stamps  == 1..MaxBuilds
Digests == 1..MaxEdits + 1
Empty   == [bundle |-> 0, publication |-> 0]
Indexes == [stamp : Stamps \cup {Nothing, Torn}, missions : SUBSET Missions]
Absent  == [stamp |-> Nothing, missions |-> {}]
Idle    == [missions |-> {}, excluded |-> {}, skips |-> FALSE, busy |-> FALSE]
Contents == Stamps \cup {Nothing, Torn}

\* Repository pages exist for repositories with a receipt from outside.
Groups(missions) == {RepoOf[m] : m \in missions \ Rehearsals}

-----------------------------------------------------------------------------
(* The missions directory and its index.                                    *)

\* A mission is executed, for the first time or anew, gets its publication,
\* loses its bundle, or goes.
EditMission(m) ==
  /\ edits < MaxEdits /\ ~build.busy
  /\ edits' = edits + 1
  /\ \/ store' = [store EXCEPT ![m].bundle = edits' + 1]
     \/ /\ store[m].bundle \notin {0, store[m].publication}
        /\ store' = [store EXCEPT ![m].publication = store[m].bundle]
     \/ store[m].bundle # 0 /\ store' = [store EXCEPT ![m].bundle = 0]
     \/ store[m] # Empty /\ store' = [store EXCEPT ![m] = Empty]
  /\ UNCHANGED <<index, build, built, renderVars>>

Found(excluded) == {m \in Missions : store[m] # Empty} \ excluded

\* publicationFor: there is a publication, and it is valid.
ValidPublication(m) == store[m].publication # 0

\* buildReceiptViewModel: the bundle is valid and the one the publication names.
HasReceipt(m) == store[m].bundle # 0 /\ store[m].publication = store[m].bundle

Included(excluded) == {m \in Found(excluded) : ValidPublication(m) /\ HasReceipt(m)}

\* Unless skips are allowed, one mission without a valid receipt or
\* publication stops the build before anything is written.
StartBuild(skips, excluded) ==
  /\ ~build.busy /\ built < MaxBuilds
  /\ skips \/ Included(excluded) = Found(excluded)
  /\ build' = [missions |-> Included(excluded),
               excluded |-> excluded, skips |-> skips, busy |-> TRUE]
  /\ built' = built + 1
  /\ UNCHANGED <<store, index, edits, renderVars>>

WriteIndex ==
  /\ build.busy
  /\ index' = [stamp |-> built, missions |-> build.missions]
  /\ build' = Idle
  /\ UNCHANGED <<store, built, edits, renderVars>>

\* The index is written in place.
WriteIndexFails ==
  /\ build.busy
  /\ index' \in {index, [stamp |-> Torn, missions |-> {}]}
  /\ build' = Idle
  /\ UNCHANGED <<store, built, edits, renderVars>>

-----------------------------------------------------------------------------
(* renderLedger.                                                            *)

Present(files) == {k \in DOMAIN files : files[k] # Nothing}

\* Mutant: the last loop is a copy of the one before it.
WorkCopied(s) ==
  CASE s = "page"      -> current.missions
    [] s = "repo"      -> Groups(current.missions)
    [] s = "pruneDir"  -> (Present(site.page) \cup Present(site.summary)) \ current.missions
    [] s = "pruneOg"   -> Present(site.og) \ current.missions
    [] s = "pruneRepo" -> Present(site.og) \ Groups(current.missions)

\* What a loop goes over: an index, or the directory as it is when it begins.
Work(s) ==
  CASE s = "page"      -> current.missions
    [] s = "repo"      -> Groups(current.missions)
    [] s = "pruneDir"  -> (Present(site.page) \cup Present(site.summary)) \ current.missions
    [] s = "pruneOg"   -> Present(site.og) \ current.missions
    [] s = "pruneRepo" -> (Present(site.repo) \cup site.marked) \ Groups(current.missions)

\* Mutant: what is stale goes first.
AfterStaleFirst == [start |-> "pruneDir", pruneDir |-> "page", page |-> "repo",
                    repo |-> "pruneOg", pruneOg |-> "pruneRepo", pruneRepo |-> "finish"]

\* The loops follow one another; removal begins when everything is written.
After == [start |-> "page", page |-> "repo", repo |-> "pruneDir", pruneDir |-> "pruneOg",
          pruneOg |-> "pruneRepo", pruneRepo |-> "finish"]

\* An index that is missing, cannot be parsed or has no time stops it before
\* it writes.
ReadIndex ==
  /\ step = "idle"
  /\ index.stamp \in Stamps
  /\ current' = index
  /\ step' = "home"
  /\ outcome' = "running"
  /\ UNCHANGED <<buildVars, site, item, todo, last, troubled>>

WriteHome ==
  /\ step = "home"
  /\ site' = [site EXCEPT !.home = current.stamp]
  /\ step' = "data"
  /\ UNCHANGED <<buildVars, item, todo, current, outcome, last, troubled>>

WriteData ==
  /\ step = "data"
  /\ site' = [site EXCEPT !.data = current.stamp]
  /\ step' = "start"
  /\ UNCHANGED <<buildVars, item, todo, current, outcome, last, troubled>>

\* One loop is over and the next one begins.
NextLoop ==
  /\ step \in {"start", "page", "repo", "pruneDir", "pruneOg"} /\ todo = {}
  /\ step' = After[step]
  /\ todo' = Work(step')
  /\ last' = IF After[step] = "pruneDir" THEN current.missions ELSE last
  /\ UNCHANGED <<buildVars, site, item, current, outcome, troubled>>

Finish ==
  /\ step = "pruneRepo" /\ todo = {}
  /\ step' = "idle"
  /\ outcome' = "ok"
  /\ UNCHANGED <<buildVars, site, item, todo, current, last, troubled>>

\* The three files of a receipt, in their order.
WritePage ==
  /\ step = "page"
  /\ \E m \in todo : item' = m /\ site' = [site EXCEPT !.page[m] = current.stamp]
  /\ todo' = todo \ {item'}
  /\ step' = "og"
  /\ UNCHANGED <<buildVars, current, outcome, last, troubled>>

WriteOg ==
  /\ step = "og"
  /\ site' = [site EXCEPT !.og[item] = current.stamp]
  /\ step' = "summary"
  /\ UNCHANGED <<buildVars, item, todo, current, outcome, last, troubled>>

WriteSummary ==
  /\ step = "summary"
  /\ site' = [site EXCEPT !.summary[item] = current.stamp]
  /\ step' = "page"
  /\ item' = Nothing
  /\ UNCHANGED <<buildVars, todo, current, outcome, last, troubled>>

\* A repository page, then the marker that makes its directory the generator's.
WriteRepo ==
  /\ step = "repo"
  /\ \E r \in todo : item' = r /\ site' = [site EXCEPT !.repo[r] = current.stamp]
  /\ todo' = todo \ {item'}
  /\ step' = "marker"
  /\ UNCHANGED <<buildVars, current, outcome, last, troubled>>

WriteMarker ==
  /\ step = "marker"
  /\ site' = [site EXCEPT !.marked = @ \cup {item}]
  /\ step' = "repo"
  /\ item' = Nothing
  /\ UNCHANGED <<buildVars, todo, current, outcome, last, troubled>>

PruneDir ==
  /\ step = "pruneDir"
  /\ \E m \in todo : /\ site' = [site EXCEPT !.page[m] = Nothing, !.summary[m] = Nothing]
                     /\ todo' = todo \ {m}
  /\ UNCHANGED <<buildVars, step, item, current, outcome, last, troubled>>

\* Mutant: the name is compared with its extension, and never matches.
PruneOgByFullName ==
  /\ step = "pruneOg"
  /\ \E m \in todo : todo' = todo \ {m}
  /\ UNCHANGED <<buildVars, site, step, item, current, outcome, last, troubled>>

PruneOg ==
  /\ step = "pruneOg"
  /\ \E m \in todo : site' = [site EXCEPT !.og[m] = Nothing] /\ todo' = todo \ {m}
  /\ UNCHANGED <<buildVars, step, item, current, outcome, last, troubled>>

\* Mutant: a directory of that shape is taken to be generated.
RemovableByName(r) == r \in Repos

Removable(r) == r \in site.marked

PruneRepo ==
  /\ step = "pruneRepo"
  /\ \E r \in todo :
       /\ site' = IF Removable(r)
                  THEN [site EXCEPT !.repo[r] = Nothing, !.marked = @ \ {r}]
                  ELSE site
       /\ todo' = todo \ {r}
  /\ UNCHANGED <<buildVars, step, item, current, outcome, last, troubled>>

\* What a write or a removal that is cut short makes of the site.
Halfway ==
  CASE step = "home"      -> {[site EXCEPT !.home = Torn]}
    [] step = "data"      -> {[site EXCEPT !.data = Torn]}
    [] step = "page"      -> {[site EXCEPT !.page[m] = Torn] : m \in todo}
    [] step = "og"        -> {[site EXCEPT !.og[item] = Torn]}
    [] step = "summary"   -> {[site EXCEPT !.summary[item] = Torn]}
    [] step = "repo"      -> {[site EXCEPT !.repo[r] = Torn] : r \in todo}
    [] step = "marker"    -> {[site EXCEPT !.marked = @ \ {item}]}
    [] step = "pruneDir"  -> {[site EXCEPT !.page[m] = Nothing] : m \in todo}
                             \cup {[site EXCEPT !.summary[m] = Nothing] : m \in todo}
    [] step = "pruneRepo" -> {[site EXCEPT !.repo[r] = Nothing] : r \in todo \cap site.marked}
                             \cup {[site EXCEPT !.marked = @ \ {r}] : r \in todo}
    [] OTHER -> {}

RenderStops ==
  /\ step # "idle"
  /\ site' \in {site} \cup Halfway
  /\ step' = "idle"
  /\ todo' = {}
  /\ item' = Nothing
  /\ current' = Absent
  /\ outcome' = "error"
  /\ troubled' = TRUE
  /\ UNCHANGED <<buildVars, last>>

-----------------------------------------------------------------------------
Init ==
  /\ store \in [Missions -> [bundle : {1}, publication : {0, 1}]]
  /\ index = Absent
  /\ build = Idle
  /\ built = 0
  /\ edits = 0
  /\ \E kept \in SUBSET Repos :
       site = [home |-> Nothing, data |-> Nothing,
               page    |-> [m \in Missions |-> Nothing],
               og      |-> [m \in Missions |-> Nothing],
               summary |-> [m \in Missions |-> Nothing],
               repo    |-> [r \in Repos |-> IF r \in kept THEN Unrelated ELSE Nothing],
               marked  |-> {}]
  /\ step = "idle"
  /\ item = Nothing
  /\ todo = {}
  /\ current = Absent
  /\ outcome = "none"
  /\ last = {}
  /\ troubled = FALSE

Build ==
  \/ \E m \in Missions : EditMission(m)
  \/ \E skips \in BOOLEAN, excluded \in {{}} \cup {{m} : m \in Missions} :
       StartBuild(skips, excluded)
  \/ WriteIndex \/ WriteIndexFails

Render ==
  \/ ReadIndex \/ WriteHome \/ WriteData \/ NextLoop \/ Finish
  \/ WritePage \/ WriteOg \/ WriteSummary \/ WriteRepo \/ WriteMarker
  \/ PruneDir \/ PruneOg \/ PruneRepo \/ RenderStops

Next == Build \/ Render

Spec == Init /\ [][Next]_vars

-----------------------------------------------------------------------------
TypeOK ==
  /\ store \in [Missions -> [bundle : {0} \cup Digests, publication : {0} \cup Digests]]
  /\ index \in Indexes /\ current \in Indexes
  /\ build \in [missions : SUBSET Missions, excluded : SUBSET Missions,
                skips : BOOLEAN, busy : BOOLEAN]
  /\ built \in 0..MaxBuilds /\ edits \in 0..MaxEdits
  /\ site \in [home : Contents, data : Contents, page : [Missions -> Contents],
               og : [Missions -> Contents], summary : [Missions -> Contents],
               repo : [Repos -> Contents \cup {Unrelated}], marked : SUBSET Repos]
  /\ step \in {"idle", "home", "data", "start", "page", "og", "summary", "repo", "marker",
               "pruneDir", "pruneOg", "pruneRepo"}
  /\ item \in Missions \cup Repos \cup {Nothing}
  /\ todo \subseteq (CASE step \in {"page", "og", "summary", "pruneDir", "pruneOg"} -> Missions
                      [] step \in {"repo", "marker", "pruneRepo"} -> Repos
                      [] OTHER -> {})
  /\ outcome \in {"none", "running", "ok", "error"}
  /\ last \subseteq Missions
  /\ troubled \in BOOLEAN

(* A render that fails cannot take away the last complete set of receipts:
   every file of it is still there, as it was or overwritten, if perhaps not
   completely, by a later render.                                           *)
LastSetSurvives ==
  /\ \A m \in last : Nothing \notin {site.page[m], site.og[m], site.summary[m]}
  /\ \A r \in Groups(last) : site.repo[r] # Nothing

(* A render that ends well leaves the files of its index, all of its
   generation, and nothing else, whatever earlier ones left half done: except
   repository pages that never got their marker or lost it.                 *)
CompleteRenderIsExact ==
  outcome = "ok" =>
    /\ site.home = current.stamp /\ site.data = current.stamp
    /\ \A m \in Missions :
         {site.page[m], site.og[m], site.summary[m]} =
           {IF m \in current.missions THEN current.stamp ELSE Nothing}
    /\ site.marked = Groups(current.missions)
    /\ \A r \in Repos :
         IF r \in site.marked THEN site.repo[r] = current.stamp
         ELSE site.repo[r] \in {Nothing, Unrelated} \/ troubled

(* A repository page somebody else put there stays, unless the index has a
   receipt for that very repository.                                        *)
UnrelatedStays ==
  [][\A r \in Repos :
       site.repo[r] = Unrelated /\ site'.repo[r] # Unrelated
         => r \in Groups(current.missions)]_vars
=============================================================================
