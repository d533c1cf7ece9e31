---------------------------- MODULE PolicyMonitor ----------------------------
(***************************************************************************)
(* lib/policy-monitor.mjs and bin/policy-monitor.mjs: a check asks for     *)
(* every watched policy file (all at once) and then for every watched      *)
(* document (one by one), compares the answers with the snapshot file,     *)
(* replaces the snapshot when asked to, and only then prints the changes,  *)
(* line by line, and gives its exit code.  The policies change while the   *)
(* check runs, any request may fail, the list of targets is edited between *)
(* checks, and a check can be killed anywhere: in the write it leaves a    *)
(* file that cannot be read until it is restored from Git, and after the   *)
(* write a snapshot with changes that it has not, or not all, printed.     *)
(*                                                                         *)
(* A policy is represented by its digest, 0 where there is none.  The      *)
(* configuration and the snapshot are those of version "1".                *)
(***************************************************************************)
EXTENDS Naturals, FiniteSets

CONSTANTS
  Paths,      \* files in target repositories
  Documents,  \* policy documents, asked for in their order
  Shas,       \* digests a policy can have
  MaxEdits    \* bound on the edits of policies and of the list of targets

ASSUME PolicyAssumption ==
  /\ Paths \subseteq Nat
  /\ Documents \subseteq Nat
  /\ Paths \cap Documents = {}
  /\ IsFiniteSet(Paths \cup Documents)
  /\ Paths \cup Documents # {}   \* an empty configuration is refused
  /\ Shas \subseteq Nat \ {0}
  /\ MaxEdits \in Nat

VARIABLES
  world,      \* the policies as they are: key -> digest or 0
  targets,    \* the keys in targets.json
  snapshot,   \* the content of state.json: key -> digest or 0
  readable,   \* FALSE when state.json was cut off in a write
  committed,  \* the snapshot in Git
  phase,      \* what the check is doing
  write,      \* the check runs with --write
  asked,      \* the targets the check has read
  answered,   \* those of them whose request has ended
  failed,     \* those whose request ended in a warning
  seen,       \* the other answers: key -> digest or 0
  results,    \* what the comparison found: key -> status
  report,     \* the part of it that has been printed
  exit,       \* the exit code of the last check
  edits,      \* how many edits there were
  gone,       \* history: keys that had no policy at some time in the check
  moved,      \* history: keys this check has changed in the snapshot
  fresh,      \* history: keys still as this check has seen them
  settled     \* history: keys still as a stored snapshot has seen them

input   == <<world, targets, edits>>
check   == <<phase, write, asked, answered, failed, seen, results, report, exit>>
store   == <<snapshot, readable, committed>>
history == <<gone, moved, fresh, settled>>
vars == <<input, check, store, history>>

Keys     == Paths \cup Documents
Digests  == {0} \cup Shas
Changes  == {"new", "changed", "removed"}
Phases   == {"idle", "asking", "writing", "listing", "ended"}

\* There is no exit code yet.
NoExit == 3

-----------------------------------------------------------------------------
(* The environment.                                                         *)

Edit(k) ==
  /\ edits < MaxEdits
  /\ edits' = edits + 1
  /\ \E sha \in Digests \ {world[k]} : world' = [world EXCEPT ![k] = sha]
  /\ gone' = IF phase = "idle" THEN {} ELSE gone \cup {x \in {k} : world'[x] = 0}
  /\ fresh' = fresh \ {k}
  /\ settled' = settled \ {k}
  /\ UNCHANGED <<targets, check, store, moved>>

Retarget(k) ==
  /\ edits < MaxEdits
  /\ edits' = edits + 1
  /\ targets' = (targets \ {k}) \cup ({k} \ targets)
  /\ targets' # {}
  /\ settled' = settled \ {k}
  /\ fresh' = fresh \ {k}
  /\ UNCHANGED <<world, check, store, gone, moved>>

\* The reviewer commits an updated snapshot, or takes back the committed one.
Commit ==
  /\ phase = "idle"
  /\ readable
  /\ committed # snapshot
  /\ committed' = snapshot
  /\ UNCHANGED <<input, check, snapshot, readable, history>>

Restore ==
  /\ phase = "idle"
  /\ ~readable
  /\ snapshot' = committed
  /\ readable' = TRUE
  /\ settled' = {}
  /\ UNCHANGED <<input, check, committed, gone, moved, fresh>>

-----------------------------------------------------------------------------
(* One check.                                                               *)

\* A snapshot that cannot be parsed ends the check before any request.
Refuse ==
  /\ phase = "idle"
  /\ ~readable
  /\ phase' = "ended"
  /\ exit' = 1
  /\ UNCHANGED <<input, write, asked, answered, failed, seen, results, report, store, history>>

Start ==
  /\ phase = "idle"
  /\ readable
  /\ phase' = "asking"
  /\ write' \in BOOLEAN
  /\ asked' = targets
  /\ gone' = {k \in Keys : world[k] = 0}
  /\ UNCHANGED <<input, answered, failed, seen, results, report, exit, store, moved, fresh, settled>>

\* The file requests run side by side; a document waits for all of them and
\* for the documents before it.
Waiting(k) ==
  /\ k \in asked \ answered
  /\ k \in Documents =>
       /\ asked \cap Paths \subseteq answered
       /\ \A d \in asked \cap Documents : d < k => d \in answered

\* An answer tells the policy as it is.  For a file that includes that there
\* is none; a document that is not there is a failure like any other.
Answer(k) ==
  /\ phase = "asking"
  /\ Waiting(k)
  /\ k \in Documents => world[k] # 0
  /\ answered' = answered \cup {k}
  /\ seen' = [seen EXCEPT ![k] = world[k]]
  /\ fresh' = fresh \cup ({k} \cap targets)
  /\ UNCHANGED <<input, phase, write, asked, failed, results, report, exit, store, gone, moved, settled>>

\* A warning: another status, a wrong content type, no digest, no connection.
Warn(k) ==
  /\ phase = "asking"
  /\ Waiting(k)
  /\ answered' = answered \cup {k}
  /\ failed' = failed \cup {k}
  /\ UNCHANGED <<input, phase, write, asked, seen, results, report, exit, store, history>>

\* Mutant: a failed request is taken for a missing file.
NextForgets(k) == IF k \in asked \ failed THEN seen[k] ELSE 0

\* Mutant: a document that could not be fetched is left out of the snapshot.
NextLosesDocument(k) ==
  IF k \in asked
  THEN IF k \notin failed THEN seen[k] ELSE IF k \in Documents THEN 0 ELSE snapshot[k]
  ELSE IF k \in Paths /\ asked \cap Paths = {} THEN snapshot[k] ELSE 0

\* nextState: what was seen; where nothing could be seen, what was stored.
\* A key that is no longer a target goes, but checkTargets is not called at
\* all, and the stored files stay, when no file is a target.
NextState(k) ==
  IF k \in asked
  THEN IF k \in failed THEN snapshot[k] ELSE seen[k]
  ELSE IF k \in Paths /\ asked \cap Paths = {} THEN snapshot[k] ELSE 0

\* Mutant: a document that is no target any more goes without a word.
StatusForgetsDropped(k) ==
  CASE NextState(k) = snapshot[k] \/ k \in Documents \ asked -> "quiet"
    [] NextState(k) # snapshot[k] /\ snapshot[k] = 0         -> "new"
    [] NextState(k) # snapshot[k] /\ NextState(k) = 0        -> "removed"
    [] OTHER                                                 -> "changed"

\* diffPolicyState, and its counterpart for documents.
Status(k) ==
  CASE NextState(k) = snapshot[k]                       -> "quiet"
    [] NextState(k) # snapshot[k] /\ snapshot[k] = 0    -> "new"
    [] NextState(k) # snapshot[k] /\ NextState(k) = 0   -> "removed"
    [] OTHER                                            -> "changed"

AllFailed == failed = asked

Listed == {k \in Keys : results[k] \in Changes}

\* Mutant: the process does not wait for the write.
CompareBeforeWrite ==
  /\ phase = "asking"
  /\ answered = asked
  /\ results' = [k \in Keys |-> Status(k)]
  /\ phase' = IF write /\ ~AllFailed THEN "writing" ELSE "listing"
  /\ UNCHANGED <<input, write, asked, answered, failed, seen, report, exit, store, history>>

\* All requests have ended.  The write, if there is one, truncates the file.
Compare ==
  /\ phase = "asking"
  /\ answered = asked
  /\ results' = [k \in Keys |-> Status(k)]
  /\ phase' = IF write /\ ~AllFailed THEN "writing" ELSE "listing"
  /\ readable' = (phase' # "writing")
  /\ UNCHANGED <<input, write, asked, answered, failed, seen, report, exit, snapshot, committed, history>>

\* The new snapshot is in place; nothing of it has been printed.
Written ==
  /\ phase = "writing"
  /\ snapshot' = [k \in Keys |-> NextState(k)]
  /\ readable' = TRUE
  /\ phase' = "listing"
  /\ moved' = {k \in Keys : NextState(k) # snapshot[k]}
  /\ settled' = settled \cup fresh
  /\ UNCHANGED <<input, write, asked, answered, failed, seen, results, report, exit, committed, gone, fresh>>

\* The write fails, before the file was opened or after: no listing.
WriteFails ==
  /\ phase = "writing"
  /\ readable' \in BOOLEAN
  /\ phase' = "ended"
  /\ exit' = 1
  /\ UNCHANGED <<input, write, asked, answered, failed, seen, results, report, snapshot, committed, history>>

\* One line of the listing: the files come before the documents.
ListChange(k) ==
  /\ phase = "listing"
  /\ k \in Listed
  /\ report[k] # results[k]
  /\ k \in Documents => \A x \in Paths : report[x] = results[x]
  /\ report' = [report EXCEPT ![k] = results[k]]
  /\ UNCHANGED <<input, phase, write, asked, answered, failed, seen, results, exit, store, history>>

\* Everything is printed: the exit code.
Return ==
  /\ phase = "listing"
  /\ report = results
  /\ phase' = "ended"
  /\ exit' = IF AllFailed THEN 1 ELSE IF Listed # {} THEN 2 ELSE 0
  /\ UNCHANGED <<input, write, asked, answered, failed, seen, results, report, store, history>>

\* The process is over: by itself, or killed at any point before, by a signal
\* or by the end of who reads its output.
Over ==
  /\ phase # "idle"
  /\ phase' = "idle"
  /\ write' = FALSE
  /\ asked' = {} /\ answered' = {} /\ failed' = {}
  /\ seen' = [k \in Keys |-> 0]
  /\ results' = [k \in Keys |-> "quiet"]
  /\ report' = [k \in Keys |-> "quiet"]
  /\ exit' = NoExit
  /\ gone' = {} /\ moved' = {} /\ fresh' = {}
  /\ UNCHANGED <<input, store, settled>>

-----------------------------------------------------------------------------
Init ==
  /\ world \in [Keys -> Digests]
  /\ targets = Keys
  /\ snapshot = [k \in Keys |-> 0]
  /\ readable = TRUE
  /\ committed = snapshot
  /\ phase = "idle"
  /\ write = FALSE
  /\ asked = {} /\ answered = {} /\ failed = {}
  /\ seen = [k \in Keys |-> 0]
  /\ results = [k \in Keys |-> "quiet"]
  /\ report = [k \in Keys |-> "quiet"]
  /\ exit = NoExit
  /\ edits = 0
  /\ gone = {} /\ moved = {} /\ fresh = {} /\ settled = {}

Next ==
  \/ \E k \in Keys : Edit(k) \/ Retarget(k) \/ Answer(k) \/ Warn(k) \/ ListChange(k)
  \/ Commit \/ Restore \/ Refuse \/ Start \/ Compare \/ Written \/ WriteFails \/ Return \/ Over

Spec == Init /\ [][Next]_vars

-----------------------------------------------------------------------------
TypeOK ==
  /\ world \in [Keys -> Digests]
  /\ targets \in (SUBSET Keys) \ {{}}
  /\ snapshot \in [Keys -> Digests]
  /\ readable \in BOOLEAN
  /\ committed \in [Keys -> Digests]
  /\ phase \in Phases
  /\ write \in BOOLEAN
  /\ failed \subseteq answered /\ answered \subseteq asked /\ asked \subseteq Keys
  /\ seen \in [Keys -> Digests]
  /\ results \in [Keys -> {"quiet"} \cup Changes]
  /\ report \in [Keys -> {"quiet"} \cup Changes]
  /\ \A k \in Keys : report[k] \in {"quiet", results[k]}
  /\ exit \in {0, 1, 2, NoExit}
  /\ edits \in 0..MaxEdits
  /\ gone \subseteq Keys /\ moved \subseteq Keys /\ fresh \subseteq Keys /\ settled \subseteq Keys
  /\ ~readable => phase # "asking"
  /\ phase = "idle" => asked = {} /\ fresh = {} /\ gone = {} /\ moved = {}
  /\ phase = "writing" => ~readable

(* A policy that was asked for is reported as removed only if it really was
   away at some time during the check: neither a failed request nor an
   answer of another status cries removal (policy-monitor.mjs:133-141).     *)
RemovalIsReal ==
  \A k \in asked : report[k] = "removed" => k \in gone

(* No change is hidden by a check that ends by itself.  Whatever exit code it
   gives, it has printed every key whose entry it has changed in the
   snapshot; and exit code 0 says that it has changed none, that it could see
   something, and that all that it saw and that has not changed since is as
   the snapshot has it (policy-monitor.mjs:145-172).  Only a check that dies
   between its write and the last line, and so gives no exit code of its own,
   leaves changes in the snapshot that no listing has.                      *)
NothingIsHidden ==
  [][exit' # exit /\ exit' # NoExit =>
       /\ \A k \in moved : report[k] \in Changes
       /\ exit' = 0 =>
            moved = {} /\ asked # failed /\ \A k \in fresh : snapshot[k] = world[k]]_vars

(* Once a stored snapshot holds a policy as it is, no later check has it to
   list until it, or its place among the targets, changes: whatever fails, and
   however often checks are killed in between, nothing is cried twice.      *)
SettledStaysQuiet ==
  [][\A k \in settled : results'[k] # results[k] => results'[k] = "quiet"]_vars

=============================================================================
