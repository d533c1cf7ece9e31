-------------------------- MODULE PolicyMonitorProofs --------------------------
(***************************************************************************)
(* Theorems about PolicyMonitor, for every set of watched policies and any *)
(* number of edits, failed requests and killed checks.                     *)
(***************************************************************************)
EXTENDS PolicyMonitor, TLAPS

Quiet == [k \in Keys |-> "quiet"]

\* The keys a check has an answer for.
Seen == answered \ failed

\* A check has nothing to say before it compares; what it is about to write it
\* has found; and what it has changed in the snapshot is among what it has to
\* list, while what it does not list is as the snapshot has it.
ReportInv ==
  /\ phase \in {"idle", "asking"} => results = Quiet
  /\ phase \in {"writing", "listing"} =>
       answered = asked /\ \A k \in Keys : results[k] = "quiet" => NextState(k) = snapshot[k]
  /\ phase = "writing" => moved = {}
  /\ \A k \in moved : results[k] \in Changes

\* Who is removed in the comparison, of those that were asked for, was away.
RemovedInv == \A k \in asked : results[k] = "removed" => k \in gone

\* Who has no policy now, or had none when it was asked for, is known.
GoneInv ==
  /\ phase = "asking" => \A k \in Keys : world[k] = 0 => k \in gone
  /\ \A k \in Seen : seen[k] = 0 => k \in gone

\* What is fresh was seen, and is as it was seen.
FreshInv == \A k \in fresh : k \in Seen /\ k \in targets /\ seen[k] = world[k]

\* What is settled is as the snapshot has it, and whoever is asked for it
\* says so: it was a target when the check began.
SettledInv ==
  /\ settled \subseteq targets
  /\ phase \in {"asking", "writing"} => settled \subseteq asked
  /\ \A k \in settled : world[k] = snapshot[k] /\ (k \in Seen => seen[k] = snapshot[k])

IInv == TypeOK /\ ReportInv /\ GoneInv /\ FreshInv /\ SettledInv /\ RemovedInv

-----------------------------------------------------------------------------
(* What a comparison says of one key.                                       *)

\* Files and documents are numbered.
LEMMA KeysAreNumbers == Keys \subseteq Nat
  BY PolicyAssumption DEF Keys

\* What the new snapshot has of a key is a digest.
LEMMA NextStateType ==
  ASSUME TypeOK, NEW k \in Keys
  PROVE  NextState(k) \in Digests
  BY DEF TypeOK, NextState, Digests

\* A key is listed just if the new snapshot differs from the stored one, and
\* as removed only if it has no policy there.
LEMMA StatusTells ==
  ASSUME NEW k \in Keys
  PROVE  /\ Status(k) \in {"quiet"} \cup Changes
         /\ Status(k) = "quiet" <=> NextState(k) = snapshot[k]
         /\ Status(k) = "removed" => NextState(k) = 0
<1> DEFINE next == NextState(k)
           old  == snapshot[k]
<1>1. CASE next = old
  BY <1>1 DEF Status
<1>2. CASE next # old /\ old = 0
  BY <1>2 DEF Status, Changes
<1>3. CASE next # old /\ old # 0 /\ next = 0
  BY <1>3 DEF Status, Changes
<1>4. CASE next # old /\ old # 0 /\ next # 0
  BY <1>4 DEF Status, Changes
<1> QED
  BY <1>1, <1>2, <1>3, <1>4

\* At the start nothing was asked and nothing reported.
LEMMA InitHolds == Init => IInv
<1> SUFFICES ASSUME Init PROVE IInv
  OBVIOUS
<1>1. targets # {}
  BY PolicyAssumption DEF Init, Keys
<1>2. TypeOK
  <2>1. targets \in (SUBSET Keys) \ {{}}
    BY <1>1 DEF Init
  <2>2. snapshot \in [Keys -> Digests] /\ seen \in [Keys -> Digests]
    BY DEF Init, Digests
  <2>3. edits \in 0..MaxEdits
    BY PolicyAssumption DEF Init
  <2> QED
    BY <2>1, <2>2, <2>3 DEF Init, TypeOK, Phases
<1> QED
  BY <1>2 DEF Init, IInv, ReportInv, Quiet, GoneInv, Seen, FreshInv, SettledInv, RemovedInv, Changes

-----------------------------------------------------------------------------
(* The environment.                                                         *)

\* A policy that changes: it is fresh, and no longer settled.
LEMMA EditStep ==
  ASSUME IInv, NEW k \in Keys, Edit(k)
  PROVE  IInv'
<1>1. /\ edits' \in 0..MaxEdits
      /\ world' \in [Keys -> Digests]
      /\ \A x \in Keys \ {k} : world'[x] = world[x]
      /\ gone' \subseteq Keys
      /\ phase = "idle" => gone' = {}
      /\ phase # "idle" => gone' = gone \cup {x \in {k} : world'[x] = 0}
      /\ fresh' = fresh \ {k} /\ settled' = settled \ {k}
      /\ UNCHANGED <<targets, check, store, moved>>
  BY PolicyAssumption DEF Edit, IInv, TypeOK
<1>2. TypeOK'
  BY <1>1 DEF IInv, TypeOK, check, store
<1>3. ReportInv' /\ FreshInv' /\ SettledInv' /\ RemovedInv'
  <2>1. \A x \in Keys : NextState(x)' = NextState(x)
    BY <1>1 DEF NextState, check, store
  <2>2. ReportInv'
    BY <1>1, <2>1 DEF IInv, ReportInv, Quiet, check, store
  <2>3. FreshInv' /\ SettledInv'
    BY <1>1 DEF IInv, TypeOK, FreshInv, SettledInv, Seen, check, store
  <2>4. RemovedInv'
    BY <1>1 DEF IInv, TypeOK, RemovedInv, check, store
  <2> QED
    BY <2>2, <2>3, <2>4
<1>4. GoneInv'
  BY <1>1 DEF IInv, TypeOK, GoneInv, Seen, check, store
<1> QED
  BY <1>2, <1>3, <1>4 DEF IInv

\* Where nothing of a check is changed, it says what it said.
LEMMA StatusStays ==
  ASSUME NEW k \in Keys, UNCHANGED <<asked, failed, seen, snapshot>>
  PROVE  Status(k)' = Status(k) /\ NextState(k)' = NextState(k)
  BY DEF Status, NextState

\* A target that changes: its snapshot says nothing of the new one.
LEMMA RetargetStep ==
  ASSUME IInv, NEW k \in Keys, Retarget(k)
  PROVE  IInv'
<1>1. /\ edits' \in 0..MaxEdits
      /\ targets' \in (SUBSET Keys) \ {{}}
      /\ targets \ {k} \subseteq targets'
      /\ fresh' = fresh \ {k} /\ settled' = settled \ {k}
      /\ UNCHANGED <<world, check, store, gone, moved>>
  BY PolicyAssumption DEF Retarget, IInv, TypeOK
<1>2. TypeOK'
  BY <1>1 DEF IInv, TypeOK, check, store
<1>3. ReportInv'
  BY <1>1, StatusStays DEF IInv, ReportInv, Quiet, check, store
<1>4. GoneInv' /\ FreshInv' /\ SettledInv' /\ RemovedInv'
  BY <1>1 DEF IInv, TypeOK, GoneInv, FreshInv, SettledInv, RemovedInv, Seen, check, store
<1> QED
  BY <1>2, <1>3, <1>4 DEF IInv

\* The snapshot is committed, or restored from the commit.
LEMMA StoreStep ==
  ASSUME IInv, Commit \/ Restore
  PROVE  IInv'
<1>1. /\ phase = "idle"
      /\ snapshot' \in [Keys -> Digests] /\ committed' \in [Keys -> Digests]
      /\ readable' = TRUE
      /\ settled' \subseteq settled
      /\ settled' # {} => snapshot' = snapshot
      /\ UNCHANGED <<input, check, gone, moved, fresh>>
  BY DEF Commit, Restore, history, IInv, TypeOK
<1>2. TypeOK'
  BY <1>1 DEF IInv, TypeOK, input, check
<1>3. ReportInv' /\ GoneInv' /\ FreshInv' /\ RemovedInv'
  BY <1>1 DEF IInv, TypeOK, ReportInv, Quiet, GoneInv, FreshInv, RemovedInv, Seen, input, check
<1>4. SettledInv'
  BY <1>1 DEF IInv, TypeOK, SettledInv, Seen, input, check
<1> QED
  BY <1>2, <1>3, <1>4 DEF IInv

-----------------------------------------------------------------------------
(* One check.                                                               *)

\* A check begins, or is refused.
LEMMA BeginStep ==
  ASSUME IInv, Refuse \/ Start
  PROVE  IInv'
<1>1. /\ phase = "idle" /\ phase' \in {"ended", "asking"}
      /\ asked = {} /\ asked' \in {{}, targets}
      /\ phase' = "asking" => asked' = targets /\ gone' = {k \in Keys : world[k] = 0} /\ readable
      /\ gone' \subseteq Keys /\ write' \in BOOLEAN /\ exit' \in {1, exit}
      /\ UNCHANGED <<input, answered, failed, seen, results, report, store, moved, fresh, settled>>
  BY DEF Refuse, Start, history, IInv, TypeOK
<1>2. TypeOK'
  BY <1>1 DEF IInv, TypeOK, Phases, input, store
<1>3. answered = {} /\ moved = {} /\ results = Quiet
  BY <1>1 DEF IInv, TypeOK, ReportInv
<1>4. ReportInv' /\ RemovedInv'
  BY <1>1, <1>3 DEF IInv, TypeOK, ReportInv, Quiet, RemovedInv
<1>5. GoneInv' /\ FreshInv' /\ SettledInv'
  BY <1>1, <1>3 DEF IInv, TypeOK, GoneInv, FreshInv, SettledInv, Seen, input, store
<1> QED
  BY <1>2, <1>4, <1>5 DEF IInv

\* A request is answered with what is there now.
LEMMA AnswerStep ==
  ASSUME IInv, NEW k \in Keys, Answer(k)
  PROVE  IInv'
<1>1. /\ phase = "asking" /\ k \in asked \ answered
      /\ answered' = answered \cup {k}
      /\ seen' = [seen EXCEPT ![k] = world[k]]
      /\ fresh' = fresh \cup ({k} \cap targets)
      /\ UNCHANGED <<input, phase, write, asked, failed, results, report, exit, store, gone, moved, settled>>
  BY DEF Answer, Waiting
<1>2. TypeOK'
  BY <1>1 DEF IInv, TypeOK, input, store
<1>3. ReportInv' /\ RemovedInv'
  BY <1>1 DEF IInv, ReportInv, Quiet, RemovedInv
<1>4. GoneInv' /\ FreshInv' /\ SettledInv'
  BY <1>1 DEF IInv, TypeOK, GoneInv, FreshInv, SettledInv, Seen, input, store
<1> QED
  BY <1>2, <1>3, <1>4 DEF IInv

\* A request that failed: its key keeps what the snapshot has.
LEMMA WarnStep ==
  ASSUME IInv, NEW k \in Keys, Warn(k)
  PROVE  IInv'
<1>1. /\ phase = "asking" /\ k \in asked \ answered
      /\ answered' = answered \cup {k} /\ failed' = failed \cup {k}
      /\ UNCHANGED <<input, phase, write, asked, seen, results, report, exit, store, history>>
  BY DEF Warn, Waiting
<1>2. TypeOK'
  BY <1>1 DEF IInv, TypeOK, input, store, history
<1>3. ReportInv' /\ RemovedInv'
  BY <1>1 DEF IInv, ReportInv, Quiet, RemovedInv, history
<1>4. GoneInv' /\ FreshInv' /\ SettledInv'
  BY <1>1 DEF IInv, TypeOK, GoneInv, FreshInv, SettledInv, Seen, input, store, history
<1> QED
  BY <1>2, <1>3, <1>4 DEF IInv

\* A key that was asked for is found removed only on an answer that says it
\* is not there, and a settled one is found quiet.
LEMMA CompareStep ==
  ASSUME IInv, Compare
  PROVE  IInv'
<1>1. /\ phase = "asking" /\ answered = asked
      /\ results' = [k \in Keys |-> Status(k)]
      /\ phase' \in {"writing", "listing"}
      /\ readable' = (phase' # "writing")
      /\ UNCHANGED <<input, write, asked, answered, failed, seen, report, exit, snapshot, committed, history>>
  BY DEF Compare
<1>2. moved = {} /\ report = Quiet
  BY <1>1 DEF IInv, TypeOK, ReportInv, Quiet, Changes
<1>3. TypeOK'
  <2>1. results' \in [Keys -> {"quiet"} \cup Changes]
    BY <1>1, StatusTells
  <2> QED
    BY <1>1, <1>2, <2>1 DEF IInv, TypeOK, Phases, Quiet, input, history
<1>4. ReportInv'
  BY <1>1, <1>2, StatusStays, StatusTells DEF ReportInv, history
<1>5. RemovedInv'
  <2>1. ASSUME NEW k \in asked, Status(k) = "removed"
        PROVE  k \in gone
    <3>1. k \in Keys /\ NextState(k) = 0 /\ NextState(k) # snapshot[k]
      BY <2>1, StatusTells DEF IInv, TypeOK, Changes
    <3>2. k \in Seen /\ seen[k] = 0
      BY <1>1, <2>1, <3>1 DEF NextState, Seen
    <3> QED
      BY <3>2 DEF IInv, GoneInv
  <2> QED
    BY <1>1, <2>1 DEF RemovedInv, IInv, TypeOK, history
<1>6. GoneInv' /\ FreshInv' /\ SettledInv'
  BY <1>1 DEF IInv, TypeOK, GoneInv, FreshInv, SettledInv, Seen, input, history
<1> QED
  BY <1>3, <1>4, <1>5, <1>6 DEF IInv

\* What a settled key will be in the new snapshot: what it is in the old one.
LEMMA SettledNext ==
  ASSUME IInv, phase \in {"asking", "writing"}, answered = asked, NEW k \in settled
  PROVE  k \in Keys /\ NextState(k) = snapshot[k]
  BY DEF IInv, TypeOK, SettledInv, NextState, Seen

\* The snapshot is written whole: it is then as the comparison has it, and
\* what it has changed was found changed.
LEMMA WrittenStep ==
  ASSUME IInv, Written
  PROVE  IInv'
<1>1. /\ phase = "writing" /\ phase' = "listing"
      /\ snapshot' = [k \in Keys |-> NextState(k)]
      /\ readable' = TRUE
      /\ moved' = {k \in Keys : NextState(k) # snapshot[k]}
      /\ settled' = settled \cup fresh
      /\ UNCHANGED <<input, write, asked, answered, failed, seen, results, report, exit, committed, gone, fresh>>
  BY DEF Written
<1>2. TypeOK'
  <2>1. snapshot' \in [Keys -> Digests]
    BY <1>1, NextStateType DEF IInv
  <2> QED
    BY <1>1, <2>1 DEF IInv, TypeOK, Phases, input
<1>3. ReportInv'
  <2>1. \A k \in Keys : NextState(k)' = snapshot'[k]
    BY <1>1 DEF NextState
  <2>2. \A k \in moved' : results[k] \in Changes
    BY <1>1 DEF IInv, ReportInv, TypeOK
  <2>3. phase' \notin {"idle", "asking", "writing"} /\ answered' = asked' /\ results' = results
    BY <1>1 DEF IInv, ReportInv
  <2> QED
    BY <2>1, <2>2, <2>3 DEF ReportInv
<1>4. GoneInv' /\ FreshInv' /\ RemovedInv'
  BY <1>1 DEF IInv, TypeOK, GoneInv, FreshInv, RemovedInv, Seen, input
<1>5. SettledInv'
  <2>1. ASSUME NEW k \in settled
        PROVE  k \in targets /\ k \in Keys /\ NextState(k) = world[k]
               /\ (k \in Seen => seen[k] = NextState(k))
    BY <1>1, SettledNext DEF IInv, SettledInv, ReportInv
  <2>2. ASSUME NEW k \in fresh
        PROVE  k \in targets /\ k \in Keys /\ NextState(k) = world[k] /\ seen[k] = NextState(k)
    BY DEF IInv, TypeOK, FreshInv, Seen, NextState
  <2> QED
    BY <1>1, <2>1, <2>2 DEF SettledInv, Seen, input
<1> QED
  BY <1>2, <1>3, <1>4, <1>5 DEF IInv

\* A line is printed, the write fails, or the exit code is given: what was
\* found and what is stored stay.
LEMMA TellStep ==
  ASSUME IInv, WriteFails \/ Return \/ \E k \in Keys : ListChange(k)
  PROVE  IInv'
<1>1. /\ phase \in {"writing", "listing"} /\ phase' \in {phase, "ended"}
      /\ readable' \in BOOLEAN /\ (phase' # "ended" => readable' = readable)
      /\ exit' \in {0, 1, 2, exit}
      /\ report' \in [Keys -> {"quiet"} \cup Changes]
      /\ \A k \in Keys : report'[k] \in {report[k], results[k]}
      /\ UNCHANGED <<input, write, asked, answered, failed, seen, results, snapshot, committed, history>>
  <2>1. CASE WriteFails
    BY <2>1 DEF WriteFails, IInv, TypeOK
  <2>2. CASE Return
    BY <2>2 DEF Return, IInv, TypeOK, store
  <2>3. ASSUME NEW k \in Keys, ListChange(k)
        PROVE  /\ phase = "listing" /\ phase' = phase /\ readable' = readable /\ exit' = exit
               /\ report' \in [Keys -> {"quiet"} \cup Changes]
               /\ \A x \in Keys : report'[x] \in {report[x], results[x]}
               /\ UNCHANGED <<input, write, asked, answered, failed, seen, results, snapshot, committed, history>>
    BY <2>3 DEF ListChange, Listed, IInv, TypeOK, store
  <2>4. CASE \E k \in Keys : ListChange(k)
    BY <2>3, <2>4 DEF IInv, TypeOK
  <2> QED
    BY <2>1, <2>2, <2>4
<1>2. TypeOK'
  BY <1>1 DEF IInv, TypeOK, Phases, input, history
<1>3. ReportInv'
  BY <1>1, StatusStays DEF IInv, ReportInv, history
<1>4. GoneInv' /\ FreshInv' /\ SettledInv' /\ RemovedInv'
  BY <1>1 DEF IInv, TypeOK, GoneInv, FreshInv, SettledInv, RemovedInv, Seen, input, history
<1> QED
  BY <1>2, <1>3, <1>4 DEF IInv

\* A check is over, by itself or killed at any point.
LEMMA OverStep ==
  ASSUME IInv, Over
  PROVE  IInv'
<1>1. /\ phase' = "idle" /\ write' = FALSE
      /\ asked' = {} /\ answered' = {} /\ failed' = {}
      /\ seen' = [k \in Keys |-> 0] /\ results' = Quiet /\ report' = Quiet
      /\ exit' = NoExit
      /\ gone' = {} /\ moved' = {} /\ fresh' = {}
      /\ UNCHANGED <<input, store, settled>>
  BY DEF Over, Quiet
<1>2. /\ seen' \in [Keys -> Digests]
      /\ results' \in [Keys -> {"quiet"} \cup Changes] /\ report' \in [Keys -> {"quiet"} \cup Changes]
      /\ \A k \in Keys : report'[k] = "quiet"
  BY <1>1 DEF Quiet, Digests
<1>3. TypeOK'
  BY <1>1, <1>2 DEF IInv, TypeOK, Phases, input, store
<1>4. ReportInv' /\ GoneInv' /\ FreshInv' /\ SettledInv' /\ RemovedInv'
  BY <1>1 DEF IInv, TypeOK, ReportInv, Quiet, GoneInv, FreshInv, SettledInv, RemovedInv, Seen,
     input, store
<1> QED
  BY <1>3, <1>4 DEF IInv

\* Every step keeps the invariant: one case per action.
LEMMA StepHolds ==
  ASSUME IInv, [Next]_vars
  PROVE  IInv'
<1>1. CASE UNCHANGED vars
  <2>1. ReportInv'
    BY <1>1, StatusStays DEF IInv, ReportInv, Quiet, vars, check, store, history
  <2> QED
    BY <1>1, <2>1 DEF vars, input, check, store, history, IInv, TypeOK, GoneInv, FreshInv,
       SettledInv, RemovedInv, Seen
<1> QED
  BY <1>1, EditStep, RetargetStep, StoreStep, BeginStep, AnswerStep, WarnStep, CompareStep,
     WrittenStep, TellStep, OverStep DEF Next

\* IInv always holds.
LEMMA Invariance == Spec => []IInv
  BY InitHolds, StepHolds, PTL DEF Spec

-----------------------------------------------------------------------------
\* Every variable keeps its type, for every set of watched policies.
THEOREM TypeCorrect == Spec => []TypeOK
<1>1. IInv => TypeOK
  BY DEF IInv
<1> QED
  BY <1>1, Invariance, PTL

\* Whatever fails and whatever is edited meanwhile, a check calls a policy
\* removed only if it was really away at some time while the check ran.
THEOREM NoFalseRemoval == Spec => []RemovalIsReal
<1>1. IInv => RemovalIsReal
  BY DEF IInv, TypeOK, RemovedInv, RemovalIsReal
<1> QED
  BY <1>1, Invariance, PTL

\* Whatever exit code a check gives, it has listed all that it has changed in
\* the snapshot, and exit code 0 is given only when it has changed nothing and
\* everything that was seen is as the snapshot has it.
THEOREM NoSilentChange == Spec => NothingIsHidden
<1> DEFINE Honest == exit' # exit /\ exit' # NoExit =>
             /\ \A k \in moved : report[k] \in Changes
             /\ exit' = 0 =>
                  moved = {} /\ asked # failed /\ \A k \in fresh : snapshot[k] = world[k]
<1>1. IInv /\ [Next]_vars => Honest
  <2> SUFFICES ASSUME IInv, [Next]_vars, exit' # exit, exit' # NoExit
               PROVE  /\ \A k \in moved : report[k] \in Changes
                      /\ exit' = 0 => moved = {} /\ asked # failed
                                       /\ \A k \in fresh : snapshot[k] = world[k]
    OBVIOUS
  <2>1. Refuse \/ WriteFails \/ Return
    BY DEF Next, Edit, Retarget, Answer, Warn, ListChange, Commit, Restore, Start, Compare, Written, Over,
       vars, check
  <2>2. CASE Refuse
    BY <2>2 DEF Refuse, IInv, TypeOK
  <2>3. CASE WriteFails
    BY <2>3 DEF WriteFails, IInv, ReportInv
  <2>4. CASE Return
    <3>1. /\ phase = "listing" /\ report = results
          /\ exit' = IF AllFailed THEN 1 ELSE IF Listed # {} THEN 2 ELSE 0
      BY <2>4 DEF Return
    <3>2. \A k \in moved : k \in Keys /\ report[k] \in Changes
      BY <3>1 DEF IInv, TypeOK, ReportInv
    <3>3. ASSUME exit' = 0
          PROVE  moved = {} /\ asked # failed /\ \A k \in fresh : snapshot[k] = world[k]
      <4>1. asked # failed /\ Listed = {}
        BY <3>1, <3>3 DEF AllFailed
      <4>2. \A k \in Keys : results[k] = "quiet"
        BY <4>1 DEF Listed, IInv, TypeOK
      <4>3. moved = {}
        BY <3>1, <3>2, <4>2 DEF Changes
      <4>4. ASSUME NEW k \in fresh
            PROVE  snapshot[k] = world[k]
        <5>1. k \in Keys /\ k \in asked /\ k \notin failed /\ seen[k] = world[k]
          BY DEF IInv, TypeOK, FreshInv, Seen
        <5>2. NextState(k) = snapshot[k]
          BY <3>1, <4>2, <5>1 DEF IInv, ReportInv
        <5> QED
          BY <5>1, <5>2 DEF NextState
      <4> QED
        BY <4>1, <4>3, <4>4
    <3> QED
      BY <3>2, <3>3
  <2> QED
    BY <2>1, <2>2, <2>3, <2>4
<1> QED
  BY <1>1, Invariance, PTL DEF Spec, NothingIsHidden

\* Once a stored snapshot holds a policy as it is, no check finds it changed until it
\* changes, however many checks fail or are killed in between.
THEOREM NothingCriedTwice == Spec => SettledStaysQuiet
<1>1. IInv /\ [Next]_vars =>
        (\A k \in settled : results'[k] # results[k] => results'[k] = "quiet")
  <2> SUFFICES ASSUME IInv, [Next]_vars, NEW k \in settled, results'[k] # results[k]
               PROVE  results'[k] = "quiet"
    OBVIOUS
  <2>1. Compare \/ Over
    BY DEF Next, Edit, Retarget, Answer, Warn, Commit, Restore, Refuse, Start, Written,
       WriteFails, ListChange, Return, vars, check
  <2>2. CASE Over
    BY <2>2 DEF Over, IInv, TypeOK
  <2>3. CASE Compare
    <3>1. k \in Keys /\ NextState(k) = snapshot[k]
      BY <2>3, SettledNext DEF Compare
    <3> QED
      BY <2>3, <3>1, StatusTells DEF Compare
  <2> QED
    BY <2>1, <2>2, <2>3
<1> QED
  BY <1>1, Invariance, PTL DEF Spec, SettledStaysQuiet
===============================================================================
