-------------------------- MODULE ForeignRunnerProofs --------------------------
(***************************************************************************)
(* Proofs about ForeignRunner, for every set of pull hosts, every set of   *)
(* versions and every number of edits.                                     *)
(***************************************************************************)
EXTENDS ForeignRunner, TLAPS

(* Parts of a run, by the network rules in force.                           *)
BeforeVM   == {"start", "host", "load", "create"}
Closed  == BeforeVM \cup {"list", "deny", "allowPull", "allowRegistry"}
Restricted == {"checkNetwork", "quota", "intake", "battery", "stagePatch", "stageConfig",
               "review", "execute", "executing", "inspect", "out", "copy", "probe"}
Executed   == {"executing", "inspect", "out", "copy"}
Ending     == Finally \cup {"over"}

NetworkInv ==
  /\ pc \in Closed => allowed = {}
  /\ pc = "pull" => allowed = PullHosts
  /\ pc = "rmPull" => allowed \subseteq PullHosts
  /\ pc \in Restricted => allowed = {Registry}

\* Where the VM is, and what its being there or not says of sbx.
MachineInv ==
  /\ pc \in TrySteps \cup {"start"} => ~threw
  /\ pc \in BeforeVM => vm = "absent"
  /\ pc \in TrySteps \ BeforeVM => vm = "running"
  /\ vm = "coming" => threw /\ faulty
  /\ vm = "going" => threw /\ faulty /\ pc = "over"
  /\ pc \in Ending \ {"rm"} /\ ~faulty => vm = "absent"

\* The approved files on their way from the host into the VM.
InputInv ==
  /\ mode = "run" /\ pc \in TrySteps \ {"host", "load"}
       => \A i \in Inputs : loaded[i] = Approved
  /\ pc = "stageConfig" => staged["patch"] = Approved
  /\ mode = "run" /\ pc \in {"review", "execute"} => \A i \in Inputs : staged[i] = Approved

\* Which checks lie behind.
CheckInv ==
  /\ pc \in TrySteps \ {"host"} => "host" \in done
  /\ pc \in TrySteps \ (BeforeVM \cup {"list"}) => "list" \in done
  /\ pc \in TrySteps \ (BeforeVM \cup {"list", "deny"}) => "deny" \in done
  /\ pc \in Restricted \cup {"rmPull", "allowRegistry"} => "pull" \in done
  /\ pc \in Restricted \ {"checkNetwork", "quota"} => "quota" \in done
  /\ pc \in Restricted \ {"checkNetwork", "quota", "intake"} => "intake" \in done
  /\ pc \in Restricted \ {"checkNetwork", "quota", "intake", "battery"} => "battery" \in done
  /\ pc \in Executed \cup {"execute", "probe"} => "review" \in done

CandidateInv ==
  /\ candidate # "none" => pc \in Executed \cup Ending
  /\ ContainedWhileRunning

\* What main knows in the end when nothing was thrown.
EndInv ==
  /\ pc = "probe" => mode = "gate"
  /\ pc = "copy" => out \subseteq Outputs
  /\ pc = "print" => ~temp
  /\ removed => pc \in {"rmTemp", "print", "over"}
  /\ ~threw /\ pc \in Ending =>
       /\ Checks \ {"probe"} \subseteq done
       /\ IF mode = "gate" THEN "probe" \in done ELSE out = Outputs
  /\ ~threw /\ (pc \in {"rm", "ls"} \/ removed) =>
       decision = IF mode = "gate" THEN "INFRASTRUCTURE_GO" ELSE "GO_AND_EXECUTED"
  /\ ~threw /\ removed => vm = "absent"
  /\ printed # "none" => pc = "over" /\ ~threw /\ removed /\ ~temp /\ printed = decision

\* The parts rest on one another, so a step is shown to preserve all of them.
IInv == TypeOK /\ NetworkInv /\ MachineInv /\ InputInv /\ CheckInv /\ CandidateInv /\ EndInv

-----------------------------------------------------------------------------
\* The positions of main and the groups of variables are open to every proof.
USE DEF Closed, BeforeVM, Restricted, Executed, Ending, Checks, RunSteps, TrySteps, Finally,
        Inputs, Outputs, NoInputs, Goto, evidence, guest, host

\* A call begins in the invariant.
LEMMA InitInv == Init => IInv
<1> SUFFICES ASSUME Init PROVE IInv
  OBVIOUS
<1> USE ForeignRunnerAssumption DEF Init
<1>1. TypeOK
  <2>1. loaded \in [Inputs -> Versions \cup {"none"}] /\ staged \in [Inputs -> Versions \cup {"none"}]
    OBVIOUS
  <2>2. out \subseteq Outputs \cup {"other"}
    OBVIOUS
  <2>3. MaxEdits \in Nat => edits \in 0..MaxEdits
    OBVIOUS
  <2> QED
    BY <2>1, <2>2, <2>3 DEF TypeOK
<1>2. NetworkInv /\ MachineInv /\ InputInv
  BY DEF NetworkInv, MachineInv, InputInv
<1>3. CheckInv /\ CandidateInv /\ EndInv
  BY DEF CheckInv, CandidateInv, ContainedWhileRunning, EndInv
<1> QED
  BY ONLY <1>1, <1>2, <1>3 DEF IInv

\* Every step of main, of sbx and of somebody who edits the files preserves it.
LEMMA StepInv == IInv /\ [Next]_vars => IInv'
<1> SUFFICES ASSUME IInv, [Next]_vars
             PROVE  IInv'
  OBVIOUS
<1> USE ForeignRunnerAssumption
<1> USE DEF IInv, TypeOK, NetworkInv, MachineInv, InputInv, CheckInv, CandidateInv,
            ContainedWhileRunning, EndInv
<1>1. CASE Start
  BY <1>1 DEF Start
<1>2. CASE CheckPasses
  <2> USE <1>2 DEF CheckPasses, After
  <2>1. CASE pc = "host"
    BY <2>1
  <2>2. CASE pc = "list"
    BY <2>2
  <2>3. CASE pc = "deny"
    BY <2>3
  <2>4. CASE pc = "pull"
    BY <2>4
  <2>5. CASE pc = "quota"
    BY <2>5
  <2>6. CASE pc = "intake"
    BY <2>6
  <2>7. CASE pc = "battery"
    BY <2>7
  <2>8. CASE pc = "review"
    BY <2>8
  <2>9. CASE pc = "probe"
    BY <2>9
  <2>10. pc \in Checks
    OBVIOUS
  <2> QED
    BY ONLY <2>1, <2>2, <2>3, <2>4, <2>5, <2>6, <2>7, <2>8, <2>9, <2>10
<1>3. CASE LoadRunConfig
  BY <1>3 DEF LoadRunConfig
<1>4. CASE CreateSandbox
  BY <1>4 DEF CreateSandbox
<1>5. CASE CreateFails
  BY <1>5 DEF CreateFails
<1>6. CASE AllowPull
  BY <1>6 DEF AllowPull
<1>7. CASE RemovePullRule
  BY <1>7 DEF RemovePullRule
<1>8. CASE AllowRegistry
  BY <1>8 DEF AllowRegistry
<1>9. CASE CheckNetwork
  BY <1>9 DEF CheckNetwork
<1>10. CASE StagePatch
  BY <1>10 DEF StagePatch
<1>11. CASE StageConfig
  BY <1>11 DEF StageConfig
<1>12. CASE StartCandidate
  BY <1>12 DEF StartCandidate
<1>13. CASE CandidateEnds
  BY <1>13 DEF CandidateEnds
<1>14. CASE Inspect
  BY <1>14 DEF Inspect
<1>15. CASE CheckOut
  BY <1>15 DEF CheckOut
<1>16. CASE CopyOutput
  <2> PICK f \in Outputs \ out :
         /\ out' = out \cup {f}
         /\ IF Outputs \subseteq out'
            THEN Goto("rm") /\ decision' = "GO_AND_EXECUTED"
            ELSE Goto("copy") /\ UNCHANGED decision
    BY <1>16 DEF CopyOutput
  <2> USE <1>16 DEF CopyOutput
  <2>1. TypeOK'
    OBVIOUS
  <2>2. NetworkInv'
    OBVIOUS
  <2>3. MachineInv'
    OBVIOUS
  <2>4. InputInv'
    OBVIOUS
  <2>5. CheckInv'
    OBVIOUS
  <2>6. CandidateInv'
    OBVIOUS
  <2>7. EndInv'
    <3>1. mode = "run" /\ ~threw /\ ~removed /\ printed = "none" /\ out \subseteq Outputs
      BY <2>1
    <3>2. out' \subseteq Outputs
      BY <3>1
    <3>3. CASE Outputs \subseteq out'
      <4>1. out' = Outputs
        BY ONLY <3>2, <3>3
      <4> QED
        BY <3>1, <3>3, <4>1
    <3>4. CASE ~(Outputs \subseteq out')
      BY <3>1, <3>2, <3>4
    <3> QED
      BY ONLY <3>3, <3>4
  <2> QED
    BY ONLY <2>1, <2>2, <2>3, <2>4, <2>5, <2>6, <2>7 DEF IInv
<1>17. CASE StepThrows
  BY <1>17 DEF StepThrows
<1>18. CASE RemoveSandbox
  <2> USE <1>18 DEF RemoveSandbox, Gone
  <2>1. TypeOK'
    OBVIOUS
  <2>2. NetworkInv'
    OBVIOUS
  <2>3. MachineInv'
    OBVIOUS
  <2>4. InputInv'
    OBVIOUS
  <2>5. CheckInv'
    OBVIOUS
  <2>6. CandidateInv'
    OBVIOUS
  <2>7. EndInv'
    OBVIOUS
  <2> QED
    BY ONLY <2>1, <2>2, <2>3, <2>4, <2>5, <2>6, <2>7 DEF IInv
<1>19. CASE RemoveRefused
  BY <1>19 DEF RemoveRefused
<1>20. CASE FinallyThrows
  BY <1>20 DEF FinallyThrows
<1>21. CASE ListSandboxes
  <2> USE <1>21 DEF ListSandboxes
  <2>1. TypeOK'
    OBVIOUS
  <2>2. NetworkInv'
    OBVIOUS
  <2>3. MachineInv'
    OBVIOUS
  <2>4. InputInv'
    OBVIOUS
  <2>5. CheckInv'
    OBVIOUS
  <2>6. CandidateInv'
    OBVIOUS
  <2>7. EndInv'
    OBVIOUS
  <2> QED
    BY ONLY <2>1, <2>2, <2>3, <2>4, <2>5, <2>6, <2>7 DEF IInv
<1>22. CASE RemoveTemp
  <2> USE <1>22 DEF RemoveTemp
  <2>1. TypeOK'
    OBVIOUS
  <2>2. NetworkInv'
    OBVIOUS
  <2>3. MachineInv'
    OBVIOUS
  <2>4. InputInv'
    OBVIOUS
  <2>5. CheckInv'
    OBVIOUS
  <2>6. CandidateInv'
    OBVIOUS
  <2>7. EndInv'
    OBVIOUS
  <2> QED
    BY ONLY <2>1, <2>2, <2>3, <2>4, <2>5, <2>6, <2>7 DEF IInv
<1>23. CASE RemoveTempThrows
  BY <1>23 DEF RemoveTempThrows
<1>24. CASE PrintDecision
  BY <1>24 DEF PrintDecision
<1>25. CASE Crash
  BY <1>25 DEF Crash
<1>26. CASE Arrive
  BY <1>26 DEF Arrive
<1>27. CASE Vanish
  <2> USE <1>27 DEF Vanish, Gone
  <2>1. TypeOK'
    OBVIOUS
  <2>2. NetworkInv'
    OBVIOUS
  <2>3. MachineInv'
    OBVIOUS
  <2>4. InputInv'
    OBVIOUS
  <2>5. CheckInv'
    OBVIOUS
  <2>6. CandidateInv'
    OBVIOUS
  <2>7. EndInv'
    OBVIOUS
  <2> QED
    BY ONLY <2>1, <2>2, <2>3, <2>4, <2>5, <2>6, <2>7 DEF IInv
<1>28. CASE \E i \in Inputs : Edit(i)
  BY <1>28 DEF Edit
<1>29. CASE UNCHANGED vars
  BY <1>29 DEF vars
<1> QED
  BY ONLY [Next]_vars, <1>1, <1>2, <1>3, <1>4, <1>5, <1>6, <1>7, <1>8, <1>9, <1>10, <1>11, <1>12, <1>13, <1>14, <1>15, <1>16, <1>17, <1>18, <1>19, <1>20, <1>21, <1>22, <1>23, <1>24, <1>25, <1>26, <1>27, <1>28, <1>29 DEF Next, Main

(* Type correctness, for every value of the constants.                      *)
THEOREM TypeCorrect == Spec => []TypeOK
<1>1. IInv => TypeOK
  BY DEF IInv
<1> QED
  BY <1>1, InitInv, StepInv, PTL DEF Spec

(* Whatever is edited on the host, and whether or not the runner still waits
   for it, the candidate runs only in its VM, under the final network rules,
   on the approved files and after the checks (executeCandidate).           *)
THEOREM CandidateIsContained == Spec => []ContainedWhileRunning
<1>1. IInv => ContainedWhileRunning
  BY DEF IInv, CandidateInv
<1> QED
  BY <1>1, InitInv, StepInv, PTL DEF Spec

(* A decision is printed only when the checks of its mode have passed and the
   VM and the temporary directory are gone (main's finally block).          *)
THEOREM PrintedGoIsEarned == Spec => []GoIsEarned
<1>1. IInv => GoIsEarned
  BY DEF IInv, TypeOK, EndInv, CandidateInv, ContainedWhileRunning, GoIsEarned
<1> QED
  BY <1>1, InitInv, StepInv, PTL DEF Spec

(* No VM is left over unless sbx failed or the process was killed.          *)
THEOREM NoSandboxIsLeft == Spec => []SandboxIsRemoved
<1>1. IInv => SandboxIsRemoved
  BY DEF IInv, MachineInv, SandboxIsRemoved
<1> QED
  BY <1>1, InitInv, StepInv, PTL DEF Spec
=============================================================================
