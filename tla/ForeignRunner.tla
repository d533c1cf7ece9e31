----------------------------- MODULE ForeignRunner -----------------------------
(***************************************************************************)
(* bin/foreign-runner.mjs: one call of main, as gate or as run of a        *)
(* candidate, and the micro-VM it works with.  The runner waits for one    *)
(* sbx command at a time.  A command may fail, or be abandoned after its   *)
(* time, and what it asked for may then still happen.  The candidate's     *)
(* files may be edited on the host meanwhile.                              *)
(*                                                                         *)
(* A config or patch file is represented by a version; the operator        *)
(* approved version Approved of both.                                      *)
(***************************************************************************)
EXTENDS Naturals

CONSTANTS
  Versions,    \* versions of the config and of the patch file
  Approved,    \* the one whose digests were given on the command line
  PullHosts,   \* DOCKER_PULL_HOSTS
  Probed,      \* the one of them that is checked afterwards
  Registry,    \* REGISTRY
  MaxEdits     \* bound on the edits of these files

ASSUME ForeignRunnerAssumption ==
  /\ Approved \in Versions
  /\ Probed \in PullHosts
  /\ Registry \notin PullHosts
  /\ "none" \notin Versions
  /\ MaxEdits \in Nat

VARIABLES
  mode,       \* gate or run
  pc,         \* the command main is at
  disk,       \* the files on the host
  loaded,     \* what loadRunConfig read
  staged,     \* the files copied into the VM
  vm,         \* the micro-VM; "coming" and "going" outlive the command
  allowed,    \* the network rules of the VM
  done,       \* checks that have passed
  candidate,  \* the candidate's code
  out,        \* the files in --out
  decision,   \* evidence.decision
  removed,    \* evidence.external_reaper.sandbox_removed
  threw,      \* an exception is on its way out of try or finally
  temp,       \* the temporary directory exists
  printed,    \* the decision that was printed
  faulty,     \* history: sbx did not carry out a create, rm or ls
  edits       \* how often a file was edited

evidence == <<done, decision, removed, threw, printed>>
guest    == <<vm, allowed, staged, candidate>>
host     == <<disk, loaded, temp, edits>>
vars == <<mode, pc, evidence, guest, host, out, faulty>>

Inputs   == {"config", "patch"}
Outputs  == {"run_record.json", "stdout.txt", "stderr.txt"}
NoInputs == [i \in Inputs |-> "none"]

\* Checks without effect on anything but the evidence.
Checks == {"host", "list", "deny", "pull", "quota", "intake", "battery", "review", "probe"}

RunSteps == {"load", "stagePatch", "stageConfig", "execute", "executing", "inspect", "out", "copy"}
TrySteps == Checks \cup RunSteps
            \cup {"create", "allowPull", "rmPull", "allowRegistry", "checkNetwork"}
Finally  == {"rm", "ls", "rmTemp", "print"}

-----------------------------------------------------------------------------
(* The order of the commands.                                               *)

\* Mutant: the review is followed by an execution in either mode.
AfterAlwaysExecutes(s) ==
  CASE s = "host"    -> IF mode = "run" THEN "load" ELSE "create"
    [] s = "list"    -> "deny"
    [] s = "deny"    -> "allowPull"
    [] s = "pull"    -> "rmPull"
    [] s = "quota"   -> "intake"
    [] s = "intake"  -> "battery"
    [] s = "battery" -> IF mode = "run" THEN "stagePatch" ELSE "review"
    [] s = "review"  -> "execute"
    [] s = "probe"   -> "rm"

After(s) ==
  CASE s = "host"    -> IF mode = "run" THEN "load" ELSE "create"
    [] s = "list"    -> "deny"
    [] s = "deny"    -> "allowPull"
    [] s = "pull"    -> "rmPull"
    [] s = "quota"   -> "intake"
    [] s = "intake"  -> "battery"
    [] s = "battery" -> IF mode = "run" THEN "stagePatch" ELSE "review"
    [] s = "review"  -> IF mode = "run" THEN "execute" ELSE "probe"
    [] s = "probe"   -> "rm"

Goto(s) == pc' = s

Start ==
  /\ pc = "start"
  /\ temp' = TRUE
  /\ Goto("host")
  /\ UNCHANGED <<mode, evidence, guest, disk, loaded, edits, out, faulty>>

\* The gate is decided when its last check, the probe, has passed.
CheckPasses ==
  /\ pc \in Checks
  /\ pc = "list" => vm = "running"
  /\ done' = done \cup {pc}
  /\ decision' = IF pc = "probe" THEN "INFRASTRUCTURE_GO" ELSE decision
  /\ Goto(After(pc))
  /\ UNCHANGED <<mode, guest, host, out, removed, threw, printed, faulty>>

\* Each file is read once and its digest compared with the approved one, so an
\* edit between the two reads makes no difference.
LoadRunConfig ==
  /\ pc = "load"
  /\ \A i \in Inputs : disk[i] = Approved
  /\ loaded' = disk
  /\ Goto("create")
  /\ UNCHANGED <<mode, evidence, guest, disk, temp, edits, out, faulty>>

CreateSandbox ==
  /\ pc = "create"
  /\ vm' = "running"
  /\ Goto("list")
  /\ UNCHANGED <<mode, evidence, allowed, staged, candidate, host, out, faulty>>

\* The command fails or is abandoned, and the VM may come all the same.
CreateFails ==
  /\ pc = "create"
  /\ vm' \in {"absent", "coming"}
  /\ threw' = TRUE
  /\ faulty' = TRUE
  /\ Goto("rm")
  /\ UNCHANGED <<mode, done, decision, removed, printed, allowed, staged, candidate, host, out>>

AllowPull ==
  /\ pc = "allowPull"
  /\ allowed' = allowed \cup PullHosts
  /\ Goto("pull")
  /\ UNCHANGED <<mode, evidence, vm, staged, candidate, host, out, faulty>>

\* One command for each host.
RemovePullRule ==
  /\ pc = "rmPull"
  /\ \E h \in allowed \cap PullHosts :
       /\ allowed' = allowed \ {h}
       /\ Goto(IF allowed \cap PullHosts = {h} THEN "allowRegistry" ELSE "rmPull")
  /\ UNCHANGED <<mode, evidence, vm, staged, candidate, host, out, faulty>>

AllowRegistry ==
  /\ pc = "allowRegistry"
  /\ allowed' = allowed \cup {Registry}
  /\ Goto("checkNetwork")
  /\ UNCHANGED <<mode, evidence, vm, staged, candidate, host, out, faulty>>

CheckNetwork ==
  /\ pc = "checkNetwork"
  /\ Registry \in allowed /\ Probed \notin allowed
  /\ done' = done \cup {pc}
  /\ Goto("quota")
  /\ UNCHANGED <<mode, decision, removed, threw, printed, guest, host, out, faulty>>

\* Mutant: the patch is copied from the path in the config.
StagePatchFromDisk ==
  /\ pc = "stagePatch"
  /\ staged' = [staged EXCEPT !["patch"] = disk["patch"]]
  /\ Goto("stageConfig")
  /\ UNCHANGED <<mode, evidence, vm, allowed, candidate, host, out, faulty>>

\* prepareRunInput writes the bytes that were compared, by way of temp.
StagePatch ==
  /\ pc = "stagePatch"
  /\ staged' = [staged EXCEPT !["patch"] = loaded["patch"]]
  /\ Goto("stageConfig")
  /\ UNCHANGED <<mode, evidence, vm, allowed, candidate, host, out, faulty>>

StageConfig ==
  /\ pc = "stageConfig"
  /\ staged' = [staged EXCEPT !["config"] = loaded["config"]]
  /\ Goto("review")
  /\ UNCHANGED <<mode, evidence, vm, allowed, candidate, host, out, faulty>>

StartCandidate ==
  /\ pc = "execute"
  /\ candidate' = "running"
  /\ Goto("executing")
  /\ UNCHANGED <<mode, evidence, vm, allowed, staged, host, out, faulty>>

CandidateEnds ==
  /\ pc = "executing"
  /\ candidate' = "ended"
  /\ Goto("inspect")
  /\ UNCHANGED <<mode, evidence, vm, allowed, staged, host, out, faulty>>

\* Its output directory in the VM holds the three files and nothing else.
Inspect ==
  /\ pc = "inspect"
  /\ Goto("out")
  /\ UNCHANGED <<mode, evidence, guest, host, out, faulty>>

\* Only now must --out be an empty directory.
CheckOut ==
  /\ pc = "out"
  /\ out = {}
  /\ Goto("copy")
  /\ UNCHANGED <<mode, evidence, guest, host, out, faulty>>

CopyOutput ==
  /\ pc = "copy"
  /\ \E f \in Outputs \ out :
       /\ out' = out \cup {f}
       /\ IF Outputs \subseteq out'
          THEN Goto("rm") /\ decision' = "GO_AND_EXECUTED"
          ELSE Goto("copy") /\ UNCHANGED decision
  /\ UNCHANGED <<mode, done, removed, threw, printed, guest, host, faulty>>

\* Mutant: there is nothing to remove before the network has been checked.
StepThrowsEarly ==
  /\ pc \in TrySteps \ {"create"}
  /\ threw' = TRUE
  /\ Goto(IF "checkNetwork" \in done THEN "rm" ELSE "rmTemp")
  /\ UNCHANGED <<mode, done, decision, removed, printed, guest, host, out, faulty>>

\* A check finds something wrong, or its command fails or is abandoned; an
\* abandoned candidate goes on.
StepThrows ==
  /\ pc \in TrySteps \ {"create"}
  /\ threw' = TRUE
  /\ Goto("rm")
  /\ UNCHANGED <<mode, done, decision, removed, printed, guest, host, out, faulty>>

-----------------------------------------------------------------------------
(* The finally block, and the end.                                          *)

Gone == /\ vm' = "absent"
        /\ candidate' = IF candidate = "running" THEN "ended" ELSE candidate

\* A VM that is still coming is unknown to rm.
RemoveSandbox ==
  /\ pc = "rm"
  /\ IF vm = "running" THEN Gone ELSE UNCHANGED <<vm, candidate>>
  /\ Goto("ls")
  /\ UNCHANGED <<mode, evidence, allowed, staged, host, out, faulty>>

\* A status other than 0 is accepted here, and left to the list.
RemoveRefused ==
  /\ pc = "rm"
  /\ faulty' = TRUE
  /\ Goto("ls")
  /\ UNCHANGED <<mode, evidence, guest, host, out>>

\* An abandoned command is an exception: the rest of finally is left out.
FinallyThrows ==
  /\ pc \in {"rm", "ls"}
  /\ vm' \in {vm} \cup (IF pc = "rm" /\ vm = "running" THEN {"going"} ELSE {})
  /\ threw' = TRUE
  /\ faulty' = TRUE
  /\ Goto("over")
  /\ UNCHANGED <<mode, done, decision, removed, printed, allowed, staged, candidate, host, out>>

\* Mutant: the state of a VM that is listed is not considered.
ListSandboxesTrusting ==
  /\ pc = "ls"
  /\ removed' = TRUE
  /\ Goto("rmTemp")
  /\ UNCHANGED <<mode, done, decision, threw, printed, guest, host, out, faulty>>

\* Whether a VM that is coming is listed yet is open.
ListSandboxes ==
  /\ pc = "ls"
  /\ \E present \in (CASE vm = "absent"  -> {FALSE}
                       [] vm = "running" -> {TRUE}
                       [] vm = "coming"  -> BOOLEAN) :
       /\ removed' = ~present
       /\ decision' = IF present THEN "NO-GO" ELSE decision
  /\ Goto("rmTemp")
  /\ UNCHANGED <<mode, done, threw, printed, guest, host, out, faulty>>

RemoveTemp ==
  /\ pc = "rmTemp"
  /\ temp' = FALSE
  /\ Goto("print")
  /\ UNCHANGED <<mode, evidence, guest, disk, loaded, edits, out, faulty>>

RemoveTempThrows ==
  /\ pc = "rmTemp"
  /\ threw' = TRUE
  /\ Goto("over")
  /\ UNCHANGED <<mode, done, decision, removed, printed, guest, host, out, faulty>>

\* An exception from try goes on here; a VM that is left is another one.
PrintDecision ==
  /\ pc = "print"
  /\ printed' = IF threw \/ ~removed THEN "none" ELSE decision
  /\ threw' = (threw \/ ~removed)
  /\ Goto("over")
  /\ UNCHANGED <<mode, done, decision, removed, guest, host, out, faulty>>

\* The process is killed, or interrupted: there is no handler.
Crash ==
  /\ pc \notin {"start", "over"}
  /\ threw' = TRUE
  /\ faulty' = TRUE
  /\ vm' \in {vm} \cup (CASE pc = "create" -> {"coming"}
                          [] pc = "rm" /\ vm = "running" -> {"going"}
                          [] OTHER -> {})
  /\ Goto("over")
  /\ UNCHANGED <<mode, done, decision, removed, printed, allowed, staged, candidate, host, out>>

-----------------------------------------------------------------------------
(* What happens by itself.                                                  *)

Arrive ==
  /\ vm = "coming"
  /\ vm' = "running"
  /\ UNCHANGED <<mode, pc, evidence, allowed, staged, candidate, host, out, faulty>>

Vanish ==
  /\ vm = "going"
  /\ Gone
  /\ UNCHANGED <<mode, pc, evidence, allowed, staged, host, out, faulty>>

Edit(i) ==
  /\ edits < MaxEdits
  /\ edits' = edits + 1
  /\ \E v \in Versions \ {disk[i]} : disk' = [disk EXCEPT ![i] = v]
  /\ UNCHANGED <<mode, pc, evidence, guest, loaded, temp, out, faulty>>

Init ==
  /\ mode \in {"gate", "run"}
  /\ pc = "start"
  /\ disk \in [Inputs -> Versions]
  /\ loaded = NoInputs /\ staged = NoInputs
  /\ vm = "absent"
  /\ allowed = {}
  /\ done = {}
  /\ candidate = "none"
  /\ out \in {{}, {"other"}}
  /\ decision = "NO-GO"
  /\ removed = FALSE /\ threw = FALSE /\ temp = FALSE
  /\ printed = "none"
  /\ faulty = FALSE
  /\ edits = 0

Main ==
  \/ Start \/ CheckPasses \/ LoadRunConfig \/ CreateSandbox \/ CreateFails
  \/ AllowPull \/ RemovePullRule \/ AllowRegistry \/ CheckNetwork
  \/ StagePatch \/ StageConfig \/ StartCandidate \/ CandidateEnds
  \/ Inspect \/ CheckOut \/ CopyOutput \/ StepThrows
  \/ RemoveSandbox \/ RemoveRefused \/ FinallyThrows \/ ListSandboxes
  \/ RemoveTemp \/ RemoveTempThrows \/ PrintDecision \/ Crash

Next == Main \/ Arrive \/ Vanish \/ \E i \in Inputs : Edit(i)

Spec == Init /\ [][Next]_vars

-----------------------------------------------------------------------------
TypeOK ==
  /\ mode \in {"gate", "run"}
  /\ pc \in {"start", "over"} \cup TrySteps \cup Finally
  /\ mode = "gate" => pc \notin RunSteps
  /\ disk \in [Inputs -> Versions]
  /\ loaded \in [Inputs -> Versions \cup {"none"}]
  /\ staged \in [Inputs -> Versions \cup {"none"}]
  /\ vm \in {"absent", "coming", "running", "going"}
  /\ allowed \subseteq PullHosts \cup {Registry}
  /\ done \subseteq Checks \cup {"checkNetwork"}
  /\ candidate \in {"none", "running", "ended"}
  /\ out \subseteq Outputs \cup {"other"}
  /\ decision \in {"NO-GO", "GO_AND_EXECUTED", "INFRASTRUCTURE_GO"}
  /\ removed \in BOOLEAN /\ threw \in BOOLEAN /\ temp \in BOOLEAN /\ faulty \in BOOLEAN
  /\ printed \in {"none", "GO_AND_EXECUTED", "INFRASTRUCTURE_GO"}
  /\ edits \in 0..MaxEdits

(* The candidate's code runs only in a VM that may reach the registry and
   nothing else, on the approved config and patch, and after the battery and
   the review: whatever is edited on the host, and also when the runner has
   given up waiting for it.                                                 *)
ContainedWhileRunning ==
  candidate = "running" =>
    /\ vm \in {"running", "going"}
    /\ allowed = {Registry}
    /\ \A i \in Inputs : staged[i] = Approved
    /\ {"quota", "intake", "battery", "review"} \subseteq done

(* A decision that is printed is earned: the checks of its mode have passed,
   the VM is gone and nothing of the run is left in it or in the temporary
   directory, and a run has delivered its three files and no others.        *)
GoIsEarned ==
  printed # "none" =>
    /\ Checks \ {"probe"} \subseteq done
    /\ vm = "absent" /\ candidate # "running" /\ ~temp
    /\ mode = "gate" <=> printed = "INFRASTRUCTURE_GO"
    /\ IF mode = "gate" THEN "probe" \in done ELSE out = Outputs

(* However main ends, no VM is left unless sbx itself failed or the process
   was killed.                                                              *)
SandboxIsRemoved ==
  pc = "over" /\ ~faulty => vm = "absent"
=============================================================================
