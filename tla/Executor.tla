------------------------------ MODULE Executor ------------------------------
(***************************************************************************)
(* lib/executor.mjs, execute: Workspace makes and patches a copy of the     *)
(* source, phase A installs into it with a network, then one container per *)
(* declared command runs on the same copy, and the tree is compared with   *)
(* what it was before the commands after each of them.  DockerRun is the   *)
(* supervision of each container; a container that outlives its call still *)
(* has the copy.                                                           *)
(*                                                                         *)
(* From phase A on the copy is the set of the respects in which it is not  *)
(* as it should be.                                                        *)
(***************************************************************************)
EXTENDS DockerRun, Workspace, Sequences

VARIABLES
  writable,  \* config.workspace_mode is writable_copy
  cmd,       \* loop index of the declared commands, 0 before the loop
  changed,   \* disk: in which respects the copy differs
  baseline,  \* preCheckManifest: phase A left other paths
  records,   \* commandRecords
  rmNext,    \* the next container of cleanupDocker
  outcome,   \* what execute did
  \* and, for the properties only:
  tainted,   \* commands that did not have the tree the manifests describe
  spared     \* containers whose docker rm failed

execVars == <<pc, workspaceVars, writable, cmd, changed, baseline, records, rmNext,
              outcome, tainted, spared>>
vars == <<call, client, alive, killing, monitored, checking, monitorError,
          timeout, forceKill, result, pc, copy, patch, named, misbound, escaped,
          writable, cmd, changed, baseline, records, rmNext, outcome, tainted, spared>>

\* tracked: bytes or mode of an approved tracked file; other: a path that is
\* neither tracked nor allowlisted, or a new symlink; git: a .git entry.
Aspects == {"tracked", "other", "git"}

Steps == {"copy", "metadata", "controls", "derive", "cache", "patch", "refresh", "contained",
          "index", "modes", "apply", "list", "approved", "startA", "waitA", "sizeA", "cachesA", "gitA", "digestA",
          "caches", "git", "start", "wait", "gitAfter", "cachesAfter",
          "sizeAfter", "manifest", "final", "write", "cleanup", "rmTemp", "end"}

Mount(c) == c = 0 \/ writable

Deviates(tree) ==
  \/ "tracked" \in tree
  \/ ("other" \in tree) # baseline

-----------------------------------------------------------------------------
(* Containers write while they live.                                        *)

\* A command is tainted by a container other than its own, too.  The copy of
\* a run that failed is only deleted.
Write(c) ==
  /\ c \in alive
  /\ outcome # "error"
  /\ Mount(c)
  /\ \E a \in Aspects :
       changed' = IF a \in changed THEN changed \ {a} ELSE changed \cup {a}
  /\ tainted' = IF pc = "wait" /\ c # call /\ changed' \cap {"tracked", "other"} # {}
                  THEN tainted \cup {cmd} ELSE tainted
  /\ UNCHANGED <<dockerVars, workspaceVars, pc, writable, cmd, baseline, records,
                 rmNext, outcome, spared>>

-----------------------------------------------------------------------------
(* The try block of execute.                                                *)

Proceed(step) ==
  /\ Goto(step)
  /\ UNCHANGED <<workspaceVars, writable, cmd, baseline, rmNext, outcome, spared>>

Throw ==
  /\ Goto("cleanup")
  /\ outcome' = "error"
  /\ copy' = None /\ patch' = None /\ named' = FALSE
  /\ UNCHANGED <<dockerVars, misbound, escaped, writable, cmd, changed, baseline, records, rmNext,
                 tainted, spared>>

\* Nothing runs next to it.
Prepare ==
  /\ PrepareWorkspace
  /\ UNCHANGED <<dockerVars, writable, cmd, changed, baseline, records, rmNext, outcome,
                 tainted, spared>>

StartPhaseA ==
  /\ pc = "startA"
  /\ Call(0, TRUE)
  /\ Proceed("waitA")
  /\ UNCHANGED <<changed, records, tainted>>

\* Only the exit code is looked at, not timedOut.
AfterPhaseA ==
  /\ pc = "waitA"
  /\ result = "exit0"
  /\ Proceed("sizeA")
  /\ UNCHANGED <<dockerVars, changed, records, tainted>>

\* enforceWorkspaceSize or assertWorkspaceCacheRoots: the caps and the cache
\* directories of .northset are in order at this moment, or it throws.
Assert(at, next) ==
  /\ pc = at
  /\ Proceed(next)
  /\ UNCHANGED <<dockerVars, changed, records, tainted>>

RemoveGit(at, next) ==
  /\ pc = at
  /\ changed' = changed \ {"git"}
  /\ Proceed(next)
  /\ UNCHANGED <<dockerVars, records, tainted>>

\* trackedTreeDigest against the approved one, then preCheckManifest.
DigestPhaseA ==
  /\ pc = "digestA"
  /\ "tracked" \notin changed
  /\ pc' = "caches"
  /\ cmd' = 1
  /\ baseline' = ("other" \in changed)
  /\ UNCHANGED <<dockerVars, workspaceVars, writable, changed, records, rmNext, outcome,
                 tainted, spared>>

StartCommand ==
  /\ pc = "start"
  /\ Call(cmd, writable)
  /\ tainted' = IF Deviates(changed) \/ "git" \in changed THEN tainted \cup {cmd} ELSE tainted
  /\ Proceed("wait")
  /\ UNCHANGED <<changed, records>>

\* Mutant: timedOut is not looked at.
RecordSignal ==
  /\ pc = "wait"
  /\ result \in Exits
  /\ records' = Append(records, result)
  /\ Proceed("gitAfter")
  /\ UNCHANGED <<dockerVars, changed, tainted>>

\* A command that timed out has no exit code, whatever its client returned.
Record ==
  /\ pc = "wait"
  /\ result \in Exits
  /\ TimedOut \/ result # "signalled"
  /\ records' = Append(records, IF TimedOut THEN "timedOut" ELSE result)
  /\ Proceed("gitAfter")
  /\ UNCHANGED <<dockerVars, changed, tainted>>

\* assertAllowedWorkspaceChanges after each command, and the loop.
Manifest ==
  /\ pc = "manifest"
  /\ ~Deviates(changed)
  /\ IF cmd < Commands
       THEN pc' = "caches" /\ cmd' = cmd + 1
       ELSE pc' = "final" /\ UNCHANGED cmd
  /\ UNCHANGED <<dockerVars, workspaceVars, writable, changed, baseline, records,
                 rmNext, outcome, tainted, spared>>

FinalManifest ==
  /\ pc = "final"
  /\ ~Deviates(changed)
  /\ Proceed("write")
  /\ UNCHANGED <<dockerVars, changed, records, tainted>>

WriteOutputs ==
  /\ pc = "write"
  /\ pc' = "cleanup"
  /\ outcome' = "record"
  /\ UNCHANGED <<dockerVars, workspaceVars, writable, cmd, changed, baseline, records, rmNext,
                 tainted, spared>>

\* Any await may throw; those that wait for a container do when the call was
\* rejected, when phase A failed, or when a command has no exit code.
StepThrows ==
  /\ pc \notin {"startA", "start", "waitA", "wait", "cleanup", "rmTemp", "end"}
  /\ Throw

PhaseAThrows == pc = "waitA" /\ Settled /\ result # "exit0" /\ Throw

CommandThrows ==
  /\ pc = "wait"
  /\ \/ result \in {"monitorError", "startError"}
     \/ result = "signalled" /\ ~TimedOut
  /\ Throw

-----------------------------------------------------------------------------
(* The finally block.                                                       *)

\* cleanupDocker: docker rm -f of every container the run may have made; a
\* failure of one is swallowed.
RemoveNext(failed) ==
  /\ pc = "cleanup"
  /\ IF rmNext < Commands
       THEN rmNext' = rmNext + 1 /\ UNCHANGED pc
       ELSE pc' = "rmTemp" /\ UNCHANGED rmNext
  /\ alive' = IF failed THEN alive ELSE alive \ {rmNext}
  /\ spared' = IF failed THEN spared \cup {rmNext} ELSE spared
  /\ UNCHANGED <<call, client, killing, monitored, checking, monitorError,
                 timeout, forceKill, result, workspaceVars, writable, cmd, changed,
                 baseline, records, outcome, tainted>>

RemoveContainer == RemoveNext(FALSE) \/ RemoveNext(TRUE)

RemoveTemp ==
  /\ pc = "rmTemp"
  /\ Proceed("end")
  /\ UNCHANGED <<dockerVars, changed, records, tainted>>

\* The error of the rm is only thrown when there is no other: then execute
\* rejects although the outputs are written.
RemoveTempFails ==
  /\ pc = "rmTemp"
  /\ pc' = "end"
  /\ outcome' = IF outcome = "record" THEN "cleanupError" ELSE outcome
  /\ UNCHANGED <<dockerVars, workspaceVars, writable, cmd, changed, baseline, records,
                 rmNext, tainted, spared>>

-----------------------------------------------------------------------------
Init ==
  /\ InitDocker
  /\ InitWorkspace
  /\ writable \in BOOLEAN
  /\ cmd = 0
  /\ changed = {}
  /\ baseline = FALSE
  /\ records = <<>>
  /\ rmNext = 0
  /\ outcome = "none"
  /\ tainted = {}
  /\ spared = {}

Execute ==
  \/ Prepare
  \/ StartPhaseA \/ AfterPhaseA
  \/ Assert("sizeA", "cachesA") \/ Assert("cachesA", "gitA")
  \/ RemoveGit("gitA", "digestA") \/ DigestPhaseA
  \/ Assert("caches", "git") \/ RemoveGit("git", "start") \/ StartCommand
  \/ Record
  \/ RemoveGit("gitAfter", "cachesAfter") \/ Assert("cachesAfter", "sizeAfter")
  \/ Assert("sizeAfter", "manifest") \/ Manifest
  \/ FinalManifest \/ WriteOutputs
  \/ StepThrows \/ PhaseAThrows \/ CommandThrows
  \/ RemoveContainer \/ RemoveTemp \/ RemoveTempFails

Next ==
  \/ Execute
  \/ RunDocker /\ UNCHANGED execVars
  \/ Daemon /\ UNCHANGED execVars
  \/ \E c \in Containers : Write(c)

\* Timers run, events are delivered, SIGKILL ends a process, and the daemon
\* answers docker rm, for which runDocker has no timer.  Nothing is assumed
\* of a container, of docker kill or of a client that only got SIGTERM.
Killed == forceKill = "fired" /\ SignalEndsClient

Fairness ==
  /\ WF_vars(TimeoutFires /\ UNCHANGED execVars)
  /\ WF_vars(GraceEnds /\ UNCHANGED execVars)
  /\ WF_vars((Close \/ ErrorEvent) /\ UNCHANGED execVars)
  /\ WF_vars(Killed /\ UNCHANGED execVars)
  /\ WF_vars(Execute)

Spec == Init /\ [][Next]_vars /\ Fairness

-----------------------------------------------------------------------------
(* Properties.                                                              *)

TypeOK ==
  /\ DockerTypeOK
  /\ WorkspaceTypeOK
  /\ pc \in Steps
  /\ writable \in BOOLEAN
  /\ cmd \in Containers
  /\ changed \subseteq Aspects
  /\ baseline \in BOOLEAN
  /\ records \in Seq({"exit0", "exitN", "timedOut"})
  /\ rmNext \in Containers
  /\ outcome \in {"none", "record", "error", "cleanupError"}
  /\ tainted \subseteq Containers
  /\ spared \subseteq Containers

\* A record of commands that all exited 0, the only kind a bundle is made of,
\* says what ran: the copy was the commit it names, if it names one, as the
\* objects of the copy have it, with the patch and nothing else, but for the
\* files that attributes have Git convert: those are the commit's, converted, and
\* when .git/info asks for it the commit does not tell.  Every command began on the approved tracked files,
\* the other paths phase A left and no Git metadata, no other container
\* touched these meanwhile, and the copy is still as recorded.
Passed == Len(records) = Commands /\ \A i \in DOMAIN records : records[i] = "exit0"

PassingRecordDescribesRun ==
  outcome = "record" /\ Passed => ~misbound /\ tainted = {} /\ ~Deviates(changed)

\* Nothing is left of a run but its copy and its record.  When execute is over
\* the only containers that may still run are those whose docker rm failed:
\* timeouts, kills that failed and clients that died leave none behind.  And
\* whatever links, names and Git metadata the source and the patch contain,
\* the host writes nothing outside the copy while it prepares it.
NothingIsLeftBehind == (pc = "end" => alive \subseteq spared) /\ ~escaped

\* execute ends, however its containers behave.
ExecuteEnds == <>(pc = "end")

\* docs/executor.md:55: a change "aborts the run before a later command can
\* consume and then hide it".  No command starts on a changed tree.
ChangesAbortTheRun == tainted = {}
=============================================================================
