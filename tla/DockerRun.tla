----------------------------- MODULE DockerRun -----------------------------
(***************************************************************************)
(* lib/executor.mjs, runDocker: one call supervises one docker client and, *)
(* through it, one container.  The wall-clock timer, the workspace monitor,*)
(* the grace timer and the client's close event race for the one promise   *)
(* of the call.  The docker client and the daemon are external: a client   *)
(* may die and leave its container running, and a docker kill may fail.    *)
(***************************************************************************)
EXTENDS Naturals

CONSTANT
  Commands   \* number of declared commands

ASSUME CommandsAssumption == Commands \in Nat \ {0}

VARIABLES
  call,         \* the container of the latest call
  client,       \* its docker client process
  alive,        \* daemon: the containers that run
  killing,      \* containers with a docker kill under way
  monitored,    \* the call has a workspace monitor
  checking,     \* local monitorRunning
  monitorError, \* local monitorError is set
  timeout,      \* the wall-clock timer; "fired" is local timedOut
  forceKill,    \* the grace timer between SIGTERM and SIGKILL
  result        \* how the call settled, "none" while it has not

dockerVars == <<call, client, alive, killing, monitored, checking, monitorError,
                timeout, forceKill, result>>

\* Container 0 is phase A, container i runs declared command i.
Containers == 0..Commands

Running == {"starting", "attached"}          \* the client process exists
Exits   == {"exit0", "exitN", "signalled"}   \* code 0, another code, no code
Results == {"none", "monitorError", "startError"} \cup Exits

Settled  == result # "none"
TimedOut == timeout = "fired"

-----------------------------------------------------------------------------
(* The docker client and the daemon.                                        *)

ContainerStarts ==
  /\ client = "starting"
  /\ client' = "attached"
  /\ alive' = alive \cup {call}
  /\ UNCHANGED <<call, killing, monitored, checking, monitorError, timeout,
                 forceKill, result>>

\* A container that stops takes the client attached to it along.
Stop(c, codes) ==
  /\ alive' = alive \ {c}
  /\ IF c = call /\ client = "attached" THEN client' \in codes ELSE UNCHANGED client

ContainerExits(c) ==
  /\ c \in alive
  /\ Stop(c, {"exit0", "exitN"})
  /\ UNCHANGED <<call, killing, monitored, checking, monitorError, timeout,
                 forceKill, result>>

\* docker run itself fails, or the client loses the daemon.
ClientFails ==
  /\ client \in Running
  /\ client' = "exitN"
  /\ UNCHANGED <<call, alive, killing, monitored, checking, monitorError,
                 timeout, forceKill, result>>

\* SIGTERM may end the client, SIGKILL does; the container stays.
SignalEndsClient ==
  /\ client \in Running
  /\ forceKill # "off"
  /\ client' = "signalled"
  /\ UNCHANGED <<call, alive, killing, monitored, checking, monitorError,
                 timeout, forceKill, result>>

KillLands(c) ==
  /\ c \in killing
  /\ killing' = killing \ {c}
  /\ IF c \in alive THEN Stop(c, {"exitN"}) ELSE UNCHANGED <<alive, client>>
  /\ UNCHANGED <<call, monitored, checking, monitorError, timeout, forceKill, result>>

KillFails(c) ==
  /\ c \in killing
  /\ killing' = killing \ {c}
  /\ UNCHANGED <<call, client, alive, monitored, checking, monitorError, timeout,
                 forceKill, result>>

Daemon ==
  \/ ContainerStarts
  \/ ClientFails
  \/ SignalEndsClient
  \/ \E c \in Containers : ContainerExits(c) \/ KillLands(c) \/ KillFails(c)

-----------------------------------------------------------------------------
(* runDocker.                                                               *)

\* A call is made when the one before it has settled.  Spawning may fail,
\* then there is no client and an error event follows.
Call(c, watch) ==
  /\ call' = c
  /\ client' \in {"starting", "failed"}
  /\ monitored' = watch
  /\ checking' = FALSE
  /\ monitorError' = FALSE
  /\ timeout' = "armed"
  /\ forceKill' = "off"
  /\ result' = "none"
  /\ UNCHANGED <<alive, killing>>

\* Mutant: stopContainer relies on the client to obey SIGTERM.
StopContainerPolitely ==
  /\ killing' = killing \cup {call}
  /\ UNCHANGED forceKill

\* docker kill, SIGTERM to the client, and the grace timer once.
StopContainer ==
  /\ killing' = killing \cup {call}
  /\ forceKill' = IF forceKill = "off" THEN "armed" ELSE forceKill

TimeoutFires ==
  /\ ~Settled
  /\ timeout = "armed"
  /\ timeout' = "fired"
  /\ StopContainer
  /\ UNCHANGED <<call, client, alive, monitored, checking, monitorError, result>>

\* SIGKILL to the client.
GraceEnds ==
  /\ ~Settled
  /\ forceKill = "armed"
  /\ forceKill' = "fired"
  /\ UNCHANGED <<call, client, alive, killing, monitored, checking, monitorError,
                 timeout, result>>

MonitorTick ==
  /\ monitored
  /\ ~Settled
  /\ ~checking
  /\ ~monitorError
  /\ checking' = TRUE
  /\ UNCHANGED <<call, client, alive, killing, monitored, monitorError, timeout,
                 forceKill, result>>

MonitorPasses ==
  /\ checking
  /\ checking' = FALSE
  /\ UNCHANGED <<call, client, alive, killing, monitored, monitorError, timeout,
                 forceKill, result>>

\* Mutant: the check does not look at settled when its await is over.
MonitorThrowsLate ==
  /\ checking
  /\ checking' = FALSE
  /\ monitorError' = TRUE
  /\ StopContainer
  /\ UNCHANGED <<call, client, alive, monitored, timeout, result>>

\* A cap is exceeded or the tree could not be read.  A check that outlives
\* its call is dropped.
MonitorThrows ==
  /\ checking
  /\ checking' = FALSE
  /\ IF Settled
       THEN UNCHANGED <<monitorError, killing, forceKill>>
       ELSE monitorError' = TRUE /\ StopContainer
  /\ UNCHANGED <<call, client, alive, monitored, timeout, result>>

\* finish clears the timers; a fired timer stays in the result as timedOut.
Finish(r) ==
  /\ ~Settled
  /\ result' = r
  /\ timeout' = IF TimedOut THEN "fired" ELSE "off"
  /\ forceKill' = "off"
  /\ UNCHANGED <<call, client, alive, killing, monitored, checking, monitorError>>

Close ==
  /\ client \in Exits
  /\ Finish(IF monitorError THEN "monitorError" ELSE client)

ErrorEvent ==
  /\ client = "failed"
  /\ Finish("startError")

Timers == TimeoutFires \/ GraceEnds

RunDocker ==
  \/ Timers
  \/ MonitorTick \/ MonitorPasses \/ MonitorThrows
  \/ Close \/ ErrorEvent

InitDocker ==
  /\ call = 0
  /\ client = "failed"
  /\ alive = {}
  /\ killing = {}
  /\ monitored = FALSE
  /\ checking = FALSE
  /\ monitorError = FALSE
  /\ timeout = "off"
  /\ forceKill = "off"
  /\ result = "startError"

DockerTypeOK ==
  /\ call \in Containers
  /\ client \in {"starting", "attached", "failed"} \cup Exits
  /\ alive \subseteq Containers
  /\ killing \subseteq Containers
  /\ monitored \in BOOLEAN
  /\ checking \in BOOLEAN
  /\ monitorError \in BOOLEAN
  /\ timeout \in {"off", "armed", "fired"}
  /\ forceKill \in {"off", "armed", "fired"}
  /\ result \in Results

-----------------------------------------------------------------------------
(* Properties of a call, whatever its caller does.                          *)

\* A settled call is over: neither a late monitor check nor a timer of it
\* stops anything any more.
SettledIsQuiet ==
  [][Settled /\ Settled' /\ call' = call =>
       killing' \subseteq killing /\ forceKill' = forceKill]_dockerVars
=============================================================================
