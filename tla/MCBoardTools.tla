----------------------------- MODULE MCBoardTools -----------------------------
(***************************************************************************)
(* The three tools of the board that share nothing, side by side: the      *)
(* workload runner with the import of its artifact, the benchmark launcher *)
(* and the power sampler.  One of them runs, the others stay as they are.  *)
(***************************************************************************)
EXTENDS BoardArtifact, PowerSampler

CONSTANTS Timeouts, Wrap, LaunchCodes

VARIABLES
    tool,
    launchPc, timeout_seconds, command_pid, timed_out, alarmSet, child, ending, filesWritten, exit

Launch == INSTANCE BenchmarkLaunch WITH
    pc <- launchPc, Codes <- LaunchCodes, Killed <- "killed", Broken <- "exit 2"
Power == INSTANCE SamplerUse

launchVars == <<launchPc, timeout_seconds, command_pid, timed_out, alarmSet, child, ending, filesWritten, exit>>
powerVars == <<samplerVars, usesStopFile, epoch, signalled>>
toolVars == <<tool, artifactVars, launchVars, powerVars>>

ToolsInit ==
    /\ tool \in {"workload", "launcher", "sampler"}
    /\ ArtifactInit /\ Launch!Init /\ Power!Init
    /\ tool # "workload" => MODE = "sdp" /\ GOLDEN_OUTPUT
    /\ tool # "launcher" => timeout_seconds = 0
    /\ tool # "sampler" => usesStopFile

Script1 == tool = "workload" /\ Script /\ UNCHANGED <<imported, tool, launchVars, powerVars>>
Watchdog1 == tool = "workload" /\ Watchdog /\ UNCHANGED <<imported, tool, launchVars, powerVars>>
WorkloadStep == tool = "workload" /\ ArtifactNext /\ UNCHANGED <<tool, launchVars, powerVars>>

Launcher1 == tool = "launcher" /\ Launch!Launcher /\ UNCHANGED <<tool, artifactVars, powerVars>>
Alarm1 == tool = "launcher" /\ Launch!HandleTimeout /\ UNCHANGED <<tool, artifactVars, powerVars>>
LaunchStep == tool = "launcher" /\ Launch!Next /\ UNCHANGED <<tool, artifactVars, powerVars>>

Sampler1 == tool = "sampler" /\ Power!RunSampler /\ UNCHANGED <<tool, artifactVars, launchVars>>
SamplerStep == tool = "sampler" /\ Power!Next /\ UNCHANGED <<tool, artifactVars, launchVars>>

ToolsNext == WorkloadStep \/ LaunchStep \/ SamplerStep

ToolsSpec ==
    /\ ToolsInit /\ [][ToolsNext]_toolVars
    /\ WF_toolVars(Script1) /\ WF_toolVars(Watchdog1)
    /\ WF_toolVars(Launcher1) /\ WF_toolVars(Alarm1)
    /\ WF_toolVars(Sampler1)

-----------------------------------------------------------------------------
\* The promise of a bounded command, kept by the launcher and by run_with_watchdog.
BoundsItsCommand == Launch!BoundsItsCommand /\ BoundsItsCommands

\* Launcher, workload runner and sampler come to their ends, whatever happens
\* to the command, the server or the rails.
EveryToolEnds ==
    /\ tool = "launcher" => Launch!LaunchReturns
    /\ tool = "workload" => EveryRunEnds
    /\ Power!EndsWhenAsked
=============================================================================
