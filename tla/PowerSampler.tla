---------------------------- MODULE PowerSampler ----------------------------
(***************************************************************************)
(* nvdla-power-sampler: a process that samples every power rail at regular *)
(* intervals until a stop file appears, a duration is over, a rail cannot  *)
(* be read or a signal arrives.  A user of the process creates the stop    *)
(* file, waits for the ready file and may signal it.                       *)
(*                                                                         *)
(* epoch is a logical clock: whatever a sample may have to be before or    *)
(* after advances it.  A sample is stamped before its rails are read.      *)
(***************************************************************************)
EXTENDS Integers, Sequences

CONSTANTS
    Rails,          \* number of sensors that were discovered
    MaxSamples      \* bound: samples taken while nothing asks for the end

VARIABLES
    samplerPc, samplerStatus,
    sampleIndex, finalSample, timestamp, stopRequested,
    readings,           \* what was given to the output, which the sampler never sees
                        \* fail: for each sample its time and the rails read
    stopFile, readyFile,
    usesStopFile,       \* started with a stop file and a ready file, not with a duration
    durationOver,       \* that duration has passed
    epoch,
    signalled           \* the user of the sampler has sent a signal

loopVars    == <<finalSample, timestamp>>
fileVars    == <<stopFile, readyFile>>
outputVars  == <<sampleIndex, readings>>
samplerVars == <<samplerPc, samplerStatus, loopVars, outputVars, stopRequested, fileVars,
                 durationOver>>

SamplerInit ==
    /\ samplerPc = "absent" /\ samplerStatus = 0
    /\ sampleIndex = 0 /\ finalSample = FALSE /\ timestamp = 0 /\ stopRequested = FALSE
    /\ readings = <<>>
    /\ stopFile = FALSE /\ readyFile = FALSE /\ durationOver = FALSE

Exits(code) == samplerPc' = "exited" /\ samplerStatus' = code

\* No sensor, no such CPU, or an output that cannot be opened.
SetUp ==
    /\ samplerPc = "setup"
    /\ \/ samplerPc' = "loop" /\ UNCHANGED samplerStatus
       \/ Exits(3)
       \/ Exits(4)
    /\ UNCHANGED <<loopVars, outputVars, stopRequested, fileVars, durationOver>>

StopsAtFirstSample == stopFile
SeesStop == sampleIndex > 0 /\ stopFile

\* The head of the loop: a signal ends it, a stop file makes this sample the last.
LoopHead ==
    /\ samplerPc = "loop"
    /\ IF stopRequested
       THEN Exits(samplerStatus) /\ UNCHANGED finalSample
       ELSE samplerPc' = "stamp" /\ finalSample' = SeesStop /\ UNCHANGED samplerStatus
    /\ UNCHANGED <<timestamp, outputVars, stopRequested, fileVars, durationOver>>

Stamp ==
    /\ samplerPc = "stamp"
    /\ \/ Exits(4) /\ UNCHANGED timestamp
       \/ /\ timestamp' = epoch
          /\ IF durationOver THEN Exits(samplerStatus) ELSE samplerPc' = "read" /\ UNCHANGED samplerStatus
    /\ UNCHANGED <<finalSample, outputVars, stopRequested, fileVars, durationOver>>

CountsSample == sampleIndex' = sampleIndex + 1

FailureForgotten == 0
FailedRead == 5

\* A rail that cannot be read ends this sample and asks for the end.
ReadRails ==
    /\ samplerPc = "read" /\ samplerPc' = "publish"
    /\ \E rails \in 0 .. Rails :
        /\ readings' = Append(readings, [at |-> timestamp, rails |-> rails])
        /\ IF rails = Rails
           THEN UNCHANGED <<samplerStatus, stopRequested>>
           ELSE samplerStatus' = FailedRead /\ stopRequested' = TRUE
    /\ CountsSample
    /\ UNCHANGED <<loopVars, fileVars, durationOver>>

IsLast == finalSample

AnnouncesReady == sampleIndex = 1 /\ usesStopFile

\* The first sample is flushed and announced, whether it was complete or not;
\* neither may be possible.
Publish ==
    /\ samplerPc = "publish"
    /\ \/ AnnouncesReady /\ Exits(4) /\ UNCHANGED readyFile
       \/ /\ readyFile' = (readyFile \/ AnnouncesReady)
          /\ IF IsLast THEN Exits(samplerStatus)
             ELSE samplerPc' = "sleep" /\ UNCHANGED samplerStatus
    /\ UNCHANGED <<loopVars, outputVars, stopRequested, stopFile, durationOver>>

\* Until the next deadline, or for no time at all when a signal came.
Sleep ==
    /\ samplerPc = "sleep" /\ samplerPc' = "loop"
    /\ sampleIndex < IF stopRequested \/ stopFile \/ durationOver THEN MaxSamples + 1 ELSE MaxSamples
    /\ UNCHANGED <<samplerStatus, loopVars, outputVars, stopRequested, fileVars, durationOver>>

Sampler == SetUp \/ LoopHead \/ Stamp \/ ReadRails \/ Publish \/ Sleep

\* SIGTERM or SIGINT: before the handlers are installed it kills the process.
SignalSampler ==
    /\ IF samplerPc = "setup" THEN Exits(143) /\ UNCHANGED stopRequested
       ELSE stopRequested' = TRUE /\ UNCHANGED <<samplerPc, samplerStatus>>
    /\ UNCHANGED <<loopVars, outputVars, readyFile, durationOver>>

-----------------------------------------------------------------------------
Reading == [at : Nat, rails : 0 .. Rails]
SamplerPcs == {"absent", "setup", "loop", "stamp", "read", "publish", "sleep", "exited"}

\* Only the last sample can lack a rail, and then the exit status says so,
\* whatever else was asking the sampler to stop.
ReadingsAreWhole ==
    \A k \in DOMAIN readings :
        readings[k].rails # Rails =>
            k = Len(readings) /\ samplerStatus # 0

\* A sampler that the stop file ended has two samples or more, and stamped
\* the last one after the file had appeared; neither holds after a signal.
TraceEndsAfterStop ==
    samplerPc = "exited" /\ samplerStatus = 0 /\ usesStopFile /\ ~signalled =>
        /\ Len(readings) > 1
        /\ readings[Len(readings)].at = epoch /\ readings[Len(readings)].rails = Rails
=============================================================================
