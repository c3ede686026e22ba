------------------------------ MODULE SamplerUse ------------------------------
(***************************************************************************)
(* The power sampler with any user of it: somebody who starts it, asks it  *)
(* for its end by the stop file or the duration, and may signal it.        *)
(***************************************************************************)
EXTENDS PowerSampler

vars == <<samplerVars, usesStopFile, epoch, signalled>>

Init == SamplerInit /\ epoch = 0 /\ usesStopFile \in BOOLEAN /\ signalled = FALSE

StartSampler ==
    /\ samplerPc = "absent" /\ samplerPc' = "setup"
    /\ UNCHANGED <<samplerStatus, loopVars, outputVars, stopRequested, fileVars, durationOver,
                   usesStopFile, epoch, signalled>>

\* The stop file is created, or the duration passes.
AskForEnd ==
    /\ samplerPc \notin {"absent", "exited"} /\ ~stopFile /\ ~durationOver
    /\ stopFile' = usesStopFile /\ durationOver' = ~usesStopFile
    /\ epoch' = epoch + 1
    /\ UNCHANGED <<samplerPc, samplerStatus, loopVars, outputVars, stopRequested, readyFile,
                   usesStopFile, signalled>>

Signal ==
    /\ samplerPc \notin {"absent", "exited"} /\ ~signalled /\ signalled' = TRUE
    /\ SignalSampler
    /\ UNCHANGED <<stopFile, usesStopFile, epoch>>

Exited == samplerPc = "exited" /\ UNCHANGED vars

RunSampler == Sampler /\ UNCHANGED <<usesStopFile, epoch, signalled>>

Next == StartSampler \/ AskForEnd \/ Signal \/ RunSampler \/ Exited

Spec == Init /\ [][Next]_vars

\* The operating system runs the process; nobody has to ask it for its end.
FairSpec == Spec /\ WF_vars(RunSampler)

-----------------------------------------------------------------------------
\* The types of the loop of the sampler and of its output; a sample is in the
\* output exactly when it has been counted.
TypeOK ==
    /\ samplerPc \in SamplerPcs /\ samplerStatus \in {0, 3, 4, 5, 143}
    /\ sampleIndex \in Nat /\ timestamp \in Nat
    /\ {finalSample, stopRequested, stopFile, readyFile, durationOver, usesStopFile, signalled}
         \subseteq BOOLEAN
    /\ readings \in Seq(Reading) /\ Len(readings) = sampleIndex
    /\ epoch \in Nat

\* The sampler ends once it is asked to, in whichever of the three ways.
EndsWhenAsked == stopFile \/ durationOver \/ stopRequested ~> samplerPc = "exited"
=============================================================================
