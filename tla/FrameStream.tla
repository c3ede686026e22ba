----------------------------- MODULE FrameStream -----------------------------
(***************************************************************************)
(* What a streamed run promises to the rest of nvdla_runtime: the frames   *)
(* of the source are executed one by one in their order, each only once    *)
(* all its bytes were delivered; outputs of repeated frames are compared;  *)
(* the run returns success after the last frame or an error before it.     *)
(* Threads, queue and notifications are absent.                            *)
(***************************************************************************)
EXTENDS Integers, Sequences

CONSTANTS FrameSize, totalIterations, streamPeriod, Outputs

VARIABLES
    delivered,      \* bytes the source has delivered
    executed,       \* the executed frames: their input and their output
    consistent,     \* the reported outputs_consistent
    result          \* "running", or the error code that was returned

vars == <<delivered, executed, consistent, result>>

Slot(index) == IF streamPeriod = 0 THEN index ELSE index % streamPeriod

\* Every repetition of an input produced the output of the others.
Agree(runs) == \A i, j \in DOMAIN runs :
    runs[i].inputIndex = runs[j].inputIndex => runs[i].output = runs[j].output

Init == delivered = 0 /\ executed = <<>> /\ consistent = TRUE /\ result = "running"

Deliver ==
    /\ delivered' = delivered + 1
    /\ UNCHANGED <<executed, consistent, result>>

ExecuteNext ==
    LET index == Len(executed) IN
    /\ result = "running" /\ index < totalIterations
    /\ (index + 1) * FrameSize <= delivered
    /\ \E output \in Outputs :
        executed' = Append(executed, [inputIndex |-> Slot(index), input |-> index * FrameSize,
                                      output |-> output])
    /\ consistent' = Agree(executed')
    /\ UNCHANGED <<delivered, result>>

Succeed ==
    /\ result = "running" /\ Len(executed) = totalIterations
    /\ result' = "Success"
    /\ UNCHANGED <<delivered, executed, consistent>>

GiveUp ==
    /\ result = "running" /\ Len(executed) <= totalIterations
    /\ result' \in {"BadParameter", "NotSupported"}
    /\ UNCHANGED <<delivered, executed, consistent>>

Next == Deliver \/ ExecuteNext \/ Succeed \/ GiveUp

Spec == Init /\ [][Next]_vars
=============================================================================
