---------------------------- MODULE BoardArtifact ----------------------------
(***************************************************************************)
(* board_artifact.py: the archive of a board workload is imported on the   *)
(* host, which classifies every repeat anew from the evidence and does not *)
(* take the script's word for it.                                          *)
(***************************************************************************)
EXTENDS BoardWorkload

VARIABLE imported       \* the manifest of the import: <<>> until then

artifactVars == <<vars, imported>>

ArtifactInit == Init /\ imported = <<>>
RunWorkload == Next /\ UNCHANGED imported

-----------------------------------------------------------------------------
(* The kernel log of a repeat also says whether the processors were        *)
(* started: a completed operation shows it for a ResNet-50 run, not for    *)
(* the others.  A command that could not be started exits with 126 or 127. *)

NotStarted == {"exit 126", "exit 127"}
NoInterrupt(initiated) == IF initiated THEN "initiated-without-irq" ELSE "task-initiation-failure"

\* _classify_lenet_repeat.
HostLenet(r, initiated) == First(<<
    <<r.runtime = Timeout,                  "runtime-timeout">>,
    <<r.runtime \in NotStarted,             "runtime-start-failure">>,
    <<Failed(r.runtime) /\ ~initiated,      "task-initiation-failure">>,
    <<~r.seen.irq,                          NoInterrupt(initiated)>>,
    <<r.seen.operations = "none",           "irq-without-completion">>,
    <<r.seen.operations = "partial",        "partial-operation-sequence">>,
    <<Empty(r.seen),                        "missing-output">>,
    <<r.seen.output # "exact",              "output-mismatch">>,
    <<Failed(r.runtime),                    "runtime-failure">>,
    <<TRUE,                                 "pass">> >>)

\* _classify_resnet50_repeat: whether the output is the golden one is not in
\* the archive, and neither is a failed runtime that left everything complete;
\* there the classification of the board counts.
OwnWord(r) == "execution-pass-oracle-pending"
BoardsWord(r) == IF r.classification = "pass" THEN "execution-pass-oracle-pending" ELSE r.classification

HostResnet50(r, initiated) ==
    LET started == initiated \/ r.seen.operations # "none" IN First(<<
    <<r.runtime = Timeout,                  "runtime-timeout">>,
    <<r.runtime \in NotStarted,             "runtime-start-failure">>,
    <<Failed(r.runtime) /\ ~started,        "task-initiation-failure">>,
    <<~r.seen.irq,                          NoInterrupt(started)>>,
    <<r.seen.operations = "none",           "irq-without-completion">>,
    <<r.seen.operations = "partial",        "partial-hwl-sequence">>,
    <<r.seen.output = "missing",            "missing-output">>,
    <<r.seen.output \in {"empty", "invalid"}, "invalid-output-format">>,
    <<r.seen.output = "misshapen",          "output-shape-mismatch">>,
    <<TRUE,                                 BoardsWord(r)>> >>)

\* _analyze_sdp: the comparison with the golden output is there if the script
\* got to it, and a client that exits with 0 has been told that the test passed.
Compared(r) == r.classification \in SdpPasses \cup {"unexpected-output-mismatch"}

HostSdp(r, initiated) == First(<<
    <<r.runtime = Timeout,                  "runtime-timeout">>,
    <<r.runtime \in NotStarted,             "runtime-start-failure">>,
    <<Failed(r.runtime) /\ ~initiated,      "task-initiation-failure">>,
    <<~r.seen.irq,                          NoInterrupt(initiated)>>,
    <<r.seen.operations = "none",           "irq-without-completion">>,
    <<r.seen.output = "missing",            "missing-output">>,
    <<Compared(r) /\ r.seen.output = "exact", "exact-pass">>,
    <<Compared(r) /\ r.seen.output \in {"zero", "empty"}, "diagnostic-pass-oracle-inconclusive">>,
    <<TRUE,                                 "unexpected-output-mismatch">> >>)

HostRepeat(r, initiated) == IF MODE = "lenet" THEN HostLenet(r, initiated) ELSE HostResnet50(r, initiated)

-----------------------------------------------------------------------------
\* _analyze_lenet and _analyze_resnet50: all the repeats that were asked for.
Outcomes(initiated) ==
    [k \in 1..REPEAT |->
        IF k \in DOMAIN repeats THEN HostRepeat(repeats[k], initiated[k]) ELSE "missing-repeat-evidence"]
Failing(outcomes) == {k \in DOMAIN outcomes : outcomes[k] \notin RepeatPasses}
Earliest(ks) == CHOOSE k \in ks : \A j \in ks : k <= j

RepeatedClassification(outcomes) ==
    LET exact == \A k \in DOMAIN outcomes : outcomes[k] # "execution-pass-oracle-pending"
    IN  IF Failing(outcomes) # {} THEN outcomes[Earliest(Failing(outcomes))]
        ELSE IF exact THEN IF REPEAT = 1 THEN "exact-pass" ELSE "stability-pass"
        ELSE IF REPEAT = 1 THEN "execution-pass-oracle-pending" ELSE "execution-stability-pass-oracle-pending"

Analysis(initiated) ==
    IF MODE = "sdp"
    THEN LET outcome == IF repeats = <<>> THEN "task-initiation-failure" ELSE HostSdp(repeats[1], initiated[1])
         IN  [passes |-> outcome \in SdpPasses, classification |-> outcome, firstFailure |-> 0]
    ELSE LET outcomes == Outcomes(initiated)
         IN  [passes |-> Failing(outcomes) = {}, classification |-> RepeatedClassification(outcomes),
              firstFailure |-> IF Failing(outcomes) = {} THEN 0 ELSE Earliest(Failing(outcomes))]

\* analyze_board_workload: a failure of the script or a bad pattern in the kernel
\* log fails a run whose repeats all pass.
Judged(analysis) ==
    [status |-> IF analysis.passes /\ report[1] = 0 /\ ~kernelBad THEN "pass" ELSE "fail",
     classification |-> IF kernelBad THEN "kernel-log-failure" ELSE analysis.classification,
     progress |-> analysis.classification, firstFailure |-> analysis.firstFailure]

\* import_board_artifact: without the script's report there is nothing to import.
Manifest(initiated) ==
    IF report = <<>>
    THEN [status |-> "fail", classification |-> "", progress |-> "", firstFailure |-> 0]
    ELSE Judged(Analysis(initiated))

ImportArtifact ==
    /\ pc = "exited" /\ imported = <<>>
    /\ \E initiated \in [1..REPEAT -> BOOLEAN] : imported' = <<Manifest(initiated)>>
    /\ UNCHANGED vars

ArtifactNext == RunWorkload \/ ImportArtifact

-----------------------------------------------------------------------------
\* The script on the board and the importer on the host classify the same
\* evidence by rules that were written twice: they agree on what passes and
\* under which name, and on which repeat was the first that did not.
HostAgreesWithBoard ==
    imported # <<>> /\ report # <<>> =>
        /\ imported[1].status = "pass" <=> report[1] = 0
        /\ report[1] = 0 => imported[1].classification = report[2]
        /\ FIRST_FAILURE # 0 => imported[1].firstFailure = FIRST_FAILURE
        /\ repeats # <<>> => (imported[1].progress \in Passes <=> verdicts[Len(verdicts)] \in RepeatPasses \cup SdpPasses)
=============================================================================
