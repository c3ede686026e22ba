--------------------------- MODULE BoardToolsProofs ---------------------------
(***************************************************************************)
(* Proofs about the three tools of the board that share nothing, and about *)
(* the import of the artifact that one of them leaves.                     *)
(* nvdla-board-workload: for any number of repeats, any grace of the       *)
(* watchdog and processes that SIGKILL may not end. nvdla-benchmark-       *)
(* launch: for all timeouts and any width of the argument of alarm. nvdla- *)
(* power-sampler: for any number of rails and samples. The three side by   *)
(* side: every behaviour of the composition is one of each.                *)
(***************************************************************************)
EXTENDS MCBoardTools, TLAPS

\* A command that runs, was killed or ended by itself is told apart, and no
\* status is the absence of one.
StatusesAreDistinct ==
    /\ Running \notin Codes \cup {Killed} /\ Killed \notin Codes
    /\ None \notin Codes \cup {Killed, Timeout}

-----------------------------------------------------------------------------
(* The verdicts: the first condition that holds names the outcome.         *)

\* What First returns when condition k is the first to hold.
LEMMA FirstIs ==
    ASSUME NEW rules, NEW n \in Nat, DOMAIN rules = 1 .. n,
           NEW k \in 1 .. n, rules[k][1], \A j \in 1 .. k - 1 : ~rules[j][1]
    PROVE  First(rules) = rules[k][2]
  <1> DEFINE P(i) == i \in DOMAIN rules /\ rules[i][1] /\ \A j \in 1 .. i - 1 : ~rules[j][1]
  <1>1. P(k)
    OBVIOUS
  <1>2. \A i : P(i) => i = k
    OBVIOUS
  <1>3. (CHOOSE i \in DOMAIN rules : rules[i][1] /\ \A j \in 1 .. i - 1 : ~rules[j][1]) = k
    BY <1>1, <1>2
  <1> QED
    BY <1>3 DEF First

\* Passing outcomes are only those that a verdict calls so.
LenetOutcomes == {"runtime-timeout", "runtime-failure", "initiated-without-irq", "partial-operation-sequence",
                  "irq-without-completion", "missing-output", "output-mismatch", "pass"}

\* A LeNet repeat has one of eight outcomes, and a timeout has its own.
LEMMA LenetOutcome ==
    ASSUME NEW run_status, NEW seen
    PROVE  /\ LenetVerdict(run_status, seen) \in LenetOutcomes
           /\ run_status = Timeout => LenetVerdict(run_status, seen) = "runtime-timeout"
  <1> DEFINE rules == <<
    <<run_status = Timeout,       "runtime-timeout">>,
    <<Failed(run_status),         "runtime-failure">>,
    <<~seen.irq,                  "initiated-without-irq">>,
    <<seen.operations = "partial", "partial-operation-sequence">>,
    <<seen.operations = "none",   "irq-without-completion">>,
    <<Empty(seen),                "missing-output">>,
    <<seen.output # "exact",      "output-mismatch">>,
    <<TRUE,                       "pass">> >>
  <1>1. LenetVerdict(run_status, seen) = First(rules)
    BY DEF LenetVerdict
  <1>2. DOMAIN rules = 1 .. 8 /\ 8 \in Nat
    OBVIOUS
  <1>3. \A k \in 1 .. 8 : rules[k][2] \in LenetOutcomes
    BY DEF LenetOutcomes
  <1>4. rules[8][1] = TRUE /\ (run_status = Timeout => rules[1][1]) /\ rules[1][2] = "runtime-timeout"
    OBVIOUS
  <1> HIDE DEF rules
  <1>5. PICK k \in 1 .. 8 : rules[k][1] /\ \A j \in 1 .. k - 1 : ~rules[j][1]
    BY <1>4
  <1>6. First(rules) = rules[k][2]
    BY <1>2, <1>5, FirstIs
  <1>7. run_status = Timeout => First(rules) = "runtime-timeout"
    <2>1. ASSUME run_status = Timeout PROVE First(rules) = rules[1][2]
      <3>1. /\ rules[1][1] /\ 1 \in 1 .. 8
            /\ \A j \in 1 .. 1 - 1 : ~rules[j][1]
        BY <1>4, <2>1
      <3> QED
        BY <3>1, <1>2, FirstIs
    <2> QED
      BY <2>1, <1>4
  <1> QED
    BY <1>1, <1>3, <1>6, <1>7

Resnet50Outcomes == {"runtime-timeout", "runtime-failure", "initiated-without-irq", "missing-output",
                     "irq-without-completion", "partial-hwl-sequence", "invalid-output-format",
                     "output-shape-mismatch", "output-mismatch", "exact-pass",
                     "execution-pass-oracle-pending"}

\* A ResNet-50 repeat has one of eleven outcomes.
LEMMA Resnet50Outcome ==
    ASSUME NEW run_status, NEW seen
    PROVE  /\ Resnet50Verdict(run_status, seen) \in Resnet50Outcomes
           /\ run_status = Timeout => Resnet50Verdict(run_status, seen) = "runtime-timeout"
  <1> DEFINE rules == <<
    <<run_status = Timeout,       "runtime-timeout">>,
    <<Failed(run_status),         "runtime-failure">>,
    <<~seen.irq,                  "initiated-without-irq">>,
    <<Empty(seen),                "missing-output">>,
    <<seen.operations = "none",   "irq-without-completion">>,
    <<seen.operations = "partial", "partial-hwl-sequence">>,
    <<seen.output = "invalid",    "invalid-output-format">>,
    <<seen.output = "misshapen",  "output-shape-mismatch">>,
    <<GOLDEN_OUTPUT /\ seen.output # "exact", "output-mismatch">>,
    <<GOLDEN_OUTPUT,                     "exact-pass">>,
    <<TRUE,                       "execution-pass-oracle-pending">> >>
  <1>1. Resnet50Verdict(run_status, seen) = First(rules)
    BY DEF Resnet50Verdict
  <1>2. DOMAIN rules = 1 .. 11 /\ 11 \in Nat
    OBVIOUS
  <1>3. \A k \in 1 .. 11 : rules[k][2] \in Resnet50Outcomes
    BY DEF Resnet50Outcomes
  <1>4. rules[11][1] = TRUE /\ (run_status = Timeout => rules[1][1]) /\ rules[1][2] = "runtime-timeout"
    OBVIOUS
  <1> HIDE DEF rules
  <1>5. PICK k \in 1 .. 11 : rules[k][1] /\ \A j \in 1 .. k - 1 : ~rules[j][1]
    BY <1>4
  <1>6. First(rules) = rules[k][2]
    BY <1>2, <1>5, FirstIs
  <1>7. run_status = Timeout => First(rules) = "runtime-timeout"
    <2>1. ASSUME run_status = Timeout PROVE First(rules) = rules[1][2]
      <3>1. /\ rules[1][1] /\ 1 \in 1 .. 11
            /\ \A j \in 1 .. 1 - 1 : ~rules[j][1]
        BY <1>4, <2>1
      <3> QED
        BY <3>1, <1>2, FirstIs
    <2> QED
      BY <2>1, <1>4
  <1> QED
    BY <1>1, <1>3, <1>6, <1>7

SdpOutcomes == {"runtime-timeout", "runtime-protocol-failure", "missing-output", "initiated-without-irq",
                "irq-without-completion", "exact-pass", "diagnostic-pass-oracle-inconclusive",
                "unexpected-output-mismatch"}

\* An sdp run has one of eight outcomes.
LEMMA SdpOutcome ==
    ASSUME NEW client_status, NEW seen
    PROVE  /\ SdpVerdict(client_status, seen) \in SdpOutcomes
           /\ client_status = Timeout => SdpVerdict(client_status, seen) = "runtime-timeout"
  <1> DEFINE rules == <<
    <<client_status = Timeout,    "runtime-timeout">>,
    <<Failed(client_status),      "runtime-protocol-failure">>,
    <<seen.output = "missing",    "missing-output">>,
    <<~seen.irq,                  "initiated-without-irq">>,
    <<seen.operations = "none",   "irq-without-completion">>,
    <<seen.output = "exact",      "exact-pass">>,
    <<seen.output \in {"zero", "empty"}, "diagnostic-pass-oracle-inconclusive">>,
    <<TRUE,                       "unexpected-output-mismatch">> >>
  <1>1. SdpVerdict(client_status, seen) = First(rules)
    BY DEF SdpVerdict
  <1>2. DOMAIN rules = 1 .. 8 /\ 8 \in Nat
    OBVIOUS
  <1>3. \A k \in 1 .. 8 : rules[k][2] \in SdpOutcomes
    BY DEF SdpOutcomes
  <1>4. rules[8][1] = TRUE /\ (client_status = Timeout => rules[1][1]) /\ rules[1][2] = "runtime-timeout"
    OBVIOUS
  <1> HIDE DEF rules
  <1>5. PICK k \in 1 .. 8 : rules[k][1] /\ \A j \in 1 .. k - 1 : ~rules[j][1]
    BY <1>4
  <1>6. First(rules) = rules[k][2]
    BY <1>2, <1>5, FirstIs
  <1>7. client_status = Timeout => First(rules) = "runtime-timeout"
    <2>1. ASSUME client_status = Timeout PROVE First(rules) = rules[1][2]
      <3>1. /\ rules[1][1] /\ 1 \in 1 .. 8
            /\ \A j \in 1 .. 1 - 1 : ~rules[j][1]
        BY <1>4, <2>1
      <3> QED
        BY <3>1, <1>2, FirstIs
    <2> QED
      BY <2>1, <1>4
  <1> QED
    BY <1>1, <1>3, <1>6, <1>7

-----------------------------------------------------------------------------
(* run_with_watchdog keeps the promise of a bounded command.               *)

InCommand == {"wait", "kill", "return"}
BeforeCommand == {"checks", "server"}
AfterCommand == {"stop", "judge"}

\* Where the script is says what it knows of the command; the watchdog signals
\* a command only after it has marked the timeout, and only one that is still
\* the script's current one.
Watched ==
    /\ pc \in BeforeCommand \cup InCommand \cup AfterCommand \cup {"finish", "exited"}
    /\ pc \in BeforeCommand => watchdog = "sleep" /\ ~marker /\ command = Running
    /\ pc \in BeforeCommand \cup InCommand => status = None
    /\ pc \in {"kill", "return"} => command_status = command /\ Ended
    /\ pc = "return" => watchdog = "done"
    /\ pc \in AfterCommand => status # None /\ (marker => status = Timeout)
    /\ watchdog \in {"mark", "term", "grace"} => pc \in {"wait", "kill"}
    /\ watchdog \in {"term", "grace"} => marker
    /\ command = Killed => marker
    /\ command \in Codes \cup {Running, Killed}

LEMMA WatchedInit == ASSUME StatusesAreDistinct, Init PROVE Watched
  BY DEF Init, Watched, BeforeCommand, InCommand, AfterCommand, StatusesAreDistinct, Ended

\* Every step of script, watchdog, command and server keeps it.
LEMMA WatchedStep == ASSUME StatusesAreDistinct, Watched, [Next]_vars PROVE Watched'
  <1> USE DEF Watched, BeforeCommand, InCommand, AfterCommand, StatusesAreDistinct, Ended,
          Proceed, Conclude, verdictVars, countVars, commandVars, serverVars
  <1>1. CASE CheckPrerequisite \/ StartServer \/ LookAtServer \/ Finish \/ Abort \/ ServerEnds
    BY <1>1 DEF CheckPrerequisite, StartServer, LookAtServer, Finish, Abort, ServerEnds
  <1>2. CASE WaitCommand
    BY <1>2 DEF WaitCommand
  <1>9. CASE EndWatchdog
    BY <1>9 DEF EndWatchdog
  <1>10. CASE Return
    <2>1. command_status # None /\ status' \in {Timeout, command_status} /\ (marker => status' = Timeout)
      BY <1>10 DEF Return
    <2>2. pc = "return" /\ pc' \in AfterCommand
          /\ UNCHANGED <<command, watchdog, marker, command_status>>
      BY <1>10 DEF Return
    <2> QED
      BY <2>1, <2>2
  <1>3. CASE JudgeRepeat
    <2>1. PICK outcome :
            IF outcome \notin RepeatPasses
            THEN Conclude(1, outcome) /\ UNCHANGED commandVars
            ELSE IF LastRepeat THEN Conclude(0, FinalClassification) /\ UNCHANGED commandVars
                 ELSE /\ Proceed("wait")
                      /\ command' = Running /\ watchdog' = "sleep" /\ marker' = FALSE
                      /\ command_status' = None /\ status' = None
      BY <1>3 DEF JudgeRepeat
    <2> QED
      BY <1>3, <2>1 DEF JudgeRepeat
  <1>4. CASE JudgeSdp
    <2>1. pc = "judge" /\ pc' = "finish" /\ UNCHANGED commandVars
      BY <1>4 DEF JudgeSdp
    <2> QED
      BY <2>1
  <1>5. CASE CheckCommand \/ Mark
    BY <1>5 DEF CheckCommand, Mark, InRun
  <1>6. CASE Term \/ Kill
    BY <1>6 DEF Term, Kill, Signalled
  <1>7. CASE CommandEnds
    BY <1>7 DEF CommandEnds
  <1>8. CASE UNCHANGED vars
    BY <1>8 DEF vars
  <1> QED
    BY <1>1, <1>2, <1>3, <1>4, <1>5, <1>6, <1>7, <1>8, <1>9, <1>10 DEF Next, Script, Watchdog, Exited

\* A step of any of the processes is one of the promise, or changes nothing
\* that it speaks of.
LEMMA CommandStepIsPromised == ASSUME StatusesAreDistinct, Watched, [Next]_vars PROVE [Promise!Next]_(Promise!vars)
  <1> USE DEF Watched, BeforeCommand, InCommand, AfterCommand, StatusesAreDistinct, Ended, commandVars
  <1>1. CASE CheckPrerequisite \/ StartServer \/ WaitCommand \/ EndWatchdog \/ LookAtServer \/ Finish
             \/ Abort \/ ServerEnds \/ JudgeSdp \/ CheckCommand \/ UNCHANGED vars
    <2>1. UNCHANGED <<command, marker, status>>
      BY <1>1 DEF CheckPrerequisite, StartServer, WaitCommand, EndWatchdog, LookAtServer, Finish, Abort,
                  ServerEnds, JudgeSdp, CheckCommand, vars
    <2> QED
      BY <2>1 DEF Promise!vars
  <1>2. CASE Return
    BY <1>2 DEF Return, Promise!Next, Promise!Return
  <1>3. CASE JudgeRepeat
    <2>1. \/ UNCHANGED commandVars
          \/ command' = Running /\ marker' = FALSE /\ status' = None
      BY <1>3 DEF JudgeRepeat
    <2>2. status # None
      BY <1>3 DEF JudgeRepeat
    <2> QED
      BY <2>1, <2>2 DEF Promise!vars, Promise!Next, Promise!StartAnother, Promise!Init
  <1>4. CASE Mark
    BY <1>4 DEF Mark, Promise!Next, Promise!TimePasses
  <1>5. CASE Term \/ Kill
    BY <1>5 DEF Term, Kill, Signalled, Promise!Next, Promise!TimePasses
  <1>6. CASE CommandEnds
    BY <1>6 DEF CommandEnds, Promise!Next, Promise!EndByItself
  <1> QED
    BY <1>1, <1>2, <1>3, <1>4, <1>5, <1>6 DEF Next, Script, Watchdog, Exited

\* Whichever of script, watchdog and command is the fastest: what the script is
\* told is 124 if the watchdog marked the command, and else its own status.
THEOREM WatchdogBoundsItsCommands == ASSUME StatusesAreDistinct PROVE Spec => BoundsItsCommands
  <1>1. Init => Promise!Init
    BY DEF Init, Promise!Init
  <1>2. Watched /\ [Next]_vars => Watched'
    BY WatchedStep
  <1>3. Watched /\ [Next]_vars => [Promise!Next]_(Promise!vars)
    BY CommandStepIsPromised
  <1> QED
    BY <1>1, <1>2, <1>3, WatchedInit, PTL DEF Spec, BoundsItsCommands, Promise!Spec

-----------------------------------------------------------------------------
(* The repeats and the one verdict about them.                             *)

Runs == Codes \cup {None, Killed, Timeout}
BoardOutcomes == LenetOutcomes \cup Resnet50Outcomes \cup SdpOutcomes
Repeat == [runtime : Runs, seen : Evidence, classification : BoardOutcomes]

\* The counters; the name of a verdict is the outcome of a repeat or of the
\* whole, and what is judged is a run that has ended.
Typed ==
    /\ MODE \in Modes /\ check \in 1 .. Len(Prerequisites) /\ GOLDEN_OUTPUT \in BOOLEAN
    /\ index \in 1 .. REPEAT + 1 /\ PASS_COUNT \in 0 .. REPEAT /\ FIRST_FAILURE \in 0 .. REPEAT
    /\ repeats \in Seq(Repeat)
    /\ STATUS \in {0, 1} /\ CLASSIFICATION \in Classifications
    /\ report \in {<<>>} \cup ({0, 1} \X Classifications)
    /\ command \in Codes \cup {Running, Killed} /\ command_status \in Codes \cup {None, Killed}
    /\ status \in Runs
    /\ watchdog \in {"sleep", "mark", "term", "grace", "done"}
    /\ marker \in BOOLEAN /\ unreaped \in BOOLEAN /\ kernelBad \in BOOLEAN
    /\ server \in {"none", "running", "ended", "reaped"} /\ look \in 0 .. LastLook
    /\ pc = "judge" /\ MODE = "sdp" => server = "reaped" \/ unreaped

\* Until it is judged every repeat has passed; nothing is reported before the end.
Judging ==
    /\ pc \in {"server", "stop"} => MODE = "sdp"
    /\ pc \in BeforeCommand => repeats = <<>> /\ FIRST_FAILURE = 0 /\ index = 1
    /\ pc \in InCommand \cup AfterCommand =>
         /\ FIRST_FAILURE = 0 /\ index <= REPEAT
         /\ IF MODE = "sdp" THEN repeats = <<>> ELSE Len(repeats) = index - 1
         /\ \A k \in 1 .. Len(repeats) : repeats[k].classification \in RepeatPasses
    /\ MODE # "sdp" => \A k \in 1 .. Len(repeats) :
         repeats[k].classification \notin RepeatPasses => k = Len(repeats) /\ k = FIRST_FAILURE
    /\ report # <<>> => pc = "exited"

\* The verdict passes for nothing but repeats that all passed, and a timeout
\* has its own.
Verdict ==
    pc = "finish" =>
        /\ STATUS = 0 <=> CLASSIFICATION \in Passes
        /\ STATUS = 0 => IF MODE = "sdp" THEN Len(repeats) = 1
                                         ELSE Len(repeats) = REPEAT /\ FIRST_FAILURE = 0
        /\ Len(repeats) > 0 /\ (marker \/ command = Killed) =>
             repeats[Len(repeats)].classification = "runtime-timeout"

Reported ==
    report # <<>> =>
        /\ report[1] = 0 <=> report[2] \in Passes
        /\ report[1] = 0 => ~kernelBad /\ IF MODE = "sdp" THEN Len(repeats) = 1
                                           ELSE Len(repeats) = REPEAT /\ FIRST_FAILURE = 0

RunnerInv == Watched /\ Typed /\ Judging /\ Verdict /\ Reported

\* Every outcome is a classification, and no failure is a pass.
LEMMA OutcomesAreNamed ==
    /\ BoardOutcomes \subseteq Classifications /\ Passes \subseteq Classifications
    /\ LenetOutcomes \cap Passes = {}
    /\ Resnet50Outcomes \cap Passes \subseteq RepeatPasses
    /\ SdpOutcomes \cap Passes \subseteq SdpPasses
    /\ SdpPasses \subseteq Passes
    /\ \A k \in 1 .. Len(Prerequisites) : Prerequisites[k] \in Classifications /\ Prerequisites[k] \notin Passes
    /\ "kernel-log-failure" \notin Passes
    /\ FinalClassification \in Passes
    /\ "runtime-timeout" \notin RepeatPasses \cup SdpPasses
  <1>1. ASSUME NEW k \in 1 .. Len(Prerequisites)
        PROVE  Prerequisites[k] \in Classifications /\ Prerequisites[k] \notin Passes
    <2>1. k \in 1 .. 6
      BY DEF Prerequisites
    <2>2. \/ Prerequisites[k] = "payload-verification-failure" \/ Prerequisites[k] = "module-load-failure"
          \/ Prerequisites[k] = "driver-bind-failure" \/ Prerequisites[k] = "render-node-failure"
          \/ Prerequisites[k] = "irq-registration-failure"
      BY <2>1 DEF Prerequisites
    <2> QED
      BY <2>2, k \in DOMAIN Prerequisites DEF Classifications, Passes, SdpPasses
  <1>2. FinalClassification \in Passes
    BY DEF FinalClassification, Passes, SdpPasses
  <1>3. Passes \subseteq Classifications
    BY DEF Classifications
  <1>4. LenetOutcomes \cap Passes = {} /\ LenetOutcomes \subseteq Classifications
    BY DEF Classifications, LenetOutcomes, Passes, SdpPasses
  <1>5. Resnet50Outcomes \cap Passes \subseteq RepeatPasses /\ Resnet50Outcomes \subseteq Classifications
    BY DEF Classifications, Resnet50Outcomes, Passes, SdpPasses, RepeatPasses
  <1>6. SdpOutcomes \cap Passes \subseteq SdpPasses /\ SdpPasses \subseteq Passes /\ SdpOutcomes \subseteq Classifications
    BY DEF Classifications, SdpOutcomes, Passes, SdpPasses
  <1>7. "kernel-log-failure" \notin Passes /\ "runtime-timeout" \notin RepeatPasses \cup SdpPasses
    BY DEF Passes, SdpPasses, RepeatPasses
  <1> QED
    BY <1>1, <1>2, <1>3, <1>4, <1>5, <1>6, <1>7 DEF BoardOutcomes

LEMMA RunnerInit == ASSUME StatusesAreDistinct, Init PROVE RunnerInv
  <1>1. Watched
    BY WatchedInit
  <1>2. repeats = <<>> /\ repeats \in Seq(Repeat) /\ Len(repeats) = 0 /\ report = <<>>
    BY DEF Init
  <1>3. Typed
    <2>1. 1 \in 1 .. Len(Prerequisites)
      BY DEF Prerequisites
    <2>2. 0 \in 0 .. LastLook /\ 1 \in 1 .. REPEAT + 1 /\ 0 \in 0 .. REPEAT
      BY WorkloadAssumption DEF LastLook
    <2>3. report \in {<<>>} \cup ({0, 1} \X Classifications) /\ CLASSIFICATION \in Classifications
      BY DEF Init, Classifications
    <2>4. ~(pc = "judge" /\ MODE = "sdp")
      BY DEF Init
    <2>5. command \in Codes \cup {Running, Killed} /\ command_status \in Codes \cup {None, Killed} /\ status \in Runs
      BY DEF Init, Runs
    <2> QED
      BY <1>2, <2>1, <2>2, <2>3, <2>4, <2>5 DEF Init, Typed
  <1>4. Judging
    BY <1>2, WorkloadAssumption DEF Init, Judging, BeforeCommand, InCommand, AfterCommand
  <1>5. Verdict /\ Reported
    BY <1>2 DEF Init, Verdict, Reported
  <1> QED
    BY <1>1, <1>3, <1>4, <1>5 DEF RunnerInv

\* A repeat that is judged is the last of the sequence.
LEMMA AppendedRepeat ==
    ASSUME repeats \in Seq(Repeat), NEW r \in Repeat, repeats' = Append(repeats, r)
    PROVE  /\ repeats' \in Seq(Repeat) /\ Len(repeats') = Len(repeats) + 1
           /\ repeats'[Len(repeats')] = r
           /\ \A k \in 1 .. Len(repeats') : k # Len(repeats') => k \in 1 .. Len(repeats) /\ repeats'[k] = repeats[k]
  <1> DEFINE S == Repeat
  <1>1. repeats \in Seq(S) /\ r \in S
    OBVIOUS
  <1> HIDE DEF S
  <1>2. /\ repeats' \in Seq(S) /\ Len(repeats') = Len(repeats) + 1
        /\ repeats'[Len(repeats')] = r
        /\ \A k \in 1 .. Len(repeats') : k # Len(repeats') => k \in 1 .. Len(repeats) /\ repeats'[k] = repeats[k]
    BY <1>1
  <1> QED
    BY <1>2 DEF S

\* The verdict of a repeat, of whichever workload: a failing one never passes
\* for the whole, a timeout is never overlooked.
LEMMA RepeatOutcome ==
    ASSUME Typed, MODE # "sdp", NEW seen \in Evidence
    PROVE  /\ RepeatVerdict(seen) \in BoardOutcomes
           /\ RepeatVerdict(seen) \notin RepeatPasses => RepeatVerdict(seen) \notin Passes
           /\ status = Timeout => RepeatVerdict(seen) = "runtime-timeout"
  <1>1. CASE MODE = "lenet"
    BY <1>1, LenetOutcome, OutcomesAreNamed DEF RepeatVerdict, BoardOutcomes
  <1>2. CASE MODE # "lenet"
    BY <1>2, Resnet50Outcome, OutcomesAreNamed DEF RepeatVerdict, BoardOutcomes
  <1> QED
    BY <1>1, <1>2

LEMMA JudgeRepeatStep == ASSUME StatusesAreDistinct, RunnerInv, JudgeRepeat PROVE (Typed /\ Judging /\ Verdict /\ Reported)'
  <1> USE DEF Proceed, Conclude, verdictVars, commandVars, serverVars
  <1>a. /\ Watched /\ Typed /\ Judging /\ pc = "judge" /\ MODE # "sdp" /\ report = <<>>
        /\ UNCHANGED <<MODE, GOLDEN_OUTPUT, check, server, look, unreaped, kernelBad>>
    BY DEF RunnerInv, JudgeRepeat, Judging
  <1>1. PICK seen \in Evidence :
          /\ repeats' = Append(repeats, [runtime |-> status, seen |-> seen, classification |-> RepeatVerdict(seen)])
          /\ IF RepeatVerdict(seen) \notin RepeatPasses
             THEN /\ Conclude(1, RepeatVerdict(seen)) /\ FIRST_FAILURE' = index
                  /\ UNCHANGED <<index, PASS_COUNT, commandVars>>
             ELSE /\ PASS_COUNT' = index /\ index' = index + 1 /\ UNCHANGED FIRST_FAILURE
                  /\ IF LastRepeat
                     THEN Conclude(0, FinalClassification) /\ UNCHANGED commandVars
                     ELSE /\ Proceed("wait")
                          /\ command' = Running /\ watchdog' = "sleep" /\ marker' = FALSE
                          /\ command_status' = None /\ status' = None
    BY DEF JudgeRepeat
  <1> DEFINE outcome == RepeatVerdict(seen)
             r == [runtime |-> status, seen |-> seen, classification |-> outcome]
  <1>2. /\ outcome \in BoardOutcomes /\ outcome \in Classifications
        /\ outcome \notin RepeatPasses => outcome \notin Passes
        /\ status = Timeout => outcome = "runtime-timeout"
    BY <1>a, RepeatOutcome, OutcomesAreNamed
  <1> HIDE DEF outcome
  <1>3. r \in Repeat /\ r.classification = outcome
    BY <1>a, <1>2 DEF Typed, Repeat
  <1> HIDE DEF r
  <1>4. /\ repeats' \in Seq(Repeat) /\ Len(repeats') = Len(repeats) + 1
        /\ repeats'[Len(repeats')] = r
        /\ \A k \in 1 .. Len(repeats') : k # Len(repeats') => k \in 1 .. Len(repeats) /\ repeats'[k] = repeats[k]
    BY <1>a, <1>1, <1>3, AppendedRepeat DEF Typed, outcome, r
  <1>5. /\ FIRST_FAILURE = 0 /\ index \in 1 .. REPEAT /\ Len(repeats) = index - 1 /\ index = Len(repeats')
        /\ \A k \in 1 .. Len(repeats) : repeats[k].classification \in RepeatPasses
    BY <1>a, <1>4, WorkloadAssumption DEF Judging, Typed, AfterCommand
  <1>6. \A k \in 1 .. Len(repeats') :
          IF k = Len(repeats') THEN repeats'[k].classification = outcome
          ELSE repeats'[k].classification \in RepeatPasses
    BY <1>3, <1>4, <1>5
  <1>7. marker \/ command = Killed => outcome = "runtime-timeout"
    BY <1>2, <1>a DEF Watched, AfterCommand
  <1>8. CASE outcome \notin RepeatPasses
    <2>1. /\ pc' = "finish" /\ STATUS' = 1 /\ CLASSIFICATION' = outcome /\ FIRST_FAILURE' = index
          /\ UNCHANGED <<index, PASS_COUNT, commandVars, report>>
      BY <1>1, <1>8 DEF outcome
    <2>2. Typed'
      BY <2>1, <1>a, <1>2, <1>4, <1>5 DEF Typed, Runs
    <2>3. Judging'
      BY <2>1, <1>a, <1>4, <1>5, <1>6 DEF Judging, BeforeCommand, InCommand, AfterCommand
    <2>4. Verdict' /\ Reported'
      BY <2>1, <1>a, <1>2, <1>4, <1>6, <1>7, <1>8 DEF Verdict, Reported
    <2> QED
      BY <2>2, <2>3, <2>4
  <1>9. CASE outcome \in RepeatPasses /\ LastRepeat
    <2>1. /\ pc' = "finish" /\ STATUS' = 0 /\ CLASSIFICATION' = FinalClassification /\ FIRST_FAILURE' = 0
          /\ index' = index + 1 /\ PASS_COUNT' = index /\ index = REPEAT
          /\ UNCHANGED <<commandVars, report>>
      BY <1>1, <1>5, <1>9 DEF outcome, LastRepeat
    <2>2. Typed'
      BY <2>1, <1>a, <1>2, <1>4, <1>5, OutcomesAreNamed DEF Typed, Runs
    <2>3. Judging'
      BY <2>1, <1>a, <1>4, <1>5, <1>6, <1>9 DEF Judging, BeforeCommand, InCommand, AfterCommand
    <2>4. Verdict' /\ Reported'
      BY <2>1, <1>a, <1>2, <1>4, <1>5, <1>6, <1>7, <1>9, OutcomesAreNamed DEF Verdict, Reported
    <2> QED
      BY <2>2, <2>3, <2>4
  <1>10. CASE outcome \in RepeatPasses /\ ~LastRepeat
    <2>1. /\ pc' = "wait" /\ UNCHANGED <<STATUS, CLASSIFICATION, report>> /\ FIRST_FAILURE' = 0
          /\ index' = index + 1 /\ PASS_COUNT' = index /\ index # REPEAT
          /\ command' = Running /\ watchdog' = "sleep" /\ marker' = FALSE
          /\ command_status' = None /\ status' = None
      BY <1>1, <1>5, <1>10 DEF outcome, LastRepeat
    <2>5. /\ index' \in 1 .. REPEAT + 1 /\ index' <= REPEAT /\ PASS_COUNT' \in 0 .. REPEAT
          /\ FIRST_FAILURE' \in 0 .. REPEAT /\ Len(repeats') = index' - 1
      BY <2>1, <1>5, WorkloadAssumption
    <2>6. \A k \in 1 .. Len(repeats') : repeats'[k].classification \in RepeatPasses
      BY <1>6, <1>10
    <2>2. Typed'
      BY <2>1, <2>5, <1>a, <1>4 DEF Typed, Runs
    <2>3. Judging'
      BY <2>1, <2>5, <2>6, <1>a DEF Judging, BeforeCommand, InCommand, AfterCommand
    <2>4. Verdict' /\ Reported'
      BY <2>1, <1>a DEF Verdict, Reported
    <2> QED
      BY <2>2, <2>3, <2>4
  <1> QED
    BY <1>8, <1>9, <1>10

LEMMA JudgeSdpStep == ASSUME StatusesAreDistinct, RunnerInv, JudgeSdp PROVE (Typed /\ Judging /\ Verdict /\ Reported)'
  <1>a. /\ Watched /\ Typed /\ Judging /\ pc = "judge" /\ MODE = "sdp" /\ report = <<>> /\ FIRST_FAILURE = 0
        /\ UNCHANGED <<MODE, GOLDEN_OUTPUT, check, index, FIRST_FAILURE, commandVars, serverVars, kernelBad>>
    BY DEF RunnerInv, JudgeSdp, Judging, AfterCommand
  <1>1. PICK seen \in Evidence :
          LET outcome == SdpVerdict(status, seen) IN
          /\ repeats' = <<[runtime |-> status, seen |-> seen, classification |-> outcome]>>
          /\ Conclude(IF outcome \in SdpPasses THEN 0 ELSE 1, outcome)
          /\ PASS_COUNT' = IF outcome \in SdpPasses THEN 1 ELSE 0
    BY DEF JudgeSdp
  <1> DEFINE outcome == SdpVerdict(status, seen)
             r == [runtime |-> status, seen |-> seen, classification |-> outcome]
  <1>2. /\ outcome \in BoardOutcomes /\ outcome \in Classifications
        /\ outcome \in SdpPasses <=> outcome \in Passes
        /\ status = Timeout => outcome = "runtime-timeout"
    BY SdpOutcome, OutcomesAreNamed DEF BoardOutcomes
  <1>3. /\ pc' = "finish" /\ STATUS' = (IF outcome \in SdpPasses THEN 0 ELSE 1)
        /\ CLASSIFICATION' = outcome /\ UNCHANGED report
        /\ PASS_COUNT' = (IF outcome \in SdpPasses THEN 1 ELSE 0)
        /\ repeats' = <<r>>
    BY <1>1 DEF Conclude
  <1> HIDE DEF outcome
  <1>4. r \in Repeat /\ r.classification = outcome
    BY <1>a, <1>2 DEF Typed, Repeat
  <1> HIDE DEF r
  <1>5. repeats' \in Seq(Repeat) /\ Len(repeats') = 1 /\ repeats'[1] = r
    BY <1>3, <1>4
  <1>6. marker \/ command = Killed => outcome = "runtime-timeout"
    BY <1>2, <1>a DEF Watched, AfterCommand
  <1>7. PASS_COUNT' \in 0 .. REPEAT
    BY <1>3, WorkloadAssumption
  <1>8. Typed'
    BY <1>a, <1>2, <1>3, <1>5, <1>7 DEF Typed, Runs, commandVars, serverVars
  <1>9. Judging'
    BY <1>a, <1>3, <1>5 DEF Judging, BeforeCommand, InCommand, AfterCommand
  <1>10. Verdict' /\ Reported'
    BY <1>a, <1>2, <1>3, <1>4, <1>5, <1>6 DEF Verdict, Reported, commandVars
  <1> QED
    BY <1>8, <1>9, <1>10

\* The kernel log overrides a pass, never a failure.
LEMMA FinishStep == ASSUME StatusesAreDistinct, RunnerInv, Finish PROVE (Typed /\ Judging /\ Verdict /\ Reported)'
  <1>1. /\ Typed /\ Judging /\ Verdict /\ pc = "finish" /\ pc' = "exited"
        /\ UNCHANGED <<countVars, commandVars, serverVars, kernelBad>>
        /\ STATUS' = (IF kernelBad THEN 1 ELSE STATUS)
        /\ CLASSIFICATION' = (IF kernelBad THEN "kernel-log-failure" ELSE CLASSIFICATION)
        /\ report' = <<STATUS', CLASSIFICATION'>>
    BY DEF RunnerInv, Finish, FinalStatus
  <1>2. STATUS' \in {0, 1} /\ CLASSIFICATION' \in Classifications
    BY <1>1 DEF Typed, Classifications
  <1>3. report'[1] = STATUS' /\ report'[2] = CLASSIFICATION' /\ report' \in {0, 1} \X Classifications
    BY <1>1, <1>2
  <1>4. Typed'
    BY <1>1, <1>2, <1>3 DEF Typed, countVars, commandVars, serverVars
  <1>5. Judging' /\ Verdict'
    BY <1>1 DEF Judging, Verdict, countVars, BeforeCommand, InCommand, AfterCommand
  <1>6. Reported'
    BY <1>1, <1>3, OutcomesAreNamed DEF Verdict, Reported, countVars
  <1> QED
    BY <1>4, <1>5, <1>6

\* Steps that judge nothing.
LEMMA OtherSteps ==
    ASSUME StatusesAreDistinct, RunnerInv, [Next]_vars, ~JudgeRepeat, ~JudgeSdp, ~Finish
    PROVE  (Typed /\ Judging /\ Verdict /\ Reported)'
  <1> USE DEF Proceed, Conclude, verdictVars, countVars, commandVars, serverVars
  <1>a. Watched /\ Typed /\ Judging /\ Verdict /\ Reported
    BY DEF RunnerInv
  <1>1. CASE CheckPrerequisite
    <2>1. /\ pc = "checks" /\ check \in 1 .. Len(Prerequisites)
          /\ UNCHANGED <<MODE, GOLDEN_OUTPUT, index, PASS_COUNT, FIRST_FAILURE, repeats, commandVars, serverVars,
                         kernelBad, report>>
      BY <1>1, <1>a DEF CheckPrerequisite, Typed
    <2>2. repeats = <<>> /\ FIRST_FAILURE = 0 /\ index = 1 /\ report = <<>> /\ Len(repeats) = 0
      BY <2>1, <1>a DEF Judging, BeforeCommand
    <2>3. Prerequisites[check] \in Classifications /\ Prerequisites[check] \notin Passes
      BY <2>1, OutcomesAreNamed
    <2>4. /\ check' \in 1 .. Len(Prerequisites) /\ pc' \in {"checks", "server", "wait", "finish"}
          /\ pc' = "server" => MODE = "sdp"
          /\ \/ UNCHANGED <<STATUS, CLASSIFICATION>> /\ pc' # "finish"
             \/ STATUS' = 1 /\ CLASSIFICATION' = Prerequisites[check]
      <3>1. check < Len(Prerequisites) => check + 1 \in 1 .. Len(Prerequisites)
        BY <2>1, Len(Prerequisites) = 6 DEF Prerequisites
      <3> QED
        BY <1>1, <2>1, <3>1 DEF CheckPrerequisite
    <2>5. Typed'
      BY <2>1, <2>3, <2>4, <1>a DEF Typed
    <2>6. Judging'
      BY <2>1, <2>2, <2>4, WorkloadAssumption DEF Judging, BeforeCommand, InCommand, AfterCommand
    <2>7. Verdict' /\ Reported'
      BY <2>1, <2>2, <2>3, <2>4 DEF Verdict, Reported
    <2> QED
      BY <2>5, <2>6, <2>7
  <1>2. CASE StartServer \/ ServerEnds
    <2>1. Typed'
      BY <1>2, <1>a DEF StartServer, ServerEnds, Typed
    <2>2. Judging'
      BY <1>2, <1>a, WorkloadAssumption DEF StartServer, ServerEnds, Judging, BeforeCommand, InCommand,
          AfterCommand
    <2>3. Verdict' /\ Reported'
      BY <1>2, <1>a DEF StartServer, ServerEnds, Verdict, Reported
    <2> QED
      BY <2>1, <2>2, <2>3
  <1>3. CASE LookAtServer
    <2>1. /\ pc = "stop" /\ pc' \in {"stop", "judge"} /\ look' \in 0 .. LastLook
          /\ server' \in {"none", "running", "ended", "reaped"} /\ unreaped' \in BOOLEAN
          /\ pc' = "judge" => server' = "reaped" \/ unreaped'
          /\ UNCHANGED <<countVars, commandVars, kernelBad, verdictVars>>
      <3>1. /\ server \in {"none", "running", "ended", "reaped"} /\ unreaped \in BOOLEAN
            /\ look \in 0 .. LastLook
        BY <1>a DEF Typed
      <3>2. LastLook \in Nat
        BY WorkloadAssumption DEF LastLook
      <3>3. CASE SeesEnd
        BY <1>3, <3>1, <3>3 DEF LookAtServer
      <3>4. CASE ~SeesEnd /\ look = LastLook
        BY <1>3, <3>1, <3>4 DEF LookAtServer
      <3>5. CASE ~SeesEnd /\ look # LastLook
        <4>1. look + 1 \in 0 .. LastLook
          BY <3>1, <3>2, <3>5
        <4> QED
          BY <1>3, <3>1, <3>5, <4>1 DEF LookAtServer, AfterSignal
      <3> QED
        BY <3>3, <3>4, <3>5
    <2>2. Typed'
      BY <2>1, <1>a DEF Typed
    <2> QED
      BY <2>1, <2>2, <1>a DEF Judging, BeforeCommand, InCommand, AfterCommand, Verdict, Reported
  <1>4. CASE WaitCommand \/ EndWatchdog \/ Return
    <2>1. /\ pc \in InCommand /\ pc' \in InCommand \cup AfterCommand /\ (pc' = "stop" => MODE = "sdp")
          /\ (pc' = "judge" => MODE # "sdp") /\ pc' # "server"
          /\ UNCHANGED <<countVars, serverVars, verdictVars, command, marker>>
          /\ kernelBad' \in {kernelBad, TRUE}
      BY <1>4 DEF WaitCommand, EndWatchdog, Return, InCommand, AfterCommand
    <2>2. /\ command_status' \in Codes \cup {None, Killed} /\ status' \in Runs
          /\ watchdog' \in {"sleep", "mark", "term", "grace", "done"}
      BY <1>4, <1>a DEF WaitCommand, EndWatchdog, Return, Ended, Typed, Runs
    <2>3. Typed'
      BY <2>1, <2>2, <1>a, ZenonT(30) DEF Typed
    <2>4. Judging' /\ report = <<>>
      BY <2>1, <1>a DEF Judging, BeforeCommand, InCommand, AfterCommand
    <2> QED
      BY <2>1, <2>3, <2>4 DEF Verdict, Reported, InCommand, AfterCommand
  <1>5. CASE Watchdog \/ CommandEnds
    <2>1. /\ UNCHANGED <<pc, command_status, status, countVars, verdictVars, serverVars, kernelBad>>
          /\ pc \in InCommand
          /\ marker' \in BOOLEAN /\ watchdog' \in {"sleep", "mark", "term", "grace", "done"}
          /\ command' \in Codes \cup {Running, Killed}
      BY <1>5, <1>a DEF Watchdog, CommandEnds, CheckCommand, Mark, Term, Kill, Signalled, InRun, InCommand,
                         Watched, Typed
    <2>2. Typed'
      BY <2>1, <1>a DEF Typed
    <2> QED
      BY <2>1, <2>2, <1>a DEF Judging, BeforeCommand, InCommand, AfterCommand, Verdict, Reported
  <1>6. CASE Abort \/ UNCHANGED vars
    <2>1. /\ UNCHANGED <<countVars, commandVars, serverVars, verdictVars, kernelBad>>
          /\ pc' \in {pc, "exited"}
      BY <1>6 DEF Abort, vars
    <2>2. Typed'
      BY <2>1, <1>a DEF Typed
    <2> QED
      BY <2>1, <2>2, <1>a DEF Judging, BeforeCommand, InCommand, AfterCommand, Verdict, Reported
  <1> QED
    BY <1>1, <1>2, <1>3, <1>4, <1>5, <1>6 DEF Next, Script, Exited

LEMMA RunnerInvariant == ASSUME StatusesAreDistinct PROVE Spec => []RunnerInv
  <1>1. RunnerInv /\ [Next]_vars => RunnerInv'
    <2>1. RunnerInv /\ [Next]_vars => Watched'
      BY WatchedStep DEF RunnerInv
    <2>2. RunnerInv /\ [Next]_vars => (Typed /\ Judging /\ Verdict /\ Reported)'
      BY JudgeRepeatStep, JudgeSdpStep, FinishStep, OtherSteps
    <2> QED
      BY <2>1, <2>2 DEF RunnerInv
  <1> QED
    BY <1>1, RunnerInit, PTL DEF Spec

LEMMA VerdictsOfRepeats ==
    ASSUME repeats \in Seq(Repeat)
    PROVE  /\ DOMAIN verdicts = 1 .. Len(repeats) /\ Len(verdicts) = Len(repeats)
           /\ \A k \in 1 .. Len(repeats) : verdicts[k] = repeats[k].classification
           /\ verdicts # <<>> => Len(repeats) > 0
  <1>1. DOMAIN repeats = 1 .. Len(repeats) /\ Len(repeats) \in Nat
    OBVIOUS
  <1>2. verdicts = [k \in 1 .. Len(repeats) |-> repeats[k].classification]
    BY <1>1 DEF verdicts
  <1>3. DOMAIN verdicts = 1 .. Len(repeats) /\ Len(verdicts) = Len(repeats)
    BY <1>1, <1>2
  <1>4. Len(repeats) = 0 => verdicts = <<>>
    BY <1>1, <1>2
  <1> QED
    BY <1>1, <1>2, <1>3, <1>4

\* The script, its watchdog and the server keep their types; every verdict is
\* one that the script knows, and an sdp run is judged after its server.
THEOREM RunnerTypesAreKept == ASSUME StatusesAreDistinct PROVE Spec => []TypeOK
  <1>1. RunnerInv => TypeOK
    <2> SUFFICES ASSUME RunnerInv PROVE TypeOK
      OBVIOUS
    <2>1. Watched /\ Typed
      BY DEF RunnerInv
    <2>2. \A k \in DOMAIN repeats : repeats[k].seen \in Evidence /\ verdicts[k] \in Classifications
      <3>1. repeats \in Seq(Repeat)
        BY <2>1 DEF Typed
      <3>2. \A k \in DOMAIN repeats : repeats[k] \in Repeat
        BY <3>1
      <3>3. \A k \in DOMAIN repeats : repeats[k].seen \in Evidence /\ repeats[k].classification \in BoardOutcomes
        BY <3>2 DEF Repeat
      <3> QED
        BY <3>1, <3>3, VerdictsOfRepeats, OutcomesAreNamed
    <2>3. pc \in {"checks", "server", "wait", "kill", "return", "stop", "judge", "finish", "exited"}
      BY <2>1 DEF Watched, BeforeCommand, InCommand, AfterCommand
    <2> QED
      BY <2>1, <2>2, <2>3 DEF Typed, TypeOK, Runs
  <1> QED
    BY <1>1, RunnerInvariant, PTL

\* A repeat begins only after all earlier ones passed, and the exit status 0
\* means that every repeat passed and the kernel log is clean.
THEOREM FirstFailureEnds == ASSUME StatusesAreDistinct PROVE Spec => []StopsAtFirstFailure
  <1>1. RunnerInv => StopsAtFirstFailure
    BY VerdictsOfRepeats DEF RunnerInv, Typed, Judging, Reported, StopsAtFirstFailure
  <1> QED
    BY <1>1, RunnerInvariant, PTL

\* Neither a command that the watchdog killed nor one that it had marked when
\* it ended by itself is judged as anything else than a timeout.
THEOREM TimeoutsAreNamed == ASSUME StatusesAreDistinct PROVE Spec => []TimeoutIsNamed
  <1>1. RunnerInv => TimeoutIsNamed
    BY VerdictsOfRepeats DEF RunnerInv, Typed, Verdict, TimeoutIsNamed
  <1> QED
    BY <1>1, RunnerInvariant, PTL

-----------------------------------------------------------------------------
(* The import of the artifact.  The host has its own rules for what a      *)
(* repeat left behind; what passes by the one passes by the other.         *)

\* A LeNet repeat passes for one reason only.
LenetEarned(r) ==
    /\ r.runtime # Timeout /\ ~Failed(r.runtime) /\ r.seen.irq
    /\ r.seen.operations \notin {"none", "partial"}
    /\ ~Empty(r.seen) /\ r.seen.output = "exact"

LEMMA LenetIsEarned ==
    ASSUME NEW r
    PROVE  LenetVerdict(r.runtime, r.seen) \in RepeatPasses <=> LenetEarned(r)
  <1> DEFINE rules == <<
    <<r.runtime = Timeout,           "runtime-timeout">>,
    <<Failed(r.runtime),             "runtime-failure">>,
    <<~r.seen.irq,                   "initiated-without-irq">>,
    <<r.seen.operations = "partial", "partial-operation-sequence">>,
    <<r.seen.operations = "none",    "irq-without-completion">>,
    <<Empty(r.seen),                 "missing-output">>,
    <<r.seen.output # "exact",       "output-mismatch">>,
    <<TRUE,                          "pass">> >>
  <1>1. LenetVerdict(r.runtime, r.seen) = First(rules)
    BY DEF LenetVerdict
  <1>2. DOMAIN rules = 1 .. 8 /\ 8 \in Nat
    OBVIOUS
  <1>3. /\ rules[1][1] <=> r.runtime = Timeout
        /\ rules[2][1] <=> Failed(r.runtime)
        /\ rules[3][1] <=> ~r.seen.irq
        /\ rules[4][1] <=> r.seen.operations = "partial"
        /\ rules[5][1] <=> r.seen.operations = "none"
        /\ rules[6][1] <=> Empty(r.seen)
        /\ rules[7][1] <=> r.seen.output # "exact"
        /\ rules[8][1] <=> TRUE
    OBVIOUS
  <1>4. \A k \in 1 .. 8 : rules[k][2] \in RepeatPasses <=> k = 8
    BY DEF RepeatPasses, SdpPasses, Passes
  <1> HIDE DEF rules
  <1>5. PICK k \in 1 .. 8 : rules[k][1] /\ \A j \in 1 .. k - 1 : ~rules[j][1]
    <2>1. rules[8][1]
      BY <1>3
    <2> QED
      BY <2>1
  <1>6. First(rules) = rules[k][2]
    BY <1>2, <1>5, FirstIs
  <1>7. k = 8 <=> LenetEarned(r)
    BY <1>3, <1>5 DEF LenetEarned
  <1> QED
    BY <1>1, <1>4, <1>6, <1>7

\* A ResNet-50 repeat passes for one reason, too, and its name says whether
\* there was an output to compare with.
Resnet50Earned(r) ==
    /\ r.runtime # Timeout /\ ~Failed(r.runtime) /\ r.seen.irq
    /\ ~Empty(r.seen) /\ r.seen.operations \notin {"none", "partial"}
    /\ r.seen.output \notin {"invalid", "misshapen"}
    /\ GOLDEN_OUTPUT => r.seen.output = "exact"


LEMMA Resnet50IsEarned ==
    ASSUME NEW r
    PROVE  /\ Resnet50Verdict(r.runtime, r.seen) \in RepeatPasses <=> Resnet50Earned(r)
           /\ Resnet50Earned(r) =>
                Resnet50Verdict(r.runtime, r.seen) = IF GOLDEN_OUTPUT THEN "exact-pass" ELSE "execution-pass-oracle-pending"
  <1> DEFINE rules == <<
    <<r.runtime = Timeout,                      "runtime-timeout">>,
    <<Failed(r.runtime),                        "runtime-failure">>,
    <<~r.seen.irq,                              "initiated-without-irq">>,
    <<Empty(r.seen),                            "missing-output">>,
    <<r.seen.operations = "none",               "irq-without-completion">>,
    <<r.seen.operations = "partial",            "partial-hwl-sequence">>,
    <<r.seen.output = "invalid",                "invalid-output-format">>,
    <<r.seen.output = "misshapen",              "output-shape-mismatch">>,
    <<GOLDEN_OUTPUT /\ r.seen.output # "exact", "output-mismatch">>,
    <<GOLDEN_OUTPUT,                            "exact-pass">>,
    <<TRUE,                                     "execution-pass-oracle-pending">> >>
  <1>1. Resnet50Verdict(r.runtime, r.seen) = First(rules)
    BY DEF Resnet50Verdict
  <1>2. DOMAIN rules = 1 .. 11 /\ 11 \in Nat
    OBVIOUS
  <1>3. /\ rules[1][1] <=> r.runtime = Timeout
        /\ rules[2][1] <=> Failed(r.runtime)
        /\ rules[3][1] <=> ~r.seen.irq
        /\ rules[4][1] <=> Empty(r.seen)
        /\ rules[5][1] <=> r.seen.operations = "none"
        /\ rules[6][1] <=> r.seen.operations = "partial"
        /\ rules[7][1] <=> r.seen.output = "invalid"
        /\ rules[8][1] <=> r.seen.output = "misshapen"
        /\ rules[9][1] <=> GOLDEN_OUTPUT /\ r.seen.output # "exact"
        /\ rules[10][1] <=> GOLDEN_OUTPUT
        /\ rules[11][1] <=> TRUE
    OBVIOUS
  <1>4. \A k \in 1 .. 11 : rules[k][2] \in RepeatPasses <=> k \in {10, 11}
    BY DEF RepeatPasses, SdpPasses, Passes
  <1>8. rules[10][2] = "exact-pass" /\ rules[11][2] = "execution-pass-oracle-pending"
    OBVIOUS
  <1> HIDE DEF rules
  <1>5. PICK k \in 1 .. 11 : rules[k][1] /\ \A j \in 1 .. k - 1 : ~rules[j][1]
    <2>1. rules[11][1]
      BY <1>3
    <2> QED
      BY <2>1
  <1>6. First(rules) = rules[k][2]
    BY <1>2, <1>5, FirstIs
  <1>7. (k \in {10, 11} <=> Resnet50Earned(r)) /\ (k = 10 => GOLDEN_OUTPUT) /\ (k = 11 => ~GOLDEN_OUTPUT)
    BY <1>3, <1>5 DEF Resnet50Earned
  <1> QED
    BY <1>1, <1>4, <1>6, <1>7, <1>8

\* An sdp run passes if its output is the golden one, or has no byte that is
\* not zero.
SdpEarned(r) ==
    /\ r.runtime # Timeout /\ ~Failed(r.runtime) /\ r.seen.irq /\ r.seen.operations # "none"
    /\ r.seen.output \in {"exact", "zero", "empty"}


LEMMA SdpIsEarned ==
    ASSUME NEW r
    PROVE  /\ SdpVerdict(r.runtime, r.seen) \in SdpPasses <=> SdpEarned(r)
           /\ SdpEarned(r) => SdpVerdict(r.runtime, r.seen) =
                IF r.seen.output = "exact" THEN "exact-pass" ELSE "diagnostic-pass-oracle-inconclusive"
           /\ SdpVerdict(r.runtime, r.seen) = "unexpected-output-mismatch" =>
                r.seen.output \notin {"exact", "zero", "empty"}
  <1> DEFINE rules == <<
    <<r.runtime = Timeout,                 "runtime-timeout">>,
    <<Failed(r.runtime),                   "runtime-protocol-failure">>,
    <<r.seen.output = "missing",           "missing-output">>,
    <<~r.seen.irq,                         "initiated-without-irq">>,
    <<r.seen.operations = "none",          "irq-without-completion">>,
    <<r.seen.output = "exact",             "exact-pass">>,
    <<r.seen.output \in {"zero", "empty"}, "diagnostic-pass-oracle-inconclusive">>,
    <<TRUE,                                "unexpected-output-mismatch">> >>
  <1>1. SdpVerdict(r.runtime, r.seen) = First(rules)
    BY DEF SdpVerdict
  <1>2. DOMAIN rules = 1 .. 8 /\ 8 \in Nat
    OBVIOUS
  <1>3. /\ rules[1][1] <=> r.runtime = Timeout
        /\ rules[2][1] <=> Failed(r.runtime)
        /\ rules[3][1] <=> r.seen.output = "missing"
        /\ rules[4][1] <=> ~r.seen.irq
        /\ rules[5][1] <=> r.seen.operations = "none"
        /\ rules[6][1] <=> r.seen.output = "exact"
        /\ rules[7][1] <=> r.seen.output \in {"zero", "empty"}
        /\ rules[8][1] <=> TRUE
    OBVIOUS
  <1>4. \A k \in 1 .. 8 : rules[k][2] \in SdpPasses <=> k \in {6, 7}
    BY DEF RepeatPasses, SdpPasses, Passes
  <1>8. /\ rules[6][2] = "exact-pass" /\ rules[7][2] = "diagnostic-pass-oracle-inconclusive"
        /\ \A k \in 1 .. 8 : rules[k][2] = "unexpected-output-mismatch" => k = 8
    OBVIOUS
  <1> HIDE DEF rules
  <1>5. PICK k \in 1 .. 8 : rules[k][1] /\ \A j \in 1 .. k - 1 : ~rules[j][1]
    <2>1. rules[8][1]
      BY <1>3
    <2> QED
      BY <2>1
  <1>6. First(rules) = rules[k][2]
    BY <1>2, <1>5, FirstIs
  <1>7. /\ k \in {6, 7} <=> SdpEarned(r)
        /\ k = 6 => r.seen.output = "exact"
        /\ k = 7 => r.seen.output # "exact"
        /\ k = 8 => r.seen.output \notin {"exact", "zero", "empty"}
    BY <1>3, <1>5 DEF SdpEarned
  <1> QED
    BY <1>1, <1>4, <1>6, <1>7, <1>8

\* The host asks for more, and in another order: whether the command could be
\* started and the processors were.  What passes is the same.
LEMMA HostLenetAgrees ==
    ASSUME NEW r, NEW initiated
    PROVE  /\ HostLenet(r, initiated) \in RepeatPasses \cup Passes <=> LenetEarned(r)
           /\ LenetEarned(r) => HostLenet(r, initiated) = "pass"
  <1> DEFINE rules == <<
    <<r.runtime = Timeout,             "runtime-timeout">>,
    <<r.runtime \in NotStarted,        "runtime-start-failure">>,
    <<Failed(r.runtime) /\ ~initiated, "task-initiation-failure">>,
    <<~r.seen.irq,                     NoInterrupt(initiated)>>,
    <<r.seen.operations = "none",      "irq-without-completion">>,
    <<r.seen.operations = "partial",   "partial-operation-sequence">>,
    <<Empty(r.seen),                   "missing-output">>,
    <<r.seen.output # "exact",         "output-mismatch">>,
    <<Failed(r.runtime),               "runtime-failure">>,
    <<TRUE,                            "pass">> >>
  <1>1. HostLenet(r, initiated) = First(rules)
    BY DEF HostLenet
  <1>2. DOMAIN rules = 1 .. 10 /\ 10 \in Nat
    OBVIOUS
  <1>3. /\ rules[1][1] <=> r.runtime = Timeout
        /\ rules[2][1] <=> r.runtime \in NotStarted
        /\ rules[3][1] <=> Failed(r.runtime) /\ ~initiated
        /\ rules[4][1] <=> ~r.seen.irq
        /\ rules[5][1] <=> r.seen.operations = "none"
        /\ rules[6][1] <=> r.seen.operations = "partial"
        /\ rules[7][1] <=> Empty(r.seen)
        /\ rules[8][1] <=> r.seen.output # "exact"
        /\ rules[9][1] <=> Failed(r.runtime)
        /\ rules[10][1] <=> TRUE
    OBVIOUS
  <1>4. \A k \in 1 .. 10 : rules[k][2] \in RepeatPasses \cup Passes <=> k = 10
    BY DEF RepeatPasses, SdpPasses, Passes, NoInterrupt
  <1>8. rules[10][2] = "pass"
    OBVIOUS
  <1> HIDE DEF rules
  <1>5. PICK k \in 1 .. 10 : rules[k][1] /\ \A j \in 1 .. k - 1 : ~rules[j][1]
    <2>1. rules[10][1]
      BY <1>3
    <2> QED
      BY <2>1
  <1>6. First(rules) = rules[k][2]
    BY <1>2, <1>5, FirstIs
  <1>7. k = 10 <=> LenetEarned(r)
    <2>1. LenetEarned(r) => r.runtime \notin NotStarted
      BY DEF LenetEarned, NotStarted, Failed
    <2>2. LenetEarned(r) => k = 10
      BY <1>3, <1>5, <2>1 DEF LenetEarned
    <2>3. k = 10 => LenetEarned(r)
      BY <1>3, <1>5 DEF LenetEarned
    <2> QED
      BY <2>2, <2>3
  <1> QED
    BY <1>1, <1>4, <1>6, <1>7, <1>8

\* Of a ResNet-50 repeat whose evidence is complete the host takes the board's
\* word, and the board has no other reason to pass it.
LEMMA HostResnet50Agrees ==
    ASSUME NEW r, NEW initiated, r.classification = Resnet50Verdict(r.runtime, r.seen)
    PROVE  /\ HostResnet50(r, initiated) \in RepeatPasses \cup Passes <=> Resnet50Earned(r)
           /\ Resnet50Earned(r) => HostResnet50(r, initiated) = r.classification
  <1> DEFINE started == initiated \/ r.seen.operations # "none"
  <1> DEFINE rules == <<
    <<r.runtime = Timeout,                    "runtime-timeout">>,
    <<r.runtime \in NotStarted,               "runtime-start-failure">>,
    <<Failed(r.runtime) /\ ~started,          "task-initiation-failure">>,
    <<~r.seen.irq,                            NoInterrupt(started)>>,
    <<r.seen.operations = "none",             "irq-without-completion">>,
    <<r.seen.operations = "partial",          "partial-hwl-sequence">>,
    <<r.seen.output = "missing",              "missing-output">>,
    <<r.seen.output \in {"empty", "invalid"}, "invalid-output-format">>,
    <<r.seen.output = "misshapen",            "output-shape-mismatch">>,
    <<TRUE,                                   BoardsWord(r)>> >>
  <1>1. HostResnet50(r, initiated) = First(rules)
    BY DEF HostResnet50
  <1>2. DOMAIN rules = 1 .. 10 /\ 10 \in Nat
    OBVIOUS
  <1>3. /\ rules[1][1] <=> r.runtime = Timeout
        /\ rules[2][1] <=> r.runtime \in NotStarted
        /\ rules[3][1] <=> Failed(r.runtime) /\ ~started
        /\ rules[4][1] <=> ~r.seen.irq
        /\ rules[5][1] <=> r.seen.operations = "none"
        /\ rules[6][1] <=> r.seen.operations = "partial"
        /\ rules[7][1] <=> r.seen.output = "missing"
        /\ rules[8][1] <=> r.seen.output \in {"empty", "invalid"}
        /\ rules[9][1] <=> r.seen.output = "misshapen"
        /\ rules[10][1] <=> TRUE
    OBVIOUS
  <1>4. (\A k \in 1 .. 9 : rules[k][2] \notin RepeatPasses \cup Passes) /\ rules[10][2] = BoardsWord(r)
    BY DEF RepeatPasses, SdpPasses, Passes, NoInterrupt
  <1> HIDE DEF rules
  <1>5. PICK k \in 1 .. 10 : rules[k][1] /\ \A j \in 1 .. k - 1 : ~rules[j][1]
    <2>1. rules[10][1]
      BY <1>3
    <2> QED
      BY <2>1
  <1>6. First(rules) = rules[k][2]
    BY <1>2, <1>5, FirstIs
  <1>7. Resnet50Earned(r) => k = 10
    <2>1. Resnet50Earned(r) => r.runtime \notin NotStarted /\ r.seen.output \notin {"missing", "empty"}
      BY DEF Resnet50Earned, NotStarted, Failed, Empty
    <2> QED
      BY <1>3, <1>5, <2>1 DEF Resnet50Earned
  <1>8. /\ BoardsWord(r) = r.classification
        /\ r.classification \in RepeatPasses \cup Passes <=> Resnet50Earned(r)
    BY Resnet50IsEarned, Resnet50Outcome, OutcomesAreNamed DEF BoardsWord, Resnet50Outcomes
  <1> QED
    BY <1>1, <1>4, <1>5, <1>6, <1>7, <1>8

\* The host compares an sdp output only where the script got to comparing it.
LEMMA HostSdpAgrees ==
    ASSUME NEW r, NEW initiated, r.classification = SdpVerdict(r.runtime, r.seen)
    PROVE  /\ HostSdp(r, initiated) \in RepeatPasses \cup Passes <=> SdpEarned(r)
           /\ SdpEarned(r) => HostSdp(r, initiated) = r.classification
  <1> DEFINE rules == <<
    <<r.runtime = Timeout,                                "runtime-timeout">>,
    <<r.runtime \in NotStarted,                           "runtime-start-failure">>,
    <<Failed(r.runtime) /\ ~initiated,                    "task-initiation-failure">>,
    <<~r.seen.irq,                                        NoInterrupt(initiated)>>,
    <<r.seen.operations = "none",                         "irq-without-completion">>,
    <<r.seen.output = "missing",                          "missing-output">>,
    <<Compared(r) /\ r.seen.output = "exact",             "exact-pass">>,
    <<Compared(r) /\ r.seen.output \in {"zero", "empty"}, "diagnostic-pass-oracle-inconclusive">>,
    <<TRUE,                                               "unexpected-output-mismatch">> >>
  <1>1. HostSdp(r, initiated) = First(rules)
    BY DEF HostSdp
  <1>2. DOMAIN rules = 1 .. 9 /\ 9 \in Nat
    OBVIOUS
  <1>3. /\ rules[1][1] <=> r.runtime = Timeout
        /\ rules[2][1] <=> r.runtime \in NotStarted
        /\ rules[3][1] <=> Failed(r.runtime) /\ ~initiated
        /\ rules[4][1] <=> ~r.seen.irq
        /\ rules[5][1] <=> r.seen.operations = "none"
        /\ rules[6][1] <=> r.seen.output = "missing"
        /\ rules[7][1] <=> Compared(r) /\ r.seen.output = "exact"
        /\ rules[8][1] <=> Compared(r) /\ r.seen.output \in {"zero", "empty"}
        /\ rules[9][1] <=> TRUE
    OBVIOUS
  <1>4. \A k \in 1 .. 9 : rules[k][2] \in RepeatPasses \cup Passes <=> k \in {7, 8}
    BY DEF RepeatPasses, SdpPasses, Passes, NoInterrupt
  <1>9. rules[7][2] = "exact-pass" /\ rules[8][2] = "diagnostic-pass-oracle-inconclusive"
    OBVIOUS
  <1> HIDE DEF rules
  <1>5. PICK k \in 1 .. 9 : rules[k][1] /\ \A j \in 1 .. k - 1 : ~rules[j][1]
    <2>1. rules[9][1]
      BY <1>3
    <2> QED
      BY <2>1
  <1>6. First(rules) = rules[k][2]
    BY <1>2, <1>5, FirstIs
  <1>8. /\ SdpEarned(r) => Compared(r)
        /\ Compared(r) /\ r.seen.output \in {"exact", "zero", "empty"} => SdpEarned(r)
    BY SdpIsEarned DEF Compared
  <1>7. k \in {7, 8} <=> SdpEarned(r)
    <2>0. SdpEarned(r) => r.runtime \notin NotStarted
      BY DEF SdpEarned, NotStarted, Failed
    <2>1. SdpEarned(r) => k \in {7, 8}
      BY <1>3, <1>5, <1>8, <2>0 DEF SdpEarned
    <2>2. k \in {7, 8} => SdpEarned(r)
      BY <1>3, <1>5, <1>8
    <2> QED
      BY <2>1, <2>2
  <1>10. (k = 7 => r.seen.output = "exact") /\ (k = 8 => r.seen.output # "exact")
    BY <1>3, <1>5
  <1> QED
    BY <1>1, <1>4, <1>6, <1>7, <1>9, <1>10, SdpIsEarned

\* The rules of the board and of the host for the workload of this run.
BoardVerdict(r) ==
    IF MODE = "sdp" THEN SdpVerdict(r.runtime, r.seen)
    ELSE IF MODE = "lenet" THEN LenetVerdict(r.runtime, r.seen) ELSE Resnet50Verdict(r.runtime, r.seen)

HostVerdict(r, initiated) == IF MODE = "sdp" THEN HostSdp(r, initiated) ELSE HostRepeat(r, initiated)

ModePasses == IF MODE = "sdp" THEN SdpPasses ELSE RepeatPasses

\* Rules that were written twice: of what the board has judged by its own, the
\* host passes the same, under the same name.
LEMMA HostAgrees ==
    ASSUME MODE \in Modes, NEW r, r.classification = BoardVerdict(r), NEW initiated
    PROVE  /\ HostVerdict(r, initiated) \in RepeatPasses \cup Passes <=> r.classification \in ModePasses
           /\ r.classification \in RepeatPasses \cup Passes <=> r.classification \in ModePasses
           /\ r.classification \in ModePasses =>
                /\ HostVerdict(r, initiated) = r.classification
                /\ MODE # "sdp" =>
                     (r.classification = "execution-pass-oracle-pending" <=> MODE = "resnet50" /\ ~GOLDEN_OUTPUT)
  <1> USE DEF HostVerdict, BoardVerdict, HostRepeat, ModePasses
  <1>1. CASE MODE = "sdp"
    <2>1. r.classification \in SdpOutcomes
      BY <1>1, SdpOutcome
    <2>2. r.classification \in RepeatPasses \cup Passes => r.classification \in SdpPasses
      BY <2>1 DEF SdpOutcomes, RepeatPasses, Passes, SdpPasses
    <2>3. SdpPasses \subseteq Passes
      BY DEF Passes
    <2> QED
      BY <1>1, <2>2, <2>3, SdpIsEarned, HostSdpAgrees
  <1>2. CASE MODE = "lenet"
    <2>1. r.classification \in LenetOutcomes
      BY <1>2, LenetOutcome
    <2>2. /\ r.classification \in RepeatPasses \cup Passes <=> r.classification \in RepeatPasses
          /\ r.classification \in RepeatPasses => r.classification = "pass"
      BY <2>1 DEF LenetOutcomes, RepeatPasses, Passes, SdpPasses
    <2> QED
      BY <1>2, <2>2, LenetIsEarned, HostLenetAgrees
  <1>3. CASE MODE = "resnet50"
    <2>1. r.classification \in Resnet50Outcomes
      BY <1>3, Resnet50Outcome
    <2>2. r.classification \in RepeatPasses \cup Passes <=> r.classification \in RepeatPasses
      BY <2>1 DEF Resnet50Outcomes, RepeatPasses, Passes, SdpPasses
    <2> QED
      BY <1>3, <2>2, Resnet50IsEarned, HostResnet50Agrees
  <1> QED
    BY <1>1, <1>2, <1>3, WorkloadAssumption

\* What the script concludes from its repeats, before and after it looks at the
\* kernel log.
Concluded(code, classification) ==
    /\ MODE # "sdp" /\ Len(repeats) > 0 => FIRST_FAILURE # 0 \/ Len(repeats) = REPEAT
    /\ code = 0 =>
         classification = IF MODE = "sdp" THEN repeats[1].classification ELSE FinalClassification

\* The repeats are filed under the verdicts that they earned, a failing one is
\* the last and has been named as the first.
Filed ==
    /\ \A k \in 1 .. Len(repeats) : repeats[k].classification = BoardVerdict(repeats[k])
    /\ MODE = "sdp" => FIRST_FAILURE = 0 /\ Len(repeats) <= 1
    /\ FIRST_FAILURE # 0 =>
         FIRST_FAILURE = Len(repeats) /\ repeats[FIRST_FAILURE].classification \notin RepeatPasses
    /\ pc = "finish" => Concluded(STATUS, CLASSIFICATION)
    /\ report # <<>> => Concluded(report[1], report[2])

LEMMA FiledInit == ASSUME Init PROVE Filed
  <1>1. repeats = <<>> /\ Len(repeats) = 0 /\ FIRST_FAILURE = 0 /\ pc = "checks" /\ report = <<>>
    BY DEF Init
  <1> QED
    BY <1>1 DEF Filed

\* Neither the workload nor whether it has a golden output ever changes, and so
\* the rules do not.
LEMMA RulesAreFixed ==
    ASSUME UNCHANGED <<MODE, GOLDEN_OUTPUT>>
    PROVE  /\ \A r : BoardVerdict(r)' = BoardVerdict(r)
           /\ FinalClassification' = FinalClassification
  BY DEF BoardVerdict, Resnet50Verdict, LenetVerdict, SdpVerdict, FinalClassification

LEMMA FiledKept ==
    ASSUME Filed, UNCHANGED <<MODE, GOLDEN_OUTPUT, repeats, FIRST_FAILURE, report>>,
           pc' = "finish" => pc = "finish" /\ UNCHANGED <<STATUS, CLASSIFICATION>>
    PROVE  Filed'
  <1>1. ASSUME NEW k \in 1 .. Len(repeats)
        PROVE  (repeats[k].classification = BoardVerdict(repeats[k]))'
    <2>1. BoardVerdict(repeats[k])' = BoardVerdict(repeats[k])
      BY DEF BoardVerdict, Resnet50Verdict, LenetVerdict, SdpVerdict
    <2> QED
      BY <2>1 DEF Filed
  <1> QED
    BY <1>1, RulesAreFixed DEF Filed, Concluded

LEMMA FiledJudgeRepeat == ASSUME RunnerInv, Filed, JudgeRepeat PROVE Filed'
  <1>a. /\ Typed /\ Judging /\ pc = "judge" /\ MODE # "sdp" /\ report = <<>>
        /\ UNCHANGED <<MODE, GOLDEN_OUTPUT, report>>
    BY DEF RunnerInv, JudgeRepeat, Judging, Conclude, Proceed, verdictVars
  <1>1. PICK seen \in Evidence :
          /\ repeats' = Append(repeats, [runtime |-> status, seen |-> seen, classification |-> RepeatVerdict(seen)])
          /\ IF RepeatVerdict(seen) \notin RepeatPasses
             THEN /\ Conclude(1, RepeatVerdict(seen)) /\ FIRST_FAILURE' = index
             ELSE /\ UNCHANGED FIRST_FAILURE
                  /\ IF LastRepeat THEN Conclude(0, FinalClassification) ELSE Proceed("wait")
    BY DEF JudgeRepeat
  <1> DEFINE outcome == RepeatVerdict(seen)
             r == [runtime |-> status, seen |-> seen, classification |-> outcome]
  <1>2. r \in Repeat /\ r.classification = outcome /\ outcome = BoardVerdict(r)
    <2>1. outcome \in BoardOutcomes
      BY <1>a, RepeatOutcome
    <2> QED
      BY <1>a, <2>1 DEF Typed, Repeat, BoardVerdict, RepeatVerdict
  <1>3. repeats' = Append(repeats, r)
    BY <1>1
  <1> HIDE DEF r
  <1>4. /\ Len(repeats') = Len(repeats) + 1 /\ repeats'[Len(repeats')] = r
        /\ \A k \in 1 .. Len(repeats') : k # Len(repeats') => k \in 1 .. Len(repeats) /\ repeats'[k] = repeats[k]
    BY <1>a, <1>2, <1>3, AppendedRepeat DEF Typed
  <1>5. FIRST_FAILURE = 0 /\ index \in 1 .. REPEAT /\ index = Len(repeats')
    BY <1>a, <1>4, WorkloadAssumption DEF Judging, Typed, AfterCommand
  <1>6. ASSUME NEW k \in 1 .. Len(repeats')
        PROVE  (repeats[k].classification = BoardVerdict(repeats[k]))'
    <2>1. repeats'[k].classification = BoardVerdict(repeats'[k])
      BY <1>2, <1>4 DEF Filed
    <2>2. BoardVerdict(repeats[k])' = BoardVerdict(repeats'[k])
      BY <1>a DEF BoardVerdict, Resnet50Verdict, LenetVerdict, SdpVerdict
    <2> QED
      BY <2>1, <2>2
  <1>7. \/ /\ outcome \notin RepeatPasses /\ pc' = "finish" /\ STATUS' = 1 /\ FIRST_FAILURE' = index
        \/ /\ pc' = "finish" /\ STATUS' = 0 /\ CLASSIFICATION' = FinalClassification
           /\ index = REPEAT /\ FIRST_FAILURE' = 0
        \/ pc' = "wait" /\ FIRST_FAILURE' = 0
    BY <1>1, <1>5 DEF Conclude, Proceed, LastRepeat
  <1> HIDE DEF outcome
  <1>8. (pc = "finish" => Concluded(STATUS, CLASSIFICATION))'
    BY <1>a, <1>5, <1>7, RulesAreFixed DEF Concluded
  <1>9. FIRST_FAILURE' # 0 =>
          FIRST_FAILURE' = Len(repeats') /\ repeats'[FIRST_FAILURE'].classification \notin RepeatPasses
    BY <1>2, <1>4, <1>5, <1>7
  <1> QED
    BY <1>a, <1>6, <1>8, <1>9 DEF Filed

LEMMA FiledJudgeSdp == ASSUME RunnerInv, Filed, JudgeSdp PROVE Filed'
  <1>a. /\ Judging /\ pc = "judge" /\ MODE = "sdp" /\ report = <<>> /\ FIRST_FAILURE = 0
        /\ UNCHANGED <<MODE, GOLDEN_OUTPUT, report, FIRST_FAILURE>>
    BY DEF RunnerInv, JudgeSdp, Judging, AfterCommand, Conclude
  <1>1. PICK seen \in Evidence :
          /\ repeats' = <<[runtime |-> status, seen |-> seen, classification |-> SdpVerdict(status, seen)]>>
          /\ CLASSIFICATION' = SdpVerdict(status, seen)
    BY DEF JudgeSdp, Conclude
  <1> DEFINE r == [runtime |-> status, seen |-> seen, classification |-> SdpVerdict(status, seen)]
  <1>2. r.classification = SdpVerdict(status, seen) /\ r.classification = BoardVerdict(r)
    BY <1>a DEF BoardVerdict
  <1>3. repeats' = <<r>>
    BY <1>1
  <1> HIDE DEF r
  <1>4. Len(repeats') = 1 /\ repeats'[1] = r
    BY <1>3
  <1>5. ASSUME NEW k \in 1 .. Len(repeats')
        PROVE  (repeats[k].classification = BoardVerdict(repeats[k]))'
    <2>1. repeats'[k].classification = BoardVerdict(repeats'[k])
      BY <1>2, <1>4
    <2>2. BoardVerdict(repeats[k])' = BoardVerdict(repeats'[k])
      BY <1>a DEF BoardVerdict, Resnet50Verdict, LenetVerdict, SdpVerdict
    <2> QED
      BY <2>1, <2>2
  <1>6. Concluded(STATUS, CLASSIFICATION)'
    BY <1>a, <1>1, <1>2, <1>4 DEF Concluded
  <1> QED
    BY <1>a, <1>4, <1>5, <1>6 DEF Filed

\* The kernel log can turn a pass into a failure, which names no repeat.
LEMMA FiledFinish == ASSUME RunnerInv, Filed, Finish PROVE Filed'
  <1>1. /\ pc = "finish" /\ pc' = "exited" /\ UNCHANGED <<MODE, GOLDEN_OUTPUT, repeats, FIRST_FAILURE>>
        /\ STATUS' = 0 => STATUS = 0 /\ CLASSIFICATION' = CLASSIFICATION
        /\ report' = <<STATUS', CLASSIFICATION'>>
    BY DEF Finish, FinalStatus, countVars
  <1>2. report'[1] = STATUS' /\ report'[2] = CLASSIFICATION'
    BY <1>1
  <1>3. Concluded(report[1], report[2])'
    BY <1>1, <1>2, RulesAreFixed DEF Filed, Concluded
  <1>4. ASSUME NEW k \in 1 .. Len(repeats)
        PROVE  (repeats[k].classification = BoardVerdict(repeats[k]))'
    <2>1. BoardVerdict(repeats[k])' = BoardVerdict(repeats[k])
      BY <1>1 DEF BoardVerdict, Resnet50Verdict, LenetVerdict, SdpVerdict
    <2> QED
      BY <1>1, <2>1 DEF Filed
  <1> QED
    BY <1>1, <1>3, <1>4 DEF Filed

LEMMA FiledStep == ASSUME RunnerInv, Filed, [Next]_vars PROVE Filed'
  <1>1. CASE JudgeRepeat
    BY <1>1, FiledJudgeRepeat
  <1>2. CASE JudgeSdp
    BY <1>2, FiledJudgeSdp
  <1>3. CASE Finish
    BY <1>3, FiledFinish
  <1>4. CASE CheckPrerequisite
    <2>1. /\ pc = "checks" /\ UNCHANGED <<MODE, GOLDEN_OUTPUT, repeats, FIRST_FAILURE, report>>
          /\ pc' = "finish" => STATUS' = 1
      BY <1>4 DEF CheckPrerequisite, Conclude, Proceed, verdictVars
    <2>2. repeats = <<>> /\ Len(repeats) = 0 /\ FIRST_FAILURE = 0 /\ report = <<>>
      BY <2>1 DEF RunnerInv, Judging, BeforeCommand
    <2> QED
      BY <2>1, <2>2 DEF Filed, Concluded
  <1>5. CASE StartServer \/ WaitCommand \/ EndWatchdog \/ Return \/ LookAtServer
    <2>1. UNCHANGED <<MODE, GOLDEN_OUTPUT, repeats, FIRST_FAILURE, report>> /\ pc' # "finish"
      BY <1>5 DEF StartServer, WaitCommand, EndWatchdog, Return, LookAtServer, Proceed, verdictVars, countVars
    <2> QED
      BY <2>1, FiledKept
  <1>6. CASE Abort \/ Watchdog \/ CommandEnds \/ ServerEnds \/ UNCHANGED vars
    <2>1. /\ UNCHANGED <<MODE, GOLDEN_OUTPUT, repeats, FIRST_FAILURE, report, STATUS, CLASSIFICATION>>
          /\ pc' \in {pc, "exited"}
      BY <1>6 DEF Abort, Watchdog, CheckCommand, Mark, Term, Kill, CommandEnds, ServerEnds, vars, countVars,
          verdictVars
    <2> QED
      BY <2>1, FiledKept
  <1> QED
    BY <1>1, <1>2, <1>3, <1>4, <1>5, <1>6 DEF Next, Script, Exited

\* What HostAgreesWithBoard asks of a manifest.
Agreeing(manifest) ==
    /\ manifest.status = "pass" <=> report[1] = 0
    /\ report[1] = 0 => manifest.classification = report[2]
    /\ FIRST_FAILURE # 0 => manifest.firstFailure = FIRST_FAILURE
    /\ repeats # <<>> => (manifest.progress \in Passes <=> verdicts[Len(verdicts)] \in RepeatPasses \cup SdpPasses)

\* The script's report and what the repeats behind it say.
LEMMA ReportedRepeats ==
    ASSUME RunnerInv, Filed, report # <<>>
    PROVE  /\ MODE \in Modes /\ report[1] \in {0, 1} /\ Len(repeats) \in Nat
           /\ Len(verdicts) = Len(repeats) /\ (repeats # <<>> <=> Len(repeats) > 0)
           /\ DOMAIN repeats = 1 .. Len(repeats)
           /\ \A k \in 1 .. Len(repeats) : /\ verdicts[k] = repeats[k].classification
                                            /\ repeats[k].classification = BoardVerdict(repeats[k])
           /\ Concluded(report[1], report[2])
  <1>1. repeats \in Seq(Repeat) /\ report \in {<<>>} \cup ({0, 1} \X Classifications) /\ MODE \in Modes
    BY DEF RunnerInv, Typed
  <1>2. Len(repeats) \in Nat /\ (repeats # <<>> <=> Len(repeats) > 0) /\ DOMAIN repeats = 1 .. Len(repeats)
    <2> DEFINE S == Repeat
    <2>1. repeats \in Seq(S)
      BY <1>1
    <2> HIDE DEF S
    <2> QED
      BY <2>1
  <1>3. report[1] \in {0, 1}
    BY <1>1
  <1> QED
    BY <1>1, <1>2, <1>3, VerdictsOfRepeats DEF Filed

LEMMA SdpImport ==
    ASSUME RunnerInv, Filed, report # <<>>, MODE = "sdp", NEW initiated
    PROVE  Agreeing(Manifest(initiated))
  <1> DEFINE outcome == IF repeats = <<>> THEN "task-initiation-failure" ELSE HostSdp(repeats[1], initiated[1])
  <1>1. Manifest(initiated) =
          [status |-> IF outcome \in SdpPasses /\ report[1] = 0 /\ ~kernelBad THEN "pass" ELSE "fail",
           classification |-> IF kernelBad THEN "kernel-log-failure" ELSE outcome,
           progress |-> outcome, firstFailure |-> 0]
    BY DEF Manifest, Judged, Analysis
  <1>2. Len(repeats) > 0 =>
          /\ Len(repeats) = 1
          /\ outcome \in RepeatPasses \cup Passes <=> repeats[1].classification \in SdpPasses
          /\ repeats[1].classification \in RepeatPasses \cup Passes <=> repeats[1].classification \in SdpPasses
          /\ repeats[1].classification \in SdpPasses => outcome = repeats[1].classification
    <2> SUFFICES ASSUME Len(repeats) > 0
                 PROVE  /\ Len(repeats) = 1
                        /\ outcome \in RepeatPasses \cup Passes <=> repeats[1].classification \in SdpPasses
                        /\ repeats[1].classification \in RepeatPasses \cup Passes
                             <=> repeats[1].classification \in SdpPasses
                        /\ repeats[1].classification \in SdpPasses => outcome = repeats[1].classification
      OBVIOUS
    <2>0. Len(repeats) \in Nat /\ Len(repeats) <= 1
      BY ReportedRepeats DEF Filed
    <2>1. Len(repeats) = 1 /\ outcome = HostVerdict(repeats[1], initiated[1])
      BY <2>0, ReportedRepeats DEF HostVerdict
    <2>2. MODE \in Modes /\ repeats[1].classification = BoardVerdict(repeats[1])
      BY <2>1, ReportedRepeats
    <2> HIDE DEF outcome
    <2> QED
      BY <2>1, <2>2, HostAgrees DEF ModePasses
  <1>3. report[1] = 0 =>
          /\ Len(repeats) = 1 /\ ~kernelBad
          /\ report[2] = repeats[1].classification /\ report[2] \in Passes
    BY ReportedRepeats DEF RunnerInv, Reported, Concluded
  <1>4. SdpPasses \subseteq Passes
    BY DEF Passes
  <1>5. FIRST_FAILURE = 0
    BY DEF Filed
  <1> HIDE DEF outcome
  <1> QED
    BY <1>1, <1>2, <1>3, <1>4, <1>5, ReportedRepeats DEF Agreeing

\* The repeats that did not pass on the host: those that did not on the board,
\* and those that never ran.
LEMMA FailingRepeats ==
    ASSUME RunnerInv, Filed, report # <<>>, MODE # "sdp", NEW initiated
    PROVE  /\ Failing(Outcomes(initiated)) =
                {k \in 1 .. REPEAT : k > Len(repeats) \/ repeats[k].classification \notin RepeatPasses}
           /\ \A k \in 1 .. REPEAT : k <= Len(repeats) =>
                /\ Outcomes(initiated)[k] \in RepeatPasses \cup Passes <=> repeats[k].classification \in RepeatPasses
                /\ repeats[k].classification \in RepeatPasses =>
                     /\ Outcomes(initiated)[k] \in RepeatPasses
                     /\ Outcomes(initiated)[k] = "execution-pass-oracle-pending" <=> MODE = "resnet50" /\ ~GOLDEN_OUTPUT
  <1> DEFINE outcomes == Outcomes(initiated)
  <1>1. /\ DOMAIN outcomes = 1 .. REPEAT
        /\ \A k \in 1 .. REPEAT : outcomes[k] =
             IF k <= Len(repeats) THEN HostVerdict(repeats[k], initiated[k]) ELSE "missing-repeat-evidence"
    BY ReportedRepeats DEF Outcomes, HostVerdict
  <1> HIDE DEF outcomes
  <1>2. ASSUME NEW k \in 1 .. REPEAT, k <= Len(repeats)
        PROVE  /\ outcomes[k] \in RepeatPasses \cup Passes <=> repeats[k].classification \in RepeatPasses
               /\ repeats[k].classification \in RepeatPasses =>
                    /\ outcomes[k] = repeats[k].classification
                    /\ outcomes[k] = "execution-pass-oracle-pending" <=> MODE = "resnet50" /\ ~GOLDEN_OUTPUT
    <2>1. k \in 1 .. Len(repeats)
      BY <1>2, ReportedRepeats
    <2>2. /\ HostVerdict(repeats[k], initiated[k]) \in RepeatPasses \cup Passes
               <=> repeats[k].classification \in ModePasses
          /\ repeats[k].classification \in ModePasses =>
                /\ HostVerdict(repeats[k], initiated[k]) = repeats[k].classification
                /\ MODE # "sdp" => (repeats[k].classification = "execution-pass-oracle-pending"
                                      <=> MODE = "resnet50" /\ ~GOLDEN_OUTPUT)
      BY <2>1, ReportedRepeats, HostAgrees
    <2> QED
      BY <1>1, <1>2, <2>2 DEF ModePasses
  <1>3. "missing-repeat-evidence" \notin RepeatPasses
    BY DEF RepeatPasses
  <1>4. ASSUME NEW k \in 1 .. REPEAT
        PROVE  outcomes[k] \notin RepeatPasses <=> k > Len(repeats) \/ repeats[k].classification \notin RepeatPasses
    BY <1>1, <1>2, <1>3, ReportedRepeats
  <1> QED
    BY <1>1, <1>2, <1>4 DEF Failing, outcomes

LEMMA RepeatedImport ==
    ASSUME RunnerInv, Filed, report # <<>>, MODE # "sdp", NEW initiated
    PROVE  Agreeing(Manifest(initiated))
  <1> DEFINE outcomes == Outcomes(initiated)
             n == Len(repeats)
             final == RepeatedClassification(outcomes)
  <1>1. Manifest(initiated) =
          [status |-> IF Failing(outcomes) = {} /\ report[1] = 0 /\ ~kernelBad THEN "pass" ELSE "fail",
           classification |-> IF kernelBad THEN "kernel-log-failure" ELSE final,
           progress |-> final,
           firstFailure |-> IF Failing(outcomes) = {} THEN 0 ELSE Earliest(Failing(outcomes))]
    BY DEF Manifest, Judged, Analysis
  <1>2. /\ n \in Nat /\ report[1] \in {0, 1} /\ FIRST_FAILURE \in 0 .. REPEAT /\ REPEAT \in Nat \ {0}
        /\ Concluded(report[1], report[2])
        /\ FIRST_FAILURE # 0 => FIRST_FAILURE = n /\ repeats[n].classification \notin RepeatPasses
        /\ \A k \in 1 .. n : repeats[k].classification \notin RepeatPasses => k = n /\ k = FIRST_FAILURE
        /\ report[1] = 0 => report[2] \in Passes /\ ~kernelBad /\ n = REPEAT /\ FIRST_FAILURE = 0
    BY ReportedRepeats, WorkloadAssumption DEF RunnerInv, Typed, Judging, Reported, Filed
  <1>3. DOMAIN outcomes = 1 .. REPEAT
    BY DEF Outcomes
  <1>4. CASE n = 0
    BY <1>1, <1>2, <1>4, ReportedRepeats DEF Agreeing
  <1>5. CASE FIRST_FAILURE # 0
    <2>1. n \in 1 .. REPEAT /\ n \in Failing(outcomes) /\ \A k \in Failing(outcomes) : n <= k
      BY <1>2, <1>5, FailingRepeats
    <2>2. Failing(outcomes) \subseteq 1 .. REPEAT
      BY FailingRepeats
    <2>3. Earliest(Failing(outcomes)) = n
      <3>1. \A k \in Failing(outcomes) : (\A j \in Failing(outcomes) : k <= j) => k = n
        BY <2>1, <2>2
      <3> QED
        BY <2>1, <3>1 DEF Earliest
    <2>4. final = outcomes[n] /\ Failing(outcomes) # {}
      BY <2>1, <2>3 DEF RepeatedClassification
    <2>5. final \notin RepeatPasses \cup Passes
      BY <1>2, <1>5, <2>1, <2>4, FailingRepeats
    <2>6. verdicts[Len(verdicts)] \notin RepeatPasses \cup SdpPasses
      <3>1. verdicts[Len(verdicts)] = repeats[n].classification /\ repeats[n].classification = BoardVerdict(repeats[n])
        BY <2>1, ReportedRepeats
      <3>2. repeats[n].classification \notin RepeatPasses \cup Passes
        BY <1>2, <1>5, <3>1, ReportedRepeats, HostAgrees DEF ModePasses
      <3> QED
        BY <3>1, <3>2 DEF Passes
    <2> QED
      BY <1>1, <1>2, <1>5, <2>3, <2>4, <2>5, <2>6 DEF Agreeing
  <1>6. CASE n # 0 /\ FIRST_FAILURE = 0
    <2>1. n = REPEAT /\ \A k \in 1 .. REPEAT : repeats[k].classification \in RepeatPasses
      BY <1>2, <1>6 DEF Concluded
    <2>2. Failing(outcomes) = {}
      BY <1>2, <2>1, FailingRepeats
    <2>3. (\A k \in DOMAIN outcomes : outcomes[k] # "execution-pass-oracle-pending")
            <=> ~(MODE = "resnet50" /\ ~GOLDEN_OUTPUT)
      BY <1>2, <1>3, <2>1, FailingRepeats
    <2>4. final = FinalClassification
      BY <2>2, <2>3 DEF RepeatedClassification, FinalClassification
    <2>5. final \in Passes
      BY <2>4, OutcomesAreNamed
    <2>6. verdicts[Len(verdicts)] \in RepeatPasses
      BY <1>2, <2>1, ReportedRepeats
    <2>7. report[1] = 0 => report[2] = FinalClassification
      BY <1>2 DEF Concluded
    <2> QED
      BY <1>1, <1>2, <1>6, <2>2, <2>4, <2>5, <2>6, <2>7 DEF Agreeing
  <1> QED
    BY <1>2, <1>4, <1>5, <1>6

\* The manifest is written when the script is over, and nothing that it speaks
\* of changes any more.
Imported == imported # <<>> => pc = "exited"

LEMMA ArtifactStep ==
    ASSUME StatusesAreDistinct, RunnerInv, Filed, Imported, HostAgreesWithBoard, [ArtifactNext]_artifactVars
    PROVE  Imported' /\ HostAgreesWithBoard'
  <1>1. CASE ImportArtifact
    <2>1. PICK initiated \in [1..REPEAT -> BOOLEAN] : imported' = <<Manifest(initiated)>>
      BY <1>1 DEF ImportArtifact
    <2>2. /\ pc = "exited" /\ imported'[1] = Manifest(initiated)
          /\ UNCHANGED <<pc, report, FIRST_FAILURE, repeats>>
      BY <1>1, <2>1 DEF ImportArtifact, vars, countVars, verdictVars
    <2>3. verdicts' = verdicts
      BY <2>2 DEF verdicts
    <2>4. report # <<>> => Agreeing(Manifest(initiated))
      BY SdpImport, RepeatedImport
    <2> QED
      BY <2>2, <2>3, <2>4 DEF Imported, HostAgreesWithBoard, Agreeing
  <1>2. CASE imported # <<>> /\ ~ImportArtifact
    <2>1. pc = "exited" /\ UNCHANGED imported
      BY <1>2 DEF Imported, ArtifactNext, RunWorkload, artifactVars
    <2>2. UNCHANGED <<pc, report, FIRST_FAILURE, repeats>>
      <3>1. Next \/ UNCHANGED vars
        BY <1>2 DEF ArtifactNext, RunWorkload, artifactVars
      <3>2. watchdog \notin {"mark", "term", "grace"}
        BY <2>1 DEF RunnerInv, Watched
      <3>3. ~Script /\ ~Abort /\ ~Watchdog /\ ~CommandEnds
        BY <2>1, <3>2 DEF Script, CheckPrerequisite, StartServer, WaitCommand, EndWatchdog, Return,
            LookAtServer,
                          JudgeRepeat, JudgeSdp, Finish, Abort, Watchdog, CheckCommand, InRun, Mark, Term, Kill,
                          CommandEnds
      <3> QED
        BY <3>1, <3>3 DEF Next, ServerEnds, Exited, vars, countVars, verdictVars
    <2>3. verdicts' = verdicts
      BY <2>2 DEF verdicts
    <2> QED
      BY <2>1, <2>2, <2>3 DEF Imported, HostAgreesWithBoard
  <1>3. CASE imported = <<>> /\ ~ImportArtifact
    <2>1. UNCHANGED imported
      BY <1>3 DEF ArtifactNext, RunWorkload, artifactVars
    <2> QED
      BY <1>3, <2>1 DEF Imported, HostAgreesWithBoard
  <1> QED
    BY <1>1, <1>2, <1>3

-----------------------------------------------------------------------------
(* nvdla-benchmark-launch.                                                 *)

\* The ways in which a command ends are not its running.
EndingsAreDistinct == Running \notin LaunchCodes \cup {"killed"}

\* What the launcher knows of its command: whoever has reaped it sees how it
\* ended, and an alarm is only set while nothing has been returned.
LaunchInv ==
    /\ launchPc \in {"fork", "know", "arm", "wait", "disarm", "write", "returned"}
    /\ launchPc # "returned" => exit = None
    /\ launchPc = "fork" => child = "none"
    /\ child \in {"none", "running"} => ending = Running
    /\ child \in {"zombie", "reaped"} => ending # Running
    /\ launchPc \in {"disarm", "write"} => child = "reaped"
    /\ alarmSet => launchPc \in {"wait", "disarm"}

-----------------------------------------------------------------------------
LEMMA LaunchInit == Launch!Init => LaunchInv
  BY DEF Launch!Init, LaunchInv

\* The handler of the alarm may run at any step between alarm and alarm(0).
LEMMA LaunchInvStep == ASSUME EndingsAreDistinct, LaunchInv, [Launch!Next]_(Launch!vars) PROVE LaunchInv'
  <1> USE DEF LaunchInv, EndingsAreDistinct
  <1>1. CASE Launch!Fork
    BY <1>1 DEF Launch!Fork, Launch!Return
  <1>2. CASE Launch!KnowCommand
    BY <1>2 DEF Launch!KnowCommand
  <1>3. CASE Launch!Arm
    BY <1>3 DEF Launch!Arm
  <1>4. CASE Launch!Reap
    BY <1>4 DEF Launch!Reap
  <1>5. CASE Launch!Disarm
    BY <1>5 DEF Launch!Disarm
  <1>6. CASE Launch!Write
    BY <1>6 DEF Launch!Write, Launch!Return
  <1>7. CASE Launch!ExitWithStatus
    BY <1>7 DEF Launch!ExitWithStatus, Launch!Return
  <1>8. CASE Launch!HandleTimeout
    BY <1>8 DEF Launch!HandleTimeout, Launch!KillCommand, Launch!launcherVars
  <1>9. CASE Launch!CommandEnds
    BY <1>9 DEF Launch!CommandEnds, Launch!launcherVars
  <1>10. CASE Launch!WaitFails
    BY <1>10 DEF Launch!WaitFails, Launch!Return
  <1>11. CASE UNCHANGED Launch!vars
    BY <1>11 DEF Launch!vars, Launch!launcherVars
  <1> QED
    BY <1>1, <1>2, <1>3, <1>4, <1>5, <1>6, <1>7, <1>8, <1>9, <1>10, <1>11 DEF Launch!Next, Launch!Launcher,
        Launch!Returned

\* A step of the launcher, the alarm or the command is one of the promise or
\* changes nothing that the promise speaks of.
LEMMA LaunchStepIsPromised ==
    ASSUME EndingsAreDistinct, LaunchInv, [Launch!Next]_(Launch!vars)
    PROVE  [Launch!Promise!Next]_(Launch!Promise!vars)
  <1> USE DEF LaunchInv, EndingsAreDistinct
  <1>1. CASE Launch!KnowCommand \/ Launch!Arm \/ Launch!Reap \/ Launch!Disarm \/ UNCHANGED Launch!vars
    BY <1>1 DEF Launch!KnowCommand, Launch!Arm, Launch!Reap, Launch!Disarm, Launch!vars, Launch!launcherVars,
        Launch!Promise!vars
  <1>2. CASE Launch!Fork \/ Launch!WaitFails \/ Launch!Write
    BY <1>2 DEF Launch!Fork, Launch!WaitFails, Launch!Write, Launch!Return, Launch!Promise!vars, Launch!Promise!Next,
        Launch!Promise!Return
  <1>3. CASE Launch!ExitWithStatus
    BY <1>3 DEF Launch!ExitWithStatus, Launch!Return, Launch!Status, Launch!Promise!Next, Launch!Promise!Return
  <1>4. CASE Launch!HandleTimeout
    BY <1>4 DEF Launch!HandleTimeout, Launch!KillCommand, Launch!launcherVars, Launch!Promise!Next,
        Launch!Promise!TimePasses
  <1>5. CASE Launch!CommandEnds
    BY <1>5 DEF Launch!CommandEnds, Launch!launcherVars, Launch!Promise!Next, Launch!Promise!EndByItself
  <1> QED
    BY <1>1, <1>2, <1>3, <1>4, <1>5 DEF Launch!Next, Launch!Launcher, Launch!Returned

-----------------------------------------------------------------------------
\* However late the alarm is, also after wait4 has reaped the command: the
\* launcher answers with 124 if it went off, with 2 for itself, and otherwise
\* with the status of a command that it did not kill.
THEOREM LauncherBoundsItsCommand == ASSUME EndingsAreDistinct PROVE Launch!Spec => Launch!BoundsItsCommand
  <1>1. Launch!Init => Launch!Promise!Init
    BY DEF Launch!Init, Launch!Promise!Init
  <1>2. LaunchInv /\ [Launch!Next]_(Launch!vars) => LaunchInv'
    BY LaunchInvStep
  <1>3. LaunchInv /\ [Launch!Next]_(Launch!vars) => [Launch!Promise!Next]_(Launch!Promise!vars)
    BY LaunchStepIsPromised
  <1> QED
    BY <1>1, <1>2, <1>3, LaunchInit, PTL DEF Launch!Spec, Launch!BoundsItsCommand, Launch!Promise!Spec

-----------------------------------------------------------------------------
(* nvdla-power-sampler.                                                    *)

\* Before the loop there is no sample and nothing has been asked of it.
Fresh ==
    samplerPc \in {"absent", "setup"} =>
        samplerStatus = 0 /\ sampleIndex = 0 /\ ~stopRequested

\* A failure has asked for the end; it is gone before another sample begins.
Failures ==
    /\ samplerPc \in {"stamp", "read"} => samplerStatus = 0
    /\ stopRequested => signalled \/ samplerStatus # 0
    /\ samplerPc # "exited" /\ samplerStatus # 0 => stopRequested
    /\ \A k \in DOMAIN readings :
         readings[k].rails # Rails => k = Len(readings) /\ samplerStatus # 0

\* Who may end it, and which sample is the last one.
Endings ==
    /\ stopFile => usesStopFile
    /\ durationOver => ~usesStopFile
    /\ samplerPc \in {"stamp", "read", "publish"} /\ finalSample => stopFile
    /\ samplerPc \in {"stamp", "read"} /\ finalSample => sampleIndex > 0
    /\ samplerPc = "read" /\ finalSample => timestamp = epoch
    /\ samplerPc = "publish" /\ finalSample =>
         Len(readings) > 1 /\ readings[Len(readings)].at = epoch

SamplerInv == Power!TypeOK /\ Fresh /\ Failures /\ Endings /\ Power!TraceEndsAfterStop

-----------------------------------------------------------------------------
USE DEF Power!Exits, Power!fileVars, Power!loopVars, Power!outputVars

\* Appending a sample keeps the earlier ones and makes it the last.
LEMMA AppendedReading ==
    ASSUME readings \in Seq(Power!Reading), NEW r \in Power!Reading, readings' = Append(readings, r)
    PROVE  /\ readings' \in Seq(Power!Reading)
           /\ Len(readings') = Len(readings) + 1
           /\ readings'[Len(readings')] = r
           /\ \A k \in DOMAIN readings' : k # Len(readings') => k \in DOMAIN readings /\ readings'[k] = readings[k]
  <1> DEFINE S == Power!Reading
  <1> HIDE DEF S
  <1>1. readings \in Seq(S) /\ r \in S
    BY DEF S
  <1>2. /\ readings' \in Seq(S)
        /\ Len(readings') = Len(readings) + 1
        /\ readings'[Len(readings')] = r
        /\ \A k \in DOMAIN readings' : k # Len(readings') => k \in DOMAIN readings /\ readings'[k] = readings[k]
    BY <1>1
  <1> QED
    BY <1>2 DEF S

LEMMA SamplerStart == Power!Init => SamplerInv
  <1> SUFFICES ASSUME Power!Init PROVE SamplerInv
    OBVIOUS
  <1>1. /\ readings = <<>> /\ readings \in Seq(Power!Reading)
        /\ Len(readings) = 0 /\ DOMAIN readings = {}
    BY DEF Power!Init, Power!SamplerInit
  <1>2. Power!TypeOK
    BY <1>1 DEF Power!Init, Power!SamplerInit, Power!TypeOK, Power!SamplerPcs
  <1> QED
    BY <1>1, <1>2 DEF Power!Init, Power!SamplerInit, SamplerInv, Fresh, Failures, Endings,
        Power!TraceEndsAfterStop

\* Steps that leave the output alone.
LEMMA ControlStep ==
    ASSUME SamplerInv, Power!StartSampler \/ Power!AskForEnd \/ Power!Signal
                \/ /\ Power!SetUp \/ Power!LoopHead \/ Power!Stamp \/ Power!Publish \/ Power!Sleep
                   /\ UNCHANGED <<usesStopFile, epoch, signalled>>
    PROVE  SamplerInv'
  <1>a. /\ Power!TypeOK /\ Fresh /\ Failures /\ Endings /\ Power!TraceEndsAfterStop
        /\ readings' = readings
    BY DEF SamplerInv, Power!StartSampler, Power!AskForEnd, Power!Signal, Power!SignalSampler, Power!SetUp,
        Power!LoopHead, Power!Stamp, Power!Publish, Power!Sleep
  <1> USE <1>a
  <1>1. CASE Power!StartSampler
    BY <1>1 DEF SamplerInv, Power!TypeOK, Fresh, Failures, Endings, Power!TraceEndsAfterStop,
        Power!SamplerPcs, Power!StartSampler
  <1>2. CASE Power!AskForEnd
    BY <1>2 DEF SamplerInv, Power!TypeOK, Fresh, Failures, Endings, Power!TraceEndsAfterStop,
        Power!SamplerPcs, Power!AskForEnd
  <1>3. CASE Power!Signal
    <2>1. CASE samplerPc = "setup"
      BY <1>3, <2>1 DEF SamplerInv, Power!TypeOK, Fresh, Failures, Endings, Power!TraceEndsAfterStop,
          Power!SamplerPcs, Power!Signal, Power!SignalSampler
    <2>2. CASE samplerPc # "setup"
      <3>1. /\ stopRequested' = TRUE /\ signalled' = TRUE /\ samplerPc \notin {"absent", "exited"}
            /\ UNCHANGED <<samplerPc, samplerStatus, Power!loopVars, Power!outputVars, readyFile, durationOver,
                           stopFile, usesStopFile, epoch>>
        BY <1>3, <2>2 DEF Power!Signal, Power!SignalSampler
      <3>2. Power!TypeOK'
        BY <3>1 DEF Power!TypeOK
      <3> QED
        BY <3>1, <3>2, <2>2 DEF SamplerInv, Fresh, Failures, Endings, Power!TraceEndsAfterStop
    <2> QED
      BY <2>1, <2>2
  <1>4. CASE Power!SetUp /\ UNCHANGED <<usesStopFile, epoch, signalled>>
    BY <1>4 DEF SamplerInv, Power!TypeOK, Fresh, Failures, Endings, Power!TraceEndsAfterStop,
        Power!SamplerPcs, Power!SetUp
  <1>5. CASE Power!LoopHead /\ UNCHANGED <<usesStopFile, epoch, signalled>>
    BY <1>5 DEF SamplerInv, Power!TypeOK, Fresh, Failures, Endings, Power!TraceEndsAfterStop,
        Power!SamplerPcs, Power!LoopHead, Power!SeesStop
  <1>6. CASE Power!Stamp /\ UNCHANGED <<usesStopFile, epoch, signalled>>
    BY <1>6 DEF SamplerInv, Power!TypeOK, Fresh, Failures, Endings, Power!TraceEndsAfterStop,
        Power!SamplerPcs, Power!Stamp
  <1>7. CASE Power!Publish /\ UNCHANGED <<usesStopFile, epoch, signalled>>
    BY <1>7 DEF SamplerInv, Power!TypeOK, Fresh, Failures, Endings, Power!TraceEndsAfterStop,
        Power!SamplerPcs, Power!Publish, Power!AnnouncesReady, Power!IsLast
  <1>8. CASE Power!Sleep /\ UNCHANGED <<usesStopFile, epoch, signalled>>
    BY <1>8 DEF SamplerInv, Power!TypeOK, Fresh, Failures, Endings, Power!TraceEndsAfterStop,
        Power!SamplerPcs, Power!Sleep
  <1> QED
    BY <1>1, <1>2, <1>3, <1>4, <1>5, <1>6, <1>7, <1>8

\* The step that writes a sample: all earlier ones were whole, for the status is still 0.
LEMMA ReadStep ==
    ASSUME SamplerInv, Power!ReadRails, UNCHANGED <<usesStopFile, epoch, signalled>>
    PROVE  SamplerInv'
  <1>a. Power!TypeOK /\ Fresh /\ Failures /\ Endings /\ samplerPc = "read" /\ samplerPc' = "publish"
    BY DEF SamplerInv, Power!ReadRails
  <1>1. PICK rails \in 0 .. Rails :
          /\ readings' = Append(readings, [at |-> timestamp, rails |-> rails])
          /\ IF rails = Rails
             THEN UNCHANGED <<samplerStatus, stopRequested>>
             ELSE samplerStatus' = Power!FailedRead /\ stopRequested' = TRUE
    BY DEF Power!ReadRails
  <1> DEFINE r == [at |-> timestamp, rails |-> rails]
  <1>2. r \in Power!Reading /\ r.at = timestamp /\ r.rails = rails
    BY <1>a DEF Power!TypeOK, Power!Reading
  <1> HIDE DEF r
  <1>3. readings \in Seq(Power!Reading) /\ readings' = Append(readings, r)
    BY <1>a, <1>1 DEF Power!TypeOK, r
  <1>4. /\ readings' \in Seq(Power!Reading)
        /\ Len(readings') = Len(readings) + 1
        /\ readings'[Len(readings')] = r
        /\ \A k \in DOMAIN readings' : k # Len(readings') => k \in DOMAIN readings /\ readings'[k] = readings[k]
    BY <1>2, <1>3, AppendedReading
  <1>5. /\ UNCHANGED <<finalSample, timestamp, stopFile, readyFile, durationOver>>
        /\ sampleIndex' = sampleIndex + 1
    BY DEF Power!ReadRails, Power!CountsSample
  <1>6. Power!TypeOK'
    <2>1. /\ samplerPc' \in Power!SamplerPcs /\ samplerStatus' \in {0, 3, 4, 5, 143}
          /\ stopRequested' \in BOOLEAN
      BY <1>a, <1>1 DEF Power!TypeOK, Power!SamplerPcs, Power!FailedRead
    <2>2. sampleIndex' \in Nat /\ Len(readings') = sampleIndex'
      BY <1>a, <1>4, <1>5 DEF Power!TypeOK
    <2> QED
      BY <1>a, <1>4, <1>5, <2>1, <2>2 DEF Power!TypeOK
  <1>7. Failures'
    <2>1. samplerStatus = 0 /\ \A k \in DOMAIN readings : readings[k].rails = Rails
      BY <1>a DEF Failures
    <2>2. \A k \in DOMAIN readings' :
            readings'[k].rails # Rails => k = Len(readings') /\ samplerStatus' # 0
      BY <2>1, <1>1, <1>2, <1>4 DEF Power!FailedRead
    <2> QED
      BY <2>1, <2>2, <1>a, <1>1 DEF Failures, Power!FailedRead
  <1>8. Endings'
    BY <1>a, <1>2, <1>4, <1>5 DEF Endings, Power!TypeOK
  <1> QED
    BY <1>a, <1>6, <1>7, <1>8 DEF SamplerInv, Fresh, Power!TraceEndsAfterStop

LEMMA StutterStep == ASSUME SamplerInv, UNCHANGED Power!vars PROVE SamplerInv'
  BY DEF SamplerInv, Power!TypeOK, Fresh, Failures, Endings, Power!TraceEndsAfterStop, Power!vars,
      Power!samplerVars

LEMMA SamplerInvariant == Power!Spec => []SamplerInv
  <1>1. ASSUME SamplerInv, [Power!Next]_(Power!vars) PROVE SamplerInv'
    BY <1>1, ControlStep, ReadStep, StutterStep DEF Power!Next, Power!RunSampler, Power!Sampler, Power!Exited
  <1> QED
    BY <1>1, SamplerStart, PTL DEF Power!Spec

-----------------------------------------------------------------------------
\* The loop, the files and the output of the sampler keep their types, and the
\* index of the sample counts what was written.
THEOREM SamplerTypesAreKept == Power!Spec => []Power!TypeOK
  <1>1. SamplerInv => Power!TypeOK
    BY DEF SamplerInv
  <1> QED
    BY <1>1, SamplerInvariant, PTL

\* A sample that lacks a rail is the last one of the output, and the exit
\* status tells of it whatever else asked the sampler to stop.
THEOREM OnlyTheLastIsPartial == Power!Spec => []ReadingsAreWhole
  <1>1. SamplerInv => ReadingsAreWhole
    BY DEF SamplerInv, Failures, ReadingsAreWhole
  <1> QED
    BY <1>1, SamplerInvariant, PTL

\* A trace that the stop file ended reaches past the moment in which the file
\* appeared, whenever that was.
THEOREM TraceCoversRequest == Power!Spec => []TraceEndsAfterStop
  <1>1. SamplerInv => TraceEndsAfterStop
    BY DEF SamplerInv, Power!TraceEndsAfterStop, TraceEndsAfterStop
  <1> QED
    BY <1>1, SamplerInvariant, PTL

-----------------------------------------------------------------------------
(* The tools side by side.                                                 *)

\* A step of one of the tools leaves the others as they are.
LEMMA ToolsStep ==
    ASSUME [ToolsNext]_toolVars
    PROVE  /\ [ArtifactNext]_artifactVars /\ [Next]_vars
           /\ [Launch!Next]_(Launch!vars) /\ [Power!Next]_(Power!vars)
  <1> USE DEF toolVars, artifactVars, launchVars, powerVars, Launch!vars, Launch!launcherVars, Power!vars,
          samplerVars, Power!samplerVars, loopVars, Power!loopVars, outputVars, Power!outputVars,
          fileVars, Power!fileVars
  <1>1. CASE WorkloadStep
    BY <1>1 DEF WorkloadStep, ArtifactNext, RunWorkload, ImportArtifact
  <1>2. CASE LaunchStep
    BY <1>2 DEF LaunchStep
  <1>3. CASE SamplerStep
    BY <1>3 DEF SamplerStep
  <1>4. CASE UNCHANGED toolVars
    BY <1>4
  <1> QED
    BY <1>1, <1>2, <1>3, <1>4 DEF ToolsNext

\* Every behaviour of the three is one of each of them.
LEMMA ToolsRunEach == ToolsSpec => Spec /\ Launch!Spec /\ Power!Spec
  <1>1. ToolsInit => Init /\ Launch!Init /\ Power!Init
    BY DEF ToolsInit, ArtifactInit
  <1> QED
    BY <1>1, ToolsStep, PTL DEF ToolsSpec, Spec, Launch!Spec, Power!Spec

\* The script on the board and the importer on the host judge by two sets of
\* rules: they agree on what passes, under which name, and on the first repeat
\* that did not, for any number of repeats and whatever the kernel log says of
\* the start of the processors.
THEOREM HostAgreesWithScript ==
    ASSUME StatusesAreDistinct PROVE ToolsSpec => []HostAgreesWithBoard
  <1>1. ToolsInit => Filed /\ Imported /\ HostAgreesWithBoard
    BY FiledInit DEF ToolsInit, ArtifactInit, Imported, HostAgreesWithBoard
  <1>2. RunnerInv /\ Filed /\ Imported /\ HostAgreesWithBoard /\ [ToolsNext]_toolVars
          => Filed' /\ Imported' /\ HostAgreesWithBoard'
    BY ToolsStep, FiledStep, ArtifactStep
  <1> QED
    BY <1>1, <1>2, ToolsRunEach, RunnerInvariant, PTL DEF ToolsSpec

\* The launcher under its alarm and the workload script with its watchdog both
\* keep the promise of a bounded command, in any order of the processes.
THEOREM ToolsBoundTheirCommands ==
    ASSUME StatusesAreDistinct, EndingsAreDistinct PROVE ToolsSpec => BoundsItsCommand
  BY ToolsRunEach, LauncherBoundsItsCommand, WatchdogBoundsItsCommands, PTL DEF BoundsItsCommand
=============================================================================
