--------------------------- MODULE InputVariation ---------------------------
(***************************************************************************)
(* import_input_variation_archives: sessions that ran a set of Inputs      *)
(* inputs (20 in the code) round and round, or streamed them.              *)
(***************************************************************************)
EXTENDS Statistics

CONSTANTS
    Inputs,     \* number of inputs of a set
    Missing     \* a field that is not there, is empty or is zero

InputIndices == 0..(Inputs - 1)

\* The classification that a session of either input set must have.
Expected == [multi20 |-> "output-stable-input-variation-pass", stream20 |-> "stream-pipeline-pass"]

MeasuredSamples(a) == Subsequence(a.samples, {k \in DOMAIN a.samples : ~a.samples[k].warmup})
CountOf(a, input) == Cardinality({k \in DOMAIN MeasuredSamples(a) : MeasuredSamples(a)[k].input = input})

\* Every input has been measured, and as often as every other one.
SomeBalance(a) == MeasuredSamples(a) # <<>>
Balanced(a) ==
    \E n \in 1..Len(a.samples) : \A i \in InputIndices : CountOf(a, i) = n

VariationHolds(a) ==
    /\ a.safe /\ a.benchmarkEnvs = 1
    /\ a.status = 0 /\ a.inputSet \in DOMAIN Expected /\ a.classification = Expected[a.inputSet]
    /\ a.badPatterns = 0 /\ a.irqDelta > 0
    /\ a.boot # Missing
    /\ \A key \in DOMAIN a.provenance : a.provenance[key] # Missing
    /\ a.verification = "stable-output-pass"
    /\ DOMAIN a.results = InputIndices
    /\ a.profileHolds /\ a.inputCount = Inputs
    /\ a.inputSet = "stream20" => a.pipeline > 0
    \* The counts and the result table have no entry for another input.
    /\ \A k \in DOMAIN MeasuredSamples(a) : MeasuredSamples(a)[k].input \in InputIndices
    /\ Balanced(a)

\* One row for each measured sample, with what the result table says of its input.
RowsOfSession(as, k) ==
    [j \in DOMAIN MeasuredSamples(as[k]) |->
        LET s == MeasuredSamples(as[k])[j]
        IN  [session |-> k, input |-> s.input, match |-> as[k].results[s.input],
             execution |-> s.execution, update |-> s.update]]
VariationRows(as) == FlattenSeq([k \in DOMAIN as |-> RowsOfSession(as, k)])
OfInput(rs, input) == Subsequence(rs, {k \in DOMAIN rs : rs[k].input = input})

\* An input that is recognised in one run and not in another is refused.
Stable(rs) == \A i \in InputIndices : \A j, k \in DOMAIN OfInput(rs, i) : OfInput(rs, i)[j].match = OfInput(rs, i)[k].match

VariationAccepts(as) ==
    /\ as # <<>>
    /\ \A k \in DOMAIN as : VariationHolds(as[k])
    /\ \A j, k \in DOMAIN as : as[j].boot = as[k].boot => j = k
    /\ \A k \in DOMAIN as : as[k].provenance = as[1].provenance /\ as[k].inputSet = as[1].inputSet
    /\ Stable(VariationRows(as))

ExecutionsOf(rs) == [k \in DOMAIN rs |-> rs[k].execution]
\* _summary.
Spread(values) ==
    [count |-> Len(values), total |-> Total(values), median |-> Median(values),
     minimum |-> Least(values), maximum |-> Greatest(values)]

\* The frames and the duration of every streamed session.
Pipelines(as) ==
    LET streamed == Subsequence(as, {k \in DOMAIN as : as[k].inputSet = "stream20"})
    IN  [k \in DOMAIN streamed |-> <<Len(MeasuredSamples(streamed[k])), streamed[k].pipeline>>]

VariationReport(as) ==
    LET rs == VariationRows(as)
        perInput == [i \in InputIndices |-> Spread(ExecutionsOf(OfInput(rs, i)))]
        medians == [k \in 1..Inputs |-> perInput[k - 1].median]
        Matches(group) == Total([k \in DOMAIN group |-> group[k].match])
    IN  [sessions |-> Len(as), overall |-> Spread(ExecutionsOf(rs)), perInput |-> perInput,
         range |-> Greatest(medians) - Least(medians),
         \* Each input counts once, however often it was repeated.
         distinctMatches |-> Total([k \in 1..Inputs |-> OfInput(rs, k - 1)[1].match]),
         repeatedMatches |-> Matches(rs),
         pipelines |-> Pipelines(as)]

VariationOutputs == <<"input-variation-raw.csv", "input-variation-summary.json", "input-variation-report.md">>

-----------------------------------------------------------------------------
\* Each input weighs the same: the accuracy over repeated observations is that
\* over distinct inputs, and the overall extremes and total are those of the inputs.
EqualWeights(as, report) ==
    /\ report.repeatedMatches * Inputs = report.distinctMatches * report.overall.count
    /\ Inputs * report.perInput[0].count = report.overall.count
    /\ report.overall.total = Total([k \in 1..Inputs |-> report.perInput[k - 1].total])
    /\ \A i \in InputIndices : /\ report.overall.minimum <= report.perInput[i].minimum
                          /\ report.perInput[i].maximum <= report.overall.maximum
    /\ report.range <= Scale * (report.overall.maximum - report.overall.minimum)
    /\ \A k \in DOMAIN report.pipelines : report.pipelines[k][2] > 0
=============================================================================
