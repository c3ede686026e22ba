----------------------------- MODULE Statistics -----------------------------
(***************************************************************************)
(* The arithmetic of tools/nvdla_test_framework/performance.py over whole  *)
(* nanoseconds.  A quantile is computed in thousandths, and so is every    *)
(* result that interpolates between two samples: Scale times the value.    *)
(***************************************************************************)
EXTENDS Integers, Sequences, FiniteSets, TLC, SequencesExt

Scale == 1000

\* The elements of a sequence at some of its indices, in their order.
SelectedPrefixes(seq, indices) ==
    LET selected[k \in 0..Len(seq)] ==
            IF k = 0 THEN <<>>
            ELSE IF k \in indices THEN Append(selected[k - 1], seq[k]) ELSE selected[k - 1]
    IN  selected
Subsequence(seq, indices) == SelectedPrefixes(seq, indices)[Len(seq)]

PrefixSums(values) ==
    LET sum[k \in 0..Len(values)] == IF k = 0 THEN 0 ELSE sum[k - 1] + values[k]
    IN  sum
Total(values) == PrefixSums(values)[Len(values)]

\* The k-th of the sorted values: fewer than k are less, at least k no greater.
Below(values, x) == Cardinality({j \in DOMAIN values : values[j] < x})
UpTo(values, x) == Cardinality({j \in DOMAIN values : values[j] <= x})
Ordered(values) ==
    [k \in 1..Len(values) |-> CHOOSE x \in ToSet(values) : Below(values, x) < k /\ k <= UpTo(values, x)]

Least(values) == Ordered(values)[1]
Greatest(values) == Ordered(values)[Len(values)]

\* percentile: linear interpolation between the two order statistics around
\* (n - 1) * quantile.
Percentile(values, quantile) ==
    LET ordered == Ordered(values)
        position == (Len(values) - 1) * quantile
        lower == position \div Scale
        fraction == position % Scale
        upper == IF fraction = 0 THEN lower ELSE lower + 1
    IN  ordered[lower + 1] * (Scale - fraction) + ordered[upper + 1] * fraction

\* statistics.median.
Median(values) ==
    LET ordered == Ordered(values)
        n == Len(values)
    IN  (ordered[(n + 1) \div 2] + ordered[n \div 2 + 1]) * (Scale \div 2)

\* An outlier is beyond 1.5 interquartile ranges of the quartiles; it is
\* counted and kept.
Outliers(values, q1, q3) ==
    LET Beyond(v) == \/ 2 * Scale * v < 2 * q1 - 3 * (q3 - q1)
                     \/ 2 * Scale * v > 2 * q3 + 3 * (q3 - q1)
    IN  Cardinality({j \in DOMAIN values : Beyond(values[j])})

\* summarize_values: the mean is total / count.
Summary(values) ==
    LET q1 == Percentile(values, 250)
        q3 == Percentile(values, 750)
    IN  [count |-> Len(values), total |-> Total(values), median |-> Median(values),
         minimum |-> Least(values), maximum |-> Greatest(values),
         p5 |-> Percentile(values, 50), q1 |-> q1, q3 |-> q3, p95 |-> Percentile(values, 950),
         outliers |-> Outliers(values, q1, q3)]

\* _scalar_summary has no quartiles and flags no outlier.
ScalarSummary(values) ==
    [count |-> Len(values), total |-> Total(values), median |-> Median(values),
     minimum |-> Least(values), maximum |-> Greatest(values),
     p5 |-> Percentile(values, 50), p95 |-> Percentile(values, 950)]

\* bootstrap_session_medians over one sequence of resampled medians, each of
\* them Scale times the median of scaled medians.
Interval(medians, estimates) ==
    [sessions |-> Len(medians), estimate |-> Median(medians),
     lower |-> Percentile(estimates, 25), upper |-> Percentile(estimates, 975)]

-----------------------------------------------------------------------------
\* What a quantile is: at least that share of the samples on its other side.
ShareBelow(values, x) == Cardinality({i \in DOMAIN values : Scale * values[i] <= x})
ShareAbove(values, x) == Cardinality({i \in DOMAIN values : Scale * values[i] >= x})

QuantilesAreOrdered(values) ==
    LET s == Summary(values)
    IN  /\ Scale * s.minimum <= s.p5 /\ s.p5 <= s.q1 /\ s.q1 <= s.median
        /\ s.median <= s.q3 /\ s.q3 <= s.p95 /\ s.p95 <= Scale * s.maximum
        /\ s.median = Percentile(values, 500)
        /\ 2 * ShareBelow(values, s.median) >= s.count /\ 2 * ShareAbove(values, s.median) >= s.count
        /\ 2 * s.outliers <= s.count
=============================================================================
