---------------------------- MODULE MCPercentile ----------------------------
(* Percentile for TLC: every sequence of up to MaxSamples samples.         *)
EXTENDS Percentile, Calls, FiniteSets

CONSTANTS
    MaxSamples,   \* bound: samples, the warm-up included
    Durations     \* what one sample may be

ASSUME SamplesAssumption == MaxSamples \in Nat /\ Durations \subseteq Int

PercentileInit ==
    Given("from_samples",
          [samples : UNION {[1..n -> Durations] : n \in 0..MaxSamples},
           warmup : 0..(MaxSamples + 1)])

PercentileNext == Call("from_samples", LAMBDA x : FromSamples(x.samples, x.warmup))

PercentileSpec == PercentileInit /\ [][PercentileNext]_callVars

\* v is a value, of those of x at the positions K, that k others come before in
\* sorted order; and v is p hundredths of the way through them.
IsOrder(K, x, k, v) ==
    /\ Cardinality({i \in K : x[i] < v}) <= k
    /\ k < Cardinality({i \in K : x[i] <= v})

IsPercentile(K, x, p, v) ==
    LET rank == (Cardinality(K) - 1) * p
        part == rank % 100
    IN  \E i, j \in K :
          /\ IsOrder(K, x, rank \div 100, x[i])
          /\ part # 0 => IsOrder(K, x, rank \div 100 + 1, x[j])
          /\ v = x[i] * (100 - part) + x[j] * part

\* "Linear interpolation on rank = (n - 1) * p", over the samples that came after
\* the warm-up: each percentile lies between the two order statistics around its
\* rank, as far along as the rank is, and a run that kept nothing has none.
PercentilesAreType7 ==
    \A stats \in Returned("from_samples") :
        LET kept == {i \in DOMAIN input.samples : i > input.warmup}
        IN  IF kept = {} THEN stats.err = "invalid_argument"
            ELSE /\ stats.err = "none" /\ stats.n = Cardinality(kept)
                 /\ IsPercentile(kept, input.samples, 50, stats.p50)
                 /\ IsPercentile(kept, input.samples, 90, stats.p90)
                 /\ IsPercentile(kept, input.samples, 99, stats.p99)

=============================================================================
