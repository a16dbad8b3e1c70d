----------------------------- MODULE Percentile -----------------------------
(***************************************************************************)
(* percentile and Stats::from_samples (bench/percentile.cpp), on samples   *)
(* that are integers and percentiles that are p hundredths: what the code  *)
(* computes in doubles is here exact, a value being counted in hundredths. *)
(***************************************************************************)
EXTENDS Integers, SequencesExt

\* Mutant: the sample at the nearest rank.
InterpolateNearest(ordered, p) == 100 * ordered[((Len(ordered) - 1) * p + 50) \div 100 + 1]

\* percentile(): linear interpolation on rank = (n - 1) * p.
Interpolate(ordered, p) ==
    LET rank == (Len(ordered) - 1) * p
        lo == rank \div 100
        hi == (rank + 99) \div 100
    IN  IF lo = hi THEN 100 * ordered[lo + 1]
        ELSE 100 * ordered[lo + 1]
               + (ordered[hi + 1] - ordered[lo + 1]) * (rank - 100 * lo)

\* std::sort: the samples, each as often as before, in order.
Ordered(samples) ==
    LET times(s, v) == Cardinality({i \in DOMAIN s : s[i] = v})
    IN  CHOOSE s \in [DOMAIN samples -> Range(samples)] :
            /\ \A i, j \in DOMAIN s : i < j => s[i] <= s[j]
            /\ \A v \in Range(samples) : times(s, v) = times(samples, v)

\* from_samples(): the warm-up is what came first, not what is smallest; the rest
\* is sorted.  An empty rest throws.
FromSamples(samples, warmup) ==
    LET dropped == IF warmup < Len(samples) THEN warmup ELSE Len(samples)
        kept == SubSeq(samples, dropped + 1, Len(samples))
        P(p) == Interpolate(Ordered(kept), p)
    IN  IF kept = << >> THEN [err |-> "invalid_argument"]
        ELSE [err |-> "none", p50 |-> P(50), p90 |-> P(90), p99 |-> P(99),
              n |-> Len(kept), warmup |-> dropped]

=============================================================================
