-------------------------- MODULE SampleEstimates --------------------------
(***************************************************************************)
(* Estimates from a sample of paths or scenarios: which of them run again  *)
(* at float64, the two-level mean and the paired quantile, and the         *)
(* resamples a standard error is read from (src/engine/precision/          *)
(* estimate.py, uncertainty.py).  Values are integers; a mean of n of them *)
(* is a pair <<sum, n>>, so every comparison is exact.                     *)
(***************************************************************************)
EXTENDS RiskFactors, FiniteSetsExt

SumOf(sample) == FoldFunction(+, 0, sample)
MeanOf(sample) == <<SumOf(sample), Len(sample)>>

SameMean(a, b) == a[1] * b[2] = b[1] * a[2]
LessMean(a, b) == a[1] * b[2] < b[1] * a[2]
MeanPlus(a, b) == <<a[1] * b[2] + b[1] * a[2], a[2] * b[2]>>
MeanMinus(a, b) == <<a[1] * b[2] - b[1] * a[2], a[2] * b[2]>>

Picked(sample, places) == [k \in DOMAIN places |-> sample[places[k]]]
Minus(a, b) == [k \in DOMAIN a |-> a[k] - b[k]]

---------------------------------------------------------------------------
(* The paths of a paired sample, and what is estimated from them. *)

(* Mutant: one prefix of the whole sample. *)
paired_indices_OnePrefix(paths, paired, replicates) == [k \in 1..paired |-> k]

(* The prefix of each replicate, in replicate order. *)
paired_indices(paths, paired, replicates) ==
  LET own == paired \div replicates
  IN  [k \in 1..paired |-> ((k - 1) \div own) * (paths \div replicates) + ((k - 1) % own) + 1]

(* Each replicate's mean of the low values and of its correction, averaged over the replicates. *)
two_level_mean(low, high, replicates) ==
  LET paths == Len(low) \div replicates
      paired == Len(high) \div replicates
      Mean(r) == MeanOf(SubSeq(low, (r - 1) * paths + 1, r * paths))
      Correction(r) == MeanOf([k \in 1..paired |-> high[(r - 1) * paired + k] - low[(r - 1) * paths + k]])
      Average(of) == <<SumOf([r \in 1..replicates |-> of[r][1]]), replicates * of[1][2]>>
      uncorrected == Average([r \in 1..replicates |-> Mean(r)])
      correction == Average([r \in 1..replicates |-> Correction(r)])
  IN  [value |-> MeanPlus(uncorrected, correction), uncorrected |-> uncorrected, correction |-> correction]

(* The samples a quantile's precision is measured on: every path, the paired ones of the run, and
   the paired ones at float64. *)
paired_quantile(low, high, replicates) ==
  [value |-> low, paired |-> Picked(low, paired_indices(Len(low), Len(high), replicates)), paired_float64 |-> high]

---------------------------------------------------------------------------
(* The resamples of a standard error. *)

delete_group(sample, group, groups) ==
  LET size == Len(sample) \div groups
  IN  Picked(sample, SelectSeq([k \in DOMAIN sample |-> k], LAMBDA k : (k - 1) \div size # group - 1))

BlockStarts(size, block) == [1..CeilDiv(size, block) -> 0..size - block]

(* The places a bootstrap resample reads, for the starts its key drew: whole windows, the last cut. *)
moving_block_indices(starts, size, block) ==
  [k \in 1..size |-> starts[1 + (k - 1) \div block] + ((k - 1) % block) + 1]
=============================================================================
