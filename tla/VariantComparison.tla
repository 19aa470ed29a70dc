-------------------------- MODULE VariantComparison --------------------------
(***************************************************************************)
(* The verdicts of profiler_service/compare_v2.py.  Trials of two or more  *)
(* variants are stored while an experiment runs; a comparison, which can   *)
(* be asked for at any time and against any reference, reduces those of a  *)
(* variant to the median and the range of their medians and says whether a *)
(* variant differs significantly from the reference.                       *)
(*                                                                         *)
(* A trial is the median of its operations, or None if it recorded none.   *)
(* A median across trials is kept doubled, so that it is whole.            *)
(***************************************************************************)
EXTENDS Integers, Sequences, FiniteSets

CONSTANTS Variants,       \* the variants of the experiment
          Medians,        \* the medians a trial may have, in ns
          MaxTrials       \* bound on the trials of a variant

ASSUME VariantAssumption == Medians \subseteq Nat /\ MaxTrials \in Nat

VARIABLE trials   \* trials[v]: the stored trials of variant v, in order

None == -1

VariantsInit == trials = [v \in Variants |-> <<>>]

\* LabStore.save_trial
StoreTrial(v) ==
  /\ Len(trials[v]) < MaxTrials
  /\ \E median \in Medians \cup {None} : trials' = [trials EXCEPT ![v] = Append(@, median)]

VariantsNext == \E v \in Variants : StoreTrial(v)

VariantsSpec == VariantsInit /\ [][VariantsNext]_trials

-----------------------------------------------------------------------------
(* aggregate_variant *)

\* The trials that recorded something, by their position.
Usable(v) == {i \in DOMAIN trials[v] : trials[v][i] # None}

TrialMedians(v) == {trials[v][i] : i \in Usable(v)}

\* The k-th trial median in ascending order.
UpToMedian(v, x) == Cardinality({i \in Usable(v) : trials[v][i] <= x})
Ranked(v, k) == CHOOSE x \in TrialMedians(v) :
                  UpToMedian(v, x) >= k /\ \A y \in TrialMedians(v) : y < x => UpToMedian(v, y) < k

\* Twice the median of the trial medians.
MedianOf(v) ==
  LET n == Cardinality(Usable(v))
  IN IF n = 0 THEN None ELSE Ranked(v, (n + 1) \div 2) + Ranked(v, (n + 2) \div 2)

-----------------------------------------------------------------------------
(* _vs_reference *)

\* The maximum of one is less than the minimum of the other.
Apart(low, high) == \A x \in TrialMedians(low), y \in TrialMedians(high) : x < y

Significant(v, ref) ==
  IF TrialMedians(v) = {} \/ TrialMedians(ref) = {} THEN "unknown"
  ELSE IF Apart(ref, v) \/ Apart(v, ref) THEN "yes" ELSE "no"

\* The time ratio is given when both medians are there and not zero.
HasRatio(v, ref) == MedianOf(v) > 0 /\ MedianOf(ref) > 0

\* The sentence of the verdict about v.
Sentence(v, ref) ==
  IF ~HasRatio(v, ref) THEN "none"
  ELSE IF Significant(v, ref) = "no" THEN "not significantly different"
  ELSE IF MedianOf(v) > MedianOf(ref) THEN "slower" ELSE "faster"

-----------------------------------------------------------------------------
(* Properties *)

VariantsTypeOK == \A v \in Variants : trials[v] \in Seq(Medians \cup {None}) /\ Len(trials[v]) <= MaxTrials

\* What the verdict says of two variants does not depend on which of them is
\* the reference, and "slower" is said only if every usable trial of the one
\* was slower than every usable trial of the other.
VerdictIsSymmetric ==
  \A v, ref \in Variants :
    /\ Sentence(v, ref) = "slower" <=> Sentence(ref, v) = "faster"
    /\ Sentence(v, ref) = "slower" => \A x \in TrialMedians(v), y \in TrialMedians(ref) : x > y

\* "Significance ... is conservative" (src/profiler_service/compare_v2.py:7): a
\* difference once found not significant never becomes so by more trials, and
\* one that is never turns round.
NeverTurnsRound ==
  [][\A v, ref \in Variants :
       /\ Significant(v, ref) = "no" => Significant(v, ref)' = "no"
       /\ Sentence(v, ref) = "slower" => Sentence(v, ref)' # "faster"]_trials
=============================================================================
