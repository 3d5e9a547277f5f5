------------------------- MODULE CapabilityScoring -------------------------
(***************************************************************************)
(* domain/routing/scoring.py: one score per weighted capability, the       *)
(* weighted mean over those that are present, and the adjustment factors.  *)
(*                                                                         *)
(* Scores, confidences, weights and factors are tenths; a quotient is a    *)
(* pair of naturals that is compared by cross-multiplication.              *)
(***************************************************************************)
EXTENDS EvidencePolicy, SequencesExt

CONSTANTS DeclaredScore,       \* DECLARED_PRIOR_SCORE
          DeclaredConfidence,  \* DECLARED_PRIOR_CONFIDENCE
          BandFloor,           \* PARAMETER_BAND_PRIOR_FLOOR
          BandCeiling,         \* PARAMETER_BAND_PRIOR_CEILING
          MinSamples,          \* PRODUCTION_MINIMUM_SAMPLES
          MinConfidence        \* routing.min_confidence

ASSUME ScoringAssumption ==
    /\ {DeclaredScore, DeclaredConfidence, BandFloor, BandCeiling,
        MinConfidence} \subseteq 0 .. 10
    /\ BandFloor <= BandCeiling /\ MinSamples \in Nat

One == 10   \* the score, the confidence and the neutral factor 1.0

\* What a signal says whatever its source: CapabilitySignal.
IsSignal(s) ==
    /\ s.score \in 0 .. One \cup {None} /\ s.confidence \in 0 .. One
    /\ s.sample_count \in NatOrNone

\* parameter_band_priors: the rank of a model's size among the sizes that
\* were reported, mapped onto the band; a size nobody reported has no prior.
BandPrior(count, counts) ==
    LET known == counts \ {None}
        below == {c \in known : c < count}
    IN  IF count = None THEN None
        ELSE IF Cardinality(known) = 1 THEN (BandFloor + BandCeiling) \div 2
        ELSE BandFloor + ((BandCeiling - BandFloor) * Cardinality(below))
                            \div (Cardinality(known) - 1)

-----------------------------------------------------------------------------
(* resolve_capability.                                                     *)

\* The names of an exclusion.
Exclusions == {"evidence_unbound", "evidence_foreign_machine", "evidence_profile_mismatch"}

ASSUME ExclusionAssumption == None \notin Exclusions

\* Why a measurement does not describe this execution, or None.
Exclusion(signal, profile, machine) ==
    IF signal.source # "benchmark" THEN None
    ELSE IF signal.match_state # None /\ signal.match_state # "bound"
    THEN "evidence_unbound"
    ELSE IF /\ signal.machine # None
            /\ ~MachineAdmits(signal.machine, machine, signal.capability)
    THEN "evidence_foreign_machine"
    ELSE IF signal.profile # profile THEN "evidence_profile_mismatch"
    ELSE None

\* A signal that may be used under its own source.
Usable(signal, profile, machine) ==
    /\ signal.confidence >= MinConfidence
    /\ Exclusion(signal, profile, machine) = None
    /\ signal.source = "production" =>
          signal.sample_count # None /\ signal.sample_count >= MinSamples

\* What counts as evidence for the low_evidence flag.
EvidenceSources == {"benchmark", "production", "manual"}

Resolved(capability, weight, score, confidence, source, stale) ==
    [capability |-> capability, weight |-> weight, score |-> score,
     confidence |-> confidence, source |-> source, stale |-> stale]

\* Mutant: an excluded measurement counts as ability nought.
ResolveZero(capability, weight, signals, profile, band, require, machine) ==
    LET mine     == SignalsOf(signals, capability)
        usable   == {i \in mine : /\ signals[i].source = "benchmark"
                                  /\ Usable(signals[i], profile, machine)}
        excluded == {i \in mine : Exclusion(signals[i], profile, machine) # None}
    IN  IF usable # {}
        THEN Resolved(capability, weight, signals[Min(usable)].score,
                      signals[Min(usable)].confidence, "benchmark", FALSE)
        ELSE IF excluded # {}
        THEN Resolved(capability, weight, 0, DeclaredConfidence,
                      Exclusion(signals[Min(excluded)], profile, machine), FALSE)
        ELSE Resolved(capability, weight, band, DeclaredConfidence, "prior", FALSE)

\* The first usable signal of the most trusted source; else the size prior,
\* under the name of the first exclusion if there was one; else absent.
\* require_evidence leaves nothing below production standing.
ResolveCapability(capability, weight, signals, profile, band, require, machine) ==
    LET mine     == SignalsOf(signals, capability)
        excluded == {i \in mine : /\ signals[i].confidence >= MinConfidence
                                  /\ Exclusion(signals[i], profile, machine) # None}
        without  == IF excluded = {} THEN None
                    ELSE Exclusion(signals[Min(excluded)], profile, machine)
        UsableOf(source) == {i \in mine : /\ signals[i].source = source
                                          /\ Usable(signals[i], profile, machine)}
        FirstOf(source) ==
            LET s == signals[Min(UsableOf(source))]
            IN  Resolved(capability, weight, s.score, s.confidence, s.source, s.stale)
    IN  IF UsableOf("benchmark") # {} THEN FirstOf("benchmark")
        ELSE IF UsableOf("production") # {} THEN FirstOf("production")
        ELSE IF UsableOf("manual") # {} /\ ~require THEN FirstOf("manual")
        ELSE IF UsableOf("declared") # {} /\ ~require
        THEN Resolved(capability, weight, DeclaredScore, DeclaredConfidence,
                      "declared", FALSE)
        ELSE IF band # None /\ ~require
        THEN Resolved(capability, weight, band, DeclaredConfidence,
                      IF without = None THEN "prior" ELSE without, FALSE)
        ELSE Resolved(capability, weight, None, None,
                      IF without = None THEN "absent" ELSE without, FALSE)

Present(score) == score.score # None /\ score.confidence # None
Measured(score) == Present(score) /\ score.source \in EvidenceSources

\* TaskFit, of scores by capability: the quotient num / present, which is nought
\* unless the weight present is positive.
TaskFit(scores) ==
    LET present  == {c \in DOMAIN scores : Present(scores[c])}
        measured == {c \in DOMAIN scores : Measured(scores[c])}
        weight   == SumFunction([c \in present |-> scores[c].weight])
    IN  [scores |-> scores,
         num |-> IF weight <= 0 THEN 0
                 ELSE SumFunction([c \in present |->
                        scores[c].weight * scores[c].score * scores[c].confidence]),
         present |-> IF weight <= 0 THEN 1 ELSE weight,
         measured |-> SumFunction([c \in measured |-> scores[c].weight])]

\* score_subject.
ScoreSubject(weights, signals, profile, band, require, machine) ==
    TaskFit([c \in DOMAIN weights |->
                ResolveCapability(c, weights[c], signals, profile, band, require, machine)])

\* TaskFit.mean_confidence, as a quotient.
MeanConfidence(fit) ==
    LET present == {c \in DOMAIN fit.scores : fit.scores[c].confidence # None}
    IN  <<SumFunction([c \in present |-> fit.scores[c].confidence]),
          IF present = {} THEN 1 ELSE Cardinality(present)>>

-----------------------------------------------------------------------------
(* Adjustment factors.                                                     *)

\* _residency_term: a bonus on a loaded model, a charge for displacing one,
\* neither when nothing is loaded or residency is to be ignored.
ResidencyTerm(model, resident, bonus, penalty, ignore) ==
    IF ignore \/ resident = {} THEN One
    ELSE IF model \in resident THEN One + bonus ELSE One - penalty

\* adjustment_factors: their product (availability stays neutral).
FactorProduct(reliability, residency, is_remote, remote_cost) ==
    reliability * residency * IF is_remote THEN remote_cost ELSE One
=============================================================================
