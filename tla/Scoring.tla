------------------------------ MODULE Scoring ------------------------------
(***************************************************************************)
(* The deterministic part of risk scoring (domain/risk_scoring.py): the    *)
(* language model only judges likelihood, consequence, velocity, type and  *)
(* the effectiveness of each control; everything else is computed here.    *)
(* Vocabularies are sequences, so that "higher" is a position.             *)
(***************************************************************************)
EXTENDS Integers, Sequences, FiniteSets

Likelihood    == <<"Rare", "Unlikely", "Possible", "Likely", "Almost Certain">>
Consequence   == <<"Insignificant", "Minor", "Moderate", "Major", "Severe">>
Velocity      == <<"Very Slow", "Slow", "Moderate", "Fast", "Immediate">>
Effectiveness == <<"Uncontrolled", "Ineffective", "Partially Effective", "Effective">>
RiskLevels    == <<"Low", "Medium", "High", "Extreme">>

\* Positions stand for the words: a likelihood is an index of Likelihood, and
\* so on. An effectiveness scores its position less one, as in the code.
EffectivenessScore(e) == e - 1

Low == 1
Medium == 2
High == 3
Extreme == 4

\* INHERENT_MATRIX[consequence][likelihood]
InherentMatrix == <<
    <<Low, Low, Low, Medium, Medium>>,
    <<Low, Low, Medium, Medium, High>>,
    <<Low, Medium, Medium, High, High>>,
    <<Medium, Medium, High, High, Extreme>>,
    <<Medium, High, High, Extreme, Extreme>> >>

\* RESIDUAL_MATRIX[inherent][overall effectiveness]
ResidualMatrix == <<
    <<Medium, Low, Low, Low>>,
    <<High, Medium, Medium, Low>>,
    <<Extreme, High, High, Medium>>,
    <<Extreme, Extreme, High, High>> >>

\* Immediate velocity lifts a High risk, and only that, by one band.
Escalated(level, velocity) ==
    IF Velocity[velocity] = "Immediate" /\ level = High THEN level + 1 ELSE level

ComputeInherentRisk(likelihood, consequence, velocity) ==
    Escalated(InherentMatrix[consequence][likelihood], velocity)

\* The mean of the controls' scores against 2.5, 1.5 and 0.5, without
\* fractions; no control at all counts as uncontrolled.
ComputeOverallEffectiveness(effs) ==
    LET score[i \in 0..Len(effs)] ==
            IF i = 0 THEN 0 ELSE score[i - 1] + EffectivenessScore(effs[i])
        twice == 2 * score[Len(effs)]
        n == Len(effs)
    IN  CASE n = 0          -> 1
          [] twice >= 5 * n -> 4
          [] twice >= 3 * n -> 3
          [] twice >= n     -> 2
          [] OTHER          -> 1

ComputeResidualRisk(inherent, overall) == ResidualMatrix[inherent][overall]

\* Insurable types are transferred, an accepted risk is a low one.
RecommendResponse(residual, insurable) ==
    CASE residual = Low -> "Accept"
      [] residual \in {Medium, High} -> IF insurable THEN "Transfer" ELSE "Mitigate"
      [] OTHER -> "Mitigate"

Judgments(MaxControls) ==
    [likelihood: 1..5, consequence: 1..5, velocity: 1..5, insurable: BOOLEAN,
     controls: UNION {[1..n -> 1..4] : n \in 0..MaxControls}]

\* normalize_llm_output raises on a word outside the vocabularies: position 0
\* stands for such a word.
InVocabulary(j) ==
    /\ j.likelihood \in 1..5 /\ j.consequence \in 1..5 /\ j.velocity \in 1..5
    /\ \A i \in DOMAIN j.controls : j.controls[i] \in 1..4

ScoreFromJudgment(j) ==
    LET inherent == ComputeInherentRisk(j.likelihood, j.consequence, j.velocity)
        overall  == ComputeOverallEffectiveness(j.controls)
        residual == ComputeResidualRisk(inherent, overall)
    IN  [inherent |-> inherent, overall |-> overall, residual |-> residual,
         response |-> RecommendResponse(residual, j.insurable)]

\* _RISK_LEVEL_SCORE of the promoted risk
RiskLevelScore(level) == 25 * level
=============================================================================
