------------------------------ MODULE Scoring ------------------------------
(***************************************************************************)
(* domain/scoring.ts: what one answer is worth.  The source computes       *)
(*     round(base * timeFactor * streakMultiplier)                         *)
(* in floating point; here the two fractions of ScoringRules are ratios of *)
(* naturals and the product is rounded exactly, half up as Math.round does.*)
(***************************************************************************)
EXTENDS Integers

CONSTANTS
    MinNum, MinDen,         \* ScoringRules.minFraction = MinNum / MinDen
    BonusNum, BonusDen,     \* ScoringRules.streakBonusPerLevel
    MaxStreakLevel

\* DEFAULT_SCORING: 1/2, 1/10 and 5.
ASSUME ScoringAssumption ==
    /\ MinNum \in Nat /\ MinDen \in Nat \ {0} /\ MinNum <= MinDen
    /\ BonusNum \in Nat /\ BonusDen \in Nat \ {0}
    /\ MaxStreakLevel \in Nat

Clamp(n, lo, hi) == IF n < lo THEN lo ELSE IF n > hi THEN hi ELSE n

\* Math.round(num / den) of a nonnegative ratio.
RoundRatio(num, den) == (2 * num + den) \div (2 * den)

StreakLevel(streak) == Clamp(streak, 0, MaxStreakLevel)

\* minFraction + (1 - minFraction) * (1 - used / limit), over MinDen * limit.
TimeFactorNum(used, limit) == MinNum * limit + (MinDen - MinNum) * (limit - used)

Points(base, elapsed, limit, streak) ==
    RoundRatio(base * TimeFactorNum(Clamp(elapsed, 0, limit), limit)
                    * (BonusDen + StreakLevel(streak) * BonusNum),
               MinDen * limit * BonusDen)

\* ScoreResult for an answer that is right (`correct') or wrong.
ScoreAnswer(correct, base, elapsed, limit, streakBefore) ==
    IF correct
    THEN [points |-> Points(base, elapsed, limit, streakBefore),
          streakAfter |-> streakBefore + 1]
    ELSE [points |-> 0, streakAfter |-> 0]
=============================================================================
