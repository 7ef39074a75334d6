---------------------------- MODULE RulesProofs ----------------------------
(***************************************************************************)
(* The rules of the game that are pure functions: the order of the         *)
(* leaderboard and the ranks it gives (Leaderboard), and what a right      *)
(* answer is worth (Scoring), for every base, limit, elapsed time, streak  *)
(* and every choice of the rules' constants.                               *)
(***************************************************************************)
EXTENDS Scoring, Leaderboard, FiniteSetTheorems, TLAPS

\* Standings of distinct players, as the players map yields them.
IsStandings(S) ==
    /\ IsFiniteSet(S)
    /\ \A s \in S : s.userId \in Int /\ s.score \in Int /\ s.scoreSeq \in Int
    /\ \A s, t \in S : s.userId = t.userId => s = t

\* compareStandings is a strict total order on the standings of a session: two
\* renders of one state never disagree (leaderboard.ts:5-6).
THEOREM AboveIsStrictTotalOrder ==
    ASSUME NEW S, IsStandings(S)
    PROVE  /\ \A s \in S : ~Above(s, s)
           /\ \A s, t, r \in S : Above(s, t) /\ Above(t, r) => Above(s, r)
           /\ \A s, t \in S : s = t \/ Above(s, t) \/ Above(t, s)
  BY DEF Above, IsStandings

\* The standings above another one are finitely many.
LEMMA AboveFinite ==
    ASSUME NEW S, IsStandings(S), NEW s \in S
    PROVE  /\ IsFiniteSet({t \in S : Above(t, s)})
           /\ Cardinality({t \in S : Above(t, s)}) \in Nat
<1>1. {t \in S : Above(t, s)} \subseteq S /\ IsFiniteSet(S)
  BY DEF IsStandings
<1> QED
  BY <1>1, FS_Subset, FS_CardinalityType

\* Who is listed above another has the smaller rank, so ranks are distinct and
\* agree with the order of the list.
THEOREM RanksFollowOrder ==
    ASSUME NEW S, IsStandings(S), NEW s \in S, NEW t \in S, Above(s, t)
    PROVE  Rank(s, S) \in Nat \ {0} /\ Rank(t, S) \in Nat \ {0} /\ Rank(s, S) < Rank(t, S)
<1> DEFINE A == {r \in S : Above(r, s)}
           B == {r \in S : Above(r, t)}
<1>1. A \subseteq B /\ s \in B /\ s \notin A
  BY AboveIsStrictTotalOrder
<1>2. /\ IsFiniteSet(A) /\ IsFiniteSet(B)
      /\ Cardinality(A) \in Nat /\ Cardinality(B) \in Nat
  BY AboveFinite
<1>3. A # B
  BY <1>1
<1>4. Cardinality(A) <= Cardinality(B)
      /\ (Cardinality(A) = Cardinality(B) => A = B)
  BY <1>1, <1>2, FS_Subset
<1> QED
  BY <1>2, <1>3, <1>4 DEF Rank

\* No two players share a rank.
THEOREM RanksDistinct ==
    ASSUME NEW S, IsStandings(S), NEW s \in S, NEW t \in S, Rank(s, S) = Rank(t, S)
    PROVE  s = t
<1>1. Above(s, t) => Rank(s, S) < Rank(t, S) /\ Rank(s, S) \in Nat /\ Rank(t, S) \in Nat
  BY RanksFollowOrder
<1>2. Above(t, s) => Rank(t, S) < Rank(s, S) /\ Rank(s, S) \in Nat /\ Rank(t, S) \in Nat
  BY RanksFollowOrder
<1> QED
  BY <1>1, <1>2, AboveIsStrictTotalOrder

\* A rank is a place of the list.
LEMMA RankWithinBoard ==
    ASSUME NEW S, IsStandings(S), NEW s \in S
    PROVE  Rank(s, S) \in 1..Cardinality(S)
<1> DEFINE A == {t \in S : Above(t, s)}
           n == Cardinality(S)
<1>1. IsFiniteSet(S) /\ n \in Nat
  BY FS_CardinalityType DEF IsStandings
<1>2. A \subseteq S /\ s \notin A
  BY AboveIsStrictTotalOrder
<1>3. Cardinality(A) \in Nat
  BY AboveFinite
<1>4. Cardinality(A) <= n /\ (Cardinality(A) = n => A = S)
  BY <1>1, <1>2, FS_Subset
<1> QED
  BY <1>1, <1>2, <1>3, <1>4 DEF Rank

\* Ranks run from 1 to the number of players without a gap.
LEMMA RanksHaveNoGap ==
    ASSUME NEW S, IsStandings(S)
    PROVE  \A k \in 1..Cardinality(S) : \E s \in S : Rank(s, S) = k
<1> DEFINE n == Cardinality(S)
           rank == [s \in S |-> Rank(s, S)]
           R == {rank[s] : s \in S}
<1>1. IsFiniteSet(S) /\ n \in Nat
  BY FS_CardinalityType DEF IsStandings
<1>2. \A s \in S : Rank(s, S) \in 1..n
  BY RankWithinBoard
<1>3. IsFiniteSet(1..n) /\ Cardinality(1..n) = n
  BY <1>1, FS_Interval
<1>4. R \subseteq 1..n
  BY <1>2
<1>5. IsFiniteSet(R) /\ Cardinality(R) = n
  <2>1. rank \in [S -> R] /\ \A s, t \in S : rank[s] = rank[t] => s = t
    BY RanksDistinct
  <2>2. rank \in Bijection(S, R)
    BY <2>1 DEF Bijection, Injection, Surjection, IsInjective
  <2> QED
    BY <1>1, <2>2, FS_Bijection DEF ExistsBijection
<1>6. R = 1..n
  BY <1>3, <1>4, <1>5, FS_Subset
<1> QED
  BY <1>6

\* The ranking lists every player exactly once, each above all that follow.
THEOREM RankingListsEveryoneInOrder ==
    ASSUME NEW S, IsStandings(S)
    PROVE  /\ \A i \in 1..Cardinality(S) : RankStandings(S)[i] \in S
           /\ \A s \in S : \E i \in 1..Cardinality(S) : RankStandings(S)[i] = s
           /\ \A i, j \in 1..Cardinality(S) :
                i < j => Above(RankStandings(S)[i], RankStandings(S)[j])
<1> DEFINE n == Cardinality(S)
           r == RankStandings(S)
<1>1. \A i \in 1..n : r[i] \in S /\ Rank(r[i], S) = i
  BY RanksHaveNoGap DEF RankStandings
<1>2. ASSUME NEW s \in S PROVE \E i \in 1..n : r[i] = s
  <2>1. Rank(s, S) \in 1..n
    BY RankWithinBoard
  <2>2. r[Rank(s, S)] \in S /\ Rank(r[Rank(s, S)], S) = Rank(s, S)
    BY <1>1, <2>1
  <2> QED
    BY <2>1, <2>2, RanksDistinct
<1>3. ASSUME NEW i \in 1..n, NEW j \in 1..n, i < j PROVE Above(r[i], r[j])
  <2>1. r[i] \in S /\ Rank(r[i], S) = i /\ r[j] \in S /\ Rank(r[j], S) = j
    BY <1>1
  <2>2. r[i] # r[j] /\ ~Above(r[j], r[i])
    BY <1>3, <2>1, RanksFollowOrder
  <2> QED
    BY <2>1, <2>2, AboveIsStrictTotalOrder
<1> QED
  BY <1>1, <1>2, <1>3

\* What two renderings of one player's standing share, whatever its name is.
SameKey(s, t) == s.userId = t.userId /\ s.score = t.score /\ s.scoreSeq = t.scoreSeq

\* Names do not rank: two sets of standings of the same players, with the same
\* scores, put the same player at every place.
THEOREM RankingIgnoresNames ==
    ASSUME NEW S, NEW T, IsStandings(S), IsStandings(T),
           \A s \in S : \E t \in T : SameKey(s, t),
           \A t \in T : \E s \in S : SameKey(s, t)
    PROVE  /\ Cardinality(S) = Cardinality(T)
           /\ \A i \in 1..Cardinality(S) :
                SameKey(RankStandings(S)[i], RankStandings(T)[i])
<1> DEFINE f == [s \in S |-> CHOOSE t \in T : SameKey(s, t)]
           above(s) == {r \in S : Above(r, s)}
           aboveT(t) == {r \in T : Above(r, t)}
<1>1. \A s \in S : f[s] \in T /\ SameKey(s, f[s])
  OBVIOUS
<1>2. \A s, r \in S : f[s] = f[r] => s = r
  BY <1>1 DEF SameKey, IsStandings
<1>3. \A t \in T : \E s \in S : f[s] = t
  BY <1>1 DEF SameKey, IsStandings
<1>4. f \in Bijection(S, T)
  BY <1>1, <1>2, <1>3 DEF Bijection, Injection, Surjection, IsInjective
<1>5. Cardinality(S) = Cardinality(T)
  BY <1>4, FS_Bijection DEF ExistsBijection, IsStandings
<1>6. ASSUME NEW s \in S PROVE Rank(f[s], T) = Rank(s, S)
  <2> DEFINE g == [r \in above(s) |-> f[r]]
  <2>1. \A r \in S : Above(r, s) <=> Above(f[r], f[s])
    BY <1>1 DEF SameKey, Above
  <2>2. g \in [above(s) -> aboveT(f[s])]
    BY <1>1, <2>1
  <2>3. \A r, q \in above(s) : g[r] = g[q] => r = q
    BY <1>2
  <2>4. \A t \in aboveT(f[s]) : \E r \in above(s) : g[r] = t
    BY <1>3, <2>1
  <2>5. g \in Bijection(above(s), aboveT(f[s]))
    BY <2>2, <2>3, <2>4 DEF Bijection, Injection, Surjection, IsInjective
  <2>6. IsFiniteSet(above(s))
    BY AboveFinite
  <2>7. Cardinality(aboveT(f[s])) = Cardinality(above(s))
    BY <2>5, <2>6, FS_Bijection DEF ExistsBijection
  <2> QED
    BY <2>7 DEF Rank
<1>7. ASSUME NEW i \in 1..Cardinality(S)
      PROVE  SameKey(RankStandings(S)[i], RankStandings(T)[i])
  <2> DEFINE s == RankStandings(S)[i]
             t == RankStandings(T)[i]
  <2>1. s \in S /\ Rank(s, S) = i
    BY RanksHaveNoGap DEF RankStandings
  <2>2. t \in T /\ Rank(t, T) = i
    BY <1>5, RanksHaveNoGap DEF RankStandings
  <2>3. f[s] = t
    BY <1>1, <1>6, <2>1, <2>2, RanksDistinct
  <2> QED
    BY <1>1, <2>1, <2>3
<1> QED
  BY <1>5, <1>7

-----------------------------------------------------------------------------
\* Scoring.  The provers know little of products and quotients of variables: the
\* first lemmas state what is needed of them.
LEMMA MulMono ==
    ASSUME NEW a \in Int, NEW b \in Int, NEW c \in Int, a <= b, 0 <= c
    PROVE  a * c <= b * c
BY SMT

LEMMA MulNat ==
    ASSUME NEW a \in Nat, NEW b \in Nat
    PROVE  a * b \in Nat
BY SMT

LEMMA DivBounds ==
    ASSUME NEW n \in Nat, NEW d \in Nat \ {0}
    PROVE  /\ n \div d \in Nat
           /\ (n \div d) * d <= n
           /\ n < (n \div d) * d + d
BY SMT

LEMMA DivMono ==
    ASSUME NEW m \in Nat, NEW n \in Nat, NEW d \in Nat \ {0}, m <= n
    PROVE  m \div d <= n \div d
<1> DEFINE p == m \div d
<1> DEFINE q == n \div d
<1>1. p \in Nat /\ q \in Nat /\ p * d <= m /\ n < q * d + d
  BY DivBounds
<1>2. SUFFICES ASSUME q + 1 <= p PROVE FALSE
  BY <1>1
<1> HIDE DEF p, q
<1>3. (q + 1) * d <= p * d
  BY <1>1, <1>2, MulMono
<1>4. (q + 1) * d = q * d + d
  BY <1>1
<1>5. p * d \in Int /\ q * d \in Int
  BY <1>1
<1> QED  BY <1>1, <1>3, <1>4, <1>5

-----------------------------------------------------------------------------
\* What the points are a rounded ratio of.
Num(base, elapsed, limit, streak) ==
    base * TimeFactorNum(Clamp(elapsed, 0, limit), limit)
         * (BonusDen + StreakLevel(streak) * BonusNum)
Den(limit) == MinDen * limit * BonusDen

LEMMA ClampRange ==
    ASSUME NEW n \in Int, NEW hi \in Nat
    PROVE  Clamp(n, 0, hi) \in 0..hi
BY DEF Clamp

LEMMA ClampMono ==
    ASSUME NEW m \in Int, NEW n \in Int, NEW hi \in Nat, m <= n
    PROVE  Clamp(m, 0, hi) <= Clamp(n, 0, hi)
BY DEF Clamp

\* The time factor is at least minFraction and at most 1, and only falls.
LEMMA FactorRange ==
    ASSUME NEW limit \in Nat \ {0}, NEW used \in 0..limit
    PROVE  /\ TimeFactorNum(used, limit) \in Nat
           /\ MinNum * limit <= TimeFactorNum(used, limit)
           /\ TimeFactorNum(used, limit) <= MinDen * limit
<1>1. MinNum \in Nat /\ MinDen \in Nat /\ MinDen - MinNum \in Nat
  BY ScoringAssumption
<1>2. limit - used \in Nat /\ limit - used <= limit
  OBVIOUS
<1>3. (MinDen - MinNum) * (limit - used) \in Nat
  BY <1>1, <1>2, MulNat
<1>4. (limit - used) * (MinDen - MinNum) <= limit * (MinDen - MinNum)
  BY <1>1, <1>2, MulMono
<1>5. limit * (MinDen - MinNum) = MinDen * limit - MinNum * limit
  BY <1>1
<1>6. (limit - used) * (MinDen - MinNum) = (MinDen - MinNum) * (limit - used)
  BY <1>1, <1>2
<1>7. MinNum * limit \in Nat
  BY <1>1, MulNat
<1>8. MinDen * limit \in Nat
  BY <1>1, MulNat
<1> QED  BY <1>3, <1>4, <1>5, <1>6, <1>7, <1>8 DEF TimeFactorNum

LEMMA FactorFalls ==
    ASSUME NEW limit \in Nat \ {0}, NEW u \in 0..limit, NEW v \in 0..limit, u <= v
    PROVE  TimeFactorNum(v, limit) <= TimeFactorNum(u, limit)
<1>1. MinNum \in Nat /\ MinDen \in Nat /\ MinDen - MinNum \in Nat
  BY ScoringAssumption
<1>2. (limit - v) * (MinDen - MinNum) <= (limit - u) * (MinDen - MinNum)
  BY <1>1, MulMono
<1> QED  BY <1>1, <1>2 DEF TimeFactorNum

\* The streak multiplier is at least 1, at most that of the highest level, and
\* only grows.
LEMMA MultiplierRange ==
    ASSUME NEW streak \in Nat
    PROVE  /\ BonusDen + StreakLevel(streak) * BonusNum \in Nat
           /\ BonusDen <= BonusDen + StreakLevel(streak) * BonusNum
           /\ BonusDen + StreakLevel(streak) * BonusNum
                 <= BonusDen + MaxStreakLevel * BonusNum
<1>1. /\ BonusNum \in Nat /\ BonusDen \in Nat /\ MaxStreakLevel \in Nat
      /\ StreakLevel(streak) \in Nat /\ StreakLevel(streak) <= MaxStreakLevel
  BY ScoringAssumption, ClampRange DEF StreakLevel
<1>2. StreakLevel(streak) * BonusNum \in Nat
  BY <1>1, MulNat
<1>3. StreakLevel(streak) * BonusNum <= MaxStreakLevel * BonusNum
  BY <1>1, MulMono
<1>4. MaxStreakLevel * BonusNum \in Nat
  BY <1>1, MulNat
<1> QED  BY <1>1, <1>2, <1>3, <1>4

LEMMA MultiplierGrows ==
    ASSUME NEW s \in Nat, NEW t \in Nat, s <= t
    PROVE  StreakLevel(s) * BonusNum <= StreakLevel(t) * BonusNum
<1>1. /\ BonusNum \in Nat /\ MaxStreakLevel \in Nat
      /\ StreakLevel(s) \in Int /\ StreakLevel(t) \in Int
      /\ StreakLevel(s) <= StreakLevel(t)
  BY ScoringAssumption, ClampRange, ClampMono DEF StreakLevel
<1> QED  BY <1>1, MulMono

-----------------------------------------------------------------------------
\* Rounding half up keeps the order of ratios over one denominator.
LEMMA RoundMono ==
    ASSUME NEW m \in Nat, NEW n \in Nat, NEW d \in Nat \ {0}, m <= n
    PROVE  RoundRatio(m, d) <= RoundRatio(n, d)
<1>1. 2 * m + d \in Nat /\ 2 * n + d \in Nat /\ 2 * d \in Nat \ {0} /\ 2 * m + d <= 2 * n + d
  OBVIOUS
<1> QED  BY <1>1, DivMono DEF RoundRatio

\* The rounded value is within a half of the ratio.
LEMMA RoundBounds ==
    ASSUME NEW n \in Nat, NEW d \in Nat \ {0}
    PROVE  /\ RoundRatio(n, d) \in Nat
           /\ 2 * (RoundRatio(n, d) * d) <= 2 * n + d
           /\ 2 * n < 2 * (RoundRatio(n, d) * d) + d
<1> DEFINE q == (2 * n + d) \div (2 * d)
<1>1. q \in Nat /\ q * (2 * d) <= 2 * n + d /\ 2 * n + d < q * (2 * d) + 2 * d
  <2>1. 2 * n + d \in Nat /\ 2 * d \in Nat \ {0}
    OBVIOUS
  <2> QED  BY <2>1, DivBounds
<1>2. RoundRatio(n, d) = q
  BY DEF RoundRatio
<1> HIDE DEF q
<1>3. q * (2 * d) = 2 * (q * d) /\ q * d \in Nat
  BY <1>1, MulNat
<1> QED  BY <1>1, <1>2, <1>3

LEMMA NumDen ==
    ASSUME NEW base \in Nat \ {0}, NEW elapsed \in Int, NEW limit \in Nat \ {0},
           NEW streak \in Nat
    PROVE  /\ Num(base, elapsed, limit, streak) \in Nat
           /\ Den(limit) \in Nat \ {0}
<1>1. base * TimeFactorNum(Clamp(elapsed, 0, limit), limit) \in Nat
  BY ClampRange, FactorRange, MulNat
<1>2. Num(base, elapsed, limit, streak) \in Nat
  BY <1>1, MultiplierRange, MulNat DEF Num
<1>3. MinDen * limit \in Nat \ {0}
  BY ScoringAssumption
<1>4. MinDen * limit * BonusDen \in Nat \ {0}
  BY <1>3, ScoringAssumption
<1> QED  BY <1>2, <1>4 DEF Den

\* Answering later is never worth more: neither the clamp nor the rounding
\* inverts the order (scoring.ts).
THEOREM FasterIsWorthMore ==
    ASSUME NEW base \in Nat \ {0}, NEW limit \in Nat \ {0}, NEW streak \in Nat,
           NEW e \in Int, NEW f \in Int, e <= f
    PROVE  Points(base, f, limit, streak) <= Points(base, e, limit, streak)
<1> DEFINE m == BonusDen + StreakLevel(streak) * BonusNum
           tf == TimeFactorNum(Clamp(f, 0, limit), limit)
           te == TimeFactorNum(Clamp(e, 0, limit), limit)
<1>1. tf \in Nat /\ te \in Nat /\ m \in Nat
  BY ClampRange, FactorRange, MultiplierRange
<1>2. tf <= te
  BY ClampRange, ClampMono, FactorFalls
<1>3. Num(base, f, limit, streak) = base * tf * m /\ Num(base, e, limit, streak) = base * te * m
  BY DEF Num
<1> HIDE DEF m, tf, te
<1>4. tf * base <= te * base
  BY <1>1, <1>2, MulMono
<1>5. base * tf = tf * base /\ base * te = te * base /\ tf * base \in Nat /\ te * base \in Nat
  BY <1>1, MulNat
<1>6. (base * tf) * m <= (base * te) * m
  BY <1>1, <1>4, <1>5, MulMono
<1>7. Num(base, f, limit, streak) <= Num(base, e, limit, streak)
  BY <1>3, <1>6
<1>8. RoundRatio(Num(base, f, limit, streak), Den(limit))
        <= RoundRatio(Num(base, e, limit, streak), Den(limit))
  BY <1>7, NumDen, RoundMono, Zenon
<1>9. /\ Points(base, f, limit, streak) = RoundRatio(Num(base, f, limit, streak), Den(limit))
      /\ Points(base, e, limit, streak) = RoundRatio(Num(base, e, limit, streak), Den(limit))
  BY DEF Points, Num, Den
<1> QED  BY <1>8, <1>9, Zenon

\* A longer streak is never worth less, beyond the highest level included.
THEOREM StreakIsWorthMore ==
    ASSUME NEW base \in Nat \ {0}, NEW limit \in Nat \ {0}, NEW elapsed \in Int,
           NEW s \in Nat, NEW t \in Nat, s <= t
    PROVE  Points(base, elapsed, limit, s) <= Points(base, elapsed, limit, t)
<1> DEFINE b == base * TimeFactorNum(Clamp(elapsed, 0, limit), limit)
           ms == BonusDen + StreakLevel(s) * BonusNum
           mt == BonusDen + StreakLevel(t) * BonusNum
<1>1. b \in Nat
  BY ClampRange, FactorRange, MulNat
<1>2. ms \in Nat /\ mt \in Nat
  BY MultiplierRange
<1>3. ms <= mt
  <2>1. StreakLevel(s) * BonusNum <= StreakLevel(t) * BonusNum
    BY MultiplierGrows
  <2>2. /\ BonusDen \in Nat /\ StreakLevel(s) * BonusNum \in Int
        /\ StreakLevel(t) * BonusNum \in Int
    <3>1. StreakLevel(s) \in Nat /\ StreakLevel(t) \in Nat
      BY ScoringAssumption, ClampRange DEF StreakLevel
    <3> QED  BY <3>1, ScoringAssumption, MulNat
  <2> QED  BY <2>1, <2>2
<1>4. Num(base, elapsed, limit, s) = b * ms /\ Num(base, elapsed, limit, t) = b * mt
  BY DEF Num
<1> HIDE DEF b, ms, mt
<1>5. ms * b <= mt * b
  BY <1>1, <1>2, <1>3, MulMono
<1>6. ms * b = b * ms /\ mt * b = b * mt
  BY <1>1, <1>2
<1>7. Num(base, elapsed, limit, s) <= Num(base, elapsed, limit, t)
  BY <1>4, <1>5, <1>6
<1>8. RoundRatio(Num(base, elapsed, limit, s), Den(limit))
        <= RoundRatio(Num(base, elapsed, limit, t), Den(limit))
  BY <1>7, NumDen, RoundMono, Zenon
<1>9. /\ Points(base, elapsed, limit, s) = RoundRatio(Num(base, elapsed, limit, s), Den(limit))
      /\ Points(base, elapsed, limit, t) = RoundRatio(Num(base, elapsed, limit, t), Den(limit))
  BY DEF Points, Num, Den
<1> QED  BY <1>8, <1>9, Zenon

\* What is common to both sides of an inequality may be dropped.
LEMMA Cancel ==
    ASSUME NEW a \in Int, NEW b \in Int, NEW k \in Nat \ {0}, a * k <= b * k
    PROVE  a <= b
<1>1. SUFFICES ASSUME b + 1 <= a PROVE FALSE
  OBVIOUS
<1>2. (b + 1) * k <= a * k
  BY <1>1, MulMono
<1>3. (b + 1) * k = b * k + k /\ b * k \in Int /\ a * k \in Int
  OBVIOUS
<1> QED  BY <1>2, <1>3

\* A right answer, however late, is worth at least base * minFraction, but for the
\* rounding (scoring.ts, "Rules").
THEOREM WorthAtLeastMinFraction ==
    ASSUME NEW base \in Nat \ {0}, NEW limit \in Nat \ {0}, NEW elapsed \in Int,
           NEW streak \in Nat
    PROVE  2 * (base * MinNum) <= (2 * Points(base, elapsed, limit, streak) + 1) * MinDen
<1> DEFINE P == Points(base, elapsed, limit, streak)
           N == Num(base, elapsed, limit, streak)
           D == Den(limit)
           T == TimeFactorNum(Clamp(elapsed, 0, limit), limit)
           M == BonusDen + StreakLevel(streak) * BonusNum
           k == limit * BonusDen
<1>1. /\ N \in Nat /\ D \in Nat \ {0} /\ P \in Nat
      /\ 2 * N < 2 * (P * D) + D
  <2>1. N \in Nat /\ D \in Nat \ {0}
    BY NumDen
  <2>2. P = RoundRatio(N, D)
    BY DEF Points, Num, Den
  <2> HIDE DEF N, D, P
  <2> QED  BY <2>1, <2>2, RoundBounds
<1>2. /\ T \in Nat /\ MinNum * limit <= T
      /\ M \in Nat /\ BonusDen <= M
  BY ClampRange, FactorRange, MultiplierRange
<1>3. N = base * T * M
  BY DEF Num
<1>4. /\ MinNum \in Nat /\ MinDen \in Nat /\ BonusDen \in Nat /\ k \in Nat \ {0}
      /\ D = MinDen * k
  <2>1. /\ MinNum \in Nat /\ MinDen \in Nat \ {0} /\ BonusDen \in Nat \ {0}
    BY ScoringAssumption
  <2>2. k \in Nat \ {0}
    BY <2>1
  <2>3. MinDen * limit * BonusDen = MinDen * (limit * BonusDen)
    BY <2>1
  <2> QED  BY <2>1, <2>2, <2>3 DEF Den
<1> HIDE DEF P, N, D, T, M
<1>5. (base * MinNum) * k <= N
  <2>1. (MinNum * limit) * base <= T * base
    BY <1>2, <1>4, MulMono, MulNat
  <2>2. (MinNum * limit) * base \in Nat /\ T * base \in Nat
    BY <1>2, <1>4, MulNat
  <2>3. (MinNum * limit) * base * BonusDen <= T * base * BonusDen
    BY <2>1, <2>2, <1>4, MulMono
  <2>4. BonusDen * (T * base) <= M * (T * base)
    BY <2>2, <1>2, <1>4, MulMono
  <2>5. T * base * BonusDen = BonusDen * (T * base)
    BY <2>2, <1>4
  <2>6. M * (T * base) = base * T * M
    BY <1>2
  <2>7. (MinNum * limit) * base * BonusDen = (base * MinNum) * (limit * BonusDen)
    BY <1>4
  <2>8. BonusDen * (T * base) \in Nat /\ (MinNum * limit) * base * BonusDen \in Nat
    BY <2>2, <1>4, MulNat
  <2>9. M * (T * base) \in Nat
    BY <2>2, <1>2, MulNat
  <2>10. (MinNum * limit) * base * BonusDen <= M * (T * base)
    BY <2>3, <2>4, <2>5, <2>8, <2>9
  <2> QED  BY <2>6, <2>7, <2>10, <1>3
<1> HIDE DEF k
<1>6. (2 * (base * MinNum)) * k = 2 * ((base * MinNum) * k) /\ (base * MinNum) * k \in Nat
  BY <1>4, MulNat
<1>7. ((2 * P + 1) * MinDen) * k = 2 * (P * D) + D
  <2>1. ((2 * P + 1) * MinDen) * k = (2 * P + 1) * (MinDen * k)
    BY <1>1, <1>4
  <2>2. (2 * P + 1) * D = 2 * (P * D) + D
    BY <1>1
  <2> QED  BY <2>1, <2>2, <1>4
<1>8. P * D \in Nat
  BY <1>1, MulNat
<1>9. (2 * (base * MinNum)) * k <= ((2 * P + 1) * MinDen) * k
  BY <1>1, <1>5, <1>6, <1>7, <1>8
<1>10. 2 * (base * MinNum) \in Int /\ (2 * P + 1) * MinDen \in Int
  BY <1>1, <1>4
<1>11. 2 * (base * MinNum) <= (2 * P + 1) * MinDen
  BY <1>4, <1>9, <1>10, Cancel
<1> QED  BY <1>11 DEF P

\* And at most the whole base with the highest bonus, but for the rounding.
THEOREM WorthAtMostFullBonus ==
    ASSUME NEW base \in Nat \ {0}, NEW limit \in Nat \ {0}, NEW elapsed \in Int,
           NEW streak \in Nat
    PROVE  2 * (Points(base, elapsed, limit, streak) * BonusDen)
             <= 2 * (base * (BonusDen + MaxStreakLevel * BonusNum)) + BonusDen
<1> DEFINE P == Points(base, elapsed, limit, streak)
           N == Num(base, elapsed, limit, streak)
           D == Den(limit)
           T == TimeFactorNum(Clamp(elapsed, 0, limit), limit)
           M == BonusDen + StreakLevel(streak) * BonusNum
           X == BonusDen + MaxStreakLevel * BonusNum
           k == MinDen * limit
<1>1. /\ N \in Nat /\ D \in Nat \ {0} /\ P \in Nat
      /\ 2 * (P * D) <= 2 * N + D
  <2>1. N \in Nat /\ D \in Nat \ {0}
    BY NumDen
  <2>2. P = RoundRatio(N, D)
    BY DEF Points, Num, Den
  <2> HIDE DEF N, D, P
  <2> QED  BY <2>1, <2>2, RoundBounds
<1>2. T \in Nat /\ T <= k /\ M \in Nat /\ M <= X
  BY ClampRange, FactorRange, MultiplierRange
<1>3. N = base * T * M
  BY DEF Num
<1>4. BonusDen \in Nat /\ k \in Nat \ {0} /\ D = k * BonusDen /\ X \in Nat
  <2>1. MaxStreakLevel * BonusNum \in Nat
    BY ScoringAssumption, MulNat
  <2> QED  BY <2>1, ScoringAssumption DEF Den
<1> HIDE DEF P, N, D, T, M, X, k
<1>5. N <= (base * X) * k
  <2>1. T * base <= k * base /\ T * base \in Nat /\ k * base \in Nat
    BY <1>2, <1>4, MulMono, MulNat
  <2>2. (T * base) * M <= (k * base) * M
    BY <2>1, <1>2, MulMono
  <2>3. M * (k * base) <= X * (k * base)
    BY <2>1, <1>2, <1>4, MulMono
  <2>4. (T * base) * M = base * T * M /\ (k * base) * M = M * (k * base)
    BY <1>2, <1>4
  <2>5. X * (k * base) = (base * X) * k
    BY <1>4
  <2>6. (T * base) * M \in Nat /\ M * (k * base) \in Nat /\ X * (k * base) \in Nat
    BY <2>1, <1>2, <1>4, MulNat
  <2> QED  BY <2>2, <2>3, <2>4, <2>5, <2>6, <1>3
<1>6. (2 * (P * BonusDen)) * k = 2 * (P * D)
  <2>1. (2 * (P * BonusDen)) * k = 2 * (P * (k * BonusDen))
    BY <1>1, <1>4
  <2> QED  BY <2>1, <1>4
<1>7. (2 * (base * X) + BonusDen) * k = 2 * ((base * X) * k) + D
  <2>1. (2 * (base * X) + BonusDen) * k = 2 * ((base * X) * k) + k * BonusDen
    BY <1>4
  <2> QED  BY <2>1, <1>4
<1>8. P * D \in Nat /\ (base * X) * k \in Nat
  BY <1>1, <1>4, MulNat
<1>9. (2 * (P * BonusDen)) * k <= (2 * (base * X) + BonusDen) * k
  BY <1>1, <1>5, <1>6, <1>7, <1>8
<1>10. 2 * (P * BonusDen) \in Int /\ 2 * (base * X) + BonusDen \in Int
  BY <1>1, <1>4
<1>11. 2 * (P * BonusDen) <= 2 * (base * X) + BonusDen
  BY <1>4, <1>9, <1>10, Cancel
<1> QED  BY <1>11 DEF P, X
=============================================================================
