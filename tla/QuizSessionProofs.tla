------------------------- MODULE QuizSessionProofs -------------------------
(***************************************************************************)
(* Theorems about the session reducer, for any number of players and       *)
(* questions, any rules and any behaviour of the clock.                    *)
(***************************************************************************)
EXTENDS QuizSession, WellFoundedInduction, TLAPS

\* Math.round never makes a nonnegative ratio negative.
LEMMA RoundRatioNat ==
    ASSUME NEW num \in Nat, NEW den \in Nat \ {0}
    PROVE  RoundRatio(num, den) \in Nat
<1>1. 2 * num + den \in Nat /\ 2 * den \in Nat \ {0}
  OBVIOUS
<1>2. \A a \in Nat, b \in Nat \ {0} : a \div b \in Nat
  BY SMT
<1> QED
  BY <1>1, <1>2 DEF RoundRatio

\* The product of two naturals is a natural, positive if both are: stated once
\* for the products of scoreAnswer, which are not linear.
LEMMA TimesNat ==
    ASSUME NEW a \in Nat, NEW b \in Nat
    PROVE  a * b \in Nat /\ (a # 0 /\ b # 0 => a * b # 0)
  OBVIOUS

\* Whatever the clock says and however long the streak, an answer is worth a
\* natural number of points.
LEMMA PointsNat ==
    ASSUME NEW base \in Nat, NEW elapsed \in Int, NEW limit \in Nat \ {0},
           NEW str \in Nat
    PROVE  Points(base, elapsed, limit, str) \in Nat
<1> DEFINE used == Clamp(elapsed, 0, limit)
           level == StreakLevel(str)
<1> USE ScoringAssumption
<1>1. used \in Nat /\ used <= limit
  BY DEF Clamp
<1>2. level \in Nat
  BY DEF StreakLevel, Clamp
<1> HIDE DEF used, level
<1>3. TimeFactorNum(used, limit) \in Nat
  <2>1. limit - used \in Nat /\ MinDen - MinNum \in Nat
    BY <1>1
  <2> QED
    BY <2>1, TimesNat DEF TimeFactorNum
<1>4. BonusDen + level * BonusNum \in Nat
  BY <1>2, TimesNat
<1>5. base * TimeFactorNum(used, limit) \in Nat
  BY <1>3, TimesNat
<1>6. base * TimeFactorNum(used, limit) * (BonusDen + level * BonusNum) \in Nat
  BY <1>4, <1>5, TimesNat
<1>7. MinDen * limit * BonusDen \in Nat \ {0}
  <2>1. MinDen * limit \in Nat \ {0}
    BY TimesNat
  <2> QED
    BY <2>1, TimesNat
<1> QED
  BY <1>6, <1>7, RoundRatioNat DEF Points, used, level

\* scoreAnswer's result as the session uses it.
LEMMA ResultType ==
    ASSUME TypeOK, NEW u \in Users, NEW q \in Questions, NEW c \in BOOLEAN
    PROVE  /\ Result(u, q, c) \in [points : Nat, streakAfter : Nat]
           /\ c => Result(u, q, c).streakAfter = streak[u] + 1
           /\ ~c => Result(u, q, c).streakAfter = 0
<1>1. /\ now - questionStartedAt \in Int /\ streak[u] \in Nat
      /\ TimeLimit[q] \in Nat \ {0} /\ BasePoints[q] \in Nat
  BY SessionAssumption DEF TypeOK
<1>2. Points(BasePoints[q], now - questionStartedAt, TimeLimit[q], streak[u]) \in Nat
  BY <1>1, PointsNat
<1> QED
  BY <1>1, <1>2 DEF Result, ScoreAnswer

-----------------------------------------------------------------------------
\* The fields of the session keep the types of domain/types.ts under every
\* command, whatever the clock does.
LEMMA InitType == Init => TypeOK
<1> USE SessionAssumption
<1>1. NumQuestions - 1 \in Nat
  OBVIOUS
<1> QED
  BY <1>1 DEF Init, TypeOK, Phases

LEMMA OpenQuestionType ==
    ASSUME TypeOK, NEW i \in Questions, OpenQuestion(i)
    PROVE  /\ phase' \in Phases /\ currentIndex' \in -1..(NumQuestions - 1)
           /\ questionStartedAt' \in Int /\ questionEndsAt' \in Int
           /\ phaseUntil' \in Int \cup {None}
<1>1. TimeLimit[i] \in Nat
  BY SessionAssumption
<1> QED
  BY <1>1 DEF OpenQuestion, TypeOK, Phases, Questions

LEMMA EndQuestionType ==
    ASSUME TypeOK, EndQuestion
    PROVE  /\ phase' \in Phases /\ currentIndex' \in -1..(NumQuestions - 1)
           /\ questionStartedAt' \in Int /\ questionEndsAt' \in Int
           /\ phaseUntil' \in Int \cup {None}
  BY SessionAssumption DEF EndQuestion, TypeOK, Phases

LEMMA TypeStep == TypeOK /\ [Command \/ AnyClock]_vars => TypeOK'
<1> SUFFICES ASSUME TypeOK, [Command \/ AnyClock]_vars PROVE TypeOK'
  OBVIOUS
<1> USE SessionAssumption
<1>1. ASSUME NEW u \in Users, NEW n \in Names, Rejoin(u, n) PROVE TypeOK'
  BY <1>1 DEF Rejoin, TypeOK, phaseVars, clockVars
<1>2. ASSUME NEW u \in Users, NEW n \in Names, JoinNew(u, n) PROVE TypeOK'
  BY <1>2 DEF JoinNew, TakeScoreSeq, TypeOK, clockVars
<1>3. ASSUME NEW u \in Users, NEW q \in Questions, NEW c \in BOOLEAN,
             AnswerAccepted(u, q, c)
      PROVE  TypeOK'
  <2> DEFINE r == Result(u, q, c)
  <2>1. r \in [points : Nat, streakAfter : Nat]
    BY ResultType
  <2> HIDE DEF r
  <2>2. score' \in [Users -> Nat]
    BY <1>3, <2>1 DEF AnswerAccepted, TypeOK, r
  <2>3. answers' \in [Users -> [Questions -> Answer \cup {None}]]
    <3>1. [correct |-> c, points |-> r.points] \in Answer
      BY <2>1 DEF Answer
    <3>2. answers' = [answers EXCEPT ![u] = [answers[u] EXCEPT ![q] =
                        [correct |-> c, points |-> r.points]]]
      BY <1>3 DEF AnswerAccepted, r
    <3> QED
      BY <3>1, <3>2 DEF TypeOK
  <2>4. scoreSeq' \in [Users -> Nat] /\ nextScoreSeq' \in Nat \ {0}
    BY <1>3 DEF AnswerAccepted, TakeScoreSeq, TypeOK
  <2>5. [streak EXCEPT ![u] = r.streakAfter] \in [Users -> Nat]
    BY <2>1 DEF TypeOK
  <2>6. streak' \in [Users -> Nat]
    <3>1. CASE EndEarly /\ EveryoneAnswered(u, q)
      <4>1. streak' = BrokenStreaks([streak EXCEPT ![u] = r.streakAfter], answers')
        BY <1>3, <3>1 DEF AnswerAccepted, r
      <4> QED
        BY <2>5, <4>1 DEF BrokenStreaks
    <3>2. CASE ~(EndEarly /\ EveryoneAnswered(u, q))
      BY <1>3, <2>5, <3>2 DEF AnswerAccepted, r
    <3> QED
      BY <3>1, <3>2
  <2>7. /\ phase' \in Phases /\ currentIndex' \in -1..(NumQuestions - 1)
        /\ questionStartedAt' \in Int /\ questionEndsAt' \in Int
        /\ phaseUntil' \in Int \cup {None}
    <3>1. CASE EndEarly /\ EveryoneAnswered(u, q)
      <4>1. EndQuestion
        BY <1>3, <3>1 DEF AnswerAccepted
      <4> QED
        BY <4>1, EndQuestionType
    <3>2. CASE ~(EndEarly /\ EveryoneAnswered(u, q))
      <4>1. UNCHANGED phaseVars
        BY <1>3, <3>2 DEF AnswerAccepted
      <4> QED
        BY <4>1 DEF phaseVars, TypeOK
    <3> QED
      BY <3>1, <3>2
  <2>8. UNCHANGED <<joined, name>> /\ UNCHANGED clockVars
    BY <1>3 DEF AnswerAccepted
  <2> QED
    BY <2>2, <2>3, <2>4, <2>6, <2>7, <2>8 DEF TypeOK, clockVars
<1>4. ASSUME NEW i \in Questions, OpenQuestion(i), UNCHANGED playerVars,
             UNCHANGED clockVars
      PROVE  TypeOK'
  BY <1>4, OpenQuestionType DEF playerVars, clockVars, TypeOK
<1>5. CASE Start
  <2>1. 0 \in Questions
    BY DEF Questions
  <2> QED
    BY <1>4, <1>5, <2>1 DEF Start
<1>6. CASE TickLobby
  <2>1. 0 \in Questions
    BY DEF Questions
  <2> QED
    BY <1>4, <1>6, <2>1 DEF TickLobby
<1>7. CASE TickQuestion
  <2>1. streak' \in [Users -> Nat]
    BY <1>7 DEF TickQuestion, BrokenStreaks, TypeOK
  <2>2. EndQuestion
    BY <1>7 DEF TickQuestion
  <2>3. /\ UNCHANGED <<joined, name, score, scoreSeq, answers, nextScoreSeq>>
        /\ UNCHANGED clockVars
    BY <1>7 DEF TickQuestion
  <2> QED
    BY <2>1, <2>2, <2>3, EndQuestionType DEF TypeOK, clockVars
<1>8. CASE TickReveal
  <2>1. CASE currentIndex + 1 >= NumQuestions
    BY <1>8, <2>1 DEF TickReveal, TypeOK, Phases, playerVars, clockVars
  <2>2. CASE ~(currentIndex + 1 >= NumQuestions)
    <3>1. currentIndex + 1 \in Questions
      BY <2>2 DEF TypeOK, Questions
    <3> QED
      BY <1>4, <1>8, <2>2, <3>1 DEF TickReveal
  <2> QED
    BY <2>1, <2>2
<1>9. CASE AnyClock
  BY <1>9 DEF AnyClock, playerVars, phaseVars, TypeOK
<1>10. CASE UNCHANGED vars
  BY <1>10 DEF vars, playerVars, phaseVars, clockVars, TypeOK
<1> QED
  BY <1>1, <1>2, <1>3, <1>5, <1>6, <1>7, <1>8, <1>9, <1>10
     DEF Command, Join, Tick

\* Every field of the session keeps its type under every command, whatever the
\* clock does in between.
THEOREM TypeCorrect == AnyClockSpec => []TypeOK
  BY InitType, TypeStep, PTL DEF AnyClockSpec

\* The bounded clock of Spec is one of the clocks of AnyClockSpec, so whatever
\* holds under any clock holds of Spec.
THEOREM SpecImpliesAnyClock == Spec => AnyClockSpec
<1>1. TypeOK /\ [Next]_vars => [Command \/ AnyClock]_vars
  BY DEF TypeOK, Next, Advance, ClockBack, AnyClock
<1>2. TypeOK /\ [Next]_vars => TypeOK'
  BY <1>1, TypeStep
<1> QED
  BY <1>1, <1>2, InitType, PTL DEF Spec, AnyClockSpec

-----------------------------------------------------------------------------
\* What a step does to scores and score sequence numbers: at most one player
\* at a time takes a number, and only a player who takes one scores or joins.
ScoreStep ==
    \/ UNCHANGED <<joined, score, scoreSeq, nextScoreSeq>>
    \/ \E u \in Users :
        /\ joined' = joined \cup {u}
        /\ \A v \in Users \ {u} : score'[v] = score[v]
        /\ IF u \in joined THEN score'[u] > score[u] ELSE score' = score
        /\ TakeScoreSeq(u)

LEMMA StepScores == TypeOK /\ [Command \/ AnyClock]_vars => ScoreStep
<1> SUFFICES ASSUME TypeOK, [Command \/ AnyClock]_vars PROVE ScoreStep
  OBVIOUS
<1> USE DEF ScoreStep
<1>1. ASSUME NEW u \in Users, NEW n \in Names, JoinNew(u, n) PROVE ScoreStep
  BY <1>1 DEF JoinNew, TypeOK
<1>2. ASSUME NEW u \in Users, NEW q \in Questions, NEW c \in BOOLEAN,
             AnswerAccepted(u, q, c)
      PROVE  ScoreStep
  <2> DEFINE r == Result(u, q, c)
  <2>1. r.points \in Nat
    BY ResultType
  <2>2. /\ u \in joined /\ joined' = joined
        /\ score' = [score EXCEPT ![u] = score[u] + r.points]
        /\ IF r.points > 0 THEN TakeScoreSeq(u)
                           ELSE UNCHANGED <<scoreSeq, nextScoreSeq>>
    BY <1>2 DEF AnswerAccepted
  <2> HIDE DEF r
  <2>3. CASE r.points > 0
    BY <2>1, <2>2, <2>3 DEF TypeOK
  <2>4. CASE r.points = 0
    BY <2>2, <2>4 DEF TypeOK
  <2> QED
    BY <2>1, <2>3, <2>4
<1>3. CASE UNCHANGED playerVars
  BY <1>3 DEF playerVars
<1>4. ASSUME NEW u \in Users, NEW n \in Names, Rejoin(u, n) PROVE ScoreStep
  BY <1>4 DEF Rejoin
<1>5. CASE TickQuestion
  BY <1>5 DEF TickQuestion
<1> QED
  BY <1>1, <1>2, <1>3, <1>4, <1>5
     DEF Command, Join, Start, Tick, TickLobby, TickReveal, AnyClock, vars

LEMMA ScoreSeqStep == TypeOK /\ ScoreSeqUnique /\ ScoreStep => ScoreSeqUnique'
<1> SUFFICES ASSUME TypeOK, ScoreSeqUnique, ScoreStep PROVE ScoreSeqUnique'
  OBVIOUS
<1>1. ASSUME NEW u \in Users, joined' = joined \cup {u}, TakeScoreSeq(u)
      PROVE  ScoreSeqUnique'
  BY <1>1 DEF TakeScoreSeq, ScoreSeqUnique, TypeOK
<1>2. CASE UNCHANGED <<joined, score, scoreSeq, nextScoreSeq>>
  BY <1>2 DEF ScoreSeqUnique
<1> QED
  BY <1>1, <1>2 DEF ScoreStep

\* Score sequence numbers tell any two players apart, so a tie in points is
\* always settled by who got there first.
THEOREM ScoreSeqsUnique == AnyClockSpec => []ScoreSeqUnique
<1>1. Init => ScoreSeqUnique
  BY DEF Init, ScoreSeqUnique
<1>2. TypeOK /\ ScoreSeqUnique /\ [Command \/ AnyClock]_vars => ScoreSeqUnique'
  BY StepScores, ScoreSeqStep
<1> QED
  BY <1>1, <1>2, TypeCorrect, PTL DEF AnyClockSpec

LEMMA OvertakeStep ==
    ASSUME TypeOK, ScoreSeqUnique, ScoreStep, NEW u \in joined, NEW v \in joined,
           TypeOK', Above(Standing(u), Standing(v)), score'[v] <= score'[u]
    PROVE  Above(Standing(u)', Standing(v)')
<1> USE DEF Above, Standing
<1>1. u \in Users /\ v \in Users /\ u # v
  <2>1. u \in Users /\ v \in Users
    BY DEF TypeOK
  <2>2. score[u] \in Nat /\ scoreSeq[u] \in Nat /\ u \in Int
    BY <2>1, SessionAssumption DEF TypeOK
  <2> QED
    BY <2>1, <2>2
<1>2. CASE UNCHANGED <<joined, score, scoreSeq, nextScoreSeq>>
  BY <1>2
<1>3. ASSUME NEW w \in Users, \A x \in Users \ {w} : score'[x] = score[x],
             IF w \in joined THEN score'[w] > score[w] ELSE score' = score,
             TakeScoreSeq(w)
      PROVE  Above(Standing(u)', Standing(v)')
  <2>1. scoreSeq' = [scoreSeq EXCEPT ![w] = nextScoreSeq]
    BY <1>3 DEF TakeScoreSeq
  <2>2. /\ score[u] \in Nat /\ score[v] \in Nat /\ scoreSeq[u] \in Nat
        /\ scoreSeq[v] \in Nat /\ nextScoreSeq \in Nat
        /\ scoreSeq[u] < nextScoreSeq /\ scoreSeq[v] < nextScoreSeq
    BY <1>1 DEF TypeOK, ScoreSeqUnique
  <2>3. \/ score[u] > score[v]
        \/ score[u] = score[v] /\ scoreSeq[u] < scoreSeq[v]
    BY <1>1, <2>2 DEF ScoreSeqUnique
  <2>4. score'[v] \in Int /\ score'[u] \in Int
    BY <1>1 DEF TypeOK
  <2>5. \/ score'[u] > score'[v]
        \/ score'[u] = score'[v] /\ scoreSeq'[u] < scoreSeq'[v]
    <3>1. CASE w = u
      <4>1. score'[u] > score[u] /\ score'[v] = score[v]
        BY <1>1, <1>3, <3>1
      <4> QED
        BY <2>2, <2>3, <2>4, <4>1
    <3>2. CASE w = v
      <4>1. /\ score'[v] > score[v] /\ score'[u] = score[u]
            /\ scoreSeq'[v] = nextScoreSeq /\ scoreSeq'[u] = scoreSeq[u]
        BY <1>1, <1>3, <2>1, <3>2 DEF TypeOK
      <4> QED
        BY <2>2, <2>4, <4>1
    <3>3. CASE w # u /\ w # v
      <4>1. /\ score'[v] = score[v] /\ score'[u] = score[u]
            /\ scoreSeq'[v] = scoreSeq[v] /\ scoreSeq'[u] = scoreSeq[u]
        BY <1>1, <1>3, <2>1, <3>3 DEF TypeOK
      <4> QED
        BY <2>3, <4>1
    <3> QED
      BY <3>1, <3>2, <3>3
  <2> QED
    BY <2>5
<1> QED
  BY <1>2, <1>3 DEF ScoreStep

\* Nobody overtakes another player without strictly more points.
THEOREM NoOvertakingOnTies == AnyClockSpec => OvertakeOnlyByPoints
<1>1. TypeOK /\ ScoreSeqUnique /\ [Command \/ AnyClock]_vars
        => [\A u, v \in joined :
              Above(Standing(u), Standing(v)) /\ score'[v] <= score'[u]
                => Above(Standing(u)', Standing(v)')]_vars
  BY StepScores, OvertakeStep, TypeStep
<1> QED
  BY <1>1, TypeCorrect, ScoreSeqsUnique, PTL DEF AnyClockSpec, OvertakeOnlyByPoints

-----------------------------------------------------------------------------
\* What accepting u's answer to question q changes, spelled out.
LEMMA AnswerStep ==
    ASSUME TypeOK, NEW u \in Users, NEW q \in Questions, NEW c \in BOOLEAN,
           AnswerAccepted(u, q, c)
    PROVE  /\ u \in joined /\ joined' = joined
           /\ phase = "question" /\ q = currentIndex /\ currentIndex' = currentIndex
           /\ ~Answered(u, q)
           /\ Answered(u, q)' /\ (Correct(u, q)' <=> c)
           /\ \A v \in Users, p \in Questions :
                  v # u \/ p # q => answers'[v][p] = answers[v][p]
           /\ \A v \in joined :
                  \/ v = u /\ streak'[v] = IF c THEN streak[v] + 1 ELSE 0
                  \/ v # u /\ streak'[v] = streak[v]
           /\ \A v \in Users \ joined : streak'[v] = streak[v]
           /\ IF EndEarly /\ EveryoneAnswered(u, q) THEN phase' = "reveal"
                                                    ELSE phase' = phase
           /\ phase' = "reveal" => \A v \in joined : Answered(v, q)'
<1> DEFINE r == Result(u, q, c)
           a == [correct |-> c, points |-> r.points]
           str == [streak EXCEPT ![u] = r.streakAfter]
<1>1. r.points \in Nat /\ r.streakAfter = (IF c THEN streak[u] + 1 ELSE 0)
  BY ResultType
<1>2. a # None /\ a.correct = c
  BY <1>1, NoneAssumption DEF a
<1>3. /\ u \in joined /\ joined' = joined
      /\ answers' = [answers EXCEPT ![u] = [answers[u] EXCEPT ![q] = a]]
      /\ IF EndEarly /\ EveryoneAnswered(u, q)
         THEN EndQuestion /\ streak' = BrokenStreaks(str, answers')
         ELSE UNCHANGED phaseVars /\ streak' = str
  BY DEF AnswerAccepted
<1>4. phase = "question" /\ q = currentIndex /\ ~Answered(u, q)
  <2>1. RejectReason(u, q) = None
    BY DEF AnswerAccepted
  <2>2. /\ "not_open" # None /\ "unknown_question" # None
        /\ "already_answered" # None
    BY NoneAssumption DEF RejectReasons
  <2>3. phase # "question" => RejectReason(u, q) = "not_open"
    BY DEF RejectReason
  <2>4. phase = "question" /\ q # currentIndex => RejectReason(u, q) = "unknown_question"
    BY DEF RejectReason
  <2>5. phase = "question" /\ q = currentIndex /\ Answered(u, q)
          => RejectReason(u, q) = "already_answered"
    BY DEF RejectReason
  <2> QED
    BY <2>1, <2>2, <2>3, <2>4, <2>5
<1>5. CASE EndEarly /\ EveryoneAnswered(u, q)
  <2>1. \A v \in joined : v = u \/ Answered(v, q)
    BY <1>5 DEF EveryoneAnswered
  <2>2. \A v \in joined : answers'[v][q] # None
    BY <1>2, <1>3, <2>1 DEF TypeOK, Answered
  <2>3. streak' = str
    BY <1>3, <1>4, <1>5, <2>2 DEF BrokenStreaks, TypeOK
  <2>4. phase' = "reveal" /\ currentIndex' = currentIndex
    BY <1>3, <1>5 DEF EndQuestion
  <2> HIDE DEF a, r
  <2> QED
    BY <1>1, <1>2, <1>3, <1>4, <1>5, <2>2, <2>3, <2>4 DEF TypeOK, Answered, Correct
<1>6. CASE ~(EndEarly /\ EveryoneAnswered(u, q))
  <2>1. streak' = str /\ phase' = phase /\ currentIndex' = currentIndex
    BY <1>3, <1>6 DEF phaseVars
  <2> HIDE DEF a, r
  <2> QED
    BY <1>1, <1>2, <1>3, <1>4, <1>6, <2>1 DEF TypeOK, Answered, Correct
<1> QED
  BY <1>5, <1>6

\* What opening the next question changes, whoever asks for it.
Opened ==
    /\ phase \in {"lobby", "reveal"} /\ phase' = "question"
    /\ currentIndex' = currentIndex + 1
    /\ UNCHANGED playerVars

\* The steps of the session, by what they do to phases, answers and streaks.
LEMMA StepKinds ==
    ASSUME TypeOK, OnlyAskedAnswered, [Command \/ AnyClock]_vars
    PROVE  \/ \E u \in Users, q \in Questions, c \in BOOLEAN : AnswerAccepted(u, q, c)
           \/ \E u \in Users, n \in Names : JoinNew(u, n)
           \/ Opened
           \/ TickQuestion
           \/ /\ phase = "reveal" /\ phase' = "finished"
              /\ currentIndex' = currentIndex /\ currentIndex + 1 >= NumQuestions
              /\ UNCHANGED playerVars
           \/ /\ UNCHANGED <<joined, score, streak, scoreSeq, answers, nextScoreSeq>>
              /\ UNCHANGED phaseVars
<1>1. CASE Start \/ TickLobby
  BY <1>1 DEF Start, TickLobby, OpenQuestion, Opened, OnlyAskedAnswered
<1>2. CASE TickReveal
  BY <1>2 DEF TickReveal, OpenQuestion, Opened
<1>3. CASE AnyClock \/ UNCHANGED vars
  BY <1>3 DEF AnyClock, vars, playerVars
<1>4. ASSUME NEW u \in Users, NEW n \in Names, Rejoin(u, n)
      PROVE  /\ UNCHANGED <<joined, score, streak, scoreSeq, answers, nextScoreSeq>>
             /\ UNCHANGED phaseVars
  BY <1>4 DEF Rejoin
<1> QED
  BY <1>1, <1>2, <1>3, <1>4 DEF Command, Join, Tick

LEMMA AskedInit == Init => OnlyAskedAnswered
  BY SessionAssumption DEF Init, OnlyAskedAnswered, Answered

LEMMA AskedStep ==
    TypeOK /\ OnlyAskedAnswered /\ [Command \/ AnyClock]_vars => OnlyAskedAnswered'
<1> SUFFICES ASSUME TypeOK, OnlyAskedAnswered, [Command \/ AnyClock]_vars
             PROVE  OnlyAskedAnswered'
  OBVIOUS
<1> USE DEF OnlyAskedAnswered, Answered
<1>1. ASSUME NEW u \in Users, NEW q \in Questions, NEW c \in BOOLEAN,
             AnswerAccepted(u, q, c)
      PROVE  OnlyAskedAnswered'
  <2>1. /\ u \in joined /\ joined' = joined
        /\ phase = "question" /\ phase' \in {"question", "reveal"}
        /\ q = currentIndex /\ currentIndex' = currentIndex
        /\ \A v \in Users, p \in Questions :
               v # u \/ p # q => answers'[v][p] = answers[v][p]
        /\ \A v \in Users \ joined : streak'[v] = streak[v]
    BY <1>1, AnswerStep
  <2>2. \A p \in Questions : p <= currentIndex' \/ p # q
    BY <2>1 DEF Questions, TypeOK
  <2> QED
    BY <2>1, <2>2
<1>2. ASSUME NEW u \in Users, NEW n \in Names, JoinNew(u, n)
      PROVE  OnlyAskedAnswered'
  BY <1>2 DEF JoinNew, TypeOK
<1>3. CASE Opened
  <2>1. \A p \in Questions : p <= currentIndex => p <= currentIndex + 1
    BY SessionAssumption DEF Questions, TypeOK
  <2> QED
    BY <1>3, <2>1 DEF Opened, playerVars, TypeOK
<1>4. CASE TickQuestion
  BY <1>4 DEF TickQuestion, EndQuestion, BrokenStreaks
<1> QED
  BY <1>1, <1>2, <1>3, <1>4, StepKinds DEF playerVars, phaseVars

\* An answer is on record only of a player who joined and for a question that
\* has been opened.
THEOREM AskedAnswered == AnyClockSpec => []OnlyAskedAnswered
  BY AskedInit, AskedStep, TypeCorrect, PTL DEF AnyClockSpec

\* With endEarlyWhenAllAnswered an open question always awaits some player's
\* answer, whatever joins and answers come in which order.
THEOREM OpenQuestionAwaits == AnyClockSpec => []OpenQuestionAwaitsSomeone
<1>1. Init => OpenQuestionAwaitsSomeone
  BY DEF Init, OpenQuestionAwaitsSomeone
<1>2. TypeOK /\ TypeOK' /\ OnlyAskedAnswered /\ OpenQuestionAwaitsSomeone
        /\ [Command \/ AnyClock]_vars => OpenQuestionAwaitsSomeone'
  <2> SUFFICES ASSUME TypeOK, TypeOK', OnlyAskedAnswered, OpenQuestionAwaitsSomeone,
                      [Command \/ AnyClock]_vars, EndEarly, phase' = "question",
                      joined' # {}
               PROVE  \E v \in joined' : ~Answered(v, currentIndex)'
    BY DEF OpenQuestionAwaitsSomeone
  <2>1. ASSUME NEW u \in Users, NEW q \in Questions, NEW c \in BOOLEAN,
               AnswerAccepted(u, q, c)
        PROVE  \E v \in joined' : ~Answered(v, currentIndex)'
    <3>1. /\ joined' = joined /\ q = currentIndex /\ currentIndex' = currentIndex
          /\ \A v \in Users, p \in Questions :
                 v # u \/ p # q => answers'[v][p] = answers[v][p]
          /\ ~EveryoneAnswered(u, q)
      BY <2>1, AnswerStep
    <3>2. PICK v \in joined : v # u /\ ~Answered(v, q)
      BY <3>1 DEF EveryoneAnswered
    <3>3. answers'[v][q] = answers[v][q]
      BY <3>1, <3>2 DEF TypeOK
    <3> QED
      BY <3>1, <3>2, <3>3 DEF Answered
  <2>2. ASSUME NEW u \in Users, NEW n \in Names, JoinNew(u, n)
        PROVE  \E v \in joined' : ~Answered(v, currentIndex)'
    <3>1. /\ u \in joined' /\ answers' = answers /\ u \notin joined
          /\ phase' = phase /\ currentIndex' = currentIndex
      BY <2>2 DEF JoinNew
    <3>2. currentIndex \in Questions
      BY <3>1 DEF TypeOK, OnlyAskedAnswered, Questions
    <3> QED
      BY <3>1, <3>2 DEF OnlyAskedAnswered, Answered
  <2>3. CASE Opened
    <3>1. /\ joined' = joined /\ answers' = answers
          /\ currentIndex' = currentIndex + 1
      BY <2>3 DEF Opened, playerVars
    <3>2. currentIndex' \in Questions /\ ~(currentIndex' <= currentIndex)
      BY <2>3, <3>1, SessionAssumption DEF TypeOK, Questions
    <3>3. \A v \in joined' : ~Answered(v, currentIndex)'
      BY <3>1, <3>2 DEF OnlyAskedAnswered, Answered, TypeOK
    <3> QED
      BY <3>3
  <2>4. CASE TickQuestion
    BY <2>4 DEF TickQuestion, EndQuestion
  <2>5. CASE UNCHANGED <<joined, answers>> /\ UNCHANGED phaseVars
    BY <2>5 DEF OpenQuestionAwaitsSomeone, phaseVars, Answered
  <2> QED
    BY <2>1, <2>2, <2>3, <2>4, <2>5, StepKinds
<1> QED
  BY <1>1, <1>2, TypeCorrect, AskedAnswered, PTL DEF AnyClockSpec
-----------------------------------------------------------------------------
\* Answers to other questions, or of other players, leave a run as it is.
LEMMA RunKept ==
    ASSUME NEW u \in Users, NEW n \in Nat, NEW d \in Int, IsRun(u, n, d),
           \A q \in Questions : q <= d => (Correct(u, q)' <=> Correct(u, q)),
           d < NumQuestions
    PROVE  IsRun(u, n, d)'
<1>1. n <= d => d - n \in Questions /\ d - n <= d
  BY SessionAssumption DEF Questions
<1> QED
  BY <1>1 DEF IsRun

\* A question that is settled for u is one of the quiz, or none is.
LEMMA DecidedType ==
    ASSUME TypeOK, OnlyAskedAnswered, NEW u \in Users
    PROVE  LastDecided(u) \in -1..(NumQuestions - 1) /\ LastDecided(u) <= currentIndex
<1>1. phase = "question" => currentIndex >= 0
  BY SessionAssumption DEF OnlyAskedAnswered, TypeOK
<1> QED
  BY <1>1, SessionAssumption DEF LastDecided, TypeOK

LEMMA StreakStep ==
    TypeOK /\ TypeOK' /\ OnlyAskedAnswered /\ OnlyAskedAnswered' /\ StreakIsRun
        /\ [Command \/ AnyClock]_vars => StreakIsRun'
<1> SUFFICES ASSUME TypeOK, TypeOK', OnlyAskedAnswered, OnlyAskedAnswered', StreakIsRun,
                    [Command \/ AnyClock]_vars, NEW u \in Users, u \in joined'
             PROVE  IsRun(u, streak[u], LastDecided(u))'
  BY DEF StreakIsRun, TypeOK
<1>0. streak[u] \in Nat /\ LastDecided(u) \in Int
  BY DecidedType, SessionAssumption DEF TypeOK
<1>n. PICK n \in Nat : n = streak[u]
  BY <1>0
<1>d. PICK d \in Int : d = LastDecided(u)
  BY <1>0
<1>1. n \in Nat /\ d \in Int /\ d < NumQuestions /\ d <= currentIndex
  BY <1>d, DecidedType, SessionAssumption DEF TypeOK
<1>2. u \in joined => IsRun(u, n, d)
  BY <1>n, <1>d DEF StreakIsRun
<1>3. currentIndex \in Int /\ (currentIndex >= 0 => currentIndex \in Questions)
  BY SessionAssumption DEF TypeOK, Questions
<1>4. ASSUME u \in joined, streak'[u] = streak[u], LastDecided(u)' = LastDecided(u),
             \A q \in Questions : q <= d => answers'[u][q] = answers[u][q]
      PROVE  IsRun(u, streak[u], LastDecided(u))'
  <2>1. IsRun(u, n, d)'
    BY <1>1, <1>2, <1>4, RunKept DEF Correct, Answered
  <2> QED
    BY <1>4, <1>n, <1>d, <2>1 DEF IsRun
<1>5. ASSUME streak'[u] = 0, LastDecided(u)' \in Int, LastDecided(u)' >= -1,
             LastDecided(u)' >= 0 => ~Correct(u, LastDecided(u))'
      PROVE  IsRun(u, streak[u], LastDecided(u))'
  <2>1. PICK e \in Int : e = LastDecided(u)'
    BY <1>5
  <2>2. e - 0 = e /\ 0 <= e + 1
    BY <1>5, <2>1
  <2>3. e >= 0 => ~Correct(u, e - 0)'
    BY <1>5, <2>1, <2>2
  <2>4. \A q \in Questions : ~(e - 0 < q /\ q <= e)
    BY DEF Questions
  <2> QED
    BY <1>5, <2>1, <2>2, <2>3, <2>4 DEF IsRun
<1>6. ASSUME NEW w \in Users, NEW q \in Questions, NEW c \in BOOLEAN,
             AnswerAccepted(w, q, c)
      PROVE  IsRun(u, streak[u], LastDecided(u))'
  <2>1. /\ w \in joined /\ joined' = joined
        /\ phase = "question" /\ q = currentIndex /\ currentIndex' = currentIndex
        /\ ~Answered(w, q)
        /\ Answered(w, q)' /\ (Correct(w, q)' <=> c)
        /\ \A v \in Users, p \in Questions :
               v # w \/ p # q => answers'[v][p] = answers[v][p]
        /\ \A v \in joined :
               \/ v = w /\ streak'[v] = IF c THEN streak[v] + 1 ELSE 0
               \/ v # w /\ streak'[v] = streak[v]
        /\ phase' \in {"question", "reveal"}
        /\ phase' = "reveal" => \A v \in joined : Answered(v, q)'
    BY <1>6, AnswerStep
  <2>2. CASE u = w
    <3>1. d = q - 1
      BY <1>d, <2>1, <2>2 DEF LastDecided
    <3>2. LastDecided(u)' = q
      BY <2>1, <2>2 DEF LastDecided
    <3>3. CASE c
      <4>1. streak'[u] = n + 1 /\ Correct(u, q)'
        BY <1>n, <2>1, <2>2, <3>3
      <4>2. \A p \in Questions : p <= d => (Correct(u, p)' <=> Correct(u, p))
        BY <2>1, <3>1 DEF Correct, Answered, Questions
      <4>3. IsRun(u, n, d)'
        BY <1>1, <1>2, <2>1, <2>2, <4>2, RunKept
      <4>4. q \in Int
        BY DEF Questions
      <4>5. \A p \in Questions : d - n < p /\ p <= d => Correct(u, p)'
        BY <4>3 DEF IsRun
      <4>6. n <= d => ~Correct(u, d - n)'
        BY <4>3 DEF IsRun
      <4>7. n <= d + 1
        BY <4>3 DEF IsRun
      <4>8. \A p \in Questions : q - (n + 1) < p /\ p <= q => Correct(u, p)'
        BY <1>1, <3>1, <4>1, <4>4, <4>5 DEF Questions
      <4>9. n + 1 <= q => q - (n + 1) = d - n /\ n <= d
        BY <1>1, <3>1, <4>4
      <4>10. n + 1 <= q => ~Correct(u, q - (n + 1))'
        BY <4>6, <4>9
      <4>11. n + 1 <= q + 1
        BY <1>1, <3>1, <4>4, <4>7
      <4> QED
        BY <3>2, <4>1, <4>8, <4>10, <4>11 DEF IsRun
    <3>4. CASE ~c
      <4>1. streak'[u] = 0 /\ ~Correct(u, q)' /\ q \in Int /\ q >= -1
        BY <2>1, <2>2, <3>4 DEF Questions
      <4> QED
        BY <1>5, <3>2, <4>1
    <3> QED
      BY <3>3, <3>4
  <2>3. CASE u # w
    <3>1. /\ streak'[u] = streak[u] /\ u \in joined
          /\ \A p \in Questions : answers'[u][p] = answers[u][p]
      BY <2>1, <2>3
    <3>2. Answered(u, q)' <=> Answered(u, q)
      BY <3>1 DEF Answered
    <3>3. LastDecided(u)' = LastDecided(u)
      BY <2>1, <3>1, <3>2 DEF LastDecided
    <3> QED
      BY <1>4, <3>1, <3>3
  <2> QED
    BY <2>2, <2>3
<1>7. ASSUME NEW w \in Users, NEW m \in Names, JoinNew(w, m)
      PROVE  IsRun(u, streak[u], LastDecided(u))'
  <2>1. /\ joined' = joined \cup {w} /\ w \notin joined
        /\ UNCHANGED <<streak, answers, phase, currentIndex>>
    BY <1>7 DEF JoinNew
  <2>2. LastDecided(u)' = LastDecided(u)
    BY <2>1 DEF LastDecided, Answered
  <2>3. CASE u = w
    <3>1. streak'[u] = 0 /\ d >= -1
      BY <1>d, <2>1, <2>3, DecidedType, SessionAssumption DEF OnlyAskedAnswered
    <3>2. d >= 0 => ~Correct(u, d)'
      <4>1. d >= 0 => d \in Questions
        BY <1>1, SessionAssumption DEF Questions
      <4> QED
        BY <2>1, <2>3, <4>1 DEF Correct, Answered, OnlyAskedAnswered
    <3> QED
      BY <1>d, <1>1, <1>5, <2>2, <3>1, <3>2 DEF Correct, Answered
  <2>4. CASE u # w
    BY <1>4, <2>1, <2>2, <2>4
  <2> QED
    BY <2>3, <2>4
<1>8. CASE Opened
  <2>1. /\ phase # "question" /\ phase' = "question"
        /\ currentIndex' = currentIndex + 1
        /\ UNCHANGED <<joined, streak, answers>>
    BY <1>8 DEF Opened, playerVars
  <2>2. currentIndex' \in Questions /\ ~(currentIndex' <= currentIndex)
    BY <1>3, <2>1, SessionAssumption DEF TypeOK, Questions
  <2>3. ~Answered(u, currentIndex)'
    BY <2>1, <2>2 DEF OnlyAskedAnswered, Answered
  <2>4. LastDecided(u)' = LastDecided(u)
    BY <1>3, <2>1, <2>3 DEF LastDecided
  <2> QED
    BY <1>4, <2>1, <2>4
<1>9. CASE TickQuestion
  <2>1. /\ phase = "question" /\ phase' = "reveal" /\ currentIndex' = currentIndex
        /\ streak' = BrokenStreaks(streak, answers)
        /\ UNCHANGED <<joined, answers>>
    BY <1>9 DEF TickQuestion, EndQuestion
  <2>2. LastDecided(u)' = currentIndex /\ currentIndex >= -1
    BY <2>1, SessionAssumption DEF LastDecided, TypeOK
  <2>3. CASE Answered(u, currentIndex)
    <3>1. streak'[u] = streak[u] /\ d = currentIndex
      BY <1>d, <2>1, <2>3 DEF BrokenStreaks, LastDecided, Answered
    <3> QED
      BY <1>d, <1>4, <2>1, <2>2, <3>1
  <2>4. CASE ~Answered(u, currentIndex)
    <3>1. streak'[u] = 0 /\ ~Correct(u, currentIndex)'
      BY <2>1, <2>4 DEF BrokenStreaks, Answered, Correct
    <3> QED
      BY <1>3, <1>5, <2>1, <2>2, <3>1
  <2> QED
    BY <2>3, <2>4
<1>10. CASE /\ phase = "reveal" /\ phase' = "finished"
            /\ currentIndex' = currentIndex /\ UNCHANGED playerVars
  BY <1>4, <1>10 DEF playerVars, LastDecided
<1>11. CASE UNCHANGED <<joined, streak, answers>> /\ UNCHANGED phaseVars
  BY <1>4, <1>11 DEF phaseVars, LastDecided, Answered
<1> QED
  BY <1>6, <1>7, <1>8, <1>9, <1>10, <1>11, StepKinds

\* A streak is always the run of right answers up to the last question settled
\* for its player.
THEOREM StreaksAreRuns == AnyClockSpec => []StreakIsRun
<1>1. Init => StreakIsRun
  BY DEF Init, StreakIsRun
<1> QED
  BY <1>1, StreakStep, TypeCorrect, AskedAnswered, PTL DEF AnyClockSpec
-----------------------------------------------------------------------------
\* A question closes before its time only when all players have answered it,
\* and only if the rules say so.
THEOREM EarlyEndsOnlyWhenAllAnswered == AnyClockSpec => ClosesEarlyOnlyWhenAllAnswered
<1>1. TypeOK /\ OnlyAskedAnswered /\ [Command \/ AnyClock]_vars
        => [phase = "question" /\ phase' # "question" /\ now < questionEndsAt + GraceMs
              => EndEarly /\ \A u \in joined : Answered(u, currentIndex)']_vars
  <2> SUFFICES ASSUME TypeOK, OnlyAskedAnswered, [Command \/ AnyClock]_vars,
                      phase = "question", phase' # "question",
                      now < questionEndsAt + GraceMs
               PROVE  EndEarly /\ \A u \in joined : Answered(u, currentIndex)'
    OBVIOUS
  <2>1. ASSUME NEW u \in Users, NEW q \in Questions, NEW c \in BOOLEAN,
               AnswerAccepted(u, q, c)
        PROVE  EndEarly /\ \A v \in joined : Answered(v, currentIndex)'
    <3>1. /\ q = currentIndex /\ currentIndex' = currentIndex
          /\ IF EndEarly /\ EveryoneAnswered(u, q) THEN phase' = "reveal"
                                                   ELSE phase' = phase
          /\ phase' = "reveal" => \A v \in joined : Answered(v, q)'
      BY <2>1, AnswerStep
    <3> QED
      BY <3>1 DEF Answered
  <2>2. ~TickQuestion
    BY SessionAssumption DEF TickQuestion, TickDue, NextDeadline, TypeOK
  <2>3. ASSUME NEW u \in Users, NEW n \in Names PROVE ~JoinNew(u, n)
    BY DEF JoinNew
  <2>4. ~Opened
    BY DEF Opened
  <2> QED
    BY <2>1, <2>2, <2>3, <2>4, StepKinds DEF phaseVars
<1> QED
  BY <1>1, TypeCorrect, AskedAnswered, PTL DEF AnyClockSpec, ClosesEarlyOnlyWhenAllAnswered

-----------------------------------------------------------------------------
\* The session implements QuizGame: the initial state maps to an initial state,
\* and each step to a step of the game or to none.
LEMMA GameInit == Init => Game!Init
  BY SessionAssumption DEF Init, Game!Init, Game!Questions, Questions

\* An accepted answer is a credit for the open question.
LEMMA AnswerCredits ==
    ASSUME TypeOK, NEW u \in Users, NEW q \in Questions, NEW c \in BOOLEAN,
           AnswerAccepted(u, q, c)
    PROVE  Game!GiveCredit(u)
<1> DEFINE r == Result(u, q, c)
           a == [correct |-> c, points |-> r.points]
           Credit(ans) == [v \in Users |-> [p \in Questions |->
                              IF ans[v][p] = None THEN None ELSE ans[v][p].points]]
<1>1. r.points \in Nat
  BY ResultType
<1>2. a # None
  BY <1>1, NoneAssumption
<1>3. phase = "question" /\ q = currentIndex /\ answers[u][q] = None
  BY AnswerStep DEF Answered
<1>4. /\ answers' = [answers EXCEPT ![u] = [answers[u] EXCEPT ![q] = a]]
      /\ score' = [score EXCEPT ![u] = score[u] + r.points]
  BY DEF AnswerAccepted
<1> HIDE DEF r
<1>5. /\ answers'[u][q] = a
      /\ \A v \in Users, p \in Questions :
             v # u \/ p # q => answers'[v][p] = answers[v][p]
  BY <1>4 DEF TypeOK
<1> HIDE DEF a
<1>6. a.points = r.points
  BY DEF a
<1>7. Credit(answers)[u][q] = None /\ Credit(answers')[u][q] = r.points
  BY <1>2, <1>3, <1>5, <1>6
<1>8. Credit(answers') =
        [Credit(answers) EXCEPT ![u] = [Credit(answers)[u] EXCEPT ![q] = r.points]]
  <2>1. \A v \in Users : v # u => Credit(answers')[v] = Credit(answers)[v]
    BY <1>5
  <2>2. Credit(answers')[u] = [Credit(answers)[u] EXCEPT ![q] = r.points]
    BY <1>5, <1>7
  <2> QED
    BY <2>1, <2>2
<1>9. score' = [score EXCEPT ![u] = score[u] + Credit(answers')[u][q]]
  BY <1>4, <1>7
<1> HIDE DEF Credit
<1> QED
  BY <1>1, <1>3, <1>7, <1>8, <1>9 DEF Game!GiveCredit, Credit

LEMMA GameStep ==
    TypeOK /\ TypeOK' /\ OnlyAskedAnswered /\ [Command \/ AnyClock]_vars
        => [Game!Next]_Game!vars
<1> SUFFICES ASSUME TypeOK, TypeOK', OnlyAskedAnswered, [Command \/ AnyClock]_vars
             PROVE  [Game!Next]_Game!vars
  OBVIOUS
<1>1. /\ currentIndex \in Int /\ currentIndex >= -1 /\ currentIndex < NumQuestions
      /\ phase = "question" => currentIndex >= 0
  BY SessionAssumption DEF TypeOK, OnlyAskedAnswered
<1>2. ASSUME NEW u \in Users, NEW q \in Questions, NEW c \in BOOLEAN,
             AnswerAccepted(u, q, c)
      PROVE  Game!Next
  <2>1. Game!GiveCredit(u)
    BY <1>2, AnswerCredits
  <2>2. /\ phase = "question" /\ currentIndex' = currentIndex /\ joined' = joined
        /\ phase' \in {"question", "reveal"}
    BY <1>2, AnswerStep
  <2>3. CASE phase' = "question"
    BY <1>1, <2>1, <2>2, <2>3 DEF Game!Next, Game!Credit
  <2>4. CASE phase' = "reveal"
    BY <1>1, <2>1, <2>2, <2>4 DEF Game!Next, Game!Close
  <2> QED
    BY <2>2, <2>3, <2>4
<1>3. ASSUME NEW u \in Users, NEW n \in Names, JoinNew(u, n)
      PROVE  [Game!Next]_Game!vars
  <2>1. /\ joined' = joined \cup {u} /\ joined' # {}
        /\ UNCHANGED <<phase, currentIndex, answers, score>>
    BY <1>3 DEF JoinNew
  <2> QED
    BY <2>1 DEF Game!Next, Game!Begin, Game!vars
<1>4. CASE Opened
  <2>1. /\ phase # "question" /\ phase # "finished" /\ phase' = "question"
        /\ currentIndex' = currentIndex + 1
        /\ UNCHANGED <<joined, answers, score>>
    BY <1>4 DEF Opened, playerVars
  <2>2. currentIndex + 1 < NumQuestions /\ currentIndex + 1 >= 0
    BY <1>1, <2>1, SessionAssumption DEF TypeOK
  <2> QED
    BY <1>1, <2>1, <2>2 DEF Game!Next, Game!Ask
<1>5. CASE TickQuestion
  <2>1. /\ phase = "question" /\ phase' = "reveal" /\ currentIndex' = currentIndex
        /\ UNCHANGED <<joined, answers, score>>
    BY <1>5 DEF TickQuestion, EndQuestion
  <2> QED
    BY <1>1, <2>1 DEF Game!Next, Game!Close
<1>6. CASE /\ phase = "reveal" /\ phase' = "finished"
           /\ currentIndex' = currentIndex /\ currentIndex + 1 >= NumQuestions
           /\ UNCHANGED playerVars
  <2>1. currentIndex + 1 = NumQuestions
    BY <1>1, <1>6, SessionAssumption
  <2> QED
    BY <1>6, <2>1 DEF Game!Next, Game!Finish, playerVars
<1>7. CASE UNCHANGED <<joined, score, answers>> /\ UNCHANGED phaseVars
  BY <1>7 DEF Game!vars, phaseVars
<1> QED
  BY <1>2, <1>3, <1>4, <1>5, <1>6, <1>7, StepKinds

\* Whatever the clock does, a session credits each player at most once per
\* question, only while it is open, and asks the questions in order.
THEOREM RefinesGame == AnyClockSpec => GameSafety
<1>1. TypeOK /\ OnlyAskedAnswered /\ [Command \/ AnyClock]_vars => TypeOK'
  BY TypeStep
<1> QED
  BY <1>1, GameInit, GameStep, TypeCorrect, AskedAnswered, PTL
     DEF AnyClockSpec, GameSafety, Game!Safety

-----------------------------------------------------------------------------
(* Scores are sums.  What a sum over the questions is, is an induction on    *)
(* their number: it is made by the least number that fails.                  *)

LEMMA Least == ASSUME NEW T, T \subseteq Nat, T # {}
               PROVE  \E n \in T : \A m \in T : n <= m
<1>1. PICK n \in T : \A m \in T : <<m, n>> \notin OpToRel(<, Nat)
  BY NatLessThanWellFounded, WFMin
<1>2. ASSUME NEW m \in T PROVE n <= m
  <2>1. <<m, n>> \in Nat \X Nat
    OBVIOUS
  <2>2. ~(m < n)
    BY <1>1, <2>1 DEF OpToRel
  <2> QED
    BY <2>2
<1> QED
  BY <1>2

\* s[n] is the sum of p up to n.
Sums(s, p, n) ==
    /\ s \in [-1..(n - 1) -> Nat]
    /\ \A q \in -1..(n - 1) : s[q] = IF q = -1 THEN 0 ELSE s[q - 1] + p[q]

\* Every sequence of numbers has its sums,
LEMMA SumsExist ==
    ASSUME NEW N \in Nat, NEW p \in [0..(N - 1) -> Nat]
    PROVE  \E s : Sums(s, p, N)
<1> DEFINE Has(n) == \E s : Sums(s, p, n)
           T == {n \in 0..N : ~Has(n)}
<1> SUFFICES ASSUME ~Has(N) PROVE FALSE
  OBVIOUS
<1> HIDE DEF Has
<1>a. T \subseteq Nat /\ N \in T
  OBVIOUS
<1>b. PICK n \in T : \A m \in T : n <= m
  <2> HIDE DEF T
  <2> QED
    BY <1>a, Least
<1>1. n \in 0..N /\ ~Has(n) /\ \A m \in 0..N : ~Has(m) => n <= m
  BY <1>b
<1> USE DEF Has
<1> HIDE DEF T
<1>2. CASE n = 0
  <2>1. Sums([q \in -1..(0 - 1) |-> 0], p, 0)
    BY DEF Sums
  <2> QED
    BY <1>1, <1>2, <2>1
<1>3. CASE n # 0
  <2>1. n - 1 \in 0..N /\ n - 1 \in 0..(N - 1) /\ n \in Nat
    BY <1>1, <1>3
  <2>2. PICK s : Sums(s, p, n - 1)
    <3> HIDE DEF Has
    <3>1. Has(n - 1)
      BY <1>1, <2>1
    <3> QED
      BY <3>1 DEF Has
  <2> DEFINE t == [q \in -1..(n - 1) |-> IF q = n - 1 THEN s[n - 2] + p[n - 1] ELSE s[q]]
  <2>3. s \in [-1..(n - 2) -> Nat] /\ p[n - 1] \in Nat /\ n - 2 \in -1..(n - 2)
    BY <2>1, <2>2 DEF Sums
  <2>4. t \in [-1..(n - 1) -> Nat]
    BY <2>1, <2>3
  <2>5. ASSUME NEW q \in -1..(n - 1)
        PROVE  t[q] = IF q = -1 THEN 0 ELSE t[q - 1] + p[q]
    <3>1. CASE q = n - 1
      BY <2>1, <3>1
    <3>2. CASE q # n - 1
      <4>1. q \in -1..(n - 2) /\ (q # -1 => q - 1 \in -1..(n - 2) /\ q - 1 # n - 1)
        BY <2>1, <3>2
      <4>2. s[q] = IF q = -1 THEN 0 ELSE s[q - 1] + p[q]
        BY <2>1, <2>2, <4>1 DEF Sums
      <4> QED
        BY <2>1, <3>2, <4>1, <4>2
    <3> QED
      BY <3>1, <3>2
  <2> HIDE DEF t
  <2>6. Sums(t, p, n)
    BY <2>4, <2>5 DEF Sums
  <2> QED
    BY <1>1, <2>6
<1> QED
  BY <1>2, <1>3

\* and one more somewhere is one more from there on.
Adds(p, p2, r, d, N) ==
    /\ N \in Nat /\ r \in 0..(N - 1) /\ d \in Nat
    /\ p \in [0..(N - 1) -> Nat] /\ p2 \in [0..(N - 1) -> Nat]
    /\ p2[r] = p[r] + d
    /\ \A q \in 0..(N - 1) : q # r => p2[q] = p[q]

LEMMA SumsGrow ==
    ASSUME NEW N, NEW r, NEW d, NEW p, NEW p2, Adds(p, p2, r, d, N),
           NEW s, Sums(s, p, N), NEW t, Sums(t, p2, N)
    PROVE  t[N - 1] = s[N - 1] + d
<1> USE DEF Adds
<1> DEFINE After(n) == t[n - 1] = s[n - 1] + (IF n - 1 >= r THEN d ELSE 0)
           T == {n \in 0..N : ~After(n)}
<1>0. /\ N \in 0..N /\ N - 1 >= r /\ r \in Int
      /\ \A q \in 0..(N - 1) : p[q] \in Nat
  OBVIOUS
<1>1. /\ \A q \in -1..(N - 1) : s[q] \in Nat /\ t[q] \in Nat
      /\ \A q \in -1..(N - 1) : s[q] = IF q = -1 THEN 0 ELSE s[q - 1] + p[q]
      /\ \A q \in -1..(N - 1) : t[q] = IF q = -1 THEN 0 ELSE t[q - 1] + p2[q]
  BY DEF Sums
<1> SUFFICES ASSUME ~After(N) PROVE FALSE
  BY <1>0 DEF After
<1> HIDE DEF After
<1>2. T \subseteq Nat /\ N \in T
  OBVIOUS
<1>3. PICK n \in T : \A m \in T : n <= m
  <2> HIDE DEF T
  <2> QED
    BY <1>2, Least
<1>4. n \in 0..N /\ ~After(n) /\ \A m \in 0..N : ~After(m) => n <= m
  BY <1>3
<1> HIDE DEF T
<1>5. CASE n = 0
  <2>1. t[-1] = 0 /\ s[-1] = 0
    BY <1>0, <1>1
  <2> QED
    BY <1>0, <1>4, <1>5, <2>1 DEF After
<1>6. CASE n # 0
  <2>1. n - 1 \in 0..N /\ n - 1 \in 0..(N - 1) /\ n - 2 \in -1..(N - 1) /\ n \in Nat
        /\ (n - 1) - 1 = n - 2
    BY <1>4, <1>6
  <2>2. After(n - 1)
    BY <1>4, <2>1
  <2>3. t[n - 1] = t[n - 2] + p2[n - 1] /\ s[n - 1] = s[n - 2] + p[n - 1]
    <3>1. n - 1 \in -1..(N - 1) /\ n - 1 # -1
      BY <2>1
    <3> QED
      BY <1>1, <2>1, <3>1
  <2>4. t[n - 2] = s[n - 2] + (IF n - 2 >= r THEN d ELSE 0)
    BY <2>1, <2>2 DEF After
  <2>5. p[n - 1] \in Nat /\ s[n - 2] \in Nat /\ r \in Int
    BY <1>0, <1>1, <2>1
  <2>6. p2[n - 1] = p[n - 1] + (IF n - 1 = r THEN d ELSE 0)
    BY SMTT(20), <2>1, <2>5
  <2>7. After(n)
    <3>1. CASE n - 1 = r
      BY <2>1, <2>3, <2>4, <2>5, <2>6, <3>1 DEF After
    <3>2. CASE n - 1 # r
      BY SMTT(20), <2>1, <2>3, <2>4, <2>5, <2>6, <3>2 DEF After
    <3> QED
      BY <3>1, <3>2
  <2> QED
    BY <1>4, <2>7
<1> QED
  BY <1>5, <1>6

\* A function that satisfies the equations of a sum is one.
LEMMA SumsNat ==
    ASSUME NEW N \in Nat, NEW p \in [0..(N - 1) -> Nat],
           NEW s, s = [q \in -1..(N - 1) |-> IF q = -1 THEN 0 ELSE s[q - 1] + p[q]]
    PROVE  Sums(s, p, N)
<1> DEFINE Typed(n) == s[n - 1] \in Nat
           T == {n \in 0..N : ~Typed(n)}
<1>1. \A q \in -1..(N - 1) : s[q] = IF q = -1 THEN 0 ELSE s[q - 1] + p[q]
  OBVIOUS
<1>2. \A n \in 0..N : Typed(n)
  <2> SUFFICES ASSUME NEW k \in 0..N, ~Typed(k) PROVE FALSE
    OBVIOUS
  <2> HIDE DEF Typed
  <2>1. T \subseteq Nat /\ k \in T
    OBVIOUS
  <2>2. PICK n \in T : \A m \in T : n <= m
    <3> HIDE DEF T
    <3> QED
      BY <2>1, Least
  <2>3. n \in 0..N /\ ~Typed(n) /\ \A m \in 0..N : ~Typed(m) => n <= m
    BY <2>2
  <2> HIDE DEF T
  <2>4. n \in Nat /\ n - 1 \in -1..(N - 1)
    BY <2>3
  <2>5. CASE n = 0
    BY <1>1, <2>3, <2>4, <2>5 DEF Typed
  <2>6. CASE n # 0
    <3>1. n - 1 \in 0..N /\ n - 1 \in 0..(N - 1) /\ n - 1 # -1
      BY <2>3, <2>4, <2>6
    <3>2. Typed(n - 1)
      BY <2>3, <2>4, <3>1
    <3>3. s[n - 1] = s[(n - 1) - 1] + p[n - 1] /\ p[n - 1] \in Nat
      BY <1>1, <2>4, <3>1
    <3> QED
      BY <2>3, <3>2, <3>3 DEF Typed
  <2> QED
    BY <2>5, <2>6
<1>3. \A q \in -1..(N - 1) : s[q] \in Nat
  <2>1. ASSUME NEW q \in -1..(N - 1) PROVE s[q] \in Nat
    <3>1. q + 1 \in 0..N /\ (q + 1) - 1 = q
      OBVIOUS
    <3>2. Typed(q + 1)
      BY <1>2, <3>1
    <3> QED
      BY <3>1, <3>2
  <2> QED
    BY <2>1
<1> QED
  BY <1>1, <1>3 DEF Sums

\* SumTo(u) sums the points of u's answers.
PointsOf(u) == [q \in 0..(NumQuestions - 1) |-> PointsFor(u, q)]

PointsTyped == \A u \in Users : PointsOf(u) \in [0..(NumQuestions - 1) -> Nat]
TotalsAreSums ==
    \A u \in Users : \E s : /\ Sums(s, PointsOf(u), NumQuestions)
                            /\ SumTo(u) = s[NumQuestions - 1]

LEMMA PointsOfNat == TypeOK => PointsTyped
<1> SUFFICES ASSUME TypeOK, NEW u \in Users, NEW q \in 0..(NumQuestions - 1)
             PROVE  PointsFor(u, q) \in Nat
  BY DEF PointsOf, PointsTyped
<1>1. q \in Questions /\ answers \in [Users -> [Questions -> Answer \cup {None}]]
  BY DEF TypeOK, Questions
<1>2. answers[u][q] \in Answer \cup {None}
  BY <1>1
<1> QED
  BY <1>2 DEF PointsFor, Answered, Answer

LEMMA SumToSums == TypeOK => TotalsAreSums
<1> SUFFICES ASSUME TypeOK, NEW u \in Users
             PROVE  \E s : /\ Sums(s, PointsOf(u), NumQuestions)
                           /\ SumTo(u) = s[NumQuestions - 1]
  BY DEF TotalsAreSums
<1> DEFINE IsSum(s) == s = [q \in -1..(NumQuestions - 1) |->
                               IF q = -1 THEN 0 ELSE s[q - 1] + PointsFor(u, q)]
           f == CHOOSE s : IsSum(s)
<1>1. SumTo(u) = f[NumQuestions - 1]
  BY DEF SumTo
<1>2. NumQuestions \in Nat /\ PointsOf(u) \in [0..(NumQuestions - 1) -> Nat]
  BY SessionAssumption, PointsOfNat DEF PointsTyped
<1>3. PICK s : Sums(s, PointsOf(u), NumQuestions)
  BY <1>2, SumsExist
<1>4. IsSum(s)
  <2>1. s = [q \in -1..(NumQuestions - 1) |-> s[q]]
    BY <1>3 DEF Sums
  <2>2. ASSUME NEW q \in -1..(NumQuestions - 1)
        PROVE  s[q] = IF q = -1 THEN 0 ELSE s[q - 1] + PointsFor(u, q)
    <3>1. s[q] = IF q = -1 THEN 0 ELSE s[q - 1] + PointsOf(u)[q]
      BY <1>3 DEF Sums
    <3>2. q # -1 => q \in 0..(NumQuestions - 1)
      BY <1>2
    <3> QED
      BY <3>1, <3>2 DEF PointsOf
  <2> QED
    BY <2>1, <2>2
<1>5. IsSum(f)
  <2> HIDE DEF IsSum
  <2> QED
    BY <1>4
<1>6. Sums(f, PointsOf(u), NumQuestions)
  <2> HIDE DEF f
  <2>1. f = [q \in -1..(NumQuestions - 1) |->
                IF q = -1 THEN 0 ELSE f[q - 1] + PointsOf(u)[q]]
    <3>1. \A q \in -1..(NumQuestions - 1) : q # -1 => PointsOf(u)[q] = PointsFor(u, q)
      BY <1>2 DEF PointsOf
    <3> QED
      BY <1>5, <3>1
  <2> QED
    BY <1>2, <2>1, SumsNat
<1> QED
  BY <1>1, <1>6

LEMMA SumToGrows ==
    ASSUME TypeOK, TypeOK', NEW u \in Users, NEW r \in Questions, NEW d \in Nat,
           PointsFor(u, r)' = PointsFor(u, r) + d,
           \A q \in Questions : q # r => PointsFor(u, q)' = PointsFor(u, q)
    PROVE  SumTo(u)' = SumTo(u) + d
<1>1. PICK s : Sums(s, PointsOf(u), NumQuestions) /\ SumTo(u) = s[NumQuestions - 1]
  BY SumToSums DEF TotalsAreSums
<1>2. PICK t : Sums(t, PointsOf(u)', NumQuestions) /\ SumTo(u)' = t[NumQuestions - 1]
  <2>1. (TypeOK => TotalsAreSums)'
    BY SumToSums, PTL
  <2> QED
    BY <2>1 DEF TotalsAreSums
<1>3. /\ PointsOf(u) \in [0..(NumQuestions - 1) -> Nat]
      /\ PointsOf(u)' \in [0..(NumQuestions - 1) -> Nat]
  <2>1. (TypeOK => PointsTyped)'
    BY PointsOfNat, PTL
  <2> QED
    BY <2>1, PointsOfNat DEF PointsTyped
<1>4. /\ PointsOf(u)'[r] = PointsOf(u)[r] + d
      /\ \A q \in 0..(NumQuestions - 1) : q # r => PointsOf(u)'[q] = PointsOf(u)[q]
  BY DEF PointsOf, Questions
<1>5. NumQuestions \in Nat /\ r \in 0..(NumQuestions - 1)
  BY SessionAssumption DEF Questions
<1>6. ASSUME NEW p, NEW p2, p = PointsOf(u), p2 = PointsOf(u)'
      PROVE  t[NumQuestions - 1] = s[NumQuestions - 1] + d
  <2>1. Adds(p, p2, r, d, NumQuestions)
    BY <1>3, <1>4, <1>5, <1>6 DEF Adds
  <2>2. Sums(s, p, NumQuestions) /\ Sums(t, p2, NumQuestions)
    BY <1>1, <1>2, <1>6
  <2> QED
    BY <2>1, <2>2, SumsGrow
<1> QED
  BY <1>1, <1>2, <1>6

LEMMA NothingSums == Init => ScoreIsSum
<1> SUFFICES ASSUME Init, NEW u \in Users PROVE score[u] = SumTo(u)
  BY DEF ScoreIsSum
<1> DEFINE z == [q \in 0..(NumQuestions - 1) |-> 0]
           s == [q \in -1..(NumQuestions - 1) |-> 0]
<1>1. NumQuestions \in Nat /\ 0 \in 0..(NumQuestions - 1) /\ NumQuestions - 1 \in -1..(NumQuestions - 1)
  BY SessionAssumption
<1>2. PointsOf(u) = z
  <2>1. \A q \in Questions : answers[u][q] = None
    BY DEF Init
  <2> QED
    BY <2>1 DEF PointsOf, PointsFor, Answered, Questions
<1>3. PICK t : Sums(t, z, NumQuestions) /\ SumTo(u) = t[NumQuestions - 1]
  BY <1>2, InitType, SumToSums DEF TotalsAreSums
<1>4. Sums(s, z, NumQuestions) /\ s[NumQuestions - 1] = 0
  BY <1>1 DEF Sums
<1>5. z \in [0..(NumQuestions - 1) -> Nat] /\ \A q \in 0..(NumQuestions - 1) : z[q] = z[q] + 0
  OBVIOUS
<1> HIDE DEF z, s
<1>6. ASSUME NEW d \in Nat, d = 0, NEW r \in 0..(NumQuestions - 1)
      PROVE  t[NumQuestions - 1] = s[NumQuestions - 1] + d
  <2>1. Adds(z, z, r, d, NumQuestions)
    BY <1>1, <1>5, <1>6 DEF Adds
  <2> QED
    BY <1>3, <1>4, <2>1, SumsGrow
<1>7. t[NumQuestions - 1] = 0
  BY <1>1, <1>4, <1>6
<1> QED
  BY <1>3, <1>7 DEF Init

LEMMA SumStep ==
    ASSUME TypeOK, TypeOK', OnlyAskedAnswered, ScoreIsSum, [Command \/ AnyClock]_vars
    PROVE  ScoreIsSum'
<1>1. 0 \in Questions /\ \A u \in Users : score[u] \in Nat
  BY SessionAssumption DEF Questions, TypeOK
<1>2. CASE score' = score /\ answers' = answers
  <2> SUFFICES ASSUME NEW v \in Users PROVE score'[v] = SumTo(v)'
    BY DEF ScoreIsSum
  <2>1. \A q \in Questions : /\ PointsFor(v, q)' = PointsFor(v, q)
                             /\ PointsFor(v, q) \in Nat
    <3>1. \A q \in Questions : PointsFor(v, q)' = PointsFor(v, q)
      BY <1>2 DEF PointsFor, Answered
    <3>2. \A q \in Questions : PointsFor(v, q) \in Nat
      BY PointsOfNat DEF PointsTyped, PointsOf, Questions
    <3> QED
      BY <3>1, <3>2
  <2>2. SumTo(v)' = SumTo(v) + 0
    BY <1>1, <2>1, SumToGrows
  <2> QED
    BY <1>1, <1>2, <2>2 DEF ScoreIsSum
<1>3. ASSUME NEW u \in Users, NEW q \in Questions, NEW c \in BOOLEAN, AnswerAccepted(u, q, c)
      PROVE  ScoreIsSum'
  <2> DEFINE r == Result(u, q, c)
             a == [correct |-> c, points |-> r.points]
  <2>1. r.points \in Nat
    BY ResultType
  <2>2. a # None
    BY <2>1, NoneAssumption
  <2>3. answers[u][q] = None
    BY <1>3, AnswerStep DEF Answered
  <2>4. /\ answers' = [answers EXCEPT ![u] = [answers[u] EXCEPT ![q] = a]]
        /\ score' = [score EXCEPT ![u] = score[u] + r.points]
    BY <1>3 DEF AnswerAccepted
  <2> HIDE DEF r
  <2>5. /\ answers'[u][q] = a
        /\ \A v \in Users, p \in Questions : v # u \/ p # q => answers'[v][p] = answers[v][p]
    BY <2>4 DEF TypeOK
  <2>6. PointsFor(u, q)' = r.points /\ PointsFor(u, q) = 0
    BY <2>2, <2>3, <2>5 DEF PointsFor, Answered
  <2>7. \A v \in Users, p \in Questions :
           v # u \/ p # q => PointsFor(v, p)' = PointsFor(v, p)
    BY <2>5 DEF PointsFor, Answered
  <2>8. \A v \in Users, p \in Questions : PointsFor(v, p) \in Nat
    BY PointsOfNat DEF PointsTyped, PointsOf, Questions
  <2>9. SumTo(u)' = SumTo(u) + r.points
    <3>1. PointsFor(u, q)' = PointsFor(u, q) + r.points
      BY <2>1, <2>6
    <3> QED
      BY <2>1, <2>7, <3>1, SumToGrows
  <2>10. ASSUME NEW v \in Users, v # u PROVE SumTo(v)' = SumTo(v)
    <3>1. SumTo(v)' = SumTo(v) + 0
      <4>1. PointsFor(v, 0)' = PointsFor(v, 0) + 0
        BY <1>1, <2>7, <2>8, <2>10
      <4> QED
        BY <1>1, <2>7, <2>10, <4>1, SumToGrows
    <3>2. SumTo(v) \in Nat
      BY <1>1 DEF ScoreIsSum
    <3> QED
      BY <3>1, <3>2
  <2> QED
    BY <1>1, <2>1, <2>4, <2>9, <2>10 DEF ScoreIsSum, TypeOK
<1> QED
  BY <1>2, <1>3, StepKinds DEF JoinNew, Opened, TickQuestion, playerVars

\* A score is at every moment exactly what the answers on record were worth,
\* for any number of questions.
THEOREM ScoresAreSums == AnyClockSpec => []ScoreIsSum
<1>1. TypeOK /\ TypeOK' /\ OnlyAskedAnswered /\ ScoreIsSum /\ [Command \/ AnyClock]_vars
        => ScoreIsSum'
  BY SumStep
<1> QED
  BY <1>1, NothingSums, TypeCorrect, AskedAnswered, PTL DEF AnyClockSpec
=============================================================================
