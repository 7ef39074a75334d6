---------------------------- MODULE QuizSession ----------------------------
(***************************************************************************)
(* The session reducer, domain/session.ts: one SessionState driven by the  *)
(* commands join, answer, start and tick, each carrying the server time.   *)
(*                                                                         *)
(* Questions are their indices 0..NumQuestions-1 (ids are unique within a  *)
(* quiz, so the index stands for the id), a choice is whether it is the    *)
(* right one, and the players map is the set `joined' with one function    *)
(* per field of Player.                                                    *)
(***************************************************************************)
EXTENDS Scoring, Leaderboard

CONSTANTS
    Users,              \* user ids, compared as integers
    Names,
    NumQuestions,
    TimeLimit,          \* timeLimitFor(state, q), per question
    BasePoints,         \* question.points ?? rules.basePoints, per question
    LobbyMs, RevealMs, GraceMs,
    EndEarly,           \* rules.endEarlyWhenAllAnswered
    None,               \* null / undefined
    MaxLateMs,          \* bound: how far time may run past a due deadline
    IdleMs,             \* bound: how far time runs while no deadline is pending
    MaxClockBack        \* bound: how often the wall clock is set back

Questions == 0..(NumQuestions - 1)

RejectReasons == {"not_open", "unknown_question", "already_answered", "too_late"}

ASSUME SessionAssumption ==
    /\ Users \subseteq Int /\ IsFiniteSet(Users)
    /\ Names # {}
    /\ NumQuestions \in Nat \ {0}
    /\ TimeLimit \in [Questions -> Nat \ {0}]
    /\ BasePoints \in [Questions -> Nat \ {0}]
    /\ LobbyMs \in Nat /\ RevealMs \in Nat /\ GraceMs \in Nat
    /\ EndEarly \in BOOLEAN
    /\ MaxLateMs \in Nat /\ IdleMs \in Nat /\ MaxClockBack \in Nat

ASSUME NoneAssumption ==
    /\ None \notin Int /\ None \notin RejectReasons
    /\ None \notin Names
    /\ None \notin [correct : BOOLEAN, points : Nat]

VARIABLES
    phase, currentIndex, questionStartedAt, questionEndsAt,
    phaseUntil,         \* lobby: auto-start; reveal: next question; else None
    joined,             \* keys of the players map
    name, score, streak, scoreSeq, answers,
    nextScoreSeq,
    now,                \* Date.now() of the process that runs the session
    clockBacks          \* how often that clock has been set back so far

playerVars == <<joined, name, score, streak, scoreSeq, answers, nextScoreSeq>>
phaseVars == <<phase, currentIndex, questionStartedAt, questionEndsAt, phaseUntil>>
clockVars == <<now, clockBacks>>
vars == <<playerVars, phaseVars, clockVars>>

Phases == {"lobby", "question", "reveal", "finished"}
Answer == [correct : BOOLEAN, points : Nat]

Init ==
    /\ phase = "lobby" /\ currentIndex = -1
    /\ questionStartedAt = 0 /\ questionEndsAt = 0 /\ phaseUntil = None
    /\ joined = {}
    /\ name = [u \in Users |-> None]
    /\ score = [u \in Users |-> 0]
    /\ streak = [u \in Users |-> 0]
    /\ scoreSeq = [u \in Users |-> 0]
    /\ answers = [u \in Users |-> [q \in Questions |-> None]]
    /\ nextScoreSeq = 1
    /\ now = 0 /\ clockBacks = 0

-----------------------------------------------------------------------------
\* The time at which a tick is needed, None if none is pending.
NextDeadline ==
    CASE phase \in {"lobby", "reveal"} -> phaseUntil
      [] phase = "question" -> questionEndsAt + GraceMs
      [] phase = "finished" -> None

Answered(u, q) == answers[u][q] # None

Standing(u) ==
    [userId |-> u, name |-> name[u], score |-> score[u], streak |-> streak[u],
     scoreSeq |-> scoreSeq[u]]

Standings == {Standing(u) : u \in joined}

Board == RankStandings(Standings)

-----------------------------------------------------------------------------
\* openQuestion
OpenQuestion(index) ==
    /\ phase' = "question"
    /\ currentIndex' = index
    /\ questionStartedAt' = now
    /\ questionEndsAt' = now + TimeLimit[index]
    /\ phaseUntil' = None

\* endQuestion, but for the streaks: see BrokenStreaks.
EndQuestionForever ==           \* mutant: no time for the next question
    /\ phase' = "reveal"
    /\ UNCHANGED <<currentIndex, questionStartedAt, questionEndsAt, phaseUntil>>
EndQuestion ==
    /\ phase' = "reveal"
    /\ phaseUntil' = now + RevealMs
    /\ UNCHANGED <<currentIndex, questionStartedAt, questionEndsAt>>

\* endQuestion's loop over the players: who did not answer loses the streak.
KeepStreaks(str, ans) == str    \* mutant: no loop
BrokenStreaks(str, ans) ==
    [u \in Users |->
        IF u \in joined /\ ans[u][currentIndex] = None THEN 0 ELSE str[u]]

\* scoreSeq = nextScoreSeq++
ReuseScoreSeq(u) ==             \* mutant: ++ forgotten
    /\ scoreSeq' = [scoreSeq EXCEPT ![u] = nextScoreSeq]
    /\ UNCHANGED nextScoreSeq
ScoreSeqAtJoin(u) ==            \* mutant: not taken again when the score grows
    /\ scoreSeq' = [scoreSeq EXCEPT ![u] = IF u \in joined THEN @ ELSE nextScoreSeq]
    /\ nextScoreSeq' = nextScoreSeq + 1
TakeScoreSeq(u) ==
    /\ scoreSeq' = [scoreSeq EXCEPT ![u] = nextScoreSeq]
    /\ nextScoreSeq' = nextScoreSeq + 1

\* everyoneAnswered, once u's answer is on record.
AnyoneAnswered(u, q) ==         \* mutant: one answer is enough
    joined # {}
AnsweredBefore(u, q) ==         \* mutant: asked before the answer is recorded
    joined # {} /\ \A v \in joined : Answered(v, q)
EveryoneAnswered(u, q) ==
    joined # {} /\ \A v \in joined : v = u \/ Answered(v, q)

\* A known user joins again: only the display name may change.
Rejoin(u, n) ==
    /\ u \in joined
    /\ name' = [name EXCEPT ![u] = n]
    /\ UNCHANGED <<joined, score, streak, scoreSeq, answers, nextScoreSeq>>
    /\ UNCHANGED phaseVars
    /\ UNCHANGED clockVars

JoinNew(u, n) ==
    /\ u \notin joined
    /\ joined' = joined \cup {u}
    /\ name' = [name EXCEPT ![u] = n]
    /\ TakeScoreSeq(u)
    /\ phaseUntil' = IF phase = "lobby" /\ phaseUntil = None
                     THEN now + LobbyMs ELSE phaseUntil
    /\ UNCHANGED <<score, streak, answers>>
    /\ UNCHANGED <<phase, currentIndex, questionStartedAt, questionEndsAt>>
    /\ UNCHANGED clockVars

Join(u, n) == Rejoin(u, n) \/ JoinNew(u, n)

\* What answer() says to an answer it turns down, None if it takes it.
RescoreReason(u, q) ==          \* mutant: a retry counts again
    CASE phase # "question" -> "not_open"
      [] phase = "question" /\ q # currentIndex -> "unknown_question"
      [] OTHER -> None
AnyQuestionReason(u, q) ==      \* mutant: the question id is not compared
    CASE phase # "question" -> "not_open"
      [] phase = "question" /\ Answered(u, q) -> "already_answered"
      [] OTHER -> None
RejectReason(u, q) ==
    CASE phase # "question" -> "not_open"
      [] phase = "question" /\ q # currentIndex -> "unknown_question"
      [] phase = "question" /\ q = currentIndex /\ Answered(u, q) ->
            "already_answered"
      [] phase = "question" /\ q = currentIndex /\ ~Answered(u, q)
            /\ now > questionEndsAt + GraceMs -> "too_late"
      [] OTHER -> None

\* scoreAnswer for u's answer to question q, given now.
Result(u, q, correct) ==
    ScoreAnswer(correct, BasePoints[q], now - questionStartedAt, TimeLimit[q],
                streak[u])

\* answer() that is taken: score it, and end the question if it was the last
\* one awaited.  A rejected answer changes nothing and is no step.
AnswerAccepted(u, q, correct) ==
    /\ u \in joined
    /\ RejectReason(u, q) = None
    /\ LET r == Result(u, q, correct)
           str == [streak EXCEPT ![u] = r.streakAfter]
       IN  /\ answers' = [answers EXCEPT ![u] = [@ EXCEPT ![q] =
                              [correct |-> correct, points |-> r.points]]]
           /\ score' = [score EXCEPT ![u] = @ + r.points]
           /\ IF r.points > 0 THEN TakeScoreSeq(u)
                              ELSE UNCHANGED <<scoreSeq, nextScoreSeq>>
           /\ IF EndEarly /\ EveryoneAnswered(u, q)
              THEN EndQuestion /\ streak' = BrokenStreaks(str, answers')
              ELSE UNCHANGED phaseVars /\ streak' = str
    /\ UNCHANGED <<joined, name>>
    /\ UNCHANGED clockVars

\* start: skip what is left of the lobby, even when nobody has joined.
Start ==
    /\ phase = "lobby"
    /\ OpenQuestion(0)
    /\ UNCHANGED playerVars
    /\ UNCHANGED clockVars

-----------------------------------------------------------------------------
\* tick, once the deadline is reached.  An earlier tick changes nothing.
TickDue == NextDeadline # None /\ now >= NextDeadline

TickLobby ==
    /\ TickDue /\ phase = "lobby"
    /\ OpenQuestion(0)
    /\ UNCHANGED playerVars
    /\ UNCHANGED clockVars

TickQuestion ==
    /\ TickDue /\ phase = "question"
    /\ EndQuestion
    /\ streak' = BrokenStreaks(streak, answers)
    /\ UNCHANGED <<joined, name, score, scoreSeq, answers, nextScoreSeq>>
    /\ UNCHANGED clockVars

FinishPastLast ==               \* mutant: the index moves before the end is seen
    /\ TickDue /\ phase = "reveal"
    /\ IF currentIndex + 1 >= NumQuestions
       THEN /\ phase' = "finished" /\ phaseUntil' = None
            /\ currentIndex' = currentIndex + 1
            /\ UNCHANGED <<questionStartedAt, questionEndsAt>>
       ELSE OpenQuestion(currentIndex + 1)
    /\ UNCHANGED <<playerVars, clockVars>>
TickReveal ==
    /\ TickDue /\ phase = "reveal"
    /\ IF currentIndex + 1 >= NumQuestions
       THEN /\ phase' = "finished"
            /\ phaseUntil' = None
            /\ UNCHANGED <<currentIndex, questionStartedAt, questionEndsAt>>
       ELSE OpenQuestion(currentIndex + 1)
    /\ UNCHANGED playerVars
    /\ UNCHANGED clockVars

Tick == TickLobby \/ TickQuestion \/ TickReveal

-----------------------------------------------------------------------------
\* The wall clock.  It passes a due deadline by MaxLateMs at most before the
\* event loop gets to the tick.
Advance ==
    /\ IF NextDeadline = None THEN now < IdleMs
                              ELSE now < NextDeadline + MaxLateMs
    /\ now' = now + 1
    /\ UNCHANGED clockBacks
    /\ UNCHANGED <<playerVars, phaseVars>>

\* Date.now() is not monotonic: the system may set the clock back.
ClockBack ==
    /\ clockBacks < MaxClockBack
    /\ now' = now - 1
    /\ clockBacks' = clockBacks + 1
    /\ UNCHANGED <<playerVars, phaseVars>>

\* applyCommand
Command ==
    \/ \E u \in Users, n \in Names : Join(u, n)
    \/ \E u \in Users, q \in Questions, c \in BOOLEAN : AnswerAccepted(u, q, c)
    \/ Start
    \/ Tick

Next == Command \/ Advance \/ ClockBack

\* The actor keeps a timer armed for every pending deadline, and time passes.
Fairness == WF_vars(Tick) /\ WF_vars(Advance)

Spec == Init /\ [][Next]_vars
FairSpec == Spec /\ Fairness

\* The same reducer under a clock that may do anything between two commands.
AnyClock ==
    /\ now' \in Int /\ clockBacks' \in Nat
    /\ UNCHANGED <<playerVars, phaseVars>>
AnyClockSpec == Init /\ [][Command \/ AnyClock]_vars

-----------------------------------------------------------------------------
(***************************************************************************)
(* Properties                                                              *)
(***************************************************************************)

\* The types of the fields of SessionState and Player (domain/types.ts).
TypeOK ==
    /\ phase \in Phases
    /\ currentIndex \in -1..(NumQuestions - 1)
    /\ questionStartedAt \in Int /\ questionEndsAt \in Int
    /\ phaseUntil \in Int \cup {None}
    /\ joined \subseteq Users
    /\ name \in [Users -> Names \cup {None}]
    /\ score \in [Users -> Nat] /\ streak \in [Users -> Nat]
    /\ scoreSeq \in [Users -> Nat]
    /\ answers \in [Users -> [Questions -> Answer \cup {None}]]
    /\ nextScoreSeq \in Nat \ {0}
    /\ now \in Int /\ clockBacks \in Nat

\* scoreSeq alone tells any two players apart: each value was handed out once,
\* whatever joins and answers interleave, so the ranking never falls back on
\* the user id and equal scores rank by who got there first.
ScoreSeqUnique ==
    /\ \A u \in joined : 0 < scoreSeq[u] /\ scoreSeq[u] < nextScoreSeq
    /\ \A u, v \in joined : u # v => scoreSeq[u] # scoreSeq[v]

Correct(u, q) == Answered(u, q) /\ answers[u][q].correct

\* The last question whose outcome is settled for u.
LastDecided(u) ==
    IF phase = "question" /\ ~Answered(u, currentIndex)
    THEN currentIndex - 1 ELSE currentIndex

\* streak, kept by increments, resets and the sweep in endQuestion, is the
\* length of the run of right answers that ends at the last settled question:
\* a question missed, or joined too late for, breaks it like a wrong answer.
IsRun(u, n, d) ==
    /\ n <= d + 1
    /\ \A q \in Questions : d - n < q /\ q <= d => Correct(u, q)
    /\ n <= d => ~Correct(u, d - n)
StreakIsRun == \A u \in joined : IsRun(u, streak[u], LastDecided(u))

\* Answers are on record only for questions that were opened, of players, and
\* who has not joined has no streak: what makes the invariants above inductive.
OnlyAskedAnswered ==
    /\ phase = "lobby" <=> currentIndex = -1
    /\ \A u \in Users, q \in Questions : Answered(u, q) => u \in joined /\ q <= currentIndex
    /\ \A u \in Users \ joined : streak[u] = 0

\* A player's score is exactly what the answers on record were worth: no
\* answer is counted twice, lost, or credited without a record.
PointsFor(u, q) == IF Answered(u, q) THEN answers[u][q].points ELSE 0
SumTo(u) ==
    LET f[q \in -1..(NumQuestions - 1)] ==
            IF q = -1 THEN 0 ELSE f[q - 1] + PointsFor(u, q)
    IN  f[NumQuestions - 1]
ScoreIsSum == \A u \in Users : score[u] = SumTo(u)

\* With endEarlyWhenAllAnswered a question never stays open once every player
\* has answered it: some player's answer is still awaited.
OpenQuestionAwaitsSomeone ==
    EndEarly /\ phase = "question" /\ joined # {}
        => \E u \in joined : ~Answered(u, currentIndex)

\* Nobody loses answering time: a question closes before its window and grace
\* are over only if every player has answered it.
ClosesEarlyOnlyWhenAllAnswered ==
    [][phase = "question" /\ phase' # "question" /\ now < questionEndsAt + GraceMs
            => EndEarly /\ \A u \in joined : Answered(u, currentIndex)']_vars

\* A player overtakes another only with strictly more points: a tie leaves
\* whoever reached the score first ahead (Player.scoreSeq's comment), and
\* joins, rejoins and ticks move nobody.
OvertakeOnlyByPoints ==
    [][\A u, v \in joined :
        Above(Standing(u), Standing(v)) /\ score'[v] <= score'[u]
            => Above(Standing(u)', Standing(v)')]_vars

\* The lobby, every question and every reveal end: once someone is in, the
\* quiz gets to its results.
QuizFinishes == joined # {} ~> phase = "finished"

\* The session is a game as QuizGame promises it.
Game == INSTANCE QuizGame WITH
    started <- joined # {} \/ currentIndex >= 0,
    asked <- currentIndex + 1,
    closed <- IF phase = "question" THEN currentIndex ELSE currentIndex + 1,
    over <- phase = "finished",
    credit <- [u \in Users |-> [q \in Questions |->
                  IF answers[u][q] = None THEN None ELSE answers[u][q].points]],
    total <- score

\* Credits are given once, to the open question only, and never taken back,
\* questions are asked in order, and a game that has begun ends.
ImplementsGame == Game!Spec
GameSafety == Game!Safety
=============================================================================
