---------------------------- MODULE MCQuizActor ----------------------------
(* Two players, two connections; every right answer is worth one point, so   *)
(* that time matters to the timers and not to the scores.                    *)
EXTENDS QuizActor, TLC

MCUsers == 1..2
MCOneUser == {1}
MCTimeLimit == [q \in Questions |-> 1]
MCBasePoints == [q \in Questions |-> 1]

\* States that differ only in absolute time, in absolute sequence numbers, or
\* in times no longer read are explored once: the actor compares times with
\* one another and seq with what it sent, never with a constant.
Since(t) == IF t = None THEN None ELSE t - now
Relative == <<
    playerVars, phase, currentIndex, clockBacks,
    IF phase = "question" THEN <<Since(questionStartedAt), Since(questionEndsAt)>>
                          ELSE <<>>,
    Since(phaseUntil), Since(tickTimer), Since(scheduledDeadline), Since(flushTimer),
    Since(lastFlushAt), socketVars, boardVars, disposed, archived,
    [c \in Reached(conns) |-> [sent[c] EXCEPT !.seq = seq - @, !.until = Since(@)]] >>

ConnSymmetry == Permutations(Conns)
=============================================================================
