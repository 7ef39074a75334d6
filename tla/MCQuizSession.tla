--------------------------- MODULE MCQuizSession ---------------------------
(* Two players, two questions with different limits and a per-question      *)
(* points override; a base of 10 keeps the three factors of a score apart.  *)
EXTENDS QuizSession

MCUsers == 1..2
MCTimeLimit == [q \in 0..1 |-> q + 1]
MCBasePoints == [q \in 0..1 |-> 10 + 5 * q]
=============================================================================
