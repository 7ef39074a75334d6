------------------------------ MODULE QuizGame ------------------------------
(***************************************************************************)
(* What a quiz session promises its participants, with no clock, streak or *)
(* tie-break: questions are asked one at a time, in order and each once;   *)
(* a user is credited at most once per question, only while it is open,    *)
(* and a credit is never taken back; totals hold nothing but credits; and  *)
(* once anybody takes part the game ends.  QuizSession implements this.    *)
(***************************************************************************)
EXTENDS Integers

CONSTANTS Users, NumQuestions, None

VARIABLES
    started,    \* somebody has joined, or question 0 was opened by hand
    asked,      \* how many questions have been opened
    closed,     \* how many of them are closed
    over,
    credit,     \* points per user and question, None before the answer
    total

vars == <<started, asked, closed, over, credit, total>>

Questions == 0..(NumQuestions - 1)

Init ==
    /\ started = FALSE /\ over = FALSE
    /\ asked = 0 /\ closed = 0
    /\ credit = [u \in Users |-> [q \in Questions |-> None]]
    /\ total = [u \in Users |-> 0]

Begin ==
    /\ ~started /\ started' = TRUE
    /\ UNCHANGED <<asked, closed, over, credit, total>>

Ask ==
    /\ asked = closed /\ asked < NumQuestions
    /\ asked' = asked + 1 /\ started' = TRUE
    /\ UNCHANGED <<closed, over, credit, total>>

\* u is credited some points for the question that is open.
GiveCredit(u) ==
    /\ asked = closed + 1
    /\ credit[u][closed] = None
    /\ LET p == credit'[u][closed]
       IN  /\ p \in Nat
           /\ credit' = [credit EXCEPT ![u] = [@ EXCEPT ![closed] = p]]
           /\ total' = [total EXCEPT ![u] = @ + p]

Credit ==
    /\ \E u \in Users : GiveCredit(u)
    /\ UNCHANGED <<started, asked, closed, over>>

\* Close the open question, on its own or with the last credit given.
Close ==
    /\ asked = closed + 1
    /\ closed' = closed + 1
    /\ \/ UNCHANGED <<credit, total>>
       \/ \E u \in Users : GiveCredit(u)
    /\ UNCHANGED <<started, asked, over>>

Finish ==
    /\ ~over /\ closed = NumQuestions
    /\ over' = TRUE
    /\ UNCHANGED <<started, asked, closed, credit, total>>

Next == Begin \/ Ask \/ Credit \/ Close \/ Finish

\* A game that has begun goes on to its end.
Proceed == started /\ (Ask \/ Close \/ Finish)

Safety == Init /\ [][Next]_vars
Spec == Safety /\ WF_vars(Proceed)
=============================================================================
