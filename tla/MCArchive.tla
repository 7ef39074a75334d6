----------------------------- MODULE MCArchive -----------------------------
(* An account and a guest; two quizzes. *)
EXTENDS Archive

MCAccounts == {1}
MCGuests == {2}
MCQuizzes == 1..2
=============================================================================
