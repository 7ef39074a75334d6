---------------------------- MODULE MCQuizClient ----------------------------
(* One player, a browser that is opened twice and a connection that fails.  *)
EXTENDS QuizClient
=============================================================================
