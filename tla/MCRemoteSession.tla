-------------------------- MODULE MCRemoteSession --------------------------
(* Sockets of a gateway are alike. *)
EXTENDS RemoteSession, TLC

Symmetric == Permutations(Sockets)
=============================================================================
