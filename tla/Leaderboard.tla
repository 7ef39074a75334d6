---------------------------- MODULE Leaderboard ----------------------------
(***************************************************************************)
(* domain/leaderboard.ts: the order of standings and the ranking built     *)
(* from it.  A standing is a record with userId, score and scoreSeq (and   *)
(* the name and streak the board carries along).  User ids are compared as *)
(* the source compares strings; integers stand for them.                   *)
(***************************************************************************)
EXTENDS Integers, FiniteSets

\* compareStandings(a, b) < 0: a is listed before b.
Above(a, b) ==
    \/ a.score > b.score
    \/ a.score = b.score /\ a.scoreSeq < b.scoreSeq
    \/ a.score = b.score /\ a.scoreSeq = b.scoreSeq /\ a.userId < b.userId

\* The place of s in `sorted', counted from 1.
Rank(s, standings) == Cardinality({t \in standings : Above(t, s)}) + 1

\* rankStandings: the sorted array, entries[i] at rank i.
RankStandings(standings) ==
    [i \in 1..Cardinality(standings) |->
        CHOOSE s \in standings : Rank(s, standings) = i]
=============================================================================
