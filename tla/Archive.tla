------------------------------ MODULE Archive ------------------------------
(***************************************************************************)
(* What is kept of a session in Postgres: db/repository.ts, written by the *)
(* hooks of server.ts without anybody waiting, and drained when a process  *)
(* is shut down.                                                           *)
(*                                                                         *)
(* Runs (actors) are numbered in the order they are made.  Transactions    *)
(* are READ COMMITTED.  One that finds the row of its code locks it, and   *)
(* the others that write this row wait for it to end.  An UPDATE that      *)
(* finds no row locks nothing: its DELETE and its INSERT are steps of      *)
(* their own, with any other transaction before, between and after them.   *)
(* What a transaction wrote shows once its last statement has succeeded.   *)
(* Every player of a finished run scores one point.                        *)
(***************************************************************************)
EXTENDS Integers, Sequences, FiniteSets, FiniteSetsExt

CONSTANTS
    Processes,      \* server processes on one database
    Codes,          \* session codes
    Quizzes,        \* quiz ids of data/quizzes.json, as integers
    Accounts,       \* user ids that start with u_, as integers
    Guests,         \* user ids that do not
    Seeders,        \* processes with DB_AUTO_SEED on
    None,
    MaxRuns,        \* bound: actors made
    MaxFailures,    \* bound: transactions that fail
    MaxExits        \* bound: shutdowns and crashes together

Players == Accounts \cup Guests
SessionRows == [quiz : Quizzes, status : {"created", "finished"}]

ASSUME ArchiveAssumption ==
    /\ Players \subseteq Int /\ Accounts \cap Guests = {} /\ IsFiniteSet(Players)
    /\ Quizzes \subseteq Int /\ Quizzes # {} /\ IsFiniteSet(Quizzes)
    /\ Seeders \subseteq Processes
    /\ {MaxRuns, MaxFailures, MaxExits} \subseteq Nat
    /\ None \notin Int
    /\ \A S \in SUBSET Players : S # None
    /\ \A row \in SessionRows : row # None

VARIABLES
    bank,       \* the tables quizzes and questions
    sessions,   \* the table sessions, by code
    results,    \* the table session_results, by code
    proc,       \* the processes
    run,        \* per run: its code, its quiz, and who played once it is finished
    made, failures, exits,
    spoilt      \* codes of which a write failed, was lost or overtook an earlier one

tables == <<bank, sessions, results>>
bounds == <<failures, exits>>
archiveVars == <<tables, proc, run, made, bounds, spoilt>>

Runs == 1..MaxRuns
Rows == [user : Players, rank : Nat, score : Nat, of : Runs]

\* A write: not begun, or a sessionFinished whose UPDATE missed, whose DELETE
\* followed that, or which has locked the row and deleted.  gone: what it deleted.
Stages == {"due", "missed", "beside", "locked"}
Writes == [t : {"created", "finished"}, of : Runs, at : Stages, gone : SUBSET Rows]

-----------------------------------------------------------------------------
\* Boot: migrated tables, the bank, and the definitions of the process.
ArchiveInit ==
    /\ bank = {}
    /\ sessions = [c \in Codes |-> None] /\ results = [c \in Codes |-> {}]
    /\ proc = [p \in Processes |->
                [is |-> "down", definitions |-> {}, live |-> [c \in Codes |-> None],
                 inflight |-> {}, waits |-> {}]]
    /\ run = <<>> /\ made = 0 /\ failures = 0 /\ exits = 0 /\ spoilt = {}

\* upsertQuizzes, of a bank that is empty: one transaction.
Seeded(p) == IF bank = {} /\ p \in Seeders THEN Quizzes ELSE bank
\* listQuizzes, or the file if it lists none.
Loaded(b) == IF b = {} THEN Quizzes ELSE b

\* createServer: seed an empty bank, read it, fall back to the file.
Boot(p) ==
    /\ proc[p].is = "down"
    /\ bank' = Seeded(p)
    /\ proc' = [proc EXCEPT ![p].is = "serving", ![p].definitions = Loaded(Seeded(p))]
    /\ UNCHANGED <<sessions, results, run, made, bounds, spoilt>>

-----------------------------------------------------------------------------
\* persist
Persist(pr, t, r) ==
    [pr EXCEPT !.inflight = @ \cup {[t |-> t, of |-> r, at |-> "due", gone |-> {}]}]

\* registry.create and restart, with the hook onCreated.
Make(p, c, q) ==
    /\ made < MaxRuns
    /\ made' = made + 1
    /\ run' = Append(run, [code |-> c, quiz |-> q, played |-> None])
    /\ proc' = [proc EXCEPT ![p] = Persist([@ EXCEPT !.live[c] = made'], "created", made')]

Elsewhere(p, c) == \E p2 \in Processes \ {p} : proc[p2].live[c] # None

\* Of a chosen quiz, or of the first; one process owns a code (ClusterOwnership).
\* A request or a join that is being resolved while close() has disposed all
\* sessions makes a new one.
Create(p, c) ==
    /\ proc[p].is \in {"serving", "closing"} /\ proc[p].live[c] = None /\ ~Elsewhere(p, c)
    /\ \E q \in proc[p].definitions : Make(p, c, q)
    /\ UNCHANGED <<tables, bounds, spoilt>>

\* POST restart, and freshIfStale: the same quiz again.
Restart(p, c) ==
    /\ proc[p].is \in {"serving", "closing"} /\ proc[p].live[c] # None
    /\ Make(p, c, run[proc[p].live[c]].quiz)
    /\ UNCHANGED <<tables, bounds, spoilt>>

\* onQuizFinished, once per run; nobody can join once close() has begun.
Finish(p, c) ==
    LET r == proc[p].live[c]
    IN  /\ proc[p].is = "serving" /\ r # None /\ run[r].played = None
        /\ \E S \in SUBSET Players : run' = [run EXCEPT ![r].played = S]
        /\ proc' = [proc EXCEPT ![p] = Persist(@, "finished", r)]
        /\ UNCHANGED <<tables, made, bounds, spoilt>>

Idle(p, c) ==
    /\ proc[p].is = "serving" /\ proc[p].live[c] # None
    /\ proc' = [proc EXCEPT ![p].live[c] = None]
    /\ UNCHANGED <<tables, run, made, bounds, spoilt>>

-----------------------------------------------------------------------------
\* The transactions.
Code(w) == run[w.of].code
Before(v, w) == v.of < w.of \/ (v.of = w.of /\ v.t = "created" /\ w.t = "finished")

InFlight(c) == {w \in UNION {proc[p].inflight : p \in Processes} : Code(w) = c}

\* w is taken: in its turn, or before one that was made earlier.
Overtakes(w) ==
    spoilt' = IF \E v \in InFlight(Code(w)) : Before(v, w) THEN spoilt \cup {Code(w)} ELSE spoilt
Taken(p, w) == proc' = [proc EXCEPT ![p].inflight = @ \ {w}] /\ Overtakes(w)
Standings(r) ==
    {[user |-> u, rank |-> Cardinality({v \in run[r].played : v <= u}), score |-> 1, of |-> r] :
        u \in run[r].played}

Failed(p, w) ==
    /\ proc' = [proc EXCEPT ![p].inflight = @ \ {w}]
    /\ spoilt' = spoilt \cup {Code(w)}
    /\ UNCHANGED tables

\* The row of the code is locked by a transaction under way.
Held(c) == \E v \in InFlight(c) : v.at = "locked"

\* The foreign key of sessions.quiz_id.
AnyQuiz(w) == TRUE              \* mutant: quiz_id references nothing
QuizKnown(w) == run[w.of].quiz \in bank

\* sessionCreated: the row it inserts or updates is locked until it commits.
SessionCreated(p, w) ==
    /\ w.t = "created" /\ ~Held(Code(w)) /\ QuizKnown(w)
    /\ sessions' = [sessions EXCEPT ![Code(w)] =
                        [quiz |-> run[w.of].quiz, status |-> "created"]]
    /\ results' = [results EXCEPT ![Code(w)] = {}]
    /\ Taken(p, w)
    /\ UNCHANGED <<bank, run, made, bounds>>

\* sessionFinished.  w has come to the stage `at', with its DELETE unless it missed.
Comes(p, w, at) ==
    LET gone == IF at = "missed" THEN {} ELSE results[Code(w)]
    IN  proc' = [proc EXCEPT ![p].inflight =
                    (@ \ {w}) \cup {[w EXCEPT !.at = at, !.gone = gone]}]

\* An UPDATE that finds no row is no error.
FinishedUpdates(p, w) ==
    /\ w.t = "finished" /\ w.at = "due" /\ ~Held(Code(w))
    /\ Comes(p, w, IF sessions[Code(w)] = None THEN "missed" ELSE "locked")
    /\ Overtakes(w)
    /\ UNCHANGED <<tables, run, made, bounds>>

FinishedDeletes(p, w) ==
    /\ w.at = "missed"
    /\ Comes(p, w, "beside")
    /\ UNCHANGED <<tables, run, made, bounds, spoilt>>

\* Its INSERT sees what was committed since: rows it did not delete stay.
Left(w) == results[Code(w)] \ w.gone

\* The foreign key and the primary key of session_results.
ForeignKeyOnly(w) ==            \* mutant: a player may have two rows under a code
    run[w.of].played = {} \/ sessions[Code(w)] # None
KeysHold(w) ==
    \/ run[w.of].played = {}
    \/ sessions[Code(w)] # None /\ \A row \in Left(w) : row.user \notin run[w.of].played

DoNothing(w) ==                 \* mutant: ON CONFLICT DO NOTHING
    {row \in Standings(w.of) : \A other \in Left(w) : other.user # row.user}
FinishedSkips(p, w) ==
    /\ w.at \in {"locked", "beside"} /\ ForeignKeyOnly(w)
    /\ sessions' = IF w.at = "beside" THEN sessions
                   ELSE [sessions EXCEPT ![Code(w)].status = "finished"]
    /\ results' = [results EXCEPT ![Code(w)] = Left(w) \cup DoNothing(w)]
    /\ Taken(p, w)
    /\ UNCHANGED <<bank, run, made, bounds>>
FinishedInserts(p, w) ==
    /\ w.at \in {"locked", "beside"} /\ KeysHold(w)
    /\ sessions' = IF w.at = "beside" THEN sessions
                   ELSE [sessions EXCEPT ![Code(w)].status = "finished"]
    /\ results' = [results EXCEPT ![Code(w)] = Left(w) \cup Standings(w.of)]
    /\ Taken(p, w)
    /\ UNCHANGED <<bank, run, made, bounds>>

FinishedRefused(p, w) ==
    /\ w.at \in {"locked", "beside"} /\ ~KeysHold(w)
    /\ Failed(p, w)
    /\ UNCHANGED <<run, made, bounds>>

\* A quiz the bank does not hold, or any error of the database.
WriteFails(p, w) ==
    /\ IF w.t = "created" /\ ~QuizKnown(w) THEN UNCHANGED failures
       ELSE failures < MaxFailures /\ failures' = failures + 1
    /\ Failed(p, w)
    /\ UNCHANGED <<run, made, exits>>

-----------------------------------------------------------------------------
\* close(): dispose everything, stop listening, wait for the writes, leave.
Shutdown(p) ==
    /\ proc[p].is = "serving" /\ exits < MaxExits
    /\ exits' = exits + 1
    /\ proc' = [proc EXCEPT ![p].is = "closing", ![p].live = [c \in Codes |-> None]]
    /\ UNCHANGED <<tables, run, made, failures, spoilt>>

NoDrain(p) ==                   \* mutant: close() does not wait
    /\ proc[p].is = "closing"
    /\ proc' = [proc EXCEPT ![p].is = "draining", ![p].waits = {}]
    /\ UNCHANGED <<tables, run, made, bounds, spoilt>>
Drain(p) ==
    /\ proc[p].is = "closing"
    /\ proc' = [proc EXCEPT ![p].is = "draining",
                            ![p].waits = {[t |-> w.t, of |-> w.of] : w \in proc[p].inflight}]
    /\ UNCHANGED <<tables, run, made, bounds, spoilt>>

\* Promise.allSettled over the writes there were, then db.destroy().
Destroyed(p) ==
    /\ proc[p].is = "draining"
    /\ \A w \in proc[p].inflight : [t |-> w.t, of |-> w.of] \notin proc[p].waits
    /\ proc' = [proc EXCEPT ![p].is = "down", ![p].inflight = {}, ![p].waits = {},
                            ![p].live = [c \in Codes |-> None]]
    /\ UNCHANGED <<tables, run, made, bounds, spoilt>>

Crash(p) ==
    /\ proc[p].is = "serving" /\ exits < MaxExits
    /\ exits' = exits + 1
    /\ proc' = [proc EXCEPT ![p].is = "crashed", ![p].inflight = {},
                            ![p].live = [c \in Codes |-> None]]
    /\ spoilt' = spoilt \cup {Code(w) : w \in proc[p].inflight}
    /\ UNCHANGED <<tables, run, made, failures>>

ArchiveNext ==
    \E p \in Processes :
        \/ Boot(p) \/ Shutdown(p) \/ Drain(p) \/ Destroyed(p) \/ Crash(p)
        \/ \E c \in Codes :
              Create(p, c) \/ Restart(p, c) \/ Finish(p, c) \/ Idle(p, c)
        \/ \E w \in proc[p].inflight :
              \/ SessionCreated(p, w) \/ FinishedUpdates(p, w) \/ FinishedDeletes(p, w)
              \/ FinishedInserts(p, w) \/ FinishedRefused(p, w) \/ WriteFails(p, w)

ArchiveSpec == ArchiveInit /\ [][ArchiveNext]_archiveVars

-----------------------------------------------------------------------------
\* The queries.
Summary(c) ==
    [quizId |-> sessions[c].quiz, status |-> sessions[c].status,
     participants |-> Cardinality(results[c])]
Results(c) ==
    IF sessions[c] = None THEN None ELSE [summary |-> Summary(c), standings |-> results[c]]
RecentSessions == {<<c, Summary(c)>> : c \in {d \in Codes : sessions[d] # None}}

\* The row of an account in the ranked board, before it is numbered.
RowsOf(u) == UNION {{row \in results[c] : row.user = u} : c \in Codes}
RankedPlayer(u) ==
    [userId |-> u,
     totalScore |-> MapThenSumSet(LAMBDA row : row.score, RowsOf(u)),
     games |-> Cardinality(RowsOf(u)),
     wins |-> Cardinality({row \in RowsOf(u) : row.rank = 1})]

-----------------------------------------------------------------------------
\* Types of the tables and the processes, with the foreign keys of the schema:
\* standings need their session, a session its quiz.
ArchiveTypeOK ==
    /\ bank \subseteq Quizzes
    /\ sessions \in [Codes -> SessionRows \cup {None}]
    /\ \A c \in Codes :
          /\ sessions[c] # None => sessions[c].quiz \in bank
          /\ \A row \in results[c] : row \in [user : Players, rank : 1..Cardinality(Players),
                                              score : {1}, of : 1..made]
          /\ results[c] # {} => sessions[c] # None
    /\ \A p \in Processes :
          /\ proc[p].is \in {"down", "serving", "closing", "draining", "crashed"}
          /\ proc[p].definitions \subseteq Quizzes
          /\ proc[p].live \in [Codes -> 1..made \cup {None}]
          /\ proc[p].inflight \subseteq Writes

\* A code is used again and again, and its writes overtake each other, fail, are
\* lost and run into each other between the statements of repository.ts:160-183.
\* What is archived under it is of finished runs of that code, each of them with
\* every one of its players, and no player twice; and of one run only, unless a
\* write of that code was spoilt.
ArchivedRunsWhole ==
    \A c \in Codes : \A row \in results[c] :
        /\ run[row.of].code = c /\ run[row.of].played # None
        /\ Standings(row.of) \subseteq results[c]
        /\ \A other \in results[c] :
              /\ other.user = row.user => other = row
              /\ other.of # row.of => c \in spoilt

\* Once the writes of a code are settled, the archive says what its last run came
\* to, whichever processes ran it and were shut down since (server.ts:93-94): unless
\* one of its writes failed, died with a crash or overtook an earlier one.
ArchiveCurrent ==
    \A c \in Codes :
        LET runs == {r \in 1..made : run[r].code = c}
            last == Max(runs)
            ended == run[last].played # None
            rows == IF ended THEN Standings(last) ELSE {}
            summary == [quizId |-> run[last].quiz,
                        status |-> IF ended THEN "finished" ELSE "created",
                        participants |-> IF ended THEN Cardinality(run[last].played) ELSE 0]
        IN  c \notin spoilt /\ InFlight(c) = {} /\ runs # {} =>
                /\ Results(c) = [summary |-> summary, standings |-> rows]
                /\ <<c, summary>> \in RecentSessions

\* "every finished session adds to their total (points, games, wins)" (README.md):
\* what an account has scored is never taken back, all writes going well and in turn.
FinishedSessionsAdd ==
    [][spoilt' = {} =>
        \A u \in Accounts : /\ RankedPlayer(u)'.totalScore >= RankedPlayer(u).totalScore
                             /\ RankedPlayer(u)'.games >= RankedPlayer(u).games]_archiveVars

\* Not kept by the code.  "Resetting the row and dropping the previous standings
\* must be observed together" (repository.ts:135-136): a session said to be created
\* has no standings of an earlier run under its code, its writes being settled.
FormerStandingsGone ==
    \A c \in Codes :
        (sessions[c] # None /\ sessions[c].status = "created" /\ InFlight(c) = {})
            => \A row \in results[c] : \A r \in 1..made : run[r].code = c => r <= row.of
=============================================================================
