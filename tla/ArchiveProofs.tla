--------------------------- MODULE ArchiveProofs ---------------------------
(***************************************************************************)
(* What is archived of a session, for any number of processes, codes, runs,*)
(* players, failed and overtaken writes (Archive).                         *)
(*                                                                         *)
(* ArchivedRunsWhole is not inductive: a write that is under way brings    *)
(* the standings of a run when it commits, so that run must be finished by *)
(* then, what is known of a finished run must not change, and what its     *)
(* DELETE saw must be whole runs too.                                      *)
(***************************************************************************)
EXTENDS Archive, FiniteSetTheorems, TLAPS

RunRecords == [code : Codes, quiz : Quizzes, played : (SUBSET Players) \cup {None}]
ProcRecords ==
    [is : {"down", "serving", "closing", "draining", "crashed"},
     definitions : SUBSET Quizzes, live : [Codes -> Runs \cup {None}],
     inflight : SUBSET Writes, waits : SUBSET [t : {"created", "finished"}, of : Runs]]

RunsTyped ==
    /\ made \in 0..MaxRuns
    /\ run \in Seq(RunRecords) /\ Len(run) = made
    /\ bank \in SUBSET Quizzes
    /\ proc \in [Processes -> ProcRecords]
    /\ \A p \in Processes, c \in Codes : proc[p].live[c] \in 1..made \cup {None}

\* A write is of a run that was made, and brings standings only once they are final.
WritesAreDue ==
    \A p \in Processes : \A w \in proc[p].inflight :
        /\ w.of \in 1..made
        /\ w.t = "finished" => run[w.of].played # None
        /\ w.at # "due" => w.t = "finished"

ResultsByCode == results = [c \in Codes |-> results[c]]

\* Rows are of finished runs, with every player of them.
WholeRuns(G) ==
    \A row \in G : /\ row.of \in 1..made /\ run[row.of].played # None
                   /\ row \in Standings(row.of) /\ Standings(row.of) \subseteq G

\* So is what is archived under a code, by its own runs and each player once,
RowsWhole ==
    \A c \in Codes :
        /\ WholeRuns(results[c])
        /\ \A row \in results[c] :
              /\ run[row.of].code = c
              /\ \A other \in results[c] : other.user = row.user => other = row
\* and what the writes under way have deleted.
GoneWhole == \A p \in Processes : \A w \in proc[p].inflight : WholeRuns(w.gone)

\* A transaction goes on: w has become m.
Moves(p, w) == FinishedUpdates(p, w) \/ FinishedDeletes(p, w)
Went(p, w, m) ==
    /\ w.t = "finished" /\ m.t = w.t /\ m.of = w.of /\ Code(w) \in Codes
    /\ \/ /\ m.at = "missed" /\ m.gone = {}
          /\ FinishedUpdates(p, w) /\ sessions[Code(w)] = None
       \/ /\ m.at = "beside" /\ m.gone = results[Code(w)]
          /\ FinishedDeletes(p, w)
       \/ /\ m.at = "locked" /\ m.gone = results[Code(w)]
          /\ FinishedUpdates(p, w) /\ sessions[Code(w)] # None
\* It ends.
Ends(p, w) ==
    SessionCreated(p, w) \/ FinishedInserts(p, w) \/ FinishedRefused(p, w) \/ WriteFails(p, w)

\* What a step adds to the writes under way.
Brings ==
    \A q \in Processes : \A v \in proc'[q].inflight :
        \/ v \in proc[q].inflight
        \/ v.at = "due" /\ v.gone = {}
        \/ \E w \in proc[q].inflight : Went(q, w, v)

\* What one step does to the runs there were.
KeepsRuns ==
    /\ made' \in Nat /\ made <= made'
    /\ \A r \in 1..made :
          /\ run'[r].code = run[r].code /\ run'[r].quiz = run[r].quiz
          /\ run[r].played # None => run'[r] = run[r]

-----------------------------------------------------------------------------
LEMMA InitRuns == ArchiveInit => RunsTyped /\ WritesAreDue /\ ResultsByCode
<1>1. SUFFICES ASSUME ArchiveInit PROVE RunsTyped /\ WritesAreDue /\ ResultsByCode
  OBVIOUS
<1>2. run \in Seq(RunRecords) /\ Len(run) = 0
  BY <1>1 DEF ArchiveInit
<1>3. MaxRuns \in Nat
  BY ArchiveAssumption DEF ArchiveAssumption
<1>4. proc \in [Processes -> ProcRecords]
  BY <1>1 DEF ArchiveInit, ProcRecords
<1>5. \A p \in Processes : proc[p].inflight = {} /\ \A c \in Codes : proc[p].live[c] = None
  BY <1>1 DEF ArchiveInit
<1>6. RunsTyped
  <2>1. made = 0 /\ made \in 0..MaxRuns /\ bank \in SUBSET Quizzes
    BY <1>1, <1>3 DEF ArchiveInit
  <2> QED  BY <2>1, <1>2, <1>4, <1>5 DEF RunsTyped
<1>7. WritesAreDue
  BY <1>5 DEF WritesAreDue
<1>8. ResultsByCode
  BY <1>1 DEF ArchiveInit, ResultsByCode
<1> QED  BY <1>6, <1>7, <1>8

\* persist leaves the process typed and adds the one write.
LEMMA PersistTyped ==
    ASSUME NEW pr \in ProcRecords, NEW t \in {"created", "finished"}, NEW r \in Runs
    PROVE  /\ Persist(pr, t, r) \in ProcRecords
           /\ Persist(pr, t, r).live = pr.live
           /\ Persist(pr, t, r).inflight = pr.inflight \cup {[t |-> t, of |-> r, at |-> "due", gone |-> {}]}
<1>1. "due" \in Stages /\ {} \in SUBSET Rows
  BY DEF Stages
<1>2. [t |-> t, of |-> r, at |-> "due", gone |-> {}] \in Writes
  BY <1>1 DEF Writes
<1> QED  BY <1>2 DEF Persist, ProcRecords

\* registry.create and restart append a run, which is the one in the registry.
LEMMA MakeKeeps ==
    ASSUME RunsTyped, WritesAreDue,
           NEW p \in Processes, NEW c \in Codes, NEW q \in Quizzes, Make(p, c, q), UNCHANGED bank
    PROVE  RunsTyped' /\ WritesAreDue' /\ KeepsRuns /\ Brings
<1> DEFINE new == [code |-> c, quiz |-> q, played |-> None]
<1> DEFINE pr == [proc[p] EXCEPT !.live[c] = made']
<1>1. made' = made + 1 /\ made' \in 0..MaxRuns /\ made' \in Runs /\ made \in Nat /\ MaxRuns \in Nat
  BY ArchiveAssumption DEF ArchiveAssumption, Make, RunsTyped, Runs
<1>2. new \in RunRecords
  <2>1. None \in (SUBSET Players) \cup {None}
    OBVIOUS
  <2> QED  BY <2>1, SMT DEF RunRecords, new
<1>3. /\ run' \in Seq(RunRecords) /\ Len(run') = made'
      /\ \A r \in 1..made : run'[r] = run[r]
  BY <1>1, <1>2 DEF Make, RunsTyped
<1>4. pr \in ProcRecords /\ pr.inflight = proc[p].inflight
      /\ \A d \in Codes : pr.live[d] \in {made', proc[p].live[d]}
  BY <1>1 DEF RunsTyped, ProcRecords
<1>5. proc' = [proc EXCEPT ![p] = Persist(pr, "created", made')]
  BY DEF Make
<1> HIDE DEF pr, new
<1>6. /\ Persist(pr, "created", made') \in ProcRecords
      /\ Persist(pr, "created", made').live = pr.live
      /\ Persist(pr, "created", made').inflight =
            proc[p].inflight \cup {[t |-> "created", of |-> made', at |-> "due", gone |-> {}]}
  BY <1>1, <1>4, PersistTyped
<1>7. RunsTyped'
  <2>1. proc' \in [Processes -> ProcRecords]
    BY <1>5, <1>6 DEF RunsTyped
  <2>2. ASSUME NEW s \in Processes, NEW d \in Codes
        PROVE  proc'[s].live[d] \in 1..made' \cup {None}
    <3>1. proc[s].live[d] \in 1..made \cup {None}
      BY DEF RunsTyped
    <3>2. proc'[s].live[d] \in {made', proc[s].live[d]}
      BY <1>4, <1>5, <1>6 DEF RunsTyped
    <3> QED  BY <3>1, <3>2, <1>1
  <2> QED  BY <1>1, <1>3, <2>1, <2>2 DEF RunsTyped
<1>8. WritesAreDue'
  <2>1. SUFFICES ASSUME NEW s \in Processes, NEW w \in proc'[s].inflight
                 PROVE  /\ w.of \in 1..made'
                        /\ w.t = "finished" => run'[w.of].played # None
                        /\ w.at # "due" => w.t = "finished"
    BY DEF WritesAreDue
  <2>2. CASE w \in proc[s].inflight
    BY <2>2, <1>1, <1>3 DEF WritesAreDue
  <2>3. CASE w = [t |-> "created", of |-> made', at |-> "due", gone |-> {}]
    BY <2>3, <1>1
  <2> QED  BY <2>1, <2>2, <2>3, <1>5, <1>6 DEF RunsTyped
<1>9. Brings
  BY <1>5, <1>6 DEF Brings, RunsTyped
<1> QED  BY <1>1, <1>3, <1>7, <1>8, <1>9 DEF KeepsRuns

\* onQuizFinished: what was not known of the run is, from now on, for good.
LEMMA FinishKeeps ==
    ASSUME RunsTyped, WritesAreDue, NEW p \in Processes, NEW c \in Codes, Finish(p, c)
    PROVE  RunsTyped' /\ WritesAreDue' /\ KeepsRuns /\ Brings
<1> DEFINE r == proc[p].live[c]
<1>1. r \in 1..made /\ r \in Runs /\ made \in Nat /\ MaxRuns \in Nat
  BY ArchiveAssumption DEF ArchiveAssumption, Finish, RunsTyped, Runs
<1>2. PICK S \in SUBSET Players : run' = [run EXCEPT ![r].played = S]
  BY DEF Finish
<1>3. S # None /\ run[r].played = None /\ made' = made /\ bank' = bank
      /\ proc' = [proc EXCEPT ![p] = Persist(@, "finished", r)]
  BY ArchiveAssumption DEF ArchiveAssumption, Finish, tables
<1> HIDE DEF r
<1>4. /\ \A k \in 1..made : run[k] \in RunRecords
      /\ run' \in Seq(RunRecords) /\ Len(run') = made
      /\ run'[r] = [run[r] EXCEPT !.played = S]
      /\ \A k \in 1..made : k # r => run'[k] = run[k]
  <2>1. DOMAIN run = 1..made /\ \A k \in 1..made : run[k] \in RunRecords
    BY <1>1 DEF RunsTyped
  <2>2. [run[r] EXCEPT !.played = S] \in RunRecords
    BY <1>1, <2>1 DEF RunRecords
  <2> QED  BY <1>1, <1>2, <2>1, <2>2 DEF RunsTyped
<1>5. /\ run'[r].played = S /\ run'[r].code = run[r].code /\ run'[r].quiz = run[r].quiz
  BY <1>1, <1>4 DEF RunRecords
<1>6. /\ proc'[p] \in ProcRecords /\ proc'[p].live = proc[p].live
      /\ proc'[p].inflight =
            proc[p].inflight \cup {[t |-> "finished", of |-> r, at |-> "due", gone |-> {}]}
      /\ proc' \in [Processes -> ProcRecords]
      /\ \A s \in Processes : s # p => proc'[s] = proc[s]
  <2>1. proc[p] \in ProcRecords
    BY DEF RunsTyped
  <2> HIDE DEF KeepsRuns
  <2>2. Persist(proc[p], "finished", r) \in ProcRecords
    BY <1>1, <2>1, PersistTyped
  <2>3. /\ Persist(proc[p], "finished", r).live = proc[p].live
        /\ Persist(proc[p], "finished", r).inflight =
              proc[p].inflight \cup {[t |-> "finished", of |-> r, at |-> "due", gone |-> {}]}
    BY <1>1, <2>1, PersistTyped
  <2>4. proc' = [proc EXCEPT ![p] = Persist(proc[p], "finished", r)]
    BY <1>3
  <2> QED  BY <2>2, <2>3, <2>4 DEF RunsTyped
<1>7. RunsTyped'
  BY <1>1, <1>3, <1>4, <1>6 DEF RunsTyped
<1>8. WritesAreDue'
  <2>1. SUFFICES ASSUME NEW s \in Processes, NEW w \in proc'[s].inflight
                 PROVE  /\ w.of \in 1..made'
                        /\ w.t = "finished" => run'[w.of].played # None
                        /\ w.at # "due" => w.t = "finished"
    BY DEF WritesAreDue
  <2>2. CASE w \in proc[s].inflight
    <3>1. /\ w.of \in 1..made
          /\ w.at # "due" => w.t = "finished"
          /\ w.t = "finished" => run[w.of].played # None
      BY <2>2 DEF WritesAreDue
    <3>2. w.of # r => run'[w.of] = run[w.of]
      BY <3>1, <1>4
    <3> QED  BY <2>2, <3>1, <3>2, <1>3, <1>5 DEF WritesAreDue
  <2>3. CASE w = [t |-> "finished", of |-> r, at |-> "due", gone |-> {}]
    BY <2>3, <1>1, <1>3, <1>5
  <2> QED  BY <2>1, <2>2, <2>3, <1>6
<1>9. KeepsRuns
  <2>1. ASSUME NEW k \in 1..made
        PROVE  /\ run'[k].code = run[k].code /\ run'[k].quiz = run[k].quiz
               /\ run[k].played # None => run'[k] = run[k]
    BY <1>3, <1>4, <1>5
  <2> QED  BY <1>1, <1>3, <2>1 DEF KeepsRuns
<1>10. Brings
  BY <1>6 DEF Brings
<1> QED  BY <1>7, <1>8, <1>9, <1>10

\* The other steps change one process, make no run, and add no write: one that
\* goes on stays the write of a finished run.
LEMMA SettleKeeps ==
    ASSUME RunsTyped, WritesAreDue, UNCHANGED <<run, made>>, bank' \in SUBSET Quizzes,
           NEW p \in Processes, NEW pr \in ProcRecords, proc' = [proc EXCEPT ![p] = pr],
           \A c \in Codes : pr.live[c] \in {None, proc[p].live[c]},
           \A w \in pr.inflight :
               \/ w \in proc[p].inflight
               \/ \E v \in proc[p].inflight : Went(p, v, w)
    PROVE  RunsTyped' /\ WritesAreDue' /\ KeepsRuns /\ Brings
<1>1. RunsTyped'
  BY DEF RunsTyped
<1>2. WritesAreDue'
  <2>1. SUFFICES ASSUME NEW s \in Processes, NEW w \in proc'[s].inflight
                 PROVE  /\ w.of \in 1..made
                        /\ w.t = "finished" => run[w.of].played # None
                        /\ w.at # "due" => w.t = "finished"
    BY DEF WritesAreDue
  <2>2. CASE w \in proc[s].inflight
    BY <2>2 DEF WritesAreDue
  <2>3. CASE \E v \in proc[p].inflight : Went(p, v, w)
    BY <2>3 DEF WritesAreDue, Went
  <2> QED  BY <2>1, <2>2, <2>3 DEF RunsTyped
<1>3. KeepsRuns
  BY DEF KeepsRuns, RunsTyped
<1>4. Brings
  BY DEF Brings, RunsTyped
<1> QED  BY <1>1, <1>2, <1>3, <1>4

\* Numbered standings are rows of the table.
LEMMA StandingsAreRows ==
    ASSUME RunsTyped, NEW r \in 1..made, run[r].played # None
    PROVE  Standings(r) \subseteq Rows
<1>1. run[r] \in RunRecords /\ r \in Runs
  BY ArchiveAssumption DEF ArchiveAssumption, RunsTyped, Runs
<1>2. run[r].played \in SUBSET Players
  BY <1>1 DEF RunRecords
<1>3. SUFFICES ASSUME NEW u \in run[r].played
               PROVE  [user |-> u, rank |-> Cardinality({v \in run[r].played : v <= u}),
                       score |-> 1, of |-> r] \in Rows
  BY DEF Standings
<1> DEFINE S == {v \in run[r].played : v <= u}
<1>4. S \in SUBSET Players /\ IsFiniteSet(Players)
  BY <1>2, ArchiveAssumption DEF ArchiveAssumption
<1> HIDE DEF S
<1>5. Cardinality(S) \in Nat
  BY <1>4, FS_Subset, FS_CardinalityType
<1> QED  BY <1>1, <1>2, <1>5 DEF Rows, S

\* The next statement of a transaction: what it has deleted were whole runs.
LEMMA MoveIs ==
    ASSUME RunsTyped, WritesAreDue, RowsWhole,
           NEW p \in Processes, NEW w \in proc[p].inflight, Moves(p, w)
    PROVE  \E m \in Writes :
              /\ Went(p, w, m)
              /\ proc' = [proc EXCEPT ![p].inflight = (@ \ {w}) \cup {m}]
              /\ UNCHANGED <<tables, run, made>> /\ spoilt \subseteq spoilt'
<1>1. /\ w \in Writes /\ w.of \in 1..made /\ w.t = "finished"
      /\ Code(w) \in Codes
  <2>1. w \in Writes /\ w.of \in 1..made
    BY DEF RunsTyped, ProcRecords, WritesAreDue
  <2>2. run[w.of] \in RunRecords
    BY <2>1 DEF RunsTyped
  <2>3. w.t = "finished"
    BY DEF Moves, FinishedUpdates, FinishedDeletes, WritesAreDue
  <2> QED  BY <2>1, <2>2, <2>3 DEF Code, RunRecords
<1>2. results[Code(w)] \in SUBSET Rows
  BY <1>1, StandingsAreRows DEF RowsWhole, WholeRuns
<1>3. ASSUME NEW at \in {"missed", "beside", "locked"}, NEW gone \in {{}, results[Code(w)]}
      PROVE  /\ [w EXCEPT !.at = at, !.gone = gone] \in Writes
             /\ [w EXCEPT !.at = at, !.gone = gone].t = w.t
             /\ [w EXCEPT !.at = at, !.gone = gone].of = w.of
             /\ [w EXCEPT !.at = at, !.gone = gone].at = at
             /\ [w EXCEPT !.at = at, !.gone = gone].gone = gone
  <2>1. at \in Stages /\ gone \in SUBSET Rows
    BY <1>2 DEF Stages
  <2> QED  BY <1>1, <2>1 DEF Writes
<1>4. CASE FinishedDeletes(p, w)
  <2> DEFINE m == [w EXCEPT !.at = "beside", !.gone = results[Code(w)]]
  <2>1. /\ m \in Writes /\ m.t = w.t /\ m.of = w.of /\ m.at = "beside"
        /\ m.gone = results[Code(w)]
    BY <1>3
  <2>2. /\ proc' = [proc EXCEPT ![p].inflight = (@ \ {w}) \cup {m}]
        /\ UNCHANGED <<tables, run, made>> /\ spoilt \subseteq spoilt'
    BY <1>4 DEF FinishedDeletes, Comes
  <2> HIDE DEF m
  <2> QED  BY <1>1, <1>4, <2>1, <2>2 DEF Went
<1>5. CASE FinishedUpdates(p, w) /\ sessions[Code(w)] = None
  <2> DEFINE m == [w EXCEPT !.at = "missed", !.gone = {}]
  <2>1. m \in Writes /\ m.t = w.t /\ m.of = w.of /\ m.at = "missed" /\ m.gone = {}
    BY <1>3
  <2>2. /\ proc' = [proc EXCEPT ![p].inflight = (@ \ {w}) \cup {m}]
        /\ UNCHANGED <<tables, run, made>> /\ spoilt \subseteq spoilt'
    BY <1>5 DEF FinishedUpdates, Comes, Overtakes
  <2> HIDE DEF m
  <2> QED  BY <1>1, <1>5, <2>1, <2>2 DEF Went
<1>6. CASE FinishedUpdates(p, w) /\ sessions[Code(w)] # None
  <2> DEFINE m == [w EXCEPT !.at = "locked", !.gone = results[Code(w)]]
  <2>1. /\ m \in Writes /\ m.t = w.t /\ m.of = w.of /\ m.at = "locked"
        /\ m.gone = results[Code(w)]
    BY <1>3
  <2>2. /\ proc' = [proc EXCEPT ![p].inflight = (@ \ {w}) \cup {m}]
        /\ UNCHANGED <<tables, run, made>> /\ spoilt \subseteq spoilt'
    BY <1>6 DEF FinishedUpdates, Comes, Overtakes
  <2> HIDE DEF m
  <2> QED  BY <1>1, <1>6, <2>1, <2>2 DEF Went
<1> QED  BY <1>4, <1>5, <1>6 DEF Moves

\* A transaction that ends is no longer under way.
LEMMA EndIs ==
    ASSUME NEW p \in Processes, NEW w \in proc[p].inflight, Ends(p, w)
    PROVE  /\ proc' = [proc EXCEPT ![p].inflight = @ \ {w}]
           /\ UNCHANGED <<bank, run, made>>
BY DEF Ends, SessionCreated, FinishedInserts, FinishedRefused, WriteFails, Taken, Failed, tables

LEMMA StepKeeps ==
    ASSUME RunsTyped, WritesAreDue, RowsWhole, ArchiveNext
    PROVE  RunsTyped' /\ WritesAreDue' /\ KeepsRuns /\ Brings
<1> DEFINE Goal == RunsTyped' /\ WritesAreDue' /\ KeepsRuns /\ Brings
<1>1. PICK p \in Processes :
        \/ Boot(p) \/ Shutdown(p) \/ Drain(p) \/ Destroyed(p) \/ Crash(p)
        \/ \E c \in Codes : Create(p, c) \/ Restart(p, c) \/ Finish(p, c) \/ Idle(p, c)
        \/ \E w \in proc[p].inflight : Moves(p, w) \/ Ends(p, w)
  BY DEF ArchiveNext, Moves, Ends
<1>2. /\ bank \in SUBSET Quizzes /\ proc[p] \in ProcRecords
      /\ \A c \in Codes : proc[p].live[c] \in 1..made \cup {None}
  BY DEF RunsTyped
<1>3. ASSUME Boot(p) PROVE Goal
  <2> DEFINE pr == [proc[p] EXCEPT !.is = "serving", !.definitions = Loaded(Seeded(p))]
  <2>1. Seeded(p) \in SUBSET Quizzes /\ Loaded(Seeded(p)) \in SUBSET Quizzes
    BY <1>2 DEF Seeded, Loaded
  <2>2. pr \in ProcRecords /\ pr.live = proc[p].live /\ pr.inflight = proc[p].inflight
    BY <1>2, <2>1 DEF ProcRecords
  <2>3. proc' = [proc EXCEPT ![p] = pr] /\ bank' = Seeded(p) /\ UNCHANGED <<run, made>>
    BY <1>3 DEF Boot
  <2> HIDE DEF pr
  <2> QED  BY <2>1, <2>2, <2>3, SettleKeeps
<1>4. ASSUME Shutdown(p) PROVE Goal
  <2> DEFINE pr == [proc[p] EXCEPT !.is = "closing", !.live = [c \in Codes |-> None]]
  <2>1. /\ pr \in ProcRecords /\ \A c \in Codes : pr.live[c] = None
        /\ pr.inflight = proc[p].inflight
    BY <1>2 DEF ProcRecords
  <2>2. proc' = [proc EXCEPT ![p] = pr] /\ bank' = bank /\ UNCHANGED <<run, made>>
    BY <1>4 DEF Shutdown, tables
  <2> HIDE DEF pr
  <2> QED  BY <1>2, <2>1, <2>2, SettleKeeps
<1>5. ASSUME Drain(p) PROVE Goal
  <2> DEFINE waits == {[t |-> w.t, of |-> w.of] : w \in proc[p].inflight}
  <2> DEFINE pr == [proc[p] EXCEPT !.is = "draining", !.waits = waits]
  <2>1. waits \in SUBSET [t : {"created", "finished"}, of : Runs]
    BY <1>2 DEF ProcRecords, Writes
  <2> HIDE DEF waits
  <2>2. pr \in ProcRecords /\ pr.live = proc[p].live /\ pr.inflight = proc[p].inflight
    BY <1>2, <2>1 DEF ProcRecords
  <2>3. proc' = [proc EXCEPT ![p] = pr] /\ bank' = bank /\ UNCHANGED <<run, made>>
    BY <1>5 DEF Drain, tables, waits
  <2> HIDE DEF pr
  <2> QED  BY <1>2, <2>2, <2>3, SettleKeeps
<1>6. ASSUME Destroyed(p) PROVE Goal
  <2> DEFINE pr == [proc[p] EXCEPT !.is = "down", !.inflight = {}, !.waits = {},
                                   !.live = [c \in Codes |-> None]]
  <2>1. pr \in ProcRecords /\ pr.inflight = {} /\ \A c \in Codes : pr.live[c] = None
    BY <1>2 DEF ProcRecords
  <2>2. proc' = [proc EXCEPT ![p] = pr] /\ bank' = bank /\ UNCHANGED <<run, made>>
    BY <1>6 DEF Destroyed, tables
  <2> HIDE DEF pr
  <2> QED  BY ZenonT(30), <1>2, <2>1, <2>2, SettleKeeps
<1>7. ASSUME Crash(p) PROVE Goal
  <2> DEFINE pr == [proc[p] EXCEPT !.is = "crashed", !.inflight = {},
                                   !.live = [c \in Codes |-> None]]
  <2>1. pr \in ProcRecords /\ pr.inflight = {} /\ \A c \in Codes : pr.live[c] = None
    BY <1>2 DEF ProcRecords
  <2>2. proc' = [proc EXCEPT ![p] = pr] /\ bank' = bank /\ UNCHANGED <<run, made>>
    BY <1>7 DEF Crash, tables
  <2> HIDE DEF pr
  <2> QED  BY ZenonT(30), <1>2, <2>1, <2>2, SettleKeeps
<1>8. ASSUME NEW c \in Codes, Create(p, c) PROVE Goal
  <2>1. PICK q \in proc[p].definitions : Make(p, c, q)
    BY <1>8 DEF Create
  <2>2. q \in Quizzes /\ bank' = bank
    BY <1>2, <1>8 DEF Create, ProcRecords, tables
  <2> QED  BY <2>1, <2>2, MakeKeeps
<1>9. ASSUME NEW c \in Codes, Restart(p, c) PROVE Goal
  <2>1. proc[p].live[c] \in 1..made
    BY <1>2, <1>9 DEF Restart
  <2>2. run[proc[p].live[c]] \in RunRecords
    BY <2>1 DEF RunsTyped
  <2>3. run[proc[p].live[c]].quiz \in Quizzes /\ bank' = bank
    BY <1>9, <2>2 DEF Restart, RunRecords, tables
  <2> QED  BY <1>9, <2>3, MakeKeeps DEF Restart
<1>10. ASSUME NEW c \in Codes, Idle(p, c) PROVE Goal
  <2> DEFINE pr == [proc[p] EXCEPT !.live[c] = None]
  <2>1. /\ pr \in ProcRecords /\ pr.inflight = proc[p].inflight
        /\ \A d \in Codes : pr.live[d] \in {None, proc[p].live[d]}
    BY <1>2 DEF ProcRecords
  <2>2. proc' = [proc EXCEPT ![p] = pr] /\ bank' = bank /\ UNCHANGED <<run, made>>
    BY <1>10 DEF Idle, tables
  <2> HIDE DEF pr
  <2> QED  BY <1>2, <2>1, <2>2, SettleKeeps
<1>11. ASSUME NEW w \in proc[p].inflight, Ends(p, w) PROVE Goal
  <2> DEFINE pr == [proc[p] EXCEPT !.inflight = @ \ {w}]
  <2>1. /\ pr \in ProcRecords /\ pr.inflight = proc[p].inflight \ {w}
        /\ pr.live = proc[p].live
    BY <1>2 DEF ProcRecords
  <2>2. proc' = [proc EXCEPT ![p] = pr] /\ bank' = bank /\ UNCHANGED <<run, made>>
    BY <1>11, EndIs
  <2> HIDE DEF pr
  <2> QED  BY <1>2, <2>1, <2>2, SettleKeeps
<1>12. ASSUME NEW w \in proc[p].inflight, Moves(p, w) PROVE Goal
  <2>1. PICK m \in Writes :
              /\ Went(p, w, m)
              /\ proc' = [proc EXCEPT ![p].inflight = (@ \ {w}) \cup {m}]
              /\ UNCHANGED <<tables, run, made>>
    BY <1>12, MoveIs
  <2> DEFINE pr == [proc[p] EXCEPT !.inflight = (@ \ {w}) \cup {m}]
  <2>2. /\ pr \in ProcRecords /\ pr.inflight = (proc[p].inflight \ {w}) \cup {m}
        /\ pr.live = proc[p].live
    BY <1>2 DEF ProcRecords
  <2>3. proc' = [proc EXCEPT ![p] = pr] /\ bank' = bank /\ UNCHANGED <<run, made>>
    BY <2>1 DEF tables
  <2> HIDE DEF pr
  <2>4. \A v \in pr.inflight :
            v \in proc[p].inflight \/ \E x \in proc[p].inflight : Went(p, x, v)
    BY <2>1, <2>2
  <2> QED  BY <1>2, <2>2, <2>3, <2>4, SettleKeeps
<1> QED
  BY <1>1, <1>3, <1>4, <1>5, <1>6, <1>7, <1>8, <1>9, <1>10, <1>11, <1>12, FinishKeeps

-----------------------------------------------------------------------------
\* The standings of a code change when a transaction commits: emptied for a new run,
\* or those of a run are added to what a DELETE left.
ResultsStep ==
    \/ results' = results
    \/ \E c \in Codes : results' = [results EXCEPT ![c] = {}]
    \/ \E p \in Processes : \E w \in proc[p].inflight :
          /\ w.t = "finished" /\ w.of \in 1..made /\ run[w.of].played # None
          /\ Code(w) \in Codes /\ KeysHold(w)
          /\ results' = [results EXCEPT ![Code(w)] = Left(w) \cup Standings(w.of)]

LEMMA ResultsChange ==
    ASSUME RunsTyped, WritesAreDue, RowsWhole, ArchiveNext
    PROVE  ResultsStep
<1>1. PICK p \in Processes :
        \/ Boot(p) \/ Shutdown(p) \/ Drain(p) \/ Destroyed(p) \/ Crash(p)
        \/ \E c \in Codes : Create(p, c) \/ Restart(p, c) \/ Finish(p, c) \/ Idle(p, c)
        \/ \E w \in proc[p].inflight : Moves(p, w) \/ Ends(p, w)
  BY DEF ArchiveNext, Moves, Ends
<1>2. CASE \/ Boot(p) \/ Shutdown(p) \/ Drain(p) \/ Destroyed(p) \/ Crash(p)
           \/ \E c \in Codes : Create(p, c) \/ Restart(p, c) \/ Finish(p, c) \/ Idle(p, c)
  BY <1>2 DEF ResultsStep, Boot, Shutdown, Drain, Destroyed, Crash, Create, Restart, Finish,
              Idle, tables
<1>3. ASSUME NEW w \in proc[p].inflight, Moves(p, w) \/ Ends(p, w)
      PROVE  ResultsStep
  <2>1. /\ w.of \in 1..made
        /\ w.t = "finished" => run[w.of].played # None
        /\ w.at # "due" => w.t = "finished"
    BY DEF WritesAreDue
  <2>2. run[w.of] \in RunRecords
    BY <2>1 DEF RunsTyped
  <2>3. Code(w) \in Codes
    BY <2>2 DEF Code, RunRecords
  <2>4. CASE Moves(p, w)
    BY <2>4 DEF Moves, FinishedUpdates, FinishedDeletes, tables, ResultsStep
  <2>5. CASE SessionCreated(p, w)
    BY <2>3, <2>5 DEF SessionCreated, ResultsStep
  <2>6. CASE FinishedRefused(p, w) \/ WriteFails(p, w)
    BY <2>6 DEF FinishedRefused, WriteFails, Failed, tables, ResultsStep
  <2>7. CASE FinishedInserts(p, w)
    BY <2>1, <2>3, <2>7 DEF FinishedInserts, ResultsStep
  <2> QED  BY <1>3, <2>4, <2>5, <2>6, <2>7 DEF Ends
<1> QED  BY <1>1, <1>2, <1>3

\* The standings of a finished run are what they were.
LEMMA StandingsKept ==
    ASSUME NEW r, run'[r] = run[r]
    PROVE  Standings(r)' = Standings(r)
BY DEF Standings

\* A row is one player's, of the run.
LEMMA StandingsAre ==
    ASSUME NEW r
    PROVE  /\ \A row \in Standings(r) : row.of = r /\ row.user \in run[r].played
           /\ \A row, other \in Standings(r) : other.user = row.user => other = row
<1> DEFINE rank(u) == Cardinality({v \in run[r].played : v <= u})
<1> DEFINE row(u) == [user |-> u, rank |-> rank(u), score |-> 1, of |-> r]
<1>1. Standings(r) = {row(u) : u \in run[r].played}
  BY DEF Standings
<1> HIDE DEF rank
<1>2. \A u : row(u).of = r /\ row(u).user = u
  OBVIOUS
<1> HIDE DEF row
<1> QED  BY <1>1, <1>2

LEMMA StandingsOfNobody == \A r : run[r].played = {} => Standings(r) = {}
BY DEF Standings

\* Whole runs stay whole,
LEMMA WholeKept ==
    ASSUME KeepsRuns, made \in Nat, NEW G, WholeRuns(G)
    PROVE  WholeRuns(G)'
<1>1. SUFFICES ASSUME NEW row \in G
               PROVE  /\ row.of \in 1..made' /\ run'[row.of].played # None
                      /\ row \in Standings(row.of)' /\ Standings(row.of)' \subseteq G
  BY DEF WholeRuns
<1>2. /\ row.of \in 1..made /\ run[row.of].played # None
      /\ row \in Standings(row.of) /\ Standings(row.of) \subseteq G
  BY <1>1 DEF WholeRuns
<1>3. run'[row.of] = run[row.of] /\ row.of \in 1..made'
  BY <1>2 DEF KeepsRuns
<1>4. Standings(row.of)' = Standings(row.of)
  BY <1>3, StandingsKept
<1> QED  BY <1>2, <1>3, <1>4

\* and those a DELETE leaves are whole.
LEMMA WholeLeft ==
    ASSUME NEW G, WholeRuns(G), NEW D, WholeRuns(D)
    PROVE  WholeRuns(G \ D)
<1>1. SUFFICES ASSUME NEW row \in G \ D, NEW s \in Standings(row.of) PROVE s \notin D
  BY DEF WholeRuns
<1>2. s.of = row.of
  BY StandingsAre
<1>3. row \in Standings(row.of)
  BY DEF WholeRuns
<1> QED  BY <1>2, <1>3 DEF WholeRuns

LEMMA WholeAdded ==
    ASSUME NEW G, WholeRuns(G), NEW r \in 1..made, run[r].played # None
    PROVE  WholeRuns(G \cup Standings(r))
<1>1. \A row \in Standings(r) : row.of = r
  BY StandingsAre
<1> QED  BY <1>1 DEF WholeRuns

LEMMA RowsStep ==
    ASSUME RunsTyped, WritesAreDue, ResultsByCode, RowsWhole, GoneWhole, ArchiveNext
    PROVE  ResultsByCode' /\ RowsWhole'
<1>1. KeepsRuns /\ ResultsStep /\ made \in Nat
  BY StepKeeps, ResultsChange DEF RunsTyped
<1>2. ResultsByCode'
  BY <1>1 DEF ResultsByCode, ResultsStep
<1>3. ASSUME NEW c \in Codes, NEW G, WholeRuns(G), results'[c] = G,
             \A row \in G :
                 /\ run[row.of].code = c
                 /\ \A other \in G : other.user = row.user => other = row
      PROVE  /\ WholeRuns(results[c])'
             /\ \A row \in results'[c] :
                   /\ run'[row.of].code = c
                   /\ \A other \in results'[c] : other.user = row.user => other = row
  <2>1. WholeRuns(G)'
    BY <1>1, <1>3, WholeKept
  <2>2. \A row \in G : run'[row.of].code = c
    BY <1>1, <1>3 DEF KeepsRuns, WholeRuns
  <2> QED  BY <1>3, <2>1, <2>2 DEF WholeRuns
<1>4. ASSUME NEW c \in Codes
      PROVE  /\ WholeRuns(results[c])'
             /\ \A row \in results'[c] :
                   /\ run'[row.of].code = c
                   /\ \A other \in results'[c] : other.user = row.user => other = row
  <2>1. CASE results'[c] = results[c]
    <3>1. WholeRuns(results[c])
      BY DEF RowsWhole
    <3>2. \A row \in results[c] :
                 /\ run[row.of].code = c
                 /\ \A other \in results[c] : other.user = row.user => other = row
      BY DEF RowsWhole
    <3> QED  BY <1>3, <2>1, <3>1, <3>2
  <2>2. CASE results'[c] = {}
    BY <2>2 DEF WholeRuns
  <2>3. ASSUME NEW p \in Processes, NEW w \in proc[p].inflight, Code(w) = c,
               w.of \in 1..made, run[w.of].played # None, KeysHold(w),
               results'[c] = Left(w) \cup Standings(w.of)
        PROVE  /\ WholeRuns(results[c])'
               /\ \A row \in results'[c] :
                     /\ run'[row.of].code = c
                     /\ \A other \in results'[c] : other.user = row.user => other = row
    <3>1. WholeRuns(Left(w))
      <4>1. WholeRuns(results[c]) /\ WholeRuns(w.gone)
        BY DEF RowsWhole, GoneWhole
      <4> QED  BY <2>3, <4>1, WholeLeft DEF Left
    <3> DEFINE G == Left(w) \cup Standings(w.of)
    <3>2. WholeRuns(G)
      BY <2>3, <3>1, WholeAdded
    <3>3. \A row \in Standings(w.of) : row.of = w.of /\ row.user \in run[w.of].played
      BY StandingsAre
    <3>4. \A row \in Standings(w.of), other \in Standings(w.of) :
              other.user = row.user => other = row
      BY StandingsAre
    <3>5. \A row \in Left(w) : row \in results[c]
      BY <2>3 DEF Left
    <3>6. \A row \in Left(w), other \in Standings(w.of) : other.user # row.user
      BY <2>3, <3>3, StandingsOfNobody DEF KeysHold
    <3>7. \A row \in G : run[row.of].code = c
      BY <2>3, <3>3, <3>5 DEF RowsWhole, Code
    <3>8. \A row \in Left(w), other \in Left(w) : other.user = row.user => other = row
      BY <3>5 DEF RowsWhole
    <3>9. \A row \in G, other \in G : other.user = row.user => other = row
      <4>1. ASSUME NEW row \in G, NEW other \in G, other.user = row.user PROVE other = row
        <5>1. CASE row \in Left(w) /\ other \in Left(w)
          BY <3>8, <4>1, <5>1
        <5>2. CASE row \in Standings(w.of) /\ other \in Standings(w.of)
          BY <3>4, <4>1, <5>2
        <5>3. CASE row \in Left(w) /\ other \in Standings(w.of)
          BY <3>6, <4>1, <5>3
        <5>4. CASE row \in Standings(w.of) /\ other \in Left(w)
          BY <3>6, <4>1, <5>4
        <5> QED  BY <5>1, <5>2, <5>3, <5>4
      <4> QED  BY <4>1
    <3> HIDE DEF G
    <3>10. results'[c] = G
      BY <2>3 DEF G
    <3>11. \A row \in G : /\ run[row.of].code = c
                          /\ \A other \in G : other.user = row.user => other = row
      BY <3>7, <3>9
    <3> QED  BY <1>3, <3>2, <3>10, <3>11
  <2>4. \/ results'[c] = results[c] \/ results'[c] = {}
        \/ \E p \in Processes : \E w \in proc[p].inflight :
              /\ Code(w) = c /\ w.of \in 1..made /\ run[w.of].played # None
              /\ KeysHold(w) /\ results'[c] = Left(w) \cup Standings(w.of)
    BY <1>1 DEF ResultsByCode, ResultsStep
  <2> QED  BY <2>1, <2>2, <2>3, <2>4
<1> QED  BY <1>2, <1>4 DEF RowsWhole

LEMMA GoneStep ==
    ASSUME RunsTyped, WritesAreDue, RowsWhole, GoneWhole, ArchiveNext
    PROVE  GoneWhole'
<1>1. KeepsRuns /\ made \in Nat
  BY StepKeeps DEF RunsTyped
<1>2. SUFFICES ASSUME NEW s \in Processes, NEW v \in proc'[s].inflight PROVE WholeRuns(v.gone)'
  BY DEF GoneWhole
<1>3. WholeRuns(v.gone)
  <2>1. \/ v \in proc[s].inflight \/ v.gone = {}
        \/ \E c \in Codes : v.gone = results[c]
    BY StepKeeps DEF Brings, Went
  <2>2. WholeRuns({})
    BY DEF WholeRuns
  <2> QED  BY <2>1, <2>2 DEF GoneWhole, RowsWhole
<1> QED  BY <1>1, <1>3, WholeKept

-----------------------------------------------------------------------------
ArchiveInv == RunsTyped /\ WritesAreDue /\ ResultsByCode /\ RowsWhole /\ GoneWhole

LEMMA InitArchive == ArchiveInit => ArchiveInv
<1>1. SUFFICES ASSUME ArchiveInit PROVE ArchiveInv
  OBVIOUS
<1>2. \A c \in Codes : results[c] = {}
  BY <1>1 DEF ArchiveInit
<1>3. \A p \in Processes : proc[p].inflight = {}
  BY <1>1 DEF ArchiveInit
<1> QED  BY <1>1, <1>2, <1>3, InitRuns DEF ArchiveInv, RowsWhole, GoneWhole, WholeRuns

LEMMA ArchiveInductive == ArchiveInv /\ [ArchiveNext]_archiveVars => ArchiveInv'
<1>1. SUFFICES ASSUME ArchiveInv, [ArchiveNext]_archiveVars PROVE ArchiveInv'
  OBVIOUS
<1>2. CASE ArchiveNext
  BY <1>1, <1>2, StepKeeps, RowsStep, GoneStep DEF ArchiveInv
<1>3. CASE UNCHANGED archiveVars
  <2>1. UNCHANGED <<bank, results, proc, run, made>>
    BY <1>3 DEF archiveVars, tables
  <2>2. RunsTyped' /\ WritesAreDue' /\ ResultsByCode'
    BY <1>1, <2>1 DEF ArchiveInv, RunsTyped, WritesAreDue, ResultsByCode
  <2>3. \A r : Standings(r)' = Standings(r)
    BY <2>1, StandingsKept
  <2>4. \A G : WholeRuns(G)' <=> WholeRuns(G)
    BY <2>1, <2>3 DEF WholeRuns
  <2>5. RowsWhole' /\ GoneWhole'
    BY <1>1, <2>1, <2>4 DEF ArchiveInv, RowsWhole, GoneWhole
  <2> QED  BY <2>2, <2>5 DEF ArchiveInv
<1> QED  BY <1>1, <1>2, <1>3

\* A run that is made keeps its code and its quiz, and one that is finished keeps
\* its standings (quiz-actor.ts, onQuizFinished once per run): the archive writes
\* that are still under way cannot go stale.
THEOREM RunsAreKept == ArchiveSpec => [][KeepsRuns]_archiveVars
<1>1. ArchiveInv /\ [ArchiveNext]_archiveVars => [KeepsRuns]_archiveVars
  BY StepKeeps DEF ArchiveInv
<1> QED  BY <1>1, InitArchive, ArchiveInductive, PTL DEF ArchiveSpec

-----------------------------------------------------------------------------
\* The tables: foreign keys, and rows of players with a rank among them.
ResultRows == [user : Players, rank : 1..Cardinality(Players), score : {1}, of : 1..made]
TablesTyped ==
    /\ sessions \in [Codes -> SessionRows \cup {None}]
    /\ \A c \in Codes :
          /\ sessions[c] # None => sessions[c].quiz \in bank
          /\ \A row \in results[c] : row \in ResultRows
          /\ results[c] # {} => sessions[c] # None

\* A row that is locked is there: no transaction deletes sessions.
LockedThere ==
    \A p \in Processes : \A w \in proc[p].inflight : w.at = "locked" => sessions[Code(w)] # None

LEMMA StandingsTyped ==
    ASSUME RunsTyped, NEW r \in 1..made, run[r].played # None
    PROVE  Standings(r) \subseteq ResultRows
<1>1. run[r] \in RunRecords
  BY DEF RunsTyped
<1>2. run[r].played \in SUBSET Players
  BY <1>1 DEF RunRecords
<1>3. SUFFICES ASSUME NEW u \in run[r].played
               PROVE  [user |-> u, rank |-> Cardinality({v \in run[r].played : v <= u}),
                       score |-> 1, of |-> r] \in ResultRows
  BY DEF Standings
<1> DEFINE S == {v \in run[r].played : v <= u}
<1>4. S \in SUBSET Players /\ u \in S /\ IsFiniteSet(Players)
  <2>1. Players \subseteq Int /\ IsFiniteSet(Players)
    BY ArchiveAssumption DEF ArchiveAssumption
  <2>2. u \in Int
    BY <1>2, <1>3, <2>1, Zenon
  <2>3. u <= u
    BY <2>2
  <2>4. u \in S
    BY <1>3, <2>3
  <2> QED  BY <1>2, <2>1, <2>4
<1> HIDE DEF S
<1>5. IsFiniteSet(S) /\ Cardinality(S) <= Cardinality(Players)
  BY <1>4, FS_Subset
<1>6. Cardinality(S) \in Nat /\ Cardinality(Players) \in Nat /\ Cardinality(S) # 0
  BY <1>4, <1>5, FS_CardinalityType, FS_EmptySet
<1>7. Cardinality(S) \in 1..Cardinality(Players)
  BY <1>5, <1>6
<1>8. u \in Players
  BY <1>2, <1>3
<1> QED  BY <1>7, <1>8 DEF ResultRows, S

LEMMA TablesStep ==
    ASSUME RunsTyped, WritesAreDue, ResultsByCode, RowsWhole, TablesTyped, LockedThere,
           ArchiveNext
    PROVE  TablesTyped' /\ \A c \in Codes : sessions[c] # None => sessions'[c] # None
<1> DEFINE Kept == \A c \in Codes : sessions[c] # None => sessions'[c] # None
<1> DEFINE Goal == TablesTyped' /\ Kept
<1>1. PICK p \in Processes :
        \/ Boot(p) \/ Shutdown(p) \/ Drain(p) \/ Destroyed(p) \/ Crash(p)
        \/ \E c \in Codes : Create(p, c) \/ Restart(p, c) \/ Finish(p, c) \/ Idle(p, c)
        \/ \E w \in proc[p].inflight : Moves(p, w) \/ Ends(p, w)
  BY DEF ArchiveNext, Moves, Ends
<1>2. made' \in Nat /\ made <= made' /\ made \in Nat /\ bank \in SUBSET Quizzes
  BY StepKeeps DEF KeepsRuns, RunsTyped
<1>3. \A row \in ResultRows : row \in ResultRows'
  BY <1>2 DEF ResultRows
\* The rows stay where they are, or the bank is seeded.
<1>4. ASSUME UNCHANGED <<sessions, results>>, bank \subseteq bank' PROVE Goal
  <2>1. ASSUME NEW c \in Codes
        PROVE  /\ sessions[c] # None => sessions[c].quiz \in bank'
               /\ \A row \in results[c] : row \in ResultRows'
               /\ results[c] # {} => sessions[c] # None
    BY <1>3, <1>4 DEF TablesTyped
  <2> QED  BY <1>4, <2>1 DEF TablesTyped
<1>5. CASE \/ Shutdown(p) \/ Drain(p) \/ Destroyed(p) \/ Crash(p)
           \/ \E c \in Codes : Create(p, c) \/ Restart(p, c) \/ Finish(p, c) \/ Idle(p, c)
  BY <1>4, <1>5 DEF Shutdown, Drain, Destroyed, Crash, Create, Restart, Finish, Idle, tables
<1>6. CASE Boot(p)
  BY <1>4, <1>6 DEF Boot, Seeded
<1>7. ASSUME NEW w \in proc[p].inflight, Moves(p, w) \/ Ends(p, w) PROVE Goal
  <2>1. /\ w.of \in 1..made
        /\ w.t = "finished" => run[w.of].played # None
        /\ w.at # "due" => w.t = "finished"
    BY DEF WritesAreDue
  <2>2. run[w.of] \in RunRecords
    BY <2>1 DEF RunsTyped
  <2>3. Code(w) \in Codes
    BY <2>2 DEF Code, RunRecords
  <2> DEFINE k == Code(w)
  <2> HIDE DEF k
  <2>4. CASE SessionCreated(p, w)
    <3> DEFINE new == [quiz |-> run[w.of].quiz, status |-> "created"]
    <3>1. new \in SessionRows /\ new.quiz \in bank
      BY <1>2, <2>4 DEF SessionCreated, QuizKnown, SessionRows
    <3>2. /\ sessions' = [sessions EXCEPT ![k] = new] /\ results' = [results EXCEPT ![k] = {}]
          /\ bank' = bank
      BY <2>4 DEF SessionCreated, k
    <3> HIDE DEF new
    <3>3. sessions' \in [Codes -> SessionRows \cup {None}]
      BY <2>3, <3>1, <3>2 DEF TablesTyped, k
    <3>4. ASSUME NEW c \in Codes
          PROVE  /\ sessions'[c] # None => sessions'[c].quiz \in bank'
                 /\ \A row \in results'[c] : row \in ResultRows'
                 /\ results'[c] # {} => sessions'[c] # None
      <4>1. CASE c = k
        BY <3>1, <3>2, <4>1 DEF TablesTyped, ResultsByCode
      <4>2. CASE c # k
        BY <1>3, <3>2, <4>2 DEF TablesTyped, ResultsByCode
      <4> QED  BY <4>1, <4>2
    <3>5. Kept
      BY <3>2, <3>1, ArchiveAssumption DEF ArchiveAssumption, TablesTyped
    <3> QED  BY <3>3, <3>4, <3>5 DEF TablesTyped
  <2>5. CASE Moves(p, w) \/ FinishedRefused(p, w) \/ WriteFails(p, w)
    BY <1>4, <2>5
       DEF Moves, FinishedUpdates, FinishedDeletes, FinishedRefused, WriteFails, Failed, tables
  <2>6. CASE FinishedInserts(p, w)
    <3> DEFINE new == IF w.at = "beside" THEN sessions[k]
                      ELSE [sessions[k] EXCEPT !.status = "finished"]
    <3>1. w.t = "finished" /\ (run[w.of].played = {} \/ sessions[k] # None)
      BY <2>1, <2>6 DEF FinishedInserts, KeysHold, k
    <3>2. w.at # "beside" => sessions[k] # None
      BY <2>6 DEF FinishedInserts, LockedThere, k
    <3>3. sessions[k] \in SessionRows \cup {None} /\ (sessions[k] # None => sessions[k].quiz \in bank)
      BY <2>3 DEF TablesTyped, k
    <3>4. /\ new \in SessionRows \cup {None} /\ (new = None <=> sessions[k] = None)
          /\ new # None => new.quiz \in bank
      <4>1. CASE w.at = "beside"
        BY <3>3, <4>1
      <4>2. CASE w.at # "beside"
        <5>1. sessions[k] \in SessionRows /\ sessions[k].quiz \in bank
          BY <3>2, <3>3, <4>2
        <5>2. [sessions[k] EXCEPT !.status = "finished"] \in SessionRows
              /\ [sessions[k] EXCEPT !.status = "finished"].quiz = sessions[k].quiz
          BY <5>1 DEF SessionRows
        <5> QED  BY <3>2, <4>2, <5>1, <5>2, ArchiveAssumption DEF ArchiveAssumption
      <4> QED  BY <4>1, <4>2
    <3>5. sessions' = [sessions EXCEPT ![k] = new]
      <4>1. sessions \in [Codes -> SessionRows \cup {None}]
        BY DEF TablesTyped
      <4>2. CASE w.at = "beside"
        BY <2>3, <2>6, <4>1, <4>2 DEF FinishedInserts, k
      <4>3. CASE w.at # "beside"
        BY <2>6, <4>3 DEF FinishedInserts, k
      <4> QED  BY <4>2, <4>3
    <3>6. /\ bank' = bank
          /\ results' = [results EXCEPT ![k] = Left(w) \cup Standings(w.of)]
      BY <2>6 DEF FinishedInserts, k
    <3>7. Standings(w.of) \subseteq ResultRows /\ Left(w) \subseteq results[k]
      BY <2>1, <3>1, StandingsTyped DEF Left, k
    <3>8. run[w.of].played = {} => Standings(w.of) = {}
      BY DEF Standings
    <3> HIDE DEF new
    <3>9. sessions' \in [Codes -> SessionRows \cup {None}]
      BY <2>3, <3>4, <3>5 DEF TablesTyped, k
    <3>10. ASSUME NEW c \in Codes
           PROVE  /\ sessions'[c] # None => sessions'[c].quiz \in bank'
                  /\ \A row \in results'[c] : row \in ResultRows'
                  /\ results'[c] # {} => sessions'[c] # None
                  /\ sessions[c] # None => sessions'[c] # None
      <4>1. CASE c = k
        <5>1. sessions'[c] = new /\ results'[c] = Left(w) \cup Standings(w.of)
          BY <3>5, <3>6, <4>1 DEF TablesTyped, ResultsByCode
        <5>2. \A row \in results[c] : row \in ResultRows
          BY DEF TablesTyped
        <5>3. results[c] # {} => sessions[c] # None
          BY DEF TablesTyped
        <5> QED  BY <1>3, <3>1, <3>4, <3>6, <3>7, <3>8, <4>1, <5>1, <5>2, <5>3
      <4>2. CASE c # k
        BY <1>3, <3>5, <3>6, <4>2 DEF TablesTyped, ResultsByCode
      <4> QED  BY <4>1, <4>2
    <3> QED  BY <3>9, <3>10 DEF TablesTyped
  <2> QED  BY <1>7, <2>4, <2>5, <2>6 DEF Ends
<1> QED  BY <1>1, <1>5, <1>6, <1>7

LEMMA LockedStep ==
    ASSUME RunsTyped, WritesAreDue, ResultsByCode, RowsWhole, TablesTyped, LockedThere,
           ArchiveNext
    PROVE  LockedThere'
<1>1. KeepsRuns /\ Brings /\ WritesAreDue' /\ RunsTyped'
  BY StepKeeps
<1>2. \A c \in Codes : sessions[c] # None => sessions'[c] # None
  BY TablesStep
<1>3. SUFFICES ASSUME NEW q \in Processes, NEW v \in proc'[q].inflight, v.at = "locked"
               PROVE  sessions'[Code(v)'] # None
  BY DEF LockedThere
<1>4. v.of \in 1..made /\ sessions[Code(v)] # None
  BY <1>1, <1>3 DEF Brings, Went, Code, WritesAreDue, LockedThere
<1>5. run[v.of] \in RunRecords
  BY <1>4 DEF RunsTyped
<1>6. Code(v)' = Code(v) /\ Code(v) \in Codes
  BY <1>1, <1>4, <1>5 DEF KeepsRuns, Code, RunRecords
<1> QED  BY <1>2, <1>4, <1>6

\* Types of the tables and processes with the foreign keys of the schema
\* (migrations/0001_initial.ts): no write, however late, leaves standings without
\* their session or a session without its quiz.
THEOREM ArchiveTypeCorrect == ArchiveSpec => []ArchiveTypeOK
<1> DEFINE Inv == ArchiveInv /\ TablesTyped /\ LockedThere
<1>1. ArchiveInit => Inv
  BY InitArchive DEF ArchiveInit, TablesTyped, LockedThere
<1>2. Inv /\ [ArchiveNext]_archiveVars => Inv'
  <2>1. SUFFICES ASSUME Inv, [ArchiveNext]_archiveVars PROVE TablesTyped' /\ LockedThere'
    BY ArchiveInductive
  <2>2. CASE ArchiveNext
    BY <2>1, <2>2, TablesStep, LockedStep DEF ArchiveInv
  <2>3. CASE UNCHANGED archiveVars
    BY <2>1, <2>3 DEF archiveVars, tables, TablesTyped, ResultRows, LockedThere, Code
  <2> QED  BY <2>1, <2>2, <2>3
<1>3. Inv => ArchiveTypeOK
  <2>1. SUFFICES ASSUME Inv PROVE ArchiveTypeOK
    OBVIOUS
  <2>2. bank \subseteq Quizzes
    BY <2>1 DEF ArchiveInv, RunsTyped
  <2>3. ASSUME NEW p \in Processes
        PROVE  /\ proc[p].is \in {"down", "serving", "closing", "draining", "crashed"}
               /\ proc[p].definitions \subseteq Quizzes
               /\ proc[p].live \in [Codes -> 1..made \cup {None}]
               /\ proc[p].inflight \subseteq Writes
    <3>1. proc[p] \in ProcRecords /\ \A c \in Codes : proc[p].live[c] \in 1..made \cup {None}
      BY <2>1 DEF ArchiveInv, RunsTyped
    <3> QED  BY <3>1 DEF ProcRecords
  <2> QED  BY <2>1, <2>2, <2>3 DEF ArchiveTypeOK, TablesTyped, ResultRows
<1> QED  BY <1>1, <1>2, <1>3, PTL DEF ArchiveSpec

-----------------------------------------------------------------------------
(***************************************************************************)
(* ArchiveCurrent.  It is not inductive either: while writes are under way *)
(* it says nothing.  As long as no write of a code fails, is lost or       *)
(* overtakes another, those that are done are the first of all that were   *)
(* due, and the tables show the last of them.                              *)
(***************************************************************************)

\* A write as it was persisted, however far its transaction has come.
Key(w) == [t |-> w.t, of |-> w.of, at |-> "due", gone |-> {}]
UnderWay(c) == {Key(w) : w \in InFlight(c)}

Due(c) ==
    {w \in Writes : /\ w.of \in 1..made /\ run[w.of].code = c /\ w = Key(w)
                    /\ w.t = "finished" => run[w.of].played # None}

Written(w) ==
    /\ sessions[Code(w)] = [quiz |-> run[w.of].quiz, status |-> w.t]
    /\ results[Code(w)] = IF w.t = "finished" THEN Standings(w.of) ELSE {}

InTurn(c) ==
    /\ UnderWay(c) \subseteq Due(c)
    /\ \A w \in UnderWay(c), v \in Due(c) : Before(w, v) => v \in UnderWay(c)
    /\ \A w \in Due(c) \ UnderWay(c) :
          (\A v \in Due(c) : Before(w, v) => v \in UnderWay(c)) => Written(w)

\* A write is under way in one process, once.
Unshared(c) ==
    \A p, q \in Processes : \A w \in proc[p].inflight, v \in proc[q].inflight :
        Code(w) = c /\ Key(v) = Key(w) => p = q /\ v = w

\* No write has missed its row, and what one of them has locked and deleted nobody
\* changes; so the rows are those of one run.
LocksHold(c) ==
    \A w \in InFlight(c) :
        /\ w.at \in {"due", "locked"}
        /\ w.at = "locked" => /\ w.gone = results[c]
                              /\ \A v \in InFlight(c) : v.at = "locked" => v = w
OneRun(c) == \A row, other \in results[c] : other.of = row.of

LatestIs(c, r) ==
    /\ r \in 1..made /\ run[r].code = c
    /\ \A k \in 1..made : run[k].code = c => k <= r

\* The run in a registry is the latest of its code, and in that registry alone.
LiveIsLatest ==
    /\ \A p, q \in Processes, c \in Codes, r \in Runs : proc[p].live[c] = r =>
          LatestIs(c, r) /\ (proc[q].live[c] # None => p = q)
    /\ \A k \in 1..made, c \in Codes : run[k].code = c => \E r \in 1..made : LatestIs(c, r)

\* Nothing is persisted after allSettled has been called.
DrainsAll ==
    \A p \in Processes : proc[p].is = "draining" =>
        \A w \in proc[p].inflight : [t |-> w.t, of |-> w.of] \in proc[p].waits

-----------------------------------------------------------------------------
LEMMA WriteIs ==
    ASSUME NEW w \in Writes
    PROVE  /\ w.t \in {"created", "finished"} /\ w.of \in Int
           /\ w = [t |-> w.t, of |-> w.of, at |-> w.at, gone |-> w.gone]
           /\ Key(w) \in Writes /\ Key(w).t = w.t /\ Key(w).of = w.of /\ Key(Key(w)) = Key(w)
           /\ Code(Key(w)) = Code(w) /\ (w = Key(w) <=> w.at = "due" /\ w.gone = {})
<1>1. "due" \in Stages /\ {} \in SUBSET Rows
  BY DEF Stages
<1>2. /\ w.t \in {"created", "finished"} /\ w.of \in Int /\ w.of \in Runs
      /\ w = [t |-> w.t, of |-> w.of, at |-> w.at, gone |-> w.gone]
  BY DEF Writes, Runs
<1>3. Key(w) \in Writes
  BY <1>1, <1>2 DEF Key, Writes
<1>4. Key(w).t = w.t /\ Key(w).of = w.of
  BY DEF Key
<1>5. w = Key(w) <=> w.at = "due" /\ w.gone = {}
  BY <1>2 DEF Key
<1>6. Key(Key(w)) = Key(w) /\ Code(Key(w)) = Code(w)
  BY <1>4 DEF Key, Code
<1> QED  BY <1>2, <1>3, <1>4, <1>5, <1>6

LEMMA KeysBefore ==
    ASSUME NEW v, NEW w
    PROVE  /\ Before(Key(v), w) <=> Before(v, w)
           /\ Before(w, Key(v)) <=> Before(w, v)
<1>1. Key(v).t = v.t /\ Key(v).of = v.of
  BY DEF Key
<1> QED  BY <1>1 DEF Before

\* Before is a strict order, and total on writes as they were persisted.
LEMMA BeforeIsStrict ==
    ASSUME NEW v \in Writes, NEW w \in Writes
    PROVE  ~(Before(v, w) /\ Before(w, v))
<1>1. v.of \in Int /\ w.of \in Int
  BY WriteIs
<1> QED  BY <1>1 DEF Before

LEMMA BeforeIsTotal ==
    ASSUME NEW v \in Writes, NEW w \in Writes, v = Key(v), w = Key(w), v # w
    PROVE  Before(v, w) \/ Before(w, v)
<1>1. SUFFICES ASSUME v.of = w.of PROVE Before(v, w) \/ Before(w, v)
  BY WriteIs DEF Before
<1>2. v.t # w.t
  BY <1>1 DEF Key
<1> QED  BY <1>1, <1>2, WriteIs DEF Before

\* The writes under way are known runs'.
LEMMA InFlightIs ==
    ASSUME RunsTyped, WritesAreDue, NEW p \in Processes, NEW w \in proc[p].inflight
    PROVE  /\ w \in Writes /\ w.of \in 1..made /\ Code(w) \in Codes
           /\ w \in InFlight(Code(w)) /\ Key(w) \in UnderWay(Code(w))
           /\ w.t = "finished" => run[w.of].played # None
           /\ Key(w) \in Due(Code(w))
<1>1. proc[p] \in ProcRecords
  BY DEF RunsTyped
<1>2. w \in Writes
  BY <1>1 DEF ProcRecords
<1>3. w.of \in 1..made /\ (w.t = "finished" => run[w.of].played # None)
  BY DEF WritesAreDue
<1>4. run[w.of] \in RunRecords
  BY <1>3 DEF RunsTyped
<1>5. Code(w) \in Codes
  BY <1>4 DEF Code, RunRecords
<1>6. w \in InFlight(Code(w)) /\ Key(w) \in UnderWay(Code(w))
  BY DEF InFlight, UnderWay
<1>7. Key(w) \in Due(Code(w))
  BY <1>2, <1>3, WriteIs DEF Due, Code
<1> QED  BY <1>2, <1>3, <1>5, <1>6, <1>7

\* What is written stays written while the rows do.
LEMMA WrittenKept ==
    ASSUME RunsTyped, KeepsRuns, NEW c, NEW w \in Due(c), Written(w),
           sessions'[c] = sessions[c], results'[c] = results[c]
    PROVE  Written(w)'
<1>1. w.of \in 1..made /\ run[w.of].code = c /\ (w.t = "finished" => run[w.of].played # None)
  BY DEF Due
<1>2. run'[w.of].code = c /\ run'[w.of].quiz = run[w.of].quiz
  BY <1>1 DEF KeepsRuns
<1>3. w.t = "finished" => Standings(w.of)' = Standings(w.of)
  BY <1>1, StandingsKept DEF KeepsRuns
<1> QED  BY <1>1, <1>2, <1>3 DEF Written, Code

\* A step that adds at most one write of the code, after all others, and leaves its
\* rows alone.
LEMMA AddedInTurn ==
    ASSUME RunsTyped, KeepsRuns, NEW c, InTurn(c), NEW N \in SUBSET Writes,
           Due(c)' = Due(c) \cup N, UnderWay(c)' = UnderWay(c) \cup N,
           \A n \in N : n \notin Due(c) /\ \A v \in Due(c) : Before(v, n),
           \A n, m \in N : n = m,
           sessions'[c] = sessions[c], results'[c] = results[c]
    PROVE  InTurn(c)'
<1>1. UnderWay(c)' \subseteq Due(c)'
  BY DEF InTurn
<1>2. ASSUME NEW w \in UnderWay(c)', NEW v \in Due(c)', Before(w, v)
      PROVE  v \in UnderWay(c)'
  <2>1. Due(c) \subseteq Writes
    BY DEF Due
  <2>2. CASE v \in N
    BY <2>2
  <2>3. CASE v \in Due(c) /\ w \in N
    BY <1>2, <2>1, <2>3, BeforeIsStrict
  <2>4. CASE v \in Due(c) /\ w \in UnderWay(c)
    BY <1>2, <2>4 DEF InTurn
  <2> QED  BY <2>2, <2>3, <2>4
<1>3. ASSUME NEW w \in Due(c)' \ UnderWay(c)',
             \A v \in Due(c)' : Before(w, v) => v \in UnderWay(c)'
      PROVE  Written(w)'
  <2>1. w \in Due(c) \ UnderWay(c)
    OBVIOUS
  <2>2. \A v \in Due(c) : Before(w, v) => v \in UnderWay(c)
    BY <1>3
  <2>3. Written(w)
    BY <2>1, <2>2 DEF InTurn
  <2> QED  BY <2>1, <2>3, WrittenKept
<1> QED  BY <1>1, <1>2, <1>3 DEF InTurn

\* The first of the writes under way is taken.
LEMMA TakenInTurn ==
    ASSUME NEW c, InTurn(c), NEW w \in UnderWay(c),
           \A v \in UnderWay(c) : ~Before(v, w),
           Due(c)' = Due(c), UnderWay(c)' = UnderWay(c) \ {w}, Written(w)'
    PROVE  InTurn(c)'
<1>1. UnderWay(c)' \subseteq Due(c)' /\ w \in Due(c) /\ Due(c) \subseteq Writes
  BY DEF InTurn, Due
<1>2. ASSUME NEW u \in UnderWay(c)', NEW v \in Due(c)', Before(u, v)
      PROVE  v \in UnderWay(c)'
  <2>1. v \in UnderWay(c)
    BY <1>2 DEF InTurn
  <2> QED  BY <1>2, <2>1
<1>3. ASSUME NEW x \in Due(c)' \ UnderWay(c)',
             \A v \in Due(c)' : Before(x, v) => v \in UnderWay(c)'
      PROVE  Written(x)'
  <2>1. SUFFICES ASSUME x # w PROVE FALSE
    OBVIOUS
  <2>2. ~Before(x, w)
    BY <1>1, <1>3
  <2>3. x \in Writes /\ w \in Writes /\ x = Key(x) /\ w = Key(w) /\ x \in Due(c)
    BY <1>1 DEF Due
  <2>4. Before(w, x)
    BY <2>1, <2>2, <2>3, BeforeIsTotal
  <2>5. x \in UnderWay(c)
    BY <2>3, <2>4 DEF InTurn
  <2> QED  BY <2>1, <2>5
<1> QED  BY <1>1, <1>2, <1>3 DEF InTurn

\* A finished write whose turn it is finds the row of its run.
LEMMA RowIsThere ==
    ASSUME RunsTyped, NEW c, InTurn(c), NEW w \in UnderWay(c), w.t = "finished",
           \A v \in UnderWay(c) : ~Before(v, w)
    PROVE  sessions[c] # None /\ sessions[c].quiz = run[w.of].quiz
<1> DEFINE x == [t |-> "created", of |-> w.of, at |-> "due", gone |-> {}]
<1>1. w \in Due(c) /\ w \in Writes /\ w = Key(w) /\ Due(c) \subseteq Writes
  BY DEF InTurn, Due
<1>2. x \in Due(c) /\ x.of = w.of /\ x.t = "created" /\ x # w
  <2>1. "due" \in Stages /\ {} \in SUBSET Rows /\ w.of \in Runs
    BY <1>1 DEF Stages, Writes
  <2>2. x \in Writes /\ x.of = w.of /\ x.t = "created" /\ x = Key(x)
    BY <2>1 DEF Writes, Key
  <2> HIDE DEF x
  <2> QED  BY <1>1, <2>2 DEF Due
<1> HIDE DEF x
<1>3. Before(x, w)
  BY <1>1, <1>2 DEF Before
<1>4. x \notin UnderWay(c)
  BY <1>3
<1>5. ASSUME NEW v \in Due(c), Before(x, v) PROVE v \in UnderWay(c)
  <2>1. SUFFICES ASSUME v # w PROVE Before(w, v)
    BY <1>1 DEF InTurn
  <2>2. v \in Writes /\ v = Key(v)
    BY DEF Due
  <2>3. v.of \in Int /\ w.of \in Int /\ v.t \in {"created", "finished"}
    BY <1>1, <2>2, WriteIs
  <2>4. v.of # w.of
    BY <1>1, <1>2, <1>5, <2>1, <2>2, <2>3 DEF Before, Key
  <2> QED  BY <1>2, <1>5, <2>3, <2>4 DEF Before
<1>6. Written(x)
  BY <1>2, <1>4, <1>5 DEF InTurn
<1>7. Code(x) = c /\ run[x.of] \in RunRecords
  BY <1>2 DEF Due, Code, RunsTyped
<1>8. [quiz |-> run[x.of].quiz, status |-> x.t] \in SessionRows
  BY <1>2, <1>7 DEF RunRecords, SessionRows
<1>9. sessions[c] = [quiz |-> run[x.of].quiz, status |-> x.t]
  BY <1>6, <1>7 DEF Written
<1>10. sessions[c] # None
  BY <1>8, <1>9, ArchiveAssumption DEF ArchiveAssumption
<1> QED  BY <1>2, <1>9, <1>10

-----------------------------------------------------------------------------
\* What is under way of a code changes only with the writes of that code in the one
\* process that takes the step.
Of(c, W) == {w \in W : Code(w) = c}

LEMMA SameUnderWay ==
    ASSUME RunsTyped, UNCHANGED <<run, made>>, NEW c, Unshared(c),
           NEW p \in Processes, NEW pr \in ProcRecords, proc' = [proc EXCEPT ![p] = pr],
           Of(c, pr.inflight) = Of(c, proc[p].inflight)
    PROVE  Due(c)' = Due(c) /\ UnderWay(c)' = UnderWay(c) /\ Unshared(c)'
<1>1. \A w : Code(w)' = Code(w) /\ Key(w)' = Key(w)
  BY DEF Code, Key
<1>2. Due(c)' = Due(c)
  BY DEF Due, Key
<1>3. \A s \in Processes : \A w :
          Code(w) = c => (w \in proc'[s].inflight <=> w \in proc[s].inflight)
  BY DEF RunsTyped, Of
<1>4. InFlight(c)' = InFlight(c)
  BY <1>1, <1>3 DEF InFlight
<1>5. Unshared(c)'
  <2>1. SUFFICES ASSUME NEW s \in Processes, NEW q \in Processes, NEW w \in proc'[s].inflight,
                        NEW v \in proc'[q].inflight, Code(w) = c, Key(v) = Key(w)
                 PROVE  s = q /\ v = w
    BY <1>1 DEF Unshared
  <2>2. Code(v) = c
    BY <2>1 DEF Key, Code
  <2> QED  BY <1>3, <2>1, <2>2 DEF Unshared
<1> QED  BY <1>2, <1>4, <1>5 DEF UnderWay

\* A write of the code is taken.
LEMMA OneTaken ==
    ASSUME RunsTyped, UNCHANGED <<run, made>>, NEW c, Unshared(c),
           NEW p \in Processes, NEW w \in proc[p].inflight, Code(w) = c,
           NEW pr \in ProcRecords, proc' = [proc EXCEPT ![p] = pr],
           pr.inflight = proc[p].inflight \ {w}
    PROVE  Due(c)' = Due(c) /\ UnderWay(c)' = UnderWay(c) \ {Key(w)} /\ Unshared(c)'
<1>1. \A v : Code(v)' = Code(v) /\ Key(v)' = Key(v)
  BY DEF Code, Key
<1>2. Due(c)' = Due(c)
  BY DEF Due, Key
<1>3. \A s \in Processes : \A v : Code(v) = c =>
          (v \in proc'[s].inflight <=> v \in proc[s].inflight /\ v # w)
  <2>1. SUFFICES ASSUME NEW s \in Processes, NEW v, Code(v) = c
                 PROVE  v \in proc'[s].inflight <=> v \in proc[s].inflight /\ v # w
    OBVIOUS
  <2>2. CASE s = p
    BY <2>2 DEF RunsTyped
  <2>3. CASE s # p
    BY <2>3 DEF RunsTyped, Unshared
  <2> QED  BY <2>2, <2>3
<1>4. InFlight(c)' = InFlight(c) \ {w}
  BY <1>1, <1>3 DEF InFlight
<1>5. \A v \in InFlight(c) : Key(v) = Key(w) => v = w
  BY DEF InFlight, Unshared
<1>6. UnderWay(c)' = UnderWay(c) \ {Key(w)}
  BY <1>1, <1>4, <1>5 DEF UnderWay
<1>7. Unshared(c)'
  <2>1. SUFFICES ASSUME NEW s \in Processes, NEW q \in Processes, NEW u \in proc'[s].inflight,
                        NEW v \in proc'[q].inflight, Code(u) = c, Key(v) = Key(u)
                 PROVE  s = q /\ v = u
    BY <1>1 DEF Unshared
  <2>2. Code(v) = c
    BY <2>1 DEF Key, Code
  <2> QED  BY <1>3, <2>1, <2>2 DEF Unshared
<1> QED  BY <1>2, <1>6, <1>7

\* A write of the code goes on.
LEMMA OneMoved ==
    ASSUME RunsTyped, UNCHANGED <<run, made>>, NEW c, Unshared(c),
           NEW p \in Processes, NEW w \in proc[p].inflight, Code(w) = c, NEW m, Key(m) = Key(w),
           NEW pr \in ProcRecords, proc' = [proc EXCEPT ![p] = pr],
           pr.inflight = (proc[p].inflight \ {w}) \cup {m}
    PROVE  Due(c)' = Due(c) /\ UnderWay(c)' = UnderWay(c) /\ Unshared(c)'
<1>1. \A v : Code(v)' = Code(v) /\ Key(v)' = Key(v)
  BY DEF Code, Key
<1>2. Due(c)' = Due(c)
  BY DEF Due, Key
<1>3. Code(m) = c
  BY DEF Key, Code
<1>4. /\ proc'[p].inflight = (proc[p].inflight \ {w}) \cup {m}
      /\ \A s \in Processes : s # p => proc'[s] = proc[s]
  BY DEF RunsTyped
<1>5. \A v : v \in InFlight(c)' <=> \E s \in Processes : v \in proc'[s].inflight /\ Code(v) = c
  BY <1>1 DEF InFlight
<1>6. \A v : v \in InFlight(c) <=> \E s \in Processes : v \in proc[s].inflight /\ Code(v) = c
  BY DEF InFlight
<1>7. ASSUME NEW k PROVE k \in UnderWay(c)' <=> k \in UnderWay(c)
  <2>1. ASSUME NEW v \in InFlight(c)' PROVE Key(v) \in UnderWay(c)
    <3>1. CASE v = m
      BY <3>1, <1>6 DEF UnderWay
    <3>2. CASE v # m
      BY <3>2, <1>4, <1>5, <1>6 DEF UnderWay
    <3> QED  BY <3>1, <3>2
  <2>2. ASSUME NEW v \in InFlight(c) PROVE \E u \in InFlight(c)' : Key(u) = Key(v)
    <3>1. CASE v = w
      BY <3>1, <1>3, <1>4, <1>5
    <3>2. CASE v # w
      BY <3>2, <1>4, <1>5, <1>6
    <3> QED  BY <3>1, <3>2
  <2>3. UnderWay(c)' = {Key(v) : v \in InFlight(c)'}
    BY <1>1 DEF UnderWay
  <2> QED  BY <2>1, <2>2, <2>3 DEF UnderWay
<1>8. Unshared(c)'
  <2>1. SUFFICES ASSUME NEW s \in Processes, NEW q \in Processes, NEW u \in proc'[s].inflight,
                        NEW v \in proc'[q].inflight, Code(u) = c, Key(v) = Key(u)
                 PROVE  s = q /\ v = u
    BY <1>1 DEF Unshared
  <2>2. Code(v) = c
    BY <2>1 DEF Key, Code
  <2>3. ASSUME NEW x \in Processes, NEW y \in proc'[x].inflight
        PROVE  (y = m /\ x = p) \/ (y \in proc[x].inflight /\ (x = p => y # w))
    BY <1>4
  <2>4. CASE u = m /\ s = p
    <3>1. CASE v = m /\ q = p
      BY <2>4, <3>1
    <3>2. CASE v \in proc[q].inflight /\ (q = p => v # w)
      BY <2>1, <2>2, <2>4, <3>2 DEF Unshared
    <3> QED  BY <2>3, <3>1, <3>2
  <2>5. CASE u \in proc[s].inflight /\ (s = p => u # w)
    <3>1. CASE v = m /\ q = p
      BY <2>1, <2>5, <3>1 DEF Unshared
    <3>2. CASE v \in proc[q].inflight
      BY <2>1, <2>5, <3>2 DEF Unshared
    <3> QED  BY <2>3, <3>1, <3>2
  <2> QED  BY <2>3, <2>4, <2>5
<1> QED  BY <1>2, <1>7, <1>8

\* persist adds a write that nobody has made before.
LEMMA OnePersisted ==
    ASSUME RunsTyped, WritesAreDue, KeepsRuns, NEW c, Unshared(c),
           NEW p \in Processes, NEW n \in Writes, n = Key(n),
           \A s \in Processes : proc'[s].inflight =
               IF s = p THEN proc[s].inflight \cup {n} ELSE proc[s].inflight,
           \A s \in Processes : \A w \in proc[s].inflight : Key(w) # n
    PROVE  /\ UnderWay(c)' = UnderWay(c) \cup (IF Code(n)' = c THEN {n} ELSE {})
           /\ Unshared(c)'
<1>1. \A s \in Processes : \A w \in proc[s].inflight : w.of \in 1..made
  BY DEF WritesAreDue
<1>2. /\ \A s \in Processes : \A w \in proc[s].inflight : Code(w)' = Code(w)
      /\ \A w : Key(w)' = Key(w)
  BY <1>1 DEF KeepsRuns, Code, Key
<1>3. \A w : w \in InFlight(c)' <=> \E s \in Processes : w \in proc'[s].inflight /\ Code(w)' = c
  BY DEF InFlight
<1>4. \A w : w \in InFlight(c) <=> \E s \in Processes : w \in proc[s].inflight /\ Code(w) = c
  BY DEF InFlight
<1>5. InFlight(c)' = InFlight(c) \cup (IF Code(n)' = c THEN {n} ELSE {})
  <2>1. ASSUME NEW w PROVE w \in InFlight(c)' <=> w \in InFlight(c) \/ (w = n /\ Code(n)' = c)
    <3>1. CASE w = n
      BY <3>1, <1>3, <1>4
    <3>2. CASE w # n
      <4>1. \A s \in Processes : w \in proc'[s].inflight <=> w \in proc[s].inflight
        BY <3>2
      <4> QED  BY <3>2, <4>1, <1>2, <1>3, <1>4
    <3> QED  BY <3>1, <3>2
  <2> QED  BY <2>1
<1>6. UnderWay(c)' = UnderWay(c) \cup (IF Code(n)' = c THEN {n} ELSE {})
  BY <1>2, <1>5 DEF UnderWay
<1>7. ASSUME NEW s \in Processes, NEW q \in Processes, NEW w \in proc'[s].inflight,
             NEW v \in proc'[q].inflight, Code(w)' = c, Key(v) = Key(w)
      PROVE  s = q /\ v = w
  <2>1. ASSUME NEW x \in Processes, NEW y \in proc'[x].inflight
        PROVE  (y = n /\ x = p) \/ y \in proc[x].inflight
    OBVIOUS
  <2>2. CASE (w = n /\ s = p) /\ v \in proc[q].inflight
    BY <1>7, <2>2
  <2>3. CASE (v = n /\ q = p) /\ w \in proc[s].inflight
    BY <1>7, <2>3
  <2>4. CASE v \in proc[q].inflight /\ w \in proc[s].inflight
    BY <1>2, <1>7, <2>4 DEF Unshared
  <2> QED  BY <2>1, <2>2, <2>3, <2>4
<1>8. Unshared(c)'
  BY <1>2, <1>7 DEF Unshared
<1> QED  BY <1>6, <1>8

-----------------------------------------------------------------------------
\* A code none of whose writes has gone wrong.
Settling == \A c \in Codes \ spoilt : InTurn(c) /\ Unshared(c)
Locking == \A c \in Codes \ spoilt : LocksHold(c) /\ OneRun(c)
CurrentInv == LiveIsLatest /\ DrainsAll /\ Settling /\ Locking

\* registry.create and restart: the new run is the latest of its code.
LEMMA MakeSettles ==
    ASSUME RunsTyped, WritesAreDue, LiveIsLatest, DrainsAll, Settling,
           NEW p \in Processes, NEW c \in Codes, NEW q \in Quizzes, Make(p, c, q),
           UNCHANGED tables, spoilt' = spoilt, proc[p].is # "draining",
           \A s \in Processes : s # p => proc[s].live[c] = None
    PROVE  LiveIsLatest' /\ DrainsAll' /\ Settling'
<1>0. PICK new : new = made'
  OBVIOUS
<1> DEFINE n == [t |-> "created", of |-> new, at |-> "due", gone |-> {}]
<1> DEFINE pr == [proc[p] EXCEPT !.live[c] = new]
<1>1. /\ made' = new /\ new = made + 1 /\ new \in 0..MaxRuns /\ new \in Runs /\ made \in Nat
      /\ run' = Append(run, [code |-> c, quiz |-> q, played |-> None])
  BY <1>0, ArchiveAssumption DEF ArchiveAssumption, Make, RunsTyped, Runs
<1>2. /\ KeepsRuns /\ RunsTyped' /\ bank' = bank /\ sessions' = sessions /\ results' = results
  BY MakeKeeps DEF tables
<1>3. run'[new] = [code |-> c, quiz |-> q, played |-> None] /\ \A k \in 1..made : run'[k] = run[k]
  BY <1>1 DEF RunsTyped
<1>4. n \in Writes /\ n.of = new /\ n.t = "created" /\ n = Key(n)
  <2>1. "due" \in Stages /\ {} \in SUBSET Rows
    BY DEF Stages
  <2> QED  BY <1>1, <2>1 DEF Writes, Key
<1>5. pr \in ProcRecords /\ pr.inflight = proc[p].inflight /\ pr.is = proc[p].is
      /\ \A d \in Codes : pr.live[d] = IF d = c THEN new ELSE proc[p].live[d]
  BY <1>1 DEF RunsTyped, ProcRecords
<1>6. proc' = [proc EXCEPT ![p] = Persist(pr, "created", new)]
  BY <1>0 DEF Make
<1>7. /\ Persist(pr, "created", new).live = pr.live
      /\ Persist(pr, "created", new).inflight = proc[p].inflight \cup {n}
      /\ Persist(pr, "created", new).is = pr.is
  <2> HIDE DEF pr, n
  <2>1. /\ Persist(pr, "created", new).live = pr.live
        /\ Persist(pr, "created", new).inflight = pr.inflight \cup {n}
    BY <1>1, <1>5, PersistTyped DEF n
  <2>2. Persist(pr, "created", new).is = pr.is
    BY <1>5 DEF Persist, ProcRecords
  <2> QED  BY <1>5, <2>1, <2>2
<1> HIDE DEF pr, n
<1>8. \A s \in Processes : proc'[s].inflight =
          IF s = p THEN proc[s].inflight \cup {n} ELSE proc[s].inflight
  BY <1>6, <1>7 DEF RunsTyped
<1>9. \A s \in Processes, d \in Codes : proc'[s].live[d] =
          IF s = p /\ d = c THEN new ELSE proc[s].live[d]
  BY <1>5, <1>6, <1>7 DEF RunsTyped
<1>10. LatestIs(c, new)' /\ \A d, k : d # c /\ LatestIs(d, k) => LatestIs(d, k)'
  <2>1. LatestIs(c, new)'
    <3>1. new \in 1..made' /\ \A k \in 1..made' : k <= new
      BY <1>1
    <3> QED  BY <3>1, <1>3 DEF LatestIs
  <2>2. ASSUME NEW d, NEW k, d # c, LatestIs(d, k) PROVE LatestIs(d, k)'
    <3>1. 1..new = (1..made) \cup {new}
      BY <1>1
    <3>2. /\ k \in 1..made /\ run[k].code = d
          /\ \A j \in 1..made : run[j].code = d => j <= k
      BY <2>2 DEF LatestIs
    <3>3. \A j \in 1..made' : run'[j].code = d => j <= k
      <4>1. \A j \in 1..made' : j \in 1..made \/ j = new
        BY <1>1, <3>1
      <4> QED  BY <2>2, <3>2, <4>1, <1>3
    <3>4. k \in 1..made' /\ run'[k].code = d
      BY <1>1, <1>3, <3>1, <3>2
    <3> QED  BY <3>3, <3>4 DEF LatestIs
  <2> QED  BY <2>1, <2>2
<1>11. LiveIsLatest'
  <2>1. ASSUME NEW s \in Processes, NEW z \in Processes, NEW d \in Codes, NEW r \in Runs,
               proc'[s].live[d] = r
        PROVE  LatestIs(d, r)' /\ (proc'[z].live[d] # None => s = z)
    <3>0. r # None /\ new # None
      BY <1>1, ArchiveAssumption DEF ArchiveAssumption, Runs
    <3>1. CASE d = c
      <4>1. s = p /\ r = new
        BY <1>9, <2>1, <3>0, <3>1
      <4>2. proc'[z].live[d] # None => z = p
        BY <1>9, <3>1
      <4> QED  BY <3>1, <4>1, <4>2, <1>10
    <3>2. CASE d # c
      <4>1. proc'[s].live[d] = proc[s].live[d] /\ proc'[z].live[d] = proc[z].live[d]
        BY <1>9, <3>2
      <4>2. LatestIs(d, r) /\ (proc[z].live[d] # None => s = z)
        BY <2>1, <4>1 DEF LiveIsLatest
      <4> QED  BY <3>2, <4>1, <4>2, <1>10
    <3> QED  BY <3>1, <3>2
  <2>2. ASSUME NEW k \in 1..made', NEW d \in Codes, run'[k].code = d
        PROVE  \E r \in 1..made' : LatestIs(d, r)'
    <3>1. CASE d = c
      <4>1. new \in 1..made'
        BY <1>1
      <4> QED  BY <3>1, <4>1, <1>10
    <3>2. CASE d # c
      <4>1. k # new
        BY <2>2, <3>2, <1>3
      <4>2. k \in 1..made
        BY <4>1, <1>1
      <4>3. PICK r \in 1..made : LatestIs(d, r)
        BY <2>2, <4>2, <1>3 DEF LiveIsLatest
      <4>4. r \in 1..made'
        BY <1>1
      <4> QED  BY <3>2, <4>3, <4>4, <1>10
    <3> QED  BY <3>1, <3>2
  <2> QED  BY <2>1, <2>2 DEF LiveIsLatest
<1>12. DrainsAll'
  <2>1. ASSUME NEW s \in Processes, proc'[s].is = "draining"
        PROVE  \A w \in proc'[s].inflight : [t |-> w.t, of |-> w.of] \in proc'[s].waits
    <3>1. s # p
      BY <1>5, <1>6, <1>7, <2>1 DEF RunsTyped
    <3>2. proc'[s] = proc[s]
      BY <1>6, <3>1 DEF RunsTyped
    <3> QED  BY <2>1, <3>2 DEF DrainsAll
  <2> QED  BY <2>1 DEF DrainsAll
<1>13. ASSUME NEW d \in Codes \ spoilt PROVE InTurn(d)' /\ Unshared(d)'
  <2> DEFINE N == IF d = c THEN {n} ELSE {}
  <2>1. \A s \in Processes : \A w \in proc[s].inflight : Key(w) # n
    BY <1>1, <1>4 DEF WritesAreDue, Key
  <2>2. Code(n)' = c
    BY <1>3, <1>4 DEF Code
  <2>3. UnderWay(d)' = UnderWay(d) \cup N /\ Unshared(d)'
    BY <1>2, <1>4, <1>8, <2>1, <2>2, OnePersisted DEF Settling
  <2>4. Due(d)' = Due(d) \cup N
    <3>1. ASSUME NEW w \in Writes, w.of \in 1..made PROVE w \in Due(d)' <=> w \in Due(d)
      <4>1. w.of \in 1..made' /\ run'[w.of] = run[w.of]
        <5>1. \A j \in 1..made : j \in 1..made'
          BY <1>1
        <5> QED  BY <3>1, <5>1, <1>3
      <4>2. Key(w)' = Key(w)
        BY DEF Key
      <4> QED  BY <3>1, <4>1, <4>2 DEF Due
    <3>2. ASSUME NEW w \in Writes, w.of = new PROVE w \in Due(d)' <=> w \in N
      <4>1. run'[w.of].code = c /\ run'[w.of].played = None
        BY <3>2, <1>3
      <4>2. w \in Due(d)' <=> d = c /\ w = Key(w) /\ w.t = "created"
        <5>1. w.of \in 1..made' /\ w.t \in {"created", "finished"}
          BY <3>2, <1>1, WriteIs
        <5>2. Key(w)' = Key(w)
          BY DEF Key
        <5> QED  BY <4>1, <5>1, <5>2 DEF Due
      <4>3. w = n <=> w = Key(w) /\ w.t = "created"
        BY <3>2, <1>4 DEF Key
      <4> QED  BY <4>2, <4>3
    <3>3. \A w \in Due(d)' : w \in Writes /\ (w.of \in 1..made \/ w.of = new)
      BY <1>1 DEF Due
    <3>4. \A w \in Due(d) : w \in Writes /\ w.of \in 1..made
      BY DEF Due
    <3>5. \A w \in N : w \in Writes /\ w.of = new
      BY <1>4
    <3>6. ASSUME NEW w PROVE w \in Due(d)' <=> w \in Due(d) \cup N
      <4>1. new \notin 1..made
        BY <1>1
      <4> HIDE DEF N
      <4> QED  BY <4>1, <3>1, <3>2, <3>3, <3>4, <3>5
    <3> QED  BY <3>6
  <2>5. \A v \in Due(d) : v.of \in 1..made /\ Before(v, n)
    BY <1>1, <1>4 DEF Due, Before
  <2>6. \A x \in N : x \notin Due(d) /\ \A v \in Due(d) : Before(v, x)
    BY <1>1, <1>4, <2>5
  <2>7. N \in SUBSET Writes /\ \A x, y \in N : x = y
    BY <1>4
  <2> HIDE DEF N
  <2>8. InTurn(d)
    BY DEF Settling
  <2>9. InTurn(d)'
    BY <1>2, <2>3, <2>4, <2>6, <2>7, <2>8, AddedInTurn
  <2> QED  BY <2>3, <2>9
<1>14. Settling'
  BY <1>13 DEF Settling
<1> QED  BY <1>11, <1>12, <1>14

\* onQuizFinished: of the latest run of its code, so this write is the last one due.
LEMMA FinishSettles ==
    ASSUME RunsTyped, WritesAreDue, LiveIsLatest, DrainsAll, Settling,
           NEW p \in Processes, NEW c \in Codes, Finish(p, c)
    PROVE  LiveIsLatest' /\ DrainsAll' /\ Settling'
<1>0. PICK r : r = proc[p].live[c]
  OBVIOUS
<1> DEFINE n == [t |-> "finished", of |-> r, at |-> "due", gone |-> {}]
<1>1. /\ r \in 1..made /\ r \in Runs /\ made \in Nat /\ made' = made
      /\ proc[p].is = "serving" /\ run[r].played = None /\ LatestIs(c, r)
      /\ sessions' = sessions /\ results' = results /\ spoilt' = spoilt
  <2>1. r # None
    BY <1>0 DEF Finish
  <2>2. r \in 1..made /\ made \in Nat /\ r \in Runs
    BY <1>0, <2>1, ArchiveAssumption DEF ArchiveAssumption, RunsTyped, Runs
  <2>3. LatestIs(c, r)
    BY <1>0, <2>2 DEF LiveIsLatest
  <2> QED  BY <1>0, <2>2, <2>3 DEF Finish, tables
<1>2. PICK S \in SUBSET Players : run' = [run EXCEPT ![r].played = S]
  BY <1>0 DEF Finish
<1>3. proc' = [proc EXCEPT ![p] = Persist(proc[p], "finished", r)]
  BY <1>0 DEF Finish
<1>4. KeepsRuns /\ S # None
  BY FinishKeeps, ArchiveAssumption DEF ArchiveAssumption
<1>5. n \in Writes /\ n.of = r /\ n.t = "finished" /\ n = Key(n)
  <2>1. "due" \in Stages /\ {} \in SUBSET Rows
    BY DEF Stages
  <2> QED  BY <1>1, <2>1 DEF Writes, Key
<1>6. /\ \A k \in 1..made : run'[k].code = run[k].code /\ (k # r => run'[k] = run[k])
      /\ run'[r].played # None
  <2>1. DOMAIN run = 1..made /\ \A k \in 1..made : run[k] \in RunRecords
    BY <1>1 DEF RunsTyped
  <2>2. run'[r] = [run[r] EXCEPT !.played = S] /\ \A k \in 1..made : k # r => run'[k] = run[k]
    BY <1>1, <1>2, <2>1
  <2> QED  BY <1>1, <1>4, <2>1, <2>2 DEF RunRecords
<1>7. /\ proc[p] \in ProcRecords
      /\ Persist(proc[p], "finished", r).live = proc[p].live
      /\ Persist(proc[p], "finished", r).inflight = proc[p].inflight \cup {n}
      /\ Persist(proc[p], "finished", r).is = proc[p].is
  <2> HIDE DEF n
  <2>1. proc[p] \in ProcRecords
    BY DEF RunsTyped
  <2>2. /\ Persist(proc[p], "finished", r).live = proc[p].live
        /\ Persist(proc[p], "finished", r).inflight = proc[p].inflight \cup {n}
    BY <1>1, <2>1, PersistTyped DEF n
  <2>3. Persist(proc[p], "finished", r).is = proc[p].is
    BY <2>1 DEF Persist, ProcRecords
  <2> QED  BY <2>1, <2>2, <2>3
<1> HIDE DEF n
<1>8. /\ \A s \in Processes : proc'[s].live = proc[s].live /\ proc'[s].is = proc[s].is
      /\ \A s \in Processes : s # p => proc'[s] = proc[s]
      /\ \A s \in Processes : proc'[s].inflight =
             IF s = p THEN proc[s].inflight \cup {n} ELSE proc[s].inflight
  BY <1>3, <1>7 DEF RunsTyped
<1>9. LiveIsLatest'
  <2>1. \A d, k : LatestIs(d, k)' <=> LatestIs(d, k)
    BY <1>1, <1>6 DEF LatestIs
  <2>2. ASSUME NEW s \in Processes, NEW z \in Processes, NEW d \in Codes, NEW k \in Runs,
               proc'[s].live[d] = k
        PROVE  LatestIs(d, k)' /\ (proc'[z].live[d] # None => s = z)
    <3>1. proc[s].live[d] = k /\ proc[z].live[d] = proc'[z].live[d]
      BY <1>8, <2>2
    <3> QED  BY <2>1, <3>1 DEF LiveIsLatest
  <2>3. ASSUME NEW k \in 1..made', NEW d \in Codes, run'[k].code = d
        PROVE  \E x \in 1..made' : LatestIs(d, x)'
    <3>1. k \in 1..made /\ run[k].code = d
      BY <1>1, <1>6, <2>3
    <3>2. PICK x \in 1..made : LatestIs(d, x)
      BY <3>1 DEF LiveIsLatest
    <3> QED  BY <1>1, <2>1, <3>2
  <2> QED  BY <2>2, <2>3 DEF LiveIsLatest
<1>10. DrainsAll'
  <2>1. ASSUME NEW s \in Processes, proc'[s].is = "draining"
        PROVE  \A w \in proc'[s].inflight : [t |-> w.t, of |-> w.of] \in proc'[s].waits
    <3>1. proc'[s] = proc[s]
      BY <1>1, <1>8, <2>1
    <3> QED  BY <2>1, <3>1 DEF DrainsAll
  <2> QED  BY <2>1 DEF DrainsAll
<1>11. ASSUME NEW d \in Codes \ spoilt PROVE InTurn(d)' /\ Unshared(d)'
  <2> DEFINE N == IF d = c THEN {n} ELSE {}
  <2>1. \A s \in Processes : \A w \in proc[s].inflight : Key(w) # n
    BY <1>1, <1>5 DEF WritesAreDue, Key
  <2>2. Code(n)' = c
    BY <1>1, <1>5, <1>6 DEF Code, LatestIs
  <2>3. UnderWay(d)' = UnderWay(d) \cup N /\ Unshared(d)'
    BY <1>4, <1>5, <1>8, <2>1, <2>2, OnePersisted DEF Settling
  <2>4. Due(d)' = Due(d) \cup N
    <3>1. ASSUME NEW w \in Writes, w # n PROVE w \in Due(d)' <=> w \in Due(d)
      <4>0. Key(w)' = Key(w)
        BY DEF Key
      <4>1. CASE w.of \in 1..made /\ w.of # r
        BY <3>1, <4>0, <4>1, <1>1, <1>6 DEF Due
      <4>2. CASE w.of = r /\ w.t = "created"
        BY <3>1, <4>0, <4>2, <1>1, <1>6 DEF Due
      <4>3. CASE w.of = r /\ w.t = "finished"
        BY <3>1, <4>0, <4>3, <1>5 DEF Due, Key
      <4>4. CASE w.of \notin 1..made
        BY <4>4, <1>1 DEF Due
      <4> QED  BY <3>1, <4>1, <4>2, <4>3, <4>4, WriteIs
    <3>2. n \in Due(d)' <=> d = c
      <4>1. Key(n)' = Key(n)
        BY DEF Key
      <4> QED  BY <1>1, <1>5, <1>6, <4>1 DEF Due, LatestIs
    <3>3. n \notin Due(d)
      BY <1>1, <1>5 DEF Due
    <3>4. Due(d) \subseteq Writes /\ Due(d)' \subseteq Writes
      BY DEF Due
    <3>5. ASSUME NEW w PROVE w \in Due(d)' <=> w \in Due(d) \cup N
      <4>1. w \in N <=> w = n /\ d = c
        OBVIOUS
      <4> HIDE DEF N
      <4> QED  BY <4>1, <3>1, <3>2, <3>3, <3>4
    <3> QED  BY <3>5
  <2>5. ASSUME d = c, NEW v \in Due(d) PROVE Before(v, n)
    <3>1. /\ v \in Writes /\ v.of \in 1..made /\ run[v.of].code = c
          /\ v.t = "finished" => run[v.of].played # None
      BY <2>5 DEF Due
    <3>2. v.of <= r /\ v.of \in Int /\ r \in Int
      BY <1>1, <3>1 DEF LatestIs
    <3>3. v.of = r => v.t = "created"
      BY <1>1, <3>1, WriteIs
    <3> QED  BY <1>5, <3>2, <3>3 DEF Before
  <2>6. \A x \in N : x \notin Due(d) /\ \A v \in Due(d) : Before(v, x)
    BY <1>1, <1>5, <2>5 DEF Due
  <2>7. N \in SUBSET Writes /\ \A x, y \in N : x = y
    BY <1>5
  <2> HIDE DEF N
  <2>8. InTurn(d)
    BY DEF Settling
  <2>9. InTurn(d)'
    BY <1>1, <1>4, <2>3, <2>4, <2>6, <2>7, <2>8, AddedInTurn
  <2> QED  BY <2>3, <2>9
<1>12. Settling'
  BY <1>1, <1>11 DEF Settling
<1> QED  BY <1>9, <1>10, <1>12

\* The other steps change one process and make no write: codes whose writes and rows
\* they leave alone settle as before.
LEMMA QuietSettles ==
    ASSUME RunsTyped, KeepsRuns, LiveIsLatest, DrainsAll, Settling, UNCHANGED <<run, made>>,
           NEW p \in Processes, NEW pr \in ProcRecords, proc' = [proc EXCEPT ![p] = pr],
           \A c \in Codes : pr.live[c] \in {None, proc[p].live[c]},
           pr.is = "draining" => \A w \in pr.inflight : [t |-> w.t, of |-> w.of] \in pr.waits
    PROVE  /\ LiveIsLatest' /\ DrainsAll'
           /\ \A c \in Codes \ spoilt :
                 /\ Of(c, pr.inflight) = Of(c, proc[p].inflight)
                 /\ sessions'[c] = sessions[c] /\ results'[c] = results[c]
                 => InTurn(c)' /\ Unshared(c)'
<1>1. \A d, k : LatestIs(d, k)' <=> LatestIs(d, k)
  BY DEF LatestIs
<1>2. \A s \in Processes, d \in Codes : proc'[s].live[d] \in {None, proc[s].live[d]}
  BY DEF RunsTyped
<1>3. LiveIsLatest'
  <2>1. ASSUME NEW s \in Processes, NEW z \in Processes, NEW d \in Codes, NEW k \in Runs,
               proc'[s].live[d] = k
        PROVE  LatestIs(d, k)' /\ (proc'[z].live[d] # None => s = z)
    <3>1. k # None
      BY ArchiveAssumption DEF ArchiveAssumption, Runs
    <3>2. proc[s].live[d] = k /\ (proc'[z].live[d] # None => proc[z].live[d] # None)
      BY <1>2, <2>1, <3>1
    <3> QED  BY <1>1, <3>2 DEF LiveIsLatest
  <2>2. ASSUME NEW k \in 1..made', NEW d \in Codes, run'[k].code = d
        PROVE  \E x \in 1..made' : LatestIs(d, x)'
    BY <1>1, <2>2 DEF LiveIsLatest
  <2> QED  BY <2>1, <2>2 DEF LiveIsLatest
<1>4. DrainsAll'
  BY DEF DrainsAll, RunsTyped
<1>5. ASSUME NEW c \in Codes \ spoilt, Of(c, pr.inflight) = Of(c, proc[p].inflight),
             sessions'[c] = sessions[c], results'[c] = results[c]
      PROVE  InTurn(c)' /\ Unshared(c)'
  <2>1. InTurn(c) /\ Unshared(c)
    BY DEF Settling
  <2>2. Due(c)' = Due(c) /\ UnderWay(c)' = UnderWay(c) /\ Unshared(c)'
    BY <1>5, <2>1, SameUnderWay
  <2>3. {} \in SUBSET Writes /\ Due(c)' = Due(c) \cup {} /\ UnderWay(c)' = UnderWay(c) \cup {}
    BY <2>2
  <2>4. InTurn(c)'
    BY <1>5, <2>1, <2>3, AddedInTurn
  <2> QED  BY <2>2, <2>4
<1> QED  BY <1>3, <1>4, <1>5

\* The next statement of a transaction: where all goes in turn, the UPDATE finds the
\* row that the sessionCreated of its run left.
LEMMA MoveSettles ==
    ASSUME RunsTyped, WritesAreDue, RowsWhole, LiveIsLatest, DrainsAll, Settling, Locking,
           NEW p \in Processes, NEW w \in proc[p].inflight, Moves(p, w)
    PROVE  LiveIsLatest' /\ DrainsAll' /\ Settling' /\ Locking'
<1>0. PICK k : k = Code(w)
  OBVIOUS
<1>1. /\ w \in Writes /\ w.of \in 1..made /\ k \in Codes /\ w \in InFlight(k)
      /\ Key(w) \in UnderWay(k) /\ proc[p] \in ProcRecords
  BY <1>0, InFlightIs DEF RunsTyped
<1>2. PICK m \in Writes :
              /\ Went(p, w, m)
              /\ proc' = [proc EXCEPT ![p].inflight = (@ \ {w}) \cup {m}]
              /\ UNCHANGED <<tables, run, made>> /\ spoilt \subseteq spoilt'
  BY MoveIs
<1> DEFINE pr == [proc[p] EXCEPT !.inflight = (@ \ {w}) \cup {m}]
<1>3. /\ pr \in ProcRecords /\ pr.live = proc[p].live /\ pr.is = proc[p].is
      /\ pr.waits = proc[p].waits /\ pr.inflight = (proc[p].inflight \ {w}) \cup {m}
  BY <1>1, <1>2 DEF ProcRecords
<1>4. proc' = [proc EXCEPT ![p] = pr]
  BY <1>2
<1> HIDE DEF pr
<1>5. m.t = w.t /\ m.of = w.of /\ Key(m) = Key(w) /\ Code(m) = k
  BY <1>0, <1>2 DEF Went, Key, Code
<1>6. KeepsRuns /\ UNCHANGED <<run, made, sessions, results>>
  BY <1>2 DEF KeepsRuns, RunsTyped, tables
<1>7. pr.is = "draining" => \A v \in pr.inflight : [t |-> v.t, of |-> v.of] \in pr.waits
  BY <1>3, <1>5 DEF DrainsAll
<1>8. /\ LiveIsLatest' /\ DrainsAll'
      /\ \A c \in Codes \ spoilt :
            /\ Of(c, pr.inflight) = Of(c, proc[p].inflight)
            /\ sessions'[c] = sessions[c] /\ results'[c] = results[c]
            => InTurn(c)' /\ Unshared(c)'
  BY <1>3, <1>4, <1>6, <1>7, QuietSettles
<1>9. \A c : c # k => Of(c, pr.inflight) = Of(c, proc[p].inflight)
  BY <1>0, <1>3, <1>5 DEF Of
<1>10. ASSUME k \notin spoilt' PROVE InTurn(k)' /\ Unshared(k)'
  <2>1. InTurn(k) /\ Unshared(k)
    BY <1>1, <1>2, <1>10 DEF Settling
  <2>2. Due(k)' = Due(k) /\ UnderWay(k)' = UnderWay(k) /\ Unshared(k)'
    BY <1>0, <1>3, <1>4, <1>5, <1>6, <2>1, OneMoved
  <2>3. {} \in SUBSET Writes /\ Due(k)' = Due(k) \cup {} /\ UnderWay(k)' = UnderWay(k) \cup {}
    BY <2>2
  <2>4. InTurn(k)'
    BY <1>6, <2>1, <2>3, AddedInTurn
  <2> QED  BY <2>2, <2>4
<1>11. Settling'
  <2>1. ASSUME NEW c \in Codes \ spoilt' PROVE InTurn(c)' /\ Unshared(c)'
    BY <1>2, <1>6, <1>8, <1>9, <1>10
  <2> QED  BY <2>1 DEF Settling
\* It has found its row, and has locked it.
<1>12. ASSUME k \notin spoilt' PROVE m.at = "locked" /\ m.gone = results[k] /\ ~Held(k)
  <2>1. InTurn(k) /\ LocksHold(k) /\ k \notin spoilt
    BY <1>1, <1>2, <1>12 DEF Settling, Locking
  <2>2. ~FinishedDeletes(p, w)
    BY <1>1, <2>1 DEF FinishedDeletes, LocksHold
  <2>3. FinishedUpdates(p, w)
    BY <2>2 DEF Moves
  <2>4. \A v \in InFlight(k) : ~Before(v, w)
    BY <1>0, <1>12, <2>3 DEF FinishedUpdates, Overtakes
  <2>5. \A v \in UnderWay(k) : ~Before(v, Key(w))
    BY <2>4, KeysBefore DEF UnderWay
  <2>6. Key(w).t = "finished"
    BY <2>3 DEF FinishedUpdates, Key
  <2>7. sessions[k] # None
    BY <1>1, <2>1, <2>5, <2>6, RowIsThere
  <2> QED  BY <1>0, <1>2, <2>2, <2>3, <2>7 DEF Went, FinishedUpdates
<1>13. ASSUME NEW c \in Codes \ spoilt' PROVE LocksHold(c)' /\ OneRun(c)'
  <2>1. LocksHold(c) /\ OneRun(c)
    BY <1>2 DEF Locking
  <2>2. OneRun(c)'
    BY <1>6, <2>1 DEF OneRun
  <2>3. \A v : v \in InFlight(c)' => v \in InFlight(c) \/ (v = m /\ c = k)
    BY <1>3, <1>4, <1>5, <1>6 DEF InFlight, Code, RunsTyped
  <2>4. ASSUME c = k PROVE ~Held(k) /\ m.at = "locked" /\ m.gone = results[k]
    BY <1>12, <2>4
  <2>5. \A v \in InFlight(c)' : v.at \in {"due", "locked"}
    BY <2>1, <2>3, <2>4 DEF LocksHold
  <2>6. \A v \in InFlight(c)' : v.at = "locked" => v.gone = results[c]
    BY <2>1, <2>3, <2>4 DEF LocksHold
  <2>7. \A v, x \in InFlight(c)' : v.at = "locked" /\ x.at = "locked" => x = v
    BY <2>1, <2>3, <2>4 DEF LocksHold, Held
  <2>8. LocksHold(c)'
    BY <1>6, <2>5, <2>6, <2>7 DEF LocksHold
  <2> QED  BY <2>2, <2>8
<1>14. Locking'
  BY <1>13 DEF Locking
<1> QED  BY <1>8, <1>11, <1>14

\* A transaction fails, or writes the rows of its code.
LEMMA EndSettles ==
    ASSUME RunsTyped, WritesAreDue, RowsWhole, ResultsByCode, TablesTyped,
           LiveIsLatest, DrainsAll, Settling, Locking,
           NEW p \in Processes, NEW w \in proc[p].inflight, Ends(p, w)
    PROVE  LiveIsLatest' /\ DrainsAll' /\ Settling' /\ Locking'
<1>0. PICK k : k = Code(w)
  OBVIOUS
<1> DEFINE pr == [proc[p] EXCEPT !.inflight = @ \ {w}]
<1>1. /\ w \in Writes /\ w.of \in 1..made /\ k \in Codes /\ w \in InFlight(k)
      /\ Key(w) \in UnderWay(k) /\ Key(w) \in Due(k) /\ proc[p] \in ProcRecords
      /\ w.t = "finished" => run[w.of].played # None
  BY <1>0, InFlightIs DEF RunsTyped
<1>2. UNCHANGED <<run, made>> /\ proc' = [proc EXCEPT ![p] = pr]
  BY EndIs
<1>3. /\ pr \in ProcRecords /\ pr.live = proc[p].live /\ pr.is = proc[p].is
      /\ pr.waits = proc[p].waits /\ pr.inflight = proc[p].inflight \ {w}
  BY <1>1 DEF ProcRecords
<1> HIDE DEF pr
<1>4. KeepsRuns
  BY <1>2 DEF KeepsRuns, RunsTyped
<1>5. pr.is = "draining" => \A v \in pr.inflight : [t |-> v.t, of |-> v.of] \in pr.waits
  BY <1>3 DEF DrainsAll
<1>6. /\ LiveIsLatest' /\ DrainsAll'
      /\ \A c \in Codes \ spoilt :
            /\ Of(c, pr.inflight) = Of(c, proc[p].inflight)
            /\ sessions'[c] = sessions[c] /\ results'[c] = results[c]
            => InTurn(c)' /\ Unshared(c)'
  BY <1>2, <1>3, <1>4, <1>5, QuietSettles
<1>7. \A c \in Codes : c # k => sessions'[c] = sessions[c]
  <2>1. CASE SessionCreated(p, w)
    BY <1>0, <2>1 DEF SessionCreated, TablesTyped
  <2>2. CASE FinishedInserts(p, w)
    BY <1>0, <2>2 DEF FinishedInserts, TablesTyped
  <2>3. CASE FinishedRefused(p, w) \/ WriteFails(p, w)
    BY <2>3 DEF FinishedRefused, WriteFails, Failed, tables
  <2> QED  BY <2>1, <2>2, <2>3 DEF Ends
<1>8. \A c \in Codes : c # k => results'[c] = results[c]
  <2>1. CASE SessionCreated(p, w)
    BY <1>0, <2>1 DEF SessionCreated, ResultsByCode
  <2>2. CASE FinishedInserts(p, w)
    BY <1>0, <2>2 DEF FinishedInserts, ResultsByCode
  <2>3. CASE FinishedRefused(p, w) \/ WriteFails(p, w)
    BY <2>3 DEF FinishedRefused, WriteFails, Failed, tables
  <2> QED  BY <2>1, <2>2, <2>3 DEF Ends
<1>9. spoilt \subseteq spoilt'
  BY DEF Ends, SessionCreated, FinishedInserts, FinishedRefused, WriteFails, Failed, Taken,
         Overtakes
<1>10. \A c : c # k => Of(c, pr.inflight) = Of(c, proc[p].inflight)
  BY <1>0, <1>3 DEF Of
\* Of a code that is not spoilt, it is the first write under way.
<1>11. ASSUME k \notin spoilt'
       PROVE  /\ SessionCreated(p, w) \/ FinishedInserts(p, w)
              /\ \A v \in UnderWay(k) : ~Before(v, Key(w))
              /\ FinishedInserts(p, w) =>
                    /\ w.at = "locked" /\ w.t = "finished" /\ Left(w) = {}
                    /\ sessions[k] # None /\ sessions[k].quiz = run[w.of].quiz
  <2>1. InTurn(k) /\ LocksHold(k)
    BY <1>1, <1>9, <1>11 DEF Settling, Locking
  <2>2. SessionCreated(p, w) \/ FinishedInserts(p, w)
    BY <1>0, <1>11 DEF Ends, WriteFails, FinishedRefused, Failed
  <2>3. Overtakes(w)
    BY <2>2 DEF SessionCreated, FinishedInserts, Taken
  <2>4. \A v \in InFlight(k) : ~Before(v, w)
    BY <1>0, <1>11, <2>3 DEF Overtakes
  <2>5. \A v \in UnderWay(k) : ~Before(v, Key(w))
    BY <2>4, KeysBefore DEF UnderWay
  <2>6. ASSUME FinishedInserts(p, w)
        PROVE  /\ w.at = "locked" /\ w.t = "finished" /\ Left(w) = {}
               /\ sessions[k] # None /\ sessions[k].quiz = run[w.of].quiz
    <3>1. w.at = "locked" /\ w.gone = results[k]
      BY <1>1, <2>1, <2>6 DEF FinishedInserts, LocksHold
    <3>2. w.t = "finished"
      BY <3>1 DEF WritesAreDue
    <3>3. Key(w).t = "finished" /\ Key(w).of = w.of
      BY <3>2 DEF Key
    <3>4. sessions[k] # None /\ sessions[k].quiz = run[w.of].quiz
      BY <1>1, <2>1, <2>5, <3>3, RowIsThere
    <3> QED  BY <1>0, <3>1, <3>2, <3>4 DEF Left
  <2> QED  BY <2>2, <2>5, <2>6
\* What it leaves.
<1>12. ASSUME k \notin spoilt'
       PROVE  /\ sessions'[k] = [quiz |-> run[w.of].quiz, status |-> w.t]
              /\ results'[k] = IF w.t = "finished" THEN Standings(w.of) ELSE {}
  <2>1. CASE SessionCreated(p, w)
    <3>1. w.t = "created"
      BY <2>1 DEF SessionCreated
    <3> QED  BY <1>0, <1>1, <2>1, <3>1 DEF SessionCreated, ResultsByCode, TablesTyped
  <2>2. CASE FinishedInserts(p, w)
    <3>1. /\ w.at = "locked" /\ w.t = "finished" /\ Left(w) = {}
          /\ sessions[k] # None /\ sessions[k].quiz = run[w.of].quiz
      BY <1>11, <1>12, <2>2
    <3>2. sessions[k] \in SessionRows
      BY <1>1, <3>1 DEF TablesTyped
    <3>3. [sessions[k] EXCEPT !.status = "finished"]
              = [quiz |-> run[w.of].quiz, status |-> "finished"]
      BY <3>1, <3>2 DEF SessionRows
    <3>4. sessions' = [sessions EXCEPT ![k].status = "finished"]
      BY <1>0, <2>2, <3>1 DEF FinishedInserts
    <3>5. sessions'[k] = [quiz |-> run[w.of].quiz, status |-> "finished"]
      BY <1>1, <3>3, <3>4 DEF TablesTyped
    <3>6. results' = [results EXCEPT ![k] = Left(w) \cup Standings(w.of)]
      BY <1>0, <2>2 DEF FinishedInserts
    <3>7. results'[k] = Standings(w.of)
      BY <1>1, <3>1, <3>6 DEF ResultsByCode
    <3> QED  BY <3>1, <3>5, <3>7
  <2> QED  BY <1>11, <1>12, <2>1, <2>2
<1>13. ASSUME k \notin spoilt' PROVE InTurn(k)' /\ Unshared(k)'
  <2>1. InTurn(k) /\ Unshared(k)
    BY <1>1, <1>9, <1>13 DEF Settling
  <2>2. Due(k)' = Due(k) /\ UnderWay(k)' = UnderWay(k) \ {Key(w)} /\ Unshared(k)'
    BY <1>0, <1>2, <1>3, <2>1, OneTaken
  <2>3. Written(Key(w))'
    <3>1. Key(w)' = Key(w) /\ Key(w).t = w.t /\ Key(w).of = w.of
      BY DEF Key
    <3>2. Code(Key(w))' = k /\ Standings(w.of)' = Standings(w.of)
      BY <1>0, <1>2, <3>1, StandingsKept DEF Code
    <3> QED  BY <1>2, <1>12, <1>13, <3>1, <3>2 DEF Written
  <2>4. InTurn(k)'
    <3> DEFINE y == Key(w)
    <3>1. /\ y \in UnderWay(k) /\ \A v \in UnderWay(k) : ~Before(v, y)
          /\ UnderWay(k)' = UnderWay(k) \ {y} /\ Written(y)'
      BY <1>1, <1>11, <1>13, <2>2, <2>3
    <3> HIDE DEF y
    <3> QED  BY <2>1, <2>2, <3>1, TakenInTurn
  <2> QED  BY <2>2, <2>4
<1>14. Settling'
  <2>1. ASSUME NEW c \in Codes \ spoilt' PROVE InTurn(c)' /\ Unshared(c)'
    BY <1>6, <1>7, <1>8, <1>9, <1>10, <1>13
  <2> QED  BY <2>1 DEF Settling
<1>15. ASSUME NEW c \in Codes \ spoilt' PROVE LocksHold(c)' /\ OneRun(c)'
  <2>1. LocksHold(c) /\ OneRun(c) /\ Unshared(c)
    BY <1>9 DEF Locking, Settling
  <2>2. \A v : v \in InFlight(c)' => v \in InFlight(c)
    BY <1>2, <1>3 DEF InFlight, Code, RunsTyped
  <2>3. CASE c # k
    BY <1>8, <2>1, <2>2, <2>3 DEF LocksHold, OneRun
  <2>4. CASE c = k
    <3>1. OneRun(c)'
      BY <1>12, <2>4, StandingsAre DEF OneRun
    <3>2. \A v \in InFlight(c)' : v.at # "locked"
      <4>1. CASE SessionCreated(p, w)
        BY <1>0, <2>2, <2>4, <4>1 DEF SessionCreated, Held
      <4>2. CASE FinishedInserts(p, w)
        <5>1. ASSUME NEW v \in InFlight(c)', v.at = "locked" PROVE v = w
          BY <1>1, <1>11, <2>1, <2>2, <2>4, <4>2, <5>1 DEF LocksHold
        <5>2. w \notin InFlight(c)'
          <6>1. \A q \in Processes : w \in proc[q].inflight => q = p
            BY <1>0, <2>1, <2>4 DEF Unshared
          <6> QED  BY <1>2, <1>3, <6>1 DEF InFlight, RunsTyped
        <5> QED  BY <5>1, <5>2
      <4> QED  BY <1>11, <2>4, <4>1, <4>2
    <3>3. LocksHold(c)'
      BY <2>1, <2>2, <3>2 DEF LocksHold
    <3> QED  BY <3>1, <3>3
  <2> QED  BY <2>3, <2>4
<1>16. Locking'
  BY <1>15 DEF Locking
<1> QED  BY <1>6, <1>14, <1>16

\* The steps that are not a transaction's take no lock.
LEMMA QuietLocking ==
    ASSUME WritesAreDue, KeepsRuns, Locking, results' = results, spoilt \subseteq spoilt',
           \A q \in Processes : \A v \in proc'[q].inflight :
               v \in proc[q].inflight \/ v.at = "due"
    PROVE  Locking'
<1>1. SUFFICES ASSUME NEW c \in Codes \ spoilt' PROVE LocksHold(c)' /\ OneRun(c)'
  BY DEF Locking
<1>2. LocksHold(c) /\ OneRun(c)
  BY DEF Locking
<1>3. OneRun(c)'
  BY <1>2 DEF OneRun
<1>4. ASSUME NEW v \in InFlight(c)' PROVE v \in InFlight(c) \/ v.at = "due"
  <2>1. PICK q \in Processes : v \in proc'[q].inflight /\ Code(v)' = c
    BY DEF InFlight
  <2>2. SUFFICES ASSUME v \in proc[q].inflight PROVE v \in InFlight(c)
    BY <2>1
  <2>3. Code(v)' = Code(v)
    BY <2>2 DEF WritesAreDue, KeepsRuns, Code
  <2> QED  BY <2>1, <2>2, <2>3 DEF InFlight
<1>5. LocksHold(c)'
  <2>1. ASSUME NEW w \in InFlight(c)' PROVE w.at \in {"due", "locked"}
    BY <1>2, <1>4 DEF LocksHold
  <2>2. ASSUME NEW w \in InFlight(c)', w.at = "locked"
        PROVE  w.gone = results'[c] /\ \A v \in InFlight(c)' : v.at = "locked" => v = w
    BY <1>2, <1>4, <2>2 DEF LocksHold
  <2> QED  BY <2>1, <2>2 DEF LocksHold
<1> QED  BY <1>3, <1>5

LEMMA MakeLocks ==
    ASSUME RunsTyped, WritesAreDue, KeepsRuns, Locking, NEW p \in Processes, NEW c \in Codes,
           NEW q \in Quizzes, Make(p, c, q), UNCHANGED tables, spoilt' = spoilt
    PROVE  Locking'
<1>1. \A s \in Processes : \A v \in proc'[s].inflight : v \in proc[s].inflight \/ v.at = "due"
  BY DEF Make, Persist, RunsTyped
<1> QED  BY <1>1, QuietLocking DEF tables

-----------------------------------------------------------------------------
LEMMA CurrentStep ==
    ASSUME RunsTyped, WritesAreDue, RowsWhole, ResultsByCode, TablesTyped, CurrentInv,
           ArchiveNext
    PROVE  CurrentInv'
<1> DEFINE Goal == LiveIsLatest' /\ DrainsAll' /\ Settling' /\ Locking'
<1>1. PICK p \in Processes :
        \/ Boot(p) \/ Shutdown(p) \/ Drain(p) \/ Destroyed(p) \/ Crash(p)
        \/ \E c \in Codes : Create(p, c) \/ Restart(p, c) \/ Finish(p, c) \/ Idle(p, c)
        \/ \E w \in proc[p].inflight : Moves(p, w) \/ Ends(p, w)
  BY DEF ArchiveNext, Moves, Ends
<1>2. LiveIsLatest /\ DrainsAll /\ Settling /\ Locking /\ KeepsRuns
      /\ proc[p] \in ProcRecords /\ bank \in SUBSET Quizzes
  BY StepKeeps DEF CurrentInv, RunsTyped
\* The steps of one process that persist nothing and write nothing.
<1>3. ASSUME NEW pr \in ProcRecords, proc' = [proc EXCEPT ![p] = pr],
             UNCHANGED <<run, made, sessions, results>>,
             \A c \in Codes : pr.live[c] \in {None, proc[p].live[c]},
             pr.is = "draining" => \A w \in pr.inflight : [t |-> w.t, of |-> w.of] \in pr.waits,
             spoilt \subseteq spoilt', pr.inflight \subseteq proc[p].inflight,
             \A c \in Codes \ spoilt' : Of(c, pr.inflight) = Of(c, proc[p].inflight)
      PROVE  Goal
  <2>1. /\ LiveIsLatest' /\ DrainsAll'
        /\ \A c \in Codes \ spoilt :
              /\ Of(c, pr.inflight) = Of(c, proc[p].inflight)
              /\ sessions'[c] = sessions[c] /\ results'[c] = results[c]
              => InTurn(c)' /\ Unshared(c)'
    BY <1>2, <1>3, QuietSettles
  <2>2. Settling'
    BY <1>3, <2>1 DEF Settling
  <2>3. \A q \in Processes : \A v \in proc'[q].inflight : v \in proc[q].inflight
    BY <1>3 DEF RunsTyped
  <2>4. Locking'
    BY <1>2, <1>3, <2>3, QuietLocking
  <2> QED  BY <2>1, <2>2, <2>4
<1>4. ASSUME Boot(p) PROVE Goal
  <2> DEFINE pr == [proc[p] EXCEPT !.is = "serving", !.definitions = Loaded(Seeded(p))]
  <2>1. Loaded(Seeded(p)) \in SUBSET Quizzes
    BY <1>2 DEF Seeded, Loaded
  <2>2. /\ pr \in ProcRecords /\ pr.live = proc[p].live /\ pr.inflight = proc[p].inflight
        /\ pr.is = "serving"
    BY <1>2, <2>1 DEF ProcRecords
  <2>3. proc' = [proc EXCEPT ![p] = pr]
    BY <1>4 DEF Boot
  <2>4. UNCHANGED <<run, made, sessions, results, spoilt>>
    BY <1>4 DEF Boot
  <2> HIDE DEF pr, Goal
  <2> QED  BY <1>3, <2>2, <2>3, <2>4
<1>5. ASSUME Shutdown(p) PROVE Goal
  <2> DEFINE pr == [proc[p] EXCEPT !.is = "closing", !.live = [c \in Codes |-> None]]
  <2>1. /\ pr \in ProcRecords /\ pr.is = "closing" /\ pr.inflight = proc[p].inflight
        /\ \A c \in Codes : pr.live[c] = None
    BY <1>2 DEF ProcRecords
  <2>2. proc' = [proc EXCEPT ![p] = pr]
    BY <1>5 DEF Shutdown
  <2>3. UNCHANGED <<run, made, sessions, results, spoilt>>
    BY <1>5 DEF Shutdown, tables
  <2> HIDE DEF pr, Goal
  <2> QED  BY <1>3, <2>1, <2>2, <2>3
<1>6. ASSUME Drain(p) PROVE Goal
  <2> DEFINE waits == {[t |-> w.t, of |-> w.of] : w \in proc[p].inflight}
  <2> DEFINE pr == [proc[p] EXCEPT !.is = "draining", !.waits = waits]
  <2>1. waits \in SUBSET [t : {"created", "finished"}, of : Runs]
        /\ \A w \in proc[p].inflight : [t |-> w.t, of |-> w.of] \in waits
    BY <1>2 DEF ProcRecords, Writes
  <2>2. proc' = [proc EXCEPT ![p] = pr]
    BY <1>6 DEF Drain
  <2> HIDE DEF waits
  <2>3. /\ pr \in ProcRecords /\ pr.live = proc[p].live /\ pr.inflight = proc[p].inflight
        /\ pr.waits = waits
    BY <1>2, <2>1 DEF ProcRecords
  <2>4. UNCHANGED <<run, made, sessions, results, spoilt>>
    BY <1>6 DEF Drain, tables
  <2> HIDE DEF pr, Goal
  <2> QED  BY <1>3, <2>1, <2>2, <2>3, <2>4
<1>7. ASSUME Destroyed(p) PROVE Goal
  <2> DEFINE pr == [proc[p] EXCEPT !.is = "down", !.inflight = {}, !.waits = {},
                                   !.live = [c \in Codes |-> None]]
  <2>1. /\ pr \in ProcRecords /\ pr.is = "down" /\ pr.inflight = {}
        /\ \A c \in Codes : pr.live[c] = None
    BY <1>2 DEF ProcRecords
  <2>2. proc[p].inflight = {}
    BY <1>2, <1>7 DEF Destroyed, DrainsAll
  <2>3. proc' = [proc EXCEPT ![p] = pr]
    BY <1>7 DEF Destroyed
  <2>4. UNCHANGED <<run, made, sessions, results, spoilt>>
    BY <1>7 DEF Destroyed, tables
  <2> HIDE DEF pr, Goal
  <2> QED  BY <1>3, <2>1, <2>2, <2>3, <2>4
<1>8. ASSUME Crash(p) PROVE Goal
  <2> DEFINE pr == [proc[p] EXCEPT !.is = "crashed", !.inflight = {},
                                   !.live = [c \in Codes |-> None]]
  <2>1. /\ pr \in ProcRecords /\ pr.is = "crashed" /\ pr.inflight = {}
        /\ \A c \in Codes : pr.live[c] = None
    BY <1>2 DEF ProcRecords
  <2>2. proc' = [proc EXCEPT ![p] = pr]
    BY <1>8 DEF Crash
  <2>3. UNCHANGED <<run, made, sessions, results>>
    BY <1>8 DEF Crash, tables
  <2>4. spoilt' = spoilt \cup {Code(w) : w \in proc[p].inflight}
    BY <1>8 DEF Crash
  <2>5. \A c \in Codes \ spoilt' : Of(c, pr.inflight) = Of(c, proc[p].inflight)
    BY <2>1, <2>4 DEF Of
  <2> HIDE DEF pr, Goal
  <2> QED  BY <1>3, <2>1, <2>2, <2>3, <2>4, <2>5
<1>9. ASSUME NEW c \in Codes, Idle(p, c) PROVE Goal
  <2> DEFINE pr == [proc[p] EXCEPT !.live[c] = None]
  <2>1. /\ pr \in ProcRecords /\ pr.inflight = proc[p].inflight /\ pr.is = "serving"
        /\ \A d \in Codes : pr.live[d] \in {None, proc[p].live[d]}
    BY <1>2, <1>9 DEF ProcRecords, Idle
  <2>2. proc' = [proc EXCEPT ![p] = pr]
    BY <1>9 DEF Idle
  <2>3. UNCHANGED <<run, made, sessions, results, spoilt>>
    BY <1>9 DEF Idle, tables
  <2> HIDE DEF pr, Goal
  <2> QED  BY <1>3, <2>1, <2>2, <2>3
<1>10. ASSUME NEW c \in Codes, Create(p, c) PROVE Goal
  <2>1. PICK q \in proc[p].definitions : Make(p, c, q)
    BY <1>10 DEF Create
  <2>2. /\ q \in Quizzes /\ UNCHANGED tables /\ spoilt' = spoilt /\ proc[p].is # "draining"
        /\ \A s \in Processes : s # p => proc[s].live[c] = None
    BY <1>2, <1>10 DEF Create, ProcRecords, Elsewhere
  <2>3. Locking'
    BY <1>2, <2>1, <2>2, MakeLocks
  <2> QED  BY <1>2, <2>1, <2>2, <2>3, MakeSettles
<1>11. ASSUME NEW c \in Codes, Restart(p, c) PROVE Goal
  <2>1. PICK r : r = proc[p].live[c]
    OBVIOUS
  <2>2. r \in 1..made /\ r \in Runs
    BY <1>11, <2>1, ArchiveAssumption DEF ArchiveAssumption, Restart, RunsTyped, Runs
  <2>3. run[r] \in RunRecords
    BY <2>2 DEF RunsTyped
  <2>4. /\ run[r].quiz \in Quizzes /\ UNCHANGED tables /\ spoilt' = spoilt
        /\ proc[p].is # "draining" /\ Make(p, c, run[r].quiz)
    BY <1>11, <2>1, <2>3 DEF Restart, RunRecords
  <2>5. \A s \in Processes : s # p => proc[s].live[c] = None
    BY <1>2, <2>1, <2>2 DEF LiveIsLatest
  <2>6. Locking'
    BY <1>2, <2>4, MakeLocks
  <2> QED  BY <1>2, <2>4, <2>5, <2>6, MakeSettles
<1>12. ASSUME NEW c \in Codes, Finish(p, c) PROVE Goal
  <2>1. \A q \in Processes : \A v \in proc'[q].inflight : v \in proc[q].inflight \/ v.at = "due"
    BY <1>12 DEF Finish, Persist, RunsTyped
  <2>2. results' = results /\ spoilt' = spoilt
    BY <1>12 DEF Finish, tables
  <2>3. Locking'
    BY <1>2, <2>1, <2>2, QuietLocking
  <2> QED  BY <1>2, <1>12, <2>3, FinishSettles
<1>13. ASSUME NEW w \in proc[p].inflight, Moves(p, w) \/ Ends(p, w) PROVE Goal
  BY <1>2, <1>13, MoveSettles, EndSettles DEF CurrentInv
<1> QED
  BY <1>1, <1>4, <1>5, <1>6, <1>7, <1>8, <1>9, <1>10, <1>11, <1>12, <1>13 DEF CurrentInv

\* Numbered standings are as many as the players.
LEMMA StandingsCounted ==
    ASSUME NEW r, run[r].played \in SUBSET Players
    PROVE  Cardinality(Standings(r)) = Cardinality(run[r].played)
<1>1. PICK S \in SUBSET Players : S = run[r].played
  OBVIOUS
<1> DEFINE row(u) == [user |-> u, rank |-> Cardinality({v \in S : v <= u}), score |-> 1, of |-> r]
<1> DEFINE T == {row(u) : u \in S}
<1> DEFINE f == [u \in S |-> row(u)]
<1>2. IsFiniteSet(S)
  BY FS_Subset, ArchiveAssumption DEF ArchiveAssumption
<1>3. \A u \in S : row(u).user = u
  OBVIOUS
<1>4. f \in Bijection(S, T)
  <2> HIDE DEF row
  <2> QED  BY <1>3 DEF Bijection, Injection, Surjection, IsInjective
<1>5. Cardinality(T) = Cardinality(S)
  <2> HIDE DEF T, f
  <2>1. ExistsBijection(S, T)
    BY <1>4 DEF ExistsBijection
  <2> QED  BY <1>2, <2>1, FS_Bijection
<1>6. Standings(r) = T
  BY <1>1 DEF Standings
<1> QED  BY <1>1, <1>5, <1>6

\* The last write due of a code is that of its latest run.
LEMMA SettledIsCurrent ==
    ASSUME RunsTyped, WritesAreDue, CurrentInv
    PROVE  ArchiveCurrent
<1> SUFFICES ASSUME NEW c \in Codes, c \notin spoilt, InFlight(c) = {},
                    {r \in 1..made : run[r].code = c} # {}
             PROVE
        LET runs == {r \in 1..made : run[r].code = c}
            last == Max(runs)
            ended == run[last].played # None
            rows == IF ended THEN Standings(last) ELSE {}
            summary == [quizId |-> run[last].quiz,
                        status |-> IF ended THEN "finished" ELSE "created",
                        participants |-> IF ended THEN Cardinality(run[last].played) ELSE 0]
        IN  /\ Results(c) = [summary |-> summary, standings |-> rows]
            /\ <<c, summary>> \in RecentSessions
  BY DEF ArchiveCurrent
<1> DEFINE runs == {r \in 1..made : run[r].code = c}
<1>1. PICK l \in 1..made : LatestIs(c, l)
  BY DEF CurrentInv, LiveIsLatest
<1>2. l \in runs /\ \A k \in runs : l >= k
  BY <1>1 DEF LatestIs, RunsTyped
<1>3. Max(runs) = l
  <2>1. runs \subseteq Int
    OBVIOUS
  <2> HIDE DEF runs
  <2>2. Max(runs) \in runs /\ \A k \in runs : Max(runs) >= k
    BY <1>2 DEF Max
  <2>3. PICK m : m = Max(runs)
    OBVIOUS
  <2>4. m \in Int /\ l \in Int /\ m >= l /\ l >= m
    BY <1>2, <2>1, <2>2, <2>3
  <2>5. m = l
    BY <2>4
  <2> QED  BY <2>3, <2>5
<1> HIDE DEF runs
<1> DEFINE ended == run[l].played # None
<1> DEFINE x == [t |-> IF ended THEN "finished" ELSE "created", of |-> l, at |-> "due", gone |-> {}]
<1>4. run[l] \in RunRecords /\ made <= MaxRuns /\ made \in Nat /\ MaxRuns \in Nat
  BY ArchiveAssumption DEF ArchiveAssumption, RunsTyped
<1>5. /\ x \in Due(c) /\ x.of = l /\ x.t = (IF ended THEN "finished" ELSE "created")
  <2>1. "due" \in Stages /\ {} \in SUBSET Rows /\ l \in Runs
    BY <1>4 DEF Stages, Runs
  <2>2. x \in Writes /\ x = Key(x)
    BY <2>1 DEF Writes, Key
  <2>3. run[l].code = c
    BY <1>1 DEF LatestIs
  <2>4. x.of = l /\ x.t = (IF ended THEN "finished" ELSE "created")
    OBVIOUS
  <2> HIDE DEF x
  <2> QED  BY <2>2, <2>3, <2>4 DEF Due
<1> HIDE DEF x
<1>6. ASSUME NEW v \in Due(c) PROVE ~Before(x, v)
  <2>1. /\ v \in Writes /\ v.of \in 1..made /\ run[v.of].code = c
        /\ v.t = "finished" => run[v.of].played # None
    BY DEF Due
  <2>2. v.of <= l /\ v.of \in Int /\ l \in Int
    BY <1>1, <2>1 DEF LatestIs
  <2>3. v.of = l => (v.t = "finished" => ended)
    BY <2>1
  <2> QED  BY <1>5, <2>2, <2>3 DEF Before
<1>7. Written(x)
  <2>1. InTurn(c)
    BY DEF CurrentInv, Settling
  <2>2. UnderWay(c) = {}
    BY DEF UnderWay
  <2> QED  BY <1>5, <1>6, <2>1, <2>2 DEF InTurn
<1>8. Code(x) = c
  BY <1>1, <1>5 DEF Code, LatestIs
<1>9. /\ sessions[c] = [quiz |-> run[l].quiz, status |-> IF ended THEN "finished" ELSE "created"]
      /\ results[c] = IF ended THEN Standings(l) ELSE {}
  BY <1>5, <1>7, <1>8 DEF Written
<1>10. sessions[c] # None
  BY <1>4, <1>9, ArchiveAssumption DEF ArchiveAssumption, RunRecords, SessionRows
<1>11. Cardinality(results[c]) = IF ended THEN Cardinality(run[l].played) ELSE 0
  BY <1>4, <1>9, StandingsCounted, FS_EmptySet DEF RunRecords
<1>12. Summary(c) = [quizId |-> run[l].quiz, status |-> IF ended THEN "finished" ELSE "created",
                     participants |-> IF ended THEN Cardinality(run[l].played) ELSE 0]
  BY <1>9, <1>11 DEF Summary
<1>13. Results(c) = [summary |-> Summary(c), standings |-> results[c]]
       /\ <<c, Summary(c)>> \in RecentSessions
  BY <1>10 DEF Results, RecentSessions
<1> QED  BY <1>3, <1>9, <1>12, <1>13 DEF runs

-----------------------------------------------------------------------------
AllInv == ArchiveInv /\ TablesTyped /\ LockedThere /\ CurrentInv

LEMMA AllInvHolds == ArchiveSpec => []AllInv
<1>1. ArchiveInit => AllInv
  <2>1. SUFFICES ASSUME ArchiveInit PROVE AllInv
    OBVIOUS
  <2>2. /\ made = 0 /\ None \notin Runs /\ \A c \in Codes : results[c] = {}
        /\ \A p \in Processes : /\ proc[p].inflight = {} /\ proc[p].is = "down"
                                /\ \A c \in Codes : proc[p].live[c] = None
    BY <2>1, ArchiveAssumption DEF ArchiveInit, ArchiveAssumption, Runs
  <2>3. LiveIsLatest /\ DrainsAll
    BY <2>2 DEF LiveIsLatest, DrainsAll
  <2>4. ASSUME NEW c PROVE InFlight(c) = {} /\ Due(c) = {} /\ Unshared(c)
    BY <2>2 DEF InFlight, Due, Unshared
  <2>5. Settling
    BY <2>4 DEF Settling, InTurn, UnderWay
  <2>6. Locking
    BY <2>2, <2>4 DEF Locking, LocksHold, OneRun
  <2>7. TablesTyped /\ LockedThere
    BY <2>1, <2>2 DEF ArchiveInit, TablesTyped, LockedThere
  <2> QED  BY <2>1, <2>3, <2>5, <2>6, <2>7, InitArchive DEF AllInv, CurrentInv
<1>2. AllInv /\ [ArchiveNext]_archiveVars => AllInv'
  <2>1. SUFFICES ASSUME AllInv, [ArchiveNext]_archiveVars
                 PROVE  TablesTyped' /\ LockedThere' /\ CurrentInv'
    BY ArchiveInductive DEF AllInv
  <2>2. CASE ArchiveNext
    BY <2>1, <2>2, TablesStep, LockedStep, CurrentStep DEF AllInv, ArchiveInv
  <2>3. CASE UNCHANGED archiveVars
    <3>1. UNCHANGED <<bank, sessions, results, proc, run, made, spoilt>>
      BY <2>3 DEF archiveVars, tables
    <3>2. TablesTyped' /\ LockedThere' /\ LiveIsLatest' /\ DrainsAll'
      BY <2>1, <3>1 DEF AllInv, CurrentInv, TablesTyped, ResultRows, LockedThere, Code,
                        LiveIsLatest, LatestIs, DrainsAll
    <3>3. \A c : InFlight(c)' = InFlight(c) /\ UnderWay(c)' = UnderWay(c)
      BY <3>1 DEF InFlight, UnderWay, Code, Key
    <3>4. ASSUME NEW c \in Codes \ spoilt' PROVE InTurn(c)' /\ Unshared(c)'
      <4>1. Due(c)' = Due(c) /\ (Unshared(c)' <=> Unshared(c))
        BY <3>1 DEF Due, Unshared, Code, Key
      <4>2. \A w : Written(w)' <=> Written(w)
        BY <3>1 DEF Written, Code, Standings
      <4> QED  BY <2>1, <3>1, <3>3, <4>1, <4>2 DEF AllInv, CurrentInv, Settling, InTurn
    <3>5. ASSUME NEW c \in Codes \ spoilt' PROVE LocksHold(c)' /\ OneRun(c)'
      BY <2>1, <3>1, <3>3 DEF AllInv, CurrentInv, Locking, LocksHold, OneRun
    <3> QED  BY <3>2, <3>4, <3>5 DEF CurrentInv, Settling, Locking
  <2> QED  BY <2>1, <2>2, <2>3
<1> QED  BY <1>1, <1>2, PTL DEF ArchiveSpec

\* What is archived under a code is of finished runs of that code, each of them with
\* every one of its players and no player twice, with other transactions between the
\* statements of each (repository.ts:148-184); of one run only, as long as no write of
\* that code failed, was lost or overtook an earlier one.
THEOREM ArchivedRunsAreWhole == ArchiveSpec => []ArchivedRunsWhole
<1>1. AllInv => ArchivedRunsWhole
  <2>1. SUFFICES ASSUME AllInv, NEW c \in Codes, NEW row \in results[c]
                 PROVE  /\ run[row.of].code = c /\ run[row.of].played # None
                        /\ Standings(row.of) \subseteq results[c]
                        /\ \A other \in results[c] :
                              /\ other.user = row.user => other = row
                              /\ other.of # row.of => c \in spoilt
    BY DEF ArchivedRunsWhole
  <2>2. /\ run[row.of].code = c /\ run[row.of].played # None
        /\ Standings(row.of) \subseteq results[c]
        /\ \A other \in results[c] : other.user = row.user => other = row
    BY <2>1 DEF AllInv, ArchiveInv, RowsWhole, WholeRuns
  <2>3. c \notin spoilt => \A other \in results[c] : other.of = row.of
    BY <2>1 DEF AllInv, CurrentInv, Locking, OneRun
  <2> QED  BY <2>2, <2>3
<1> QED  BY <1>1, AllInvHolds, PTL

\* Once the writes of a code are settled, the archive says what its last run came to,
\* whichever processes ran it, were drained and were started again (server.ts, close
\* and persist; repository.ts), unless a write failed, was lost or overtook another.
THEOREM ArchiveIsCurrent == ArchiveSpec => []ArchiveCurrent
<1>1. AllInv => ArchiveCurrent
  BY SettledIsCurrent DEF AllInv, ArchiveInv
<1> QED  BY <1>1, AllInvHolds, PTL
=============================================================================
