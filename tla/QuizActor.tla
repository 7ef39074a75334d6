----------------------------- MODULE QuizActor -----------------------------
(***************************************************************************)
(* actor/quiz-actor.ts: the single writer of one session.  It feeds the    *)
(* reducer (QuizSession) its commands, turns the events it returns into    *)
(* messages, keeps the tick, flush and idle timers, and caches the board.  *)
(*                                                                         *)
(* A message is modelled by what it tells the connection it is sent to:    *)
(* `sent[c]' is the fold of all frames sent on c while it is attached.     *)
(* Sends are in order (one socket), so this is what the client knows once  *)
(* the socket has drained.  The board is sent whole (topN is left out).    *)
(* Timers run on the monotonic clock: setting the wall clock back moves    *)
(* the wall-clock time at which they go off.                               *)
(***************************************************************************)
EXTENDS QuizSession, Sequences

CONSTANTS
    Conns,                  \* connection ids
    LeaderboardIntervalMs,
    EarlyMs                 \* a timer may go off this much before its time

ASSUME ActorAssumption ==
    /\ LeaderboardIntervalMs \in Nat /\ EarlyMs \in Nat
    /\ MaxLateMs > 0        \* setTimeout waits 1 ms at least

VARIABLES
    sock,               \* "open", or "closing": readyState is not OPEN, onClose not run
    connUser,           \* conn.userId
    conns, connsByUser,
    seq,
    tickTimer, scheduledDeadline,   \* when the timer goes off, and what for
    flushTimer, lastFlushAt,
    idleTimer,          \* armed or not
    boardDirty, boardCache,
    disposed,
    sent,               \* what each connection has been told
    archived            \* onQuizFinished's calls: the standings handed over

socketVars == <<sock, connUser, conns, connsByUser, idleTimer>>
timerVars == <<tickTimer, scheduledDeadline>>
flushVars == <<flushTimer, lastFlushAt>>
boardVars == <<boardDirty, boardCache>>
actorVars == <<socketVars, timerVars, flushVars, boardVars, seq, disposed, sent,
               archived, vars>>

Nothing == [seq |-> 0, phase |-> None, index |-> -1, until |-> None,
            board |-> <<>>, score |-> None, lagging |-> FALSE]

ActorInit ==
    /\ Init
    /\ sock = [c \in Conns |-> "open"]
    /\ connUser = [c \in Conns |-> None]
    /\ conns = {}
    /\ connsByUser = [u \in Users |-> {}]
    /\ seq = 0
    /\ tickTimer = None /\ scheduledDeadline = None
    /\ flushTimer = None /\ lastFlushAt = None
    /\ idleTimer = TRUE
    /\ boardDirty = TRUE /\ boardCache = None
    /\ disposed = FALSE
    /\ sent = [c \in Conns |-> Nothing]
    /\ archived = <<>>

LaterOf(a, b) == IF a > b THEN a ELSE b

-----------------------------------------------------------------------------
(* The cached ranking.                                                     *)

Entry(s) == [userId |-> s.userId, name |-> s.name, score |-> s.score,
             streak |-> s.streak]
Entries == [i \in 1..Cardinality(joined) |-> Entry(Board[i])]

\* rankedBoard() after the command: what it returns and the cache it leaves.
\* `dirty' is boardDirty as the command left it.
RankedOnce(dirty) ==            \* mutant: ranked once, whatever happens later
    IF dirty /\ boardCache = None THEN Entries' ELSE boardCache
RankedBoard(dirty) == IF dirty THEN Entries' ELSE boardCache
UseBoard(dirty) == boardCache' = RankedBoard(dirty) /\ boardDirty' = FALSE
LeaveClean(dirty) ==            \* mutant: dispatch() does not mark the board dirty
    UNCHANGED boardVars
LeaveBoard(dirty) == boardDirty' = dirty /\ UNCHANGED boardCache

\* byUser.get(u)?.score
ScoreOn(board, u) ==
    LET own == {i \in DOMAIN board : board[i].userId = u}
    IN  IF own = {} THEN None ELSE board[CHOOSE i \in own : TRUE].score

-----------------------------------------------------------------------------
(* Sending.  s maps each connection to what it has been told.              *)

Reached(cs) == {c \in cs : sock[c] = "open"}

\* Hand every connection of `to' what `tell' makes of what it knows.
Told(s, to, tell(_, _)) ==
    [c \in Conns |-> IF c \in Reached(to) THEN tell(c, s[c]) ELSE s[c]]

\* What a client counts down to in the phase the command leads to.
Countdown ==
    CASE phase' = "question" -> questionEndsAt'
      [] phase' \in {"lobby", "reveal"} -> phaseUntil'
      [] phase' = "finished" -> None

\* The question a snapshot or a frame leaves the recipient with: one only while
\* it is open or revealed.
Asked == IF phase' \in {"question", "reveal"} THEN currentIndex' ELSE -1

\* broadcast(): lobby, question and question_end; quiz_end's phase.
TellPhase(n, c, k) ==
    [k EXCEPT !.seq = n, !.phase = phase', !.index = Asked,
              !.until = Countdown]

\* leaderboard and quiz_end, with the recipient's own entry.
TellBoard(n, board, c, k) ==
    [k EXCEPT !.seq = n, !.board = board, !.lagging = FALSE,
              !.score = ScoreOn(board, connUser[c])]

MissBoard(c, k) == [k EXCEPT !.lagging = TRUE]

TellScore(u, c, k) == [k EXCEPT !.score = score'[u]]

\* answer_result goes to every connection of the user.
OnlyOneTab(s, u) ==             \* mutant: one of the user's connections
    LET tell(c, k) == TellScore(u, c, k)
    IN  Told(s, IF connsByUser[u] = {} THEN {}
                ELSE {CHOOSE c \in connsByUser[u] : TRUE}, tell)
Unicast(s, u) ==
    LET tell(c, k) == TellScore(u, c, k) IN Told(s, connsByUser[u], tell)

Broadcast(s, n, to) == LET tell(c, k) == TellPhase(n, c, k) IN Told(s, to, tell)

\* broadcastWithYou('leaderboard'): the connections in `drop' are under
\* backpressure and skip it.
BroadcastBoard(s, n, to, board, drop) ==
    LET tell(c, k) == IF c \in drop THEN MissBoard(c, k) ELSE TellBoard(n, board, c, k)
    IN  Told(s, to, tell)

-----------------------------------------------------------------------------
(* Timers.                                                                 *)

\* reschedule(), the deadline being the one after the command.
Reschedule(timer, scheduled) ==
    IF NextDeadline' = scheduled
    THEN tickTimer' = timer /\ scheduledDeadline' = scheduled
    ELSE /\ scheduledDeadline' = NextDeadline'
         /\ tickTimer' = IF NextDeadline' = None THEN None
                         ELSE LaterOf(now + 1, NextDeadline')

\* scheduleFlush()
ScheduleLeadingOnly ==          \* mutant: within the interval the request is lost
    /\ flushTimer' =
           IF flushTimer # None THEN flushTimer
           ELSE IF lastFlushAt = None THEN now
           ELSE IF now >= lastFlushAt + LeaderboardIntervalMs THEN now ELSE None
    /\ UNCHANGED lastFlushAt
ScheduleFlush ==
    /\ flushTimer' =
           IF flushTimer # None THEN flushTimer
           ELSE IF lastFlushAt = None THEN now
           ELSE LaterOf(now, lastFlushAt + LeaderboardIntervalMs)
    /\ UNCHANGED lastFlushAt

\* flushLeaderboard(), but for the broadcast.
FlushKeepsTimer ==              \* mutant: the pending timer is not cleared
    UNCHANGED flushTimer /\ lastFlushAt' = now
FlushNow == flushTimer' = None /\ lastFlushAt' = now

-----------------------------------------------------------------------------
(* Connections.                                                            *)

\* The socket goes away: sends fail from here on, onClose comes later.
CloseSocket(c) ==
    /\ ~disposed
    /\ sock[c] = "open" /\ connUser[c] # None
    /\ sock' = [sock EXCEPT ![c] = "closing"]
    /\ sent' = [sent EXCEPT ![c] = Nothing]
    /\ UNCHANGED <<connUser, conns, connsByUser, idleTimer, timerVars, flushVars,
                   boardVars, seq, disposed, archived, vars>>

\* detach(conn)
DetachUser(c) ==                \* mutant: drops the user though other tabs are open
    /\ conns' = conns \ {c}
    /\ connsByUser' = IF c \in conns
                      THEN [u \in Users \ {connUser[c]} |-> connsByUser[u]]
                      ELSE connsByUser
    /\ idleTimer' = (idleTimer \/ (c \in conns /\ conns = {c}))
DetachNoIdle(c) ==              \* mutant: nobody connected, and no idle timer
    /\ conns' = conns \ {c}
    /\ connsByUser' = IF c \in conns
                      THEN [connsByUser EXCEPT ![connUser[c]] = @ \ {c}]
                      ELSE connsByUser
    /\ UNCHANGED idleTimer
Detach(c) ==
    /\ conns' = conns \ {c}
    /\ connsByUser' = IF c \in conns
                      THEN [connsByUser EXCEPT ![connUser[c]] = @ \ {c}]
                      ELSE connsByUser
    /\ idleTimer' = (idleTimer \/ (c \in conns /\ conns = {c}))

\* onClose: the transport detaches the connection.  The id then stands for the
\* next socket to be opened.
OnClose(c) ==
    /\ sock[c] = "closing"
    /\ sock' = [sock EXCEPT ![c] = "open"]
    /\ connUser' = [connUser EXCEPT ![c] = None]
    /\ Detach(c)
    /\ UNCHANGED <<timerVars, flushVars, boardVars, seq, disposed, sent, archived, vars>>

\* The socket joins another session: detached here, conn.userId stays.
Leave(c) ==
    /\ sock[c] = "open" /\ c \in conns
    /\ Detach(c)
    /\ sent' = [sent EXCEPT ![c] = Nothing]
    /\ UNCHANGED <<sock, connUser, timerVars, flushVars, boardVars, seq, disposed,
                   archived, vars>>

-----------------------------------------------------------------------------
(* Commands.                                                               *)

\* The maps after conn c is attached as u: c first leaves the user it was.
AttachOnly(c, u) ==             \* mutant: no detach when the user changes
    /\ connUser' = [connUser EXCEPT ![c] = u]
    /\ conns' = conns \cup {c}
    /\ connsByUser' = [connsByUser EXCEPT ![u] = @ \cup {c}]
    /\ idleTimer' = FALSE
    /\ UNCHANGED sock
Attach(c, u) ==
    LET moved == connUser[c] # None /\ connUser[c] # u /\ c \in conns
    IN  /\ connUser' = [connUser EXCEPT ![c] = u]
        /\ conns' = conns \cup {c}
        /\ connsByUser' = [v \in Users |->
               IF v = u THEN connsByUser[v] \cup {c}
               ELSE IF moved /\ v = connUser[c] THEN connsByUser[v] \ {c}
               ELSE connsByUser[v]]
        /\ idleTimer' = FALSE
        /\ UNCHANGED sock

\* The snapshot, built after the command and before any event is sent.
WelcomeWithoutEnd(u, board) ==  \* mutant: no endsAt for who joins mid-question
    [seq |-> seq, phase |-> phase', index |-> Asked, until |-> phaseUntil',
     board |-> board, score |-> ScoreOn(board, u), lagging |-> FALSE]
TellWelcome(u, board) ==
    [seq |-> seq, phase |-> phase', index |-> Asked,
     until |-> IF phase' = "reveal" THEN None ELSE Countdown,
     board |-> board, score |-> ScoreOn(board, u), lagging |-> FALSE]

\* Sent to the joining connection before any event is.
Welcome(s, c, u, board) ==
    LET tell(d, k) == TellWelcome(u, board) IN Told(s, {c}, tell)

\* join(conn, name, userId) with the events player_joined and lobby_opened.
JoinConn(c, u, n) ==
    /\ ~disposed
    /\ Attach(c, u)
    /\ Join(u, n)
    /\ Reschedule(tickTimer, scheduledDeadline)
    /\ LET isNew == u \notin joined
           opened == phaseUntil' # phaseUntil
           welcomed == Welcome(sent, c, u, RankedBoard(boardDirty \/ isNew))
       IN  /\ UseBoard(boardDirty \/ isNew)
           /\ IF isNew THEN ScheduleFlush ELSE UNCHANGED flushVars
           /\ seq' = IF opened THEN seq + 1 ELSE seq
           /\ sent' = IF opened THEN Broadcast(welcomed, seq + 1, conns')
                                ELSE welcomed
    /\ UNCHANGED <<disposed, archived>>

\* answer(conn, questionId, choice), with the events answer_accepted and, for
\* the last answer awaited, question_ended.
AnswerConn(c, q, correct, drop) ==
    /\ ~disposed
    /\ c \in conns
    /\ LET u == connUser[c] IN
        /\ AnswerAccepted(u, q, correct)
        /\ Reschedule(tickTimer, scheduledDeadline)
        /\ LET changed == score'[u] # score[u] \/ Result(u, q, correct).streakAfter # streak[u]
               ended == phase' = "reveal"
               told == Unicast(sent, u)
           IN  IF ended
               THEN /\ FlushNow
                    /\ UseBoard(TRUE)
                    /\ seq' = seq + 2
                    /\ sent' = BroadcastBoard(Broadcast(told, seq + 1, conns),
                                              seq + 2, conns, RankedBoard(TRUE), drop)
               ELSE /\ drop = {}
                    /\ IF changed THEN ScheduleFlush ELSE UNCHANGED flushVars
                    /\ LeaveBoard(boardDirty \/ changed)
                    /\ seq' = seq
                    /\ sent' = told
    /\ UNCHANGED <<socketVars, disposed, archived>>

\* An answer the reducer turns down: the reply still carries the score.
AnswerRejected(c, q) ==
    /\ ~disposed
    /\ c \in conns
    /\ RejectReason(connUser[c], q) # None
    /\ UNCHANGED vars
    /\ Reschedule(tickTimer, scheduledDeadline)
    /\ sent' = Unicast(sent, connUser[c])
    /\ UNCHANGED <<socketVars, flushVars, boardVars, seq, disposed, archived>>

\* start(), with question_started.
StartActor ==
    /\ ~disposed
    /\ Start
    /\ Reschedule(tickTimer, scheduledDeadline)
    /\ seq' = seq + 1
    /\ sent' = Broadcast(sent, seq + 1, conns)
    /\ UNCHANGED <<socketVars, flushVars, boardVars, disposed, archived>>

-----------------------------------------------------------------------------
(* Timer callbacks.                                                        *)

Due(timer) == timer # None /\ now + EarlyMs >= timer

\* The tick timer clears itself and its deadline, then ticks the reducer.
TickTimerForgets ==             \* mutant: scheduledDeadline outlives the timer
    /\ Due(tickTimer) /\ ~disposed
    /\ ~TickDue
    /\ UNCHANGED vars
    /\ Reschedule(None, scheduledDeadline)
    /\ UNCHANGED <<socketVars, flushVars, boardVars, seq, disposed, sent, archived>>
TickTimerTooEarly ==
    /\ Due(tickTimer) /\ ~disposed
    /\ ~TickDue
    /\ UNCHANGED vars
    /\ Reschedule(None, None)
    /\ UNCHANGED <<socketVars, flushVars, boardVars, seq, disposed, sent, archived>>

TickTimerOpens ==           \* question_started
    /\ Due(tickTimer) /\ ~disposed
    /\ TickLobby \/ (TickReveal /\ phase' = "question")
    /\ Reschedule(None, None)
    /\ seq' = seq + 1
    /\ sent' = Broadcast(sent, seq + 1, conns)
    /\ UNCHANGED <<socketVars, flushVars, boardVars, disposed, archived>>

TickTimerEnds(drop) ==      \* question_ended
    /\ Due(tickTimer) /\ ~disposed
    /\ TickQuestion
    /\ Reschedule(None, None)
    /\ FlushNow
    /\ IF conns = {}
       THEN /\ LeaveBoard(TRUE) /\ seq' = seq + 1 /\ sent' = sent
       ELSE /\ UseBoard(TRUE)
            /\ seq' = seq + 2
            /\ sent' = BroadcastBoard(Broadcast(sent, seq + 1, conns), seq + 2, conns,
                                      RankedBoard(TRUE), drop)
    /\ UNCHANGED <<socketVars, disposed, archived>>

\* quiz_finished: quiz_end is not droppable, and the standings are archived.
TickTimerFinishes ==
    /\ Due(tickTimer) /\ ~disposed
    /\ TickReveal /\ phase' = "finished"
    /\ Reschedule(None, None)
    /\ UseBoard(TRUE)
    /\ seq' = IF conns = {} THEN seq ELSE seq + 1
    /\ sent' = BroadcastBoard(Broadcast(sent, seq + 1, conns), seq + 1, conns,
                              RankedBoard(TRUE), {})
    /\ archived' = Append(archived, RankedBoard(TRUE))
    /\ UNCHANGED <<socketVars, flushVars, disposed>>

FlushTimer(drop) ==
    /\ Due(flushTimer) /\ ~disposed
    /\ UNCHANGED vars
    /\ FlushNow
    /\ IF conns = {}
       THEN UNCHANGED <<boardVars, seq, sent>>
       ELSE /\ UseBoard(boardDirty)
            /\ seq' = seq + 1
            /\ sent' = BroadcastBoard(sent, seq + 1, conns, RankedBoard(boardDirty), drop)
    /\ UNCHANGED <<socketVars, timerVars, disposed, archived>>

\* dispose(): every timer is cleared and every connection closed.
DisposeActor ==
    /\ disposed' = TRUE
    /\ tickTimer' = None /\ flushTimer' = None /\ idleTimer' = FALSE
    /\ sock' = [c \in Conns |-> IF c \in Reached(conns) THEN "closing" ELSE sock[c]]
    /\ conns' = {} /\ connsByUser' = [u \in Users |-> {}]
    /\ sent' = [c \in Conns |-> Nothing]
    /\ UNCHANGED <<connUser, scheduledDeadline, lastFlushAt, boardVars, seq, archived,
                   vars>>

\* By the registry: restart, delete or shutdown.
Dispose == ~disposed /\ DisposeActor

\* Nobody has been connected for idleTtlMs (its length is left out).
IdleTimer == ~disposed /\ idleTimer /\ conns = {} /\ DisposeActor

\* GET of the leaderboard: ranks if the cache is dirty.
ReadLeaderboard ==
    /\ ~disposed /\ boardDirty
    /\ UNCHANGED vars
    /\ UseBoard(TRUE)
    /\ UNCHANGED <<socketVars, timerVars, flushVars, seq, disposed, sent, archived>>

-----------------------------------------------------------------------------
(* Time.                                                                   *)

InTime(timer) == timer # None => now < timer + MaxLateMs

ActorAdvance ==
    /\ ~disposed
    /\ InTime(tickTimer) /\ InTime(flushTimer)
    /\ (tickTimer = None /\ flushTimer = None)
           => lastFlushAt # None /\ now < lastFlushAt + IdleMs
    /\ now' = now + 1
    /\ UNCHANGED clockBacks
    /\ UNCHANGED <<playerVars, phaseVars, socketVars, timerVars, flushVars, boardVars,
                   seq, disposed, sent, archived>>

SetBack(timer) == IF timer = None THEN None ELSE timer - 1

ActorClockBack ==
    /\ ~disposed
    /\ ClockBack
    /\ tickTimer' = SetBack(tickTimer) /\ flushTimer' = SetBack(flushTimer)
    /\ UNCHANGED <<scheduledDeadline, lastFlushAt, socketVars, boardVars, seq, disposed,
                   sent, archived>>

-----------------------------------------------------------------------------
FireTick ==
    \/ TickTimerTooEarly \/ TickTimerOpens \/ TickTimerFinishes
    \/ \E drop \in SUBSET conns : TickTimerEnds(drop)
FireFlush == \E drop \in SUBSET conns : FlushTimer(drop)

ActorNext ==
    \/ \E c \in Conns : CloseSocket(c) \/ OnClose(c) \/ Leave(c)
    \/ \E c \in Conns, u \in Users, n \in Names : JoinConn(c, u, n)
    \/ \E c \in Conns, q \in Questions, b \in BOOLEAN, drop \in SUBSET conns :
            AnswerConn(c, q, b, drop)
    \/ \E c \in Conns, q \in Questions : AnswerRejected(c, q)
    \/ StartActor \/ FireTick \/ FireFlush
    \/ Dispose \/ IdleTimer \/ ReadLeaderboard
    \/ ActorAdvance \/ ActorClockBack

\* The event loop runs a timer that is due, and time passes.
ActorFairness ==
    WF_actorVars(FireTick) /\ WF_actorVars(FireFlush) /\ WF_actorVars(ActorAdvance)

ActorSpec == ActorInit /\ [][ActorNext]_actorVars
FairActorSpec == ActorSpec /\ ActorFairness

-----------------------------------------------------------------------------
(***************************************************************************)
(* Properties                                                              *)
(***************************************************************************)

\* The types of the actor's fields (quiz-actor.ts:58-74).
ActorTypeOK ==
    /\ TypeOK
    /\ sock \in [Conns -> {"open", "closing"}]
    /\ connUser \in [Conns -> Users \cup {None}]
    /\ conns \subseteq Conns
    /\ connsByUser \in [Users -> SUBSET Conns]
    /\ seq \in Nat
    /\ tickTimer \in Int \cup {None} /\ scheduledDeadline \in Int \cup {None}
    /\ flushTimer \in Int \cup {None} /\ lastFlushAt \in Int \cup {None}
    /\ idleTimer \in BOOLEAN /\ boardDirty \in BOOLEAN /\ disposed \in BOOLEAN

\* reschedule() skips when the deadline is the one already scheduled, and the
\* tick callback ignores early ticks: still a live actor has a timer armed
\* exactly while a deadline is pending, and for that deadline.
TimerMatchesDeadline ==
    ~disposed => /\ scheduledDeadline = NextDeadline
                 /\ tickTimer = None <=> NextDeadline = None

\* The two connection maps never disagree: a message unicast to a user reaches
\* all of that user's attached connections and no one else's, and whoever is
\* attached is a player.
ConnMapsAgree ==
    /\ \A u \in Users : connsByUser[u] = {c \in conns : connUser[c] = u}
    /\ \A c \in conns : connUser[c] \in joined

\* A session is on its way to be disposed exactly while nobody is connected.
IdleTimerIffNobody == ~disposed => (idleTimer <=> conns = {})

\* What of an entry makes the ranking: all but the display name.
Ranked(board) ==
    [i \in DOMAIN board |-> [userId |-> board[i].userId, score |-> board[i].score,
                             streak |-> board[i].streak]]

\* The cached ranking, which welcome snapshots, broadcasts and REST reads use,
\* is never out of date in who is listed, where, with what score and streak.
CachedBoardFresh == ~boardDirty => Ranked(boardCache) = Ranked(Entries)

\* Snapshot-then-stream: at every moment the frames sent on an attached
\* connection add up to the session's phase, to the question that is open or
\* revealed (and no question before or after the game), to its countdown, and to
\* its sequence number unless a leaderboard was skipped on it.
ToldWhatIs ==
    \A c \in Reached(conns) :
        /\ sent[c].phase = phase
        /\ sent[c].index = IF phase \in {"question", "reveal"} THEN currentIndex ELSE -1
        /\ phase = "lobby" => sent[c].until = phaseUntil
        /\ phase = "question" => sent[c].until = questionEndsAt
        /\ sent[c].seq <= seq
        /\ sent[c].seq < seq => sent[c].lagging

\* Every tab of a player shows the player's score as it is, whichever tab the
\* answer came from and whatever board was ranked or skipped in between.
OwnScoreTold ==
    \A c \in Reached(conns) : sent[c].score = score[connUser[c]]

\* Coalescing loses nothing: a connection whose board is out of date has a
\* flush coming, or skipped one under backpressure.
StaleBoardHasFlushPending ==
    ~disposed => \A c \in Reached(conns) :
        \/ Ranked(sent[c].board) = Ranked(Entries)
        \/ flushTimer # None
        \/ sent[c].lagging

\* A coalesced flush comes a full interval after whatever flush was before it
\* (less what the clock was set back meanwhile).
CoalescedFlushSpaced ==
    flushTimer # None /\ lastFlushAt # None
        => flushTimer >= lastFlushAt + LeaderboardIntervalMs - clockBacks

\* onQuizFinished runs once per session, when it is over, and the standings it
\* archives are final: nothing scores afterwards.
ArchivedOnceFinal ==
    /\ Len(archived) = IF phase = "finished" THEN 1 ELSE 0
    /\ \A i \in DOMAIN archived : \A j \in DOMAIN archived[i] :
           archived[i][j].score = score[archived[i][j].userId]

\* The actor adds nothing to and skips nothing of the reducer: every step of
\* it is a step of the session or leaves the session alone.
ActorDrivesSession == AnyClockSpec

\* A session with a player in it gets to its results unless it is disposed.
QuizRunsToEnd == joined # {} ~> (phase = "finished" \/ disposed)

\* Not kept by the code.  The ranking is cached until the state changes
\* (docs/DESIGN.md:325): a clean cache would be the board, names included, but a
\* rejoin under a new name leaves it clean (quiz-actor.ts:439).
CachedBoardExact == ~boardDirty => boardCache = Entries

\* Not kept by the code.  The board is pushed at most once per
\* leaderboardIntervalMs (quiz-actor.ts:11-12), but the end of a question flushes
\* at once (quiz-actor.ts:269).
AtMostOneFlushPerInterval ==
    [][lastFlushAt' # lastFlushAt /\ lastFlushAt # None
        => lastFlushAt' >= lastFlushAt + LeaderboardIntervalMs]_actorVars
=============================================================================
