-------------------------- MODULE QuizActorProofs --------------------------
(***************************************************************************)
(* Theorems about the actor, for any players, connections, questions,      *)
(* rules, delays of timers and settings of the clock.                      *)
(***************************************************************************)
EXTENDS QuizActor, QuizSessionProofs, RulesProofs

-----------------------------------------------------------------------------
\* A step of the actor is one command of the session, a step of the clock, or
\* leaves the session alone.
LEMMA SessionStep == TypeOK /\ [ActorNext]_actorVars => [Command \/ AnyClock]_vars
<1> SUFFICES ASSUME TypeOK, [ActorNext]_actorVars PROVE [Command \/ AnyClock]_vars
  OBVIOUS
<1>1. ASSUME NEW c \in Conns, CloseSocket(c) \/ OnClose(c) \/ Leave(c)
      PROVE  UNCHANGED vars
  BY <1>1 DEF CloseSocket, OnClose, Leave
<1>2. ASSUME NEW c \in Conns, NEW u \in Users, NEW n \in Names, JoinConn(c, u, n)
      PROVE  Command
  BY <1>2 DEF JoinConn, Command
<1>3. ASSUME NEW c \in Conns, NEW q \in Questions, NEW b \in BOOLEAN, NEW drop,
             AnswerConn(c, q, b, drop)
      PROVE  Command
  <2>1. AnswerAccepted(connUser[c], q, b)
    BY <1>3 DEF AnswerConn
  <2>2. connUser[c] \in Users
    BY <2>1 DEF AnswerAccepted, TypeOK
  <2> QED
    BY <2>1, <2>2 DEF Command
<1>4. ASSUME NEW c \in Conns, NEW q \in Questions, AnswerRejected(c, q)
      PROVE  UNCHANGED vars
  BY <1>4 DEF AnswerRejected
<1>5. CASE StartActor
  BY <1>5 DEF StartActor, Command
<1>6. CASE FireTick
  BY <1>6 DEF FireTick, TickTimerTooEarly, TickTimerOpens, TickTimerFinishes,
              TickTimerEnds, Command, Tick
<1>7. CASE FireFlush
  BY <1>7 DEF FireFlush, FlushTimer
<1>8. CASE Dispose \/ IdleTimer \/ ReadLeaderboard
  BY <1>8 DEF Dispose, IdleTimer, DisposeActor, ReadLeaderboard
<1>9. CASE ActorAdvance \/ ActorClockBack
  BY <1>9 DEF ActorAdvance, ActorClockBack, ClockBack, AnyClock, TypeOK
<1>10. CASE UNCHANGED actorVars
  BY <1>10 DEF actorVars
<1> QED
  BY <1>1, <1>2, <1>3, <1>4, <1>5, <1>6, <1>7, <1>8, <1>9, <1>10 DEF ActorNext

\* The actor drives the session by the reducer alone, so every theorem about
\* the session under any clock is one about the actor.
THEOREM ActorImplementsSession == ActorSpec => ActorDrivesSession
<1>1. ActorInit => Init
  BY DEF ActorInit
<1>2. TypeOK /\ [ActorNext]_actorVars => TypeOK'
  BY SessionStep, TypeStep
<1> QED
  BY <1>1, <1>2, SessionStep, InitType, PTL
     DEF ActorSpec, ActorDrivesSession, AnyClockSpec

\* What the session's theorems say of a running actor: the safety of the game,
\* distinct tie-breaks, scores that are sums, streaks that are runs, and open
\* questions that await someone.
THEOREM ActorKeepsSessionInvariants ==
    ActorSpec => /\ []TypeOK /\ []ScoreSeqUnique /\ []ScoreIsSum /\ []StreakIsRun
                 /\ []OpenQuestionAwaitsSomeone /\ GameSafety
  BY ActorImplementsSession, TypeCorrect, ScoreSeqsUnique, ScoresAreSums, StreaksAreRuns,
     OpenQuestionAwaits, RefinesGame DEF ActorDrivesSession

-----------------------------------------------------------------------------
\* reschedule() leaves a well-typed timer and deadline.
LEMMA RescheduleType ==
    ASSUME TypeOK, TypeOK',
           tickTimer \in Int \cup {None}, scheduledDeadline \in Int \cup {None},
           Reschedule(tickTimer, scheduledDeadline) \/ Reschedule(None, None)
    PROVE  tickTimer' \in Int \cup {None} /\ scheduledDeadline' \in Int \cup {None}
<1>1. NextDeadline' \in Int \cup {None} /\ now \in Int
  BY SessionAssumption DEF NextDeadline, TypeOK, Phases
<1> QED
  BY <1>1 DEF Reschedule, LaterOf

\* So do the requests for a flush and the flush itself.
LEMMA FlushType ==
    ASSUME now \in Int, flushTimer \in Int \cup {None}, lastFlushAt \in Int \cup {None},
           ScheduleFlush \/ FlushNow \/ UNCHANGED flushVars
    PROVE  flushTimer' \in Int \cup {None} /\ lastFlushAt' \in Int \cup {None}
<1>1. LeaderboardIntervalMs \in Int
  BY ActorAssumption
<1> QED
  BY <1>1 DEF ScheduleFlush, FlushNow, flushVars, LaterOf

\* Attaching and detaching keep the connection maps maps of connections.
LEMMA SocketType ==
    ASSUME connUser \in [Conns -> Users \cup {None}], conns \subseteq Conns,
           connsByUser \in [Users -> SUBSET Conns], idleTimer \in BOOLEAN,
           NEW c \in Conns,
           Detach(c) \/ \E u \in Users : Attach(c, u)
    PROVE  /\ conns' \subseteq Conns /\ connsByUser' \in [Users -> SUBSET Conns]
           /\ idleTimer' \in BOOLEAN
<1>1. CASE Detach(c)
  <2>1. conns' \subseteq Conns /\ connsByUser' \in [Users -> SUBSET Conns]
    BY <1>1 DEF Detach
  <2>2. idleTimer' \in BOOLEAN
    BY <1>1, Zenon DEF Detach
  <2> QED
    BY <2>1, <2>2
<1>2. ASSUME NEW u \in Users, Attach(c, u)
      PROVE  /\ conns' \subseteq Conns /\ connsByUser' \in [Users -> SUBSET Conns]
             /\ idleTimer' \in BOOLEAN
  <2>1. /\ conns' = conns \cup {c} /\ idleTimer' = FALSE
        /\ connsByUser' \in [Users -> SUBSET Conns]
    BY <1>2 DEF Attach
  <2> QED
    BY <2>1
<1> QED
  BY <1>1, <1>2

LEMMA ActorTypeStep == ActorTypeOK /\ [ActorNext]_actorVars => ActorTypeOK'
<1> SUFFICES ASSUME ActorTypeOK, [ActorNext]_actorVars PROVE ActorTypeOK'
  OBVIOUS
<1>1. TypeOK /\ TypeOK'
  BY SessionStep, TypeStep DEF ActorTypeOK
<1>2. /\ tickTimer \in Int \cup {None} /\ scheduledDeadline \in Int \cup {None}
      /\ flushTimer \in Int \cup {None} /\ lastFlushAt \in Int \cup {None}
      /\ now \in Int /\ seq \in Nat
  BY <1>1 DEF ActorTypeOK, TypeOK
<1> DEFINE Timers == tickTimer' \in Int \cup {None} /\ scheduledDeadline' \in Int \cup {None}
           Flush == flushTimer' \in Int \cup {None} /\ lastFlushAt' \in Int \cup {None}
<1>3. Reschedule(tickTimer, scheduledDeadline) \/ Reschedule(None, None) => Timers
  BY <1>1, <1>2, RescheduleType
<1>4. ScheduleFlush \/ FlushNow \/ UNCHANGED flushVars => Flush
  BY <1>2, FlushType
<1>5. ASSUME NEW c \in Conns, CloseSocket(c) PROVE ActorTypeOK'
  BY <1>1, <1>5 DEF CloseSocket, ActorTypeOK, timerVars, flushVars, boardVars
<1>6. ASSUME NEW c \in Conns, OnClose(c) PROVE ActorTypeOK'
  <2>1. Detach(c) /\ connUser' = [connUser EXCEPT ![c] = None]
        /\ sock' = [sock EXCEPT ![c] = "open"]
        /\ UNCHANGED <<timerVars, flushVars, boardVars, seq, disposed>>
    BY <1>6 DEF OnClose
  <2> QED
    BY <1>1, <2>1, SocketType DEF ActorTypeOK, timerVars, flushVars, boardVars
<1>7. ASSUME NEW c \in Conns, Leave(c) PROVE ActorTypeOK'
  <2>1. Detach(c)
        /\ UNCHANGED <<sock, connUser, timerVars, flushVars, boardVars, seq, disposed>>
    BY <1>7 DEF Leave
  <2> QED
    BY <1>1, <2>1, SocketType DEF ActorTypeOK, timerVars, flushVars, boardVars
<1>8. ASSUME NEW c \in Conns, NEW u \in Users, NEW n \in Names, JoinConn(c, u, n)
      PROVE  ActorTypeOK'
  <2>1. /\ Attach(c, u) /\ Reschedule(tickTimer, scheduledDeadline)
        /\ ScheduleFlush \/ UNCHANGED flushVars
        /\ boardDirty' = FALSE /\ seq' \in {seq, seq + 1} /\ disposed' = disposed
    BY <1>8 DEF JoinConn, UseBoard
  <2>2. connUser' \in [Conns -> Users \cup {None}] /\ sock' = sock
    BY <2>1 DEF Attach, ActorTypeOK
  <2>3. /\ conns' \subseteq Conns /\ connsByUser' \in [Users -> SUBSET Conns]
        /\ idleTimer' \in BOOLEAN
    BY <2>1, SocketType DEF ActorTypeOK
  <2>4. seq' \in Nat
    BY <1>2, <2>1
  <2> QED
    BY <1>1, <1>3, <1>4, <2>1, <2>2, <2>3, <2>4 DEF ActorTypeOK
<1>9. ASSUME NEW c \in Conns, NEW q \in Questions, NEW b \in BOOLEAN, NEW drop,
             AnswerConn(c, q, b, drop)
      PROVE  ActorTypeOK'
  <2>1. /\ Reschedule(tickTimer, scheduledDeadline)
        /\ FlushNow \/ ScheduleFlush \/ UNCHANGED flushVars
        /\ boardDirty' \in BOOLEAN /\ seq' \in {seq, seq + 2}
        /\ UNCHANGED <<socketVars, disposed>>
    BY <1>9 DEF AnswerConn, UseBoard, LeaveBoard, ActorTypeOK
  <2>2. seq' \in Nat
    BY <1>2, <2>1
  <2> QED
    BY <1>1, <1>3, <1>4, <2>1, <2>2 DEF ActorTypeOK, socketVars
<1>10. ASSUME NEW c \in Conns, NEW q \in Questions, AnswerRejected(c, q)
       PROVE  ActorTypeOK'
  BY <1>1, <1>3, <1>4, <1>10 DEF AnswerRejected, ActorTypeOK, socketVars, boardVars
<1>11. CASE StartActor \/ TickTimerTooEarly \/ TickTimerOpens
  <2>1. /\ Reschedule(tickTimer, scheduledDeadline) \/ Reschedule(None, None)
        /\ seq' \in {seq, seq + 1}
        /\ UNCHANGED <<socketVars, flushVars, boardVars, disposed>>
    BY <1>11 DEF StartActor, TickTimerTooEarly, TickTimerOpens
  <2>2. seq' \in Nat
    BY <1>2, <2>1
  <2> QED
    BY <1>1, <1>3, <1>4, <2>1, <2>2 DEF ActorTypeOK, socketVars, boardVars
<1>12. ASSUME NEW drop, TickTimerEnds(drop) \/ TickTimerFinishes PROVE ActorTypeOK'
  <2>1. /\ Reschedule(None, None)
        /\ FlushNow \/ UNCHANGED flushVars
        /\ boardDirty' \in BOOLEAN /\ seq' \in {seq, seq + 1, seq + 2}
        /\ UNCHANGED <<socketVars, disposed>>
    BY <1>12 DEF TickTimerEnds, TickTimerFinishes, UseBoard, LeaveBoard
  <2>2. seq' \in Nat
    BY <1>2, <2>1
  <2> QED
    BY <1>1, <1>3, <1>4, <2>1, <2>2 DEF ActorTypeOK, socketVars
<1>13. ASSUME NEW drop, FlushTimer(drop) PROVE ActorTypeOK'
  <2>1. /\ FlushNow /\ boardDirty' \in BOOLEAN /\ seq' \in {seq, seq + 1}
        /\ UNCHANGED <<socketVars, timerVars, disposed>>
    BY <1>13 DEF FlushTimer, UseBoard, boardVars, ActorTypeOK
  <2>2. seq' \in Nat
    BY <1>2, <2>1
  <2> QED
    BY <1>1, <1>4, <2>1, <2>2 DEF ActorTypeOK, socketVars, timerVars
<1>14. CASE DisposeActor
  BY <1>1, <1>14 DEF DisposeActor, ActorTypeOK, boardVars
<1>15. CASE ReadLeaderboard
  BY <1>1, <1>15 DEF ReadLeaderboard, UseBoard, ActorTypeOK, socketVars, timerVars,
                     flushVars
<1>16. CASE ActorAdvance
  BY <1>1, <1>16 DEF ActorAdvance, ActorTypeOK, socketVars, timerVars, flushVars,
                     boardVars
<1>17. CASE ActorClockBack
  BY <1>1, <1>2, <1>17 DEF ActorClockBack, SetBack, ActorTypeOK, socketVars, boardVars
<1>18. CASE UNCHANGED actorVars
  BY <1>1, <1>18 DEF actorVars, ActorTypeOK, socketVars, timerVars, flushVars, boardVars
<1> QED
  BY <1>5, <1>6, <1>7, <1>8, <1>9, <1>10, <1>11, <1>12, <1>13, <1>14, <1>15, <1>16,
     <1>17, <1>18
     DEF ActorNext, FireTick, FireFlush, Dispose, IdleTimer

\* The fields of the actor keep their types.
THEOREM ActorTypeCorrect == ActorSpec => []ActorTypeOK
<1>1. ActorInit => ActorTypeOK
  <2> SUFFICES ASSUME ActorInit PROVE ActorTypeOK
    OBVIOUS
  <2>1. TypeOK
    BY InitType DEF ActorInit
  <2>2. sock \in [Conns -> {"open", "closing"}] /\ connUser \in [Conns -> Users \cup {None}]
    BY DEF ActorInit
  <2>3. conns \subseteq Conns /\ connsByUser \in [Users -> SUBSET Conns]
    BY DEF ActorInit
  <2> QED
    BY <2>1, <2>2, <2>3 DEF ActorInit, ActorTypeOK
<1> QED
  BY <1>1, ActorTypeStep, PTL DEF ActorSpec

-----------------------------------------------------------------------------
\* The steps of the actor, by what they do to the connections: nothing, one is
\* detached, one is attached, or all are let go.
NoneMoves == UNCHANGED <<connUser, conns, connsByUser, idleTimer, disposed, joined>>
OneLeaves ==
    /\ disposed' = disposed /\ joined' = joined
    /\ \E c \in Conns : /\ Detach(c)
                        /\ \A d \in Conns \ {c} : connUser'[d] = connUser[d]
OneComes ==
    /\ disposed' = disposed
    /\ \E c \in Conns, u \in Users : Attach(c, u) /\ joined' = joined \cup {u}
AllGo == disposed' = TRUE /\ conns' = {} /\ connsByUser' = [u \in Users |-> {}]

LEMMA SocketKinds ==
    ASSUME ActorTypeOK, [ActorNext]_actorVars
    PROVE  NoneMoves \/ OneLeaves \/ OneComes \/ AllGo
<1>1. ASSUME NEW c \in Conns, CloseSocket(c) PROVE NoneMoves
  BY <1>1 DEF CloseSocket, NoneMoves, vars, playerVars
<1>2. ASSUME NEW c \in Conns, OnClose(c) \/ Leave(c) PROVE OneLeaves
  BY <1>2 DEF OnClose, Leave, OneLeaves, vars, playerVars, ActorTypeOK
<1>3. ASSUME NEW c \in Conns, NEW u \in Users, NEW n \in Names, JoinConn(c, u, n)
      PROVE  OneComes
  <2>1. disposed' = disposed /\ Attach(c, u) /\ Join(u, n)
    BY <1>3 DEF JoinConn
  <2>2. joined' = joined \cup {u}
    BY <2>1 DEF Join, Rejoin, JoinNew
  <2> QED
    BY <2>1, <2>2 DEF OneComes
<1>4. ASSUME NEW c \in Conns, NEW q \in Questions, NEW b \in BOOLEAN, NEW drop,
             AnswerConn(c, q, b, drop) \/ AnswerRejected(c, q)
      PROVE  NoneMoves
  BY <1>4 DEF AnswerConn, AnswerRejected, AnswerAccepted, NoneMoves, vars, playerVars,
              socketVars
<1>5. CASE StartActor \/ FireTick \/ FireFlush
  BY <1>5 DEF StartActor, Start, FireTick, TickTimerTooEarly, TickTimerOpens,
              TickTimerFinishes, TickTimerEnds, TickLobby, TickReveal, TickQuestion,
              FireFlush, FlushTimer, NoneMoves, vars, playerVars, socketVars
<1>6. CASE Dispose \/ IdleTimer
  BY <1>6 DEF Dispose, IdleTimer, DisposeActor, AllGo
<1>7. CASE ReadLeaderboard \/ ActorAdvance \/ ActorClockBack
  BY <1>7 DEF ReadLeaderboard, ActorAdvance, ActorClockBack, ClockBack, NoneMoves, vars,
              playerVars, socketVars
<1>8. CASE UNCHANGED actorVars
  BY <1>8 DEF actorVars, NoneMoves, vars, playerVars, socketVars
<1> QED
  BY <1>1, <1>2, <1>3, <1>4, <1>5, <1>6, <1>7, <1>8 DEF ActorNext

\* However connections join, change user, leave and close, the two maps agree:
\* what is unicast to a user reaches all the user's connections and no others.
THEOREM ConnMapsAlwaysAgree == ActorSpec => []ConnMapsAgree
<1>1. ActorInit => ConnMapsAgree
  BY DEF ActorInit, ConnMapsAgree
<1>2. ActorTypeOK /\ ConnMapsAgree /\ [ActorNext]_actorVars => ConnMapsAgree'
  <2> SUFFICES ASSUME ActorTypeOK, ConnMapsAgree, [ActorNext]_actorVars
               PROVE  ConnMapsAgree'
    OBVIOUS
  <2>1. joined \subseteq Users /\ None \notin Users
    BY SessionAssumption, NoneAssumption DEF ActorTypeOK, TypeOK
  <2>2. \A c \in conns : c \in Conns /\ connUser[c] \in Users
    BY <2>1 DEF ActorTypeOK, ConnMapsAgree
  <2>3. CASE /\ UNCHANGED <<connUser, conns, connsByUser>> /\ joined' = joined
    BY <2>3 DEF ConnMapsAgree
  <2>4. ASSUME NEW c \in Conns, Detach(c), joined' = joined,
               \A d \in Conns \ {c} : connUser'[d] = connUser[d]
        PROVE  ConnMapsAgree'
    <3>1. conns' = conns \ {c} /\ \A d \in conns' : connUser'[d] = connUser[d]
      BY <2>2, <2>4 DEF Detach
    <3>2. ASSUME NEW u \in Users
          PROVE  connsByUser'[u] = {d \in conns' : connUser'[d] = u}
      <4>1. CASE c \in conns /\ u = connUser[c]
        <5>1. connsByUser'[u] = connsByUser[u] \ {c}
          BY <2>4, <4>1 DEF Detach, ActorTypeOK
        <5> QED
          BY <3>1, <5>1 DEF ConnMapsAgree
      <4>2. CASE ~(c \in conns /\ u = connUser[c])
        <5>1. connsByUser'[u] = connsByUser[u]
          BY <2>4, <4>2 DEF Detach, ActorTypeOK
        <5> QED
          BY <3>1, <4>2, <5>1 DEF ConnMapsAgree
      <4> QED
        BY <4>1, <4>2
    <3> QED
      BY <2>4, <3>1, <3>2 DEF ConnMapsAgree
  <2>5. ASSUME NEW c \in Conns, NEW u \in Users, Attach(c, u), joined' = joined \cup {u}
        PROVE  ConnMapsAgree'
    <3>1. /\ conns' = conns \cup {c} /\ connUser'[c] = u
          /\ \A d \in conns \ {c} : connUser'[d] = connUser[d]
      BY <2>2, <2>5 DEF Attach, ActorTypeOK
    <3>2. ASSUME NEW v \in Users
          PROVE  connsByUser'[v] = {d \in conns' : connUser'[d] = v}
      <4>1. CASE v = u
        <5>1. connsByUser'[v] = connsByUser[v] \cup {c}
          BY <2>5, <4>1 DEF Attach
        <5> QED
          BY <3>1, <4>1, <5>1 DEF ConnMapsAgree
      <4>2. CASE v # u /\ c \in conns /\ v = connUser[c]
        <5>1. connsByUser'[v] = connsByUser[v] \ {c}
          BY <2>1, <2>2, <2>5, <4>2 DEF Attach
        <5> QED
          BY <3>1, <4>2, <5>1 DEF ConnMapsAgree
      <4>3. CASE v # u /\ ~(c \in conns /\ v = connUser[c])
        <5>1. connsByUser'[v] = connsByUser[v]
          BY <2>5, <4>3 DEF Attach
        <5> QED
          BY <3>1, <4>3, <5>1 DEF ConnMapsAgree
      <4> QED
        BY <4>1, <4>2, <4>3
    <3>3. \A d \in conns' : connUser'[d] \in joined'
      BY <2>5, <3>1 DEF ConnMapsAgree
    <3> QED
      BY <3>2, <3>3 DEF ConnMapsAgree
  <2>6. CASE conns' = {} /\ connsByUser' = [u \in Users |-> {}]
    BY <2>6 DEF ConnMapsAgree
  <2> QED
    BY <2>3, <2>4, <2>5, <2>6, SocketKinds DEF NoneMoves, OneLeaves, OneComes, AllGo
<1> QED
  BY <1>1, <1>2, ActorTypeCorrect, PTL DEF ActorSpec

\* A live session is on its way to disposal exactly while nobody is connected.
THEOREM IdleTimerArmedIffNobody == ActorSpec => []IdleTimerIffNobody
<1>1. ActorInit => IdleTimerIffNobody
  BY DEF ActorInit, IdleTimerIffNobody
<1>2. ActorTypeOK /\ IdleTimerIffNobody /\ [ActorNext]_actorVars => IdleTimerIffNobody'
  <2> SUFFICES ASSUME ActorTypeOK, IdleTimerIffNobody, [ActorNext]_actorVars, ~disposed'
               PROVE  (idleTimer <=> conns = {})'
    BY DEF IdleTimerIffNobody
  <2>1. CASE UNCHANGED <<conns, idleTimer, disposed>>
    BY <2>1 DEF IdleTimerIffNobody
  <2>2. ASSUME NEW c \in Conns, Detach(c), disposed' = disposed
        PROVE  (idleTimer <=> conns = {})'
    <3>1. /\ conns' = conns \ {c}
          /\ idleTimer' <=> (idleTimer \/ (c \in conns /\ conns = {c}))
      BY <2>2, Zenon DEF Detach
    <3>2. conns' = {} <=> (conns = {} \/ conns = {c})
      BY <3>1
    <3>3. idleTimer <=> conns = {}
      BY <2>2 DEF IdleTimerIffNobody
    <3>4. conns = {c} => c \in conns
      OBVIOUS
    <3> QED
      BY <3>1, <3>2, <3>3, <3>4, Zenon
  <2>3. ASSUME NEW c \in Conns, NEW u \in Users, Attach(c, u)
        PROVE  (idleTimer <=> conns = {})'
    <3>1. c \in conns' /\ idleTimer' = FALSE
      BY <2>3 DEF Attach
    <3> QED
      BY <3>1
  <2> QED
    BY <2>1, <2>2, <2>3, SocketKinds DEF NoneMoves, OneLeaves, OneComes, AllGo
<1> QED
  BY <1>1, <1>2, ActorTypeCorrect, PTL DEF ActorSpec

-----------------------------------------------------------------------------
\* The steps of the actor, by what they do to the tick timer.
LEMMA TimerKinds ==
    ASSUME ActorTypeOK, [ActorNext]_actorVars
    PROVE  \/ Reschedule(tickTimer, scheduledDeadline) /\ disposed' = disposed
           \/ Reschedule(None, None)
           \/ UNCHANGED <<timerVars, phaseVars, disposed>>
           \/ /\ tickTimer' = SetBack(tickTimer)
              /\ UNCHANGED <<scheduledDeadline, phaseVars, disposed>>
           \/ disposed' = TRUE
<1>1. ASSUME NEW c \in Conns, CloseSocket(c) \/ OnClose(c) \/ Leave(c)
      PROVE  UNCHANGED <<timerVars, phaseVars, disposed>>
  BY <1>1 DEF CloseSocket, OnClose, Leave, vars
<1>2. ASSUME NEW c \in Conns, NEW u \in Users, NEW n \in Names, JoinConn(c, u, n)
      PROVE  Reschedule(tickTimer, scheduledDeadline) /\ disposed' = disposed
  BY <1>2 DEF JoinConn
<1>3. ASSUME NEW c \in Conns, NEW q \in Questions, NEW b \in BOOLEAN, NEW drop,
             AnswerConn(c, q, b, drop) \/ AnswerRejected(c, q)
      PROVE  Reschedule(tickTimer, scheduledDeadline) /\ disposed' = disposed
  BY <1>3 DEF AnswerConn, AnswerRejected
<1>4. StartActor => Reschedule(tickTimer, scheduledDeadline) /\ disposed' = disposed
  BY DEF StartActor
<1>5. FireTick => Reschedule(None, None)
  BY DEF FireTick, TickTimerTooEarly, TickTimerOpens, TickTimerFinishes, TickTimerEnds
<1>6. FireFlush \/ ReadLeaderboard \/ ActorAdvance
        => UNCHANGED <<timerVars, phaseVars, disposed>>
  BY DEF FireFlush, FlushTimer, ReadLeaderboard, ActorAdvance, vars
<1>7. ActorClockBack => /\ tickTimer' = SetBack(tickTimer)
                        /\ UNCHANGED <<scheduledDeadline, phaseVars, disposed>>
  BY DEF ActorClockBack, ClockBack
<1>8. Dispose \/ IdleTimer => disposed' = TRUE
  BY DEF Dispose, IdleTimer, DisposeActor
<1>9. UNCHANGED actorVars => UNCHANGED <<timerVars, phaseVars, disposed>>
  BY DEF actorVars, vars
<1> QED
  BY <1>1, <1>2, <1>3, <1>4, <1>5, <1>6, <1>7, <1>8, <1>9 DEF ActorNext

\* Through early ticks, skipped reschedules and a clock that is set back, a live
\* actor has a timer armed exactly for the deadline that is pending.
THEOREM TimerAlwaysMatches == ActorSpec => []TimerMatchesDeadline
<1>1. ActorInit => TimerMatchesDeadline
  BY DEF ActorInit, Init, TimerMatchesDeadline, NextDeadline
<1>2. ActorTypeOK /\ ActorTypeOK' /\ TimerMatchesDeadline /\ [ActorNext]_actorVars
        => TimerMatchesDeadline'
  <2> SUFFICES ASSUME ActorTypeOK, ActorTypeOK', TimerMatchesDeadline,
                      [ActorNext]_actorVars, ~disposed'
               PROVE  (/\ scheduledDeadline = NextDeadline
                       /\ tickTimer = None <=> NextDeadline = None)'
    BY DEF TimerMatchesDeadline
  <2>1. \A a, b \in Int : LaterOf(a, b) # None
    BY NoneAssumption DEF LaterOf
  <2>2. NextDeadline' \in Int \cup {None} /\ now + 1 \in Int
    BY SessionAssumption DEF NextDeadline, ActorTypeOK, TypeOK, Phases
  <2>3. CASE Reschedule(None, None)
    BY <2>1, <2>2, <2>3 DEF Reschedule
  <2>4. CASE Reschedule(tickTimer, scheduledDeadline) /\ disposed' = disposed
    BY <2>1, <2>2, <2>4 DEF Reschedule, TimerMatchesDeadline
  <2>5. CASE UNCHANGED <<timerVars, phaseVars, disposed>>
    BY <2>5 DEF timerVars, phaseVars, NextDeadline, TimerMatchesDeadline
  <2>6. CASE /\ tickTimer' = SetBack(tickTimer)
             /\ UNCHANGED <<scheduledDeadline, phaseVars, disposed>>
    <3>1. tickTimer' = None <=> tickTimer = None
      BY <2>6, NoneAssumption DEF SetBack, ActorTypeOK
    <3> QED
      BY <2>6, <3>1 DEF phaseVars, NextDeadline, TimerMatchesDeadline
  <2> QED
    BY <2>3, <2>4, <2>5, <2>6, TimerKinds
<1> QED
  BY <1>1, <1>2, ActorTypeCorrect, PTL DEF ActorSpec

-----------------------------------------------------------------------------
\* The steps of the actor, by what they do to the flush timer.
LEMMA FlushKinds ==
    ASSUME ActorTypeOK, [ActorNext]_actorVars
    PROVE  \/ UNCHANGED <<flushVars, clockBacks>>
           \/ ScheduleFlush /\ UNCHANGED clockBacks
           \/ flushTimer' = None
           \/ /\ flushTimer' = SetBack(flushTimer) /\ lastFlushAt' = lastFlushAt
              /\ clockBacks' = clockBacks + 1
<1>1. ASSUME NEW c \in Conns, CloseSocket(c) \/ OnClose(c) \/ Leave(c)
      PROVE  UNCHANGED <<flushVars, clockBacks>>
  BY <1>1 DEF CloseSocket, OnClose, Leave, vars, clockVars
<1>2. ASSUME NEW c \in Conns, NEW u \in Users, NEW n \in Names, JoinConn(c, u, n)
      PROVE  (ScheduleFlush \/ UNCHANGED flushVars) /\ UNCHANGED clockBacks
  BY <1>2 DEF JoinConn, Join, Rejoin, JoinNew, clockVars
<1>3. ASSUME NEW c \in Conns, NEW q \in Questions, NEW b \in BOOLEAN, NEW drop,
             AnswerConn(c, q, b, drop) \/ AnswerRejected(c, q)
      PROVE  /\ ScheduleFlush \/ UNCHANGED flushVars \/ flushTimer' = None
             /\ UNCHANGED clockBacks
  BY <1>3 DEF AnswerConn, AnswerRejected, AnswerAccepted, FlushNow, vars, clockVars
<1>4. StartActor => UNCHANGED <<flushVars, clockBacks>>
  BY DEF StartActor, Start, clockVars
<1>5. FireTick => flushTimer' = None \/ UNCHANGED <<flushVars, clockBacks>>
  BY DEF FireTick, TickTimerTooEarly, TickTimerOpens, TickTimerFinishes, TickTimerEnds,
         TickLobby, TickReveal, FlushNow, vars, clockVars
<1>6. FireFlush \/ Dispose \/ IdleTimer => flushTimer' = None
  BY DEF FireFlush, FlushTimer, FlushNow, Dispose, IdleTimer, DisposeActor
<1>7. ReadLeaderboard \/ ActorAdvance => UNCHANGED <<flushVars, clockBacks>>
  BY DEF ReadLeaderboard, ActorAdvance, vars, clockVars
<1>8. ActorClockBack => /\ flushTimer' = SetBack(flushTimer) /\ lastFlushAt' = lastFlushAt
                        /\ clockBacks' = clockBacks + 1
  BY DEF ActorClockBack, ClockBack
<1>9. UNCHANGED actorVars => UNCHANGED <<flushVars, clockBacks>>
  BY DEF actorVars, vars, clockVars
<1> QED
  BY <1>1, <1>2, <1>3, <1>4, <1>5, <1>6, <1>7, <1>8, <1>9 DEF ActorNext

\* A flush that was put off comes a full interval after the one before it,
\* through every command, early timer and setting of the clock.
THEOREM FlushesAreSpaced == ActorSpec => []CoalescedFlushSpaced
<1>1. ActorInit => CoalescedFlushSpaced
  BY DEF ActorInit, CoalescedFlushSpaced
<1>2. ActorTypeOK /\ CoalescedFlushSpaced /\ [ActorNext]_actorVars => CoalescedFlushSpaced'
  <2> SUFFICES ASSUME ActorTypeOK, CoalescedFlushSpaced, [ActorNext]_actorVars
               PROVE  CoalescedFlushSpaced'
    OBVIOUS
  <2>1. /\ flushTimer \in Int \cup {None} /\ lastFlushAt \in Int \cup {None}
        /\ now \in Int /\ clockBacks \in Nat /\ LeaderboardIntervalMs \in Nat /\ None \notin Int
    BY NoneAssumption, ActorAssumption DEF ActorTypeOK, TypeOK
  <2>2. CASE UNCHANGED <<flushVars, clockBacks>>
    BY <2>2 DEF flushVars, CoalescedFlushSpaced
  <2>3. CASE ScheduleFlush /\ UNCHANGED clockBacks
    <3>1. lastFlushAt' = lastFlushAt
      BY <2>3 DEF ScheduleFlush
    <3>2. CASE flushTimer # None
      BY <2>3, <3>1, <3>2 DEF ScheduleFlush, CoalescedFlushSpaced
    <3>3. CASE flushTimer = None /\ lastFlushAt # None
      <4>1. flushTimer' = LaterOf(now, lastFlushAt + LeaderboardIntervalMs)
        BY <2>3, <3>3 DEF ScheduleFlush
      <4> QED
        BY <2>1, <2>3, <3>1, <3>3, <4>1 DEF LaterOf, CoalescedFlushSpaced
    <3> QED
      BY <3>1, <3>2, <3>3 DEF CoalescedFlushSpaced
  <2>4. CASE flushTimer' = None
    BY <2>4 DEF CoalescedFlushSpaced
  <2>5. CASE /\ flushTimer' = SetBack(flushTimer) /\ lastFlushAt' = lastFlushAt
             /\ clockBacks' = clockBacks + 1
    BY <2>1, <2>5 DEF SetBack, CoalescedFlushSpaced
  <2> QED
    BY <2>2, <2>3, <2>4, <2>5, FlushKinds
<1> QED
  BY <1>1, <1>2, ActorTypeCorrect, PTL DEF ActorSpec

-----------------------------------------------------------------------------
\* The standings of a session are standings of distinct players.
LEMMA StandingsAre == TypeOK => IsStandings(Standings) /\ Cardinality(Standings) = Cardinality(joined)
<1> SUFFICES ASSUME TypeOK
             PROVE  IsStandings(Standings) /\ Cardinality(Standings) = Cardinality(joined)
  OBVIOUS
<1> DEFINE f == [u \in joined |-> Standing(u)]
<1>1. joined \subseteq Users /\ IsFiniteSet(joined) /\ Users \subseteq Int
  BY SessionAssumption, FS_Subset DEF TypeOK
<1>2. f \in Bijection(joined, Standings)
  BY DEF Bijection, Injection, Surjection, IsInjective, Standings, Standing
<1>3. IsFiniteSet(Standings) /\ Cardinality(Standings) = Cardinality(joined)
  BY <1>1, <1>2, FS_Bijection DEF ExistsBijection
<1>4. \A u \in joined : score[u] \in Int /\ scoreSeq[u] \in Int /\ u \in Int
  BY <1>1 DEF TypeOK
<1>5. /\ \A s \in Standings : s.userId \in Int /\ s.score \in Int /\ s.scoreSeq \in Int
      /\ \A s, t \in Standings : s.userId = t.userId => s = t
  BY <1>4 DEF Standings, Standing
<1> QED
  BY <1>3, <1>5 DEF IsStandings

\* The board has an entry for every player, made of the player's own fields.
LEMMA EntriesListed ==
    TypeOK => /\ DOMAIN Entries = 1..Cardinality(joined)
              /\ \A i \in DOMAIN Entries : \E u \in joined :
                    Board[i] = Standing(u) /\ Entries[i] = Entry(Standing(u))
              /\ \A u \in joined : \E i \in DOMAIN Entries : Entries[i] = Entry(Standing(u))
<1> SUFFICES ASSUME TypeOK
             PROVE  /\ DOMAIN Entries = 1..Cardinality(joined)
                    /\ \A i \in DOMAIN Entries : \E u \in joined :
                          Board[i] = Standing(u) /\ Entries[i] = Entry(Standing(u))
                    /\ \A u \in joined :
                          \E i \in DOMAIN Entries : Entries[i] = Entry(Standing(u))
  OBVIOUS
<1>1. IsStandings(Standings) /\ Cardinality(Standings) = Cardinality(joined)
  BY StandingsAre
<1>2. /\ \A i \in 1..Cardinality(joined) : Board[i] \in Standings
      /\ \A s \in Standings : \E i \in 1..Cardinality(joined) : Board[i] = s
  BY <1>1, RankingListsEveryoneInOrder DEF Board
<1> QED
  BY <1>2 DEF Entries, Standings

\* What the ranking of a board says of a player is what the session says.
LEMMA RankedScore ==
    ASSUME TypeOK, NEW b, Ranked(b) = Ranked(Entries), NEW u \in joined
    PROVE  ScoreOn(b, u) = score[u]
<1>1. DOMAIN b = DOMAIN Entries
  BY DEF Ranked
<1>2. \A i \in DOMAIN b : b[i].userId = Entries[i].userId /\ b[i].score = Entries[i].score
  <2> SUFFICES ASSUME NEW i \in DOMAIN b
               PROVE  b[i].userId = Entries[i].userId /\ b[i].score = Entries[i].score
    OBVIOUS
  <2>1. Ranked(b)[i] = Ranked(Entries)[i]
    OBVIOUS
  <2> QED
    BY <1>1, <2>1 DEF Ranked
<1>3. ASSUME NEW i \in DOMAIN b, b[i].userId = u PROVE b[i].score = score[u]
  <2>1. PICK v \in joined : Entries[i] = Entry(Standing(v))
    BY <1>1, EntriesListed
  <2>2. Entries[i].userId = v /\ Entries[i].score = score[v]
    BY <2>1 DEF Entry, Standing
  <2> QED
    BY <1>2, <1>3, <2>2
<1>4. \E i \in DOMAIN b : b[i].userId = u
  BY <1>1, <1>2, EntriesListed DEF Entry, Standing
<1> QED
  BY <1>3, <1>4 DEF ScoreOn

\* The ranking depends on who has joined, and on scores, their order and streaks.
LEMMA RankingKept ==
    ASSUME TypeOK, TypeOK', UNCHANGED <<joined, score, streak, scoreSeq>>
    PROVE  Ranked(Entries)' = Ranked(Entries)
<1>1. /\ IsStandings(Standings) /\ (IsStandings(Standings))'
      /\ Cardinality(Standings) = Cardinality(joined)
  <2>1. (TypeOK => IsStandings(Standings) /\ Cardinality(Standings) = Cardinality(joined))'
    BY StandingsAre, PTL
  <2> QED
    BY <2>1, StandingsAre
<1>2. /\ \A s \in Standings : \E t \in Standings' : SameKey(s, t)
      /\ \A t \in Standings' : \E s \in Standings : SameKey(s, t)
  <2>1. \A u \in joined : SameKey(Standing(u), Standing(u)')
    BY DEF Standing, SameKey
  <2>2. Standings = {Standing(u) : u \in joined} /\ Standings' = {Standing(u)' : u \in joined}
    BY DEF Standings
  <2> QED
    BY <2>1, <2>2
<1>3. \A i \in 1..Cardinality(joined) : SameKey(Board[i], Board'[i])
  BY <1>1, <1>2, RankingIgnoresNames DEF Board
<1>4. /\ \A i \in 1..Cardinality(joined) : \E u \in joined : Board[i] = Standing(u)
      /\ \A i \in 1..Cardinality(joined) : \E u \in joined : Board'[i] = Standing(u)'
  <2>1. (TypeOK => /\ DOMAIN Entries = 1..Cardinality(joined)
                   /\ \A i \in DOMAIN Entries : \E u \in joined :
                         Board[i] = Standing(u) /\ Entries[i] = Entry(Standing(u))
                   /\ \A u \in joined :
                         \E i \in DOMAIN Entries : Entries[i] = Entry(Standing(u)))'
    BY EntriesListed, PTL
  <2> QED
    BY <2>1, EntriesListed
<1>5. ASSUME NEW i \in 1..Cardinality(joined)
      PROVE  /\ Board[i].userId = Board'[i].userId /\ Board[i].score = Board'[i].score
             /\ Board[i].streak = Board'[i].streak
  <2>1. PICK u \in joined : Board[i] = Standing(u)
    BY <1>4
  <2>2. PICK v \in joined : Board'[i] = Standing(v)'
    BY <1>4
  <2>3. Board[i].userId = Board'[i].userId /\ Board[i].score = Board'[i].score
    BY <1>3 DEF SameKey
  <2>4. u = v
    BY <2>1, <2>2, <2>3 DEF Standing
  <2> QED
    BY <2>1, <2>2, <2>3, <2>4 DEF Standing
<1> QED
  BY <1>5 DEF Ranked, Entries, Entry

\* An answer that is worth nothing and leaves the streak alone moves nobody.
LEMMA AnswerMovesNobody ==
    ASSUME TypeOK, NEW u \in Users, NEW q \in Questions, NEW b \in BOOLEAN,
           AnswerAccepted(u, q, b), phase' # "reveal",
           score'[u] = score[u], Result(u, q, b).streakAfter = streak[u]
    PROVE  UNCHANGED <<joined, score, streak, scoreSeq>>
<1> DEFINE r == Result(u, q, b)
<1>1. r.points \in Nat
  BY ResultType
<1>2. /\ score' = [score EXCEPT ![u] = @ + r.points] /\ joined' = joined
      /\ IF r.points > 0 THEN TakeScoreSeq(u) ELSE UNCHANGED <<scoreSeq, nextScoreSeq>>
  BY DEF AnswerAccepted
<1>3. streak' = [streak EXCEPT ![u] = r.streakAfter]
  BY DEF AnswerAccepted, EndQuestion
<1>4. score[u] \in Nat /\ score'[u] = score[u] + r.points
  BY <1>2 DEF TypeOK
<1>5. r.points = 0
  BY <1>1, <1>4
<1>6. score' = score /\ scoreSeq' = scoreSeq
  BY <1>2, <1>4, <1>5 DEF TypeOK
<1>7. streak' = streak
  BY <1>3 DEF TypeOK
<1> QED
  BY <1>2, <1>6, <1>7

\* The steps of the actor, by what they do to the board and its cache.
LEMMA BoardKinds ==
    ASSUME ActorTypeOK, [ActorNext]_actorVars
    PROVE  \/ boardDirty' = TRUE
           \/ boardCache' = Entries'
           \/ UNCHANGED <<boardVars, joined, score, streak, scoreSeq>>
<1> DEFINE Same == UNCHANGED <<boardVars, joined, score, streak, scoreSeq>>
<1> USE DEF boardVars
<1>1. ASSUME NEW c \in Conns, CloseSocket(c) \/ OnClose(c) \/ Leave(c)
      PROVE  Same
  BY <1>1 DEF CloseSocket, OnClose, Leave, vars, playerVars
<1>2. ASSUME NEW c \in Conns, NEW u \in Users, NEW n \in Names, JoinConn(c, u, n)
      PROVE  boardCache' = Entries' \/ Same
  <2>1. Join(u, n) /\ UseBoard(boardDirty \/ u \notin joined)
    BY <1>2 DEF JoinConn
  <2>2. CASE u \in joined /\ boardDirty = FALSE
    BY <2>1, <2>2 DEF Join, Rejoin, JoinNew, UseBoard, RankedBoard
  <2>3. CASE u \notin joined \/ boardDirty = TRUE
    BY <2>1, <2>3 DEF UseBoard, RankedBoard
  <2> QED
    BY <2>2, <2>3 DEF ActorTypeOK
<1>3. ASSUME NEW c \in Conns, NEW q \in Questions, NEW b \in BOOLEAN, NEW drop,
             AnswerConn(c, q, b, drop)
      PROVE  boardDirty' = TRUE \/ boardCache' = Entries' \/ Same
  <2> DEFINE u == connUser[c]
             changed == score'[u] # score[u] \/ Result(u, q, b).streakAfter # streak[u]
  <2>1. /\ AnswerAccepted(u, q, b)
        /\ IF phase' = "reveal" THEN UseBoard(TRUE) ELSE LeaveBoard(boardDirty \/ changed)
    BY <1>3 DEF AnswerConn
  <2>2. u \in Users /\ TypeOK
    BY <2>1 DEF AnswerAccepted, ActorTypeOK, TypeOK
  <2>3. CASE phase' = "reveal"
    BY <2>1, <2>3 DEF UseBoard, RankedBoard
  <2>4. CASE phase' # "reveal" /\ ~changed
    <3>1. UNCHANGED <<joined, score, streak, scoreSeq>>
      BY <2>1, <2>2, <2>4, AnswerMovesNobody
    <3>2. boardDirty' = boardDirty /\ boardCache' = boardCache
      BY <2>1, <2>4 DEF LeaveBoard, ActorTypeOK
    <3> QED
      BY <3>1, <3>2
  <2>5. CASE phase' # "reveal" /\ changed
    BY <2>1, <2>5 DEF LeaveBoard
  <2> QED
    BY <2>3, <2>4, <2>5
<1>4. ASSUME NEW c \in Conns, NEW q \in Questions, AnswerRejected(c, q) PROVE Same
  BY <1>4 DEF AnswerRejected, vars, playerVars
<1>5. StartActor \/ TickTimerTooEarly \/ TickTimerOpens => Same
  BY DEF StartActor, Start, TickTimerTooEarly, TickTimerOpens, TickLobby, TickReveal,
         vars, playerVars
<1>6. ASSUME NEW drop, TickTimerEnds(drop) \/ TickTimerFinishes
      PROVE  boardDirty' = TRUE \/ boardCache' = Entries'
  BY <1>6 DEF TickTimerEnds, TickTimerFinishes, UseBoard, RankedBoard, LeaveBoard
<1>7. ASSUME NEW drop, FlushTimer(drop) PROVE boardCache' = Entries' \/ Same
  <2>1. UNCHANGED <<joined, score, streak, scoreSeq>>
    BY <1>7 DEF FlushTimer, vars, playerVars
  <2>2. UNCHANGED boardVars \/ UseBoard(boardDirty)
    BY <1>7 DEF FlushTimer
  <2>3. boardDirty \in BOOLEAN
    BY DEF ActorTypeOK
  <2> QED
    BY <2>1, <2>2, <2>3 DEF UseBoard, RankedBoard
<1>8. Dispose \/ IdleTimer \/ ActorAdvance \/ ActorClockBack => Same
  BY DEF Dispose, IdleTimer, DisposeActor, ActorAdvance, ActorClockBack, ClockBack, vars,
         playerVars
<1>9. ReadLeaderboard => boardCache' = Entries'
  BY DEF ReadLeaderboard, UseBoard, RankedBoard
<1>10. UNCHANGED actorVars => Same
  BY DEF actorVars, vars, playerVars
<1> QED
  BY <1>1, <1>2, <1>3, <1>4, <1>5, <1>6, <1>7, <1>8, <1>9, <1>10
     DEF ActorNext, FireTick, FireFlush

\* A cache that is not marked dirty ranks the players as they stand: no command
\* changes who is listed, an order, a score or a streak without marking it.
THEOREM CachedBoardAlwaysFresh == ActorSpec => []CachedBoardFresh
<1>1. ActorInit => CachedBoardFresh
  BY DEF ActorInit, CachedBoardFresh
<1>2. ActorTypeOK /\ ActorTypeOK' /\ CachedBoardFresh /\ [ActorNext]_actorVars
        => CachedBoardFresh'
  <2> SUFFICES ASSUME ActorTypeOK, ActorTypeOK', CachedBoardFresh, [ActorNext]_actorVars,
                      ~boardDirty'
               PROVE  Ranked(boardCache') = Ranked(Entries)'
    BY DEF CachedBoardFresh, Ranked
  <2>1. CASE boardCache' = Entries'
    BY <2>1 DEF Ranked
  <2>2. CASE UNCHANGED <<boardVars, joined, score, streak, scoreSeq>>
    <3>1. Ranked(Entries)' = Ranked(Entries)
      BY <2>2, RankingKept DEF ActorTypeOK
    <3> QED
      BY <2>2, <3>1 DEF boardVars, CachedBoardFresh
  <2> QED
    BY <2>1, <2>2, BoardKinds DEF ActorTypeOK
<1> QED
  BY <1>1, <1>2, ActorTypeCorrect, PTL DEF ActorSpec

-----------------------------------------------------------------------------
\* The steps of the actor, by what they do to the end of the quiz.
LEMMA FinishKinds ==
    ASSUME ActorTypeOK, [ActorNext]_actorVars
    PROVE  \/ /\ phase = "reveal" /\ phase' = "finished"
              /\ archived' = Append(archived, Entries')
           \/ /\ archived' = archived
              /\ phase' = "finished" <=> phase = "finished"
              /\ phase = "finished" => score' = score
<1> DEFINE Same == /\ archived' = archived
                   /\ phase' = "finished" <=> phase = "finished"
                   /\ phase = "finished" => score' = score
<1>1. ASSUME NEW c \in Conns, CloseSocket(c) \/ OnClose(c) \/ Leave(c)
      PROVE  Same
  BY <1>1 DEF CloseSocket, OnClose, Leave, vars, playerVars, phaseVars
<1>2. ASSUME NEW c \in Conns, NEW u \in Users, NEW n \in Names, JoinConn(c, u, n)
      PROVE  Same
  BY <1>2 DEF JoinConn, Join, Rejoin, JoinNew, phaseVars
<1>3. ASSUME NEW c \in Conns, NEW q \in Questions, NEW b \in BOOLEAN, NEW drop,
             AnswerConn(c, q, b, drop)
      PROVE  Same
  <2>1. AnswerAccepted(connUser[c], q, b) /\ archived' = archived
    BY <1>3 DEF AnswerConn
  <2>2. connUser[c] \in Users /\ TypeOK
    BY <2>1 DEF AnswerAccepted, ActorTypeOK, TypeOK
  <2>3. phase = "question" /\ phase' \in {"question", "reveal"}
    BY <2>1, <2>2, AnswerStep
  <2> QED
    BY <2>1, <2>3
<1>4. ASSUME NEW c \in Conns, NEW q \in Questions, AnswerRejected(c, q) PROVE Same
  BY <1>4 DEF AnswerRejected, vars, playerVars, phaseVars
<1>5. StartActor \/ TickTimerTooEarly \/ TickTimerOpens => Same
  BY DEF StartActor, Start, TickTimerTooEarly, TickTimerOpens, TickLobby, TickReveal,
         OpenQuestion, vars, playerVars, phaseVars
<1>6. ASSUME NEW drop, TickTimerEnds(drop) PROVE Same
  BY <1>6 DEF TickTimerEnds, TickQuestion, EndQuestion
<1>7. TickTimerFinishes => /\ phase = "reveal" /\ phase' = "finished"
                           /\ archived' = Append(archived, Entries')
  BY DEF TickTimerFinishes, TickReveal, RankedBoard
<1>8. ASSUME NEW drop, FlushTimer(drop) PROVE Same
  BY <1>8 DEF FlushTimer, vars, playerVars, phaseVars
<1>9. Dispose \/ IdleTimer \/ ReadLeaderboard \/ ActorAdvance \/ ActorClockBack => Same
  BY DEF Dispose, IdleTimer, DisposeActor, ReadLeaderboard, ActorAdvance, ActorClockBack,
         ClockBack, vars, playerVars, phaseVars
<1>10. UNCHANGED actorVars => Same
  BY DEF actorVars, vars, playerVars, phaseVars
<1> QED
  BY <1>1, <1>2, <1>3, <1>4, <1>5, <1>6, <1>7, <1>8, <1>9, <1>10
     DEF ActorNext, FireTick, FireFlush

\* Every entry of the board carries the score of its player.
LEMMA EntriesScored == TypeOK => \A i \in DOMAIN Entries : Entries[i].score = score[Entries[i].userId]
<1> SUFFICES ASSUME TypeOK, NEW i \in DOMAIN Entries
             PROVE  Entries[i].score = score[Entries[i].userId]
  OBVIOUS
<1>1. PICK u \in joined : Entries[i] = Entry(Standing(u))
  BY EntriesListed
<1> QED
  BY <1>1 DEF Entry, Standing

\* The calls of onQuizFinished, as a sequence: none, or the one of the end.
ArchivedShape ==
    archived = IF phase = "finished" THEN <<archived[1]>> ELSE <<>>
ArchivedScores ==
    \A i \in DOMAIN archived : \A j \in DOMAIN archived[i] :
        archived[i][j].score = score[archived[i][j].userId]

\* The results are archived once, when the quiz is over, and nothing scores after.
THEOREM ArchivedOnceAndFinal == ActorSpec => []ArchivedOnceFinal
<1>1. ActorInit => ArchivedShape /\ ArchivedScores
  BY DEF ActorInit, Init, ArchivedShape, ArchivedScores
<1>2. ActorTypeOK /\ ActorTypeOK' /\ [ActorNext]_actorVars /\ ArchivedShape /\ ArchivedScores
        => ArchivedShape' /\ ArchivedScores'
  <2> SUFFICES ASSUME ActorTypeOK, ActorTypeOK', [ActorNext]_actorVars,
                      ArchivedShape, ArchivedScores
               PROVE  ArchivedShape' /\ ArchivedScores'
    OBVIOUS
  <2>1. CASE /\ phase = "reveal" /\ phase' = "finished"
             /\ archived' = Append(archived, Entries')
    <3>1. archived' = <<Entries'>>
      BY <2>1 DEF ArchivedShape
    <3>2. (TypeOK => \A i \in DOMAIN Entries : Entries[i].score = score[Entries[i].userId])'
      BY EntriesScored, PTL
    <3>3. DOMAIN archived' = {1} /\ archived'[1] = Entries'
      BY <3>1
    <3>4. ArchivedShape'
      BY <2>1, <3>1, <3>3 DEF ArchivedShape
    <3>5. \A i \in DOMAIN Entries' : Entries'[i].score = score'[Entries'[i].userId]
      BY <3>2 DEF ActorTypeOK
    <3> QED
      BY <3>3, <3>4, <3>5 DEF ArchivedScores
  <2>2. CASE /\ archived' = archived
             /\ phase' = "finished" <=> phase = "finished"
             /\ phase = "finished" => score' = score
    BY <2>2 DEF ArchivedShape, ArchivedScores
  <2> QED
    BY <2>1, <2>2, FinishKinds
<1>3. ArchivedShape /\ ArchivedScores => ArchivedOnceFinal
  BY DEF ArchivedShape, ArchivedScores, ArchivedOnceFinal
<1> QED
  BY <1>1, <1>2, <1>3, ActorTypeCorrect, PTL DEF ActorSpec

-----------------------------------------------------------------------------
(* What the connections have been told.                                    *)

\* What is known on a connection, field by field.
Known(n, p, i, t, b, sc, l) ==
    [seq |-> n, phase |-> p, index |-> i, until |-> t, board |-> b, score |-> sc,
     lagging |-> l]
Shaped(k) ==
    /\ k = Known(k.seq, k.phase, k.index, k.until, k.board, k.score, k.lagging)
    /\ k.seq \in Nat
SentShaped == sent = [c \in Conns |-> sent[c]] /\ \A c \in Conns : Shaped(sent[c])

\* k is a connection's knowledge, of these fields.
IsKnown(k, n, p, i, t, b, sc) ==
    /\ k.seq = n /\ k.phase = p /\ k.index = i /\ k.until = t /\ k.board = b /\ k.score = sc
    /\ n \in Nat => Shaped(k)

LEMMA KnownFields ==
    ASSUME NEW n, NEW p, NEW i, NEW t, NEW b, NEW sc, NEW l, NEW k,
           k = Known(n, p, i, t, b, sc, l)
    PROVE  IsKnown(k, n, p, i, t, b, sc) /\ k.lagging = l
  BY DEF Known, Shaped, IsKnown

\* The fields that a message of each kind overwrites.
PhaseSet(k, n, p, i, t) == [k EXCEPT !.seq = n, !.phase = p, !.index = i, !.until = t]
BoardSet(k, n, b, sc, l) ==
    [k EXCEPT !.seq = n, !.board = b, !.lagging = l, !.score = sc]
LagSet(k, l) == [k EXCEPT !.lagging = l]

LEMMA SetsPhase ==
    ASSUME NEW k, Shaped(k), NEW n, NEW p, NEW i, NEW t
    PROVE  PhaseSet(k, n, p, i, t) = Known(n, p, i, t, k.board, k.score, k.lagging)
<1>1. PICK b, sc, l : b = k.board /\ sc = k.score /\ l = k.lagging
  OBVIOUS
<1>2. k = Known(k.seq, k.phase, k.index, k.until, b, sc, l)
  BY <1>1 DEF Shaped
<1>3. [k EXCEPT !.seq = n] = Known(n, k.phase, k.index, k.until, b, sc, l)
  BY <1>2 DEF Known
<1>4. [Known(n, k.phase, k.index, k.until, b, sc, l) EXCEPT !.phase = p]
          = Known(n, p, k.index, k.until, b, sc, l)
  BY DEF Known
<1>5. [Known(n, p, k.index, k.until, b, sc, l) EXCEPT !.index = i]
          = Known(n, p, i, k.until, b, sc, l)
  BY DEF Known
<1>6. [Known(n, p, i, k.until, b, sc, l) EXCEPT !.until = t] = Known(n, p, i, t, b, sc, l)
  BY DEF Known
<1>7. PhaseSet(k, n, p, i, t) =
          [[[[k EXCEPT !.seq = n] EXCEPT !.phase = p] EXCEPT !.index = i] EXCEPT !.until = t]
  BY DEF PhaseSet
<1>8. PhaseSet(k, n, p, i, t) = Known(n, p, i, t, b, sc, l)
  BY <1>3, <1>4, <1>5, <1>6, <1>7, Zenon
<1> QED
  BY <1>1, <1>8

LEMMA SetsBoard ==
    ASSUME NEW k, Shaped(k), NEW n, NEW b, NEW sc, NEW l
    PROVE  BoardSet(k, n, b, sc, l) = Known(n, k.phase, k.index, k.until, b, sc, l)
<1>1. PICK p, i, t : p = k.phase /\ i = k.index /\ t = k.until
  OBVIOUS
<1>2. k = Known(k.seq, p, i, t, k.board, k.score, k.lagging)
  BY <1>1 DEF Shaped
<1>3. [k EXCEPT !.seq = n] = Known(n, p, i, t, k.board, k.score, k.lagging)
  BY <1>2 DEF Known
<1>4. [Known(n, p, i, t, k.board, k.score, k.lagging) EXCEPT !.board = b]
          = Known(n, p, i, t, b, k.score, k.lagging)
  BY DEF Known
<1>5. [Known(n, p, i, t, b, k.score, k.lagging) EXCEPT !.lagging = l]
          = Known(n, p, i, t, b, k.score, l)
  BY DEF Known
<1>6. [Known(n, p, i, t, b, k.score, l) EXCEPT !.score = sc] = Known(n, p, i, t, b, sc, l)
  BY DEF Known
<1>7. BoardSet(k, n, b, sc, l) =
          [[[[k EXCEPT !.seq = n] EXCEPT !.board = b] EXCEPT !.lagging = l] EXCEPT !.score = sc]
  BY DEF BoardSet
<1>8. BoardSet(k, n, b, sc, l) = Known(n, p, i, t, b, sc, l)
  BY <1>3, <1>4, <1>5, <1>6, <1>7, Zenon
<1> QED
  BY <1>1, <1>8

LEMMA SetsLag ==
    ASSUME NEW k, Shaped(k), NEW l
    PROVE  LagSet(k, l) = Known(k.seq, k.phase, k.index, k.until, k.board, k.score, l)
  BY DEF Shaped, Known, LagSet

\* The connection skipped a board.
Lags(k) == k.lagging

\* What a connection knows after each kind of message.
LEMMA HearsPhase ==
    ASSUME NEW s, NEW n, NEW to, NEW c \in Conns, Shaped(s[c]), NEW k, k = Broadcast(s, n, to)[c]
    PROVE  /\ c \notin Reached(to) => k = s[c]
           /\ c \in Reached(to) =>
                  /\ IsKnown(k, n, phase', Asked, Countdown, s[c].board, s[c].score)
                  /\ k.lagging = s[c].lagging
<1>1. k = IF c \in Reached(to) THEN TellPhase(n, c, s[c]) ELSE s[c]
  BY DEF Broadcast, Told
<1>2. TellPhase(n, c, s[c]) = PhaseSet(s[c], n, phase', Asked, Countdown)
  BY Zenon DEF TellPhase, PhaseSet
<1> QED
  BY <1>1, <1>2, SetsPhase, KnownFields

LEMMA HearsBoard ==
    ASSUME NEW s, NEW n, NEW to, NEW board, NEW drop, NEW c \in Conns, Shaped(s[c]),
           NEW k, k = BroadcastBoard(s, n, to, board, drop)[c]
    PROVE  /\ c \notin Reached(to) => k = s[c]
           /\ c \in Reached(to) /\ c \in drop =>
                  /\ IsKnown(k, s[c].seq, s[c].phase, s[c].index, s[c].until, s[c].board,
                             s[c].score)
                  /\ Lags(k)
           /\ c \in Reached(to) /\ c \notin drop =>
                  IsKnown(k, n, s[c].phase, s[c].index, s[c].until, board,
                          ScoreOn(board, connUser[c]))
<1>1. k = IF c \notin Reached(to) THEN s[c]
          ELSE IF c \in drop THEN MissBoard(c, s[c]) ELSE TellBoard(n, board, c, s[c])
  BY DEF BroadcastBoard, Told
<1>2. MissBoard(c, s[c]) = LagSet(s[c], TRUE)
  BY Zenon DEF MissBoard, LagSet
<1>3. TellBoard(n, board, c, s[c]) = BoardSet(s[c], n, board, ScoreOn(board, connUser[c]), FALSE)
  BY Zenon DEF TellBoard, BoardSet
<1>4. LagSet(s[c], TRUE) = Known(s[c].seq, s[c].phase, s[c].index, s[c].until, s[c].board,
                                 s[c].score, TRUE)
  BY SetsLag, Zenon
<1>5. BoardSet(s[c], n, board, ScoreOn(board, connUser[c]), FALSE)
          = Known(n, s[c].phase, s[c].index, s[c].until, board, ScoreOn(board, connUser[c]), FALSE)
  BY SetsBoard, Zenon
<1>6. CASE c \notin Reached(to)
  BY <1>1, <1>6, Zenon
<1>7. CASE c \in Reached(to) /\ c \in drop
  <2>1. k = Known(s[c].seq, s[c].phase, s[c].index, s[c].until, s[c].board, s[c].score, TRUE)
    BY <1>1, <1>2, <1>4, <1>7, Zenon
  <2>2. PICK l : l = TRUE
    OBVIOUS
  <2>3. k = Known(s[c].seq, s[c].phase, s[c].index, s[c].until, s[c].board, s[c].score, l)
    BY <2>1, <2>2, Zenon
  <2>4. /\ IsKnown(k, s[c].seq, s[c].phase, s[c].index, s[c].until, s[c].board, s[c].score)
        /\ k.lagging = l
    BY <2>3, KnownFields
  <2>5. Lags(k)
    BY <2>2, <2>4 DEF Lags
  <2> QED
    BY <1>7, <2>4, <2>5
<1>8. CASE c \in Reached(to) /\ c \notin drop
  <2>1. k = Known(n, s[c].phase, s[c].index, s[c].until, board, ScoreOn(board, connUser[c]),
                  FALSE)
    BY <1>1, <1>3, <1>5, <1>8, Zenon
  <2>2. PICK l : l = FALSE
    OBVIOUS
  <2>3. k = Known(n, s[c].phase, s[c].index, s[c].until, board, ScoreOn(board, connUser[c]), l)
    BY <2>1, <2>2, Zenon
  <2>4. IsKnown(k, n, s[c].phase, s[c].index, s[c].until, board, ScoreOn(board, connUser[c]))
    BY <2>3, KnownFields
  <2> QED
    BY <1>8, <2>4
<1> QED
  BY <1>6, <1>7, <1>8, Zenon

LEMMA HearsScore ==
    ASSUME NEW s, NEW u, NEW c \in Conns, Shaped(s[c]), NEW k, k = Unicast(s, u)[c]
    PROVE  /\ c \notin Reached(connsByUser[u]) => k = s[c]
           /\ c \in Reached(connsByUser[u]) =>
                  /\ IsKnown(k, s[c].seq, s[c].phase, s[c].index, s[c].until, s[c].board,
                             score'[u])
                  /\ k.lagging = s[c].lagging
<1>1. c \in Reached(connsByUser[u]) =>
          k = Known(s[c].seq, s[c].phase, s[c].index, s[c].until, s[c].board,
                    score'[u], s[c].lagging)
  BY DEF Unicast, Told, TellScore, Shaped, Known
<1>2. c \notin Reached(connsByUser[u]) => k = s[c]
  BY DEF Unicast, Told
<1> QED
  BY <1>1, <1>2, KnownFields

LEMMA HearsWelcome ==
    ASSUME NEW s, NEW d, NEW u, NEW board, NEW c \in Conns, NEW k, k = Welcome(s, d, u, board)[c]
    PROVE  /\ c \notin Reached({d}) => k = s[c]
           /\ c \in Reached({d}) =>
                 \E t : /\ phase' # "reveal" => t = Countdown
                        /\ IsKnown(k, seq, phase', Asked, t, board, ScoreOn(board, u))
<1>1. k = IF c \in Reached({d}) THEN TellWelcome(u, board) ELSE s[c]
  BY DEF Welcome, Told
<1> DEFINE t == IF phase' = "reveal" THEN None ELSE Countdown
<1>2. TellWelcome(u, board) =
          Known(seq, phase', Asked, t, board, ScoreOn(board, u), FALSE)
  BY Zenon DEF TellWelcome, Known
<1>3. phase' # "reveal" => t = Countdown
  OBVIOUS
<1> HIDE DEF t
<1>4. IsKnown(TellWelcome(u, board), seq, phase', Asked, t, board, ScoreOn(board, u))
  BY <1>2, KnownFields, Zenon
<1> QED
  BY <1>1, <1>3, <1>4

\* The rankings in use are the cached one, and it has every player's score.
LEMMA CacheScores ==
    TypeOK /\ ~boardDirty /\ CachedBoardFresh
        => \A u \in joined : ScoreOn(boardCache, u) = score[u]
  BY RankedScore DEF CachedBoardFresh

\* What a step tells a connection that is attached after it: of the phase,
TellsPhase(c) ==
    \/ /\ sent'[c].phase = phase' /\ sent'[c].index = Asked
       /\ phase' # "reveal" => sent'[c].until = Countdown
    \/ /\ c \in Reached(conns) /\ UNCHANGED phaseVars
       /\ sent'[c].phase = sent[c].phase /\ sent'[c].index = sent[c].index
       /\ sent'[c].until = sent[c].until
\* of the sequence number, skipping some under backpressure,
TellsSeq(c) ==
    \/ sent'[c].seq = seq'
    \/ Lags(sent'[c]) /\ sent'[c].seq \in Nat /\ sent'[c].seq <= seq'
    \/ /\ c \in Reached(conns) /\ seq' >= seq /\ sent'[c].seq = sent[c].seq
       /\ Lags(sent'[c])
    \/ /\ c \in Reached(conns) /\ seq' = seq /\ sent'[c].seq = sent[c].seq
       /\ sent'[c].lagging = sent[c].lagging
\* of the player's own score,
TellsScore(c) ==
    \/ sent'[c].score = score'[connUser'[c]]
    \/ /\ c \in Reached(conns) /\ sent'[c].score = sent[c].score
       /\ score'[connUser'[c]] = score[connUser[c]]
\* and of the board, or of the flush that is to come.
TellsBoard(c) ==
    \/ Ranked(sent'[c].board) = Ranked(Entries')
    \/ flushTimer' # None
    \/ Lags(sent'[c])
    \/ /\ c \in Reached(conns) /\ UNCHANGED <<joined, score, streak, scoreSeq, disposed>>
       /\ flushTimer = None /\ sent'[c].board = sent[c].board
       /\ sent'[c].lagging = sent[c].lagging
Tells(c) == TellsPhase(c) /\ TellsSeq(c) /\ TellsScore(c) /\ TellsBoard(c)

\* What every step keeps and the messages are made from.
TellContext ==
    /\ ActorTypeOK /\ ActorTypeOK' /\ SentShaped
    /\ CachedBoardFresh' /\ ConnMapsAgree /\ ConnMapsAgree'

LEMMA CacheTold ==
    TellContext => (~boardDirty' => /\ Ranked(boardCache') = Ranked(Entries')
                                    /\ \A u \in joined' : ScoreOn(boardCache', u) = score'[u])
<1> SUFFICES ASSUME TellContext, ~boardDirty'
             PROVE  /\ Ranked(boardCache') = Ranked(Entries')
                    /\ \A u \in joined' : ScoreOn(boardCache', u) = score'[u]
  OBVIOUS
<1>1. (TypeOK /\ ~boardDirty /\ CachedBoardFresh
          => \A u \in joined : ScoreOn(boardCache, u) = score[u])'
  BY CacheScores, PTL
<1> QED
  BY <1>1 DEF TellContext, ActorTypeOK, CachedBoardFresh

LEMMA JoinTells ==
    ASSUME TellContext, NEW d \in Conns, NEW u \in Users, NEW n \in Names, JoinConn(d, u, n)
    PROVE  SentShaped' /\ \A c \in Reached(conns)' : Tells(c)
<1> DEFINE isNew == u \notin joined
           opened == phaseUntil' # phaseUntil
           W == Welcome(sent, d, u, boardCache')
<1>1. /\ Attach(d, u) /\ Join(u, n) /\ disposed' = disposed
      /\ boardCache' = RankedBoard(boardDirty \/ isNew) /\ boardDirty' = FALSE
      /\ IF isNew THEN ScheduleFlush ELSE UNCHANGED flushVars
      /\ seq' = IF opened THEN seq + 1 ELSE seq
      /\ sent' = IF opened THEN Broadcast(W, seq + 1, conns') ELSE W
  BY DEF JoinConn, UseBoard
<1>2. /\ conns' = conns \cup {d} /\ sock' = sock
      /\ connUser' = [connUser EXCEPT ![d] = u]
      /\ conns \subseteq Conns /\ seq \in Nat
  BY <1>1 DEF Attach, TellContext, ActorTypeOK
<1>3. /\ u \in joined' /\ score' = score
      /\ UNCHANGED <<phase, currentIndex, questionStartedAt, questionEndsAt>>
      /\ ~isNew => UNCHANGED <<joined, streak, scoreSeq>>
  BY <1>1 DEF Join, Rejoin, JoinNew, phaseVars
<1>4. /\ Ranked(boardCache') = Ranked(Entries')
      /\ ScoreOn(boardCache', u) = score'[u]
  BY <1>1, <1>3, CacheTold
<1>5. isNew => flushTimer' # None
  BY <1>1, NoneAssumption, ActorAssumption
     DEF ScheduleFlush, LaterOf, TellContext, ActorTypeOK, TypeOK
<1>6. /\ W = [c \in Conns |-> W[c]]
      /\ \A c \in Conns :
            /\ Shaped(W[c])
            /\ c \in Reached({d}) =>
                   /\ W[c].seq = seq /\ W[c].phase = phase' /\ W[c].index = Asked
                   /\ phase' # "reveal" => W[c].until = Countdown
                   /\ W[c].board = boardCache' /\ W[c].score = ScoreOn(boardCache', u)
            /\ c \notin Reached({d}) => W[c] = sent[c]
  <2>1. W = [c \in Conns |-> W[c]]
    BY DEF Welcome, Told
  <2>2. ASSUME NEW c \in Conns, c \notin Reached({d}) PROVE W[c] = sent[c] /\ Shaped(W[c])
    BY <2>2, HearsWelcome DEF TellContext, SentShaped
  <2>3. ASSUME NEW c \in Conns, c \in Reached({d})
        PROVE  /\ Shaped(W[c])
               /\ W[c].seq = seq /\ W[c].phase = phase' /\ W[c].index = Asked
               /\ phase' # "reveal" => W[c].until = Countdown
               /\ W[c].board = boardCache' /\ W[c].score = ScoreOn(boardCache', u)
    <3>1. PICK k : k = W[c]
      OBVIOUS
    <3>2. k = Welcome(sent, d, u, boardCache')[c]
      BY <3>1
    <3> HIDE DEF W
    <3>3. PICK t : /\ phase' # "reveal" => t = Countdown
                   /\ IsKnown(k, seq, phase', Asked, t, boardCache',
                              ScoreOn(boardCache', u))
      BY <2>3, <3>2, HearsWelcome
    <3> QED
      BY <1>2, <3>1, <3>3 DEF IsKnown
  <2> QED
    BY <2>1, <2>2, <2>3
<1>7. ASSUME NEW c \in Conns, opened
      PROVE  /\ Shaped(sent'[c])
             /\ c \in Reached(conns') =>
                    /\ sent'[c].seq = seq' /\ sent'[c].phase = phase'
                    /\ sent'[c].index = Asked /\ sent'[c].until = Countdown
                    /\ sent'[c].board = W[c].board /\ sent'[c].score = W[c].score
                    /\ sent'[c].lagging = W[c].lagging
  <2>1. sent' = Broadcast(W, seq + 1, conns')
    BY <1>1, <1>7
  <2> QED
    BY <1>1, <1>2, <1>6, <1>7, <2>1, HearsPhase DEF IsKnown
<1>8. SentShaped'
  <2>1. sent' = [c \in Conns |-> sent'[c]]
    BY <1>1, <1>6 DEF Broadcast, Told
  <2>2. \A c \in Conns : Shaped(sent'[c])
    BY <1>1, <1>6, <1>7
  <2> QED
    BY <2>1, <2>2 DEF SentShaped
<1>9. ASSUME NEW c \in Reached(conns)' PROVE Tells(c)
  <2>1. c \in Conns /\ c \in Reached(conns') /\ (c = d <=> c \in Reached({d}))
        /\ (c # d => c \in Reached(conns) /\ connUser'[c] = connUser[c])
        /\ (c = d => connUser'[c] = u)
    BY <1>2, <1>9 DEF Reached, TellContext, ActorTypeOK
  <2>2. TellsPhase(c)
    BY <1>1, <1>3, <1>6, <1>7, <2>1 DEF TellsPhase, phaseVars
  <2>3. TellsSeq(c)
    BY <1>1, <1>2, <1>6, <1>7, <2>1 DEF TellsSeq
  <2>4. TellsScore(c)
    BY <1>1, <1>3, <1>4, <1>6, <1>7, <2>1 DEF TellsScore
  <2>5. TellsBoard(c)
    BY <1>1, <1>3, <1>4, <1>5, <1>6, <1>7, <2>1 DEF TellsBoard, flushVars
  <2> QED
    BY <2>2, <2>3, <2>4, <2>5 DEF Tells
<1> QED
  BY <1>8, <1>9

\* The last tab's score goes to all tabs of the user, and to those only.
LEMMA ScoreTold ==
    ASSUME TellContext, NEW u \in Users, NEW t, t = Unicast(sent, u)
    PROVE  /\ t = [c \in Conns |-> t[c]]
           /\ \A c \in Conns :
                 /\ Shaped(t[c])
                 /\ t[c].seq = sent[c].seq /\ t[c].phase = sent[c].phase
                 /\ t[c].index = sent[c].index /\ t[c].until = sent[c].until
                 /\ t[c].board = sent[c].board /\ t[c].lagging = sent[c].lagging
           /\ \A c \in Reached(conns) :
                 t[c].score = IF connUser[c] = u THEN score'[u] ELSE sent[c].score
<1>1. t = [c \in Conns |-> t[c]]
  BY DEF Unicast, Told
<1>2. ASSUME NEW c \in Conns
      PROVE  /\ Shaped(t[c])
             /\ t[c].seq = sent[c].seq /\ t[c].phase = sent[c].phase
             /\ t[c].index = sent[c].index /\ t[c].until = sent[c].until
             /\ t[c].board = sent[c].board /\ t[c].lagging = sent[c].lagging
             /\ t[c].score = IF c \in Reached(connsByUser[u]) THEN score'[u] ELSE sent[c].score
  <2>1. Shaped(sent[c]) /\ sent[c].seq \in Nat
    BY DEF TellContext, SentShaped, Shaped
  <2> QED
    BY <2>1, HearsScore DEF IsKnown
<1>3. \A c \in Reached(conns) : c \in Conns /\ (c \in Reached(connsByUser[u]) <=> connUser[c] = u)
  BY DEF TellContext, ConnMapsAgree, ActorTypeOK, Reached
<1> QED
  BY <1>1, <1>2, <1>3

\* question_end and the leaderboard behind it, s being what was told before.
LEMMA EndTells ==
    ASSUME TellContext, NEW s, NEW drop, UNCHANGED socketVars,
           seq' = seq + 2, ~boardDirty', phase' = "reveal",
           sent' = BroadcastBoard(Broadcast(s, seq + 1, conns), seq + 2, conns, boardCache', drop),
           \A c \in Conns : Shaped(s[c]),
           \A c \in Reached(conns) :
              \/ s[c].score = score'[connUser[c]]
              \/ s[c].score = sent[c].score /\ score'[connUser[c]] = score[connUser[c]]
    PROVE  SentShaped' /\ \A c \in Reached(conns)' : Tells(c)
<1> DEFINE B == Broadcast(s, seq + 1, conns)
<1>1. seq \in Nat /\ conns \subseteq Conns /\ Reached(conns)' = Reached(conns)
      /\ connUser' = connUser
  BY DEF TellContext, ActorTypeOK, Reached, socketVars
<1>2. ASSUME NEW c \in Conns
      PROVE  /\ Shaped(B[c])
             /\ c \in Reached(conns) =>
                    /\ B[c].seq = seq + 1 /\ B[c].phase = phase' /\ B[c].index = Asked
                    /\ B[c].score = s[c].score
  BY <1>1, HearsPhase DEF IsKnown
<1>3. ASSUME NEW c \in Conns
      PROVE  /\ Shaped(sent'[c])
             /\ c \in Reached(conns) =>
                    sent'[c].phase = phase' /\ sent'[c].index = Asked
             /\ c \in Reached(conns) /\ c \in drop =>
                    /\ sent'[c].seq = seq + 1 /\ Lags(sent'[c])
                    /\ sent'[c].score = s[c].score
             /\ c \in Reached(conns) /\ c \notin drop =>
                    /\ sent'[c].seq = seq + 2 /\ sent'[c].board = boardCache'
                    /\ sent'[c].score = ScoreOn(boardCache', connUser[c])
  <2> HIDE DEF B
  <2>1. B[c].seq \in Nat
    BY <1>2 DEF Shaped
  <2>2. sent' = BroadcastBoard(B, seq + 2, conns, boardCache', drop)
    BY DEF B
  <2> QED
    BY <1>1, <1>2, <2>1, <2>2, HearsBoard DEF IsKnown
<1>4. SentShaped'
  <2>1. sent' = [c \in Conns |-> sent'[c]]
    BY DEF BroadcastBoard, Told
  <2> QED
    BY <1>3, <2>1 DEF SentShaped
<1>5. /\ Ranked(boardCache') = Ranked(Entries')
      /\ \A c \in conns : ScoreOn(boardCache', connUser[c]) = score'[connUser[c]]
  BY CacheTold DEF TellContext, ConnMapsAgree, socketVars
<1>6. ASSUME NEW c \in Reached(conns)' PROVE Tells(c)
  <2>1. c \in Conns /\ c \in Reached(conns) /\ c \in conns
    BY <1>1, <1>6 DEF Reached
  <2>2. TellsPhase(c)
    BY <1>3, <2>1 DEF TellsPhase
  <2>3. TellsSeq(c)
    BY <1>1, <1>3, <2>1 DEF TellsSeq
  <2>4. TellsScore(c)
    BY <1>1, <1>3, <1>5, <2>1 DEF TellsScore
  <2>5. TellsBoard(c)
    BY <1>3, <1>5, <2>1 DEF TellsBoard
  <2> QED
    BY <2>2, <2>3, <2>4, <2>5 DEF Tells
<1> QED
  BY <1>4, <1>6

LEMMA AnswerTells ==
    ASSUME TellContext, NEW d \in Conns, NEW q \in Questions, NEW b \in BOOLEAN, NEW drop,
           AnswerConn(d, q, b, drop)
    PROVE  SentShaped' /\ \A c \in Reached(conns)' : Tells(c)
<1> DEFINE u == connUser[d]
           changed == score'[u] # score[u] \/ Result(u, q, b).streakAfter # streak[u]
           T == Unicast(sent, u)
<1>1. /\ AnswerAccepted(u, q, b) /\ UNCHANGED <<socketVars, disposed>>
      /\ IF phase' = "reveal"
         THEN /\ boardCache' = RankedBoard(TRUE) /\ boardDirty' = FALSE /\ seq' = seq + 2
              /\ sent' = BroadcastBoard(Broadcast(T, seq + 1, conns), seq + 2, conns,
                                        RankedBoard(TRUE), drop)
         ELSE /\ IF changed THEN ScheduleFlush ELSE UNCHANGED flushVars
              /\ seq' = seq /\ sent' = T
  BY DEF AnswerConn, UseBoard
<1>2. u \in Users /\ TypeOK /\ phase = "question"
  <2>1. u \in Users /\ TypeOK
    BY <1>1 DEF AnswerAccepted, TellContext, ActorTypeOK, TypeOK
  <2> QED
    BY <1>1, <2>1, AnswerStep
<1>3. /\ \A v \in Users : v # u => score'[v] = score[v]
      /\ phase' # "reveal" => UNCHANGED phaseVars
  BY <1>1, <1>2 DEF AnswerAccepted, EndQuestion, TypeOK
<1>4. \A c \in conns : c \in Conns /\ connUser[c] \in Users
  BY <1>2 DEF TellContext, ConnMapsAgree, ActorTypeOK, TypeOK
<1>5. /\ T = [c \in Conns |-> T[c]]
      /\ \A c \in Conns :
            /\ Shaped(T[c])
            /\ T[c].seq = sent[c].seq /\ T[c].phase = sent[c].phase
            /\ T[c].index = sent[c].index /\ T[c].until = sent[c].until
            /\ T[c].board = sent[c].board /\ T[c].lagging = sent[c].lagging
      /\ \A c \in Reached(conns) :
            T[c].score = IF connUser[c] = u THEN score'[u] ELSE sent[c].score
  BY <1>2, ScoreTold
<1> HIDE DEF T
<1>6. \A c \in Reached(conns) :
         \/ T[c].score = score'[connUser[c]]
         \/ T[c].score = sent[c].score /\ score'[connUser[c]] = score[connUser[c]]
  BY <1>3, <1>4, <1>5 DEF Reached
<1>7. CASE phase' = "reveal"
  <2>1. /\ ~boardDirty' /\ seq' = seq + 2 /\ UNCHANGED socketVars
        /\ sent' = BroadcastBoard(Broadcast(T, seq + 1, conns), seq + 2, conns, boardCache', drop)
    BY <1>1, <1>7, Zenon
  <2> QED
    BY <1>5, <1>6, <1>7, <2>1, EndTells
<1>8. CASE phase' # "reveal"
  <2>1. sent' = T /\ seq' = seq
    BY <1>1, <1>8
  <2>2. SentShaped'
    BY <1>5, <2>1 DEF SentShaped
  <2>3. changed => flushTimer' # None
    BY <1>1, <1>8, NoneAssumption, ActorAssumption
       DEF ScheduleFlush, LaterOf, TellContext, ActorTypeOK, TypeOK
  <2>4. ~changed => UNCHANGED <<joined, score, streak, scoreSeq>> /\ flushTimer' = flushTimer
    BY <1>1, <1>2, <1>8, AnswerMovesNobody DEF flushVars
  <2>5. ASSUME NEW c \in Reached(conns)' PROVE Tells(c)
    <3>1. c \in Reached(conns) /\ c \in Conns /\ connUser' = connUser /\ seq \in Nat
      BY <1>1, <1>4, <2>5 DEF Reached, socketVars, TellContext, ActorTypeOK
    <3>2. TellsPhase(c)
      BY <1>3, <1>5, <1>8, <2>1, <3>1 DEF TellsPhase
    <3>3. TellsSeq(c)
      BY <1>5, <2>1, <3>1 DEF TellsSeq
    <3>4. TellsScore(c)
      BY <1>6, <2>1, <3>1 DEF TellsScore
    <3>5. TellsBoard(c)
      BY <1>1, <1>5, <2>1, <2>3, <2>4, <3>1 DEF TellsBoard
    <3> QED
      BY <3>2, <3>3, <3>4, <3>5 DEF Tells
  <2> QED
    BY <2>2, <2>5
<1> QED
  BY <1>7, <1>8

\* A rejected answer repeats the score on every tab.
LEMMA RejectTells ==
    ASSUME TellContext, NEW d \in Conns, NEW q \in Questions, AnswerRejected(d, q)
    PROVE  SentShaped' /\ \A c \in Reached(conns)' : Tells(c)
<1> DEFINE u == connUser[d]
<1>1. /\ UNCHANGED <<socketVars, flushVars, seq, disposed, vars>>
      /\ d \in conns /\ sent' = Unicast(sent, u)
  BY DEF AnswerRejected
<1>2. \A c \in conns : c \in Conns /\ connUser[c] \in Users
  BY DEF TellContext, ConnMapsAgree, ActorTypeOK, TypeOK
<1>3. /\ sent' = [c \in Conns |-> sent'[c]]
      /\ \A c \in Conns :
            /\ Shaped(sent'[c])
            /\ sent'[c].seq = sent[c].seq /\ sent'[c].phase = sent[c].phase
            /\ sent'[c].index = sent[c].index /\ sent'[c].until = sent[c].until
            /\ sent'[c].board = sent[c].board /\ sent'[c].lagging = sent[c].lagging
      /\ \A c \in Reached(conns) :
            sent'[c].score = IF connUser[c] = u THEN score'[u] ELSE sent[c].score
  BY <1>1, <1>2, ScoreTold
<1>4. ASSUME NEW c \in Reached(conns)' PROVE Tells(c)
  <2>1. c \in Reached(conns) /\ c \in Conns /\ connUser' = connUser /\ seq' = seq /\ seq \in Nat
    BY <1>1, <1>2, <1>4 DEF Reached, socketVars, TellContext, ActorTypeOK
  <2>2. UNCHANGED <<phaseVars, joined, score, streak, scoreSeq, disposed, flushTimer>>
    BY <1>1 DEF vars, playerVars, flushVars
  <2> QED
    BY <1>3, <2>1, <2>2 DEF Tells, TellsPhase, TellsSeq, TellsScore, TellsBoard
<1> QED
  BY <1>3, <1>4 DEF SentShaped

\* question_started goes to every connection.
LEMMA OpenTells ==
    ASSUME TellContext, StartActor \/ TickTimerOpens
    PROVE  SentShaped' /\ \A c \in Reached(conns)' : Tells(c)
<1>1. /\ UNCHANGED <<socketVars, flushVars, disposed, playerVars>>
      /\ seq' = seq + 1 /\ sent' = Broadcast(sent, seq + 1, conns)
  BY DEF StartActor, TickTimerOpens, Start, TickLobby, TickReveal
<1>2. /\ seq \in Nat /\ conns \subseteq Conns /\ Reached(conns)' = Reached(conns)
      /\ connUser' = connUser /\ \A c \in Conns : Shaped(sent[c])
  BY <1>1 DEF TellContext, ActorTypeOK, Reached, socketVars, SentShaped
<1>3. ASSUME NEW c \in Conns
      PROVE  /\ Shaped(sent'[c])
             /\ c \in Reached(conns) =>
                    /\ sent'[c].seq = seq' /\ sent'[c].phase = phase'
                    /\ sent'[c].index = Asked /\ sent'[c].until = Countdown
                    /\ sent'[c].board = sent[c].board /\ sent'[c].score = sent[c].score
                    /\ sent'[c].lagging = sent[c].lagging
  BY <1>1, <1>2, HearsPhase DEF IsKnown
<1>4. sent' = [c \in Conns |-> sent'[c]]
  BY <1>1 DEF Broadcast, Told
<1>5. ASSUME NEW c \in Reached(conns)' PROVE Tells(c)
  <2>1. c \in Reached(conns) /\ c \in Conns
    BY <1>2, <1>5 DEF Reached
  <2>2. UNCHANGED <<joined, score, streak, scoreSeq, disposed, flushTimer>>
    BY <1>1 DEF playerVars, flushVars
  <2> QED
    BY <1>2, <1>3, <2>1, <2>2 DEF Tells, TellsPhase, TellsSeq, TellsScore, TellsBoard
<1> QED
  BY <1>3, <1>4, <1>5 DEF SentShaped

\* quiz_end is not skipped.
LEMMA FinishTells ==
    ASSUME TellContext, TickTimerFinishes
    PROVE  SentShaped' /\ \A c \in Reached(conns)' : Tells(c)
<1> DEFINE B == Broadcast(sent, seq + 1, conns)
<1>1. /\ UNCHANGED <<socketVars, disposed>>
      /\ boardCache' = RankedBoard(TRUE) /\ boardDirty' = FALSE
      /\ seq' = IF conns = {} THEN seq ELSE seq + 1
      /\ sent' = BroadcastBoard(B, seq + 1, conns, RankedBoard(TRUE), {})
  BY DEF TickTimerFinishes, UseBoard
<1>2. ~boardDirty' /\ sent' = BroadcastBoard(B, seq + 1, conns, boardCache', {})
  BY <1>1, Zenon
<1>3. /\ seq \in Nat /\ conns \subseteq Conns /\ Reached(conns)' = Reached(conns)
      /\ connUser' = connUser /\ \A c \in Conns : Shaped(sent[c])
  BY <1>1 DEF TellContext, ActorTypeOK, Reached, socketVars, SentShaped
<1>4. ASSUME NEW c \in Conns
      PROVE  /\ Shaped(B[c])
             /\ c \in Reached(conns) =>
                    /\ B[c].phase = phase' /\ B[c].index = Asked /\ B[c].until = Countdown
  BY <1>3, HearsPhase DEF IsKnown
<1> HIDE DEF B
<1>5. ASSUME NEW c \in Conns
      PROVE  /\ Shaped(sent'[c])
             /\ c \in Reached(conns) =>
                    /\ sent'[c].seq = seq + 1 /\ sent'[c].phase = phase'
                    /\ sent'[c].index = Asked /\ sent'[c].until = Countdown
                    /\ sent'[c].board = boardCache'
                    /\ sent'[c].score = ScoreOn(boardCache', connUser[c])
  BY <1>2, <1>3, <1>4, HearsBoard DEF IsKnown
<1>6. sent' = [c \in Conns |-> sent'[c]]
  BY <1>1 DEF BroadcastBoard, Told
<1>7. /\ Ranked(boardCache') = Ranked(Entries')
      /\ \A c \in conns : ScoreOn(boardCache', connUser[c]) = score'[connUser[c]]
  BY <1>1, <1>2, CacheTold DEF TellContext, ConnMapsAgree, socketVars
<1>8. ASSUME NEW c \in Reached(conns)' PROVE Tells(c)
  <2>1. c \in Reached(conns) /\ c \in Conns /\ c \in conns /\ seq' = seq + 1
    BY <1>1, <1>3, <1>8 DEF Reached
  <2> QED
    BY <1>3, <1>5, <1>7, <2>1 DEF Tells, TellsPhase, TellsSeq, TellsScore, TellsBoard
<1> QED
  BY <1>5, <1>6, <1>8 DEF SentShaped

\* A flush sends the board to whoever is not under backpressure.
LEMMA FlushTells ==
    ASSUME TellContext, NEW drop, FlushTimer(drop)
    PROVE  SentShaped' /\ \A c \in Reached(conns)' : Tells(c)
<1>1. UNCHANGED <<socketVars, disposed, vars>>
  BY DEF FlushTimer
<1>2. /\ seq \in Nat /\ conns \subseteq Conns /\ Reached(conns)' = Reached(conns)
      /\ connUser' = connUser /\ SentShaped /\ \A c \in Conns : Shaped(sent[c])
  BY <1>1 DEF TellContext, ActorTypeOK, Reached, socketVars, SentShaped
<1>3. CASE conns = {}
  BY <1>2, <1>3 DEF FlushTimer, Reached, SentShaped
<1>4. CASE conns # {}
  <2>1. /\ boardCache' = RankedBoard(boardDirty) /\ boardDirty' = FALSE /\ seq' = seq + 1
        /\ sent' = BroadcastBoard(sent, seq + 1, conns, RankedBoard(boardDirty), drop)
    BY <1>4 DEF FlushTimer, UseBoard
  <2>2. ~boardDirty' /\ sent' = BroadcastBoard(sent, seq + 1, conns, boardCache', drop)
    BY <2>1, Zenon
  <2>3. ASSUME NEW c \in Conns
        PROVE  /\ Shaped(sent'[c])
               /\ c \in Reached(conns) =>
                      /\ sent'[c].phase = sent[c].phase /\ sent'[c].index = sent[c].index
                      /\ sent'[c].until = sent[c].until
               /\ c \in Reached(conns) /\ c \in drop =>
                      /\ sent'[c].seq = sent[c].seq /\ Lags(sent'[c])
                      /\ sent'[c].score = sent[c].score
               /\ c \in Reached(conns) /\ c \notin drop =>
                      /\ sent'[c].seq = seq + 1 /\ sent'[c].board = boardCache'
                      /\ sent'[c].score = ScoreOn(boardCache', connUser[c])
    <3>1. Shaped(sent[c]) /\ sent[c].seq \in Nat
      BY <1>2 DEF Shaped
    <3> QED
      BY <1>2, <2>2, <3>1, HearsBoard DEF IsKnown
  <2>4. sent' = [c \in Conns |-> sent'[c]]
    BY <2>1 DEF BroadcastBoard, Told
  <2>5. /\ Ranked(boardCache') = Ranked(Entries')
        /\ \A c \in conns : ScoreOn(boardCache', connUser[c]) = score'[connUser[c]]
    BY <1>1, <2>2, CacheTold DEF TellContext, ConnMapsAgree, socketVars
  <2>6. UNCHANGED phaseVars /\ score' = score
    BY <1>1 DEF vars, playerVars
  <2>7. ASSUME NEW c \in Reached(conns)' PROVE Tells(c)
    <3>1. c \in Reached(conns) /\ c \in Conns /\ c \in conns
      BY <1>2, <2>7 DEF Reached
    <3> QED
      BY <1>2, <2>1, <2>3, <2>5, <2>6, <3>1
         DEF Tells, TellsPhase, TellsSeq, TellsScore, TellsBoard
  <2> QED
    BY <2>3, <2>4, <2>7 DEF SentShaped
<1> QED
  BY <1>3, <1>4

\* Every other step sends nothing: it may end what is known on a connection.
LEMMA QuietTells ==
    ASSUME TellContext,
           sent' = [c \in Conns |-> sent'[c]],
           \A c \in Conns : sent'[c] = sent[c] \/ sent'[c] = Nothing,
           \A c \in Reached(conns)' :
              c \in Reached(conns) /\ sent'[c] = sent[c] /\ connUser'[c] = connUser[c],
           conns' # {} => /\ UNCHANGED <<phaseVars, seq, joined, score, streak, scoreSeq, disposed>>
                          /\ flushTimer' = None => flushTimer = None
    PROVE  SentShaped' /\ \A c \in Reached(conns)' : Tells(c)
<1>1. Shaped(Nothing)
  BY DEF Shaped, Known, Nothing
<1>2. SentShaped'
  BY <1>1 DEF SentShaped, TellContext
<1>3. ASSUME NEW c \in Reached(conns)' PROVE Tells(c)
  <2>1. c \in conns' /\ seq \in Nat
    BY <1>3 DEF Reached, TellContext, ActorTypeOK
  <2> QED
    BY <1>3, <2>1 DEF Tells, TellsPhase, TellsSeq, TellsScore, TellsBoard
<1> QED
  BY <1>2, <1>3

LEMMA TellStep ==
    ASSUME TellContext, [ActorNext]_actorVars
    PROVE  SentShaped' /\ \A c \in Reached(conns)' : Tells(c)
<1> DEFINE Told1 == SentShaped' /\ \A c \in Reached(conns)' : Tells(c)
           Still == /\ UNCHANGED <<phaseVars, seq, joined, score, streak, scoreSeq, disposed>>
                    /\ flushTimer' = None => flushTimer = None
<1>1. sent = [c \in Conns |-> sent[c]]
  BY DEF TellContext, SentShaped
<1>2. /\ sock \in [Conns -> {"open", "closing"}] /\ connUser \in [Conns -> Users \cup {None}]
      /\ conns \subseteq Conns
  BY DEF TellContext, ActorTypeOK
<1>3. ASSUME NEW d \in Conns, CloseSocket(d) \/ OnClose(d) \/ Leave(d) PROVE Told1
  <2>1. Still
    BY <1>3 DEF CloseSocket, OnClose, Leave, vars, playerVars, flushVars
  <2>2. sent' = sent \/ sent' = [sent EXCEPT ![d] = Nothing]
    BY <1>3 DEF CloseSocket, OnClose, Leave
  <2>3. /\ sent' = [c \in Conns |-> sent'[c]]
        /\ \A c \in Conns : sent'[c] = sent[c] \/ sent'[c] = Nothing
    BY <1>1, <2>2
  <2>4. CASE CloseSocket(d)
    <3>1. /\ sock' = [sock EXCEPT ![d] = "closing"] /\ conns' = conns /\ connUser' = connUser
          /\ sent' = [sent EXCEPT ![d] = Nothing]
      BY <2>4 DEF CloseSocket
    <3>2. \A c \in Reached(conns)' :
             c \in Reached(conns) /\ sent'[c] = sent[c] /\ connUser'[c] = connUser[c]
      BY <1>1, <1>2, <3>1 DEF Reached
    <3> QED
      BY <2>1, <2>3, <3>2, QuietTells
  <2>5. CASE OnClose(d) \/ Leave(d)
    <3>1. conns' = conns \ {d}
      BY <2>5 DEF OnClose, Leave, Detach
    <3>2. /\ sock' = sock \/ sock' = [sock EXCEPT ![d] = "open"]
          /\ connUser' = connUser \/ connUser' = [connUser EXCEPT ![d] = None]
      BY <2>5 DEF OnClose, Leave
    <3>3. \A c \in Reached(conns)' :
             c \in Reached(conns) /\ sent'[c] = sent[c] /\ connUser'[c] = connUser[c]
      BY <1>1, <1>2, <2>2, <3>1, <3>2 DEF Reached
    <3> QED
      BY <2>1, <2>3, <3>3, QuietTells
  <2> QED
    BY <1>3, <2>4, <2>5
<1>4. ASSUME NEW c \in Conns, NEW u \in Users, NEW n \in Names, JoinConn(c, u, n)
      PROVE  Told1
  BY <1>4, JoinTells
<1>5. ASSUME NEW c \in Conns, NEW q \in Questions, NEW b \in BOOLEAN, NEW drop,
             AnswerConn(c, q, b, drop)
      PROVE  Told1
  BY <1>5, AnswerTells
<1>6. ASSUME NEW c \in Conns, NEW q \in Questions, AnswerRejected(c, q) PROVE Told1
  BY <1>6, RejectTells
<1>7. CASE StartActor \/ TickTimerOpens
  BY <1>7, OpenTells
<1>8. CASE \/ TickTimerTooEarly \/ ReadLeaderboard \/ ActorAdvance \/ ActorClockBack
           \/ UNCHANGED actorVars
  <2>1. sent' = sent /\ UNCHANGED socketVars
    BY <1>8 DEF TickTimerTooEarly, ReadLeaderboard, ActorAdvance, ActorClockBack, actorVars
  <2>2. UNCHANGED <<phaseVars, seq, joined, score, streak, scoreSeq, disposed>>
    BY <1>8 DEF TickTimerTooEarly, ReadLeaderboard, ActorAdvance, ActorClockBack, ClockBack,
                actorVars, vars, playerVars
  <2>3. flushTimer' = flushTimer \/ flushTimer' = SetBack(flushTimer)
    BY <1>8 DEF TickTimerTooEarly, ReadLeaderboard, ActorAdvance, ActorClockBack, actorVars,
                flushVars
  <2>4. flushTimer' = None => flushTimer = None
    BY <2>3, NoneAssumption DEF SetBack, TellContext, ActorTypeOK
  <2>5. \A c \in Reached(conns)' :
           c \in Reached(conns) /\ sent'[c] = sent[c] /\ connUser'[c] = connUser[c]
    BY <2>1 DEF Reached, socketVars
  <2> QED
    BY <1>1, <2>1, <2>2, <2>4, <2>5, QuietTells
<1>9. ASSUME NEW drop, TickTimerEnds(drop) PROVE Told1
  <2>1. /\ UNCHANGED <<socketVars, disposed>> /\ phase' = "reveal" /\ score' = score
    BY <1>9 DEF TickTimerEnds, TickQuestion, EndQuestion
  <2>2. CASE conns = {}
    <3>1. sent' = sent /\ conns' = {}
      BY <1>9, <2>1, <2>2 DEF TickTimerEnds, socketVars
    <3> QED
      BY <1>1, <3>1, QuietTells DEF Reached
  <2>3. CASE conns # {}
    <3>1. /\ boardCache' = RankedBoard(TRUE) /\ boardDirty' = FALSE /\ seq' = seq + 2
          /\ sent' = BroadcastBoard(Broadcast(sent, seq + 1, conns), seq + 2, conns,
                                    RankedBoard(TRUE), drop)
      BY <1>9, <2>3 DEF TickTimerEnds, UseBoard
    <3>2. /\ ~boardDirty'
          /\ sent' = BroadcastBoard(Broadcast(sent, seq + 1, conns), seq + 2, conns, boardCache',
                                    drop)
      BY <3>1, Zenon
    <3>3. /\ \A c \in Conns : Shaped(sent[c])
          /\ \A c \in Reached(conns) :
                sent[c].score = sent[c].score /\ score'[connUser[c]] = score[connUser[c]]
      BY <2>1 DEF TellContext, SentShaped
    <3> QED
      BY <2>1, <3>1, <3>2, <3>3, EndTells
  <2> QED
    BY <2>2, <2>3
<1>10. CASE TickTimerFinishes
  BY <1>10, FinishTells
<1>11. ASSUME NEW drop, FlushTimer(drop) PROVE Told1
  BY <1>11, FlushTells
<1>12. CASE Dispose \/ IdleTimer
  <2>1. conns' = {} /\ sent' = [c \in Conns |-> Nothing]
    BY <1>12 DEF Dispose, IdleTimer, DisposeActor
  <2> QED
    BY <2>1, QuietTells DEF Reached
<1> QED
  BY <1>3, <1>4, <1>5, <1>6, <1>7, <1>8, <1>9, <1>10, <1>11, <1>12
     DEF ActorNext, FireTick, FireFlush

-----------------------------------------------------------------------------
LEMMA InitShaped == ActorInit => SentShaped
<1>1. Shaped(Nothing)
  BY DEF Shaped, Known, Nothing
<1>2. ActorInit => sent = [c \in Conns |-> Nothing]
  BY DEF ActorInit
<1> QED
  BY <1>1, <1>2 DEF SentShaped

\* What the connections know keeps its shape, whatever is sent.
LEMMA ToldInvariant == ActorSpec => []SentShaped
<1>1. TellContext /\ [ActorNext]_actorVars => SentShaped'
  BY TellStep
<1> QED
  BY <1>1, InitShaped, ActorTypeCorrect, CachedBoardAlwaysFresh, ConnMapsAlwaysAgree, PTL
     DEF ActorSpec, TellContext

\* Snapshot-then-stream: what was sent on a connection adds up to where the
\* session is, and to its sequence number unless a leaderboard was skipped.
THEOREM ToldWhatIsSo == ActorSpec => []ToldWhatIs
<1>1. ActorInit => ToldWhatIs
  BY DEF ActorInit, ToldWhatIs, Reached
<1>2. TellContext /\ ToldWhatIs /\ [ActorNext]_actorVars => ToldWhatIs'
  <2> SUFFICES ASSUME TellContext, ToldWhatIs, [ActorNext]_actorVars, NEW c \in Reached(conns)'
               PROVE  /\ sent'[c].phase = phase' /\ sent'[c].index =
                             IF phase' \in {"question", "reveal"} THEN currentIndex' ELSE -1
                      /\ phase' = "lobby" => sent'[c].until = phaseUntil'
                      /\ phase' = "question" => sent'[c].until = questionEndsAt'
                      /\ sent'[c].seq <= seq'
                      /\ sent'[c].seq < seq' => sent'[c].lagging
    BY DEF ToldWhatIs
  <2>1. TellsPhase(c) /\ TellsSeq(c)
    BY TellStep DEF Tells
  <2>2. /\ sent'[c].phase = phase' /\ sent'[c].index = IF phase' \in {"question", "reveal"} THEN currentIndex' ELSE -1
        /\ phase' = "lobby" => sent'[c].until = phaseUntil'
        /\ phase' = "question" => sent'[c].until = questionEndsAt'
    BY <2>1 DEF TellsPhase, Asked, Countdown, ToldWhatIs, phaseVars
  <2>3. sent'[c].seq <= seq' /\ (sent'[c].seq < seq' => sent'[c].lagging)
    <3>1. seq \in Nat /\ seq' \in Nat
      BY DEF TellContext, ActorTypeOK
    <3>2. c \in Reached(conns) => sent[c].seq \in Nat
      BY DEF TellContext, SentShaped, Shaped, Reached, ActorTypeOK
    <3> QED
      BY <2>1, <3>1, <3>2 DEF TellsSeq, Lags, ToldWhatIs
  <2> QED
    BY <2>2, <2>3
<1> QED
  BY <1>1, <1>2, ToldInvariant, ActorTypeCorrect, CachedBoardAlwaysFresh, ConnMapsAlwaysAgree,
     PTL DEF ActorSpec, TellContext

\* Every tab of a player shows the player's score as it is.
THEOREM OwnScoreIsTold == ActorSpec => []OwnScoreTold
<1>1. ActorInit => OwnScoreTold
  BY DEF ActorInit, OwnScoreTold, Reached
<1>2. TellContext /\ OwnScoreTold /\ [ActorNext]_actorVars => OwnScoreTold'
  <2> SUFFICES ASSUME TellContext, OwnScoreTold, [ActorNext]_actorVars, NEW c \in Reached(conns)'
               PROVE  sent'[c].score = score'[connUser'[c]]
    BY DEF OwnScoreTold
  <2>1. TellsScore(c)
    BY TellStep DEF Tells
  <2> QED
    BY <2>1 DEF TellsScore, OwnScoreTold
<1> QED
  BY <1>1, <1>2, ToldInvariant, ActorTypeCorrect, CachedBoardAlwaysFresh, ConnMapsAlwaysAgree,
     PTL DEF ActorSpec, TellContext

\* Coalescing loses nothing: where the board is out of date a flush is coming,
\* or one was skipped under backpressure.
THEOREM StaleBoardAwaitsFlush == ActorSpec => []StaleBoardHasFlushPending
<1>1. ActorInit => StaleBoardHasFlushPending
  BY DEF ActorInit, StaleBoardHasFlushPending, Reached
<1>2. TellContext /\ StaleBoardHasFlushPending /\ [ActorNext]_actorVars
        => StaleBoardHasFlushPending'
  <2> SUFFICES ASSUME TellContext, StaleBoardHasFlushPending, [ActorNext]_actorVars,
                      ~disposed', NEW c \in Reached(conns)'
               PROVE  \/ Ranked(sent'[c].board) = Ranked(Entries')
                      \/ flushTimer' # None
                      \/ sent'[c].lagging
    BY DEF StaleBoardHasFlushPending, Ranked
  <2>1. TellsBoard(c)
    BY TellStep DEF Tells
  <2>2. CASE /\ c \in Reached(conns) /\ UNCHANGED <<joined, score, streak, scoreSeq, disposed>>
             /\ flushTimer = None /\ sent'[c].board = sent[c].board
             /\ sent'[c].lagging = sent[c].lagging
    <3>1. Ranked(Entries)' = Ranked(Entries)
      BY <2>2, RankingKept DEF TellContext, ActorTypeOK
    <3>2. Ranked(Entries') = Ranked(Entries)
      BY <3>1 DEF Ranked
    <3>3. Ranked(sent[c].board) = Ranked(Entries) \/ sent[c].lagging
      BY <2>2 DEF StaleBoardHasFlushPending
    <3> QED
      BY <2>2, <3>2, <3>3
  <2> QED
    BY <2>1, <2>2 DEF TellsBoard, Lags
<1> QED
  BY <1>1, <1>2, ToldInvariant, ActorTypeCorrect, CachedBoardAlwaysFresh, ConnMapsAlwaysAgree,
     PTL DEF ActorSpec, TellContext
=============================================================================
