# A verification of the quiz server

The repository is a real-time quiz: players join a session by its code, answer
questions against a clock, and watch a leaderboard. One server process owns a
session and changes its state in a single-threaded actor; Redis lets several
processes share sessions, Postgres keeps quizzes and results. This directory
holds TLA+ models of that code, TLC configurations that check them on small
instances, and TLAPS proofs of what holds for every instance.

Paths below are relative to `src/apps/server/src/` unless they start with
`src/`.

## Inventory

| Part | State it keeps | Operations | Talks to |
|---|---|---|---|
| Scoring, `domain/scoring.ts` | none | `scoreAnswer` | called by the session |
| Ranking, `domain/leaderboard.ts` | none | `compareStandings`, `rankStandings`, `buildBoard` | called by the actor |
| Session, `domain/session.ts` | `SessionState`: phase, current question and its times, players with score, streak, `scoreSeq`, answers | `join`, `answer`, `start`, `tick`, `nextDeadline` | returns events to the actor |
| Actor, `actor/quiz-actor.ts` | connection maps, `seq`, tick / flush / idle timers, board cache | `join`, `answer`, `start`, `detach`, `dispose`, `leaderboard`, three timer callbacks | session, connections, registry (`onIdle`), archive (`onQuizFinished`) |
| Registry, `actor/registry.ts` | map of live actors | `create`, `resolveForJoin`, `freshIfStale`, `restart`, `dispose` | actors; hooks into the cluster and the archive |
| Cluster, `cluster/*.ts` | leases and metadata in Redis; owned and remote sessions, pub/sub handlers | claim / renew / release, `takeOwnership`, `openRemote`, forwarding of join / answer / detach, batched deliveries, owner timeout | registries of other processes |
| WebSocket transport, `transport/ws.ts`, `rate-limit.ts` | per socket: connection, session, token bucket, frame queue, heartbeat | `onOpen`, `onMessage`, `onClose`, `send` | session resolver, actor |
| HTTP transport, `transport/http.ts` | none | create, start, restart, reads | registry, archive |
| Archive, `server.ts`, `db/repository.ts` | rows for sessions and results; writes in flight | `sessionCreated`, `sessionFinished`, `ranking` | Postgres |
| Web client, `src/apps/web/src/lib/useQuizSocket.ts` | reducer state, user id in local storage, retry timer | `connect`, `applyServer`, `answer` | the socket |
| Accounts, configuration, quiz bank, migrations, metrics, UI, load test | | | not concurrent, or outside of the game |

What makes each part correct:

* **Session** - points credited once per player and question, only while it is
  open; streaks are runs of right answers; ties are settled by who got there
  first; a question closes early only when nobody is awaited, and then always;
  every phase ends.
* **Actor** - the timers armed are the ones the state calls for; the maps of
  connections agree; the cached board equals the state; a snapshot plus the
  frames after it is the truth; coalescing loses no board; results are archived
  once.
* **Registry and cluster** - one live actor per session id; a new run does not
  disturb its predecessor's successor; no lease is held by nobody.
* **Transport and client** - frames in order; a closed socket is detached from
  every session it joined; a client that reconnects is the same player.
* **Archive** - every finished run is recorded, and a ranking never loses
  points.

The hard behaviours are interleavings at each `await` (registry lookup, Redis,
Postgres), timers that race with commands, a wall clock that may be set back,
clients that close, are slow, open several tabs or retry, and leases that
expire. `PROJECT.json` lists them by line under `hazards`, with the property
that covers each one, or the reason why none does.

## Modules

| Module | Models | Notes |
|---|---|---|
| `Scoring` | `domain/scoring.ts` | exact ratios; half-up rounding |
| `Leaderboard` | `domain/leaderboard.ts` | the order, ranks, and the sorted board |
| `QuizGame` | abstract: what a session promises | no clock, streaks or tie-break |
| `QuizSession` | `domain/session.ts` | extends the two above; refines `QuizGame` |
| `QuizActor` | `actor/quiz-actor.ts`, with what `transport/ws.ts` does to connections | extends `QuizSession` and conjoins its actions with the actor's own |
| `ClusterOwnership` | `cluster/cluster-registry.ts`, `cluster/directory.ts`, `cluster/bus.ts`, `actor/registry.ts` | one session on several processes; of the actor only whether it is live, joined and finished |
| `RemoteSession` | `cluster/remote.ts`, `openRemote`, `cluster/bus.ts` | sockets of one process that play in a session of another; of the actor only its stream |
| `QuizClient` | `src/apps/web/src/lib/useQuizSocket.ts` with `QuizRoom.tsx`, `transport/ws.ts`, token checks of `auth.ts` | one player end to end, over sockets that break |
| `Archive` | `server.ts`, `db/repository.ts`, the tables of `db/migrations` | several processes on one database |
| `RateLimit` | `transport/rate-limit.ts` | with its theorem; no run |
| `RulesProofs` | theorems about `Leaderboard` and `Scoring` | |
| `QuizSessionProofs`, `QuizActorProofs`, `ArchiveProofs`, `ClusterOwnershipProofs`, `RemoteSessionProofs`, `QuizClientProofs` | theorems about the module each is named after | `QuizActorProofs` extends `QuizSessionProofs` and `RulesProofs` and reuses their lemmas |
| `MCQuizSession`, `MCQuizActor`, `MCClusterOwnership`, `MCRemoteSession`, `MCQuizClient`, `MCArchive` | constants for TLC | |

**Session.** A variable per field of `SessionState`; the `players` map is the
set `joined` with a function per field of `Player`. `Join` is `Rejoin` or
`JoinNew`, as `join()` is; `AnswerAccepted` is the whole of `answer()` from the
rejections to the early end, the call of `endQuestion` included; `Start` and
the three `Tick...` actions are `start` and `tick()`. A command the reducer
turns down changes nothing and is no step of its own (the actor, which replies
to it, has `AnswerRejected`). A choice is represented by whether it is right,
because nothing else of it is read. Question ids are their indices:
`store/quiz-bank.ts` rejects duplicate ids. `joinedAt`, `createdAt` and
`elapsedMs`, which are written and never read by the game, are left out.

**Actor.** Each public method and each timer callback is one action, because
the handlers run to completion: the reducer's action, the cache invalidation of
`dispatch()`, `reschedule()`, and everything `emit()` does with the events the
command yields. A timer is the time at which it goes off. A message is what it
tells the receiver: `sent[c]` folds the frames sent on connection `c` into
phase, question, countdown, board, own score and sequence number. A connection
may be `closing` (no longer open, `onClose` still to come: sends fail and
messages may still be handled), and any subset of the recipients of a board may
be under backpressure and skip it. `until` after `welcome` is the start of the
lobby or the end of the question; a client that joins during a reveal is told
no countdown, and one that joins when no question is open or revealed no question
(`Asked`), as in the code. Left out: `topN` (the whole board is sent),
serialisation, metrics, logs, the length of the idle TTL (the idle timer may go
off whenever nobody is connected), connections of other sessions (`Leave` is a
socket that goes to one).

**Cluster.** The state of a process is a record: its live actor (actors are
numbered as they are made), whether it is joined and finished, the entry in
`owned` (reserved, or serving), the heartbeats that run, the handler set the bus
keeps for the inbox, whether a `RemoteSession` stands for the id. A handler runs
to its next `await`; what it awaits is an entry of one of two pipelines, `pub`
for commands of the directory and `sub` for subscriptions, and a continuation
is an action named for what it has learnt (`LookedUp`, `Claimed`, ...). Redis
takes the entries of a pipeline in order and continuations run in that order; an
`await` of a promise already resolved is a microtask, which runs before
anything else in its process (`Turn`). A handler set whose channel is deleted
while its subscription is under way is orphaned, as in `bus.ts`: `Served` then
adds its handler to a set nobody reads. A process that comes up again has the
same `INSTANCE_ID`. `ForwardedJoin` is a join through the gateway of another
process, which goes straight to the actor. `CommandFails` is a Redis command
that is given up, whether or not Redis took it: a join or a creation is told, a
renewal counts as refused, a release is forgotten, and the claim of the
`onCreated` hook, which nobody awaits, ends the process. Left out:
subscriptions that fail, the 24 h life of metadata, the inside of
`RemoteSession` (it is opened at once, and once; the module of that name has the
rest), other session ids, and what a process does between giving its lease
up in `close()` and its exit. `overtaken` is a history variable: the processes in
which, since they came up, the actor of a claim or a subscription was replaced or
disposed before the continuation ran. Nothing in the code prevents it (see the first
finding), and nothing in the model does. A heartbeat does not go off while its last renewal
is under way, since a round trip is shorter than a third of a lease.

**Remote sessions.** The gateway is a record with the map of remote sessions,
their `conns`, `pendingJoins`, the bus's handler set of the channel and the two
Redis pipelines; its code is a set of functions of that record (`Join`,
`Detach`, `Drop`, `OpenRemote`, `Deliver`), which the actions apply. The owner is
a record with the connections attached, the sequence number and the batch that
gathers until `setImmediate`. Two joins that resolve together open two
`RemoteSession` objects on one channel, and the one whose set is not the
channel's any more hears nothing, as in the code. A message published while
Redis holds no subscription is lost. With `SlowSubscribe = FALSE` the owner
answers a join only after Redis has taken the subscriptions asked for before it;
`remote_gap` shows what is lost without that. A socket sends one join, as the
client does; only joins that have not been answered have a timer.

**Client.** A socket is the client's end (`client`), the server's end (`server`,
`joining`, `run`, `userId`) and the frames in both directions, a close being the
last. `tab` is the reducer's state with `wsRef`, the retry timer and the login
fallback of the effect; `disk` is local storage. A frame behind a join that
awaits its session stays in `up`, which is the promise chain of `ws.ts`. `room` is
the session as one player sees it; the other players make it move on at any time
(`MovesOn`). `Remount` is the effect's cleanup and a new mount: Play again, a
reload, or StrictMode. `Breaks` loses the frames under way. A guest id is named
for the socket it was given to, so two guests made by mistake are told apart. An
answer to the question that is open counts, or comes too late for it: after the limit
and the grace while the tick that closes it is still due (`domain/session.ts:204`).
Either way the result goes to every connection of the user. The token bucket may turn
any answer away (`Limited`); joins it lets through, since a socket's joins are among
its first frames and the bucket starts full.

**Archive.** Runs (actors) are numbered as they are made; `run` keeps of each its
code, its quiz and who played. `Persist` puts a write in flight; the pool takes
writes in any order. Transactions are READ COMMITTED. `sessionCreated` is one step,
since its first statement locks the row of the code. `sessionFinished` is two steps if
its UPDATE finds the row, which it then holds against the other writes of that row
(`Held`), and three if it finds none and locks nothing: any transaction may come before,
between and after its UPDATE, its DELETE and its INSERT, which adds to rows committed
since (`Left`) or fails on a key (`KeysHold`). Where an UPDATE has found the row its
DELETE goes with it: an INSERT of another transaction that comes between the two might
as well come before both.
`spoilt` is a history variable: the codes one of whose writes failed, died with
its process or overtook an earlier one. `Boot` seeds an empty bank if the process
may, loads it, or falls back on the file, so that a process may serve quizzes
the database does not hold. `close()` disposes, listens no more, and waits for
the writes there are at that moment. One process runs a code at a time (`Elsewhere`):
the windows in which two do, after a lapsed lease (`cluster/directory.ts:30`) and
during a shutdown (`server.ts:230`), are left out here, and so is a query that reads
its two tables at different moments (`db/repository.ts:186`).

**Fidelity of numbers.** Fractions of `ScoringRules` are ratios of naturals and
the product is rounded exactly; the source multiplies in floating point, which
can differ in the last unit for a product that lies exactly between two
integers. No property depends on that unit.

## Runs

| Run | Instance | Shows |
|---|---|---|
| `session` | 2 players, 2 questions with different limits and base points, grace 1, clock set back at most once, ticks up to 1 late | safety of the reducer, liveness (`QuizFinishes`), refinement of `QuizGame`; deadlock is checked |
| `actor` | 2 players, 2 connections, 1 question, all right answers worth 1 | maps, cache, timers, told state |
| `actor_live` | 1 player, 1 connection, 2 questions, timers 1 early, clock set back once | the tick timer; the quiz runs to its end |
| `cluster` | 2 processes, 2 commands, 2 faults | who owns, renews and releases, for every order of Redis round trips and whatever comes between them |
| `cluster_live` | 2 processes, 2 commands, 1 fault | a split heals; a lease kept is a lease served |
| `cluster_restart` | 2 commands, no fault | finding: a disposed actor is served and renewed for |
| `remote` | 2 sockets, 2 remote sessions, 2 runs of 1 event, 1 answer, 1 fault | snapshot and stream without a gap, disposal and detaching across processes, no join waits for ever |
| `remote_gap` | 2 sockets, slow subscriptions | finding: events without a snapshot |
| `client` | 1 player with or without an account, 2 questions, 1 click, 2 upsets | the screen is the session; identity; the player gets back in |
| `client_shutdown` | the same with 1 question and 1 upset | finding: a shutdown is taken for the end of the round |
| `archive` | 2 processes (one seeds), 1 code, 2 quizzes, 2 runs, 2 players, 1 failure, 2 exits | what is archived is whole runs, one at a time and current unless a write was spoilt |
| `archive_replay` | 1 process, 2 runs | finding: a replay takes points back |

Two players are enough for the session: every property is about one player or a
pair, and a question closes early on the last of two answers. Two connections
are needed for two tabs, for a connection that misses what another one gets,
and for a user change on a shared connection. Two questions show a streak
carried and broken, and a late answer to the previous question.

Bounds (constants of the specifications): `MaxLateMs`, how far time runs past a
due deadline before the event loop gets to it; `IdleMs`, how far time runs when
nothing is pending; `MaxClockBack`, how often the wall clock is set back;
`EarlyMs`, how early a timer may go off. Each exceeds zero where its effect
matters, the grace period included.

`actor` uses the view `Relative`: two states that differ by a shift of absolute
time, by a shift of absolute sequence numbers, or in times that are not read in
the phase they are in are explored once. The next-state relation compares times
with one another and never with a constant, so such states have the same
futures up to the shift; `connUser` and `sock` are kept whole. All properties
of that run are invariants. `SYMMETRY` permutes connection ids, which the code
only uses as keys. Deadlock checking is off for the actor because a disposed
actor does nothing any more.

For the cluster, `MaxCommands` bounds joins that are resolved, creations and
restarts together, and so the actors made; `MaxFaults` bounds crashes, shutdowns,
commands that fail and leases that lapse on a process that wants them. Two commands
are a predecessor and its successor, in one process or in two; two faults are one and
another one during the recovery from it. Forwarded joins, departures, heartbeats, idle
disposals, ends of the quiz and boots are not bounded, and none of
them, nor a restart, a shutdown or a failed renewal, waits for a claim or a
subscription to be over. What the properties then ask for differs:

* `SingleOwner` is about a cluster in which no lease has lapsed on a process that
  wants it (`stalls = 0`), and leaves processes that are closing out, whose leases are
  given up first (`server.ts:230`). Overtaken claims do not disturb it.
* `ReleaseSparesSuccessor` holds of every process; that the successor's claim is on the
  wire, of one that was not overtaken.
* `RenewsOnlyForLive` and `NobodyServesUnwatched` are about processes none of whose
  claims and subscriptions has been overtaken since they came up; `cluster_restart`
  shows what one that has been does.
* `SplitHeals` and `LeaseIsServed` are about runs in which no process stays
  overtaken, for the same reason: an actor without a heartbeat notices nothing.

`SYMMETRY` permutes processes, which the
specification never tells apart; it is not used for the liveness run. Deadlock
checking is off because a cluster nobody sends commands to comes to rest.

For `remote`, two sockets are what it takes for one to leave, time out or open a
session while another one plays; two objects are the most that can overlap on a
channel; two runs are a restart or a re-homed session. `MaxFaults` bounds crashes
of the owner and joins given up though the answer was on its way. For `client`,
`MaxUpsets` bounds remounts, restarts, shutdowns, crashes, broken and refused
connections and failed lookups together; a further socket is only made after
one. Two of them are a failure and another one during the recovery from it; the
expiry of the login comes on top. For `archive`, two runs are a replay, two
processes a re-homed code, and `MaxExits` bounds shutdowns and crashes. These
systems come to rest too, so deadlock checking is off.

### Fairness

`FairSpec` assumes weak fairness of ticks and of time. The actor justifies it:
`reschedule()` keeps a timer armed for every deadline, and `TimerMatchesDeadline`
checks that. `FairActorSpec` assumes what the event loop and `setTimeout` give:
a due timer callback is run and time passes. No fairness of clients is assumed:
`QuizRunsToEnd` holds though they all leave (unless the session is then
disposed as idle).

`FairClusterSpec` assumes that Redis answers, that continuations and heartbeats
run, and that a lease nobody renews lapses (its `PX`). Nothing is assumed of
clients, nor that a crashed process comes up again.

`FairRemoteSpec` and `FairClientSpec` assume weak fairness of progress as a
whole: while a message is on the wire, a request unanswered, a timer due or a
close handshake open, one of them goes on, since networks deliver and event loops
run. Nothing is assumed of what clients, owners and faults do, nor that a crashed
owner is replaced: `JoinAnswered` then rests on the join's time-out.

### Findings

1. **A disposed actor is served** (`cluster_restart`). Neither `onLocalCreated`
   after its claim nor `takeOwnership` after its subscription
   (`cluster/cluster-registry.ts:117-139`) looks at `actor.isDisposed` again. If an
   actor that was just created is restarted in that window, the entry in `owned`
   and the heartbeat are those of the disposed actor; `onLocalCreated` of its
   successor finds the entry and returns. The lease is renewed, the inbox leads
   to an actor that ignores it, and clients of other processes get no answer. A
   creation and one restart are enough.
2. **A stream without its snapshot** (`remote_gap`). `subscribe`
   (`cluster/bus.ts:44`) awaits SUBSCRIBE for the first handler of a channel
   only. Of two joins that resolve together, the second forwards its join while
   the subscription is under way; its welcome may be published before Redis
   delivers anything, and the next event both arrives alone and clears the timer
   that would have bounced the client.
3. **A replay takes points back** (`archive_replay`). `sessionCreated`
   (`db/repository.ts:156`) deletes the results of its code, which the ranking
   adds up; `src/README.md:76` has every finished session add to the total.
4. **A shutdown ends the round for its clients** (`client_shutdown`). Disposal
   closes sockets with 1001, which the client
   (`src/apps/web/src/lib/useQuizSocket.ts:268`) does not reconnect after;
   `src/docs/DESIGN.md:340` has them reconnect to another instance.

One more divergence has no run: `src/docs/DESIGN.md:342` says that an owner disposes
of its actor once its lease has lapsed, while `cluster/cluster-registry.ts:142` does so
on one failed renewal, when the lease has two thirds of its time to go. The model does
what the code does (`Renewed`, `Rejected`).

Five more statements are defined in the modules, with comments that say so, and
not kept by the code. No run lists them; a configuration of the module that names
one as its property shows the counterexample.

* `CachedBoardExact` (`QuizActor`, with a second name in `Names`): a rejoin under a new name changes the state
  (`domain/session.ts:143`) but `changesBoard` (`actor/quiz-actor.ts:439`) does
  not count it, so the cached ranking keeps the old name until a score or streak
  changes. `CachedBoardFresh` shows that names are all that can be stale.
* `AtMostOneFlushPerInterval` (`QuizActor`): the end of a question flushes at
  once (`actor/quiz-actor.ts:269`), on purpose, but the comment at line 11 and
  `src/README.md:169` promise one board per interval. `CoalescedFlushSpaced` is
  the bound that does hold.
* `NoJoinRefused` (`ClusterOwnership`): two first joins on one process both claim
  the lease, since a claim by its holder succeeds, and the second
  `registry.create` throws `SessionExistsError`: the client is told `internal`
  and left unjoined.
* `LateJoinerStartsNewRun` (`ClusterOwnership`): a join forwarded by another
  process goes straight to the actor (`cluster/remote.ts:112`) and not through
  `freshIfStale`, against `actor/registry.ts:101-103`.
* `FormerStandingsGone` (`Archive`): an UPDATE of `sessionFinished` that comes before the
  `sessionCreated` of its run finds no row, which is no error, and locks nothing. That
  `sessionCreated` and the one of the next run can commit before its INSERT, which then
  puts the former run's standings under a row that says "created"
  (`db/repository.ts:167`), until the new run is finished; the comment at
  `db/repository.ts:135-136` and `src/docs/AI_COLLABORATION.md:190-194` say that one
  transaction rules this out. If the new run is finished before that INSERT, the two
  runs stand side by side, or the INSERT fails on the primary key.
  `ArchivedRunsWhole` is what does hold.

## Proofs

`QuizSessionProofs` proves, with no bound on players, questions, rules or the
values of the clock (`AnyClockSpec` lets time jump anywhere between commands):

| Theorem | States |
|---|---|
| `TypeCorrect` | `[]TypeOK` |
| `SpecImpliesAnyClock` | the checked `Spec` implies `AnyClockSpec`, so the rest holds of it |
| `ScoreSeqsUnique` | `[]ScoreSeqUnique` |
| `NoOvertakingOnTies` | `OvertakeOnlyByPoints` |
| `AskedAnswered` | `[]OnlyAskedAnswered` |
| `OpenQuestionAwaits` | `[]OpenQuestionAwaitsSomeone` |
| `StreaksAreRuns` | `[]StreakIsRun` |
| `EarlyEndsOnlyWhenAllAnswered` | `ClosesEarlyOnlyWhenAllAnswered` |
| `ScoresAreSums` | `[]ScoreIsSum` |
| `RefinesGame` | `GameSafety`: initial states and steps of the session map to those of `QuizGame` |

`QuizActorProofs` proves, for any players, connections, delays of timers and
settings of the clock:

| Theorem | States |
|---|---|
| `ActorImplementsSession` | `ActorDrivesSession`: the actor changes the session by its commands alone |
| `ActorKeepsSessionInvariants` | the session's theorems, of the actor |
| `ActorTypeCorrect` | `[]ActorTypeOK` |
| `ConnMapsAlwaysAgree` | `[]ConnMapsAgree` |
| `IdleTimerArmedIffNobody` | `[]IdleTimerIffNobody` |
| `TimerAlwaysMatches` | `[]TimerMatchesDeadline` |
| `CachedBoardAlwaysFresh` | `[]CachedBoardFresh` |
| `FlushesAreSpaced` | `[]CoalescedFlushSpaced` |
| `ArchivedOnceAndFinal` | `[]ArchivedOnceFinal` |
| `ToldWhatIsSo` | `[]ToldWhatIs` |
| `OwnScoreIsTold` | `[]OwnScoreTold` |
| `StaleBoardAwaitsFlush` | `[]StaleBoardHasFlushPending` |

`ClusterOwnershipProofs` proves, for any number of processes, commands and faults,
and every order of the round trips:

| Theorem | States |
|---|---|
| `ClusterKeepsInv` | `[]ClusterInv`, the inductive invariant |
| `ClusterTypeCorrect` | `[]ClusterTypeOK` |
| `OneOwner` | `[]SingleOwner`: while no lease lapses on a process that wants it |
| `RenewedForLiveOnly` | `[]RenewsOnlyForLive`: of processes that were not overtaken |
| `ServedIsWatched` | `[]NobodyServesUnwatched`: of processes that were not overtaken |
| `SuccessorClaimsAgain` | `[]ReleaseSparesSuccessor` |

`RemoteSessionProofs` proves, for any number of sockets, remote sessions, runs,
events, answers and faults, and every order in which Redis takes requests and
delivers messages:

| Theorem | States |
|---|---|
| `RemoteKeepsInv` | `[]RemoteInv`, the inductive invariant |
| `RemoteTypeCorrect` | `[]RemoteTypeOK`, with slow subscriptions or without |
| `AttachedAreKnown` | `[]AttachedIsKnown`, with slow subscriptions or without |
| `NothingIsMissing` | `[]NothingMissing`, without slow subscriptions |
| `SnapshotComesFirst` | `[]SnapshotThenStream`, without slow subscriptions |
| `DisposalIsHeard` | `[]DisposalReachesSockets`, without slow subscriptions |

`RulesProofs` proves, for any finite set of standings of distinct
players, that `compareStandings` is a strict total order
(`AboveIsStrictTotalOrder`), that ranks agree with it (`RanksFollowOrder`) and
are distinct (`RanksDistinct`), that the ranking lists every player exactly
once, each above all that follow (`RankingListsEveryoneInOrder`), and that names do
not enter into it (`RankingIgnoresNames`): a cache that is stale in a name, as
`CachedBoardExact` describes, still has everybody in the right place.

It also proves, for every base, limit, elapsed time, streak and choice of
the rules, that a right answer given faster (`FasterIsWorthMore`) or on a longer
streak (`StreakIsWorthMore`) is never worth less, that it is worth at least the
minimum fraction (`WorthAtLeastMinFraction`) and at most the full bonus
(`WorthAtMostFullBonus`), the rounding included.

`ArchiveProofs` proves, for any processes, codes, quizzes, players, and numbers of
runs, failures and exits:

| Theorem | States |
|---|---|
| `ArchivedRunsAreWhole` | `[]ArchivedRunsWhole` |
| `ArchiveTypeCorrect` | `[]ArchiveTypeOK`, foreign keys included |
| `ArchiveIsCurrent` | `[]ArchiveCurrent` |
| `RunsAreKept` | no step changes a run's code or quiz, nor the standings of a finished run |

`QuizClientProofs` proves, for any number of questions, of things that break and of
choices, with restarts and shutdowns of the server or without:

| Theorem | States |
|---|---|
| `ClientKeepsInv` | `[]ClientInv`, the inductive invariant |
| `ClientTypeCorrect` | `[]ClientTypeOK` |
| `AnswersFollowJoins` | `[]AnswerFollowsJoin` |
| `IdentitiesAreKept` | `IdentityKept` |
| `ClientKeepsView` | `[](ClientInv /\ ViewInv)`, what is on screen and what is under way to it |
| `ScreenIsTheSession` | `[]ViewIsTheSession` |

`RateLimit` proves `RateLimited`: for every rate, burst and sequence of clock
readings, what a socket is let through is bounded by the burst and the rate over
what the clock ran forward.

Assumptions are `ScoringAssumption`, `SessionAssumption`, `NoneAssumption`,
`ActorAssumption`, `ClusterAssumption`, `RemoteAssumption`, `ArchiveAssumption` and
`ClientAssumption`, which TLC evaluates in every run of their modules; `RateLimited`
states its own. The theorems of the cluster assume nothing else: restarts, disposals,
shutdowns, failures and lapsed leases come at any moment, and what a property leaves
out (`stalls`, `overtaken`) is in its own statement. The last three theorems of remote
sessions assume `SlowSubscribe = FALSE`, which is the value the run `remote` gives it;
`remote_gap` shows that it is needed. The argument:

* Typing needs that a score is a natural number although the elapsed time may
  be negative: `PointsNat` carries that through the clamp, the products and the
  rounding (`RoundRatioNat`).
* `ScoreSeqUnique` is inductive with `TypeOK` because its first conjunct bounds
  every number drawn by `nextScoreSeq`. `StepScores` reduces all actions to one
  fact: a step changes no score, or one player draws a number and scores or
  joins.
* Overtaking is then a case split on that player: `score` cannot fall, and who
  keeps a score keeps the older number.
* `OpenQuestionAwaitsSomeone` is not inductive: a question could open with
  answers to it on record. `OnlyAskedAnswered` excludes that. `StepKinds` and
  `AnswerStep` say once what each kind of step does, for the proofs that follow.
* `StreakIsRun` says that some length of run is the streak, so each step picks
  the length before it and gives the length after it: one more for a right
  answer, none for a wrong one or a question left out, the same otherwise.
  `RunKept` is that the answers of other questions do not disturb a run.
* `ScoreIsSum` compares two sums that are defined by recursion over the questions.
  What an induction would show is shown of the least number that fails (`Least`,
  from well-foundedness): that sums exist, and that one term that grows makes the
  whole grow by as much (`SumsGrow`). A step changes one term at most, that of the
  open question.
* The refinement maps each kind of step to one of `QuizGame`; `AnswerCredits`
  shows that an accepted answer is credited once and while the question is open.
* For the actor, `SocketKinds` reduces all actions to four effects on
  connections (none moves, one leaves, one comes, all go) and `TimerKinds` does
  the same for the timer, so that each invariant is proved once per effect.
* What connections were told is not inductive by itself: a board is sent from the
  cache, so the cache must be fresh (`CachedBoardFresh`), and what is sent must
  have the shape of what is recorded (`SentShaped`). `TellStep` says once, for every
  action, what a connection that is still reached has been told of phase, score,
  board and sequence number; the three theorems on told state are read off it.
* In the cluster nothing about the lease is inductive without the pipelines: a claim
  or a release on the wire decides what will be so. `ClusterInv` has three parts, of
  which each process keeps as many as it can. `Behind` holds always: Redis answers in
  order, and what an actor asks for is behind the releases of its predecessors.
  `Orderly` holds of a process that was not overtaken, and relates its pipelines, its
  `owned` entry, its heartbeats and its actor: an actor that is not owned waits for the
  one claim of its hook, other claims are behind that one, and whoever is served is the
  live actor and has the heartbeat. `Leased` holds until a lease lapses on a process
  that wants it: where a claim of the live actor has been granted and no release follows
  (`Granted`, `Doomed`), the lease is that process's. Ownership needs only the third
  part, which a claim that was overtaken does not disturb, since the successor's claim
  goes to the same lease; that is why `OneOwner` needs no calm. Each handler is
  proved to keep all three of its process (`Kept`), and `AgreeKeeps` that the others do
  not notice.
* `made <= commands` needs its own strengthening: each command that is still under
  way may make one more actor, so the requests that may are counted as tickets, by
  an injection into the commands that have made none.
* `ArchivedRunsWhole` is not inductive: a transaction that ends brings the standings
  of its run, so that run must be finished by then (`WritesAreDue`), a finished run must
  stay as it is (`KeepsRuns`), and what a transaction under way has deleted must be whole
  runs too (`GoneWhole`), for its INSERT leaves the rest. The primary key keeps a player
  from standing there twice. `MoveIs` and `EndIs` say what a transaction's statements
  change; `ResultsStep` says the ways standings change.
* `ArchiveCurrent` is not inductive either: while writes are in flight it says
  nothing. As long as no write of a code has failed, been lost or overtaken another
  (`Settling`), the writes done are the first of all that were due and the tables
  show the last of them; when none is left, that is the last run. It needs that
  only one process runs a code, and its latest run (`LiveIsLatest`), and that a
  process which drains waits for every write it has begun (`DrainsAll`). A write that
  has come to its DELETE without a row has overtaken its own `sessionCreated`, so while
  nothing is spoilt a transaction under way has the row locked (`LocksHold`), and what it
  deleted is all there is (`OneRun`).
* For remote sessions, what a socket will have counted is what it has counted and the
  events on its way: `StreamOK` and `NoGap` are about the snapshot it has had or will be
  sent (`Snapshots`) and the way as a sequence of batches (`Way`). Events are counted
  by their places (`EventsIn`), so publishing a batch, losing its empty neighbours and
  reading its first frame are bijections or unions of sets of places (`SpreadEvents`,
  `ReadAllDoes`). `ReadAll` is a recursive function; what a connection has after
  reading a batch is shown by the least frame at which it would fail. A gap needs a
  publication nobody is subscribed to: `Hearing` says that whoever has been answered
  and is in a session of the channel's handler set finds Redis subscribed and no
  request under way, and the books (`BooksOK`, `SubsOK`) why that stays so while other
  sessions open and close. A way that carries a welcome carries nothing before it
  (`WelcomeFirst`), which is where a slow subscription breaks the chain. Owner and
  gateway are tied by the inbox (`InboxOK`): a connection held is in `conns`, or was
  abandoned, or its detach is behind it. The proof found that the frames a connection
  reads were not told apart from those a closed one drops; the model now says so.
* In the client, what is stored when a welcome or a refusal arrives was decided
  earlier: by the join on the wire, the lookup the server is in, the welcome on its
  way back. `TalkFits` says that each of these, on the socket the tab listens to,
  fits what is stored now, and that there is at most one (`Talks`). `RefsOK` keeps all
  other sockets from being heard. For the answers, a handler that has not joined has
  been denied, or is in its join, or has the join in front of whatever else it will
  read (`Introduced`).
* What the player is shown says nothing while a frame is under way, so it is not
  inductive either. `ViewInv` says it of all that is under way: of a socket that is
  open and attached, the last frame that bears on the phase and its number, on the
  question, on the user id or on the result (`LastSays`) says it as the session has
  it, and where there is none (`Without`) the screen is right already. The reducer
  drops an event with a lower number than that on screen, so the numbers under way
  must rise, and stay at or above that on screen unless a welcome comes before them
  (`Steady`). `ChoiceKept` is for the choice that shows as made: its answer is on the
  way or on record, or a refusal of it (`Refusals`) is on the way back or on screen.
  A result that counted is for the question that was open when it was sent, so it
  is read before the next one comes; nothing of the kind is true of one that did not
  count. Each action is then one of a few changes: a frame is read
  (`ShowsRead`), a result is sent or nothing (`ShowsReplied`), the session moves on and
  says so to all (`ShowsTold`), a welcome says it all (`ShowsWelcomed`), or the socket
  is no longer read (`WiredDead`). That a new session starts its numbers again does no
  harm because its sockets are attached by a welcome; those of the old one have been
  told that it ended, or been cut off (`ReplacedWires`).
* Scoring: the four bounds reduce to monotonicity of products, of `div` and of the
  clamp, which lemmas of `RulesProofs` state.
* The whole of the ranking follows by counting: ranks are an injection from the
  players into `1..n`, so they leave out no place.

Only model-checked, not proved: every liveness property (`QuizFinishes`,
`QuizRunsToEnd`, `SplitHeals`, `LeaseIsServed`, `JoinAnswered`, `NeverStuck`) and the
liveness half of `ImplementsGame`, which are beyond the provers. Every other property
of the passing runs is stated by a theorem.

## Not modelled

Connections of the registry without a cluster (`registry.ts`, `resolveForJoin`
and generated ids); subscriptions that fail and gateways that crash (the owner
then keeps their connections, `remote.ts:132`); sockets that have joined before
their owner crashed, which nothing in the code brings back unless a later join
times out; malformed frames and schema validation; registration, login and
hashing; SQL beyond the tables and keys above, limits and paging; metrics, logs,
configuration, the load test and the pages of the web client.

## Plan

All modules of the first plan are done. To come, in this order:

1. An abstract specification of `ClusterOwnership`, a session with one owner at
   a time outside of the windows a lapsed lease opens, and the refinement; one of
   `RemoteSession`, a direct connection of the actor.
2. Gateways that crash, and subscriptions that fail, in `RemoteSession`.
3. Proofs of those refinements; all safety properties of the runs have theirs.
