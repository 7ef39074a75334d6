-------------------------- MODULE ClusterOwnership --------------------------
(***************************************************************************)
(* Which server process owns one session: cluster/cluster-registry.ts with *)
(* the registry (actor/registry.ts) it wraps, the leases in Redis          *)
(* (cluster/directory.ts) and the subscription of the inbox                *)
(* (cluster/bus.ts).                                                       *)
(*                                                                         *)
(* A handler runs to its next `await'.  What awaits is a request on one of *)
(* the two Redis connections of its process: `pub' for commands, `sub' for *)
(* subscriptions.  Both are pipelines: Redis takes requests in the order   *)
(* they were sent, and continuations run in that order.  Between sending,  *)
(* execution and continuation anything else may happen.                    *)
(***************************************************************************)
EXTENDS Naturals, Sequences, FiniteSets

CONSTANTS
    Instances,      \* server processes
    None,           \* no instance, no actor, no entry
    AutoCreate,     \* AUTO_CREATE_SESSIONS
    MaxCommands,    \* bounds joins, creations and restarts; each makes at most one actor
    MaxFaults       \* bounds stalls (leases that lapse on a process that is up and wants
                    \* them), exits (crashes and shutdowns) and commands of Redis that
                    \* fail, together

ASSUME ClusterAssumption ==
    /\ None \notin Instances \cup Nat \cup [actor : Nat, serving : BOOLEAN]
    /\ AutoCreate \in BOOLEAN
    /\ MaxCommands \in Nat /\ MaxFaults \in Nat

VARIABLES
    lease,     \* quiz:{id}:owner in Redis
    meta,      \* is quiz:{id}:meta stored?
    proc,      \* the state of each process
    made,      \* number of actors made so far; actors are numbered in that order
    overtaken, \* processes that, since they came up, have lost an actor while a claim
               \* or subscription for it was under way (history)
    commands, stalls, exits, failures

redisVars == <<lease, meta>>
bounds == <<commands, stalls, exits, failures>>
clusterVars == <<lease, meta, proc, made, overtaken, bounds>>

-----------------------------------------------------------------------------
\* The state of a process, for the one session.
\* The tasks of an actor await requests that carry it, the others requests that
\* carry none; actors are numbered from 1, and n of them have been made.
Lookups == {"lookup", "winner", "checkFree"}
Claims == {"reclaim", "autoclaim", "createClaim", "hook", "own", "made"}
Releases == {"release", "lastRelease"}
ForActor == (Claims \ {"reclaim", "autoclaim"}) \cup {"putMeta", "createMeta", "renew"}
ForNone == Lookups \cup Releases \cup {"reclaim", "autoclaim", "getMeta"}
PubRequests(n) ==
    [at : ForActor, actor : 0..n, done : BOOLEAN, reply : Instances \cup {None}]
    \cup [at : ForNone, actor : {None}, done : BOOLEAN, reply : Instances \cup {None}]
SubRequests(n) ==
    [at : {"subscribed", "stopped", "lastStopped"}, actor : 0..n,
     wire : BOOLEAN, orphan : BOOLEAN]

Processes(n) ==
    [up : BOOLEAN,
     live : 0..n \cup {None},             \* the actor in the registry
     joined : BOOLEAN,                    \* is anyone connected to it?
     finished : BOOLEAN,                  \* is its quiz over?
     owned : [actor : 0..n, serving : BOOLEAN] \cup {None},
     hearts : SUBSET (0..n),              \* actors whose heartbeat interval runs
     channel : BOOLEAN,                   \* has the bus a handler set for the inbox?
     inbox : SUBSET (0..n),               \* and the actors in it
     remote : BOOLEAN,                    \* is there a RemoteSession for the id?
     refused : BOOLEAN,                   \* has a join met SessionExistsError?
     pub : Seq(PubRequests(n)), sub : Seq(SubRequests(n))]

Booted ==
    [up |-> TRUE, live |-> None, joined |-> FALSE, finished |-> FALSE, owned |-> None,
     hearts |-> {}, channel |-> FALSE, inbox |-> {}, remote |-> FALSE, refused |-> FALSE,
     pub |-> <<>>, sub |-> <<>>]
Down == [Booted EXCEPT !.up = FALSE]

\* await of a command, and of the bus; `wire' is false for a promise that is
\* resolved already, whose continuation is a microtask.
Send(p, at, a) ==
    [p EXCEPT !.pub = Append(@, [at |-> at, actor |-> a, done |-> FALSE, reply |-> None])]
AwaitBus(p, at, a, wire) ==
    [p EXCEPT !.sub = Append(@, [at |-> at, actor |-> a, wire |-> wire, orphan |-> FALSE])]

-----------------------------------------------------------------------------
\* bus.subscribe and the function it returns.  The handler set is the one of
\* the channel when the call was made: deleting the channel orphans the sets
\* whose subscription is still awaited.
Subscribe(p, a) ==
    IF p.channel THEN AwaitBus([p EXCEPT !.inbox = @ \cup {a}], "subscribed", a, FALSE)
    ELSE AwaitBus([p EXCEPT !.channel = TRUE], "subscribed", a, TRUE)

Unsubscribe(p, a, at) ==
    IF p.channel /\ p.inbox \subseteq {a}
    THEN AwaitBus([p EXCEPT !.channel = FALSE, !.inbox = {},
                            !.sub = [k \in DOMAIN @ |-> [@[k] EXCEPT !.orphan = TRUE]]],
                  at, a, TRUE)
    ELSE AwaitBus([p EXCEPT !.inbox = @ \ {a}], at, a, FALSE)

\* stop of an `owned' entry; the one that reserves the place does nothing.
Stop(p, entry, at) ==
    IF entry.serving
    THEN Unsubscribe([p EXCEPT !.hearts = @ \ {entry.actor}], entry.actor, at)
    ELSE p

DisposedUnheard(p) == p          \* mutant: the hook is not wired
StopOwned(p) ==                 \* mutant: the entry is not deleted
    IF p.owned = None THEN p ELSE Stop(p, p.owned, "stopped")
OnLocalDisposed(p) ==
    IF p.owned = None THEN p ELSE Stop([p EXCEPT !.owned = None], p.owned, "stopped")

\* SessionRegistry.dispose(quizId)
DisposedStillJoined(p) ==       \* mutant: the connections are kept
    IF p.live = None THEN p
    ELSE OnLocalDisposed([p EXCEPT !.live = None, !.finished = FALSE])
Disposed(p) ==
    IF p.live = None THEN p
    ELSE OnLocalDisposed([p EXCEPT !.live = None, !.joined = FALSE, !.finished = FALSE])

OnLocalCreated(p, a, at) ==
    IF p.owned # None \/ p.live # a THEN p ELSE Send(p, at, a)

\* SessionRegistry.create and the onCreated hook
Created(p, a) == OnLocalCreated([p EXCEPT !.live = a], a, "hook")

\* SessionRegistry.restart
Restarted(p, a) == Created(Disposed(p), a)

TakeOwnership(p, a) ==
    IF p.owned # None THEN p
    ELSE Subscribe([p EXCEPT !.owned = [actor |-> a, serving |-> FALSE]], a)

\* What follows the awaits of the bus: serveInbox in takeOwnership, and the
\* unsubscription in stop, which spares the lease of a successor.
ServedDeaf(p, s) ==             \* mutant: the inbox is not listened to
    [p EXCEPT !.hearts = @ \cup {s.actor}, !.owned = [actor |-> s.actor, serving |-> TRUE]]
ServedUnwatched(p, s) ==        \* mutant: the interval is not started
    [p EXCEPT !.inbox = IF s.wire /\ ~s.orphan THEN @ \cup {s.actor} ELSE @,
              !.owned = [actor |-> s.actor, serving |-> TRUE]]
Served(p, s) ==
    [p EXCEPT !.inbox = IF s.wire /\ ~s.orphan THEN @ \cup {s.actor} ELSE @,
              !.hearts = @ \cup {s.actor},
              !.owned = [actor |-> s.actor, serving |-> TRUE]]
ReleaseAlways(p) == Send(p, "release", None)     \* mutant: no look at the registry
ReleaseIfGone(p) == IF p.live = None THEN Send(p, "release", None) ELSE p

\* The client's join on the actor it was handed; a disposed one throws.
Joined(p, a) == IF p.live = a THEN [p EXCEPT !.joined = TRUE] ELSE p

-----------------------------------------------------------------------------
\* Whether process i is between two turns of its event loop.
Turn(i) == proc[i].up /\ \A k \in DOMAIN proc[i].sub : proc[i].sub[k].wire

\* Nothing in the code keeps a restart, a disposal or a failed renewal from coming
\* between a claim or a subscription and its continuation, which then goes on for an
\* actor that is not in the registry any more (cluster-registry.ts:122-147).
Overtaken(p) ==
    \/ \E k \in DOMAIN p.pub :
         p.pub[k].at \in {"hook", "own", "made"} /\ p.pub[k].actor # p.live
    \/ \E k \in DOMAIN p.sub : p.sub[k].at = "subscribed" /\ p.sub[k].actor # p.live

Become(i, p) ==
    /\ proc' = [proc EXCEPT ![i] = p]
    /\ overtaken' = IF Overtaken(p) THEN overtaken \cup {i}
                    ELSE IF p.up THEN overtaken ELSE overtaken \ {i}
BecomeMade(i, p) == Become(i, p) /\ made' = made + 1
Fresh == made + 1

ClusterInit ==
    /\ lease = None /\ meta = FALSE /\ made = 0 /\ overtaken = {}
    /\ proc = [i \in Instances |-> Booted]
    /\ commands = 0 /\ stalls = 0 /\ exits = 0 /\ failures = 0

\* May one more thing go wrong?
Faulty == stalls + exits + failures < MaxFaults

\* A command from outside, while the bound lasts.
Command(i) ==
    /\ Turn(i) /\ commands < MaxCommands
    /\ commands' = commands + 1
    /\ UNCHANGED <<redisVars, stalls, exits, failures>>

\* A client's join: resolveForJoin up to its first await.
JoinLocal(i) ==
    /\ Command(i)
    /\ proc[i].live # None
    /\ IF proc[i].finished /\ ~proc[i].joined
       THEN BecomeMade(i, Joined(Restarted(proc[i], Fresh), Fresh))
       ELSE Become(i, Joined(proc[i], proc[i].live)) /\ UNCHANGED made
JoinElsewhere(i) ==
    /\ Command(i)
    /\ proc[i].live = None /\ ~proc[i].remote
    /\ Become(i, Send(proc[i], "lookup", None))
    /\ UNCHANGED made

\* POST /api/sessions and the demo session
Create(i) ==
    /\ Command(i)
    /\ Become(i, Send(proc[i], "checkFree", None))
    /\ UNCHANGED made

\* POST /api/sessions/:id/restart
Restart(i) ==
    /\ Command(i)
    /\ proc[i].live # None
    /\ BecomeMade(i, Restarted(proc[i], Fresh))

-----------------------------------------------------------------------------
\* Redis takes the first request of a pipeline it has not taken yet.
Taken(i, k) == /\ ~proc[i].pub[k].done
               /\ \A j \in 1..k - 1 : proc[i].pub[j].done
Reply(i, k, r) ==
    proc' = [proc EXCEPT ![i].pub[k].done = TRUE, ![i].pub[k].reply = r]

RedisLookup(i, k) ==
    /\ proc[i].pub[k].at \in Lookups
    /\ Reply(i, k, lease)
    /\ UNCHANGED redisVars
ClaimAnyway(i, k) ==            \* mutant: the claim does not look at the owner
    /\ proc[i].pub[k].at \in Claims
    /\ lease' = i
    /\ Reply(i, k, lease')
    /\ UNCHANGED meta
RedisClaim(i, k) ==
    /\ proc[i].pub[k].at \in Claims
    /\ lease' = IF lease = None THEN i ELSE lease
    /\ Reply(i, k, lease')
    /\ UNCHANGED meta
RedisRenew(i, k) ==
    /\ proc[i].pub[k].at = "renew"
    /\ Reply(i, k, IF lease = i THEN i ELSE None)
    /\ UNCHANGED redisVars
RedisRelease(i, k) ==
    /\ proc[i].pub[k].at \in Releases
    /\ lease' = IF lease = i THEN None ELSE lease
    /\ Reply(i, k, None)
    /\ UNCHANGED meta
RedisGetMeta(i, k) ==
    /\ proc[i].pub[k].at = "getMeta"
    /\ Reply(i, k, IF meta THEN i ELSE None)
    /\ UNCHANGED redisVars
RedisPutMeta(i, k) ==
    /\ proc[i].pub[k].at \in {"putMeta", "createMeta"}
    /\ meta' = TRUE
    /\ Reply(i, k, None)
    /\ UNCHANGED lease

Redis(i) ==
    /\ proc[i].up
    /\ \E k \in DOMAIN proc[i].pub :
         /\ Taken(i, k)
         /\ \/ RedisLookup(i, k) \/ RedisClaim(i, k) \/ RedisRenew(i, k)
            \/ RedisRelease(i, k) \/ RedisGetMeta(i, k) \/ RedisPutMeta(i, k)
    /\ UNCHANGED <<made, overtaken, bounds>>

-----------------------------------------------------------------------------
\* Continuations: p is the process with its oldest request answered, r the
\* reply, a the actor of the task.
Resumes(i, at) ==
    /\ Turn(i)
    /\ proc[i].pub # <<>>
    /\ Head(proc[i].pub).done /\ Head(proc[i].pub).at \in at
    /\ UNCHANGED <<redisVars, bounds>>
Rest(i) == [proc[i] EXCEPT !.pub = Tail(@)]
Answer(i) == Head(proc[i].pub).reply
Task(i) == Head(proc[i].pub).actor

Proxied(p) == [p EXCEPT !.remote = TRUE]

\* resolveForJoin goes on.
LookedUp(i) ==
    /\ Resumes(i, {"lookup"})
    /\ Become(i, IF Answer(i) \in {None, i} THEN Send(Rest(i), "getMeta", None)
                 ELSE Proxied(Rest(i)))
    /\ UNCHANGED made
GotMeta(i) ==
    /\ Resumes(i, {"getMeta"})
    /\ Become(i, IF Answer(i) = i THEN Send(Rest(i), "reclaim", None)
                 ELSE IF AutoCreate THEN Send(Rest(i), "autoclaim", None)
                 ELSE Rest(i))
    /\ UNCHANGED made

\* await onLocalCreated(actor), then the client's join
ServeAndJoin(p, a) ==
    LET q == OnLocalCreated(p, a, "own") IN IF q = p THEN Joined(p, a) ELSE q
Reclaimed(i) ==
    /\ Resumes(i, {"reclaim", "autoclaim"})
    /\ \/ /\ Answer(i) # i
          /\ Become(i, Send(Rest(i), "winner", None)) /\ UNCHANGED made
       \/ /\ Answer(i) = i /\ proc[i].live # None
          /\ Become(i, [Rest(i) EXCEPT !.refused = TRUE]) /\ UNCHANGED made
       \/ /\ Answer(i) = i /\ proc[i].live = None
          /\ LET p == Created(Rest(i), Fresh)
             IN  BecomeMade(i, IF Head(proc[i].pub).at = "reclaim" THEN ServeAndJoin(p, Fresh)
                               ELSE Send(p, "putMeta", Fresh))
MetaStored(i) ==
    /\ Resumes(i, {"putMeta"})
    /\ Become(i, ServeAndJoin(Rest(i), Task(i)))
    /\ UNCHANGED made
FoundWinner(i) ==
    /\ Resumes(i, {"winner"})
    /\ Become(i, IF Answer(i) = None THEN Rest(i) ELSE Proxied(Rest(i)))
    /\ UNCHANGED made

\* onLocalCreated goes on, for the hook and for its two other callers.
Claimed(i) ==
    /\ Resumes(i, {"hook", "own", "made"})
    /\ LET p == IF Answer(i) = i THEN TakeOwnership(Rest(i), Task(i)) ELSE Disposed(Rest(i))
       IN  Become(i, IF Head(proc[i].pub).at = "own" THEN Joined(p, Task(i)) ELSE p)
    /\ UNCHANGED made

\* create goes on.
FoundFree(i) ==
    /\ Resumes(i, {"checkFree"})
    /\ IF Answer(i) = None /\ proc[i].live = None
       THEN BecomeMade(i, Send(Created(Rest(i), Fresh), "createClaim", Fresh))
       ELSE Become(i, Rest(i)) /\ UNCHANGED made
CreateClaimed(i) ==
    /\ Resumes(i, {"createClaim"})
    /\ Become(i, IF Answer(i) = i THEN Send(Rest(i), "createMeta", Task(i))
                 ELSE Disposed(Rest(i)))
    /\ UNCHANGED made
CreateMetaStored(i) ==
    /\ Resumes(i, {"createMeta"})
    /\ Become(i, OnLocalCreated(Rest(i), Task(i), "made"))
    /\ UNCHANGED made

\* The heartbeat: a renewal that fails disposes what is served here.
Renewed(i) ==
    /\ Resumes(i, {"renew"})
    /\ Become(i, IF Answer(i) = i \/ proc[i].live # Task(i) THEN Rest(i)
                 ELSE Disposed([Rest(i) EXCEPT !.hearts = @ \ {Task(i)}]))
    /\ UNCHANGED made
Released(i) ==
    /\ Resumes(i, {"release"})
    /\ Become(i, Rest(i))
    /\ UNCHANGED made
\* close() has given the lease up; the process disposes its sessions and exits.
Exits(i) ==
    /\ Resumes(i, {"lastRelease"})
    /\ Become(i, Down)
    /\ UNCHANGED made

\* A command fails, before Redis took it or with the reply lost.  What awaits it:
\* a join or a creation, which is told so and leaves things as they are; the hook,
\* whose rejection nobody handles and which ends the process; a renewal, which
\* counts as refused; a release, which is forgotten.
Rejected(p, a) ==
    CASE a.at = "hook" -> Down
      [] a.at = "lastRelease" -> Down
      [] a.at = "renew" /\ p.live = a.actor -> Disposed([p EXCEPT !.hearts = @ \ {a.actor}])
      [] OTHER -> p
CommandFails(i) ==
    /\ Turn(i) /\ proc[i].pub # <<>> /\ Faulty
    /\ failures' = failures + 1
    /\ Become(i, Rejected(Rest(i), Head(proc[i].pub)))
    /\ UNCHANGED <<redisVars, made, commands, stalls, exits>>

\* A promise of the bus is resolved: a microtask at once, the others in order.
BusResumes(i) ==
    /\ proc[i].up
    /\ \E k \in DOMAIN proc[i].sub :
         LET s == proc[i].sub[k]
             p == [proc[i] EXCEPT !.sub = SubSeq(@, 1, k - 1) \o SubSeq(@, k + 1, Len(@))]
         IN /\ IF s.wire THEN Turn(i) /\ k = 1 ELSE \A j \in 1..k - 1 : proc[i].sub[j].wire
            /\ Become(i, CASE s.at = "subscribed" -> Served(p, s)
                           [] s.at = "stopped" -> ReleaseIfGone(p)
                           [] s.at = "lastStopped" -> Send(p, "lastRelease", None))
    /\ UNCHANGED <<redisVars, made, bounds>>

-----------------------------------------------------------------------------
\* What else happens in a process.
Happens(i) == Turn(i) /\ UNCHANGED <<redisVars, made, bounds>>

\* A heartbeat goes off; a round trip is shorter than a third of a lease.
Heartbeat(i) ==
    /\ Happens(i)
    /\ \E a \in proc[i].hearts :
         /\ \A k \in DOMAIN proc[i].pub :
              ~(proc[i].pub[k].at = "renew" /\ proc[i].pub[k].actor = a)
         /\ Become(i, Send(proc[i], "renew", a))

\* The quiz of a session someone joined ends; the last connection leaves; the
\* idle timer goes off.
Finish(i) ==
    /\ Happens(i)
    /\ proc[i].joined /\ ~proc[i].finished
    /\ Become(i, [proc[i] EXCEPT !.finished = TRUE])
LastLeaves(i) ==
    /\ Happens(i)
    /\ proc[i].joined
    /\ Become(i, [proc[i] EXCEPT !.joined = FALSE])
Idle(i) ==
    /\ Happens(i)
    /\ proc[i].live # None /\ ~proc[i].joined
    /\ Become(i, Disposed(proc[i]))

\* A join through the gateway of i reaches every process that serves the inbox
\* with a live actor (remote.ts), and goes straight to that actor.
ForwardedJoin(i) ==
    /\ Happens(i)
    /\ proc[i].remote /\ proc[i].live = None
    /\ proc' = [j \in Instances |->
                  IF proc[j].live \in proc[j].inbox THEN Joined(proc[j], proc[j].live)
                  ELSE proc[j]]
    /\ UNCHANGED overtaken
\* The last client of the gateway leaves, or its owner does not answer.
DropRemote(i) ==
    /\ Happens(i)
    /\ proc[i].remote
    /\ Become(i, [proc[i] EXCEPT !.remote = FALSE])

\* Between close() and the exit of the process.
Closing(i) ==
    \/ \E k \in DOMAIN proc[i].sub : proc[i].sub[k].at = "lastStopped"
    \/ \E k \in DOMAIN proc[i].pub : proc[i].pub[k].at = "lastRelease"
\* SIGTERM: close() stops what is owned, and then the process goes.
Shutdown(i) ==
    /\ Turn(i) /\ ~Closing(i) /\ Faulty
    /\ Become(i, IF proc[i].owned = None \/ ~proc[i].owned.serving THEN Down
                 ELSE Stop(proc[i], proc[i].owned, "lastStopped"))
    /\ exits' = exits + 1
    /\ UNCHANGED <<redisVars, made, commands, stalls, failures>>

Crash(i) ==
    /\ proc[i].up /\ Faulty
    /\ Become(i, Down)
    /\ exits' = exits + 1
    /\ UNCHANGED <<redisVars, made, commands, stalls, failures>>
\* A process with the same INSTANCE_ID comes up again.
Boot(i) ==
    /\ ~proc[i].up
    /\ Become(i, Booted)
    /\ UNCHANGED <<redisVars, made, bounds>>

\* The lease runs out: of a process that lets it, or of one that stalls, or is
\* cut off from Redis, for longer than a lease.
Wanted(i) == proc[i].up /\ (proc[i].hearts # {} \/ proc[i].live # None \/ proc[i].pub # <<>>)
Lapse ==
    /\ lease # None /\ ~Wanted(lease)
    /\ lease' = None
    /\ UNCHANGED <<meta, proc, made, overtaken, bounds>>
Stall ==
    /\ lease # None /\ Wanted(lease) /\ Faulty
    /\ lease' = None
    /\ stalls' = stalls + 1
    /\ UNCHANGED <<meta, proc, made, overtaken, commands, exits, failures>>

Resume(i) ==
    \/ LookedUp(i) \/ GotMeta(i) \/ Reclaimed(i) \/ MetaStored(i) \/ FoundWinner(i)
    \/ Claimed(i) \/ FoundFree(i) \/ CreateClaimed(i) \/ CreateMetaStored(i)
    \/ Renewed(i) \/ Released(i) \/ Exits(i)
ClusterNext ==
    \/ \E i \in Instances :
         \/ JoinLocal(i) \/ JoinElsewhere(i) \/ Create(i) \/ Restart(i)
         \/ Redis(i) \/ Resume(i) \/ BusResumes(i) \/ Heartbeat(i)
         \/ Finish(i) \/ LastLeaves(i) \/ Idle(i) \/ ForwardedJoin(i) \/ DropRemote(i)
         \/ Shutdown(i) \/ Crash(i) \/ Boot(i) \/ CommandFails(i)
    \/ Lapse \/ Stall

ClusterSpec == ClusterInit /\ [][ClusterNext]_clusterVars

\* Redis answers, continuations and heartbeats run, leases that nobody renews
\* run out, and a proxy whose owner is gone is dropped.
FairClusterSpec ==
    /\ ClusterSpec
    /\ \A i \in Instances : WF_clusterVars(Redis(i)) /\ WF_clusterVars(Resume(i))
                            /\ WF_clusterVars(BusResumes(i)) /\ WF_clusterVars(Heartbeat(i))
    /\ WF_clusterVars(Lapse)

-----------------------------------------------------------------------------
\* Properties

\* Types, and what the registry forgets with an actor.
ClusterTypeOK ==
    /\ lease \in Instances \cup {None} /\ meta \in BOOLEAN
    /\ made \in 0..commands /\ commands \in 0..MaxCommands
    /\ {stalls, exits, failures} \subseteq Nat /\ stalls + exits + failures <= MaxFaults
    /\ proc \in [Instances -> Processes(made)] /\ overtaken \subseteq Instances
    /\ \A i \in Instances : proc[i].live = None => ~proc[i].joined /\ ~proc[i].finished

Owns(i) == proc[i].live # None /\ proc[i].owned # None /\ proc[i].owned.actor = proc[i].live

\* The single writer (docs/DESIGN.md, section 2): whatever joins, creations,
\* restarts, disposals, failing commands, crashes and shutdowns cross on the wire, no
\* two processes own the session, as long as no lease has lapsed on a process that
\* wanted it.
SingleOwner ==
    stalls = 0 =>
        \A i, j \in Instances : Owns(i) /\ Owns(j) /\ ~Closing(i) /\ ~Closing(j) => i = j

\* Not kept by the code.  Leases are renewed while the actor lives
\* (cluster-registry.ts:6-7), not beyond: a restart that overtakes the subscription
\* of its predecessor leaves it a heartbeat.
HeartbeatsOnlyForLive == \A i \in Instances : proc[i].hearts \subseteq {proc[i].live}

\* Apart from that: a process none of whose claims and subscriptions has been
\* overtaken renews a lease for the actor it has, through stalls, failures, restarts
\* and disposals.
RenewsOnlyForLive ==
    \A i \in Instances \ overtaken : proc[i].hearts \subseteq {proc[i].live}

\* In such a process a live actor has a heartbeat that will notice when the lease is
\* lost, or a claim under way that leads to one or to its disposal.
Watched(i) ==
    \/ proc[i].live \in proc[i].hearts
    \/ \E k \in DOMAIN proc[i].pub :
         proc[i].pub[k].at \in {"hook", "own", "made"} /\ proc[i].pub[k].actor = proc[i].live
    \/ \E k \in DOMAIN proc[i].sub :
         proc[i].sub[k].at = "subscribed" /\ proc[i].sub[k].actor = proc[i].live
NobodyServesUnwatched ==
    \A i \in Instances \ overtaken : proc[i].live # None /\ ~Closing(i) => Watched(i)

\* A release on the wire never deletes the lease of a successor
\* (cluster-registry.ts:156-157): the actor that is live does not own the session yet,
\* and all it has asked Redis for is behind the release.  In a process that was not
\* overtaken its claim is there.
ReleaseSparesSuccessor ==
    \A i \in Instances : \A k \in DOMAIN proc[i].pub :
        proc[i].pub[k].at = "release" /\ proc[i].live # None =>
            /\ ~Owns(i)
            /\ \A m \in DOMAIN proc[i].pub : proc[i].pub[m].actor = proc[i].live => m > k
            /\ i \in overtaken \/ \E m \in DOMAIN proc[i].pub :
                                     proc[i].pub[m].at = "hook" /\ proc[i].pub[m].actor = proc[i].live

\* After a stall, a split session comes back to one live actor, unless a process has
\* been overtaken, whose actor may have no heartbeat.
SplitHeals ==
    []<>(overtaken # {} \/ \A i, j \in Instances :
                              proc[i].live # None /\ proc[j].live # None => i = j)

\* A lease is never kept for good by a process that does not serve the
\* session: the session can be re-homed, or is reached through its inbox.
LeaseIsServed ==
    []<>(overtaken = {} /\ lease # None => proc[lease].live \in proc[lease].inbox)

\* Not kept by the code.  No join fails with an internal error because another
\* one of the same session has just been served (re-homing,
\* cluster-registry.ts:74-75): two claims of one process both succeed.
NoJoinRefused == \A i \in Instances : ~proc[i].refused

\* Not kept by the code.  A finished session that nobody is looking at is not
\* joined any more; a new run is started instead (registry.ts:100-104): a join
\* forwarded by another process is not resolved by the owner (remote.ts:112).
LateJoinerStartsNewRun ==
    [][\A i \in Instances :
         proc[i].finished /\ ~proc[i].joined /\ proc'[i].live = proc[i].live => ~proc'[i].joined]_clusterVars
=============================================================================
