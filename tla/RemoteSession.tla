--------------------------- MODULE RemoteSession ---------------------------
(***************************************************************************)
(* Sockets of one server process (the gateway) that play in a session of   *)
(* another (its owner): cluster/remote.ts, openRemote and the map of       *)
(* remote sessions in cluster/cluster-registry.ts, and the subscriptions   *)
(* of cluster/bus.ts.                                                      *)
(*                                                                         *)
(* Every process has two connections to Redis, one for commands and one    *)
(* for subscriptions, each a pipeline.  A message published while Redis    *)
(* holds no subscription is lost.  The actor is what its connections see   *)
(* of it: it answers a join with a welcome that carries its sequence       *)
(* number and then sends every event (QuizActor models the rest).          *)
(*                                                                         *)
(* A socket sends one join, as the web client does; one handler of it runs *)
(* at a time.  RemoteSession objects are numbered in order of creation.    *)
(***************************************************************************)
EXTENDS Naturals, FiniteSets, Sequences

CONSTANTS
    Sockets,        \* connections of the gateway
    None,
    SlowSubscribe,  \* may the owner answer a join before Redis has taken a subscription
                    \* that the gateway asked for earlier?
    MaxOpens,       \* bound: RemoteSession objects made
    MaxRuns,        \* bound: actors that serve the session one after the other
    MaxEvents,      \* bound: events of one run
    MaxAnswers,     \* bound: answers forwarded
    MaxFaults       \* bound: crashes of the owner, and joins given up though an answer
                    \* was on its way, together

ASSUME RemoteAssumption ==
    /\ None \notin Nat \cup Sockets
    /\ SlowSubscribe \in BOOLEAN
    /\ {MaxOpens, MaxRuns, MaxEvents, MaxAnswers, MaxFaults} \subseteq Nat /\ MaxRuns > 0

VARIABLES
    gw,         \* the gateway process
    heard,      \* does Redis deliver quiz:{id}:gw:{gateway} to the gateway?
    toGateway,  \* the gateway's subscription connection, Redis to gateway
    owner,      \* the session's actor and its RemoteGateway
    faults, answers

vars == <<gw, heard, toGateway, owner, faults, answers>>

Objects == 1..MaxOpens
Runs == 1..MaxRuns

-----------------------------------------------------------------------------
\* The state.
Frames ==
    [k : {"welcome"}, seq : 0..MaxEvents, run : Runs] \cup [k : {"event", "reply", "bye"}]
Batches == [Sockets -> Seq(Frames)]      \* frames of different sockets do not interact

Socket ==
    [up : {"open", "closing", "closed"},
     at : {"start", "lookup", "opening", "joined"},  \* where the handler of its join is
     session : Objects \cup {None},
     seq : 0..MaxEvents \cup {None},     \* what its client counts to; None: no welcome yet
     run : Runs \cup {None},             \* the run that welcomed it
     stray : BOOLEAN,                    \* did an event reach it before any welcome?
     abandoned : BOOLEAN]                \* was it dropped from conns with its owner?

Gateway ==
    [remotes : Objects \cup {None},      \* ClusterRegistry.remotes, for this session
     opens : 0..MaxOpens,
     conns : [Objects -> SUBSET Sockets],
     pending : SUBSET Sockets,           \* pendingJoins
     channel : BOOLEAN,                  \* has the bus a handler set for the channel?
     handlers : SUBSET Objects,          \* and the objects in it
     awaiting : SUBSET Objects,          \* and those that will add themselves to it
     sub : Seq([t : {"sub", "unsub"}, r : Objects]),
     inbox : Seq([t : {"join", "answer", "detach"}, c : Sockets]),
     sock : [Sockets -> Socket]]

Owners ==
    [run : Runs, serving : BOOLEAN,
     crashed : 0..MaxRuns,               \* the last run a crash may have cut short
     attached : SUBSET Sockets, seq : 0..MaxEvents,
     out : Batches]                      \* RemoteGateway.pending

Quiet == [c \in Sockets |-> <<>>]

RemoteInit ==
    /\ gw = [remotes |-> None, opens |-> 0, conns |-> [r \in Objects |-> {}],
             pending |-> {}, channel |-> FALSE, handlers |-> {}, awaiting |-> {},
             sub |-> <<>>, inbox |-> <<>>,
             sock |-> [c \in Sockets |->
                        [up |-> "open", at |-> "start", session |-> None, seq |-> None,
                         run |-> None, stray |-> FALSE, abandoned |-> FALSE]]]
    /\ heard = FALSE /\ toGateway = <<>>
    /\ owner = [run |-> 1, serving |-> TRUE, crashed |-> 0, attached |-> {}, seq |-> 0,
                out |-> Quiet]
    /\ faults = 0 /\ answers = 0

-----------------------------------------------------------------------------
\* The gateway's code, as functions of its state.
Send(g, t, c) == [g EXCEPT !.inbox = Append(@, [t |-> t, c |-> c])]

\* The function bus.subscribe returned to r.
UnsubscribeAll(g, r) ==         \* mutant: the set is deleted though others are in it
    IF ~g.channel THEN g
    ELSE [g EXCEPT !.handlers = {}, !.awaiting = {}, !.channel = FALSE,
                   !.sub = Append(@, [t |-> "unsub", r |-> r])]
Unsubscribe(g, r) ==
    IF ~g.channel THEN g
    ELSE IF g.handlers \subseteq {r}
         THEN [g EXCEPT !.handlers = {}, !.awaiting = {}, !.channel = FALSE,
                        !.sub = Append(@, [t |-> "unsub", r |-> r])]
         ELSE [g EXCEPT !.handlers = @ \ {r}]

\* drop, in openRemote: onEmpty and onOwnerDead; close() of r up to its end.
TimersKept(g, r) == Unsubscribe([g EXCEPT !.remotes = None], r)     \* mutant
Drop(g, r) ==
    Unsubscribe([g EXCEPT !.remotes = None, !.pending = @ \ g.conns[r]], r)

SilentDetach(g, c) ==           \* mutant: the owner is not told
    LET r == g.sock[c].session
        left == [g EXCEPT !.conns[r] = @ \ {c}, !.pending = @ \ {c}]
    IN  IF c \notin g.conns[r] THEN [g EXCEPT !.pending = @ \ {c}]
        ELSE IF left.conns[r] = {} THEN Drop(left, r) ELSE left
Detach(g, c) ==
    LET r == g.sock[c].session
        left == Send([g EXCEPT !.conns[r] = @ \ {c}, !.pending = @ \ {c}], "detach", c)
    IN  IF c \notin g.conns[r] THEN [g EXCEPT !.pending = @ \ {c}]
        ELSE IF left.conns[r] = {} THEN Drop(left, r) ELSE left

\* RemoteSession.join
UntimedJoin(g, c, r) ==         \* mutant: no timer
    Send([g EXCEPT !.conns[r] = @ \cup {c},
                   !.sock[c].at = "joined", !.sock[c].session = r], "join", c)
Join(g, c, r) ==
    Send([g EXCEPT !.conns[r] = @ \cup {c}, !.pending = @ \cup {c},
                   !.sock[c].at = "joined", !.sock[c].session = r], "join", c)

\* The handler of c has its session; `if (!conn) return', ws.ts:120.
Resolved(g, c, r) ==
    IF g.sock[c].up = "closed"
    THEN [g EXCEPT !.sock[c].at = "joined", !.sock[c].session = None]
    ELSE Join(g, c, r)

\* openRemote.  A subscription that finds a handler set awaits nothing.
OpenRemote(g, c) ==
    LET r == g.opens + 1
    IN  IF g.remotes # None THEN Resolved(g, c, g.remotes)
        ELSE IF g.channel
             THEN Resolved([g EXCEPT !.opens = r, !.remotes = r, !.handlers = @ \cup {r}], c, r)
             ELSE [g EXCEPT !.opens = r, !.channel = TRUE, !.awaiting = {r},
                            !.sub = Append(@, [t |-> "sub", r |-> r]),
                            !.sock[c].at = "opening", !.sock[c].session = r]

\* The end of openRemote for the object that awaited the subscription.
Opened(g, r) ==
    LET c == CHOOSE c \in Sockets : g.sock[c].at = "opening" /\ g.sock[c].session = r
        added == IF r \in g.awaiting
                 THEN [g EXCEPT !.awaiting = @ \ {r}, !.handlers = @ \cup {r}] ELSE g
    IN  Resolved([added EXCEPT !.remotes = r], c, r)

\* The timer of a join: the owner is taken for dead.
OwnerDead(g, c) ==
    LET r == g.sock[c].session
    IN  [Drop(g, r) EXCEPT
            !.conns[r] = {},
            !.sock = [d \in Sockets |->
                IF d \notin g.conns[r] THEN g.sock[d]
                ELSE [g.sock[d] EXCEPT !.abandoned = TRUE,
                                       !.up = IF @ = "open" THEN "closing" ELSE @]]]

\* A frame reaches a connection; the empty one closes it.  A socket that is
\* closing drops what it is sent.
ReadDeaf(s, f) ==               \* mutant: the empty frame is sent on
    IF s.up # "open" THEN s ELSE
    CASE f.k = "welcome" -> [s EXCEPT !.seq = f.seq, !.run = f.run]
      [] f.k = "event" /\ s.seq = None -> [s EXCEPT !.stray = TRUE]
      [] f.k = "event" /\ s.seq # None -> [s EXCEPT !.seq = @ + 1]
      [] f.k \in {"reply", "bye"} -> s
Read(s, f) ==
    IF s.up # "open" THEN s ELSE
    CASE f.k = "welcome" -> [s EXCEPT !.seq = f.seq, !.run = f.run]
      [] f.k = "event" /\ s.seq = None -> [s EXCEPT !.stray = TRUE]
      [] f.k = "event" /\ s.seq # None -> [s EXCEPT !.seq = @ + 1]
      [] f.k = "reply" -> s
      [] f.k = "bye" -> [s EXCEPT !.up = "closing"]

ReadAll(s, frames) ==
    LET after[i \in 0..Len(frames)] == IF i = 0 THEN s ELSE Read(after[i - 1], frames[i])
    IN  after[Len(frames)]

Listening(g, c) == \E r \in g.handlers : c \in g.conns[r]

\* The message handlers of the channel, for one batch.
Deliver(g, batch) ==
    LET reached == {c \in Sockets : batch[c] # <<>> /\ Listening(g, c)}
    IN  [g EXCEPT !.pending = @ \ reached,
                  !.sock = [c \in Sockets |->
                    IF c \in reached THEN ReadAll(@[c], batch[c]) ELSE @[c]]]

-----------------------------------------------------------------------------
\* The owner's code, as functions of its state.
Enqueue(o, c, frame) == [o EXCEPT !.out[c] = Append(@, frame)]

EnqueueAll(o, frame) ==
    [o EXCEPT !.out = [c \in Sockets |->
        IF c \in o.attached THEN Append(@[c], frame) ELSE @[c]]]

Welcome(o) == [k |-> "welcome", seq |-> o.seq, run |-> o.run]

\* serveInbox's handler.
Command(o, m) ==
    CASE ~o.serving -> o
      [] o.serving /\ m.t = "join" ->
            Enqueue([o EXCEPT !.attached = @ \cup {m.c}], m.c, Welcome(o))
      [] o.serving /\ m.t = "answer" ->
            IF m.c \in o.attached THEN Enqueue(o, m.c, [k |-> "reply"]) ELSE o
      [] o.serving /\ m.t = "detach" -> [o EXCEPT !.attached = @ \ {m.c}]

\* actor.dispose: every connection is closed.
Disposed(o) ==
    [EnqueueAll(o, [k |-> "bye"]) EXCEPT !.attached = {}, !.serving = FALSE]

-----------------------------------------------------------------------------
\* The steps of the gateway.
bounds == <<faults, answers>>

\* A join frame: resolveForJoin up to its first await.
JoinFrame(c) ==
    /\ gw.sock[c].at = "start" /\ gw.sock[c].up = "open"
    /\ gw' = IF gw.remotes # None THEN Join(gw, c, gw.remotes)
             ELSE [gw EXCEPT !.sock[c].at = "lookup"]
    /\ UNCHANGED <<heard, toGateway, owner, bounds>>

\* directory.owner names the owner: its lease outlives a crash, and a disposal
\* that is the first half of a restart.
OwnerKnown(c) ==
    /\ gw.sock[c].at = "lookup" /\ gw.opens < MaxOpens
    /\ gw' = OpenRemote(gw, c)
    /\ UNCHANGED <<heard, toGateway, owner, bounds>>

AnswerFrame(c) ==
    /\ answers < MaxAnswers
    /\ gw.sock[c].session # None /\ gw.sock[c].seq # None /\ gw.sock[c].up # "closed"
    /\ answers' = answers + 1
    /\ gw' = Send(gw, "answer", c)
    /\ UNCHANGED <<heard, toGateway, owner, faults>>

\* onClose, of a socket the gateway closes or its client leaves.
Closed(c) ==
    /\ gw.sock[c].up # "closed" /\ gw.sock[c].at # "start"
    /\ LET left == IF gw.sock[c].at = "joined" THEN Detach(gw, c) ELSE gw
       IN  gw' = [left EXCEPT !.sock[c].up = "closed"]
    /\ UNCHANGED <<heard, toGateway, owner, bounds>>

\* What is between the owner and the socket c, batch by batch in their order.
Way(c) ==
    [j \in 1..(Len(toGateway) + 1) |->
        IF j > Len(toGateway) THEN owner.out[c]
        ELSE IF toGateway[j].t = "batch" THEN toGateway[j].frames[c] ELSE <<>>]
Carries(way, kind) == \E j \in DOMAIN way : \E i \in DOMAIN way[j] : way[j][i].k = kind

\* Is what would stop the timer of c still to come?
AnswerComing(c) ==
    \/ \E i \in DOMAIN gw.inbox : gw.inbox[i] = [t |-> "join", c |-> c]
    \/ \E j \in DOMAIN Way(c) : Way(c)[j] # <<>>

\* setTimeout(..., OWNER_TIMEOUT_MS) of a join.
JoinTimeout(c) ==
    /\ c \in gw.pending
    /\ IF AnswerComing(c) THEN faults < MaxFaults /\ faults' = faults + 1
       ELSE UNCHANGED faults
    /\ gw' = OwnerDead(gw, c)
    /\ UNCHANGED <<heard, toGateway, owner, answers>>

\* What Redis sends on the subscription connection arrives.
GatewayReceives ==
    /\ toGateway # <<>>
    /\ LET m == Head(toGateway)
       IN  gw' = IF m.t = "batch" THEN Deliver(gw, m.frames) ELSE Opened(gw, m.r)
    /\ toGateway' = Tail(toGateway)
    /\ UNCHANGED <<heard, owner, bounds>>

\* Redis takes SUBSCRIBE or UNSUBSCRIBE; nobody waits for the reply of the second.
RedisTakes ==
    /\ gw.sub # <<>>
    /\ gw' = [gw EXCEPT !.sub = Tail(@)]
    /\ heard' = (Head(gw.sub).t = "sub")
    /\ toGateway' = IF Head(gw.sub).t = "sub"
                    THEN Append(toGateway, [t |-> "opened", r |-> Head(gw.sub).r])
                    ELSE toGateway
    /\ UNCHANGED <<owner, bounds>>

-----------------------------------------------------------------------------
\* The steps of the owner.
OwnerReceives ==
    /\ gw.inbox # <<>>
    /\ SlowSubscribe \/ \A i \in DOMAIN gw.sub : gw.sub[i].t # "sub"
    /\ owner' = Command(owner, Head(gw.inbox))
    /\ gw' = [gw EXCEPT !.inbox = Tail(@)]
    /\ UNCHANGED <<heard, toGateway, bounds>>

\* Something happens in the session and is broadcast.
Broadcast ==
    /\ owner.serving /\ owner.seq < MaxEvents
    /\ owner' = EnqueueAll([owner EXCEPT !.seq = @ + 1], [k |-> "event"])
    /\ UNCHANGED <<gw, heard, toGateway, bounds>>

\* setImmediate in enqueue: what has gathered is published at once.
Flush ==
    /\ owner.out # Quiet
    /\ toGateway' = IF heard THEN Append(toGateway, [t |-> "batch", frames |-> owner.out])
                    ELSE toGateway
    /\ owner' = [owner EXCEPT !.out = Quiet]
    /\ UNCHANGED <<gw, heard, bounds>>

Dispose ==
    /\ owner.serving
    /\ owner' = Disposed(owner)
    /\ UNCHANGED <<gw, heard, toGateway, bounds>>

Crash ==
    /\ faults < MaxFaults /\ owner.run > owner.crashed
    /\ faults' = faults + 1
    /\ owner' = [owner EXCEPT !.serving = FALSE, !.crashed = owner.run,
                              !.attached = {}, !.out = Quiet]
    /\ UNCHANGED <<gw, heard, toGateway, answers>>

\* The restarted or re-homed session serves its inbox.
NextRun ==
    /\ ~owner.serving /\ owner.run < MaxRuns
    /\ owner' = [owner EXCEPT !.run = @ + 1, !.serving = TRUE, !.seq = 0]
    /\ UNCHANGED <<gw, heard, toGateway, bounds>>

RemoteNext ==
    \/ \E c \in Sockets :
          JoinFrame(c) \/ OwnerKnown(c) \/ AnswerFrame(c) \/ Closed(c) \/ JoinTimeout(c)
    \/ GatewayReceives \/ RedisTakes
    \/ OwnerReceives \/ Broadcast \/ Flush \/ Dispose \/ Crash \/ NextRun

RemoteSpec == RemoteInit /\ [][RemoteNext]_vars

\* Redis and the event loops go on: while a request, a message, a due timer or a
\* close handshake is left, one of them is processed.
Progress ==
    \/ GatewayReceives \/ RedisTakes \/ OwnerReceives \/ Flush
    \/ \E c \in Sockets :
          \/ ~AnswerComing(c) /\ JoinTimeout(c)
          \/ gw.sock[c].up = "closing" /\ Closed(c)
FairRemoteSpec == RemoteSpec /\ WF_vars(Progress)

-----------------------------------------------------------------------------
\* Types of the state, and what the maps of the gateway owe each other: a join
\* that waits, waits for a socket its session still holds (remote.ts:135-137).
RemoteTypeOK ==
    /\ gw \in Gateway
    /\ heard \in BOOLEAN
    /\ \A i \in DOMAIN toGateway :
          \/ toGateway[i].t = "opened" /\ toGateway[i].r \in Objects
          \/ toGateway[i].t = "batch" /\ toGateway[i].frames \in Batches
    /\ owner \in Owners
    /\ faults \in 0..MaxFaults /\ answers \in 0..MaxAnswers
    /\ \A c \in gw.pending : \E r \in Objects : c \in gw.conns[r]

\* How many events for c are between the owner and its socket.
EventsIn(way) ==
    Cardinality(UNION {{j} \X {i \in DOMAIN way[j] : way[j][i].k = "event"} : j \in DOMAIN way})
OnTheWay(c) == EventsIn(Way(c))

\* Snapshot, then stream, without a gap (docs/DESIGN.md, 8.3): an open socket that
\* the owner holds and that has had its welcome misses nothing and hears nothing
\* twice, whatever sessions open and close beside its own on the same channel.
NothingMissing ==
    \A c \in owner.attached :
        gw.sock[c].up = "open" /\ gw.sock[c].run = owner.run
            => gw.sock[c].seq + OnTheWay(c) = owner.seq

\* Whoever is sent the stream was sent the snapshot it continues first.
SnapshotThenStream == \A c \in Sockets : ~gw.sock[c].stray

\* The owner never holds a connection that the gateway has forgotten, or its idle
\* timer would not start: the socket is still in a session's conns, or the detach
\* is on its way, or it was dropped together with an owner taken for dead.
AttachedIsKnown ==
    \A c \in owner.attached :
        \/ \E r \in Objects : c \in gw.conns[r]
        \/ \E i \in DOMAIN gw.inbox : gw.inbox[i] = [t |-> "detach", c |-> c]
        \/ gw.sock[c].abandoned

\* A session that is disposed, by a restart or at its end, closes the sockets it
\* had through other processes: the closing frame of a socket that outlived its
\* run is on the way.  Those of a crashed process it cannot close.
DisposalReachesSockets ==
    \A c \in Sockets :
        /\ gw.sock[c].up = "open" /\ gw.sock[c].run # None
        /\ gw.sock[c].run > owner.crashed
        /\ gw.sock[c].run < owner.run \/ ~owner.serving
        => Carries(Way(c), "bye")

\* A join that was forwarded is answered with a snapshot, or its socket is closed
\* for the client to try again: nobody waits for ever.
Waiting(c) ==
    /\ gw.sock[c].at = "joined" /\ gw.sock[c].session # None
    /\ gw.sock[c].seq = None /\ gw.sock[c].up # "closed"
JoinAnswered == []<>(\A c \in Sockets : ~Waiting(c))
=============================================================================
