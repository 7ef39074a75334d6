------------------------ MODULE RemoteSessionProofs ------------------------
(***************************************************************************)
(* Of the sockets of one process that play in a session of another         *)
(* (RemoteSession), for any number of sockets, runs, events and faults: no *)
(* gap between snapshot and stream, no connection that the gateway has     *)
(* forgotten, no socket that outlives its run unnoticed.                   *)
(***************************************************************************)
EXTENDS RemoteSession, FiniteSetTheorems, WellFoundedInduction, TLAPS

Coming(t, c) == \E i \in DOMAIN gw.inbox : gw.inbox[i] = [t |-> t, c |-> c]
Opening(g, r) == \E c \in Sockets : g.sock[c].at = "opening" /\ g.sock[c].session = r
Held(g, c) == \E r \in Objects : c \in g.conns[r]

StateTyped ==
    /\ gw \in Gateway /\ heard \in BOOLEAN
    /\ toGateway \in Seq([t : {"opened"}, r : Objects] \cup [t : {"batch"}, frames : Batches])
    /\ owner \in Owners
    /\ faults \in 0..MaxFaults /\ answers \in 0..MaxAnswers

\* The maps of the gateway.
BooksOK(g) ==
    /\ \A r \in Objects : \A c \in g.conns[r] : g.sock[c].at = "joined" /\ g.sock[c].session = r
    /\ \A c \in g.pending : Held(g, c)
    /\ \A c \in Sockets :
          LET x == g.sock[c]
          IN  /\ x.at \in {"start", "lookup"} => x.session = None
              /\ x.session # None => x.session <= g.opens
              /\ x.at = "opening" => /\ x.session # None /\ x.session # g.remotes
                                     /\ x.session \notin g.handlers /\ g.conns[x.session] = {}
              /\ x.at = "joined" /\ x.session # None /\ x.up = "open" => c \in g.conns[x.session]
              /\ x.at = "joined" /\ x.session = None => x.up = "closed"
    /\ \A c, d \in Sockets : g.sock[c].at = "opening" /\ g.sock[d].at = "opening"
                             /\ g.sock[c].session = g.sock[d].session => c = d
    /\ \A r \in g.handlers \cup g.awaiting \cup {g.remotes} : r # None => r <= g.opens
    /\ ~g.channel => g.handlers = {} /\ g.awaiting = {}

\* What SUBSCRIBE and its replies are about, and what they will come to.
SubsOK ==
    /\ IF gw.sub = <<>> THEN heard = gw.channel
       ELSE gw.channel <=> gw.sub[Len(gw.sub)].t = "sub"
    /\ \A i \in DOMAIN gw.sub : gw.sub[i].t = "sub" => Opening(gw, gw.sub[i].r)
    /\ \A i \in DOMAIN toGateway : toGateway[i].t = "opened" => Opening(gw, toGateway[i].r)
    /\ \A i, j \in DOMAIN gw.sub :
          gw.sub[i].t = "sub" /\ gw.sub[j].t = "sub" /\ gw.sub[i].r = gw.sub[j].r => i = j
    /\ \A i, j \in DOMAIN toGateway :
          toGateway[i].t = "opened" /\ toGateway[j].t = "opened"
          /\ toGateway[i].r = toGateway[j].r => i = j
    /\ \A i \in DOMAIN gw.sub, j \in DOMAIN toGateway :
          gw.sub[i].t = "sub" /\ toGateway[j].t = "opened" => gw.sub[i].r # toGateway[j].r

\* Who has joined, is known, or is about to be detached.
InboxOK ==
    /\ \A i \in DOMAIN gw.inbox :
          LET m == gw.inbox[i]
          IN  /\ m.t \in {"join", "detach"} =>
                    gw.sock[m.c].at = "joined" /\ gw.sock[m.c].session # None
              /\ m.t = "detach" => ~Held(gw, m.c)
              /\ m.t = "join" =>
                    /\ m.c \notin owner.attached
                    /\ \A j \in DOMAIN gw.inbox : gw.inbox[j] = m => j = i
                    /\ \/ Held(gw, m.c) \/ gw.sock[m.c].abandoned = TRUE
                       \/ \E j \in DOMAIN gw.inbox :
                             j > i /\ gw.inbox[j] = [t |-> "detach", c |-> m.c]
    /\ \A c \in owner.attached :
          /\ gw.sock[c].at = "joined" /\ gw.sock[c].session # None
          /\ Held(gw, c) \/ gw.sock[c].abandoned = TRUE \/ Coming("detach", c)
    /\ owner.attached # {} => owner.serving = TRUE

-----------------------------------------------------------------------------
\* The owner has seen the join.
Answered(c) ==
    gw.sock[c].at = "joined" /\ gw.sock[c].session # None /\ ~Coming("join", c)

Nothing(way) == \A j \in DOMAIN way : way[j] = <<>>
WelcomeFirst(way) ==
    \A j \in DOMAIN way : \A i \in DOMAIN way[j] :
        way[j][i].k = "welcome" => i = 1 /\ \A n \in 1..(j - 1) : way[n] = <<>>

Welcomes(way) ==
    {f \in UNION {{way[j][i] : i \in DOMAIN way[j]} : j \in DOMAIN way} : f.k = "welcome"}

\* The snapshot c has had, with what it has counted since, or will be sent.
Snapshots(x, way) ==
    IF x.run # None THEN {[seq |-> x.seq, run |-> x.run]}
    ELSE {[seq |-> f.seq, run |-> f.run] : f \in Welcomes(way)}

StreamOK(c) ==
    LET x == gw.sock[c]
        way == Way(c)
    IN  /\ ~Answered(c) => /\ Nothing(way) /\ c \notin owner.attached
                           /\ x.run = None /\ x.stray = FALSE
        /\ x.seq = None <=> x.run = None
        /\ WelcomeFirst(way)
        /\ x.run # None => /\ ~Carries(way, "welcome")
                           /\ c \in gw.conns[x.session] => x.session \in gw.handlers
        /\ \A s \in Snapshots(x, way) :
              /\ s.run <= owner.run
              /\ s.seq + EventsIn(way) <= MaxEvents
              /\ c \in owner.attached => s.run = owner.run /\ s.seq + EventsIn(way) <= owner.seq

\* A socket whose session hears the channel.
Hearing(c) ==
    LET x == gw.sock[c]
    IN  Answered(c) /\ c \in gw.conns[x.session] /\ x.session \in gw.handlers

NoGap(c) ==
    LET x == gw.sock[c]
        way == Way(c)
        had == Snapshots(x, way)
    IN  /\ x.stray = FALSE
        /\ Hearing(c) => heard = TRUE /\ gw.sub = <<>>
        /\ Hearing(c) /\ x.up = "open" =>
              /\ had = {} => Nothing(way)
              /\ c \in owner.attached =>
                    /\ ~Carries(way, "bye")
                    /\ \E s \in had : s.seq + EventsIn(way) = owner.seq
              /\ c \notin owner.attached =>
                    \/ Carries(way, "bye")
                    \/ \A s \in had : s.run <= owner.crashed

RemoteInv ==
    /\ StateTyped /\ BooksOK(gw) /\ SubsOK /\ InboxOK
    /\ owner.crashed <= owner.run
    /\ \A c \in Sockets : StreamOK(c)
    /\ SlowSubscribe = FALSE => \A c \in Sockets : NoGap(c)
-----------------------------------------------------------------------------
\* Counting what is on a way.
Events(way) == UNION {{j} \X {i \in DOMAIN way[j] : way[j][i].k = "event"} : j \in DOMAIN way}

LEMMA EventsAre ==
    ASSUME NEW way
    PROVE  \A p : p \in Events(way) <=>
              \E j \in DOMAIN way : \E i \in DOMAIN way[j] :
                  p = <<j, i>> /\ way[j][i].k = "event"
BY DEF Events

LEMMA EventAt ==
    ASSUME NEW n, NEW w \in [1..n -> Seq(Frames)], NEW p \in Events(w)
    PROVE  \E j \in 1..n : \E i \in DOMAIN w[j] : p = <<j, i>> /\ w[j][i].k = "event"
BY EventsAre

LEMMA PlacesFinite ==
    ASSUME NEW s \in Seq(Frames), NEW j
    PROVE  IsFiniteSet({j} \X {i \in DOMAIN s : s[i].k = "event"})
<1> DEFINE P == {i \in DOMAIN s : s[i].k = "event"}
           Q == {j} \X P
<1>1. IsFiniteSet(P)
  <2>1. P \in SUBSET (1..Len(s)) /\ Len(s) \in Nat
    OBVIOUS
  <2>2. IsFiniteSet(1..Len(s))
    BY <2>1, FS_Interval
  <2> QED  BY <2>1, <2>2, FS_Subset
<1>2. IsFiniteSet({j})
  BY FS_Singleton
<1> HIDE DEF P
<1> QED  BY <1>1, <1>2, FS_Product DEF P

LEMMA EventsFinite ==
    ASSUME NEW n \in Nat, NEW w \in [1..n -> Seq(Frames)]
    PROVE  IsFiniteSet(Events(w)) /\ EventsIn(w) = Cardinality(Events(w)) /\ EventsIn(w) \in Nat
<1> DEFINE at(j) == {j} \X {i \in DOMAIN w[j] : w[j][i].k = "event"}
           T == {at(j) : j \in 1..n}
           f == [j \in 1..n |-> at(j)]
<1>1. \A t \in T : IsFiniteSet(t)
  BY PlacesFinite
<1>2. f \in Surjection(1..n, T)
  BY DEF Surjection
<1>3. IsFiniteSet(1..n)
  BY FS_Interval
<1> HIDE DEF f, T
<1>4. IsFiniteSet(T)
  BY <1>2, <1>3, FS_Surjection
<1>5. IsFiniteSet(UNION T)
  BY <1>1, <1>4, FS_UNION
<1>6. UNION T = Events(w)
  BY DEF T, Events
<1> QED  BY <1>5, <1>6, FS_CardinalityType DEF EventsIn, Events

\* The batches of w are those of v, in the same order, with empty ones in between.
Spread(h, w, n, v, m) ==
    /\ h \in [1..n -> 1..m]
    /\ \A i, j \in 1..n : i < j => h[i] < h[j]
    /\ \A j \in 1..n : v[h[j]] = w[j]
    /\ \A k \in 1..m : v[k] # <<>> => \E j \in 1..n : h[j] = k

LEMMA SpreadEvents ==
    ASSUME NEW n \in Nat, NEW w \in [1..n -> Seq(Frames)],
           NEW m \in Nat, NEW v \in [1..m -> Seq(Frames)], NEW h, Spread(h, w, n, v, m)
    PROVE  EventsIn(v) = EventsIn(w)
<1> DEFINE f == [p \in Events(w) |-> <<h[p[1]], p[2]>>]
<1>1. \A i, j \in 1..n : h[i] = h[j] => i = j
  <2>1. SUFFICES ASSUME NEW i \in 1..n, NEW j \in 1..n, h[i] = h[j], i # j PROVE FALSE
    OBVIOUS
  <2>2. h[i] \in 1..m /\ h[j] \in 1..m /\ (i < j \/ j < i)
    BY <2>1 DEF Spread
  <2>3. h[i] < h[j] \/ h[j] < h[i]
    BY <2>2 DEF Spread
  <2> QED  BY <2>1, <2>2, <2>3
<1>2. \A p \in Events(w) : f[p] \in Events(v)
  <2>1. SUFFICES ASSUME NEW p \in Events(w) PROVE f[p] \in Events(v)
    OBVIOUS
  <2>2. PICK j \in 1..n : \E i \in DOMAIN w[j] : p = <<j, i>> /\ w[j][i].k = "event"
    BY EventsAre
  <2>3. PICK i \in DOMAIN w[j] : p = <<j, i>> /\ w[j][i].k = "event"
    BY <2>2
  <2>4. f[p] = <<h[j], i>> /\ h[j] \in 1..m /\ v[h[j]] = w[j]
    BY <2>3 DEF Spread
  <2> QED  BY <2>3, <2>4, EventsAre
<1>3. f \in Injection(Events(w), Events(v))
  <2>1. ASSUME NEW p \in Events(w), NEW q \in Events(w), f[p] = f[q] PROVE p = q
    <3>1. /\ p = <<p[1], p[2]>> /\ q = <<q[1], q[2]>> /\ p[1] \in 1..n /\ q[1] \in 1..n
      BY EventsAre
    <3>2. h[p[1]] = h[q[1]] /\ p[2] = q[2]
      BY <2>1
    <3> QED  BY <1>1, <3>1, <3>2
  <2> QED  BY <1>2, <2>1 DEF Injection, IsInjective
<1>4. f \in Surjection(Events(w), Events(v))
  <2>1. ASSUME NEW p \in Events(v) PROVE \E q \in Events(w) : f[q] = p
    <3>1. PICK k \in 1..m : \E i \in DOMAIN v[k] : p = <<k, i>> /\ v[k][i].k = "event"
      BY EventsAre
    <3>2. PICK i \in DOMAIN v[k] : p = <<k, i>> /\ v[k][i].k = "event"
      BY <3>1
    <3>3. v[k] # <<>>
      BY <3>2
    <3>4. PICK j \in 1..n : h[j] = k
      BY <3>3 DEF Spread
    <3>5. v[k] = w[j]
      BY <3>4 DEF Spread
    <3>6. <<j, i>> \in Events(w)
      BY <3>2, <3>5, EventsAre
    <3> QED  BY <3>2, <3>4, <3>6
  <2> QED  BY <1>2, <2>1 DEF Surjection
<1>5. f \in Bijection(Events(w), Events(v))
  BY <1>3, <1>4 DEF Bijection
<1> HIDE DEF f
<1>6. IsFiniteSet(Events(w)) /\ EventsIn(w) = Cardinality(Events(w))
      /\ EventsIn(v) = Cardinality(Events(v))
  BY EventsFinite
<1> QED  BY <1>5, <1>6, FS_Bijection DEF ExistsBijection

LEMMA WelcomesAre ==
    ASSUME NEW way
    PROVE  \A f : f \in Welcomes(way) <=>
              \E j \in DOMAIN way : \E i \in DOMAIN way[j] : f = way[j][i] /\ f.k = "welcome"
BY DEF Welcomes

LEMMA SpreadSame ==
    ASSUME NEW n \in Nat, NEW w \in [1..n -> Seq(Frames)],
           NEW m \in Nat, NEW v \in [1..m -> Seq(Frames)], NEW h, Spread(h, w, n, v, m)
    PROVE  /\ EventsIn(v) = EventsIn(w) /\ Welcomes(v) = Welcomes(w)
           /\ \A kind : Carries(v, kind) <=> Carries(w, kind)
           /\ Nothing(v) <=> Nothing(w)
           /\ WelcomeFirst(v) <=> WelcomeFirst(w)
<1>0. /\ \A j \in 1..n : h[j] \in 1..m /\ v[h[j]] = w[j]
      /\ \A k \in 1..m : v[k] # <<>> => \E j \in 1..n : h[j] = k /\ v[k] = w[j]
  BY DEF Spread
<1>1. EventsIn(v) = EventsIn(w)
  BY SpreadEvents
<1>2. ASSUME NEW k \in 1..m, NEW i \in DOMAIN v[k]
      PROVE  \E j \in 1..n : h[j] = k /\ v[k] = w[j] /\ i \in DOMAIN w[j]
  <2>1. v[k] # <<>>
    OBVIOUS
  <2> QED  BY <1>0, <2>1
<1>3. Welcomes(v) = Welcomes(w)
  <2>1. ASSUME NEW f \in Welcomes(v) PROVE f \in Welcomes(w)
    <3>1. PICK k \in 1..m : \E i \in DOMAIN v[k] : f = v[k][i] /\ f.k = "welcome"
      BY WelcomesAre
    <3>2. PICK i \in DOMAIN v[k] : f = v[k][i] /\ f.k = "welcome"
      BY <3>1
    <3>3. PICK j \in 1..n : v[k] = w[j] /\ i \in DOMAIN w[j]
      BY <1>2
    <3> QED  BY <3>2, <3>3, WelcomesAre
  <2>2. ASSUME NEW f \in Welcomes(w) PROVE f \in Welcomes(v)
    <3>1. PICK j \in 1..n : \E i \in DOMAIN w[j] : f = w[j][i] /\ f.k = "welcome"
      BY WelcomesAre
    <3>2. h[j] \in DOMAIN v /\ v[h[j]] = w[j]
      BY <1>0
    <3>3. \E i \in DOMAIN v[h[j]] : f = v[h[j]][i] /\ f.k = "welcome"
      BY <3>1, <3>2
    <3> QED  BY <3>2, <3>3, WelcomesAre
  <2> QED  BY <2>1, <2>2
<1>4. \A kind : Carries(v, kind) <=> Carries(w, kind)
  <2>1. ASSUME NEW kind, Carries(v, kind) PROVE Carries(w, kind)
    BY <1>2, <2>1 DEF Carries
  <2>2. ASSUME NEW kind, Carries(w, kind) PROVE Carries(v, kind)
    <3>1. PICK j \in 1..n : \E i \in DOMAIN w[j] : w[j][i].k = kind
      BY <2>2 DEF Carries
    <3>2. h[j] \in 1..m /\ v[h[j]] = w[j]
      BY <1>0
    <3> QED  BY <3>1, <3>2 DEF Carries
  <2> QED  BY <2>1, <2>2
<1>5. Nothing(v) <=> Nothing(w)
  BY <1>0 DEF Nothing
<1>6. \A a, b \in 1..n : h[a] < h[b] => a < b
  <2>1. SUFFICES ASSUME NEW a \in 1..n, NEW b \in 1..n, h[a] < h[b], ~(a < b) PROVE FALSE
    OBVIOUS
  <2>2. b < a \/ b = a
    BY <2>1
  <2>3. h[a] \in Int /\ h[b] \in Int
    BY <1>0
  <2> QED  BY <2>1, <2>2, <2>3 DEF Spread
<1>7. ASSUME WelcomeFirst(w), NEW k \in 1..m, NEW i \in DOMAIN v[k], v[k][i].k = "welcome",
             NEW b \in 1..(k - 1)
      PROVE  i = 1 /\ v[b] = <<>>
  <2>1. PICK j \in 1..n : h[j] = k /\ v[k] = w[j] /\ i \in DOMAIN w[j]
    BY <1>2
  <2>2. i = 1 /\ \A a \in 1..(j - 1) : w[a] = <<>>
    BY <1>7, <2>1 DEF WelcomeFirst
  <2>3. b \in 1..m /\ b < k
    OBVIOUS
  <2>4. ASSUME v[b] # <<>> PROVE FALSE
    <3>1. PICK a \in 1..n : h[a] = b /\ v[b] = w[a]
      BY <1>0, <2>3, <2>4
    <3>2. a < j
      BY <1>6, <2>1, <2>3, <3>1
    <3> QED  BY <2>2, <2>4, <3>1, <3>2
  <2> QED  BY <2>2, <2>4
<1>8. ASSUME WelcomeFirst(w) PROVE WelcomeFirst(v)
  <2>1. ASSUME NEW k \in 1..m, NEW i \in DOMAIN v[k], v[k][i].k = "welcome" PROVE i = 1
    <3>1. PICK j \in 1..n : h[j] = k /\ v[k] = w[j] /\ i \in DOMAIN w[j]
      BY <1>2
    <3> QED  BY <1>8, <2>1, <3>1 DEF WelcomeFirst
  <2> QED  BY <1>7, <1>8, <2>1 DEF WelcomeFirst
<1>9. ASSUME WelcomeFirst(v) PROVE WelcomeFirst(w)
  <2>1. ASSUME NEW j \in 1..n, NEW i \in DOMAIN w[j], w[j][i].k = "welcome"
        PROVE  i = 1 /\ \A a \in 1..(j - 1) : w[a] = <<>>
    <3>1. i = 1 /\ \A b \in 1..(h[j] - 1) : v[b] = <<>>
      BY <1>0, <1>9, <2>1 DEF WelcomeFirst
    <3>2. ASSUME NEW a \in 1..(j - 1) PROVE w[a] = <<>>
      <4>1. a \in 1..n /\ a < j
        OBVIOUS
      <4>2. h[a] < h[j] /\ h[a] \in 1..m /\ h[j] \in 1..m
        BY <1>0, <4>1 DEF Spread
      <4> QED  BY <1>0, <3>1, <4>1, <4>2
    <3> QED  BY <3>1, <3>2
  <2> QED  BY <2>1 DEF WelcomeFirst
<1> QED  BY <1>1, <1>3, <1>4, <1>5, <1>8, <1>9

LEMMA NothingHas ==
    ASSUME NEW n \in Nat, NEW w \in [1..n -> Seq(Frames)], Nothing(w)
    PROVE  EventsIn(w) = 0 /\ Welcomes(w) = {} /\ WelcomeFirst(w) /\ \A kind : ~Carries(w, kind)
<1>1. \A j \in DOMAIN w : DOMAIN w[j] = {}
  BY DEF Nothing
<1>2. Events(w) = {}
  BY <1>1, EventsAre
<1>3. EventsIn(w) = 0
  BY <1>2, EventsFinite, FS_EmptySet
<1> QED  BY <1>1, <1>3 DEF Welcomes, WelcomeFirst, Carries

\* A frame is put on the way.
Put(w, v, f) ==
    /\ EventsIn(w) \in Nat /\ EventsIn(v) = EventsIn(w) + (IF f.k = "event" THEN 1 ELSE 0)
    /\ \A kind : Carries(v, kind) <=> Carries(w, kind) \/ f.k = kind
    /\ f.k # "welcome" => /\ Welcomes(v) = Welcomes(w)
                          /\ WelcomeFirst(w) => WelcomeFirst(v)
    /\ f.k = "welcome" /\ Nothing(w) => Welcomes(v) = {f} /\ WelcomeFirst(v)

LEMMA PutOnWay ==
    ASSUME NEW n \in Nat \ {0}, NEW w \in [1..n -> Seq(Frames)], NEW f \in Frames,
           NEW v \in [1..n -> Seq(Frames)],
           \A j \in 1..n : v[j] = IF j = n THEN Append(w[n], f) ELSE w[j]
    PROVE  Put(w, v, f)
<1> DEFINE l == Len(w[n]) + 1
<1>a. /\ DOMAIN v = 1..n /\ DOMAIN w = 1..n /\ n \in 1..n /\ n \in Nat
      /\ \A j \in 1..n : j # n => v[j] = w[j]
  OBVIOUS
<1>b. /\ v[n] = Append(w[n], f) /\ w[n] \in Seq(Frames)
  OBVIOUS
<1>c. /\ l \in Nat \ {0} /\ l \notin DOMAIN w[n] /\ l \in DOMAIN v[n] /\ v[n][l] = f
      /\ DOMAIN w[n] \subseteq DOMAIN v[n]
      /\ \A i \in DOMAIN w[n] : v[n][i] = w[n][i]
      /\ \A i \in DOMAIN v[n] : i \in DOMAIN w[n] \/ i = l
  BY <1>b
<1>1. /\ DOMAIN v = 1..n /\ DOMAIN w = 1..n /\ n \in 1..n /\ l \in DOMAIN v[n] /\ v[n][l] = f
      /\ l \in Nat \ {0} /\ l \notin DOMAIN w[n]
      /\ \A j \in 1..n : DOMAIN w[j] \subseteq DOMAIN v[j]
                         /\ \A i \in DOMAIN w[j] : v[j][i] = w[j][i]
      /\ \A j \in 1..n : \A i \in DOMAIN v[j] : i \in DOMAIN w[j] \/ (j = n /\ i = l)
      /\ \A j \in 1..n : j # n => v[j] = w[j]
  BY <1>a, <1>c
<1> HIDE DEF l
<1>2. EventsIn(w) \in Nat
  BY <1>a, EventsFinite
<1>3. EventsIn(v) = EventsIn(w) + (IF f.k = "event" THEN 1 ELSE 0)
  <2>1. CASE f.k = "event"
    <3>1. Events(v) = Events(w) \cup {<<n, l>>}
      <4>1. ASSUME NEW p \in Events(v) PROVE p \in Events(w) \cup {<<n, l>>}
        <5>1. PICK j \in 1..n : \E i \in DOMAIN v[j] : p = <<j, i>> /\ v[j][i].k = "event"
          BY EventAt
        <5>2. PICK i \in DOMAIN v[j] : p = <<j, i>> /\ v[j][i].k = "event"
          BY <5>1
        <5>3. CASE i \in DOMAIN w[j]
          BY <1>1, <5>2, <5>3, EventsAre
        <5> QED  BY <1>1, <5>2, <5>3
      <4>2. ASSUME NEW p \in Events(w) PROVE p \in Events(v)
        <5>1. PICK j \in 1..n : \E i \in DOMAIN w[j] : p = <<j, i>> /\ w[j][i].k = "event"
          BY EventAt
        <5>2. PICK i \in DOMAIN w[j] : p = <<j, i>> /\ w[j][i].k = "event"
          BY <5>1
        <5>3. j \in DOMAIN v /\ i \in DOMAIN v[j] /\ v[j][i].k = "event"
          BY <1>1, <5>2
        <5> QED  BY <5>2, <5>3, EventsAre
      <4>3. <<n, l>> \in Events(v)
        BY <1>1, <2>1, EventsAre
      <4> QED  BY <4>1, <4>2, <4>3
    <3>2. <<n, l>> \notin Events(w)
      BY <1>1, EventsAre
    <3>3. Cardinality(Events(v)) = Cardinality(Events(w)) + 1
      BY <3>1, <3>2, EventsFinite, FS_AddElement
    <3> QED  BY <1>1, <2>1, <3>3, EventsFinite
  <2>2. CASE f.k # "event"
    <3>1. \A p : p \in Events(v) <=> p \in Events(w)
      <4>1. ASSUME NEW p \in Events(v) PROVE p \in Events(w)
        <5>1. PICK j \in 1..n : \E i \in DOMAIN v[j] : p = <<j, i>> /\ v[j][i].k = "event"
          BY EventAt
        <5>2. PICK i \in DOMAIN v[j] : p = <<j, i>> /\ v[j][i].k = "event"
          BY <5>1
        <5>3. i \in DOMAIN w[j] /\ w[j][i].k = "event"
          BY <1>1, <2>2, <5>2
        <5> QED  BY <5>2, <5>3, EventsAre
      <4>2. ASSUME NEW p \in Events(w) PROVE p \in Events(v)
        <5>1. PICK j \in 1..n : \E i \in DOMAIN w[j] : p = <<j, i>> /\ w[j][i].k = "event"
          BY EventAt
        <5>2. PICK i \in DOMAIN w[j] : p = <<j, i>> /\ w[j][i].k = "event"
          BY <5>1
        <5>3. j \in DOMAIN v /\ i \in DOMAIN v[j] /\ v[j][i].k = "event"
          BY <1>1, <5>2
        <5> QED  BY <5>2, <5>3, EventsAre
      <4> QED  BY <4>1, <4>2
    <3>2. Events(v) = Events(w)
      BY <3>1
    <3> QED  BY <1>1, <2>2, <3>2, EventsFinite, SMTT(30)
  <2> QED  BY <2>1, <2>2
<1>4. ASSUME NEW kind PROVE Carries(v, kind) <=> Carries(w, kind) \/ f.k = kind
  <2>1. ASSUME Carries(v, kind) PROVE Carries(w, kind) \/ f.k = kind
    <3>1. PICK j \in 1..n : \E i \in DOMAIN v[j] : v[j][i].k = kind
      BY <1>1, <2>1 DEF Carries
    <3>2. PICK i \in DOMAIN v[j] : v[j][i].k = kind
      BY <3>1
    <3>3. CASE i \in DOMAIN w[j]
      BY <1>1, <3>2, <3>3 DEF Carries
    <3> QED  BY <1>1, <3>2, <3>3
  <2>2. ASSUME Carries(w, kind) PROVE Carries(v, kind)
    <3>1. PICK j \in 1..n : \E i \in DOMAIN w[j] : w[j][i].k = kind
      BY <2>2 DEF Carries
    <3> QED  BY <1>1, <3>1 DEF Carries
  <2>3. f.k = kind => Carries(v, kind)
    BY <1>1 DEF Carries
  <2> QED  BY <2>1, <2>2, <2>3
<1>5. ASSUME NEW g PROVE g \in Welcomes(v) <=> g \in Welcomes(w) \/ (g = f /\ f.k = "welcome")
  <2>1. ASSUME g \in Welcomes(v) PROVE g \in Welcomes(w) \/ (g = f /\ f.k = "welcome")
    <3>1. PICK j \in 1..n : \E i \in DOMAIN v[j] : g = v[j][i] /\ g.k = "welcome"
      BY <1>1, <2>1, WelcomesAre
    <3>2. PICK i \in DOMAIN v[j] : g = v[j][i] /\ g.k = "welcome"
      BY <3>1
    <3>3. CASE i \in DOMAIN w[j]
      BY <1>1, <3>2, <3>3, WelcomesAre
    <3> QED  BY <1>1, <3>2, <3>3
  <2>2. ASSUME g \in Welcomes(w) PROVE g \in Welcomes(v)
    <3>1. PICK j \in 1..n : \E i \in DOMAIN w[j] : g = w[j][i] /\ g.k = "welcome"
      BY <2>2, WelcomesAre
    <3>2. j \in DOMAIN v /\ \E i \in DOMAIN v[j] : g = v[j][i] /\ g.k = "welcome"
      BY <1>1, <3>1
    <3> QED  BY <3>2, WelcomesAre
  <2>3. f.k = "welcome" => f \in Welcomes(v)
    BY <1>1, WelcomesAre
  <2> QED  BY <2>1, <2>2, <2>3
<1>6. f.k # "welcome" => /\ Welcomes(v) = Welcomes(w)
                         /\ WelcomeFirst(w) => WelcomeFirst(v)
  <2>1. ASSUME f.k # "welcome", WelcomeFirst(w), NEW j \in 1..n, NEW i \in DOMAIN v[j],
               v[j][i].k = "welcome"
        PROVE  i = 1 /\ \A b \in 1..(j - 1) : v[b] = <<>>
    <3>1. i \in DOMAIN w[j] /\ w[j][i].k = "welcome"
      BY <1>1, <2>1
    <3>2. i = 1 /\ \A b \in 1..(j - 1) : w[b] = <<>>
      BY <2>1, <3>1 DEF WelcomeFirst
    <3>3. ASSUME NEW b \in 1..(j - 1) PROVE v[b] = w[b]
      <4>1. b \in 1..n /\ b # n
        OBVIOUS
      <4> QED  BY <1>1, <4>1
    <3> QED  BY <3>2, <3>3
  <2>2. DOMAIN v = 1..n
    BY <1>1
  <2> QED  BY <1>5, <2>1, <2>2 DEF WelcomeFirst
<1>7. f.k = "welcome" /\ Nothing(w) => Welcomes(v) = {f} /\ WelcomeFirst(v)
  <2>1. SUFFICES ASSUME f.k = "welcome", Nothing(w)
                 PROVE  Welcomes(v) = {f} /\ WelcomeFirst(v)
    OBVIOUS
  <2>2. Welcomes(w) = {}
    BY <2>1, NothingHas
  <2>3. /\ \A j \in 1..n : DOMAIN w[j] = {} /\ w[j] = <<>>
        /\ l = 1
    BY <1>1, <2>1 DEF Nothing, l
  <2>4. ASSUME NEW j \in 1..n, NEW i \in DOMAIN v[j]
        PROVE  i = 1 /\ \A b \in 1..(j - 1) : v[b] = <<>>
    <3>1. j = n /\ i = 1
      BY <1>1, <2>3
    <3>2. ASSUME NEW b \in 1..(j - 1) PROVE v[b] = <<>>
      <4>1. b \in 1..n /\ b # n
        BY <3>1
      <4> QED  BY <1>1, <2>3, <4>1
    <3> QED  BY <3>1, <3>2
  <2>5. DOMAIN v = 1..n
    BY <1>1
  <2> QED  BY <1>5, <2>1, <2>2, <2>4, <2>5 DEF WelcomeFirst
<1> QED  BY <1>2, <1>3, <1>4, <1>6, <1>7 DEF Put

\* There is less on the way.
Fewer(w, v) ==
    /\ EventsIn(w) \in Nat /\ EventsIn(v) \in Nat /\ EventsIn(v) <= EventsIn(w)
    /\ \A kind : Carries(v, kind) => Carries(w, kind)
    /\ Welcomes(v) \subseteq Welcomes(w)
    /\ Nothing(w) => Nothing(v)
    /\ WelcomeFirst(w) => WelcomeFirst(v)

\* What the owner has gathered is lost.
Lost(w, v) ==
    /\ Fewer(w, v)
    /\ WelcomeFirst(w) /\ Welcomes(w) # {} /\ Welcomes(v) = {} => Nothing(v)

LEMMA LostOnWay ==
    ASSUME NEW n \in Nat \ {0}, NEW w \in [1..n -> Seq(Frames)],
           NEW v \in [1..n -> Seq(Frames)], \A j \in 1..n : v[j] = IF j = n THEN <<>> ELSE w[j]
    PROVE  Lost(w, v)
<1>1. /\ DOMAIN v = 1..n /\ DOMAIN w = 1..n
      /\ \A j \in 1..n : j # n => v[j] = w[j]
      /\ v[n] = <<>> /\ DOMAIN v[n] = {}
  <2>1. DOMAIN v = 1..n /\ DOMAIN w = 1..n
    OBVIOUS
  <2>2. n \in 1..n
    OBVIOUS
  <2>3. v[n] = <<>> /\ DOMAIN v[n] = {}
    BY <2>2
  <2> QED  BY <2>1, <2>3
<1>2. EventsIn(v) <= EventsIn(w)
  <2>1. ASSUME NEW p \in Events(v) PROVE p \in Events(w)
    <3>1. PICK j \in 1..n : \E i \in DOMAIN v[j] : p = <<j, i>> /\ v[j][i].k = "event"
      BY EventAt
    <3>2. j # n
      BY <1>1, <3>1
    <3>3. \E i \in DOMAIN w[j] : p = <<j, i>> /\ w[j][i].k = "event"
      BY <1>1, <3>1, <3>2
    <3> QED  BY <1>1, <3>3, EventsAre
  <2>2. Events(v) \in SUBSET Events(w)
    BY <2>1
  <2>3. IsFiniteSet(Events(w)) /\ EventsIn(w) = Cardinality(Events(w))
    BY EventsFinite
  <2>4. EventsIn(v) = Cardinality(Events(v))
    BY EventsFinite
  <2> QED  BY <2>2, <2>3, <2>4, FS_Subset
<1>3. ASSUME NEW kind, Carries(v, kind) PROVE Carries(w, kind)
  BY <1>1, <1>3 DEF Carries
<1>4. ASSUME NEW f \in Welcomes(v) PROVE f \in Welcomes(w)
  <2>1. PICK j \in 1..n : \E i \in DOMAIN v[j] : f = v[j][i] /\ f.k = "welcome"
    BY <1>1, WelcomesAre
  <2>2. j # n
    BY <1>1, <2>1
  <2>3. \E i \in DOMAIN w[j] : f = w[j][i] /\ f.k = "welcome"
    BY <1>1, <2>1, <2>2
  <2> QED  BY <1>1, <2>3, WelcomesAre
<1>5. Nothing(w) => Nothing(v)
  BY <1>1 DEF Nothing
<1>6. ASSUME WelcomeFirst(w) PROVE WelcomeFirst(v)
  <2>1. ASSUME NEW j \in 1..n, NEW i \in DOMAIN v[j], v[j][i].k = "welcome"
        PROVE  i = 1 /\ \A b \in 1..(j - 1) : v[b] = <<>>
    <3>1. j # n /\ v[j] = w[j]
      BY <1>1
    <3>2. i = 1 /\ \A b \in 1..(j - 1) : w[b] = <<>>
      BY <1>1, <1>6, <2>1, <3>1 DEF WelcomeFirst
    <3>3. ASSUME NEW b \in 1..(j - 1) PROVE v[b] = w[b]
      <4>1. b \in 1..n /\ b # n
        OBVIOUS
      <4> QED  BY <1>1, <4>1
    <3> QED  BY <3>2, <3>3
  <2> QED  BY <1>1, <2>1 DEF WelcomeFirst
<1>7. ASSUME WelcomeFirst(w), Welcomes(w) # {}, Welcomes(v) = {} PROVE Nothing(v)
  <2>1. PICK f : f \in Welcomes(w)
    BY <1>7
  <2>2. PICK j \in 1..n : \E i \in DOMAIN w[j] : f = w[j][i] /\ f.k = "welcome"
    BY <2>1, <1>1, WelcomesAre
  <2>3. j = n
    <3>1. SUFFICES ASSUME j # n PROVE f \in Welcomes(v)
      BY <1>7
    <3>2. j \in DOMAIN v /\ \E i \in DOMAIN v[j] : f = v[j][i] /\ f.k = "welcome"
      BY <1>1, <2>2, <3>1
    <3> QED  BY <3>2, WelcomesAre
  <2>4. \A b \in 1..(n - 1) : w[b] = <<>>
    BY <1>1, <1>7, <2>2, <2>3 DEF WelcomeFirst
  <2>5. ASSUME NEW b \in 1..n PROVE v[b] = <<>>
    <3>1. b = n \/ (b \in 1..(n - 1) /\ b # n)
      OBVIOUS
    <3> QED  BY <1>1, <2>4, <3>1
  <2> QED  BY <1>1, <2>5 DEF Nothing
<1>8. n \in Nat
  OBVIOUS
<1>9. EventsIn(w) \in Nat /\ EventsIn(v) \in Nat
  BY <1>8, EventsFinite
<1> QED  BY <1>2, <1>3, <1>4, <1>5, <1>6, <1>7, <1>9 DEF Lost, Fewer

\* The first batch arrives.
LEMMA TakenOffWay ==
    ASSUME NEW n \in Nat \ {0}, NEW w \in [1..(n + 1) -> Seq(Frames)],
           NEW v \in [1..n -> Seq(Frames)], \A j \in 1..n : v[j] = w[j + 1]
    PROVE  /\ w[1] \in Seq(Frames)
           /\ EventsIn(w) = EventsIn(<<w[1]>>) + EventsIn(v)
           /\ \A kind : Carries(w, kind) <=> Carries(v, kind) \/ Carries(<<w[1]>>, kind)
           /\ Welcomes(w) = Welcomes(v) \cup Welcomes(<<w[1]>>)
           /\ Nothing(w) <=> Nothing(v) /\ w[1] = <<>>
           /\ WelcomeFirst(w) => /\ WelcomeFirst(v) /\ WelcomeFirst(<<w[1]>>)
                                 /\ w[1] # <<>> => Welcomes(v) = {}
<1> DEFINE u == [w EXCEPT ![1] = <<>>]
           h == [j \in 1..n |-> j + 1]
           one == <<w[1]>>
<1>0. /\ n \in Nat /\ w[1] \in Seq(Frames)
      /\ u \in [1..(n + 1) -> Seq(Frames)] /\ one \in [1..1 -> Seq(Frames)] /\ one[1] = w[1]
      /\ \A j \in 1..(n + 1) : j # 1 => u[j] = w[j] /\ j - 1 \in 1..n /\ v[j - 1] = w[j]
      /\ u[1] = <<>> /\ n + 1 \in Nat
  OBVIOUS
<1>1. Spread(h, v, n, u, n + 1)
  <2>1. h \in [1..n -> 1..(n + 1)] /\ \A i, j \in 1..n : i < j => h[i] < h[j]
    OBVIOUS
  <2>2. \A j \in 1..n : u[h[j]] = v[j]
    OBVIOUS
  <2>3. ASSUME NEW k \in 1..(n + 1), u[k] # <<>> PROVE \E j \in 1..n : h[j] = k
    <3>1. k # 1
      BY <1>0, <2>3
    <3>2. k - 1 \in 1..n /\ h[k - 1] = k
      BY <3>1
    <3> QED  BY <3>2
  <2> HIDE DEF h, u
  <2> QED  BY <2>1, <2>2, <2>3 DEF Spread
<1> HIDE DEF u, h, one
<1>2. EventsIn(u) = EventsIn(v)
  BY <1>0, <1>1, SpreadSame
<1>3. Events(w) = Events(one) \cup Events(u)
  <2>1. ASSUME NEW p \in Events(w) PROVE p \in Events(one) \cup Events(u)
    <3>1. PICK j \in 1..(n + 1) : \E i \in DOMAIN w[j] : p = <<j, i>> /\ w[j][i].k = "event"
      BY EventAt
    <3>2. CASE j = 1
      <4>1. 1 \in DOMAIN one /\ \E i \in DOMAIN one[1] : p = <<1, i>> /\ one[1][i].k = "event"
        BY <1>0, <3>1, <3>2
      <4> QED  BY <4>1, EventsAre
    <3>3. CASE j # 1
      <4>1. j \in DOMAIN u /\ \E i \in DOMAIN u[j] : p = <<j, i>> /\ u[j][i].k = "event"
        BY <1>0, <3>1, <3>3
      <4> QED  BY <4>1, EventsAre
    <3> QED  BY <3>2, <3>3
  <2>2. ASSUME NEW p \in Events(one) PROVE p \in Events(w)
    <3>1. PICK j \in DOMAIN one : \E i \in DOMAIN one[j] : p = <<j, i>> /\ one[j][i].k = "event"
      BY EventsAre
    <3>2. j = 1 /\ one[j] = w[1] /\ 1 \in DOMAIN w
      BY <1>0, <3>1
    <3>3. 1 \in DOMAIN w /\ \E i \in DOMAIN w[1] : p = <<1, i>> /\ w[1][i].k = "event"
      BY <3>1, <3>2
    <3> QED  BY <3>3, EventsAre
  <2>3. ASSUME NEW p \in Events(u) PROVE p \in Events(w)
    <3>1. PICK j \in DOMAIN u : \E i \in DOMAIN u[j] : p = <<j, i>> /\ u[j][i].k = "event"
      BY EventsAre
    <3>2. j # 1
      BY <1>0, <3>1
    <3>3. j \in DOMAIN w /\ \E i \in DOMAIN w[j] : p = <<j, i>> /\ w[j][i].k = "event"
      BY <1>0, <3>1, <3>2
    <3> QED  BY <3>3, EventsAre
  <2> QED  BY <2>1, <2>2, <2>3
<1>4. Events(one) \cap Events(u) = {}
  <2>1. SUFFICES ASSUME NEW p \in Events(one), p \in Events(u) PROVE FALSE
    OBVIOUS
  <2>2. PICK j \in DOMAIN one : \E i \in DOMAIN one[j] : p = <<j, i>>
    BY EventsAre
  <2>3. PICK k \in DOMAIN u : \E i \in DOMAIN u[k] : p = <<k, i>>
    BY <2>1, EventsAre
  <2>4. k = 1
    BY <1>0, <2>2, <2>3
  <2> QED  BY <1>0, <2>3, <2>4
<1>5. EventsIn(w) = EventsIn(one) + EventsIn(v)
  <2>1. IsFiniteSet(Events(one)) /\ EventsIn(one) = Cardinality(Events(one)) /\ EventsIn(one) \in Nat
    BY <1>0, EventsFinite
  <2>2. IsFiniteSet(Events(u)) /\ EventsIn(u) = Cardinality(Events(u)) /\ EventsIn(u) \in Nat
    BY <1>0, EventsFinite
  <2>3. EventsIn(w) = Cardinality(Events(w))
    BY <1>0, EventsFinite
  <2>4. Cardinality(Events(w)) = Cardinality(Events(one)) + Cardinality(Events(u)) - Cardinality({})
    <3>1. Cardinality(Events(one) \cup Events(u)) =
             Cardinality(Events(one)) + Cardinality(Events(u))
               - Cardinality(Events(one) \cap Events(u))
      BY <2>1, <2>2, FS_Union
    <3> QED  BY <1>3, <1>4, <3>1
  <2> QED  BY <1>2, <2>1, <2>2, <2>3, <2>4, FS_EmptySet
<1>6. \A j \in 1..(n + 1) : \/ j = 1 /\ w[j] = one[1]
                            \/ j # 1 /\ j - 1 \in 1..n /\ v[j - 1] = w[j]
  BY <1>0
<1>7. \A j \in 1..n : j + 1 \in 1..(n + 1) /\ v[j] = w[j + 1]
  OBVIOUS
<1>8. DOMAIN one = {1} /\ DOMAIN v = 1..n /\ 1 \in 1..(n + 1) /\ one[1] = w[1]
  BY <1>0
<1>9. ASSUME NEW kind PROVE Carries(w, kind) <=> Carries(v, kind) \/ Carries(one, kind)
  <2>1. ASSUME Carries(w, kind) PROVE Carries(v, kind) \/ Carries(one, kind)
    <3>1. PICK j \in 1..(n + 1) : \E i \in DOMAIN w[j] : w[j][i].k = kind
      BY <2>1 DEF Carries
    <3>2. CASE j = 1
      BY <1>6, <1>8, <3>1, <3>2 DEF Carries
    <3>3. CASE j # 1
      BY <1>6, <1>8, <3>1, <3>3 DEF Carries
    <3> QED  BY <3>2, <3>3
  <2>2. ASSUME Carries(v, kind) PROVE Carries(w, kind)
    BY <1>7, <1>8, <2>2 DEF Carries
  <2>3. ASSUME Carries(one, kind) PROVE Carries(w, kind)
    BY <1>8, <2>3 DEF Carries
  <2> QED  BY <2>1, <2>2, <2>3
<1>10. ASSUME NEW f PROVE f \in Welcomes(w) <=> f \in Welcomes(v) \/ f \in Welcomes(one)
  <2>1. ASSUME f \in Welcomes(w) PROVE f \in Welcomes(v) \/ f \in Welcomes(one)
    <3>1. PICK j \in 1..(n + 1) : \E i \in DOMAIN w[j] : f = w[j][i] /\ f.k = "welcome"
      BY <2>1, WelcomesAre
    <3>2. CASE j = 1
      <4>1. 1 \in DOMAIN one /\ \E i \in DOMAIN one[1] : f = one[1][i] /\ f.k = "welcome"
        BY <1>8, <3>1, <3>2
      <4> QED  BY <4>1, WelcomesAre
    <3>3. CASE j # 1
      <4>1. j - 1 \in DOMAIN v /\ \E i \in DOMAIN v[j - 1] : f = v[j - 1][i] /\ f.k = "welcome"
        BY <1>6, <1>8, <3>1, <3>3
      <4> QED  BY <4>1, WelcomesAre
    <3> QED  BY <3>2, <3>3
  <2>2. ASSUME f \in Welcomes(v) PROVE f \in Welcomes(w)
    <3>1. PICK j \in 1..n : \E i \in DOMAIN v[j] : f = v[j][i] /\ f.k = "welcome"
      BY <1>8, <2>2, WelcomesAre
    <3>2. j + 1 \in DOMAIN w /\ \E i \in DOMAIN w[j + 1] : f = w[j + 1][i] /\ f.k = "welcome"
      BY <1>7, <3>1
    <3> QED  BY <3>2, WelcomesAre
  <2>3. ASSUME f \in Welcomes(one) PROVE f \in Welcomes(w)
    <3>1. PICK j \in DOMAIN one : \E i \in DOMAIN one[j] : f = one[j][i] /\ f.k = "welcome"
      BY <2>3, WelcomesAre
    <3>2. 1 \in DOMAIN w /\ \E i \in DOMAIN w[1] : f = w[1][i] /\ f.k = "welcome"
      BY <1>8, <3>1
    <3> QED  BY <3>2, WelcomesAre
  <2> QED  BY <2>1, <2>2, <2>3
<1>11. Nothing(w) <=> Nothing(v) /\ w[1] = <<>>
  BY <1>6, <1>7, <1>8, ZenonT(30) DEF Nothing
<1>12. ASSUME WelcomeFirst(w)
       PROVE  WelcomeFirst(v) /\ WelcomeFirst(one) /\ (w[1] # <<>> => Welcomes(v) = {})
  <2>1. ASSUME NEW j \in 1..n, NEW i \in DOMAIN v[j], v[j][i].k = "welcome"
        PROVE  i = 1 /\ w[1] = <<>> /\ \A b \in 1..(j - 1) : v[b] = <<>>
    <3>1. i = 1 /\ \A b \in 1..((j + 1) - 1) : w[b] = <<>>
      BY <1>7, <1>12, <2>1 DEF WelcomeFirst
    <3>2. ASSUME NEW b \in 1..(j - 1) PROVE v[b] = <<>>
      <4>1. b \in 1..n /\ b + 1 \in 1..((j + 1) - 1)
        OBVIOUS
      <4> QED  BY <1>7, <3>1, <4>1
    <3>3. 1 \in 1..((j + 1) - 1)
      OBVIOUS
    <3> QED  BY <3>1, <3>2, <3>3
  <2>2. WelcomeFirst(v)
    BY <1>8, <2>1 DEF WelcomeFirst
  <2>3. WelcomeFirst(one)
    <3>1. \A i \in DOMAIN w[1] : w[1][i].k = "welcome" => i = 1
      BY <1>8, <1>12 DEF WelcomeFirst
    <3>2. \A j \in DOMAIN one : j = 1 /\ one[j] = w[1] /\ 1..(j - 1) = {}
      BY <1>8
    <3> QED  BY <3>1, <3>2 DEF WelcomeFirst
  <2>4. ASSUME w[1] # <<>>, NEW f \in Welcomes(v) PROVE FALSE
    <3>1. PICK j \in 1..n : \E i \in DOMAIN v[j] : f = v[j][i] /\ f.k = "welcome"
      BY <1>8, WelcomesAre
    <3> QED  BY <2>1, <2>4, <3>1
  <2> QED  BY <2>2, <2>3, <2>4
<1> QED  BY <1>0, <1>5, <1>9, <1>10, <1>11, <1>12 DEF one

-----------------------------------------------------------------------------
\* A socket reads a batch.
LEMMA Least ==
    ASSUME NEW T, T \subseteq Nat, T # {}
    PROVE  \E n \in T : \A m \in T : n <= m
<1>1. PICK n \in T : \A m \in T : <<m, n>> \notin OpToRel(<, Nat)
  BY NatLessThanWellFounded, WFMin
<1>2. ASSUME NEW m \in T PROVE n <= m
  <2>1. <<m, n>> \in Nat \X Nat
    OBVIOUS
  <2>2. ~(m < n)
    BY <1>1, <2>1 DEF OpToRel
  <2> QED  BY <2>2
<1> QED  BY <1>2

IsReading(a, s, fs, n) ==
    a = [i \in 0..n |-> IF i = 0 THEN s ELSE Read(a[i - 1], fs[i])]

LEMMA ReadingExists ==
    ASSUME NEW s, NEW fs, NEW N \in Nat
    PROVE  \E a : IsReading(a, s, fs, N)
<1> DEFINE Has(n) == \E a : IsReading(a, s, fs, n)
           T == {n \in 0..N : ~Has(n)}
<1> SUFFICES ASSUME ~Has(N) PROVE FALSE
  OBVIOUS
<1> HIDE DEF Has
<1>1. T \subseteq Nat /\ N \in T
  OBVIOUS
<1>2. PICK n \in T : \A m \in T : n <= m
  <2> HIDE DEF T
  <2> QED  BY <1>1, Least
<1>3. n \in 0..N /\ ~Has(n) /\ \A m \in 0..N : ~Has(m) => n <= m
  BY <1>2
<1>4. CASE n = 0
  <2>1. IsReading([i \in 0..0 |-> s], s, fs, 0)
    BY DEF IsReading
  <2> QED  BY <1>3, <1>4, <2>1 DEF Has
<1>5. CASE n # 0
  <2>1. n \in Nat /\ n - 1 \in 0..N /\ n - 1 \in Nat
    BY <1>3, <1>5
  <2>2. Has(n - 1)
    BY <1>3, <2>1
  <2>3. PICK a : IsReading(a, s, fs, n - 1)
    BY <2>2 DEF Has
  <2> DEFINE b == [i \in 0..n |-> IF i = n THEN Read(a[n - 1], fs[n]) ELSE a[i]]
  <2>4. \A i \in 0..(n - 1) : a[i] = IF i = 0 THEN s ELSE Read(a[i - 1], fs[i])
    BY <2>3 DEF IsReading
  <2>5. ASSUME NEW i \in 0..n PROVE b[i] = IF i = 0 THEN s ELSE Read(b[i - 1], fs[i])
    <3>1. CASE i = n
      <4>1. n - 1 \in 0..n /\ n - 1 # n
        BY <2>1
      <4> QED  BY <1>5, <3>1, <4>1
    <3>2. CASE i # n
      <4>1. i \in 0..(n - 1) /\ (i # 0 => i - 1 \in 0..n /\ i - 1 # n)
        BY <2>1, <3>2
      <4>2. b[i] = a[i] /\ (i # 0 => b[i - 1] = a[i - 1])
        BY <3>2, <4>1
      <4> QED  BY <2>4, <4>1, <4>2
    <3> QED  BY <3>1, <3>2
  <2>6. b = [i \in 0..n |-> b[i]]
    OBVIOUS
  <2> HIDE DEF b
  <2>7. IsReading(b, s, fs, n)
    BY <2>5, <2>6 DEF IsReading
  <2> QED  BY <1>3, <2>7 DEF Has
<1> QED  BY <1>4, <1>5

LEMMA ReadAllReads ==
    ASSUME NEW s, NEW fs \in Seq(Frames)
    PROVE  \E a : /\ a[0] = s /\ ReadAll(s, fs) = a[Len(fs)]
                  /\ \A i \in 1..Len(fs) : a[i] = Read(a[i - 1], fs[i])
<1> DEFINE Is(a) == a = [i \in 0..Len(fs) |-> IF i = 0 THEN s ELSE Read(a[i - 1], fs[i])]
           f == CHOOSE a : Is(a)
<1>1. ReadAll(s, fs) = f[Len(fs)]
  BY DEF ReadAll
<1>0. Len(fs) \in Nat
  OBVIOUS
<1>2. PICK a : IsReading(a, s, fs, Len(fs))
  BY <1>0, ReadingExists
<1>3. Is(a)
  BY <1>2 DEF IsReading
<1>4. Is(f)
  <2> HIDE DEF Is
  <2> QED  BY <1>3
<1> HIDE DEF f
<1>5. f[0] = s /\ \A i \in 1..Len(fs) : f[i] = Read(f[i - 1], fs[i])
  BY <1>4
<1> QED  BY <1>1, <1>5

AnySocket ==
    [up : {"open", "closing", "closed"}, at : {"start", "lookup", "opening", "joined"},
     session : Objects \cup {None}, seq : Nat \cup {None}, run : Runs \cup {None},
     stray : BOOLEAN, abandoned : BOOLEAN]

Counted(z, from, way) ==
    /\ z.seq \in Nat /\ from <= z.seq /\ z.seq <= from + EventsIn(way)
    /\ z.up = "open" => z.seq = from + EventsIn(way)

\* z is s when it has read what is on the way.
HasRead(z, s, way) ==
    /\ z \in AnySocket
    /\ z.at = s.at /\ z.session = s.session /\ z.abandoned = s.abandoned
    /\ s.up # "open" \/ Nothing(way) => z = s
    /\ s.up = "open" =>
          /\ z.up = IF Carries(way, "bye") THEN "closing" ELSE "open"
          /\ Welcomes(way) = {} => /\ z.run = s.run
                                   /\ s.seq = None => z.seq = None
                                   /\ s.seq # None => z.stray = s.stray /\ Counted(z, s.seq, way)
          /\ \A f \in Welcomes(way) :
                z.run = f.run /\ z.stray = s.stray /\ Counted(z, f.seq, way)

\* One more frame.
LEMMA ReadOne ==
    ASSUME NEW s \in AnySocket, NEW z, NEW w \in [1..1 -> Seq(Frames)], HasRead(z, s, w),
           NEW f \in Frames, NEW v \in [1..1 -> Seq(Frames)], v[1] = Append(w[1], f),
           f.k = "welcome" => Nothing(w)
    PROVE  HasRead(Read(z, f), s, v)
<1>1. \A j \in 1..1 : v[j] = IF j = 1 THEN Append(w[1], f) ELSE w[j]
  OBVIOUS
<1>2. /\ ~Nothing(v)
      /\ EventsIn(v) = EventsIn(w) + (IF f.k = "event" THEN 1 ELSE 0)
      /\ Carries(v, "bye") <=> Carries(w, "bye") \/ f.k = "bye"
      /\ f.k # "welcome" => Welcomes(v) = Welcomes(w)
      /\ f.k = "welcome" => Welcomes(v) = {f}
  <2> DEFINE n == 1
  <2>1. /\ n \in Nat \ {0} /\ w \in [1..n -> Seq(Frames)] /\ v \in [1..n -> Seq(Frames)]
        /\ \A j \in 1..n : v[j] = IF j = n THEN Append(w[n], f) ELSE w[j]
    BY <1>1
  <2> HIDE DEF n
  <2>2. ~Nothing(v)
    <3>1. v[1] # <<>>
      OBVIOUS
    <3> QED  BY <3>1 DEF Nothing
  <2>3. Put(w, v, f)
    BY <2>1, PutOnWay
  <2> QED  BY <2>2, <2>3 DEF Put
<1>3. EventsIn(w) \in Nat /\ EventsIn(v) \in Nat
  BY EventsFinite
<1>4. Nothing(w) => EventsIn(w) = 0 /\ Welcomes(w) = {} /\ ~Carries(w, "bye") /\ z = s
  BY NothingHas DEF HasRead
<1>5. z \in AnySocket
  BY DEF HasRead
<1>6. \A x \in AnySocket : x.seq # None => x.seq \in Nat
  BY DEF AnySocket
<1>7. None \notin Nat
  BY RemoteAssumption
<1>8. f.k \in {"welcome", "event", "reply", "bye"}
      /\ (f.k = "welcome" => f.seq \in Nat /\ f.run \in Runs)
  BY RemoteAssumption DEF Frames
<1>9. CASE z.up # "open"
  <2>1. Read(z, f) = z
    BY <1>9 DEF Read
  <2>2. CASE s.up # "open"
    BY <1>2, <2>1, <2>2 DEF HasRead
  <2>3. CASE s.up = "open"
    <3>1. Carries(w, "bye") /\ z.up = "closing"
      BY <1>9, <2>3 DEF HasRead
    <3>2. f.k # "welcome"
      BY <1>4, <3>1
    <3>3. EventsIn(w) <= EventsIn(v)
      BY <1>2, <1>3
    <3>4. \A n \in Nat : Counted(z, n, w) => Counted(z, n, v)
      BY <1>3, <1>9, <3>3 DEF Counted
    <3>5. \A g \in Welcomes(w) : g.seq \in Nat
      <4>1. SUFFICES ASSUME NEW g \in Welcomes(w) PROVE g.seq \in Nat
        OBVIOUS
      <4>2. PICK j \in DOMAIN w : \E i \in DOMAIN w[j] : g = w[j][i] /\ g.k = "welcome"
        BY WelcomesAre
      <4>3. g \in Frames /\ g.k = "welcome"
        BY <4>2
      <4> QED  BY <4>3, RemoteAssumption DEF Frames
    <3>6. s.seq # None => s.seq \in Nat
      BY <1>6
    <3>7. z.up = IF Carries(v, "bye") THEN "closing" ELSE "open"
      BY <1>2, <3>1
    <3>8. Welcomes(v) = Welcomes(w)
      BY <1>2, <3>2
    <3> QED  BY <1>2, <2>1, <2>3, <3>4, <3>5, <3>6, <3>7, <3>8 DEF HasRead
  <2> QED  BY <2>2, <2>3
<1>10. CASE z.up = "open"
  <2>1. s.up = "open" /\ ~Carries(w, "bye")
    BY <1>10 DEF HasRead
  <2>2. CASE f.k = "welcome"
    <3>1. Read(z, f) = [z EXCEPT !.seq = f.seq, !.run = f.run]
      BY <1>10, <2>2 DEF Read
    <3>2. z = s /\ EventsIn(v) = 0 /\ Welcomes(v) = {f} /\ ~Carries(v, "bye")
      BY <1>2, <1>3, <1>4, <2>2
    <3> DEFINE y == Read(z, f)
    <3>3. /\ y \in AnySocket /\ y.at = s.at /\ y.session = s.session
          /\ y.abandoned = s.abandoned /\ y.up = "open" /\ y.run = f.run /\ y.stray = s.stray
          /\ y.seq = f.seq
      BY <1>5, <1>8, <2>1, <2>2, <3>1, <3>2 DEF AnySocket
    <3> HIDE DEF y
    <3>4. Counted(y, f.seq, v)
      BY <1>8, <2>2, <3>2, <3>3 DEF Counted
    <3>5. HasRead(y, s, v)
      BY <1>2, <2>1, <3>2, <3>3, <3>4 DEF HasRead
    <3> QED  BY <3>5 DEF y
  <2>3. CASE f.k = "event" /\ z.seq = None
    <3> DEFINE y == Read(z, f)
    <3>1. y = [z EXCEPT !.stray = TRUE]
      BY <1>10, <2>3 DEF Read
    <3>2. /\ y \in AnySocket /\ y.at = z.at /\ y.session = z.session
          /\ y.abandoned = z.abandoned /\ y.up = "open" /\ y.run = z.run /\ y.seq = None
      BY <1>5, <1>10, <2>3, <3>1 DEF AnySocket
    <3> HIDE DEF y
    <3>3. Welcomes(v) = Welcomes(w) /\ ~Carries(v, "bye")
      BY <1>2, <2>1, <2>3
    <3>4. Welcomes(w) = {}
      BY <1>7, <2>1, <2>3 DEF HasRead, Counted
    <3>5. s.seq = None
      BY <1>7, <2>1, <2>3, <3>4 DEF HasRead, Counted
    <3>6. HasRead(y, s, v)
      BY <1>2, <2>1, <3>2, <3>3, <3>4, <3>5 DEF HasRead
    <3> QED  BY <3>6 DEF y
  <2>4. CASE f.k = "event" /\ z.seq # None
    <3> DEFINE y == Read(z, f)
    <3>1. y = [z EXCEPT !.seq = z.seq + 1]
      BY <1>10, <2>4 DEF Read
    <3>2. /\ y \in AnySocket /\ y.at = z.at /\ y.session = z.session
          /\ y.abandoned = z.abandoned /\ y.up = "open" /\ y.run = z.run /\ y.seq = z.seq + 1
          /\ y.stray = z.stray /\ z.seq \in Nat
      <4>1. z.seq \in Nat /\ z.seq + 1 \in Nat
        BY <1>5, <1>6, <2>4
      <4>2. y \in AnySocket
        BY <1>5, <3>1, <4>1 DEF AnySocket
      <4>3. DOMAIN z = {"up", "at", "session", "seq", "run", "stray", "abandoned"}
        BY <1>5 DEF AnySocket
      <4> QED  BY <1>10, <3>1, <4>1, <4>2, <4>3
    <3> HIDE DEF y
    <3>3. Welcomes(v) = Welcomes(w) /\ ~Carries(v, "bye") /\ EventsIn(v) = EventsIn(w) + 1
      BY <1>2, <2>1, <2>4
    <3>4. ASSUME NEW from, Counted(z, from, w), from \in Nat PROVE Counted(y, from, v)
      <4>1. z.seq = from + EventsIn(w)
        BY <1>10, <3>4 DEF Counted
      <4>2. y.seq = from + EventsIn(v) /\ y.seq \in Nat /\ from <= y.seq
        BY <1>3, <3>2, <3>3, <3>4, <4>1
      <4> QED  BY <4>2 DEF Counted
    <3>5. \A g \in Welcomes(w) : g.seq \in Nat
      <4>1. SUFFICES ASSUME NEW g \in Welcomes(w) PROVE g.seq \in Nat
        OBVIOUS
      <4>2. PICK j \in DOMAIN w : \E i \in DOMAIN w[j] : g = w[j][i] /\ g.k = "welcome"
        BY WelcomesAre
      <4>3. g \in Frames /\ g.k = "welcome"
        BY <4>2
      <4> QED  BY <4>3, RemoteAssumption DEF Frames
    <3>6. s.seq # None => s.seq \in Nat
      BY <1>6
    <3>7. Welcomes(w) = {} => s.seq # None
      BY <2>1, <2>4 DEF HasRead
    <3>8. HasRead(y, s, v)
      BY <1>2, <2>1, <3>2, <3>3, <3>4, <3>5, <3>6, <3>7 DEF HasRead
    <3> QED  BY <3>8 DEF y
  <2>5. CASE f.k = "reply"
    <3>1. Read(z, f) = z
      BY <1>10, <2>5 DEF Read
    <3>2. Welcomes(v) = Welcomes(w) /\ ~Carries(v, "bye") /\ EventsIn(v) = EventsIn(w)
      BY <1>2, <1>3, <2>1, <2>5
    <3>3. \A n : Counted(z, n, w) => Counted(z, n, v)
      BY <3>2 DEF Counted
    <3> QED  BY <1>2, <1>10, <2>1, <3>1, <3>2, <3>3 DEF HasRead
  <2>6. CASE f.k = "bye"
    <3> DEFINE y == Read(z, f)
    <3>1. y = [z EXCEPT !.up = "closing"]
      BY <1>10, <2>6 DEF Read
    <3>2. /\ y \in AnySocket /\ y.at = z.at /\ y.session = z.session
          /\ y.abandoned = z.abandoned /\ y.up = "closing" /\ y.run = z.run /\ y.seq = z.seq
          /\ y.stray = z.stray
      BY <1>5, <1>10, <3>1 DEF AnySocket
    <3> HIDE DEF y
    <3>3. Welcomes(v) = Welcomes(w) /\ Carries(v, "bye") /\ EventsIn(v) = EventsIn(w)
      BY <1>2, <1>3, <2>6
    <3>4. \A n : Counted(z, n, w) => Counted(y, n, v)
      BY <1>10, <3>2, <3>3 DEF Counted
    <3>5. HasRead(y, s, v)
      BY <1>2, <2>1, <3>2, <3>3, <3>4 DEF HasRead
    <3> QED  BY <3>5 DEF y
  <2> QED  BY <1>8, <2>2, <2>3, <2>4, <2>5, <2>6
<1> QED  BY <1>9, <1>10

LEMMA ReadAllDoes ==
    ASSUME NEW s \in AnySocket, NEW fs \in Seq(Frames), WelcomeFirst(<<fs>>)
    PROVE  HasRead(ReadAll(s, fs), s, <<fs>>)
<1>1. PICK a : /\ a[0] = s /\ ReadAll(s, fs) = a[Len(fs)]
               /\ \A i \in 1..Len(fs) : a[i] = Read(a[i - 1], fs[i])
  BY ReadAllReads
<1> DEFINE pre(i) == <<SubSeq(fs, 1, i)>>
           T == {i \in 0..Len(fs) : ~HasRead(a[i], s, pre(i))}
<1>2. pre(Len(fs)) = <<fs>>
  OBVIOUS
<1> SUFFICES ASSUME ~HasRead(a[Len(fs)], s, pre(Len(fs))) PROVE FALSE
  BY <1>1, <1>2
<1>3. T \subseteq Nat /\ T # {}
  <2>1. Len(fs) \in 0..Len(fs)
    OBVIOUS
  <2> HIDE DEF pre
  <2> QED  BY <2>1
<1>4. PICK n \in T : \A m \in T : n <= m
  <2> HIDE DEF T
  <2> QED  BY <1>3, Least
<1>5. n \in 0..Len(fs) /\ ~HasRead(a[n], s, pre(n))
      /\ \A m \in 0..Len(fs) : ~HasRead(a[m], s, pre(m)) => n <= m
  BY <1>4
<1> HIDE DEF T
<1>6. CASE n = 0
  <2>1. Nothing(pre(0)) /\ pre(0) \in [1..1 -> Seq(Frames)]
    BY DEF Nothing
  <2> HIDE DEF pre
  <2>2. Welcomes(pre(0)) = {} /\ ~Carries(pre(0), "bye") /\ EventsIn(pre(0)) = 0
    BY <2>1, NothingHas
  <2>3. None \notin Nat /\ (s.seq # None => s.seq \in Nat)
    BY RemoteAssumption DEF AnySocket
  <2>4. HasRead(s, s, pre(0))
    BY <2>1, <2>2, <2>3 DEF HasRead, Counted
  <2> QED  BY <1>1, <1>5, <1>6, <2>4
<1>7. CASE n # 0
  <2>1. n - 1 \in 0..Len(fs) /\ n \in 1..Len(fs)
    BY <1>5, <1>7
  <2>2. HasRead(a[n - 1], s, pre(n - 1))
    <3> HIDE DEF pre
    <3> QED  BY <1>5, <2>1
  <2>3. /\ pre(n - 1) \in [1..1 -> Seq(Frames)] /\ pre(n) \in [1..1 -> Seq(Frames)]
        /\ fs[n] \in Frames
    <3>1. SubSeq(fs, 1, n - 1) \in Seq(Frames) /\ SubSeq(fs, 1, n) \in Seq(Frames)
      BY <2>1
    <3>2. ASSUME NEW t \in Seq(Frames) PROVE <<t>> \in [1..1 -> Seq(Frames)]
      OBVIOUS
    <3>3. /\ <<SubSeq(fs, 1, n - 1)>> \in [1..1 -> Seq(Frames)]
          /\ <<SubSeq(fs, 1, n)>> \in [1..1 -> Seq(Frames)]
      BY <3>1, <3>2
    <3> QED  BY <2>1, <3>3
  <2>4. pre(n)[1] = Append(pre(n - 1)[1], fs[n])
    BY <2>1
  <2>5. fs[n].k = "welcome" => Nothing(pre(n - 1))
    <3>1. SUFFICES ASSUME fs[n].k = "welcome" PROVE Nothing(pre(n - 1))
      OBVIOUS
    <3>2. n = 1
      BY <2>1, <3>1 DEF WelcomeFirst
    <3> QED  BY <3>2 DEF Nothing
  <2> HIDE DEF pre
  <2>6. HasRead(Read(a[n - 1], fs[n]), s, pre(n))
    BY <2>2, <2>3, <2>4, <2>5, ReadOne
  <2> QED  BY <1>1, <1>5, <2>1, <2>6
<1> QED  BY <1>6, <1>7

-----------------------------------------------------------------------------
\* What a step of the gateway's own code from g to h may do: it reads nothing from
\* the channel, and a socket is joined, dropped or told of in the inbox together.
GatewayStep(g, h) ==
    /\ \A c \in Sockets :
          LET x == g.sock[c]
              y == h.sock[c]
          IN  /\ y.seq = x.seq /\ y.run = x.run /\ y.stray = x.stray
              /\ y.up = "open" => x.up = "open"
              /\ x.abandoned = TRUE => y.abandoned = TRUE
              /\ x.at = "joined" => y.at = "joined" /\ y.session = x.session
              /\ x.at # "joined" /\ y.at = "joined" /\ y.session # None =>
                    h.inbox = Append(g.inbox, [t |-> "join", c |-> c])
              /\ Held(g, c) => \/ Held(h, c) \/ y.abandoned = TRUE
                               \/ h.inbox = Append(g.inbox, [t |-> "detach", c |-> c])
              /\ Held(h, c) => Held(g, c) \/ x.at # "joined"
    /\ \/ h.inbox = g.inbox
       \/ \E c \in Sockets :
             \/ /\ h.inbox = Append(g.inbox, [t |-> "join", c |-> c])
                /\ g.sock[c].at # "joined" /\ Held(h, c)
             \/ /\ h.inbox = Append(g.inbox, [t |-> "detach", c |-> c])
                /\ Held(g, c) /\ ~Held(h, c)
             \/ h.inbox = Append(g.inbox, [t |-> "answer", c |-> c])
    /\ \A r \in Objects : /\ r \in g.handlers => r \in h.handlers \/ h.conns[r] = {}
                          /\ r \in h.handlers => r \in g.handlers \/ g.conns[r] = {}
    /\ h.sub = g.sub \/ h.handlers = {}

LEMMA Objects1 ==
    /\ Objects \subseteq Nat /\ None \notin Objects /\ \A r \in Objects : r \in Nat /\ r # None
    /\ Runs \subseteq Nat /\ None \notin Runs /\ \A r \in Runs : r \in Nat /\ r # None
BY RemoteAssumption DEF Objects, Runs

LEMMA HeldAt ==
    ASSUME NEW g \in Gateway, BooksOK(g), NEW c \in Sockets
    PROVE  /\ Held(g, c) <=> /\ g.sock[c].at = "joined" /\ g.sock[c].session \in Objects
                             /\ c \in g.conns[g.sock[c].session]
           /\ \A r \in Objects : c \in g.conns[r] => Held(g, c) /\ g.sock[c].session = r
BY DEF BooksOK, Held

LEMMA GatewayFields ==
    ASSUME NEW g \in Gateway
    PROVE  /\ g.remotes \in Objects \cup {None} /\ g.opens \in 0..MaxOpens /\ g.opens \in Nat
           /\ g.conns \in [Objects -> SUBSET Sockets] /\ g.pending \in SUBSET Sockets
           /\ g.channel \in BOOLEAN /\ g.handlers \in SUBSET Objects
           /\ g.awaiting \in SUBSET Objects
           /\ g.sub \in Seq([t : {"sub", "unsub"}, r : Objects])
           /\ g.inbox \in Seq([t : {"join", "answer", "detach"}, c : Sockets])
           /\ g.sock \in [Sockets -> Socket]
           /\ DOMAIN g = {"remotes", "opens", "conns", "pending", "channel", "handlers",
                          "awaiting", "sub", "inbox", "sock"}
BY RemoteAssumption DEF Gateway

LEMMA SocketFields ==
    ASSUME NEW x \in Socket
    PROVE  /\ x.up \in {"open", "closing", "closed"}
           /\ x.at \in {"start", "lookup", "opening", "joined"}
           /\ x.session \in Objects \cup {None} /\ x.seq \in 0..MaxEvents \cup {None}
           /\ x.run \in Runs \cup {None} /\ x.stray \in BOOLEAN /\ x.abandoned \in BOOLEAN
           /\ DOMAIN x = {"up", "at", "session", "seq", "run", "stray", "abandoned"}
BY DEF Socket

\* What unsubscribing leaves.
Unsubscribed(g, r, h) ==
    /\ h \in Gateway
    /\ h.remotes = g.remotes /\ h.opens = g.opens /\ h.conns = g.conns
    /\ h.pending = g.pending /\ h.inbox = g.inbox /\ h.sock = g.sock
    /\ h.handlers = g.handlers \ {r}
    /\ \/ h.awaiting = g.awaiting /\ h.channel = g.channel /\ h.sub = g.sub
       \/ /\ h.handlers = {} /\ h.awaiting = {} /\ h.channel = FALSE
          /\ h.sub = Append(g.sub, [t |-> "unsub", r |-> r])

LEMMA UnsubscribeDoes ==
    ASSUME NEW g \in Gateway, NEW r \in Objects, NEW h, h = Unsubscribe(g, r),
           ~g.channel => g.handlers = {} /\ g.awaiting = {}
    PROVE  Unsubscribed(g, r, h)
<1> USE DEF Unsubscribed
<1>1. CASE ~g.channel
  BY <1>1 DEF Unsubscribe
<1>2. CASE g.channel /\ g.handlers \subseteq {r}
  <2>1. h = [g EXCEPT !.handlers = {}, !.awaiting = {}, !.channel = FALSE,
                      !.sub = Append(@, [t |-> "unsub", r |-> r])]
    BY <1>2 DEF Unsubscribe
  <2>2. Append(g.sub, [t |-> "unsub", r |-> r]) \in Seq([t : {"sub", "unsub"}, r : Objects])
    <3>1. [t |-> "unsub", r |-> r] \in [t : {"sub", "unsub"}, r : Objects]
      OBVIOUS
    <3>2. g.sub \in Seq([t : {"sub", "unsub"}, r : Objects])
      BY GatewayFields
    <3> QED  BY <3>1, <3>2
  <2>3. h \in Gateway
    BY <2>1, <2>2 DEF Gateway
  <2> QED  BY <1>2, <2>1, <2>3, GatewayFields
<1>3. CASE g.channel /\ ~(g.handlers \subseteq {r})
  <2>1. h = [g EXCEPT !.handlers = g.handlers \ {r}]
    BY <1>3 DEF Unsubscribe
  <2>2. h \in Gateway
    BY <2>1, GatewayFields DEF Gateway
  <2> QED  BY <2>1, <2>2, GatewayFields
<1> QED  BY <1>1, <1>2, <1>3

Dropped(g, r, h) ==
    /\ h \in Gateway
    /\ h.remotes = None /\ h.opens = g.opens /\ h.conns = g.conns
    /\ h.pending = g.pending \ g.conns[r] /\ h.inbox = g.inbox /\ h.sock = g.sock
    /\ h.handlers = g.handlers \ {r}
    /\ \/ h.awaiting = g.awaiting /\ h.channel = g.channel /\ h.sub = g.sub
       \/ /\ h.handlers = {} /\ h.awaiting = {} /\ h.channel = FALSE
          /\ h.sub = Append(g.sub, [t |-> "unsub", r |-> r])

LEMMA DropDoes ==
    ASSUME NEW g \in Gateway, NEW r \in Objects, NEW h, h = Drop(g, r),
           ~g.channel => g.handlers = {} /\ g.awaiting = {}
    PROVE  Dropped(g, r, h)
<1> DEFINE k == [g EXCEPT !.remotes = None, !.pending = @ \ g.conns[r]]
<1>1. k \in Gateway
  BY DEF Gateway
<1>2. /\ k.remotes = None /\ k.opens = g.opens /\ k.conns = g.conns
      /\ k.pending = g.pending \ g.conns[r] /\ k.inbox = g.inbox /\ k.sock = g.sock
      /\ k.handlers = g.handlers /\ k.awaiting = g.awaiting /\ k.channel = g.channel
      /\ k.sub = g.sub
  BY GatewayFields
<1>3. h = Unsubscribe(k, r)
  BY DEF Drop
<1> HIDE DEF k
<1>4. ~k.channel => k.handlers = {} /\ k.awaiting = {}
  BY <1>2
<1>5. Unsubscribed(k, r, h)
  BY <1>1, <1>3, <1>4, UnsubscribeDoes
<1> QED  BY <1>2, <1>5 DEF Unsubscribed, Dropped

-----------------------------------------------------------------------------
\* k is g, ready for c to join its session r.
Ready(g, k, c, r) ==
    /\ k \in Gateway /\ c \in Sockets /\ r \in Objects
    /\ k.sock = g.sock /\ k.conns = g.conns /\ k.pending = g.pending /\ k.inbox = g.inbox
    /\ k.sub = g.sub /\ k.channel = g.channel
    /\ k.remotes = r /\ r <= k.opens /\ g.opens <= k.opens
    /\ g.handlers \subseteq k.handlers /\ k.handlers \subseteq g.handlers \cup {r}
    /\ r \in k.handlers /\ r \notin g.handlers => g.conns[r] = {}
    /\ k.awaiting \subseteq g.awaiting
    /\ ~k.channel => k.handlers = {}
    /\ g.sock[c].at # "joined"
    /\ \A d \in Sockets : g.sock[d].at = "opening" /\ g.sock[d].session = r => d = c

\* What has become of g when c has joined r, or has found itself closed.
Joined(g, h, c) ==
    /\ h \in Gateway /\ BooksOK(h) /\ GatewayStep(g, h)
    /\ h.sub = g.sub /\ h.channel = g.channel
    /\ h.sock[c].at = "joined"
    /\ \A d \in Sockets : d # c => h.sock[d] = g.sock[d]

LEMMA JoinDoes ==
    ASSUME NEW g \in Gateway, BooksOK(g), NEW k, NEW c, NEW r, Ready(g, k, c, r),
           NEW h, h = Join(k, c, r)
    PROVE  Joined(g, h, c)
<1> DEFINE x == g.sock[c]
           y == h.sock[c]
<1>a. /\ k \in Gateway /\ c \in Sockets /\ r \in Objects /\ k.sock = g.sock
      /\ k.conns = g.conns /\ k.pending = g.pending /\ k.inbox = g.inbox
      /\ k.sub = g.sub /\ k.channel = g.channel /\ k.remotes = r
      /\ x \in Socket /\ x.at # "joined"
  BY GatewayFields DEF Ready
<1>b. /\ h.remotes = r /\ h.opens = k.opens
      /\ h.conns = [g.conns EXCEPT ![r] = @ \cup {c}]
      /\ h.pending = g.pending \cup {c} /\ h.channel = g.channel
      /\ h.handlers = k.handlers /\ h.awaiting = k.awaiting /\ h.sub = g.sub
      /\ h.inbox = Append(g.inbox, [t |-> "join", c |-> c])
      /\ h.sock = [g.sock EXCEPT ![c] = [x EXCEPT !.at = "joined", !.session = r]]
      /\ DOMAIN h = DOMAIN k
  BY <1>a, GatewayFields, ZenonT(30) DEF Join, Send
<1>c. /\ \A d \in Sockets : d # c => h.sock[d] = g.sock[d]
      /\ y \in Socket /\ y.at = "joined" /\ y.session = r /\ y.up = x.up
      /\ y.seq = x.seq /\ y.run = x.run /\ y.stray = x.stray /\ y.abandoned = x.abandoned
      /\ h.sock \in [Sockets -> Socket]
  <2> DEFINE z == [x EXCEPT !.at = "joined", !.session = r]
  <2>1. /\ z \in Socket /\ z.at = "joined" /\ z.session = r /\ z.up = x.up /\ z.seq = x.seq
        /\ z.run = x.run /\ z.stray = x.stray /\ z.abandoned = x.abandoned
    BY <1>a, SocketFields DEF Socket
  <2>2. h.sock = [g.sock EXCEPT ![c] = z] /\ g.sock \in [Sockets -> Socket]
    BY <1>a, <1>b, GatewayFields
  <2> HIDE DEF z
  <2>3. h.sock[c] = z /\ h.sock \in [Sockets -> Socket]
    BY <1>a, <2>1, <2>2
  <2>4. \A d \in Sockets : d # c => h.sock[d] = g.sock[d]
    BY <2>2
  <2> QED  BY <2>1, <2>3, <2>4
<1>d. /\ \A q \in Objects : h.conns[q] = IF q = r THEN g.conns[q] \cup {c} ELSE g.conns[q]
      /\ h.conns \in [Objects -> SUBSET Sockets]
  <2>1. g.conns \in [Objects -> SUBSET Sockets] /\ g.conns[r] \cup {c} \in SUBSET Sockets
    BY <1>a, GatewayFields
  <2>2. h.conns = [g.conns EXCEPT ![r] = g.conns[r] \cup {c}]
    BY <1>b
  <2> QED  BY <1>a, <2>1, <2>2
<1>e. h.inbox \in Seq([t : {"join", "answer", "detach"}, c : Sockets])
  <2>1. [t |-> "join", c |-> c] \in [t : {"join", "answer", "detach"}, c : Sockets]
    BY <1>a
  <2>2. g.inbox \in Seq([t : {"join", "answer", "detach"}, c : Sockets])
    BY GatewayFields
  <2> QED  BY <1>b, <2>1, <2>2
<1>1. h \in Gateway
  <2>1. h = [k EXCEPT !.conns = h.conns, !.pending = h.pending, !.sock = h.sock,
                      !.inbox = h.inbox]
    <3>1. h = [k EXCEPT !.conns = [k.conns EXCEPT ![r] = @ \cup {c}],
                        !.pending = k.pending \cup {c},
                        !.sock = [k.sock EXCEPT ![c].at = "joined", ![c].session = r],
                        !.inbox = Append(k.inbox, [t |-> "join", c |-> c])]
      BY <1>a, GatewayFields, ZenonT(30) DEF Join, Send
    <3> QED  BY <1>a, <3>1, GatewayFields
  <2>2. h.pending \in SUBSET Sockets
    BY <1>a, <1>b, GatewayFields
  <2> QED  BY <1>a, <1>c, <1>d, <1>e, <2>1, <2>2 DEF Gateway
<1>f. \A q \in Objects : c \notin g.conns[q]
  BY <1>a, HeldAt
<1>g. /\ \A d \in Sockets : d # c => (Held(h, d) <=> Held(g, d))
      /\ Held(h, c) /\ ~Held(g, c)
  <2>1. \A d \in Sockets, q \in Objects : d # c => (d \in h.conns[q] <=> d \in g.conns[q])
    BY <1>d
  <2>2. c \in h.conns[r]
    BY <1>a, <1>d
  <2> QED  BY <1>a, <1>f, <2>1, <2>2 DEF Held
<1> HIDE DEF x, y
<1>2. BooksOK(h)
  <2>1. \A q \in Objects : \A d \in h.conns[q] :
            h.sock[d].at = "joined" /\ h.sock[d].session = q
    <3>1. ASSUME NEW q \in Objects, NEW d \in h.conns[q], d # c
          PROVE  h.sock[d].at = "joined" /\ h.sock[d].session = q
      <4>1. d \in g.conns[q] /\ d \in Sockets
        BY <1>d, <3>1
      <4>2. g.sock[d].at = "joined" /\ g.sock[d].session = q
        BY <4>1 DEF BooksOK
      <4> QED  BY <1>c, <3>1, <4>1, <4>2
    <3>2. ASSUME NEW q \in Objects, c \in h.conns[q] PROVE q = r
      BY <1>d, <1>f, <3>2
    <3> QED  BY <1>c, <3>1, <3>2 DEF y
  <2>2. \A d \in h.pending : Held(h, d)
    BY <1>b, <1>g, GatewayFields DEF BooksOK
  <2>3. ASSUME NEW d \in Sockets, d # c
        PROVE  /\ h.sock[d].at \in {"start", "lookup"} => h.sock[d].session = None
               /\ h.sock[d].session # None => h.sock[d].session <= h.opens
               /\ h.sock[d].at = "opening" =>
                     /\ h.sock[d].session # None /\ h.sock[d].session # h.remotes
                     /\ h.sock[d].session \notin h.handlers /\ h.conns[h.sock[d].session] = {}
               /\ h.sock[d].at = "joined" /\ h.sock[d].session # None /\ h.sock[d].up = "open"
                     => d \in h.conns[h.sock[d].session]
               /\ h.sock[d].at = "joined" /\ h.sock[d].session = None => h.sock[d].up = "closed"
    <3> DEFINE s == g.sock[d].session
    <3>1. h.sock[d] = g.sock[d] /\ s \in Objects \cup {None} /\ g.sock[d] \in Socket
      BY <1>c, <2>3, GatewayFields, SocketFields
    <3>2. /\ g.sock[d].at \in {"start", "lookup"} => s = None
          /\ s # None => s <= g.opens
          /\ g.sock[d].at = "opening" => s # None /\ s \notin g.handlers /\ g.conns[s] = {}
          /\ g.sock[d].at = "joined" /\ s # None /\ g.sock[d].up = "open" => d \in g.conns[s]
          /\ g.sock[d].at = "joined" /\ s = None => g.sock[d].up = "closed"
      BY DEF BooksOK
    <3>3. s # None => s <= h.opens
      <4>1. g.opens <= h.opens /\ g.opens \in Nat /\ h.opens \in Nat
        BY <1>1, <1>b, GatewayFields DEF Ready
      <4>2. s # None => s \in Nat
        BY <3>1, Objects1
      <4>3. s # None => s <= g.opens
        BY <3>2
      <4> HIDE DEF s
      <4> QED  BY <4>1, <4>2, <4>3
    <3>4. g.sock[d].at = "opening" => s # r
      BY <2>3 DEF Ready
    <3>5. g.sock[d].at = "opening" => s # h.remotes /\ s \notin h.handlers /\ h.conns[s] = {}
      BY <1>b, <1>d, <3>1, <3>2, <3>4 DEF Ready
    <3>6. g.sock[d].at = "joined" /\ s # None /\ g.sock[d].up = "open" => d \in h.conns[s]
      BY <1>d, <3>1, <3>2
    <3> HIDE DEF s
    <3> QED  BY <3>1, <3>2, <3>3, <3>5, <3>6 DEF s
  <2>4. c \in h.conns[r] /\ r <= h.opens /\ r # None
    BY <1>a, <1>b, <1>d, Objects1 DEF Ready
  <2>5. \A d, e \in Sockets : h.sock[d].at = "opening" /\ h.sock[e].at = "opening"
                             /\ h.sock[d].session = h.sock[e].session => d = e
    <3>1. \A d \in Sockets : h.sock[d].at = "opening" => d # c
      BY <1>c DEF y
    <3> QED  BY <1>c, <3>1 DEF BooksOK
  <2>6. \A q \in h.handlers \cup h.awaiting \cup {h.remotes} : q # None => q <= h.opens
    <3>1. g.opens <= h.opens /\ g.opens \in Nat /\ h.opens \in Nat
      BY <1>1, <1>b, GatewayFields DEF Ready
    <3>2. \A q \in g.handlers \cup g.awaiting : q \in Nat /\ q <= g.opens
      <4>1. ASSUME NEW q \in g.handlers \cup g.awaiting PROVE q \in Nat /\ q <= g.opens
        <5>1. q \in Objects
          BY GatewayFields
        <5> QED  BY <5>1, Objects1 DEF BooksOK
      <4> QED  BY <4>1
    <3>3. h.handlers \cup h.awaiting \cup {h.remotes} \subseteq g.handlers \cup g.awaiting \cup {r}
      BY <1>b DEF Ready
    <3> QED  BY <2>4, <3>1, <3>2, <3>3
  <2>7. ~h.channel => h.handlers = {} /\ h.awaiting = {}
    BY <1>b DEF Ready, BooksOK
  <2>8. h.sock[c].at = "joined" /\ h.sock[c].session = r
    BY <1>c DEF y
  <2>9. ASSUME NEW d \in Sockets
        PROVE  /\ h.sock[d].at \in {"start", "lookup"} => h.sock[d].session = None
               /\ h.sock[d].session # None => h.sock[d].session <= h.opens
               /\ h.sock[d].at = "opening" =>
                     /\ h.sock[d].session # None /\ h.sock[d].session # h.remotes
                     /\ h.sock[d].session \notin h.handlers /\ h.conns[h.sock[d].session] = {}
               /\ h.sock[d].at = "joined" /\ h.sock[d].session # None /\ h.sock[d].up = "open"
                     => d \in h.conns[h.sock[d].session]
               /\ h.sock[d].at = "joined" /\ h.sock[d].session = None => h.sock[d].up = "closed"
    <3>1. CASE d = c
      BY <2>4, <2>8, <3>1
    <3>2. CASE d # c
      BY <2>3, <3>2
    <3> QED  BY <3>1, <3>2
  <2> QED  BY <2>1, <2>2, <2>5, <2>6, <2>7, <2>9 DEF BooksOK
<1>3. GatewayStep(g, h)
  <2>1. ASSUME NEW d \in Sockets, d # c
        PROVE  h.sock[d] = g.sock[d] /\ (Held(h, d) <=> Held(g, d))
    BY <1>c, <1>g, <2>1
  <2>2. \A q \in Objects : /\ q \in g.handlers => q \in h.handlers
                           /\ q \in h.handlers => q \in g.handlers \/ g.conns[q] = {}
    BY <1>b DEF Ready
  <2>3. h.inbox = Append(g.inbox, [t |-> "join", c |-> c])
    BY <1>b
  <2>4. h.sub = g.sub
    BY <1>b
  <2>5. c \in Sockets /\ g.sock[c].at # "joined"
    BY <1>a DEF x
  <2>6. /\ h.sock[c].seq = g.sock[c].seq /\ h.sock[c].run = g.sock[c].run
        /\ h.sock[c].stray = g.sock[c].stray /\ h.sock[c].up = g.sock[c].up
        /\ h.sock[c].abandoned = g.sock[c].abandoned
    BY <1>c DEF x, y
  <2> QED  BY <1>g, <2>1, <2>2, <2>3, <2>4, <2>5, <2>6 DEF GatewayStep
<1> QED  BY <1>1, <1>2, <1>3, <1>b, <1>c DEF Joined, y

LEMMA ResolvedDoes ==
    ASSUME NEW g \in Gateway, BooksOK(g), NEW k, NEW c, NEW r, Ready(g, k, c, r),
           NEW h, h = Resolved(k, c, r)
    PROVE  Joined(g, h, c)
<1> DEFINE x == g.sock[c]
           y == [x EXCEPT !.at = "joined", !.session = None]
<1>a. /\ k \in Gateway /\ c \in Sockets /\ r \in Objects /\ k.sock = g.sock
      /\ k.conns = g.conns /\ k.pending = g.pending /\ k.inbox = g.inbox
      /\ k.sub = g.sub /\ k.channel = g.channel /\ k.remotes = r
      /\ x \in Socket /\ x.at # "joined"
  BY GatewayFields DEF Ready
<1>1. CASE x.up # "closed"
  <2>1. h = Join(k, c, r)
    BY <1>1, <1>a DEF Resolved
  <2> QED  BY <2>1, JoinDoes
<1>2. CASE x.up = "closed"
  <2>1. h = [k EXCEPT !.sock[c].at = "joined", !.sock[c].session = None]
    BY <1>2, <1>a DEF Resolved
  <2>2. /\ h.remotes = r /\ h.opens = k.opens /\ h.conns = g.conns
        /\ h.pending = g.pending /\ h.channel = g.channel /\ h.handlers = k.handlers
        /\ h.awaiting = k.awaiting /\ h.sub = g.sub /\ h.inbox = g.inbox
        /\ h.sock = [g.sock EXCEPT ![c] = y]
    <3>1. /\ h.remotes = r /\ h.opens = k.opens /\ h.conns = g.conns
          /\ h.pending = g.pending /\ h.channel = g.channel /\ h.handlers = k.handlers
          /\ h.awaiting = k.awaiting /\ h.sub = g.sub /\ h.inbox = g.inbox
      BY <1>a, <2>1, GatewayFields
    <3>2. h.sock = [g.sock EXCEPT ![c].at = "joined", ![c].session = None]
      BY <1>a, <2>1, GatewayFields
    <3>3. h.sock = [g.sock EXCEPT ![c] = y]
      BY <1>a, <3>2, GatewayFields
    <3> QED  BY <3>1, <3>3
  <2>3. /\ y \in Socket /\ y.at = "joined" /\ y.session = None /\ y.up = "closed"
        /\ y.seq = x.seq /\ y.run = x.run /\ y.stray = x.stray /\ y.abandoned = x.abandoned
    BY <1>2, <1>a, SocketFields DEF Socket
  <2> HIDE DEF y
  <2>4. /\ h.sock \in [Sockets -> Socket] /\ h.sock[c] = y
        /\ \A d \in Sockets : d # c => h.sock[d] = g.sock[d]
    BY <1>a, <2>2, <2>3, GatewayFields
  <2>5. h \in Gateway
    <3>1. h = [k EXCEPT !.sock = h.sock]
      BY <1>a, <2>1, GatewayFields
    <3> QED  BY <1>a, <2>4, <3>1 DEF Gateway
  <2>6. /\ \A d \in Sockets : Held(h, d) <=> Held(g, d)
        /\ ~Held(g, c)
    BY <1>a, <2>2, HeldAt DEF Held
  <2> HIDE DEF x
  <2>7. BooksOK(h)
    <3>1. ASSUME NEW q \in Objects, NEW d \in h.conns[q]
          PROVE  h.sock[d].at = "joined" /\ h.sock[d].session = q
      <4>1. d \in g.conns[q] /\ d \in Sockets
        BY <2>2, GatewayFields
      <4>2. d # c
        BY <2>6, <4>1 DEF Held
      <4> QED  BY <2>4, <4>1, <4>2 DEF BooksOK
    <3>2. \A d \in h.pending : Held(h, d)
      BY <2>2, <2>6, GatewayFields DEF BooksOK
    <3>3. g.opens <= h.opens /\ g.opens \in Nat /\ h.opens \in Nat
      BY <2>2, <2>5, GatewayFields DEF Ready
    <3>4. ASSUME NEW d \in Sockets, d # c
          PROVE  /\ h.sock[d].at \in {"start", "lookup"} => h.sock[d].session = None
                 /\ h.sock[d].session # None => h.sock[d].session <= h.opens
                 /\ h.sock[d].at = "opening" =>
                      /\ h.sock[d].session # None /\ h.sock[d].session # h.remotes
                      /\ h.sock[d].session \notin h.handlers /\ h.conns[h.sock[d].session] = {}
                 /\ h.sock[d].at = "joined" /\ h.sock[d].session # None /\ h.sock[d].up = "open"
                      => d \in h.conns[h.sock[d].session]
                 /\ h.sock[d].at = "joined" /\ h.sock[d].session = None
                      => h.sock[d].up = "closed"
      <4> DEFINE s == g.sock[d].session
      <4>1. h.sock[d] = g.sock[d] /\ s \in Objects \cup {None}
        BY <2>4, <3>4, GatewayFields, SocketFields
      <4>2. /\ g.sock[d].at \in {"start", "lookup"} => s = None
            /\ s # None => s <= g.opens
            /\ g.sock[d].at = "opening" => s # None /\ s \notin g.handlers /\ g.conns[s] = {}
            /\ g.sock[d].at = "joined" /\ s # None /\ g.sock[d].up = "open" => d \in g.conns[s]
            /\ g.sock[d].at = "joined" /\ s = None => g.sock[d].up = "closed"
        BY DEF BooksOK
      <4>3. s # None => s <= h.opens
        <5>1. s # None => s \in Nat
          BY <4>1, Objects1
        <5> HIDE DEF s
        <5> QED  BY <3>3, <4>2, <5>1
      <4>4. g.sock[d].at = "opening" => s # r
        BY <3>4 DEF Ready
      <4>5. g.sock[d].at = "opening" => s # h.remotes /\ s \notin h.handlers
        BY <2>2, <4>1, <4>2, <4>4 DEF Ready
      <4> HIDE DEF s
      <4> QED  BY <2>2, <4>1, <4>2, <4>3, <4>5 DEF s
    <3>5. \A d, e \in Sockets : h.sock[d].at = "opening" /\ h.sock[e].at = "opening"
                             /\ h.sock[d].session = h.sock[e].session => d = e
      <4>1. \A d \in Sockets : h.sock[d].at = "opening" => d # c
        BY <2>3, <2>4
      <4> QED  BY <2>4, <4>1 DEF BooksOK
    <3>6. \A q \in h.handlers \cup h.awaiting \cup {h.remotes} : q # None => q <= h.opens
      <4>1. ASSUME NEW q \in g.handlers \cup g.awaiting PROVE q \in Nat /\ q <= g.opens
        <5>1. q \in Objects
          BY GatewayFields
        <5> QED  BY <5>1, Objects1 DEF BooksOK
      <4>2. /\ h.handlers \cup h.awaiting \cup {h.remotes}
                  \subseteq g.handlers \cup g.awaiting \cup {r}
            /\ r <= h.opens
        BY <2>2 DEF Ready
      <4> QED  BY <3>3, <4>1, <4>2
    <3>7. ~h.channel => h.handlers = {} /\ h.awaiting = {}
      BY <2>2 DEF Ready, BooksOK
    <3> QED  BY <1>a, <2>3, <2>4, <3>1, <3>2, <3>4, <3>5, <3>6, <3>7 DEF BooksOK
  <2>8. GatewayStep(g, h)
    <3>1. ASSUME NEW d \in Sockets, d # c PROVE h.sock[d] = g.sock[d]
      BY <2>4, <3>1
    <3>2. \A q \in Objects : /\ q \in g.handlers => q \in h.handlers
                             /\ q \in h.handlers => q \in g.handlers \/ g.conns[q] = {}
      BY <2>2 DEF Ready
    <3>3. /\ h.sock[c].at = "joined" /\ h.sock[c].session = None /\ g.sock[c].at # "joined"
          /\ h.sock[c].seq = g.sock[c].seq /\ h.sock[c].run = g.sock[c].run
          /\ h.sock[c].stray = g.sock[c].stray /\ h.sock[c].up # "open"
          /\ h.sock[c].abandoned = g.sock[c].abandoned
      BY <1>a, <2>3, <2>4 DEF x
    <3> QED  BY <2>2, <2>6, <3>1, <3>2, <3>3 DEF GatewayStep
  <2> QED  BY <2>2, <2>3, <2>4, <2>5, <2>7, <2>8 DEF Joined
<1> QED  BY <1>1, <1>2

\* What has become of g when sockets of it have left.
Lessened(g, h) ==
    /\ h \in Gateway
    /\ \A d \in Sockets :
          LET x == g.sock[d]
              y == h.sock[d]
          IN  /\ y.at = x.at /\ y.session = x.session
              /\ y.seq = x.seq /\ y.run = x.run /\ y.stray = x.stray
              /\ x.abandoned = TRUE => y.abandoned = TRUE
              /\ y.up = "open" => x.up = "open"
              /\ x.up = "closed" => y.up = "closed"
              /\ Held(g, d) => \/ Held(h, d)
                               \/ /\ y.up # "open"
                                  /\ \/ y.abandoned = TRUE
                                     \/ h.inbox = Append(g.inbox, [t |-> "detach", c |-> d])
    /\ \A q \in Objects : h.conns[q] \subseteq g.conns[q]
    /\ h.opens = g.opens /\ h.remotes \in {g.remotes, None}
    /\ h.pending \subseteq g.pending /\ \A d \in h.pending : Held(h, d)
    /\ \/ h.inbox = g.inbox
       \/ \E c \in Sockets : /\ h.inbox = Append(g.inbox, [t |-> "detach", c |-> c])
                             /\ Held(g, c) /\ ~Held(h, c)
    /\ h.handlers \subseteq g.handlers
    /\ \A q \in Objects : q \in g.handlers => q \in h.handlers \/ h.conns[q] = {}
    /\ \/ h.awaiting = g.awaiting /\ h.channel = g.channel /\ h.sub = g.sub
       \/ /\ h.handlers = {} /\ h.awaiting = {} /\ h.channel = FALSE
          /\ \E r \in Objects : h.sub = Append(g.sub, [t |-> "unsub", r |-> r])

LEMMA LessenedDoes ==
    ASSUME NEW g \in Gateway, BooksOK(g), NEW h, Lessened(g, h)
    PROVE  BooksOK(h) /\ GatewayStep(g, h)
<1>0. h \in Gateway
  BY DEF Lessened
<1>1. ASSUME NEW q \in Objects, NEW d \in h.conns[q]
      PROVE  h.sock[d].at = "joined" /\ h.sock[d].session = q
  <2>1. d \in g.conns[q] /\ d \in Sockets
    BY <1>0, GatewayFields DEF Lessened
  <2>2. g.sock[d].at = "joined" /\ g.sock[d].session = q
    BY <2>1 DEF BooksOK
  <2>3. h.sock[d].at = g.sock[d].at /\ h.sock[d].session = g.sock[d].session
    BY <2>1 DEF Lessened
  <2> QED  BY <2>2, <2>3
<1>2. ASSUME NEW d \in Sockets
      PROVE  /\ h.sock[d].at \in {"start", "lookup"} => h.sock[d].session = None
             /\ h.sock[d].session # None => h.sock[d].session <= h.opens
             /\ h.sock[d].at = "opening" =>
                   /\ h.sock[d].session # None /\ h.sock[d].session # h.remotes
                   /\ h.sock[d].session \notin h.handlers /\ h.conns[h.sock[d].session] = {}
             /\ h.sock[d].at = "joined" /\ h.sock[d].session # None /\ h.sock[d].up = "open"
                   => d \in h.conns[h.sock[d].session]
             /\ h.sock[d].at = "joined" /\ h.sock[d].session = None => h.sock[d].up = "closed"
  <2> DEFINE x == g.sock[d]
             y == h.sock[d]
             s == g.sock[d].session
  <2>1. /\ y.at = x.at /\ y.session = s /\ (y.up = "open" => x.up = "open")
        /\ (x.up = "closed" => y.up = "closed") /\ s \in Objects \cup {None}
        /\ h.opens = g.opens
    <3>1. s \in Objects \cup {None}
      BY GatewayFields, SocketFields
    <3>2. /\ y.at = x.at /\ y.session = s /\ (y.up = "open" => x.up = "open")
          /\ (x.up = "closed" => y.up = "closed")
      BY DEF Lessened
    <3>3. h.opens = g.opens
      BY DEF Lessened
    <3> QED  BY <3>1, <3>2, <3>3
  <2>2. /\ x.at \in {"start", "lookup"} => s = None
        /\ s # None => s <= g.opens
        /\ x.at = "opening" => /\ s # None /\ s # g.remotes /\ s \notin g.handlers
                               /\ g.conns[s] = {}
        /\ x.at = "joined" /\ s # None /\ x.up = "open" => d \in g.conns[s]
        /\ x.at = "joined" /\ s = None => x.up = "closed"
    BY DEF BooksOK
  <2>3. x.at = "opening" => s # h.remotes /\ s \notin h.handlers /\ h.conns[s] = {}
    BY <2>1, <2>2 DEF Lessened
  <2>4. x.at = "joined" /\ s # None /\ y.up = "open" => d \in h.conns[s]
    <3>1. SUFFICES ASSUME x.at = "joined", s # None, y.up = "open" PROVE d \in h.conns[s]
      OBVIOUS
    <3>2. Held(g, d)
      BY <2>1, <2>2, <3>1 DEF Held
    <3>3. Held(h, d)
      BY <3>1, <3>2 DEF Lessened
    <3> QED  BY <1>1, <2>1, <3>3 DEF Held
  <2> HIDE DEF x, y, s
  <2> QED  BY <2>1, <2>2, <2>3, <2>4 DEF x, y, s
<1>3. BooksOK(h)
  <2>1. \A d, e \in Sockets : h.sock[d].at = "opening" /\ h.sock[e].at = "opening"
                             /\ h.sock[d].session = h.sock[e].session => d = e
    <3>1. \A d \in Sockets : /\ h.sock[d].at = g.sock[d].at
                             /\ h.sock[d].session = g.sock[d].session
      BY DEF Lessened
    <3> QED  BY <3>1 DEF BooksOK
  <2>2. \A q \in h.handlers \cup h.awaiting \cup {h.remotes} : q # None => q <= h.opens
    BY DEF Lessened, BooksOK
  <2>3. ~h.channel => h.handlers = {} /\ h.awaiting = {}
    BY DEF Lessened, BooksOK
  <2>4. \A d \in h.pending : Held(h, d)
    BY DEF Lessened
  <2> QED  BY <1>1, <1>2, <2>1, <2>2, <2>3, <2>4 DEF BooksOK
<1>4. GatewayStep(g, h)
  <2>1. \A d \in Sockets : Held(h, d) => Held(g, d)
    BY DEF Held, Lessened
  <2> QED  BY <2>1 DEF Lessened, GatewayStep
<1> QED  BY <1>3, <1>4

SockClosed(g, c, S) ==
    /\ S \in [Sockets -> Socket]
    /\ \A d \in Sockets : d # c => S[d] = g.sock[d]
    /\ S[c].up = "closed" /\ S[c].at = g.sock[c].at /\ S[c].session = g.sock[c].session
    /\ S[c].seq = g.sock[c].seq /\ S[c].run = g.sock[c].run
    /\ S[c].stray = g.sock[c].stray /\ S[c].abandoned = g.sock[c].abandoned

LEMMA ClosedSock ==
    ASSUME NEW g \in Gateway, NEW c \in Sockets
    PROVE  SockClosed(g, c, [g.sock EXCEPT ![c].up = "closed"])
<1> DEFINE x == g.sock[c]
           y == [x EXCEPT !.up = "closed"]
           S == [g.sock EXCEPT ![c].up = "closed"]
<1>1. g.sock \in [Sockets -> Socket] /\ x \in Socket
  BY GatewayFields
<1>2. S = [g.sock EXCEPT ![c] = y]
  BY <1>1
<1>3. /\ y \in Socket /\ y.up = "closed" /\ y.at = x.at /\ y.session = x.session
      /\ y.seq = x.seq /\ y.run = x.run /\ y.stray = x.stray /\ y.abandoned = x.abandoned
  BY <1>1, SocketFields DEF Socket
<1> HIDE DEF y, S
<1>4. SockClosed(g, c, S)
  BY <1>1, <1>2, <1>3 DEF SockClosed
<1> QED  BY <1>4 DEF S

LEMMA LeftDoes ==
    ASSUME NEW g \in Gateway, BooksOK(g), NEW c \in Sockets,
           g.sock[c].up # "closed", g.sock[c].at # "start", NEW left,
           left = IF g.sock[c].at = "joined" THEN Detach(g, c) ELSE g,
           NEW h, h = [left EXCEPT !.sock[c].up = "closed"]
    PROVE  Lessened(g, h)
<1> DEFINE r == g.sock[c].session
           S == [g.sock EXCEPT ![c].up = "closed"]
<1>a. /\ S \in [Sockets -> Socket]
      /\ \A d \in Sockets : d # c => S[d] = g.sock[d]
      /\ S[c].up = "closed" /\ S[c].at = g.sock[c].at /\ S[c].session = g.sock[c].session
      /\ S[c].seq = g.sock[c].seq /\ S[c].run = g.sock[c].run
      /\ S[c].stray = g.sock[c].stray /\ S[c].abandoned = g.sock[c].abandoned
  <2>1. SockClosed(g, c, S)
    BY ClosedSock
  <2> HIDE DEF S
  <2> QED  BY <2>1 DEF SockClosed
<1>b. \A d \in g.pending : Held(g, d)
  BY DEF BooksOK
<1>1. ASSUME NEW P, P \in SUBSET g.pending, ~Held(g, c) \/ P = g.pending,
             h = [g EXCEPT !.pending = P, !.sock = S]
      PROVE  Lessened(g, h)
  <2> HIDE DEF S
  <2>1. /\ h.remotes = g.remotes /\ h.opens = g.opens /\ h.conns = g.conns
        /\ h.channel = g.channel /\ h.handlers = g.handlers /\ h.pending = P
        /\ h.awaiting = g.awaiting /\ h.sub = g.sub /\ h.inbox = g.inbox /\ h.sock = S
    BY <1>1, GatewayFields
  <2>2. h \in Gateway
    <3>1. P \in SUBSET Sockets
      BY <1>1, GatewayFields
    <3> QED  BY <1>1, <1>a, <3>1 DEF Gateway
  <2>3. \A d \in Sockets : Held(h, d) <=> Held(g, d)
    BY <2>1 DEF Held
  <2>4. \A d \in h.pending : Held(h, d)
    BY <1>1, <1>b, <2>1, <2>3, GatewayFields
  <2>5. h.remotes \in {g.remotes, None} /\ h.pending \subseteq g.pending
    BY <1>1, <2>1
  <2>6. \A d \in Sockets :
            /\ h.sock[d].at = g.sock[d].at /\ h.sock[d].session = g.sock[d].session
            /\ h.sock[d].seq = g.sock[d].seq /\ h.sock[d].run = g.sock[d].run
            /\ h.sock[d].stray = g.sock[d].stray
            /\ h.sock[d].abandoned = g.sock[d].abandoned
            /\ h.sock[d].up = "open" => g.sock[d].up = "open"
            /\ g.sock[d].up = "closed" => h.sock[d].up = "closed"
    BY <1>a, <2>1
  <2> QED  BY <2>1, <2>2, <2>3, <2>4, <2>5, <2>6 DEF Lessened
<1>2. CASE g.sock[c].at # "joined"
  <2>1. h = [g EXCEPT !.pending = g.pending, !.sock = S]
    BY <1>2, GatewayFields
  <2> HIDE DEF S
  <2> QED  BY <1>1, <2>1
<1>3. ASSUME g.sock[c].at = "joined", c \notin g.conns[r] PROVE Lessened(g, h)
  <2>1. left = [g EXCEPT !.pending = @ \ {c}]
    BY <1>3 DEF Detach
  <2>2. h = [g EXCEPT !.pending = g.pending \ {c}, !.sock = S]
    BY <2>1, GatewayFields
  <2>3. g.pending \ {c} \in SUBSET g.pending
    OBVIOUS
  <2>4. ~Held(g, c)
    BY <1>3, HeldAt
  <2> HIDE DEF S
  <2> QED  BY <1>1, <2>2, <2>3, <2>4
<1>4. ASSUME g.sock[c].at = "joined", c \in g.conns[r] PROVE Lessened(g, h)
  <2> DEFINE C == [g.conns EXCEPT ![r] = @ \ {c}]
             I == Append(g.inbox, [t |-> "detach", c |-> c])
             k == [g EXCEPT !.conns = C, !.pending = @ \ {c}, !.inbox = I]
  <2>0. r \in Objects
    <3>1. r # None
      BY <1>4 DEF BooksOK
    <3> QED  BY <3>1, GatewayFields, SocketFields
  <2>1. left = IF k.conns[r] = {} THEN Drop(k, r) ELSE k
    <3>1. k = Send([g EXCEPT !.conns[r] = @ \ {c}, !.pending = @ \ {c}], "detach", c)
      BY GatewayFields DEF Send
    <3> HIDE DEF k
    <3> QED  BY <1>4, <3>1 DEF Detach
  <2>2. /\ C \in [Objects -> SUBSET Sockets]
        /\ \A q \in Objects : C[q] = IF q = r THEN g.conns[r] \ {c} ELSE g.conns[q]
    BY <2>0, GatewayFields
  <2>3. I \in Seq([t : {"join", "answer", "detach"}, c : Sockets])
    <3>1. [t |-> "detach", c |-> c] \in [t : {"join", "answer", "detach"}, c : Sockets]
      OBVIOUS
    <3>2. g.inbox \in Seq([t : {"join", "answer", "detach"}, c : Sockets])
      BY GatewayFields
    <3> QED  BY <3>1, <3>2
  <2> HIDE DEF C, I
  <2>4. /\ k.remotes = g.remotes /\ k.opens = g.opens /\ k.conns = C
        /\ k.pending = g.pending \ {c} /\ k.channel = g.channel /\ k.handlers = g.handlers
        /\ k.awaiting = g.awaiting /\ k.sub = g.sub /\ k.inbox = I /\ k.sock = g.sock
    BY GatewayFields
  <2>5. k \in Gateway
    BY <2>2, <2>3, GatewayFields DEF Gateway
  <2>6. ~k.channel => k.handlers = {} /\ k.awaiting = {}
    BY <2>4 DEF BooksOK
  <2> HIDE DEF k
  <2>b. ASSUME k.conns[r] = {} PROVE Dropped(k, r, left)
    BY <2>0, <2>1, <2>5, <2>6, <2>b, DropDoes
  <2>7. left \in Gateway
    BY <2>1, <2>5, <2>b DEF Dropped
  <2>8. /\ left.remotes \in {g.remotes, None} /\ left.opens = g.opens /\ left.conns = C
        /\ left.inbox = I /\ left.sock = g.sock /\ left.pending \subseteq g.pending \ {c}
    BY <2>1, <2>4, <2>b DEF Dropped
  <2>9. /\ left.handlers \subseteq g.handlers
        /\ \A q \in Objects : q \in g.handlers => q \in left.handlers \/ left.conns[q] = {}
        /\ \/ left.awaiting = g.awaiting /\ left.channel = g.channel /\ left.sub = g.sub
           \/ /\ left.handlers = {} /\ left.awaiting = {} /\ left.channel = FALSE
              /\ left.sub = Append(g.sub, [t |-> "unsub", r |-> r])
    <3>1. CASE k.conns[r] # {}
      BY <2>1, <2>4, <3>1
    <3>2. CASE k.conns[r] = {}
      BY <2>4, <2>b, <3>2 DEF Dropped
    <3> QED  BY <3>1, <3>2
  <2>10. /\ h.remotes = left.remotes /\ h.opens = left.opens /\ h.conns = left.conns
         /\ h.pending = left.pending /\ h.channel = left.channel /\ h.handlers = left.handlers
         /\ h.awaiting = left.awaiting /\ h.sub = left.sub /\ h.inbox = left.inbox
         /\ h.sock = S /\ h = [left EXCEPT !.sock = S]
    BY <2>7, <2>8, GatewayFields
  <2> HIDE DEF S
  <2>11. h \in Gateway
    BY <1>a, <2>7, <2>10 DEF Gateway
  <2>12. /\ Held(g, c) /\ ~Held(h, c)
         /\ \A d \in Sockets : d # c /\ Held(g, d) => Held(h, d)
    <3>1. \A q \in Objects : h.conns[q] = IF q = r THEN g.conns[r] \ {c} ELSE g.conns[q]
      BY <2>2, <2>8, <2>10, SMTT(30)
    <3>2. \A q \in Objects : c \in g.conns[q] => q = r
      BY DEF BooksOK
    <3>3. c \notin UNION {h.conns[q] : q \in Objects}
      BY <3>1, <3>2
    <3>4. \A d \in Sockets, q \in Objects : d # c => (d \in h.conns[q] <=> d \in g.conns[q])
      BY <3>1
    <3> QED  BY <1>4, <2>0, <3>3, <3>4 DEF Held
  <2>13. \A d \in h.pending : Held(h, d)
    <3>1. \A d \in h.pending : d \in g.pending /\ d # c /\ d \in Sockets
      BY <2>8, <2>10, GatewayFields
    <3> QED  BY <1>b, <2>12, <3>1
  <2>14. h.inbox = Append(g.inbox, [t |-> "detach", c |-> c])
    BY <2>8, <2>10 DEF I
  <2>15. \A d \in Sockets :
            /\ h.sock[d].at = g.sock[d].at /\ h.sock[d].session = g.sock[d].session
            /\ h.sock[d].seq = g.sock[d].seq /\ h.sock[d].run = g.sock[d].run
            /\ h.sock[d].stray = g.sock[d].stray
            /\ h.sock[d].abandoned = g.sock[d].abandoned
            /\ h.sock[d].up = "open" => g.sock[d].up = "open"
            /\ g.sock[d].up = "closed" => h.sock[d].up = "closed"
            /\ Held(g, d) => Held(h, d) \/ (d = c /\ h.sock[d].up # "open")
    <3>0. h.sock[c].up = "closed"
      BY <1>a, <2>10
    <3>1. \A d \in Sockets : d # c => h.sock[d] = g.sock[d]
      BY <1>a, <2>10
    <3>2. \A d \in Sockets :
            /\ h.sock[d].at = g.sock[d].at /\ h.sock[d].session = g.sock[d].session
            /\ h.sock[d].seq = g.sock[d].seq /\ h.sock[d].run = g.sock[d].run
            /\ h.sock[d].stray = g.sock[d].stray
            /\ h.sock[d].abandoned = g.sock[d].abandoned
      BY <1>a, <2>10
    <3>3. \A d \in Sockets : Held(g, d) => Held(h, d) \/ (d = c /\ h.sock[d].up # "open")
      BY <2>12, <3>0
    <3>4. \A d \in Sockets : /\ h.sock[d].up = "open" => g.sock[d].up = "open"
                             /\ g.sock[d].up = "closed" => h.sock[d].up = "closed"
      BY <3>0, <3>1
    <3> QED  BY <3>2, <3>3, <3>4
  <2>16. \A q \in Objects : h.conns[q] \subseteq g.conns[q]
    BY <2>2, <2>8, <2>10
  <2>17. /\ h.opens = g.opens /\ h.remotes \in {g.remotes, None} /\ h.pending \subseteq g.pending
         /\ h.handlers \subseteq g.handlers
         /\ \A q \in Objects : q \in g.handlers => q \in h.handlers \/ h.conns[q] = {}
         /\ \/ h.awaiting = g.awaiting /\ h.channel = g.channel /\ h.sub = g.sub
            \/ /\ h.handlers = {} /\ h.awaiting = {} /\ h.channel = FALSE
               /\ h.sub = Append(g.sub, [t |-> "unsub", r |-> r])
    BY <2>8, <2>9, <2>10
  <2> HIDE DEF r
  <2> QED  BY <2>0, <2>11, <2>12, <2>13, <2>14, <2>15, <2>16, <2>17, ZenonT(30) DEF Lessened
<1> QED  BY <1>2, <1>3, <1>4

LEMMA OwnerDeadDoes ==
    ASSUME NEW g \in Gateway, BooksOK(g), NEW c \in g.pending, NEW h, h = OwnerDead(g, c)
    PROVE  Lessened(g, h)
<1> DEFINE r == g.sock[c].session
           k == Drop(g, r)
           S == [d \in Sockets |->
                    IF d \notin g.conns[r] THEN g.sock[d]
                    ELSE [g.sock[d] EXCEPT !.abandoned = TRUE,
                                           !.up = IF @ = "open" THEN "closing" ELSE @]]
<1>1. c \in Sockets /\ r \in Objects
  <2>1. c \in Sockets /\ Held(g, c)
    BY GatewayFields DEF BooksOK
  <2> QED  BY <2>1, HeldAt
<1>2. Dropped(g, r, k)
  <2>1. ~g.channel => g.handlers = {} /\ g.awaiting = {}
    BY DEF BooksOK
  <2> HIDE DEF r
  <2> QED  BY <1>1, <2>1, DropDoes
<1>3. h = [k EXCEPT !.conns[r] = {}, !.sock = S]
  BY DEF OwnerDead
<1>4. ASSUME NEW d \in Sockets
      PROVE  /\ S[d] \in Socket
             /\ S[d].at = g.sock[d].at /\ S[d].session = g.sock[d].session
             /\ S[d].seq = g.sock[d].seq /\ S[d].run = g.sock[d].run
             /\ S[d].stray = g.sock[d].stray
             /\ g.sock[d].abandoned = TRUE => S[d].abandoned = TRUE
             /\ S[d].up = "open" => g.sock[d].up = "open"
             /\ g.sock[d].up = "closed" => S[d].up = "closed"
             /\ d \in g.conns[r] => S[d].abandoned = TRUE /\ S[d].up # "open"
  <2> DEFINE x == g.sock[d]
             y == [x EXCEPT !.abandoned = TRUE, !.up = IF @ = "open" THEN "closing" ELSE @]
  <2>1. x \in Socket
    BY GatewayFields
  <2>2. /\ y \in Socket /\ y.at = x.at /\ y.session = x.session /\ y.seq = x.seq
        /\ y.run = x.run /\ y.stray = x.stray /\ y.abandoned = TRUE
        /\ y.up = IF x.up = "open" THEN "closing" ELSE x.up
    BY <2>1, SocketFields DEF Socket
  <2>3. S[d] = IF d \notin g.conns[r] THEN x ELSE y
    OBVIOUS
  <2> HIDE DEF y, S, r
  <2> QED  BY <2>1, <2>2, <2>3
<1>5. S \in [Sockets -> Socket]
  BY <1>4
<1> HIDE DEF S, k, r
<1>6. k \in Gateway
  BY <1>2 DEF Dropped
<1>7. /\ h.remotes = k.remotes /\ h.opens = k.opens /\ h.conns = [k.conns EXCEPT ![r] = {}]
      /\ h.pending = k.pending /\ h.channel = k.channel /\ h.handlers = k.handlers
      /\ h.awaiting = k.awaiting /\ h.sub = k.sub /\ h.inbox = k.inbox /\ h.sock = S
  BY <1>3, <1>6, GatewayFields
<1>8. /\ h.conns \in [Objects -> SUBSET Sockets]
      /\ \A q \in Objects : h.conns[q] = IF q = r THEN {} ELSE g.conns[q]
  BY <1>1, <1>2, <1>7, GatewayFields DEF Dropped
<1>9. h \in Gateway
  <2>1. h = [k EXCEPT !.conns = h.conns, !.sock = S]
    BY <1>3, <1>6, GatewayFields
  <2> QED  BY <1>5, <1>6, <1>8, <2>1 DEF Gateway
<1>10. \A d \in Sockets : Held(g, d) => Held(h, d) \/ d \in g.conns[r]
  BY <1>8 DEF Held
<1>11. \A d \in h.pending : Held(h, d)
  <2>1. \A d \in h.pending : d \in g.pending /\ d \notin g.conns[r] /\ d \in Sockets
    BY <1>2, <1>7, GatewayFields DEF Dropped
  <2>2. \A d \in g.pending : Held(g, d)
    BY DEF BooksOK
  <2> QED  BY <1>10, <2>1, <2>2
<1>12. \A q \in Objects : h.conns[q] \subseteq g.conns[q]
  BY <1>8
<1>13. /\ h.opens = g.opens /\ h.remotes \in {g.remotes, None} /\ h.pending \subseteq g.pending
       /\ h.handlers \subseteq g.handlers /\ h.inbox = g.inbox
       /\ \A q \in Objects : q \in g.handlers => q \in h.handlers \/ h.conns[q] = {}
       /\ \/ h.awaiting = g.awaiting /\ h.channel = g.channel /\ h.sub = g.sub
          \/ /\ h.handlers = {} /\ h.awaiting = {} /\ h.channel = FALSE
             /\ h.sub = Append(g.sub, [t |-> "unsub", r |-> r])
  BY <1>2, <1>7, <1>8 DEF Dropped
<1>14. \A d \in Sockets :
          /\ h.sock[d].at = g.sock[d].at /\ h.sock[d].session = g.sock[d].session
          /\ h.sock[d].seq = g.sock[d].seq /\ h.sock[d].run = g.sock[d].run
          /\ h.sock[d].stray = g.sock[d].stray
          /\ g.sock[d].abandoned = TRUE => h.sock[d].abandoned = TRUE
          /\ h.sock[d].up = "open" => g.sock[d].up = "open"
          /\ g.sock[d].up = "closed" => h.sock[d].up = "closed"
          /\ Held(g, d) => Held(h, d) \/ (h.sock[d].abandoned = TRUE /\ h.sock[d].up # "open")
  BY <1>4, <1>7, <1>10
<1> QED  BY <1>1, <1>9, <1>11, <1>12, <1>13, <1>14 DEF Lessened

\* The join of c looks the session up, or asks for its channel.
Looking(g, h, c) ==
    /\ h.sock[c].at \in {"lookup", "opening"} /\ h.sock[c].up = g.sock[c].up
    /\ h.sock[c].seq = g.sock[c].seq /\ h.sock[c].run = g.sock[c].run
    /\ h.sock[c].stray = g.sock[c].stray /\ h.sock[c].abandoned = g.sock[c].abandoned
    /\ \A d \in Sockets : d # c => h.sock[d] = g.sock[d]

LEMMA LookupDoes ==
    ASSUME NEW g \in Gateway, BooksOK(g), NEW c \in Sockets, g.sock[c].at = "start",
           NEW h, h = [g EXCEPT !.sock[c].at = "lookup"]
    PROVE  /\ h \in Gateway /\ BooksOK(h) /\ GatewayStep(g, h)
           /\ h.sub = g.sub /\ h.channel = g.channel
           /\ Looking(g, h, c)
<1> DEFINE x == g.sock[c]
           y == [x EXCEPT !.at = "lookup"]
<1>1. x \in Socket /\ x.at = "start"
  BY GatewayFields
<1>2. /\ y \in Socket /\ y.at = "lookup" /\ y.session = x.session /\ y.up = x.up
      /\ y.seq = x.seq /\ y.run = x.run /\ y.stray = x.stray /\ y.abandoned = x.abandoned
  BY <1>1, SocketFields DEF Socket
<1>3. h = [g EXCEPT !.sock = [g.sock EXCEPT ![c] = y]]
  BY GatewayFields
<1> HIDE DEF y
<1>4. /\ h.remotes = g.remotes /\ h.opens = g.opens /\ h.conns = g.conns
      /\ h.pending = g.pending /\ h.channel = g.channel /\ h.handlers = g.handlers
      /\ h.awaiting = g.awaiting /\ h.sub = g.sub /\ h.inbox = g.inbox
      /\ h.sock = [g.sock EXCEPT ![c] = y]
  BY <1>3, GatewayFields
<1>5. /\ h.sock \in [Sockets -> Socket] /\ h.sock[c] = y
      /\ \A d \in Sockets : d # c => h.sock[d] = g.sock[d]
  <2>1. g.sock \in [Sockets -> Socket]
    BY GatewayFields
  <2> QED  BY <1>2, <1>4, <2>1
<1>6. h \in Gateway
  <2>1. h = [g EXCEPT !.sock = h.sock]
    BY <1>3, <1>4
  <2> QED  BY <1>5, <2>1 DEF Gateway
<1>7. \A d \in Sockets : Held(h, d) <=> Held(g, d)
  BY <1>4 DEF Held
<1> HIDE DEF x
<1>8. BooksOK(h)
  <2>1. ASSUME NEW q \in Objects, NEW d \in h.conns[q]
        PROVE  h.sock[d].at = "joined" /\ h.sock[d].session = q
    <3>1. d \in g.conns[q] /\ d \in Sockets /\ g.sock[d].at = "joined" /\ g.sock[d].session = q
      BY <1>4, GatewayFields DEF BooksOK
    <3>2. d # c
      BY <3>1
    <3> QED  BY <1>5, <3>1, <3>2
  <2>2. \A d \in h.pending : Held(h, d)
    BY <1>4, <1>7, GatewayFields DEF BooksOK
  <2>3. \A d \in Sockets : /\ h.sock[d].session = g.sock[d].session
                           /\ h.sock[d].up = g.sock[d].up
                           /\ \/ h.sock[d].at = g.sock[d].at
                              \/ h.sock[d].at = "lookup" /\ g.sock[d].at = "start"
    BY <1>1, <1>2, <1>5 DEF x
  <2>4. \A d, e \in Sockets : h.sock[d].at = "opening" /\ h.sock[e].at = "opening"
                             /\ h.sock[d].session = h.sock[e].session => d = e
    BY <2>3 DEF BooksOK
  <2>5. ASSUME NEW d \in Sockets
        PROVE  /\ h.sock[d].at \in {"start", "lookup"} => h.sock[d].session = None
               /\ h.sock[d].session # None => h.sock[d].session <= h.opens
               /\ h.sock[d].at = "opening" =>
                     /\ h.sock[d].session # None /\ h.sock[d].session # h.remotes
                     /\ h.sock[d].session \notin h.handlers /\ h.conns[h.sock[d].session] = {}
               /\ h.sock[d].at = "joined" /\ h.sock[d].session # None /\ h.sock[d].up = "open"
                     => d \in h.conns[h.sock[d].session]
               /\ h.sock[d].at = "joined" /\ h.sock[d].session = None => h.sock[d].up = "closed"
    <3>1. /\ g.sock[d].at \in {"start", "lookup"} => g.sock[d].session = None
          /\ g.sock[d].session # None => g.sock[d].session <= g.opens
          /\ g.sock[d].at = "opening" =>
                /\ g.sock[d].session # None /\ g.sock[d].session # g.remotes
                /\ g.sock[d].session \notin g.handlers /\ g.conns[g.sock[d].session] = {}
          /\ g.sock[d].at = "joined" /\ g.sock[d].session # None /\ g.sock[d].up = "open"
                => d \in g.conns[g.sock[d].session]
          /\ g.sock[d].at = "joined" /\ g.sock[d].session = None => g.sock[d].up = "closed"
      BY DEF BooksOK
    <3> QED  BY <1>4, <2>3, <3>1
  <2>6. \A q \in h.handlers \cup h.awaiting \cup {h.remotes} : q # None => q <= h.opens
    BY <1>4 DEF BooksOK
  <2>7. ~h.channel => h.handlers = {} /\ h.awaiting = {}
    BY <1>4 DEF BooksOK
  <2> QED  BY <2>1, <2>2, <2>4, <2>5, <2>6, <2>7 DEF BooksOK
<1>9. GatewayStep(g, h)
  BY <1>1, <1>2, <1>4, <1>5, <1>7, SMTT(30) DEF GatewayStep, x
<1> QED  BY <1>2, <1>4, <1>5, <1>6, <1>8, <1>9 DEF Looking, x

LEMMA AskDoes ==
    ASSUME NEW g \in Gateway, BooksOK(g), NEW c \in Sockets, g.sock[c].at = "lookup",
           g.remotes = None, g.channel = FALSE, g.opens < MaxOpens,
           NEW h, h = OpenRemote(g, c)
    PROVE  /\ h \in Gateway /\ BooksOK(h) /\ GatewayStep(g, h)
           /\ h.sub = Append(g.sub, [t |-> "sub", r |-> g.opens + 1]) /\ h.channel = TRUE
           /\ g.opens + 1 \in Objects
           /\ h.sock[c].at = "opening" /\ h.sock[c].session = g.opens + 1
           /\ Looking(g, h, c)
<1> DEFINE x == g.sock[c]
           r == g.opens + 1
           y == [x EXCEPT !.at = "opening", !.session = r]
<1>0. r \in Objects /\ g.opens \in Nat /\ r \in Nat /\ r # None
  BY GatewayFields, RemoteAssumption DEF Objects
<1>1. x \in Socket /\ x.at = "lookup"
  BY GatewayFields
<1>2. /\ y \in Socket /\ y.at = "opening" /\ y.session = r /\ y.up = x.up
      /\ y.seq = x.seq /\ y.run = x.run /\ y.stray = x.stray /\ y.abandoned = x.abandoned
  BY <1>0, <1>1, SocketFields DEF Socket
<1>3. h = [g EXCEPT !.opens = r, !.channel = TRUE, !.awaiting = {r},
                    !.sub = Append(@, [t |-> "sub", r |-> r]),
                    !.sock[c].at = "opening", !.sock[c].session = r]
  BY DEF OpenRemote
<1>4. /\ h.remotes = None /\ h.opens = r /\ h.conns = g.conns
      /\ h.pending = g.pending /\ h.channel = TRUE /\ h.handlers = g.handlers
      /\ h.awaiting = {r} /\ h.inbox = g.inbox
      /\ h.sub = Append(g.sub, [t |-> "sub", r |-> r])
  BY <1>3, GatewayFields
<1>5. h.sock = [g.sock EXCEPT ![c] = y]
  <2>1. h.sock = [g.sock EXCEPT ![c].at = "opening", ![c].session = r]
    BY <1>3, GatewayFields
  <2> QED  BY <2>1, GatewayFields
<1> HIDE DEF y
<1>6. /\ h.sock \in [Sockets -> Socket] /\ h.sock[c] = y
      /\ \A d \in Sockets : d # c => h.sock[d] = g.sock[d]
  BY <1>2, <1>5, GatewayFields
<1>7. h \in Gateway
  <2> DEFINE T == Append(g.sub, [t |-> "sub", r |-> r])
  <2>1. h = [g EXCEPT !.opens = r, !.channel = TRUE, !.awaiting = {r},
                      !.sub = T, !.sock = h.sock]
    BY <1>3, <1>4, GatewayFields
  <2>2. T \in Seq([t : {"sub", "unsub"}, r : Objects])
    <3>1. [t |-> "sub", r |-> r] \in [t : {"sub", "unsub"}, r : Objects]
      BY <1>0
    <3>2. g.sub \in Seq([t : {"sub", "unsub"}, r : Objects])
      BY GatewayFields
    <3> QED  BY <3>1, <3>2
  <2>3. r \in 0..MaxOpens
    BY <1>0 DEF Objects
  <2>4. {r} \in SUBSET Objects
    BY <1>0
  <2>5. h.sock \in [Sockets -> Socket]
    BY <1>6
  <2> HIDE DEF T, r
  <2> QED  BY <2>1, <2>2, <2>3, <2>4, <2>5 DEF Gateway
<1>8. \A d \in Sockets : Held(h, d) <=> Held(g, d)
  BY <1>4 DEF Held
<1>9. g.handlers = {} /\ g.awaiting = {}
  BY DEF BooksOK
<1>10. \A d \in Sockets : g.sock[d].session # None =>
            g.sock[d].session \in Nat /\ g.sock[d].session <= g.opens
  <2>1. ASSUME NEW d \in Sockets, g.sock[d].session # None PROVE g.sock[d].session \in Objects
    BY <2>1, GatewayFields, SocketFields
  <2> QED  BY <2>1, Objects1 DEF BooksOK
<1>11. \A d \in Sockets : g.sock[d].session # None =>
            g.sock[d].session <= r /\ g.sock[d].session # r
  BY <1>0, <1>10
<1>12. g.conns[r] = {}
  <2>1. ASSUME NEW d \in g.conns[r] PROVE FALSE
    <3>1. d \in Sockets /\ g.sock[d].session = r
      BY <1>0, GatewayFields DEF BooksOK
    <3> QED  BY <1>0, <1>11, <3>1
  <2> QED  BY <2>1
<1>13. r <= r
  BY <1>0
<1> HIDE DEF r, x
<1>14. BooksOK(h)
  <2>1. ASSUME NEW q \in Objects, NEW d \in h.conns[q]
        PROVE  h.sock[d].at = "joined" /\ h.sock[d].session = q
    <3>1. d \in g.conns[q] /\ d \in Sockets /\ g.sock[d].at = "joined" /\ g.sock[d].session = q
      BY <1>4, GatewayFields DEF BooksOK
    <3>2. d # c
      BY <3>1
    <3> QED  BY <1>6, <3>1, <3>2
  <2>2. \A d \in h.pending : Held(h, d)
    BY <1>4, <1>8, GatewayFields DEF BooksOK
  <2>3. ASSUME NEW d \in Sockets, d # c
        PROVE  /\ h.sock[d].at \in {"start", "lookup"} => h.sock[d].session = None
               /\ h.sock[d].session # None => h.sock[d].session <= h.opens
               /\ h.sock[d].at = "opening" =>
                     /\ h.sock[d].session # None /\ h.sock[d].session # h.remotes
                     /\ h.sock[d].session \notin h.handlers /\ h.conns[h.sock[d].session] = {}
               /\ h.sock[d].at = "joined" /\ h.sock[d].session # None /\ h.sock[d].up = "open"
                     => d \in h.conns[h.sock[d].session]
               /\ h.sock[d].at = "joined" /\ h.sock[d].session = None => h.sock[d].up = "closed"
    <3>1. h.sock[d] = g.sock[d]
      BY <1>6, <2>3
    <3> QED  BY <1>4, <1>9, <1>11, <3>1 DEF BooksOK
  <2>4. \A d, e \in Sockets : h.sock[d].at = "opening" /\ h.sock[e].at = "opening"
                             /\ h.sock[d].session = h.sock[e].session => d = e
    <3>1. \A d \in Sockets : d # c /\ g.sock[d].at = "opening" => g.sock[d].session # r
      BY <1>11 DEF BooksOK
    <3> QED  BY <1>2, <1>6, <3>1 DEF BooksOK
  <2>5. /\ h.sock[c].at = "opening" /\ h.sock[c].session = r /\ r # None /\ r # h.remotes
        /\ r \notin h.handlers /\ h.conns[r] = {} /\ r <= h.opens
    BY <1>0, <1>2, <1>4, <1>6, <1>9, <1>12, <1>13
  <2>6. ASSUME NEW d \in Sockets
        PROVE  /\ h.sock[d].at \in {"start", "lookup"} => h.sock[d].session = None
               /\ h.sock[d].session # None => h.sock[d].session <= h.opens
               /\ h.sock[d].at = "opening" =>
                     /\ h.sock[d].session # None /\ h.sock[d].session # h.remotes
                     /\ h.sock[d].session \notin h.handlers /\ h.conns[h.sock[d].session] = {}
               /\ h.sock[d].at = "joined" /\ h.sock[d].session # None /\ h.sock[d].up = "open"
                     => d \in h.conns[h.sock[d].session]
               /\ h.sock[d].at = "joined" /\ h.sock[d].session = None => h.sock[d].up = "closed"
    <3>1. CASE d = c
      BY <2>5, <3>1
    <3>2. CASE d # c
      BY <2>3, <3>2
    <3> QED  BY <3>1, <3>2
  <2>7. \A q \in h.handlers \cup h.awaiting \cup {h.remotes} : q # None => q <= h.opens
    BY <1>4, <1>9, <1>13
  <2>8. ~h.channel => h.handlers = {} /\ h.awaiting = {}
    BY <1>4
  <2> QED  BY <2>1, <2>2, <2>4, <2>6, <2>7, <2>8 DEF BooksOK
<1>15. GatewayStep(g, h)
  BY <1>1, <1>2, <1>4, <1>6, <1>8, <1>9 DEF GatewayStep, x
<1> QED  BY <1>0, <1>2, <1>4, <1>6, <1>7, <1>14, <1>15 DEF Looking, x, r

-----------------------------------------------------------------------------
\* What is on its way to the gateway.
LEMMA ToGatewayTyped ==
    ASSUME StateTyped
    PROVE  /\ Len(toGateway) \in Nat /\ DOMAIN toGateway = 1..Len(toGateway)
           /\ \A i \in DOMAIN toGateway :
                 \/ toGateway[i].t = "opened" /\ toGateway[i].r \in Objects
                 \/ toGateway[i].t = "batch" /\ toGateway[i].frames \in Batches
<1> DEFINE Notices == [t : {"opened"}, r : Objects]
           Messages == [t : {"batch"}, frames : Batches]
<1>1. toGateway \in Seq(Notices \cup Messages)
  BY DEF StateTyped
<1>2. /\ \A m \in Notices : m.t = "opened" /\ m.r \in Objects
      /\ \A m \in Messages : m.t = "batch" /\ m.frames \in Batches
  OBVIOUS
<1> HIDE DEF Notices, Messages
<1>3. \A i \in 1..Len(toGateway) : toGateway[i] \in Notices \cup Messages
  BY <1>1
<1> QED  BY <1>1, <1>2, <1>3

\* What a step of the gateway leaves of the subscriptions.
LEMMA SubsKept ==
    ASSUME StateTyped, SubsOK, gw' \in Gateway, heard' = heard, toGateway' = toGateway,
           \A r \in Objects : Opening(gw, r) => Opening(gw', r),
           \/ gw'.sub = gw.sub /\ gw'.channel = gw.channel
           \/ \E r \in Objects : /\ gw'.sub = Append(gw.sub, [t |-> "unsub", r |-> r])
                                 /\ gw'.channel = FALSE
           \/ \E r \in Objects : /\ gw'.sub = Append(gw.sub, [t |-> "sub", r |-> r])
                                 /\ gw'.channel = TRUE
                                 /\ Opening(gw', r) /\ ~Opening(gw, r)
    PROVE  SubsOK'
<1>0. /\ gw.sub \in Seq([t : {"sub", "unsub"}, r : Objects])
      /\ \A i \in DOMAIN gw.sub : gw.sub[i].r \in Objects
      /\ \A i \in DOMAIN toGateway : toGateway[i].t = "opened" => toGateway[i].r \in Objects
  <2>1. gw.sub \in Seq([t : {"sub", "unsub"}, r : Objects])
    BY GatewayFields DEF StateTyped
  <2>2. \A R, s : s \in Seq(R) => \A i \in DOMAIN s : s[i] \in R
    OBVIOUS
  <2>3. \A i \in DOMAIN gw.sub : gw.sub[i] \in [t : {"sub", "unsub"}, r : Objects]
    BY <2>1, <2>2
  <2>4. \A m \in [t : {"sub", "unsub"}, r : Objects] : m.r \in Objects
    OBVIOUS
  <2> QED  BY <2>1, <2>3, <2>4, ToGatewayTyped
<1>1. ASSUME gw'.sub = gw.sub /\ gw'.channel = gw.channel PROVE SubsOK'
  BY <1>0, <1>1 DEF SubsOK
<1>2. ASSUME NEW m \in [t : {"sub", "unsub"}, r : Objects], gw'.sub = Append(gw.sub, m),
             gw'.channel <=> m.t = "sub",
             m.t = "sub" => Opening(gw', m.r) /\ ~Opening(gw, m.r)
      PROVE  SubsOK'
  <2>1. /\ DOMAIN gw'.sub = 1..(Len(gw.sub) + 1) /\ Len(gw'.sub) = Len(gw.sub) + 1
        /\ gw'.sub[Len(gw.sub) + 1] = m /\ Len(gw.sub) \in Nat /\ gw'.sub # <<>>
        /\ DOMAIN gw.sub = 1..Len(gw.sub)
        /\ \A i \in 1..Len(gw.sub) : gw'.sub[i] = gw.sub[i]
    BY <1>0, <1>2
  <2>2. \A i \in DOMAIN gw'.sub : i \in DOMAIN gw.sub \/ i = Len(gw.sub) + 1
    BY <2>1
  <2>3. \A i \in DOMAIN gw.sub : gw.sub[i].t = "sub" => Opening(gw, gw.sub[i].r)
    BY DEF SubsOK
  <2>4. \A i \in DOMAIN toGateway : toGateway[i].t = "opened" => Opening(gw, toGateway[i].r)
    BY DEF SubsOK
  <2>5. \A i \in DOMAIN gw'.sub : gw'.sub[i].t = "sub" => Opening(gw', gw'.sub[i].r)
    BY <1>0, <1>2, <2>1, <2>2, <2>3
  <2>6. \A i \in DOMAIN toGateway : toGateway[i].t = "opened" => Opening(gw', toGateway[i].r)
    BY <1>0, <2>4
  <2>7. ASSUME NEW i \in DOMAIN gw'.sub, NEW j \in DOMAIN gw'.sub,
               gw'.sub[i].t = "sub", gw'.sub[j].t = "sub", gw'.sub[i].r = gw'.sub[j].r
        PROVE  i = j
    <3>1. CASE i \in DOMAIN gw.sub /\ j \in DOMAIN gw.sub
      BY <2>1, <2>7, <3>1, SMTT(30) DEF SubsOK
    <3>2. CASE i = Len(gw.sub) + 1 /\ j \in DOMAIN gw.sub
      BY <1>2, <2>1, <2>3, <2>7, <3>2
    <3>3. CASE i \in DOMAIN gw.sub /\ j = Len(gw.sub) + 1
      BY <1>2, <2>1, <2>3, <2>7, <3>3
    <3> QED  BY <2>2, <3>1, <3>2, <3>3
  <2>8. ASSUME NEW i \in DOMAIN gw'.sub, NEW j \in DOMAIN toGateway,
               gw'.sub[i].t = "sub", toGateway[j].t = "opened"
        PROVE  gw'.sub[i].r # toGateway[j].r
    <3>1. CASE i \in DOMAIN gw.sub
      BY <2>1, <2>8, <3>1 DEF SubsOK
    <3>2. CASE i = Len(gw.sub) + 1
      BY <1>2, <2>1, <2>4, <2>8, <3>2
    <3> QED  BY <2>2, <3>1, <3>2
  <2>9. \A i, j \in DOMAIN toGateway :
          toGateway[i].t = "opened" /\ toGateway[j].t = "opened"
          /\ toGateway[i].r = toGateway[j].r => i = j
    BY DEF SubsOK
  <2>10. IF gw'.sub = <<>> THEN heard' = gw'.channel
         ELSE gw'.channel <=> gw'.sub[Len(gw'.sub)].t = "sub"
    BY <1>2, <2>1
  <2> QED  BY <2>5, <2>6, <2>7, <2>8, <2>9, <2>10 DEF SubsOK
<1>3. ASSUME NEW r \in Objects, gw'.sub = Append(gw.sub, [t |-> "unsub", r |-> r]),
             gw'.channel = FALSE
      PROVE  SubsOK'
  <2> DEFINE m == [t |-> "unsub", r |-> r]
  <2>1. m \in [t : {"sub", "unsub"}, r : Objects] /\ m.t # "sub" /\ gw'.sub = Append(gw.sub, m)
    BY <1>3
  <2> HIDE DEF m
  <2> QED  BY <1>2, <1>3, <2>1
<1>4. ASSUME NEW r \in Objects, gw'.sub = Append(gw.sub, [t |-> "sub", r |-> r]),
             gw'.channel = TRUE, Opening(gw', r), ~Opening(gw, r)
      PROVE  SubsOK'
  <2> DEFINE m == [t |-> "sub", r |-> r]
  <2>1. /\ m \in [t : {"sub", "unsub"}, r : Objects] /\ m.t = "sub" /\ m.r = r
        /\ gw'.sub = Append(gw.sub, m)
    BY <1>4
  <2> HIDE DEF m
  <2> QED  BY <1>2, <1>4, <2>1
<1> QED  BY <1>1, <1>3, <1>4

\* ... and of the inbox.
LEMMA InboxStep ==
    ASSUME StateTyped, BooksOK(gw), InboxOK, gw' \in Gateway, BooksOK(gw'),
           GatewayStep(gw, gw'), owner' = owner
    PROVE  /\ InboxOK'
           /\ \A c \in Sockets : Answered(c)' <=> Answered(c)
<1> DEFINE Messages == [t : {"join", "answer", "detach"}, c : Sockets]
<1>0. /\ gw \in Gateway /\ gw.inbox \in Seq(Messages) /\ gw'.inbox \in Seq(Messages)
      /\ owner.attached \in SUBSET Sockets
  BY GatewayFields DEF StateTyped, Owners
<1>1. ASSUME NEW c \in Sockets
      PROVE  /\ gw.sock[c].abandoned = TRUE => gw'.sock[c].abandoned = TRUE
             /\ gw.sock[c].at = "joined" => /\ gw'.sock[c].at = "joined"
                                            /\ gw'.sock[c].session = gw.sock[c].session
             /\ gw.sock[c].at # "joined" /\ gw'.sock[c].at = "joined"
                /\ gw'.sock[c].session # None =>
                  gw'.inbox = Append(gw.inbox, [t |-> "join", c |-> c])
             /\ Held(gw, c) => \/ Held(gw', c) \/ gw'.sock[c].abandoned = TRUE
                               \/ gw'.inbox = Append(gw.inbox, [t |-> "detach", c |-> c])
             /\ Held(gw', c) => Held(gw, c) \/ gw.sock[c].at # "joined"
  BY DEF GatewayStep
<1> DEFINE L == Len(gw.inbox)
           Tells(m) == /\ m \in Messages
                       /\ m.t = "join" => gw.sock[m.c].at # "joined" /\ Held(gw', m.c)
                       /\ m.t = "detach" => Held(gw, m.c) /\ ~Held(gw', m.c)
<1>2. gw'.inbox = gw.inbox \/ \E m : Tells(m) /\ gw'.inbox = Append(gw.inbox, m)
  <2>1. ASSUME NEW c \in Sockets, gw.sock[c].at # "joined", Held(gw', c)
        PROVE  Tells([t |-> "join", c |-> c])
    BY <2>1
  <2>2. ASSUME NEW c \in Sockets, Held(gw, c), ~Held(gw', c)
        PROVE  Tells([t |-> "detach", c |-> c])
    BY <2>2
  <2>3. ASSUME NEW c \in Sockets PROVE Tells([t |-> "answer", c |-> c])
    OBVIOUS
  <2> HIDE DEF Tells
  <2> QED  BY <2>1, <2>2, <2>3 DEF GatewayStep
<1>3. DOMAIN gw.inbox = 1..L /\ L \in Nat
  BY <1>0
<1>4. ASSUME NEW m \in Messages, gw'.inbox = Append(gw.inbox, m)
      PROVE  /\ DOMAIN gw'.inbox = 1..(L + 1) /\ gw'.inbox[L + 1] = m
             /\ \A i \in 1..L : gw'.inbox[i] = gw.inbox[i]
  BY <1>0, <1>4
<1>5. \A i \in DOMAIN gw.inbox : /\ i \in DOMAIN gw'.inbox /\ gw'.inbox[i] = gw.inbox[i]
                                 /\ gw.inbox[i] \in Messages
  <2> HIDE DEF L, Messages
  <2>1. \A i \in DOMAIN gw.inbox : gw.inbox[i] \in Messages
    BY <1>0
  <2>2. CASE gw'.inbox = gw.inbox
    BY <2>1, <2>2
  <2>3. CASE \E m : Tells(m) /\ gw'.inbox = Append(gw.inbox, m)
    <3>1. DOMAIN gw'.inbox = 1..(L + 1) /\ \A i \in 1..L : gw'.inbox[i] = gw.inbox[i]
      BY <1>4, <2>3
    <3> QED  BY <1>3, <2>1, <3>1
  <2> QED  BY <1>2, <2>2, <2>3
<1>6. \A i \in DOMAIN gw'.inbox : \/ i \in DOMAIN gw.inbox
                                  \/ i = L + 1 /\ Tells(gw'.inbox[i])
  <2> HIDE DEF L, Messages, Tells
  <2>1. CASE gw'.inbox = gw.inbox
    BY <2>1
  <2>2. ASSUME NEW m, Tells(m), gw'.inbox = Append(gw.inbox, m)
        PROVE  \A i \in DOMAIN gw'.inbox : \/ i \in DOMAIN gw.inbox
                                           \/ i = L + 1 /\ Tells(gw'.inbox[i])
    <3>1. m \in Messages
      BY <2>2 DEF Tells
    <3>2. DOMAIN gw'.inbox = 1..(L + 1) /\ gw'.inbox[L + 1] = m
      BY <1>4, <2>2, <3>1
    <3> QED  BY <1>3, <2>2, <3>2
  <2> QED  BY <1>2, <2>1, <2>2
<1>7. ASSUME NEW m \in Messages, gw'.inbox = Append(gw.inbox, m)
      PROVE  \E j \in DOMAIN gw'.inbox : /\ gw'.inbox[j] = m
                                         /\ \A i \in DOMAIN gw.inbox : j > i
  <2>1. L + 1 \in DOMAIN gw'.inbox /\ \A i \in 1..L : L + 1 > i
    BY <1>3, <1>4, <1>7
  <2> HIDE DEF L, Messages
  <2> QED  BY <1>3, <1>4, <1>7, <2>1
<1>8. /\ \A c \in Sockets : [t |-> "join", c |-> c] \in Messages
      /\ \A c \in Sockets : [t |-> "detach", c |-> c] \in Messages
      /\ \A m \in Messages : m.c \in Sockets /\ m.t \in {"join", "answer", "detach"}
                             /\ m = [t |-> m.t, c |-> m.c]
      /\ \A m : Tells(m) => m \in Messages
  OBVIOUS
<1>9. /\ \A c \in Sockets : Held(gw, c) => gw.sock[c].at = "joined" /\ gw.sock[c].session # None
      /\ \A c \in Sockets : Held(gw', c) => gw'.sock[c].at = "joined" /\ gw'.sock[c].session # None
  BY <1>0, HeldAt, Objects1
<1> HIDE DEF L, Messages, Tells
<1>10. ASSUME NEW i \in DOMAIN gw.inbox
       PROVE  LET m == gw.inbox[i]
              IN  /\ m.t \in {"join", "detach"} =>
                        gw.sock[m.c].at = "joined" /\ gw.sock[m.c].session # None
                  /\ m.t = "detach" => ~Held(gw, m.c)
                  /\ m.t = "join" =>
                        /\ m.c \notin owner.attached
                        /\ \A j \in DOMAIN gw.inbox : gw.inbox[j] = m => j = i
                        /\ \/ Held(gw, m.c) \/ gw.sock[m.c].abandoned = TRUE
                           \/ \E j \in DOMAIN gw.inbox :
                                 j > i /\ gw.inbox[j] = [t |-> "detach", c |-> m.c]
  BY DEF InboxOK
<1>11. ASSUME NEW c \in owner.attached
       PROVE  /\ gw.sock[c].at = "joined" /\ gw.sock[c].session # None
              /\ Held(gw, c) \/ gw.sock[c].abandoned = TRUE \/ Coming("detach", c)
  BY DEF InboxOK
<1>12. ASSUME NEW i \in DOMAIN gw'.inbox
       PROVE  LET m == gw'.inbox[i]
              IN  /\ m.t \in {"join", "detach"} =>
                        gw'.sock[m.c].at = "joined" /\ gw'.sock[m.c].session # None
                  /\ m.t = "detach" => ~Held(gw', m.c)
                  /\ m.t = "join" => m.c \notin owner.attached
  <2>1. CASE i \in DOMAIN gw.inbox
    <3> DEFINE m == gw.inbox[i]
    <3>1. gw'.inbox[i] = m /\ m.c \in Sockets
      BY <1>5, <1>8, <2>1
    <3>2. /\ m.t \in {"join", "detach"} =>
                gw.sock[m.c].at = "joined" /\ gw.sock[m.c].session # None
          /\ m.t = "detach" => ~Held(gw, m.c)
          /\ m.t = "join" => m.c \notin owner.attached
      BY <1>10, <2>1
    <3> HIDE DEF m
    <3>3. m.t \in {"join", "detach"} =>
                gw'.sock[m.c].at = "joined" /\ gw'.sock[m.c].session # None
      BY <1>1, <3>1, <3>2
    <3>4. m.t = "detach" => ~Held(gw', m.c)
      BY <1>1, <3>1, <3>2
    <3> QED  BY <3>1, <3>2, <3>3, <3>4
  <2>2. CASE Tells(gw'.inbox[i])
    BY <1>1, <1>8, <1>9, <1>11, <2>2 DEF Tells
  <2> QED  BY <1>6, <2>1, <2>2
<1>13. ASSUME NEW i \in DOMAIN gw'.inbox, NEW j \in DOMAIN gw'.inbox,
              gw'.inbox[i].t = "join", gw'.inbox[j] = gw'.inbox[i]
       PROVE  j = i
  <2>1. ASSUME NEW n \in DOMAIN gw.inbox, gw'.inbox[n].t = "join"
        PROVE  gw.sock[gw'.inbox[n].c].at = "joined"
    BY <1>5, <1>10, <2>1
  <2>2. ASSUME NEW n \in DOMAIN gw'.inbox, gw'.inbox[n].t = "join", n \notin DOMAIN gw.inbox
        PROVE  n = L + 1 /\ gw.sock[gw'.inbox[n].c].at # "joined"
    BY <1>6, <2>2 DEF Tells
  <2>3. CASE i \in DOMAIN gw.inbox /\ j \in DOMAIN gw.inbox
    <3>1. gw.inbox[i].t = "join" /\ gw.inbox[j] = gw.inbox[i]
      BY <1>5, <1>13, <2>3
    <3> QED  BY <1>10, <2>3, <3>1
  <2>4. CASE i \notin DOMAIN gw.inbox /\ j \notin DOMAIN gw.inbox
    BY <1>13, <2>2, <2>4
  <2> QED  BY <1>13, <2>1, <2>2, <2>3, <2>4
<1>14. ASSUME NEW i \in DOMAIN gw'.inbox, gw'.inbox[i].t = "join"
       PROVE  LET m == gw'.inbox[i]
              IN  \/ Held(gw', m.c) \/ gw'.sock[m.c].abandoned = TRUE
                  \/ \E j \in DOMAIN gw'.inbox :
                        j > i /\ gw'.inbox[j] = [t |-> "detach", c |-> m.c]
  <2> DEFINE c == gw'.inbox[i].c
  <2>1. CASE i \in DOMAIN gw.inbox
    <3>1. c \in Sockets /\ gw.inbox[i] = gw'.inbox[i]
      BY <1>5, <1>8, <2>1
    <3>2. \/ Held(gw, c) \/ gw.sock[c].abandoned = TRUE
          \/ \E j \in DOMAIN gw.inbox : j > i /\ gw.inbox[j] = [t |-> "detach", c |-> c]
      <4> DEFINE m == gw.inbox[i]
      <4>1. m.t = "join" => \/ Held(gw, m.c) \/ gw.sock[m.c].abandoned = TRUE
                            \/ \E j \in DOMAIN gw.inbox :
                                  j > i /\ gw.inbox[j] = [t |-> "detach", c |-> m.c]
        BY <1>10, <2>1
      <4>2. m.t = "join" /\ m.c = c
        BY <1>14, <3>1
      <4> HIDE DEF m, c
      <4> QED  BY <4>1, <4>2
    <3>3. gw'.inbox = Append(gw.inbox, [t |-> "detach", c |-> c]) =>
            \E j \in DOMAIN gw'.inbox : j > i /\ gw'.inbox[j] = [t |-> "detach", c |-> c]
      BY <1>7, <1>8, <2>1, <3>1
    <3> HIDE DEF c
    <3>4. CASE Held(gw, c)
      BY <1>1, <3>1, <3>3, <3>4 DEF c
    <3>5. CASE gw.sock[c].abandoned = TRUE
      BY <1>1, <3>1, <3>5 DEF c
    <3>6. CASE \E j \in DOMAIN gw.inbox : j > i /\ gw.inbox[j] = [t |-> "detach", c |-> c]
      BY <1>5, <3>6 DEF c
    <3> QED  BY <3>2, <3>4, <3>5, <3>6
  <2>2. CASE Tells(gw'.inbox[i])
    BY <1>14, <2>2 DEF Tells
  <2> QED  BY <1>6, <2>1, <2>2
<1>15. ASSUME NEW c \in owner.attached
       PROVE  /\ gw'.sock[c].at = "joined" /\ gw'.sock[c].session # None
              /\ \/ Held(gw', c) \/ gw'.sock[c].abandoned = TRUE
                 \/ \E i \in DOMAIN gw'.inbox : gw'.inbox[i] = [t |-> "detach", c |-> c]
  <2>1. c \in Sockets
    BY <1>0
  <2>2. gw'.inbox = Append(gw.inbox, [t |-> "detach", c |-> c]) =>
            \E i \in DOMAIN gw'.inbox : gw'.inbox[i] = [t |-> "detach", c |-> c]
    BY <1>7, <1>8, <2>1
  <2>3. Coming("detach", c) =>
            \E i \in DOMAIN gw'.inbox : gw'.inbox[i] = [t |-> "detach", c |-> c]
    BY <1>5 DEF Coming
  <2> QED  BY <1>1, <1>11, <2>1, <2>2, <2>3
<1>16. InboxOK'
  BY <1>12, <1>13, <1>14, <1>15 DEF InboxOK, Coming
<1>17. ASSUME NEW c \in Sockets PROVE Answered(c)' <=> Answered(c)
  <2> DEFINE join == [t |-> "join", c |-> c]
  <2>1. Coming("join", c) => \E i \in DOMAIN gw'.inbox : gw'.inbox[i] = join
    BY <1>5 DEF Coming
  <2>2. ASSUME NEW i \in DOMAIN gw'.inbox, gw'.inbox[i] = join, gw.sock[c].at = "joined"
        PROVE  Coming("join", c)
    <3>1. CASE i \in DOMAIN gw.inbox
      BY <1>5, <2>2, <3>1 DEF Coming
    <3>2. CASE Tells(gw'.inbox[i])
      BY <2>2, <3>2 DEF Tells
    <3> QED  BY <1>6, <3>1, <3>2
  <2>3. gw'.inbox = Append(gw.inbox, join) => \E i \in DOMAIN gw'.inbox : gw'.inbox[i] = join
    BY <1>7, <1>8
  <2>4. Answered(c)' <=> /\ gw'.sock[c].at = "joined" /\ gw'.sock[c].session # None
                         /\ ~\E i \in DOMAIN gw'.inbox : gw'.inbox[i] = join
    BY DEF Answered, Coming
  <2>5. Answered(c) <=> /\ gw.sock[c].at = "joined" /\ gw.sock[c].session # None
                        /\ ~Coming("join", c)
    BY DEF Answered
  <2> HIDE DEF join
  <2>6. CASE gw.sock[c].at = "joined"
    BY <1>1, <2>1, <2>2, <2>4, <2>5, <2>6
  <2>7. CASE gw.sock[c].at # "joined"
    BY <1>1, <2>3, <2>4, <2>5, <2>7 DEF join
  <2> QED  BY <2>6, <2>7
<1> QED  BY <1>16, <1>17

-----------------------------------------------------------------------------
\* What is on a way, whatever the batches it comes in.
SameContent(w, v) ==
    /\ EventsIn(v) = EventsIn(w) /\ Welcomes(v) = Welcomes(w)
    /\ \A kind : Carries(v, kind) <=> Carries(w, kind)
    /\ Nothing(v) <=> Nothing(w)
    /\ WelcomeFirst(v) <=> WelcomeFirst(w)

LEMMA StreamStep ==
    ASSUME StateTyped, BooksOK(gw), NEW c \in Sockets, StreamOK(c), gw' \in Gateway, BooksOK(gw'),
           GatewayStep(gw, gw'), owner' = owner, Answered(c)' <=> Answered(c),
           SameContent(Way(c), Way(c)')
    PROVE  StreamOK(c)'
<1> DEFINE x == gw.sock[c]
           y == gw'.sock[c]
           w == Way(c)
           v == Way(c)'
<1>0. gw \in Gateway
  BY DEF StateTyped
<1>1. /\ y.seq = x.seq /\ y.run = x.run /\ y.stray = x.stray
      /\ x.at = "joined" => y.session = x.session
  BY DEF GatewayStep
<1>2. Snapshots(y, v) = Snapshots(x, w)
  BY <1>1 DEF Snapshots, SameContent
<1>3. x.run # None /\ c \in gw'.conns[y.session] => y.session \in gw'.handlers
  <2>1. SUFFICES ASSUME x.run # None, c \in gw'.conns[y.session]
                 PROVE  y.session \in gw'.handlers
    OBVIOUS
  <2>2. x.at = "joined" /\ x.session # None
    BY <2>1 DEF StreamOK, Answered
  <2>3. x.session \in Objects /\ y.session = x.session
    BY <1>0, <1>1, <2>2, GatewayFields, SocketFields
  <2>4. Held(gw', c)
    BY <2>1, <2>3 DEF Held
  <2>5. Held(gw, c)
    BY <2>2, <2>4 DEF GatewayStep
  <2>6. c \in gw.conns[x.session]
    BY <1>0, <2>5, HeldAt
  <2>7. x.session \in gw.handlers
    BY <2>1, <2>6 DEF StreamOK
  <2> QED  BY <2>1, <2>3, <2>7 DEF GatewayStep
<1>4. /\ ~Answered(c) => Nothing(w) /\ c \notin owner.attached /\ x.run = None /\ x.stray = FALSE
      /\ x.seq = None <=> x.run = None
      /\ WelcomeFirst(w)
      /\ x.run # None => ~Carries(w, "welcome")
      /\ \A s \in Snapshots(x, w) :
              /\ s.run <= owner.run
              /\ s.seq + EventsIn(w) <= MaxEvents
              /\ c \in owner.attached => s.run = owner.run /\ s.seq + EventsIn(w) <= owner.seq
  BY DEF StreamOK
<1>5. /\ Nothing(v) <=> Nothing(w)
      /\ WelcomeFirst(v) <=> WelcomeFirst(w)
      /\ Carries(v, "welcome") <=> Carries(w, "welcome")
      /\ EventsIn(v) = EventsIn(w)
  BY DEF SameContent
<1> HIDE DEF x, y, w, v
<1>6. /\ ~Answered(c)' => Nothing(v) /\ c \notin owner'.attached /\ y.run = None /\ y.stray = FALSE
      /\ y.seq = None <=> y.run = None
      /\ WelcomeFirst(v)
      /\ y.run # None => /\ ~Carries(v, "welcome")
                         /\ c \in gw'.conns[y.session] => y.session \in gw'.handlers
      /\ \A s \in Snapshots(y, v) :
              /\ s.run <= owner'.run
              /\ s.seq + EventsIn(v) <= MaxEvents
              /\ c \in owner'.attached => s.run = owner'.run /\ s.seq + EventsIn(v) <= owner'.seq
  BY <1>1, <1>2, <1>3, <1>4, <1>5
<1> QED  BY <1>6 DEF StreamOK, x, y, w, v

LEMMA NoGapStep ==
    ASSUME StateTyped, BooksOK(gw), NEW c \in Sockets, NoGap(c), gw' \in Gateway, BooksOK(gw'),
           GatewayStep(gw, gw'), owner' = owner, heard' = heard, Answered(c)' <=> Answered(c),
           SameContent(Way(c), Way(c)')
    PROVE  NoGap(c)'
<1> DEFINE x == gw.sock[c]
           y == gw'.sock[c]
           w == Way(c)
           v == Way(c)'
<1>0. gw \in Gateway
  BY DEF StateTyped
<1>1. /\ y.seq = x.seq /\ y.run = x.run /\ y.stray = x.stray
      /\ x.at = "joined" => y.session = x.session
      /\ y.up = "open" => x.up = "open"
  BY DEF GatewayStep
<1>2. Snapshots(y, v) = Snapshots(x, w)
  BY <1>1 DEF Snapshots, SameContent
<1>3. ASSUME Hearing(c)' PROVE Hearing(c) /\ gw'.sub = gw.sub
  <2>1. Answered(c)' /\ c \in gw'.conns[y.session] /\ y.session \in gw'.handlers
    BY <1>3 DEF Hearing
  <2>2. x.at = "joined" /\ x.session # None /\ y.session = x.session
    BY <1>1, <2>1 DEF Answered
  <2>3. x.session \in Objects
    BY <1>0, <2>2, GatewayFields, SocketFields
  <2>4. Held(gw', c)
    BY <2>1, <2>2, <2>3 DEF Held
  <2>5. Held(gw, c)
    BY <2>2, <2>4 DEF GatewayStep
  <2>6. c \in gw.conns[x.session]
    BY <1>0, <2>5, HeldAt
  <2>7. x.session \in gw.handlers
    BY <2>1, <2>2, <2>3, <2>6 DEF GatewayStep
  <2>8. gw'.sub = gw.sub
    BY <2>1 DEF GatewayStep
  <2> QED  BY <2>1, <2>6, <2>7, <2>8 DEF Hearing
<1>4. /\ x.stray = FALSE
      /\ Hearing(c) => heard = TRUE /\ gw.sub = <<>>
      /\ Hearing(c) /\ x.up = "open" =>
            /\ Snapshots(x, w) = {} => Nothing(w)
            /\ c \in owner.attached =>
                  /\ ~Carries(w, "bye")
                  /\ \E s \in Snapshots(x, w) : s.seq + EventsIn(w) = owner.seq
            /\ c \notin owner.attached =>
                  \/ Carries(w, "bye")
                  \/ \A s \in Snapshots(x, w) : s.run <= owner.crashed
  BY DEF NoGap
<1>5. /\ Nothing(v) <=> Nothing(w)
      /\ Carries(v, "bye") <=> Carries(w, "bye")
      /\ EventsIn(v) = EventsIn(w)
  BY DEF SameContent
<1> HIDE DEF x, y, w, v
<1>6. /\ y.stray = FALSE
      /\ Hearing(c)' => heard' = TRUE /\ gw'.sub = <<>>
      /\ Hearing(c)' /\ y.up = "open" =>
            /\ Snapshots(y, v) = {} => Nothing(v)
            /\ c \in owner'.attached =>
                  /\ ~Carries(v, "bye")
                  /\ \E s \in Snapshots(y, v) : s.seq + EventsIn(v) = owner'.seq
            /\ c \notin owner'.attached =>
                  \/ Carries(v, "bye")
                  \/ \A s \in Snapshots(y, v) : s.run <= owner'.crashed
  BY <1>1, <1>2, <1>3, <1>4, <1>5
<1> QED  BY <1>6 DEF NoGap, x, y, w, v

\* The parts of the invariant that are not about the types, after a step of the
\* gateway that leaves the connection to Redis as it is.
LEMMA GatewayKeeps ==
    ASSUME RemoteInv, gw' \in Gateway, BooksOK(gw'), GatewayStep(gw, gw'),
           heard' = heard, toGateway' = toGateway, owner' = owner, SubsOK',
           faults' \in 0..MaxFaults, answers' \in 0..MaxAnswers
    PROVE  RemoteInv'
<1>1. StateTyped /\ BooksOK(gw) /\ InboxOK
  BY DEF RemoteInv
<1>2. StateTyped'
  BY <1>1 DEF StateTyped
<1>3. InboxOK' /\ \A c \in Sockets : Answered(c)' <=> Answered(c)
  BY <1>1, InboxStep
<1>4. \A c \in Sockets : SameContent(Way(c), Way(c)')
  BY DEF SameContent, Way
<1>5. \A c \in Sockets : StreamOK(c)'
  BY <1>1, <1>3, <1>4, StreamStep DEF RemoteInv
<1>6. SlowSubscribe = FALSE => \A c \in Sockets : NoGap(c)'
  BY <1>1, <1>3, <1>4, NoGapStep DEF RemoteInv
<1>7. (owner.crashed <= owner.run)'
  BY DEF RemoteInv
<1> QED  BY <1>2, <1>3, <1>5, <1>6, <1>7 DEF RemoteInv

-----------------------------------------------------------------------------
\* The steps of the gateway's own code keep the invariant.
LEMMA FreshObject ==
    ASSUME NEW g \in Gateway, BooksOK(g), g.opens < MaxOpens
    PROVE  /\ g.opens + 1 \in Objects /\ g.opens \in Nat
           /\ \A d \in Sockets : g.sock[d].session # g.opens + 1
           /\ g.conns[g.opens + 1] = {}
<1> DEFINE r == g.opens + 1
<1>1. r \in Objects /\ g.opens \in Nat /\ r # None /\ ~(r <= g.opens)
  BY GatewayFields, RemoteAssumption DEF Objects
<1>2. \A d \in Sockets : g.sock[d].session # r
  BY <1>1 DEF BooksOK
<1>3. g.conns[r] = {}
  <2>1. ASSUME NEW d \in g.conns[r] PROVE FALSE
    <3>1. d \in Sockets /\ g.sock[d].session = r
      BY <1>1, GatewayFields DEF BooksOK
    <3> QED  BY <1>2, <3>1
  <2> QED  BY <2>1
<1> QED  BY <1>1, <1>2, <1>3

LEMMA ReadyNow ==
    ASSUME NEW g \in Gateway, BooksOK(g), NEW c \in Sockets, g.sock[c].at # "joined",
           g.remotes # None
    PROVE  Ready(g, g, c, g.remotes)
<1>1. g.remotes \in Objects /\ g.remotes <= g.opens /\ g.opens <= g.opens
  BY GatewayFields DEF BooksOK
<1>2. \A d \in Sockets : g.sock[d].at = "opening" => g.sock[d].session # g.remotes
  BY DEF BooksOK
<1>3. ~g.channel => g.handlers = {}
  BY DEF BooksOK
<1> QED  BY <1>1, <1>2, <1>3 DEF Ready

LEMMA ReadyNew ==
    ASSUME NEW g \in Gateway, BooksOK(g), NEW c \in Sockets, g.sock[c].at # "joined",
           g.channel = TRUE, g.opens < MaxOpens,
           NEW k, k = [g EXCEPT !.opens = g.opens + 1, !.remotes = g.opens + 1,
                                !.handlers = @ \cup {g.opens + 1}]
    PROVE  Ready(g, k, c, g.opens + 1)
<1> DEFINE r == g.opens + 1
<1>1. /\ r \in Objects /\ g.opens \in Nat /\ g.conns[r] = {}
      /\ \A d \in Sockets : g.sock[d].session # r
  BY FreshObject
<1>2. r <= r /\ g.opens <= r /\ r \in 0..MaxOpens
  BY <1>1, RemoteAssumption DEF Objects
<1> HIDE DEF r
<1>3. k = [g EXCEPT !.opens = r, !.remotes = r, !.handlers = @ \cup {r}]
  BY DEF r
<1>4. /\ k.sock = g.sock /\ k.conns = g.conns /\ k.pending = g.pending /\ k.inbox = g.inbox
      /\ k.sub = g.sub /\ k.channel = g.channel /\ k.remotes = r /\ k.opens = r
      /\ k.handlers = g.handlers \cup {r} /\ k.awaiting = g.awaiting
  BY <1>3, GatewayFields
<1>5. k \in Gateway
  <2>1. g.handlers \cup {r} \in SUBSET Objects
    BY <1>1, GatewayFields
  <2> QED  BY <1>1, <1>2, <1>3, <2>1 DEF Gateway
<1>6. Ready(g, k, c, r)
  BY <1>1, <1>2, <1>4, <1>5 DEF Ready
<1> QED  BY <1>6 DEF r

LEMMA JoinedSubs ==
    ASSUME RemoteInv, NEW c \in Sockets, gw.sock[c].at # "opening", Joined(gw, gw', c),
           heard' = heard, toGateway' = toGateway
    PROVE  SubsOK'
<1>1. gw' \in Gateway /\ gw'.sub = gw.sub /\ gw'.channel = gw.channel
  BY DEF Joined
<1>2. \A r \in Objects : Opening(gw, r) => Opening(gw', r)
  BY DEF Joined, Opening
<1> QED  BY <1>1, <1>2, SubsKept DEF RemoteInv

LEMMA JoinFrameKeeps ==
    ASSUME RemoteInv, NEW c \in Sockets, JoinFrame(c)
    PROVE  RemoteInv'
<1>1. /\ gw \in Gateway /\ BooksOK(gw) /\ faults \in 0..MaxFaults /\ answers \in 0..MaxAnswers
      /\ StateTyped /\ SubsOK
  BY DEF RemoteInv, StateTyped
<1>2. /\ gw.sock[c].at = "start" /\ gw.sock[c].up = "open"
      /\ heard' = heard /\ toGateway' = toGateway /\ owner' = owner
      /\ faults' = faults /\ answers' = answers
  BY DEF JoinFrame, bounds
<1>3. CASE gw.remotes # None
  <2>1. gw' = Join(gw, c, gw.remotes)
    BY <1>3 DEF JoinFrame
  <2>2. Joined(gw, gw', c)
    BY <1>1, <1>2, <1>3, <2>1, ReadyNow, JoinDoes
  <2>3. SubsOK'
    BY <1>2, <2>2, JoinedSubs
  <2> QED  BY <1>1, <1>2, <2>2, <2>3, GatewayKeeps DEF Joined
<1>4. CASE gw.remotes = None
  <2>1. gw' = [gw EXCEPT !.sock[c].at = "lookup"]
    BY <1>4 DEF JoinFrame
  <2>2. /\ gw' \in Gateway /\ BooksOK(gw') /\ GatewayStep(gw, gw')
        /\ gw'.sub = gw.sub /\ gw'.channel = gw.channel /\ Looking(gw, gw', c)
    BY <1>1, <1>2, <2>1, LookupDoes
  <2>3. \A r \in Objects : Opening(gw, r) => Opening(gw', r)
    BY <1>2, <2>2 DEF Looking, Opening
  <2>4. SubsOK'
    BY <1>1, <1>2, <2>2, <2>3, SubsKept
  <2> QED  BY <1>1, <1>2, <2>2, <2>4, GatewayKeeps
<1> QED  BY <1>3, <1>4

LEMMA OwnerKnownKeeps ==
    ASSUME RemoteInv, NEW c \in Sockets, OwnerKnown(c)
    PROVE  RemoteInv'
<1>1. /\ gw \in Gateway /\ BooksOK(gw) /\ faults \in 0..MaxFaults /\ answers \in 0..MaxAnswers
      /\ StateTyped /\ SubsOK
  BY DEF RemoteInv, StateTyped
<1>2. /\ gw.sock[c].at = "lookup" /\ gw.opens < MaxOpens /\ gw' = OpenRemote(gw, c)
      /\ heard' = heard /\ toGateway' = toGateway /\ owner' = owner
      /\ faults' = faults /\ answers' = answers
  BY DEF OwnerKnown, bounds
<1>3. ASSUME Joined(gw, gw', c) PROVE RemoteInv'
  <2>1. SubsOK'
    BY <1>2, <1>3, JoinedSubs
  <2> QED  BY <1>1, <1>2, <1>3, <2>1, GatewayKeeps DEF Joined
<1>4. CASE gw.remotes # None
  <2>1. gw' = Resolved(gw, c, gw.remotes)
    BY <1>2, <1>4 DEF OpenRemote
  <2>2. Ready(gw, gw, c, gw.remotes)
    BY <1>1, <1>2, <1>4, ReadyNow
  <2> QED  BY <1>1, <1>3, <2>1, <2>2, ResolvedDoes
<1>5. CASE gw.remotes = None /\ gw.channel = TRUE
  <2> DEFINE k == [gw EXCEPT !.opens = gw.opens + 1, !.remotes = gw.opens + 1,
                             !.handlers = @ \cup {gw.opens + 1}]
  <2>1. gw' = Resolved(k, c, gw.opens + 1)
    BY <1>2, <1>5 DEF OpenRemote
  <2>2. Ready(gw, k, c, gw.opens + 1)
    BY <1>1, <1>2, <1>5, ReadyNew
  <2> HIDE DEF k
  <2> QED  BY <1>1, <1>3, <2>1, <2>2, ResolvedDoes
<1>6. CASE gw.remotes = None /\ gw.channel = FALSE
  <2> DEFINE r == gw.opens + 1
  <2>1. /\ gw' \in Gateway /\ BooksOK(gw') /\ GatewayStep(gw, gw')
        /\ gw'.sub = Append(gw.sub, [t |-> "sub", r |-> r]) /\ gw'.channel = TRUE
        /\ r \in Objects
        /\ gw'.sock[c].at = "opening" /\ gw'.sock[c].session = r
        /\ Looking(gw, gw', c)
    BY <1>1, <1>2, <1>6, AskDoes
  <2>2. \A q \in Objects : Opening(gw, q) => Opening(gw', q)
    BY <1>2, <2>1 DEF Looking, Opening
  <2>3. Opening(gw', r)
    BY <2>1 DEF Opening
  <2>4. ~Opening(gw, r)
    BY <1>1, <1>2, FreshObject DEF Opening
  <2> HIDE DEF r
  <2>5. SubsOK'
    BY <1>1, <1>2, <2>1, <2>2, <2>3, <2>4, SubsKept
  <2> QED  BY <1>1, <1>2, <2>1, <2>5, GatewayKeeps
<1>7. gw.channel \in BOOLEAN
  BY <1>1, GatewayFields
<1> QED  BY <1>4, <1>5, <1>6, <1>7

LEMMA AnswerFrameKeeps ==
    ASSUME RemoteInv, NEW c \in Sockets, AnswerFrame(c)
    PROVE  RemoteInv'
<1> DEFINE I == Append(gw.inbox, [t |-> "answer", c |-> c])
<1>1. /\ gw \in Gateway /\ BooksOK(gw) /\ faults \in 0..MaxFaults /\ answers \in 0..MaxAnswers
      /\ StateTyped /\ SubsOK
  BY DEF RemoteInv, StateTyped
<1>2. /\ gw' = [gw EXCEPT !.inbox = I]
      /\ heard' = heard /\ toGateway' = toGateway /\ owner' = owner
      /\ faults' = faults /\ answers' = answers + 1 /\ answers < MaxAnswers
  BY DEF AnswerFrame, Send
<1>3. I \in Seq([t : {"join", "answer", "detach"}, c : Sockets])
  <2>1. [t |-> "answer", c |-> c] \in [t : {"join", "answer", "detach"}, c : Sockets]
    OBVIOUS
  <2>2. gw.inbox \in Seq([t : {"join", "answer", "detach"}, c : Sockets])
    BY <1>1, GatewayFields
  <2> QED  BY <2>1, <2>2
<1>4. gw' \in Gateway
  <2> HIDE DEF I
  <2> QED  BY <1>1, <1>2, <1>3 DEF Gateway
<1>5. /\ gw'.remotes = gw.remotes /\ gw'.opens = gw.opens /\ gw'.conns = gw.conns
      /\ gw'.pending = gw.pending /\ gw'.channel = gw.channel /\ gw'.handlers = gw.handlers
      /\ gw'.awaiting = gw.awaiting /\ gw'.sub = gw.sub /\ gw'.inbox = I
      /\ gw'.sock = gw.sock
  BY <1>1, <1>2, GatewayFields
<1>6. \A d : Held(gw', d) <=> Held(gw, d)
  BY <1>5 DEF Held
<1>7. BooksOK(gw')
  BY <1>1, <1>5, <1>6 DEF BooksOK
<1>8. GatewayStep(gw, gw')
  BY <1>5, <1>6 DEF GatewayStep
<1>9. \A r \in Objects : Opening(gw, r) => Opening(gw', r)
  BY <1>5 DEF Opening
<1>10. SubsOK'
  BY <1>1, <1>2, <1>4, <1>5, <1>9, SubsKept
<1>11. answers' \in 0..MaxAnswers
  BY <1>1, <1>2, RemoteAssumption
<1> QED  BY <1>1, <1>2, <1>4, <1>7, <1>8, <1>10, <1>11, GatewayKeeps

LEMMA LessenedKeeps ==
    ASSUME RemoteInv, Lessened(gw, gw'), heard' = heard, toGateway' = toGateway,
           owner' = owner, faults' \in 0..MaxFaults, answers' \in 0..MaxAnswers
    PROVE  RemoteInv'
<1>1. gw \in Gateway /\ BooksOK(gw) /\ StateTyped /\ SubsOK
  BY DEF RemoteInv, StateTyped
<1>2. gw' \in Gateway
  BY DEF Lessened
<1>3. BooksOK(gw') /\ GatewayStep(gw, gw')
  BY <1>1, LessenedDoes
<1>4. \A r \in Objects : Opening(gw, r) => Opening(gw', r)
  <2>1. \A d \in Sockets : /\ gw'.sock[d].at = gw.sock[d].at
                           /\ gw'.sock[d].session = gw.sock[d].session
    BY DEF Lessened
  <2> QED  BY <2>1 DEF Opening
<1>5. \/ gw'.sub = gw.sub /\ gw'.channel = gw.channel
      \/ \E r \in Objects : /\ gw'.sub = Append(gw.sub, [t |-> "unsub", r |-> r])
                            /\ gw'.channel = FALSE
  BY DEF Lessened
<1>6. SubsOK'
  BY <1>1, <1>2, <1>4, <1>5, SubsKept
<1> QED  BY <1>2, <1>3, <1>6, GatewayKeeps

LEMMA ClosedKeeps ==
    ASSUME RemoteInv, NEW c \in Sockets, Closed(c)
    PROVE  RemoteInv'
<1> DEFINE left == IF gw.sock[c].at = "joined" THEN Detach(gw, c) ELSE gw
<1>1. /\ gw \in Gateway /\ BooksOK(gw) /\ faults \in 0..MaxFaults /\ answers \in 0..MaxAnswers
  BY DEF RemoteInv, StateTyped
<1>2. /\ gw.sock[c].up # "closed" /\ gw.sock[c].at # "start"
      /\ gw' = [left EXCEPT !.sock[c].up = "closed"]
      /\ heard' = heard /\ toGateway' = toGateway /\ owner' = owner
      /\ faults' = faults /\ answers' = answers
  BY DEF Closed, bounds
<1>3. Lessened(gw, gw')
  <2>1. left = IF gw.sock[c].at = "joined" THEN Detach(gw, c) ELSE gw
    OBVIOUS
  <2> HIDE DEF left
  <2> QED  BY <1>1, <1>2, <2>1, LeftDoes
<1> QED  BY <1>1, <1>2, <1>3, LessenedKeeps

LEMMA JoinTimeoutKeeps ==
    ASSUME RemoteInv, NEW c \in Sockets, JoinTimeout(c)
    PROVE  RemoteInv'
<1>1. /\ gw \in Gateway /\ BooksOK(gw) /\ faults \in 0..MaxFaults /\ answers \in 0..MaxAnswers
  BY DEF RemoteInv, StateTyped
<1>2. /\ c \in gw.pending /\ gw' = OwnerDead(gw, c)
      /\ heard' = heard /\ toGateway' = toGateway /\ owner' = owner /\ answers' = answers
      /\ faults' = faults \/ (faults < MaxFaults /\ faults' = faults + 1)
  BY DEF JoinTimeout
<1>3. Lessened(gw, gw')
  BY <1>1, <1>2, OwnerDeadDoes
<1>4. faults' \in 0..MaxFaults
  BY <1>1, <1>2, RemoteAssumption
<1> QED  BY <1>1, <1>2, <1>3, <1>4, LessenedKeeps

-----------------------------------------------------------------------------
\* Ways, as functions of what they are made of.
Posts == [t : {"opened"}, r : Objects] \cup [t : {"batch"}, frames : Batches]

WayOf(posts, out, c) ==
    [j \in 1..(Len(posts) + 1) |->
        IF j > Len(posts) THEN out[c]
        ELSE IF posts[j].t = "batch" THEN posts[j].frames[c] ELSE <<>>]

LEMMA PostsTyped ==
    ASSUME NEW posts \in Seq(Posts)
    PROVE  /\ Len(posts) \in Nat /\ DOMAIN posts = 1..Len(posts)
           /\ \A i \in DOMAIN posts :
                 \/ posts[i].t = "opened" /\ posts[i].r \in Objects
                 \/ posts[i].t = "batch" /\ posts[i].frames \in Batches
<1>1. \A i \in 1..Len(posts) : posts[i] \in Posts
  OBVIOUS
<1>2. \A m \in Posts : \/ m.t = "opened" /\ m.r \in Objects
                       \/ m.t = "batch" /\ m.frames \in Batches
  BY DEF Posts
<1> QED  BY <1>1, <1>2

LEMMA WayOfTyped ==
    ASSUME NEW posts \in Seq(Posts), NEW out \in Batches, NEW c \in Sockets
    PROVE  /\ WayOf(posts, out, c) \in [1..(Len(posts) + 1) -> Seq(Frames)]
           /\ WayOf(posts, out, c)[Len(posts) + 1] = out[c]
           /\ \A j \in 1..Len(posts) :
                 WayOf(posts, out, c)[j] = IF posts[j].t = "batch" THEN posts[j].frames[c] ELSE <<>>
<1> DEFINE w == WayOf(posts, out, c)
           n == Len(posts)
<1>1. n \in Nat /\ \A i \in 1..n : \/ posts[i].t = "opened"
                                   \/ posts[i].t = "batch" /\ posts[i].frames \in Batches
  BY PostsTyped
<1>2. /\ n + 1 \in 1..(n + 1) /\ n + 1 > n
      /\ \A j \in 1..n : j \in 1..(n + 1) /\ ~(j > n)
      /\ \A j \in 1..(n + 1) : j \in 1..n \/ j = n + 1
  BY <1>1
<1>3. w = [j \in 1..(n + 1) |->
              IF j > n THEN out[c]
              ELSE IF posts[j].t = "batch" THEN posts[j].frames[c] ELSE <<>>]
  BY DEF WayOf
<1>4. \A b \in Batches : b[c] \in Seq(Frames)
  BY DEF Batches
<1> HIDE DEF w, n
<1>5. /\ w[n + 1] = out[c]
      /\ \A j \in 1..n : w[j] = IF posts[j].t = "batch" THEN posts[j].frames[c] ELSE <<>>
  BY <1>2, <1>3
<1>6. \A j \in 1..(n + 1) : w[j] \in Seq(Frames)
  <2>1. <<>> \in Seq(Frames)
    OBVIOUS
  <2> QED  BY <1>1, <1>2, <1>4, <1>5, <2>1
<1>7. w \in [1..(n + 1) -> Seq(Frames)]
  BY <1>3, <1>6
<1> QED  BY <1>5, <1>7 DEF w, n

LEMMA WayIs ==
    ASSUME NEW c
    PROVE  Way(c) = WayOf(toGateway, owner.out, c) /\ Way(c)' = WayOf(toGateway', owner'.out, c)
BY DEF Way, WayOf

LEMMA OwnerFields ==
    ASSUME NEW o \in Owners
    PROVE  /\ o.run \in Runs /\ o.run \in Nat /\ o.serving \in BOOLEAN
           /\ o.crashed \in 0..MaxRuns /\ o.crashed \in Nat
           /\ o.attached \in SUBSET Sockets /\ o.seq \in 0..MaxEvents /\ o.seq \in Nat
           /\ o.out \in Batches
           /\ DOMAIN o = {"run", "serving", "crashed", "attached", "seq", "out"}
<1>1. /\ o.run \in Runs /\ o.serving \in BOOLEAN /\ o.crashed \in 0..MaxRuns
      /\ o.attached \in SUBSET Sockets /\ o.seq \in 0..MaxEvents /\ o.out \in Batches
      /\ DOMAIN o = {"run", "serving", "crashed", "attached", "seq", "out"}
  BY DEF Owners
<1>2. MaxRuns \in Nat /\ MaxEvents \in Nat
  BY RemoteAssumption
<1>3. \A m \in Nat : \A n \in 0..m : n \in Nat
  OBVIOUS
<1>4. o.crashed \in Nat /\ o.seq \in Nat
  BY <1>1, <1>2, <1>3
<1>5. o.run \in Nat
  BY <1>1, Objects1
<1> QED  BY <1>1, <1>4, <1>5

\* A batch with nothing for c among the others.
LEMMA Inserted ==
    ASSUME NEW n \in Nat, NEW w \in [1..n -> Seq(Frames)],
           NEW v \in [1..(n + 1) -> Seq(Frames)], NEW k \in 1..(n + 1), v[k] = <<>>,
           \A j \in 1..n : IF j < k THEN v[j] = w[j] ELSE v[j + 1] = w[j]
    PROVE  SameContent(w, v)
<1> DEFINE m == n + 1
           h == [j \in 1..n |-> IF j < k THEN j ELSE j + 1]
<1>1. Spread(h, w, n, v, m)
  <2>1. h \in [1..n -> 1..m]
    BY SMTT(30)
  <2>2. \A i, j \in 1..n : i < j => h[i] < h[j]
    BY SMTT(30)
  <2>3. \A j \in 1..n : v[h[j]] = w[j]
    OBVIOUS
  <2>4. ASSUME NEW q \in 1..m, v[q] # <<>> PROVE \E j \in 1..n : h[j] = q
    <3>1. CASE q < k
      <4>1. q \in 1..n /\ h[q] = q
        BY <3>1
      <4> QED  BY <4>1
    <3>2. CASE q > k
      <4>1. q - 1 \in 1..n /\ h[q - 1] = q
        BY <3>2
      <4> QED  BY <4>1
    <3>3. q < k \/ q > k
      BY <2>4
    <3> QED  BY <3>1, <3>2, <3>3
  <2> HIDE DEF h, m
  <2> QED  BY <2>1, <2>2, <2>3, <2>4 DEF Spread
<1>2. m \in Nat /\ v \in [1..m -> Seq(Frames)]
  OBVIOUS
<1> HIDE DEF h, m
<1>3. /\ EventsIn(v) = EventsIn(w) /\ Welcomes(v) = Welcomes(w)
      /\ \A kind : Carries(v, kind) <=> Carries(w, kind)
      /\ Nothing(v) <=> Nothing(w)
      /\ WelcomeFirst(v) <=> WelcomeFirst(w)
  BY <1>1, <1>2, SpreadSame
<1> QED  BY <1>3 DEF SameContent

LEMMA WelcomeCarried == ASSUME NEW way PROVE Carries(way, "welcome") <=> Welcomes(way) # {}
<1>1. ASSUME Carries(way, "welcome") PROVE Welcomes(way) # {}
  <2>1. PICK j \in DOMAIN way : \E i \in DOMAIN way[j] : way[j][i].k = "welcome"
    BY <1>1 DEF Carries
  <2>2. PICK i \in DOMAIN way[j] : way[j][i].k = "welcome"
    BY <2>1
  <2>3. way[j][i] \in Welcomes(way)
    BY <2>2, WelcomesAre
  <2> QED  BY <2>3
<1>2. ASSUME NEW f \in Welcomes(way) PROVE Carries(way, "welcome")
  BY WelcomesAre DEF Carries
<1> QED  BY <1>1, <1>2

\* Welcomes have a sequence number and a run.
LEMMA WelcomesTyped ==
    ASSUME NEW n, NEW w \in [1..n -> Seq(Frames)], NEW f \in Welcomes(w)
    PROVE  f.seq \in 0..MaxEvents /\ f.seq \in Nat /\ f.run \in Runs /\ f.run \in Nat
<1>1. PICK j \in 1..n : \E i \in DOMAIN w[j] : f = w[j][i] /\ f.k = "welcome"
  BY WelcomesAre
<1>2. f \in Frames /\ f.k = "welcome"
  BY <1>1
<1>3. f.seq \in 0..MaxEvents /\ f.run \in Runs
  BY <1>2 DEF Frames
<1>4. MaxEvents \in Nat
  BY RemoteAssumption
<1>5. f.seq \in Nat
  BY <1>3, <1>4
<1>6. f.run \in Nat
  BY <1>3, Objects1
<1> QED  BY <1>3, <1>5, <1>6

\* StreamOK and NoGap, as predicates of what they are about.
Streamed(x, way, answered, tied, att, run, seq) ==
    /\ ~answered => Nothing(way) /\ ~att /\ x.run = None /\ x.stray = FALSE
    /\ x.seq = None <=> x.run = None
    /\ WelcomeFirst(way)
    /\ x.run # None => ~Carries(way, "welcome") /\ tied
    /\ \A s \in Snapshots(x, way) :
          /\ s.run <= run
          /\ s.seq + EventsIn(way) <= MaxEvents
          /\ att => s.run = run /\ s.seq + EventsIn(way) <= seq

Gapless(x, way, att, seq, crashed) ==
    /\ Snapshots(x, way) = {} => Nothing(way)
    /\ att => /\ ~Carries(way, "bye")
              /\ \E s \in Snapshots(x, way) : s.seq + EventsIn(way) = seq
    /\ ~att => \/ Carries(way, "bye")
               \/ \A s \in Snapshots(x, way) : s.run <= crashed

Tied(g, c) == c \in g.conns[g.sock[c].session] => g.sock[c].session \in g.handlers

LEMMA StreamIs ==
    ASSUME NEW c
    PROVE  /\ StreamOK(c) <=> Streamed(gw.sock[c], Way(c), Answered(c), Tied(gw, c),
                                       c \in owner.attached, owner.run, owner.seq)
           /\ StreamOK(c)' <=> Streamed(gw'.sock[c], Way(c)', Answered(c)', Tied(gw', c),
                                        c \in owner'.attached, owner'.run, owner'.seq)
BY DEF StreamOK, Streamed, Tied

LEMMA NoGapIs ==
    ASSUME NEW c
    PROVE  /\ NoGap(c) <=> /\ gw.sock[c].stray = FALSE
                           /\ Hearing(c) => heard = TRUE /\ gw.sub = <<>>
                           /\ Hearing(c) /\ gw.sock[c].up = "open" =>
                                 Gapless(gw.sock[c], Way(c), c \in owner.attached, owner.seq,
                                         owner.crashed)
           /\ NoGap(c)' <=> /\ gw'.sock[c].stray = FALSE
                            /\ Hearing(c)' => heard' = TRUE /\ gw'.sub = <<>>
                            /\ Hearing(c)' /\ gw'.sock[c].up = "open" =>
                                  Gapless(gw'.sock[c], Way(c)', c \in owner'.attached,
                                          owner'.seq, owner'.crashed)
BY DEF NoGap, Gapless

-----------------------------------------------------------------------------
\* What the owner's steps do to a way.
LEMMA WayPut ==
    ASSUME NEW posts \in Seq(Posts), NEW out \in Batches, NEW out2 \in Batches,
           NEW c \in Sockets, NEW f \in Frames, out2[c] = Append(out[c], f)
    PROVE  Put(WayOf(posts, out, c), WayOf(posts, out2, c), f)
<1> DEFINE w == WayOf(posts, out, c)
           v == WayOf(posts, out2, c)
           n == Len(posts) + 1
<1>1. Len(posts) \in Nat
  BY PostsTyped
<1>2. /\ w \in [1..n -> Seq(Frames)] /\ v \in [1..n -> Seq(Frames)]
      /\ w[n] = out[c] /\ v[n] = out2[c]
      /\ \A j \in 1..Len(posts) : v[j] = w[j]
  BY WayOfTyped
<1>3. n \in Nat \ {0} /\ \A j \in 1..n : j \in 1..Len(posts) \/ j = n
  BY <1>1
<1>4. \A j \in 1..n : v[j] = IF j = n THEN Append(w[n], f) ELSE w[j]
  <2> HIDE DEF w, v, n
  <2> QED  BY <1>2, <1>3
<1> HIDE DEF w, v, n
<1>5. Put(w, v, f)
  BY <1>2, <1>3, <1>4, PutOnWay
<1> QED  BY <1>5 DEF w, v

LEMMA WayLost ==
    ASSUME NEW posts \in Seq(Posts), NEW out \in Batches, NEW out2 \in Batches,
           NEW c \in Sockets, out2[c] = <<>>
    PROVE  Lost(WayOf(posts, out, c), WayOf(posts, out2, c))
<1> DEFINE w == WayOf(posts, out, c)
           v == WayOf(posts, out2, c)
           n == Len(posts) + 1
<1>1. Len(posts) \in Nat
  BY PostsTyped
<1>2. /\ w \in [1..n -> Seq(Frames)] /\ v \in [1..n -> Seq(Frames)]
      /\ v[n] = <<>>
      /\ \A j \in 1..Len(posts) : v[j] = w[j]
  BY WayOfTyped
<1>3. n \in Nat \ {0} /\ \A j \in 1..n : j \in 1..Len(posts) \/ j = n
  BY <1>1
<1>4. \A j \in 1..n : v[j] = IF j = n THEN <<>> ELSE w[j]
  <2> HIDE DEF w, v, n
  <2> QED  BY <1>2, <1>3
<1> HIDE DEF w, v, n
<1>5. Lost(w, v)
  BY <1>2, <1>3, <1>4, LostOnWay
<1> QED  BY <1>5 DEF w, v

LEMMA WaySame ==
    ASSUME NEW posts, NEW out, NEW out2, NEW c, out2[c] = out[c]
    PROVE  WayOf(posts, out2, c) = WayOf(posts, out, c)
BY DEF WayOf

LEMMA SnapshotsTyped ==
    ASSUME NEW x \in Socket, x.seq = None <=> x.run = None,
           NEW n, NEW w \in [1..n -> Seq(Frames)], NEW s \in Snapshots(x, w)
    PROVE  s.seq \in Nat /\ s.run \in Nat
<1>1. CASE x.run # None
  <2>1. s = [seq |-> x.seq, run |-> x.run]
    BY <1>1 DEF Snapshots
  <2>2. x.seq \in 0..MaxEvents /\ x.run \in Runs
    BY <1>1, SocketFields
  <2>3. x.seq \in Nat
    BY <2>2, RemoteAssumption
  <2>4. x.run \in Nat
    BY <2>2, Objects1
  <2> QED  BY <2>1, <2>3, <2>4
<1>2. CASE x.run = None
  <2>1. PICK f \in Welcomes(w) : s = [seq |-> f.seq, run |-> f.run]
    BY <1>2 DEF Snapshots
  <2>2. f.seq \in Nat /\ f.run \in Nat
    BY WelcomesTyped
  <2> QED  BY <2>1, <2>2
<1> QED  BY <1>1, <1>2

LEMMA PutStreamed ==
    ASSUME NEW x \in Socket, NEW n, NEW w \in [1..n -> Seq(Frames)], NEW v, NEW f,
           Put(w, v, f), f.k # "welcome",
           NEW a, NEW t, NEW att, NEW run, NEW seq \in Nat,
           Streamed(x, w, a, t, TRUE, run, seq),
           seq + (IF f.k = "event" THEN 1 ELSE 0) <= MaxEvents
    PROVE  Streamed(x, v, a, t, att, run, seq + (IF f.k = "event" THEN 1 ELSE 0))
<1> DEFINE one == IF f.k = "event" THEN 1 ELSE 0
<1>1. /\ Welcomes(v) = Welcomes(w) /\ WelcomeFirst(v)
      /\ Carries(v, "welcome") <=> Carries(w, "welcome")
      /\ EventsIn(v) = EventsIn(w) + one /\ EventsIn(w) \in Nat /\ one \in Nat
  BY DEF Put, Streamed
<1>2. Snapshots(x, v) = Snapshots(x, w)
  BY <1>1 DEF Snapshots
<1>3. x.seq = None <=> x.run = None
  BY DEF Streamed
<1>4. MaxEvents \in Nat
  BY RemoteAssumption
<1> HIDE DEF one
<1>5. ASSUME NEW s \in Snapshots(x, w)
      PROVE  /\ s.run <= run /\ s.run = run
             /\ s.seq + EventsIn(v) <= MaxEvents /\ s.seq + EventsIn(v) <= seq + one
  <2>1. s.seq \in Nat
    BY <1>3, SnapshotsTyped
  <2>2. s.run <= run /\ s.run = run /\ s.seq + EventsIn(w) <= seq
    BY DEF Streamed
  <2>3. seq + one <= MaxEvents
    BY DEF one
  <2> QED  BY <1>1, <1>4, <2>1, <2>2, <2>3
<1>6. Streamed(x, v, a, t, att, run, seq + one)
  BY <1>1, <1>2, <1>5 DEF Streamed
<1> QED  BY <1>6 DEF one

LEMMA PutGapless ==
    ASSUME NEW x \in Socket, NEW n, NEW w \in [1..n -> Seq(Frames)], NEW v, NEW f,
           Put(w, v, f), f.k # "welcome", x.seq = None <=> x.run = None,
           NEW seq \in Nat, NEW crashed, Gapless(x, w, TRUE, seq, crashed)
    PROVE  Gapless(x, v, f.k # "bye", seq + (IF f.k = "event" THEN 1 ELSE 0), crashed)
<1>1. /\ Welcomes(v) = Welcomes(w)
      /\ Carries(v, "bye") <=> f.k = "bye"
      /\ EventsIn(v) = EventsIn(w) + (IF f.k = "event" THEN 1 ELSE 0) /\ EventsIn(w) \in Nat
  BY DEF Put, Gapless
<1>2. Snapshots(x, v) = Snapshots(x, w)
  BY <1>1 DEF Snapshots
<1>3. PICK s \in Snapshots(x, w) : s.seq + EventsIn(w) = seq
  BY DEF Gapless
<1>4. s.seq \in Nat
  BY SnapshotsTyped
<1>5. s.seq + EventsIn(v) = seq + (IF f.k = "event" THEN 1 ELSE 0)
  BY <1>1, <1>3, <1>4
<1> QED  BY <1>1, <1>2, <1>3, <1>5 DEF Gapless

LEMMA FewerStreamed ==
    ASSUME NEW x \in Socket, NEW n, NEW w \in [1..n -> Seq(Frames)], NEW v, Fewer(w, v),
           NEW a, NEW t, NEW att, NEW run, NEW seq \in Nat,
           Streamed(x, w, a, t, att, run, seq)
    PROVE  /\ Streamed(x, v, a, t, att, run, seq)
           /\ Snapshots(x, v) \subseteq Snapshots(x, w)
<1>1. Snapshots(x, v) \subseteq Snapshots(x, w)
  BY DEF Snapshots, Fewer
<1>2. x.seq = None <=> x.run = None
  BY DEF Streamed
<1>3. MaxEvents \in Nat /\ EventsIn(v) \in Nat /\ EventsIn(w) \in Nat /\ EventsIn(v) <= EventsIn(w)
  BY RemoteAssumption DEF Fewer
<1>4. ASSUME NEW s \in Snapshots(x, w)
      PROVE  /\ s.run <= run /\ s.seq + EventsIn(v) <= MaxEvents
             /\ att => s.run = run /\ s.seq + EventsIn(v) <= seq
  <2>1. s.seq \in Nat
    BY <1>2, SnapshotsTyped
  <2>2. /\ s.run <= run /\ s.seq + EventsIn(w) <= MaxEvents
        /\ att => s.run = run /\ s.seq + EventsIn(w) <= seq
    BY DEF Streamed
  <2> QED  BY <1>3, <2>1, <2>2
<1>5. Streamed(x, v, a, t, att, run, seq)
  BY <1>1, <1>4 DEF Streamed, Fewer
<1> QED  BY <1>1, <1>5

LEMMA SameStreamed ==
    ASSUME NEW x, NEW w, NEW v, SameContent(w, v)
    PROVE  /\ \A a, t, att, run, seq :
                 Streamed(x, w, a, t, att, run, seq) => Streamed(x, v, a, t, att, run, seq)
           /\ \A att, seq, crashed :
                 Gapless(x, w, att, seq, crashed) => Gapless(x, v, att, seq, crashed)
<1>1. Snapshots(x, v) = Snapshots(x, w)
  BY DEF Snapshots, SameContent
<1>2. \A a, t, att, run, seq :
        Streamed(x, w, a, t, att, run, seq) => Streamed(x, v, a, t, att, run, seq)
  BY <1>1 DEF Streamed, SameContent
<1>3. \A att, seq, crashed :
        Gapless(x, w, att, seq, crashed) => Gapless(x, v, att, seq, crashed)
  BY <1>1 DEF Gapless, SameContent
<1> QED  BY <1>2, <1>3

\* A step that leaves the gateway as it is.
LEMMA OwnerKeeps ==
    ASSUME RemoteInv, gw' = gw, StateTyped', SubsOK', InboxOK', owner'.crashed <= owner'.run,
           \A c \in Sockets : Streamed(gw.sock[c], Way(c)', Answered(c), Tied(gw, c),
                                       c \in owner'.attached, owner'.run, owner'.seq),
           SlowSubscribe = FALSE =>
              /\ heard' = heard
              /\ \A c \in Sockets : Hearing(c) /\ gw.sock[c].up = "open" =>
                    Gapless(gw.sock[c], Way(c)', c \in owner'.attached, owner'.seq, owner'.crashed)
    PROVE  RemoteInv'
<1>1. BooksOK(gw')
  BY DEF RemoteInv
<1>2. \A c \in Sockets : Answered(c)' <=> Answered(c)
  BY DEF Answered, Coming
<1>3. \A c \in Sockets : Hearing(c)' <=> Hearing(c)
  BY <1>2 DEF Hearing
<1>4. \A c \in Sockets : StreamOK(c)'
  <2>1. SUFFICES ASSUME NEW c \in Sockets PROVE StreamOK(c)'
    OBVIOUS
  <2>2. CASE Answered(c)
    <3>1. Answered(c)'
      BY <1>2, <2>2
    <3> QED  BY <2>2, <3>1, StreamIs DEF Streamed
  <2>3. CASE ~Answered(c)
    <3>1. ~Answered(c)'
      BY <1>2, <2>3
    <3> QED  BY <2>3, <3>1, StreamIs DEF Streamed
  <2> QED  BY <2>2, <2>3
<1>5. SlowSubscribe = FALSE => \A c \in Sockets : NoGap(c)'
  <2>1. SUFFICES ASSUME SlowSubscribe = FALSE, NEW c \in Sockets PROVE NoGap(c)'
    OBVIOUS
  <2>2. /\ gw.sock[c].stray = FALSE
        /\ Hearing(c) => heard = TRUE /\ gw.sub = <<>>
    BY <2>1 DEF RemoteInv, NoGap
  <2> QED  BY <1>3, <2>1, <2>2, NoGapIs
<1> QED  BY <1>1, <1>4, <1>5 DEF RemoteInv

-----------------------------------------------------------------------------
\* The steps of the owner keep the invariant.
LEMMA Facts ==
    ASSUME RemoteInv
    PROVE  /\ gw \in Gateway /\ heard \in BOOLEAN /\ toGateway \in Seq(Posts)
           /\ owner \in Owners /\ owner.out \in Batches
           /\ faults \in 0..MaxFaults /\ answers \in 0..MaxAnswers
           /\ \A c \in Sockets :
                 /\ gw.sock[c] \in Socket
                 /\ Streamed(gw.sock[c], Way(c), Answered(c), Tied(gw, c),
                             c \in owner.attached, owner.run, owner.seq)
           /\ SlowSubscribe = FALSE =>
                 \A c \in Sockets : Hearing(c) /\ gw.sock[c].up = "open" =>
                    Gapless(gw.sock[c], Way(c), c \in owner.attached, owner.seq, owner.crashed)
<1>1. StateTyped
  BY DEF RemoteInv
<1>2. /\ gw \in Gateway /\ heard \in BOOLEAN /\ toGateway \in Seq(Posts)
      /\ owner \in Owners /\ faults \in 0..MaxFaults /\ answers \in 0..MaxAnswers
  BY <1>1 DEF StateTyped, Posts
<1>3. owner.out \in Batches
  BY <1>2, OwnerFields
<1>4. \A c \in Sockets : gw.sock[c] \in Socket
  BY <1>2, GatewayFields
<1>5. \A c \in Sockets : Streamed(gw.sock[c], Way(c), Answered(c), Tied(gw, c),
                                  c \in owner.attached, owner.run, owner.seq)
  BY StreamIs DEF RemoteInv
<1>6. SlowSubscribe = FALSE => \A c \in Sockets : Hearing(c) /\ gw.sock[c].up = "open" =>
          Gapless(gw.sock[c], Way(c), c \in owner.attached, owner.seq, owner.crashed)
  BY NoGapIs DEF RemoteInv
<1> QED  BY <1>2, <1>3, <1>4, <1>5, <1>6

\* A step of the owner leaves the gateway's queue in order when it attaches nobody.
LEMMA InboxKeeps ==
    ASSUME InboxOK, gw' = gw, owner'.attached \subseteq owner.attached,
           owner'.attached # {} => owner'.serving = TRUE
    PROVE  InboxOK'
<1>1. \A c, t : Coming(t, c)' <=> Coming(t, c)
  BY DEF Coming
<1>2. \A c \in owner'.attached :
        /\ gw'.sock[c].at = "joined" /\ gw'.sock[c].session # None
        /\ Held(gw', c) \/ gw'.sock[c].abandoned = TRUE \/ Coming("detach", c)'
  <2>1. SUFFICES ASSUME NEW c \in owner'.attached
                 PROVE  /\ gw'.sock[c].at = "joined" /\ gw'.sock[c].session # None
                        /\ Held(gw', c) \/ gw'.sock[c].abandoned = TRUE \/ Coming("detach", c)'
    OBVIOUS
  <2>2. /\ gw.sock[c].at = "joined" /\ gw.sock[c].session # None
        /\ Held(gw, c) \/ gw.sock[c].abandoned = TRUE \/ Coming("detach", c)
    BY DEF InboxOK
  <2> QED  BY <1>1, <2>2
<1>3. ASSUME NEW i \in DOMAIN gw'.inbox
      PROVE  LET m == gw'.inbox[i]
             IN  /\ m.t \in {"join", "detach"} =>
                       gw'.sock[m.c].at = "joined" /\ gw'.sock[m.c].session # None
                 /\ m.t = "detach" => ~Held(gw', m.c)
                 /\ m.t = "join" =>
                       /\ m.c \notin owner'.attached
                       /\ \A j \in DOMAIN gw'.inbox : gw'.inbox[j] = m => j = i
                       /\ \/ Held(gw', m.c) \/ gw'.sock[m.c].abandoned = TRUE
                          \/ \E j \in DOMAIN gw'.inbox :
                                j > i /\ gw'.inbox[j] = [t |-> "detach", c |-> m.c]
  <2>1. LET m == gw.inbox[i]
        IN  /\ m.t \in {"join", "detach"} =>
                  gw.sock[m.c].at = "joined" /\ gw.sock[m.c].session # None
            /\ m.t = "detach" => ~Held(gw, m.c)
            /\ m.t = "join" =>
                  /\ m.c \notin owner.attached
                  /\ \A j \in DOMAIN gw.inbox : gw.inbox[j] = m => j = i
                  /\ \/ Held(gw, m.c) \/ gw.sock[m.c].abandoned = TRUE
                     \/ \E j \in DOMAIN gw.inbox :
                           j > i /\ gw.inbox[j] = [t |-> "detach", c |-> m.c]
    BY <1>3 DEF InboxOK
  <2> QED  BY <2>1
<1> QED  BY <1>2, <1>3 DEF InboxOK

EnqueuedAll(o, f, h) ==
    /\ h \in Owners /\ h.run = o.run /\ h.serving = o.serving /\ h.crashed = o.crashed
    /\ h.attached = o.attached /\ h.seq = o.seq /\ h.out \in Batches
    /\ \A c \in Sockets :
          h.out[c] = IF c \in o.attached THEN Append(o.out[c], f) ELSE o.out[c]

LEMMA EnqueueAllDoes ==
    ASSUME NEW o \in Owners, NEW f \in Frames, NEW h, h = EnqueueAll(o, f)
    PROVE  EnqueuedAll(o, f, h)
<1> DEFINE B == [c \in Sockets |-> IF c \in o.attached THEN Append(o.out[c], f) ELSE o.out[c]]
<1>1. h = [o EXCEPT !.out = B]
  BY DEF EnqueueAll
<1>2. B \in Batches
  <2>1. \A c \in Sockets : o.out[c] \in Seq(Frames)
    BY OwnerFields DEF Batches
  <2>2. \A c \in Sockets : Append(o.out[c], f) \in Seq(Frames)
    BY <2>1
  <2> QED  BY <2>1, <2>2 DEF Batches
<1>3. \A c \in Sockets : B[c] = IF c \in o.attached THEN Append(o.out[c], f) ELSE o.out[c]
  OBVIOUS
<1> HIDE DEF B
<1>4. h \in Owners
  BY <1>1, <1>2 DEF Owners
<1>5. /\ h.run = o.run /\ h.serving = o.serving /\ h.crashed = o.crashed
      /\ h.attached = o.attached /\ h.seq = o.seq /\ h.out = B
  BY <1>1, OwnerFields
<1> QED  BY <1>2, <1>3, <1>4, <1>5 DEF EnqueuedAll

LEMMA BroadcastKeeps ==
    ASSUME RemoteInv, Broadcast
    PROVE  RemoteInv'
<1> DEFINE o == [owner EXCEPT !.seq = @ + 1]
           f == [k |-> "event"]
<1>1. /\ gw' = gw /\ heard' = heard /\ toGateway' = toGateway /\ faults' = faults
      /\ answers' = answers /\ owner.seq < MaxEvents /\ owner.serving
      /\ owner' = EnqueueAll(o, f)
  BY DEF Broadcast, bounds
<1>2. /\ owner \in Owners /\ toGateway \in Seq(Posts) /\ owner.out \in Batches
  BY Facts
<1>3. /\ owner.seq \in Nat /\ owner.seq + 1 \in 0..MaxEvents /\ owner.seq + 1 <= MaxEvents
      /\ DOMAIN owner = {"run", "serving", "crashed", "attached", "seq", "out"}
  BY <1>1, <1>2, OwnerFields, RemoteAssumption
<1>4. /\ o \in Owners /\ o.run = owner.run /\ o.serving = owner.serving
      /\ o.crashed = owner.crashed /\ o.attached = owner.attached /\ o.seq = owner.seq + 1
      /\ o.out = owner.out
  BY <1>2, <1>3 DEF Owners
<1>5. f \in Frames /\ f.k = "event"
  BY DEF Frames
<1> HIDE DEF o, f
<1>0. EnqueuedAll(o, f, owner')
  BY <1>1, <1>4, <1>5, EnqueueAllDoes
<1>6. /\ owner' \in Owners /\ owner'.run = owner.run /\ owner'.serving = owner.serving
      /\ owner'.crashed = owner.crashed /\ owner'.attached = owner.attached
      /\ owner'.seq = owner.seq + 1 /\ owner'.out \in Batches
      /\ \A c \in Sockets : owner'.out[c] = IF c \in owner.attached THEN Append(owner.out[c], f)
                                            ELSE owner.out[c]
  BY <1>0, <1>4 DEF EnqueuedAll
<1>7. StateTyped' /\ SubsOK' /\ InboxOK' /\ owner'.crashed <= owner'.run
  <2>1. StateTyped'
    BY <1>1, <1>6 DEF RemoteInv, StateTyped
  <2>2. SubsOK'
    BY <1>1 DEF RemoteInv, SubsOK
  <2>3. InboxOK'
    BY <1>1, <1>6, InboxKeeps DEF RemoteInv, InboxOK
  <2> QED  BY <1>6, <2>1, <2>2, <2>3 DEF RemoteInv
<1>8. ASSUME NEW c \in Sockets
      PROVE  /\ Streamed(gw.sock[c], Way(c)', Answered(c), Tied(gw, c),
                         c \in owner'.attached, owner'.run, owner'.seq)
             /\ SlowSubscribe = FALSE /\ Hearing(c) /\ gw.sock[c].up = "open" =>
                   Gapless(gw.sock[c], Way(c)', c \in owner'.attached, owner'.seq, owner'.crashed)
  <2> DEFINE x == gw.sock[c]
             w == Way(c)
             v == Way(c)'
             a == Answered(c)
             t == Tied(gw, c)
  <2>1. /\ x \in Socket
        /\ Streamed(x, w, a, t, c \in owner.attached, owner.run, owner.seq)
        /\ SlowSubscribe = FALSE /\ Hearing(c) /\ x.up = "open" =>
              Gapless(x, w, c \in owner.attached, owner.seq, owner.crashed)
    BY Facts
  <2>2. w = WayOf(toGateway, owner.out, c) /\ v = WayOf(toGateway, owner'.out, c)
    BY <1>1, WayIs
  <2>3. w \in [1..(Len(toGateway) + 1) -> Seq(Frames)]
    BY <1>2, <2>2, WayOfTyped
  <2> HIDE DEF x, w, v, a, t
  <2>4. CASE c \in owner.attached
    <3>1. Put(w, v, f)
      BY <1>2, <1>5, <1>6, <2>2, <2>4, WayPut
    <3>2. Streamed(x, w, a, t, TRUE, owner.run, owner.seq)
      BY <2>1, <2>4 DEF Streamed
    <3>3. Streamed(x, v, a, t, TRUE, owner.run, owner.seq + 1)
      BY <1>3, <1>5, <2>1, <2>3, <3>1, <3>2, PutStreamed
    <3>4. Streamed(x, v, a, t, c \in owner'.attached, owner'.run, owner'.seq)
      BY <1>6, <2>4, <3>3 DEF Streamed
    <3>5. ASSUME SlowSubscribe = FALSE, Hearing(c), x.up = "open"
          PROVE  Gapless(x, v, c \in owner'.attached, owner'.seq, owner'.crashed)
      <4>1. Gapless(x, w, TRUE, owner.seq, owner.crashed)
        BY <2>1, <2>4, <3>5 DEF Gapless
      <4>2. x.seq = None <=> x.run = None
        BY <2>1 DEF Streamed
      <4>3. Gapless(x, v, f.k # "bye", owner.seq + 1, owner.crashed)
        BY <1>3, <1>5, <2>1, <2>3, <3>1, <4>1, <4>2, PutGapless
      <4> QED  BY <1>5, <1>6, <2>4, <4>3 DEF Gapless
    <3> QED  BY <3>4, <3>5 DEF x, v, a, t
  <2>5. CASE c \notin owner.attached
    <3>1. v = w
      BY <1>6, <2>2, <2>5, WaySame
    <3>2. Streamed(x, v, a, t, c \in owner'.attached, owner'.run, owner'.seq)
      BY <1>6, <2>1, <2>5, <3>1 DEF Streamed
    <3>3. SlowSubscribe = FALSE /\ Hearing(c) /\ x.up = "open" =>
             Gapless(x, v, c \in owner'.attached, owner'.seq, owner'.crashed)
      BY <1>6, <2>1, <2>5, <3>1 DEF Gapless
    <3> QED  BY <3>2, <3>3 DEF x, v, a, t
  <2> QED  BY <2>4, <2>5
<1> QED  BY <1>1, <1>7, <1>8, OwnerKeeps

LEMMA DisposeKeeps ==
    ASSUME RemoteInv, Dispose
    PROVE  RemoteInv'
<1> DEFINE f == [k |-> "bye"]
           o == EnqueueAll(owner, f)
<1>1. /\ gw' = gw /\ heard' = heard /\ toGateway' = toGateway /\ faults' = faults
      /\ answers' = answers /\ owner.serving
      /\ owner' = [o EXCEPT !.attached = {}, !.serving = FALSE]
  BY DEF Dispose, bounds, Disposed
<1>2. /\ owner \in Owners /\ toGateway \in Seq(Posts) /\ owner.out \in Batches
  BY Facts
<1>5. f \in Frames /\ f.k = "bye"
  BY DEF Frames
<1> HIDE DEF f
<1>4. /\ o \in Owners /\ o.run = owner.run /\ o.crashed = owner.crashed
      /\ o.seq = owner.seq /\ o.out \in Batches
      /\ \A c \in Sockets : o.out[c] = IF c \in owner.attached THEN Append(owner.out[c], f)
                                       ELSE owner.out[c]
  BY <1>2, <1>5, EnqueueAllDoes DEF EnqueuedAll
<1> HIDE DEF o
<1>6. /\ owner' \in Owners /\ owner'.run = owner.run /\ owner'.serving = FALSE
      /\ owner'.crashed = owner.crashed /\ owner'.attached = {}
      /\ owner'.seq = owner.seq /\ owner'.out \in Batches /\ owner'.out = o.out
  <2>1. owner' \in Owners
    BY <1>1, <1>4 DEF Owners
  <2> QED  BY <1>1, <1>4, <2>1, OwnerFields
<1>7. StateTyped' /\ SubsOK' /\ InboxOK' /\ owner'.crashed <= owner'.run
  <2>1. StateTyped'
    BY <1>1, <1>6 DEF RemoteInv, StateTyped
  <2>2. SubsOK'
    BY <1>1 DEF RemoteInv, SubsOK
  <2>3. InboxOK'
    BY <1>1, <1>6, InboxKeeps DEF RemoteInv, InboxOK
  <2> QED  BY <1>6, <2>1, <2>2, <2>3 DEF RemoteInv
<1>3. owner.seq \in Nat /\ owner.seq <= MaxEvents
  BY <1>2, OwnerFields, RemoteAssumption
<1>8. ASSUME NEW c \in Sockets
      PROVE  /\ Streamed(gw.sock[c], Way(c)', Answered(c), Tied(gw, c),
                         c \in owner'.attached, owner'.run, owner'.seq)
             /\ SlowSubscribe = FALSE /\ Hearing(c) /\ gw.sock[c].up = "open" =>
                   Gapless(gw.sock[c], Way(c)', c \in owner'.attached, owner'.seq, owner'.crashed)
  <2> DEFINE x == gw.sock[c]
             w == Way(c)
             v == Way(c)'
             a == Answered(c)
             t == Tied(gw, c)
  <2>1. /\ x \in Socket
        /\ Streamed(x, w, a, t, c \in owner.attached, owner.run, owner.seq)
        /\ SlowSubscribe = FALSE /\ Hearing(c) /\ x.up = "open" =>
              Gapless(x, w, c \in owner.attached, owner.seq, owner.crashed)
    BY Facts
  <2>2. w = WayOf(toGateway, owner.out, c) /\ v = WayOf(toGateway, owner'.out, c)
    BY <1>1, WayIs
  <2>3. w \in [1..(Len(toGateway) + 1) -> Seq(Frames)]
    BY <1>2, <2>2, WayOfTyped
  <2> HIDE DEF x, w, v, a, t
  <2>4. CASE c \in owner.attached
    <3>1. Put(w, v, f)
      BY <1>2, <1>4, <1>5, <1>6, <2>2, <2>4, WayPut
    <3>2. Streamed(x, w, a, t, TRUE, owner.run, owner.seq)
      BY <2>1, <2>4 DEF Streamed
    <3>3. Streamed(x, v, a, t, FALSE, owner.run, owner.seq + 0)
      <4> DEFINE one == IF f.k = "event" THEN 1 ELSE 0
      <4>1. one = 0 /\ owner.seq + one <= MaxEvents /\ f.k # "welcome"
        BY <1>3, <1>5
      <4>2. Streamed(x, v, a, t, FALSE, owner.run, owner.seq + one)
        BY <1>3, <2>1, <2>3, <3>1, <3>2, <4>1, PutStreamed
      <4> QED  BY <4>1, <4>2
    <3>4. Streamed(x, v, a, t, c \in owner'.attached, owner'.run, owner'.seq)
      BY <1>6, <2>4, <3>3 DEF Streamed
    <3>5. ASSUME SlowSubscribe = FALSE, Hearing(c), x.up = "open"
          PROVE  Gapless(x, v, c \in owner'.attached, owner'.seq, owner'.crashed)
      <4>1. Gapless(x, w, TRUE, owner.seq, owner.crashed)
        BY <2>1, <2>4, <3>5 DEF Gapless
      <4>2. x.seq = None <=> x.run = None
        BY <2>1 DEF Streamed
      <4>3. Gapless(x, v, f.k # "bye", owner.seq + 0, owner.crashed)
        BY <1>3, <1>5, <2>1, <2>3, <3>1, <4>1, <4>2, PutGapless
      <4> QED  BY <1>5, <1>6, <2>4, <4>3 DEF Gapless
    <3> QED  BY <3>4, <3>5 DEF x, v, a, t
  <2>5. CASE c \notin owner.attached
    <3>1. v = w
      BY <1>4, <1>6, <2>2, <2>5, WaySame
    <3>2. Streamed(x, v, a, t, c \in owner'.attached, owner'.run, owner'.seq)
      BY <1>6, <2>1, <2>5, <3>1 DEF Streamed
    <3>3. SlowSubscribe = FALSE /\ Hearing(c) /\ x.up = "open" =>
             Gapless(x, v, c \in owner'.attached, owner'.seq, owner'.crashed)
      BY <1>6, <2>1, <2>5, <3>1 DEF Gapless
    <3> QED  BY <3>2, <3>3 DEF x, v, a, t
  <2> QED  BY <2>4, <2>5
<1> QED  BY <1>1, <1>7, <1>8, OwnerKeeps

LEMMA CrashKeeps ==
    ASSUME RemoteInv, Crash
    PROVE  RemoteInv'
<1>1. /\ gw' = gw /\ heard' = heard /\ toGateway' = toGateway /\ faults' = faults + 1
      /\ answers' = answers /\ faults < MaxFaults
      /\ owner' = [owner EXCEPT !.serving = FALSE, !.crashed = owner.run,
                                !.attached = {}, !.out = Quiet]
  BY DEF Crash
<1>2. /\ owner \in Owners /\ toGateway \in Seq(Posts) /\ owner.out \in Batches
      /\ faults' \in 0..MaxFaults /\ answers \in 0..MaxAnswers
  BY <1>1, Facts, RemoteAssumption
<1>3. owner.seq \in Nat /\ owner.run \in Nat /\ owner.run \in 0..MaxRuns
  <2>1. owner.seq \in Nat /\ owner.run \in Nat /\ owner.run \in Runs
    BY <1>2, OwnerFields
  <2> QED  BY <2>1, RemoteAssumption DEF Runs
<1>4. Quiet \in Batches /\ \A c \in Sockets : Quiet[c] = <<>>
  BY DEF Quiet, Batches
<1>6. /\ owner' \in Owners /\ owner'.run = owner.run /\ owner'.serving = FALSE
      /\ owner'.crashed = owner.run /\ owner'.attached = {}
      /\ owner'.seq = owner.seq /\ owner'.out = Quiet
  <2>1. owner' \in Owners
    BY <1>1, <1>2, <1>3, <1>4 DEF Owners
  <2> QED  BY <1>1, <1>2, <2>1, OwnerFields
<1>7. StateTyped' /\ SubsOK' /\ InboxOK' /\ owner'.crashed <= owner'.run
  <2>1. StateTyped'
    BY <1>1, <1>2, <1>6 DEF RemoteInv, StateTyped
  <2>2. SubsOK'
    BY <1>1 DEF RemoteInv, SubsOK
  <2>3. InboxOK'
    BY <1>1, <1>6, InboxKeeps DEF RemoteInv, InboxOK
  <2> QED  BY <1>3, <1>6, <2>1, <2>2, <2>3
<1>8. ASSUME NEW c \in Sockets
      PROVE  /\ Streamed(gw.sock[c], Way(c)', Answered(c), Tied(gw, c),
                         c \in owner'.attached, owner'.run, owner'.seq)
             /\ SlowSubscribe = FALSE /\ Hearing(c) /\ gw.sock[c].up = "open" =>
                   Gapless(gw.sock[c], Way(c)', c \in owner'.attached, owner'.seq, owner'.crashed)
  <2> DEFINE x == gw.sock[c]
             w == Way(c)
             v == Way(c)'
             a == Answered(c)
             t == Tied(gw, c)
  <2>1. /\ x \in Socket
        /\ Streamed(x, w, a, t, c \in owner.attached, owner.run, owner.seq)
        /\ SlowSubscribe = FALSE /\ Hearing(c) /\ x.up = "open" =>
              Gapless(x, w, c \in owner.attached, owner.seq, owner.crashed)
    BY Facts
  <2>2. w = WayOf(toGateway, owner.out, c) /\ v = WayOf(toGateway, owner'.out, c)
    BY <1>1, WayIs
  <2>3. w \in [1..(Len(toGateway) + 1) -> Seq(Frames)]
    BY <1>2, <2>2, WayOfTyped
  <2> HIDE DEF x, w, v, a, t
  <2>4. Lost(w, v)
    BY <1>2, <1>4, <1>6, <2>2, WayLost
  <2> DEFINE att == c \in owner.attached
  <2>5. /\ Streamed(x, v, a, t, att, owner.run, owner.seq)
        /\ Snapshots(x, v) \subseteq Snapshots(x, w)
    <3> HIDE DEF att
    <3>1. Streamed(x, w, a, t, att, owner.run, owner.seq)
      BY <2>1 DEF att
    <3> QED  BY <1>3, <2>1, <2>3, <2>4, <3>1, FewerStreamed DEF Lost
  <2>6. Streamed(x, v, a, t, c \in owner'.attached, owner'.run, owner'.seq)
    BY <1>6, <2>5 DEF Streamed
  <2>7. ASSUME SlowSubscribe = FALSE, Hearing(c), x.up = "open"
        PROVE  Gapless(x, v, c \in owner'.attached, owner'.seq, owner'.crashed)
    <3>1. \A s \in Snapshots(x, v) : s.run <= owner.run
      BY <2>5 DEF Streamed
    <3>2. Snapshots(x, w) = {} => Nothing(w)
      BY <2>1, <2>7 DEF Gapless
    <3>3. ASSUME Snapshots(x, v) = {} PROVE Nothing(v)
      <4>1. x.run = None /\ Welcomes(v) = {}
        BY <3>3 DEF Snapshots
      <4>2. CASE Welcomes(w) = {}
        <5>1. Snapshots(x, w) = {}
          BY <4>1, <4>2 DEF Snapshots
        <5> QED  BY <2>4, <3>2, <5>1 DEF Lost, Fewer
      <4>3. CASE Welcomes(w) # {}
        <5>1. WelcomeFirst(w)
          BY <2>1 DEF Streamed
        <5> QED  BY <2>4, <4>1, <4>3, <5>1 DEF Lost
      <4> QED  BY <4>2, <4>3
    <3> QED  BY <1>6, <3>1, <3>3 DEF Gapless
  <2> QED  BY <2>6, <2>7 DEF x, v, a, t
<1> QED  BY <1>1, <1>7, <1>8, OwnerKeeps

LEMMA NextRunKeeps ==
    ASSUME RemoteInv, NextRun
    PROVE  RemoteInv'
<1>1. /\ gw' = gw /\ heard' = heard /\ toGateway' = toGateway /\ faults' = faults
      /\ answers' = answers /\ ~owner.serving /\ owner.run < MaxRuns
      /\ owner' = [owner EXCEPT !.run = @ + 1, !.serving = TRUE, !.seq = 0]
  BY DEF NextRun, bounds
<1>2. /\ owner \in Owners /\ toGateway \in Seq(Posts) /\ owner.out \in Batches
  BY Facts
<1>3. owner.seq \in Nat /\ owner.run \in Nat /\ owner.run + 1 \in Runs /\ 0 \in 0..MaxEvents
  <2>1. owner.seq \in Nat /\ owner.run \in Nat /\ owner.run \in Runs
    BY <1>2, OwnerFields
  <2> QED  BY <1>1, <2>1, RemoteAssumption DEF Runs
<1>4. owner.attached = {}
  BY <1>1 DEF RemoteInv, InboxOK
<1>6. /\ owner' \in Owners /\ owner'.run = owner.run + 1 /\ owner'.serving = TRUE
      /\ owner'.crashed = owner.crashed /\ owner'.attached = {}
      /\ owner'.seq = 0 /\ owner'.out = owner.out
  <2>1. owner' \in Owners
    BY <1>1, <1>2, <1>3 DEF Owners
  <2> QED  BY <1>1, <1>2, <1>4, <2>1, OwnerFields
<1>7. StateTyped' /\ SubsOK' /\ InboxOK' /\ owner'.crashed <= owner'.run
  <2>1. StateTyped'
    BY <1>1, <1>2, <1>6 DEF RemoteInv, StateTyped
  <2>2. SubsOK'
    BY <1>1 DEF RemoteInv, SubsOK
  <2>3. InboxOK'
    BY <1>1, <1>4, <1>6, InboxKeeps DEF RemoteInv
  <2>4. owner.crashed <= owner.run /\ owner.crashed \in Nat
    BY <1>2, OwnerFields DEF RemoteInv
  <2> QED  BY <1>3, <1>6, <2>1, <2>2, <2>3, <2>4
<1>8. ASSUME NEW c \in Sockets
      PROVE  /\ Streamed(gw.sock[c], Way(c)', Answered(c), Tied(gw, c),
                         c \in owner'.attached, owner'.run, owner'.seq)
             /\ SlowSubscribe = FALSE /\ Hearing(c) /\ gw.sock[c].up = "open" =>
                   Gapless(gw.sock[c], Way(c)', c \in owner'.attached, owner'.seq, owner'.crashed)
  <2> DEFINE x == gw.sock[c]
             w == Way(c)
             v == Way(c)'
             a == Answered(c)
             t == Tied(gw, c)
  <2>1. /\ x \in Socket
        /\ Streamed(x, w, a, t, c \in owner.attached, owner.run, owner.seq)
        /\ SlowSubscribe = FALSE /\ Hearing(c) /\ x.up = "open" =>
              Gapless(x, w, c \in owner.attached, owner.seq, owner.crashed)
    BY Facts
  <2>2. w = WayOf(toGateway, owner.out, c) /\ v = WayOf(toGateway, owner'.out, c)
    BY <1>1, WayIs
  <2>3. w \in [1..(Len(toGateway) + 1) -> Seq(Frames)]
    BY <1>2, <2>2, WayOfTyped
  <2> HIDE DEF x, w, v, a, t
  <2>4. v = w
    BY <1>6, <2>2
  <2>5. \A s \in Snapshots(x, w) : s.run <= owner'.run
    <3>1. x.seq = None <=> x.run = None
      BY <2>1 DEF Streamed
    <3>2. ASSUME NEW s \in Snapshots(x, w) PROVE s.run <= owner'.run
      <4>1. s.run <= owner.run
        BY <2>1 DEF Streamed
      <4>2. s.run \in Nat
        BY <2>1, <2>3, <3>1, SnapshotsTyped
      <4> QED  BY <1>3, <1>6, <4>1, <4>2
    <3> QED  BY <3>2
  <2>6. Streamed(x, v, a, t, c \in owner'.attached, owner'.run, owner'.seq)
    BY <1>6, <2>1, <2>4, <2>5 DEF Streamed
  <2>7. SlowSubscribe = FALSE /\ Hearing(c) /\ x.up = "open" =>
           Gapless(x, v, c \in owner'.attached, owner'.seq, owner'.crashed)
    BY <1>4, <1>6, <2>1, <2>4 DEF Gapless
  <2> QED  BY <2>6, <2>7 DEF x, v, a, t
<1> QED  BY <1>1, <1>7, <1>8, OwnerKeeps

LEMMA AppendPosts ==
    ASSUME NEW posts \in Seq(Posts), NEW m \in Posts, NEW posts2, posts2 = Append(posts, m)
    PROVE  /\ posts2 \in Seq(Posts) /\ Len(posts) \in Nat /\ Len(posts2) = Len(posts) + 1
           /\ DOMAIN posts2 = 1..(Len(posts) + 1) /\ posts2[Len(posts) + 1] = m
           /\ DOMAIN posts = 1..Len(posts)
           /\ \A j \in 1..Len(posts) : posts2[j] = posts[j]
OBVIOUS

LEMMA WayPublished ==
    ASSUME NEW posts \in Seq(Posts), NEW out \in Batches, NEW out2 \in Batches,
           NEW c \in Sockets, out2[c] = <<>>,
           NEW posts2, posts2 = Append(posts, [t |-> "batch", frames |-> out])
    PROVE  /\ posts2 \in Seq(Posts)
           /\ SameContent(WayOf(posts, out, c), WayOf(posts2, out2, c))
<1> DEFINE m == [t |-> "batch", frames |-> out]
           n == Len(posts) + 1
           w == WayOf(posts, out, c)
           v == WayOf(posts2, out2, c)
<1>1. m \in Posts /\ m.t = "batch" /\ m.frames = out
  BY DEF Posts
<1> HIDE DEF m
<1>2. /\ posts2 \in Seq(Posts) /\ Len(posts) \in Nat /\ Len(posts2) = n
      /\ posts2[n] = m /\ \A j \in 1..Len(posts) : posts2[j] = posts[j]
  BY <1>1, AppendPosts DEF m
<1>3. /\ n \in Nat /\ n + 1 \in 1..(n + 1) /\ n \in 1..n
      /\ \A j \in 1..n : j < n + 1 /\ (j \in 1..Len(posts) \/ j = n)
      /\ \A j \in 1..Len(posts) : j \in 1..n
  BY <1>2
<1>4. /\ w \in [1..n -> Seq(Frames)] /\ w[n] = out[c]
      /\ \A j \in 1..Len(posts) : w[j] = IF posts[j].t = "batch" THEN posts[j].frames[c] ELSE <<>>
  BY WayOfTyped
<1>5. /\ v \in [1..(n + 1) -> Seq(Frames)] /\ v[n + 1] = <<>>
      /\ \A j \in 1..n : v[j] = IF posts2[j].t = "batch" THEN posts2[j].frames[c] ELSE <<>>
  <2>1. posts2 \in Seq(Posts) /\ Len(posts2) = n
    BY <1>2
  <2> HIDE DEF n
  <2>2. /\ v \in [1..(Len(posts2) + 1) -> Seq(Frames)] /\ v[Len(posts2) + 1] = out2[c]
        /\ \A j \in 1..Len(posts2) :
              v[j] = IF posts2[j].t = "batch" THEN posts2[j].frames[c] ELSE <<>>
    BY <2>1, WayOfTyped, ZenonT(30)
  <2> QED  BY <2>1, <2>2
<1> HIDE DEF w, v, n
<1>6. \A j \in 1..n : v[j] = w[j]
  <2>1. v[n] = w[n]
    BY <1>1, <1>2, <1>3, <1>4, <1>5
  <2>2. \A j \in 1..Len(posts) : v[j] = w[j]
    BY <1>2, <1>3, <1>4, <1>5
  <2> QED  BY <1>3, <2>1, <2>2
<1>7. SameContent(w, v)
  <2> DEFINE k == n + 1
  <2>1. /\ k \in 1..(n + 1) /\ v[k] = <<>>
        /\ \A j \in 1..n : IF j < k THEN v[j] = w[j] ELSE v[j + 1] = w[j]
    BY <1>3, <1>5, <1>6
  <2> HIDE DEF k
  <2> QED  BY <1>3, <1>4, <1>5, <2>1, Inserted, ZenonT(30)
<1> QED  BY <1>2, <1>7 DEF w, v

LEMMA WayNoticed ==
    ASSUME NEW posts \in Seq(Posts), NEW out \in Batches, NEW c \in Sockets, NEW r \in Objects,
           NEW posts2, posts2 = Append(posts, [t |-> "opened", r |-> r])
    PROVE  /\ posts2 \in Seq(Posts)
           /\ SameContent(WayOf(posts, out, c), WayOf(posts2, out, c))
<1> DEFINE m == [t |-> "opened", r |-> r]
           n == Len(posts) + 1
           w == WayOf(posts, out, c)
           v == WayOf(posts2, out, c)
<1>1. m \in Posts /\ m.t # "batch"
  BY DEF Posts
<1> HIDE DEF m
<1>2. /\ posts2 \in Seq(Posts) /\ Len(posts) \in Nat /\ Len(posts2) = n
      /\ posts2[n] = m /\ \A j \in 1..Len(posts) : posts2[j] = posts[j]
  BY <1>1, AppendPosts DEF m
<1>3. /\ n \in Nat /\ n \in 1..(n + 1) /\ n \in 1..n
      /\ \A j \in 1..n : \/ j \in 1..Len(posts) /\ j < n
                         \/ j = n /\ ~(j < n)
      /\ \A j \in 1..Len(posts) : j \in 1..n
  BY <1>2
<1>4. /\ w \in [1..n -> Seq(Frames)] /\ w[n] = out[c]
      /\ \A j \in 1..Len(posts) : w[j] = IF posts[j].t = "batch" THEN posts[j].frames[c] ELSE <<>>
  BY WayOfTyped
<1>5. /\ v \in [1..(n + 1) -> Seq(Frames)] /\ v[n + 1] = out[c]
      /\ \A j \in 1..n : v[j] = IF posts2[j].t = "batch" THEN posts2[j].frames[c] ELSE <<>>
  <2>1. posts2 \in Seq(Posts) /\ Len(posts2) = n
    BY <1>2
  <2> HIDE DEF n
  <2>2. /\ v \in [1..(Len(posts2) + 1) -> Seq(Frames)] /\ v[Len(posts2) + 1] = out[c]
        /\ \A j \in 1..Len(posts2) :
              v[j] = IF posts2[j].t = "batch" THEN posts2[j].frames[c] ELSE <<>>
    BY <2>1, WayOfTyped, ZenonT(30)
  <2> QED  BY <2>1, <2>2
<1> HIDE DEF w, v, n
<1>6. v[n] = <<>> /\ \A j \in 1..Len(posts) : j \in 1..n /\ v[j] = w[j]
  BY <1>1, <1>2, <1>3, <1>4, <1>5
<1>7. \A j \in 1..n : IF j < n THEN v[j] = w[j] ELSE v[j + 1] = w[j]
  BY <1>3, <1>4, <1>5, <1>6
<1>8. SameContent(w, v)
  BY <1>3, <1>4, <1>5, <1>6, <1>7, Inserted
<1> QED  BY <1>2, <1>8 DEF w, v

LEMMA FlushKeeps ==
    ASSUME RemoteInv, Flush
    PROVE  RemoteInv'
<1> DEFINE m == [t |-> "batch", frames |-> owner.out]
<1>1. /\ gw' = gw /\ heard' = heard /\ faults' = faults /\ answers' = answers
      /\ owner' = [owner EXCEPT !.out = Quiet]
      /\ toGateway' = IF heard THEN Append(toGateway, m) ELSE toGateway
  BY DEF Flush, bounds
<1>2. /\ owner \in Owners /\ toGateway \in Seq(Posts) /\ owner.out \in Batches /\ heard \in BOOLEAN
  BY Facts
<1>3. owner.seq \in Nat
  BY <1>2, OwnerFields
<1>4. Quiet \in Batches /\ \A c \in Sockets : Quiet[c] = <<>>
  BY DEF Quiet, Batches
<1>5. m \in Posts /\ m.t = "batch"
  BY <1>2 DEF Posts
<1> HIDE DEF m
<1>6. /\ owner' \in Owners /\ owner'.run = owner.run /\ owner'.serving = owner.serving
      /\ owner'.crashed = owner.crashed /\ owner'.attached = owner.attached
      /\ owner'.seq = owner.seq /\ owner'.out = Quiet
  <2>1. owner' \in Owners
    BY <1>1, <1>2, <1>4 DEF Owners
  <2> QED  BY <1>1, <1>2, <2>1, OwnerFields
<1>7. toGateway' \in Seq(Posts) /\ SubsOK'
  <2>1. CASE ~heard
    BY <1>1, <1>2, <2>1 DEF RemoteInv, SubsOK
  <2>2. CASE heard
    <3>1. /\ toGateway' \in Seq(Posts)
          /\ DOMAIN toGateway' = 1..(Len(toGateway) + 1) /\ toGateway'[Len(toGateway) + 1] = m
          /\ DOMAIN toGateway = 1..Len(toGateway) /\ Len(toGateway) \in Nat
          /\ \A j \in 1..Len(toGateway) : toGateway'[j] = toGateway[j]
      BY <1>1, <1>2, <1>5, <2>2, AppendPosts
    <3>2. \A i \in DOMAIN toGateway' : toGateway'[i].t = "opened" =>
             i \in DOMAIN toGateway /\ toGateway'[i] = toGateway[i]
      <4>1. \A i \in DOMAIN toGateway' : i \in DOMAIN toGateway \/ i = Len(toGateway) + 1
        BY <3>1
      <4> QED  BY <1>5, <3>1, <4>1
    <3>3. SubsOK
      BY DEF RemoteInv
    <3> QED  BY <1>1, <3>1, <3>2, <3>3 DEF SubsOK
  <2> QED  BY <1>2, <2>1, <2>2
<1>8. StateTyped' /\ InboxOK' /\ owner'.crashed <= owner'.run
  <2>1. StateTyped'
    BY <1>1, <1>6, <1>7 DEF RemoteInv, StateTyped, Posts
  <2>2. InboxOK'
    BY <1>1, <1>6, InboxKeeps DEF RemoteInv, InboxOK
  <2> QED  BY <1>6, <2>1, <2>2 DEF RemoteInv
<1>9. ASSUME NEW c \in Sockets
      PROVE  /\ Streamed(gw.sock[c], Way(c)', Answered(c), Tied(gw, c),
                         c \in owner'.attached, owner'.run, owner'.seq)
             /\ SlowSubscribe = FALSE /\ Hearing(c) /\ gw.sock[c].up = "open" =>
                   Gapless(gw.sock[c], Way(c)', c \in owner'.attached, owner'.seq, owner'.crashed)
  <2> DEFINE x == gw.sock[c]
             w == Way(c)
             v == Way(c)'
             a == Answered(c)
             t == Tied(gw, c)
             att == c \in owner.attached
  <2>1. /\ x \in Socket
        /\ Streamed(x, w, a, t, att, owner.run, owner.seq)
        /\ SlowSubscribe = FALSE /\ Hearing(c) /\ x.up = "open" =>
              Gapless(x, w, att, owner.seq, owner.crashed)
    BY Facts
  <2>2. w = WayOf(toGateway, owner.out, c) /\ v = WayOf(toGateway', Quiet, c)
    BY <1>6, WayIs
  <2>3. w \in [1..(Len(toGateway) + 1) -> Seq(Frames)]
    BY <1>2, <2>2, WayOfTyped
  <2> HIDE DEF x, w, v, a, t
  <2>4. CASE heard
    <3>1. toGateway' = Append(toGateway, [t |-> "batch", frames |-> owner.out])
      BY <1>1, <2>4 DEF m
    <3>2. SameContent(w, v)
      BY <1>2, <1>4, <2>2, <3>1, WayPublished
    <3> HIDE DEF att
    <3>3. /\ Streamed(x, v, a, t, att, owner.run, owner.seq)
          /\ SlowSubscribe = FALSE /\ Hearing(c) /\ x.up = "open" =>
                Gapless(x, v, att, owner.seq, owner.crashed)
      BY <2>1, <3>2, SameStreamed
    <3> QED  BY <1>6, <3>3 DEF x, v, a, t, att
  <2>5. CASE ~heard
    <3>1. Lost(w, v)
      BY <1>1, <1>2, <1>4, <2>2, <2>5, WayLost
    <3> HIDE DEF att
    <3>2. Streamed(x, v, a, t, att, owner.run, owner.seq)
      BY <1>3, <2>1, <2>3, <3>1, FewerStreamed DEF Lost
    <3>3. SlowSubscribe = FALSE => ~Hearing(c)
      BY <2>5 DEF RemoteInv, NoGap
    <3> QED  BY <1>6, <3>2, <3>3 DEF x, v, a, t, att
  <2> QED  BY <2>4, <2>5
<1> QED  BY <1>1, <1>7, <1>8, <1>9, OwnerKeeps

-----------------------------------------------------------------------------
\* Redis takes a request.
LEMMA Requests ==
    ASSUME NEW g \in Gateway, g.sub # <<>>
    PROVE  /\ Len(g.sub) \in Nat /\ DOMAIN g.sub = 1..Len(g.sub) /\ 1 \in DOMAIN g.sub
           /\ Tail(g.sub) \in Seq([t : {"sub", "unsub"}, r : Objects])
           /\ Head(g.sub) = g.sub[1] /\ g.sub[1].r \in Objects
           /\ Len(Tail(g.sub)) = Len(g.sub) - 1 /\ DOMAIN Tail(g.sub) = 1..(Len(g.sub) - 1)
           /\ \A i \in DOMAIN Tail(g.sub) : i + 1 \in DOMAIN g.sub /\ Tail(g.sub)[i] = g.sub[i + 1]
<1> DEFINE R == [t : {"sub", "unsub"}, r : Objects]
<1>1. g.sub \in Seq(R)
  BY GatewayFields
<1>2. \A m \in R : m.r \in Objects
  OBVIOUS
<1> HIDE DEF R
<1>3. g.sub[1] \in R
  BY <1>1
<1>4. Tail(g.sub) \in Seq(R)
  BY <1>1
<1> QED  BY <1>1, <1>2, <1>3, <1>4 DEF R

LEMMA RedisTakesKeeps ==
    ASSUME RemoteInv, RedisTakes
    PROVE  RemoteInv'
<1> DEFINE first == gw.sub[1]
           n == Len(toGateway)
<1>1. /\ gw.sub # <<>> /\ gw' = [gw EXCEPT !.sub = Tail(@)]
      /\ heard' = (Head(gw.sub).t = "sub") /\ owner' = owner
      /\ faults' = faults /\ answers' = answers
      /\ toGateway' = IF Head(gw.sub).t = "sub"
                      THEN Append(toGateway, [t |-> "opened", r |-> Head(gw.sub).r])
                      ELSE toGateway
  BY DEF RedisTakes, bounds
<1>2. /\ gw \in Gateway /\ owner \in Owners /\ toGateway \in Seq(Posts) /\ owner.out \in Batches
      /\ BooksOK(gw) /\ SubsOK /\ InboxOK /\ StateTyped /\ gw.channel \in BOOLEAN
  BY Facts, GatewayFields DEF RemoteInv
<1>3. /\ Len(gw.sub) \in Nat /\ DOMAIN gw.sub = 1..Len(gw.sub) /\ 1 \in DOMAIN gw.sub
      /\ Tail(gw.sub) \in Seq([t : {"sub", "unsub"}, r : Objects])
      /\ Head(gw.sub) = first /\ first.r \in Objects
      /\ Len(Tail(gw.sub)) = Len(gw.sub) - 1 /\ DOMAIN Tail(gw.sub) = 1..(Len(gw.sub) - 1)
      /\ \A i \in DOMAIN Tail(gw.sub) :
            i + 1 \in DOMAIN gw.sub /\ Tail(gw.sub)[i] = gw.sub[i + 1]
  BY <1>1, <1>2, Requests
<1>4. /\ gw' \in Gateway /\ gw'.sub = Tail(gw.sub)
      /\ gw'.remotes = gw.remotes /\ gw'.opens = gw.opens /\ gw'.conns = gw.conns
      /\ gw'.pending = gw.pending /\ gw'.channel = gw.channel /\ gw'.handlers = gw.handlers
      /\ gw'.awaiting = gw.awaiting /\ gw'.inbox = gw.inbox /\ gw'.sock = gw.sock
  <2>1. gw' \in Gateway
    BY <1>1, <1>2, <1>3 DEF Gateway
  <2> QED  BY <1>1, <1>2, <2>1, GatewayFields
<1>5. toGateway' \in Seq(Posts) /\ \A c \in Sockets : SameContent(Way(c), Way(c)')
  <2>1. CASE first.t = "sub"
    <3>1. toGateway' = Append(toGateway, [t |-> "opened", r |-> first.r])
      BY <1>1, <1>3, <2>1
    <3>2. toGateway' \in Seq(Posts)
      <4>1. [t |-> "opened", r |-> first.r] \in Posts
        BY <1>3 DEF Posts
      <4> QED  BY <1>2, <3>1, <4>1, AppendPosts
    <3>3. ASSUME NEW c \in Sockets
          PROVE  SameContent(WayOf(toGateway, owner.out, c), WayOf(toGateway', owner.out, c))
      BY <1>2, <1>3, <3>1, WayNoticed
    <3> QED  BY <1>1, <3>2, <3>3, WayIs
  <2>2. CASE first.t # "sub"
    BY <1>1, <1>2, <1>3, <2>2 DEF SameContent, Way
  <2> QED  BY <2>1, <2>2
<1>6. StateTyped'
  BY <1>1, <1>2, <1>4, <1>5 DEF StateTyped, Posts
<1>7. BooksOK(gw')
  BY <1>2, <1>4 DEF BooksOK, Held
<1>8. InboxOK' /\ \A c \in Sockets : Answered(c)' <=> Answered(c)
  <2>1. InboxOK'
    <3>1. /\ \A c : Held(gw', c) <=> Held(gw, c)
          /\ \A c : Coming("detach", c)' <=> Coming("detach", c)
      BY <1>4 DEF Held, Coming
    <3>2. ASSUME NEW i \in DOMAIN gw'.inbox
          PROVE  LET m == gw'.inbox[i]
                 IN  /\ m.t \in {"join", "detach"} =>
                           gw'.sock[m.c].at = "joined" /\ gw'.sock[m.c].session # None
                     /\ m.t = "detach" => ~Held(gw', m.c)
                     /\ m.t = "join" =>
                           /\ m.c \notin owner'.attached
                           /\ \A j \in DOMAIN gw'.inbox : gw'.inbox[j] = m => j = i
                           /\ \/ Held(gw', m.c) \/ gw'.sock[m.c].abandoned = TRUE
                              \/ \E j \in DOMAIN gw'.inbox :
                                    j > i /\ gw'.inbox[j] = [t |-> "detach", c |-> m.c]
      <4> DEFINE m == gw.inbox[i]
      <4>1. i \in DOMAIN gw.inbox /\ gw'.inbox = gw.inbox /\ gw'.inbox[i] = m
        BY <1>4
      <4>2. m.t \in {"join", "detach"} =>
               gw'.sock[m.c].at = "joined" /\ gw'.sock[m.c].session # None
        <5>1. m.t \in {"join", "detach"} =>
                 gw.sock[m.c].at = "joined" /\ gw.sock[m.c].session # None
          BY <1>2, <4>1 DEF InboxOK
        <5> HIDE DEF m
        <5> QED  BY <1>4, <5>1
      <4>3. m.t = "detach" => ~Held(gw', m.c)
        BY <1>2, <3>1, <4>1 DEF InboxOK
      <4>4. m.t = "join" =>
               /\ m.c \notin owner.attached
               /\ \A j \in DOMAIN gw.inbox : gw.inbox[j] = m => j = i
               /\ \/ Held(gw, m.c) \/ gw.sock[m.c].abandoned = TRUE
                  \/ \E j \in DOMAIN gw.inbox :
                        j > i /\ gw.inbox[j] = [t |-> "detach", c |-> m.c]
        BY <1>2, <4>1 DEF InboxOK
      <4> HIDE DEF m
      <4>5. m.t = "join" =>
               /\ m.c \notin owner'.attached
               /\ \A j \in DOMAIN gw'.inbox : gw'.inbox[j] = m => j = i
               /\ \/ Held(gw', m.c) \/ gw'.sock[m.c].abandoned = TRUE
                  \/ \E j \in DOMAIN gw'.inbox :
                        j > i /\ gw'.inbox[j] = [t |-> "detach", c |-> m.c]
        BY <1>1, <1>4, <3>1, <4>1, <4>4
      <4> QED  BY <4>1, <4>2, <4>3, <4>5
    <3>3. /\ \A c \in owner'.attached :
                /\ gw'.sock[c].at = "joined" /\ gw'.sock[c].session # None
                /\ Held(gw', c) \/ gw'.sock[c].abandoned = TRUE \/ Coming("detach", c)'
          /\ owner'.attached # {} => owner'.serving = TRUE
      <4>1. owner' = owner
        BY <1>1
      <4>2. owner.attached # {} => owner.serving = TRUE
        BY <1>2 DEF InboxOK
      <4>3. ASSUME NEW c \in owner.attached
            PROVE  /\ gw'.sock[c].at = "joined" /\ gw'.sock[c].session # None
                   /\ Held(gw', c) \/ gw'.sock[c].abandoned = TRUE \/ Coming("detach", c)'
        <5>1. /\ gw.sock[c].at = "joined" /\ gw.sock[c].session # None
              /\ Held(gw, c) \/ gw.sock[c].abandoned = TRUE \/ Coming("detach", c)
          BY <1>2 DEF InboxOK
        <5> QED  BY <1>4, <3>1, <5>1
      <4> QED  BY <4>1, <4>2, <4>3
    <3> QED  BY <3>2, <3>3 DEF InboxOK
  <2>2. \A c \in Sockets : Answered(c)' <=> Answered(c)
    BY <1>4 DEF Answered, Coming
  <2> QED  BY <2>1, <2>2
<1>9. SubsOK'
  <2> DEFINE N == [t |-> "opened", r |-> first.r]
  <2>1. \A r \in Objects : Opening(gw', r) <=> Opening(gw, r)
    BY <1>4 DEF Opening
  <2>a. /\ DOMAIN toGateway = 1..n /\ n \in Nat
        /\ \A i \in DOMAIN toGateway : toGateway[i].t = "opened" => toGateway[i].r \in Objects
    BY <1>2, ToGatewayTyped
  <2>2. \A i \in DOMAIN toGateway' : toGateway'[i].t = "opened" =>
           \/ i \in DOMAIN toGateway /\ toGateway'[i] = toGateway[i]
           \/ i = n + 1 /\ toGateway'[i].r = first.r /\ first.t = "sub"
    <3>1. CASE first.t = "sub"
      <4>1. toGateway' = Append(toGateway, N)
        BY <1>1, <1>3, <3>1
      <4>2. N \in Posts /\ N.r = first.r
        BY <1>3 DEF Posts
      <4> HIDE DEF N
      <4>3. /\ DOMAIN toGateway' = 1..(n + 1) /\ toGateway'[n + 1] = N
            /\ \A j \in 1..n : toGateway'[j] = toGateway[j]
        BY <1>2, <4>1, <4>2, AppendPosts
      <4>4. \A i \in DOMAIN toGateway' : i \in DOMAIN toGateway \/ i = n + 1
        BY <2>a, <4>3
      <4> QED  BY <2>a, <3>1, <4>2, <4>3, <4>4
    <3>2. CASE first.t # "sub"
      BY <1>1, <1>3, <3>2
    <3> QED  BY <3>1, <3>2
  <2>3. n + 1 \notin DOMAIN toGateway
    BY <2>a
  <2>4. \A i \in DOMAIN gw'.sub : i + 1 \in DOMAIN gw.sub /\ gw'.sub[i] = gw.sub[i + 1]
                                  /\ i \in Nat /\ i + 1 # 1 /\ gw.sub[i + 1].r \in Objects
    <3>1. ASSUME NEW i \in DOMAIN gw'.sub PROVE gw.sub[i + 1].r \in Objects
      <4> DEFINE R == [t : {"sub", "unsub"}, r : Objects]
      <4>1. gw.sub \in Seq(R) /\ i + 1 \in DOMAIN gw.sub
        BY <1>2, <1>3, <1>4, GatewayFields
      <4>2. \A m \in R : m.r \in Objects
        OBVIOUS
      <4> HIDE DEF R
      <4>3. gw.sub[i + 1] \in R
        BY <4>1
      <4> QED  BY <4>2, <4>3
    <3>2. DOMAIN gw'.sub = 1..(Len(gw.sub) - 1)
      BY <1>3, <1>4
    <3> QED  BY <1>3, <1>4, <3>1, <3>2
  <2> HIDE DEF n, first
  <2>5. IF gw'.sub = <<>> THEN heard' = gw'.channel
        ELSE gw'.channel <=> gw'.sub[Len(gw'.sub)].t = "sub"
    <3>1. gw.channel <=> gw.sub[Len(gw.sub)].t = "sub"
      BY <1>1, <1>2 DEF SubsOK
    <3>2. CASE gw'.sub = <<>>
      <4>1. Len(gw.sub) = 1
        <5>1. Len(gw'.sub) = 0
          BY <3>2
        <5> QED  BY <1>3, <1>4, <5>1
      <4>2. gw.channel <=> first.t = "sub"
        BY <3>1, <4>1 DEF first
      <4>3. heard' <=> gw.channel
        BY <1>1, <1>3, <4>2
      <4>4. heard' \in BOOLEAN
        BY <1>1
      <4> QED  BY <1>2, <1>4, <3>2, <4>3, <4>4
    <3>3. CASE gw'.sub # <<>>
      <4>1. /\ Len(gw'.sub) = Len(gw.sub) - 1 /\ Len(gw'.sub) \in DOMAIN gw'.sub
            /\ Len(gw'.sub) + 1 = Len(gw.sub)
        BY <1>3, <1>4, <3>3
      <4>2. gw'.sub[Len(gw'.sub)] = gw.sub[Len(gw.sub)]
        BY <2>4, <4>1
      <4> QED  BY <1>4, <3>1, <3>3, <4>2
    <3> QED  BY <3>2, <3>3
  <2>6. \A i \in DOMAIN gw'.sub : gw'.sub[i].t = "sub" => Opening(gw', gw'.sub[i].r)
    BY <1>2, <2>1, <2>4 DEF SubsOK
  <2>7. \A i \in DOMAIN toGateway' : toGateway'[i].t = "opened" => Opening(gw', toGateway'[i].r)
    <3>1. first.t = "sub" => Opening(gw', first.r)
      BY <1>2, <1>3, <2>1 DEF SubsOK, first
    <3>2. \A i \in DOMAIN toGateway : toGateway[i].t = "opened" => Opening(gw', toGateway[i].r)
      BY <1>2, <2>1, <2>a DEF SubsOK
    <3> QED  BY <2>2, <3>1, <3>2
  <2>8. \A i, j \in DOMAIN gw'.sub :
          gw'.sub[i].t = "sub" /\ gw'.sub[j].t = "sub" /\ gw'.sub[i].r = gw'.sub[j].r => i = j
    <3>1. ASSUME NEW i \in DOMAIN gw'.sub, NEW j \in DOMAIN gw'.sub,
                 gw'.sub[i].t = "sub", gw'.sub[j].t = "sub", gw'.sub[i].r = gw'.sub[j].r
          PROVE  i = j
      <4>1. i + 1 = j + 1
        BY <1>2, <2>4, <3>1 DEF SubsOK
      <4> QED  BY <2>4, <4>1
    <3> QED  BY <3>1
  <2>9. \A i, j \in DOMAIN toGateway' :
          toGateway'[i].t = "opened" /\ toGateway'[j].t = "opened"
          /\ toGateway'[i].r = toGateway'[j].r => i = j
    <3>1. \A i, j \in DOMAIN toGateway :
            toGateway[i].t = "opened" /\ toGateway[j].t = "opened"
            /\ toGateway[i].r = toGateway[j].r => i = j
      BY <1>2 DEF SubsOK
    <3>2. first.t = "sub" => \A j \in DOMAIN toGateway :
             toGateway[j].t = "opened" => toGateway[j].r # first.r
      BY <1>2, <1>3 DEF SubsOK, first
    <3> QED  BY <2>2, <3>1, <3>2
  <2>10. \A i \in DOMAIN gw'.sub, j \in DOMAIN toGateway' :
          gw'.sub[i].t = "sub" /\ toGateway'[j].t = "opened" => gw'.sub[i].r # toGateway'[j].r
    <3>1. \A i \in DOMAIN gw'.sub : gw'.sub[i].t = "sub" /\ first.t = "sub" =>
             gw'.sub[i].r # first.r
      BY <1>2, <1>3, <2>4 DEF SubsOK, first
    <3>2. \A i \in DOMAIN gw'.sub : \A j \in DOMAIN toGateway :
            gw'.sub[i].t = "sub" /\ toGateway[j].t = "opened" => gw'.sub[i].r # toGateway[j].r
      BY <1>2, <2>4 DEF SubsOK
    <3> QED  BY <2>2, <3>1, <3>2
  <2> QED  BY <2>5, <2>6, <2>7, <2>8, <2>9, <2>10 DEF SubsOK
<1>10. ASSUME NEW c \in Sockets PROVE StreamOK(c)'
  <2>1. Streamed(gw.sock[c], Way(c), Answered(c), Tied(gw, c), c \in owner.attached,
                 owner.run, owner.seq)
    BY Facts
  <2>2. Streamed(gw.sock[c], Way(c)', Answered(c), Tied(gw, c), c \in owner.attached,
                 owner.run, owner.seq)
    BY <1>5, <2>1, SameStreamed
  <2>3. Tied(gw', c) <=> Tied(gw, c)
    BY <1>4 DEF Tied
  <2>4. Streamed(gw'.sock[c], Way(c)', Answered(c)', Tied(gw', c), c \in owner'.attached,
                 owner'.run, owner'.seq)
    BY <1>1, <1>4, <1>8, <2>2, <2>3 DEF Streamed
  <2> QED  BY <2>4, StreamIs
<1>11. SlowSubscribe = FALSE => \A c \in Sockets : NoGap(c)'
  <2>1. SUFFICES ASSUME SlowSubscribe = FALSE, NEW c \in Sockets PROVE NoGap(c)'
    OBVIOUS
  <2>2. gw.sock[c].stray = FALSE /\ ~Hearing(c)
    BY <1>1, <2>1 DEF RemoteInv, NoGap
  <2>3. ~Hearing(c)'
    BY <1>4, <1>8, <2>2 DEF Hearing
  <2> QED  BY <1>4, <2>2, <2>3, NoGapIs
<1>12. owner'.crashed <= owner'.run
  BY <1>1 DEF RemoteInv
<1> QED  BY <1>6, <1>7, <1>8, <1>9, <1>10, <1>11, <1>12 DEF RemoteInv

-----------------------------------------------------------------------------
\* The owner takes a command.
Messages == [t : {"join", "answer", "detach"}, c : Sockets]

Commanded(o, m, h) ==
    /\ h \in Owners /\ h.run = o.run /\ h.serving = o.serving /\ h.crashed = o.crashed
    /\ h.seq = o.seq /\ h.out \in Batches
    /\ ~o.serving => h.attached = o.attached /\ h.out = o.out
    /\ o.serving => h.attached = IF m.t = "join" THEN o.attached \cup {m.c}
                                 ELSE IF m.t = "detach" THEN o.attached \ {m.c} ELSE o.attached
    /\ \A d \in Sockets : d # m.c => h.out[d] = o.out[d]
    /\ o.serving /\ m.t = "join" => h.out[m.c] = Append(o.out[m.c], Welcome(o))
    /\ o.serving /\ m.t = "answer" /\ m.c \in o.attached =>
          h.out[m.c] = Append(o.out[m.c], [k |-> "reply"])
    /\ ~o.serving \/ m.t = "detach" \/ (m.t = "answer" /\ m.c \notin o.attached) =>
          h.out[m.c] = o.out[m.c]

LEMMA WelcomeFrame ==
    ASSUME NEW o \in Owners
    PROVE  /\ Welcome(o) \in Frames /\ Welcome(o).k = "welcome"
           /\ Welcome(o).seq = o.seq /\ Welcome(o).run = o.run
<1>1. o.seq \in 0..MaxEvents /\ o.run \in Runs
  BY OwnerFields
<1> QED  BY <1>1 DEF Welcome, Frames

LEMMA PutOut ==
    ASSUME NEW out \in Batches, NEW c \in Sockets, NEW f \in Frames, NEW b,
           b = [out EXCEPT ![c] = Append(@, f)]
    PROVE  b \in Batches /\ b[c] = Append(out[c], f) /\ \A d \in Sockets : d # c => b[d] = out[d]
<1>1. Append(out[c], f) \in Seq(Frames)
  <2>1. out[c] \in Seq(Frames)
    BY DEF Batches
  <2> QED  BY <2>1
<1> QED  BY <1>1 DEF Batches

LEMMA CommandDoes ==
    ASSUME NEW o \in Owners, NEW m \in Messages, NEW h, h = Command(o, m)
    PROVE  Commanded(o, m, h)
<1>1. /\ m.t \in {"join", "answer", "detach"} /\ m.c \in Sockets
      /\ o.attached \in SUBSET Sockets /\ o.out \in Batches /\ o.serving \in BOOLEAN
  BY OwnerFields DEF Messages
<1>2. CASE ~o.serving
  <2>1. h = o
    BY <1>2 DEF Command
  <2> QED  BY <1>1, <1>2, <2>1 DEF Commanded
<1>3. CASE o.serving /\ m.t = "join"
  <2> DEFINE A == o.attached \cup {m.c}
             b == [o.out EXCEPT ![m.c] = Append(@, Welcome(o))]
  <2>1. h = [o EXCEPT !.attached = A, !.out = b]
    <3> DEFINE k == [o EXCEPT !.attached = A]
    <3>1. h = Enqueue(k, m.c, Welcome(o))
      BY <1>3 DEF Command
    <3>2. k.out = o.out /\ DOMAIN k = DOMAIN o
      BY OwnerFields
    <3>3. h = [k EXCEPT !.out = b]
      BY <3>1, <3>2, OwnerFields DEF Enqueue
    <3> HIDE DEF A, b
    <3> QED  BY <3>3
  <2>2. b \in Batches /\ b[m.c] = Append(o.out[m.c], Welcome(o))
        /\ \A d \in Sockets : d # m.c => b[d] = o.out[d]
    BY <1>1, WelcomeFrame, PutOut
  <2>3. A \in SUBSET Sockets
    BY <1>1
  <2> HIDE DEF b
  <2>4. h \in Owners
    <3> HIDE DEF A
    <3> QED  BY <2>1, <2>2, <2>3 DEF Owners
  <2>5. /\ h.run = o.run /\ h.serving = o.serving /\ h.crashed = o.crashed
        /\ h.attached = A /\ h.seq = o.seq /\ h.out = b
    BY <2>1, OwnerFields
  <2> QED  BY <1>3, <2>2, <2>4, <2>5 DEF Commanded
<1>4. CASE o.serving /\ m.t = "answer" /\ m.c \in o.attached
  <2> DEFINE b == [o.out EXCEPT ![m.c] = Append(@, [k |-> "reply"])]
  <2>1. h = [o EXCEPT !.out = b]
    BY <1>4, OwnerFields DEF Command, Enqueue
  <2>2. [k |-> "reply"] \in Frames
    BY DEF Frames
  <2>3. b \in Batches /\ b[m.c] = Append(o.out[m.c], [k |-> "reply"])
        /\ \A d \in Sockets : d # m.c => b[d] = o.out[d]
    BY <1>1, <2>2, PutOut
  <2> HIDE DEF b
  <2>4. h \in Owners
    BY <2>1, <2>3 DEF Owners
  <2>5. /\ h.run = o.run /\ h.serving = o.serving /\ h.crashed = o.crashed
        /\ h.attached = o.attached /\ h.seq = o.seq /\ h.out = b
    BY <2>1, OwnerFields
  <2> QED  BY <1>4, <2>3, <2>4, <2>5 DEF Commanded
<1>5. CASE o.serving /\ m.t = "answer" /\ m.c \notin o.attached
  <2>1. h = o
    BY <1>5 DEF Command
  <2> QED  BY <1>1, <1>5, <2>1 DEF Commanded
<1>6. CASE o.serving /\ m.t = "detach"
  <2> DEFINE A == o.attached \ {m.c}
  <2>1. h = [o EXCEPT !.attached = A]
    BY <1>6 DEF Command
  <2>2. A \in SUBSET Sockets
    BY <1>1
  <2>4. h \in Owners
    <3> HIDE DEF A
    <3> QED  BY <2>1, <2>2 DEF Owners
  <2>5. /\ h.run = o.run /\ h.serving = o.serving /\ h.crashed = o.crashed
        /\ h.attached = A /\ h.seq = o.seq /\ h.out = o.out
    BY <2>1, OwnerFields
  <2> QED  BY <1>1, <1>6, <2>4, <2>5 DEF Commanded
<1> QED  BY <1>1, <1>2, <1>3, <1>4, <1>5, <1>6

\* The inbox but for its first message.
LEMMA InboxTail ==
    ASSUME NEW g \in Gateway, g.inbox # <<>>
    PROVE  /\ 1 \in DOMAIN g.inbox /\ Head(g.inbox) = g.inbox[1] /\ Tail(g.inbox) \in Seq(Messages)
           /\ \A i \in DOMAIN g.inbox : /\ i \in Nat /\ g.inbox[i] \in Messages
                                        /\ i = 1 \/ (i > 1 /\ i - 1 \in DOMAIN Tail(g.inbox))
           /\ \A i \in DOMAIN Tail(g.inbox) :
                 /\ i \in Nat /\ i + 1 \in DOMAIN g.inbox /\ i + 1 # 1
                 /\ Tail(g.inbox)[i] = g.inbox[i + 1]
<1>1. g.inbox \in Seq(Messages)
  BY GatewayFields DEF Messages
<1> HIDE DEF Messages
<1>2. /\ Len(g.inbox) \in Nat /\ DOMAIN g.inbox = 1..Len(g.inbox) /\ Len(g.inbox) > 0
      /\ Head(g.inbox) = g.inbox[1] /\ Tail(g.inbox) \in Seq(Messages)
      /\ DOMAIN Tail(g.inbox) = 1..(Len(g.inbox) - 1)
      /\ \A i \in 1..Len(g.inbox) : g.inbox[i] \in Messages
      /\ \A i \in 1..(Len(g.inbox) - 1) : Tail(g.inbox)[i] = g.inbox[i + 1]
  BY <1>1
<1> QED  BY <1>2

LEMMA OwnerReceivesKeeps ==
    ASSUME RemoteInv, OwnerReceives
    PROVE  RemoteInv'
<1> DEFINE m == gw.inbox[1]
           I == Tail(gw.inbox)
<1>1. /\ gw.inbox # <<>> /\ owner' = Command(owner, Head(gw.inbox))
      /\ gw' = [gw EXCEPT !.inbox = Tail(@)]
      /\ heard' = heard /\ toGateway' = toGateway /\ faults' = faults /\ answers' = answers
      /\ SlowSubscribe = FALSE => \A i \in DOMAIN gw.sub : gw.sub[i].t # "sub"
  BY DEF OwnerReceives, bounds
<1>2. /\ gw \in Gateway /\ owner \in Owners /\ toGateway \in Seq(Posts) /\ owner.out \in Batches
      /\ BooksOK(gw) /\ SubsOK /\ InboxOK /\ StateTyped /\ gw.channel \in BOOLEAN
      /\ owner.serving \in BOOLEAN
  BY Facts, GatewayFields, OwnerFields DEF RemoteInv
<1>3. /\ 1 \in DOMAIN gw.inbox /\ Head(gw.inbox) = m /\ I \in Seq(Messages) /\ m \in Messages
      /\ \A i \in DOMAIN gw.inbox : /\ i \in Nat /\ gw.inbox[i] \in Messages
                                    /\ i = 1 \/ (i > 1 /\ i - 1 \in DOMAIN I)
      /\ \A i \in DOMAIN I :
            i \in Nat /\ i + 1 \in DOMAIN gw.inbox /\ i + 1 # 1 /\ I[i] = gw.inbox[i + 1]
  BY <1>1, <1>2, InboxTail
<1> HIDE DEF I
<1>4. /\ gw' \in Gateway /\ gw'.inbox = I
      /\ gw'.remotes = gw.remotes /\ gw'.opens = gw.opens /\ gw'.conns = gw.conns
      /\ gw'.pending = gw.pending /\ gw'.channel = gw.channel /\ gw'.handlers = gw.handlers
      /\ gw'.awaiting = gw.awaiting /\ gw'.sub = gw.sub /\ gw'.sock = gw.sock
  <2>1. gw' = [gw EXCEPT !.inbox = I]
    BY <1>1 DEF I
  <2>2. gw' \in Gateway
    BY <1>2, <1>3, <2>1 DEF Gateway, Messages
  <2> QED  BY <1>2, <2>1, <2>2, GatewayFields
<1>5. Commanded(owner, m, owner')
  BY <1>1, <1>2, <1>3, CommandDoes
<1>6. StateTyped'
  BY <1>1, <1>2, <1>4, <1>5 DEF StateTyped, Commanded
<1>7. BooksOK(gw')
  BY <1>2, <1>4 DEF BooksOK, Held
<1>8. SubsOK'
  BY <1>1, <1>2, <1>4 DEF SubsOK, Opening
<1>9. m.t \in {"join", "answer", "detach"} /\ m.c \in Sockets
  BY <1>3 DEF Messages
<1>m. ASSUME NEW i \in DOMAIN gw.inbox
      PROVE  /\ gw.inbox[i].t \in {"join", "detach"} =>
                   /\ gw.sock[gw.inbox[i].c].at = "joined"
                   /\ gw.sock[gw.inbox[i].c].session # None
             /\ gw.inbox[i].t = "detach" => ~Held(gw, gw.inbox[i].c)
             /\ gw.inbox[i].t = "join" =>
                   /\ gw.inbox[i].c \notin owner.attached
                   /\ \A j \in DOMAIN gw.inbox : gw.inbox[j] = gw.inbox[i] => j = i
                   /\ \/ Held(gw, gw.inbox[i].c) \/ gw.sock[gw.inbox[i].c].abandoned = TRUE
                      \/ \E j \in DOMAIN gw.inbox :
                            j > i /\ gw.inbox[j] = [t |-> "detach", c |-> gw.inbox[i].c]
  BY <1>2 DEF InboxOK
\* A message is known by its fields.
<1>e. \A i, j \in DOMAIN gw.inbox :
         gw.inbox[i].t = gw.inbox[j].t /\ gw.inbox[i].c = gw.inbox[j].c
            => gw.inbox[i] = gw.inbox[j]
  <2>1. \A p, q \in Messages : p.t = q.t /\ p.c = q.c => p = q
    BY DEF Messages
  <2> QED  BY <1>3, <2>1
<1>a. ASSUME NEW i \in DOMAIN I, I[i].t = "join"
      PROVE  I[i].c \notin owner'.attached
  <2>1. i + 1 \in DOMAIN gw.inbox /\ i + 1 # 1 /\ I[i] = gw.inbox[i + 1]
    BY <1>3
  <2>2. I[i].c \notin owner.attached
    BY <1>a, <1>m, <2>1, ZenonT(30)
  <2>3. ~(m.t = "join" /\ m.c = I[i].c)
    <3>1. SUFFICES ASSUME m.t = "join", m.c = I[i].c PROVE FALSE
      OBVIOUS
    <3>2. gw.inbox[i + 1] = gw.inbox[1]
      BY <1>3, <1>a, <1>e, <2>1, <3>1
    <3>3. i + 1 = 1
      BY <1>3, <1>m, <2>1, <3>1, <3>2
    <3> QED  BY <2>1, <3>3
  <2> QED  BY <1>2, <1>5, <2>2, <2>3 DEF Commanded
<1>b. ASSUME NEW i \in DOMAIN I
      PROVE  LET p == I[i]
             IN  /\ p.t \in {"join", "detach"} =>
                       gw'.sock[p.c].at = "joined" /\ gw'.sock[p.c].session # None
                 /\ p.t = "detach" => ~Held(gw', p.c)
                 /\ p.t = "join" =>
                       /\ p.c \notin owner'.attached
                       /\ \A j \in DOMAIN I : I[j] = p => j = i
                       /\ \/ Held(gw', p.c) \/ gw'.sock[p.c].abandoned = TRUE
                          \/ \E j \in DOMAIN I : j > i /\ I[j] = [t |-> "detach", c |-> p.c]
  <2> DEFINE p == I[i]
             k == i + 1
  <2>1. /\ k \in DOMAIN gw.inbox /\ p = gw.inbox[k] /\ k \in Nat /\ k = i + 1 /\ i \in Nat
        /\ \A c : Held(gw', c) <=> Held(gw, c)
    BY <1>3, <1>4 DEF Held
  <2>2. p.t = "join" => p.c \notin owner'.attached
    BY <1>a
  <2> HIDE DEF p, k
  <2>3. p.t \in {"join", "detach"} =>
           gw'.sock[p.c].at = "joined" /\ gw'.sock[p.c].session # None
    BY <1>4, <1>m, <2>1
  <2>4. p.t = "detach" => ~Held(gw', p.c)
    BY <1>m, <2>1
  <2>5. ASSUME p.t = "join", NEW j \in DOMAIN I, I[j] = p PROVE j = i
    <3>1. j + 1 \in DOMAIN gw.inbox /\ gw.inbox[j + 1] = p /\ j \in Nat
      BY <1>3, <2>5
    <3>2. j + 1 = k
      <4>1. \A q \in DOMAIN gw.inbox : gw.inbox[q] = gw.inbox[k] => q = k
        BY <1>m, <2>1, <2>5
      <4> QED  BY <2>1, <3>1, <4>1
    <3> QED  BY <2>1, <3>1, <3>2
  <2>6. ASSUME p.t = "join"
        PROVE  \/ Held(gw', p.c) \/ gw'.sock[p.c].abandoned = TRUE
               \/ \E j \in DOMAIN I : j > i /\ I[j] = [t |-> "detach", c |-> p.c]
    <3>1. \/ Held(gw, p.c) \/ gw.sock[p.c].abandoned = TRUE
          \/ \E j \in DOMAIN gw.inbox : j > k /\ gw.inbox[j] = [t |-> "detach", c |-> p.c]
      BY <1>m, <2>1, <2>6
    <3>2. ASSUME NEW j \in DOMAIN gw.inbox, j > k, gw.inbox[j] = [t |-> "detach", c |-> p.c]
          PROVE  \E q \in DOMAIN I : q > i /\ I[q] = [t |-> "detach", c |-> p.c]
      <4>1. j \in Nat /\ (j = 1 \/ j - 1 \in DOMAIN I)
        BY <1>3
      <4>2. j - 1 \in DOMAIN I /\ j - 1 > i
        BY <2>1, <3>2, <4>1
      <4>3. I[j - 1] = gw.inbox[(j - 1) + 1] /\ (j - 1) + 1 = j
        BY <1>3, <4>1, <4>2
      <4> QED  BY <3>2, <4>2, <4>3
    <3> QED  BY <1>4, <2>1, <3>1, <3>2
  <2> QED  BY <2>2, <2>3, <2>4, <2>5, <2>6 DEF p
<1>c. ASSUME NEW c \in owner'.attached
      PROVE  /\ gw'.sock[c].at = "joined" /\ gw'.sock[c].session # None
             /\ Held(gw', c) \/ gw'.sock[c].abandoned = TRUE \/ Coming("detach", c)'
             /\ owner.serving
  <2> DEFINE d == [t |-> "detach", c |-> c]
  <2>1. ASSUME NEW j \in DOMAIN gw.inbox, j # 1, gw.inbox[j] = d PROVE Coming("detach", c)'
    <3>1. j \in Nat /\ j - 1 \in DOMAIN I
      BY <1>3, <2>1
    <3>2. I[j - 1] = gw.inbox[(j - 1) + 1] /\ (j - 1) + 1 = j
      BY <1>3, <3>1
    <3> QED  BY <1>4, <2>1, <3>1, <3>2 DEF Coming
  <2>2. Held(gw', c) <=> Held(gw, c)
    BY <1>4 DEF Held
  <2>3. CASE c \in owner.attached
    <3>1. /\ gw.sock[c].at = "joined" /\ gw.sock[c].session # None /\ owner.serving
          /\ Held(gw, c) \/ gw.sock[c].abandoned = TRUE \/ Coming("detach", c)
      BY <1>2, <2>3 DEF InboxOK
    <3>2. ASSUME Coming("detach", c) PROVE Coming("detach", c)'
      <4>1. PICK j \in DOMAIN gw.inbox : gw.inbox[j] = d
        BY <3>2 DEF Coming
      <4>2. j # 1
        <5>1. SUFFICES ASSUME j = 1 PROVE FALSE
          OBVIOUS
        <5>2. m.t = "detach" /\ m.c = c
          BY <4>1, <5>1
        <5>3. owner'.attached = owner.attached \ {c}
          BY <1>5, <3>1, <5>2 DEF Commanded
        <5> QED  BY <5>3
      <4> QED  BY <2>1, <4>1, <4>2
    <3> QED  BY <1>4, <2>2, <3>1, <3>2
  <2>4. CASE c \notin owner.attached
    <3>1. owner.serving /\ m.t = "join" /\ m.c = c
      BY <1>2, <1>5, <2>4 DEF Commanded
    <3>2. /\ gw.sock[c].at = "joined" /\ gw.sock[c].session # None
          /\ \/ Held(gw, c) \/ gw.sock[c].abandoned = TRUE
             \/ \E j \in DOMAIN gw.inbox : j > 1 /\ gw.inbox[j] = d
      BY <1>3, <1>m, <3>1
    <3>3. ASSUME NEW j \in DOMAIN gw.inbox, j > 1, gw.inbox[j] = d PROVE Coming("detach", c)'
      <4>1. j # 1
        BY <1>3, <3>3
      <4> QED  BY <2>1, <3>3, <4>1
    <3> QED  BY <1>4, <2>2, <3>1, <3>2, <3>3
  <2> QED  BY <2>3, <2>4
<1>10. InboxOK'
  <2>1. \A i \in DOMAIN gw'.inbox :
          LET p == gw'.inbox[i]
          IN  /\ p.t \in {"join", "detach"} =>
                       gw'.sock[p.c].at = "joined" /\ gw'.sock[p.c].session # None
              /\ p.t = "detach" => ~Held(gw', p.c)
              /\ p.t = "join" =>
                       /\ p.c \notin owner'.attached
                       /\ \A j \in DOMAIN gw'.inbox : gw'.inbox[j] = p => j = i
                       /\ \/ Held(gw', p.c) \/ gw'.sock[p.c].abandoned = TRUE
                          \/ \E j \in DOMAIN gw'.inbox :
                                j > i /\ gw'.inbox[j] = [t |-> "detach", c |-> p.c]
    <3> DEFINE J == gw'.inbox
    <3>1. J = I
      BY <1>4
    <3> HIDE DEF J
    <3>2. \A i \in DOMAIN J :
          LET p == J[i]
          IN  /\ p.t \in {"join", "detach"} =>
                       gw'.sock[p.c].at = "joined" /\ gw'.sock[p.c].session # None
              /\ p.t = "detach" => ~Held(gw', p.c)
              /\ p.t = "join" =>
                       /\ p.c \notin owner'.attached
                       /\ \A j \in DOMAIN J : J[j] = p => j = i
                       /\ \/ Held(gw', p.c) \/ gw'.sock[p.c].abandoned = TRUE
                          \/ \E j \in DOMAIN J : j > i /\ J[j] = [t |-> "detach", c |-> p.c]
      BY <1>b, <3>1
    <3> QED  BY <3>2 DEF J
  <2>2. owner'.attached # {} => owner'.serving = TRUE
    <3>1. owner'.serving = owner.serving
      BY <1>5 DEF Commanded
    <3> QED  BY <1>2, <1>c, <3>1
  <2> QED  BY <1>c, <2>1, <2>2 DEF InboxOK
\* Only of the socket that has joined is anything new.
<1>11. ASSUME NEW c \in Sockets, ~(m.t = "join" /\ m.c = c)
       PROVE  Answered(c)' <=> Answered(c)
  <2> DEFINE d == [t |-> "join", c |-> c]
  <2>1. ASSUME NEW j \in DOMAIN gw.inbox, gw.inbox[j] = d
        PROVE  \E q \in DOMAIN I : I[q] = d
    <3>1. j # 1
      BY <1>11, <2>1
    <3>2. j \in Nat /\ j - 1 \in DOMAIN I
      BY <1>3, <3>1
    <3>3. I[j - 1] = gw.inbox[(j - 1) + 1] /\ (j - 1) + 1 = j
      BY <1>3, <3>2
    <3> QED  BY <2>1, <3>2, <3>3
  <2>2. ASSUME NEW j \in DOMAIN I, I[j] = d PROVE \E q \in DOMAIN gw.inbox : gw.inbox[q] = d
    BY <1>3, <2>2
  <2>3. Coming("join", c)' <=> Coming("join", c)
    BY <1>4, <2>1, <2>2 DEF Coming
  <2> QED  BY <1>4, <2>3 DEF Answered
<1>12. ASSUME NEW c \in Sockets, m.t = "join", m.c = c
       PROVE  Answered(c)' /\ ~Answered(c) /\ c \notin owner.attached
  <2> DEFINE d == [t |-> "join", c |-> c]
  <2>1. m = d
    <3>1. \A p \in Messages : p = [t |-> p.t, c |-> p.c]
      BY DEF Messages
    <3> QED  BY <1>3, <1>12, <3>1
  <2>2. Coming("join", c)
    BY <1>3, <2>1 DEF Coming
  <2>3. ASSUME Coming("join", c)' PROVE FALSE
    <3>1. PICK j \in DOMAIN I : I[j] = d
      BY <1>4, <2>3 DEF Coming
    <3>2. j + 1 \in DOMAIN gw.inbox /\ gw.inbox[j + 1] = m
      BY <1>3, <2>1, <3>1
    <3>3. j \in Nat /\ j # 0
      BY <1>3, <3>1
    <3>4. j + 1 # 1
      BY <3>3
    <3> QED  BY <1>3, <1>12, <1>m, <3>2, <3>4
  <2>4. gw.sock[c].at = "joined" /\ gw.sock[c].session # None /\ c \notin owner.attached
    BY <1>3, <1>12, <1>m
  <2> QED  BY <1>4, <2>2, <2>3, <2>4 DEF Answered
<1> DEFINE Near(c) == c \in gw.conns[gw.sock[c].session] /\ gw.sock[c].session \in gw.handlers
<1>13. \A c \in Sockets : /\ Hearing(c)' <=> Answered(c)' /\ Near(c)
                          /\ Hearing(c) <=> Answered(c) /\ Near(c)
  BY <1>4 DEF Hearing
<1>14. ASSUME NEW c \in Sockets
       PROVE  /\ Streamed(gw.sock[c], Way(c)', Answered(c)', Tied(gw, c),
                          c \in owner'.attached, owner.run, owner.seq)
              /\ SlowSubscribe = FALSE /\ Hearing(c)' /\ gw.sock[c].up = "open" =>
                    Gapless(gw.sock[c], Way(c)', c \in owner'.attached, owner.seq, owner.crashed)
  <2> DEFINE x == gw.sock[c]
             w == Way(c)
             v == Way(c)'
             a == Answered(c)
             b == Answered(c)'
             t == Tied(gw, c)
             att == c \in owner.attached
             now == c \in owner'.attached
  <2>1. /\ x \in Socket
        /\ Streamed(x, w, a, t, att, owner.run, owner.seq)
        /\ SlowSubscribe = FALSE /\ Hearing(c) /\ x.up = "open" =>
              Gapless(x, w, att, owner.seq, owner.crashed)
    BY Facts
  <2>2. w = WayOf(toGateway, owner.out, c) /\ v = WayOf(toGateway, owner'.out, c)
    BY <1>1, WayIs
  <2>3. w \in [1..(Len(toGateway) + 1) -> Seq(Frames)] /\ Len(toGateway) + 1 \in Nat
    <3>1. Len(toGateway) \in Nat
      BY <1>2, PostsTyped
    <3> QED  BY <1>2, <2>2, <3>1, WayOfTyped
  <2>4. owner'.out \in Batches /\ owner.seq \in Nat /\ owner.seq <= MaxEvents /\ owner.run \in Nat
    <3>1. owner'.out \in Batches
      BY <1>5 DEF Commanded
    <3>2. owner \in Owners
      BY <1>2
    <3> QED  BY <3>1, <3>2, OwnerFields, RemoteAssumption
  <2>5. /\ \/ b <=> a
           \/ m.t = "join" /\ m.c = c /\ b /\ ~a /\ ~att
        /\ Hearing(c)' <=> b /\ Near(c)
        /\ Hearing(c) <=> a /\ Near(c)
    BY <1>11, <1>12, <1>13
  <2> HIDE DEF x, w, v, a, b, t
  <2>6. CASE owner'.out[c] = owner.out[c] /\ (now <=> att) /\ (b <=> a)
    <3>1. v = w
      BY <2>2, <2>6, WaySame
    <3>2. Streamed(x, v, b, t, now, owner.run, owner.seq)
      <4> HIDE DEF att, now
      <4> QED  BY <2>1, <2>6, <3>1 DEF Streamed
    <3>3. SlowSubscribe = FALSE /\ Hearing(c)' /\ x.up = "open" =>
              Gapless(x, v, now, owner.seq, owner.crashed)
      <4> HIDE DEF att, now, Near
      <4> QED  BY <2>1, <2>5, <2>6, <3>1 DEF Gapless
    <3> QED  BY <3>2, <3>3 DEF x, v, b, t
  <2>7. CASE m.c = c /\ m.t = "join"
    <3>1. b /\ ~a /\ ~att
      BY <1>12, <2>7 DEF a, b
    <3>2. Nothing(w) /\ x.run = None /\ x.seq = None /\ x.stray = FALSE
      <4> HIDE DEF att
      <4> QED  BY <2>1, <3>1 DEF Streamed
    <3>3. EventsIn(w) = 0 /\ Welcomes(w) = {} /\ WelcomeFirst(w) /\ ~Carries(w, "bye")
      BY <2>3, <3>2, NothingHas
    <3>4. CASE ~owner.serving
      <4>1. v = w /\ ~now
        BY <1>5, <2>2, <3>1, <3>4, WaySame DEF Commanded
      <4>2. Snapshots(x, w) = {}
        BY <3>2, <3>3 DEF Snapshots
      <4> HIDE DEF now
      <4>3. Streamed(x, v, b, t, now, owner.run, owner.seq)
        BY <3>1, <3>2, <3>3, <4>1, <4>2 DEF Streamed
      <4>4. Gapless(x, v, now, owner.seq, owner.crashed)
        BY <3>2, <4>1, <4>2 DEF Gapless
      <4> QED  BY <4>3, <4>4 DEF x, v, b, t, now
    <3>5. CASE owner.serving
      <4> DEFINE f == Welcome(owner)
                 s == [seq |-> owner.seq, run |-> owner.run]
      <4>1. f \in Frames /\ f.k = "welcome" /\ f.seq = owner.seq /\ f.run = owner.run
        BY <1>2, WelcomeFrame
      <4>2. owner'.out[c] = Append(owner.out[c], f) /\ now
        BY <1>5, <2>7, <3>5 DEF Commanded
      <4> HIDE DEF f, now
      <4>3. Put(w, v, f)
        BY <1>2, <2>2, <2>4, <4>1, <4>2, WayPut
      <4>4. /\ Welcomes(v) = {f} /\ WelcomeFirst(v) /\ EventsIn(v) = 0 /\ ~Carries(v, "bye")
        BY <3>2, <3>3, <4>1, <4>3 DEF Put
      <4>5. Snapshots(x, v) = {s}
        BY <3>2, <4>1, <4>4 DEF Snapshots
      <4>6. /\ s.run = owner.run /\ s.run <= owner.run
            /\ s.seq + EventsIn(v) = owner.seq /\ s.seq + EventsIn(v) <= MaxEvents
            /\ s.seq + EventsIn(v) <= owner.seq
        BY <2>4, <4>4
      <4> HIDE DEF s
      <4>7. Streamed(x, v, b, t, now, owner.run, owner.seq)
        BY <3>1, <3>2, <4>2, <4>4, <4>5, <4>6 DEF Streamed
      <4>8. Gapless(x, v, now, owner.seq, owner.crashed)
        BY <4>2, <4>4, <4>5, <4>6 DEF Gapless
      <4> QED  BY <4>7, <4>8 DEF x, v, b, t, now
    <3> QED  BY <3>4, <3>5
  <2>8. CASE m.c = c /\ m.t = "answer" /\ owner.serving /\ att
    <3> DEFINE f == [k |-> "reply"]
               one == IF f.k = "event" THEN 1 ELSE 0
    <3>1. f \in Frames /\ one = 0 /\ f.k # "welcome" /\ f.k # "bye"
          /\ owner.seq + one = owner.seq /\ owner.seq + one <= MaxEvents
      BY <2>4 DEF Frames
    <3>2. owner'.out[c] = Append(owner.out[c], f) /\ now /\ (b <=> a)
      BY <1>5, <2>5, <2>8 DEF Commanded
    <3> HIDE DEF f, now, att
    <3>3. Put(w, v, f)
      BY <1>2, <2>2, <2>4, <3>1, <3>2, WayPut
    <3>4. Streamed(x, w, a, t, TRUE, owner.run, owner.seq)
      BY <2>1, <2>8 DEF Streamed
    <3>5. Streamed(x, v, a, t, TRUE, owner.run, owner.seq + one)
      BY <2>1, <2>3, <2>4, <3>1, <3>3, <3>4, PutStreamed DEF one
    <3>6. Streamed(x, v, b, t, now, owner.run, owner.seq)
      BY <3>1, <3>2, <3>5 DEF Streamed
    <3>7. ASSUME SlowSubscribe = FALSE, Hearing(c)', x.up = "open"
          PROVE  Gapless(x, v, now, owner.seq, owner.crashed)
      <4> HIDE DEF Near
      <4>1. Gapless(x, w, TRUE, owner.seq, owner.crashed)
        BY <2>1, <2>5, <2>8, <3>2, <3>7 DEF Gapless
      <4>2. x.seq = None <=> x.run = None
        BY <2>1 DEF Streamed
      <4>3. Gapless(x, v, f.k # "bye", owner.seq + one, owner.crashed)
        BY <2>1, <2>3, <2>4, <3>1, <3>3, <4>1, <4>2, PutGapless DEF one
      <4> QED  BY <3>1, <3>2, <4>3 DEF Gapless
    <3> QED  BY <3>6, <3>7 DEF x, v, b, t, now
  <2>9. CASE m.c = c /\ m.t = "detach" /\ owner.serving
    <3>1. v = w /\ ~now /\ (b <=> a)
      BY <1>5, <2>2, <2>5, <2>9, WaySame DEF Commanded
    <3>2. ~Near(c)
      <4>1. ~Held(gw, c) /\ x.at = "joined" /\ x.session # None
        BY <1>3, <1>m, <2>9 DEF x
      <4>2. x.session \in Objects
        BY <2>1, <4>1, SocketFields
      <4> QED  BY <4>1, <4>2 DEF Held, x
    <3> HIDE DEF now, att, Near
    <3>3. Streamed(x, v, b, t, now, owner.run, owner.seq)
      BY <2>1, <3>1 DEF Streamed
    <3> QED  BY <2>5, <3>2, <3>3 DEF x, v, b, t, now
  <2>10. \/ owner'.out[c] = owner.out[c] /\ (now <=> att) /\ (b <=> a)
         \/ m.c = c /\ m.t = "join"
         \/ m.c = c /\ m.t = "answer" /\ owner.serving /\ att
         \/ m.c = c /\ m.t = "detach" /\ owner.serving
    <3>1. CASE m.c # c
      <4>1. owner'.out[c] = owner.out[c]
        BY <1>5, <3>1 DEF Commanded
      <4>2. now <=> att
        <5>1. \/ owner'.attached = owner.attached
              \/ owner'.attached = owner.attached \cup {m.c}
              \/ owner'.attached = owner.attached \ {m.c}
          BY <1>5 DEF Commanded
        <5> QED  BY <3>1, <5>1
      <4> QED  BY <2>5, <3>1, <4>1, <4>2
    <3>2. CASE m.c = c /\ ~owner.serving
      BY <1>5, <1>9, <2>5, <3>2 DEF Commanded
    <3>3. CASE m.c = c /\ owner.serving /\ m.t = "answer" /\ ~att
      BY <1>5, <1>9, <2>5, <3>3 DEF Commanded
    <3> QED  BY <1>9, <3>1, <3>2, <3>3
  <2> QED  BY <2>6, <2>7, <2>8, <2>9, <2>10
<1>15. owner'.run = owner.run /\ owner'.seq = owner.seq /\ owner'.crashed = owner.crashed
  BY <1>5 DEF Commanded
<1>16. \A c \in Sockets : StreamOK(c)'
  <2>1. SUFFICES ASSUME NEW c \in Sockets PROVE StreamOK(c)'
    OBVIOUS
  <2>2. Tied(gw', c) <=> Tied(gw, c)
    BY <1>4 DEF Tied
  <2>3. Streamed(gw'.sock[c], Way(c)', Answered(c)', Tied(gw', c), c \in owner'.attached,
                 owner'.run, owner'.seq)
    BY <1>4, <1>14, <1>15, <2>2 DEF Streamed
  <2> QED  BY <2>3, StreamIs
<1>17. SlowSubscribe = FALSE => \A c \in Sockets : NoGap(c)'
  <2>1. SUFFICES ASSUME SlowSubscribe = FALSE, NEW c \in Sockets PROVE NoGap(c)'
    OBVIOUS
  <2>2. gw.sock[c].stray = FALSE
    BY <2>1 DEF RemoteInv, NoGap
  <2>3. ASSUME Hearing(c)' PROVE heard = TRUE /\ gw.sub = <<>>
    <3>1. gw.handlers # {}
      BY <1>13, <2>3
    <3>2. gw.channel = TRUE
      BY <1>2, <3>1 DEF BooksOK
    <3>3. gw.sub = <<>>
      <4>1. SUFFICES ASSUME gw.sub # <<>> PROVE FALSE
        OBVIOUS
      <4>2. gw.sub[Len(gw.sub)].t = "sub"
        BY <1>2, <3>2, <4>1 DEF SubsOK
      <4>3. Len(gw.sub) \in DOMAIN gw.sub
        BY <1>2, <4>1, Requests
      <4> QED  BY <1>1, <2>1, <4>2, <4>3
    <3> QED  BY <1>2, <3>2, <3>3 DEF SubsOK
  <2>4. Hearing(c)' /\ gw'.sock[c].up = "open" =>
           Gapless(gw'.sock[c], Way(c)', c \in owner'.attached, owner'.seq, owner'.crashed)
    BY <1>4, <1>14, <1>15, <2>1 DEF Gapless
  <2> QED  BY <1>1, <1>4, <2>2, <2>3, <2>4, NoGapIs
<1>18. owner'.crashed <= owner'.run
  BY <1>15 DEF RemoteInv
<1> QED  BY <1>6, <1>7, <1>8, <1>10, <1>16, <1>17, <1>18 DEF RemoteInv

-----------------------------------------------------------------------------
\* What Redis sends arrives: first, the reply to SUBSCRIBE.
LEMMA PostsTail ==
    ASSUME NEW posts \in Seq(Posts), posts # <<>>
    PROVE  /\ Tail(posts) \in Seq(Posts) /\ Head(posts) = posts[1] /\ 1 \in DOMAIN posts
           /\ Len(posts) \in Nat \ {0} /\ DOMAIN posts = 1..Len(posts)
           /\ Len(Tail(posts)) = Len(posts) - 1 /\ DOMAIN Tail(posts) = 1..(Len(posts) - 1)
           /\ \A i \in DOMAIN Tail(posts) :
                 /\ i \in Nat /\ i + 1 \in DOMAIN posts /\ i + 1 # 1
                 /\ Tail(posts)[i] = posts[i + 1]
OBVIOUS

\* The way without its first batch.
LEMMA WayTail ==
    ASSUME NEW posts \in Seq(Posts), posts # <<>>, NEW out \in Batches, NEW c \in Sockets
    PROVE  /\ Len(posts) \in Nat \ {0}
           /\ WayOf(posts, out, c) \in [1..(Len(posts) + 1) -> Seq(Frames)]
           /\ WayOf(Tail(posts), out, c) \in [1..Len(posts) -> Seq(Frames)]
           /\ \A j \in 1..Len(posts) :
                 WayOf(Tail(posts), out, c)[j] = WayOf(posts, out, c)[j + 1]
           /\ WayOf(posts, out, c)[1] = IF posts[1].t = "batch" THEN posts[1].frames[c] ELSE <<>>
<1> DEFINE n == Len(posts)
           p == Tail(posts)
           w == WayOf(posts, out, c)
           v == WayOf(p, out, c)
<1>1. /\ p \in Seq(Posts) /\ n \in Nat \ {0} /\ Len(p) = n - 1
      /\ \A i \in 1..(n - 1) : p[i] = posts[i + 1]
  BY PostsTail
<1> HIDE DEF p
<1>2. /\ w \in [1..(n + 1) -> Seq(Frames)] /\ w[n + 1] = out[c]
      /\ \A j \in 1..n : w[j] = IF posts[j].t = "batch" THEN posts[j].frames[c] ELSE <<>>
  BY WayOfTyped
<1>3. /\ v \in [1..(Len(p) + 1) -> Seq(Frames)] /\ v[Len(p) + 1] = out[c]
      /\ \A j \in 1..Len(p) : v[j] = IF p[j].t = "batch" THEN p[j].frames[c] ELSE <<>>
  BY <1>1, WayOfTyped
<1> HIDE DEF n, w, v
<1>4. Len(p) + 1 = n /\ 1 \in 1..n
  BY <1>1
<1>5. /\ v \in [1..n -> Seq(Frames)] /\ v[n] = out[c]
      /\ \A j \in 1..(n - 1) : v[j] = IF p[j].t = "batch" THEN p[j].frames[c] ELSE <<>>
  BY <1>1, <1>3, <1>4
<1>6. ASSUME NEW j \in 1..n PROVE v[j] = w[j + 1]
  <2>1. CASE j = n
    BY <1>2, <1>5, <2>1
  <2>2. CASE j # n
    <3>1. j \in 1..(n - 1) /\ j + 1 \in 1..n
      BY <1>1, <2>2
    <3>2. p[j] = posts[j + 1]
      BY <1>1, <3>1
    <3> QED  BY <1>2, <1>5, <3>1, <3>2
  <2> QED  BY <2>1, <2>2
<1>7. w[1] = IF posts[1].t = "batch" THEN posts[1].frames[c] ELSE <<>>
  BY <1>2, <1>4
<1> QED  BY <1>1, <1>2, <1>5, <1>6, <1>7 DEF n, p, w, v

LEMMA NoticeTaken ==
    ASSUME NEW posts \in Seq(Posts), posts # <<>>, posts[1].t # "batch",
           NEW out \in Batches, NEW c \in Sockets
    PROVE  SameContent(WayOf(posts, out, c), WayOf(Tail(posts), out, c))
<1> DEFINE n == Len(posts)
           w == WayOf(posts, out, c)
           v == WayOf(Tail(posts), out, c)
<1>1. /\ n \in Nat \ {0} /\ w \in [1..(n + 1) -> Seq(Frames)] /\ v \in [1..n -> Seq(Frames)]
      /\ \A j \in 1..n : v[j] = w[j + 1]
      /\ w[1] = <<>>
  BY WayTail
<1> HIDE DEF n, w, v
<1>2. n \in Nat /\ 1 \in 1..(n + 1) /\ \A j \in 1..n : ~(j < 1)
  BY <1>1
<1>3. \A j \in 1..n : IF j < 1 THEN w[j] = v[j] ELSE w[j + 1] = v[j]
  BY <1>1, <1>2
<1>4. SameContent(v, w)
  BY <1>1, <1>2, <1>3, Inserted
<1> QED  BY <1>4 DEF SameContent, w, v

LEMMA OpenedKeeps ==
    ASSUME RemoteInv, GatewayReceives, Head(toGateway).t # "batch"
    PROVE  RemoteInv'
<1> DEFINE r == toGateway[1].r
           c == CHOOSE c \in Sockets : gw.sock[c].at = "opening" /\ gw.sock[c].session = r
           added == IF r \in gw.awaiting
                    THEN [gw EXCEPT !.awaiting = @ \ {r}, !.handlers = @ \cup {r}] ELSE gw
           k == [added EXCEPT !.remotes = r]
           P == Tail(toGateway)
<1>1. /\ gw \in Gateway /\ owner \in Owners /\ toGateway \in Seq(Posts) /\ owner.out \in Batches
      /\ BooksOK(gw) /\ SubsOK /\ InboxOK /\ StateTyped
  BY Facts DEF RemoteInv
<1>2. /\ toGateway # <<>> /\ heard' = heard /\ owner' = owner /\ toGateway' = P
      /\ faults' = faults /\ answers' = answers
  BY DEF GatewayReceives, bounds
<1>3. /\ P \in Seq(Posts) /\ Head(toGateway) = toGateway[1] /\ 1 \in DOMAIN toGateway
      /\ \A i \in DOMAIN P :
            i \in Nat /\ i + 1 \in DOMAIN toGateway /\ i + 1 # 1 /\ P[i] = toGateway[i + 1]
  BY <1>1, <1>2, PostsTail
<1>4. toGateway[1].t = "opened" /\ r \in Objects /\ r # None
  BY <1>1, <1>3, PostsTyped, Objects1
<1>5. gw' = Resolved(k, c, r)
  BY <1>3, <1>2 DEF GatewayReceives, Opened
<1>6. Opening(gw, r)
  BY <1>1, <1>3, <1>4 DEF SubsOK
<1> HIDE DEF P, r
<1>7. c \in Sockets /\ gw.sock[c].at = "opening" /\ gw.sock[c].session = r
  BY <1>6 DEF Opening
<1> HIDE DEF c
<1>8. \A d \in Sockets : gw.sock[d].at = "opening" /\ gw.sock[d].session = r => d = c
  BY <1>1, <1>7 DEF BooksOK
<1>9. /\ added \in Gateway
      /\ added.sock = gw.sock /\ added.conns = gw.conns /\ added.pending = gw.pending
      /\ added.inbox = gw.inbox /\ added.sub = gw.sub /\ added.channel = gw.channel
      /\ added.opens = gw.opens
      /\ gw.handlers \subseteq added.handlers /\ added.handlers \subseteq gw.handlers \cup {r}
      /\ added.awaiting \subseteq gw.awaiting
      /\ r \in added.handlers => r \in gw.handlers \/ r \in gw.awaiting
  <2>1. CASE r \in gw.awaiting
    <3>1. gw.awaiting \ {r} \in SUBSET Objects /\ gw.handlers \cup {r} \in SUBSET Objects
      BY <1>1, <1>4, GatewayFields
    <3>2. added = [gw EXCEPT !.awaiting = @ \ {r}, !.handlers = @ \cup {r}]
      BY <2>1
    <3> HIDE DEF added
    <3>3. added \in Gateway
      BY <1>1, <3>1, <3>2 DEF Gateway
    <3> QED  BY <1>1, <2>1, <3>2, <3>3, GatewayFields
  <2>2. CASE r \notin gw.awaiting
    BY <1>1, <2>2
  <2> QED  BY <2>1, <2>2
<1> HIDE DEF added
<1>10. /\ k \in Gateway /\ k.remotes = r
       /\ k.sock = gw.sock /\ k.conns = gw.conns /\ k.pending = gw.pending
       /\ k.inbox = gw.inbox /\ k.sub = gw.sub /\ k.channel = gw.channel /\ k.opens = gw.opens
       /\ k.handlers = added.handlers /\ k.awaiting = added.awaiting
  <2>1. k \in Gateway
    BY <1>4, <1>9 DEF Gateway
  <2> QED  BY <1>9, <2>1, GatewayFields
<1> HIDE DEF k
<1>11. Ready(gw, k, c, r)
  <2>1. r <= gw.opens /\ gw.conns[r] = {} /\ gw.opens <= gw.opens
    BY <1>1, <1>4, <1>7, GatewayFields DEF BooksOK
  <2>2. ~k.channel => k.handlers = {}
    <3>1. SUFFICES ASSUME ~gw.channel PROVE k.handlers = {}
      BY <1>10
    <3>2. gw.handlers = {} /\ gw.awaiting = {}
      BY <1>1, <3>1 DEF BooksOK
    <3> QED  BY <1>9, <1>10, <3>2
  <2> QED  BY <1>4, <1>7, <1>8, <1>9, <1>10, <2>1, <2>2 DEF Ready
<1>12. Joined(gw, gw', c)
  BY <1>1, <1>5, <1>11, ResolvedDoes
<1>13. InboxOK' /\ \A d \in Sockets : Answered(d)' <=> Answered(d)
  BY <1>1, <1>2, <1>12, InboxStep DEF Joined
<1>14. ASSUME NEW d \in Sockets PROVE SameContent(Way(d), Way(d)')
  <2>1. SameContent(WayOf(toGateway, owner.out, d), WayOf(P, owner.out, d))
    BY <1>1, <1>2, <1>4, NoticeTaken DEF P
  <2> QED  BY <1>2, <2>1, WayIs
<1>15. StateTyped'
  BY <1>1, <1>2, <1>3, <1>12 DEF StateTyped, Posts, Joined
<1>16. SubsOK'
  <2>1. /\ gw'.sub = gw.sub /\ gw'.channel = gw.channel
        /\ \A d \in Sockets : d # c => gw'.sock[d] = gw.sock[d]
    BY <1>12 DEF Joined
  <2>2. ASSUME NEW q, q # r, Opening(gw, q) PROVE Opening(gw', q)
    <3>1. PICK d \in Sockets : gw.sock[d].at = "opening" /\ gw.sock[d].session = q
      BY <2>2 DEF Opening
    <3>2. d # c
      BY <1>7, <2>2, <3>1
    <3> QED  BY <2>1, <3>1, <3>2 DEF Opening
  <2>3. \A i \in DOMAIN gw.sub : gw.sub[i].t = "sub" => Opening(gw', gw.sub[i].r)
    <3>1. \A i \in DOMAIN gw.sub : gw.sub[i].t = "sub" => Opening(gw, gw.sub[i].r)
      BY <1>1 DEF SubsOK
    <3>2. \A i \in DOMAIN gw.sub : gw.sub[i].t = "sub" => gw.sub[i].r # r
      BY <1>1, <1>3, <1>4 DEF SubsOK, r
    <3> QED  BY <2>2, <3>1, <3>2
  <2>4. ASSUME NEW i \in DOMAIN P, P[i].t = "opened" PROVE Opening(gw', P[i].r)
    <3>1. i + 1 \in DOMAIN toGateway /\ i + 1 # 1 /\ P[i] = toGateway[i + 1]
      BY <1>3
    <3>2. Opening(gw, P[i].r)
      BY <1>1, <2>4, <3>1 DEF SubsOK
    <3>3. P[i].r # r
      BY <1>1, <1>3, <1>4, <2>4, <3>1 DEF SubsOK, r
    <3> QED  BY <2>2, <3>2, <3>3
  <2>5. ASSUME NEW i \in DOMAIN P, NEW j \in DOMAIN P, P[i].t = "opened", P[j].t = "opened",
               P[i].r = P[j].r
        PROVE  i = j
    <3>1. /\ i + 1 \in DOMAIN toGateway /\ P[i] = toGateway[i + 1] /\ i \in Nat
          /\ j + 1 \in DOMAIN toGateway /\ P[j] = toGateway[j + 1] /\ j \in Nat
      BY <1>3
    <3>2. i + 1 = j + 1
      BY <1>1, <2>5, <3>1 DEF SubsOK
    <3> QED  BY <3>1, <3>2
  <2>6. \A i \in DOMAIN gw.sub : \A j \in DOMAIN P :
          gw.sub[i].t = "sub" /\ P[j].t = "opened" => gw.sub[i].r # P[j].r
    BY <1>1, <1>3 DEF SubsOK
  <2>7. IF gw'.sub = <<>> THEN heard' = gw'.channel
        ELSE gw'.channel <=> gw'.sub[Len(gw'.sub)].t = "sub"
    BY <1>1, <1>2, <2>1 DEF SubsOK
  <2>8. \A i \in DOMAIN gw'.sub : gw'.sub[i].t = "sub" => Opening(gw', gw'.sub[i].r)
    BY <2>1, <2>3
  <2>9. \A i, j \in DOMAIN gw'.sub :
          gw'.sub[i].t = "sub" /\ gw'.sub[j].t = "sub" /\ gw'.sub[i].r = gw'.sub[j].r => i = j
    BY <1>1, <2>1 DEF SubsOK
  <2>10. /\ \A i \in DOMAIN toGateway' :
               toGateway'[i].t = "opened" => Opening(gw', toGateway'[i].r)
         /\ \A i, j \in DOMAIN toGateway' :
               toGateway'[i].t = "opened" /\ toGateway'[j].t = "opened"
               /\ toGateway'[i].r = toGateway'[j].r => i = j
    BY <1>2, <2>4, <2>5
  <2>11. \A i \in DOMAIN gw'.sub, j \in DOMAIN toGateway' :
          gw'.sub[i].t = "sub" /\ toGateway'[j].t = "opened" => gw'.sub[i].r # toGateway'[j].r
    BY <1>2, <2>1, <2>6
  <2> QED  BY <2>7, <2>8, <2>9, <2>10, <2>11 DEF SubsOK
<1>17. \A d \in Sockets : StreamOK(d)'
  BY <1>1, <1>2, <1>12, <1>13, <1>14, StreamStep DEF RemoteInv, Joined
<1>18. SlowSubscribe = FALSE => \A d \in Sockets : NoGap(d)'
  BY <1>1, <1>2, <1>12, <1>13, <1>14, NoGapStep DEF RemoteInv, Joined
<1>19. owner'.crashed <= owner'.run
  BY <1>2 DEF RemoteInv
<1> QED  BY <1>12, <1>13, <1>15, <1>16, <1>17, <1>18, <1>19 DEF RemoteInv, Joined

-----------------------------------------------------------------------------
\* A batch arrives.
LEMMA SomeSocket ==
    ASSUME NEW x \in Socket
    PROVE  x \in AnySocket
<1>1. \A q \in 0..MaxEvents \cup {None} : q \in Nat \cup {None}
  BY RemoteAssumption
<1> QED  BY <1>1 DEF Socket, AnySocket

\* What is left on the way when the first batch is gone.
Beheaded(w, v) ==
    /\ Fewer(w, v)
    /\ EventsIn(<<w[1]>>) \in Nat /\ EventsIn(w) = EventsIn(<<w[1]>>) + EventsIn(v)
    /\ \A kind : Carries(w, kind) <=> Carries(v, kind) \/ Carries(<<w[1]>>, kind)
    /\ Welcomes(w) = Welcomes(v) \cup Welcomes(<<w[1]>>)
    /\ w[1] = <<>> => SameContent(w, v)
    /\ w[1] # <<>> => ~Nothing(w)
    /\ WelcomeFirst(w) => /\ WelcomeFirst(<<w[1]>>)
                          /\ w[1] # <<>> => Welcomes(v) = {}

LEMMA BeheadedIs ==
    ASSUME NEW n \in Nat \ {0}, NEW w \in [1..(n + 1) -> Seq(Frames)],
           NEW v \in [1..n -> Seq(Frames)], \A j \in 1..n : v[j] = w[j + 1]
    PROVE  Beheaded(w, v)
<1> DEFINE one == <<w[1]>>
<1>1. /\ w[1] \in Seq(Frames)
      /\ EventsIn(w) = EventsIn(one) + EventsIn(v)
      /\ \A kind : Carries(w, kind) <=> Carries(v, kind) \/ Carries(one, kind)
      /\ Welcomes(w) = Welcomes(v) \cup Welcomes(one)
      /\ Nothing(w) <=> Nothing(v) /\ w[1] = <<>>
      /\ WelcomeFirst(w) => /\ WelcomeFirst(v) /\ WelcomeFirst(one)
                            /\ w[1] # <<>> => Welcomes(v) = {}
  BY TakenOffWay
<1>2. EventsIn(w) \in Nat /\ EventsIn(v) \in Nat /\ EventsIn(one) \in Nat
  <2>1. n \in Nat /\ n + 1 \in Nat
    OBVIOUS
  <2>2. one \in [1..1 -> Seq(Frames)]
    <3>1. \A s \in Seq(Frames) : <<s>> \in [1..1 -> Seq(Frames)]
      OBVIOUS
    <3> QED  BY <1>1, <3>1
  <2> HIDE DEF one
  <2>3. EventsIn(w) \in Nat /\ EventsIn(v) \in Nat
    BY <2>1, EventsFinite
  <2>4. EventsIn(one) \in Nat
    <3>1. 1 \in Nat
      OBVIOUS
    <3> QED  BY <2>2, <3>1, EventsFinite
  <2> QED  BY <2>3, <2>4
<1> HIDE DEF one
<1>3. EventsIn(v) <= EventsIn(w)
  BY <1>1, <1>2
<1>4. Fewer(w, v)
  BY <1>1, <1>2, <1>3 DEF Fewer
<1>5. w[1] = <<>> => SameContent(w, v)
  <2>1. SUFFICES ASSUME w[1] = <<>> PROVE SameContent(w, v)
    OBVIOUS
  <2>2. n \in Nat /\ 1 \in 1..(n + 1) /\ \A j \in 1..n : ~(j < 1)
    OBVIOUS
  <2>3. \A j \in 1..n : IF j < 1 THEN w[j] = v[j] ELSE w[j + 1] = v[j]
    BY <2>2
  <2>4. SameContent(v, w)
    BY <2>1, <2>2, <2>3, Inserted
  <2> QED  BY <2>4 DEF SameContent
<1> QED  BY <1>1, <1>2, <1>4, <1>5 DEF Beheaded, one

\* A socket x that reads it and becomes y.
ReadOn(x, y, w, v, att, run, seq) ==
    /\ y \in Socket /\ y.at = x.at /\ y.session = x.session /\ y.abandoned = x.abandoned
    /\ y.up # "closed"
    /\ Streamed(y, v, TRUE, TRUE, att, run, seq)
    /\ \A crashed : Gapless(x, w, att, seq, crashed) =>
          /\ y.stray = x.stray
          /\ y.up = "open" => Gapless(y, v, att, seq, crashed)

LEMMA BatchRead ==
    ASSUME NEW n \in Nat \ {0}, NEW w \in [1..(n + 1) -> Seq(Frames)], NEW v, Beheaded(w, v),
           NEW x \in Socket, NEW y, y = ReadAll(x, w[1]), w[1] # <<>>, x.up = "open",
           NEW att, NEW run, NEW seq \in Nat, Streamed(x, w, TRUE, TRUE, att, run, seq)
    PROVE  ReadOn(x, y, w, v, att, run, seq)
<1> DEFINE one == <<w[1]>>
<1>1. /\ Fewer(w, v) /\ EventsIn(one) \in Nat /\ EventsIn(w) = EventsIn(one) + EventsIn(v)
      /\ EventsIn(v) \in Nat
      /\ \A kind : Carries(w, kind) <=> Carries(v, kind) \/ Carries(one, kind)
      /\ Welcomes(w) = Welcomes(one) /\ Welcomes(v) = {} /\ WelcomeFirst(v) /\ ~Nothing(w)
      /\ WelcomeFirst(one)
  BY DEF Beheaded, Streamed, Fewer
<1>2. x \in AnySocket /\ w[1] \in Seq(Frames)
  <2>1. 1 \in 1..(n + 1)
    OBVIOUS
  <2> QED  BY <2>1, SomeSocket
<1>3. HasRead(y, x, one)
  BY <1>1, <1>2, ReadAllDoes
<1> HIDE DEF one
<1>4. /\ y \in AnySocket /\ y.at = x.at /\ y.session = x.session /\ y.abandoned = x.abandoned
      /\ y.up = IF Carries(one, "bye") THEN "closing" ELSE "open"
      /\ Welcomes(one) = {} => /\ y.run = x.run
                               /\ x.seq = None => y.seq = None
                               /\ x.seq # None => y.stray = x.stray /\ Counted(y, x.seq, one)
      /\ \A f \in Welcomes(one) : y.run = f.run /\ y.stray = x.stray /\ Counted(y, f.seq, one)
  BY <1>3 DEF HasRead
<1>5. ~Carries(v, "welcome")
  BY <1>1, WelcomeCarried
<1>6. MaxEvents \in Nat /\ None \notin Nat
  BY RemoteAssumption
<1>7. x.seq = None <=> x.run = None
  BY DEF Streamed
<1>8. ASSUME y.seq \in 0..MaxEvents \cup {None} PROVE y \in Socket
  BY <1>4, <1>8 DEF AnySocket, Socket
<1>9. CASE Snapshots(x, w) = {}
  <2>1. x.run = None /\ Welcomes(w) = {} /\ x.seq = None
    <3>1. x.run = None
      BY <1>9 DEF Snapshots
    <3>2. Welcomes(w) = {}
      BY <1>9, <3>1 DEF Snapshots
    <3> QED  BY <1>7, <3>1, <3>2
  <2>2. y.run = None /\ y.seq = None
    BY <1>1, <1>4, <2>1
  <2>3. Snapshots(y, v) = {}
    BY <1>1, <2>2 DEF Snapshots
  <2>4. Streamed(y, v, TRUE, TRUE, att, run, seq)
    BY <1>1, <2>2, <2>3 DEF Streamed
  <2>5. \A crashed : ~Gapless(x, w, att, seq, crashed)
    BY <1>1, <1>9 DEF Gapless
  <2> QED  BY <1>4, <1>8, <2>2, <2>4, <2>5 DEF ReadOn
<1>10. CASE Snapshots(x, w) # {}
  <2>1. /\ y.run # None /\ y.stray = x.stray
        /\ \A s \in Snapshots(x, w) : y.run = s.run /\ Counted(y, s.seq, one)
    <3>1. CASE x.run # None
      <4>1. Welcomes(one) = {}
        BY <1>1, <3>1, WelcomeCarried DEF Streamed
      <4>2. x.seq # None
        BY <1>7, <3>1
      <4>3. y.run = x.run /\ y.stray = x.stray /\ Counted(y, x.seq, one)
        BY <1>4, <4>1, <4>2
      <4>4. Snapshots(x, w) = {[seq |-> x.seq, run |-> x.run]}
        BY <3>1 DEF Snapshots
      <4> QED  BY <3>1, <4>3, <4>4
    <3>2. CASE x.run = None
      <4>1. Snapshots(x, w) = {[seq |-> f.seq, run |-> f.run] : f \in Welcomes(one)}
        BY <1>1, <3>2 DEF Snapshots
      <4>2. PICK f \in Welcomes(one) : TRUE
        BY <1>10, <4>1
      <4>3. f.run \in Runs
        BY <1>1, <4>2, WelcomesTyped
      <4>4. y.run = f.run /\ y.stray = x.stray
        BY <1>4, <4>2
      <4>5. \A s \in Snapshots(x, w) : y.run = s.run /\ Counted(y, s.seq, one)
        BY <1>4, <4>1
      <4> QED  BY <4>3, <4>4, <4>5, Objects1
    <3> QED  BY <3>1, <3>2
  <2> DEFINE z == [seq |-> y.seq, run |-> y.run]
  <2>2. Snapshots(y, v) = {z} /\ z.seq = y.seq /\ z.run = y.run
    BY <2>1 DEF Snapshots
  <2> HIDE DEF z
  <2>3. ASSUME NEW s \in Snapshots(x, w)
        PROVE  /\ s.seq \in Nat /\ y.seq \in Nat /\ y.run = s.run
               /\ y.seq + EventsIn(v) <= s.seq + EventsIn(w)
               /\ y.up = "open" => y.seq + EventsIn(v) = s.seq + EventsIn(w)
    <3>1. s.seq \in Nat
      BY <1>7, SnapshotsTyped
    <3>2. Counted(y, s.seq, one) /\ y.run = s.run
      BY <2>1
    <3> QED  BY <1>1, <3>1, <3>2 DEF Counted
  <2>4. ASSUME NEW s \in Snapshots(x, w)
        PROVE  /\ s.run <= run /\ s.seq + EventsIn(w) <= MaxEvents
               /\ att => s.run = run /\ s.seq + EventsIn(w) <= seq
    BY DEF Streamed
  <2>5. EventsIn(w) \in Nat
    BY <1>1 DEF Fewer
  <2>6. PICK p : p \in Snapshots(x, w)
    BY <1>10
  <2>7. /\ y.run <= run /\ y.seq + EventsIn(v) <= MaxEvents /\ y.seq \in Nat
        /\ att => y.run = run /\ y.seq + EventsIn(v) <= seq
    <3>1. /\ p.seq \in Nat /\ y.seq \in Nat /\ y.run = p.run
          /\ y.seq + EventsIn(v) <= p.seq + EventsIn(w)
      BY <2>3, <2>6
    <3>2. /\ p.run <= run /\ p.seq + EventsIn(w) <= MaxEvents
          /\ att => p.run = run /\ p.seq + EventsIn(w) <= seq
      BY <2>4, <2>6
    <3> QED  BY <1>1, <1>6, <2>5, <3>1, <3>2, SMTT(30)
  <2>8. y.seq \in 0..MaxEvents /\ y.seq # None
    BY <1>1, <1>6, <2>7
  <2>9. Streamed(y, v, TRUE, TRUE, att, run, seq)
    BY <1>1, <1>5, <2>1, <2>2, <2>7, <2>8 DEF Streamed
  <2>10. ASSUME NEW crashed, Gapless(x, w, att, seq, crashed), y.up = "open"
         PROVE  Gapless(y, v, att, seq, crashed)
    <3>1. ~Carries(one, "bye")
      BY <1>4, <2>10
    <3>2. Carries(w, "bye") <=> Carries(v, "bye")
      BY <1>1, <3>1
    <3>3. ASSUME att PROVE ~Carries(v, "bye") /\ z.seq + EventsIn(v) = seq
      <4>1. PICK s \in Snapshots(x, w) : s.seq + EventsIn(w) = seq
        BY <2>10, <3>3 DEF Gapless
      <4>2. y.seq + EventsIn(v) = s.seq + EventsIn(w)
        BY <2>3, <2>10
      <4>3. ~Carries(w, "bye")
        BY <2>10, <3>3 DEF Gapless
      <4> QED  BY <2>2, <3>2, <4>1, <4>2, <4>3
    <3>4. ASSUME ~att PROVE Carries(v, "bye") \/ z.run <= crashed
      <4>1. Carries(w, "bye") \/ p.run <= crashed
        BY <2>6, <2>10, <3>4 DEF Gapless
      <4>2. z.run = p.run
        BY <2>2, <2>3, <2>6
      <4> QED  BY <3>2, <4>1, <4>2
    <3> QED  BY <2>2, <3>3, <3>4 DEF Gapless
  <2> QED  BY <1>4, <1>8, <2>1, <2>8, <2>9, <2>10 DEF ReadOn
<1> QED  BY <1>9, <1>10

LEMMA DeliverKeeps ==
    ASSUME RemoteInv, GatewayReceives, Head(toGateway).t = "batch"
    PROVE  RemoteInv'
<1> DEFINE B == toGateway[1].frames
           reached == {c \in Sockets : B[c] # <<>> /\ Listening(gw, c)}
           S == [c \in Sockets |-> IF c \in reached THEN ReadAll(gw.sock[c], B[c]) ELSE gw.sock[c]]
           P == Tail(toGateway)
           n == Len(toGateway)
<1>1. /\ gw \in Gateway /\ owner \in Owners /\ toGateway \in Seq(Posts) /\ owner.out \in Batches
      /\ BooksOK(gw) /\ SubsOK /\ InboxOK /\ StateTyped /\ owner.seq \in Nat
  BY Facts, OwnerFields DEF RemoteInv
<1>2. /\ toGateway # <<>> /\ heard' = heard /\ owner' = owner /\ toGateway' = P
      /\ faults' = faults /\ answers' = answers
  BY DEF GatewayReceives, bounds
<1>3. /\ P \in Seq(Posts) /\ Head(toGateway) = toGateway[1] /\ 1 \in DOMAIN toGateway
      /\ \A i \in DOMAIN P :
            i \in Nat /\ i + 1 \in DOMAIN toGateway /\ i + 1 # 1 /\ P[i] = toGateway[i + 1]
  BY <1>1, <1>2, PostsTail
<1>4. toGateway[1].t = "batch"
  BY <1>3
<1>5. gw' = [gw EXCEPT !.pending = gw.pending \ reached, !.sock = S]
  <2>1. gw' = Deliver(gw, B)
    BY <1>2, <1>3, <1>4 DEF GatewayReceives
  <2>2. /\ gw.sock = [c \in Sockets |-> gw.sock[c]]
        /\ DOMAIN gw = {"remotes", "opens", "conns", "pending", "channel", "handlers",
                        "awaiting", "sub", "inbox", "sock"}
    BY <1>1, GatewayFields
  <2> HIDE DEF B
  <2> QED  BY <2>1, <2>2 DEF Deliver
<1> HIDE DEF P
\* Socket by socket.
<1> DEFINE x(c) == gw.sock[c]
           y(c) == S[c]
           t(c) == Tied(gw, c)
           att(c) == c \in owner.attached
<1>6. ASSUME NEW c \in Sockets
      PROVE  /\ y(c) \in Socket
             /\ y(c).at = x(c).at /\ y(c).session = x(c).session
             /\ y(c).abandoned = x(c).abandoned
             /\ y(c).up = "open" => x(c).up = "open"
             /\ x(c).up = "closed" => y(c).up = "closed"
             /\ Streamed(y(c), Way(c)', Answered(c), t(c), att(c), owner.run, owner.seq)
             /\ SlowSubscribe = FALSE =>
                   /\ y(c).stray = x(c).stray
                   /\ Hearing(c) /\ y(c).up = "open" =>
                         Gapless(y(c), Way(c)', att(c), owner.seq, owner.crashed)
  <2> DEFINE w == Way(c)
             v == Way(c)'
             a == Answered(c)
             z == gw.sock[c]
             u == S[c]
             tied == Tied(gw, c)
             held == c \in owner.attached
  <2>1. /\ z \in Socket
        /\ Streamed(z, w, a, tied, held, owner.run, owner.seq)
        /\ SlowSubscribe = FALSE /\ Hearing(c) /\ z.up = "open" =>
              Gapless(z, w, held, owner.seq, owner.crashed)
    BY Facts
  <2>2. w = WayOf(toGateway, owner.out, c) /\ v = WayOf(P, owner.out, c)
    BY <1>2, WayIs
  <2>3. /\ n \in Nat \ {0} /\ w \in [1..(n + 1) -> Seq(Frames)]
        /\ v \in [1..n -> Seq(Frames)] /\ \A j \in 1..n : v[j] = w[j + 1]
        /\ w[1] = B[c]
    <3> HIDE DEF w, v
    <3> QED  BY <1>1, <1>2, <1>4, <2>2, WayTail DEF P
  <2>4. u = IF c \in reached THEN ReadAll(z, B[c]) ELSE z
    OBVIOUS
  <2>5. c \in reached <=> B[c] # <<>> /\ Listening(gw, c)
    OBVIOUS
  <2>6. Hearing(c) => Listening(gw, c)
    <3>1. SUFFICES ASSUME Hearing(c) PROVE Listening(gw, c)
      OBVIOUS
    <3>2. c \in gw.conns[z.session] /\ z.session \in gw.handlers
      BY <3>1 DEF Hearing
    <3> QED  BY <3>2 DEF Listening
  <2> HIDE DEF w, v, a, z, u, tied, held, S, B, n, reached
  <2>7. Beheaded(w, v)
    BY <2>3, BeheadedIs
  <2>8. CASE B[c] = <<>>
    <3>1. SameContent(w, v) /\ u = z
      BY <2>3, <2>4, <2>5, <2>7, <2>8 DEF Beheaded
    <3>2. Streamed(z, v, a, tied, held, owner.run, owner.seq)
      BY <2>1, <3>1, SameStreamed
    <3>3. SlowSubscribe = FALSE /\ Hearing(c) /\ z.up = "open" =>
             Gapless(z, v, held, owner.seq, owner.crashed)
      BY <2>1, <3>1, SameStreamed
    <3> QED  BY <2>1, <3>1, <3>2, <3>3 DEF z, u, w, v, a, tied, held
  <2>9. CASE B[c] # <<>> /\ ~Listening(gw, c)
    <3>1. Fewer(w, v) /\ u = z
      BY <2>4, <2>5, <2>7, <2>9 DEF Beheaded
    <3>2. Streamed(z, v, a, tied, held, owner.run, owner.seq)
      BY <1>1, <2>1, <2>3, <3>1, FewerStreamed
    <3>3. ~Hearing(c)
      BY <2>6, <2>9
    <3> QED  BY <2>1, <3>1, <3>2, <3>3 DEF z, u, w, v, a, tied, held
  <2>10. CASE B[c] # <<>> /\ Listening(gw, c)
    <3>1. u = ReadAll(z, w[1]) /\ w[1] # <<>>
      BY <2>3, <2>4, <2>5, <2>10
    <3>2. PICK r \in gw.handlers : c \in gw.conns[r]
      BY <2>10 DEF Listening
    <3>3. r \in Objects /\ z.session = r
      BY <1>1, <3>2, GatewayFields DEF BooksOK, z
    <3>4. a /\ tied /\ Hearing(c)
      <4>1. ~Nothing(w)
        BY <2>7, <3>1 DEF Beheaded
      <4>2. a
        BY <2>1, <4>1 DEF Streamed
      <4>3. tied
        BY <3>2, <3>3 DEF tied, Tied, z
      <4>4. Hearing(c)
        BY <3>2, <3>3, <4>2 DEF Hearing, a, z
      <4> QED  BY <4>2, <4>3, <4>4
    <3>5. Streamed(z, w, TRUE, TRUE, held, owner.run, owner.seq)
      BY <2>1, <3>4 DEF Streamed
    <3>6. CASE z.up = "open"
      <4>1. /\ u \in Socket /\ u.at = z.at /\ u.session = z.session /\ u.abandoned = z.abandoned
            /\ u.up # "closed"
            /\ Streamed(u, v, TRUE, TRUE, held, owner.run, owner.seq)
            /\ \A crashed : Gapless(z, w, held, owner.seq, crashed) =>
                  /\ u.stray = z.stray
                  /\ u.up = "open" => Gapless(u, v, held, owner.seq, crashed)
        <5>1. ReadOn(z, u, w, v, held, owner.run, owner.seq)
          BY <1>1, <2>1, <2>3, <2>7, <3>1, <3>5, <3>6, BatchRead
        <5> QED  BY <5>1 DEF ReadOn
      <4>2. Streamed(u, v, a, tied, held, owner.run, owner.seq)
        BY <3>4, <4>1 DEF Streamed
      <4>3. SlowSubscribe = FALSE =>
               /\ u.stray = z.stray
               /\ u.up = "open" => Gapless(u, v, held, owner.seq, owner.crashed)
        BY <2>1, <3>4, <3>6, <4>1
      <4> QED  BY <3>6, <4>1, <4>2, <4>3 DEF z, u, w, v, a, tied, held
    <3>7. CASE z.up # "open"
      <4>1. u = z
        <5>1. 1 \in 1..(n + 1)
          BY <2>3
        <5>2. z \in AnySocket /\ w[1] \in Seq(Frames)
          BY <2>1, <2>3, <5>1, SomeSocket
        <5>3. WelcomeFirst(<<w[1]>>)
          BY <2>1, <2>7 DEF Streamed, Beheaded
        <5>4. HasRead(u, z, <<w[1]>>)
          BY <3>1, <5>2, <5>3, ReadAllDoes
        <5> QED  BY <3>7, <5>4 DEF HasRead
      <4>2. Fewer(w, v)
        BY <2>7 DEF Beheaded
      <4>3. Streamed(z, v, a, tied, held, owner.run, owner.seq)
        BY <1>1, <2>1, <2>3, <4>2, FewerStreamed
      <4> QED  BY <2>1, <3>7, <4>1, <4>3 DEF z, u, w, v, a, tied, held
    <3> QED  BY <3>6, <3>7
  <2> QED  BY <2>8, <2>9, <2>10
<1>7. S = [c \in Sockets |-> S[c]]
  OBVIOUS
<1> HIDE DEF S, reached, x, y, t, att
<1>8. S \in [Sockets -> Socket]
  BY <1>6, <1>7 DEF y
<1>9. /\ gw' \in Gateway
      /\ gw'.remotes = gw.remotes /\ gw'.opens = gw.opens /\ gw'.conns = gw.conns
      /\ gw'.pending = gw.pending \ reached /\ gw'.channel = gw.channel
      /\ gw'.handlers = gw.handlers /\ gw'.awaiting = gw.awaiting /\ gw'.sub = gw.sub
      /\ gw'.inbox = gw.inbox /\ gw'.sock = S
  <2>1. gw.pending \ reached \in SUBSET Sockets
    BY <1>1, GatewayFields
  <2>2. gw' \in Gateway
    BY <1>1, <1>5, <1>8, <2>1 DEF Gateway
  <2> QED  BY <1>1, <1>5, <2>2, GatewayFields
<1>10. \A c \in Sockets :
          /\ gw'.sock[c].at = gw.sock[c].at /\ gw'.sock[c].session = gw.sock[c].session
          /\ gw'.sock[c].abandoned = gw.sock[c].abandoned
          /\ gw'.sock[c].up = "open" => gw.sock[c].up = "open"
          /\ gw.sock[c].up = "closed" => gw'.sock[c].up = "closed"
  BY <1>6, <1>9 DEF x, y
<1>11. \A c : Held(gw', c) <=> Held(gw, c)
  BY <1>9 DEF Held
<1>12. BooksOK(gw')
  <2>1. \A r \in Objects : \A c \in gw'.conns[r] : c \in Sockets
    BY <1>9, GatewayFields
  <2>2. \A r \in Objects : \A c \in gw'.conns[r] :
           gw'.sock[c].at = "joined" /\ gw'.sock[c].session = r
    BY <1>1, <1>9, <1>10, <2>1 DEF BooksOK
  <2>3. \A c \in gw'.pending : Held(gw', c)
    BY <1>1, <1>9, <1>11 DEF BooksOK
  <2>4. ASSUME NEW c \in Sockets
        PROVE  LET z == gw'.sock[c]
               IN  /\ z.at \in {"start", "lookup"} => z.session = None
                   /\ z.session # None => z.session <= gw'.opens
                   /\ z.at = "opening" => /\ z.session # None /\ z.session # gw'.remotes
                                          /\ z.session \notin gw'.handlers
                                          /\ gw'.conns[z.session] = {}
                   /\ z.at = "joined" /\ z.session # None /\ z.up = "open" =>
                         c \in gw'.conns[z.session]
                   /\ z.at = "joined" /\ z.session = None => z.up = "closed"
    <3> DEFINE q == gw.sock[c]
               z == gw'.sock[c]
    <3>1. /\ q.at \in {"start", "lookup"} => q.session = None
          /\ q.session # None => q.session <= gw.opens
          /\ q.at = "opening" => /\ q.session # None /\ q.session # gw.remotes
                                 /\ q.session \notin gw.handlers
                                 /\ gw.conns[q.session] = {}
          /\ q.at = "joined" /\ q.session # None /\ q.up = "open" => c \in gw.conns[q.session]
          /\ q.at = "joined" /\ q.session = None => q.up = "closed"
      BY <1>1 DEF BooksOK
    <3>2. /\ z.at = q.at /\ z.session = q.session
          /\ z.up = "open" => q.up = "open"
          /\ q.up = "closed" => z.up = "closed"
      BY <1>10
    <3> HIDE DEF q, z
    <3>3. /\ z.at \in {"start", "lookup"} => z.session = None
          /\ z.session # None => z.session <= gw'.opens
          /\ z.at = "opening" => /\ z.session # None /\ z.session # gw'.remotes
                                 /\ z.session \notin gw'.handlers
                                 /\ gw'.conns[z.session] = {}
          /\ z.at = "joined" /\ z.session # None /\ z.up = "open" => c \in gw'.conns[z.session]
          /\ z.at = "joined" /\ z.session = None => z.up = "closed"
      BY <1>9, <3>1, <3>2
    <3> QED  BY <3>3 DEF z
  <2>5. \A c, d \in Sockets : gw'.sock[c].at = "opening" /\ gw'.sock[d].at = "opening"
                              /\ gw'.sock[c].session = gw'.sock[d].session => c = d
    BY <1>1, <1>10 DEF BooksOK
  <2>6. /\ \A r \in gw'.handlers \cup gw'.awaiting \cup {gw'.remotes} :
              r # None => r <= gw'.opens
        /\ ~gw'.channel => gw'.handlers = {} /\ gw'.awaiting = {}
    BY <1>1, <1>9 DEF BooksOK
  <2> QED  BY <2>2, <2>3, <2>4, <2>5, <2>6 DEF BooksOK
<1>13. \A c : /\ Coming("detach", c)' <=> Coming("detach", c)
              /\ Coming("join", c)' <=> Coming("join", c)
  BY <1>9 DEF Coming
<1>14. \A c \in Sockets : Answered(c)' <=> Answered(c)
  BY <1>10, <1>13 DEF Answered
<1>15. InboxOK'
  <2> DEFINE I == gw.inbox
  <2>1. ASSUME NEW i \in DOMAIN I
        PROVE  LET p == I[i]
               IN  /\ p.t \in {"join", "detach"} =>
                         gw'.sock[p.c].at = "joined" /\ gw'.sock[p.c].session # None
                   /\ p.t = "detach" => ~Held(gw', p.c)
                   /\ p.t = "join" =>
                         /\ p.c \notin owner'.attached
                         /\ \A j \in DOMAIN I : I[j] = p => j = i
                         /\ \/ Held(gw', p.c) \/ gw'.sock[p.c].abandoned = TRUE
                            \/ \E j \in DOMAIN I : j > i /\ I[j] = [t |-> "detach", c |-> p.c]
    <3> DEFINE p == I[i]
    <3>1. p.c \in Sockets
      <4>1. \A m \in [t : {"join", "answer", "detach"}, c : Sockets] : m.c \in Sockets
        OBVIOUS
      <4>2. I \in Seq([t : {"join", "answer", "detach"}, c : Sockets])
        BY <1>1, GatewayFields
      <4>3. \A R, s : s \in Seq(R) => \A j \in DOMAIN s : s[j] \in R
        OBVIOUS
      <4> HIDE DEF I
      <4> QED  BY <4>1, <4>2, <4>3
    <3>2. /\ p.t \in {"join", "detach"} =>
                   gw.sock[p.c].at = "joined" /\ gw.sock[p.c].session # None
          /\ p.t = "detach" => ~Held(gw, p.c)
          /\ p.t = "join" =>
                   /\ p.c \notin owner.attached
                   /\ \A j \in DOMAIN I : I[j] = p => j = i
                   /\ \/ Held(gw, p.c) \/ gw.sock[p.c].abandoned = TRUE
                      \/ \E j \in DOMAIN I : j > i /\ I[j] = [t |-> "detach", c |-> p.c]
      BY <1>1 DEF InboxOK
    <3> HIDE DEF I
    <3> QED  BY <1>2, <1>10, <1>11, <3>1, <3>2
  <2>2. gw'.inbox = I
    BY <1>9
  <2>3. \A c \in owner'.attached :
           /\ c \in Sockets
           /\ gw'.sock[c].at = "joined" /\ gw'.sock[c].session # None
           /\ Held(gw', c) \/ gw'.sock[c].abandoned = TRUE \/ Coming("detach", c)'
    <3>1. \A c \in owner.attached : c \in Sockets
      BY <1>1, OwnerFields
    <3> QED  BY <1>1, <1>2, <1>10, <1>11, <1>13, <3>1 DEF InboxOK
  <2>4. owner'.attached # {} => owner'.serving = TRUE
    BY <1>1, <1>2 DEF InboxOK
  <2> HIDE DEF I
  <2>5. \A i \in DOMAIN gw'.inbox :
          LET p == gw'.inbox[i]
          IN  /\ p.t \in {"join", "detach"} =>
                       gw'.sock[p.c].at = "joined" /\ gw'.sock[p.c].session # None
              /\ p.t = "detach" => ~Held(gw', p.c)
              /\ p.t = "join" =>
                       /\ p.c \notin owner'.attached
                       /\ \A j \in DOMAIN gw'.inbox : gw'.inbox[j] = p => j = i
                       /\ \/ Held(gw', p.c) \/ gw'.sock[p.c].abandoned = TRUE
                          \/ \E j \in DOMAIN gw'.inbox :
                                j > i /\ gw'.inbox[j] = [t |-> "detach", c |-> p.c]
    <3> DEFINE J == gw'.inbox
    <3>1. J = I
      BY <2>2
    <3> HIDE DEF J
    <3>2. \A i \in DOMAIN J :
          LET p == J[i]
          IN  /\ p.t \in {"join", "detach"} =>
                       gw'.sock[p.c].at = "joined" /\ gw'.sock[p.c].session # None
              /\ p.t = "detach" => ~Held(gw', p.c)
              /\ p.t = "join" =>
                       /\ p.c \notin owner'.attached
                       /\ \A j \in DOMAIN J : J[j] = p => j = i
                       /\ \/ Held(gw', p.c) \/ gw'.sock[p.c].abandoned = TRUE
                          \/ \E j \in DOMAIN J : j > i /\ J[j] = [t |-> "detach", c |-> p.c]
      BY <2>1, <3>1, ZenonT(30)
    <3> QED  BY <3>2 DEF J
  <2> QED  BY <2>3, <2>4, <2>5 DEF InboxOK
<1>16. SubsOK'
  <2>1. \A r : Opening(gw', r) <=> Opening(gw, r)
    BY <1>10 DEF Opening
  <2>2. \A i \in DOMAIN P : P[i].t = "opened" => Opening(gw', P[i].r)
    BY <1>1, <1>3, <2>1 DEF SubsOK
  <2>3. ASSUME NEW i \in DOMAIN P, NEW j \in DOMAIN P, P[i].t = "opened", P[j].t = "opened",
               P[i].r = P[j].r
        PROVE  i = j
    <3>1. /\ i + 1 \in DOMAIN toGateway /\ P[i] = toGateway[i + 1] /\ i \in Nat
          /\ j + 1 \in DOMAIN toGateway /\ P[j] = toGateway[j + 1] /\ j \in Nat
      BY <1>3
    <3>2. i + 1 = j + 1
      BY <1>1, <2>3, <3>1 DEF SubsOK
    <3> QED  BY <3>1, <3>2
  <2>4. \A i \in DOMAIN gw.sub : \A j \in DOMAIN P :
          gw.sub[i].t = "sub" /\ P[j].t = "opened" => gw.sub[i].r # P[j].r
    BY <1>1, <1>3 DEF SubsOK
  <2>5. IF gw'.sub = <<>> THEN heard' = gw'.channel
        ELSE gw'.channel <=> gw'.sub[Len(gw'.sub)].t = "sub"
    BY <1>1, <1>2, <1>9 DEF SubsOK
  <2>6. \A i \in DOMAIN gw'.sub : gw'.sub[i].t = "sub" => Opening(gw', gw'.sub[i].r)
    BY <1>1, <1>9, <2>1 DEF SubsOK
  <2>7. \A i, j \in DOMAIN gw'.sub :
          gw'.sub[i].t = "sub" /\ gw'.sub[j].t = "sub" /\ gw'.sub[i].r = gw'.sub[j].r => i = j
    BY <1>1, <1>9 DEF SubsOK
  <2>8. /\ \A i \in DOMAIN toGateway' :
              toGateway'[i].t = "opened" => Opening(gw', toGateway'[i].r)
        /\ \A i, j \in DOMAIN toGateway' :
              toGateway'[i].t = "opened" /\ toGateway'[j].t = "opened"
              /\ toGateway'[i].r = toGateway'[j].r => i = j
    BY <1>2, <2>2, <2>3
  <2>9. \A i \in DOMAIN gw'.sub, j \in DOMAIN toGateway' :
          gw'.sub[i].t = "sub" /\ toGateway'[j].t = "opened" => gw'.sub[i].r # toGateway'[j].r
    BY <1>2, <1>9, <2>4
  <2> QED  BY <2>5, <2>6, <2>7, <2>8, <2>9 DEF SubsOK
<1>17. StateTyped'
  BY <1>1, <1>2, <1>3, <1>9 DEF StateTyped, Posts
<1>18. ASSUME NEW c \in Sockets
       PROVE  StreamOK(c)' /\ (SlowSubscribe = FALSE => NoGap(c)')
  <2> DEFINE v == Way(c)'
             z == gw'.sock[c]
             held == c \in owner.attached
  <2>1. /\ Streamed(z, v, Answered(c), Tied(gw, c), held, owner.run, owner.seq)
        /\ SlowSubscribe = FALSE =>
              /\ z.stray = gw.sock[c].stray
              /\ Hearing(c) /\ z.up = "open" => Gapless(z, v, held, owner.seq, owner.crashed)
    BY <1>6, <1>9 DEF x, y, t, att
  <2>2. Tied(gw', c) <=> Tied(gw, c)
    BY <1>9, <1>10 DEF Tied
  <2>3. Hearing(c)' <=> Hearing(c)
    BY <1>9, <1>10, <1>14 DEF Hearing
  <2>4. SlowSubscribe = FALSE => /\ gw.sock[c].stray = FALSE
                                 /\ Hearing(c) => heard = TRUE /\ gw.sub = <<>>
    BY DEF RemoteInv, NoGap
  <2>5. (c \in owner'.attached) <=> held
    BY <1>2
  <2> HIDE DEF v, z, held
  <2>6. Streamed(z, v, Answered(c)', Tied(gw', c), c \in owner'.attached, owner'.run, owner'.seq)
    BY <1>2, <1>14, <2>1, <2>2, <2>5 DEF Streamed
  <2>7. SlowSubscribe = FALSE /\ Hearing(c)' /\ z.up = "open" =>
           Gapless(z, v, c \in owner'.attached, owner'.seq, owner'.crashed)
    BY <1>2, <2>1, <2>3, <2>5 DEF Gapless
  <2>8. StreamOK(c)'
    BY <2>6, StreamIs DEF v, z
  <2>9. SlowSubscribe = FALSE => NoGap(c)'
    BY <1>2, <1>9, <2>1, <2>3, <2>4, <2>7, NoGapIs DEF v, z
  <2> QED  BY <2>8, <2>9
<1>19. owner'.crashed <= owner'.run
  BY <1>2 DEF RemoteInv
<1> QED  BY <1>12, <1>15, <1>16, <1>17, <1>18, <1>19 DEF RemoteInv

-----------------------------------------------------------------------------
LEMMA InitKeeps ==
    ASSUME RemoteInit
    PROVE  RemoteInv
<1> DEFINE Fresh == [up |-> "open", at |-> "start", session |-> None, seq |-> None,
                     run |-> None, stray |-> FALSE, abandoned |-> FALSE]
<1>1. /\ MaxOpens \in Nat /\ MaxRuns \in Nat /\ MaxRuns > 0 /\ MaxEvents \in Nat
      /\ MaxAnswers \in Nat /\ MaxFaults \in Nat
  BY RemoteAssumption
<1>2. /\ gw.remotes = None /\ gw.opens = 0 /\ gw.conns = [r \in Objects |-> {}]
      /\ gw.pending = {} /\ gw.channel = FALSE /\ gw.handlers = {} /\ gw.awaiting = {}
      /\ gw.sub = <<>> /\ gw.inbox = <<>> /\ gw.sock = [c \in Sockets |-> Fresh]
      /\ heard = FALSE /\ toGateway = <<>> /\ faults = 0 /\ answers = 0
      /\ owner = [run |-> 1, serving |-> TRUE, crashed |-> 0, attached |-> {}, seq |-> 0,
                  out |-> Quiet]
  BY DEF RemoteInit
<1>3. Fresh \in Socket
  BY DEF Socket
<1>4. gw \in Gateway
  <2>1. 0 \in 0..MaxOpens
    BY <1>1
  <2>2. /\ [r \in Objects |-> {}] \in [Objects -> SUBSET Sockets]
        /\ [c \in Sockets |-> Fresh] \in [Sockets -> Socket]
    BY <1>3
  <2> HIDE DEF Fresh
  <2>3. gw = [remotes |-> None, opens |-> 0, conns |-> [r \in Objects |-> {}],
             pending |-> {}, channel |-> FALSE, handlers |-> {}, awaiting |-> {},
             sub |-> <<>>, inbox |-> <<>>, sock |-> [c \in Sockets |-> Fresh]]
    BY DEF RemoteInit, Fresh
  <2>4. /\ {} \in SUBSET Sockets /\ {} \in SUBSET Objects
        /\ <<>> \in Seq([t : {"sub", "unsub"}, r : Objects])
        /\ <<>> \in Seq([t : {"join", "answer", "detach"}, c : Sockets])
    OBVIOUS
  <2> QED  BY <2>1, <2>2, <2>3, <2>4 DEF Gateway
<1>5. Quiet \in Batches /\ \A c \in Sockets : Quiet[c] = <<>>
  BY DEF Quiet, Batches
<1>6. owner \in Owners
  <2>1. 1 \in Runs /\ 0 \in 0..MaxRuns /\ 0 \in 0..MaxEvents
    BY <1>1 DEF Runs
  <2> QED  BY <1>2, <1>5, <2>1 DEF Owners
<1>7. StateTyped
  <2>1. toGateway \in Seq([t : {"opened"}, r : Objects] \cup [t : {"batch"}, frames : Batches])
    <3>1. \A R : <<>> \in Seq(R)
      OBVIOUS
    <3> QED  BY <1>2, <3>1
  <2>2. 0 \in 0..MaxFaults /\ 0 \in 0..MaxAnswers
    BY <1>1
  <2>3. faults \in 0..MaxFaults /\ answers \in 0..MaxAnswers /\ heard \in BOOLEAN
    BY <1>2, <2>2, Zenon
  <2> QED  BY <1>4, <1>6, <2>1, <2>3 DEF StateTyped
<1>8. \A c \in Sockets : gw.sock[c] = Fresh
  BY <1>2
<1>9. BooksOK(gw)
  BY <1>2, <1>8 DEF BooksOK
<1>10. SubsOK
  <2>1. DOMAIN gw.sub = {} /\ DOMAIN toGateway = {}
    BY <1>2
  <2>2. gw.sub = <<>> /\ heard = gw.channel
    BY <1>2
  <2> QED  BY <2>1, <2>2 DEF SubsOK
<1>11. InboxOK
  BY <1>2 DEF InboxOK
<1>12. ASSUME NEW c \in Sockets PROVE StreamOK(c) /\ NoGap(c)
  <2> DEFINE w == Way(c)
  <2>1. toGateway \in Seq(Posts) /\ owner.out \in Batches
    <3>1. <<>> \in Seq(Posts)
      OBVIOUS
    <3> QED  BY <1>2, <1>5, <3>1
  <2>2. /\ w \in [1..(Len(toGateway) + 1) -> Seq(Frames)] /\ w[Len(toGateway) + 1] = owner.out[c]
    BY <2>1, WayOfTyped, WayIs
  <2>3. Len(toGateway) = 0 /\ owner.out = Quiet
    BY <1>2
  <2>4. Nothing(w)
    <3> HIDE DEF w
    <3>1. DOMAIN w = 1..1 /\ w[1] = <<>>
      BY <1>5, <2>2, <2>3
    <3> QED  BY <3>1 DEF Nothing
  <2>5. /\ gw.sock[c].at = "start" /\ gw.sock[c].run = None /\ gw.sock[c].seq = None
        /\ gw.sock[c].stray = FALSE
    BY <1>8
  <2>6. ~Answered(c) /\ ~Hearing(c) /\ c \notin owner.attached
    BY <1>2, <2>5 DEF Answered, Hearing
  <2> HIDE DEF w
  <2>7. Welcomes(w) = {} /\ WelcomeFirst(w)
    <3>1. w \in [1..1 -> Seq(Frames)] /\ 1 \in Nat
      BY <2>2, <2>3
    <3> QED  BY <2>4, <3>1, NothingHas
  <2>8. Snapshots(gw.sock[c], w) = {}
    BY <2>5, <2>7 DEF Snapshots
  <2>9. Streamed(gw.sock[c], w, Answered(c), Tied(gw, c), c \in owner.attached, owner.run,
                 owner.seq)
    BY <2>4, <2>5, <2>6, <2>7, <2>8 DEF Streamed
  <2> QED  BY <2>5, <2>6, <2>9, StreamIs, NoGapIs DEF w
<1>13. owner.crashed <= owner.run
  BY <1>2
<1> QED  BY <1>7, <1>9, <1>10, <1>11, <1>12, <1>13 DEF RemoteInv

-----------------------------------------------------------------------------
LEMMA StutterKeeps ==
    ASSUME RemoteInv, UNCHANGED vars
    PROVE  RemoteInv'
<1>1. /\ gw' = gw /\ heard' = heard /\ toGateway' = toGateway /\ owner' = owner
      /\ faults' = faults /\ answers' = answers
  BY DEF vars
<1>2. StateTyped' /\ BooksOK(gw') /\ owner'.crashed <= owner'.run
  BY <1>1 DEF RemoteInv, StateTyped
<1>3. SubsOK'
  BY <1>1 DEF RemoteInv, SubsOK
<1>4. InboxOK'
  BY <1>1, InboxKeeps DEF RemoteInv, InboxOK
<1>5. \A c : Way(c)' = Way(c)
  BY <1>1 DEF Way
<1>6. \A c : /\ Answered(c)' <=> Answered(c)
             /\ Hearing(c)' <=> Hearing(c)
  BY <1>1 DEF Answered, Hearing, Coming
<1>7. \A c : /\ StreamOK(c) => StreamOK(c)'
             /\ NoGap(c) => NoGap(c)'
  BY <1>1, <1>5, <1>6 DEF StreamOK, NoGap
<1> QED  BY <1>2, <1>3, <1>4, <1>7 DEF RemoteInv

LEMMA RemoteStepKeeps ==
    ASSUME RemoteInv, [RemoteNext]_vars
    PROVE  RemoteInv'
<1>1. ASSUME NEW c \in Sockets,
             JoinFrame(c) \/ OwnerKnown(c) \/ AnswerFrame(c) \/ Closed(c) \/ JoinTimeout(c)
      PROVE  RemoteInv'
  <2>1. CASE JoinFrame(c)
    BY <2>1, JoinFrameKeeps
  <2>2. CASE OwnerKnown(c)
    BY <2>2, OwnerKnownKeeps
  <2>3. CASE AnswerFrame(c)
    BY <2>3, AnswerFrameKeeps
  <2>4. CASE Closed(c)
    BY <2>4, ClosedKeeps
  <2>5. CASE JoinTimeout(c)
    BY <2>5, JoinTimeoutKeeps
  <2> QED  BY <1>1, <2>1, <2>2, <2>3, <2>4, <2>5
<1>2. CASE GatewayReceives
  BY <1>2, DeliverKeeps, OpenedKeeps
<1>3. CASE RedisTakes
  BY <1>3, RedisTakesKeeps
<1>4. CASE OwnerReceives
  BY <1>4, OwnerReceivesKeeps
<1>5. CASE Broadcast
  BY <1>5, BroadcastKeeps
<1>6. CASE Flush
  BY <1>6, FlushKeeps
<1>7. CASE Dispose
  BY <1>7, DisposeKeeps
<1>8. CASE Crash
  BY <1>8, CrashKeeps
<1>9. CASE NextRun
  BY <1>9, NextRunKeeps
<1>10. CASE UNCHANGED vars
  BY <1>10, StutterKeeps
<1> QED  BY <1>1, <1>2, <1>3, <1>4, <1>5, <1>6, <1>7, <1>8, <1>9, <1>10 DEF RemoteNext

\* Every reachable state of a gateway and an owner satisfies the inductive invariant.
THEOREM RemoteKeepsInv == RemoteSpec => []RemoteInv
<1>1. RemoteInit => RemoteInv
  BY InitKeeps
<1>2. RemoteInv /\ [RemoteNext]_vars => RemoteInv'
  BY RemoteStepKeeps
<1> QED  BY <1>1, <1>2, PTL DEF RemoteSpec

\* The state is of its types, and a join that waits, waits for a socket that its
\* session still holds: no timer of remote.ts fires for a socket it has let go.
THEOREM RemoteTypeCorrect == RemoteSpec => []RemoteTypeOK
<1>1. ASSUME RemoteInv PROVE RemoteTypeOK
  <2>1. StateTyped /\ \A c \in gw.pending : Held(gw, c)
    BY <1>1 DEF RemoteInv, BooksOK
  <2>2. \A i \in DOMAIN toGateway :
           \/ toGateway[i].t = "opened" /\ toGateway[i].r \in Objects
           \/ toGateway[i].t = "batch" /\ toGateway[i].frames \in Batches
    BY <2>1, ToGatewayTyped
  <2>3. \A c \in gw.pending : \E r \in Objects : c \in gw.conns[r]
    BY <2>1 DEF Held
  <2> QED  BY <2>1, <2>2, <2>3 DEF RemoteTypeOK, StateTyped
<1>2. RemoteInv => RemoteTypeOK
  BY <1>1
<1> QED  BY <1>2, RemoteKeepsInv, PTL

\* A connection that the owner holds is known to its gateway, or its detach is on
\* the way, or it was dropped with an owner taken for dead (remote.ts:156-169): the
\* session cannot be kept alive by sockets that nobody serves.
THEOREM AttachedAreKnown == RemoteSpec => []AttachedIsKnown
<1>1. ASSUME RemoteInv PROVE AttachedIsKnown
  BY <1>1 DEF RemoteInv, InboxOK, AttachedIsKnown, Held, Coming
<1>2. RemoteInv => AttachedIsKnown
  BY <1>1
<1> QED  BY <1>2, RemoteKeepsInv, PTL

-----------------------------------------------------------------------------
\* An open socket that has been welcomed hears the channel of its session.
LEMMA WelcomedHears ==
    ASSUME RemoteInv, NEW c \in Sockets, gw.sock[c].up = "open", gw.sock[c].run # None
    PROVE  Hearing(c)
<1> DEFINE x == gw.sock[c]
<1>1. StreamOK(c) /\ BooksOK(gw)
  BY DEF RemoteInv
<1>2. Answered(c)
  BY <1>1 DEF StreamOK
<1>3. x.at = "joined" /\ x.session # None
  BY <1>2 DEF Answered
<1>4. c \in gw.conns[x.session]
  BY <1>1, <1>3 DEF BooksOK
<1>5. x.session \in gw.handlers
  BY <1>1, <1>4 DEF StreamOK
<1> QED  BY <1>2, <1>4, <1>5 DEF Hearing

LEMMA WelcomedStream ==
    ASSUME RemoteInv, SlowSubscribe = FALSE, NEW c \in Sockets,
           gw.sock[c].up = "open", gw.sock[c].run # None
    PROVE  /\ c \in owner.attached =>
                 /\ gw.sock[c].run = owner.run
                 /\ gw.sock[c].seq + OnTheWay(c) = owner.seq
           /\ c \notin owner.attached =>
                 Carries(Way(c), "bye") \/ gw.sock[c].run <= owner.crashed
<1> DEFINE x == gw.sock[c]
           s == [seq |-> x.seq, run |-> x.run]
<1>1. Snapshots(x, Way(c)) = {s}
  BY DEF Snapshots
<1>2. /\ StreamOK(c)
      /\ NoGap(c)
  BY DEF RemoteInv
<1>3. Hearing(c)
  BY WelcomedHears
<1>4. c \in owner.attached => s.run = owner.run
  BY <1>1, <1>2 DEF StreamOK
<1>5. c \in owner.attached => s.seq + EventsIn(Way(c)) = owner.seq
  BY <1>1, <1>2, <1>3 DEF NoGap
<1>6. c \notin owner.attached => Carries(Way(c), "bye") \/ s.run <= owner.crashed
  BY <1>1, <1>2, <1>3 DEF NoGap
<1> QED  BY <1>4, <1>5, <1>6 DEF OnTheWay

\* Snapshot, then stream, without a gap, whatever opens, closes and is disposed on
\* the same channel: as long as no owner answers before Redis has taken the
\* gateway's earlier subscription, which cluster/bus.ts does not wait for.
THEOREM NothingIsMissing ==
    ASSUME SlowSubscribe = FALSE
    PROVE  RemoteSpec => []NothingMissing
<1>1. ASSUME RemoteInv PROVE NothingMissing
  <2>1. SUFFICES ASSUME NEW c \in owner.attached,
                        gw.sock[c].up = "open", gw.sock[c].run = owner.run
                 PROVE  gw.sock[c].seq + OnTheWay(c) = owner.seq
    BY DEF NothingMissing
  <2>2. c \in Sockets /\ owner.run # None
    BY <1>1, OwnerFields, RemoteAssumption DEF RemoteInv, StateTyped
  <2> QED  BY <1>1, <2>1, <2>2, WelcomedStream
<1>2. RemoteInv => NothingMissing
  BY <1>1
<1> QED  BY <1>2, RemoteKeepsInv, PTL

\* Under the same assumption nobody is sent an event before the snapshot it follows.
THEOREM SnapshotComesFirst ==
    ASSUME SlowSubscribe = FALSE
    PROVE  RemoteSpec => []SnapshotThenStream
<1>1. ASSUME RemoteInv PROVE SnapshotThenStream
  BY <1>1 DEF RemoteInv, NoGap, SnapshotThenStream
<1>2. RemoteInv => SnapshotThenStream
  BY <1>1
<1> QED  BY <1>2, RemoteKeepsInv, PTL

\* Under the same assumption a disposal closes the sockets of other processes too:
\* the closing frame of an open socket that outlived its run is on the way, unless
\* the run was cut short by a crash.
THEOREM DisposalIsHeard ==
    ASSUME SlowSubscribe = FALSE
    PROVE  RemoteSpec => []DisposalReachesSockets
<1>1. ASSUME RemoteInv PROVE DisposalReachesSockets
  <2>1. SUFFICES ASSUME NEW c \in Sockets,
                        gw.sock[c].up = "open", gw.sock[c].run # None,
                        gw.sock[c].run > owner.crashed,
                        gw.sock[c].run < owner.run \/ ~owner.serving
                 PROVE  Carries(Way(c), "bye")
    BY DEF DisposalReachesSockets
  <2>2. owner \in Owners /\ gw \in Gateway /\ InboxOK
    BY <1>1 DEF RemoteInv, StateTyped
  <2>3. gw.sock[c] \in Socket
    BY <2>2, GatewayFields
  <2>4. gw.sock[c].run \in Nat /\ owner.crashed \in Nat /\ owner.run \in Nat
    BY <2>1, <2>2, <2>3, SocketFields, OwnerFields DEF Runs
  <2>5. c \notin owner.attached
    <3>1. SUFFICES ASSUME c \in owner.attached PROVE FALSE
      OBVIOUS
    <3>2. owner.serving = TRUE
      BY <2>2, <3>1 DEF InboxOK
    <3>3. gw.sock[c].run = owner.run
      BY <1>1, <2>1, <3>1, WelcomedStream
    <3> QED  BY <2>1, <2>4, <3>2, <3>3
  <2>6. Carries(Way(c), "bye") \/ gw.sock[c].run <= owner.crashed
    BY <1>1, <2>1, <2>5, WelcomedStream
  <2> QED  BY <2>1, <2>4, <2>6
<1>2. RemoteInv => DisposalReachesSockets
  BY <1>1
<1> QED  BY <1>2, RemoteKeepsInv, PTL

=============================================================================
