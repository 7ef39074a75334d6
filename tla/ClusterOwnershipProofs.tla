----------------------- MODULE ClusterOwnershipProofs -----------------------
(***************************************************************************)
(* Theorems about ClusterOwnership, for any number of processes, commands  *)
(* and faults.                                                             *)
(***************************************************************************)
EXTENDS ClusterOwnership, TLAPS

-----------------------------------------------------------------------------
\* Sequences.

\* What Append does, entry by entry.
LEMMA Appended ==
    ASSUME NEW S, NEW s \in Seq(S), NEW e \in S
    PROVE  /\ Append(s, e) \in Seq(S)
           /\ Len(s) \in Nat /\ DOMAIN s = 1..Len(s)
           /\ Len(Append(s, e)) = Len(s) + 1
           /\ DOMAIN Append(s, e) = 1..(Len(s) + 1)
           /\ \A k \in DOMAIN s : Append(s, e)[k] = s[k]
           /\ Append(s, e)[Len(s) + 1] = e
  OBVIOUS

\* What is left behind the first entry.
LEMMA Popped ==
    ASSUME NEW S, NEW s \in Seq(S), s # <<>>
    PROVE  /\ Tail(s) \in Seq(S) /\ Head(s) = s[1] /\ s[1] \in S
           /\ Len(s) \in Nat \ {0} /\ DOMAIN s = 1..Len(s)
           /\ Len(Tail(s)) = Len(s) - 1
           /\ DOMAIN Tail(s) = 1..(Len(s) - 1)
           /\ \A k \in DOMAIN Tail(s) : Tail(s)[k] = s[k + 1]
  OBVIOUS

\* Taking out one entry in the middle.
Without(s, k) == SubSeq(s, 1, k - 1) \o SubSeq(s, k + 1, Len(s))
LEMMA TakenOut ==
    ASSUME NEW S, NEW s \in Seq(S), NEW k \in DOMAIN s
    PROVE  /\ Without(s, k) \in Seq(S)
           /\ Len(s) \in Nat \ {0} /\ DOMAIN s = 1..Len(s) /\ s[k] \in S
           /\ Len(Without(s, k)) = Len(s) - 1
           /\ DOMAIN Without(s, k) = 1..(Len(s) - 1)
           /\ \A m \in DOMAIN Without(s, k) :
                Without(s, k)[m] = IF m < k THEN s[m] ELSE s[m + 1]
  <1>1. /\ Len(s) \in Nat \ {0} /\ DOMAIN s = 1..Len(s) /\ s[k] \in S /\ k \in 1..Len(s)
    OBVIOUS
  <1> DEFINE a == SubSeq(s, 1, k - 1)
             b == SubSeq(s, k + 1, Len(s))
  <1>2. a \in Seq(S) /\ Len(a) = k - 1 /\ \A m \in 1..(k - 1) : a[m] = s[m]
    BY <1>1
  <1>3. b \in Seq(S) /\ Len(b) = Len(s) - k /\ \A m \in 1..(Len(s) - k) : b[m] = s[m + k]
    BY <1>1
  <1>4. Without(s, k) = a \o b
    BY DEF Without
  <1> HIDE DEF a, b
  <1>5. /\ a \o b \in Seq(S) /\ Len(a \o b) = Len(a) + Len(b)
        /\ \A m \in 1..Len(a) + Len(b) :
             (a \o b)[m] = IF m <= Len(a) THEN a[m] ELSE b[m - Len(a)]
    BY SMTT(20), <1>2, <1>3
  <1>6. Len(Without(s, k)) = Len(s) - 1 /\ DOMAIN Without(s, k) = 1..(Len(s) - 1)
    <2>1. Len(a) + Len(b) = Len(s) - 1
      BY <1>1, <1>2, <1>3
    <2>2. Len(a \o b) = Len(s) - 1
      BY <2>1, <1>5
    <2>3. DOMAIN (a \o b) = 1..Len(a \o b)
      BY <1>5
    <2> QED
      BY <2>2, <2>3, <1>4
  <1>7. ASSUME NEW m \in 1..(Len(s) - 1)
        PROVE  Without(s, k)[m] = IF m < k THEN s[m] ELSE s[m + 1]
    <2>1. CASE m < k
      BY <2>1, <1>1, <1>2, <1>3, <1>4, <1>5, <1>7
    <2>2. CASE m >= k
      <3>1. m - (k - 1) \in 1..(Len(s) - k) /\ m - (k - 1) + k = m + 1
        BY <2>2, <1>1, <1>7
      <3>2. Without(s, k)[m] = b[m - (k - 1)]
        BY SMTT(20), <2>2, <1>1, <1>2, <1>3, <1>4, <1>5, <1>7
      <3> QED
        BY <3>1, <3>2, <1>3, <2>2, <1>1
    <2> QED
      BY <2>1, <2>2, <1>1, <1>7
  <1> QED
    BY <1>1, <1>4, <1>5, <1>6, <1>7

\* The inductive invariant.  It says of a process p, which is i, what its fields
\* and its two pipelines have to do with one another and with l, the owner of the
\* lease.

Awaits(s, at) == \E k \in DOMAIN s : s[k].at = at
Once(s, at) == \A k, m \in DOMAIN s : s[k].at = at /\ s[m].at = at => k = m
Subscribes(p, a) == \E k \in DOMAIN p.sub : p.sub[k].at = "subscribed" /\ p.sub[k].actor = a

\* Closing(i), of a process; and whether the lease it closes with has been given up.
Ending(p) == Awaits(p.sub, "lastStopped") \/ Awaits(p.pub, "lastRelease")
Doomed(p) == \E k \in DOMAIN p.pub : p.pub[k].at = "lastRelease" /\ p.pub[k].done

\* What the live actor has asked for is behind every release; Redis takes the
\* requests in order.  This holds whatever overtakes what.
Behind(p) ==
    /\ ~p.up => p.live = None /\ p.pub = <<>>
    /\ \A k, m \in DOMAIN p.pub : p.pub[k].done /\ m < k => p.pub[m].done
    /\ p.live # None =>
         /\ \A k, m \in DOMAIN p.pub :
              p.pub[k].actor = p.live /\ p.pub[m].at = "release" => m < k
         /\ (p.owned # None /\ p.owned.actor = p.live) \/ Subscribes(p, p.live)
            => ~Awaits(p.pub, "release")

\* A claim of actor a has been granted, or is followed by what a granted one leads to.
Granted(p, i, a) ==
    \/ p.owned # None /\ p.owned.actor = a
    \/ Subscribes(p, a)
    \/ \E k \in DOMAIN p.pub : /\ p.pub[k].at \in {"hook", "own", "made"}
                               /\ p.pub[k].actor = a /\ p.pub[k].done /\ p.pub[k].reply = i

\* Then the process has the lease, until it gives it up for good.
Leased(p, i, l) == p.live # None /\ ~Doomed(p) /\ Granted(p, i, p.live) => l = i

\* What is served is the actor in the registry, and a heartbeat runs for it.
OwnedOK(p) == p.owned # None => p.live # None /\ p.owned.actor = p.live
HeartsOK(p) ==
    /\ p.hearts \subseteq {p.live}
    /\ p.hearts # {} => p.owned # None /\ p.owned.serving
    /\ p.owned # None /\ p.owned.serving /\ ~Ending(p) => p.live \in p.hearts

\* The place in `owned' is reserved for the one subscription under way.
ReservedOK(p) ==
    /\ Awaits(p.sub, "subscribed") => p.owned # None /\ ~p.owned.serving
    /\ Once(p.sub, "subscribed")
    /\ p.owned # None /\ ~p.owned.serving => Awaits(p.sub, "subscribed")

\* An actor that is not owned waits for the one claim of its hook; whatever else is
\* under way for it is behind that one.
Later == {"own", "made", "createClaim", "putMeta", "createMeta"}
HookOK(p) ==
    /\ Awaits(p.pub, "hook") => p.owned = None
    /\ Once(p.pub, "hook")
    /\ p.live # None /\ p.owned = None => Awaits(p.pub, "hook")
    /\ \A k, m \in DOMAIN p.pub :
         p.pub[k].at = "hook" /\ p.pub[m].at \in Later /\ p.pub[k].actor = p.pub[m].actor => k < m

\* A process none of whose claims and subscriptions was overtaken.
Orderly(p) ==
    ~Overtaken(p) /\ OwnedOK(p) /\ HeartsOK(p) /\ ReservedOK(p) /\ HookOK(p)

Sound ==
    \A i \in Instances :
        /\ Behind(proc[i])
        /\ i \in overtaken \/ Orderly(proc[i])
        /\ stalls # 0 \/ Leased(proc[i], i, lease)

-----------------------------------------------------------------------------
\* How process i changes from p to q: the invariant is kept, and what had been
\* overtaken still shows.
Kept(i, p, q) ==
    /\ Behind(p) => Behind(q)
    /\ Behind(p) /\ Orderly(p) => Overtaken(q) \/ Orderly(q)
    /\ \A l : Behind(p) /\ Leased(p, i, l) => Leased(q, i, l)
Follows(i, p, q) == Kept(i, p, q) /\ (Overtaken(p) => Overtaken(q))

LEMMA KeptThrough ==
    ASSUME NEW i, NEW p, NEW m, NEW q, Kept(i, p, m), Follows(i, m, q)
    PROVE  Kept(i, p, q) /\ (Follows(i, p, m) => Follows(i, p, q))
  BY DEF Kept, Follows

\* What stays the same, as far as the invariant looks at it, or leads to the end.
Frame(p, q) ==
    /\ q.up = p.up /\ q.live = p.live /\ q.owned = p.owned
    /\ \A a : Subscribes(q, a) <=> Subscribes(p, a)
    /\ Once(p.sub, "subscribed") => Once(q.sub, "subscribed")
    /\ Ending(p) => Ending(q)
    /\ q.hearts = p.hearts \/ (q.hearts \subseteq p.hearts /\ Ending(q))

LEMMA FrameFacts ==
    ASSUME NEW p, NEW q, Frame(p, q)
    PROVE  /\ Awaits(q.sub, "subscribed") <=> Awaits(p.sub, "subscribed")
           /\ \A k \in DOMAIN q.sub : q.sub[k].at = "subscribed" =>
                \E m \in DOMAIN p.sub : p.sub[m].at = "subscribed" /\ p.sub[m].actor = q.sub[k].actor
           /\ \A k \in DOMAIN p.sub : p.sub[k].at = "subscribed" =>
                \E m \in DOMAIN q.sub : q.sub[m].at = "subscribed" /\ q.sub[m].actor = p.sub[k].actor
           /\ q.up = p.up /\ q.live = p.live /\ q.owned = p.owned
           /\ \A a : Subscribes(q, a) <=> Subscribes(p, a)
           /\ OwnedOK(p) => OwnedOK(q)
           /\ HeartsOK(p) => HeartsOK(q)
           /\ ReservedOK(p) => ReservedOK(q)
  <1>1. ASSUME NEW k \in DOMAIN q.sub, q.sub[k].at = "subscribed"
        PROVE  \E m \in DOMAIN p.sub : p.sub[m].at = "subscribed" /\ p.sub[m].actor = q.sub[k].actor
    <2>1. Subscribes(q, q.sub[k].actor)
      BY <1>1 DEF Subscribes
    <2>2. Subscribes(p, q.sub[k].actor)
      BY <2>1 DEF Frame
    <2> QED
      BY <2>2 DEF Subscribes
  <1>2. ASSUME NEW k \in DOMAIN p.sub, p.sub[k].at = "subscribed"
        PROVE  \E m \in DOMAIN q.sub : q.sub[m].at = "subscribed" /\ q.sub[m].actor = p.sub[k].actor
    <2>1. Subscribes(p, p.sub[k].actor)
      BY <1>2 DEF Subscribes
    <2>2. Subscribes(q, p.sub[k].actor)
      BY <2>1 DEF Frame
    <2> QED
      BY <2>2 DEF Subscribes
  <1>3. Awaits(q.sub, "subscribed") <=> Awaits(p.sub, "subscribed")
    BY <1>1, <1>2 DEF Awaits
  <1>4. OwnedOK(p) => OwnedOK(q)
    BY DEF Frame, OwnedOK
  <1>5. HeartsOK(p) => HeartsOK(q)
    BY DEF Frame, HeartsOK
  <1>6. ReservedOK(p) => ReservedOK(q)
    BY <1>3 DEF Frame, ReservedOK
  <1>7. /\ q.up = p.up /\ q.live = p.live /\ q.owned = p.owned
        /\ \A a : Subscribes(q, a) <=> Subscribes(p, a)
    BY DEF Frame
  <1> QED
    BY <1>1, <1>2, <1>3, <1>4, <1>5, <1>6, <1>7

\* The pipeline of commands stays as it is.
LEMMA AgreeKeeps ==
    ASSUME NEW i, NEW p, NEW q, Frame(p, q), q.pub = p.pub
    PROVE  Follows(i, p, q) /\ (Overtaken(q) <=> Overtaken(p))
  <1>0. /\ \A k \in DOMAIN q.sub : q.sub[k].at = "subscribed" =>
             \E m \in DOMAIN p.sub : p.sub[m].at = "subscribed" /\ p.sub[m].actor = q.sub[k].actor
        /\ \A k \in DOMAIN p.sub : p.sub[k].at = "subscribed" =>
             \E m \in DOMAIN q.sub : q.sub[m].at = "subscribed" /\ q.sub[m].actor = p.sub[k].actor
        /\ q.live = p.live
    BY FrameFacts
  <1>1. Overtaken(q) <=> Overtaken(p)
    BY <1>0 DEF Overtaken
  <1>2. Behind(p) => Behind(q)
    BY DEF Behind, Frame
  <1>3. HookOK(p) => HookOK(q)
    BY DEF HookOK, Frame
  <1>4. Orderly(p) => Orderly(q)
    BY <1>1, <1>3, FrameFacts DEF Orderly
  <1>5. \A l : Leased(p, i, l) => Leased(q, i, l)
    BY DEF Leased, Granted, Doomed, Frame
  <1> QED
    BY <1>1, <1>2, <1>4, <1>5 DEF Kept, Follows

\* The pipeline of commands loses its head.
Pops(p, q) ==
    /\ Len(p.pub) \in Nat \ {0} /\ DOMAIN p.pub = 1..Len(p.pub)
    /\ DOMAIN q.pub = 1..(Len(p.pub) - 1)
    /\ \A k \in DOMAIN q.pub : q.pub[k] = p.pub[k + 1]

LEMMA PopFacts ==
    ASSUME NEW p, NEW q, Pops(p, q)
    PROVE  /\ 1 \in DOMAIN p.pub
           /\ \A k \in DOMAIN q.pub : /\ k \in Nat /\ k + 1 \in DOMAIN p.pub
                                      /\ q.pub[k] = p.pub[k + 1]
           /\ \A k \in DOMAIN p.pub : k # 1 =>
                k \in Nat /\ k > 1 /\ k - 1 \in DOMAIN q.pub /\ q.pub[k - 1] = p.pub[k]
           /\ \A at : Awaits(q.pub, at) => Awaits(p.pub, at)
           /\ \A at : Awaits(p.pub, at) => at = p.pub[1].at \/ Awaits(q.pub, at)
           /\ \A at : Once(p.pub, at) => Once(q.pub, at)
           /\ p.pub[1].at # "lastRelease" => (Doomed(q) <=> Doomed(p)) /\ (q.sub = p.sub => (Ending(q) <=> Ending(p)))
  <1>1. /\ 1 \in DOMAIN p.pub
        /\ \A k \in DOMAIN q.pub : k \in Nat /\ k + 1 \in DOMAIN p.pub /\ q.pub[k] = p.pub[k + 1]
    BY DEF Pops
  <1>2. \A k \in DOMAIN p.pub : k # 1 =>
          k \in Nat /\ k > 1 /\ k - 1 \in DOMAIN q.pub /\ q.pub[k - 1] = p.pub[k]
    BY DEF Pops
  <1>3. \A at : Awaits(q.pub, at) => Awaits(p.pub, at)
    BY <1>1 DEF Awaits
  <1>4. \A at : Awaits(p.pub, at) => at = p.pub[1].at \/ Awaits(q.pub, at)
    BY <1>2 DEF Awaits
  <1>5. \A at : Once(p.pub, at) => Once(q.pub, at)
    BY <1>1 DEF Once
  <1>6. ASSUME p.pub[1].at # "lastRelease"
        PROVE  (Doomed(q) <=> Doomed(p)) /\ (q.sub = p.sub => (Ending(q) <=> Ending(p)))
    <2>1. ASSUME Doomed(p) PROVE Doomed(q)
      <3>1. PICK k \in DOMAIN p.pub : p.pub[k].at = "lastRelease" /\ p.pub[k].done
        BY <2>1 DEF Doomed
      <3>2. k - 1 \in DOMAIN q.pub /\ q.pub[k - 1] = p.pub[k]
        BY <3>1, <1>2, <1>6
      <3> QED
        BY <3>1, <3>2 DEF Doomed
    <2> QED
      BY <1>1, <1>3, <1>4, <1>6, <2>1 DEF Doomed, Ending
  <1> QED
    BY <1>1, <1>2, <1>3, <1>4, <1>5, <1>6

\* Whatever the head was, what is left is in order.
LEMMA PopBehind ==
    ASSUME NEW p, NEW q, Pops(p, q), Behind(p),
           q.up = p.up, q.live = p.live, q.owned = p.owned, q.sub = p.sub
    PROVE  Behind(q)
  <1>1. /\ 1 \in DOMAIN p.pub
        /\ \A k \in DOMAIN q.pub : k \in Nat /\ k + 1 \in DOMAIN p.pub /\ q.pub[k] = p.pub[k + 1]
        /\ \A at : Awaits(q.pub, at) => Awaits(p.pub, at)
    BY PopFacts
  <1>2. p.up
    BY <1>1 DEF Behind
  <1>3. \A k, m \in DOMAIN q.pub : m < k => m + 1 < k + 1
    BY <1>1
  <1>3a. \A k, m \in DOMAIN q.pub : m + 1 < k + 1 => m < k
    BY <1>1
  <1>4. \A k, m \in DOMAIN q.pub : q.pub[k].done /\ m < k => q.pub[m].done
    BY <1>1, <1>3 DEF Behind
  <1>5. p.live # None => \A k, m \in DOMAIN q.pub :
          q.pub[k].actor = p.live /\ q.pub[m].at = "release" => m < k
    BY <1>1, <1>3a DEF Behind
  <1> QED
    BY <1>1, <1>2, <1>4, <1>5 DEF Behind, Subscribes

\* A head that no claim and no release depends on.
LEMMA PopKeeps ==
    ASSUME NEW i, NEW p, NEW q, Frame(p, q), q.sub = p.sub, Pops(p, q),
           p.pub[1].at \notin {"hook", "lastRelease"}
    PROVE  Kept(i, p, q)
  <1>1. /\ 1 \in DOMAIN p.pub
        /\ \A k \in DOMAIN q.pub : k \in Nat /\ k + 1 \in DOMAIN p.pub /\ q.pub[k] = p.pub[k + 1]
        /\ \A at : Awaits(q.pub, at) => Awaits(p.pub, at)
        /\ \A at : Awaits(p.pub, at) => at = p.pub[1].at \/ Awaits(q.pub, at)
        /\ \A at : Once(p.pub, at) => Once(q.pub, at)
        /\ Doomed(q) <=> Doomed(p)
    BY PopFacts
  <1>2. Behind(p) => Behind(q)
    BY PopBehind DEF Frame
  <1>3. Overtaken(q) => Overtaken(p)
    BY <1>1 DEF Overtaken, Frame
  <1>4. HookOK(p) => HookOK(q)
    <2>1. \A k, m \in DOMAIN q.pub : k + 1 < m + 1 => k < m
      BY <1>1
    <2> QED
      BY <1>1, <2>1 DEF HookOK, Frame
  <1>5. Orderly(p) => Orderly(q)
    BY <1>3, <1>4, FrameFacts DEF Orderly
  <1>6. \A l : Leased(p, i, l) => Leased(q, i, l)
    <2>1. Granted(q, i, q.live) => Granted(p, i, p.live)
      BY <1>1 DEF Granted, Frame, Subscribes
    <2> QED
      BY <1>1, <2>1 DEF Leased, Frame
  <1> QED
    BY <1>2, <1>5, <1>6 DEF Kept

\* A request is sent.
Adds(p, q, at, a) ==
    /\ Len(p.pub) \in Nat /\ DOMAIN p.pub = 1..Len(p.pub)
    /\ DOMAIN q.pub = 1..(Len(p.pub) + 1)
    /\ \A k \in DOMAIN p.pub : q.pub[k] = p.pub[k]
    /\ q.pub[Len(p.pub) + 1].at = at
    /\ q.pub[Len(p.pub) + 1].actor = a
    /\ ~q.pub[Len(p.pub) + 1].done

LEMMA AddFacts ==
    ASSUME NEW p, NEW q, NEW at, NEW a, Adds(p, q, at, a)
    PROVE  \E z \in DOMAIN q.pub :
             /\ q.pub[z].at = at /\ q.pub[z].actor = a /\ ~q.pub[z].done
             /\ z \in Nat
             /\ \A k \in DOMAIN p.pub :
                  k \in Nat /\ k < z /\ ~(z < k) /\ k # z /\ k \in DOMAIN q.pub /\ q.pub[k] = p.pub[k]
             /\ \A k \in DOMAIN q.pub : k = z \/ k \in DOMAIN p.pub
  <1> DEFINE z == Len(p.pub) + 1
  <1>1. /\ z \in DOMAIN q.pub /\ z \in Nat /\ q.pub[z].at = at /\ q.pub[z].actor = a
        /\ ~q.pub[z].done
        /\ \A k \in DOMAIN p.pub :
             k \in Nat /\ k < z /\ ~(z < k) /\ k # z /\ k \in DOMAIN q.pub /\ q.pub[k] = p.pub[k]
        /\ \A k \in DOMAIN q.pub : k = z \/ k \in DOMAIN p.pub
    BY DEF Adds
  <1> HIDE DEF z
  <1> QED
    BY <1>1

\* Not a hook, and a release only when nobody is live.
LEMMA AddKeeps ==
    ASSUME NEW i, NEW p, NEW q, NEW at, NEW a, Frame(p, q), Adds(p, q, at, a), p.up,
           at # "hook", at = "release" => p.live = None
    PROVE  Follows(i, p, q)
  <1>1. PICK z \in DOMAIN q.pub :
             /\ q.pub[z].at = at /\ q.pub[z].actor = a /\ ~q.pub[z].done
             /\ z \in Nat
             /\ \A k \in DOMAIN p.pub :
                  k \in Nat /\ k < z /\ ~(z < k) /\ k # z /\ k \in DOMAIN q.pub /\ q.pub[k] = p.pub[k]
             /\ \A k \in DOMAIN q.pub : k = z \/ k \in DOMAIN p.pub
    BY AddFacts
  <1>2. \A x : Awaits(q.pub, x) <=> x = at \/ Awaits(p.pub, x)
    BY <1>1 DEF Awaits
  <1>0. /\ \A k \in DOMAIN q.sub : q.sub[k].at = "subscribed" =>
             \E m \in DOMAIN p.sub : p.sub[m].at = "subscribed" /\ p.sub[m].actor = q.sub[k].actor
        /\ \A k \in DOMAIN p.sub : p.sub[k].at = "subscribed" =>
             \E m \in DOMAIN q.sub : q.sub[m].at = "subscribed" /\ q.sub[m].actor = p.sub[k].actor
        /\ q.live = p.live
    BY FrameFacts
  <1>0a. q.up = p.up /\ q.owned = p.owned /\ \A b : Subscribes(q, b) <=> Subscribes(p, b)
    BY FrameFacts
  <1>3. ASSUME Overtaken(p) PROVE Overtaken(q)
    BY <1>0, <1>1, <1>3 DEF Overtaken
  <1>4. ASSUME Behind(p) PROVE Behind(q)
    <2>1. \A k, m \in DOMAIN q.pub : q.pub[k].done /\ m < k => q.pub[m].done
      BY <1>1, <1>4 DEF Behind
    <2>2. ASSUME q.live # None, NEW k \in DOMAIN q.pub, NEW m \in DOMAIN q.pub,
                 q.pub[k].actor = q.live, q.pub[m].at = "release"
          PROVE  m < k
      BY <2>2, <1>0, <1>1, <1>4 DEF Behind
    <2>3. q.live # None => (Awaits(q.pub, "release") <=> Awaits(p.pub, "release"))
      BY <1>0, <1>2
    <2> QED
      BY <2>1, <2>2, <2>3, <1>0, <1>0a, <1>4 DEF Behind
  <1>5. ASSUME HookOK(p) PROVE HookOK(q)
    <2>1. Once(q.pub, "hook")
      BY <1>1, <1>5 DEF HookOK, Once
    <2>2. ASSUME NEW k \in DOMAIN q.pub, NEW m \in DOMAIN q.pub, q.pub[k].at = "hook",
                 q.pub[m].at \in Later, q.pub[k].actor = q.pub[m].actor
          PROVE  k < m
      BY <2>2, <1>1, <1>5 DEF HookOK
    <2> QED
      BY <2>1, <2>2, <1>0, <1>0a, <1>2, <1>5 DEF HookOK
  <1>6. Orderly(p) => Overtaken(q) \/ Orderly(q)
    BY <1>5, FrameFacts DEF Orderly
  <1>7. \A l : Leased(p, i, l) => Leased(q, i, l)
    <2>1. Granted(q, i, q.live) => Granted(p, i, p.live)
      BY <1>0, <1>0a, <1>1 DEF Granted
    <2>2. Doomed(p) => Doomed(q)
      BY <1>1 DEF Doomed
    <2> QED
      BY <2>1, <2>2, <1>0 DEF Leased
  <1> QED
    BY <1>3, <1>4, <1>6, <1>7 DEF Kept, Follows

\* An entry is added to the pipeline of the bus, and handler sets are orphaned.
AddsSub(p, q, at, a) ==
    /\ Len(p.sub) \in Nat /\ DOMAIN p.sub = 1..Len(p.sub)
    /\ DOMAIN q.sub = 1..(Len(p.sub) + 1)
    /\ \A k \in DOMAIN p.sub :
         q.sub[k].at = p.sub[k].at /\ q.sub[k].actor = p.sub[k].actor
    /\ q.sub[Len(p.sub) + 1].at = at
    /\ q.sub[Len(p.sub) + 1].actor = a

LEMMA AddSubFacts ==
    ASSUME NEW p, NEW q, NEW at, NEW a, AddsSub(p, q, at, a)
    PROVE  /\ \A b : Subscribes(q, b) <=> Subscribes(p, b) \/ (at = "subscribed" /\ b = a)
           /\ \A x : Awaits(q.sub, x) <=> Awaits(p.sub, x) \/ x = at
           /\ \A x : Once(p.sub, x) /\ (x # at \/ ~Awaits(p.sub, x)) => Once(q.sub, x)
           /\ \A k \in DOMAIN p.sub :
                k \in DOMAIN q.sub /\ q.sub[k].at = p.sub[k].at /\ q.sub[k].actor = p.sub[k].actor
  <1> DEFINE z == Len(p.sub) + 1
  <1>1. /\ z \in DOMAIN q.sub /\ q.sub[z].at = at /\ q.sub[z].actor = a
        /\ \A k \in DOMAIN p.sub :
             k \in DOMAIN q.sub /\ q.sub[k].at = p.sub[k].at /\ q.sub[k].actor = p.sub[k].actor
        /\ \A k \in DOMAIN q.sub : k = z \/ k \in DOMAIN p.sub
    BY DEF AddsSub
  <1> HIDE DEF z
  <1>2. \A b : Subscribes(q, b) <=> Subscribes(p, b) \/ (at = "subscribed" /\ b = a)
    BY <1>1 DEF Subscribes
  <1>3. \A x : Awaits(q.sub, x) <=> Awaits(p.sub, x) \/ x = at
    BY <1>1 DEF Awaits
  <1>4. \A x : Once(p.sub, x) /\ (x # at \/ ~Awaits(p.sub, x)) => Once(q.sub, x)
    BY <1>1 DEF Once, Awaits
  <1> QED
    BY <1>1, <1>2, <1>3, <1>4

\* An entry of the pipeline of the bus is resumed.
DropsSub(p, q, k) ==
    /\ Len(p.sub) \in Nat /\ DOMAIN p.sub = 1..Len(p.sub) /\ k \in DOMAIN p.sub
    /\ DOMAIN q.sub = 1..(Len(p.sub) - 1)
    /\ \A m \in DOMAIN q.sub : q.sub[m] = IF m < k THEN p.sub[m] ELSE p.sub[m + 1]

LEMMA DropFacts ==
    ASSUME NEW p, NEW q, NEW k, DropsSub(p, q, k)
    PROVE  /\ k \in DOMAIN p.sub
           /\ \A m \in DOMAIN q.sub : \E n \in DOMAIN p.sub : n # k /\ q.sub[m] = p.sub[n]
           /\ \A n \in DOMAIN p.sub : n # k => \E m \in DOMAIN q.sub : q.sub[m] = p.sub[n]
           /\ \A at : Awaits(p.sub, at) => at = p.sub[k].at \/ Awaits(q.sub, at)
           /\ \A at : Once(p.sub, at) => Once(q.sub, at)
  <1> DEFINE h(m) == IF m < k THEN m ELSE m + 1
  <1>1. /\ \A m \in DOMAIN q.sub : h(m) \in DOMAIN p.sub /\ h(m) # k /\ q.sub[m] = p.sub[h(m)]
        /\ \A m, n \in DOMAIN q.sub : h(m) = h(n) => m = n
    BY DEF DropsSub
  <1>2. \A n \in DOMAIN p.sub : n # k => \E m \in DOMAIN q.sub : h(m) = n
    <2> SUFFICES ASSUME NEW n \in DOMAIN p.sub, n # k
                 PROVE  \E m \in DOMAIN q.sub : h(m) = n
      OBVIOUS
    <2>1. CASE n < k
      <3>1. n \in DOMAIN q.sub
        BY <2>1 DEF DropsSub
      <3> QED
        BY <2>1, <3>1
    <2>2. CASE n > k
      <3>1. n - 1 \in DOMAIN q.sub /\ ~(n - 1 < k) /\ (n - 1) + 1 = n
        BY <2>2 DEF DropsSub
      <3> QED
        BY <3>1
    <2> QED
      BY <2>1, <2>2 DEF DropsSub
  <1> HIDE DEF h
  <1>3. \A n \in DOMAIN p.sub : n # k => \E m \in DOMAIN q.sub : q.sub[m] = p.sub[n]
    BY <1>1, <1>2
  <1>4. \A at : Awaits(p.sub, at) => at = p.sub[k].at \/ Awaits(q.sub, at)
    BY <1>3 DEF Awaits
  <1>5. \A at : Once(p.sub, at) => Once(q.sub, at)
    BY <1>1 DEF Once
  <1>6. k \in DOMAIN p.sub
    BY DEF DropsSub
  <1> QED
    BY <1>1, <1>3, <1>4, <1>5, <1>6

\* What is typed: claims and subscriptions are for an actor.
Named(p) ==
    /\ \A k \in DOMAIN p.pub : p.pub[k].at \in {"hook", "own", "made"} => p.pub[k].actor # None
    /\ \A k \in DOMAIN p.sub : p.sub[k].actor # None

\* A claim has got the lease: takeOwnership.
LEMMA ClaimWins ==
    ASSUME NEW i, NEW p, NEW q, Pops(p, q), p.pub[1].at \in {"hook", "own", "made"},
           p.pub[1].done, p.pub[1].reply = i, p.pub[1].actor # None,
           q.up = p.up, q.live = p.live, q.hearts = p.hearts,
           p.owned # None => q.owned = p.owned /\ q.sub = p.sub,
           p.owned = None => /\ q.owned # None /\ ~q.owned.serving
                             /\ q.owned.actor = p.pub[1].actor
                             /\ AddsSub(p, q, "subscribed", p.pub[1].actor)
    PROVE  Kept(i, p, q)
  <1> DEFINE a == p.pub[1].actor
  <1>1. /\ 1 \in DOMAIN p.pub
        /\ \A k \in DOMAIN q.pub : k \in Nat /\ k + 1 \in DOMAIN p.pub /\ q.pub[k] = p.pub[k + 1]
        /\ \A k \in DOMAIN p.pub : k # 1 =>
             k \in Nat /\ k > 1 /\ k - 1 \in DOMAIN q.pub /\ q.pub[k - 1] = p.pub[k]
        /\ \A at : Awaits(q.pub, at) => Awaits(p.pub, at)
        /\ \A at : Once(p.pub, at) => Once(q.pub, at)
        /\ Doomed(q) <=> Doomed(p)
    BY PopFacts
  <1>a. Ending(p) <=> Ending(q)
    <2>1. Awaits(p.pub, "lastRelease") <=> Awaits(q.pub, "lastRelease")
      BY PopFacts
    <2>2. Awaits(p.sub, "lastStopped") <=> Awaits(q.sub, "lastStopped")
      BY AddSubFacts
    <2> QED
      BY <2>1, <2>2 DEF Ending
  <1>b. \A k \in DOMAIN p.pub : ~(k < 1)
    BY DEF Pops
  <1>c. Granted(p, i, a)
    BY <1>1 DEF Granted
  <1>2. CASE p.owned # None /\ p.pub[1].at # "hook"
    <2>1. Frame(p, q)
      BY <1>2, <1>a DEF Frame, Subscribes
    <2> QED
      BY <2>1, <1>2, PopKeeps
  <1>3. CASE p.owned # None /\ p.pub[1].at = "hook"
    <2>1. Behind(p) => Behind(q)
      BY <1>3, PopBehind
    <2>2. ~Orderly(p)
      BY <1>1, <1>3 DEF Orderly, HookOK, Awaits
    <2>3. Granted(q, i, q.live) => Granted(p, i, p.live)
      BY <1>1, <1>3 DEF Granted, Subscribes
    <2> QED
      BY <2>1, <2>2, <2>3, <1>1 DEF Kept, Leased
  <1>4. CASE p.owned = None
    <2> DEFINE b == p.live
    <2>0. /\ q.owned # None /\ ~q.owned.serving /\ q.owned.actor = a
          /\ \A c : Subscribes(q, c) <=> Subscribes(p, c) \/ c = a
          /\ \A x : Awaits(q.sub, x) <=> Awaits(p.sub, x) \/ x = "subscribed"
          /\ ~Awaits(p.sub, "subscribed") /\ Once(p.sub, "subscribed") => Once(q.sub, "subscribed")
      BY <1>4, AddSubFacts
    <2>1. ASSUME Behind(p) PROVE Behind(q)
      <3>0. p.up
        BY <1>1, <2>1 DEF Behind
      <3>1. \A k, m \in DOMAIN q.pub : m < k <=> m + 1 < k + 1
        BY <1>1
      <3>2. \A k, m \in DOMAIN q.pub : q.pub[k].done /\ m < k => q.pub[m].done
        BY <1>1, <3>1, <2>1 DEF Behind
      <3>3. b # None => \A k, m \in DOMAIN q.pub :
              q.pub[k].actor = b /\ q.pub[m].at = "release" => m < k
        BY <1>1, <3>1, <2>1 DEF Behind
      <3>4. ASSUME b # None, a = b PROVE ~Awaits(q.pub, "release")
        BY <1>1, <1>b, <2>1, <3>4 DEF Behind, Awaits
      <3>5. ASSUME b # None, Subscribes(p, b) PROVE ~Awaits(q.pub, "release")
        BY <1>1, <2>1, <3>5 DEF Behind
      <3> QED
        BY <2>0, <3>0, <3>2, <3>3, <3>4, <3>5 DEF Behind
    <2>2. Granted(q, i, q.live) => Granted(p, i, p.live)
      <3>1. ASSUME a # b, Granted(q, i, b) PROVE Granted(p, i, b)
        BY <1>1, <2>0, <3>1 DEF Granted
      <3> QED
        BY <3>1, <1>c
    <2>3. ASSUME Orderly(p) PROVE Orderly(q)
      <3>1. a = b /\ b # None
        BY <1>1, <2>3 DEF Orderly, Overtaken
      <3>2. p.pub[1].at = "hook"
        <4>1. PICK k \in DOMAIN p.pub : p.pub[k].at = "hook"
          BY <1>4, <2>3, <3>1 DEF Orderly, HookOK, Awaits
        <4>2. p.pub[k].actor = b
          BY <4>1, <2>3 DEF Orderly, Overtaken
        <4>3. ~(k < 1)
          BY <1>b
        <4> QED
          BY <4>1, <4>2, <4>3, <3>1, <1>1, <2>3 DEF Orderly, HookOK, Later
      <3>3. ~Awaits(p.sub, "subscribed")
        BY <1>4, <2>3 DEF Orderly, ReservedOK
      <3>4. \A k \in DOMAIN q.sub : q.sub[k].at = "subscribed" => q.sub[k].actor = b
        BY <2>0, <3>1, <3>3 DEF Subscribes, Awaits
      <3>5. ~Overtaken(q)
        BY <3>4, <1>1, <2>3 DEF Orderly, Overtaken
      <3>6. OwnedOK(q) /\ HeartsOK(q)
        BY <1>4, <2>0, <2>3, <3>1 DEF Orderly, OwnedOK, HeartsOK
      <3>7. ReservedOK(q)
        BY <2>0, <2>3, <3>3 DEF Orderly, ReservedOK
      <3>8. ~Awaits(q.pub, "hook") /\ Once(q.pub, "hook")
        <4>1. \A k \in DOMAIN p.pub : k # 1 => p.pub[k].at # "hook"
          BY <1>1, <2>3, <3>2 DEF Orderly, HookOK, Once
        <4>2. \A k \in DOMAIN q.pub : k + 1 # 1
          BY DEF Pops
        <4>3. \A k \in DOMAIN q.pub : q.pub[k].at # "hook"
          BY <4>1, <4>2, <1>1
        <4> QED
          BY <4>3 DEF Awaits, Once
      <3>9. HookOK(q)
        BY <2>0, <3>8 DEF HookOK, Awaits
      <3> QED
        BY <3>5, <3>6, <3>7, <3>9 DEF Orderly
    <2> QED
      BY <2>1, <2>2, <2>3, <1>1 DEF Kept, Leased
  <1> QED
    BY <1>2, <1>3, <1>4

\* What disposing an actor asks for: what is served is the live one.
Beats(p) ==
    /\ OwnedOK(p) /\ p.hearts \subseteq {p.live}
    /\ p.hearts # {} => p.owned # None /\ p.owned.serving

\* SessionRegistry.dispose: whoever claims or subscribes is overtaken.
LEMMA DisposeKeeps ==
    ASSUME NEW i, NEW p, NEW q, Named(q), q.pub = p.pub, q.up = p.up,
           q.live = None, q.owned = None, p.live # None,
           \A k \in DOMAIN p.sub :
             k \in DOMAIN q.sub /\ q.sub[k].at = p.sub[k].at /\ q.sub[k].actor = p.sub[k].actor,
           Beats(p) => q.hearts = {}
    PROVE  /\ Behind(p) => Behind(q)
           /\ \A l : Leased(q, i, l)
           /\ Overtaken(p) => Overtaken(q)
           /\ Beats(p) => Overtaken(q) \/ Orderly(q)
           /\ Follows(i, p, q)
  <1>1. Behind(p) => Behind(q)
    BY DEF Behind
  <1>2. \A l : Leased(q, i, l)
    BY DEF Leased
  <1>3. Overtaken(p) => Overtaken(q)
    BY DEF Overtaken, Named
  <1>4. ASSUME Beats(p), ~Overtaken(q) PROVE Orderly(q)
    <2>1. ~Awaits(q.sub, "subscribed") /\ ~Awaits(q.pub, "hook")
      BY <1>4 DEF Overtaken, Named, Awaits
    <2>2. HookOK(q)
      BY <2>1 DEF HookOK, Awaits, Once
    <2>3. ReservedOK(q)
      BY <2>1 DEF ReservedOK, Awaits, Once
    <2>4. OwnedOK(q) /\ HeartsOK(q)
      BY <1>4 DEF OwnedOK, HeartsOK
    <2> QED
      BY <1>4, <2>2, <2>3, <2>4 DEF Orderly
  <1>5. Orderly(p) => Beats(p)
    BY DEF Orderly, Beats, HeartsOK
  <1> QED
    BY <1>1, <1>2, <1>3, <1>4, <1>5 DEF Follows, Kept

\* A claim has failed, or another process has the lease.
LEMMA ClaimLoses ==
    ASSUME NEW i, NEW p, NEW m, NEW q, Pops(p, m), p.pub[1].at \in {"hook", "own", "made"},
           p.pub[1].actor # None,
           m.up = p.up, m.live = p.live, m.hearts = p.hearts, m.owned = p.owned, m.sub = p.sub,
           m.live = None => q = m,
           m.live # None => /\ Behind(m) => Behind(q)
                            /\ \A l : Leased(q, i, l)
                            /\ Beats(m) => Overtaken(q) \/ Orderly(q)
    PROVE  Kept(i, p, q)
  <1>1. Behind(p) => Behind(m)
    BY PopBehind
  <1>2. CASE m.live = None
    <2>1. ~Orderly(p)
      BY <1>2, PopFacts DEF Orderly, Overtaken
    <2>2. \A l : Leased(q, i, l)
      BY <1>2 DEF Leased
    <2> QED
      BY <1>1, <1>2, <2>1, <2>2 DEF Kept
  <1>3. CASE m.live # None
    <2>1. Orderly(p) => Beats(m)
      BY DEF Orderly, Beats, OwnedOK, HeartsOK
    <2> QED
      BY <1>1, <1>3, <2>1 DEF Kept
  <1> QED
    BY <1>2, <1>3

\* SessionRegistry.create, with its hook.
LEMMA CreateKeeps ==
    ASSUME NEW i, NEW p, NEW q, NEW a, Named(p), p.up, p.live = None,
           q.up = p.up, q.live = a, q.owned = p.owned, q.hearts = p.hearts, q.sub = p.sub,
           a # None, \A k \in DOMAIN p.pub : p.pub[k].actor # a,
           \A k \in DOMAIN p.sub : p.sub[k].actor # a,
           p.owned # None => p.owned.actor # a /\ q.pub = p.pub,
           p.owned = None => Adds(p, q, "hook", a)
    PROVE  Follows(i, p, q)
  <1>0. ~Subscribes(q, a)
    BY DEF Subscribes
  <1>1. CASE p.owned # None
    <2>1. ~Orderly(p)
      BY <1>1 DEF Orderly, OwnedOK
    <2>2. Behind(p) => Behind(q)
      BY <1>0, <1>1 DEF Behind
    <2>3. \A l : Leased(q, i, l)
      BY <1>0, <1>1 DEF Leased, Granted
    <2>4. Overtaken(p) => Overtaken(q)
      BY <1>1 DEF Overtaken
    <2> QED
      BY <2>1, <2>2, <2>3, <2>4 DEF Kept, Follows
  <1>2. CASE p.owned = None
    <2>1. PICK z \in DOMAIN q.pub :
             /\ q.pub[z].at = "hook" /\ q.pub[z].actor = a /\ ~q.pub[z].done
             /\ z \in Nat
             /\ \A k \in DOMAIN p.pub :
                  k \in Nat /\ k < z /\ ~(z < k) /\ k # z /\ k \in DOMAIN q.pub /\ q.pub[k] = p.pub[k]
             /\ \A k \in DOMAIN q.pub : k = z \/ k \in DOMAIN p.pub
      BY <1>2, AddFacts
    <2>2. Behind(p) => Behind(q)
      BY <1>0, <1>2, <2>1 DEF Behind
    <2>3. \A l : Leased(q, i, l)
      BY <1>0, <1>2, <2>1 DEF Leased, Granted
    <2>4. Overtaken(p) => Overtaken(q)
      BY <2>1 DEF Overtaken
    <2>5. ASSUME Orderly(p) PROVE Orderly(q)
      <3>1. /\ \A k \in DOMAIN p.pub : p.pub[k].at \notin {"hook", "own", "made"}
            /\ ~Awaits(p.sub, "subscribed") /\ p.hearts = {}
        BY <1>2, <2>5 DEF Orderly, Overtaken, Named, Awaits, HeartsOK
      <3>2. ~Overtaken(q)
        BY <2>1, <3>1 DEF Overtaken, Awaits
      <3>3. OwnedOK(q) /\ HeartsOK(q) /\ ReservedOK(q)
        BY <1>2, <3>1, <2>5 DEF Orderly, OwnedOK, HeartsOK, ReservedOK
      <3>4. HookOK(q)
        BY <1>2, <2>1, <3>1 DEF HookOK, Once, Awaits, Later
      <3> QED
        BY <3>2, <3>3, <3>4 DEF Orderly
    <2> QED
      BY <2>2, <2>3, <2>4, <2>5 DEF Kept, Follows
  <1> QED
    BY <1>1, <1>2

\* serveInbox, when the subscription is through.
LEMMA ServedKeeps ==
    ASSUME NEW i, NEW p, NEW q, NEW k, DropsSub(p, q, k), p.sub[k].at = "subscribed",
           q.pub = p.pub, q.up = p.up, q.live = p.live,
           q.hearts = p.hearts \cup {p.sub[k].actor},
           q.owned # None, q.owned.serving, q.owned.actor = p.sub[k].actor
    PROVE  Kept(i, p, q)
  <1> DEFINE a == p.sub[k].actor
  <1>1. /\ k \in DOMAIN p.sub
        /\ \A m \in DOMAIN q.sub : \E n \in DOMAIN p.sub : n # k /\ q.sub[m] = p.sub[n]
        /\ \A at : Awaits(p.sub, at) => at = p.sub[k].at \/ Awaits(q.sub, at)
    BY DropFacts
  <1>2. Subscribes(p, a) /\ \A b : Subscribes(q, b) => Subscribes(p, b)
    BY <1>1 DEF Subscribes
  <1>3. Behind(p) => Behind(q)
    BY <1>2 DEF Behind
  <1>4. \A l : Leased(p, i, l) => Leased(q, i, l)
    <2>1. Granted(q, i, q.live) => Granted(p, i, p.live)
      BY <1>2 DEF Granted
    <2> QED
      BY <2>1 DEF Leased, Doomed
  <1>5. ASSUME Orderly(p) PROVE Orderly(q)
    <2>1. a = p.live
      BY <1>1, <1>5 DEF Orderly, Overtaken
    <2>2. ~Awaits(q.sub, "subscribed")
      BY <1>1, <1>5 DEF Orderly, ReservedOK, Once, Awaits
    <2>3. Awaits(p.sub, "subscribed")
      BY <1>1 DEF Awaits
    <2>4. p.owned # None /\ ~p.owned.serving /\ p.live # None
      BY <2>3, <1>5 DEF Orderly, ReservedOK, OwnedOK
    <2>5. ~Overtaken(q)
      BY <2>2, <1>5 DEF Orderly, Overtaken, Awaits
    <2>6. OwnedOK(q) /\ HeartsOK(q)
      BY <1>5, <2>1, <2>4 DEF Orderly, OwnedOK, HeartsOK
    <2>7. ReservedOK(q)
      BY <2>2 DEF ReservedOK, Once, Awaits
    <2>8. HookOK(q)
      BY <1>5, <2>4 DEF Orderly, HookOK
    <2> QED
      BY <2>5, <2>6, <2>7, <2>8 DEF Orderly
  <1> QED
    BY <1>3, <1>4, <1>5 DEF Kept

\* Redis answers the request k with r.
Answers(p, q, k, r) ==
    /\ k \in DOMAIN p.pub /\ DOMAIN q.pub = DOMAIN p.pub
    /\ ~p.pub[k].done /\ \A m \in DOMAIN p.pub : m < k => p.pub[m].done
    /\ \A m \in DOMAIN p.pub : q.pub[m].at = p.pub[m].at /\ q.pub[m].actor = p.pub[m].actor
    /\ q.pub[k].done /\ q.pub[k].reply = r
    /\ \A m \in DOMAIN p.pub : m = k \/ q.pub[m] = p.pub[m]

\* What that leaves of the lease, which was l.
Settles(i, at, r, l, l2) ==
    /\ at \in Claims => r = l2 /\ l2 = IF l = None THEN i ELSE l
    /\ at \in Releases => l2 = IF l = i THEN None ELSE l
    /\ at \notin Claims \cup Releases => l2 = l

InOrder(s) == \A m, n \in DOMAIN s : (m < n \/ n < m \/ m = n) /\ (m < n => ~(n < m))
SameState(p, q) ==
    /\ q.up = p.up /\ q.live = p.live /\ q.owned = p.owned /\ q.hearts = p.hearts
    /\ q.sub = p.sub

LEMMA ReplyKeeps ==
    ASSUME NEW i, NEW p, NEW q, NEW k, NEW r, NEW l, NEW l2, Answers(p, q, k, r),
           InOrder(p.pub), SameState(p, q),
           Settles(i, p.pub[k].at, r, l, l2), i # None, p.up
    PROVE  /\ Behind(p) => Behind(q)
           /\ Overtaken(q) <=> Overtaken(p)
           /\ Orderly(p) => Orderly(q)
           /\ Behind(p) /\ Leased(p, i, l) => Leased(q, i, l2)
           /\ \A j : j # i /\ j # None /\ l = j => l2 = j
  <1>1. /\ k \in DOMAIN p.pub /\ DOMAIN q.pub = DOMAIN p.pub
        /\ ~p.pub[k].done /\ \A m \in DOMAIN p.pub : m < k => p.pub[m].done
        /\ \A m \in DOMAIN p.pub : q.pub[m].at = p.pub[m].at /\ q.pub[m].actor = p.pub[m].actor
        /\ q.pub[k].done /\ q.pub[k].reply = r
        /\ \A m \in DOMAIN p.pub : m = k \/ q.pub[m] = p.pub[m]
    BY DEF Answers
  <1>1a. /\ \A m, n \in DOMAIN p.pub : m < n \/ n < m \/ m = n
         /\ \A m, n \in DOMAIN p.pub : m < n => ~(n < m)
         /\ q.up = p.up /\ q.live = p.live /\ q.owned = p.owned /\ q.hearts = p.hearts
         /\ q.sub = p.sub
    BY DEF InOrder, SameState
  <1>2. \A x : Awaits(q.pub, x) <=> Awaits(p.pub, x)
    BY <1>1a, <1>1 DEF Awaits
  <1>3. \A b : Subscribes(q, b) <=> Subscribes(p, b)
    BY <1>1a DEF Subscribes
  <1>4. ASSUME Behind(p) PROVE Behind(q)
    <2>1. \A m, n \in DOMAIN q.pub : q.pub[m].done /\ n < m => q.pub[n].done
      BY <1>1a, <1>1, <1>4 DEF Behind
    <2>2. q.live # None => \A m, n \in DOMAIN q.pub :
            q.pub[m].actor = q.live /\ q.pub[n].at = "release" => n < m
      BY <1>1a, <1>1, <1>4 DEF Behind
    <2> QED
      BY <1>1a, <2>1, <2>2, <1>2, <1>3, <1>4 DEF Behind
  <1>5. Overtaken(q) <=> Overtaken(p)
    BY <1>1a, <1>1 DEF Overtaken
  <1>6. ASSUME Orderly(p) PROVE Orderly(q)
    <2>1. OwnedOK(q) /\ ReservedOK(q)
      BY <1>1a, <1>6 DEF Orderly, OwnedOK, ReservedOK
    <2>2. HeartsOK(q)
      BY <1>1a, <1>2, <1>6 DEF Orderly, HeartsOK, Ending
    <2>3. HookOK(q)
      <3>1. Once(q.pub, "hook")
        BY <1>1a, <1>1, <1>6 DEF Orderly, HookOK, Once
      <3>2. \A m, n \in DOMAIN q.pub :
              q.pub[m].at = "hook" /\ q.pub[n].at \in Later /\ q.pub[m].actor = q.pub[n].actor => m < n
        BY <1>1a, <1>1, <1>6 DEF Orderly, HookOK
      <3> QED
        BY <1>1a, <3>1, <3>2, <1>2, <1>6 DEF Orderly, HookOK
    <2> QED
      BY <1>1a, <2>1, <2>2, <2>3, <1>5, <1>6 DEF Orderly
  <1>7. ASSUME Behind(p), Leased(p, i, l), q.live # None, ~Doomed(q), Granted(q, i, q.live)
        PROVE  l2 = i
    <2> DEFINE at == p.pub[k].at
    <2>1. ~Doomed(p) /\ at # "lastRelease"
      BY <1>1a, <1>1, <1>7 DEF Doomed
    <2>2. CASE Granted(p, i, p.live)
      <3>1. l = i
        BY <1>1a, <1>7, <2>1, <2>2 DEF Leased
      <3>2. at # "release"
        <4> SUFFICES ASSUME at = "release" PROVE FALSE
          OBVIOUS
        <4>1. Awaits(p.pub, "release")
          BY <1>1a, <1>1 DEF Awaits
        <4>2. PICK m \in DOMAIN p.pub : p.pub[m].actor = p.live /\ p.pub[m].done
          BY <1>1a, <4>1, <2>2, <1>7 DEF Granted, Behind
        <4>3. k < m
          BY <1>1a, <4>2, <1>1, <1>7 DEF Behind
        <4> QED
          BY <1>1a, <4>2, <4>3, <1>1, <1>7 DEF Behind
      <3> QED
        BY <1>1a, <3>1, <3>2, <2>1 DEF Releases, Settles
    <2>3. CASE ~Granted(p, i, p.live)
      <3>1. PICK m \in DOMAIN q.pub : /\ q.pub[m].at \in {"hook", "own", "made"}
                                      /\ q.pub[m].actor = p.live /\ q.pub[m].done /\ q.pub[m].reply = i
        BY <1>1a, <1>3, <1>7, <2>3 DEF Granted
      <3>2. m = k
        BY <1>1a, <3>1, <1>1, <2>3 DEF Granted
      <3> QED
        BY <1>1a, <3>1, <3>2, <1>1 DEF Claims, Settles
    <2> QED
      BY <1>1a, <2>2, <2>3
  <1>8. \A j : j # i /\ j # None /\ l = j => l2 = j
    BY DEF Claims, Releases, Settles
  <1> QED
    BY <1>1a, <1>4, <1>5, <1>6, <1>7, <1>8 DEF Leased

\* A process that is not there, or has just come up.
LEMMA EmptySound ==
    ASSUME NEW i, NEW p \in {Down, Booted}
    PROVE  /\ Behind(p) /\ ~Overtaken(p) /\ Orderly(p) /\ \A l : Leased(p, i, l)
           /\ p.live = None /\ p.pub = <<>>
  <1>1. /\ p.live = None /\ p.owned = None /\ p.hearts = {} /\ p.pub = <<>> /\ p.sub = <<>>
    BY DEF Down, Booted
  <1>2. DOMAIN p.pub = {} /\ DOMAIN p.sub = {}
    BY <1>1
  <1>3. \A at : ~Awaits(p.pub, at) /\ ~Awaits(p.sub, at) /\ Once(p.pub, at) /\ Once(p.sub, at)
    BY <1>2 DEF Awaits, Once
  <1>4. Behind(p) /\ ~Overtaken(p)
    BY <1>1, <1>2 DEF Behind, Overtaken
  <1>5. Orderly(p)
    BY <1>1, <1>2, <1>3, <1>4 DEF Orderly, OwnedOK, HeartsOK, ReservedOK, HookOK
  <1> QED
    BY <1>1, <1>4, <1>5 DEF Leased

-----------------------------------------------------------------------------
\* What the functions of the code do to a process.

\* A request and the actor it carries.
Fits(n, at, a) == (at \in ForActor /\ a \in 0..n) \/ (at \in ForNone /\ a = None)
SubAts == {"subscribed", "stopped", "lastStopped"}

\* The registry forgets with an actor who is connected to it.
Forgets(p) == p.live = None => ~p.joined /\ ~p.finished

\* The fields of a process, and its pipelines.
LEMMA Fields ==
    ASSUME NEW n \in Nat, NEW p \in Processes(n)
    PROVE  /\ p.up \in BOOLEAN /\ p.live \in 0..n \cup {None} /\ p.joined \in BOOLEAN
           /\ p.finished \in BOOLEAN /\ p.owned \in [actor : 0..n, serving : BOOLEAN] \cup {None}
           /\ p.hearts \in SUBSET (0..n) /\ p.channel \in BOOLEAN /\ p.inbox \in SUBSET (0..n)
           /\ p.remote \in BOOLEAN /\ p.refused \in BOOLEAN
           /\ p.pub \in Seq(PubRequests(n)) /\ p.sub \in Seq(SubRequests(n))
           /\ Len(p.pub) \in Nat /\ DOMAIN p.pub = 1..Len(p.pub)
           /\ Len(p.sub) \in Nat /\ DOMAIN p.sub = 1..Len(p.sub)
           /\ \A k \in DOMAIN p.pub : p.pub[k] \in PubRequests(n)
           /\ \A k \in DOMAIN p.sub : p.sub[k] \in SubRequests(n)
  <1>1. p.pub \in Seq(PubRequests(n)) /\ p.sub \in Seq(SubRequests(n))
    BY DEF Processes
  <1>2. /\ Len(p.pub) \in Nat /\ DOMAIN p.pub = 1..Len(p.pub)
        /\ Len(p.sub) \in Nat /\ DOMAIN p.sub = 1..Len(p.sub)
        /\ \A k \in DOMAIN p.pub : p.pub[k] \in PubRequests(n)
        /\ \A k \in DOMAIN p.sub : p.sub[k] \in SubRequests(n)
    BY <1>1
  <1> QED
    BY <1>1, <1>2 DEF Processes

LEMMA RequestFields ==
    ASSUME NEW n \in Nat
    PROVE  /\ \A e \in PubRequests(n) :
                /\ Fits(n, e.at, e.actor) /\ e.actor \in 0..n \cup {None}
                /\ e.done \in BOOLEAN /\ e.reply \in Instances \cup {None}
           /\ \A e \in SubRequests(n) :
                e.at \in SubAts /\ e.actor \in 0..n /\ e.wire \in BOOLEAN /\ e.orphan \in BOOLEAN
  BY DEF PubRequests, SubRequests, Fits, SubAts

\* One more actor does not hurt.
LEMMA MoreActors ==
    ASSUME NEW n \in Nat
    PROVE  Processes(n) \subseteq Processes(n + 1)
  <1>1. 0..n \subseteq 0..(n + 1)
    OBVIOUS
  <1>2. PubRequests(n) \subseteq PubRequests(n + 1) /\ SubRequests(n) \subseteq SubRequests(n + 1)
    BY <1>1 DEF PubRequests, SubRequests
  <1>3. Seq(PubRequests(n)) \subseteq Seq(PubRequests(n + 1))
    BY <1>2
  <1>4. Seq(SubRequests(n)) \subseteq Seq(SubRequests(n + 1))
    BY <1>2
  <1>5. [actor : 0..n, serving : BOOLEAN] \subseteq [actor : 0..(n + 1), serving : BOOLEAN]
    BY <1>1
  <1> QED
    BY <1>1, <1>3, <1>4, <1>5 DEF Processes

LEMMA SendFacts ==
    ASSUME NEW n \in Nat, NEW p \in Processes(n), NEW at, NEW a, Fits(n, at, a)
    PROVE  LET q == Send(p, at, a)
           IN  /\ q \in Processes(n) /\ Adds(p, q, at, a) /\ q.sub = p.sub
               /\ q.up = p.up /\ q.live = p.live /\ q.joined = p.joined
               /\ q.finished = p.finished /\ q.owned = p.owned /\ q.hearts = p.hearts
               /\ q.channel = p.channel /\ q.inbox = p.inbox
               /\ q # p
  <1> DEFINE e == [at |-> at, actor |-> a, done |-> FALSE, reply |-> None]
             q == Send(p, at, a)
  <1>1. e \in PubRequests(n) /\ e.at = at /\ e.actor = a /\ ~e.done
    BY DEF PubRequests, Fits
  <1> HIDE DEF e
  <1>2. q = [p EXCEPT !.pub = Append(p.pub, e)]
    BY DEF Send, e
  <1>3. /\ Append(p.pub, e) \in Seq(PubRequests(n))
        /\ Len(p.pub) \in Nat /\ DOMAIN p.pub = 1..Len(p.pub)
        /\ Len(Append(p.pub, e)) = Len(p.pub) + 1
        /\ DOMAIN Append(p.pub, e) = 1..(Len(p.pub) + 1)
        /\ \A k \in DOMAIN p.pub : Append(p.pub, e)[k] = p.pub[k]
        /\ Append(p.pub, e)[Len(p.pub) + 1] = e
    BY <1>1, Appended, Fields
  <1>4. q \in Processes(n) /\ q.pub = Append(p.pub, e)
    BY <1>2, <1>3 DEF Processes
  <1>5. /\ q.sub = p.sub
        /\ q.up = p.up /\ q.live = p.live /\ q.joined = p.joined
        /\ q.finished = p.finished /\ q.owned = p.owned /\ q.hearts = p.hearts
        /\ q.channel = p.channel /\ q.inbox = p.inbox
    BY <1>2 DEF Processes
  <1>6. q # p
    BY <1>3, <1>4
  <1>7. Adds(p, q, at, a)
    BY <1>1, <1>3, <1>4 DEF Adds
  <1> QED
    BY <1>4, <1>5, <1>6, <1>7

LEMMA AwaitBusFacts ==
    ASSUME NEW n \in Nat, NEW p \in Processes(n), NEW at \in SubAts, NEW a \in 0..n,
           NEW w \in BOOLEAN
    PROVE  LET q == AwaitBus(p, at, a, w)
           IN  /\ q \in Processes(n) /\ AddsSub(p, q, at, a) /\ q.pub = p.pub
               /\ q.up = p.up /\ q.live = p.live /\ q.joined = p.joined
               /\ q.finished = p.finished /\ q.owned = p.owned /\ q.hearts = p.hearts
               /\ q.channel = p.channel /\ q.inbox = p.inbox
  <1> DEFINE e == [at |-> at, actor |-> a, wire |-> w, orphan |-> FALSE]
             q == AwaitBus(p, at, a, w)
  <1>1. e \in SubRequests(n) /\ e.at = at /\ e.actor = a /\ e.wire = w
    BY DEF SubRequests, SubAts
  <1> HIDE DEF e
  <1>2. q = [p EXCEPT !.sub = Append(p.sub, e)]
    BY DEF AwaitBus, e
  <1>3. /\ Append(p.sub, e) \in Seq(SubRequests(n))
        /\ Len(p.sub) \in Nat /\ DOMAIN p.sub = 1..Len(p.sub)
        /\ Len(Append(p.sub, e)) = Len(p.sub) + 1
        /\ DOMAIN Append(p.sub, e) = 1..(Len(p.sub) + 1)
        /\ \A k \in DOMAIN p.sub : Append(p.sub, e)[k] = p.sub[k]
        /\ Append(p.sub, e)[Len(p.sub) + 1] = e
    BY <1>1, Appended, Fields
  <1>4. q \in Processes(n) /\ q.sub = Append(p.sub, e)
    BY <1>2, <1>3 DEF Processes
  <1>5. /\ q.pub = p.pub
        /\ q.up = p.up /\ q.live = p.live /\ q.joined = p.joined
        /\ q.finished = p.finished /\ q.owned = p.owned /\ q.hearts = p.hearts
        /\ q.channel = p.channel /\ q.inbox = p.inbox
    BY <1>2 DEF Processes
  <1>6. AddsSub(p, q, at, a)
    BY <1>1, <1>3, <1>4 DEF AddsSub
  <1> QED
    BY <1>4, <1>5, <1>6

\* Nothing but the channel, its inbox and the pipeline of the bus changes.
BusOnly(p, q) ==
    /\ q.pub = p.pub /\ q.up = p.up /\ q.live = p.live /\ q.joined = p.joined
    /\ q.finished = p.finished /\ q.owned = p.owned /\ q.hearts = p.hearts

LEMMA SubscribeFacts ==
    ASSUME NEW n \in Nat, NEW p \in Processes(n), NEW a \in 0..n
    PROVE  LET q == Subscribe(p, a)
           IN  q \in Processes(n) /\ BusOnly(p, q) /\ AddsSub(p, q, "subscribed", a)
  <1> DEFINE q == Subscribe(p, a)
  <1>0. "subscribed" \in SubAts /\ TRUE \in BOOLEAN /\ FALSE \in BOOLEAN
    BY DEF SubAts
  <1>1. CASE p.channel
    <2> DEFINE m == [p EXCEPT !.inbox = @ \cup {a}]
    <2>1. /\ m \in Processes(n) /\ m.sub = p.sub /\ m.pub = p.pub /\ m.up = p.up /\ m.live = p.live
          /\ m.joined = p.joined /\ m.finished = p.finished /\ m.owned = p.owned /\ m.hearts = p.hearts
      BY DEF Processes
    <2> HIDE DEF m
    <2>2. PICK w \in BOOLEAN : w = FALSE
      OBVIOUS
    <2>3. q = AwaitBus(m, "subscribed", a, w)
      BY <1>1, <2>2, Zenon DEF Subscribe, m
    <2>4. /\ q \in Processes(n) /\ AddsSub(m, q, "subscribed", a)
          /\ q.pub = m.pub /\ q.up = m.up /\ q.live = m.live /\ q.joined = m.joined
          /\ q.finished = m.finished /\ q.owned = m.owned /\ q.hearts = m.hearts
      BY <2>1, <2>3, <1>0, AwaitBusFacts
    <2> QED
      BY <2>1, <2>4 DEF BusOnly, AddsSub
  <1>2. CASE ~p.channel
    <2> DEFINE m == [p EXCEPT !.channel = TRUE]
    <2>1. /\ m \in Processes(n) /\ m.sub = p.sub /\ m.pub = p.pub /\ m.up = p.up /\ m.live = p.live
          /\ m.joined = p.joined /\ m.finished = p.finished /\ m.owned = p.owned /\ m.hearts = p.hearts
      BY DEF Processes
    <2> HIDE DEF m
    <2>2. PICK w \in BOOLEAN : w = TRUE
      OBVIOUS
    <2>3. q = AwaitBus(m, "subscribed", a, w)
      BY <1>2, <2>2, Zenon DEF Subscribe, m
    <2>4. /\ q \in Processes(n) /\ AddsSub(m, q, "subscribed", a)
          /\ q.pub = m.pub /\ q.up = m.up /\ q.live = m.live /\ q.joined = m.joined
          /\ q.finished = m.finished /\ q.owned = m.owned /\ q.hearts = m.hearts
      BY <2>1, <2>3, <1>0, AwaitBusFacts
    <2> QED
      BY <2>1, <2>4 DEF BusOnly, AddsSub
  <1> QED
    BY <1>1, <1>2

LEMMA UnsubscribeFacts ==
    ASSUME NEW n \in Nat, NEW p \in Processes(n), NEW a \in 0..n, NEW at \in SubAts
    PROVE  LET q == Unsubscribe(p, a, at)
           IN  /\ q \in Processes(n) /\ BusOnly(p, q)
               /\ AddsSub(p, q, at, a)
  <1> DEFINE q == Unsubscribe(p, a, at)
  <1>1. CASE p.channel /\ p.inbox \subseteq {a}
    <2> DEFINE o == [k \in DOMAIN p.sub |-> [p.sub[k] EXCEPT !.orphan = TRUE]]
               m == [p EXCEPT !.channel = FALSE, !.inbox = {}, !.sub = o]
    <2>1. /\ Len(p.sub) \in Nat /\ DOMAIN p.sub = 1..Len(p.sub)
          /\ \A k \in DOMAIN p.sub : p.sub[k] \in SubRequests(n)
      BY Fields
    <2>2. \A k \in DOMAIN p.sub : o[k] \in SubRequests(n) /\ o[k].at = p.sub[k].at
                                  /\ o[k].actor = p.sub[k].actor /\ o[k].wire = p.sub[k].wire
      BY <2>1 DEF SubRequests
    <2>3. o \in Seq(SubRequests(n)) /\ Len(o) = Len(p.sub) /\ DOMAIN o = DOMAIN p.sub
      <3> HIDE DEF q
      <3>1. o \in [1..Len(p.sub) -> SubRequests(n)]
        BY <2>1, <2>2
      <3> HIDE DEF o
      <3> QED
        BY <2>1, <3>1
    <2> HIDE DEF o
    <2>4. /\ m \in Processes(n) /\ m.sub = o /\ m.pub = p.pub /\ m.up = p.up /\ m.live = p.live
          /\ m.joined = p.joined /\ m.finished = p.finished /\ m.owned = p.owned /\ m.hearts = p.hearts
          /\ ~m.channel
      BY <2>3 DEF Processes
    <2>5. PICK w \in BOOLEAN : w = TRUE
      OBVIOUS
    <2>6. q = AwaitBus(m, at, a, w)
      BY <1>1, <2>5, Zenon DEF Unsubscribe, m, o
    <2> HIDE DEF m, q
    <2>7. /\ q \in Processes(n) /\ AddsSub(m, q, at, a)
          /\ q.pub = m.pub /\ q.up = m.up /\ q.live = m.live /\ q.joined = m.joined
          /\ q.finished = m.finished /\ q.owned = m.owned /\ q.hearts = m.hearts
          /\ q.channel = m.channel
      BY <2>4, <2>6, AwaitBusFacts
    <2>8. AddsSub(p, q, at, a)
      BY <2>1, <2>2, <2>3, <2>4, <2>7 DEF AddsSub
    <2> QED
      BY <1>1, <2>4, <2>7, <2>8 DEF BusOnly, q
  <1>2. CASE ~(p.channel /\ p.inbox \subseteq {a})
    <2> DEFINE m == [p EXCEPT !.inbox = @ \ {a}]
    <2>1. /\ m \in Processes(n) /\ m.sub = p.sub /\ m.pub = p.pub /\ m.up = p.up /\ m.live = p.live
          /\ m.joined = p.joined /\ m.finished = p.finished /\ m.owned = p.owned /\ m.hearts = p.hearts
          /\ m.channel = p.channel /\ m.inbox = p.inbox \ {a}
      BY DEF Processes
    <2>2. PICK w \in BOOLEAN : w = FALSE
      OBVIOUS
    <2>3. q = AwaitBus(m, at, a, w)
      BY <1>2, <2>2, Zenon DEF Unsubscribe, m
    <2> HIDE DEF m, q
    <2>4. /\ q \in Processes(n) /\ AddsSub(m, q, at, a)
          /\ q.pub = m.pub /\ q.up = m.up /\ q.live = m.live /\ q.joined = m.joined
          /\ q.finished = m.finished /\ q.owned = m.owned /\ q.hearts = m.hearts
          /\ q.channel = m.channel /\ q.inbox = m.inbox
      BY <2>1, <2>3, AwaitBusFacts
    <2>5. AddsSub(p, q, at, a)
      BY <2>1, <2>4 DEF AddsSub
    <2> QED
      BY <2>1, <2>2, <2>4, <2>5 DEF BusOnly, q
  <1> QED
    BY <1>1, <1>2

LEMMA StopFacts ==
    ASSUME NEW n \in Nat, NEW p \in Processes(n), NEW at \in SubAts,
           NEW entry \in [actor : 0..n, serving : BOOLEAN]
    PROVE  LET q == Stop(p, entry, at)
           IN  /\ ~entry.serving => q = p
               /\ entry.serving =>
                    /\ q \in Processes(n) /\ q.pub = p.pub /\ q.up = p.up /\ q.live = p.live
                    /\ q.joined = p.joined /\ q.finished = p.finished /\ q.owned = p.owned
                    /\ q.hearts = p.hearts \ {entry.actor}
                    /\ AddsSub(p, q, at, entry.actor)
  <1> DEFINE q == Stop(p, entry, at)
  <1>1. ASSUME ~entry.serving PROVE q = p
    BY <1>1 DEF Stop
  <1>2. CASE entry.serving
    <2> DEFINE m == [p EXCEPT !.hearts = @ \ {entry.actor}]
               a == entry.actor
    <2>1. /\ m \in Processes(n) /\ m.sub = p.sub /\ m.pub = p.pub /\ m.up = p.up /\ m.live = p.live
          /\ m.joined = p.joined /\ m.finished = p.finished /\ m.owned = p.owned
          /\ m.hearts = p.hearts \ {entry.actor}
          /\ m.channel = p.channel /\ m.inbox = p.inbox
      BY DEF Processes
    <2>2. a \in 0..n
      OBVIOUS
    <2>3. q = Unsubscribe(m, a, at)
      BY <1>2 DEF Stop
    <2> HIDE DEF m, q, a
    <2>4. /\ q \in Processes(n) /\ BusOnly(m, q) /\ AddsSub(m, q, at, a)
      BY <2>1, <2>2, <2>3, UnsubscribeFacts 
    <2>5. AddsSub(p, q, at, a)
      BY <2>1, <2>4 DEF AddsSub
    <2> QED
      BY <1>2, <2>1, <2>4, <2>5 DEF BusOnly, q, a
  <1> QED
    BY <1>1, <1>2

LEMMA DisposedFacts ==
    ASSUME NEW n \in Nat, NEW p \in Processes(n), Forgets(p)
    PROVE  LET q == Disposed(p)
           IN  /\ q \in Processes(n) /\ Forgets(q) /\ q.pub = p.pub /\ q.up = p.up
               /\ q.live = None
               /\ p.live = None => q = p
               /\ p.live # None =>
                    /\ q.owned = None
                    /\ \A k \in DOMAIN p.sub : /\ k \in DOMAIN q.sub /\ q.sub[k].at = p.sub[k].at
                                               /\ q.sub[k].actor = p.sub[k].actor
                    /\ Beats(p) => q.hearts = {}
  <1> DEFINE q == Disposed(p)
             m == [p EXCEPT !.live = None, !.joined = FALSE, !.finished = FALSE]
             o == [m EXCEPT !.owned = None]
  <1>0. p.owned # None => p.owned \in [actor : 0..n, serving : BOOLEAN]
    BY Fields
  <1>1. /\ m \in Processes(n) /\ m.sub = p.sub /\ m.pub = p.pub /\ m.up = p.up /\ m.live = None
        /\ ~m.joined /\ ~m.finished /\ m.owned = p.owned /\ m.hearts = p.hearts
    BY DEF Processes
  <1> HIDE DEF m
  <1>2. /\ o \in Processes(n) /\ o.sub = p.sub /\ o.pub = p.pub /\ o.up = p.up /\ o.live = None
        /\ ~o.joined /\ ~o.finished /\ o.owned = None /\ o.hearts = p.hearts
    BY <1>1 DEF Processes
  <1>3. q = IF p.live = None THEN p
            ELSE IF p.owned = None THEN m ELSE Stop(o, p.owned, "stopped")
    BY <1>1 DEF Disposed, OnLocalDisposed, m
  <1> HIDE DEF o, q
  <1>4. CASE p.live = None
    BY <1>3, <1>4 DEF q
  <1>5. CASE p.live # None /\ p.owned = None
    <2>1. Beats(p) => p.hearts = {}
      BY <1>5 DEF Beats
    <2> QED
      BY <2>1, <1>1, <1>3, <1>5 DEF Forgets, q
  <1>6. CASE p.live # None /\ p.owned # None /\ ~p.owned.serving
    <2>1. q = o
      BY <1>0, <1>2, <1>3, <1>6, StopFacts DEF SubAts
    <2>2. Beats(p) => p.hearts = {}
      BY <1>6 DEF Beats
    <2> QED
      BY <2>1, <2>2, <1>2, <1>6 DEF Forgets, q
  <1>7. CASE p.live # None /\ p.owned # None /\ p.owned.serving
    <2>0. q = Stop(o, p.owned, "stopped") /\ "stopped" \in SubAts
      BY <1>3, <1>7 DEF SubAts
    <2>1. /\ q \in Processes(n) /\ q.pub = o.pub /\ q.up = o.up /\ q.live = o.live
          /\ q.joined = o.joined /\ q.finished = o.finished /\ q.owned = o.owned
          /\ q.hearts = o.hearts \ {p.owned.actor}
          /\ AddsSub(o, q, "stopped", p.owned.actor)
      BY <2>0, <1>0, <1>2, <1>7, StopFacts
    <2>2. \A k \in DOMAIN o.sub : /\ k \in DOMAIN q.sub /\ q.sub[k].at = o.sub[k].at
                                  /\ q.sub[k].actor = o.sub[k].actor
      BY <2>1, AddSubFacts
    <2>3. Beats(p) => q.hearts = {}
      BY <1>2, <1>7, <2>1 DEF Beats, OwnedOK
    <2> QED
      BY <2>1, <2>2, <2>3, <1>2, <1>7 DEF Forgets, q
  <1> QED
    BY <1>4, <1>5, <1>6, <1>7

LEMMA OnLocalCreatedFacts ==
    ASSUME NEW n \in Nat, NEW p \in Processes(n), NEW at \in ForActor, NEW a \in 0..n
    PROVE  LET q == OnLocalCreated(p, a, at)
           IN  /\ q \in Processes(n) /\ q.sub = p.sub
               /\ q.up = p.up /\ q.live = p.live /\ q.joined = p.joined
               /\ q.finished = p.finished /\ q.owned = p.owned /\ q.hearts = p.hearts
               /\ q.channel = p.channel /\ q.inbox = p.inbox
               /\ p.owned # None \/ p.live # a => q = p
               /\ p.owned = None /\ p.live = a => q # p /\ Adds(p, q, at, a)
  <1>1. Fits(n, at, a)
    BY DEF Fits
  <1>2. LET q == Send(p, at, a)
        IN  /\ q \in Processes(n) /\ Adds(p, q, at, a) /\ q.sub = p.sub
            /\ q.up = p.up /\ q.live = p.live /\ q.joined = p.joined
            /\ q.finished = p.finished /\ q.owned = p.owned /\ q.hearts = p.hearts
            /\ q.channel = p.channel /\ q.inbox = p.inbox
            /\ q # p
    BY <1>1, SendFacts
  <1> QED
    BY <1>2 DEF OnLocalCreated

LEMMA CreatedFacts ==
    ASSUME NEW n \in Nat, NEW p \in Processes(n), NEW a \in 0..n
    PROVE  LET q == Created(p, a)
           IN  /\ q \in Processes(n) /\ Forgets(q) /\ q.sub = p.sub /\ q.up = p.up /\ q.live = a
               /\ q.joined = p.joined /\ q.finished = p.finished
               /\ q.owned = p.owned /\ q.hearts = p.hearts
               /\ p.owned # None => q.pub = p.pub
               /\ p.owned = None => Adds(p, q, "hook", a)
  <1> DEFINE m == [p EXCEPT !.live = a]
             q == Created(p, a)
  <1>0. a # None
    BY ClusterAssumption
  <1>1. /\ m \in Processes(n) /\ m.sub = p.sub /\ m.pub = p.pub /\ m.up = p.up /\ m.live = a
        /\ m.joined = p.joined /\ m.finished = p.finished /\ m.owned = p.owned
        /\ m.hearts = p.hearts
    BY DEF Processes
  <1>2. q = OnLocalCreated(m, a, "hook") /\ "hook" \in ForActor
    BY DEF Created, ForActor, Claims
  <1> HIDE DEF m, q
  <1>3. /\ q \in Processes(n) /\ q.sub = m.sub
        /\ q.up = m.up /\ q.live = m.live /\ q.joined = m.joined
        /\ q.finished = m.finished /\ q.owned = m.owned /\ q.hearts = m.hearts
        /\ m.owned # None \/ m.live # a => q = m
        /\ m.owned = None /\ m.live = a => Adds(m, q, "hook", a)
    BY <1>1, <1>2, OnLocalCreatedFacts
  <1>4. p.owned = None => Adds(p, q, "hook", a)
    BY <1>1, <1>3 DEF Adds
  <1> QED
    BY <1>0, <1>1, <1>3, <1>4 DEF Forgets, q

\* All but whether anyone is connected.
JoinedOnly(p, q) ==
    /\ q.pub = p.pub /\ q.sub = p.sub /\ q.up = p.up /\ q.live = p.live
    /\ q.finished = p.finished /\ q.owned = p.owned /\ q.hearts = p.hearts
    /\ q.channel = p.channel /\ q.inbox = p.inbox
    /\ q.live = None => q = p

LEMMA JoinedFacts ==
    ASSUME NEW n \in Nat, NEW p \in Processes(n), Forgets(p), NEW a, a = p.live => a # None
    PROVE  Joined(p, a) \in Processes(n) /\ Forgets(Joined(p, a)) /\ JoinedOnly(p, Joined(p, a))
  <1>1. CASE p.live = a
    <2>1. Joined(p, a) = [p EXCEPT !.joined = TRUE]
      BY <1>1 DEF Joined
    <2> QED
      BY <1>1, <2>1 DEF Processes, Forgets, JoinedOnly
  <1>2. CASE p.live # a
    BY <1>2 DEF Joined, JoinedOnly
  <1> QED
    BY <1>1, <1>2

LEMMA TakeOwnershipFacts ==
    ASSUME NEW n \in Nat, NEW p \in Processes(n), NEW a \in 0..n
    PROVE  LET q == TakeOwnership(p, a)
           IN  /\ q \in Processes(n) /\ q.pub = p.pub /\ q.up = p.up /\ q.live = p.live
               /\ q.joined = p.joined /\ q.finished = p.finished /\ q.hearts = p.hearts
               /\ p.owned # None => q = p
               /\ p.owned = None =>
                    /\ q.owned # None /\ ~q.owned.serving /\ q.owned.actor = a
                    /\ AddsSub(p, q, "subscribed", a)
  <1> DEFINE o == [actor |-> a, serving |-> FALSE]
             m == [p EXCEPT !.owned = o]
             q == TakeOwnership(p, a)
  <1>1. CASE p.owned # None
    BY <1>1 DEF TakeOwnership
  <1>2. CASE p.owned = None
    <2>0. PICK e \in [actor : 0..n, serving : BOOLEAN] : e = o
      OBVIOUS
    <2>0a. e.actor = a /\ ~e.serving
      BY <2>0
    <2>0b. e # None
      BY ClusterAssumption
    <2>1. /\ m \in Processes(n) /\ m.sub = p.sub /\ m.pub = p.pub /\ m.up = p.up /\ m.live = p.live
          /\ m.joined = p.joined /\ m.finished = p.finished /\ m.owned = e /\ m.hearts = p.hearts
      BY <2>0 DEF Processes
    <2>2. q = Subscribe(m, a)
      BY <1>2 DEF TakeOwnership
    <2> HIDE DEF m, q, o
    <2>3. q \in Processes(n) /\ BusOnly(m, q) /\ AddsSub(m, q, "subscribed", a)
      BY <2>1, <2>2, SubscribeFacts
    <2>4. AddsSub(p, q, "subscribed", a)
      BY <2>1, <2>3 DEF AddsSub
    <2> QED
      BY <1>2, <2>0a, <2>0b, <2>1, <2>3, <2>4 DEF BusOnly, q
  <1> QED
    BY <1>1, <1>2

LEMMA ServedFacts ==
    ASSUME NEW n \in Nat, NEW p \in Processes(n), NEW s \in SubRequests(n)
    PROVE  LET q == Served(p, s)
           IN  /\ q \in Processes(n) /\ q.pub = p.pub /\ q.sub = p.sub /\ q.up = p.up
               /\ q.live = p.live /\ q.joined = p.joined /\ q.finished = p.finished
               /\ q.hearts = p.hearts \cup {s.actor}
               /\ q.owned # None /\ q.owned.serving /\ q.owned.actor = s.actor
  <1> DEFINE e == [actor |-> s.actor, serving |-> TRUE]
             b == IF s.wire /\ ~s.orphan THEN p.inbox \cup {s.actor} ELSE p.inbox
             h == p.hearts \cup {s.actor}
             q == Served(p, s)
  <1>1. s.actor \in 0..n
    BY RequestFields
  <1>2. PICK o \in [actor : 0..n, serving : BOOLEAN] : o = e
    BY <1>1
  <1>3. o.actor = s.actor /\ o.serving /\ o # None
    <2>1. e.actor = s.actor /\ e.serving = TRUE
      OBVIOUS
    <2>2. o # None
      BY ClusterAssumption
    <2> HIDE DEF e
    <2> QED
      BY <1>2, <2>1, <2>2, Zenon
  <1>4. b \in SUBSET (0..n) /\ h \in SUBSET (0..n)
    BY <1>1, Fields
  <1>5. q = [p EXCEPT !.inbox = b, !.hearts = h, !.owned = e]
    BY DEF Served
  <1> HIDE DEF b, h, q, e
  <1>6. /\ q \in Processes(n) /\ q.pub = p.pub /\ q.sub = p.sub /\ q.up = p.up
        /\ q.live = p.live /\ q.joined = p.joined /\ q.finished = p.finished
        /\ q.hearts = h /\ q.owned = e
    BY <1>1, <1>2, <1>4, <1>5 DEF Processes
  <1> QED
    BY <1>2, <1>3, <1>6 DEF h, q

\* The two pipelines move on.
LEMMA PopTyped ==
    ASSUME NEW n \in Nat, NEW p \in Processes(n), p.pub # <<>>
    PROVE  LET q == [p EXCEPT !.pub = Tail(@)]
           IN  /\ q \in Processes(n) /\ Pops(p, q) /\ q.sub = p.sub
               /\ q.up = p.up /\ q.live = p.live /\ q.joined = p.joined
               /\ q.finished = p.finished /\ q.owned = p.owned /\ q.hearts = p.hearts
               /\ q.channel = p.channel /\ q.inbox = p.inbox
               /\ Head(p.pub) = p.pub[1] /\ p.pub[1] \in PubRequests(n) /\ 1 \in DOMAIN p.pub
  <1> DEFINE q == [p EXCEPT !.pub = Tail(@)]
  <1>1. p.pub \in Seq(PubRequests(n))
    BY Fields
  <1>2. /\ Tail(p.pub) \in Seq(PubRequests(n)) /\ Head(p.pub) = p.pub[1]
        /\ p.pub[1] \in PubRequests(n)
        /\ Len(p.pub) \in Nat \ {0} /\ DOMAIN p.pub = 1..Len(p.pub)
        /\ DOMAIN Tail(p.pub) = 1..(Len(p.pub) - 1)
        /\ \A k \in DOMAIN Tail(p.pub) : Tail(p.pub)[k] = p.pub[k + 1]
    BY <1>1, Popped
  <1>3. /\ q \in Processes(n) /\ q.pub = Tail(p.pub) /\ q.sub = p.sub
        /\ q.up = p.up /\ q.live = p.live /\ q.joined = p.joined
        /\ q.finished = p.finished /\ q.owned = p.owned /\ q.hearts = p.hearts
        /\ q.channel = p.channel /\ q.inbox = p.inbox
    BY <1>2 DEF Processes
  <1>4. Pops(p, q)
    BY <1>2, <1>3 DEF Pops
  <1> QED
    BY <1>2, <1>3, <1>4

LEMMA DropTyped ==
    ASSUME NEW n \in Nat, NEW p \in Processes(n), NEW k \in DOMAIN p.sub
    PROVE  LET q == [p EXCEPT !.sub = SubSeq(@, 1, k - 1) \o SubSeq(@, k + 1, Len(@))]
           IN  /\ q \in Processes(n) /\ DropsSub(p, q, k) /\ q.pub = p.pub
               /\ q.up = p.up /\ q.live = p.live /\ q.joined = p.joined
               /\ q.finished = p.finished /\ q.owned = p.owned /\ q.hearts = p.hearts
               /\ q.channel = p.channel /\ q.inbox = p.inbox
  <1> DEFINE q == [p EXCEPT !.sub = Without(p.sub, k)]
  <1>1. p.sub \in Seq(SubRequests(n))
    BY Fields
  <1>2. /\ Without(p.sub, k) \in Seq(SubRequests(n))
        /\ Len(p.sub) \in Nat \ {0} /\ DOMAIN p.sub = 1..Len(p.sub)
        /\ DOMAIN Without(p.sub, k) = 1..(Len(p.sub) - 1)
        /\ \A m \in DOMAIN Without(p.sub, k) :
             Without(p.sub, k)[m] = IF m < k THEN p.sub[m] ELSE p.sub[m + 1]
    BY ZenonT(30), <1>1, TakenOut
  <1>3. /\ q \in Processes(n) /\ q.sub = Without(p.sub, k) /\ q.pub = p.pub
        /\ q.up = p.up /\ q.live = p.live /\ q.joined = p.joined
        /\ q.finished = p.finished /\ q.owned = p.owned /\ q.hearts = p.hearts
        /\ q.channel = p.channel /\ q.inbox = p.inbox
    BY <1>2 DEF Processes
  <1> HIDE DEF q
  <1>4. DropsSub(p, q, k)
    BY <1>2, <1>3, Zenon DEF DropsSub
  <1>5. [p EXCEPT !.sub = SubSeq(@, 1, k - 1) \o SubSeq(@, k + 1, Len(@))] = q
    BY DEF Without, q
  <1> QED
    BY <1>3, <1>4, <1>5

-----------------------------------------------------------------------------
\* Why no more actors are made than commands come in: a request that may still
\* lead to an actor is the ticket of a command that has made none.  S is no
\* larger than T when it has an injection into T.
Fewer(S, T) == \E f \in [S -> T] : \A x, y \in S : f[x] = f[y] => x = y

LEMMA FewerThan ==
    ASSUME NEW S, NEW T, NEW U, Fewer(S, T), Fewer(T, U)
    PROVE  Fewer(S, U)
  <1>1. PICK f \in [S -> T] : \A x, y \in S : f[x] = f[y] => x = y
    BY DEF Fewer
  <1>2. PICK g \in [T -> U] : \A x, y \in T : g[x] = g[y] => x = y
    BY DEF Fewer
  <1> DEFINE h == [x \in S |-> g[f[x]]]
  <1>3. h \in [S -> U] /\ \A x, y \in S : h[x] = h[y] => x = y
    BY <1>1, <1>2
  <1> QED
    BY <1>3 DEF Fewer

LEMMA FewerPart ==
    ASSUME NEW S, NEW T, S \subseteq T
    PROVE  Fewer(S, T)
  <1> DEFINE h == [x \in S |-> x]
  <1>1. h \in [S -> T] /\ \A x, y \in S : h[x] = h[y] => x = y
    OBVIOUS
  <1> QED
    BY <1>1 DEF Fewer

LEMMA FewerSwap ==
    ASSUME NEW S, NEW T, NEW x \in T, NEW z, Fewer(S, T \ {x})
    PROVE  Fewer(S \cup {z}, T)
  <1>1. PICK f \in [S -> T \ {x}] : \A a, b \in S : f[a] = f[b] => a = b
    BY DEF Fewer
  <1> DEFINE h == [a \in S \cup {z} |-> IF a \in S THEN f[a] ELSE x]
  <1>2. h \in [S \cup {z} -> T] /\ \A a, b \in S \cup {z} : h[a] = h[b] => a = b
    BY <1>1
  <1> QED
    BY <1>2 DEF Fewer

LEMMA FewerMore ==
    ASSUME NEW S, NEW n \in Nat, NEW z, Fewer(S, 1..n)
    PROVE  Fewer(S \cup {z}, 1..(n + 1))
  <1> DEFINE T == 1..(n + 1)
             x == n + 1
  <1>1. x \in T /\ 1..n = T \ {x}
    OBVIOUS
  <1> HIDE DEF T, x
  <1>2. Fewer(S, T \ {x})
    BY <1>1
  <1>3. Fewer(S \cup {z}, T)
    BY <1>1, <1>2, FewerSwap
  <1> QED
    BY <1>3 DEF T

LEMMA FewerLess ==
    ASSUME NEW S, NEW n \in Nat, NEW x \in S, Fewer(S, 1..n)
    PROVE  n > 0 /\ Fewer(S \ {x}, 1..(n - 1))
  <1>1. PICK f \in [S -> 1..n] : \A a, b \in S : f[a] = f[b] => a = b
    BY DEF Fewer
  <1>2. f[x] \in 1..n /\ n > 0
    BY <1>1
  <1> DEFINE R == S \ {x}
             h == [a \in R |-> IF f[a] = n THEN f[x] ELSE f[a]]
  <1>3. \A a \in R : a \in S /\ f[a] \in 1..n /\ f[a] # f[x]
    BY <1>1
  <1>4. \A a \in R : h[a] \in 1..(n - 1)
    BY <1>2, <1>3
  <1>5. h \in [R -> 1..(n - 1)]
    BY <1>4
  <1>6. \A a, b \in R : h[a] = h[b] => a = b
    BY <1>1, <1>3
  <1> QED
    BY <1>2, <1>5, <1>6 DEF Fewer

TicketAts == {"lookup", "getMeta", "reclaim", "autoclaim", "checkFree"}
Tickets(s) == {k \in DOMAIN s : s[k].at \in TicketAts}
AllTickets(pr) == {t \in Instances \X Nat : t[2] \in Tickets(pr[t[1]].pub)}

LEMMA PopTickets ==
    ASSUME NEW p, NEW q, Pops(p, q)
    PROVE  Fewer(Tickets(q.pub), Tickets(p.pub) \ {1})
  <1> DEFINE h == [k \in Tickets(q.pub) |-> k + 1]
  <1>1. \A k \in Tickets(q.pub) : k \in Nat /\ k + 1 \in Tickets(p.pub) /\ k + 1 # 1
    BY DEF Pops, Tickets
  <1>2. h \in [Tickets(q.pub) -> Tickets(p.pub) \ {1}]
    BY <1>1
  <1>3. \A x, y \in Tickets(q.pub) : h[x] = h[y] => x = y
    BY <1>1
  <1> QED
    BY <1>2, <1>3 DEF Fewer

LEMMA AddTickets ==
    ASSUME NEW p, NEW q, NEW at, NEW a, Adds(p, q, at, a)
    PROVE  /\ Tickets(q.pub) \subseteq Tickets(p.pub) \cup {Len(p.pub) + 1}
           /\ at \notin TicketAts => Tickets(q.pub) \subseteq Tickets(p.pub)
           /\ Len(p.pub) + 1 \in Nat
  BY DEF Adds, Tickets

\* A process changes its own tickets only.
LEMMA OwnTickets ==
    ASSUME NEW pr, DOMAIN pr = Instances, NEW i \in Instances, NEW q, NEW B,
           Fewer(Tickets(q.pub), B), B \subseteq Nat
    PROVE  Fewer(AllTickets([pr EXCEPT ![i] = q]),
                 {t \in AllTickets(pr) : t[1] # i} \cup ({i} \X B))
  <1> DEFINE pr2 == [pr EXCEPT ![i] = q]
             S == AllTickets(pr2)
             T == {t \in AllTickets(pr) : t[1] # i} \cup ({i} \X B)
  <1>1. PICK g \in [Tickets(q.pub) -> B] : \A x, y \in Tickets(q.pub) : g[x] = g[y] => x = y
    BY DEF Fewer
  <1>2. \A t \in S : /\ t[1] \in Instances /\ t[2] \in Nat /\ t = <<t[1], t[2]>>
                     /\ t[1] = i => t[2] \in Tickets(q.pub)
                     /\ t[1] # i => t[2] \in Tickets(pr[t[1]].pub)
    BY DEF AllTickets
  <1> DEFINE h == [t \in S |-> IF t[1] = i THEN <<i, g[t[2]]>> ELSE t]
  <1>3. ASSUME NEW t \in S PROVE h[t] \in T /\ h[t][1] = t[1]
    <2>1. CASE t[1] = i
      BY <2>1, <1>1, <1>2
    <2>2. CASE t[1] # i
      BY <2>2, <1>2 DEF AllTickets
    <2> QED
      BY <2>1, <2>2
  <1>4. ASSUME NEW t \in S, NEW u \in S, h[t] = h[u] PROVE t = u
    <2>1. t[1] = u[1]
      BY <1>3, <1>4
    <2>2. CASE t[1] = i
      <3>1. g[t[2]] = g[u[2]]
        BY <2>1, <2>2, <1>4
      <3> QED
        BY <3>1, <2>1, <2>2, <1>1, <1>2
    <2>3. CASE t[1] # i
      BY <2>1, <2>3, <1>4
    <2> QED
      BY <2>2, <2>3
  <1>5. h \in [S -> T]
    BY <1>3
  <1> HIDE DEF h, S, T
  <1>6. Fewer(S, T)
    BY <1>4, <1>5 DEF Fewer
  <1> QED
    BY <1>6 DEF S, T

-----------------------------------------------------------------------------
\* Types, with what makes the bound of `made' inductive.
TypeInv == ClusterTypeOK /\ Fewer(AllTickets(proc), 1..(commands - made))

LEMMA TypeFacts ==
    ASSUME ClusterTypeOK
    PROVE  /\ made \in Nat /\ commands \in Nat /\ commands - made \in Nat /\ made <= commands
           /\ commands <= MaxCommands /\ DOMAIN proc = Instances
           /\ stalls \in Nat /\ exits \in Nat /\ failures \in Nat
           /\ stalls + exits + failures <= MaxFaults
           /\ lease \in Instances \cup {None} /\ meta \in BOOLEAN
           /\ overtaken \subseteq Instances
           /\ \A j \in Instances : proc[j] \in Processes(made) /\ Forgets(proc[j])
  BY ClusterAssumption DEF ClusterTypeOK, Forgets

\* A step of a process that makes no actor.
LEMMA TicketsKept ==
    ASSUME TypeInv, NEW i \in Instances, NEW q, Fewer(Tickets(q.pub), Tickets(proc[i].pub))
    PROVE  Fewer(AllTickets([proc EXCEPT ![i] = q]), 1..(commands - made))
  <1> DEFINE B == Tickets(proc[i].pub)
             T == {t \in AllTickets(proc) : t[1] # i} \cup ({i} \X B)
  <1>1. DOMAIN proc = Instances /\ made \in Nat /\ proc[i] \in Processes(made)
    BY TypeFacts DEF TypeInv
  <1>2. B \subseteq Nat
    BY <1>1, Fields DEF Tickets
  <1>3. T \subseteq AllTickets(proc)
    BY <1>2 DEF AllTickets
  <1>4. Fewer(AllTickets([proc EXCEPT ![i] = q]), T)
    BY <1>1, <1>2, OwnTickets
  <1>5. Fewer(T, AllTickets(proc))
    BY <1>3, FewerPart
  <1> HIDE DEF T
  <1> QED
    BY <1>4, <1>5, FewerThan DEF TypeInv

\* A step that makes one, with a ticket.
LEMMA TicketSpent ==
    ASSUME TypeInv, NEW i \in Instances, NEW q, NEW k \in Tickets(proc[i].pub),
           Fewer(Tickets(q.pub), Tickets(proc[i].pub) \ {k})
    PROVE  /\ made + 1 <= commands
           /\ Fewer(AllTickets([proc EXCEPT ![i] = q]), 1..(commands - (made + 1)))
  <1> DEFINE B == Tickets(proc[i].pub) \ {k}
             T == {t \in AllTickets(proc) : t[1] # i} \cup ({i} \X B)
             R == AllTickets(proc) \ {<<i, k>>}
             n == commands - made
  <1>1. /\ DOMAIN proc = Instances /\ made \in Nat /\ proc[i] \in Processes(made)
        /\ commands \in Nat /\ n \in Nat
    BY TypeFacts DEF TypeInv
  <1>2. Tickets(proc[i].pub) \subseteq Nat /\ B \subseteq Nat
    BY <1>1, Fields DEF Tickets
  <1>3. T \subseteq R /\ <<i, k>> \in AllTickets(proc)
    BY <1>2 DEF AllTickets
  <1>4. Fewer(AllTickets([proc EXCEPT ![i] = q]), T)
    BY <1>1, <1>2, OwnTickets
  <1>5. Fewer(T, R)
    BY <1>3, FewerPart
  <1>6. Fewer(AllTickets(proc), 1..n)
    BY DEF TypeInv
  <1> HIDE DEF T, n
  <1>7. n > 0 /\ Fewer(R, 1..(n - 1))
    BY <1>1, <1>3, <1>6, FewerLess
  <1>8. n - 1 = commands - (made + 1) /\ made + 1 <= commands
    BY <1>1, <1>7 DEF n
  <1> HIDE DEF R
  <1>9. Fewer(AllTickets([proc EXCEPT ![i] = q]), 1..(n - 1))
    BY <1>4, <1>5, <1>7, FewerThan
  <1> QED
    BY <1>8, <1>9

\* A command that makes none yet.
LEMMA TicketTaken ==
    ASSUME TypeInv, NEW i \in Instances, NEW q, NEW z \in Nat,
           Tickets(q.pub) \subseteq Tickets(proc[i].pub) \cup {z}
    PROVE  Fewer(AllTickets([proc EXCEPT ![i] = q]), 1..((commands + 1) - made))
  <1> DEFINE B == Tickets(proc[i].pub) \cup {z}
             T == {t \in AllTickets(proc) : t[1] # i} \cup ({i} \X B)
             R == AllTickets(proc) \cup {<<i, z>>}
             n == commands - made
  <1>1. /\ DOMAIN proc = Instances /\ made \in Nat /\ proc[i] \in Processes(made)
        /\ commands \in Nat /\ n \in Nat
    BY TypeFacts DEF TypeInv
  <1>2. B \subseteq Nat
    BY <1>1, Fields DEF Tickets
  <1>3. T \subseteq R
    BY <1>2 DEF AllTickets
  <1>3a. Fewer(Tickets(q.pub), B)
    BY FewerPart
  <1>4. Fewer(AllTickets([proc EXCEPT ![i] = q]), T)
    BY <1>1, <1>2, <1>3a, OwnTickets
  <1>5. Fewer(T, R)
    BY <1>3, FewerPart
  <1>6. Fewer(AllTickets(proc), 1..n)
    BY DEF TypeInv
  <1> HIDE DEF T, n
  <1>7. Fewer(R, 1..(n + 1))
    BY <1>1, <1>6, FewerMore
  <1>8. n + 1 = (commands + 1) - made
    BY <1>1 DEF n
  <1> HIDE DEF R
  <1>9. Fewer(AllTickets([proc EXCEPT ![i] = q]), 1..(n + 1))
    BY <1>4, <1>5, <1>7, FewerThan
  <1> QED
    BY <1>8, <1>9

FaultsOK == /\ {stalls, exits, failures} \subseteq Nat /\ stalls + exits + failures <= MaxFaults

LEMMA TypedStep ==
    ASSUME TypeInv, NEW i \in Instances, made' \in {made, made + 1},
           NEW q \in Processes(made'), Forgets(q),
           Become(i, q), lease' \in Instances \cup {None}, meta' \in BOOLEAN,
           made' <= commands', commands' \in 0..MaxCommands, FaultsOK',
           Fewer(AllTickets([proc EXCEPT ![i] = q]), 1..(commands' - made'))
    PROVE  TypeInv'
  <1>1. made \in Nat /\ proc \in [Instances -> Processes(made)]
        /\ \A j \in Instances : proc[j].live = None => ~proc[j].joined /\ ~proc[j].finished
    BY TypeFacts DEF TypeInv, ClusterTypeOK
  <1>2. Processes(made) \subseteq Processes(made') /\ made' \in Nat
    BY <1>1, MoreActors
  <1>2a. /\ proc' = [proc EXCEPT ![i] = q]
         /\ overtaken' \subseteq Instances
    BY TypeFacts DEF TypeInv, Become
  <1>3. proc' \in [Instances -> Processes(made')]
    BY <1>1, <1>2, <1>2a
  <1>4. \A j \in Instances : proc'[j].live = None => ~proc'[j].joined /\ ~proc'[j].finished
    BY <1>1, <1>2a DEF Forgets
  <1>5. made' \in 0..commands'
    BY <1>2, ClusterAssumption
  <1>6. ClusterTypeOK'
    BY <1>2a, <1>3, <1>4, <1>5 DEF ClusterTypeOK, FaultsOK
  <1>7. AllTickets(proc)' = AllTickets([proc EXCEPT ![i] = q])
    BY <1>2a DEF AllTickets, Tickets
  <1> QED
    BY <1>6, <1>7 DEF TypeInv

\* A step that neither makes an actor nor is a command from outside.
LEMMA QuietStep ==
    ASSUME TypeInv, NEW i \in Instances, NEW q \in Processes(made), Forgets(q),
           Fewer(Tickets(q.pub), Tickets(proc[i].pub)),
           Become(i, q), lease' \in Instances \cup {None}, meta' \in BOOLEAN,
           UNCHANGED <<made, commands>>, FaultsOK'
    PROVE  TypeInv'
  <1>1. Fewer(AllTickets([proc EXCEPT ![i] = q]), 1..(commands - made))
    BY TicketsKept
  <1>2. made <= commands /\ commands \in 0..MaxCommands
    BY TypeFacts DEF TypeInv
  <1> QED
    BY <1>1, <1>2, TypedStep

\* The whole invariant, when one process changes and the lease stays.
LEMMA SoundStep ==
    ASSUME TypeInv, NEW i \in Instances, NEW q, Become(i, q), q.up \/ Orderly(q),
           lease' = lease, stalls' = stalls, Sound => Kept(i, proc[i], q)
    PROVE  Sound => Sound'
  <1>1. DOMAIN proc = Instances
    BY TypeFacts DEF TypeInv
  <1>2. /\ \A j \in Instances : proc'[j] = IF j = i THEN q ELSE proc[j]
        /\ \A j \in Instances : j # i => (j \in overtaken' <=> j \in overtaken)
        /\ Overtaken(q) => i \in overtaken'
        /\ q.up /\ i \in overtaken => i \in overtaken'
    BY <1>1 DEF Become
  <1>3. ASSUME Sound, NEW j \in Instances
        PROVE  /\ Behind(proc'[j])
               /\ j \in overtaken' \/ Orderly(proc'[j])
               /\ stalls' # 0 \/ Leased(proc'[j], j, lease')
    <2>1. CASE j = i
      <3>1. /\ Behind(proc[i])
            /\ i \in overtaken \/ Orderly(proc[i])
            /\ stalls # 0 \/ Leased(proc[i], i, lease)
        BY <1>3 DEF Sound
      <3>2. Kept(i, proc[i], q)
        BY <1>3
      <3>3. Behind(q)
        BY <3>1, <3>2 DEF Kept
      <3>4. i \in overtaken' \/ Orderly(q)
        BY <3>1, <3>2, <1>2 DEF Kept
      <3>5. stalls # 0 \/ Leased(q, i, lease)
        BY <3>1, <3>2 DEF Kept
      <3> QED
        BY <2>1, <3>3, <3>4, <3>5, <1>2
    <2>2. CASE j # i
      BY <2>2, <1>2, <1>3 DEF Sound
    <2> QED
      BY <2>1, <2>2
  <1> QED
    BY <1>3 DEF Sound

LEMMA FaultsKept ==
    ASSUME TypeInv, UNCHANGED <<stalls, exits, failures>>
    PROVE  FaultsOK'
  BY TypeFacts DEF TypeInv, FaultsOK

\* What a process may assume between two steps.
LEMMA ProcFacts ==
    ASSUME TypeInv, NEW i \in Instances
    PROVE  made \in Nat /\ proc[i] \in Processes(made) /\ Forgets(proc[i])
  BY TypeFacts DEF TypeInv

\* A step of one process that makes no actor and leaves Redis alone.
LEMMA OwnStep ==
    ASSUME TypeInv, NEW i \in Instances, NEW q \in Processes(made), Forgets(q),
           Fewer(Tickets(q.pub), Tickets(proc[i].pub)), Become(i, q), q.up \/ Orderly(q),
           UNCHANGED <<redisVars, made, commands, stalls>>, FaultsOK',
           Kept(i, proc[i], q)
    PROVE  TypeInv' /\ (Sound => Sound')
  <1>1. lease' = lease /\ lease' \in Instances \cup {None} /\ meta' \in BOOLEAN
    BY TypeFacts DEF TypeInv, redisVars
  <1>2. TypeInv'
    BY <1>1, QuietStep
  <1>3. Sound => Sound'
    BY <1>1, SoundStep
  <1> QED
    BY <1>2, <1>3

\* A command that makes an actor, or none.
LEMMA CommandStep ==
    ASSUME TypeInv, NEW i \in Instances, Command(i), made' \in {made, made + 1},
           NEW q \in Processes(made'), Forgets(q), Tickets(q.pub) \subseteq Tickets(proc[i].pub),
           Become(i, q), q.up, Kept(i, proc[i], q)
    PROVE  TypeInv' /\ (Sound => Sound')
  <1>1. /\ commands < MaxCommands /\ commands' = commands + 1 /\ UNCHANGED redisVars
        /\ UNCHANGED <<stalls, exits, failures>>
    BY DEF Command
  <1>2. /\ lease' = lease /\ lease' \in Instances \cup {None} /\ meta' \in BOOLEAN
        /\ made \in Nat /\ commands \in Nat /\ made <= commands
    BY <1>1, TypeFacts DEF TypeInv, redisVars
  <1>3. made' <= commands' /\ commands' \in 0..MaxCommands
    BY <1>1, <1>2, ClusterAssumption
  <1>4. Fewer(Tickets(q.pub), Tickets(proc[i].pub))
    BY FewerPart
  <1>5. Fewer(AllTickets([proc EXCEPT ![i] = q]), 1..(commands - made))
    BY <1>4, TicketsKept
  <1>6. 1..(commands - made) \subseteq 1..(commands' - made')
    <2>0. made' \in Nat /\ made' <= made + 1 /\ commands' \in Nat /\ commands' = commands + 1
      BY <1>1, <1>2
    <2>1. commands - made \in Nat /\ commands' - made' \in Nat
          /\ commands - made <= commands' - made'
      <3>1. \A c, m, m2 \in Nat : m <= c /\ m2 <= m + 1 =>
              c - m \in Nat /\ (c + 1) - m2 \in Nat /\ c - m <= (c + 1) - m2
        OBVIOUS
      <3> QED
        BY <2>0, <3>1, <1>2
    <2> QED
      BY <2>1
  <1>7. Fewer(1..(commands - made), 1..(commands' - made'))
    BY <1>6, FewerPart
  <1>8. Fewer(AllTickets([proc EXCEPT ![i] = q]), 1..(commands' - made'))
    BY <1>5, <1>7, FewerThan
  <1>9. FaultsOK'
    BY <1>1, FaultsKept
  <1>10. TypeInv'
    BY <1>2, <1>3, <1>8, <1>9, TypedStep
  <1>11. Sound => Sound'
    BY <1>1, <1>2, SoundStep
  <1> QED
    BY <1>10, <1>11

-----------------------------------------------------------------------------
\* What the functions of the code keep.

LEMMA AreNamed ==
    ASSUME NEW n \in Nat, NEW p \in Processes(n)
    PROVE  Named(p)
  <1>1. /\ \A k \in DOMAIN p.pub : p.pub[k] \in PubRequests(n)
        /\ \A k \in DOMAIN p.sub : p.sub[k] \in SubRequests(n)
    BY Fields
  <1>2. \A a \in 0..n : a # None
    BY ClusterAssumption
  <1>3. \A k \in DOMAIN p.sub : p.sub[k].actor # None
    BY <1>1, <1>2, RequestFields
  <1>4. \A k \in DOMAIN p.pub : Fits(n, p.pub[k].at, p.pub[k].actor)
    BY <1>1, RequestFields
  <1>5. {"hook", "own", "made"} \cap ForNone = {}
    BY DEF ForNone, Lookups, Releases
  <1>6. \A k \in DOMAIN p.pub : p.pub[k].at \in {"hook", "own", "made"} => p.pub[k].actor # None
    BY <1>2, <1>4, <1>5 DEF Fits
  <1> QED
    BY <1>3, <1>6 DEF Named

\* A request is sent.
LEMMA Sent ==
    ASSUME NEW n \in Nat, NEW p \in Processes(n), Forgets(p), NEW at, NEW a, Fits(n, at, a)
    PROVE  LET q == Send(p, at, a)
           IN  /\ q \in Processes(n) /\ Forgets(q) /\ q.up = p.up /\ q.live = p.live
               /\ Frame(p, q) /\ Adds(p, q, at, a)
               /\ at \notin TicketAts => Tickets(q.pub) \subseteq Tickets(p.pub)
               /\ p.up /\ at # "hook" /\ (at = "release" => p.live = None) =>
                    \A i : Follows(i, p, q)
  <1> DEFINE q == Send(p, at, a)
  <1>1. /\ q \in Processes(n) /\ Adds(p, q, at, a) /\ q.sub = p.sub
        /\ q.up = p.up /\ q.live = p.live /\ q.joined = p.joined
        /\ q.finished = p.finished /\ q.owned = p.owned /\ q.hearts = p.hearts
    BY SendFacts
  <1> HIDE DEF q
  <1>2. at \notin TicketAts => Tickets(q.pub) \subseteq Tickets(p.pub)
    BY <1>1, AddTickets
  <1>3. Forgets(q)
    BY <1>1 DEF Forgets
  <1>4. Ending(p) => Ending(q)
    BY <1>1, AddFacts DEF Ending, Awaits
  <1>5. Frame(p, q)
    BY <1>1, <1>4 DEF Frame, Subscribes
  <1>6. ASSUME p.up, at # "hook", at = "release" => p.live = None, NEW i
        PROVE  Follows(i, p, q)
    BY <1>1, <1>5, <1>6, AddKeeps
  <1> QED
    BY <1>1, <1>2, <1>3, <1>5, <1>6 DEF q

LEMMA JoinedKeeps ==
    ASSUME NEW n \in Nat, NEW p \in Processes(n), Forgets(p), NEW a, a # None
    PROVE  LET q == Joined(p, a)
           IN  /\ q \in Processes(n) /\ Forgets(q) /\ q.pub = p.pub /\ q.up = p.up
               /\ \A i : Follows(i, p, q) /\ (Overtaken(q) <=> Overtaken(p))
  <1> DEFINE q == Joined(p, a)
  <1>1. q \in Processes(n) /\ Forgets(q) /\ JoinedOnly(p, q)
    BY JoinedFacts
  <1> HIDE DEF q
  <1>2. Frame(p, q) /\ q.pub = p.pub /\ q.up = p.up
    BY <1>1 DEF JoinedOnly, Frame, Subscribes, Ending
  <1>3. \A i : Follows(i, p, q) /\ (Overtaken(q) <=> Overtaken(p))
    BY <1>2, AgreeKeeps
  <1> QED
    BY <1>1, <1>2, <1>3 DEF q

LEMMA DisposedKeeps ==
    ASSUME NEW n \in Nat, NEW p \in Processes(n), Forgets(p)
    PROVE  LET q == Disposed(p)
           IN  /\ q \in Processes(n) /\ Forgets(q) /\ q.pub = p.pub /\ q.up = p.up
               /\ q.live = None /\ (p.live = None => q = p)
               /\ p.live # None => /\ Behind(p) => Behind(q)
                                   /\ Beats(p) => Overtaken(q) \/ Orderly(q)
                                   /\ \A i, l : Leased(q, i, l)
               /\ \A i : Follows(i, p, q)
  <1> DEFINE q == Disposed(p)
  <1>1. /\ q \in Processes(n) /\ Forgets(q) /\ q.pub = p.pub /\ q.up = p.up
        /\ q.live = None
        /\ p.live = None => q = p
        /\ p.live # None =>
             /\ q.owned = None
             /\ \A k \in DOMAIN p.sub : /\ k \in DOMAIN q.sub /\ q.sub[k].at = p.sub[k].at
                                        /\ q.sub[k].actor = p.sub[k].actor
             /\ Beats(p) => q.hearts = {}
    BY DisposedFacts
  <1> HIDE DEF q
  <1>2. CASE p.live = None
    <2>1. \A i : Follows(i, p, q)
      BY <1>1, <1>2 DEF Follows, Kept
    <2> QED
      BY <1>1, <1>2, <2>1 DEF q
  <1>3. CASE p.live # None
    <2>1. Named(q)
      BY <1>1, AreNamed
    <2>2. ASSUME NEW i
          PROVE  /\ Behind(p) => Behind(q)
                 /\ \A l : Leased(q, i, l)
                 /\ Beats(p) => Overtaken(q) \/ Orderly(q)
                 /\ Follows(i, p, q)
      BY <1>1, <1>3, <2>1, DisposeKeeps
    <2> QED
      BY <1>1, <1>3, <2>2 DEF q
  <1> QED
    BY <1>2, <1>3

LEMMA CreatedKeeps ==
    ASSUME NEW n \in Nat, NEW p \in Processes(n), p.up, p.live = None
    PROVE  LET q == Created(p, n + 1)
           IN  /\ q \in Processes(n + 1) /\ Forgets(q) /\ q.up /\ q.live = n + 1
               /\ q.joined = p.joined /\ q.finished = p.finished
               /\ Tickets(q.pub) \subseteq Tickets(p.pub)
               /\ \A i : Follows(i, p, q)
  <1> DEFINE a == n + 1
             q == Created(p, a)
  <1>1. p \in Processes(a) /\ a \in Nat /\ a \in 0..a /\ a # None
    BY MoreActors, ClusterAssumption
  <1>2. /\ \A k \in DOMAIN p.pub : p.pub[k].actor # a
        /\ \A k \in DOMAIN p.sub : p.sub[k].actor # a
        /\ p.owned # None => p.owned.actor # a
    <2>1. /\ \A k \in DOMAIN p.pub : p.pub[k].actor \in 0..n \cup {None}
          /\ \A k \in DOMAIN p.sub : p.sub[k].actor \in 0..n
      BY Fields, RequestFields
    <2>2. p.owned # None => p.owned \in [actor : 0..n, serving : BOOLEAN]
      BY Fields
    <2>3. a \notin 0..n
      OBVIOUS
    <2> QED
      BY <2>1, <2>2, <2>3, <1>1
  <1> HIDE DEF a
  <1>3. /\ q \in Processes(a) /\ Forgets(q) /\ q.sub = p.sub /\ q.up = p.up /\ q.live = a
        /\ q.joined = p.joined /\ q.finished = p.finished
        /\ q.owned = p.owned /\ q.hearts = p.hearts
        /\ p.owned # None => q.pub = p.pub
        /\ p.owned = None => Adds(p, q, "hook", a)
    BY <1>1, CreatedFacts
  <1> HIDE DEF q
  <1>4. Tickets(q.pub) \subseteq Tickets(p.pub)
    <2>1. CASE p.owned # None
      BY <1>3, <2>1
    <2>2. CASE p.owned = None
      BY <1>3, <2>2, AddTickets DEF TicketAts
    <2> QED
      BY <2>1, <2>2
  <1>5. Named(p)
    BY AreNamed
  <1>6. ASSUME NEW i PROVE Follows(i, p, q)
    BY <1>1, <1>2, <1>3, <1>5, CreateKeeps
  <1> QED
    BY <1>3, <1>4, <1>6 DEF q, a

LEMMA RestartedKeeps ==
    ASSUME NEW n \in Nat, NEW p \in Processes(n), Forgets(p), p.up
    PROVE  LET q == Restarted(p, n + 1)
           IN  /\ q \in Processes(n + 1) /\ Forgets(q) /\ q.up
               /\ Tickets(q.pub) \subseteq Tickets(p.pub)
               /\ \A i : Follows(i, p, q)
  <1> DEFINE m == Disposed(p)
             q == Restarted(p, n + 1)
  <1>1. /\ m \in Processes(n) /\ Forgets(m) /\ m.pub = p.pub /\ m.up /\ m.live = None
        /\ \A i : Follows(i, p, m)
    BY DisposedKeeps
  <1>2. q = Created(m, n + 1)
    BY DEF Restarted
  <1> HIDE DEF m, q
  <1>3. /\ q \in Processes(n + 1) /\ Forgets(q) /\ q.up
        /\ Tickets(q.pub) \subseteq Tickets(m.pub)
        /\ \A i : Follows(i, m, q)
    BY <1>1, <1>2, CreatedKeeps
  <1>4. \A i : Follows(i, p, q)
    BY <1>1, <1>3, KeptThrough DEF Follows
  <1> QED
    BY <1>1, <1>3, <1>4 DEF q

-----------------------------------------------------------------------------
\* Every action keeps the invariant.

\* A request for Redis from outside.
LEMMA AskStep ==
    ASSUME TypeInv, NEW i \in Instances, NEW at \in {"lookup", "checkFree"}, Command(i),
           Become(i, Send(proc[i], at, None)), UNCHANGED made
    PROVE  TypeInv' /\ (Sound => Sound')
  <1> DEFINE p == proc[i]
             q == Send(p, at, None)
  <1>1. /\ made \in Nat /\ p \in Processes(made) /\ Forgets(p) /\ p.up
        /\ commands < MaxCommands /\ commands' = commands + 1 /\ UNCHANGED redisVars
        /\ UNCHANGED <<stalls, exits, failures>>
    BY ProcFacts DEF Command, Turn
  <1>2. Fits(made, at, None)
    BY DEF Fits, ForNone, Lookups
  <1> HIDE DEF p
  <1>3. /\ q \in Processes(made) /\ Forgets(q) /\ q.up = p.up /\ Adds(p, q, at, None)
        /\ Kept(i, p, q)
    BY <1>1, <1>2, Sent DEF Follows
  <1>4. Become(i, q)
    BY DEF p
  <1> HIDE DEF q
  <1>5. Tickets(q.pub) \subseteq Tickets(p.pub) \cup {Len(p.pub) + 1} /\ Len(p.pub) + 1 \in Nat
    BY <1>3, AddTickets
  <1>6. Fewer(AllTickets([proc EXCEPT ![i] = q]), 1..((commands + 1) - made))
    BY <1>5, TicketTaken DEF p
  <1>7. TypeInv'
    <2>1. /\ made' = made /\ lease' \in Instances \cup {None} /\ meta' \in BOOLEAN
          /\ made' <= commands' /\ commands' \in 0..MaxCommands /\ FaultsOK'
      BY <1>1, TypeFacts, ClusterAssumption DEF TypeInv, FaultsOK, redisVars
    <2>3. Fewer(AllTickets([proc EXCEPT ![i] = q]), 1..(commands' - made'))
      BY <1>1, <1>6, <2>1
    <2> QED
      BY <1>3, <1>4, <2>1, <2>3, TypedStep
  <1>8. Sound => Sound'
    BY <1>1, <1>3, <1>4, SoundStep DEF redisVars, p
  <1> QED
    BY <1>7, <1>8

LEMMA JoinElsewhereStep ==
    ASSUME TypeInv, NEW i \in Instances, JoinElsewhere(i) \/ Create(i)
    PROVE  TypeInv' /\ (Sound => Sound')
  <1>1. CASE JoinElsewhere(i)
    BY <1>1, AskStep DEF JoinElsewhere
  <1>2. CASE Create(i)
    BY <1>2, AskStep DEF Create
  <1> QED
    BY <1>1, <1>2

LEMMA JoinLocalStep ==
    ASSUME TypeInv, NEW i \in Instances, JoinLocal(i)
    PROVE  TypeInv' /\ (Sound => Sound')
  <1> DEFINE p == proc[i]
             a == made + 1
             q == Restarted(p, a)
             r == Joined(q, a)
  <1>1. made \in Nat /\ p \in Processes(made) /\ Forgets(p) /\ p.up /\ p.live # None /\ Command(i)
    BY ProcFacts DEF JoinLocal, Command, Turn
  <1>2. CASE p.finished /\ ~p.joined
    <2>1. Become(i, r) /\ made' = a
      BY <1>2 DEF JoinLocal, BecomeMade, Fresh
    <2>2. a \in Nat /\ a # None
      BY <1>1, ClusterAssumption
    <2> HIDE DEF p
    <2>3. /\ q \in Processes(a) /\ Forgets(q) /\ q.up /\ Tickets(q.pub) \subseteq Tickets(p.pub)
          /\ \A j : Follows(j, p, q)
      BY <1>1, RestartedKeeps
    <2> HIDE DEF q, a
    <2>4. /\ r \in Processes(a) /\ Forgets(r) /\ r.pub = q.pub /\ r.up
          /\ \A j : Follows(j, q, r)
      BY <2>2, <2>3, JoinedKeeps
    <2> HIDE DEF r
    <2>5. made' \in {made, made + 1} /\ Tickets(r.pub) \subseteq Tickets(p.pub)
      BY <2>1, <2>3, <2>4 DEF a
    <2>6. Kept(i, p, r)
      BY <2>3, <2>4, KeptThrough DEF Follows
    <2> QED
      BY <1>1, <2>1, <2>4, <2>5, <2>6, CommandStep DEF p
  <1>3. CASE ~(p.finished /\ ~p.joined)
    <2> DEFINE s == Joined(p, p.live)
    <2>1. Become(i, s) /\ made' = made
      BY <1>3 DEF JoinLocal
    <2> HIDE DEF p
    <2>2. /\ s \in Processes(made) /\ Forgets(s) /\ s.pub = p.pub /\ s.up
          /\ Kept(i, p, s)
      BY <1>1, JoinedKeeps DEF Follows
    <2> HIDE DEF s
    <2> QED
      BY <1>1, <2>1, <2>2, CommandStep DEF p
  <1> QED
    BY <1>2, <1>3

LEMMA RestartStep ==
    ASSUME TypeInv, NEW i \in Instances, Restart(i)
    PROVE  TypeInv' /\ (Sound => Sound')
  <1> DEFINE p == proc[i]
             a == made + 1
             q == Restarted(p, a)
  <1>1. made \in Nat /\ p \in Processes(made) /\ Forgets(p) /\ p.up
    BY ProcFacts DEF Restart, Command, Turn
  <1>2. Become(i, q) /\ made' = a /\ Command(i)
    BY DEF Restart, BecomeMade, Fresh
  <1> HIDE DEF p
  <1>3. /\ q \in Processes(a) /\ Forgets(q) /\ q.up /\ Tickets(q.pub) \subseteq Tickets(p.pub)
        /\ Kept(i, p, q)
    BY <1>1, RestartedKeeps DEF Follows
  <1> HIDE DEF q
  <1> QED
    BY <1>1, <1>2, <1>3, CommandStep DEF p

\* The process when the head of its pipeline has been answered.
LEMMA ResumeFacts ==
    ASSUME TypeInv, NEW i \in Instances, NEW at, Resumes(i, at)
    PROVE  LET p == proc[i]
               r == Rest(i)
           IN  /\ made \in Nat /\ p \in Processes(made) /\ Forgets(p)
               /\ r \in Processes(made) /\ Forgets(r) /\ Pops(p, r) /\ r.up
               /\ r.up = p.up /\ r.live = p.live /\ r.hearts = p.hearts /\ r.owned = p.owned
               /\ r.sub = p.sub
               /\ p.pub[1].at \in at /\ p.pub[1].done
               /\ p.pub[1].at \notin {"hook", "lastRelease"} => Kept(i, p, r)
               /\ Answer(i) = p.pub[1].reply /\ Task(i) = p.pub[1].actor
               /\ p.pub[1] \in PubRequests(made) /\ 1 \in DOMAIN p.pub
               /\ Fewer(Tickets(r.pub), Tickets(p.pub) \ {1})
               /\ Fewer(Tickets(r.pub), Tickets(p.pub))
               /\ UNCHANGED <<redisVars, commands, stalls>> /\ FaultsOK'
  <1> DEFINE p == proc[i]
             r == Rest(i)
  <1>1. /\ made \in Nat /\ p \in Processes(made) /\ Forgets(p)
        /\ p.up /\ p.pub # <<>> /\ Head(p.pub).done /\ Head(p.pub).at \in at
        /\ UNCHANGED <<redisVars, bounds>>
    BY ProcFacts DEF Resumes, Turn
  <1>2. Answer(i) = Head(p.pub).reply /\ Task(i) = Head(p.pub).actor
        /\ r = [p EXCEPT !.pub = Tail(@)]
    BY DEF Answer, Task, Rest
  <1> HIDE DEF p, r
  <1>3. /\ r \in Processes(made) /\ Pops(p, r) /\ r.sub = p.sub
        /\ r.up = p.up /\ r.live = p.live /\ r.joined = p.joined
        /\ r.finished = p.finished /\ r.owned = p.owned /\ r.hearts = p.hearts
        /\ Head(p.pub) = p.pub[1] /\ p.pub[1] \in PubRequests(made) /\ 1 \in DOMAIN p.pub
    BY <1>1, <1>2, PopTyped
  <1>4. Forgets(r)
    BY <1>1, <1>3 DEF Forgets
  <1>4a. ASSUME p.pub[1].at \notin {"hook", "lastRelease"} PROVE Kept(i, p, r)
    <2>1. Ending(p) => Ending(r)
      BY <1>3, <1>4a, PopFacts
    <2>2. Frame(p, r)
      BY <1>3, <2>1 DEF Frame, Subscribes
    <2> QED
      BY <1>3, <1>4a, <2>2, PopKeeps
  <1>5. Fewer(Tickets(r.pub), Tickets(p.pub) \ {1})
    BY <1>3, PopTickets
  <1>6. Fewer(Tickets(r.pub), Tickets(p.pub))
    <2>1. Fewer(Tickets(p.pub) \ {1}, Tickets(p.pub))
      BY FewerPart
    <2> QED
      BY <1>5, <2>1, FewerThan
  <1>7. FaultsOK' /\ UNCHANGED <<redisVars, commands, stalls>>
    BY <1>1, FaultsKept DEF bounds
  <1> QED
    BY <1>1, <1>2, <1>3, <1>4, <1>4a, <1>5, <1>6, <1>7 DEF p, r

\* A continuation that goes on with another request no claim depends on.
LEMMA PassStep ==
    ASSUME TypeInv, NEW i \in Instances, NEW at, Resumes(i, at), UNCHANGED made,
           at \cap {"hook", "lastRelease"} = {}, NEW to, to \notin {"hook", "release"},
           NEW a, Fits(made, to, a), to \in TicketAts => at \subseteq TicketAts,
           Become(i, Send(Rest(i), to, a))
    PROVE  TypeInv' /\ (Sound => Sound')
  <1> DEFINE p == proc[i]
             r == Rest(i)
             q == Send(r, to, a)
  <1>1. /\ made \in Nat /\ p \in Processes(made) /\ Forgets(p)
        /\ r \in Processes(made) /\ Forgets(r) /\ r.up /\ Kept(i, p, r)
        /\ p.pub[1].at \in at /\ 1 \in DOMAIN p.pub
        /\ Fewer(Tickets(r.pub), Tickets(p.pub) \ {1})
        /\ Fewer(Tickets(r.pub), Tickets(p.pub))
        /\ UNCHANGED <<redisVars, commands, stalls>> /\ FaultsOK'
    BY ResumeFacts
  <1>2. Become(i, q)
    OBVIOUS
  <1> HIDE DEF p, r
  <1>3. /\ q \in Processes(made) /\ Forgets(q) /\ Adds(r, q, to, a) /\ q.up /\ Follows(i, r, q)
    BY <1>1, Sent
  <1> HIDE DEF q
  <1>5. Fewer(Tickets(q.pub), Tickets(p.pub))
    <2> DEFINE z == Len(r.pub) + 1
    <2>1. /\ Tickets(q.pub) \subseteq Tickets(r.pub) \cup {z}
          /\ to \notin TicketAts => Tickets(q.pub) \subseteq Tickets(r.pub)
      BY <1>3, AddTickets
    <2>2. CASE to \notin TicketAts
      <3>1. Fewer(Tickets(q.pub), Tickets(r.pub))
        BY <2>1, <2>2, FewerPart
      <3> QED
        BY <1>1, <3>1, FewerThan
    <2>3. CASE to \in TicketAts
      <3>1. 1 \in Tickets(p.pub)
        BY <1>1, <2>3 DEF Tickets
      <3>2. Fewer(Tickets(r.pub) \cup {z}, Tickets(p.pub))
        BY <1>1, <3>1, FewerSwap
      <3>3. Fewer(Tickets(q.pub), Tickets(r.pub) \cup {z})
        BY <2>1, FewerPart
      <3> QED
        BY <3>2, <3>3, FewerThan
    <2> QED
      BY <2>2, <2>3
  <1>6. Kept(i, p, q)
    BY <1>1, <1>3, KeptThrough
  <1> QED
    BY <1>1, <1>2, <1>3, <1>5, <1>6, OwnStep DEF p

\* A continuation that ends its task, and may tell the gateway or a client so.
LEMMA EndStep ==
    ASSUME TypeInv, NEW i \in Instances, NEW at, Resumes(i, at), UNCHANGED made,
           at \cap {"hook", "lastRelease"} = {}, NEW q \in Processes(made), Forgets(q),
           Frame(Rest(i), q), q.pub = Rest(i).pub, Become(i, q)
    PROVE  TypeInv' /\ (Sound => Sound')
  <1> DEFINE p == proc[i]
             r == Rest(i)
  <1>1. /\ r \in Processes(made) /\ r.up /\ Kept(i, p, r)
        /\ Fewer(Tickets(r.pub), Tickets(p.pub))
        /\ UNCHANGED <<redisVars, commands, stalls>> /\ FaultsOK'
    BY ResumeFacts
  <1>2. Frame(r, q) /\ q.pub = r.pub
    OBVIOUS
  <1> HIDE DEF p, r
  <1>3. Follows(i, r, q) /\ q.up
    BY <1>1, <1>2, AgreeKeeps DEF Frame
  <1>4. Kept(i, p, q) /\ Fewer(Tickets(q.pub), Tickets(p.pub))
    BY <1>1, <1>2, <1>3, KeptThrough
  <1> QED
    BY <1>1, <1>3, <1>4, OwnStep DEF p

LEMMA ProxiedFacts ==
    ASSUME NEW n \in Nat, NEW p \in Processes(n), Forgets(p), NEW q,
           \/ q = p \/ q = [p EXCEPT !.remote = TRUE] \/ q = [p EXCEPT !.remote = FALSE]
           \/ q = [p EXCEPT !.refused = TRUE] \/ q = [p EXCEPT !.joined = FALSE]
    PROVE  q \in Processes(n) /\ Forgets(q) /\ Frame(p, q) /\ q.pub = p.pub
  BY DEF Processes, Forgets, Frame, Subscribes, Ending

LEMMA LookedUpStep ==
    ASSUME TypeInv, NEW i \in Instances, LookedUp(i)
    PROVE  TypeInv' /\ (Sound => Sound')
  <1>0. /\ Resumes(i, {"lookup"}) /\ UNCHANGED made
        /\ {"lookup"} \cap {"hook", "lastRelease"} = {} /\ {"lookup"} \subseteq TicketAts
        /\ Fits(made, "getMeta", None)
    BY DEF LookedUp, TicketAts, Fits, ForNone
  <1>1. CASE Become(i, Send(Rest(i), "getMeta", None))
    BY <1>0, <1>1, PassStep
  <1>2. CASE Become(i, Proxied(Rest(i)))
    <2>1. made \in Nat /\ Rest(i) \in Processes(made) /\ Forgets(Rest(i))
      BY <1>0, ResumeFacts
    <2>2. PICK q : q = Proxied(Rest(i)) /\ q = [Rest(i) EXCEPT !.remote = TRUE]
      BY DEF Proxied
    <2>3. q \in Processes(made) /\ Forgets(q) /\ Frame(Rest(i), q) /\ q.pub = Rest(i).pub
      BY <2>1, <2>2, ProxiedFacts
    <2> QED
      BY <1>0, <1>2, <2>2, <2>3, EndStep
  <1> QED
    BY <1>1, <1>2 DEF LookedUp

LEMMA GotMetaStep ==
    ASSUME TypeInv, NEW i \in Instances, GotMeta(i)
    PROVE  TypeInv' /\ (Sound => Sound')
  <1>0. /\ Resumes(i, {"getMeta"}) /\ UNCHANGED made
        /\ {"getMeta"} \cap {"hook", "lastRelease"} = {} /\ {"getMeta"} \subseteq TicketAts
        /\ Fits(made, "reclaim", None) /\ Fits(made, "autoclaim", None)
    BY DEF GotMeta, TicketAts, Fits, ForNone
  <1>1. CASE Become(i, Send(Rest(i), "reclaim", None))
    BY <1>0, <1>1, PassStep
  <1>2. CASE Become(i, Send(Rest(i), "autoclaim", None))
    BY <1>0, <1>2, PassStep
  <1>3. CASE Become(i, Rest(i))
    <2>1. made \in Nat /\ Rest(i) \in Processes(made) /\ Forgets(Rest(i))
      BY <1>0, ResumeFacts
    <2>2. PICK q : q = Rest(i)
      OBVIOUS
    <2>3. q \in Processes(made) /\ Forgets(q) /\ Frame(Rest(i), q) /\ q.pub = Rest(i).pub
      BY <2>1, <2>2, ProxiedFacts
    <2> QED
      BY <1>0, <1>3, <2>2, <2>3, EndStep
  <1> QED
    BY <1>1, <1>2, <1>3 DEF GotMeta

LEMMA FoundWinnerStep ==
    ASSUME TypeInv, NEW i \in Instances, FoundWinner(i)
    PROVE  TypeInv' /\ (Sound => Sound')
  <1>0. /\ Resumes(i, {"winner"}) /\ UNCHANGED made
        /\ {"winner"} \cap {"hook", "lastRelease"} = {}
    BY DEF FoundWinner
  <1>1. made \in Nat /\ Rest(i) \in Processes(made) /\ Forgets(Rest(i))
    BY <1>0, ResumeFacts
  <1>2. PICK q : /\ Become(i, q)
                 /\ q = Rest(i) \/ q = [Rest(i) EXCEPT !.remote = TRUE]
    BY DEF FoundWinner, Proxied
  <1>3. q \in Processes(made) /\ Forgets(q) /\ Frame(Rest(i), q) /\ q.pub = Rest(i).pub
    BY <1>1, <1>2, ProxiedFacts
  <1> QED
    BY <1>0, <1>2, <1>3, EndStep

LEMMA OnLocalCreatedKeeps ==
    ASSUME NEW n \in Nat, NEW p \in Processes(n), Forgets(p), p.up, NEW a \in 0..n,
           NEW at \in {"own", "made"}
    PROVE  LET q == OnLocalCreated(p, a, at)
           IN  /\ q \in Processes(n) /\ Forgets(q) /\ q.up /\ Tickets(q.pub) \subseteq Tickets(p.pub)
               /\ \A i : Follows(i, p, q)
  <1> DEFINE s == Send(p, at, a)
             q == OnLocalCreated(p, a, at)
  <1>1. Fits(n, at, a) /\ at \notin TicketAts /\ at \notin {"hook", "release"}
    BY DEF Fits, ForActor, Claims, TicketAts
  <1>2. /\ s \in Processes(n) /\ Forgets(s) /\ s.up /\ Tickets(s.pub) \subseteq Tickets(p.pub)
        /\ \A i : Follows(i, p, s)
    BY <1>1, Sent
  <1>3. q = p \/ q = s
    BY DEF OnLocalCreated
  <1>4. \A i : Follows(i, p, p)
    BY DEF Follows, Kept
  <1> HIDE DEF q, s
  <1> QED
    BY <1>2, <1>3, <1>4 DEF q

LEMMA ServeAndJoinKeeps ==
    ASSUME NEW n \in Nat, NEW p \in Processes(n), Forgets(p), p.up, NEW a \in 0..n
    PROVE  LET q == ServeAndJoin(p, a)
           IN  /\ q \in Processes(n) /\ Forgets(q) /\ q.up /\ Tickets(q.pub) \subseteq Tickets(p.pub)
               /\ \A i : Follows(i, p, q)
  <1> DEFINE s == OnLocalCreated(p, a, "own")
             t == Joined(p, a)
             q == ServeAndJoin(p, a)
  <1>1. a # None
    BY ClusterAssumption
  <1>2. /\ s \in Processes(n) /\ Forgets(s) /\ s.up /\ Tickets(s.pub) \subseteq Tickets(p.pub)
        /\ \A i : Follows(i, p, s)
    BY OnLocalCreatedKeeps
  <1>3. /\ t \in Processes(n) /\ Forgets(t) /\ t.up /\ t.pub = p.pub
        /\ \A i : Follows(i, p, t)
    BY <1>1, JoinedKeeps
  <1>4. q = s \/ q = t
    BY DEF ServeAndJoin
  <1> HIDE DEF q, s, t
  <1> QED
    BY <1>2, <1>3, <1>4 DEF q

\* A continuation that makes an actor.
LEMMA MakeStep ==
    ASSUME TypeInv, NEW i \in Instances, NEW at, Resumes(i, at), at \subseteq TicketAts,
           made' = made + 1, NEW q \in Processes(made + 1), Forgets(q), q.up,
           Tickets(q.pub) \subseteq Tickets(Rest(i).pub), Become(i, q), Follows(i, Rest(i), q)
    PROVE  TypeInv' /\ (Sound => Sound')
  <1> DEFINE p == proc[i]
             r == Rest(i)
  <1>0. at \cap {"hook", "lastRelease"} = {}
    BY DEF TicketAts
  <1>1. /\ p.pub[1].at \in at /\ 1 \in DOMAIN p.pub /\ made \in Nat
        /\ Fewer(Tickets(r.pub), Tickets(p.pub) \ {1})
        /\ UNCHANGED <<redisVars, commands, stalls>> /\ FaultsOK'
        /\ Kept(i, p, r)
    BY <1>0, ResumeFacts
  <1>2. /\ lease' = lease /\ lease' \in Instances \cup {None} /\ meta' \in BOOLEAN
        /\ commands' = commands /\ commands \in Nat /\ commands <= MaxCommands
    BY <1>1, TypeFacts DEF TypeInv, redisVars
  <1>3. 1 \in Tickets(p.pub)
    BY <1>1 DEF Tickets
  <1>4. Fewer(Tickets(q.pub), Tickets(p.pub) \ {1})
    <2>1. Fewer(Tickets(q.pub), Tickets(r.pub))
      BY FewerPart
    <2> QED
      BY <1>1, <2>1, FewerThan
  <1>5. /\ made + 1 <= commands
        /\ Fewer(AllTickets([proc EXCEPT ![i] = q]), 1..(commands - (made + 1)))
    BY <1>3, <1>4, TicketSpent
  <1>6. commands' \in 0..MaxCommands
    BY <1>2, ClusterAssumption
  <1>7. TypeInv'
    BY <1>1, <1>2, <1>5, <1>6, TypedStep
  <1>8. Kept(i, p, q)
    BY <1>1, KeptThrough
  <1>9. Sound => Sound'
    BY <1>1, <1>2, <1>8, SoundStep
  <1> QED
    BY <1>7, <1>9

LEMMA ReclaimedStep ==
    ASSUME TypeInv, NEW i \in Instances, Reclaimed(i)
    PROVE  TypeInv' /\ (Sound => Sound')
  <1> DEFINE at == {"reclaim", "autoclaim"}
             r == Rest(i)
             a == made + 1
             c == Created(r, a)
  <1>0. /\ Resumes(i, at) /\ at \cap {"hook", "lastRelease"} = {} /\ at \subseteq TicketAts
        /\ "winner" \notin TicketAts /\ "winner" \notin {"hook", "release"}
        /\ Fits(made, "winner", None)
    BY DEF Reclaimed, TicketAts, Fits, ForNone, Lookups
  <1>1. made \in Nat /\ r \in Processes(made) /\ Forgets(r) /\ r.up /\ r.live = proc[i].live
    BY <1>0, ResumeFacts
  <1>2. CASE Become(i, Send(Rest(i), "winner", None)) /\ made' = made
    BY <1>0, <1>2, PassStep
  <1>3. CASE Become(i, [Rest(i) EXCEPT !.refused = TRUE]) /\ made' = made
    <2>1. PICK q : q = [Rest(i) EXCEPT !.refused = TRUE]
      OBVIOUS
    <2>2. q \in Processes(made) /\ Forgets(q) /\ Frame(Rest(i), q) /\ q.pub = Rest(i).pub
      BY <1>1, <2>1, ProxiedFacts
    <2> QED
      BY <1>0, <1>3, <2>1, <2>2, EndStep
  <1> HIDE DEF r, at
  <1>4. ASSUME r.live = None
        PROVE  /\ c \in Processes(a) /\ Forgets(c) /\ Tickets(c.pub) \subseteq Tickets(r.pub)
               /\ c.up /\ a \in Nat /\ a \in 0..a /\ \A j : Follows(j, r, c)
    BY <1>1, <1>4, CreatedKeeps
  <1> HIDE DEF c
  <1>5. CASE r.live = None /\ made' = made + 1 /\ Become(i, ServeAndJoin(c, a))
    <2> DEFINE q == ServeAndJoin(c, a)
    <2>0. Become(i, q) /\ made' = a
      BY <1>5
    <2> HIDE DEF a
    <2>1. /\ q \in Processes(a) /\ Forgets(q) /\ q.up /\ Tickets(q.pub) \subseteq Tickets(c.pub)
          /\ Follows(i, c, q)
      BY <1>4, <1>5, ServeAndJoinKeeps
    <2> HIDE DEF q
    <2>2. Follows(i, r, q) /\ Tickets(q.pub) \subseteq Tickets(r.pub)
      BY <1>4, <1>5, <2>1, KeptThrough DEF Follows
    <2> QED
      BY <1>0, <1>5, <2>0, <2>1, <2>2, MakeStep DEF r, a
  <1>6. CASE r.live = None /\ made' = made + 1 /\ Become(i, Send(c, "putMeta", a))
    <2> DEFINE q == Send(c, "putMeta", a)
    <2>0. Become(i, q) /\ made' = a
      BY <1>6
    <2> HIDE DEF a
    <2>1. "putMeta" \notin TicketAts /\ Fits(a, "putMeta", a) /\ "putMeta" \notin {"hook", "release"}
      BY <1>4, <1>6 DEF TicketAts, Fits, ForActor
    <2>2. /\ q \in Processes(a) /\ Forgets(q) /\ q.up /\ Tickets(q.pub) \subseteq Tickets(c.pub)
          /\ Follows(i, c, q)
      BY <1>4, <1>6, <2>1, Sent
    <2> HIDE DEF q
    <2>3. Follows(i, r, q) /\ Tickets(q.pub) \subseteq Tickets(r.pub)
      BY <1>4, <1>6, <2>2, KeptThrough DEF Follows
    <2> QED
      BY <1>0, <1>6, <2>0, <2>2, <2>3, MakeStep DEF r, a
  <1> QED
    BY <1>1, <1>2, <1>3, <1>5, <1>6 DEF Reclaimed, BecomeMade, Fresh, c, r, a

\* A continuation in general, and the actor of its task.
LEMMA TurnStep ==
    ASSUME TypeInv, NEW i \in Instances, NEW at, Resumes(i, at), UNCHANGED made,
           NEW q \in Processes(made), Forgets(q), Tickets(q.pub) \subseteq Tickets(Rest(i).pub),
           Become(i, q), q.up, Kept(i, proc[i], q)
    PROVE  TypeInv' /\ (Sound => Sound')
  <1>1. /\ Fewer(Tickets(Rest(i).pub), Tickets(proc[i].pub))
        /\ UNCHANGED <<redisVars, commands, stalls>> /\ FaultsOK'
    BY ResumeFacts
  <1>2. Fewer(Tickets(q.pub), Tickets(proc[i].pub))
    <2>1. Fewer(Tickets(q.pub), Tickets(Rest(i).pub))
      BY FewerPart
    <2> QED
      BY <1>1, <2>1, FewerThan
  <1> QED
    BY <1>1, <1>2, OwnStep

LEMMA TaskFacts ==
    ASSUME TypeInv, NEW i \in Instances, NEW at, Resumes(i, at), at \subseteq ForActor
    PROVE  Task(i) \in 0..made /\ Task(i) # None /\ Task(i) = proc[i].pub[1].actor
  <1>1. /\ made \in Nat /\ proc[i].pub[1].at \in at /\ proc[i].pub[1] \in PubRequests(made)
        /\ Task(i) = proc[i].pub[1].actor
    BY ResumeFacts
  <1>2. Fits(made, proc[i].pub[1].at, proc[i].pub[1].actor)
    BY <1>1, RequestFields
  <1>3. ForActor \cap ForNone = {}
    BY DEF ForActor, ForNone, Claims, Lookups, Releases
  <1> QED
    BY <1>1, <1>2, <1>3, ClusterAssumption DEF Fits

LEMMA MetaStoredStep ==
    ASSUME TypeInv, NEW i \in Instances, MetaStored(i) \/ CreateMetaStored(i)
    PROVE  TypeInv' /\ (Sound => Sound')
  <1> DEFINE r == Rest(i)
             a == Task(i)
  <1>0. PICK at : /\ at \in {{"putMeta"}, {"createMeta"}} /\ Resumes(i, at) /\ UNCHANGED made
                  /\ Become(i, ServeAndJoin(r, a)) \/ Become(i, OnLocalCreated(r, a, "made"))
    BY DEF MetaStored, CreateMetaStored
  <1>1. at \subseteq ForActor /\ at \cap {"hook", "lastRelease"} = {}
    BY <1>0 DEF ForActor
  <1>2. made \in Nat /\ r \in Processes(made) /\ Forgets(r) /\ r.up /\ Kept(i, proc[i], r)
    BY <1>0, <1>1, ResumeFacts
  <1>3. a \in 0..made
    BY <1>0, <1>1, TaskFacts
  <1> HIDE DEF r, a
  <1>4. PICK q : /\ q \in Processes(made) /\ Forgets(q) /\ q.up /\ Tickets(q.pub) \subseteq Tickets(r.pub)
                 /\ Follows(i, r, q) /\ Become(i, q)
    <2>1. CASE Become(i, ServeAndJoin(r, a))
      BY <1>2, <1>3, <2>1, ServeAndJoinKeeps
    <2>2. CASE Become(i, OnLocalCreated(r, a, "made"))
      BY <1>2, <1>3, <2>2, OnLocalCreatedKeeps
    <2> QED
      BY <1>0, <2>1, <2>2 DEF r, a
  <1>5. Kept(i, proc[i], q)
    BY <1>2, <1>4, KeptThrough
  <1> QED
    BY <1>0, <1>4, <1>5, TurnStep DEF r

\* A claim for an actor has been answered.
LEMMA ClaimedStep ==
    ASSUME TypeInv, NEW i \in Instances, Claimed(i)
    PROVE  TypeInv' /\ (Sound => Sound')
  <1> DEFINE at == {"hook", "own", "made"}
             p == proc[i]
             r == Rest(i)
             a == Task(i)
             m == IF Answer(i) = i THEN TakeOwnership(r, a) ELSE Disposed(r)
             q == IF Head(p.pub).at = "own" THEN Joined(m, a) ELSE m
  <1>0. Resumes(i, at) /\ at \subseteq ForActor /\ UNCHANGED made /\ Become(i, q)
    BY DEF Claimed, ForActor, Claims
  <1>1. /\ made \in Nat /\ p \in Processes(made)
        /\ r \in Processes(made) /\ Forgets(r) /\ Pops(p, r) /\ r.up
        /\ r.up = p.up /\ r.live = p.live /\ r.hearts = p.hearts /\ r.owned = p.owned
        /\ r.sub = p.sub
        /\ p.pub[1].at \in at /\ p.pub[1].done /\ Answer(i) = p.pub[1].reply
    BY <1>0, ResumeFacts
  <1>2. a \in 0..made /\ a # None /\ a = p.pub[1].actor
    BY <1>0, TaskFacts
  <1> HIDE DEF p, r, a
  <1>3. ASSUME Answer(i) = i
        PROVE  /\ m \in Processes(made) /\ Forgets(m) /\ m.up /\ Tickets(m.pub) \subseteq Tickets(r.pub)
               /\ Kept(i, p, m)
    <2>0. m = TakeOwnership(r, a)
      BY <1>3
    <2> HIDE DEF m
    <2>1. /\ m \in Processes(made) /\ m.pub = r.pub /\ m.up = r.up /\ m.live = r.live
          /\ m.joined = r.joined /\ m.finished = r.finished /\ m.hearts = r.hearts
          /\ r.owned # None => m = r
          /\ r.owned = None =>
               /\ m.owned # None /\ ~m.owned.serving /\ m.owned.actor = a
               /\ AddsSub(r, m, "subscribed", a)
      <3>1. made \in Nat /\ r \in Processes(made) /\ a \in 0..made
        BY <1>1, <1>2
      <3> QED
        BY <2>0, <3>1, TakeOwnershipFacts, ZenonT(30)
    <2>2. Pops(p, m) /\ (p.owned = None => AddsSub(p, m, "subscribed", a))
      BY <1>1, <2>1 DEF Pops, AddsSub
    <2>3. Forgets(m)
      BY <1>1, <2>1 DEF Forgets
    <2>4. Kept(i, p, m)
      BY <1>1, <1>2, <1>3, <2>1, <2>2, ClaimWins
    <2> QED
      BY <1>1, <2>1, <2>3, <2>4
  <1>4. ASSUME Answer(i) # i
        PROVE  /\ m \in Processes(made) /\ Forgets(m) /\ m.up /\ Tickets(m.pub) \subseteq Tickets(r.pub)
               /\ Kept(i, p, m)
    <2>0. m = Disposed(r)
      BY <1>4
    <2> HIDE DEF m
    <2>1. /\ m \in Processes(made) /\ Forgets(m) /\ m.pub = r.pub /\ m.up = r.up
          /\ (r.live = None => m = r)
          /\ r.live # None => /\ Behind(r) => Behind(m)
                              /\ Beats(r) => Overtaken(m) \/ Orderly(m)
                              /\ \A j, l : Leased(m, j, l)
      BY <1>1, <2>0, DisposedKeeps
    <2>2. Kept(i, p, m)
      BY <1>1, <1>2, <2>1, ClaimLoses
    <2> QED
      BY <1>1, <2>1, <2>2
  <1>5. /\ m \in Processes(made) /\ Forgets(m) /\ m.up /\ Tickets(m.pub) \subseteq Tickets(r.pub)
        /\ Kept(i, p, m)
    BY <1>3, <1>4
  <1> HIDE DEF m
  <1>6. /\ q \in Processes(made) /\ Forgets(q) /\ q.up /\ Tickets(q.pub) \subseteq Tickets(r.pub)
        /\ Kept(i, p, q)
    <2>1. CASE Head(p.pub).at = "own"
      <3>1. q = Joined(m, a)
        BY <2>1
      <3> HIDE DEF q
      <3>2. q \in Processes(made) /\ Forgets(q) /\ q.pub = m.pub /\ q.up = m.up /\ Follows(i, m, q)
        BY <1>1, <1>2, <1>5, <3>1, JoinedKeeps
      <3> QED
        BY <1>5, <3>2, KeptThrough
    <2>2. CASE Head(p.pub).at # "own"
      <3>1. q = m
        BY <2>2
      <3> HIDE DEF q
      <3> QED
        BY <1>5, <3>1
    <2> QED
      BY <2>1, <2>2
  <1> HIDE DEF q
  <1> QED
    BY <1>0, <1>6, TurnStep DEF p, r

LEMMA FoundFreeStep ==
    ASSUME TypeInv, NEW i \in Instances, FoundFree(i)
    PROVE  TypeInv' /\ (Sound => Sound')
  <1> DEFINE at == {"checkFree"}
             r == Rest(i)
             a == made + 1
             c == Created(r, a)
             q == Send(c, "createClaim", a)
  <1>0. Resumes(i, at) /\ at \cap {"hook", "lastRelease"} = {} /\ at \subseteq TicketAts
    BY DEF FoundFree, TicketAts
  <1>1. made \in Nat /\ r \in Processes(made) /\ Forgets(r) /\ r.up /\ r.live = proc[i].live
    BY <1>0, ResumeFacts
  <1>2. CASE Become(i, Rest(i)) /\ made' = made
    <2>1. PICK s : s = Rest(i)
      OBVIOUS
    <2>2. s \in Processes(made) /\ Forgets(s) /\ Frame(Rest(i), s) /\ s.pub = Rest(i).pub
      BY <1>1, <2>1, ProxiedFacts
    <2> QED
      BY <1>0, <1>2, <2>1, <2>2, EndStep
  <1>3. CASE proc[i].live = None /\ BecomeMade(i, Send(Created(Rest(i), Fresh), "createClaim", Fresh))
    <2>0. Become(i, q) /\ made' = a /\ made' = made + 1
      BY <1>3 DEF BecomeMade, Fresh
    <2> HIDE DEF r, at
    <2>1. /\ c \in Processes(a) /\ Forgets(c) /\ Tickets(c.pub) \subseteq Tickets(r.pub)
          /\ c.up /\ a \in Nat /\ a \in 0..a /\ Follows(i, r, c)
      BY <1>1, <1>3, CreatedKeeps
    <2> HIDE DEF a, c
    <2>2. /\ "createClaim" \notin TicketAts /\ Fits(a, "createClaim", a)
          /\ "createClaim" \notin {"hook", "release"}
      BY <2>1 DEF TicketAts, Fits, ForActor, Claims
    <2>3. /\ q \in Processes(a) /\ Forgets(q) /\ q.up /\ Tickets(q.pub) \subseteq Tickets(c.pub)
          /\ Follows(i, c, q)
      BY <2>1, <2>2, Sent
    <2> HIDE DEF q
    <2>4. Follows(i, r, q) /\ Tickets(q.pub) \subseteq Tickets(r.pub)
      BY <2>1, <2>3, KeptThrough DEF Follows
    <2> QED
      BY <1>0, <2>0, <2>3, <2>4, MakeStep DEF r, a
  <1> QED
    BY <1>2, <1>3 DEF FoundFree

LEMMA CreateClaimedStep ==
    ASSUME TypeInv, NEW i \in Instances, CreateClaimed(i)
    PROVE  TypeInv' /\ (Sound => Sound')
  <1> DEFINE at == {"createClaim"}
             r == Rest(i)
             q == Disposed(r)
  <1>0. /\ Resumes(i, at) /\ at \cap {"hook", "lastRelease"} = {} /\ at \subseteq ForActor
        /\ UNCHANGED made /\ "createMeta" \notin TicketAts /\ "createMeta" \notin {"hook", "release"}
    BY DEF CreateClaimed, TicketAts, ForActor, Claims
  <1>1. made \in Nat /\ r \in Processes(made) /\ Forgets(r) /\ r.up /\ Kept(i, proc[i], r)
    BY <1>0, ResumeFacts
  <1>2. CASE Become(i, Send(Rest(i), "createMeta", Task(i)))
    <2>1. Fits(made, "createMeta", Task(i))
      BY <1>0, TaskFacts DEF Fits, ForActor
    <2> QED
      BY <1>0, <1>2, <2>1, PassStep
  <1>3. CASE Become(i, q)
    <2> HIDE DEF r
    <2>1. q \in Processes(made) /\ Forgets(q) /\ q.pub = r.pub /\ q.up /\ Follows(i, r, q)
      BY <1>1, DisposedKeeps
    <2> HIDE DEF q
    <2>2. Kept(i, proc[i], q) /\ Tickets(q.pub) \subseteq Tickets(r.pub)
      BY <1>1, <2>1, KeptThrough
    <2> QED
      BY <1>0, <1>3, <2>1, <2>2, TurnStep DEF r
  <1> QED
    BY <1>2, <1>3 DEF CreateClaimed

\* A heartbeat that stops, before the actor is disposed.
LEMMA StoppedHeart ==
    ASSUME NEW n \in Nat, NEW p \in Processes(n), Forgets(p), NEW a, p.live # None
    PROVE  LET m == [p EXCEPT !.hearts = @ \ {a}]
               q == Disposed(m)
           IN  /\ q \in Processes(n) /\ Forgets(q) /\ q.up = p.up /\ q.pub = p.pub
               /\ \A i : Follows(i, p, q)
  <1> DEFINE m == [p EXCEPT !.hearts = @ \ {a}]
             q == Disposed(m)
  <1>1. /\ m \in Processes(n) /\ Forgets(m) /\ m.pub = p.pub /\ m.up = p.up /\ m.live = p.live
        /\ m.sub = p.sub /\ m.owned = p.owned /\ m.hearts \subseteq p.hearts
    BY DEF Processes, Forgets
  <1> HIDE DEF m
  <1>2. /\ q \in Processes(n) /\ Forgets(q) /\ q.pub = m.pub /\ q.up = m.up
        /\ m.live # None => /\ Behind(m) => Behind(q)
                            /\ Beats(m) => Overtaken(q) \/ Orderly(q)
                            /\ \A i, l : Leased(q, i, l)
        /\ \A i : Follows(i, m, q)
    BY <1>1, DisposedKeeps
  <1> HIDE DEF q
  <1>3. Behind(p) => Behind(m)
    BY <1>1 DEF Behind, Subscribes
  <1>4. Orderly(p) => Beats(m)
    BY <1>1 DEF Orderly, OwnedOK, HeartsOK, Beats
  <1>5. Overtaken(p) => Overtaken(m)
    BY <1>1 DEF Overtaken
  <1>6. ASSUME NEW i PROVE Follows(i, p, q)
    BY <1>1, <1>2, <1>3, <1>4, <1>5 DEF Follows, Kept
  <1> QED
    BY <1>1, <1>2, <1>6 DEF q, m

LEMMA RenewedStep ==
    ASSUME TypeInv, NEW i \in Instances, Renewed(i)
    PROVE  TypeInv' /\ (Sound => Sound')
  <1> DEFINE at == {"renew"}
             r == Rest(i)
             q == Disposed([r EXCEPT !.hearts = @ \ {Task(i)}])
  <1>0. /\ Resumes(i, at) /\ at \cap {"hook", "lastRelease"} = {} /\ at \subseteq ForActor
        /\ UNCHANGED made
    BY DEF Renewed, ForActor
  <1>1. /\ made \in Nat /\ r \in Processes(made) /\ Forgets(r) /\ r.up /\ r.live = proc[i].live
        /\ Kept(i, proc[i], r)
    BY <1>0, ResumeFacts
  <1>2. CASE Become(i, Rest(i))
    <2>1. PICK s : s = Rest(i)
      OBVIOUS
    <2>2. s \in Processes(made) /\ Forgets(s) /\ Frame(Rest(i), s) /\ s.pub = Rest(i).pub
      BY <1>1, <2>1, ProxiedFacts
    <2> QED
      BY <1>0, <1>2, <2>1, <2>2, EndStep
  <1>3. CASE Become(i, q) /\ proc[i].live = Task(i)
    <2>0. r.live # None
      BY <1>0, <1>1, <1>3, TaskFacts
    <2> HIDE DEF r
    <2>1. q \in Processes(made) /\ Forgets(q) /\ q.up /\ q.pub = r.pub /\ Follows(i, r, q)
      BY <1>1, <2>0, StoppedHeart
    <2> HIDE DEF q
    <2>2. Kept(i, proc[i], q) /\ Tickets(q.pub) \subseteq Tickets(r.pub)
      BY <1>1, <2>1, KeptThrough
    <2> QED
      BY <1>0, <1>3, <2>1, <2>2, TurnStep DEF r
  <1> QED
    BY <1>2, <1>3 DEF Renewed

LEMMA ReleasedStep ==
    ASSUME TypeInv, NEW i \in Instances, Released(i)
    PROVE  TypeInv' /\ (Sound => Sound')
  <1>0. /\ Resumes(i, {"release"}) /\ {"release"} \cap {"hook", "lastRelease"} = {}
        /\ UNCHANGED made
    BY DEF Released
  <1>1. made \in Nat /\ Rest(i) \in Processes(made) /\ Forgets(Rest(i))
    BY <1>0, ResumeFacts
  <1>2. PICK q : q = Rest(i) /\ Become(i, q)
    BY DEF Released
  <1>3. q \in Processes(made) /\ Forgets(q) /\ Frame(Rest(i), q) /\ q.pub = Rest(i).pub
    BY <1>1, <1>2, ProxiedFacts
  <1> QED
    BY <1>0, <1>2, <1>3, EndStep


\* A process goes, or comes up.
LEMMA EmptyTyped ==
    ASSUME NEW n \in Nat, NEW q, q = Down \/ q = Booted
    PROVE  /\ q \in Processes(n) /\ Forgets(q) /\ Tickets(q.pub) = {}
           /\ q.live = None /\ ~q.joined /\ ~q.finished /\ q.owned = None
           /\ q.hearts = {} /\ q.pub = <<>> /\ DOMAIN q.pub = {} /\ DOMAIN q.sub = {}
  <1>0. <<>> \in Seq(PubRequests(n)) /\ <<>> \in Seq(SubRequests(n))
    OBVIOUS
  <1>1. /\ Booted \in Processes(n) /\ Booted.live = None /\ ~Booted.joined /\ ~Booted.finished
        /\ Booted.owned = None /\ Booted.hearts = {} /\ Booted.pub = <<>> /\ Booted.sub = <<>>
    BY <1>0 DEF Booted, Processes
  <1>2. /\ Down \in Processes(n) /\ Down.live = None /\ ~Down.joined /\ ~Down.finished
        /\ Down.owned = None /\ Down.hearts = {} /\ Down.pub = <<>> /\ Down.sub = <<>>
    BY <1>1 DEF Down, Processes
  <1>3. /\ q \in Processes(n) /\ q.live = None /\ ~q.joined /\ ~q.finished /\ q.owned = None
        /\ q.hearts = {} /\ q.pub = <<>> /\ q.sub = <<>>
    BY <1>1, <1>2
  <1>4. DOMAIN q.pub = {} /\ DOMAIN q.sub = {}
    BY <1>3
  <1> QED
    BY <1>3, <1>4 DEF Forgets, Tickets

LEMMA EmptyStep ==
    ASSUME TypeInv, NEW i \in Instances, NEW q \in {Down, Booted}, Become(i, q),
           UNCHANGED <<redisVars, made, commands, stalls>>, FaultsOK'
    PROVE  TypeInv' /\ (Sound => Sound')
  <1>1. made \in Nat
    BY ProcFacts
  <1>2. /\ q \in Processes(made) /\ Forgets(q) /\ Tickets(q.pub) = {}
    BY <1>1, EmptyTyped
  <1>3. Fewer(Tickets(q.pub), Tickets(proc[i].pub))
    BY <1>2, FewerPart
  <1>4. Orderly(q) /\ Behind(q) /\ \A l : Leased(q, i, l)
    BY EmptySound
  <1>5. Kept(i, proc[i], q)
    BY <1>4 DEF Kept
  <1> QED
    BY <1>2, <1>3, <1>4, <1>5, OwnStep

\* One more fault.
LEMMA FaultMore ==
    ASSUME TypeInv, Faulty,
           \/ stalls' = stalls + 1 /\ UNCHANGED <<exits, failures>>
           \/ exits' = exits + 1 /\ UNCHANGED <<stalls, failures>>
           \/ failures' = failures + 1 /\ UNCHANGED <<stalls, exits>>
    PROVE  FaultsOK'
  <1>1. stalls \in Nat /\ exits \in Nat /\ failures \in Nat /\ MaxFaults \in Nat
    BY TypeFacts, ClusterAssumption DEF TypeInv
  <1>2. stalls' \in Nat /\ exits' \in Nat /\ failures' \in Nat
    BY <1>1
  <1>3. stalls' + exits' + failures' <= MaxFaults
    BY <1>1 DEF Faulty
  <1> QED
    BY <1>2, <1>3 DEF FaultsOK

LEMMA ExitsStep ==
    ASSUME TypeInv, NEW i \in Instances, Exits(i)
    PROVE  TypeInv' /\ (Sound => Sound')
  <1>1. Resumes(i, {"lastRelease"}) /\ UNCHANGED made /\ Become(i, Down)
    BY DEF Exits
  <1>2. UNCHANGED <<redisVars, commands, stalls>> /\ FaultsOK'
    BY <1>1, ResumeFacts
  <1> QED
    BY <1>1, <1>2, EmptyStep

LEMMA CrashOrBootStep ==
    ASSUME TypeInv, NEW i \in Instances, Crash(i) \/ Boot(i)
    PROVE  TypeInv' /\ (Sound => Sound')
  <1>1. CASE Crash(i)
    <2>1. Become(i, Down) /\ UNCHANGED <<redisVars, made, commands, stalls>>
      BY <1>1 DEF Crash
    <2>2. FaultsOK'
      BY <1>1, FaultMore DEF Crash
    <2> QED
      BY <2>1, <2>2, EmptyStep
  <1>2. CASE Boot(i)
    <2>1. Become(i, Booted) /\ UNCHANGED <<redisVars, made, commands, stalls>>
      BY <1>2 DEF Boot, bounds
    <2>2. FaultsOK'
      BY <1>2, FaultsKept DEF Boot, bounds
    <2> QED
      BY <2>1, <2>2, EmptyStep
  <1> QED
    BY <1>1, <1>2

LEMMA HappensFacts ==
    ASSUME TypeInv, NEW i \in Instances, Happens(i)
    PROVE  /\ made \in Nat /\ proc[i] \in Processes(made) /\ Forgets(proc[i]) /\ proc[i].up
           /\ UNCHANGED <<redisVars, made, commands, stalls>> /\ FaultsOK'
  BY ProcFacts, FaultsKept DEF Happens, Turn, bounds

\* What leaves the pipeline of commands, and so the tickets, as it is.
LEMMA CalmStep ==
    ASSUME TypeInv, NEW i \in Instances, NEW q \in Processes(made), Forgets(q), q.up,
           q.pub = proc[i].pub, Become(i, q), Follows(i, proc[i], q),
           UNCHANGED <<redisVars, made, commands, stalls>>, FaultsOK'
    PROVE  TypeInv' /\ (Sound => Sound')
  <1>1. Fewer(Tickets(q.pub), Tickets(proc[i].pub))
    BY FewerPart
  <1>2. Kept(i, proc[i], q)
    BY DEF Follows
  <1> QED
    BY <1>1, <1>2, OwnStep

LEMMA HeartbeatStep ==
    ASSUME TypeInv, NEW i \in Instances, Heartbeat(i)
    PROVE  TypeInv' /\ (Sound => Sound')
  <1>1. PICK a \in proc[i].hearts : Become(i, Send(proc[i], "renew", a))
    BY DEF Heartbeat
  <1> DEFINE p == proc[i]
             q == Send(p, "renew", a)
  <1>2. /\ made \in Nat /\ p \in Processes(made) /\ Forgets(p) /\ p.up
        /\ UNCHANGED <<redisVars, made, commands, stalls>> /\ FaultsOK'
    BY HappensFacts DEF Heartbeat
  <1>3. a \in p.hearts /\ Become(i, q)
    BY <1>1
  <1> HIDE DEF p
  <1>4. Fits(made, "renew", a) /\ "renew" \notin TicketAts /\ "renew" \notin {"hook", "release"}
    BY <1>2, <1>3, Fields DEF Fits, ForActor, TicketAts
  <1>5. /\ q \in Processes(made) /\ Forgets(q) /\ q.up /\ Tickets(q.pub) \subseteq Tickets(p.pub)
        /\ Follows(i, p, q)
    BY <1>2, <1>4, Sent
  <1> HIDE DEF q
  <1>6. Fewer(Tickets(q.pub), Tickets(p.pub)) /\ Kept(i, p, q)
    BY <1>5, FewerPart DEF Follows
  <1> QED
    BY <1>2, <1>3, <1>5, <1>6, OwnStep DEF p

LEMMA FinishStep ==
    ASSUME TypeInv, NEW i \in Instances, Finish(i)
    PROVE  TypeInv' /\ (Sound => Sound')
  <1> DEFINE p == proc[i]
             q == [p EXCEPT !.finished = TRUE]
  <1>1. /\ made \in Nat /\ p \in Processes(made) /\ Forgets(p) /\ p.up /\ p.joined
        /\ UNCHANGED <<redisVars, made, commands, stalls>> /\ FaultsOK' /\ Become(i, q)
    BY HappensFacts DEF Finish
  <1> HIDE DEF p
  <1>2. /\ q \in Processes(made) /\ Forgets(q) /\ q.up = p.up /\ q.pub = p.pub /\ Frame(p, q)
    BY <1>1 DEF Processes, Forgets, Frame, Subscribes, Ending
  <1> HIDE DEF q
  <1>3. Follows(i, p, q)
    BY <1>2, AgreeKeeps
  <1> QED
    BY <1>1, <1>2, <1>3, CalmStep DEF p

LEMMA LeaveStep ==
    ASSUME TypeInv, NEW i \in Instances, LastLeaves(i) \/ DropRemote(i)
    PROVE  TypeInv' /\ (Sound => Sound')
  <1> DEFINE p == proc[i]
  <1>1. PICK q : /\ Become(i, q)
                 /\ q = [p EXCEPT !.joined = FALSE] \/ q = [p EXCEPT !.remote = FALSE]
    BY DEF LastLeaves, DropRemote
  <1>2. /\ made \in Nat /\ p \in Processes(made) /\ Forgets(p) /\ p.up
        /\ UNCHANGED <<redisVars, made, commands, stalls>> /\ FaultsOK'
    BY HappensFacts DEF LastLeaves, DropRemote
  <1> HIDE DEF p
  <1>3. q \in Processes(made) /\ Forgets(q) /\ Frame(p, q) /\ q.pub = p.pub
    BY <1>1, <1>2, ProxiedFacts
  <1>4. Follows(i, p, q) /\ q.up
    BY <1>2, <1>3, AgreeKeeps, FrameFacts
  <1> QED
    BY <1>1, <1>2, <1>3, <1>4, CalmStep DEF p

LEMMA IdleStep ==
    ASSUME TypeInv, NEW i \in Instances, Idle(i)
    PROVE  TypeInv' /\ (Sound => Sound')
  <1> DEFINE p == proc[i]
             q == Disposed(p)
  <1>1. /\ made \in Nat /\ p \in Processes(made) /\ Forgets(p) /\ p.up
        /\ UNCHANGED <<redisVars, made, commands, stalls>> /\ FaultsOK' /\ Become(i, q)
    BY HappensFacts DEF Idle
  <1> HIDE DEF p
  <1>2. q \in Processes(made) /\ Forgets(q) /\ q.pub = p.pub /\ q.up = p.up /\ Follows(i, p, q)
    BY <1>1, DisposedKeeps
  <1> HIDE DEF q
  <1> QED
    BY <1>1, <1>2, CalmStep DEF p

LEMMA ShutdownStep ==
    ASSUME TypeInv, NEW i \in Instances, Shutdown(i)
    PROVE  TypeInv' /\ (Sound => Sound')
  <1> DEFINE p == proc[i]
             o == p.owned
             q == Stop(p, o, "lastStopped")
  <1>1. /\ made \in Nat /\ p \in Processes(made) /\ Forgets(p) /\ p.up
        /\ UNCHANGED <<redisVars, made, commands, stalls>>
    BY ProcFacts DEF Shutdown, Turn
  <1>2. FaultsOK'
    BY FaultMore DEF Shutdown
  <1>3. CASE Become(i, Down)
    BY <1>1, <1>2, <1>3, EmptyStep
  <1>4. CASE o # None /\ o.serving /\ Become(i, q)
    <2> HIDE DEF p
    <2>1. o \in [actor : 0..made, serving : BOOLEAN] /\ "lastStopped" \in SubAts
      BY <1>1, <1>4, Fields DEF SubAts
    <2> HIDE DEF o
    <2>2. /\ q \in Processes(made) /\ q.pub = p.pub /\ q.up = p.up /\ q.live = p.live
          /\ q.joined = p.joined /\ q.finished = p.finished /\ q.owned = p.owned
          /\ q.hearts = p.hearts \ {o.actor}
          /\ AddsSub(p, q, "lastStopped", o.actor)
      BY <1>1, <1>4, <2>1, StopFacts
    <2> HIDE DEF q
    <2>3. /\ \A b : Subscribes(q, b) <=> Subscribes(p, b)
          /\ Awaits(q.sub, "lastStopped")
          /\ Once(p.sub, "subscribed") => Once(q.sub, "subscribed")
      BY <2>2, AddSubFacts
    <2>4. Frame(p, q)
      BY <2>2, <2>3 DEF Frame, Ending
    <2>5. Follows(i, p, q)
      BY <2>2, <2>4, AgreeKeeps
    <2>6. Forgets(q)
      BY <1>1, <2>2 DEF Forgets
    <2> QED
      BY <1>1, <1>2, <1>4, <2>2, <2>5, <2>6, CalmStep DEF p
  <1> QED
    BY <1>3, <1>4 DEF Shutdown

LEMMA CommandFailsStep ==
    ASSUME TypeInv, NEW i \in Instances, CommandFails(i)
    PROVE  TypeInv' /\ (Sound => Sound')
  <1> DEFINE p == proc[i]
             r == Rest(i)
             h == p.pub[1]
             a == h.actor
             q == Disposed([r EXCEPT !.hearts = @ \ {a}])
  <1>1. /\ made \in Nat /\ p \in Processes(made) /\ Forgets(p) /\ p.up /\ p.pub # <<>>
        /\ UNCHANGED <<redisVars, made, commands, stalls>>
    BY ProcFacts DEF CommandFails, Turn
  <1>2. FaultsOK'
    BY FaultMore DEF CommandFails
  <1>3. r = [p EXCEPT !.pub = Tail(@)] /\ Become(i, Rejected(r, Head(p.pub)))
    BY DEF Rest, CommandFails
  <1> HIDE DEF p, r
  <1>4. /\ r \in Processes(made) /\ Pops(p, r) /\ r.sub = p.sub
        /\ r.up = p.up /\ r.live = p.live /\ r.joined = p.joined
        /\ r.finished = p.finished /\ r.owned = p.owned /\ r.hearts = p.hearts
        /\ Head(p.pub) = h /\ h \in PubRequests(made)
    BY <1>1, <1>3, PopTyped
  <1>5. Forgets(r)
    BY <1>1, <1>4 DEF Forgets
  <1>6. Fewer(Tickets(r.pub), Tickets(p.pub))
    <2>1. Fewer(Tickets(r.pub), Tickets(p.pub) \ {1})
      BY <1>4, PopTickets
    <2>2. Fewer(Tickets(p.pub) \ {1}, Tickets(p.pub))
      BY FewerPart
    <2> QED
      BY <2>1, <2>2, FewerThan
  <1>7. ASSUME h.at \notin {"hook", "lastRelease"} PROVE Kept(i, p, r)
    <2>1. Ending(p) => Ending(r)
      BY <1>4, <1>7, PopFacts
    <2>2. Frame(p, r)
      BY <1>4, <2>1 DEF Frame, Subscribes
    <2> QED
      BY <1>4, <1>7, <2>2, PopKeeps
  <1>8. CASE Become(i, Down)
    BY <1>1, <1>2, <1>8, EmptyStep
  <1>9. CASE Become(i, r) /\ h.at \notin {"hook", "lastRelease"}
    BY <1>1, <1>2, <1>4, <1>5, <1>6, <1>7, <1>9, OwnStep DEF p
  <1>10. CASE Become(i, q) /\ h.at = "renew" /\ r.live = a
    <2>1. a # None
      <3>1. Fits(made, h.at, a)
        BY <1>1, <1>4, RequestFields
      <3> QED
        BY <1>1, <1>10, <3>1, ClusterAssumption DEF Fits, ForNone, Lookups, Releases
    <2>2. Kept(i, p, r)
      BY <1>7, <1>10
    <2> HIDE DEF h, a
    <2>3. q \in Processes(made) /\ Forgets(q) /\ q.up = r.up /\ q.pub = r.pub /\ Follows(i, r, q)
      <3>1. made \in Nat /\ r \in Processes(made) /\ Forgets(r) /\ r.live # None
        BY <1>1, <1>4, <1>5, <1>10, <2>1
      <3> QED
        BY ONLY <3>1, StoppedHeart
    <2> HIDE DEF q
    <2>4. Kept(i, p, q)
      BY <2>2, <2>3, KeptThrough
    <2>5. q.up /\ Fewer(Tickets(q.pub), Tickets(p.pub))
      BY <1>1, <1>4, <1>6, <2>3
    <2> QED
      BY <1>1, <1>2, <1>10, <2>3, <2>4, <2>5, OwnStep DEF p
  <1>11. Become(i, Rejected(r, h))
    BY <1>3, <1>4
  <1>12. \/ Rejected(r, h) = Down
         \/ Rejected(r, h) = r /\ h.at \notin {"hook", "lastRelease"}
         \/ Rejected(r, h) = q /\ h.at = "renew" /\ r.live = a
    BY DEF Rejected
  <1> HIDE DEF q, h, a
  <1> QED
    BY <1>8, <1>9, <1>10, <1>11, <1>12

LEMMA BusResumesStep ==
    ASSUME TypeInv, NEW i \in Instances, BusResumes(i)
    PROVE  TypeInv' /\ (Sound => Sound')
  <1> DEFINE p == proc[i]
             Dropped(k) == [p EXCEPT !.sub = SubSeq(@, 1, k - 1) \o SubSeq(@, k + 1, Len(@))]
             After(k) == CASE p.sub[k].at = "subscribed" -> Served(Dropped(k), p.sub[k])
                           [] p.sub[k].at = "stopped" -> ReleaseIfGone(Dropped(k))
                           [] p.sub[k].at = "lastStopped" -> Send(Dropped(k), "lastRelease", None)
  <1>1. /\ made \in Nat /\ p \in Processes(made) /\ Forgets(p) /\ p.up
        /\ UNCHANGED <<redisVars, made, commands, stalls>> /\ FaultsOK'
    BY ProcFacts, FaultsKept DEF BusResumes, bounds
  <1>2. PICK k \in DOMAIN p.sub : Become(i, After(k))
    BY DEF BusResumes
  <1> DEFINE d == Dropped(k)
             s == p.sub[k]
             q == After(k)
  <1>3. Become(i, q)
    BY <1>2
  <1>4. /\ s.at = "subscribed" => q = Served(d, s)
        /\ s.at = "stopped" => q = ReleaseIfGone(d)
        /\ s.at = "lastStopped" => q = Send(d, "lastRelease", None)
    OBVIOUS
  <1>5. d = [p EXCEPT !.sub = SubSeq(@, 1, k - 1) \o SubSeq(@, k + 1, Len(@))]
    OBVIOUS
  <1>6. p.sub[k] = s /\ k \in DOMAIN p.sub
    OBVIOUS
  <1> HIDE DEF p, d, s, q, After, Dropped
  <1>7. /\ d \in Processes(made) /\ DropsSub(p, d, k) /\ d.pub = p.pub
        /\ d.up = p.up /\ d.live = p.live /\ d.joined = p.joined
        /\ d.finished = p.finished /\ d.owned = p.owned /\ d.hearts = p.hearts
    <2>1. LET e == [p EXCEPT !.sub = SubSeq(@, 1, k - 1) \o SubSeq(@, k + 1, Len(@))]
          IN  /\ e \in Processes(made) /\ DropsSub(p, e, k) /\ e.pub = p.pub
              /\ e.up = p.up /\ e.live = p.live /\ e.joined = p.joined
              /\ e.finished = p.finished /\ e.owned = p.owned /\ e.hearts = p.hearts
              /\ e.channel = p.channel /\ e.inbox = p.inbox
      BY ZenonT(30), <1>1, DropTyped
    <2> QED
      BY <2>1, <1>5
  <1>8. s \in SubRequests(made) /\ s.at \in SubAts
    BY <1>1, <1>6, Fields, RequestFields
  <1>9. Forgets(d)
    BY <1>1, <1>7 DEF Forgets
  <1>10. /\ \A m \in DOMAIN d.sub : \E n \in DOMAIN p.sub : n # k /\ d.sub[m] = p.sub[n]
         /\ \A n \in DOMAIN p.sub : n # k => \E m \in DOMAIN d.sub : d.sub[m] = p.sub[n]
         /\ \A at : Awaits(p.sub, at) => at = s.at \/ Awaits(d.sub, at)
         /\ Once(p.sub, "subscribed") => Once(d.sub, "subscribed")
    BY <1>6, <1>7, DropFacts
  <1>11. s.at # "subscribed" => \A a : Subscribes(d, a) <=> Subscribes(p, a)
    BY <1>6, <1>10 DEF Subscribes
  <1>12. /\ q \in Processes(made) /\ Forgets(q) /\ q.up /\ Tickets(q.pub) \subseteq Tickets(p.pub)
         /\ Kept(i, p, q)
    <2>1. CASE s.at = "subscribed"
      <3>0. q = Served(d, s)
        BY <1>4, <2>1
      <3>1. /\ q \in Processes(made) /\ q.pub = d.pub /\ q.sub = d.sub /\ q.up = d.up
            /\ q.live = d.live /\ q.joined = d.joined /\ q.finished = d.finished
            /\ q.hearts = d.hearts \cup {s.actor}
            /\ q.owned # None /\ q.owned.serving /\ q.owned.actor = s.actor
        BY ZenonT(30), <1>1, <1>7, <1>8, <3>0, ServedFacts
      <3>2. DropsSub(p, q, k)
        BY <1>7, <3>1 DEF DropsSub
      <3>3. Forgets(q)
        BY <1>9, <3>1 DEF Forgets
      <3>4. /\ p.sub[k].at = "subscribed" /\ q.owned.actor = p.sub[k].actor
            /\ q.hearts = p.hearts \cup {p.sub[k].actor}
            /\ q.up = p.up /\ q.live = p.live /\ q.pub = p.pub
            /\ q.owned # None /\ q.owned.serving
        BY <1>6, <1>7, <2>1, <3>1
      <3>5. Kept(i, p, q)
        BY <3>2, <3>4, ServedKeeps
      <3> QED
        BY <1>1, <3>1, <3>3, <3>4, <3>5
    <2>2. CASE s.at = "stopped" /\ d.live # None
      <3>1. q = d
        BY <1>4, <2>2 DEF ReleaseIfGone
      <3>2. Ending(p) => Ending(d)
        BY <1>7, <1>10, <2>2 DEF Ending
      <3>3. Frame(p, d)
        BY <1>7, <1>10, <1>11, <2>2, <3>2 DEF Frame
      <3>4. Kept(i, p, d)
        BY <1>7, <3>3, AgreeKeeps DEF Follows
      <3> QED
        BY <1>1, <1>7, <1>9, <3>1, <3>4
    <2>3. CASE \/ s.at = "stopped" /\ d.live = None
               \/ s.at = "lastStopped"
      <3> DEFINE x == IF s.at = "stopped" THEN "release" ELSE "lastRelease"
      <3>1. q = Send(d, x, None)
        BY <1>4, <2>3 DEF ReleaseIfGone
      <3>2. /\ Fits(made, x, None) /\ x \notin TicketAts /\ x # "hook"
            /\ x = "release" => p.live = None
        BY <1>7, <2>3 DEF Fits, ForNone, Releases, TicketAts
      <3>3. /\ s.at = "lastStopped" => x = "lastRelease"
            /\ s.at # "subscribed"
        BY <2>3
      <3> HIDE DEF x
      <3>4. /\ q \in Processes(made) /\ Forgets(q) /\ q.up = d.up /\ Frame(d, q)
            /\ Adds(d, q, x, None) /\ Tickets(q.pub) \subseteq Tickets(d.pub)
        BY <1>1, <1>7, <1>9, <3>1, <3>2, Sent
      <3>5. Adds(p, q, x, None)
        BY <1>7, <3>4 DEF Adds
      <3>6. Ending(p) => Ending(q)
        <4>1. CASE s.at = "lastStopped"
          <5>1. PICK z \in DOMAIN q.pub : q.pub[z].at = "lastRelease"
            BY <3>3, <3>5, <4>1, AddFacts
          <5> QED
            BY <5>1 DEF Ending, Awaits
        <4>2. CASE s.at # "lastStopped"
          <5>1. Ending(p) => Ending(d)
            BY <1>7, <1>10, <4>2 DEF Ending
          <5> QED
            BY <3>4, <5>1 DEF Frame
        <4> QED
          BY <4>1, <4>2
      <3>7. q.hearts = p.hearts \/ (q.hearts \subseteq p.hearts /\ Ending(q))
        BY <1>7, <3>4 DEF Frame
      <3>8. Frame(p, q)
        BY <1>7, <1>10, <1>11, <3>3, <3>4, <3>6, <3>7 DEF Frame
      <3>9. Kept(i, p, q)
        BY <1>1, <3>2, <3>5, <3>8, AddKeeps DEF Follows
      <3> QED
        BY <1>1, <1>7, <3>4, <3>9
    <2> QED
      BY <1>8, <2>1, <2>2, <2>3 DEF SubAts
  <1>13. Fewer(Tickets(q.pub), Tickets(p.pub))
    BY <1>12, FewerPart
  <1> QED
    BY <1>1, <1>3, <1>12, <1>13, OwnStep DEF p

LEMMA ForwardedJoinStep ==
    ASSUME TypeInv, NEW i \in Instances, ForwardedJoin(i)
    PROVE  TypeInv' /\ (Sound => Sound')
  <1> DEFINE Q(j) == IF proc[j].live \in proc[j].inbox THEN Joined(proc[j], proc[j].live)
                     ELSE proc[j]
  <1>1. /\ proc' = [j \in Instances |-> Q(j)] /\ overtaken' = overtaken
        /\ UNCHANGED <<redisVars, made, commands, stalls>> /\ FaultsOK' /\ made \in Nat
    BY HappensFacts DEF ForwardedJoin
  <1>2. ASSUME NEW j \in Instances
        PROVE  /\ proc'[j] \in Processes(made) /\ Forgets(proc'[j]) /\ proc'[j].pub = proc[j].pub
               /\ \A k : Kept(k, proc[j], proc'[j])
               /\ Overtaken(proc'[j]) <=> Overtaken(proc[j])
    <2> DEFINE p == proc[j]
               q == proc'[j]
    <2>1. p \in Processes(made) /\ Forgets(p)
      BY ProcFacts
    <2>2. q = IF p.live \in p.inbox THEN Joined(p, p.live) ELSE p
      BY <1>1
    <2> HIDE DEF p, q
    <2>3. CASE p.live \in p.inbox
      <3>1. p.live # None
        BY <1>1, <2>1, <2>3, Fields, ClusterAssumption
      <3>2. q = Joined(p, p.live)
        BY <2>2, <2>3
      <3>3. /\ q \in Processes(made) /\ Forgets(q) /\ q.pub = p.pub
            /\ \A k : Follows(k, p, q) /\ (Overtaken(q) <=> Overtaken(p))
        BY <1>1, <2>1, <3>1, <3>2, JoinedKeeps
      <3> QED
        BY <3>3 DEF p, q, Follows
    <2>4. CASE p.live \notin p.inbox
      <3>1. q = p
        BY <2>2, <2>4
      <3> QED
        BY <2>1, <3>1 DEF p, q, Kept
    <2> QED
      BY <2>3, <2>4
  <1>3. ClusterTypeOK'
    <2>1. /\ lease' \in Instances \cup {None} /\ meta' \in BOOLEAN
          /\ made' \in 0..commands' /\ commands' \in 0..MaxCommands /\ made' = made
          /\ overtaken' \subseteq Instances
      BY <1>1 DEF TypeInv, ClusterTypeOK, redisVars
    <2>2. proc' \in [Instances -> Processes(made')]
      BY <1>1, <1>2, <2>1
    <2>3. \A j \in Instances : proc'[j].live = None => ~proc'[j].joined /\ ~proc'[j].finished
      BY <1>2 DEF Forgets
    <2> QED
      BY <1>1, <2>1, <2>2, <2>3 DEF ClusterTypeOK, FaultsOK
  <1>4. AllTickets(proc)' = AllTickets(proc)
    BY <1>2 DEF AllTickets, Tickets
  <1>5. TypeInv'
    BY <1>1, <1>3, <1>4 DEF TypeInv
  <1>6. ASSUME Sound PROVE Sound'
    <2>1. lease' = lease /\ stalls' = stalls
      BY <1>1 DEF redisVars
    <2>2. ASSUME NEW j \in Instances
          PROVE  /\ Behind(proc'[j])
                 /\ j \in overtaken' \/ Orderly(proc'[j])
                 /\ stalls' # 0 \/ Leased(proc'[j], j, lease')
      <3>1. /\ Behind(proc[j])
            /\ j \in overtaken \/ Orderly(proc[j])
            /\ stalls # 0 \/ Leased(proc[j], j, lease)
        BY <1>6 DEF Sound
      <3>2. Kept(j, proc[j], proc'[j]) /\ (Overtaken(proc'[j]) <=> Overtaken(proc[j]))
        BY <1>2
      <3>3. Orderly(proc[j]) => ~Overtaken(proc'[j])
        BY <3>2 DEF Orderly
      <3>4. Behind(proc'[j]) /\ (Leased(proc[j], j, lease) => Leased(proc'[j], j, lease))
        BY <3>1, <3>2 DEF Kept
      <3>5. Orderly(proc[j]) => Orderly(proc'[j])
        BY <3>1, <3>2, <3>3 DEF Kept
      <3> QED
        BY <1>1, <2>1, <3>1, <3>4, <3>5
    <2> QED
      BY <2>2 DEF Sound
  <1> QED
    BY <1>5, <1>6

\* Redis answers.
Replied(p, k, r) == [p EXCEPT !.pub[k].done = TRUE, !.pub[k].reply = r]

LEMMA ReplyFacts ==
    ASSUME NEW n \in Nat, NEW p \in Processes(n), Forgets(p), NEW k \in DOMAIN p.pub,
           ~p.pub[k].done, \A j \in 1..k - 1 : p.pub[j].done, NEW r \in Instances \cup {None}
    PROVE  LET q == Replied(p, k, r)
           IN  /\ q \in Processes(n) /\ Forgets(q) /\ Answers(p, q, k, r)
               /\ Tickets(q.pub) = Tickets(p.pub)
               /\ q.up = p.up /\ q.live = p.live /\ q.owned = p.owned /\ q.hearts = p.hearts
               /\ q.sub = p.sub
  <1> DEFINE e == [p.pub[k] EXCEPT !.done = TRUE, !.reply = r]
             s == [p.pub EXCEPT ![k] = e]
             q == Replied(p, k, r)
  <1>1. p.pub \in Seq(PubRequests(n)) /\ Len(p.pub) \in Nat /\ DOMAIN p.pub = 1..Len(p.pub)
        /\ p.pub[k] \in PubRequests(n)
    BY Fields
  <1>2. e \in PubRequests(n) /\ e.at = p.pub[k].at /\ e.actor = p.pub[k].actor /\ e.done
        /\ e.reply = r
    BY <1>1 DEF PubRequests
  <1>3. q = [p EXCEPT !.pub = s]
    BY <1>1 DEF Processes, PubRequests, Replied
  <1> HIDE DEF e, q
  <1>4. s \in Seq(PubRequests(n)) /\ DOMAIN s = DOMAIN p.pub /\ s[k] = e
        /\ \A m \in DOMAIN p.pub : m = k \/ s[m] = p.pub[m]
    BY <1>1, <1>2
  <1> HIDE DEF s
  <1>5. /\ q \in Processes(n) /\ q.pub = s /\ q.sub = p.sub
        /\ q.up = p.up /\ q.live = p.live /\ q.joined = p.joined
        /\ q.finished = p.finished /\ q.owned = p.owned /\ q.hearts = p.hearts
    BY <1>3, <1>4 DEF Processes
  <1>6. Forgets(q)
    BY <1>5 DEF Forgets
  <1>7. \A m \in DOMAIN p.pub : q.pub[m].at = p.pub[m].at /\ q.pub[m].actor = p.pub[m].actor
    BY <1>2, <1>4, <1>5
  <1>8. Answers(p, q, k, r)
    <2>1. \A m \in DOMAIN p.pub : m < k => p.pub[m].done
      BY <1>1
    <2> QED
      BY <1>1, <1>2, <1>4, <1>5, <1>7, <2>1 DEF Answers
  <1>9. Tickets(q.pub) = Tickets(p.pub)
    BY <1>4, <1>5, <1>7 DEF Tickets
  <1> QED
    BY <1>5, <1>6, <1>8, <1>9 DEF q

LEMMA RedisStep ==
    ASSUME TypeInv, NEW i \in Instances, Redis(i)
    PROVE  TypeInv' /\ (Sound => Sound')
  <1> DEFINE p == proc[i]
  <1>1. /\ made \in Nat /\ p \in Processes(made) /\ Forgets(p) /\ p.up
        /\ UNCHANGED <<made, commands, stalls, overtaken>> /\ FaultsOK' /\ DOMAIN proc = Instances
        /\ lease \in Instances \cup {None} /\ meta \in BOOLEAN /\ i # None
    BY ProcFacts, FaultsKept, TypeFacts, ClusterAssumption DEF Redis, bounds, TypeInv
  <1>2. \E k \in DOMAIN p.pub, r \in Instances \cup {None} :
          /\ ~p.pub[k].done /\ \A j \in 1..k - 1 : p.pub[j].done
          /\ Reply(i, k, r) /\ lease' \in Instances \cup {None} /\ meta' \in BOOLEAN
          /\ Settles(i, p.pub[k].at, r, lease, lease')
    <2>1. PICK k \in DOMAIN p.pub :
            /\ ~p.pub[k].done /\ \A j \in 1..k - 1 : p.pub[j].done
            /\ \/ RedisLookup(i, k) \/ RedisClaim(i, k) \/ RedisRenew(i, k)
               \/ RedisRelease(i, k) \/ RedisGetMeta(i, k) \/ RedisPutMeta(i, k)
      BY DEF Redis, Taken
    <2>2. CASE RedisLookup(i, k)
      <3>1. /\ Reply(i, k, lease) /\ lease' = lease /\ meta' = meta
            /\ p.pub[k].at \notin Claims \cup Releases
        BY <2>2 DEF RedisLookup, Lookups, Claims, Releases, redisVars
      <3> QED
        BY <1>1, <2>1, <3>1 DEF Settles
    <2>3. CASE RedisClaim(i, k)
      <3>1. /\ Reply(i, k, lease') /\ lease' = (IF lease = None THEN i ELSE lease) /\ meta' = meta
            /\ p.pub[k].at \in Claims /\ p.pub[k].at \notin Releases
        BY <2>3 DEF RedisClaim, Claims, Releases
      <3> QED
        BY <1>1, <2>1, <3>1 DEF Settles
    <2>4. CASE RedisRenew(i, k)
      <3>1. /\ Reply(i, k, IF lease = i THEN i ELSE None) /\ lease' = lease /\ meta' = meta
            /\ p.pub[k].at \notin Claims \cup Releases
        BY <2>4 DEF RedisRenew, Claims, Releases, redisVars
      <3> QED
        BY <1>1, <2>1, <3>1 DEF Settles
    <2>5. CASE RedisRelease(i, k)
      <3>1. /\ Reply(i, k, None) /\ lease' = (IF lease = i THEN None ELSE lease) /\ meta' = meta
            /\ p.pub[k].at \notin Claims /\ p.pub[k].at \in Releases
        BY <2>5 DEF RedisRelease, Claims, Releases
      <3> QED
        BY <1>1, <2>1, <3>1 DEF Settles
    <2>6. CASE RedisGetMeta(i, k)
      <3>1. /\ Reply(i, k, IF meta THEN i ELSE None) /\ lease' = lease /\ meta' = meta
            /\ p.pub[k].at \notin Claims \cup Releases
        BY <2>6 DEF RedisGetMeta, Claims, Releases, redisVars
      <3> QED
        BY <1>1, <2>1, <3>1 DEF Settles
    <2>7. CASE RedisPutMeta(i, k)
      <3>1. /\ Reply(i, k, None) /\ lease' = lease /\ meta' = TRUE
            /\ p.pub[k].at \notin Claims \cup Releases
        BY <2>7 DEF RedisPutMeta, Claims, Releases
      <3> QED
        BY <1>1, <2>1, <3>1 DEF Settles
    <2> QED
      BY <2>1, <2>2, <2>3, <2>4, <2>5, <2>6, <2>7
  <1>3. PICK k \in DOMAIN p.pub, r \in Instances \cup {None} :
          /\ ~p.pub[k].done /\ \A j \in 1..k - 1 : p.pub[j].done
          /\ Reply(i, k, r) /\ lease' \in Instances \cup {None} /\ meta' \in BOOLEAN
          /\ Settles(i, p.pub[k].at, r, lease, lease')
    BY <1>2
  <1> DEFINE q == Replied(p, k, r)
  <1>4. proc' = [proc EXCEPT ![i] = q]
    BY <1>1, <1>3 DEF Reply, Replied
  <1>5. \A j \in Instances : proc'[j] = IF j = i THEN q ELSE proc[j]
    BY <1>1, <1>4
  <1>6. k \in DOMAIN p.pub
    OBVIOUS
  <1> HIDE DEF p
  <1>7. /\ q \in Processes(made) /\ Forgets(q) /\ Answers(p, q, k, r)
        /\ Tickets(q.pub) = Tickets(p.pub)
        /\ q.up = p.up /\ q.live = p.live /\ q.owned = p.owned /\ q.hearts = p.hearts
        /\ q.sub = p.sub
    <2>1. made \in Nat /\ p \in Processes(made) /\ Forgets(p)
      BY <1>1
    <2>2. ~p.pub[k].done /\ \A j \in 1..k - 1 : p.pub[j].done
      BY <1>3
    <2> QED
      BY <2>1, <2>2, <1>6, ReplyFacts
  <1> HIDE DEF q
  <1>8. TypeInv'
    <2>1. /\ made' = made /\ made' \in 0..commands' /\ commands' \in 0..MaxCommands
          /\ overtaken' \subseteq Instances
          /\ proc \in [Instances -> Processes(made)]
          /\ \A j \in Instances : Forgets(proc[j])
      BY <1>1 DEF TypeInv, ClusterTypeOK, Forgets
    <2>2. proc' \in [Instances -> Processes(made')]
      BY <1>4, <1>7, <2>1
    <2>3. \A j \in Instances : proc'[j].live = None => ~proc'[j].joined /\ ~proc'[j].finished
      BY <1>5, <1>7, <2>1 DEF Forgets
    <2>4. ClusterTypeOK'
      BY <1>1, <1>3, <2>1, <2>2, <2>3 DEF ClusterTypeOK, FaultsOK
    <2>5. Fewer(Tickets(q.pub), Tickets(p.pub))
      BY <1>7, FewerPart
    <2>6. Fewer(AllTickets([proc EXCEPT ![i] = q]), 1..(commands - made))
      BY <2>5, TicketsKept DEF p
    <2>7. AllTickets(proc)' = AllTickets([proc EXCEPT ![i] = q])
      BY <1>4 DEF AllTickets
    <2> QED
      BY <1>1, <2>4, <2>6, <2>7 DEF TypeInv
  <1>9. ASSUME Sound PROVE Sound'
    <2>1. InOrder(p.pub)
      <3>1. Len(p.pub) \in Nat /\ DOMAIN p.pub = 1..Len(p.pub)
        BY <1>1, Fields
      <3> QED
        BY <3>1 DEF InOrder
    <2> DEFINE l2 == lease'
    <2>2. Settles(i, p.pub[k].at, r, lease, l2)
      BY <1>3
    <2> HIDE DEF l2
    <2>3. /\ Behind(p) => Behind(q)
          /\ Overtaken(q) <=> Overtaken(p)
          /\ Orderly(p) => Orderly(q)
          /\ Behind(p) /\ Leased(p, i, lease) => Leased(q, i, l2)
          /\ \A j : j # i /\ j # None /\ lease = j => l2 = j
      <3>1. SameState(p, q) /\ p.up /\ i # None /\ Answers(p, q, k, r)
        BY <1>1, <1>7 DEF SameState
      <3> QED
        BY <2>1, <2>2, <3>1, ReplyKeeps
    <2>4. ASSUME NEW j \in Instances
          PROVE  /\ Behind(proc[j])
                 /\ j \in overtaken \/ Orderly(proc[j])
                 /\ stalls # 0 \/ Leased(proc[j], j, lease)
                 /\ j # None
      BY <1>9, ClusterAssumption DEF Sound
    <2>5. ASSUME NEW j \in Instances
          PROVE  /\ Behind(proc'[j])
                 /\ j \in overtaken' \/ Orderly(proc'[j])
                 /\ stalls' # 0 \/ Leased(proc'[j], j, l2)
      <3>1. CASE j = i
        <4>1. proc'[j] = q /\ proc[j] = p
          BY <1>5, <3>1 DEF p
        <4> QED
          BY <1>1, <2>3, <2>4, <3>1, <4>1
      <3>2. CASE j # i
        <4>1. proc'[j] = proc[j] /\ (lease = j => l2 = j)
          BY <1>5, <2>3, <2>4, <3>2
        <4>2. Leased(proc[j], j, lease) => Leased(proc[j], j, l2)
          BY <4>1 DEF Leased
        <4> QED
          BY <1>1, <2>4, <4>1, <4>2
      <3> QED
        BY <3>1, <3>2
    <2> QED
      BY <2>5 DEF Sound, l2
  <1> QED
    BY <1>8, <1>9

\* The lease runs out.
LEMMA LapsesTyped ==
    ASSUME TypeInv, lease' = None, UNCHANGED <<meta, proc, made, overtaken, commands>>, FaultsOK'
    PROVE  TypeInv'
  <1>1. ClusterTypeOK'
    BY DEF TypeInv, ClusterTypeOK, FaultsOK
  <1>2. AllTickets(proc)' = AllTickets(proc)
    BY DEF AllTickets
  <1> QED
    BY <1>1, <1>2 DEF TypeInv

LEMMA LapseStep ==
    ASSUME TypeInv, Lapse
    PROVE  TypeInv' /\ (Sound => Sound')
  <1>1. /\ lease # None /\ ~Wanted(lease) /\ lease' = None
        /\ UNCHANGED <<meta, proc, made, overtaken, commands, stalls>> /\ FaultsOK'
    BY FaultsKept DEF Lapse, bounds
  <1>2. TypeInv'
    BY <1>1, LapsesTyped
  <1>3. ASSUME Sound, NEW j \in Instances
        PROVE  /\ Behind(proc[j])
               /\ j \in overtaken \/ Orderly(proc[j])
               /\ stalls # 0 \/ Leased(proc[j], j, None)
    <2>1. /\ Behind(proc[j])
          /\ j \in overtaken \/ Orderly(proc[j])
          /\ stalls # 0 \/ Leased(proc[j], j, lease)
      BY <1>3 DEF Sound
    <2>2. Leased(proc[j], j, lease) => Leased(proc[j], j, None)
      <3>1. CASE j = lease
        <4>1. proc[j].live = None
          BY <1>1, <2>1, <3>1 DEF Wanted, Behind
        <4> QED
          BY <4>1 DEF Leased
      <3>2. CASE j # lease
        BY <3>2 DEF Leased
      <3> QED
        BY <3>1, <3>2
    <2> QED
      BY <2>1, <2>2
  <1>4. Sound => Sound'
    BY <1>1, <1>3 DEF Sound
  <1> QED
    BY <1>2, <1>4

LEMMA StallStep ==
    ASSUME TypeInv, Stall
    PROVE  TypeInv' /\ (Sound => Sound')
  <1>1. /\ lease' = None /\ UNCHANGED <<meta, proc, made, overtaken, commands>> /\ FaultsOK'
        /\ stalls' = stalls + 1 /\ stalls \in Nat
    BY FaultMore, TypeFacts DEF Stall, TypeInv
  <1>2. TypeInv'
    BY <1>1, LapsesTyped
  <1>3. stalls' # 0
    BY <1>1
  <1>4. Sound => Sound'
    BY <1>1, <1>3 DEF Sound
  <1> QED
    BY <1>2, <1>4

-----------------------------------------------------------------------------
\* The inductive invariant and the theorems.
ClusterInv == TypeInv /\ Sound

LEMMA ClusterInvInit == ClusterInit => ClusterInv
  <1> SUFFICES ASSUME ClusterInit PROVE ClusterInv
    OBVIOUS
  <1>1. /\ lease = None /\ meta = FALSE /\ made = 0 /\ proc = [i \in Instances |-> Booted]
        /\ overtaken = {} /\ commands = 0 /\ stalls = 0 /\ exits = 0 /\ failures = 0
    BY DEF ClusterInit
  <1>2. /\ Booted \in Processes(0) /\ Forgets(Booted) /\ Tickets(Booted.pub) = {}
        /\ Booted.live = None /\ ~Booted.joined /\ ~Booted.finished
    BY EmptyTyped
  <1>3. ClusterTypeOK
    <2>1. proc \in [Instances -> Processes(made)]
      BY <1>1, <1>2
    <2>2. \A i \in Instances : proc[i].live = None => ~proc[i].joined /\ ~proc[i].finished
      BY <1>1, <1>2
    <2>3. stalls = 0 /\ exits = 0 /\ failures = 0
      BY <1>1
    <2>4. {stalls, exits, failures} \subseteq Nat /\ stalls + exits + failures = 0
      BY <2>3
    <2>5. lease \in Instances \cup {None} /\ meta \in BOOLEAN /\ overtaken \subseteq Instances
      BY <1>1
    <2>6. made \in 0..commands /\ commands \in 0..MaxCommands /\ 0 <= MaxFaults
      BY <1>1, ClusterAssumption
    <2> QED
      BY <2>1, <2>2, <2>4, <2>5, <2>6 DEF ClusterTypeOK
  <1>4. Fewer(AllTickets(proc), 1..(commands - made))
    <2>1. AllTickets(proc) = {}
      BY <1>1, <1>2 DEF AllTickets
    <2> QED
      BY <2>1, FewerPart
  <1>5. Sound
    <2>1. \A i \in Instances : proc[i] = Booted
      BY <1>1
    <2>2. \A i \in Instances : Behind(Booted) /\ Orderly(Booted) /\ Leased(Booted, i, lease)
      BY EmptySound
    <2> QED
      BY <2>1, <2>2 DEF Sound
  <1> QED
    BY <1>3, <1>4, <1>5 DEF ClusterInv, TypeInv

LEMMA ClusterInvStep == ClusterInv /\ [ClusterNext]_clusterVars => ClusterInv'
  <1> SUFFICES ASSUME ClusterInv, [ClusterNext]_clusterVars PROVE ClusterInv'
    OBVIOUS
  <1>1. TypeInv /\ Sound
    BY DEF ClusterInv
  <1>2. CASE UNCHANGED clusterVars
    <2>1. UNCHANGED <<lease, meta, proc, made, overtaken, commands, stalls, exits, failures>>
      BY <1>2 DEF clusterVars, bounds
    <2>2. TypeInv'
      BY <1>1, <2>1 DEF TypeInv, ClusterTypeOK, AllTickets
    <2>3. Sound'
      BY <1>1, <2>1 DEF Sound
    <2> QED
      BY <2>2, <2>3 DEF ClusterInv
  <1>3. CASE Lapse \/ Stall
    BY <1>1, <1>3, LapseStep, StallStep DEF ClusterInv
  <1>4. ASSUME NEW i \in Instances, Resume(i)
        PROVE  ClusterInv'
    BY <1>1, <1>4, LookedUpStep, GotMetaStep, ReclaimedStep, MetaStoredStep, FoundWinnerStep,
       ClaimedStep, FoundFreeStep, CreateClaimedStep, RenewedStep, ReleasedStep, ExitsStep
       DEF Resume, ClusterInv
  <1>5. ASSUME NEW i \in Instances,
               \/ JoinLocal(i) \/ JoinElsewhere(i) \/ Create(i) \/ Restart(i)
               \/ Redis(i) \/ BusResumes(i) \/ Heartbeat(i) \/ CommandFails(i)
        PROVE  ClusterInv'
    BY <1>1, <1>5, JoinLocalStep, JoinElsewhereStep, RestartStep, RedisStep, BusResumesStep,
       HeartbeatStep, CommandFailsStep DEF ClusterInv
  <1>6. ASSUME NEW i \in Instances,
               \/ Finish(i) \/ LastLeaves(i) \/ Idle(i) \/ ForwardedJoin(i) \/ DropRemote(i)
               \/ Shutdown(i) \/ Crash(i) \/ Boot(i)
        PROVE  ClusterInv'
    BY <1>1, <1>6, FinishStep, LeaveStep, IdleStep, ForwardedJoinStep, ShutdownStep,
       CrashOrBootStep DEF ClusterInv
  <1> QED
    BY <1>2, <1>3, <1>4, <1>5, <1>6 DEF ClusterNext

\* Everything that follows rests on this: for any number of processes, joins,
\* creations, restarts, disposals, lapses, failing commands, crashes and shutdowns,
\* and every order of their round trips and continuations, the invariant holds.
THEOREM ClusterKeepsInv == ClusterSpec => []ClusterInv
  BY ClusterInvInit, ClusterInvStep, PTL DEF ClusterSpec

\* Whatever the processes do and whatever fails, every variable stays in its type,
\* no more actors are made than commands came in, and a process without an actor
\* keeps no connection and no result of the last one (ClusterTypeOK).
THEOREM ClusterTypeCorrect == ClusterSpec => []ClusterTypeOK
  <1>1. ClusterInv => ClusterTypeOK
    BY DEF ClusterInv, TypeInv
  <1> QED
    BY <1>1, ClusterKeepsInv, PTL

LEMMA ClosingIsEnding ==
    ASSUME NEW i \in Instances
    PROVE  Closing(i) <=> Ending(proc[i])
  BY DEF Closing, Ending, Awaits

\* The single writer (SingleOwner): restarts, disposals and failing commands may come
\* between a claim or a subscription and its continuation, processes may crash and
\* shut down, and still no two processes that are not closing own the session.  The
\* one condition is the property's own: no lease has lapsed so far on a process that
\* was up and wanted it.
THEOREM OneOwner == ClusterSpec => []SingleOwner
  <1>1. ClusterInv => SingleOwner
    <2> SUFFICES ASSUME ClusterInv, stalls = 0, NEW i \in Instances, NEW j \in Instances,
                        Owns(i), Owns(j), ~Closing(i), ~Closing(j)
                 PROVE  i = j
      BY DEF SingleOwner
    <2>1. ASSUME NEW m \in Instances, Owns(m), ~Closing(m) PROVE lease = m
      <3>1. Leased(proc[m], m, lease)
        BY DEF ClusterInv, Sound
      <3>2. ~Doomed(proc[m])
        BY <2>1, ClosingIsEnding DEF Doomed, Ending, Awaits
      <3>3. Granted(proc[m], m, proc[m].live) /\ proc[m].live # None
        BY <2>1 DEF Owns, Granted
      <3> QED
        BY <3>1, <3>2, <3>3 DEF Leased
    <2> QED
      BY <2>1
  <1> QED
    BY <1>1, ClusterKeepsInv, PTL

\* Leases are renewed for the actor in the registry and for no other
\* (RenewsOnlyForLive), through lapses, failing commands, restarts and disposals, in
\* every process none of whose claims and subscriptions has been overtaken since it
\* came up.  The code does not keep them from being overtaken, and then it does not
\* hold: the run cluster_restart violates HeartbeatsOnlyForLive.
THEOREM RenewedForLiveOnly == ClusterSpec => []RenewsOnlyForLive
  <1>1. ClusterInv => RenewsOnlyForLive
    BY DEF ClusterInv, RenewsOnlyForLive, Sound, Orderly, HeartsOK
  <1> QED
    BY <1>1, ClusterKeepsInv, PTL

\* In such a process, unless it is closing, every actor of the registry has a
\* heartbeat, or a claim or a subscription that leads to one (NobodyServesUnwatched).
THEOREM ServedIsWatched == ClusterSpec => []NobodyServesUnwatched
  <1>1. ClusterInv => NobodyServesUnwatched
    <2> SUFFICES ASSUME ClusterInv, NEW i \in Instances, i \notin overtaken,
                        proc[i].live # None, ~Closing(i)
                 PROVE  Watched(i)
      BY DEF NobodyServesUnwatched
    <2> DEFINE p == proc[i]
    <2>1. Orderly(p) /\ ~Ending(p) /\ p.live # None
      BY ClosingIsEnding DEF ClusterInv, Sound
    <2>2. CASE p.owned = None
      <3>1. PICK k \in DOMAIN p.pub : p.pub[k].at = "hook"
        BY <2>1, <2>2 DEF Orderly, HookOK, Awaits
      <3>2. p.pub[k].actor = p.live
        BY <2>1, <3>1 DEF Orderly, Overtaken
      <3> QED
        BY <3>1, <3>2 DEF Watched
    <2>3. CASE p.owned # None /\ p.owned.serving
      BY <2>1, <2>3 DEF Orderly, HeartsOK, Watched
    <2>4. CASE p.owned # None /\ ~p.owned.serving
      <3>1. PICK k \in DOMAIN p.sub : p.sub[k].at = "subscribed"
        BY <2>1, <2>4 DEF Orderly, ReservedOK, Awaits
      <3>2. p.sub[k].actor = p.live
        BY <2>1, <3>1 DEF Orderly, Overtaken
      <3> QED
        BY <3>1, <3>2 DEF Watched
    <2> QED
      BY <2>2, <2>3, <2>4
  <1> QED
    BY <1>1, ClusterKeepsInv, PTL

\* Whatever overtakes what: with a release on the wire an actor in the registry does
\* not own the session, and whatever it has asked Redis for is behind the release; in
\* a process that was not overtaken the claim of its hook is among that
\* (ReleaseSparesSuccessor).
THEOREM SuccessorClaimsAgain == ClusterSpec => []ReleaseSparesSuccessor
  <1>1. ClusterInv => ReleaseSparesSuccessor
    <2> SUFFICES ASSUME ClusterInv, NEW i \in Instances, NEW k \in DOMAIN proc[i].pub,
                        proc[i].pub[k].at = "release", proc[i].live # None
                 PROVE  /\ ~Owns(i)
                        /\ \A m \in DOMAIN proc[i].pub : proc[i].pub[m].actor = proc[i].live => m > k
                        /\ i \in overtaken \/ \E m \in DOMAIN proc[i].pub :
                             proc[i].pub[m].at = "hook" /\ proc[i].pub[m].actor = proc[i].live
      BY DEF ReleaseSparesSuccessor
    <2> DEFINE p == proc[i]
    <2>1. Behind(p) /\ (i \in overtaken \/ Orderly(p)) /\ p.live # None
      BY DEF ClusterInv, Sound
    <2>2. Awaits(p.pub, "release")
      BY DEF Awaits
    <2>3. ~Owns(i)
      BY <2>1, <2>2 DEF Behind, Owns
    <2>4. \A m \in DOMAIN p.pub : p.pub[m].actor = p.live => k < m
      BY <2>1 DEF Behind
    <2>5. \A m \in DOMAIN p.pub : m \in Nat
      BY ProcFacts, Fields DEF ClusterInv
    <2>6. ASSUME Orderly(p)
          PROVE  \E m \in DOMAIN p.pub : p.pub[m].at = "hook" /\ p.pub[m].actor = p.live
      <3>1. p.owned = None
        BY <2>1, <2>2, <2>6 DEF Behind, Orderly, OwnedOK
      <3>2. PICK m \in DOMAIN p.pub : p.pub[m].at = "hook"
        BY <2>1, <2>6, <3>1 DEF Orderly, HookOK, Awaits
      <3> QED
        BY <2>6, <3>2 DEF Orderly, Overtaken
    <2> QED
      BY <2>1, <2>3, <2>4, <2>5, <2>6
  <1> QED
    BY <1>1, ClusterKeepsInv, PTL
=============================================================================
