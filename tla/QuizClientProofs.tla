-------------------------- MODULE QuizClientProofs --------------------------
(***************************************************************************)
(* Of one player's browser, its sockets and their handlers (QuizClient),   *)
(* for any number of questions and of upsets: the types and what wsRef may *)
(* be, an answer never overtakes the join before it, who the player is     *)
(* survives every reconnect, and who has read all that was sent sees the   *)
(* session as it is.                                                       *)
(*                                                                         *)
(* None of it is inductive. Who the browser will be told to be depends on  *)
(* the join, the lookup or the welcome that is under way on the one socket *)
(* it listens to, of which there is at most one of the three (Talks). What *)
(* it will show depends on every frame under way: the last of each kind    *)
(* says it as the session has it (ViewInv, on top of ClientInv).           *)
(***************************************************************************)
EXTENDS QuizClient, WellFoundedInduction, TLAPS

UpFrames ==
    [t : {"join"}, id : Ids \cup {None}, token : BOOLEAN] \cup
    [t : {"answer"}, q : Questions] \cup {Leaving}
DownFrames ==
    [t : {"welcome"}, you : Ids, phase : Phases, question : Questions \cup {None}, seq : Nat] \cup
    [t : {"event"}, phase : Phases, question : Questions, seq : Nat] \cup
    [t : {"answer_result"}, q : Questions, accepted : BOOLEAN] \cup
    [t : {"error"}, code : {"unauthorized", "internal", "not_joined", "lookup", "rate_limited"}] \cup
    [t : {"close"}, code : {1000, 1001, 1006}]
SockRecords ==
    [client : {None, "connecting", "open", "closing", "closed"}, up : Seq(UpFrames),
     down : Seq(DownFrames), server : {None, "open", "closing", "closed"},
     joining : Ids \cup {None}, denied : BOOLEAN,
     run : Runs \cup {None}, userId : Ids \cup {None}]
TabRecords ==
    [ref : Sockets \cup {None}, retry : BOOLEAN, fallback : BOOLEAN,
     status : {"connecting", "open", "reconnecting", "closed"},
     error : {None, "login_expired", "closed",
              "unauthorized", "internal", "not_joined", "lookup", "rate_limited"},
     you : Ids \cup {None}, phase : Phases \cup {None}, question : Questions \cup {None},
     chosen : BOOLEAN, result : DownFrames \cup {None}, seq : Nat]
RoomRecords ==
    [phase : Phases, question : Questions, seq : Nat, run : Runs, players : SUBSET Ids,
     answered : SUBSET (Ids \X Questions), attached : SUBSET Sockets]

StateTyped ==
    /\ disk \in [id : Ids \cup {None}, token : BOOLEAN] /\ expired \in BOOLEAN
    /\ tab \in TabRecords
    /\ room \in RoomRecords /\ upsets \in 0..MaxUpsets /\ room.run <= 1 + upsets

\* wsRef, the status and the timer.
Retries(t) == t.retry = TRUE
RefsOK ==
    /\ \A s \in Sockets : sock[s].client \in {"connecting", "open"} => tab.ref = s
    /\ tab.ref = None <=> tab.status = "closed" \/ Retries(tab)
    /\ tab.ref # None => tab.ref \in Sockets /\ sock[tab.ref].client \in {"connecting", "open"}
    /\ Retries(tab) => tab.status = "reconnecting"

-----------------------------------------------------------------------------
\* The server's end of a socket knows who it is, is about to, has turned a join down,
\* or has the join, or the end, before it.
Introduced(x) ==
    \/ x.denied = TRUE \/ (x.run # None /\ x.userId # None) \/ x.joining # None
    \/ x.up # <<>> /\ x.up[1].t # "answer"

NotJoined(m) == m.t = "error" /\ m.code = "not_joined"
Unauthorized(m) == m.t = "error" /\ m.code = "unauthorized"

Orderly(x) ==
    /\ x.server = None => /\ x.up = <<>> /\ x.down = <<>>
                          /\ x.joining = None /\ x.run = None /\ x.userId = None
    /\ x.client \in {None, "connecting"} => x.server = None
    /\ x.client = "open" => x.server # None
    /\ x.server = "closed" => x.up = <<>>
    /\ x.server \in {"open", "closing"} => Introduced(x)
    /\ \A i \in DOMAIN x.down : NotJoined(x.down[i]) => x.denied = TRUE

\* Who the browser is, is remembered; what a join says and what it may come to.
Guest(d) == d.id \notin {None, Account}
JoinFits(d, m) ==
    IF Guest(d) THEN m.token = FALSE /\ m.id = d.id
    ELSE m.token = TRUE \/ (m.id = None /\ d.token = FALSE)
IdFits(d, s, id) ==
    IF Guest(d) THEN id = d.id ELSE id = Account \/ (id = s /\ d.token = FALSE)

\* The join, its lookup, or what the lookup came to: one of them, and it fits.
IsJoin(m) == m.t = "join"
IsTalk(m) == m.t = "welcome" \/ Unauthorized(m)
Talks(x, s, d) ==
    /\ \A i, j \in DOMAIN x.up : IsJoin(x.up[i]) /\ IsJoin(x.up[j]) => i = j
    /\ \A i, j \in DOMAIN x.down : IsTalk(x.down[i]) /\ IsTalk(x.down[j]) => i = j
    /\ (\E i \in DOMAIN x.up : IsJoin(x.up[i])) => x.joining = None
    /\ (\E i \in DOMAIN x.up : IsJoin(x.up[i])) \/ x.joining # None
          => \A i \in DOMAIN x.down : ~IsTalk(x.down[i])
    /\ \A i \in DOMAIN x.up : IsJoin(x.up[i]) => JoinFits(d, x.up[i])
    /\ x.joining # None => IdFits(d, s, x.joining)
    /\ \A i \in DOMAIN x.down : /\ x.down[i].t = "welcome" => IdFits(d, s, x.down[i].you)
                                /\ Unauthorized(x.down[i]) => ~Guest(d)

SocksTyped == sock \in [Sockets -> SockRecords] /\ \A s \in Sockets : Orderly(sock[s])
TalkFits ==
    /\ \A s \in Sockets : sock[s].client = "open" => Talks(sock[s], s, disk)
    /\ Guest(disk) => disk.token = FALSE

ClientInv == StateTyped /\ SocksTyped /\ RefsOK /\ TalkFits

-----------------------------------------------------------------------------
(* The frames and the records of a socket, as values.                        *)

LEMMA Constants ==
    /\ MaxUpsets \in Nat /\ NumQuestions \in Nat \ {0}
    /\ Sockets \subseteq Nat /\ Runs \subseteq Nat /\ Sockets \subseteq Ids /\ 1 \in Sockets
    /\ None \notin Sockets /\ None \notin Ids /\ None \notin Runs /\ Account \notin Sockets
    /\ Account \in Ids /\ Account # None /\ None \notin Questions /\ 0 \in Questions
    /\ None \notin {"connecting", "open", "closing", "closed"}
    /\ None \notin {"unauthorized", "internal", "not_joined", "lookup", "rate_limited"}
<1>1. /\ MaxUpsets \in Nat /\ NumQuestions \in Nat \ {0}
      /\ None \notin Int /\ Account \notin Int /\ Account # None
      /\ None \notin {"connecting", "open", "closing", "closed"}
      /\ None \notin {"unauthorized", "internal", "not_joined", "lookup", "rate_limited"}
  BY ClientAssumption DEF ClientAssumption
<1> QED  BY <1>1 DEF Sockets, Runs, Ids, Questions

LEMMA FramesTyped ==
    /\ \A id \in Ids \cup {None}, b \in BOOLEAN : JoinFrame(id, b) \in UpFrames
    /\ \A q \in Questions : AnswerFrame(q) \in UpFrames
    /\ Leaving \in UpFrames
    /\ \A c \in {1000, 1001, 1006} : Close(c) \in DownFrames
    /\ \A c \in {"unauthorized", "internal", "not_joined", "lookup", "rate_limited"} : Error(c) \in DownFrames
    /\ \A q \in Questions, b \in BOOLEAN : Result(q, b) \in DownFrames
    /\ \A r \in RoomRecords : Event(r) \in DownFrames
    /\ \A r \in RoomRecords, id \in Ids : Welcome(r, id) \in DownFrames
<1>1. \A id \in Ids \cup {None}, b \in BOOLEAN : JoinFrame(id, b) \in UpFrames
  BY DEF JoinFrame, UpFrames
<1>2. (\A q \in Questions : AnswerFrame(q) \in UpFrames) /\ Leaving \in UpFrames
  BY DEF AnswerFrame, UpFrames
<1>3. \A c \in {1000, 1001, 1006} : Close(c) \in DownFrames
  BY DEF Close, DownFrames
<1>4. \A c \in {"unauthorized", "internal", "not_joined", "lookup", "rate_limited"} : Error(c) \in DownFrames
  BY DEF Error, DownFrames
<1>5. \A q \in Questions, b \in BOOLEAN : Result(q, b) \in DownFrames
  BY DEF Result, DownFrames
<1>6. \A r \in RoomRecords : Event(r) \in DownFrames
  BY DEF Event, DownFrames, RoomRecords
<1>7. ASSUME NEW r \in RoomRecords, NEW id \in Ids PROVE Welcome(r, id) \in DownFrames
  <2>1. r.phase \in Phases /\ Shown(r) \in Questions \cup {None} /\ r.seq \in Nat
    BY DEF RoomRecords, Shown
  <2> QED  BY <2>1 DEF Welcome, DownFrames
<1> QED  BY <1>1, <1>2, <1>3, <1>4, <1>5, <1>6, <1>7

\* What the frames of each direction hold.
LEMMA UpFrameIs ==
    ASSUME NEW m \in UpFrames
    PROVE  /\ m.t \in {"join", "answer", "close"}
           /\ m.t = "join" => m.id \in Ids \cup {None} /\ m.token \in BOOLEAN
           /\ m.t = "answer" => m.q \in Questions
           /\ m.t = "close" => m = Leaving
BY DEF UpFrames, Leaving

LEMMA DownFrameIs ==
    ASSUME NEW m \in DownFrames
    PROVE  /\ m.t \in {"welcome", "event", "answer_result", "error", "close"}
           /\ m.t = "welcome" => /\ m.you \in Ids /\ m.phase \in Phases
                                 /\ m.question \in Questions \cup {None} /\ m.seq \in Nat
           /\ m.t = "event" => m.phase \in Phases /\ m.question \in Questions /\ m.seq \in Nat
           /\ m.t = "error" => m.code \in {"unauthorized", "internal", "not_joined", "lookup", "rate_limited"}
           /\ m.t = "close" => m.code \in {1000, 1001, 1006}
           /\ Unauthorized(m) <=> m = Error("unauthorized")
BY DEF DownFrames, Unauthorized, Error

LEMMA FramesAre ==
    /\ \A id, b : /\ JoinFrame(id, b).t = "join" /\ JoinFrame(id, b).id = id
                  /\ JoinFrame(id, b).token = b
    /\ \A q : AnswerFrame(q).t = "answer"
    /\ Leaving.t = "close"
    /\ \A c : Close(c).t = "close"
    /\ \A c : Error(c).t = "error" /\ Error(c).code = c
    /\ \A q, b : Result(q, b).t = "answer_result"
    /\ \A r : Event(r).t = "event"
    /\ \A r, id : Welcome(r, id).t = "welcome" /\ Welcome(r, id).you = id
BY DEF JoinFrame, AnswerFrame, Leaving, Close, Error, Result, Event, Welcome

\* The fields of a socket.
LEMMA SockFields ==
    ASSUME NEW x \in SockRecords
    PROVE  /\ x.up \in Seq(UpFrames) /\ x.down \in Seq(DownFrames)
           /\ x.client \in {None, "connecting", "open", "closing", "closed"}
           /\ x.server \in {None, "open", "closing", "closed"}
           /\ x.joining \in Ids \cup {None} /\ x.denied \in BOOLEAN
           /\ x.run \in Runs \cup {None} /\ x.userId \in Ids \cup {None}
BY DEF SockRecords

\* x has said m, or could not.
Heard(x, y, m) ==
    \/ y = x
    \/ /\ x.server = "open" /\ x.client = "open"
       /\ y = [x EXCEPT !.down = Append(@, m)]
Sent(x, y, m) ==
    \/ y = x
    \/ /\ x.server \in {"open", "closing"}
       /\ y = [x EXCEPT !.up = Append(@, m)]

With(f, s, x) == [f EXCEPT ![s] = x]

LEMMA WithIs ==
    ASSUME NEW f \in [Sockets -> SockRecords], NEW s \in Sockets, NEW x \in SockRecords
    PROVE  /\ With(f, s, x) \in [Sockets -> SockRecords] /\ With(f, s, x)[s] = x
           /\ \A z \in Sockets : z # s => With(f, s, x)[z] = f[z]
           /\ With(f, s, f[s]) = f
BY DEF With

LEMMA TwiceIs ==
    ASSUME NEW f \in [Sockets -> SockRecords], NEW s \in Sockets, NEW x, NEW y
    PROVE  With(With(f, s, x), s, y) = With(f, s, y)
BY DEF With

LEMMA SayIs ==
    ASSUME NEW ss \in [Sockets -> SockRecords], NEW s \in Sockets, NEW m \in DownFrames
    PROVE  \E y \in SockRecords : Say(ss, s, m) = With(ss, s, y) /\ Heard(ss[s], y, m)
<1>1. ss[s] \in SockRecords /\ ss = With(ss, s, ss[s])
  BY DEF With
<1>2. CASE ss[s].server = "open" /\ ss[s].client = "open" /\ ~Ended(ss[s].down)
  <2> DEFINE y == [ss[s] EXCEPT !.down = Append(@, m)]
  <2>1. y \in SockRecords
    <3>1. Append(ss[s].down, m) \in Seq(DownFrames)
      BY <1>1, SockFields
    <3> QED  BY <1>1, <3>1 DEF SockRecords
  <2>2. Say(ss, s, m) = With(ss, s, y)
    BY <1>1, <1>2 DEF Say, Put, With
  <2> QED  BY <1>2, <2>1, <2>2 DEF Heard
<1>3. CASE ~(ss[s].server = "open" /\ ss[s].client = "open" /\ ~Ended(ss[s].down))
  <2>1. [ss[s] EXCEPT !.down = ss[s].down] = ss[s]
    BY <1>1 DEF SockRecords
  <2>2. Say(ss, s, m) = ss
    BY <1>1, <1>3, <2>1 DEF Say, Put
  <2> QED  BY <1>1, <2>2 DEF Heard
<1> QED  BY <1>2, <1>3

LEMMA AskIs ==
    ASSUME NEW ss \in [Sockets -> SockRecords], NEW s \in Sockets, NEW m \in UpFrames
    PROVE  \E y \in SockRecords : Ask(ss, s, m) = With(ss, s, y) /\ Sent(ss[s], y, m)
<1>1. ss[s] \in SockRecords /\ ss = With(ss, s, ss[s])
  BY DEF With
<1>2. CASE ss[s].server \in {"open", "closing"} /\ ~Ended(ss[s].up)
  <2> DEFINE y == [ss[s] EXCEPT !.up = Append(@, m)]
  <2>1. y \in SockRecords
    <3>1. Append(ss[s].up, m) \in Seq(UpFrames)
      BY <1>1, SockFields
    <3> QED  BY <1>1, <3>1 DEF SockRecords
  <2>2. Ask(ss, s, m) = With(ss, s, y)
    BY <1>1, <1>2 DEF Ask, Put, With
  <2> QED  BY <1>2, <2>1, <2>2 DEF Sent
<1>3. CASE ~(ss[s].server \in {"open", "closing"} /\ ~Ended(ss[s].up))
  <2>1. [ss[s] EXCEPT !.up = ss[s].up] = ss[s]
    BY <1>1 DEF SockRecords
  <2>2. Ask(ss, s, m) = ss
    BY <1>1, <1>3, <2>1 DEF Ask, Put
  <2> QED  BY <1>1, <2>2 DEF Sent
<1> QED  BY <1>2, <1>3

\* What one more frame changes.
LEMMA HeardFields ==
    ASSUME NEW x \in SockRecords, NEW y, NEW m, Heard(x, y, m)
    PROVE  /\ y.up = x.up /\ y.client = x.client /\ y.server = x.server /\ y.joining = x.joining
           /\ y.denied = x.denied /\ y.run = x.run /\ y.userId = x.userId
           /\ y.down = x.down \/ (y.down = Append(x.down, m) /\ x.server = "open" /\ x.client = "open")
BY DEF Heard, SockRecords

LEMMA SentFields ==
    ASSUME NEW x \in SockRecords, NEW y, NEW m, Sent(x, y, m)
    PROVE  /\ y.down = x.down /\ y.client = x.client /\ y.server = x.server /\ y.joining = x.joining
           /\ y.denied = x.denied /\ y.run = x.run /\ y.userId = x.userId
           /\ y.up = x.up \/ (y.up = Append(x.up, m) /\ x.server \in {"open", "closing"})
BY DEF Sent, SockRecords

LEMMA Appended ==
    ASSUME NEW S, NEW q \in Seq(S), NEW m \in S
    PROVE  /\ DOMAIN q = 1..Len(q) /\ Len(q) \in Nat /\ Append(q, m) # <<>>
           /\ DOMAIN Append(q, m) = 1..(Len(q) + 1)
           /\ \A i \in DOMAIN q : Append(q, m)[i] = q[i]
           /\ \A i \in DOMAIN Append(q, m) : i \in DOMAIN q \/ (i = Len(q) + 1 /\ Append(q, m)[i] = m)
           /\ q # <<>> => Append(q, m)[1] = q[1]
           /\ q = <<>> => Append(q, m)[1] = m
<1>1. /\ DOMAIN q = 1..Len(q) /\ Len(q) \in Nat /\ Append(q, m) # <<>>
      /\ DOMAIN Append(q, m) = 1..(Len(q) + 1)
      /\ \A i \in DOMAIN q : Append(q, m)[i] = q[i]
      /\ Append(q, m)[Len(q) + 1] = m
  OBVIOUS
<1>2. q # <<>> => 1 \in DOMAIN q
  OBVIOUS
<1>3. q = <<>> => Len(q) = 0
  OBVIOUS
<1> QED  BY <1>1, <1>2, <1>3

LEMMA Dropped ==
    ASSUME NEW S, NEW q \in Seq(S), q # <<>>
    PROVE  /\ DOMAIN q = 1..Len(q) /\ Len(q) \in Nat \ {0} /\ Head(q) = q[1] /\ 1 \in DOMAIN q
           /\ Tail(q) \in Seq(S) /\ Head(q) \in S
           /\ \A i \in DOMAIN Tail(q) : i + 1 \in DOMAIN q /\ i + 1 # 1 /\ Tail(q)[i] = q[i + 1]
OBVIOUS

\* One more frame that is no answer to a join, or no join, changes nothing of what is
\* promised of a socket.
Keeps(x, y) ==
    /\ y \in SockRecords /\ y.client = x.client
    /\ Orderly(x) => Orderly(y)
    /\ \A s, d : Talks(x, s, d) => Talks(y, s, d)

LEMMA HeardOrderly ==
    ASSUME NEW x \in SockRecords, NEW y \in SockRecords, NEW m \in DownFrames, Heard(x, y, m),
           Orderly(x), NotJoined(m) => x.denied = TRUE
    PROVE  Orderly(y)
<1>1. CASE y = x
  BY <1>1
<1>2. CASE y.down = Append(x.down, m) /\ x.server = "open" /\ x.client = "open"
  <2>1. x.down \in Seq(DownFrames)
    BY SockFields
  <2>2. \A i \in DOMAIN y.down : NotJoined(y.down[i]) => y.denied = TRUE
    BY <1>2, <2>1, Appended, HeardFields DEF Orderly
  <2>3. Introduced(y)
    BY <1>2, HeardFields DEF Orderly, Introduced
  <2>4. y.server = "open" /\ y.client = "open"
    BY <1>2, HeardFields
  <2> QED  BY <2>2, <2>3, <2>4, Constants DEF Orderly
<1> QED  BY <1>1, <1>2 DEF Heard, SockRecords

LEMMA HeardTalks ==
    ASSUME NEW x \in SockRecords, NEW y \in SockRecords, NEW m \in DownFrames, Heard(x, y, m),
           ~IsTalk(m), NEW s, NEW d, Talks(x, s, d)
    PROVE  Talks(y, s, d)
<1>1. CASE y.down = x.down
  BY <1>1, HeardFields DEF Talks
<1>2. CASE y.down = Append(x.down, m)
  <2>1. x.down \in Seq(DownFrames)
    BY SockFields
  <2>2. \A i \in DOMAIN y.down : IsTalk(y.down[i]) => i \in DOMAIN x.down /\ y.down[i] = x.down[i]
    BY <1>2, <2>1, Appended
  <2>3. \A i \in DOMAIN y.down : y.down[i].t = "welcome" \/ Unauthorized(y.down[i])
                                     => IsTalk(y.down[i])
    BY DEF IsTalk
  <2> QED  BY <2>2, <2>3, HeardFields DEF Talks
<1> QED  BY <1>1, <1>2, HeardFields

LEMMA SentOrderly ==
    ASSUME NEW x \in SockRecords, NEW y \in SockRecords, NEW m \in UpFrames, Sent(x, y, m),
           Orderly(x)
    PROVE  Orderly(y)
<1>1. CASE y = x
  BY <1>1
<1>2. CASE y.up = Append(x.up, m) /\ x.server \in {"open", "closing"}
  <2>1. x.up \in Seq(UpFrames)
    BY SockFields
  <2>2. Introduced(y)
    BY <1>2, <2>1, Appended, SentFields DEF Orderly, Introduced
  <2>3. /\ y.server = x.server /\ y.client = x.client /\ y.down = x.down /\ y.denied = x.denied
        /\ y.joining = x.joining /\ y.run = x.run /\ y.userId = x.userId
    BY SentFields
  <2> QED  BY <1>2, <2>2, <2>3, Constants DEF Orderly
<1> QED  BY <1>1, <1>2 DEF Sent, SockRecords

LEMMA SentTalks ==
    ASSUME NEW x \in SockRecords, NEW y \in SockRecords, NEW m \in UpFrames, Sent(x, y, m),
           ~IsJoin(m), NEW s, NEW d, Talks(x, s, d)
    PROVE  Talks(y, s, d)
<1>1. CASE y.up = x.up
  BY <1>1, SentFields DEF Talks
<1>2. CASE y.up = Append(x.up, m)
  <2>1. x.up \in Seq(UpFrames)
    BY SockFields
  <2>2. \A i \in DOMAIN y.up : IsJoin(y.up[i]) => i \in DOMAIN x.up /\ y.up[i] = x.up[i]
    BY <1>2, <2>1, Appended
  <2> QED  BY <2>2, SentFields DEF Talks
<1> QED  BY <1>1, <1>2, SentFields

LEMMA HeardKeeps ==
    ASSUME NEW x \in SockRecords, NEW y \in SockRecords, NEW m \in DownFrames, Heard(x, y, m),
           ~IsTalk(m), ~NotJoined(m)
    PROVE  Keeps(x, y)
BY HeardFields, HeardOrderly, HeardTalks DEF Keeps

\* The frames of a broadcast, and how a process leaves the sockets it had open.
LEMMA ToEachIs ==
    ASSUME NEW ss \in [Sockets -> SockRecords], NEW m \in DownFrames, NEW to,
           ~IsTalk(m), ~NotJoined(m)
    PROVE  /\ ToEach(ss, m, to) \in [Sockets -> SockRecords]
           /\ \A z \in Sockets : Heard(ss[z], ToEach(ss, m, to)[z], m)
                                /\ Keeps(ss[z], ToEach(ss, m, to)[z])
<1>2. ASSUME NEW z \in Sockets
      PROVE  ToEach(ss, m, to)[z] \in SockRecords /\ Heard(ss[z], ToEach(ss, m, to)[z], m)
  <2>1. PICK y \in SockRecords : Say(ss, z, m) = With(ss, z, y) /\ Heard(ss[z], y, m)
    BY SayIs
  <2>2. Say(ss, z, m)[z] = y
    BY <2>1, WithIs
  <2>3. Heard(ss[z], ss[z], m)
    BY DEF Heard
  <2> QED  BY <2>1, <2>2, <2>3 DEF ToEach
<1>3. ToEach(ss, m, to) \in [Sockets -> SockRecords]
  <2>1. ToEach(ss, m, to) = [z \in Sockets |-> ToEach(ss, m, to)[z]]
    BY DEF ToEach
  <2> QED  BY <1>2, <2>1
<1>4. \A z \in Sockets : Keeps(ss[z], ToEach(ss, m, to)[z])
  BY <1>2, HeardKeeps
<1> QED  BY <1>2, <1>3, <1>4

LEMMA BroadcastIs ==
    ASSUME NEW ss \in [Sockets -> SockRecords], NEW r \in RoomRecords, NEW to
    PROVE  /\ ToEach(ss, Event(r), to) \in [Sockets -> SockRecords]
           /\ \A z \in Sockets : Keeps(ss[z], ToEach(ss, Event(r), to)[z])
<1>1. Event(r) \in DownFrames /\ ~IsTalk(Event(r)) /\ ~NotJoined(Event(r))
  BY FramesTyped, FramesAre DEF IsTalk, NotJoined, Unauthorized
<1> QED  BY <1>1, ToEachIs

LEMMA DismissedIs ==
    ASSUME NEW ss \in [Sockets -> SockRecords], NEW who
    PROVE  /\ Dismissed(ss, who) \in [Sockets -> SockRecords]
           /\ \A z \in Sockets : Keeps(ss[z], Dismissed(ss, who)[z])
<1>1. Close(1001) \in DownFrames /\ ~IsTalk(Close(1001)) /\ ~NotJoined(Close(1001))
  BY FramesTyped, FramesAre DEF IsTalk, NotJoined, Unauthorized
<1>2. ASSUME NEW z \in Sockets
      PROVE  /\ Dismissed(ss, who)[z] \in SockRecords
             /\ Keeps(ss[z], Dismissed(ss, who)[z])
  <2>1. PICK y \in SockRecords : Say(ss, z, Close(1001)) = With(ss, z, y)
                                 /\ Heard(ss[z], y, Close(1001))
    BY <1>1, SayIs
  <2>2. Say(ss, z, Close(1001))[z] = y
    BY <2>1, WithIs
  <2>3. Keeps(ss[z], ss[z])
    BY DEF Keeps
  <2>4. Keeps(ss[z], y)
    BY <1>1, <2>1, HeardKeeps
  <2> DEFINE w == [y EXCEPT !.server = IF @ = "open" THEN "closing" ELSE @]
  <2>5. /\ w \in SockRecords /\ w.client = y.client /\ w.up = y.up /\ w.down = y.down
        /\ w.joining = y.joining /\ w.denied = y.denied /\ w.run = y.run /\ w.userId = y.userId
        /\ w.server = IF y.server = "open" THEN "closing" ELSE y.server
    BY DEF SockRecords
  <2>6. Dismissed(ss, who)[z] = IF z \in who THEN w ELSE ss[z]
    BY <2>2 DEF Dismissed
  <2> HIDE DEF w
  <2>7. Orderly(y) => Orderly(w)
    BY <2>5, Constants DEF Orderly, Introduced
  <2>8. \A s, d : Talks(y, s, d) => Talks(w, s, d)
    BY <2>5 DEF Talks
  <2>9. Keeps(ss[z], w)
    BY <2>4, <2>5, <2>7, <2>8 DEF Keeps
  <2> QED  BY <2>3, <2>5, <2>6, <2>9
<1>3. Dismissed(ss, who) = [z \in Sockets |-> Dismissed(ss, who)[z]]
  BY DEF Dismissed
<1> QED  BY <1>2, <1>3

LEMMA CutIs ==
    ASSUME NEW ss \in [Sockets -> SockRecords], NEW who
    PROVE  /\ Cut(ss, who) \in [Sockets -> SockRecords]
           /\ \A z \in Sockets : Keeps(ss[z], Cut(ss, who)[z])
<1>1. Close(1006) \in DownFrames /\ ~IsTalk(Close(1006)) /\ ~NotJoined(Close(1006))
  BY FramesTyped, FramesAre DEF IsTalk, NotJoined, Unauthorized
<1>2. ASSUME NEW z \in Sockets
      PROVE  /\ Cut(ss, who)[z] \in SockRecords
             /\ Keeps(ss[z], Cut(ss, who)[z])
  <2>1. PICK x \in SockRecords : x = ss[z]
    OBVIOUS
  <2>2. CASE z \in who /\ x.server \in {"open", "closing"}
    <3>0. PICK left : left = IF x.client \in {"open", "closing"} THEN Put(x.down, Close(1006))
                             ELSE x.down
      OBVIOUS
    <3> DEFINE w == [x EXCEPT !.server = "closed", !.joining = None, !.run = None,
                              !.userId = None, !.up = <<>>, !.down = left]
    <3>1. x.down \in Seq(DownFrames) /\ <<>> \in Seq(UpFrames)
      BY SockFields
    <3>2. left = x.down \/ left = Append(x.down, Close(1006))
      BY <3>0 DEF Put
    <3>4. Cut(ss, who)[z] = w
      BY <2>1, <2>2, <3>0 DEF Cut
    <3>3. left \in Seq(DownFrames)
      <4>1. Append(x.down, Close(1006)) \in Seq(DownFrames)
        BY <1>1, <3>1
      <4>2. x.down \in Seq(DownFrames)
        BY <3>1
      <4>3. CASE left = x.down
        BY <4>2, <4>3
      <4>4. CASE left = Append(x.down, Close(1006))
        BY <4>1, <4>4
      <4> QED  BY <3>2, <4>3, <4>4
    <3>5. /\ w \in SockRecords /\ w.client = x.client /\ w.up = <<>> /\ w.down = left
          /\ w.joining = None /\ w.denied = x.denied /\ w.run = None /\ w.userId = None
          /\ w.server = "closed"
      BY <3>1, <3>3 DEF SockRecords
    <3> HIDE DEF w
    <3>6. \A i \in DOMAIN w.down : \/ i \in DOMAIN x.down /\ w.down[i] = x.down[i]
                                   \/ w.down[i] = Close(1006)
      BY <1>1, <3>1, <3>2, <3>5, Appended
    <3>7. Orderly(x) => Orderly(w)
      BY <1>1, <2>2, <3>5, <3>6, Constants DEF Orderly
    <3>8. ASSUME NEW s, NEW d, Talks(x, s, d) PROVE Talks(w, s, d)
      <4>1. \A i \in DOMAIN w.down : IsTalk(w.down[i]) => i \in DOMAIN x.down /\ w.down[i] = x.down[i]
        BY <1>1, <3>6
      <4>2. \A i \in DOMAIN w.down : w.down[i].t = "welcome" \/ Unauthorized(w.down[i])
                                       => IsTalk(w.down[i])
        BY DEF IsTalk
      <4>3. DOMAIN w.up = {}
        BY <3>5
      <4> QED  BY <3>5, <3>8, <4>1, <4>2, <4>3 DEF Talks
    <3> QED  BY <2>1, <3>4, <3>5, <3>7, <3>8 DEF Keeps
  <2>3. CASE ~(z \in who /\ x.server \in {"open", "closing"})
    <3>1. Cut(ss, who)[z] = x
      BY <2>1, <2>3 DEF Cut
    <3> QED  BY <2>1, <3>1 DEF Keeps
  <2> QED  BY <2>2, <2>3
<1>3. Cut(ss, who) = [z \in Sockets |-> Cut(ss, who)[z]]
  BY DEF Cut
<1> QED  BY <1>2, <1>3

-----------------------------------------------------------------------------
(* The steps.                                                                *)

\* Every socket is as good as it was, and nothing else of the browser changes.
LEMMA AllKept ==
    ASSUME SocksTyped, RefsOK, TalkFits, UNCHANGED <<disk, tab>>,
           sock' \in [Sockets -> SockRecords], \A z \in Sockets : Keeps(sock[z], sock'[z])
    PROVE  SocksTyped' /\ RefsOK' /\ TalkFits'
<1>1. \A z \in Sockets : sock'[z].client = sock[z].client
  BY DEF Keeps
<1>2. SocksTyped'
  BY DEF SocksTyped, Keeps
<1>3. RefsOK'
  <2>1. tab.ref # None => tab.ref \in Sockets
    BY <1>1 DEF RefsOK
  <2> QED  BY <1>1, <2>1 DEF RefsOK
<1>4. TalkFits'
  BY <1>1 DEF TalkFits, Keeps
<1> QED  BY <1>2, <1>3, <1>4

\* One socket changes, and what is sent to all then; no client's end does.
LEMMA OneKept ==
    ASSUME SocksTyped, RefsOK, TalkFits, UNCHANGED disk,
           tab'.ref = tab.ref, tab'.status = tab.status, Retries(tab') <=> Retries(tab),
           NEW s \in Sockets, NEW y \in SockRecords, NEW mid, mid = With(sock, s, y),
           y.client = sock[s].client, Orderly(y), y.client = "open" => Talks(y, s, disk),
           sock' \in [Sockets -> SockRecords], \A z \in Sockets : Keeps(mid[z], sock'[z])
    PROVE  SocksTyped' /\ RefsOK' /\ TalkFits'
<1>0. mid[s] = y /\ \A z \in Sockets : z # s => mid[z] = sock[z]
  <2>1. sock \in [Sockets -> SockRecords]
    BY DEF SocksTyped
  <2> QED  BY <2>1, WithIs
<1>1. \A z \in Sockets : mid[z].client = sock[z].client
  BY <1>0
<1>2. \A z \in Sockets : sock'[z].client = sock[z].client
  BY <1>1 DEF Keeps
<1>3. SocksTyped'
  BY <1>0 DEF SocksTyped, Keeps
<1>4. RefsOK'
  BY <1>2 DEF RefsOK
<1>5. \A z \in Sockets : sock'[z].client = "open" => Talks(sock'[z], z, disk)
  BY <1>0, <1>2 DEF TalkFits, Keeps
<1>6. TalkFits'
  BY <1>5 DEF TalkFits
<1> QED  BY <1>3, <1>4, <1>6

LEMMA JustOneKept ==
    ASSUME SocksTyped, RefsOK, TalkFits, UNCHANGED disk,
           tab'.ref = tab.ref, tab'.status = tab.status, Retries(tab') <=> Retries(tab),
           NEW s \in Sockets, NEW y \in SockRecords, sock' = With(sock, s, y),
           y.client = sock[s].client, Orderly(y), y.client = "open" => Talks(y, s, disk)
    PROVE  SocksTyped' /\ RefsOK' /\ TalkFits'
<1>1. sock' \in [Sockets -> SockRecords]
  BY WithIs DEF SocksTyped
<1>2. PICK mid : mid = With(sock, s, y)
  OBVIOUS
<1>3. \A z \in Sockets : Keeps(mid[z], sock'[z])
  BY <1>1, <1>2 DEF Keeps
<1> QED  BY <1>1, <1>2, <1>3, OneKept

Ends(t) == [t EXCEPT !.ref = None, !.status = "closed", !.error = "closed"]
Reconnects(t) == [t EXCEPT !.ref = None, !.status = "reconnecting", !.retry = TRUE]

LEMMA OnCloseTyped ==
    ASSUME NEW t \in TabRecords
    PROVE  /\ Ends(t) \in TabRecords /\ Ends(t).ref = None /\ Ends(t).status = "closed"
           /\ Ends(t).retry = t.retry
           /\ Reconnects(t) \in TabRecords /\ Reconnects(t).ref = None
           /\ Reconnects(t).status = "reconnecting" /\ Retries(Reconnects(t))
BY DEF TabRecords, Retries, Ends, Reconnects

\* onclose: the socket is closed for good, and is no longer wsRef.
LEMMA ClosedOne ==
    ASSUME StateTyped, SocksTyped, RefsOK, TalkFits, UNCHANGED disk,
           NEW s \in Sockets, NEW y \in SockRecords, sock' = With(sock, s, y),
           y.client = "closed", Orderly(y), NEW c \in {1000, 1001, 1006},
           tab' = OnClose(tab, s, c)
    PROVE  tab' \in TabRecords /\ SocksTyped' /\ RefsOK' /\ TalkFits'
<1>1. tab \in TabRecords
  BY DEF StateTyped
<1>2. /\ sock' \in [Sockets -> SockRecords] /\ sock'[s] = y
      /\ \A z \in Sockets : z # s => sock'[z] = sock[z]
  BY WithIs DEF SocksTyped
<1>3. SocksTyped'
  BY <1>2 DEF SocksTyped
<1>4. TalkFits'
  BY <1>2 DEF TalkFits
<1>5. CASE tab.ref # s
  <2>1. tab' = tab
    BY <1>5 DEF OnClose
  <2>2. RefsOK'
    BY <1>2, <1>5, <2>1 DEF RefsOK
  <2> QED  BY <1>1, <1>3, <1>4, <2>1, <2>2
<1>6. CASE tab.ref = s
  <2>0. /\ tab' \in TabRecords /\ tab'.ref = None
        /\ \/ tab'.status = "closed" /\ ~Retries(tab')
           \/ tab'.status = "reconnecting" /\ Retries(tab')
    <3>1. CASE c = 1001
      <4>1. tab' = Ends(tab)
        BY <1>6, <3>1 DEF OnClose, Ends
      <4>2. tab' \in TabRecords /\ tab'.ref = None /\ tab'.status = "closed" /\ tab'.retry = tab.retry
        BY <1>1, <4>1, OnCloseTyped
      <4>3. tab.ref # None
        BY <1>6, Constants
      <4>4. ~Retries(tab)
        BY <4>3 DEF RefsOK
      <4>5. ~Retries(tab')
        BY <4>2, <4>4 DEF Retries
      <4> QED  BY <4>2, <4>5
    <3>2. CASE c # 1001
      <4>1. tab' = Reconnects(tab)
        BY <1>6, <3>2 DEF OnClose, Reconnects
      <4> QED  BY <1>1, <4>1, OnCloseTyped
    <3> QED  BY <3>1, <3>2
  <2>3. \A z \in Sockets : sock'[z].client \notin {"connecting", "open"}
    BY <1>2, <1>6 DEF RefsOK
  <2>4. RefsOK'
    BY <2>0, <2>3 DEF RefsOK
  <2> QED  BY <1>3, <1>4, <2>0, <2>4
<1> QED  BY <1>5, <1>6

\* An identity that is remembered fits the join that says it.
LEMMA JoinOfDisk ==
    ASSUME StateTyped, TalkFits
    PROVE  /\ JoinFrame(Remembered, disk.token) \in UpFrames
           /\ JoinFits(disk, JoinFrame(Remembered, disk.token))
<1>1. disk.id \in Ids \cup {None} /\ disk.token \in BOOLEAN
  BY DEF StateTyped
<1>2. Remembered \in Ids \cup {None}
  BY <1>1 DEF Remembered
<1>3. JoinFits(disk, JoinFrame(Remembered, disk.token))
  <2>1. CASE Guest(disk)
    BY <2>1, FramesAre DEF JoinFits, Guest, Remembered, TalkFits
  <2>2. CASE ~Guest(disk) /\ disk.token = TRUE
    BY <2>2, FramesAre DEF JoinFits
  <2>3. CASE ~Guest(disk) /\ disk.token = FALSE
    BY <2>3, FramesAre DEF JoinFits, Guest, Remembered
  <2> QED  BY <1>1, <2>1, <2>2, <2>3
<1> QED  BY <1>1, <1>2, <1>3, FramesTyped

LEMMA OpenedKeeps ==
    ASSUME ClientInv, NEW s \in Sockets, Opened(s) PROVE ClientInv'
<1> DEFINE m == JoinFrame(Remembered, disk.token)
<1> DEFINE y == [sock[s] EXCEPT !.client = "open", !.server = "open", !.up = <<m>>]
<1>1. StateTyped /\ SocksTyped /\ RefsOK /\ TalkFits
  BY DEF ClientInv
<1>2. m \in UpFrames /\ JoinFits(disk, m) /\ m.t = "join"
  BY <1>1, JoinOfDisk, FramesAre
<1> HIDE DEF m
<1>3. /\ sock[s].client = "connecting" /\ tab' = [tab EXCEPT !.status = "open"]
      /\ UNCHANGED <<disk, expired, room, upsets>>
  BY DEF Opened, bounds
<1>4. sock' = With(sock, s, y)
  BY DEF Opened, m, With
<1>5. sock[s] \in SockRecords /\ Orderly(sock[s])
  BY <1>1 DEF SocksTyped
<1>6. /\ y \in SockRecords /\ y.client = "open" /\ y.server = "open" /\ y.up = <<m>>
      /\ y.down = sock[s].down /\ y.joining = sock[s].joining /\ y.denied = sock[s].denied
  <2>1. <<m>> \in Seq(UpFrames)
    BY <1>2
  <2> QED  BY <1>5, <2>1 DEF SockRecords
<1>7. y.down = <<>> /\ y.joining = None
  BY <1>3, <1>5, <1>6 DEF Orderly
<1> HIDE DEF y
<1>8. DOMAIN y.up = {1} /\ y.up[1] = m /\ y.up # <<>> /\ DOMAIN y.down = {}
  BY <1>6, <1>7
<1>9. Orderly(y)
  BY <1>2, <1>6, <1>8, Constants DEF Orderly, Introduced
<1>10. Talks(y, s, disk)
  BY <1>2, <1>7, <1>8 DEF Talks, IsJoin
<1>11. tab \in TabRecords /\ tab' \in TabRecords /\ tab'.status = "open"
       /\ tab'.ref = tab.ref /\ tab'.retry = tab.retry
  BY <1>1, <1>3 DEF StateTyped, TabRecords
<1>12. /\ sock' \in [Sockets -> SockRecords] /\ sock'[s] = y
       /\ \A z \in Sockets : z # s => sock'[z] = sock[z]
  BY <1>1, <1>4, <1>6, WithIs DEF SocksTyped
<1>13. StateTyped'
  BY <1>1, <1>3, <1>11 DEF StateTyped
<1>14. SocksTyped'
  BY <1>1, <1>9, <1>12 DEF SocksTyped
<1>15. RefsOK'
  <2>1. tab.ref = s /\ tab.ref # None
    BY <1>1, <1>3, Constants DEF RefsOK
  <2>2. ~Retries(tab)
    BY <1>1, <2>1 DEF RefsOK
  <2>3. ~Retries(tab')
    BY <1>11, <2>2 DEF Retries
  <2> QED  BY <1>1, <1>6, <1>11, <1>12, <2>1, <2>3 DEF RefsOK
<1>16. TalkFits'
  BY <1>1, <1>3, <1>10, <1>12 DEF TalkFits
<1> QED  BY <1>13, <1>14, <1>15, <1>16 DEF ClientInv
\* What a step writes to a socket: its end of the connection closes, or the server's does.
Shut(x) == [x EXCEPT !.client = "closed"]
Silent(x) == [x EXCEPT !.client = "closed", !.down = <<>>]
Left(x, said) == [x EXCEPT !.server = "closed", !.up = <<>>, !.run = None, !.userId = None,
                           !.down = said]

ShutAt(f, s) == [f EXCEPT ![s].client = "closed"]
Silenced(f, s) == [f EXCEPT ![s].client = "closed", ![s].down = <<>>]
LeftAt(f, s, said) ==
    [f EXCEPT ![s].server = "closed", ![s].up = <<>>, ![s].run = None, ![s].userId = None,
              ![s].down = said]

LEMMA ShutIs ==
    /\ \A f \in [Sockets -> SockRecords], s \in Sockets :
          /\ ShutAt(f, s) = With(f, s, Shut(f[s]))
          /\ Silenced(f, s) = With(f, s, Silent(f[s]))
    /\ \A x \in SockRecords :
          /\ Shut(x) \in SockRecords /\ Silent(x) \in SockRecords
          /\ Shut(x).client = "closed" /\ Silent(x).client = "closed"
          /\ Orderly(x) => Orderly(Shut(x)) /\ Orderly(Silent(x))
<1>1. ASSUME NEW f \in [Sockets -> SockRecords], NEW s \in Sockets
      PROVE  /\ ShutAt(f, s) = With(f, s, Shut(f[s]))
             /\ Silenced(f, s) = With(f, s, Silent(f[s]))
  <2>1. ShutAt(f, s) = With(f, s, Shut(f[s]))
    BY DEF With, Shut, ShutAt
  <2>2. Silenced(f, s) = With(f, s, Silent(f[s]))
    BY DEF With, Silent, Silenced
  <2> QED  BY <2>1, <2>2
<1>2. ASSUME NEW x \in SockRecords
      PROVE  /\ Shut(x) \in SockRecords /\ Silent(x) \in SockRecords
             /\ Shut(x).client = "closed" /\ Silent(x).client = "closed"
             /\ Orderly(x) => Orderly(Shut(x)) /\ Orderly(Silent(x))
  <2>1. /\ Shut(x) \in SockRecords /\ Shut(x).client = "closed" /\ Shut(x).down = x.down
        /\ Shut(x).up = x.up /\ Shut(x).server = x.server /\ Shut(x).joining = x.joining
        /\ Shut(x).denied = x.denied /\ Shut(x).run = x.run /\ Shut(x).userId = x.userId
    BY DEF SockRecords, Shut
  <2>2. <<>> \in Seq(DownFrames)
    OBVIOUS
  <2>3. /\ Silent(x) \in SockRecords /\ Silent(x).client = "closed" /\ Silent(x).down = <<>>
        /\ Silent(x).up = x.up /\ Silent(x).server = x.server /\ Silent(x).joining = x.joining
        /\ Silent(x).denied = x.denied /\ Silent(x).run = x.run /\ Silent(x).userId = x.userId
    BY <2>2 DEF SockRecords, Silent
  <2>4. Orderly(x) => Orderly(Shut(x))
    BY <2>1, Constants DEF Orderly, Introduced
  <2>5. Orderly(x) => Orderly(Silent(x))
    BY <2>3, Constants DEF Orderly, Introduced
  <2> QED  BY <2>1, <2>3, <2>4, <2>5
<1> QED  BY <1>1, <1>2

LEMMA LeftIs ==
    /\ \A f \in [Sockets -> SockRecords], s \in Sockets, said \in Seq(DownFrames) :
          LeftAt(f, s, said) = With(f, s, Left(f[s], said))
    /\ \A x \in SockRecords, said \in Seq(DownFrames) :
          /\ Left(x, said) \in SockRecords /\ Left(x, said).client = x.client
          /\ Left(x, said).down = said /\ Left(x, said).up = <<>>
          /\ Left(x, said).server = "closed" /\ Left(x, said).joining = x.joining
          /\ Left(x, said).denied = x.denied
          /\ Left(x, said).run = None /\ Left(x, said).userId = None
<1>1. ASSUME NEW f \in [Sockets -> SockRecords], NEW s \in Sockets, NEW said \in Seq(DownFrames)
      PROVE  LeftAt(f, s, said) = With(f, s, Left(f[s], said))
  BY DEF With, Left, LeftAt
<1>2. ASSUME NEW x \in SockRecords, NEW said \in Seq(DownFrames)
      PROVE  /\ Left(x, said) \in SockRecords /\ Left(x, said).client = x.client
             /\ Left(x, said).down = said /\ Left(x, said).up = <<>>
             /\ Left(x, said).server = "closed" /\ Left(x, said).joining = x.joining
             /\ Left(x, said).denied = x.denied
             /\ Left(x, said).run = None /\ Left(x, said).userId = None
  <2>1. <<>> \in Seq(UpFrames)
    OBVIOUS
  <2> QED  BY <2>1 DEF SockRecords, Left
<1> QED  BY <1>1, <1>2

LEMMA ClosedKeeps ==
    ASSUME ClientInv, NEW s \in Sockets, Closed(s) PROVE ClientInv'
<1>1. StateTyped /\ SocksTyped /\ RefsOK /\ TalkFits
  BY DEF ClientInv
<1>2. /\ sock \in [Sockets -> SockRecords] /\ sock[s] \in SockRecords /\ Orderly(sock[s])
      /\ sock[s].down # <<>> /\ Head(sock[s].down).t = "close"
  BY <1>1 DEF SocksTyped, Closed
<1>3. PICK c \in {1000, 1001, 1006} : c = Head(sock[s].down).code
  <2>1. Head(sock[s].down) \in DownFrames
    BY <1>2, SockFields
  <2> QED  BY <1>2, <2>1, DownFrameIs
<1>4. PICK x \in SockRecords : x = Silent(sock[s]) /\ x.client = "closed" /\ Orderly(x)
  BY <1>2, ShutIs
<1>5. PICK ss \in [Sockets -> SockRecords] : ss = With(sock, s, x) /\ ss[s] = x
  BY <1>2, WithIs
<1>6. Silenced(sock, s) = ss
  BY <1>2, <1>4, <1>5, ShutIs
<1>7. sock' = Ask(Silenced(sock, s), s, Leaving)
  BY DEF Closed, Silenced
<1>8. sock' = Ask(ss, s, Leaving)
  BY ONLY <1>6, <1>7
<1>9. tab' = OnClose(tab, s, c)
  BY <1>3 DEF Closed
<1>10. disk' = disk /\ expired' = expired /\ room' = room /\ upsets' = upsets
  BY DEF Closed, bounds
<1>11. PICK y \in SockRecords : Ask(ss, s, Leaving) = With(ss, s, y) /\ Sent(x, y, Leaving)
  BY <1>5, AskIs, FramesTyped
<1>12. sock' = With(sock, s, y)
  BY <1>2, <1>5, <1>8, <1>11, TwiceIs
<1>13. Orderly(y) /\ y.client = "closed"
  BY <1>4, <1>11, SentOrderly, SentFields, FramesTyped
<1>14. tab' \in TabRecords /\ SocksTyped' /\ RefsOK' /\ TalkFits'
  BY <1>1, <1>9, <1>10, <1>12, <1>13, ClosedOne
<1>15. StateTyped'
  BY <1>1, <1>10, <1>14 DEF StateTyped
<1> QED  BY <1>14, <1>15 DEF ClientInv

\* A bound that is spent leaves the run within it.
LEMMA UpsetTyped ==
    ASSUME StateTyped, Upset
    PROVE  /\ upsets' \in 0..MaxUpsets /\ room.run <= 1 + upsets' /\ room.run + 1 <= 1 + upsets'
           /\ room.run + 1 \in Runs
BY Constants DEF StateTyped, Upset, RoomRecords, Runs

LEMMA FailedKeeps ==
    ASSUME ClientInv, NEW s \in Sockets, Fails(s) \/ Refused(s) PROVE ClientInv'
<1>1. StateTyped /\ SocksTyped /\ RefsOK /\ TalkFits
  BY DEF ClientInv
<1>2. sock \in [Sockets -> SockRecords] /\ sock[s] \in SockRecords /\ Orderly(sock[s])
  BY <1>1 DEF SocksTyped
<1>3. PICK y \in SockRecords : y = Shut(sock[s]) /\ y.client = "closed" /\ Orderly(y)
  BY <1>2, ShutIs
<1>4. sock' = With(sock, s, y)
  <2>1. sock' = ShutAt(sock, s)
    BY DEF Fails, Refused, ShutAt
  <2> QED  BY <1>2, <1>3, <2>1, ShutIs
<1>5. PICK c \in {1000, 1001, 1006} : c = 1006
  OBVIOUS
<1>6. /\ tab' = OnClose(tab, s, c) /\ disk' = disk
      /\ expired' = expired /\ room' = room /\ (upsets' = upsets \/ Upset)
  BY <1>5 DEF Fails, Refused, bounds
<1>7. tab' \in TabRecords /\ SocksTyped' /\ RefsOK' /\ TalkFits'
  BY <1>1, <1>3, <1>4, <1>6, ClosedOne
<1>8. StateTyped'
  BY <1>1, <1>6, <1>7, UpsetTyped DEF StateTyped
<1> QED  BY <1>7, <1>8 DEF ClientInv

\* onClose: the server's end forgets the conn.
LEMMA LeavesKeeps ==
    ASSUME ClientInv, NEW s \in Sockets, Leaves(s) PROVE ClientInv'
<1>1. StateTyped /\ SocksTyped /\ RefsOK /\ TalkFits
  BY DEF ClientInv
<1>2. /\ sock \in [Sockets -> SockRecords] /\ sock[s] \in SockRecords /\ Orderly(sock[s])
      /\ sock[s].down \in Seq(DownFrames) /\ sock[s].up # <<>>
  BY <1>1, SockFields DEF SocksTyped, Leaves
<1>3. PICK said : said = IF sock[s].client = "closing" THEN Put(sock[s].down, Close(1000))
                         ELSE sock[s].down
  OBVIOUS
<1>4. /\ said = sock[s].down \/ (said = Append(sock[s].down, Close(1000)) /\ sock[s].client # "open")
      /\ Close(1000) \in DownFrames /\ Close(1000).t = "close"
  BY <1>3, FramesTyped, FramesAre DEF Put
<1>5. said \in Seq(DownFrames)
  <2>1. Append(sock[s].down, Close(1000)) \in Seq(DownFrames)
    BY <1>2, <1>4
  <2>2. said = sock[s].down \/ said = Append(sock[s].down, Close(1000))
    BY <1>4
  <2>3. sock[s].down \in Seq(DownFrames)
    BY <1>2
  <2> QED  BY ONLY <2>1, <2>2, <2>3
<1>0. PICK y : y = Left(sock[s], said)
  OBVIOUS
<1>6. /\ y \in SockRecords /\ y.client = sock[s].client /\ y.down = said /\ y.up = <<>>
      /\ y.server = "closed" /\ y.joining = sock[s].joining /\ y.denied = sock[s].denied
      /\ y.run = None /\ y.userId = None
  BY <1>0, <1>2, <1>5, LeftIs
<1>7. sock' = With(sock, s, y)
  <2>1. sock' = LeftAt(sock, s, said)
    BY <1>3 DEF Leaves, LeftAt
  <2> QED  BY <1>0, <1>2, <1>5, <2>1, LeftIs
<1>8. /\ disk' = disk /\ expired' = expired /\ tab' = tab /\ upsets' = upsets
      /\ room' = [room EXCEPT !.attached = @ \ {s}]
  BY DEF Leaves, bounds
<1>9. \A i \in DOMAIN said : NotJoined(said[i]) => i \in DOMAIN sock[s].down /\ said[i] = sock[s].down[i]
  BY <1>2, <1>4, Appended DEF NotJoined
<1>10. Orderly(y)
  BY <1>2, <1>6, <1>9, Constants DEF Orderly
<1>11. ASSUME y.client = "open" PROVE Talks(y, s, disk)
  <2>1. Talks(sock[s], s, disk)
    BY <1>1, <1>6, <1>11 DEF TalkFits
  <2>2. y.down = sock[s].down
    BY <1>4, <1>6, <1>11
  <2>3. DOMAIN y.up = {}
    BY <1>6
  <2> QED  BY <1>6, <2>1, <2>2, <2>3 DEF Talks
<1>12. SocksTyped' /\ RefsOK' /\ TalkFits'
  BY <1>1, <1>6, <1>7, <1>8, <1>10, <1>11, JustOneKept
<1>13. StateTyped'
  <2>1. room' \in RoomRecords /\ room'.run = room.run
    BY <1>1, <1>8 DEF StateTyped, RoomRecords
  <2> QED  BY <1>1, <1>8, <2>1 DEF StateTyped
<1> QED  BY <1>12, <1>13 DEF ClientInv

\* A join is answered.
LEMMA TalkHeard ==
    ASSUME NEW x \in SockRecords, NEW y \in SockRecords, NEW m \in DownFrames, Heard(x, y, m),
           \A i \in DOMAIN x.up : ~IsJoin(x.up[i]), x.joining = None,
           \A i \in DOMAIN x.down : ~IsTalk(x.down[i]),
           NEW s, NEW d, m.t = "welcome" => IdFits(d, s, m.you), Unauthorized(m) => ~Guest(d)
    PROVE  Talks(y, s, d)
<1>1. x.down \in Seq(DownFrames) /\ y.up = x.up /\ y.joining = None
  BY SockFields, HeardFields
<1>2. CASE y.down = x.down
  BY <1>1, <1>2 DEF Talks, IsTalk
<1>3. CASE y.down = Append(x.down, m)
  <2>1. \A i \in DOMAIN y.down : IsTalk(y.down[i]) => i = Len(x.down) + 1 /\ y.down[i] = m
    BY <1>1, <1>3, Appended
  <2>2. \A i \in DOMAIN y.down : y.down[i].t = "welcome" \/ Unauthorized(y.down[i])
                                   => IsTalk(y.down[i])
    BY DEF IsTalk
  <2> QED  BY <1>1, <2>1, <2>2 DEF Talks
<1> QED  BY <1>2, <1>3, HeardFields

\* What a handler writes to its socket: a frame is read, a join begins or ends, is turned
\* down, or is granted.
Read(x) == [x EXCEPT !.up = Tail(x.up)]
ReadAt(f, s) == [f EXCEPT ![s].up = Tail(@)]
Denied(x) == [x EXCEPT !.denied = TRUE]
DeniedAt(f, s) == [f EXCEPT ![s].denied = TRUE]
Joining(x, id) == [x EXCEPT !.joining = id]
JoiningAt(f, s, id) == [f EXCEPT ![s].joining = id]
Granted(x, n, id) == [x EXCEPT !.run = n, !.userId = id]
GrantedAt(f, s, n, id) == [f EXCEPT ![s].run = n, ![s].userId = id]

LEMMA WritesAre ==
    ASSUME NEW f \in [Sockets -> SockRecords], NEW s \in Sockets
    PROVE  /\ ReadAt(f, s) = With(f, s, Read(f[s]))
           /\ DeniedAt(f, s) = With(f, s, Denied(f[s]))
           /\ \A id : JoiningAt(f, s, id) = With(f, s, Joining(f[s], id))
           /\ \A n, id : GrantedAt(f, s, n, id) = With(f, s, Granted(f[s], n, id))
<1>1. ReadAt(f, s) = With(f, s, Read(f[s]))
  BY DEF With, Read, ReadAt
<1>2. DeniedAt(f, s) = With(f, s, Denied(f[s]))
  BY DEF With, Denied, DeniedAt
<1>3. \A id : JoiningAt(f, s, id) = With(f, s, Joining(f[s], id))
  BY DEF With, Joining, JoiningAt
<1>4. \A n, id : GrantedAt(f, s, n, id) = With(f, s, Granted(f[s], n, id))
  BY DEF With, Granted, GrantedAt
<1> QED  BY <1>1, <1>2, <1>3, <1>4

LEMMA ReadIs ==
    ASSUME NEW x \in SockRecords, x.up # <<>>
    PROVE  /\ Read(x) \in SockRecords /\ Read(x).up = Tail(x.up) /\ Read(x).down = x.down
           /\ Read(x).client = x.client /\ Read(x).server = x.server
           /\ Read(x).joining = x.joining /\ Read(x).denied = x.denied
           /\ Read(x).run = x.run /\ Read(x).userId = x.userId
<1>1. Tail(x.up) \in Seq(UpFrames)
  BY SockFields
<1> QED  BY <1>1 DEF Read, SockRecords

LEMMA DeniedIs ==
    ASSUME NEW x \in SockRecords
    PROVE  /\ Denied(x) \in SockRecords /\ Denied(x).denied = TRUE /\ Denied(x).up = x.up
           /\ Denied(x).client = x.client /\ Denied(x).server = x.server
           /\ Denied(x).joining = x.joining /\ Denied(x).down = x.down
           /\ Denied(x).run = x.run /\ Denied(x).userId = x.userId
BY DEF Denied, SockRecords

LEMMA JoiningIs ==
    ASSUME NEW x \in SockRecords, NEW id \in Ids \cup {None}
    PROVE  /\ Joining(x, id) \in SockRecords /\ Joining(x, id).joining = id
           /\ Joining(x, id).client = x.client /\ Joining(x, id).server = x.server
           /\ Joining(x, id).up = x.up /\ Joining(x, id).down = x.down
           /\ Joining(x, id).denied = x.denied
           /\ Joining(x, id).run = x.run /\ Joining(x, id).userId = x.userId
BY DEF Joining, SockRecords

LEMMA GrantedIs ==
    ASSUME NEW x \in SockRecords, NEW n \in Runs, NEW id \in Ids
    PROVE  /\ Granted(x, n, id) \in SockRecords /\ Granted(x, n, id).joining = x.joining
           /\ Granted(x, n, id).client = x.client /\ Granted(x, n, id).server = x.server
           /\ Granted(x, n, id).up = x.up /\ Granted(x, n, id).down = x.down
           /\ Granted(x, n, id).denied = x.denied
           /\ Granted(x, n, id).run = n /\ Granted(x, n, id).userId = id
BY DEF Granted, SockRecords

\* The one join of a socket is read: there is none left, and none was answered.
LEMMA ReadTalks ==
    ASSUME NEW x \in SockRecords, x.up # <<>>, NEW s, NEW d, Talks(x, s, d)
    PROVE  /\ Talks(Read(x), s, d)
           /\ IsJoin(Head(x.up)) => /\ \A i \in DOMAIN Read(x).up : ~IsJoin(Read(x).up[i])
                                    /\ \A i \in DOMAIN x.down : ~IsTalk(x.down[i])
                                    /\ JoinFits(d, Head(x.up))
<1>1. x.up \in Seq(UpFrames)
  BY SockFields
<1>2. \A i \in DOMAIN Read(x).up : i + 1 \in DOMAIN x.up /\ i + 1 # 1 /\ Read(x).up[i] = x.up[i + 1]
  <2>1. PICK q \in Seq(UpFrames) : q = x.up
    BY <1>1
  <2>2. Read(x).up = Tail(q) /\ q # <<>>
    BY <2>1, ReadIs
  <2>3. \A i \in DOMAIN Tail(q) : i + 1 \in DOMAIN q /\ i + 1 # 1 /\ Tail(q)[i] = q[i + 1]
    BY <2>2, Dropped
  <2> QED  BY <2>1, <2>2, <2>3
<1>3. 1 \in DOMAIN x.up /\ Head(x.up) = x.up[1] /\ DOMAIN x.up \subseteq Int
      /\ DOMAIN Read(x).up \subseteq Int
  <2>1. DOMAIN x.up = 1..Len(x.up) /\ 1 \in DOMAIN x.up /\ Head(x.up) = x.up[1]
    BY <1>1, Dropped
  <2>2. DOMAIN Read(x).up = 1..Len(Read(x).up)
    BY <1>1, ReadIs
  <2> QED  BY <2>1, <2>2
<1>4. /\ Read(x).down = x.down /\ Read(x).joining = x.joining
  BY ReadIs
<1>5. \A i, j \in DOMAIN Read(x).up : IsJoin(Read(x).up[i]) /\ IsJoin(Read(x).up[j]) => i = j
  BY <1>2, <1>3 DEF Talks
<1>6. (\E i \in DOMAIN Read(x).up : IsJoin(Read(x).up[i])) => \E i \in DOMAIN x.up : IsJoin(x.up[i])
  BY <1>2
<1>7. \A i \in DOMAIN Read(x).up : IsJoin(Read(x).up[i]) => JoinFits(d, Read(x).up[i])
  BY <1>2 DEF Talks
<1>8. Talks(Read(x), s, d)
  BY <1>4, <1>5, <1>6, <1>7 DEF Talks
<1>9. ASSUME IsJoin(Head(x.up))
      PROVE  /\ \A i \in DOMAIN Read(x).up : ~IsJoin(Read(x).up[i])
             /\ \A i \in DOMAIN x.down : ~IsTalk(x.down[i])
             /\ JoinFits(d, Head(x.up))
  <2>1. \A i \in DOMAIN Read(x).up : ~IsJoin(Read(x).up[i])
    BY <1>2, <1>3, <1>9 DEF Talks
  <2>2. \A i \in DOMAIN x.down : ~IsTalk(x.down[i])
    BY <1>3, <1>9 DEF Talks
  <2>3. JoinFits(d, Head(x.up))
    BY <1>3, <1>9 DEF Talks
  <2> QED  BY <2>1, <2>2, <2>3
<1> QED  BY <1>8, <1>9

\* The identity a join is given fits the one that is remembered.
LEMMA IdentityFits ==
    ASSUME NEW s \in Sockets, NEW m \in UpFrames, IsJoin(m), NEW d, JoinFits(d, m)
    PROVE  /\ Identity(s, m) \in Ids \cup {None}
           /\ Identity(s, m) # None => IdFits(d, s, Identity(s, m))
           /\ Identity(s, m) = None => ~Guest(d)
<1>1. m.id \in Ids \cup {None} /\ m.token \in BOOLEAN
  BY UpFrameIs DEF IsJoin
<1>2. s \in Ids /\ Account \in Ids /\ Account # None /\ s # None
  BY Constants
<1>3. CASE m.token = TRUE
  <2>1. ~Guest(d)
    BY <1>3 DEF JoinFits
  <2>2. Identity(s, m) = IF expired THEN None ELSE Account
    BY <1>3 DEF Identity
  <2> QED  BY <1>2, <2>1, <2>2 DEF IdFits
<1>4. CASE m.token = FALSE /\ Guest(d)
  <2>1. m.id = d.id /\ m.id # None /\ m.id # Account
    BY <1>4 DEF JoinFits, Guest
  <2>2. Identity(s, m) = m.id
    BY <1>4, <2>1 DEF Identity
  <2> QED  BY <1>1, <1>4, <2>1, <2>2 DEF IdFits
<1>5. CASE m.token = FALSE /\ ~Guest(d)
  <2>1. m.id = None /\ d.token = FALSE
    BY <1>5 DEF JoinFits
  <2>2. Identity(s, m) = s
    BY <1>2, <1>5, <2>1 DEF Identity
  <2> QED  BY <1>2, <1>5, <2>1, <2>2 DEF IdFits
<1> QED  BY <1>1, <1>3, <1>4, <1>5

\* A socket whose join was turned down, and is told so: it has read the join, or its
\* lookup is over.
LEMMA TurnedDown ==
    ASSUME NEW x \in SockRecords, Orderly(x), x.server # None, NEW z \in SockRecords,
           x.up = <<>> => z.up = <<>>, z.down = x.down, z.client = x.client,
           z.server = x.server, z.denied = x.denied,
           NEW y \in SockRecords, NEW m \in DownFrames, Heard(Denied(z), y, m)
    PROVE  Orderly(y) /\ y.client = x.client
<1>1. Denied(z) \in SockRecords /\ Denied(z).denied = TRUE /\ Denied(z).client = x.client
  BY DeniedIs
<1>2. Orderly(Denied(z))
  BY DeniedIs, Constants DEF Orderly, Introduced
<1> QED  BY <1>1, <1>2, HeardOrderly, HeardFields

\* An answer is read: who sends it has joined, or a join of his was turned down, or
\* awaits its session.
LEMMA AnswerRead ==
    ASSUME NEW x \in SockRecords, Orderly(x), x.up # <<>>, Head(x.up).t = "answer"
    PROVE  /\ Orderly(Read(x))
           /\ x.joining = None /\ (x.run = None \/ x.userId = None) => x.denied = TRUE
<1>1. x.up[1].t = "answer"
  BY SockFields, Dropped
<1>2. x.denied = TRUE \/ (x.run # None /\ x.userId # None) \/ x.joining # None
  <2>1. x.server \in {"open", "closing"}
    BY SockFields DEF Orderly
  <2> QED  BY <1>1, <2>1 DEF Orderly, Introduced
<1>3. Introduced(Read(x))
  BY <1>2, ReadIs DEF Introduced
<1> QED  BY <1>2, <1>3, ReadIs, Constants DEF Orderly

\* It is turned down with an error.
LEMMA RefusalKeeps ==
    ASSUME ClientInv, NEW s \in Sockets, sock[s].up # <<>>, Head(sock[s].up).t = "answer",
           NEW e \in DownFrames, ~IsTalk(e), NotJoined(e) => sock[s].denied = TRUE,
           sock' = Say(ReadAt(sock, s), s, e), UNCHANGED <<disk, tab>>
    PROVE  SocksTyped' /\ RefsOK' /\ TalkFits'
<1>1. StateTyped /\ SocksTyped /\ RefsOK /\ TalkFits
  BY DEF ClientInv
<1>2. sock \in [Sockets -> SockRecords]
  BY <1>1 DEF SocksTyped
<1>3. PICK x \in SockRecords : x = sock[s] /\ Orderly(x) /\ x.up # <<>> /\ Head(x.up).t = "answer"
  BY <1>1 DEF SocksTyped
<1>4. PICK read \in [Sockets -> SockRecords] :
        read = ReadAt(sock, s) /\ read = With(sock, s, Read(x)) /\ read[s] = Read(x)
  <2>1. Read(x) \in SockRecords
    BY <1>3, ReadIs
  <2>2. ReadAt(sock, s) = With(sock, s, Read(x))
    BY <1>2, <1>3, WritesAre
  <2> QED  BY <1>2, <2>1, <2>2, WithIs
<1>5. Orderly(Read(x)) /\ Read(x) \in SockRecords
      /\ Read(x).denied = x.denied /\ Read(x).client = x.client
  BY <1>3, AnswerRead, ReadIs
<1>6. PICK y \in SockRecords : Say(read, s, e) = With(read, s, y) /\ Heard(Read(x), y, e)
  BY <1>4, SayIs
<1>7. sock' = With(sock, s, y)
  BY <1>2, <1>4, <1>6, TwiceIs
<1>8. Orderly(y) /\ y.client = x.client
  BY <1>3, <1>5, <1>6, HeardOrderly, HeardFields
<1>9. ASSUME y.client = "open" PROVE Talks(y, s, disk)
  <2>1. Talks(x, s, disk)
    BY <1>1, <1>3, <1>8, <1>9 DEF TalkFits
  <2>2. Talks(Read(x), s, disk)
    BY <1>3, <2>1, ReadTalks
  <2> QED  BY <1>5, <1>6, <2>2, HeardTalks
<1> QED  BY <1>1, <1>3, <1>7, <1>8, <1>9, JustOneKept

LEMMA LimitedKeeps ==
    ASSUME ClientInv, NEW s \in Sockets, Limited(s) PROVE ClientInv'
<1>1. PICK e \in DownFrames : e = Error("rate_limited") /\ ~IsTalk(e) /\ ~NotJoined(e)
  BY FramesTyped, FramesAre DEF IsTalk, Unauthorized, NotJoined
<1>2. SocksTyped' /\ RefsOK' /\ TalkFits'
  BY <1>1, RefusalKeeps DEF Limited, ReadAt
<1>3. StateTyped'
  BY DEF ClientInv, StateTyped, Limited, bounds
<1> QED  BY <1>2, <1>3 DEF ClientInv

LEMMA AnswerKeeps ==
    ASSUME ClientInv, NEW s \in Sockets, Handles(s), Head(sock[s].up).t = "answer"
    PROVE  ClientInv'
<1>1. StateTyped /\ SocksTyped /\ RefsOK /\ TalkFits
  BY DEF ClientInv
<1>2. /\ sock \in [Sockets -> SockRecords] /\ sock[s] \in SockRecords /\ Orderly(sock[s])
      /\ sock[s].up # <<>> /\ sock[s].joining = None
  BY <1>1 DEF SocksTyped, Handles, Waits
<1>3. PICK x \in SockRecords : x = sock[s]
  BY <1>2
<1>4. PICK m \in UpFrames : m = Head(x.up)
  BY <1>2, <1>3, SockFields, Dropped
<1>5. m.t = "answer" /\ m.q \in Questions
  BY <1>3, <1>4, UpFrameIs
<1>6. PICK read \in [Sockets -> SockRecords] :
        read = ReadAt(sock, s) /\ read = With(sock, s, Read(x)) /\ read[s] = Read(x)
  BY <1>2, <1>3, WritesAre, WithIs, ReadIs
<1>7. AnswerHandled(s, m, read) /\ disk' = disk /\ expired' = expired /\ tab' = tab /\ upsets' = upsets
  <2>1. m = Head(sock[s].up) /\ read = [sock EXCEPT ![s].up = Tail(@)]
    BY <1>3, <1>4, <1>6 DEF ReadAt
  <2> QED  BY <1>5, <2>1 DEF Handles, bounds
<1>8. Orderly(Read(x)) /\ (x.run = None \/ x.userId = None => x.denied = TRUE) /\ Read(x) \in SockRecords
      /\ Read(x).client = x.client
  BY <1>2, <1>3, <1>4, <1>5, AnswerRead, ReadIs
<1>9. room' \in RoomRecords /\ room'.run = room.run
  <2>1. room \in RoomRecords
    BY <1>1 DEF StateTyped
  <2>2. ASSUME x.userId # None
        PROVE  [room EXCEPT !.answered = @ \cup {<<x.userId, m.q>>}] \in RoomRecords
    <3>1. <<x.userId, m.q>> \in Ids \X Questions
      BY <1>5, <2>2, SockFields
    <3> QED  BY <2>1, <3>1 DEF RoomRecords
  <2>3. \/ room' = room
        \/ x.userId # None /\ room' = [room EXCEPT !.answered = @ \cup {<<x.userId, m.q>>}]
    BY <1>3, <1>7 DEF AnswerHandled
  <2> QED  BY <2>1, <2>2, <2>3 DEF RoomRecords
<1>10. SocksTyped' /\ RefsOK' /\ TalkFits'
  <2>1. CASE x.run = None \/ x.userId = None
    <3>1. sock' = Say(read, s, Error("not_joined"))
      BY <1>3, <1>7, <2>1 DEF AnswerHandled
    <3>2. Error("not_joined") \in DownFrames /\ ~IsTalk(Error("not_joined"))
      BY FramesTyped, FramesAre DEF IsTalk, Unauthorized
    <3> QED  BY <1>2, <1>3, <1>4, <1>5, <1>6, <1>7, <1>8, <2>1, <3>1, <3>2, RefusalKeeps
  <2>2. CASE x.run # None /\ x.userId # None /\ x.run # room.run
    <3>1. sock' = Say(read, s, Error("internal"))
      BY <1>3, <1>7, <2>2 DEF AnswerHandled
    <3>2. /\ Error("internal") \in DownFrames /\ ~IsTalk(Error("internal"))
          /\ ~NotJoined(Error("internal"))
      BY FramesTyped, FramesAre DEF IsTalk, Unauthorized, NotJoined
    <3> QED  BY <1>2, <1>3, <1>4, <1>5, <1>6, <1>7, <3>1, <3>2, RefusalKeeps
  <2>3. CASE x.run # None /\ x.userId # None /\ x.run = room.run
    <3>0. PICK his : his = {c \in room.attached : sock[c].userId = x.userId}
      OBVIOUS
    <3>1. PICK b \in BOOLEAN : sock' = ToEach(read, Result(m.q, b), his)
      BY <1>3, <1>7, <2>3, <3>0 DEF AnswerHandled
    <3>2. PICK e \in DownFrames : e = Result(m.q, b) /\ ~IsTalk(e) /\ ~NotJoined(e)
      BY <1>5, FramesTyped, FramesAre DEF IsTalk, Unauthorized, NotJoined
    <3>3. /\ sock' \in [Sockets -> SockRecords]
          /\ \A z \in Sockets : Keeps(read[z], sock'[z])
      BY <1>6, <3>1, <3>2, ToEachIs
    <3>4. ASSUME Read(x).client = "open" PROVE Talks(Read(x), s, disk)
      <4>1. Talks(x, s, disk)
        BY <1>1, <1>3, <1>8, <3>4 DEF TalkFits
      <4> QED  BY <1>2, <1>3, <4>1, ReadTalks
    <3> QED  BY <1>1, <1>3, <1>6, <1>7, <1>8, <3>3, <3>4, OneKept
  <2> QED  BY <2>1, <2>2, <2>3
<1>11. StateTyped'
  BY <1>1, <1>7, <1>9 DEF StateTyped
<1> QED  BY <1>10, <1>11 DEF ClientInv

\* A join is read: it goes to its lookup, or is turned down at once.
LEMMA JoinKeeps ==
    ASSUME ClientInv, NEW s \in Sockets, Handles(s), Head(sock[s].up).t = "join"
    PROVE  ClientInv'
<1>1. StateTyped /\ SocksTyped /\ RefsOK /\ TalkFits
  BY DEF ClientInv
<1>2. /\ sock \in [Sockets -> SockRecords] /\ sock[s] \in SockRecords /\ Orderly(sock[s])
      /\ sock[s].up # <<>> /\ sock[s].joining = None
  BY <1>1 DEF SocksTyped, Handles, Waits
<1>3. PICK x \in SockRecords : x = sock[s]
  BY <1>2
<1>4. PICK m \in UpFrames : m = Head(x.up)
  BY <1>2, <1>3, SockFields, Dropped
<1>5. m.t = "join" /\ IsJoin(m)
  BY <1>3, <1>4 DEF IsJoin
<1>6. PICK read \in [Sockets -> SockRecords] :
        read = ReadAt(sock, s) /\ read = With(sock, s, Read(x)) /\ read[s] = Read(x)
  BY <1>2, <1>3, WritesAre, WithIs, ReadIs
<1>7. /\ sock' = IF Identity(s, m) = None THEN Deny(read, s, "unauthorized")
                 ELSE JoiningAt(read, s, Identity(s, m))
      /\ disk' = disk /\ expired' = expired /\ tab' = tab /\ upsets' = upsets /\ room' = room
  <2>1. m = Head(sock[s].up) /\ read = [sock EXCEPT ![s].up = Tail(@)]
    BY <1>3, <1>4, <1>6 DEF ReadAt
  <2> QED  BY <1>5, <2>1 DEF Handles, bounds, JoiningAt
<1>8. PICK z \in SockRecords :
        /\ z = Read(x) /\ z.up = Tail(x.up) /\ z.down = x.down /\ z.client = x.client
        /\ z.server = x.server /\ z.joining = None /\ z.denied = x.denied
        /\ z.run = x.run /\ z.userId = x.userId
  BY <1>2, <1>3, ReadIs
<1>9. x.server \in {"open", "closing"} /\ Identity(s, m) \in Ids \cup {None}
  <2>1. Identity(s, m) \in Ids \cup {None}
    <3>1. m.id \in Ids \cup {None} /\ m.token \in BOOLEAN
      BY <1>5, UpFrameIs
    <3> QED  BY <3>1, Constants DEF Identity
  <2> QED  BY <1>2, <1>3, <2>1, SockFields DEF Orderly
<1>10. ASSUME x.client = "open"
       PROVE  /\ \A i \in DOMAIN z.up : ~IsJoin(z.up[i])
              /\ \A i \in DOMAIN z.down : ~IsTalk(z.down[i])
              /\ Identity(s, m) # None => IdFits(disk, s, Identity(s, m))
              /\ Identity(s, m) = None => ~Guest(disk)
  <2>1. Talks(x, s, disk)
    BY <1>1, <1>3, <1>10 DEF TalkFits
  <2>2. /\ \A i \in DOMAIN z.up : ~IsJoin(z.up[i])
        /\ \A i \in DOMAIN z.down : ~IsTalk(z.down[i])
        /\ JoinFits(disk, m)
    BY <1>2, <1>3, <1>4, <1>5, <1>8, <2>1, ReadTalks
  <2> QED  BY <1>5, <2>2, IdentityFits
<1>11. PICK y \in SockRecords : /\ sock' = With(sock, s, y) /\ Orderly(y) /\ y.client = x.client
                                /\ y.client = "open" => Talks(y, s, disk)
  <2>1. CASE Identity(s, m) = None
    <3>1. PICK no \in DownFrames : no = Error("unauthorized") /\ no.t # "welcome"
      BY FramesTyped, FramesAre
    <3>0. PICK down : down = DeniedAt(read, s)
      OBVIOUS
    <3>2. /\ down = With(read, s, Denied(z)) /\ down \in [Sockets -> SockRecords]
          /\ down[s] = Denied(z)
      <4>1. down = With(read, s, Denied(z))
        BY <1>6, <1>8, <3>0, WritesAre
      <4>2. Denied(z) \in SockRecords
        BY DeniedIs
      <4> QED  BY <1>6, <4>1, <4>2, WithIs
    <3>3. sock' = Say(down, s, no)
      BY <1>7, <2>1, <3>0, <3>1 DEF Deny, DeniedAt
    <3>4. PICK y \in SockRecords : Say(down, s, no) = With(down, s, y) /\ Heard(Denied(z), y, no)
      BY <3>2, SayIs
    <3>5. sock' = With(sock, s, y)
      <4>1. With(down, s, y) = With(read, s, y)
        BY <1>6, <3>2, TwiceIs
      <4>2. With(read, s, y) = With(sock, s, y)
        BY <1>2, <1>6, TwiceIs
      <4> QED  BY <3>3, <3>4, <4>1, <4>2
    <3>6. Orderly(y) /\ y.client = x.client
      BY <1>2, <1>3, <1>8, <1>9, <3>4, TurnedDown, Constants
    <3>7. ASSUME y.client = "open" PROVE Talks(y, s, disk)
      <4>1. /\ Denied(z) \in SockRecords /\ Denied(z).up = z.up /\ Denied(z).down = z.down
            /\ Denied(z).joining = None
        BY <1>8, DeniedIs
      <4>2. /\ \A i \in DOMAIN z.up : ~IsJoin(z.up[i])
            /\ \A i \in DOMAIN z.down : ~IsTalk(z.down[i])
        BY <1>10, <2>1, <3>6, <3>7
      <4>3. \A i \in DOMAIN Denied(z).up : ~IsJoin(Denied(z).up[i])
        BY <4>1, <4>2
      <4>4. \A i \in DOMAIN Denied(z).down : ~IsTalk(Denied(z).down[i])
        BY <4>1, <4>2
      <4>5. ~Guest(disk)
        BY <1>10, <2>1, <3>6, <3>7
      <4> QED  BY <3>1, <3>4, <4>1, <4>3, <4>4, <4>5, TalkHeard
    <3> QED  BY <3>5, <3>6, <3>7
  <2>2. CASE Identity(s, m) # None
    <3>1. PICK id \in Ids : id = Identity(s, m)
      BY <1>9, <2>2
    <3>2. PICK y : y = Joining(z, id)
      OBVIOUS
    <3>3. /\ y \in SockRecords /\ y.joining = id /\ y.client = x.client /\ y.server = x.server
          /\ y.up = z.up /\ y.down = x.down /\ y.denied = x.denied
      BY <1>8, <3>2, JoiningIs
    <3>4. sock' = With(sock, s, y)
      <4>1. sock' = JoiningAt(read, s, id)
        BY <1>7, <2>2, <3>1
      <4>2. JoiningAt(read, s, id) = With(read, s, y)
        BY <1>6, <1>8, <3>2, WritesAre
      <4>3. With(read, s, y) = With(sock, s, y)
        BY <1>2, <1>6, TwiceIs
      <4> QED  BY <4>1, <4>2, <4>3
    <3>5. Orderly(y)
      <4>1. Introduced(y)
        BY <3>3, Constants DEF Introduced
      <4> QED  BY <1>2, <1>3, <1>9, <3>3, <4>1, Constants DEF Orderly
    <3>6. ASSUME y.client = "open" PROVE Talks(y, s, disk)
      <4>1. \A i \in DOMAIN y.up : ~IsJoin(y.up[i])
        BY <1>10, <3>3, <3>6
      <4>2. \A i \in DOMAIN y.down : ~IsTalk(y.down[i])
        BY <1>8, <1>10, <3>3, <3>6
      <4>3. IdFits(disk, s, y.joining)
        BY <1>10, <2>2, <3>1, <3>3, <3>6
      <4>4. \A i \in DOMAIN y.down : y.down[i].t # "welcome" /\ ~Unauthorized(y.down[i])
        BY <4>2 DEF IsTalk
      <4> QED  BY <4>1, <4>2, <4>3, <4>4 DEF Talks
    <3> QED  BY <3>3, <3>4, <3>5, <3>6
  <2> QED  BY <2>1, <2>2
<1>12. SocksTyped' /\ RefsOK' /\ TalkFits'
  BY <1>1, <1>3, <1>7, <1>11, JustOneKept
<1>13. StateTyped'
  BY <1>1, <1>7 DEF StateTyped
<1> QED  BY <1>12, <1>13 DEF ClientInv

LEMMA HandlesKeeps ==
    ASSUME ClientInv, NEW s \in Sockets, Handles(s) PROVE ClientInv'
<1>1. sock[s].up # <<>> /\ sock[s].up \in Seq(UpFrames) /\ Head(sock[s].up) # Leaving
  BY SockFields DEF ClientInv, SocksTyped, Handles
<1>2. PICK m \in UpFrames : m = Head(sock[s].up)
  BY <1>1, Dropped
<1>3. m.t = "join" \/ m.t = "answer"
  BY <1>1, <1>2, UpFrameIs
<1> QED  BY <1>2, <1>3, JoinKeeps, AnswerKeeps

SeatIn(r, s, id) == [r EXCEPT !.players = @ \cup {id}, !.attached = @ \cup {s}]
Numbered(r, n) == [r EXCEPT !.seq = n]

LEMMA SeatedTyped ==
    ASSUME NEW r \in RoomRecords, NEW s \in Sockets, NEW id \in Ids
    PROVE  SeatIn(r, s, id) \in RoomRecords /\ SeatIn(r, s, id).run = r.run
BY DEF RoomRecords, SeatIn

LEMMA NumberedTyped ==
    ASSUME NEW r \in RoomRecords, NEW n \in Nat
    PROVE  Numbered(r, n) \in RoomRecords /\ Numbered(r, n).run = r.run
BY DEF RoomRecords, Numbered

\* A lookup is under way: the join it is for was the only one.
LEMMA LookedUp ==
    ASSUME NEW x \in SockRecords, x.joining # None, NEW s, NEW d, Talks(x, s, d)
    PROVE  /\ \A i \in DOMAIN x.up : ~IsJoin(x.up[i])
           /\ \A i \in DOMAIN x.down : ~IsTalk(x.down[i])
           /\ IdFits(d, s, x.joining)
BY DEF Talks

\* The lookup of a socket that has left comes back to nobody.
LEMMA ResolvesLateKeeps ==
    ASSUME ClientInv, NEW s \in Sockets, Resolves(s), Gone(s) PROVE ClientInv'
<1>1. StateTyped /\ SocksTyped /\ RefsOK /\ TalkFits
  BY DEF ClientInv
<1>2. PICK x \in SockRecords : x = sock[s]
  BY <1>1 DEF SocksTyped
<1>3. /\ sock \in [Sockets -> SockRecords] /\ Orderly(x) /\ x.joining # None
      /\ x.server = "closed"
  BY <1>1, <1>2 DEF SocksTyped, Resolves, Gone
<1>4. PICK y : y = Joining(x, None)
  OBVIOUS
<1>5. /\ y \in SockRecords /\ y.joining = None /\ y.client = x.client /\ y.server = "closed"
      /\ y.up = x.up /\ y.down = x.down /\ y.denied = x.denied
  BY <1>3, <1>4, JoiningIs
<1>6. sock' = With(sock, s, y)
  <2>1. sock' = JoiningAt(sock, s, None)
    BY DEF Resolves, JoiningAt
  <2> QED  BY <1>2, <1>3, <1>4, <2>1, WritesAre
<1>7. disk' = disk /\ expired' = expired /\ tab' = tab /\ upsets' = upsets /\ room' = room
  BY DEF Resolves, bounds
<1>8. Orderly(y)
  BY <1>3, <1>5, Constants DEF Orderly
<1>9. ASSUME y.client = "open" PROVE Talks(y, s, disk)
  <2>1. Talks(x, s, disk)
    BY <1>1, <1>2, <1>5, <1>9 DEF TalkFits
  <2> QED  BY <1>5, <2>1 DEF Talks
<1>10. SocksTyped' /\ RefsOK' /\ TalkFits'
  BY <1>1, <1>2, <1>5, <1>6, <1>7, <1>8, <1>9, JustOneKept
<1>11. StateTyped'
  BY <1>1, <1>7 DEF StateTyped
<1> QED  BY <1>10, <1>11 DEF ClientInv

\* The actor takes the connection: the welcome answers the join.
LEMMA ResolvesKeeps ==
    ASSUME ClientInv, NEW s \in Sockets, Resolves(s), ~Gone(s) PROVE ClientInv'
<1>1. StateTyped /\ SocksTyped /\ RefsOK /\ TalkFits
  BY DEF ClientInv
<1>2. PICK x \in SockRecords : x = sock[s]
  BY <1>1 DEF SocksTyped
<1>3. /\ sock \in [Sockets -> SockRecords] /\ Orderly(x) /\ x.joining # None
      /\ x.server \in {"open", "closing"} /\ x.joining \in Ids
  BY <1>1, <1>2, SockFields DEF SocksTyped, Resolves, Gone, Orderly
<1>4. PICK id \in Ids : id = x.joining
  BY <1>3
<1>5. PICK r \in RoomRecords, n \in Runs : r = room /\ n = room.run
  BY <1>1 DEF StateTyped, RoomRecords
<1>6. PICK joined \in RoomRecords :
        joined = SeatIn(r, s, id) /\ joined.run = r.run
  BY SeatedTyped
<1>0. PICK k \in Nat : k = IF r.phase = "lobby" /\ r.players = {} THEN joined.seq + 1 ELSE joined.seq
  <2>1. joined.seq \in Nat
    BY DEF RoomRecords
  <2> QED  BY <2>1
<1>7. PICK after \in RoomRecords : after = Numbered(joined, k) /\ after.run = r.run
  BY <1>6, NumberedTyped
<1>8. PICK m \in DownFrames : m = Welcome(joined, id) /\ m.t = "welcome" /\ m.you = id
  BY FramesTyped, FramesAre
<1>9. PICK done \in [Sockets -> SockRecords] :
        done = JoiningAt(sock, s, None) /\ done = With(sock, s, Joining(x, None))
        /\ done[s] = Joining(x, None)
  <2>1. JoiningAt(sock, s, None) = With(sock, s, Joining(x, None))
    BY <1>2, <1>3, WritesAre
  <2> QED  BY <1>3, <2>1, WithIs, JoiningIs
<1>10. PICK z \in SockRecords :
         /\ z = Granted(Joining(x, None), n, id)
         /\ z.joining = None /\ z.client = x.client /\ z.server = x.server /\ z.up = x.up
         /\ z.down = x.down /\ z.denied = x.denied /\ z.run = n /\ z.userId = id
  <2>1. Joining(x, None) \in SockRecords
    BY JoiningIs
  <2> QED  BY <2>1, JoiningIs, GrantedIs
<1>11. PICK granted \in [Sockets -> SockRecords] :
         granted = GrantedAt(done, s, n, id) /\ granted = With(sock, s, z) /\ granted[s] = z
  <2>1. GrantedAt(done, s, n, id) = With(done, s, z)
    BY <1>9, <1>10, WritesAre
  <2>2. With(done, s, z) = With(sock, s, z)
    BY <1>3, <1>9, TwiceIs
  <2> QED  BY <1>3, <2>1, <2>2, WithIs
<1>12. PICK y \in SockRecords : Say(granted, s, m) = With(granted, s, y) /\ Heard(z, y, m)
  BY <1>11, SayIs
<1>13. PICK seated \in [Sockets -> SockRecords] : seated = Say(granted, s, m) /\ seated = With(sock, s, y)
  <2>1. With(granted, s, y) = With(sock, s, y)
    BY <1>3, <1>11, TwiceIs
  <2> QED  BY <1>3, <1>12, <2>1, WithIs
<1>14. /\ room' = after /\ disk' = disk /\ expired' = expired /\ tab' = tab /\ upsets' = upsets
       /\ sock' = seated \/ sock' = ToEach(seated, Event(after), after.attached)
  <2>1. seated = Say([done EXCEPT ![s].run = room.run, ![s].userId = id], s, Welcome(joined, id))
    BY <1>5, <1>8, <1>11, <1>13 DEF GrantedAt
  <2>2. done = [sock EXCEPT ![s].joining = None] /\ id = sock[s].joining
    BY <1>2, <1>4, <1>9 DEF JoiningAt
  <2>3. joined = [room EXCEPT !.players = @ \cup {id}, !.attached = @ \cup {s}]
    BY <1>5, <1>6 DEF SeatIn
  <2>4. after = [joined EXCEPT !.seq = IF room.phase = "lobby" /\ room.players = {}
                                       THEN @ + 1 ELSE @]
    BY <1>0, <1>5, <1>7 DEF Numbered
  <2> QED  BY <2>1, <2>2, <2>3, <2>4 DEF Resolves, bounds
<1>15. Orderly(z)
  <2>1. Introduced(z)
    BY <1>10, Constants DEF Introduced
  <2>2. \A i \in DOMAIN z.down : NotJoined(z.down[i]) => z.denied = TRUE
    BY <1>3, <1>10 DEF Orderly
  <2>3. z.client \notin {None, "connecting"} /\ z.server \in {"open", "closing"}
    BY <1>3, <1>10, Constants DEF Orderly
  <2> QED  BY <2>1, <2>2, <2>3, Constants DEF Orderly
<1>16. Orderly(y) /\ y.client = x.client
  <2>1. ~NotJoined(m)
    BY <1>8 DEF NotJoined
  <2>2. Orderly(y)
    BY <1>12, <1>15, <2>1, HeardOrderly
  <2>3. y.client = x.client
    BY <1>10, <1>12, HeardFields
  <2> QED  BY <2>2, <2>3
<1>17. ASSUME y.client = "open" PROVE Talks(y, s, disk)
  <2>1. Talks(x, s, disk)
    BY <1>1, <1>2, <1>16, <1>17 DEF TalkFits
  <2>2. /\ \A i \in DOMAIN z.up : ~IsJoin(z.up[i])
        /\ \A i \in DOMAIN z.down : ~IsTalk(z.down[i])
    BY <1>3, <1>10, <2>1, LookedUp
  <2>3. IdFits(disk, s, m.you) /\ ~Unauthorized(m)
    BY <1>3, <1>4, <1>8, <2>1, LookedUp DEF Unauthorized
  <2> QED  BY <1>8, <1>10, <1>12, <2>2, <2>3, TalkHeard
<1>18. sock' \in [Sockets -> SockRecords] /\ \A v \in Sockets : Keeps(seated[v], sock'[v])
  <2>1. CASE sock' = seated
    BY <2>1 DEF Keeps
  <2>2. CASE sock' = ToEach(seated, Event(after), after.attached)
    BY <2>2, BroadcastIs
  <2> QED  BY <1>14, <2>1, <2>2
<1>19. SocksTyped' /\ RefsOK' /\ TalkFits'
  BY <1>1, <1>2, <1>13, <1>14, <1>16, <1>17, <1>18, OneKept
<1>20. StateTyped'
  BY <1>1, <1>5, <1>7, <1>14 DEF StateTyped
<1> QED  BY <1>19, <1>20 DEF ClientInv

LEMMA LookupFailsKeeps ==
    ASSUME ClientInv, NEW s \in Sockets, LookupFails(s) PROVE ClientInv'
<1>1. StateTyped /\ SocksTyped /\ RefsOK /\ TalkFits
  BY DEF ClientInv
<1>2. PICK x \in SockRecords : x = sock[s]
  BY <1>1 DEF SocksTyped
<1>3. /\ sock \in [Sockets -> SockRecords] /\ Orderly(x) /\ x.joining # None /\ x.server # None
  BY <1>1, <1>2 DEF SocksTyped, LookupFails, Orderly
<1>4. PICK z : z = Joining(x, None)
  OBVIOUS
<1>5. /\ z \in SockRecords /\ z.joining = None /\ z.client = x.client /\ z.server = x.server
      /\ z.up = x.up /\ z.down = x.down /\ z.denied = x.denied
  BY <1>4, JoiningIs
<1>6. PICK no \in DownFrames : no = Error("lookup") /\ no.t = "error" /\ ~Unauthorized(no)
  BY FramesTyped, FramesAre DEF Unauthorized
<1>7. PICK done \in [Sockets -> SockRecords] :
        done = JoiningAt(sock, s, None) /\ done = With(sock, s, z) /\ done[s] = z
  <2>1. JoiningAt(sock, s, None) = With(sock, s, z)
    BY <1>2, <1>3, <1>4, WritesAre
  <2> QED  BY <1>3, <1>5, <2>1, WithIs
<1>8. PICK down \in [Sockets -> SockRecords] :
        down = DeniedAt(done, s) /\ down = With(sock, s, Denied(z)) /\ down[s] = Denied(z)
  <2>1. DeniedAt(done, s) = With(done, s, Denied(z))
    BY <1>7, WritesAre
  <2>2. With(done, s, Denied(z)) = With(sock, s, Denied(z))
    BY <1>3, <1>7, TwiceIs
  <2>3. Denied(z) \in SockRecords
    BY <1>5, DeniedIs
  <2> QED  BY <1>3, <2>1, <2>2, <2>3, WithIs
<1>9. /\ sock' = Say(down, s, no) /\ disk' = disk /\ expired' = expired /\ tab' = tab
      /\ room' = room /\ Upset
  BY <1>6, <1>7, <1>8 DEF LookupFails, Deny, DeniedAt, JoiningAt
<1>10. PICK y \in SockRecords : Say(down, s, no) = With(down, s, y) /\ Heard(Denied(z), y, no)
  BY <1>8, SayIs
<1>11. sock' = With(sock, s, y)
  BY <1>3, <1>8, <1>9, <1>10, TwiceIs
<1>12. Orderly(y) /\ y.client = x.client
  BY <1>3, <1>5, <1>10, TurnedDown
<1>13. ASSUME y.client = "open" PROVE Talks(y, s, disk)
  <2>1. /\ Denied(z) \in SockRecords /\ Denied(z).up = x.up /\ Denied(z).down = x.down
        /\ Denied(z).joining = None
    BY <1>5, DeniedIs
  <2>2. Talks(x, s, disk)
    BY <1>1, <1>2, <1>12, <1>13 DEF TalkFits
  <2>3. \A i \in DOMAIN Denied(z).up : ~IsJoin(Denied(z).up[i])
    BY <1>3, <2>1, <2>2, LookedUp
  <2>4. \A i \in DOMAIN Denied(z).down : ~IsTalk(Denied(z).down[i])
    BY <1>3, <2>1, <2>2, LookedUp
  <2> QED  BY <1>6, <1>10, <2>1, <2>3, <2>4, TalkHeard
<1>14. SocksTyped' /\ RefsOK' /\ TalkFits'
  BY <1>1, <1>2, <1>9, <1>11, <1>12, <1>13, JustOneKept
<1>15. StateTyped'
  BY <1>1, <1>9, UpsetTyped DEF StateTyped
<1> QED  BY <1>14, <1>15 DEF ClientInv

\* A socket of which nothing is left but that the connection broke.
Broken(x) == [x EXCEPT !.down = <<Close(1006)>>, !.up = <<>>]
BrokenAt(f, s) == [f EXCEPT ![s].down = <<Close(1006)>>, ![s].up = <<>>]
Last(x, m) == [x EXCEPT !.up = <<m>>]

LEMMA BrokenIs ==
    ASSUME NEW x \in SockRecords
    PROVE  /\ Broken(x) \in SockRecords /\ Broken(x).up = <<>> /\ Broken(x).down = <<Close(1006)>>
           /\ Broken(x).client = x.client /\ Broken(x).server = x.server
           /\ Broken(x).joining = x.joining /\ Broken(x).denied = x.denied
           /\ Broken(x).run = x.run /\ Broken(x).userId = x.userId
<1>1. PICK c \in DownFrames : c = Close(1006)
  BY FramesTyped
<1>2. <<>> \in Seq(UpFrames) /\ <<c>> \in Seq(DownFrames)
  OBVIOUS
<1>3. PICK down \in Seq(DownFrames), up \in Seq(UpFrames) : down = <<c>> /\ up = <<>>
  BY <1>2
<1>4. PICK y : y = [x EXCEPT !.down = down, !.up = up]
  OBVIOUS
<1>5. /\ y \in SockRecords /\ y.up = up /\ y.down = down /\ y.client = x.client
      /\ y.server = x.server /\ y.joining = x.joining /\ y.denied = x.denied
      /\ y.run = x.run /\ y.userId = x.userId
  BY <1>4 DEF SockRecords
<1>6. Broken(x) = y
  BY <1>1, <1>3, <1>4 DEF Broken
<1> QED  BY <1>1, <1>3, <1>5, <1>6

LEMMA BrokenAtIs ==
    ASSUME NEW f \in [Sockets -> SockRecords], NEW s \in Sockets
    PROVE  BrokenAt(f, s) = With(f, s, Broken(f[s]))
<1>0. PICK a : a = <<Close(1006)>>
  OBVIOUS
<1>1. PICK b : b = <<>>
  OBVIOUS
<1>2. BrokenAt(f, s) = [f EXCEPT ![s].down = a, ![s].up = b]
  BY <1>0, <1>1 DEF BrokenAt
<1>3. Broken(f[s]) = [f[s] EXCEPT !.down = a, !.up = b]
  BY <1>0, <1>1 DEF Broken
<1>4. [f EXCEPT ![s].down = a, ![s].up = b] = [f EXCEPT ![s] = [f[s] EXCEPT !.down = a, !.up = b]]
  OBVIOUS
<1> QED  BY <1>2, <1>3, <1>4 DEF With

LEMMA LastIs ==
    ASSUME NEW x \in SockRecords, NEW m \in UpFrames
    PROVE  /\ Last(x, m) \in SockRecords /\ Last(x, m).up = <<m>> /\ Last(x, m).down = x.down
           /\ Last(x, m).client = x.client /\ Last(x, m).server = x.server
           /\ Last(x, m).joining = x.joining /\ Last(x, m).denied = x.denied
           /\ Last(x, m).run = x.run /\ Last(x, m).userId = x.userId
<1>1. <<m>> \in Seq(UpFrames)
  OBVIOUS
<1> QED  BY <1>1 DEF Last, SockRecords

LEMMA AskOnEmpty ==
    ASSUME NEW ss \in [Sockets -> SockRecords], NEW s \in Sockets, NEW m \in UpFrames,
           ss[s].up = <<>>
    PROVE  Ask(ss, s, m) = IF ss[s].server \in {"open", "closing"}
                           THEN With(ss, s, Last(ss[s], m)) ELSE ss
<1>1. Put(<<>>, m) = <<m>>
  BY DEF Put, Ended
<1> QED  BY <1>1 DEF Ask, With, Last

LEMMA BreaksKeeps ==
    ASSUME ClientInv, NEW s \in Sockets, Breaks(s) PROVE ClientInv'
<1>1. StateTyped /\ SocksTyped /\ RefsOK /\ TalkFits
  BY DEF ClientInv
<1>2. PICK x \in SockRecords : x = sock[s]
  BY <1>1 DEF SocksTyped
<1>3. /\ sock \in [Sockets -> SockRecords] /\ Orderly(x) /\ x.client = "open"
      /\ x.server \in {"open", "closing", "closed"}
  BY <1>1, <1>2, SockFields DEF SocksTyped, Breaks, Orderly
<1>4. PICK z \in SockRecords :
        /\ z = Broken(x) /\ z.up = <<>> /\ z.down = <<Close(1006)>> /\ z.client = "open"
        /\ z.server = x.server /\ z.joining = x.joining /\ z.denied = x.denied
  BY <1>3, BrokenIs
<1>5. PICK broken \in [Sockets -> SockRecords] :
        broken = BrokenAt(sock, s) /\ broken = With(sock, s, z) /\ broken[s] = z
  <2>1. BrokenAt(sock, s) = With(sock, s, Broken(sock[s]))
    BY <1>3, BrokenAtIs
  <2> QED  BY <1>2, <1>3, <1>4, <2>1, WithIs
<1>6. /\ sock' = Ask(broken, s, Leaving) /\ disk' = disk /\ expired' = expired /\ tab' = tab
      /\ room' = room /\ Upset
  BY <1>5 DEF Breaks, BrokenAt
<1>7. PICK y \in SockRecords :
        /\ sock' = With(sock, s, y) /\ y.down = <<Close(1006)>> /\ y.client = "open"
        /\ y.server = x.server /\ y.joining = x.joining
        /\ \/ y.up = <<>> /\ x.server = "closed"
           \/ y.up = <<Leaving>> /\ x.server # "closed"
  <2>1. CASE x.server = "closed"
    <3>1. sock' = With(sock, s, z)
      BY <1>4, <1>5, <1>6, <2>1, AskOnEmpty, FramesTyped
    <3> QED  BY <1>4, <2>1, <3>1
  <2>2. CASE x.server \in {"open", "closing"}
    <3>1. PICK y : y = Last(z, Leaving)
      OBVIOUS
    <3>2. sock' = With(broken, s, y)
      BY <1>4, <1>5, <1>6, <2>2, <3>1, AskOnEmpty, FramesTyped
    <3>3. sock' = With(sock, s, y)
      BY <1>3, <1>5, <3>2, TwiceIs
    <3>4. /\ y \in SockRecords /\ y.down = <<Close(1006)>> /\ y.client = "open"
          /\ y.server = x.server /\ y.joining = x.joining /\ y.up = <<Leaving>>
      BY <1>4, <3>1, LastIs, FramesTyped
    <3> QED  BY <2>2, <3>3, <3>4
  <2> QED  BY <1>3, <2>1, <2>2
<1>8. /\ \A i \in DOMAIN y.up : y.up # <<>> /\ y.up[i].t = "close"
      /\ \A i \in DOMAIN y.down : y.down[i].t = "close"
      /\ y.up # <<>> => y.up[1].t = "close"
  BY <1>7, FramesAre
<1>9. Orderly(y)
  <2>1. \A i \in DOMAIN y.down : ~NotJoined(y.down[i])
    BY <1>8 DEF NotJoined
  <2>2. y.server \in {"open", "closing"} => Introduced(y)
    BY <1>7, <1>8 DEF Introduced
  <2> QED  BY <1>3, <1>7, <2>1, <2>2, Constants DEF Orderly
<1>10. Talks(y, s, disk)
  <2>1. Talks(x, s, disk)
    BY <1>1, <1>2, <1>3 DEF TalkFits
  <2>2. \A i \in DOMAIN y.up : ~IsJoin(y.up[i])
    BY <1>8 DEF IsJoin
  <2>3. \A i \in DOMAIN y.down : ~IsTalk(y.down[i]) /\ y.down[i].t # "welcome"
                                  /\ ~Unauthorized(y.down[i])
    BY <1>8 DEF IsTalk, Unauthorized
  <2> QED  BY <1>7, <2>1, <2>2, <2>3 DEF Talks
<1>11. SocksTyped' /\ RefsOK' /\ TalkFits'
  BY <1>1, <1>2, <1>3, <1>6, <1>7, <1>9, <1>10, JustOneKept
<1>12. StateTyped'
  BY <1>1, <1>6, UpsetTyped DEF StateTyped
<1> QED  BY <1>11, <1>12 DEF ClientInv

-----------------------------------------------------------------------------
(* The next socket.                                                          *)

LEMMA NextSocketIs ==
    ASSUME \E s \in Sockets : sock[s].client = None
    PROVE  NextSocket \in Sockets /\ sock[NextSocket].client = None
<1> DEFINE S == {s \in Sockets : sock[s].client = None}
<1>1. S \subseteq Nat /\ S # {}
  BY Constants
<1>2. PICK m \in S : \A k \in S : <<k, m>> \notin OpToRel(<, Nat)
  BY <1>1, NatLessThanWellFounded, WFMin
<1>3. ASSUME NEW k \in S PROVE m <= k
  <2>1. m \in Nat /\ k \in Nat /\ <<k, m>> \in Nat \X Nat
    BY <1>1
  <2>2. ~(k < m)
    BY <1>2, <2>1 DEF OpToRel
  <2> QED  BY <2>1, <2>2
<1>4. \E s \in Sockets : sock[s].client = None /\ \A r \in Sockets : sock[r].client = None => s <= r
  BY <1>3
<1> HIDE DEF S
<1> QED  BY <1>4 DEF NextSocket

Connecting(x) == [x EXCEPT !.client = "connecting"]
ConnectingAt(f, s) == [f EXCEPT ![s].client = "connecting"]

LEMMA ConnectingIs ==
    ASSUME NEW x \in SockRecords
    PROVE  /\ Connecting(x) \in SockRecords /\ Connecting(x).client = "connecting"
           /\ Connecting(x).down = x.down /\ Connecting(x).up = x.up
           /\ Connecting(x).server = x.server /\ Connecting(x).joining = x.joining
           /\ Connecting(x).run = x.run /\ Connecting(x).userId = x.userId
BY DEF SockRecords, Connecting

LEMMA ConnectedKeeps ==
    ASSUME disk' = disk, TalkFits,
           NEW left \in [Sockets -> SockRecords], \A z \in Sockets : Orderly(left[z]),
           \A z \in Sockets : left[z].client \notin {"connecting", "open"},
           NEW n \in Sockets, left[n].client = None, sock' = ConnectingAt(left, n),
           tab'.ref = n, tab'.status # "closed", ~Retries(tab')
    PROVE  SocksTyped' /\ RefsOK' /\ TalkFits'
<1>1. PICK x \in SockRecords : x = left[n]
  OBVIOUS
<1>2. PICK y : y = Connecting(x)
  OBVIOUS
<1>3. /\ y \in SockRecords /\ y.client = "connecting" /\ y.down = x.down /\ y.up = x.up
      /\ y.server = x.server /\ y.joining = x.joining /\ y.run = x.run /\ y.userId = x.userId
  BY <1>2, ConnectingIs
<1>4. x.server = None /\ x.down = <<>> /\ x.up = <<>> /\ x.joining = None /\ x.run = None /\ x.userId = None
  BY <1>1 DEF Orderly
<1>5. Orderly(y)
  <2>1. DOMAIN y.down = {}
    BY <1>3, <1>4
  <2> QED  BY <1>3, <1>4, <2>1, Constants DEF Orderly
<1>6. sock' = With(left, n, y)
  BY <1>1, <1>2 DEF ConnectingAt, With, Connecting
<1>7. /\ sock' \in [Sockets -> SockRecords] /\ sock'[n] = y
      /\ \A z \in Sockets : z # n => sock'[z] = left[z]
  BY <1>3, <1>6, WithIs
<1>8. SocksTyped'
  BY <1>5, <1>7 DEF SocksTyped
<1>9. n # None
  BY Constants
<1>10. RefsOK'
  BY <1>3, <1>7, <1>9 DEF RefsOK
<1>11. TalkFits'
  BY <1>3, <1>7 DEF TalkFits
<1> QED  BY <1>8, <1>10, <1>11

Aims(t, n) == [t EXCEPT !.ref = n, !.retry = FALSE]

LEMMA AimsTyped ==
    ASSUME NEW t \in TabRecords, NEW n \in Sockets
    PROVE  /\ Aims(t, n) \in TabRecords /\ Aims(t, n).ref = n /\ Aims(t, n).status = t.status
           /\ ~Retries(Aims(t, n))
BY DEF Aims, TabRecords, Retries

LEMMA BlankTyped == Blank \in TabRecords /\ Blank.status = "connecting"
BY Constants DEF Blank, TabRecords, Phases

LEMMA RetryFiresKeeps ==
    ASSUME ClientInv, RetryFires PROVE ClientInv'
<1>1. StateTyped /\ SocksTyped /\ RefsOK /\ TalkFits
  BY DEF ClientInv
<1>2. Retries(tab) /\ Connect(tab, sock)
  BY <1>1 DEF RetryFires, Retries, StateTyped, TabRecords
<1>3. NextSocket \in Sockets /\ sock[NextSocket].client = None
  BY <1>2, NextSocketIs DEF Connect
<1>4. PICK n \in Sockets : n = NextSocket
  BY <1>3
<1>5. tab' = Aims(tab, n) /\ sock' = ConnectingAt(sock, n)
  BY <1>2, <1>4 DEF Connect, Aims, ConnectingAt
<1>6. disk' = disk /\ expired' = expired /\ room' = room /\ upsets' = upsets
  BY DEF RetryFires, bounds
<1>7. tab' \in TabRecords /\ tab'.ref = n /\ tab'.status = "reconnecting" /\ ~Retries(tab')
  BY <1>1, <1>2, <1>5, AimsTyped DEF StateTyped, RefsOK
<1>8. tab.ref = None /\ \A z \in Sockets : sock[z].client \notin {"connecting", "open"}
  BY <1>1, <1>2, Constants DEF RefsOK
<1>9. SocksTyped' /\ RefsOK' /\ TalkFits'
  BY <1>1, <1>3, <1>4, <1>5, <1>6, <1>7, <1>8, ConnectedKeeps DEF SocksTyped
<1>10. StateTyped'
  BY <1>1, <1>6, <1>7 DEF StateTyped
<1> QED  BY <1>9, <1>10 DEF ClientInv

\* The cleanup of the effect.
Closing(x) == [x EXCEPT !.client = "closing", !.down = CloseOf(x.down)]
ClosingAt(f, s) == [f EXCEPT ![s].client = "closing", ![s].down = CloseOf(@)]

LEMMA CloseOfIs ==
    ASSUME NEW q \in Seq(DownFrames)
    PROVE  /\ CloseOf(q) \in Seq(DownFrames) /\ CloseOf(<<>>) = <<>>
           /\ \A i \in DOMAIN CloseOf(q) : ~NotJoined(CloseOf(q)[i])
<1>1. CASE Ended(q)
  <2>1. q # <<>> /\ q[Len(q)] \in DownFrames /\ q[Len(q)].t = "close"
    BY <1>1 DEF Ended
  <2>2. PICK c \in DownFrames : c = q[Len(q)] /\ ~NotJoined(c)
    BY <2>1 DEF NotJoined
  <2>3. CloseOf(q) = <<c>>
    BY <1>1, <2>2 DEF CloseOf
  <2>4. \A i \in DOMAIN <<c>> : <<c>>[i] = c
    OBVIOUS
  <2> QED  BY <2>2, <2>3, <2>4 DEF CloseOf, Ended
<1>2. CASE ~Ended(q)
  BY <1>2 DEF CloseOf, Ended
<1> QED  BY <1>1, <1>2

LEMMA ClosingIs ==
    ASSUME NEW x \in SockRecords, Orderly(x)
    PROVE  Closing(x) \in SockRecords /\ Closing(x).client = "closing" /\ Orderly(Closing(x))
<1>1. PICK q \in Seq(DownFrames) : q = CloseOf(x.down) /\ \A i \in DOMAIN q : ~NotJoined(q[i])
  BY SockFields, CloseOfIs
<1>2. PICK y : y = [x EXCEPT !.client = "closing", !.down = q]
  OBVIOUS
<1>3. Closing(x) = y
  BY <1>1, <1>2 DEF Closing
<1>4. /\ y \in SockRecords /\ y.client = "closing" /\ y.down = q /\ y.up = x.up
      /\ y.server = x.server /\ y.joining = x.joining /\ y.denied = x.denied
      /\ y.run = x.run /\ y.userId = x.userId
  BY <1>2 DEF SockRecords
<1>5. x.server = None => q = <<>>
  BY <1>1, CloseOfIs DEF Orderly
<1>6. Introduced(x) => Introduced(y)
  BY <1>4 DEF Introduced
<1>7. Orderly(y)
  BY <1>1, <1>4, <1>5, <1>6, Constants DEF Orderly
<1> QED  BY <1>3, <1>4, <1>7

LEMMA RemountKeeps ==
    ASSUME ClientInv, Remount PROVE ClientInv'
<1>1. StateTyped /\ SocksTyped /\ RefsOK /\ TalkFits
  BY DEF ClientInv
<1>2. PICK s : s = tab.ref
  OBVIOUS
<1>3. PICK left : left = IF s = None THEN sock ELSE Ask(ClosingAt(sock, s), s, Leaving)
  OBVIOUS
<1>4. Upset /\ Connect(Blank, left) /\ disk' = disk /\ expired' = expired /\ room' = room
  BY <1>2, <1>3 DEF Remount, ClosingAt
<1>5. sock \in [Sockets -> SockRecords] /\ \A z \in Sockets : Orderly(sock[z])
  BY <1>1 DEF SocksTyped
<1>6. /\ left \in [Sockets -> SockRecords] /\ \A z \in Sockets : Orderly(left[z])
      /\ \A z \in Sockets : left[z].client \notin {"connecting", "open"}
      /\ \A z \in Sockets : left[z].client = None <=> sock[z].client = None
  <2>1. CASE s = None
    <3>1. left = sock
      BY <1>3, <2>1
    <3>2. \A z \in Sockets : sock[z].client \notin {"connecting", "open"}
      BY <1>1, <1>2, <2>1, Constants DEF RefsOK
    <3> QED  BY <1>5, <3>1, <3>2
  <2>2. CASE s # None
    <3>1. s \in Sockets /\ sock[s].client \in {"connecting", "open"}
      BY <1>1, <1>2, <2>2 DEF RefsOK
    <3>2. PICK x \in SockRecords : x = sock[s] /\ Orderly(x) /\ x.client # None
      BY <1>5, <3>1, Constants
    <3>3. PICK z \in SockRecords : z = Closing(x) /\ z.client = "closing" /\ Orderly(z)
      BY <3>2, ClosingIs
    <3>4. PICK ss \in [Sockets -> SockRecords] :
            ss = ClosingAt(sock, s) /\ ss = With(sock, s, z) /\ ss[s] = z
      <4>1. ClosingAt(sock, s) = With(sock, s, Closing(sock[s]))
        BY <1>5, <3>1 DEF ClosingAt, With, Closing
      <4> QED  BY <1>5, <3>1, <3>2, <3>3, <4>1, WithIs
    <3>5. PICK y \in SockRecords : Ask(ss, s, Leaving) = With(ss, s, y) /\ Sent(z, y, Leaving)
      BY <3>1, <3>4, AskIs, FramesTyped
    <3>6. Orderly(y) /\ y.client = "closing"
      BY <3>3, <3>5, SentOrderly, SentFields, FramesTyped
    <3>7. left = With(sock, s, y)
      BY <1>3, <1>5, <2>2, <3>1, <3>4, <3>5, TwiceIs
    <3>8. /\ left \in [Sockets -> SockRecords] /\ left[s] = y
          /\ \A v \in Sockets : v # s => left[v] = sock[v]
      <4>1. sock \in [Sockets -> SockRecords] /\ s \in Sockets
        BY <1>5, <3>1
      <4>2. left \in [Sockets -> SockRecords]
        BY <3>5, <3>7, <4>1, WithIs
      <4>3. left[s] = y
        BY <3>5, <3>7, <4>1, WithIs
      <4>4. \A v \in Sockets : v # s => left[v] = sock[v]
        BY <3>5, <3>7, <4>1, WithIs
      <4> QED  BY <4>2, <4>3, <4>4
    <3>9. \A v \in Sockets : v # s => sock[v].client \notin {"connecting", "open"}
      BY <1>1, <1>2 DEF RefsOK
    <3>10. y.client # None
      BY <3>6, Constants
    <3> QED  BY <1>5, <3>1, <3>2, <3>6, <3>8, <3>9, <3>10
  <2> QED  BY <2>1, <2>2
<1>7. \E v \in Sockets : sock[v].client = None
  BY <1>4, <1>6 DEF Connect
<1>8. PICK n \in Sockets : n = NextSocket /\ sock[n].client = None
  BY <1>7, NextSocketIs
<1>9. tab' = Aims(Blank, n) /\ sock' = ConnectingAt(left, n)
  BY <1>4, <1>8 DEF Connect, Aims, ConnectingAt
<1>10. tab' \in TabRecords /\ tab'.ref = n /\ tab'.status = "connecting" /\ ~Retries(tab')
  BY <1>9, AimsTyped, BlankTyped
<1>11. SocksTyped' /\ RefsOK' /\ TalkFits'
  BY <1>1, <1>4, <1>6, <1>8, <1>9, <1>10, ConnectedKeeps
<1>12. StateTyped'
  BY <1>1, <1>4, <1>10, UpsetTyped DEF StateTyped
<1> QED  BY <1>11, <1>12 DEF ClientInv

-----------------------------------------------------------------------------
(* The hook and the session.                                                 *)

LEMMA ChooseKeeps ==
    ASSUME ClientInv, Choose PROVE ClientInv'
<1>1. StateTyped /\ SocksTyped /\ RefsOK /\ TalkFits
  BY DEF ClientInv
<1>2. tab \in TabRecords /\ tab.ref # None /\ tab.question # None
  BY <1>1 DEF StateTyped, Choose
<1>3. PICK s \in Sockets : s = tab.ref
  BY <1>1, <1>2 DEF RefsOK
<1>4. PICK m \in UpFrames : m = AnswerFrame(tab.question) /\ ~IsJoin(m)
  <2>1. tab.question \in Questions
    BY <1>2 DEF TabRecords
  <2>2. AnswerFrame(tab.question) \in UpFrames /\ ~IsJoin(AnswerFrame(tab.question))
    BY <2>1, FramesTyped, FramesAre DEF IsJoin
  <2> QED  BY <2>2
<1>5. /\ sock' = Ask(sock, s, m) /\ disk' = disk /\ expired' = expired /\ room' = room
      /\ upsets' = upsets /\ tab' = [tab EXCEPT !.chosen = TRUE]
  BY <1>3, <1>4 DEF Choose
<1>6. sock \in [Sockets -> SockRecords] /\ sock[s] \in SockRecords /\ Orderly(sock[s])
  BY <1>1 DEF SocksTyped
<1>7. PICK y \in SockRecords : Ask(sock, s, m) = With(sock, s, y) /\ Sent(sock[s], y, m)
  BY <1>6, AskIs
<1>8. Orderly(y) /\ y.client = sock[s].client
  BY <1>6, <1>7, SentOrderly, SentFields
<1>9. ASSUME y.client = "open" PROVE Talks(y, s, disk)
  <2>1. Talks(sock[s], s, disk)
    BY <1>1, <1>8, <1>9 DEF TalkFits
  <2> QED  BY <1>4, <1>6, <1>7, <2>1, SentTalks
<1>10. /\ tab' \in TabRecords /\ tab'.ref = tab.ref /\ tab'.status = tab.status
       /\ tab'.retry = tab.retry
  BY <1>2, <1>5 DEF TabRecords
<1>11. SocksTyped' /\ RefsOK' /\ TalkFits'
  <2>1. Retries(tab') <=> Retries(tab)
    BY <1>10 DEF Retries
  <2>2. sock' = With(sock, s, y)
    BY <1>5, <1>7
  <2> QED  BY <1>1, <1>5, <1>8, <1>9, <1>10, <2>1, <2>2, JustOneKept
<1>12. StateTyped'
  BY <1>1, <1>5, <1>10 DEF StateTyped
<1> QED  BY <1>11, <1>12 DEF ClientInv

\* The steps of the session: whom they tell, they tell nothing about who he is.
LEMMA OpeningTyped ==
    ASSUME NEW n \in Runs PROVE Opening(n) \in RoomRecords /\ Opening(n).run = n
BY Constants DEF Opening, RoomRecords, Phases

Moves(r, phase, q, n) == [r EXCEPT !.phase = phase, !.question = q, !.seq = n]

LEMMA MovesTyped ==
    ASSUME NEW r \in RoomRecords, NEW p \in Phases, NEW q \in Questions, NEW n \in Nat
    PROVE  Moves(r, p, q, n) \in RoomRecords /\ Moves(r, p, q, n).run = r.run
BY DEF Moves, RoomRecords

LEMMA MovesOnIs ==
    ASSUME NEW r \in RoomRecords, r.phase # "finished"
    PROVE  LET next == CASE r.phase = "lobby" -> [r EXCEPT !.phase = "question"]
                         [] r.phase = "question" -> [r EXCEPT !.phase = "reveal"]
                         [] r.phase = "reveal" ->
                              IF r.question + 1 < NumQuestions
                              THEN [r EXCEPT !.phase = "question", !.question = @ + 1]
                              ELSE [r EXCEPT !.phase = "finished"]
           IN  /\ [next EXCEPT !.seq = @ + 1] \in RoomRecords
               /\ [next EXCEPT !.seq = @ + 1].run = r.run
<1>1. /\ r.phase \in {"lobby", "question", "reveal"} /\ r.question \in Questions /\ r.seq \in Nat
      /\ r.question \in Nat
  BY DEF RoomRecords, Phases, Questions
<1>2. CASE r.phase = "lobby"
  <2>1. [r EXCEPT !.phase = "question"] \in RoomRecords
    BY DEF RoomRecords, Phases
  <2>2. [r EXCEPT !.phase = "question"].run = r.run
    BY DEF RoomRecords
  <2>3. PICK w \in RoomRecords : w = [r EXCEPT !.phase = "question"] /\ w.run = r.run
    BY <2>1, <2>2
  <2>4. [w EXCEPT !.seq = @ + 1] \in RoomRecords /\ [w EXCEPT !.seq = @ + 1].run = w.run
    BY DEF RoomRecords
  <2> QED  BY <1>2, <2>3, <2>4
<1>3. CASE r.phase = "question"
  <2>1. [r EXCEPT !.phase = "reveal"] \in RoomRecords
    BY DEF RoomRecords, Phases
  <2>2. [r EXCEPT !.phase = "reveal"].run = r.run
    BY DEF RoomRecords
  <2>3. PICK w \in RoomRecords : w = [r EXCEPT !.phase = "reveal"] /\ w.run = r.run
    BY <2>1, <2>2
  <2>4. [w EXCEPT !.seq = @ + 1] \in RoomRecords /\ [w EXCEPT !.seq = @ + 1].run = w.run
    BY DEF RoomRecords
  <2> QED  BY <1>3, <2>3, <2>4
<1>4. CASE r.phase = "reveal" /\ r.question + 1 < NumQuestions
  <2>0. r.question + 1 \in Questions
    BY <1>1, <1>4, Constants DEF Questions
  <2>1. [r EXCEPT !.phase = "question", !.question = @ + 1] \in RoomRecords
    BY <2>0 DEF RoomRecords, Phases
  <2>2. [r EXCEPT !.phase = "question", !.question = @ + 1].run = r.run
    BY DEF RoomRecords
  <2>3. PICK w \in RoomRecords :
          w = [r EXCEPT !.phase = "question", !.question = @ + 1] /\ w.run = r.run
    BY <2>1, <2>2
  <2>4. [w EXCEPT !.seq = @ + 1] \in RoomRecords /\ [w EXCEPT !.seq = @ + 1].run = w.run
    BY DEF RoomRecords
  <2> QED  BY <1>4, <2>3, <2>4
<1>5. CASE r.phase = "reveal" /\ ~(r.question + 1 < NumQuestions)
  <2>1. [r EXCEPT !.phase = "finished"] \in RoomRecords
    BY DEF RoomRecords, Phases
  <2>2. [r EXCEPT !.phase = "finished"].run = r.run
    BY DEF RoomRecords
  <2>3. PICK w \in RoomRecords : w = [r EXCEPT !.phase = "finished"] /\ w.run = r.run
    BY <2>1, <2>2
  <2>4. [w EXCEPT !.seq = @ + 1] \in RoomRecords /\ [w EXCEPT !.seq = @ + 1].run = w.run
    BY DEF RoomRecords
  <2> QED  BY <1>5, <2>3, <2>4
<1> QED  BY <1>1, <1>2, <1>3, <1>4, <1>5

LEMMA MovesOnKeeps ==
    ASSUME ClientInv, MovesOn PROVE ClientInv'
<1>1. StateTyped /\ SocksTyped /\ RefsOK /\ TalkFits
  BY DEF ClientInv
<1>2. PICK r \in RoomRecords : r = room /\ r.phase # "finished"
  BY <1>1 DEF StateTyped, MovesOn
<1>3. room' \in RoomRecords /\ room'.run = room.run
  BY <1>2, MovesOnIs DEF MovesOn
<1>4. PICK w \in RoomRecords : w = room'
  BY <1>3
<1>5. /\ sock' = ToEach(sock, Event(w), r.attached) /\ disk' = disk /\ expired' = expired
      /\ tab' = tab /\ upsets' = upsets
  BY <1>2, <1>4 DEF MovesOn, bounds
<1>6. sock' \in [Sockets -> SockRecords] /\ \A z \in Sockets : Keeps(sock[z], sock'[z])
  BY <1>1, <1>5, BroadcastIs DEF SocksTyped
<1>7. SocksTyped' /\ RefsOK' /\ TalkFits'
  BY <1>1, <1>5, <1>6, AllKept
<1>8. StateTyped'
  BY <1>1, <1>3, <1>5 DEF StateTyped
<1> QED  BY <1>7, <1>8 DEF ClientInv

LEMMA ReplacedKeeps ==
    ASSUME ClientInv, Restart \/ Shutdown \/ Crash PROVE ClientInv'
<1>1. StateTyped /\ SocksTyped /\ RefsOK /\ TalkFits
  BY DEF ClientInv
<1>2. /\ Upset /\ room' = Opening(room.run + 1) /\ disk' = disk /\ expired' = expired
      /\ tab' = tab
  BY DEF Restart, Shutdown, Crash
<1>3. PICK who : who = room.attached
  OBVIOUS
<1>4. \/ sock' = Dismissed(sock, who)
      \/ sock' = Cut(Dismissed(sock, who), Sockets)
      \/ sock' = Cut(sock, Sockets)
  BY <1>3 DEF Restart, Shutdown, Crash
<1>5. sock \in [Sockets -> SockRecords]
  BY <1>1 DEF SocksTyped
<1>6. sock' \in [Sockets -> SockRecords] /\ \A z \in Sockets : Keeps(sock[z], sock'[z])
  <2>1. PICK ss \in [Sockets -> SockRecords] :
          ss = Dismissed(sock, who) /\ \A z \in Sockets : Keeps(sock[z], ss[z])
    BY <1>5, DismissedIs
  <2>2. CASE sock' = Dismissed(sock, who)
    BY <2>1, <2>2
  <2>3. CASE sock' = Cut(Dismissed(sock, who), Sockets)
    <3>1. sock' = Cut(ss, Sockets)
      BY <2>1, <2>3
    <3>2. sock' \in [Sockets -> SockRecords] /\ \A z \in Sockets : Keeps(ss[z], sock'[z])
      BY <3>1, CutIs
    <3> QED  BY <2>1, <3>2 DEF Keeps
  <2>4. CASE sock' = Cut(sock, Sockets)
    BY <1>5, <2>4, CutIs
  <2> QED  BY <1>4, <2>2, <2>3, <2>4
<1>7. SocksTyped' /\ RefsOK' /\ TalkFits'
  BY <1>1, <1>2, <1>6, AllKept
<1>8. StateTyped'
  <2>1. room.run + 1 \in Runs /\ room.run + 1 <= 1 + upsets' /\ upsets' \in 0..MaxUpsets
    BY <1>1, <1>2, UpsetTyped
  <2>2. room' \in RoomRecords /\ room'.run = room.run + 1
    BY <1>2, <2>1, OpeningTyped
  <2> QED  BY <1>1, <1>2, <2>1, <2>2 DEF StateTyped
<1> QED  BY <1>7, <1>8 DEF ClientInv

LEMMA ExpiresKeeps ==
    ASSUME ClientInv, Expires PROVE ClientInv'
<1>1. /\ expired' = TRUE /\ disk' = disk /\ tab' = tab /\ sock' = sock /\ room' = room
      /\ upsets' = upsets
  BY DEF Expires, bounds
<1> QED  BY <1>1 DEF ClientInv, StateTyped, SocksTyped, RefsOK, TalkFits

\* onmessage: what is read from the socket the tab listens to.
Took(x) == [x EXCEPT !.down = Tail(x.down)]
TookAt(f, s) == [f EXCEPT ![s].down = Tail(@)]

LEMMA TookAtIs ==
    ASSUME NEW f \in [Sockets -> SockRecords], NEW s \in Sockets
    PROVE  TookAt(f, s) = With(f, s, Took(f[s]))
BY DEF TookAt, With, Took

LEMMA TookIs ==
    ASSUME NEW x \in SockRecords, x.down # <<>>
    PROVE  /\ Took(x) \in SockRecords /\ Took(x).up = x.up /\ Took(x).down = Tail(x.down)
           /\ Took(x).client = x.client /\ Took(x).server = x.server
           /\ Took(x).joining = x.joining /\ Took(x).denied = x.denied
           /\ Took(x).run = x.run /\ Took(x).userId = x.userId
           /\ \A i \in DOMAIN Took(x).down : /\ i + 1 \in DOMAIN x.down /\ i \in Int /\ i + 1 # 1
                                             /\ Took(x).down[i] = x.down[i + 1]
<1>1. PICK q \in Seq(DownFrames) : q = x.down /\ q # <<>>
  BY SockFields
<1>2. Tail(q) \in Seq(DownFrames) /\ \A i \in DOMAIN Tail(q) : i + 1 \in DOMAIN q /\ i + 1 # 1 /\ Tail(q)[i] = q[i + 1]
  BY <1>1, Dropped
<1>3. \A i \in DOMAIN Tail(q) : i \in Int
  BY <1>2
<1>4. PICK y : y = [x EXCEPT !.down = Tail(q)]
  OBVIOUS
<1>5. /\ y \in SockRecords /\ y.up = x.up /\ y.down = Tail(q)
      /\ y.client = x.client /\ y.server = x.server
      /\ y.joining = x.joining /\ y.denied = x.denied
      /\ y.run = x.run /\ y.userId = x.userId
  BY <1>2, <1>4 DEF SockRecords
<1>6. Took(x) = y
  BY <1>1, <1>4 DEF Took
<1> QED  BY <1>1, <1>2, <1>3, <1>5, <1>6

LEMMA TookOrderly ==
    ASSUME NEW x \in SockRecords, x.down # <<>>, Orderly(x) PROVE Orderly(Took(x))
<1>1. Introduced(x) => Introduced(Took(x))
  BY TookIs DEF Introduced
<1>2. \A i \in DOMAIN Took(x).down : NotJoined(Took(x).down[i]) => Took(x).denied = TRUE
  BY TookIs DEF Orderly
<1>3. x.server # None
  BY DEF Orderly
<1> QED  BY <1>1, <1>2, <1>3, TookIs, Constants DEF Orderly

\* The answer to a join is read: it is the only one, and no other join is under way.
LEMMA TookTalks ==
    ASSUME NEW x \in SockRecords, x.down # <<>>, NEW s, NEW d, Talks(x, s, d)
    PROVE  /\ Talks(Took(x), s, d)
           /\ IsTalk(Head(x.down)) => /\ \A i \in DOMAIN x.up : ~IsJoin(x.up[i])
                                      /\ x.joining = None
                                      /\ \A i \in DOMAIN Took(x).down : ~IsTalk(Took(x).down[i])
           /\ Head(x.down).t = "welcome" => IdFits(d, s, Head(x.down).you)
           /\ Unauthorized(Head(x.down)) => ~Guest(d)
<1>1. x.down \in Seq(DownFrames)
  BY SockFields
<1>2. Head(x.down) = x.down[1] /\ 1 \in DOMAIN x.down /\ DOMAIN x.down \subseteq Int
  <2>1. DOMAIN x.down = 1..Len(x.down) /\ 1 \in DOMAIN x.down /\ Head(x.down) = x.down[1]
    BY <1>1, Dropped
  <2> QED  BY <2>1
<1>3. Talks(Took(x), s, d)
  <2>1. \A i, j \in DOMAIN Took(x).down :
           IsTalk(Took(x).down[i]) /\ IsTalk(Took(x).down[j]) => i = j
    <3>1. \A i, j \in DOMAIN x.down : IsTalk(x.down[i]) /\ IsTalk(x.down[j]) => i = j
      BY DEF Talks
    <3> QED  BY <3>1, TookIs
  <2>2. (\A i \in DOMAIN x.down : ~IsTalk(x.down[i]))
           => \A i \in DOMAIN Took(x).down : ~IsTalk(Took(x).down[i])
    BY TookIs
  <2>3. \A i \in DOMAIN Took(x).down :
           /\ Took(x).down[i].t = "welcome" => IdFits(d, s, Took(x).down[i].you)
           /\ Unauthorized(Took(x).down[i]) => ~Guest(d)
    BY TookIs DEF Talks
  <2>4. Took(x).up = x.up /\ Took(x).joining = x.joining
    BY TookIs
  <2> QED  BY <2>1, <2>2, <2>3, <2>4 DEF Talks
<1>4. ASSUME IsTalk(Head(x.down))
      PROVE  /\ \A i \in DOMAIN x.up : ~IsJoin(x.up[i])
             /\ x.joining = None
             /\ \A i \in DOMAIN Took(x).down : ~IsTalk(Took(x).down[i])
  <2>1. IsTalk(x.down[1])
    BY <1>2, <1>4
  <2>2. (\A i \in DOMAIN x.up : ~IsJoin(x.up[i])) /\ x.joining = None
    BY <1>2, <2>1 DEF Talks
  <2>3. \A i \in DOMAIN x.down : IsTalk(x.down[i]) => i = 1
    BY <1>2, <2>1 DEF Talks
  <2>4. \A i \in DOMAIN Took(x).down : ~IsTalk(Took(x).down[i])
    BY <2>3, TookIs
  <2> QED  BY <2>2, <2>4
<1>5. /\ Head(x.down).t = "welcome" => IdFits(d, s, Head(x.down).you)
      /\ Unauthorized(Head(x.down)) => ~Guest(d)
  BY <1>2 DEF Talks
<1> QED  BY <1>3, <1>4, <1>5

\* No talk at all is under way: it fits whoever is remembered.
LEMMA SilenceTalks ==
    ASSUME NEW x \in SockRecords, x.joining = None, \A i \in DOMAIN x.up : ~IsJoin(x.up[i]),
           \A i \in DOMAIN x.down : ~IsTalk(x.down[i]), NEW s, NEW d
    PROVE  Talks(x, s, d)
<1>1. \A i \in DOMAIN x.down : x.down[i].t # "welcome" /\ ~Unauthorized(x.down[i])
  BY DEF IsTalk
<1> QED  BY <1>1 DEF Talks

\* The join that a guest falls back to.
LEMMA FallbackFrame ==
    JoinFrame(None, FALSE) \in UpFrames /\ JoinFrame(None, FALSE).id = None
<1>1. JoinFrame(None, FALSE) \in [t : {"join"}, id : Ids \cup {None}, token : BOOLEAN]
  BY DEF JoinFrame
<1>2. JoinFrame(None, FALSE).id = None
  BY DEF JoinFrame
<1> QED  BY <1>1, <1>2 DEF UpFrames

LEMMA FallbackTalks ==
    ASSUME NEW x \in SockRecords, x.joining = None, \A i \in DOMAIN x.up : ~IsJoin(x.up[i]),
           \A i \in DOMAIN x.down : ~IsTalk(x.down[i]), NEW y \in SockRecords,
           Sent(x, y, JoinFrame(None, FALSE)), NEW s, NEW d, ~Guest(d), d.token = FALSE
    PROVE  Talks(y, s, d)
<1>1. PICK m \in UpFrames : m = JoinFrame(None, FALSE) /\ JoinFits(d, m)
  <2>1. JoinFrame(None, FALSE) \in UpFrames /\ JoinFrame(None, FALSE).id = None
    BY FallbackFrame
  <2>2. JoinFits(d, JoinFrame(None, FALSE))
    BY <2>1 DEF JoinFits
  <2> QED  BY <2>1, <2>2
<1>2. y.down = x.down /\ y.joining = None
  BY SentFields
<1>3. x.up \in Seq(UpFrames)
  BY SockFields
<1>4. CASE y.up = x.up
  BY <1>2, <1>4, SilenceTalks
<1>5. CASE y.up = Append(x.up, m)
  <2>1. \A i \in DOMAIN y.up : IsJoin(y.up[i]) => i = Len(x.up) + 1 /\ y.up[i] = m
    BY <1>3, <1>5, Appended
  <2>2. \A i \in DOMAIN y.down : ~IsTalk(y.down[i]) /\ y.down[i].t # "welcome"
                                  /\ ~Unauthorized(y.down[i])
    BY <1>2 DEF IsTalk
  <2>3. /\ \A i, j \in DOMAIN y.up : IsJoin(y.up[i]) /\ IsJoin(y.up[j]) => i = j
        /\ \A i \in DOMAIN y.up : IsJoin(y.up[i]) => JoinFits(d, y.up[i])
    BY <1>1, <2>1
  <2>4. y.joining = None
    BY <1>2
  <2> QED  BY <2>2, <2>3, <2>4 DEF Talks
<1>6. Sent(x, y, m)
  BY <1>1
<1>7. y.up = x.up \/ y.up = Append(x.up, m)
  BY <1>6, SentFields
<1> QED  BY <1>4, <1>5, <1>7

Refuses(t, m) == m = Error("unauthorized") /\ ~t.fallback

LEMMA WelcomedTyped ==
    ASSUME NEW t \in TabRecords, NEW m \in DownFrames, m.t = "welcome"
    PROVE  /\ Welcomed(t, m) \in TabRecords /\ Welcomed(t, m).ref = t.ref
           /\ Welcomed(t, m).status = t.status /\ Welcomed(t, m).retry = t.retry
<1>1. m.you \in Ids /\ m.phase \in Phases /\ m.question \in Questions \cup {None} /\ m.seq \in Nat
  BY DownFrameIs
<1>2. PICK e \in {None, "login_expired"} : e = IF t.fallback THEN "login_expired" ELSE None
  OBVIOUS
<1>3. Welcomed(t, m) = [t EXCEPT !.error = e, !.you = m.you, !.phase = m.phase,
                                 !.question = m.question, !.chosen = FALSE, !.result = None,
                                 !.seq = m.seq]
  BY <1>2 DEF Welcomed
<1> QED  BY <1>1, <1>3 DEF TabRecords

LEMMA AppliedTyped ==
    ASSUME NEW t \in TabRecords, NEW m \in DownFrames, m.t = "event"
    PROVE  /\ Applied(t, m) \in TabRecords /\ Applied(t, m).ref = t.ref
           /\ Applied(t, m).status = t.status /\ Applied(t, m).retry = t.retry
<1>1. m.phase \in Phases /\ m.question \in Questions /\ m.seq \in Nat
  BY DownFrameIs
<1>2. CASE m.seq < t.seq
  BY <1>2 DEF Applied
<1>3. CASE ~(m.seq < t.seq) /\ m.phase \in {"lobby", "reveal"}
  <2>1. Applied(t, m) = [t EXCEPT !.phase = m.phase, !.seq = m.seq]
    BY <1>3 DEF Applied
  <2> QED  BY <1>1, <2>1 DEF TabRecords
<1>4. CASE ~(m.seq < t.seq) /\ m.phase = "question"
  <2>1. Applied(t, m) = [t EXCEPT !.phase = "question", !.question = m.question,
                                  !.chosen = FALSE, !.result = None, !.seq = m.seq]
    BY <1>4 DEF Applied
  <2> QED  BY <1>1, <2>1 DEF TabRecords, Phases
<1>5. CASE ~(m.seq < t.seq) /\ m.phase = "finished"
  <2>1. Applied(t, m) = [t EXCEPT !.phase = "finished", !.question = None, !.seq = m.seq]
    BY <1>5 DEF Applied
  <2> QED  BY <1>1, <2>1 DEF TabRecords, Phases
<1> QED  BY <1>1, <1>2, <1>3, <1>4, <1>5 DEF Phases

LEMMA ShownTyped ==
    ASSUME NEW t \in TabRecords
    PROVE  /\ [t EXCEPT !.fallback = TRUE] \in TabRecords /\ [t EXCEPT !.fallback = TRUE].ref = t.ref
           /\ [t EXCEPT !.fallback = TRUE].status = t.status
           /\ [t EXCEPT !.fallback = TRUE].retry = t.retry
           /\ \A m \in DownFrames :
                 /\ [t EXCEPT !.result = m] \in TabRecords /\ [t EXCEPT !.result = m].ref = t.ref
                 /\ [t EXCEPT !.result = m].status = t.status
                 /\ [t EXCEPT !.result = m].retry = t.retry
           /\ \A c \in {"unauthorized", "internal", "not_joined", "lookup", "rate_limited"} :
                 /\ [t EXCEPT !.error = c] \in TabRecords /\ [t EXCEPT !.error = c].ref = t.ref
                 /\ [t EXCEPT !.error = c].status = t.status
                 /\ [t EXCEPT !.error = c].retry = t.retry
<1>1. /\ [t EXCEPT !.fallback = TRUE] \in TabRecords /\ [t EXCEPT !.fallback = TRUE].ref = t.ref
      /\ [t EXCEPT !.fallback = TRUE].status = t.status
      /\ [t EXCEPT !.fallback = TRUE].retry = t.retry
  BY DEF TabRecords
<1>2. ASSUME NEW m \in DownFrames
      PROVE  /\ [t EXCEPT !.result = m] \in TabRecords /\ [t EXCEPT !.result = m].ref = t.ref
             /\ [t EXCEPT !.result = m].status = t.status
             /\ [t EXCEPT !.result = m].retry = t.retry
  BY DEF TabRecords
<1>3. ASSUME NEW c \in {"unauthorized", "internal", "not_joined", "lookup", "rate_limited"}
      PROVE  /\ [t EXCEPT !.error = c] \in TabRecords /\ [t EXCEPT !.error = c].ref = t.ref
             /\ [t EXCEPT !.error = c].status = t.status
             /\ [t EXCEPT !.error = c].retry = t.retry
  BY DEF TabRecords
<1> QED  BY <1>1, <1>2, <1>3

LEMMA ReceivedKept ==
    ASSUME SocksTyped, RefsOK,
           tab'.ref = tab.ref, tab'.status = tab.status, tab'.retry = tab.retry,
           NEW s \in Sockets, sock[s].client = "open", NEW y \in SockRecords,
           sock' = With(sock, s, y), y.client = "open", Orderly(y),
           Talks(y, s, disk'), Guest(disk') => disk'.token = FALSE
    PROVE  SocksTyped' /\ RefsOK' /\ TalkFits'
<1>1. sock \in [Sockets -> SockRecords]
  BY DEF SocksTyped
<1>2. /\ sock' \in [Sockets -> SockRecords] /\ sock'[s] = y
      /\ \A z \in Sockets : z # s => sock'[z] = sock[z]
  BY <1>1, WithIs
<1>3. SocksTyped'
  BY <1>2 DEF SocksTyped
<1>4. tab.ref = s /\ \A z \in Sockets : z # s => sock[z].client # "open"
  BY DEF RefsOK
<1>5. Retries(tab') <=> Retries(tab)
  BY DEF Retries
<1>6. RefsOK'
  BY <1>2, <1>5 DEF RefsOK
<1>7. TalkFits'
  BY <1>2, <1>4 DEF TalkFits
<1> QED  BY <1>3, <1>6, <1>7

LEMMA ReceivesKeeps ==
    ASSUME ClientInv, NEW s \in Sockets, Receives(s) PROVE ClientInv'
<1>1. StateTyped /\ SocksTyped /\ RefsOK /\ TalkFits
  BY DEF ClientInv
<1>2. PICK x \in SockRecords : x = sock[s]
  BY <1>1 DEF SocksTyped
<1>3. /\ sock \in [Sockets -> SockRecords] /\ Orderly(x) /\ x.client = "open" /\ x.down # <<>>
      /\ sock[s].client = "open" /\ Head(x.down).t # "close"
  BY <1>1, <1>2 DEF SocksTyped, Receives
<1>4. PICK m \in DownFrames : m = Head(x.down) /\ m.t # "close"
  BY <1>2, <1>3, SockFields, Dropped
<1>5. PICK d : d = disk
  OBVIOUS
<1>6. d \in [id : Ids \cup {None}, token : BOOLEAN] /\ (Guest(d) => d.token = FALSE) /\ Talks(x, s, d)
  BY <1>1, <1>2, <1>3, <1>5 DEF StateTyped, TalkFits
<1>7. PICK z \in SockRecords : z = Took(x) /\ z.up = x.up /\ z.client = "open" /\ z.joining = x.joining
                               /\ Orderly(z)
  BY <1>3, TookIs, TookOrderly
<1>8. PICK read \in [Sockets -> SockRecords] :
        read = TookAt(sock, s) /\ read = With(sock, s, z) /\ read[s] = z
  <2>1. TookAt(sock, s) = With(sock, s, z)
    BY <1>2, <1>3, <1>7, TookAtIs
  <2> QED  BY <1>3, <2>1, WithIs
<1>10. /\ tab' = CASE Refuses(tab, m) -> [tab EXCEPT !.fallback = TRUE]
                   [] m.t = "welcome" -> Welcomed(tab, m)
                   [] m.t = "event" -> Applied(tab, m)
                   [] m.t = "answer_result" -> [tab EXCEPT !.result = m]
                   [] m.t = "error" /\ ~Refuses(tab, m) -> [tab EXCEPT !.error = m.code]
       /\ sock' = IF Refuses(tab, m) THEN Ask(read, s, JoinFrame(None, FALSE)) ELSE read
       /\ disk' = CASE Refuses(tab, m) -> [d EXCEPT !.token = FALSE]
                    [] m.t = "welcome" -> [d EXCEPT !.id = m.you]
                    [] OTHER -> d
       /\ expired' = expired /\ room' = room /\ upsets' = upsets
  BY <1>2, <1>4, <1>5, <1>8 DEF Receives, Refuses, TookAt, LoggedOut, bounds
<1>11. tab \in TabRecords /\ (Unauthorized(m) <=> m = Error("unauthorized"))
  BY <1>1, DownFrameIs DEF StateTyped
<1>9. Refuses(tab, m) => m.t = "error"
  BY FramesAre DEF Refuses
<1>12. tab' \in TabRecords /\ tab'.ref = tab.ref /\ tab'.status = tab.status /\ tab'.retry = tab.retry
  <2>1. CASE Refuses(tab, m)
    <3>1. tab' = [tab EXCEPT !.fallback = TRUE]
      BY <1>9, <1>10, <2>1
    <3> QED  BY <1>11, <3>1, ShownTyped
  <2>2. CASE ~Refuses(tab, m) /\ m.t = "welcome"
    <3>1. tab' = Welcomed(tab, m)
      BY <1>10, <2>2
    <3> QED  BY <1>11, <2>2, <3>1, WelcomedTyped
  <2>3. CASE ~Refuses(tab, m) /\ m.t = "event"
    <3>1. tab' = Applied(tab, m)
      BY <1>10, <2>3
    <3> QED  BY <1>11, <2>3, <3>1, AppliedTyped
  <2>4. CASE ~Refuses(tab, m) /\ m.t = "answer_result"
    <3>1. tab' = [tab EXCEPT !.result = m]
      BY <1>10, <2>4
    <3> QED  BY <1>11, <3>1, ShownTyped
  <2>5. CASE ~Refuses(tab, m) /\ m.t = "error"
    <3>1. tab' = [tab EXCEPT !.error = m.code]
      BY <1>10, <2>5
    <3>2. m.code \in {"unauthorized", "internal", "not_joined", "lookup", "rate_limited"}
      BY <2>5, DownFrameIs
    <3> QED  BY <1>11, <3>1, <3>2, ShownTyped
  <2>6. m.t \in {"welcome", "event", "answer_result", "error"}
    BY <1>4, DownFrameIs
  <2> QED  BY <2>1, <2>2, <2>3, <2>4, <2>5, <2>6
<1>13. PICK y \in SockRecords :
         /\ sock' = With(sock, s, y) /\ y.client = "open" /\ Orderly(y)
         /\ Talks(y, s, disk') /\ (Guest(disk') => disk'.token = FALSE)
         /\ disk' \in [id : Ids \cup {None}, token : BOOLEAN]
  <2>1. CASE Refuses(tab, m)
    <3>1. PICK j \in UpFrames : j = JoinFrame(None, FALSE)
      BY FallbackFrame
    <3>2. PICK y \in SockRecords : Ask(read, s, j) = With(read, s, y) /\ Sent(z, y, j)
      BY <1>8, AskIs
    <3>3. sock' = With(sock, s, y)
      <4>1. sock' = Ask(read, s, j)
        BY <1>10, <2>1, <3>1
      <4>2. With(read, s, y) = With(sock, s, y)
        BY <1>3, <1>8, TwiceIs
      <4> QED  BY <3>2, <4>1, <4>2
    <3>4. y.client = "open" /\ Orderly(y)
      BY <1>7, <3>2, SentOrderly, SentFields
    <3>5. Unauthorized(m) /\ IsTalk(m) /\ ~Guest(d)
      BY <1>3, <1>4, <1>6, <1>11, <2>1, TookTalks DEF IsTalk, Refuses
    <3>6. /\ \A i \in DOMAIN z.up : ~IsJoin(z.up[i])
          /\ \A i \in DOMAIN z.down : ~IsTalk(z.down[i])
          /\ z.joining = None
      BY <1>3, <1>4, <1>6, <1>7, <3>5, TookTalks
    <3>7. /\ disk' = [d EXCEPT !.token = FALSE] /\ disk' \in [id : Ids \cup {None}, token : BOOLEAN]
          /\ disk'.id = d.id /\ disk'.token = FALSE
      <4>1. disk' = [d EXCEPT !.token = FALSE]
        BY <1>9, <1>10, <2>1
      <4> QED  BY <1>6, <4>1
    <3>8. PICK e : e = disk'
      OBVIOUS
    <3>9. ~Guest(e) /\ e.token = FALSE
      BY <3>5, <3>7, <3>8 DEF Guest
    <3>10. Talks(y, s, e)
      BY <3>1, <3>2, <3>6, <3>9, FallbackTalks
    <3> QED  BY <3>3, <3>4, <3>7, <3>8, <3>9, <3>10
  <2>2. CASE ~Refuses(tab, m)
    <3>1. sock' = With(sock, s, z)
      BY <1>8, <1>10, <2>2
    <3>2. CASE m.t = "welcome"
      <4>1. disk' = [d EXCEPT !.id = m.you] /\ m.you \in Ids
        BY <1>10, <2>2, <3>2, DownFrameIs
      <4>2. /\ disk' \in [id : Ids \cup {None}, token : BOOLEAN] /\ disk'.id = m.you
            /\ disk'.token = d.token
        BY <1>6, <4>1
      <4>3. IsTalk(m) /\ IdFits(d, s, m.you)
        BY <1>3, <1>4, <1>6, <3>2, TookTalks DEF IsTalk
      <4>4. /\ \A i \in DOMAIN z.up : ~IsJoin(z.up[i])
            /\ \A i \in DOMAIN z.down : ~IsTalk(z.down[i])
            /\ z.joining = None
        BY <1>3, <1>4, <1>6, <1>7, <4>3, TookTalks
      <4>5. PICK e : e = disk'
        OBVIOUS
      <4>6. Talks(z, s, e)
        BY <4>4, SilenceTalks
      <4>7. Guest(e) => e.token = FALSE
        BY <1>6, <4>2, <4>3, <4>5 DEF Guest, IdFits
      <4> QED  BY <1>7, <3>1, <4>2, <4>5, <4>6, <4>7
    <3>3. CASE m.t # "welcome"
      <4>1. disk' = d
        BY <1>10, <2>2, <3>3
      <4>2. Talks(z, s, d)
        BY <1>3, <1>6, <1>7, TookTalks
      <4>3. disk' = disk
        BY <1>5, <4>1
      <4>4. Talks(z, s, disk') /\ (Guest(disk') => disk'.token = FALSE)
            /\ disk' \in [id : Ids \cup {None}, token : BOOLEAN]
        BY ONLY <1>6, <4>1, <4>2
      <4> QED  BY <1>7, <3>1, <4>4
    <3> QED  BY <3>2, <3>3
  <2> QED  BY <2>1, <2>2
<1>14. SocksTyped' /\ RefsOK' /\ TalkFits'
  BY <1>1, <1>3, <1>12, <1>13, ReceivedKept
<1>15. StateTyped'
  BY <1>1, <1>10, <1>12, <1>13 DEF StateTyped
<1> QED  BY <1>14, <1>15 DEF ClientInv

\* What a welcome does to the identity that is remembered.
LEMMA ReceivesIdentity ==
    ASSUME ClientInv, NEW s \in Sockets, Receives(s), disk.id # None, disk'.id # disk.id
    PROVE  disk'.id = Account \/ (disk.id = Account /\ ~disk.token)
<1>1. StateTyped /\ SocksTyped /\ RefsOK /\ TalkFits
  BY DEF ClientInv
<1>2. PICK x \in SockRecords : x = sock[s]
  BY <1>1 DEF SocksTyped
<1>3. x.client = "open" /\ x.down # <<>>
  BY <1>2 DEF Receives
<1>4. PICK m \in DownFrames : m = Head(x.down)
  BY <1>3, SockFields, Dropped
<1>5. PICK d \in [id : Ids \cup {None}, token : BOOLEAN] : d = disk
  BY <1>1 DEF StateTyped
<1>6. Talks(x, s, d)
  BY <1>1, <1>2, <1>3, <1>5 DEF TalkFits
<1>7. m.t = "welcome" /\ disk' = [d EXCEPT !.id = m.you]
  <2>1. disk' = CASE Refuses(tab, m) -> [d EXCEPT !.token = FALSE]
                  [] m.t = "welcome" -> [d EXCEPT !.id = m.you]
                  [] OTHER -> d
    BY <1>2, <1>4, <1>5 DEF Receives, Refuses, LoggedOut
  <2>2. disk'.id # d.id
    BY <1>5
  <2>3. ASSUME Refuses(tab, m) PROVE FALSE
    <3>1. m.t = "error"
      BY <2>3, FramesAre DEF Refuses
    <3>2. disk' = [d EXCEPT !.token = FALSE]
      BY <2>1, <2>3, <3>1
    <3>3. disk'.id = d.id
      BY <3>2
    <3> QED  BY <2>2, <3>3
  <2>4. m.t = "welcome"
    BY <2>1, <2>2, <2>3
  <2> QED  BY <2>1, <2>3, <2>4
<1>8. disk'.id = m.you /\ IdFits(d, s, m.you)
  BY <1>3, <1>4, <1>6, <1>7, TookTalks
<1> QED  BY <1>5, <1>8 DEF IdFits, Guest

-----------------------------------------------------------------------------
(* The invariant, and what it implies.                                       *)

LEMMA NoSocketIs ==
    /\ NoSocket \in SockRecords /\ NoSocket.up = <<>> /\ NoSocket.down = <<>>
    /\ NoSocket.client = None /\ NoSocket.server = None /\ NoSocket.joining = None
    /\ NoSocket.run = None /\ NoSocket.userId = None
<1>1. <<>> \in Seq(UpFrames) /\ <<>> \in Seq(DownFrames)
  OBVIOUS
<1> QED  BY <1>1 DEF NoSocket, SockRecords

LEMMA InitInv == ASSUME ClientInit PROVE ClientInv
<1>1. PICK x : x = NoSocket
  OBVIOUS
<1>2. /\ x \in SockRecords /\ x.up = <<>> /\ x.down = <<>>
      /\ x.client = None /\ x.server = None /\ x.joining = None
      /\ x.run = None /\ x.userId = None
  BY <1>1, NoSocketIs
<1>3. PICK y : y = Connecting(x)
  OBVIOUS
<1>4. /\ y \in SockRecords /\ y.up = <<>> /\ y.down = <<>>
      /\ y.client = "connecting" /\ y.server = None /\ y.joining = None
      /\ y.run = None /\ y.userId = None
  BY <1>2, <1>3 DEF Connecting, SockRecords
<1>5. sock = [s \in Sockets |-> IF s = 1 THEN y ELSE x]
  BY <1>1, <1>3 DEF ClientInit, Connecting
<1>6. Orderly(x) /\ Orderly(y)
  <2>1. DOMAIN x.down = {} /\ DOMAIN y.down = {}
    BY <1>2, <1>4
  <2> QED  BY <1>2, <1>4, <2>1, Constants DEF Orderly
<1>7. SocksTyped
  BY <1>2, <1>4, <1>5, <1>6 DEF SocksTyped
<1>8. PICK b \in TabRecords : b = Blank /\ b.status = "connecting" /\ b.retry = FALSE
  BY BlankTyped DEF Blank
<1>9. tab \in TabRecords /\ tab.ref = 1 /\ tab.status = "connecting" /\ ~Retries(tab)
  <2>1. tab = [b EXCEPT !.ref = 1]
    BY <1>8 DEF ClientInit
  <2> QED  BY <1>8, <2>1, Constants DEF TabRecords, Retries
<1>10. RefsOK
  BY <1>2, <1>4, <1>5, <1>9, Constants DEF RefsOK
<1>11. disk \in [id : {None, Account}, token : BOOLEAN]
  BY DEF ClientInit
<1>12. TalkFits
  <2>1. ~Guest(disk)
    BY <1>11 DEF Guest
  <2> QED  BY <1>2, <1>4, <1>5, <2>1, Constants DEF TalkFits
<1>13. StateTyped
  <2>1. 1 \in Runs /\ 1 \in Nat
    BY Constants DEF Runs
  <2>2. room \in RoomRecords /\ room.run = 1
    BY <2>1, OpeningTyped DEF ClientInit
  <2>3. disk \in [id : Ids \cup {None}, token : BOOLEAN]
    BY <1>11, Constants
  <2>4. expired = FALSE /\ upsets = 0
    BY DEF ClientInit
  <2>5. upsets \in 0..MaxUpsets /\ room.run <= 1 + upsets
    BY <2>2, <2>4, Constants
  <2>6. expired \in BOOLEAN
    BY <2>4
  <2> QED  BY <1>9, <2>2, <2>3, <2>5, <2>6 DEF StateTyped
<1> QED  BY <1>7, <1>10, <1>12, <1>13 DEF ClientInv

LEMMA StepInv == ASSUME ClientInv, [ClientNext]_vars PROVE ClientInv'
<1>1. CASE UNCHANGED vars
  BY <1>1 DEF vars, bounds, ClientInv, StateTyped, SocksTyped, RefsOK, TalkFits
<1>2. ASSUME NEW s \in Sockets,
             \/ Opened(s) \/ Receives(s) \/ Closed(s) \/ Fails(s) \/ Refused(s)
             \/ Leaves(s) \/ Handles(s) \/ Limited(s) \/ Resolves(s) \/ LookupFails(s)
             \/ Breaks(s)
      PROVE  ClientInv'
  BY <1>2, OpenedKeeps, ReceivesKeeps, ClosedKeeps, FailedKeeps, LeavesKeeps, HandlesKeeps,
     LimitedKeeps, ResolvesKeeps, ResolvesLateKeeps, LookupFailsKeeps, BreaksKeeps
<1>3. ASSUME RetryFires \/ Remount \/ Choose \/ MovesOn \/ Restart \/ Shutdown \/ Crash \/ Expires
      PROVE  ClientInv'
  BY <1>3, RetryFiresKeeps, RemountKeeps, ChooseKeeps, MovesOnKeeps, ReplacedKeeps, ExpiresKeeps
<1> QED  BY <1>1, <1>2, <1>3 DEF ClientNext

\* ClientInv is inductive: whoever is remembered is who the one socket of the tab may
\* still be told to be.
THEOREM ClientKeepsInv == ClientSpec => []ClientInv
<1>1. ClientInit => ClientInv
  BY InitInv
<1>2. ClientInv /\ [ClientNext]_vars => ClientInv'
  BY StepInv
<1> QED  BY <1>1, <1>2, PTL DEF ClientSpec

\* Types, and wsRef: it is the one socket that is not closed, or the status and the timer
\* say why there is none (useQuizSocket.ts:188-192).
THEOREM ClientTypeCorrect == ClientSpec => []ClientTypeOK
<1>1. ClientInv => ClientTypeOK
  <2>1. SUFFICES ASSUME ClientInv PROVE ClientTypeOK
    OBVIOUS
  <2>2. StateTyped /\ SocksTyped /\ RefsOK
    BY <2>1 DEF ClientInv
  <2>3. /\ tab.phase \in Phases \cup {None} /\ tab.question \in Questions \cup {None}
        /\ tab.you \in Ids \cup {None} /\ tab.retry \in BOOLEAN
    BY <2>2 DEF StateTyped, TabRecords
  <2>4. /\ room.run \in Runs /\ room.phase \in Phases /\ room.players \subseteq Ids
        /\ room.attached \subseteq Sockets /\ room.answered \subseteq Ids \X Questions
    BY <2>2 DEF StateTyped, RoomRecords
  <2>5. disk \in [id : Ids \cup {None}, token : BOOLEAN] /\ expired \in BOOLEAN
    BY <2>2 DEF StateTyped
  <2>6. \A s \in Sockets :
          /\ sock[s].client \in {None, "connecting", "open", "closing", "closed"}
          /\ sock[s].server \in {None, "open", "closing", "closed"}
          /\ sock[s].client \in {"connecting", "open"} => tab.ref = s
    BY <2>2, SockFields DEF SocksTyped, RefsOK
  <2>7. Retries(tab) <=> tab.retry
    BY <2>3 DEF Retries
  <2>8. tab.ref = None <=> tab.status = "closed" \/ tab.retry
    BY <2>2, <2>7 DEF RefsOK
  <2>9. tab.ref # None => sock[tab.ref].client \in {"connecting", "open"}
    BY <2>2 DEF RefsOK
  <2> QED  BY <2>3, <2>4, <2>5, <2>6, <2>8, <2>9 DEF ClientTypeOK
<1> QED  BY <1>1, ClientKeepsInv, PTL

\* The chain of a socket's handler (ws.ts:73-74): `not_joined' is said only after a join
\* was turned down.
THEOREM AnswersFollowJoins == ClientSpec => []AnswerFollowsJoin
<1>1. ClientInv => AnswerFollowsJoin
  <2>1. SUFFICES ASSUME ClientInv, NEW s \in Sockets, NEW i \in DOMAIN sock[s].down,
                        sock[s].down[i] = Error("not_joined")
                 PROVE  sock[s].denied
    BY DEF AnswerFollowsJoin
  <2>2. NotJoined(sock[s].down[i])
    BY <2>1, FramesAre DEF NotJoined
  <2>3. sock[s].denied = TRUE
    BY <2>1, <2>2 DEF ClientInv, SocksTyped, Orderly
  <2> QED  BY <2>3
<1> QED  BY <1>1, ClientKeepsInv, PTL

\* A reload or a reconnect keeps the player (useQuizSocket.ts:8-9), whatever breaks and
\* however often.
THEOREM IdentitiesAreKept == ClientSpec => IdentityKept
<1>1. ASSUME ClientInv, [ClientNext]_vars, disk.id # None, disk'.id # disk.id
      PROVE  disk'.id = Account \/ (disk.id = Account /\ (expired \/ ~disk.token))
  <2>1. disk' # disk
    BY <1>1
  <2>2. ASSUME \A s \in Sockets : ~Receives(s) PROVE disk' = disk
    <3>1. CASE UNCHANGED vars
      BY <3>1 DEF vars
    <3>2. ASSUME NEW s \in Sockets, Opened(s) \/ Closed(s) \/ Fails(s) \/ Refused(s)
          PROVE  disk' = disk
      BY <3>2 DEF Opened, Closed, Fails, Refused
    <3>3. ASSUME NEW s \in Sockets,
                 \/ Leaves(s) \/ Handles(s) \/ Limited(s) \/ Resolves(s)
                 \/ LookupFails(s) \/ Breaks(s)
          PROVE  disk' = disk
      <4>1. CASE Leaves(s) \/ Limited(s) \/ LookupFails(s) \/ Breaks(s)
        BY <4>1 DEF Leaves, Limited, LookupFails, Breaks
      <4>2. CASE Handles(s)
        BY <4>2 DEF Handles
      <4>3. CASE Resolves(s)
        BY <4>3 DEF Resolves
      <4> QED  BY <3>3, <4>1, <4>2, <4>3
    <3>4. ASSUME RetryFires \/ Remount \/ Choose \/ MovesOn PROVE disk' = disk
      BY <3>4 DEF RetryFires, Remount, Choose, MovesOn
    <3>5. ASSUME Restart \/ Shutdown \/ Crash \/ Expires PROVE disk' = disk
      BY <3>5 DEF Restart, Shutdown, Crash, Expires
    <3> QED  BY <1>1, <2>2, <3>1, <3>2, <3>3, <3>4, <3>5 DEF ClientNext
  <2>3. PICK s \in Sockets : Receives(s)
    BY <2>1, <2>2
  <2> QED  BY <1>1, <2>3, ReceivesIdentity
<1>2. ClientInv /\ [ClientNext]_vars
         => [disk.id # None /\ disk'.id # disk.id
               => \/ disk'.id = Account
                  \/ disk.id = Account /\ (expired \/ ~disk.token)]_vars
  BY <1>1
<1> QED  BY <1>2, ClientKeepsInv, PTL DEF ClientSpec, IdentityKept

-----------------------------------------------------------------------------
(* What the screen will show.                                                *)
(*                                                                           *)
(* Of a socket that is open and attached, the last frame under way that      *)
(* bears on a part of the screen says it as it is, or that part is right     *)
(* already.                                                                  *)

\* The frames that bear on the phase and its number, on the question, on who the player
\* is, on the result; those that let a choice be made.
Telling == {m \in DownFrames : m.t \in {"welcome", "event"}}
Naming == {m \in DownFrames : m.t = "welcome"}
Fresh == {m \in DownFrames : m.t = "welcome" \/ (m.t = "event" /\ m.phase = "question")}
Over == {m \in DownFrames : m.t = "event" /\ m.phase = "finished"}
Results == {m \in DownFrames : m.t = "answer_result"}

\* Those that say that an answer was not counted, and a screen that says so.
Refusals == {m \in DownFrames : \/ m.t = "answer_result" /\ m.accepted = FALSE
                                \/ m.t = "error" /\ ~Unauthorized(m)}
TurnedAway(t) == (t.result # None /\ t.result.accepted = FALSE) \/ Complains(t)

\* Those that say it as it is; id is who the player is.
Judges(m, r, id) ==
    m.accepted = TRUE /\ Shown(r) # None => m.q = Shown(r) /\ <<id, m.q>> \in r.answered
RightPhase(r) == {m \in Telling : m.phase = r.phase /\ m.seq = r.seq}
RightQuestion(r) ==
    {m \in Fresh : m.question = Shown(r)} \cup {m \in Over : Shown(r) = None}
RightName(id) == {m \in Naming : m.you = id}
RightResult(r, id) == Fresh \cup {m \in Results : Judges(m, r, id)}

\* None of the frames of q is in S; the last that is, is in G.
Without(q, S) == \A i \in DOMAIN q : q[i] \notin S
LastSays(q, S, G) ==
    \A i \in DOMAIN q :
        q[i] \in S /\ (\A j \in DOMAIN q : j > i => q[j] \notin S) => q[i] \in G

\* No frame under way is out of date: n is the number on screen, k the session's.
Steady(q, n, k) ==
    /\ \A i \in DOMAIN q : q[i] \in Telling => q[i].seq <= k
    /\ \A i, j \in DOMAIN q : i < j /\ q[i] \in Telling /\ q[j] \in Telling => q[i].seq <= q[j].seq
    /\ \A i \in DOMAIN q : q[i] \in Telling \ Naming =>
          n <= q[i].seq \/ \E h \in DOMAIN q : h < i /\ q[h] \in Naming
    /\ n <= k \/ \E h \in DOMAIN q : q[h] \in Naming

\* A choice that shows as made.
ChoiceKept(x, t, r) ==
    t.chosen = TRUE /\ r.phase = "question" /\ Without(x.down, Fresh) =>
        \/ <<x.userId, r.question>> \in r.answered
        \/ \E i \in DOMAIN x.up : x.up[i] = AnswerFrame(r.question)
        \/ (\E i \in DOMAIN x.down : x.down[i] \in Refusals) \/ TurnedAway(t)

Shows(x, t, r) ==
    /\ /\ LastSays(x.down, Telling, RightPhase(r))
       /\ Without(x.down, Telling) => t.phase = r.phase /\ t.seq = r.seq
    /\ /\ LastSays(x.down, Fresh \cup Over, RightQuestion(r))
       /\ Without(x.down, Fresh \cup Over) => t.question = Shown(r)
    /\ /\ LastSays(x.down, Naming, RightName(x.userId))
       /\ Without(x.down, Naming) => t.you = x.userId
    /\ /\ LastSays(x.down, Fresh \cup Results, RightResult(r, x.userId))
       /\ Without(x.down, Fresh \cup Results) => t.result = None \/ Judges(t.result, r, x.userId)
    /\ Steady(x.down, t.seq, r.seq)
    /\ ChoiceKept(x, t, r)

\* Both ends are open as far as the client's end can tell.
Live(x) == x.client = "open" /\ ~Ended(x.down)
Wired(x, s, t, r) ==
    /\ s \in r.attached => x.server # None
    /\ Live(x) => /\ x.server = "open" /\ ~Ended(x.up)
                  /\ s \in r.attached => x.run = r.run /\ x.userId # None /\ Shows(x, t, r)
                  /\ s \notin r.attached => Without(x.down, Telling)

ViewInv == \A s \in Sockets : Wired(sock[s], s, tab, room)

-----------------------------------------------------------------------------
\* A result on screen is not the lack of one.
LEMMA FrameIsThere == \A m \in Results : m # None
<1>1. SUFFICES ASSUME NEW m \in Results PROVE m # None
  OBVIOUS
<1>2. m \in [t : {"answer_result"}, q : Questions, accepted : BOOLEAN]
  BY DEF Results, DownFrames, Leaving
<1> QED  BY <1>2, ClientAssumption DEF ClientAssumption

\* What is said of a direction to which a frame is added.
LEMMA SaysAppended ==
    ASSUME NEW q \in Seq(DownFrames), NEW m \in DownFrames, NEW w, w = Append(q, m), NEW S
    PROVE  /\ Without(w, S) <=> Without(q, S) /\ m \notin S
           /\ \A G, H : (m \in S => m \in H) /\ (m \notin S => LastSays(q, S, G) /\ G \subseteq H)
                           => LastSays(w, S, H)
<1> DEFINE n == Len(q) + 1
<1>1. /\ DOMAIN w = 1..n /\ DOMAIN q = 1..Len(q) /\ Len(q) \in Nat /\ w[n] = m
      /\ \A i \in DOMAIN q : w[i] = q[i]
  OBVIOUS
<1>2. \A i \in DOMAIN w : i = n \/ (i \in DOMAIN q /\ i < n)
  BY <1>1
<1>3. n \in DOMAIN w /\ \A i \in DOMAIN q : i \in DOMAIN w /\ i < n /\ i \in Int
  BY <1>1
<1> HIDE DEF n
<1>4. Without(w, S) <=> Without(q, S) /\ m \notin S
  BY <1>1, <1>2, <1>3 DEF Without
<1>5. ASSUME NEW G, NEW H, m \in S => m \in H, m \notin S => LastSays(q, S, G) /\ G \subseteq H
      PROVE  LastSays(w, S, H)
  <2>1. SUFFICES ASSUME NEW i \in DOMAIN w, w[i] \in S, \A j \in DOMAIN w : j > i => w[j] \notin S
                 PROVE  w[i] \in H
    BY DEF LastSays
  <2>2. CASE i = n
    BY <1>1, <1>5, <2>1, <2>2
  <2>3. CASE i \in DOMAIN q /\ i < n
    <3>1. n > i
      BY <1>1, <2>3 DEF n
    <3>2. m \notin S
      BY <1>1, <1>3, <2>1, <3>1
    <3>3. q[i] \in S /\ \A j \in DOMAIN q : j > i => q[j] \notin S
      BY <1>1, <1>3, <2>1, <2>3
    <3>4. q[i] \in G
      BY <1>5, <2>3, <3>2, <3>3 DEF LastSays
    <3> QED  BY <1>1, <1>5, <2>3, <3>2, <3>4
  <2> QED  BY <1>2, <2>2, <2>3
<1> QED  BY <1>4, <1>5

\* What is said of one whose first frame has been read.
LEMMA SaysDropped ==
    ASSUME NEW D, NEW q \in Seq(D), q # <<>>, NEW S
    PROVE  /\ Without(q, S) => Without(Tail(q), S)
           /\ Without(Tail(q), S) /\ Head(q) \notin S => Without(q, S)
           /\ \A G : LastSays(q, S, G) =>
                 /\ LastSays(Tail(q), S, G)
                 /\ Without(Tail(q), S) /\ Head(q) \in S => Head(q) \in G
<1> DEFINE w == Tail(q)
           n == Len(q) - 1
<1>1. /\ DOMAIN q = 1..Len(q) /\ Len(q) \in Nat \ {0} /\ DOMAIN w = 1..n /\ Head(q) = q[1]
      /\ \A i \in DOMAIN w : w[i] = q[i + 1]
  OBVIOUS
<1> HIDE DEF w
<1>2. /\ 1 \in DOMAIN q /\ \A i \in DOMAIN w : i + 1 \in DOMAIN q /\ i \in Int
      /\ \A i \in DOMAIN q : i = 1 \/ (i - 1 \in DOMAIN w /\ (i - 1) + 1 = i /\ i > 1)
      /\ \A i \in DOMAIN q : i \in Int
  BY <1>1
<1>3. Without(q, S) => Without(w, S)
  BY <1>1, <1>2 DEF Without
<1>4. ASSUME Without(w, S), Head(q) \notin S PROVE Without(q, S)
  <2>1. ASSUME NEW i \in DOMAIN q, i - 1 \in DOMAIN w, (i - 1) + 1 = i PROVE q[i] \notin S
    BY <1>1, <1>4, <2>1 DEF Without
  <2> QED  BY <1>1, <1>2, <1>4, <2>1 DEF Without
<1>5. ASSUME NEW G, LastSays(q, S, G)
      PROVE  /\ LastSays(w, S, G) /\ (Without(w, S) /\ Head(q) \in S => Head(q) \in G)
  <2>1. ASSUME NEW i \in DOMAIN w, w[i] \in S, \A j \in DOMAIN w : j > i => w[j] \notin S
        PROVE  w[i] \in G
    <3>1. i + 1 \in DOMAIN q /\ q[i + 1] \in S
      BY <1>1, <1>2, <2>1
    <3>2. ASSUME NEW j \in DOMAIN q, j > i + 1 PROVE q[j] \notin S
      <4>1. j - 1 \in DOMAIN w /\ (j - 1) + 1 = j /\ j - 1 > i
        BY <1>2, <3>2
      <4> QED  BY <1>1, <2>1, <4>1
    <3>3. q[i + 1] \in G
      BY <1>5, <3>1, <3>2 DEF LastSays
    <3> QED  BY <1>1, <3>3
  <2>2. ASSUME Without(w, S), Head(q) \in S PROVE Head(q) \in G
    <3>1. ASSUME NEW j \in DOMAIN q, j > 1 PROVE q[j] \notin S
      <4>1. j - 1 \in DOMAIN w /\ (j - 1) + 1 = j
        BY <1>2, <3>1
      <4> QED  BY <1>1, <2>2, <4>1 DEF Without
    <3> QED  BY <1>1, <1>2, <1>5, <2>2, <3>1 DEF LastSays
  <2> QED  BY <2>1, <2>2 DEF LastSays
<1> QED  BY <1>3, <1>4, <1>5 DEF w

\* Whether a direction has ended, once a frame is added to it.
LEMMA EndedAppended ==
    /\ \A q \in Seq(DownFrames), m \in DownFrames : Ended(Append(q, m)) <=> m.t = "close"
    /\ \A q \in Seq(UpFrames), m \in UpFrames : Ended(Append(q, m)) <=> m.t = "close"
<1>1. ASSUME NEW D, NEW q \in Seq(D), NEW m \in D PROVE Ended(Append(q, m)) <=> m.t = "close"
  <2>1. Append(q, m) # <<>> /\ Append(q, m)[Len(Append(q, m))] = m
    OBVIOUS
  <2> QED  BY <2>1 DEF Ended
<1>2. ASSUME NEW q \in Seq(DownFrames), NEW m \in DownFrames
      PROVE  Ended(Append(q, m)) <=> m.t = "close"
  BY <1>1
<1>3. ASSUME NEW q \in Seq(UpFrames), NEW m \in UpFrames
      PROVE  Ended(Append(q, m)) <=> m.t = "close"
  BY <1>1
<1> QED  BY <1>2, <1>3

LEMMA EmptyIs ==
    ASSUME NEW D, NEW q \in Seq(D)
    PROVE  q = <<>> <=> Len(q) = 0
OBVIOUS

\* Whether it has, once a frame of it has been read.
LEMMA EndedDropped ==
    ASSUME NEW D, NEW q \in Seq(D), q # <<>>, Head(q).t # "close"
    PROVE  Ended(Tail(q)) <=> Ended(q)
<1>1. PICK w : w = Tail(q)
  OBVIOUS
<1>2. /\ Len(q) \in Nat \ {0} /\ Tail(q) \in Seq(D) /\ Len(Tail(q)) = Len(q) - 1
      /\ \A i \in 1..(Len(q) - 1) : Tail(q)[i] = q[i + 1]
      /\ Head(q) = q[1]
  OBVIOUS
<1>3. CASE Len(q) = 1
  <2>1. Len(Tail(q)) = 0
    BY <1>2, <1>3
  <2>2. Tail(q) = <<>>
    BY <1>2, <2>1, EmptyIs
  <2>3. q[Len(q)] = Head(q)
    BY <1>2, <1>3
  <2>4. w = <<>>
    BY <1>1, <2>2
  <2>5. ~Ended(q) /\ ~Ended(w)
    BY <2>3, <2>4 DEF Ended
  <2> QED  BY <1>1, <2>5
<1>4. CASE Len(q) # 1
  <2>1. Len(q) - 1 \in 1..(Len(q) - 1) /\ (Len(q) - 1) + 1 = Len(q) /\ Len(Tail(q)) # 0
    BY <1>2, <1>4
  <2>2. Tail(q)[Len(Tail(q))] = q[Len(q)]
    BY <1>2, <2>1
  <2>3. Tail(q) # <<>>
    BY <1>2, <2>1, EmptyIs
  <2>4. w # <<>> /\ w[Len(w)] = q[Len(q)]
    BY <1>1, <2>2, <2>3
  <2>5. Ended(w) <=> Ended(q)
    BY <2>4 DEF Ended
  <2> QED  BY <1>1, <2>5
<1> QED  BY <1>3, <1>4

LEMMA EndedWhen ==
    /\ ~Ended(<<>>)
    /\ \A m : Ended(<<m>>) <=> m.t = "close"
<1>1. \A m : <<m>> # <<>> /\ Len(<<m>>) = 1 /\ <<m>>[1] = m
  OBVIOUS
<1> QED  BY <1>1 DEF Ended

\* The sets of frames, and what a telling frame says.
LEMMA Kinds ==
    /\ Naming \subseteq Fresh /\ Naming \subseteq Telling /\ Fresh \subseteq Telling
    /\ Over \subseteq Telling /\ Over \cap Fresh = {} /\ Over \cap Naming = {}
    /\ Results \cap Telling = {}
    /\ \A m \in Telling : m.seq \in Nat /\ m.phase \in Phases
BY DEF Naming, Fresh, Telling, Over, Results, DownFrames

\* What is sent carries the session's number: none under way is newer.
LEMMA SteadyAppended ==
    ASSUME NEW q \in Seq(DownFrames), NEW n \in Nat, NEW k \in Nat, Steady(q, n, k),
           NEW m \in DownFrames, NEW l \in Nat, k <= l, m \in Telling => m.seq = l
    PROVE  Steady(Append(q, m), n, l)
<1> DEFINE w == Append(q, m)
           e == Len(q) + 1
<1>1. /\ DOMAIN w = 1..e /\ DOMAIN q = 1..Len(q) /\ Len(q) \in Nat /\ w[e] = m
      /\ \A i \in DOMAIN q : w[i] = q[i]
  OBVIOUS
<1> HIDE DEF w
<1>2. \A i \in DOMAIN w : i = e \/ (i \in DOMAIN q /\ i < e)
  BY <1>1
<1>3. e \in DOMAIN w /\ e \in Int /\ \A i \in DOMAIN q : i \in DOMAIN w /\ i < e /\ i \in Int
  BY <1>1
<1> HIDE DEF e
<1>4. \A i \in DOMAIN q : q[i] \in DownFrames
  OBVIOUS
<1>5. \A i \in DOMAIN w : w[i] \in Telling => w[i].seq <= l /\ w[i].seq \in Nat
  <2>1. \A i \in DOMAIN q : q[i] \in Telling => q[i].seq <= k /\ q[i].seq \in Nat
    BY Kinds DEF Steady
  <2>2. \A i \in DOMAIN q : q[i] \in Telling => q[i].seq <= l /\ q[i].seq \in Nat
    BY <2>1
  <2>3. m \in Telling => m.seq <= l /\ m.seq \in Nat
    OBVIOUS
  <2> QED  BY <1>1, <1>2, <2>2, <2>3
<1>6. ASSUME NEW i \in DOMAIN w, NEW j \in DOMAIN w, i < j, w[i] \in Telling, w[j] \in Telling
      PROVE  w[i].seq <= w[j].seq
  <2>1. CASE j = e
    <3>1. w[j].seq = l
      BY <1>1, <1>6, <2>1
    <3> QED  BY <1>5, <1>6, <3>1
  <2>2. CASE j \in DOMAIN q /\ j < e
    <3>1. i \in DOMAIN q
      BY <1>2, <1>3, <1>6, <2>2
    <3> QED  BY <1>1, <1>6, <2>2, <3>1 DEF Steady
  <2> QED  BY <1>2, <2>1, <2>2
<1>7. ASSUME NEW i \in DOMAIN w, w[i] \in Telling \ Naming
      PROVE  n <= w[i].seq \/ \E h \in DOMAIN w : h < i /\ w[h] \in Naming
  <2>1. CASE i = e
    <3>1. w[i].seq = l
      BY <1>1, <1>7, <2>1
    <3>2. CASE n <= k
      BY <3>1, <3>2
    <3>3. ASSUME NEW h \in DOMAIN q, q[h] \in Naming PROVE h \in DOMAIN w /\ h < i /\ w[h] \in Naming
      BY <1>1, <1>3, <2>1, <3>3
    <3> QED  BY <3>2, <3>3 DEF Steady
  <2>2. CASE i \in DOMAIN q
    <3>1. n <= q[i].seq \/ \E h \in DOMAIN q : h < i /\ q[h] \in Naming
      BY <1>1, <1>7, <2>2 DEF Steady
    <3> QED  BY <1>1, <1>3, <2>2, <3>1
  <2> QED  BY <1>2, <2>1, <2>2
<1>8. n <= l \/ \E h \in DOMAIN w : w[h] \in Naming
  <2>1. n <= k \/ \E h \in DOMAIN q : q[h] \in Naming
    BY DEF Steady
  <2> QED  BY <1>1, <1>3, <2>1
<1> QED  BY <1>5, <1>6, <1>7, <1>8 DEF Steady, w

\* A welcome that nothing of the kind is before puts the numbers right.
LEMMA SteadyFirst ==
    ASSUME NEW q \in Seq(DownFrames), NEW n \in Nat, NEW k \in Nat, Without(q, Telling),
           NEW m \in Naming, m.seq = k
    PROVE  Steady(Append(q, m), n, k)
<1> DEFINE w == Append(q, m)
           e == Len(q) + 1
<1>1. m \in DownFrames /\ m \in Telling
  BY Kinds DEF Naming
<1>2. /\ DOMAIN w = 1..e /\ DOMAIN q = 1..Len(q) /\ Len(q) \in Nat /\ w[e] = m
      /\ \A i \in DOMAIN q : w[i] = q[i]
  BY <1>1
<1> HIDE DEF w
<1>3. \A i \in DOMAIN w : i = e \/ (i \in DOMAIN q /\ i < e)
  BY <1>2
<1>4. e \in DOMAIN w /\ e \in Int
  BY <1>2
<1> HIDE DEF e
<1>5. \A i \in DOMAIN w : w[i] \in Telling => i = e /\ w[i] = m
  BY <1>2, <1>3 DEF Without
<1> QED  BY <1>2, <1>4, <1>5 DEF Steady, w

\* What is read moves the number on screen up to that of the frame.
LEMMA SteadyDropped ==
    ASSUME NEW q \in Seq(DownFrames), q # <<>>, NEW n \in Nat, NEW k \in Nat, Steady(q, n, k),
           NEW l, l = IF Head(q) \in Telling THEN Head(q).seq ELSE n
    PROVE  /\ Steady(Tail(q), l, k) /\ l \in Nat
           /\ Head(q) \in Telling \ Naming => n <= Head(q).seq
<1> DEFINE w == Tail(q)
           e == Len(q) - 1
<1>1. /\ DOMAIN q = 1..Len(q) /\ Len(q) \in Nat \ {0} /\ DOMAIN w = 1..e /\ Head(q) = q[1]
      /\ \A i \in DOMAIN w : w[i] = q[i + 1]
      /\ \A i \in DOMAIN q : q[i] \in DownFrames
  OBVIOUS
<1> HIDE DEF w
<1>2. /\ 1 \in DOMAIN q /\ \A i \in DOMAIN w : i + 1 \in DOMAIN q /\ i + 1 > 1 /\ i \in Int
      /\ \A i \in DOMAIN q : i = 1 \/ (i - 1 \in DOMAIN w /\ (i - 1) + 1 = i /\ i > 1)
      /\ \A i \in DOMAIN q : i \in Int /\ ~(i < 1)
      /\ \A i, j \in DOMAIN w : i < j => i + 1 < j + 1
      /\ \A i \in DOMAIN w, h \in DOMAIN q : h < i + 1 /\ h # 1 => h - 1 < i
  BY <1>1
<1> HIDE DEF e
<1>3. l \in Nat
  BY <1>1, <1>2, Kinds
<1>4. \A i \in DOMAIN w : w[i] \in Telling => w[i].seq <= k
  BY <1>1, <1>2 DEF Steady
<1>5. \A i, j \in DOMAIN w : i < j /\ w[i] \in Telling /\ w[j] \in Telling => w[i].seq <= w[j].seq
  BY <1>1, <1>2 DEF Steady
<1>6. Head(q) \in Telling \ Naming => n <= Head(q).seq
  BY <1>1, <1>2 DEF Steady
<1>7. ASSUME NEW i \in DOMAIN w, w[i] \in Telling \ Naming
      PROVE  l <= w[i].seq \/ \E h \in DOMAIN w : h < i /\ w[h] \in Naming
  <2>1. i + 1 \in DOMAIN q /\ q[i + 1] = w[i] /\ 1 < i + 1
    BY <1>1, <1>2
  <2>2. CASE Head(q) \in Telling
    <3>1. q[1].seq <= q[i + 1].seq
      BY <1>1, <1>2, <1>7, <2>1, <2>2 DEF Steady
    <3> QED  BY <1>1, <2>1, <2>2, <3>1
  <2>3. CASE Head(q) \notin Telling
    <3>1. n <= q[i + 1].seq \/ \E h \in DOMAIN q : h < i + 1 /\ q[h] \in Naming
      BY <1>7, <2>1 DEF Steady
    <3>2. ASSUME NEW h \in DOMAIN q, h < i + 1, q[h] \in Naming
          PROVE  h - 1 \in DOMAIN w /\ h - 1 < i /\ w[h - 1] \in Naming
      <4>1. h # 1
        BY <1>1, <2>3, <3>2, Kinds
      <4>2. h - 1 \in DOMAIN w /\ (h - 1) + 1 = h /\ h - 1 < i
        BY <1>2, <3>2, <4>1
      <4> QED  BY <1>1, <3>2, <4>2
    <3> QED  BY <2>1, <2>3, <3>1, <3>2
  <2> QED  BY <2>2, <2>3
<1>8. l <= k \/ \E h \in DOMAIN w : w[h] \in Naming
  <2>1. CASE Head(q) \in Telling
    BY <1>1, <1>2, <2>1 DEF Steady
  <2>2. CASE Head(q) \notin Telling
    <3>1. n <= k \/ \E h \in DOMAIN q : q[h] \in Naming
      BY DEF Steady
    <3>2. ASSUME NEW h \in DOMAIN q, q[h] \in Naming PROVE \E g \in DOMAIN w : w[g] \in Naming
      <4>1. h # 1
        BY <1>1, <2>2, <3>2, Kinds
      <4>2. h - 1 \in DOMAIN w /\ (h - 1) + 1 = h
        BY <1>2, <4>1
      <4> QED  BY <1>1, <3>2, <4>2
    <3> QED  BY <2>2, <3>1, <3>2
  <2> QED  BY <2>1, <2>2
<1> QED  BY <1>3, <1>4, <1>5, <1>6, <1>7, <1>8 DEF Steady, w

\* What the reading of m makes of the hook's state.
Reads(t, m, u) ==
    /\ m \in Telling => u.phase = m.phase /\ u.seq = m.seq
    /\ m \notin Telling => u.phase = t.phase /\ u.seq = t.seq
    /\ m \in Fresh => u.question = m.question /\ u.chosen = FALSE /\ u.result = None
    /\ m \notin Fresh => u.chosen = t.chosen
    /\ m \in Over => u.question = None
    /\ m \notin Fresh \cup Over => u.question = t.question
    /\ m \in Results => u.result = m
    /\ m \notin Fresh \cup Results => u.result = t.result
    /\ m \in Naming => u.you = m.you
    /\ m \notin Naming => u.you = t.you /\ (Complains(t) => Complains(u))
    /\ m.t = "error" /\ ~Unauthorized(m) => Complains(u)

\* applyServer (useQuizSocket.ts:93-159), by what the frame is.
LEMMA WelcomeReads ==
    ASSUME NEW t \in TabRecords, NEW m \in DownFrames, m.t = "welcome"
    PROVE  Reads(t, m, Welcomed(t, m))
<1>1. PICK e \in {None, "login_expired"} : e = IF t.fallback THEN "login_expired" ELSE None
  OBVIOUS
<1>2. PICK u : u = [t EXCEPT !.error = e, !.you = m.you, !.phase = m.phase,
                             !.question = m.question, !.chosen = FALSE, !.result = None,
                             !.seq = m.seq]
  OBVIOUS
<1>3. Welcomed(t, m) = u
  BY <1>1, <1>2 DEF Welcomed
<1>4. m \in Naming /\ m \in Fresh /\ m \in Telling /\ m \notin Over /\ m \notin Results
  BY DEF Naming, Fresh, Telling, Over, Results
<1>5. /\ u.phase = m.phase /\ u.seq = m.seq /\ u.question = m.question /\ u.chosen = FALSE
      /\ u.result = None /\ u.you = m.you
  BY <1>2 DEF TabRecords
<1>6. m.t # "error"
  OBVIOUS
<1> QED  BY <1>3, <1>4, <1>5, <1>6 DEF Reads

LEMMA EventReads ==
    ASSUME NEW t \in TabRecords, NEW m \in DownFrames, m.t = "event", t.seq <= m.seq
    PROVE  Reads(t, m, Applied(t, m))
<1>1. m.phase \in Phases /\ m.question \in Questions /\ m.seq \in Nat /\ t.seq \in Nat
  BY DownFrameIs DEF TabRecords
<1>2. ~(m.seq < t.seq)
  BY <1>1
<1>3. m \in Telling /\ m \notin Naming /\ m \notin Results
  BY DEF Telling, Naming, Results
<1>4. CASE m.phase \in {"lobby", "reveal"}
  <2>1. Applied(t, m) = [t EXCEPT !.phase = m.phase, !.seq = m.seq]
    BY <1>2, <1>4 DEF Applied
  <2>2. m \notin Fresh /\ m \notin Over
    BY <1>4 DEF Fresh, Over
  <2>3. PICK u : u = [t EXCEPT !.phase = m.phase, !.seq = m.seq]
    OBVIOUS
  <2>4. /\ u.phase = m.phase /\ u.seq = m.seq /\ u.question = t.question /\ u.chosen = t.chosen
        /\ u.result = t.result /\ u.you = t.you /\ u.error = t.error
    BY <2>3 DEF TabRecords
  <2> QED  BY <1>3, <2>1, <2>2, <2>3, <2>4 DEF Reads, Complains
<1>5. CASE m.phase = "question"
  <2>1. Applied(t, m) = [t EXCEPT !.phase = "question", !.question = m.question,
                                  !.chosen = FALSE, !.result = None, !.seq = m.seq]
    BY <1>2, <1>5 DEF Applied
  <2>2. m \in Fresh /\ m \notin Over
    BY <1>5 DEF Fresh, Over
  <2>3. PICK u : u = [t EXCEPT !.phase = "question", !.question = m.question,
                               !.chosen = FALSE, !.result = None, !.seq = m.seq]
    OBVIOUS
  <2>4. /\ u.phase = m.phase /\ u.seq = m.seq /\ u.question = m.question /\ u.chosen = FALSE
        /\ u.result = None /\ u.you = t.you /\ u.error = t.error
    BY <1>5, <2>3 DEF TabRecords
  <2> QED  BY <1>3, <2>1, <2>2, <2>3, <2>4 DEF Reads, Complains
<1>6. CASE m.phase = "finished"
  <2>1. Applied(t, m) = [t EXCEPT !.phase = "finished", !.question = None, !.seq = m.seq]
    BY <1>2, <1>6 DEF Applied
  <2>2. m \notin Fresh /\ m \in Over
    BY <1>6 DEF Fresh, Over
  <2>3. PICK u : u = [t EXCEPT !.phase = "finished", !.question = None, !.seq = m.seq]
    OBVIOUS
  <2>4. /\ u.phase = m.phase /\ u.seq = m.seq /\ u.question = None /\ u.chosen = t.chosen
        /\ u.result = t.result /\ u.you = t.you /\ u.error = t.error
    BY <1>6, <2>3 DEF TabRecords
  <2> QED  BY <1>3, <2>1, <2>2, <2>3, <2>4 DEF Reads, Complains
<1> QED  BY <1>1, <1>4, <1>5, <1>6 DEF Phases

LEMMA OtherReads ==
    ASSUME NEW t \in TabRecords, NEW m \in DownFrames, m.t \in {"answer_result", "error"}
    PROVE  /\ m.t = "answer_result" => Reads(t, m, [t EXCEPT !.result = m])
           /\ Unauthorized(m) => Reads(t, m, [t EXCEPT !.fallback = TRUE])
           /\ m.t = "error" => Reads(t, m, [t EXCEPT !.error = m.code])
<1>1. m \notin Telling /\ m \notin Naming /\ m \notin Fresh /\ m \notin Over
  BY DEF Telling, Naming, Fresh, Over
<1>2. ASSUME m.t = "answer_result" PROVE Reads(t, m, [t EXCEPT !.result = m])
  <2>1. PICK u : u = [t EXCEPT !.result = m]
    OBVIOUS
  <2>2. /\ u.phase = t.phase /\ u.seq = t.seq /\ u.question = t.question /\ u.chosen = t.chosen
        /\ u.result = m /\ u.you = t.you /\ u.error = t.error
    BY <2>1 DEF TabRecords
  <2>3. m \in Results /\ m.t # "error"
    BY <1>2 DEF Results
  <2> QED  BY <1>1, <2>1, <2>2, <2>3 DEF Reads, Complains
<1>3. ASSUME m.t = "error", NEW u,
             /\ u.phase = t.phase /\ u.seq = t.seq /\ u.question = t.question
             /\ u.chosen = t.chosen /\ u.result = t.result /\ u.you = t.you,
             Complains(u) \/ (Unauthorized(m) /\ u.error = t.error)
      PROVE  Reads(t, m, u)
  <2>1. m \notin Results
    BY <1>3 DEF Results
  <2>2. (Complains(t) => Complains(u)) /\ (~Unauthorized(m) => Complains(u))
    BY <1>3 DEF Complains
  <2> QED  BY <1>1, <1>3, <2>1, <2>2 DEF Reads
<1>4. ASSUME Unauthorized(m) PROVE Reads(t, m, [t EXCEPT !.fallback = TRUE])
  <2>1. PICK u : u = [t EXCEPT !.fallback = TRUE]
    OBVIOUS
  <2>2. /\ u.phase = t.phase /\ u.seq = t.seq /\ u.question = t.question /\ u.chosen = t.chosen
        /\ u.result = t.result /\ u.you = t.you /\ u.error = t.error
    BY <2>1 DEF TabRecords
  <2>3. m.t = "error"
    BY <1>4 DEF Unauthorized
  <2> QED  BY <1>3, <1>4, <2>1, <2>2, <2>3
<1>5. ASSUME m.t = "error" PROVE Reads(t, m, [t EXCEPT !.error = m.code])
  <2>1. PICK u : u = [t EXCEPT !.error = m.code]
    OBVIOUS
  <2>2. /\ u.phase = t.phase /\ u.seq = t.seq /\ u.question = t.question /\ u.chosen = t.chosen
        /\ u.result = t.result /\ u.you = t.you /\ u.error = m.code
    BY <2>1 DEF TabRecords
  <2>3. m.code \in {"unauthorized", "internal", "not_joined", "lookup", "rate_limited"}
    BY <1>5, DownFrameIs
  <2>4. Complains(u)
    BY <2>2, <2>3, Constants DEF Complains
  <2> QED  BY <1>3, <1>5, <2>1, <2>2, <2>4
<1> QED  BY <1>2, <1>4, <1>5

\* Of the frames of a kind, if there are any, one is the last.
LEMMA OneIsLast ==
    ASSUME NEW q \in Seq(DownFrames), NEW S, ~Without(q, S)
    PROVE  \E i \in DOMAIN q : q[i] \in S /\ \A j \in DOMAIN q : j > i => q[j] \notin S
<1> DEFINE T == {n \in Nat : Len(q) - n \in DOMAIN q /\ q[Len(q) - n] \in S}
<1>1. Len(q) \in Nat /\ DOMAIN q = 1..Len(q)
  OBVIOUS
<1>2. PICK i \in DOMAIN q : q[i] \in S
  BY DEF Without
<1>3. Len(q) - i \in Nat /\ Len(q) - (Len(q) - i) = i
  BY <1>1
<1>4. Len(q) - i \in T
  BY <1>2, <1>3
<1>5. PICK n \in T : \A k \in T : <<k, n>> \notin OpToRel(<, Nat)
  BY <1>4, NatLessThanWellFounded, WFMin
<1>6. PICK l : l = Len(q) - n
  OBVIOUS
<1>7. l \in DOMAIN q /\ q[l] \in S /\ n \in Nat
  BY <1>5, <1>6
<1>8. ASSUME NEW j \in DOMAIN q, j > l PROVE q[j] \notin S
  <2>1. Len(q) - j \in Nat /\ Len(q) - j < n /\ Len(q) - (Len(q) - j) = j
    BY <1>1, <1>6, <1>7, <1>8
  <2>2. <<Len(q) - j, n>> \in OpToRel(<, Nat)
    BY <1>7, <2>1 DEF OpToRel
  <2>3. Len(q) - j \notin T
    BY <1>5, <2>2
  <2> QED  BY <1>8, <2>1, <2>3
<1> QED  BY <1>7, <1>8

\* The frames that are there are read in their order, and the screen stays right.
LEMMA ShowsRead ==
    ASSUME NEW x \in SockRecords, NEW y \in SockRecords, NEW t \in TabRecords, NEW u, NEW r \in RoomRecords,
           Shows(x, t, r), x.down # <<>>, y.down = Tail(x.down), y.userId = x.userId,
           \A i \in DOMAIN x.up : \E j \in DOMAIN y.up : y.up[j] = x.up[i],
           Reads(t, Head(x.down), u)
    PROVE  Shows(y, u, r)
<1>1. PICK q \in Seq(DownFrames) : q = x.down /\ q # <<>>
  BY SockFields
<1>2. PICK m \in DownFrames : m = Head(q)
  BY <1>1, Dropped
<1>3. PICK w : w = Tail(q) /\ y.down = w
  BY <1>1
<1>4. ASSUME NEW S
      PROVE  /\ Without(q, S) => Without(w, S)
             /\ Without(w, S) /\ m \notin S => Without(q, S)
             /\ \A G : LastSays(q, S, G) => /\ LastSays(w, S, G)
                                            /\ Without(w, S) /\ m \in S => m \in G
  BY <1>1, <1>2, <1>3, SaysDropped
<1>5. Reads(t, m, u)
  BY <1>1, <1>2
<1>6. LastSays(w, Telling, RightPhase(r)) /\ (Without(w, Telling) => u.phase = r.phase /\ u.seq = r.seq)
  <2>1. LastSays(q, Telling, RightPhase(r)) /\ (Without(q, Telling) => t.phase = r.phase /\ t.seq = r.seq)
    BY <1>1 DEF Shows
  <2>2. ASSUME Without(w, Telling), m \in Telling PROVE u.phase = r.phase /\ u.seq = r.seq
    BY <1>4, <1>5, <2>1, <2>2 DEF RightPhase, Reads
  <2>3. ASSUME Without(w, Telling), m \notin Telling PROVE u.phase = r.phase /\ u.seq = r.seq
    BY <1>4, <1>5, <2>1, <2>3 DEF Reads
  <2> QED  BY <1>4, <2>1, <2>2, <2>3
<1>7. /\ LastSays(w, Fresh \cup Over, RightQuestion(r))
      /\ Without(w, Fresh \cup Over) => u.question = Shown(r)
  <2>0. PICK S : S = Fresh \cup Over
    OBVIOUS
  <2>1. LastSays(q, S, RightQuestion(r)) /\ (Without(q, S) => t.question = Shown(r))
    BY <1>1, <2>0 DEF Shows
  <2>2. ASSUME Without(w, S), m \in S PROVE u.question = Shown(r)
    <3>1. m \in RightQuestion(r)
      BY <1>4, <2>1, <2>2
    <3>2. CASE m \in Fresh /\ m.question = Shown(r)
      BY <1>5, <3>2 DEF Reads
    <3>3. CASE m \in Over /\ Shown(r) = None
      BY <1>5, <3>3 DEF Reads
    <3> QED  BY <3>1, <3>2, <3>3 DEF RightQuestion
  <2>3. ASSUME Without(w, S), m \notin S PROVE u.question = Shown(r)
    <3>1. Without(q, S)
      BY <1>4, <2>3
    <3>2. u.question = t.question
      BY <1>5, <2>0, <2>3 DEF Reads
    <3> QED  BY <2>1, <3>1, <3>2
  <2>4. LastSays(w, S, RightQuestion(r))
    BY <1>4, <2>1
  <2> QED  BY <2>0, <2>2, <2>3, <2>4
<1>8. /\ LastSays(w, Naming, RightName(y.userId))
      /\ Without(w, Naming) => u.you = y.userId
  <2>1. LastSays(q, Naming, RightName(y.userId)) /\ (Without(q, Naming) => t.you = y.userId)
    BY <1>1 DEF Shows
  <2>2. ASSUME Without(w, Naming), m \in Naming PROVE u.you = y.userId
    BY <1>4, <1>5, <2>1, <2>2 DEF RightName, Reads
  <2>3. ASSUME Without(w, Naming), m \notin Naming PROVE u.you = y.userId
    BY <1>4, <1>5, <2>1, <2>3 DEF Reads
  <2> QED  BY <1>4, <2>1, <2>2, <2>3
<1>9. /\ LastSays(w, Fresh \cup Results, RightResult(r, x.userId))
      /\ Without(w, Fresh \cup Results) => u.result = None \/ Judges(u.result, r, x.userId)
  <2>0. PICK S : S = Fresh \cup Results
    OBVIOUS
  <2>1. /\ LastSays(q, S, RightResult(r, x.userId))
        /\ Without(q, S) => t.result = None \/ Judges(t.result, r, x.userId)
    BY <1>1, <2>0 DEF Shows
  <2>2. ASSUME Without(w, S), m \in S PROVE u.result = None \/ Judges(u.result, r, x.userId)
    <3>1. m \in RightResult(r, x.userId)
      BY <1>4, <2>1, <2>2
    <3>2. CASE m \in Fresh
      BY <1>5, <3>2 DEF Reads
    <3>3. CASE m \in Results /\ Judges(m, r, x.userId)
      <4>1. u.result = m
        BY <1>5, <3>3 DEF Reads
      <4> QED  BY <3>3, <4>1
    <3> QED  BY <3>1, <3>2, <3>3 DEF RightResult
  <2>3. ASSUME Without(w, S), m \notin S PROVE u.result = None \/ Judges(u.result, r, x.userId)
    <3>1. Without(q, S)
      BY <1>4, <2>3
    <3>2. u.result = t.result
      BY <1>5, <2>0, <2>3 DEF Reads
    <3> QED  BY <2>1, <3>1, <3>2
  <2>4. LastSays(w, S, RightResult(r, x.userId))
    BY <1>4, <2>1
  <2> QED  BY <2>0, <2>2, <2>3, <2>4
<1>10. Steady(w, u.seq, r.seq)
  <2>1. u.seq = IF m \in Telling THEN m.seq ELSE t.seq
    BY <1>5 DEF Reads
  <2>2. Steady(q, t.seq, r.seq) /\ t.seq \in Nat /\ r.seq \in Nat
    BY <1>1 DEF Shows, TabRecords, RoomRecords
  <2> QED  BY <1>1, <1>2, <1>3, <2>1, <2>2, SteadyDropped
<1>11. ChoiceKept(y, u, r)
  <2>1. SUFFICES ASSUME u.chosen = TRUE, r.phase = "question", Without(w, Fresh),
                        <<x.userId, r.question>> \notin r.answered,
                        ~\E i \in DOMAIN w : w[i] \in Refusals
                 PROVE  (\E i \in DOMAIN y.up : y.up[i] = AnswerFrame(r.question)) \/ TurnedAway(u)
    BY <1>3 DEF ChoiceKept
  <2>2. m \notin Fresh /\ m \notin Naming
    BY <1>5, <2>1, Kinds DEF Reads
  <2>3. t.chosen = TRUE
    BY <1>5, <2>1, <2>2 DEF Reads
  <2>4. Without(x.down, Fresh)
    BY <1>1, <1>4, <2>1, <2>2
  <2>5. \/ \E i \in DOMAIN x.up : x.up[i] = AnswerFrame(r.question)
        \/ (\E i \in DOMAIN q : q[i] \in Refusals) \/ TurnedAway(t)
    BY <1>1, <2>1, <2>3, <2>4 DEF Shows, ChoiceKept
  <2>6. ASSUME m \in Refusals PROVE TurnedAway(u)
    <3>1. CASE m.t = "answer_result" /\ m.accepted = FALSE
      <4>1. u.result = m /\ m # None
        <5>1. m \in Results
          BY <3>1 DEF Results
        <5>2. u.result = m
          BY <1>5, <5>1 DEF Reads
        <5> QED  BY <5>1, <5>2, FrameIsThere
      <4> QED  BY <3>1, <4>1 DEF TurnedAway
    <3>2. CASE m.t = "error" /\ ~Unauthorized(m)
      BY <1>5, <3>2 DEF Reads, TurnedAway
    <3> QED  BY <2>6, <3>1, <3>2 DEF Refusals
  <2>7. ASSUME NEW i \in DOMAIN x.up, x.up[i] = AnswerFrame(r.question)
        PROVE  \E j \in DOMAIN y.up : y.up[j] = AnswerFrame(r.question)
    BY <2>7
  <2>8. ASSUME NEW i \in DOMAIN q, q[i] \in Refusals PROVE TurnedAway(u)
    <3>1. CASE i = 1
      BY <1>1, <1>2, <2>6, <2>8, <3>1, Dropped
    <3>2. CASE i # 1
      <4>1. i - 1 \in DOMAIN w /\ w[i - 1] = q[i]
        BY <1>1, <1>3, <2>8, <3>2
      <4> QED  BY <2>1, <2>8, <4>1
    <3> QED  BY <3>1, <3>2
  <2>9. ASSUME Complains(t) PROVE TurnedAway(u)
    BY <1>5, <2>2, <2>9 DEF Reads, TurnedAway
  <2>10. ASSUME t.result # None, t.result.accepted = FALSE PROVE TurnedAway(u)
    <3>1. CASE m \notin Results
      <4>1. u.result = t.result
        BY <1>5, <2>2, <3>1 DEF Reads
      <4> QED  BY <2>10, <4>1 DEF TurnedAway
    <3>2. CASE m \in Results
      <4>1. m.accepted = TRUE => FALSE
        <5>1. SUFFICES ASSUME m.accepted = TRUE PROVE <<x.userId, r.question>> \in r.answered
          BY <2>1
        <5>2. Shown(r) = r.question /\ r.question # None
          BY <2>1, Constants DEF Shown, RoomRecords
        <5>3. PICK S : S = Fresh \cup Results
          OBVIOUS
        <5>4. LastSays(q, S, RightResult(r, x.userId))
          BY <1>1, <5>3 DEF Shows
        <5>5. CASE Without(w, S)
          <6>1. m \in RightResult(r, x.userId)
            BY <1>4, <3>2, <5>3, <5>4, <5>5
          <6>2. Judges(m, r, x.userId)
            BY <2>2, <6>1 DEF RightResult
          <6> QED  BY <5>1, <5>2, <6>2 DEF Judges
        <5>6. CASE ~Without(w, S)
          <6>1. w \in Seq(DownFrames)
            BY <1>1, <1>3, Dropped
          <6>2. PICK j \in DOMAIN w : w[j] \in S /\ \A k \in DOMAIN w : k > j => w[k] \notin S
            BY <5>6, <6>1, OneIsLast
          <6>3. w[j] \in RightResult(r, x.userId)
            BY <1>4, <5>4, <6>2 DEF LastSays
          <6>4. w[j] \notin Fresh
            BY <2>1 DEF Without
          <6>5. w[j] \in Results /\ Judges(w[j], r, x.userId)
            BY <6>3, <6>4 DEF RightResult
          <6>6. w[j] \in DownFrames /\ w[j].t = "answer_result" /\ w[j].accepted \in BOOLEAN
            BY <6>5 DEF Results, DownFrames
          <6>7. w[j].accepted = TRUE
            BY <2>1, <6>6 DEF Refusals
          <6> QED  BY <5>2, <6>5, <6>7 DEF Judges
        <5> QED  BY <5>5, <5>6
      <4>2. m.t = "answer_result" /\ m.accepted \in BOOLEAN
        BY <3>2 DEF Results, DownFrames
      <4>3. m \in Refusals
        BY <4>1, <4>2 DEF Refusals
      <4> QED  BY <2>6, <4>3
    <3> QED  BY <3>1, <3>2
  <2> QED  BY <2>5, <2>7, <2>8, <2>9, <2>10 DEF TurnedAway
<1> QED  BY <1>3, <1>6, <1>7, <1>8, <1>9, <1>10, <1>11 DEF Shows

\* The session is as it was, but that more is on record.
Alike(r, v) ==
    /\ v.phase = r.phase /\ v.question = r.question /\ v.seq = r.seq /\ v.run = r.run
    /\ r.answered \subseteq v.answered

\* The session has moved on, as its event says.
Advanced(r, v) ==
    /\ v.run = r.run /\ v.seq = r.seq + 1 /\ r.answered \subseteq v.answered
    /\ v.phase \in {"lobby", "reveal"} => Shown(v) = Shown(r)

\* What of the hook's state the screen shows.
SameScreen(t, u) ==
    /\ u.phase = t.phase /\ u.question = t.question /\ u.seq = t.seq
    /\ u.you = t.you /\ u.result = t.result /\ u.chosen = t.chosen
    /\ Complains(t) => Complains(u)

LEMMA AlikeIs ==
    ASSUME NEW r, NEW v, Alike(r, v)
    PROVE  /\ Shown(v) = Shown(r) /\ RightPhase(v) = RightPhase(r)
           /\ RightQuestion(v) = RightQuestion(r)
           /\ \A m, id : Judges(m, r, id) => Judges(m, v, id)
           /\ \A id : RightResult(r, id) \subseteq RightResult(v, id)
<1>1. Shown(v) = Shown(r) /\ v.phase = r.phase /\ v.seq = r.seq /\ r.answered \subseteq v.answered
  BY DEF Alike, Shown
<1>2. \A m, id : Judges(m, r, id) => Judges(m, v, id)
  BY <1>1 DEF Judges
<1>3. \A id : RightResult(r, id) \subseteq RightResult(v, id)
  BY <1>2 DEF RightResult
<1> QED  BY <1>1, <1>2, <1>3 DEF RightPhase, RightQuestion

\* Nothing under way or on screen changes, and the session only by what is on record.
LEMMA ShowsSame ==
    ASSUME NEW x, NEW t, NEW u, NEW r, NEW v, Shows(x, t, r), SameScreen(t, u), Alike(r, v)
    PROVE  Shows(x, u, v)
<1>1. /\ Shown(v) = Shown(r) /\ RightPhase(v) = RightPhase(r)
      /\ RightQuestion(v) = RightQuestion(r)
      /\ \A m, id : Judges(m, r, id) => Judges(m, v, id)
      /\ \A id : RightResult(r, id) \subseteq RightResult(v, id)
  BY AlikeIs
<1>2. v.phase = r.phase /\ v.seq = r.seq /\ v.question = r.question /\ r.answered \subseteq v.answered
  BY DEF Alike
<1>3. /\ u.phase = t.phase /\ u.question = t.question /\ u.seq = t.seq
      /\ u.you = t.you /\ u.result = t.result /\ u.chosen = t.chosen
      /\ Complains(t) => Complains(u)
  BY DEF SameScreen
<1>4. ChoiceKept(x, t, r) => ChoiceKept(x, u, v)
  BY <1>2, <1>3 DEF ChoiceKept, TurnedAway
<1>5. PICK S : S = Fresh \cup Results
  OBVIOUS
<1>6. LastSays(x.down, S, RightResult(r, x.userId)) => LastSays(x.down, S, RightResult(v, x.userId))
  BY <1>1 DEF LastSays
<1>7. (t.result = None \/ Judges(t.result, r, x.userId)) => (u.result = None \/ Judges(u.result, v, x.userId))
  BY <1>1, <1>3
<1> QED  BY <1>1, <1>2, <1>3, <1>4, <1>5, <1>6, <1>7 DEF Shows

LEMMA WiredSame ==
    ASSUME NEW x, NEW s, NEW t, NEW u, NEW r, NEW v, Wired(x, s, t, r),
           (Live(x) => SameScreen(t, u)), Alike(r, v), s \in v.attached <=> s \in r.attached
    PROVE  Wired(x, s, u, v)
<1>1. v.run = r.run
  BY DEF Alike
<1>2. Live(x) /\ Shows(x, t, r) => Shows(x, u, v)
  BY ShowsSame
<1> QED  BY <1>1, <1>2 DEF Wired

\* One frame more that bears on no more than the result, or none; an answer that was
\* under way still is, or is on record.
LEMMA ShowsReplied ==
    ASSUME NEW x \in SockRecords, NEW y \in SockRecords, NEW t \in TabRecords,
           NEW r \in RoomRecords, NEW v \in RoomRecords, Shows(x, t, r), Alike(r, v),
           y.userId = x.userId, NEW m \in DownFrames, m \notin Telling,
           m \in Results => Judges(m, v, x.userId),
           y.down = x.down \/ y.down = Append(x.down, m),
           \A i \in DOMAIN x.up : x.up[i] = AnswerFrame(v.question) /\ v.phase = "question" =>
               \/ <<x.userId, v.question>> \in v.answered
               \/ \E j \in DOMAIN y.up : y.up[j] = AnswerFrame(v.question)
               \/ m \in Refusals /\ y.down = Append(x.down, m)
    PROVE  Shows(y, t, v)
<1>1. PICK q \in Seq(DownFrames) : q = x.down
  BY SockFields
<1>2. Shows(x, t, v)
  <2>1. SameScreen(t, t)
    BY DEF SameScreen
  <2> QED  BY <2>1, ShowsSame
<1>3. ChoiceKept(y, t, v)
  <2>1. SUFFICES ASSUME t.chosen = TRUE, v.phase = "question", Without(y.down, Fresh)
                 PROVE  \/ <<x.userId, v.question>> \in v.answered
                        \/ \E i \in DOMAIN y.up : y.up[i] = AnswerFrame(v.question)
                        \/ (\E i \in DOMAIN y.down : y.down[i] \in Refusals) \/ TurnedAway(t)
    BY DEF ChoiceKept
  <2>2. Without(x.down, Fresh)
    BY <1>1, <2>1, SaysAppended
  <2>3. \/ <<x.userId, v.question>> \in v.answered
        \/ \E i \in DOMAIN x.up : x.up[i] = AnswerFrame(v.question)
        \/ (\E i \in DOMAIN q : q[i] \in Refusals) \/ TurnedAway(t)
    BY <1>1, <1>2, <2>1, <2>2 DEF Shows, ChoiceKept
  <2>4. ASSUME NEW i \in DOMAIN q, q[i] \in Refusals
        PROVE  \E j \in DOMAIN y.down : y.down[j] \in Refusals
    <3>1. CASE y.down = q
      BY <2>4, <3>1
    <3>2. CASE y.down = Append(q, m)
      <4>1. i \in DOMAIN Append(q, m) /\ Append(q, m)[i] = q[i]
        BY <2>4
      <4> QED  BY <2>4, <3>2, <4>1
    <3> QED  BY <1>1, <3>1, <3>2
  <2>5. ASSUME m \in Refusals, y.down = Append(x.down, m)
        PROVE  \E j \in DOMAIN y.down : y.down[j] \in Refusals
    <3>1. Len(q) + 1 \in DOMAIN Append(q, m) /\ Append(q, m)[Len(q) + 1] = m
      OBVIOUS
    <3> QED  BY <1>1, <2>5, <3>1
  <2> QED  BY <2>1, <2>3, <2>4, <2>5
<1>4. CASE y.down = x.down
  BY <1>2, <1>3, <1>4 DEF Shows
<1>5. CASE y.down = Append(x.down, m)
  <2>0. PICK w : w = Append(q, m) /\ y.down = w
    BY <1>1, <1>5
  <2>1. ASSUME NEW S
        PROVE  /\ Without(w, S) <=> Without(q, S) /\ m \notin S
               /\ \A G, H : (m \in S => m \in H) /\ (m \notin S => LastSays(q, S, G) /\ G \subseteq H)
                               => LastSays(w, S, H)
    BY <2>0, SaysAppended
  <2>2. m \notin Fresh /\ m \notin Over /\ m \notin Naming
    BY Kinds
  <2>3. LastSays(w, Telling, RightPhase(v)) /\ (Without(w, Telling) => t.phase = v.phase /\ t.seq = v.seq)
    BY <1>1, <1>2, <2>1 DEF Shows
  <2>4. PICK A : A = Fresh \cup Over
    OBVIOUS
  <2>5. LastSays(w, A, RightQuestion(v)) /\ (Without(w, A) => t.question = Shown(v))
    BY <1>1, <1>2, <2>1, <2>2, <2>4 DEF Shows
  <2>6. LastSays(w, Naming, RightName(y.userId)) /\ (Without(w, Naming) => t.you = y.userId)
    BY <1>1, <1>2, <2>1, <2>2 DEF Shows
  <2>7. PICK B : B = Fresh \cup Results
    OBVIOUS
  <2>8. LastSays(w, B, RightResult(v, y.userId)) /\ (Without(w, B) => t.result = None \/ Judges(t.result, v, y.userId))
    <3>1. LastSays(q, B, RightResult(v, y.userId)) /\ (Without(q, B) => t.result = None \/ Judges(t.result, v, y.userId))
      BY <1>1, <1>2, <2>7 DEF Shows
    <3>2. m \in B => m \in RightResult(v, y.userId)
      BY <2>2, <2>7 DEF RightResult
    <3> QED  BY <2>1, <3>1, <3>2
  <2>9. Steady(w, t.seq, v.seq)
    <3>1. Steady(q, t.seq, v.seq) /\ t.seq \in Nat /\ v.seq \in Nat
      BY <1>1, <1>2 DEF Shows, TabRecords, RoomRecords
    <3>2. v.seq <= v.seq
      BY <3>1
    <3> QED  BY <2>0, <3>1, <3>2, SteadyAppended
  <2> QED  BY <1>3, <2>0, <2>3, <2>4, <2>5, <2>6, <2>7, <2>8, <2>9 DEF Shows
<1> QED  BY <1>4, <1>5

\* The event that the session has moved on.
LEMMA ShowsTold ==
    ASSUME NEW x \in SockRecords, NEW y \in SockRecords, NEW t \in TabRecords,
           NEW r \in RoomRecords, NEW v \in RoomRecords, Shows(x, t, r), Advanced(r, v),
           y.userId = x.userId, y.down = Append(x.down, Event(v))
    PROVE  Shows(y, t, v)
<1>1. PICK q \in Seq(DownFrames) : q = x.down
  BY SockFields
<1>2. PICK m \in DownFrames : m = Event(v) /\ m.t = "event" /\ m.phase = v.phase
                              /\ m.question = v.question /\ m.seq = v.seq
  BY FramesTyped DEF Event
<1>3. PICK w : w = Append(q, m) /\ y.down = w
  BY <1>1, <1>2
<1>4. ASSUME NEW S
      PROVE  /\ Without(w, S) <=> Without(q, S) /\ m \notin S
             /\ \A G, H : (m \in S => m \in H) /\ (m \notin S => LastSays(q, S, G) /\ G \subseteq H)
                             => LastSays(w, S, H)
  BY <1>3, SaysAppended
<1>5. /\ m \in Telling /\ m \notin Naming /\ m \notin Results
      /\ m \in Fresh <=> v.phase = "question"
      /\ m \in Over <=> v.phase = "finished"
  BY <1>2 DEF Telling, Naming, Results, Fresh, Over
<1>6. v.phase \in Phases
  BY DEF RoomRecords
<1>7. LastSays(w, Telling, RightPhase(v)) /\ ~Without(w, Telling)
  BY <1>2, <1>4, <1>5 DEF RightPhase
<1>8. PICK A : A = Fresh \cup Over
  OBVIOUS
<1>9. LastSays(w, A, RightQuestion(v)) /\ (Without(w, A) => t.question = Shown(v))
  <2>1. LastSays(q, A, RightQuestion(r)) /\ (Without(q, A) => t.question = Shown(r))
    BY <1>1, <1>8 DEF Shows
  <2>2. CASE v.phase = "question"
    <3>1. m \in RightQuestion(v) /\ m \in A
      BY <1>2, <1>5, <1>8, <2>2 DEF RightQuestion, Shown
    <3> QED  BY <1>4, <3>1
  <2>3. CASE v.phase = "finished"
    <3>1. m \in RightQuestion(v) /\ m \in A
      BY <1>2, <1>5, <1>8, <2>3 DEF RightQuestion, Shown
    <3> QED  BY <1>4, <3>1
  <2>4. CASE v.phase \in {"lobby", "reveal"}
    <3>1. m \notin A /\ Shown(v) = Shown(r)
      BY <1>5, <1>8, <2>4 DEF Advanced
    <3>2. RightQuestion(v) = RightQuestion(r)
      BY <3>1 DEF RightQuestion
    <3> QED  BY <1>4, <2>1, <3>1, <3>2
  <2> QED  BY <1>6, <2>2, <2>3, <2>4 DEF Phases
<1>10. LastSays(w, Naming, RightName(y.userId)) /\ (Without(w, Naming) => t.you = y.userId)
  BY <1>1, <1>4, <1>5 DEF Shows
<1>11. PICK B : B = Fresh \cup Results
  OBVIOUS
<1>12. LastSays(w, B, RightResult(v, y.userId)) /\ (Without(w, B) => t.result = None \/ Judges(t.result, v, y.userId))
  <2>1. LastSays(q, B, RightResult(r, y.userId)) /\ (Without(q, B) => t.result = None \/ Judges(t.result, r, y.userId))
    BY <1>1, <1>11 DEF Shows
  <2>2. CASE v.phase = "question"
    <3>1. m \in RightResult(v, y.userId) /\ m \in B
      BY <1>5, <1>11, <2>2 DEF RightResult
    <3> QED  BY <1>4, <3>1
  <2>3. CASE v.phase # "question"
    <3>1. \A f : Judges(f, r, y.userId) => Judges(f, v, y.userId)
      <4>1. CASE v.phase = "finished"
        <5>1. Shown(v) = None
          BY <4>1 DEF Shown
        <5> QED  BY <5>1 DEF Judges
      <4>2. CASE v.phase \in {"lobby", "reveal"}
        <5>1. Shown(v) = Shown(r) /\ r.answered \subseteq v.answered
          BY <4>2 DEF Advanced
        <5> QED  BY <5>1 DEF Judges
      <4> QED  BY <1>6, <2>3, <4>1, <4>2 DEF Phases
    <3>2. RightResult(r, y.userId) \subseteq RightResult(v, y.userId)
      BY <3>1 DEF RightResult
    <3>3. m \notin B
      BY <1>5, <1>11, <2>3
    <3> QED  BY <1>4, <2>1, <3>1, <3>2, <3>3
  <2> QED  BY <2>2, <2>3
<1>13. Steady(w, t.seq, v.seq)
  <2>1. Steady(q, t.seq, r.seq) /\ t.seq \in Nat /\ r.seq \in Nat /\ v.seq \in Nat /\ r.seq <= v.seq
    BY <1>1 DEF Shows, TabRecords, RoomRecords, Advanced
  <2> QED  BY <1>2, <1>3, <2>1, SteadyAppended
<1>14. ChoiceKept(y, t, v)
  BY <1>3, <1>4, <1>5 DEF ChoiceKept
<1> QED  BY <1>3, <1>7, <1>8, <1>9, <1>10, <1>11, <1>12, <1>13, <1>14 DEF Shows

\* The welcome says it all.
LEMMA ShowsWelcomed ==
    ASSUME NEW x \in SockRecords, NEW y \in SockRecords, NEW t \in TabRecords,
           NEW r \in RoomRecords, NEW id \in Ids, y.userId = id,
           Without(x.down, Telling) \/ Steady(x.down, t.seq, r.seq),
           y.down = Append(x.down, Welcome(r, id))
    PROVE  Shows(y, t, r)
<1>1. PICK q \in Seq(DownFrames) : q = x.down
  BY SockFields
<1>2. PICK m \in DownFrames : m = Welcome(r, id) /\ m.t = "welcome" /\ m.phase = r.phase
                              /\ m.question = Shown(r) /\ m.seq = r.seq /\ m.you = id
  BY FramesTyped DEF Welcome
<1>3. PICK w : w = Append(q, m) /\ y.down = w
  BY <1>1, <1>2
<1>4. ASSUME NEW S, m \in S
      PROVE  ~Without(w, S) /\ \A H : m \in H => LastSays(w, S, H)
  BY <1>3, <1>4, SaysAppended
<1>5. m \in Telling /\ m \in Naming /\ m \in Fresh
  BY <1>2 DEF Telling, Naming, Fresh
<1>6. /\ m \in RightPhase(r) /\ m \in RightQuestion(r) /\ m \in RightName(id) /\ m \in RightResult(r, id)
  BY <1>2, <1>5 DEF RightPhase, RightQuestion, RightName, RightResult
<1>7. Steady(w, t.seq, r.seq)
  <2>1. t.seq \in Nat /\ r.seq \in Nat /\ r.seq <= r.seq
    BY DEF TabRecords, RoomRecords
  <2>2. CASE Without(q, Telling)
    BY <1>2, <1>3, <1>5, <2>1, <2>2, SteadyFirst
  <2>3. CASE Steady(q, t.seq, r.seq)
    BY <1>2, <1>3, <2>1, <2>3, SteadyAppended
  <2> QED  BY <1>1, <2>2, <2>3
<1>8. ChoiceKept(y, t, r)
  BY <1>3, <1>4, <1>5 DEF ChoiceKept
<1>9. m \in Fresh \cup Over /\ m \in Fresh \cup Results
  BY <1>5
<1> QED  BY <1>3, <1>4, <1>5, <1>6, <1>7, <1>8, <1>9 DEF Shows

\* A frame reaches the end of its direction, if that end is open.
Hears(x, m) ==
    IF x.server = "open" /\ Live(x) THEN [x EXCEPT !.down = Append(x.down, m)] ELSE x
Sends(x, m) ==
    IF x.server \in {"open", "closing"} /\ ~Ended(x.up)
    THEN [x EXCEPT !.up = Append(x.up, m)] ELSE x

LEMMA HearsIs ==
    ASSUME NEW ss \in [Sockets -> SockRecords], NEW s \in Sockets, NEW m \in DownFrames,
           NEW y, y = Hears(ss[s], m)
    PROVE  /\ Say(ss, s, m) = With(ss, s, y) /\ y \in SockRecords
           /\ y.up = ss[s].up /\ y.client = ss[s].client /\ y.server = ss[s].server
           /\ y.run = ss[s].run /\ y.userId = ss[s].userId
           /\ Live(ss[s]) /\ ss[s].server = "open" => y.down = Append(ss[s].down, m)
           /\ ~(Live(ss[s]) /\ ss[s].server = "open") => y = ss[s]
<1>1. PICK x \in SockRecords : x = ss[s] /\ ss = With(ss, s, x)
  BY DEF With
<1>2. CASE x.server = "open" /\ Live(x)
  <2>1. y = [x EXCEPT !.down = Append(x.down, m)]
    BY <1>1, <1>2 DEF Hears
  <2>2. PICK w \in Seq(DownFrames) : w = Append(x.down, m)
    <3>1. x.down \in Seq(DownFrames)
      BY SockFields
    <3>2. Append(x.down, m) \in Seq(DownFrames)
      BY <3>1
    <3> QED  BY <3>2
  <2>3. /\ y \in SockRecords /\ y.up = x.up /\ y.client = x.client /\ y.server = x.server
        /\ y.run = x.run /\ y.userId = x.userId /\ y.down = Append(x.down, m)
    <3>1. y = [x EXCEPT !.down = w]
      BY <2>1, <2>2
    <3>2. [x EXCEPT !.down = w] \in SockRecords
      BY DEF SockRecords
    <3>3. /\ y.up = x.up /\ y.client = x.client /\ y.server = x.server
          /\ y.run = x.run /\ y.userId = x.userId
      BY <3>1 DEF SockRecords
    <3>4. y.down = w
      BY <3>1 DEF SockRecords
    <3>5. y \in SockRecords
      BY <3>1, <3>2
    <3> QED  BY <2>2, <3>3, <3>4, <3>5
  <2>4. Say(ss, s, m) = With(ss, s, y)
    BY <1>1, <1>2, <2>1 DEF Say, Put, With, Live
  <2> QED  BY <1>1, <1>2, <2>3, <2>4
<1>3. CASE ~(x.server = "open" /\ Live(x))
  <2>1. y = x
    BY <1>1, <1>3 DEF Hears
  <2>2. [x EXCEPT !.down = x.down] = x
    BY DEF SockRecords
  <2>3. Say(ss, s, m) = ss
    BY <1>1, <1>3, <2>2 DEF Say, Put, Live
  <2> QED  BY <1>1, <1>3, <2>1, <2>3
<1> QED  BY <1>2, <1>3

LEMMA SendsIs ==
    ASSUME NEW ss \in [Sockets -> SockRecords], NEW s \in Sockets, NEW m \in UpFrames,
           NEW y, y = Sends(ss[s], m)
    PROVE  /\ Ask(ss, s, m) = With(ss, s, y) /\ y \in SockRecords
           /\ y.down = ss[s].down /\ y.client = ss[s].client /\ y.server = ss[s].server
           /\ y.run = ss[s].run /\ y.userId = ss[s].userId
           /\ y.up = IF ss[s].server \in {"open", "closing"} /\ ~Ended(ss[s].up)
                     THEN Append(ss[s].up, m) ELSE ss[s].up
<1>1. PICK x \in SockRecords : x = ss[s] /\ ss = With(ss, s, x)
  BY DEF With
<1>2. CASE x.server \in {"open", "closing"} /\ ~Ended(x.up)
  <2>1. y = [x EXCEPT !.up = Append(x.up, m)]
    BY <1>1, <1>2 DEF Sends
  <2>2. PICK w \in Seq(UpFrames) : w = Append(x.up, m)
    <3>1. x.up \in Seq(UpFrames)
      BY SockFields
    <3>2. Append(x.up, m) \in Seq(UpFrames)
      BY <3>1
    <3> QED  BY <3>2
  <2>3. /\ y \in SockRecords /\ y.down = x.down /\ y.client = x.client /\ y.server = x.server
        /\ y.run = x.run /\ y.userId = x.userId /\ y.up = Append(x.up, m)
    <3>1. y = [x EXCEPT !.up = w]
      BY <2>1, <2>2
    <3>2. [x EXCEPT !.up = w] \in SockRecords
      BY DEF SockRecords
    <3>3. /\ y.down = x.down /\ y.client = x.client /\ y.server = x.server
          /\ y.run = x.run /\ y.userId = x.userId
      BY <3>1 DEF SockRecords
    <3>4. y.up = w
      BY <3>1 DEF SockRecords
    <3>5. y \in SockRecords
      BY <3>1, <3>2
    <3> QED  BY <2>2, <3>3, <3>4, <3>5
  <2>4. Ask(ss, s, m) = With(ss, s, y)
    BY <1>1, <1>2, <2>1 DEF Ask, Put, With
  <2> QED  BY <1>1, <1>2, <2>3, <2>4
<1>3. CASE ~(x.server \in {"open", "closing"} /\ ~Ended(x.up))
  <2>1. y = x
    BY <1>1, <1>3 DEF Sends
  <2>2. [x EXCEPT !.up = x.up] = x
    BY DEF SockRecords
  <2>3. Ask(ss, s, m) = ss
    BY <1>1, <1>3, <2>2 DEF Ask, Put
  <2> QED  BY <1>1, <1>3, <2>1, <2>3
<1> QED  BY <1>2, <1>3

\* A socket the client's end of which is not open, or has its end before it.
LEMMA WiredDead ==
    ASSUME NEW y, ~Live(y), NEW s, NEW t, NEW r, s \in r.attached => y.server # None
    PROVE  Wired(y, s, t, r)
BY DEF Wired

\* One socket changes, and of the others nothing that they show.
LEMMA OneWired ==
    ASSUME SocksTyped, RefsOK, ViewInv, NEW s \in Sockets, NEW y \in SockRecords,
           sock' = With(sock, s, y), Wired(y, s, tab', room'), Alike(room, room'),
           \A z \in Sockets : z # s => (z \in room'.attached <=> z \in room.attached),
           tab.ref = s \/ SameScreen(tab, tab')
    PROVE  ViewInv'
<1>1. /\ sock' \in [Sockets -> SockRecords] /\ sock'[s] = y
      /\ \A z \in Sockets : z # s => sock'[z] = sock[z]
  BY WithIs DEF SocksTyped
<1>2. ASSUME NEW z \in Sockets, z # s PROVE Wired(sock'[z], z, tab', room')
  <2>1. Live(sock[z]) => SameScreen(tab, tab')
    BY <1>2 DEF RefsOK, Live
  <2>2. Wired(sock[z], z, tab, room)
    BY DEF ViewInv
  <2> QED  BY <1>1, <1>2, <2>1, <2>2, WiredSame
<1>3. \A z \in Sockets : Wired(sock'[z], z, tab', room')
  BY <1>1, <1>2
<1> QED  BY <1>3 DEF ViewInv

\* The same, of a step that leaves the session alone.
LEMMA OneEndWired ==
    ASSUME SocksTyped, RefsOK, ViewInv, NEW s \in Sockets, NEW y \in SockRecords,
           sock' = With(sock, s, y), Wired(y, s, tab', room), room' = room,
           tab.ref = s \/ SameScreen(tab, tab')
    PROVE  ViewInv'
<1>1. Alike(room, room') /\ \A z \in Sockets : z # s => (z \in room'.attached <=> z \in room.attached)
  BY DEF Alike
<1> QED  BY <1>1, OneWired

\* The hook's state changes in nothing that is shown.
LEMMA SameScreens ==
    /\ \A t : SameScreen(t, t)
    /\ \A t \in TabRecords : \A s, c : SameScreen(t, OnClose(t, s, c))
    /\ \A t \in TabRecords : \A n : SameScreen(t, [t EXCEPT !.status = n])
<1>1. \A t : SameScreen(t, t)
  BY DEF SameScreen
<1>2. ASSUME NEW t \in TabRecords, NEW s, NEW c PROVE SameScreen(t, OnClose(t, s, c))
  <2>1. CASE OnClose(t, s, c) = t
    BY <1>1, <2>1
  <2>2. SameScreen(t, Ends(t))
    <3>1. PICK u : u = Ends(t)
      OBVIOUS
    <3>2. /\ u.phase = t.phase /\ u.question = t.question /\ u.seq = t.seq
          /\ u.you = t.you /\ u.result = t.result /\ u.chosen = t.chosen /\ u.error = "closed"
      BY <3>1 DEF Ends, TabRecords
    <3>3. Complains(u)
      BY <3>2, Constants DEF Complains
    <3> QED  BY <3>1, <3>2, <3>3 DEF SameScreen
  <2>3. SameScreen(t, Reconnects(t))
    <3>1. PICK u : u = Reconnects(t)
      OBVIOUS
    <3>2. /\ u.phase = t.phase /\ u.question = t.question /\ u.seq = t.seq
          /\ u.you = t.you /\ u.result = t.result /\ u.chosen = t.chosen /\ u.error = t.error
      BY <3>1 DEF Reconnects, TabRecords
    <3>3. Complains(t) => Complains(u)
      BY <3>2 DEF Complains
    <3> QED  BY <3>1, <3>2, <3>3 DEF SameScreen
  <2>4. OnClose(t, s, c) \in {t, Ends(t), Reconnects(t)}
    BY DEF OnClose, Ends, Reconnects
  <2> QED  BY <2>1, <2>2, <2>3, <2>4
<1>3. ASSUME NEW t \in TabRecords, NEW n PROVE SameScreen(t, [t EXCEPT !.status = n])
  <2>1. PICK u : u = [t EXCEPT !.status = n]
    OBVIOUS
  <2>2. /\ u.phase = t.phase /\ u.question = t.question /\ u.seq = t.seq
        /\ u.you = t.you /\ u.result = t.result /\ u.chosen = t.chosen /\ u.error = t.error
    BY <2>1 DEF TabRecords
  <2>3. Complains(t) => Complains(u)
    BY <2>2 DEF Complains
  <2> QED  BY <2>1, <2>2, <2>3 DEF SameScreen
<1> QED  BY <1>1, <1>2, <1>3

-----------------------------------------------------------------------------
\* The client's end: onopen, onclose, and a connection that never was.
LEMMA OpenedWires ==
    ASSUME ClientInv, ViewInv, NEW s \in Sockets, Opened(s) PROVE ViewInv'
<1>1. StateTyped /\ SocksTyped /\ RefsOK /\ TalkFits
  BY DEF ClientInv
<1>2. PICK m \in UpFrames : m = JoinFrame(Remembered, disk.token) /\ m.t # "close"
  BY <1>1, JoinOfDisk, FramesAre
<1>3. PICK x \in SockRecords : x = sock[s] /\ Orderly(x)
  BY <1>1 DEF SocksTyped
<1>4. PICK y : y = [x EXCEPT !.client = "open", !.server = "open", !.up = <<m>>]
  OBVIOUS
<1>5. /\ y \in SockRecords /\ y.client = "open" /\ y.server = "open" /\ y.up = <<m>>
      /\ y.down = x.down
  <2>1. <<m>> \in Seq(UpFrames)
    OBVIOUS
  <2> QED  BY <1>4, <2>1 DEF SockRecords
<1>6. sock' = With(sock, s, y) /\ room' = room
  <2>1. sock' = [sock EXCEPT ![s].client = "open", ![s].server = "open", ![s].up = <<m>>]
    BY <1>2 DEF Opened
  <2>2. PICK up : up = <<m>>
    OBVIOUS
  <2>3. sock' = [sock EXCEPT ![s].client = "open", ![s].server = "open", ![s].up = up]
    BY <2>1, <2>2
  <2>4. y = [x EXCEPT !.client = "open", !.server = "open", !.up = up]
    BY <1>4, <2>2
  <2>5. sock' = With(sock, s, y)
    BY <1>1, <1>3, <2>3, <2>4 DEF With, SocksTyped
  <2> QED  BY <2>5 DEF Opened
<1>7. tab' = [tab EXCEPT !.status = "open"] /\ tab \in TabRecords
  BY <1>1 DEF Opened, StateTyped
<1>8. SameScreen(tab, tab')
  BY <1>7, SameScreens
<1>9. x.server = None /\ x.down = <<>>
  BY <1>3 DEF Opened, Orderly
<1>10. s \notin room.attached
  BY <1>3, <1>9 DEF ViewInv, Wired
<1>11. ~Ended(y.up) /\ Without(y.down, Telling)
  <2>1. ~Ended(<<m>>)
    BY <1>2, EndedWhen
  <2>2. DOMAIN y.down = {}
    BY <1>5, <1>9
  <2> QED  BY <1>5, <2>1, <2>2 DEF Without
<1>12. Wired(y, s, tab', room)
  BY <1>5, <1>10, <1>11 DEF Wired
<1> QED  BY <1>1, <1>5, <1>6, <1>8, <1>12, OneEndWired

LEMMA ClosedWires ==
    ASSUME ClientInv, ViewInv, NEW s \in Sockets, Closed(s) PROVE ViewInv'
<1>1. StateTyped /\ SocksTyped /\ RefsOK /\ TalkFits
  BY DEF ClientInv
<1>2. sock \in [Sockets -> SockRecords] /\ sock[s] \in SockRecords /\ Orderly(sock[s])
  BY <1>1 DEF SocksTyped
<1>3. PICK x \in SockRecords : x = Silent(sock[s]) /\ x.client = "closed" /\ x.server = sock[s].server
  <2>1. <<>> \in Seq(DownFrames)
    OBVIOUS
  <2>2. Silent(sock[s]).server = sock[s].server
    BY <1>2, <2>1 DEF Silent, SockRecords
  <2> QED  BY <1>2, <2>2, ShutIs
<1>4. PICK ss \in [Sockets -> SockRecords] : ss = With(sock, s, x) /\ ss[s] = x
  BY <1>2, WithIs
<1>5. sock' = Ask(ss, s, Leaving)
  <2>1. Silenced(sock, s) = ss
    BY <1>2, <1>3, <1>4, ShutIs
  <2>2. sock' = Ask(Silenced(sock, s), s, Leaving)
    BY DEF Closed, Silenced
  <2> QED  BY ONLY <2>1, <2>2
<1>6. PICK y \in SockRecords : Ask(ss, s, Leaving) = With(ss, s, y) /\ Sent(x, y, Leaving)
  BY <1>4, AskIs, FramesTyped
<1>7. sock' = With(sock, s, y) /\ y.client = "closed" /\ y.server = sock[s].server
  BY <1>2, <1>3, <1>4, <1>5, <1>6, TwiceIs, SentFields
<1>8. SameScreen(tab, tab') /\ room' = room
  BY <1>1, SameScreens DEF Closed, StateTyped
<1>9. Wired(sock[s], s, tab, room)
  BY DEF ViewInv
<1>10. Wired(y, s, tab', room)
  BY <1>7, <1>9 DEF Wired, Live
<1> QED  BY <1>1, <1>7, <1>8, <1>10, OneEndWired

LEMMA FailedWires ==
    ASSUME ClientInv, ViewInv, NEW s \in Sockets, Fails(s) \/ Refused(s) PROVE ViewInv'
<1>1. StateTyped /\ SocksTyped /\ RefsOK /\ TalkFits
  BY DEF ClientInv
<1>2. sock \in [Sockets -> SockRecords] /\ sock[s] \in SockRecords
  BY <1>1 DEF SocksTyped
<1>3. PICK y \in SockRecords : y = Shut(sock[s]) /\ y.client = "closed" /\ y.server = sock[s].server
  <2>1. Shut(sock[s]).server = sock[s].server
    BY <1>2 DEF Shut, SockRecords
  <2> QED  BY <1>2, <2>1, ShutIs
<1>4. sock' = With(sock, s, y)
  <2>1. sock' = ShutAt(sock, s)
    BY DEF Fails, Refused, ShutAt
  <2> QED  BY <1>2, <1>3, <2>1, ShutIs
<1>5. SameScreen(tab, tab') /\ room' = room
  BY <1>1, SameScreens DEF Fails, Refused, StateTyped
<1>6. Wired(sock[s], s, tab, room)
  BY DEF ViewInv
<1>7. Wired(y, s, tab', room)
  BY <1>3, <1>6 DEF Wired, Live
<1> QED  BY <1>1, <1>4, <1>5, <1>7, OneEndWired

\* onClose: only a socket whose client's end is gone is left.
LEMMA LeavesWires ==
    ASSUME ClientInv, ViewInv, NEW s \in Sockets, Leaves(s) PROVE ViewInv'
<1>1. StateTyped /\ SocksTyped /\ RefsOK /\ TalkFits
  BY DEF ClientInv
<1>2. PICK x \in SockRecords : x = sock[s]
  BY <1>1 DEF SocksTyped
<1>3. PICK said : said = IF x.client = "closing" THEN Put(x.down, Close(1000)) ELSE x.down
  OBVIOUS
<1>4. said = x.down \/ (said = Append(x.down, Close(1000)) /\ x.client # "open")
  BY <1>3 DEF Put
<1>5. said \in Seq(DownFrames)
  <2>1. Append(x.down, Close(1000)) \in Seq(DownFrames) /\ x.down \in Seq(DownFrames)
    BY SockFields, FramesTyped
  <2> QED  BY ONLY <1>4, <2>1
<1>6. PICK y : y = Left(x, said)
  OBVIOUS
<1>7. y \in SockRecords /\ y.client = x.client /\ y.down = said /\ y.server = "closed"
  BY <1>5, <1>6, LeftIs
<1>8. sock' = With(sock, s, y)
  <2>1. sock' = LeftAt(sock, s, said)
    BY <1>2, <1>3 DEF Leaves, LeftAt
  <2> QED  BY <1>1, <1>2, <1>5, <1>6, <2>1, LeftIs DEF SocksTyped
<1>9. Ended(x.up)
  <2>1. x.up # <<>> /\ x.up[Len(x.up)] = Leaving
    BY <1>2 DEF Leaves
  <2> QED  BY <2>1, FramesAre DEF Ended
<1>10. ~Live(x)
  BY <1>2, <1>9 DEF ViewInv, Wired
<1>11. ~Live(y)
  BY <1>4, <1>7, <1>10 DEF Live
<1>12. tab' = tab /\ room' = [room EXCEPT !.attached = @ \ {s}] /\ room \in RoomRecords
  BY <1>1 DEF Leaves, StateTyped
<1>13. /\ Alike(room, room') /\ SameScreen(tab, tab')
       /\ \A z \in Sockets : z # s => (z \in room'.attached <=> z \in room.attached)
  BY <1>12, SameScreens DEF Alike, RoomRecords
<1>14. y.server # None
  BY <1>7, Constants
<1>15. Wired(y, s, tab', room')
  BY <1>11, <1>14, WiredDead
<1> QED  BY <1>1, <1>7, <1>8, <1>13, <1>15, OneWired

\* A connection that breaks, at either end or both.
LEMMA BreaksWires ==
    ASSUME ClientInv, ViewInv, NEW s \in Sockets, Breaks(s) PROVE ViewInv'
<1>1. StateTyped /\ SocksTyped /\ RefsOK /\ TalkFits
  BY DEF ClientInv
<1>2. PICK x \in SockRecords : x = sock[s]
  BY <1>1 DEF SocksTyped
<1>3. sock \in [Sockets -> SockRecords] /\ x.server # None
  BY <1>1, <1>2 DEF SocksTyped, Breaks, Orderly
<1>4. PICK z \in SockRecords : z = Broken(x) /\ z.down = <<Close(1006)>> /\ z.server = x.server
  BY BrokenIs
<1>5. PICK broken \in [Sockets -> SockRecords] :
        broken = BrokenAt(sock, s) /\ broken = With(sock, s, z) /\ broken[s] = z
  <2>1. BrokenAt(sock, s) = With(sock, s, Broken(sock[s]))
    BY <1>3, BrokenAtIs
  <2> QED  BY <1>2, <1>3, <1>4, <2>1, WithIs
<1>6. sock' = Ask(broken, s, Leaving) /\ tab' = tab /\ room' = room
  BY <1>5 DEF Breaks, BrokenAt
<1>7. PICK y \in SockRecords : Ask(broken, s, Leaving) = With(broken, s, y) /\ Sent(z, y, Leaving)
  BY <1>5, AskIs, FramesTyped
<1>8. sock' = With(sock, s, y) /\ y.down = <<Close(1006)>> /\ y.server # None
  BY <1>3, <1>4, <1>5, <1>6, <1>7, TwiceIs, SentFields
<1>9. ~Live(y)
  <2>1. PICK c : c = Close(1006) /\ c.t = "close"
    BY FramesAre
  <2>2. Ended(<<c>>)
    BY <2>1, EndedWhen
  <2> QED  BY <1>8, <2>1, <2>2 DEF Live
<1>10. Wired(y, s, tab', room)
  BY <1>8, <1>9, WiredDead
<1>11. SameScreen(tab, tab')
  BY <1>6, SameScreens
<1> QED  BY <1>1, <1>6, <1>8, <1>10, <1>11, OneEndWired

\* A socket that is told something that bears on the result at the most.
LEMMA WiredReplied ==
    ASSUME NEW x \in SockRecords, NEW y \in SockRecords, NEW s \in Sockets, NEW t \in TabRecords,
           NEW r \in RoomRecords, NEW v \in RoomRecords, Wired(x, s, t, r), Alike(r, v),
           s \in v.attached <=> s \in r.attached,
           y.client = x.client, y.server = x.server, y.run = x.run, y.userId = x.userId,
           NEW m \in DownFrames, m \notin Telling, m.t # "close",
           Live(x) /\ s \in r.attached /\ m \in Results => Judges(m, v, x.userId),
           y.down = x.down \/ (y.down = Append(x.down, m) /\ Live(x)),
           Ended(y.up) => Ended(x.up),
           Live(x) /\ s \in r.attached =>
               \A i \in DOMAIN x.up : x.up[i] = AnswerFrame(v.question) /\ v.phase = "question" =>
                   \/ <<x.userId, v.question>> \in v.answered
                   \/ \E j \in DOMAIN y.up : y.up[j] = AnswerFrame(v.question)
                   \/ m \in Refusals /\ y.down = Append(x.down, m)
    PROVE  Wired(y, s, t, v)
<1>1. x.down \in Seq(DownFrames)
  BY SockFields
<1>2. Live(y) <=> Live(x)
  <2>1. CASE y.down = x.down
    BY <2>1 DEF Live
  <2>2. CASE y.down = Append(x.down, m)
    <3>1. ~Ended(y.down)
      BY <1>1, <2>2, EndedAppended
    <3> QED  BY <2>2, <3>1 DEF Live
  <2> QED  BY <2>1, <2>2
<1>3. v.run = r.run
  BY DEF Alike
<1>4. CASE ~Live(x)
  BY <1>2, <1>4 DEF Wired
<1>5. CASE Live(x) /\ s \in r.attached
  <2>1. Shows(x, t, r) /\ x.run = r.run /\ x.userId # None /\ x.server = "open" /\ ~Ended(x.up)
    BY <1>5 DEF Wired
  <2>2. y.down = x.down \/ y.down = Append(x.down, m)
    OBVIOUS
  <2>3. Shows(y, t, v)
    BY <1>5, <2>1, <2>2, ShowsReplied
  <2> QED  BY <1>3, <1>5, <2>1, <2>3, Constants DEF Wired
<1>6. CASE Live(x) /\ s \notin r.attached
  <2>1. Without(x.down, Telling) /\ x.server = "open" /\ ~Ended(x.up)
    BY <1>6 DEF Wired
  <2>2. Without(y.down, Telling)
    BY <1>1, <2>1, SaysAppended
  <2> QED  BY <1>6, <2>1, <2>2 DEF Wired
<1> QED  BY <1>4, <1>5, <1>6

\* The frames that say why a join was turned down, or an answer.
LEMMA ErrorsBear ==
    \A c \in {"unauthorized", "internal", "not_joined", "lookup", "rate_limited"} :
        /\ Error(c) \in DownFrames /\ Error(c) \notin Telling /\ Error(c) \notin Results
        /\ Error(c).t # "close" /\ (c # "unauthorized" => Error(c) \in Refusals)
BY FramesTyped, FramesAre DEF Telling, Results, Refusals, Unauthorized

\* A join whose session cannot be had says so, and the socket stays.
LEMMA LookupFailsWires ==
    ASSUME ClientInv, ViewInv, NEW s \in Sockets, LookupFails(s) PROVE ViewInv'
<1>1. StateTyped /\ SocksTyped /\ RefsOK /\ TalkFits
  BY DEF ClientInv
<1>2. PICK x \in SockRecords : x = sock[s]
  BY <1>1 DEF SocksTyped
<1>3. sock \in [Sockets -> SockRecords] /\ tab \in TabRecords /\ room \in RoomRecords
      /\ Wired(x, s, tab, room)
  BY <1>1, <1>2 DEF SocksTyped, StateTyped, ViewInv
<1>4. PICK z : z = Denied(Joining(x, None))
  OBVIOUS
<1>5. /\ z \in SockRecords /\ z.client = x.client /\ z.server = x.server
      /\ z.up = x.up /\ z.down = x.down /\ z.run = x.run /\ z.userId = x.userId
  <2>1. PICK w \in SockRecords :
          /\ w = Joining(x, None) /\ w.client = x.client /\ w.server = x.server
          /\ w.up = x.up /\ w.down = x.down /\ w.run = x.run /\ w.userId = x.userId
    BY JoiningIs
  <2> QED  BY <1>4, <2>1, DeniedIs
<1>6. PICK no \in DownFrames : no = Error("lookup") /\ no \notin Telling /\ no \notin Results
                               /\ no.t # "close"
  BY ErrorsBear
<1>7. PICK down \in [Sockets -> SockRecords] : down = With(sock, s, z) /\ down[s] = z
  BY <1>3, <1>5, WithIs
<1>8. sock' = Say(down, s, no) /\ tab' = tab /\ room' = room
  <2>1. PICK done \in [Sockets -> SockRecords] :
          done = JoiningAt(sock, s, None) /\ done = With(sock, s, Joining(x, None))
          /\ done[s] = Joining(x, None)
    <3>1. JoiningAt(sock, s, None) = With(sock, s, Joining(x, None))
      BY <1>2, <1>3, WritesAre
    <3> QED  BY <1>3, <3>1, WithIs, JoiningIs
  <2>2. DeniedAt(done, s) = down
    BY <1>3, <1>4, <1>7, <2>1, WritesAre, TwiceIs
  <2> QED  BY <1>6, <2>1, <2>2 DEF LookupFails, Deny, DeniedAt, JoiningAt
<1>9. PICK y \in SockRecords :
        /\ Say(down, s, no) = With(down, s, y)
        /\ y.up = z.up /\ y.client = z.client /\ y.server = z.server
        /\ y.run = z.run /\ y.userId = z.userId
        /\ y.down = z.down \/ (y.down = Append(z.down, no) /\ Live(z))
  BY <1>7, HearsIs
<1>10. sock' = With(sock, s, y)
  BY <1>3, <1>7, <1>8, <1>9, TwiceIs
<1>11. Alike(room, room) /\ (Live(z) <=> Live(x)) /\ SameScreen(tab, tab')
  BY <1>5, <1>8, SameScreens DEF Alike, Live
<1>12. Wired(y, s, tab, room)
  BY <1>3, <1>5, <1>6, <1>9, <1>11, WiredReplied
<1> QED  BY <1>1, <1>8, <1>10, <1>11, <1>12, OneEndWired

\* The frame before the handler is read: those behind it are still there.
LeavesRest(q, m, w) ==
    /\ \A f : f # m => \A i \in DOMAIN q : q[i] = f => \E j \in DOMAIN w : w[j] = f
    /\ m.t # "close" => (Ended(w) <=> Ended(q))

LEMMA BehindRead ==
    ASSUME NEW q \in Seq(UpFrames), q # <<>>
    PROVE  LeavesRest(q, Head(q), Tail(q))
<1>1. PICK m, w : m = Head(q) /\ w = Tail(q)
  OBVIOUS
<1>2. ASSUME NEW f, f # m, NEW i \in DOMAIN q, q[i] = f PROVE \E j \in DOMAIN w : w[j] = f
  <2>1. i # 1
    BY <1>1, <1>2, Dropped
  <2>2. i - 1 \in DOMAIN w /\ w[i - 1] = q[i]
    BY <1>1, <1>2, <2>1
  <2> QED  BY <1>2, <2>2
<1>3. m.t # "close" => (Ended(w) <=> Ended(q))
  BY <1>1, EndedDropped
<1> QED  BY <1>1, <1>2, <1>3 DEF LeavesRest

\* A frame is handled: a join, an answer, or the end.
LEMMA JoinWires ==
    ASSUME ClientInv, ViewInv, NEW s \in Sockets, Handles(s), Head(sock[s].up).t = "join"
    PROVE  ViewInv'
<1>1. StateTyped /\ SocksTyped /\ RefsOK /\ TalkFits
  BY DEF ClientInv
<1>2. PICK x \in SockRecords : x = sock[s] /\ x.up # <<>>
  BY <1>1 DEF SocksTyped, Handles
<1>3. sock \in [Sockets -> SockRecords] /\ tab \in TabRecords /\ room \in RoomRecords
      /\ Wired(x, s, tab, room)
  BY <1>1, <1>2 DEF SocksTyped, StateTyped, ViewInv
<1>4. PICK m \in UpFrames : m = Head(x.up) /\ m.t = "join"
  BY <1>2, SockFields, Dropped
<1>5. PICK read \in [Sockets -> SockRecords] :
        read = ReadAt(sock, s) /\ read = With(sock, s, Read(x)) /\ read[s] = Read(x)
  BY <1>2, <1>3, WritesAre, WithIs, ReadIs
<1>6. /\ sock' = IF Identity(s, m) = None THEN Deny(read, s, "unauthorized")
                 ELSE JoiningAt(read, s, Identity(s, m))
      /\ tab' = tab /\ room' = room
  <2>1. m = Head(sock[s].up) /\ read = [sock EXCEPT ![s].up = Tail(@)]
    BY <1>2, <1>4, <1>5 DEF ReadAt
  <2> QED  BY <1>4, <2>1 DEF Handles, JoiningAt
<1>7. PICK no \in DownFrames : no = Error("unauthorized") /\ no \notin Telling
                               /\ no \notin Results /\ no.t # "close"
  BY ErrorsBear
<1>8. PICK z \in SockRecords :
        /\ z = Read(x) /\ z.up = Tail(x.up) /\ z.down = x.down /\ z.client = x.client
        /\ z.server = x.server /\ z.run = x.run /\ z.userId = x.userId
  BY <1>2, ReadIs
<1>9. PICK y \in SockRecords :
        /\ sock' = With(sock, s, y)
        /\ y.up = Tail(x.up) /\ y.client = x.client /\ y.server = x.server
        /\ y.run = x.run /\ y.userId = x.userId
        /\ y.down = x.down \/ (y.down = Append(x.down, no) /\ Live(x))
  <2>1. CASE Identity(s, m) = None
    <3>1. PICK down \in [Sockets -> SockRecords] :
            down = DeniedAt(read, s) /\ down = With(read, s, Denied(z)) /\ down[s] = Denied(z)
      <4>1. DeniedAt(read, s) = With(read, s, Denied(z))
        BY <1>5, <1>8, WritesAre
      <4>2. Denied(z) \in SockRecords
        BY DeniedIs
      <4> QED  BY <1>5, <4>1, <4>2, WithIs
    <3>2. sock' = Say(down, s, no)
      BY <1>6, <1>7, <2>1, <3>1 DEF Deny, DeniedAt
    <3>3. PICK w : w = Denied(z)
      OBVIOUS
    <3>4. /\ w.up = Tail(x.up) /\ w.client = x.client /\ w.server = x.server
          /\ w.run = x.run /\ w.userId = x.userId /\ w.down = x.down
      BY <1>8, <3>3, DeniedIs
    <3>5. Live(w) <=> Live(x)
      BY <3>4 DEF Live
    <3>6. PICK y \in SockRecords :
            /\ Say(down, s, no) = With(down, s, y)
            /\ y.up = w.up /\ y.client = w.client /\ y.server = w.server
            /\ y.run = w.run /\ y.userId = w.userId
            /\ y.down = w.down \/ (y.down = Append(w.down, no) /\ Live(w))
      BY <3>1, <3>3, HearsIs
    <3>7. sock' = With(sock, s, y)
      <4>1. With(down, s, y) = With(read, s, y) /\ With(read, s, y) = With(sock, s, y)
        BY <1>3, <1>5, <3>1, TwiceIs
      <4> QED  BY <3>2, <3>6, <4>1
    <3> QED  BY <3>4, <3>5, <3>6, <3>7
  <2>2. CASE Identity(s, m) # None
    <3>1. PICK id \in Ids : id = Identity(s, m)
      <4>1. m.id \in Ids \cup {None} /\ m.token \in BOOLEAN
        BY <1>4, UpFrameIs
      <4> QED  BY <2>2, <4>1, Constants DEF Identity
    <3>2. PICK y : y = Joining(z, id)
      OBVIOUS
    <3>3. /\ y \in SockRecords /\ y.client = x.client /\ y.server = x.server
          /\ y.up = Tail(x.up) /\ y.down = x.down /\ y.run = x.run /\ y.userId = x.userId
      BY <1>8, <3>2, JoiningIs
    <3>4. sock' = With(sock, s, y)
      <4>1. sock' = JoiningAt(read, s, id)
        BY <1>6, <2>2, <3>1
      <4>2. JoiningAt(read, s, id) = With(read, s, y)
        BY <1>5, <1>8, <3>2, WritesAre
      <4>3. With(read, s, y) = With(sock, s, y)
        BY <1>3, <1>5, TwiceIs
      <4> QED  BY <4>1, <4>2, <4>3
    <3> QED  BY <3>3, <3>4
  <2> QED  BY <2>1, <2>2
<1>10. AnswerFrame(room.question) # m
  BY <1>4, FramesAre
<1>11. /\ \A i \in DOMAIN x.up : x.up[i] = AnswerFrame(room.question)
             => \E j \in DOMAIN y.up : y.up[j] = AnswerFrame(room.question)
       /\ Ended(y.up) => Ended(x.up)
  <2>1. LeavesRest(x.up, m, y.up)
    BY <1>2, <1>4, <1>9, SockFields, BehindRead
  <2> QED  BY <1>4, <1>10, <2>1 DEF LeavesRest
<1>12. Alike(room, room) /\ SameScreen(tab, tab')
  BY <1>6, SameScreens DEF Alike
<1>13. Wired(y, s, tab, room)
  BY <1>3, <1>7, <1>9, <1>11, <1>12, WiredReplied
<1> QED  BY <1>1, <1>6, <1>9, <1>12, <1>13, OneEndWired

\* An answer is turned down with an error; if its sender is in the session and hears it,
\* the error says so.
LEMMA RefusalWires ==
    ASSUME ClientInv, ViewInv, NEW s \in Sockets, sock[s].up # <<>>, Head(sock[s].up).t = "answer",
           NEW e \in DownFrames, e \notin Telling, e \notin Results, e.t # "close",
           Live(sock[s]) /\ s \in room.attached => e \in Refusals,
           sock' = Say(ReadAt(sock, s), s, e), UNCHANGED <<tab, room>>
    PROVE  ViewInv'
<1>1. StateTyped /\ SocksTyped /\ RefsOK /\ TalkFits
  BY DEF ClientInv
<1>2. PICK x \in SockRecords : x = sock[s] /\ x.up # <<>>
  BY <1>1 DEF SocksTyped
<1>3. sock \in [Sockets -> SockRecords] /\ tab \in TabRecords /\ room \in RoomRecords
      /\ Wired(x, s, tab, room)
  BY <1>1, <1>2 DEF SocksTyped, StateTyped, ViewInv
<1>4. PICK m \in UpFrames : m = Head(x.up) /\ m.t = "answer"
  BY <1>2, SockFields, Dropped
<1>5. PICK read \in [Sockets -> SockRecords] :
        read = ReadAt(sock, s) /\ read = With(sock, s, Read(x)) /\ read[s] = Read(x)
  <2>1. Read(x) \in SockRecords
    BY <1>2, ReadIs
  <2>2. ReadAt(sock, s) = With(sock, s, Read(x))
    BY <1>2, <1>3, WritesAre
  <2> QED  BY <1>3, <2>1, <2>2, WithIs
<1>6. PICK z \in SockRecords :
        /\ z = Read(x) /\ z.up = Tail(x.up) /\ z.down = x.down /\ z.client = x.client
        /\ z.server = x.server /\ z.run = x.run /\ z.userId = x.userId
  BY <1>2, ReadIs
<1>7. PICK y \in SockRecords :
         /\ Say(read, s, e) = With(read, s, y)
         /\ y.up = z.up /\ y.client = z.client /\ y.server = z.server
         /\ y.run = z.run /\ y.userId = z.userId
         /\ Live(z) /\ z.server = "open" => y.down = Append(z.down, e)
         /\ ~(Live(z) /\ z.server = "open") => y = z
  BY <1>5, <1>6, HearsIs
<1>8. sock' = With(sock, s, y)
  BY <1>3, <1>5, <1>7, TwiceIs
<1>9. LeavesRest(x.up, m, y.up)
  BY <1>2, <1>4, <1>6, <1>7, SockFields, BehindRead
<1>10. (Live(z) <=> Live(x)) /\ Alike(room, room) /\ SameScreen(tab, tab)
  BY <1>6, SameScreens DEF Live, Alike
<1>11. ASSUME Live(x), s \in room.attached PROVE e \in Refusals /\ y.down = Append(x.down, e)
  <2>1. x.server = "open"
    BY <1>3, <1>11 DEF Wired
  <2> QED  BY <1>2, <1>6, <1>7, <1>10, <1>11, <2>1
<1>12. Ended(y.up) => Ended(x.up)
  BY <1>4, <1>9 DEF LeavesRest
<1>13. Wired(y, s, tab, room)
  <2>1. y.down = x.down \/ (y.down = Append(x.down, e) /\ Live(x))
    BY <1>6, <1>7, <1>10
  <2>2. /\ y.client = x.client /\ y.server = x.server /\ y.run = x.run /\ y.userId = x.userId
    BY <1>6, <1>7
  <2> QED  BY <1>3, <1>10, <1>11, <1>12, <2>1, <2>2, WiredReplied
<1> QED  BY <1>1, <1>3, <1>8, <1>10, <1>13, OneEndWired

LEMMA AnswerWires ==
    ASSUME ClientInv, ViewInv, NEW s \in Sockets, Handles(s), Head(sock[s].up).t = "answer"
    PROVE  ViewInv'
<1>1. StateTyped /\ SocksTyped /\ RefsOK /\ TalkFits
  BY DEF ClientInv
<1>2. PICK x \in SockRecords : x = sock[s] /\ x.up # <<>>
  BY <1>1 DEF SocksTyped, Handles
<1>3. sock \in [Sockets -> SockRecords] /\ tab \in TabRecords /\ room \in RoomRecords
      /\ Wired(x, s, tab, room)
  BY <1>1, <1>2 DEF SocksTyped, StateTyped, ViewInv
<1>4. PICK m \in UpFrames : m = Head(x.up) /\ m.t = "answer" /\ m.q \in Questions
  <2>1. Head(x.up) \in UpFrames
    BY <1>2, SockFields, Dropped
  <2> QED  BY <1>2, <2>1, UpFrameIs
<1>5. PICK read \in [Sockets -> SockRecords] :
        /\ read = ReadAt(sock, s) /\ read = With(sock, s, Read(x)) /\ read[s] = Read(x)
        /\ \A z \in Sockets : z # s => read[z] = sock[z]
  BY <1>2, <1>3, WritesAre, WithIs, ReadIs
<1>6. AnswerHandled(s, m, read) /\ tab' = tab
  <2>1. m = Head(sock[s].up) /\ read = [sock EXCEPT ![s].up = Tail(@)]
    BY <1>2, <1>4, <1>5 DEF ReadAt
  <2> QED  BY <1>4, <2>1 DEF Handles
<1>7. PICK r \in RoomRecords : r = room
  BY <1>3
<1>8. PICK z \in SockRecords :
        /\ z = Read(x) /\ z.up = Tail(x.up) /\ z.down = x.down /\ z.client = x.client
        /\ z.server = x.server /\ z.run = x.run /\ z.userId = x.userId
  BY <1>2, ReadIs
<1>9. CASE x.run = None \/ x.userId = None \/ x.run # r.run
  <2>1. room' = room /\ \E c \in {"not_joined", "internal"} : sock' = Say(read, s, Error(c))
    <3>1. CASE x.run = None \/ x.userId = None
      BY <1>2, <1>6, <3>1 DEF AnswerHandled
    <3>2. CASE x.run # None /\ x.userId # None /\ x.run # r.run
      BY <1>2, <1>6, <1>7, <3>2 DEF AnswerHandled
    <3> QED  BY <1>9, <3>1, <3>2
  <2>2. PICK e \in DownFrames : /\ sock' = Say(read, s, e) /\ e \notin Telling /\ e.t # "close"
                                /\ e \notin Results
    BY <2>1, ErrorsBear
  <2>3. ASSUME Live(x), s \in room.attached PROVE FALSE
    <3>1. r.run # None
      BY Constants DEF RoomRecords
    <3> QED  BY <1>3, <1>7, <1>9, <2>3, <3>1 DEF Wired
  <2>4. sock[s].up # <<>> /\ Head(sock[s].up).t = "answer"
    BY <1>2, <1>4
  <2>5. sock' = Say(ReadAt(sock, s), s, e) /\ tab' = tab /\ room' = room
    BY <1>5, <1>6, <2>1, <2>2
  <2>6. Live(sock[s]) /\ s \in room.attached => e \in Refusals
    BY <1>2, <2>3
  <2> QED  BY <2>2, <2>4, <2>5, <2>6, RefusalWires
<1>10. CASE x.run # None /\ x.userId # None /\ x.run = r.run
  <2>1. PICK his : his = {c \in room.attached : sock[c].userId = x.userId}
    OBVIOUS
  <2>2. PICK counts \in BOOLEAN :
          counts <=> r.phase = "question" /\ m.q = r.question
                        /\ <<x.userId, m.q>> \notin r.answered
    OBVIOUS
  <2>3. PICK taken \in {counts, FALSE} :
          /\ sock' = ToEach(read, Result(m.q, taken), his)
          /\ room' = IF taken THEN [r EXCEPT !.answered = @ \cup {<<x.userId, m.q>>}] ELSE r
    <3>1. (r.phase = "question" /\ m.q = r.question /\ <<x.userId, m.q>> \notin r.answered) = counts
      BY <2>2
    <3> QED  BY <1>2, <1>6, <1>7, <1>10, <2>1, <3>1 DEF AnswerHandled
  <2>4. taken \in BOOLEAN /\ (taken = TRUE => counts = TRUE)
    BY <2>2, <2>3
  <2>5. PICK v \in RoomRecords :
          /\ v = room' /\ Alike(r, v) /\ v.attached = r.attached
          /\ taken = TRUE => <<x.userId, m.q>> \in v.answered
    <3>1. CASE taken = FALSE
      <4>1. room' = r /\ Alike(r, r)
        BY <2>3, <3>1 DEF Alike
      <4> QED  BY <3>1, <4>1
    <3>2. CASE taken = TRUE
      <4>1. <<x.userId, m.q>> \in Ids \X Questions
        BY <1>4, <1>10, SockFields
      <4>2. PICK v : v = room'
        OBVIOUS
      <4>3. v = [r EXCEPT !.answered = @ \cup {<<x.userId, m.q>>}]
        BY <2>3, <3>2, <4>2
      <4>4. /\ v \in RoomRecords /\ v.phase = r.phase /\ v.question = r.question /\ v.seq = r.seq
            /\ v.run = r.run /\ v.attached = r.attached
            /\ v.answered = r.answered \cup {<<x.userId, m.q>>}
        BY <4>1, <4>3 DEF RoomRecords
      <4> QED  BY <4>2, <4>4 DEF Alike
    <3> QED  BY <2>4, <3>1, <3>2
  <2>6. PICK e \in DownFrames : /\ e = Result(m.q, taken) /\ e.t = "answer_result" /\ e.t # "close"
                                /\ e.q = m.q /\ e.accepted = taken /\ e \notin Telling
    <3>1. Result(m.q, taken) \in DownFrames /\ Result(m.q, taken).t = "answer_result"
      BY <1>4, <2>4, FramesTyped, FramesAre
    <3>2. Result(m.q, taken).q = m.q /\ Result(m.q, taken).accepted = taken
      BY DEF Result
    <3> QED  BY <3>1, <3>2 DEF Telling
  <2>7. Judges(e, v, x.userId)
    <3>1. taken = TRUE => m.q = Shown(v)
      BY <2>2, <2>4, <2>5 DEF Alike, Shown
    <3> QED  BY <2>5, <2>6, <3>1 DEF Judges
  <2>8. \/ r.phase # "question" \/ m.q # r.question
        \/ <<x.userId, r.question>> \in v.answered \/ e \in Refusals
    <3>1. CASE taken = TRUE
      BY <2>5, <3>1
    <3>2. CASE taken = FALSE
      BY <2>6, <3>2 DEF Refusals
    <3> QED  BY <2>4, <3>1, <3>2
  <2>9. ASSUME NEW c \in Sockets PROVE Wired(sock'[c], c, tab, v)
    <3>1. PICK y \in SockRecords :
            /\ Say(read, c, e) = With(read, c, y)
            /\ y.up = read[c].up /\ y.client = read[c].client /\ y.server = read[c].server
            /\ y.run = read[c].run /\ y.userId = read[c].userId
            /\ Live(read[c]) /\ read[c].server = "open" => y.down = Append(read[c].down, e)
            /\ ~(Live(read[c]) /\ read[c].server = "open") => y = read[c]
      BY HearsIs
    <3>2. Say(read, c, e)[c] = y
      BY <3>1, WithIs
    <3>3. sock'[c] = IF c \in his THEN y ELSE read[c]
      BY <2>3, <2>6, <3>2 DEF ToEach
    <3>4. PICK w \in SockRecords : w = sock[c] /\ Wired(w, c, tab, r)
      BY <1>3, <1>7 DEF ViewInv
    <3>5. /\ read[c] \in SockRecords /\ read[c].client = w.client /\ read[c].server = w.server
          /\ read[c].run = w.run /\ read[c].userId = w.userId /\ read[c].down = w.down
          /\ (Live(read[c]) <=> Live(w))
      BY <1>2, <1>5, <1>8, <3>4 DEF Live
    <3>6. c \in v.attached <=> c \in r.attached
      BY <2>5
    <3>7. PICK o \in SockRecords : o = sock'[c]
      BY <3>3, <3>5, <3>1
    <3>8. /\ o.client = w.client /\ o.server = w.server /\ o.run = w.run /\ o.userId = w.userId
          /\ o.up = read[c].up
      BY <3>1, <3>3, <3>5, <3>7
    <3>9. /\ o.down = w.down \/ (o.down = Append(w.down, e) /\ Live(w))
          /\ Live(w) /\ w.server = "open" /\ c \in his => o.down = Append(w.down, e)
          /\ c \notin his => o.down = w.down
      BY <3>1, <3>3, <3>5, <3>7
    <3>10. CASE c \notin his
      <4>1. PICK f \in DownFrames : /\ f = Error("internal") /\ f \notin Telling /\ f \notin Results
                                    /\ f.t # "close"
        BY ErrorsBear
      <4>2. CASE c # s
        <5>1. o = w
          BY <1>5, <3>3, <3>4, <3>7, <3>10, <4>2
        <5>2. SameScreen(tab, tab)
          BY SameScreens
        <5> QED  BY <2>5, <3>4, <3>6, <3>7, <5>1, <5>2, WiredSame
      <4>3. CASE c = s
        <5>1. ~(Live(w) /\ c \in r.attached)
          BY <1>2, <1>7, <2>1, <3>4, <3>10, <4>3
        <5>2. Ended(o.up) => Ended(w.up)
          BY <1>2, <1>4, <1>5, <1>8, <3>4, <3>8, <4>3, SockFields, BehindRead DEF LeavesRest
        <5>3. o.down = w.down
          BY <3>9, <3>10
        <5> QED  BY <1>3, <2>5, <3>4, <3>6, <3>7, <3>8, <4>1, <5>1, <5>2, <5>3, WiredReplied
      <4> QED  BY <4>2, <4>3
    <3>11. CASE c \in his
      <4>1. w.userId = x.userId /\ c \in r.attached
        BY <1>7, <2>1, <3>4, <3>11
      <4>2. Ended(o.up) => Ended(w.up)
        <5>1. CASE c # s
          BY <1>5, <3>4, <3>8, <5>1
        <5>2. CASE c = s
          BY <1>2, <1>4, <1>5, <1>8, <3>4, <3>8, <5>2, SockFields, BehindRead DEF LeavesRest
        <5> QED  BY <5>1, <5>2
      <4>3. ASSUME Live(w), NEW i \in DOMAIN w.up, w.up[i] = AnswerFrame(v.question),
                   v.phase = "question"
            PROVE  \/ <<w.userId, v.question>> \in v.answered
                   \/ \E j \in DOMAIN o.up : o.up[j] = AnswerFrame(v.question)
                   \/ e \in Refusals /\ o.down = Append(w.down, e)
        <5>1. v.question = r.question /\ v.phase = r.phase
          BY <2>5 DEF Alike
        <5>2. o.down = Append(w.down, e)
          <6>1. w.server = "open"
            BY <3>4, <4>3 DEF Wired
          <6> QED  BY <3>9, <3>11, <4>3, <6>1
        <5>3. CASE c # s
          <6>1. o.up = w.up
            BY <1>5, <3>4, <3>8, <5>3
          <6> QED  BY <4>3, <6>1
        <5>4. CASE c = s /\ m = AnswerFrame(v.question)
          <6>1. m.q = r.question
            BY <5>1, <5>4 DEF AnswerFrame
          <6> QED  BY <2>8, <4>1, <4>3, <5>1, <5>2, <6>1
        <5>5. CASE c = s /\ m # AnswerFrame(v.question)
          <6>1. o.up = Tail(w.up) /\ w.up # <<>> /\ m = Head(w.up)
            BY <1>2, <1>4, <1>5, <1>8, <3>4, <3>8, <5>5
          <6>2. LeavesRest(w.up, m, o.up)
            BY <6>1, SockFields, BehindRead
          <6> QED  BY <4>3, <5>5, <6>2 DEF LeavesRest
        <5> QED  BY <5>3, <5>4, <5>5
      <4>4. Judges(e, v, w.userId)
        BY <2>7, <4>1
      <4>5. Live(w) => \A i \in DOMAIN w.up : w.up[i] = AnswerFrame(v.question) /\ v.phase = "question" =>
                   \/ <<w.userId, v.question>> \in v.answered
                   \/ \E j \in DOMAIN o.up : o.up[j] = AnswerFrame(v.question)
                   \/ e \in Refusals /\ o.down = Append(w.down, e)
        BY <4>3
      <4>6. o.down = w.down \/ (o.down = Append(w.down, e) /\ Live(w))
        BY <3>9
      <4>7. /\ o.client = w.client /\ o.server = w.server /\ o.run = w.run /\ o.userId = w.userId
            /\ e \notin Telling /\ e.t # "close" /\ Alike(r, v) /\ Wired(w, c, tab, r)
            /\ tab \in TabRecords
        BY <1>3, <2>5, <2>6, <3>4, <3>8
      <4>8. Wired(o, c, tab, v)
        BY <3>6, <4>2, <4>4, <4>5, <4>6, <4>7, WiredReplied
      <4> QED  BY <3>7, <4>8
    <3> QED  BY <3>10, <3>11
  <2> QED  BY <1>6, <2>5, <2>9 DEF ViewInv
<1> QED  BY <1>9, <1>10

\* An answer that the token bucket turns away.
LEMMA LimitedWires ==
    ASSUME ClientInv, ViewInv, NEW s \in Sockets, Limited(s) PROVE ViewInv'
<1>1. PICK e \in DownFrames : /\ e = Error("rate_limited") /\ e \notin Telling /\ e.t # "close"
                              /\ e \notin Results /\ e \in Refusals
  BY ErrorsBear
<1>2. sock' = Say(ReadAt(sock, s), s, e) /\ tab' = tab /\ room' = room
  BY <1>1 DEF Limited, ReadAt
<1> QED  BY <1>1, <1>2, RefusalWires DEF Limited

LEMMA HandlesWires ==
    ASSUME ClientInv, ViewInv, NEW s \in Sockets, Handles(s) PROVE ViewInv'
<1>1. sock[s].up # <<>> /\ sock[s].up \in Seq(UpFrames) /\ Head(sock[s].up) # Leaving
  BY SockFields DEF ClientInv, SocksTyped, Handles
<1>2. PICK m \in UpFrames : m = Head(sock[s].up)
  BY <1>1, Dropped
<1>3. m.t = "join" \/ m.t = "answer"
  BY <1>1, <1>2, UpFrameIs
<1> QED  BY <1>2, <1>3, JoinWires, AnswerWires

\* While a question is on, and no frame that shows it is under way, it is on screen.
LEMMA QuestionShown ==
    ASSUME NEW x \in SockRecords, NEW t, NEW r \in RoomRecords, Shows(x, t, r),
           r.phase = "question", Without(x.down, Fresh)
    PROVE  t.question = r.question
<1>1. PICK q \in Seq(DownFrames) : q = x.down
  BY SockFields
<1>2. Without(q, Telling)
  <2>1. SUFFICES ASSUME ~Without(q, Telling) PROVE FALSE
    OBVIOUS
  <2>2. PICK i \in DOMAIN q : q[i] \in Telling /\ \A j \in DOMAIN q : j > i => q[j] \notin Telling
    BY <2>1, OneIsLast
  <2>3. LastSays(q, Telling, RightPhase(r))
    BY <1>1 DEF Shows
  <2>4. q[i] \in RightPhase(r)
    BY <2>2, <2>3 DEF LastSays
  <2>5. q[i] \in Fresh
    BY <2>4 DEF RightPhase, Telling, Fresh
  <2> QED  BY <1>1, <2>5 DEF Without
<1>3. Without(q, Fresh \cup Over)
  BY <1>2, Kinds DEF Without
<1>4. t.question = Shown(r)
  BY <1>1, <1>3 DEF Shows
<1> QED  BY <1>4 DEF Shown

\* A choice is shown as made when its frame is on its way.
LEMMA ChooseWires ==
    ASSUME ClientInv, ViewInv, Choose PROVE ViewInv'
<1>1. StateTyped /\ SocksTyped /\ RefsOK /\ TalkFits
  BY DEF ClientInv
<1>2. PICK s \in Sockets : s = tab.ref
  BY <1>1 DEF RefsOK, Choose
<1>3. PICK x \in SockRecords : x = sock[s]
  BY <1>1 DEF SocksTyped
<1>4. /\ sock \in [Sockets -> SockRecords] /\ tab \in TabRecords /\ room \in RoomRecords
      /\ Wired(x, s, tab, room)
  BY <1>1, <1>3 DEF SocksTyped, StateTyped, ViewInv
<1>5. PICK m \in UpFrames : m = AnswerFrame(tab.question) /\ m.t = "answer"
  BY <1>4, FramesTyped, FramesAre DEF Choose, TabRecords
<1>6. /\ sock' = Ask(sock, s, m) /\ room' = room /\ tab' = [tab EXCEPT !.chosen = TRUE]
  BY <1>2, <1>5 DEF Choose
<1>7. PICK y \in SockRecords :
        /\ sock' = With(sock, s, y)
        /\ y.down = x.down /\ y.client = x.client /\ y.server = x.server
        /\ y.run = x.run /\ y.userId = x.userId
        /\ y.up = IF x.server \in {"open", "closing"} /\ ~Ended(x.up)
                  THEN Append(x.up, m) ELSE x.up
  BY <1>3, <1>4, <1>6, SendsIs
<1>8. PICK u : u = tab'
  OBVIOUS
<1>9. /\ u.phase = tab.phase /\ u.question = tab.question /\ u.seq = tab.seq
      /\ u.you = tab.you /\ u.result = tab.result
  BY <1>4, <1>6, <1>8 DEF TabRecords
<1>10. Live(y) <=> Live(x)
  BY <1>7 DEF Live
<1>11. Wired(y, s, u, room)
  <2>1. CASE ~Live(x)
    BY <1>4, <1>7, <1>10, <2>1 DEF Wired
  <2>2. CASE Live(x)
    <3>1. x.server = "open" /\ ~Ended(x.up)
      BY <1>4, <2>2 DEF Wired
    <3>2. y.up = Append(x.up, m) /\ x.up \in Seq(UpFrames)
      BY <1>7, <3>1, SockFields
    <3>3. ~Ended(y.up)
      BY <1>5, <3>2, EndedAppended
    <3>4. ASSUME s \in room.attached PROVE Shows(y, u, room)
      <4>1. Shows(x, tab, room)
        BY <1>4, <2>2, <3>4 DEF Wired
      <4>2. ChoiceKept(y, u, room)
        <5>1. SUFFICES ASSUME room.phase = "question", Without(x.down, Fresh)
                       PROVE  \E i \in DOMAIN y.up : y.up[i] = AnswerFrame(room.question)
          BY <1>7 DEF ChoiceKept
        <5>2. m = AnswerFrame(room.question)
          BY <1>4, <1>5, <4>1, <5>1, QuestionShown
        <5>3. Len(x.up) + 1 \in DOMAIN y.up /\ y.up[Len(x.up) + 1] = m
          BY <3>2
        <5> QED  BY <5>2, <5>3
      <4> QED  BY <1>7, <1>9, <4>1, <4>2 DEF Shows
    <3> QED  BY <1>4, <1>7, <2>2, <3>1, <3>3, <3>4 DEF Wired
  <2> QED  BY <2>1, <2>2
<1> QED  BY <1>1, <1>2, <1>6, <1>7, <1>8, <1>11, OneEndWired

\* What is read of a socket that is open.
LEMMA ReceivesWires ==
    ASSUME ClientInv, ViewInv, NEW s \in Sockets, Receives(s) PROVE ViewInv'
<1>1. StateTyped /\ SocksTyped /\ RefsOK /\ TalkFits
  BY DEF ClientInv
<1>2. PICK x \in SockRecords : x = sock[s]
  BY <1>1 DEF SocksTyped
<1>3. /\ sock \in [Sockets -> SockRecords] /\ tab \in TabRecords /\ room \in RoomRecords
      /\ Wired(x, s, tab, room) /\ x.client = "open" /\ x.down # <<>>
      /\ tab.ref = s
  BY <1>1, <1>2 DEF SocksTyped, StateTyped, ViewInv, Receives, RefsOK
<1>4. PICK m \in DownFrames : m = Head(x.down) /\ m.t # "close"
  BY <1>2, <1>3, SockFields, Dropped DEF Receives
<1>5. PICK z \in SockRecords :
        /\ z = Took(x) /\ z.up = x.up /\ z.down = Tail(x.down) /\ z.client = "open"
        /\ z.server = x.server /\ z.run = x.run /\ z.userId = x.userId
  BY <1>3, TookIs
<1>6. PICK read \in [Sockets -> SockRecords] :
        read = TookAt(sock, s) /\ read = With(sock, s, z) /\ read[s] = z
  <2>1. TookAt(sock, s) = With(sock, s, z)
    BY <1>2, <1>3, <1>5, TookAtIs
  <2> QED  BY <1>3, <2>1, WithIs
<1>7. /\ tab' = CASE Refuses(tab, m) -> [tab EXCEPT !.fallback = TRUE]
                  [] m.t = "welcome" -> Welcomed(tab, m)
                  [] m.t = "event" -> Applied(tab, m)
                  [] m.t = "answer_result" -> [tab EXCEPT !.result = m]
                  [] m.t = "error" /\ ~Refuses(tab, m) -> [tab EXCEPT !.error = m.code]
      /\ sock' = IF Refuses(tab, m) THEN Ask(read, s, JoinFrame(None, FALSE)) ELSE read
      /\ room' = room
  BY <1>2, <1>4, <1>6 DEF Receives, Refuses, TookAt
<1>8. PICK j \in UpFrames : j = JoinFrame(None, FALSE) /\ j.t # "close"
  BY FallbackFrame, FramesAre
<1>9. PICK y \in SockRecords :
        /\ sock' = With(sock, s, y)
        /\ y.down = Tail(x.down) /\ y.client = "open" /\ y.server = x.server
        /\ y.run = x.run /\ y.userId = x.userId
        /\ y.up = x.up \/ y.up = Append(x.up, j)
  <2>1. CASE Refuses(tab, m)
    <3>1. PICK y \in SockRecords :
            /\ Ask(read, s, j) = With(read, s, y)
            /\ y.down = z.down /\ y.client = z.client /\ y.server = z.server
            /\ y.run = z.run /\ y.userId = z.userId
            /\ y.up = z.up \/ y.up = Append(z.up, j)
      <4>1. PICK y \in SockRecords :
              /\ Ask(read, s, j) = With(read, s, y)
              /\ y.down = read[s].down /\ y.client = read[s].client
              /\ y.server = read[s].server
              /\ y.run = read[s].run /\ y.userId = read[s].userId
              /\ y.up = read[s].up \/ y.up = Append(read[s].up, j)
        <5>1. PICK y : y = Sends(read[s], j)
          OBVIOUS
        <5>2. /\ Ask(read, s, j) = With(read, s, y) /\ y \in SockRecords
              /\ y.down = read[s].down /\ y.client = read[s].client
              /\ y.server = read[s].server
              /\ y.run = read[s].run /\ y.userId = read[s].userId
          BY <5>1, SendsIs
        <5>3. y.up = IF read[s].server \in {"open", "closing"} /\ ~Ended(read[s].up)
                     THEN Append(read[s].up, j) ELSE read[s].up
          BY <5>1, SendsIs
        <5>4. y.up = read[s].up \/ y.up = Append(read[s].up, j)
          BY <5>3
        <5> QED  BY <5>2, <5>4
      <4> QED  BY <1>6, <4>1
    <3>2. sock' = Ask(read, s, j)
      BY <1>7, <1>8, <2>1
    <3>3. sock' = With(sock, s, y)
      BY <1>3, <1>6, <3>1, <3>2, TwiceIs
    <3> QED  BY <1>5, <3>1, <3>3
  <2>2. CASE ~Refuses(tab, m)
    <3>1. sock' = With(sock, s, z)
      BY <1>6, <1>7, <2>2
    <3> QED  BY <1>5, <3>1
  <2> QED  BY <2>1, <2>2
<1>10. x.down \in Seq(DownFrames) /\ x.up \in Seq(UpFrames)
  BY SockFields
<1>11. Live(y) <=> Live(x)
  <2>1. Ended(Tail(x.down)) <=> Ended(x.down)
    BY <1>3, <1>4, <1>10, EndedDropped
  <2> QED  BY <1>3, <1>9, <2>1 DEF Live
<1>12. PICK u : u = tab'
  OBVIOUS
<1>13. ASSUME m.t = "event" => tab.seq <= m.seq PROVE Reads(tab, m, u)
  <2>1. m.t \in {"welcome", "event", "answer_result", "error"}
    BY <1>4, DownFrameIs
  <2>2. Refuses(tab, m) => m.t = "error"
    BY FramesAre DEF Refuses
  <2>3. CASE m.t = "welcome"
    BY <1>3, <1>7, <1>12, <2>2, <2>3, WelcomeReads
  <2>4. CASE m.t = "event"
    BY <1>3, <1>7, <1>12, <1>13, <2>2, <2>4, EventReads
  <2>5. CASE m.t = "answer_result"
    <3>1. u = [tab EXCEPT !.result = m]
      BY <1>7, <1>12, <2>2, <2>5
    <3>2. Reads(tab, m, [tab EXCEPT !.result = m])
      BY <1>3, <2>5, OtherReads
    <3> QED  BY <3>1, <3>2
  <2>6. CASE m.t = "error"
    <3>1. \/ Unauthorized(m) /\ u = [tab EXCEPT !.fallback = TRUE]
          \/ u = [tab EXCEPT !.error = m.code]
      BY <1>7, <1>12, <2>6, DownFrameIs DEF Refuses
    <3>2. Unauthorized(m) => Reads(tab, m, [tab EXCEPT !.fallback = TRUE])
      BY <1>3, <2>6, OtherReads
    <3>3. Reads(tab, m, [tab EXCEPT !.error = m.code])
      BY <1>3, <2>6, OtherReads
    <3>4. CASE Unauthorized(m) /\ u = [tab EXCEPT !.fallback = TRUE]
      BY <3>2, <3>4
    <3>5. CASE u = [tab EXCEPT !.error = m.code]
      BY <3>3, <3>5
    <3> QED  BY <3>1, <3>4, <3>5
  <2> QED  BY <2>1, <2>3, <2>4, <2>5, <2>6
<1>14. Wired(y, s, u, room)
  <2>1. CASE ~Live(x)
    BY <1>3, <1>9, <1>11, <2>1 DEF Wired
  <2>2. CASE Live(x)
    <3>1. x.server = "open" /\ ~Ended(x.up)
      BY <1>3, <2>2 DEF Wired
    <3>2. ~Ended(y.up)
      BY <1>8, <1>9, <1>10, <3>1, EndedAppended
    <3>3. ASSUME s \in room.attached PROVE Shows(y, u, room)
      <4>1. Shows(x, tab, room)
        BY <1>3, <2>2, <3>3 DEF Wired
      <4>2. m \in Telling \ Naming => tab.seq <= m.seq
        <5>1. Steady(x.down, tab.seq, room.seq) /\ tab.seq \in Nat /\ room.seq \in Nat
          BY <1>3, <4>1 DEF Shows, TabRecords, RoomRecords
        <5>2. PICK k : k = IF Head(x.down) \in Telling THEN Head(x.down).seq ELSE tab.seq
          OBVIOUS
        <5> QED  BY <1>3, <1>4, <1>10, <5>1, <5>2, SteadyDropped
      <4>3. m.t = "event" => tab.seq <= m.seq
        BY <4>2 DEF Telling, Naming
      <4>4. Reads(tab, Head(x.down), u)
        BY <1>4, <1>13, <4>3
      <4>5. \A i \in DOMAIN x.up : \E k \in DOMAIN y.up : y.up[k] = x.up[i]
        <5>1. CASE y.up = x.up
          BY <5>1
        <5>2. CASE y.up = Append(x.up, j)
          <6>1. \A i \in DOMAIN x.up : i \in DOMAIN y.up /\ y.up[i] = x.up[i]
            BY <1>10, <5>2
          <6> QED  BY <6>1
        <5> QED  BY <1>9, <5>1, <5>2
      <4> QED  BY <1>3, <1>9, <4>1, <4>4, <4>5, ShowsRead
    <3>4. ASSUME s \notin room.attached PROVE Without(y.down, Telling)
      <4>1. Without(x.down, Telling)
        BY <1>3, <2>2, <3>4 DEF Wired
      <4> QED  BY <1>3, <1>9, <1>10, <4>1, SaysDropped
    <3> QED  BY <1>3, <1>9, <2>2, <3>1, <3>2, <3>3, <3>4 DEF Wired
  <2> QED  BY <2>1, <2>2
<1> QED  BY <1>1, <1>3, <1>7, <1>9, <1>12, <1>14, OneEndWired

\* The lookup of a socket that has left comes back to nobody.
LEMMA ResolvesLateWires ==
    ASSUME ClientInv, ViewInv, NEW s \in Sockets, Resolves(s), Gone(s) PROVE ViewInv'
<1>1. StateTyped /\ SocksTyped /\ RefsOK /\ TalkFits
  BY DEF ClientInv
<1>2. PICK x \in SockRecords : x = sock[s]
  BY <1>1 DEF SocksTyped
<1>3. sock \in [Sockets -> SockRecords] /\ Wired(x, s, tab, room) /\ x.server = "closed"
  BY <1>1, <1>2 DEF SocksTyped, ViewInv, Gone
<1>4. PICK y \in SockRecords :
        /\ y = Joining(x, None) /\ y.client = x.client /\ y.server = x.server
        /\ y.down = x.down
  BY JoiningIs
<1>5. sock' = With(sock, s, y)
  <2>1. sock' = JoiningAt(sock, s, None)
    BY DEF Resolves, JoiningAt
  <2> QED  BY <1>2, <1>3, <1>4, <2>1, WritesAre
<1>6. tab' = tab /\ room' = room /\ SameScreen(tab, tab')
  BY SameScreens DEF Resolves
<1>7. Wired(y, s, tab', room)
  BY <1>3, <1>4, <1>6 DEF Wired, Live
<1> QED  BY <1>1, <1>5, <1>6, <1>7, OneEndWired

\* An event goes to all that are attached, and to nobody else.
LEMMA BroadcastWires ==
    ASSUME NEW ss \in [Sockets -> SockRecords], NEW t \in TabRecords,
           NEW r \in RoomRecords, NEW v \in RoomRecords, Advanced(r, v),
           v.attached = r.attached, NEW s \in Sockets, Wired(ss[s], s, t, r)
    PROVE  Wired(ToEach(ss, Event(v), r.attached)[s], s, t, v)
<1>1. PICK x \in SockRecords : x = ss[s]
  OBVIOUS
<1>2. PICK m \in DownFrames : m = Event(v) /\ m.t # "close"
  BY FramesTyped, FramesAre
<1>3. PICK y \in SockRecords :
        /\ Say(ss, s, m) = With(ss, s, y)
        /\ y.up = x.up /\ y.client = x.client /\ y.server = x.server
        /\ y.run = x.run /\ y.userId = x.userId
        /\ Live(x) /\ x.server = "open" => y.down = Append(x.down, m)
        /\ ~(Live(x) /\ x.server = "open") => y = x
  BY <1>1, HearsIs
<1>4. Say(ss, s, m)[s] = y
  BY <1>3, WithIs
<1>5. ToEach(ss, Event(v), r.attached)[s] = IF s \in r.attached THEN y ELSE x
  BY <1>1, <1>2, <1>4 DEF ToEach
<1>6. Wired(x, s, t, r) /\ v.run = r.run
  BY <1>1 DEF Advanced
<1>7. CASE s \notin r.attached
  <2>1. Wired(x, s, t, v)
    BY <1>6, <1>7 DEF Wired
  <2> QED  BY <1>5, <1>7, <2>1
<1>8. CASE s \in r.attached /\ ~Live(x)
  <2>1. y = x
    BY <1>3, <1>8
  <2>2. Wired(x, s, t, v)
    BY <1>6, <1>8 DEF Wired
  <2> QED  BY <1>5, <1>8, <2>1, <2>2
<1>9. CASE s \in r.attached /\ Live(x)
  <2>1. x.server = "open" /\ ~Ended(x.up) /\ x.run = r.run /\ x.userId # None /\ Shows(x, t, r)
    BY <1>6, <1>9 DEF Wired
  <2>2. y.down = Append(x.down, m)
    BY <1>3, <1>9, <2>1
  <2>3. Shows(y, t, v)
    BY <1>2, <1>3, <2>1, <2>2, ShowsTold
  <2>4. Wired(y, s, t, v)
    BY <1>3, <1>6, <1>9, <2>1, <2>3, Constants DEF Wired
  <2> QED  BY <1>5, <1>9, <2>4
<1> QED  BY <1>7, <1>8, <1>9

\* The actor takes the connection: the snapshot comes before what it will stream, and
\* says all that it said before.
LEMMA ResolvesWires ==
    ASSUME ClientInv, ViewInv, NEW s \in Sockets, Resolves(s), ~Gone(s) PROVE ViewInv'
<1>1. StateTyped /\ SocksTyped /\ RefsOK /\ TalkFits
  BY DEF ClientInv
<1>2. PICK x \in SockRecords : x = sock[s]
  BY <1>1 DEF SocksTyped
<1>3. /\ sock \in [Sockets -> SockRecords] /\ x.server # None /\ x.joining \in Ids
      /\ tab \in TabRecords /\ Wired(x, s, tab, room)
  BY <1>1, <1>2, SockFields DEF SocksTyped, Resolves, Orderly, StateTyped, ViewInv
<1>4. PICK id \in Ids : id = x.joining
  BY <1>3
<1>5. PICK r \in RoomRecords, n \in Runs : r = room /\ n = r.run
  BY <1>1 DEF StateTyped, RoomRecords
<1>6. PICK joined \in RoomRecords :
        /\ joined = SeatIn(r, s, id) /\ Alike(r, joined) /\ joined.attached = r.attached \cup {s}
  <2>1. PICK joined \in RoomRecords : joined = SeatIn(r, s, id)
    BY SeatedTyped
  <2>2. /\ joined.phase = r.phase /\ joined.question = r.question /\ joined.seq = r.seq
        /\ joined.run = r.run /\ joined.answered = r.answered
        /\ joined.attached = r.attached \cup {s}
    BY <2>1 DEF SeatIn, RoomRecords
  <2> QED  BY <2>1, <2>2 DEF Alike
<1>7. PICK m \in DownFrames : m = Welcome(joined, id) /\ m.t = "welcome"
  BY FramesTyped, FramesAre
<1>8. PICK done \in [Sockets -> SockRecords] :
        done = JoiningAt(sock, s, None) /\ done = With(sock, s, Joining(x, None))
        /\ done[s] = Joining(x, None)
  <2>1. JoiningAt(sock, s, None) = With(sock, s, Joining(x, None))
    BY <1>2, <1>3, WritesAre
  <2> QED  BY <1>3, <2>1, WithIs, JoiningIs
<1>9. PICK z \in SockRecords :
         /\ z = Granted(Joining(x, None), n, id)
         /\ z.client = x.client /\ z.server = x.server /\ z.up = x.up
         /\ z.down = x.down /\ z.run = n /\ z.userId = id
  <2>1. Joining(x, None) \in SockRecords
    BY JoiningIs
  <2> QED  BY <2>1, JoiningIs, GrantedIs
<1>10. PICK granted \in [Sockets -> SockRecords] :
         granted = GrantedAt(done, s, n, id) /\ granted = With(sock, s, z) /\ granted[s] = z
  <2>1. GrantedAt(done, s, n, id) = With(done, s, z)
    BY <1>8, <1>9, WritesAre
  <2>2. With(done, s, z) = With(sock, s, z)
    BY <1>3, <1>8, TwiceIs
  <2> QED  BY <1>3, <2>1, <2>2, WithIs
<1>11. PICK y \in SockRecords :
         /\ Say(granted, s, m) = With(granted, s, y)
         /\ y.up = z.up /\ y.client = z.client /\ y.server = z.server
         /\ y.run = z.run /\ y.userId = z.userId
         /\ Live(z) /\ z.server = "open" => y.down = Append(z.down, m)
         /\ ~(Live(z) /\ z.server = "open") => y = z
  BY <1>10, HearsIs
<1>12. PICK seated \in [Sockets -> SockRecords] :
         /\ seated = Say(granted, s, m) /\ seated = With(sock, s, y) /\ seated[s] = y
         /\ \A w \in Sockets : w # s => seated[w] = sock[w]
  <2>1. With(granted, s, y) = With(sock, s, y)
    BY <1>3, <1>10, TwiceIs
  <2>2. PICK after : after = With(sock, s, y)
    OBVIOUS
  <2>3. /\ after \in [Sockets -> SockRecords] /\ after[s] = y
        /\ \A w \in Sockets : w # s => after[w] = sock[w]
    BY <1>3, <2>2, WithIs
  <2>4. after = Say(granted, s, m)
    BY <1>11, <2>1, <2>2
  <2> QED  BY <2>2, <2>3, <2>4
<1>13. PICK v : v = Numbered(joined, joined.seq + 1)
  OBVIOUS
<1>14. /\ v \in RoomRecords /\ v.attached = joined.attached
       /\ v.phase = r.phase /\ v.question = r.question /\ v.run = r.run /\ v.seq = r.seq + 1
       /\ v.answered = joined.answered
  <2>1. joined.seq + 1 \in Nat
    BY DEF RoomRecords
  <2>2. /\ v \in RoomRecords /\ v.attached = joined.attached /\ v.phase = joined.phase
        /\ v.question = joined.question /\ v.run = joined.run /\ v.seq = joined.seq + 1
        /\ v.answered = joined.answered
    BY <1>13, <2>1 DEF Numbered, RoomRecords
  <2> QED  BY <1>6, <2>2 DEF Alike
<1>15. tab' = tab /\ \/ room' = joined /\ sock' = seated
                     \/ room' = v /\ sock' = ToEach(seated, Event(v), v.attached)
  <2>1. seated = Say([done EXCEPT ![s].run = room.run, ![s].userId = id], s, Welcome(joined, id))
    BY <1>5, <1>7, <1>10, <1>12 DEF GrantedAt
  <2>2. done = [sock EXCEPT ![s].joining = None] /\ id = sock[s].joining
    BY <1>2, <1>4, <1>8 DEF JoiningAt
  <2>3. joined = [room EXCEPT !.players = @ \cup {id}, !.attached = @ \cup {s}]
    BY <1>5, <1>6 DEF SeatIn
  <2>4. PICK after : after = [joined EXCEPT !.seq = IF room.phase = "lobby" /\ room.players = {}
                                                    THEN @ + 1 ELSE @]
    OBVIOUS
  <2>5. /\ tab' = tab /\ room' = after
        /\ sock' = IF room.phase = "lobby" /\ room.players = {}
                   THEN ToEach(seated, Event(after), after.attached) ELSE seated
    BY <2>1, <2>2, <2>3, <2>4 DEF Resolves
  <2>6. CASE room.phase = "lobby" /\ room.players = {}
    <3>1. after = v
      BY <1>13, <2>4, <2>6 DEF Numbered
    <3> QED  BY <2>5, <2>6, <3>1
  <2>7. CASE ~(room.phase = "lobby" /\ room.players = {})
    <3>1. after = joined
      BY <2>4, <2>7 DEF RoomRecords
    <3> QED  BY <2>5, <2>7, <3>1
  <2> QED  BY <2>6, <2>7
<1>16. Wired(y, s, tab, joined)
  <2>1. s \in joined.attached /\ y.server = x.server /\ joined.run = r.run
    BY <1>6, <1>9, <1>11 DEF Alike
  <2>2. Live(z) <=> Live(x)
    BY <1>9 DEF Live
  <2>3. CASE ~Live(x)
    <3>1. ~Live(y)
      BY <1>11, <2>2, <2>3
    <3> QED  BY <1>3, <2>1, <3>1, WiredDead
  <2>4. CASE Live(x)
    <3>1. x.server = "open" /\ ~Ended(x.up) /\ (Without(x.down, Telling) \/ Shows(x, tab, r))
      BY <1>3, <1>5, <2>4 DEF Wired
    <3>2. y.down = Append(x.down, m)
      BY <1>9, <1>11, <2>2, <2>4, <3>1
    <3>3. Without(x.down, Telling) \/ Steady(x.down, tab.seq, joined.seq)
      BY <1>6, <3>1 DEF Shows, Alike
    <3>4. Shows(y, tab, joined)
      BY <1>3, <1>7, <1>9, <1>11, <3>2, <3>3, ShowsWelcomed
    <3>5. y.run = joined.run /\ y.userId # None /\ y.up = x.up
      BY <1>5, <1>9, <1>11, <2>1, Constants
    <3> QED  BY <2>1, <3>1, <3>4, <3>5, Constants DEF Wired
  <2> QED  BY <2>3, <2>4
<1>17. ASSUME NEW w \in Sockets PROVE Wired(seated[w], w, tab, joined)
  <2>1. CASE w = s
    BY <1>12, <1>16, <2>1
  <2>2. CASE w # s
    <3>1. Wired(sock[w], w, tab, r) /\ SameScreen(tab, tab)
      BY <1>5, SameScreens DEF ViewInv
    <3>2. w \in joined.attached <=> w \in r.attached
      BY <1>6, <2>2
    <3>3. Wired(sock[w], w, tab, joined)
      BY <1>6, <3>1, <3>2, WiredSame
    <3> QED  BY <1>12, <2>2, <3>3
  <2> QED  BY <2>1, <2>2
<1>18. CASE room' = joined /\ sock' = seated
  BY <1>15, <1>17, <1>18 DEF ViewInv
<1>19. CASE room' = v /\ sock' = ToEach(seated, Event(v), v.attached)
  <2>1. Advanced(joined, v)
    <3>1. Shown(v) = Shown(joined)
      BY <1>6, <1>14 DEF Shown, Alike
    <3> QED  BY <1>6, <1>14, <3>1 DEF Advanced, Alike
  <2>2. ASSUME NEW w \in Sockets PROVE Wired(sock'[w], w, tab', room')
    <3>1. Wired(ToEach(seated, Event(v), joined.attached)[w], w, tab, v)
      BY <1>3, <1>14, <1>17, <2>1, BroadcastWires
    <3> QED  BY <1>14, <1>15, <1>19, <3>1
  <2> QED  BY <2>2 DEF ViewInv
<1> QED  BY <1>15, <1>18, <1>19

\* The session moves on: every socket attached is told so.
LEMMA MovesOnWires ==
    ASSUME ClientInv, ViewInv, MovesOn PROVE ViewInv'
<1>1. StateTyped /\ SocksTyped
  BY DEF ClientInv
<1>2. PICK r \in RoomRecords : r = room /\ r.phase # "finished"
  BY <1>1 DEF StateTyped, MovesOn
<1>3. room' \in RoomRecords
  BY <1>2, MovesOnIs DEF MovesOn
<1>4. PICK v \in RoomRecords : v = room'
  BY <1>3
<1>5. /\ sock' = ToEach(sock, Event(v), r.attached) /\ tab' = tab
      /\ sock \in [Sockets -> SockRecords] /\ tab \in TabRecords
  BY <1>1, <1>2, <1>4 DEF MovesOn, SocksTyped, StateTyped
<1>6. Advanced(r, v) /\ v.attached = r.attached
  <2>1. r.phase \in {"lobby", "question", "reveal"}
    BY <1>2 DEF RoomRecords, Phases
  <2>2. PICK next : /\ v = [next EXCEPT !.seq = @ + 1]
                    /\ next = CASE r.phase = "lobby" -> [r EXCEPT !.phase = "question"]
                                [] r.phase = "question" -> [r EXCEPT !.phase = "reveal"]
                                [] r.phase = "reveal" ->
                                     IF r.question + 1 < NumQuestions
                                     THEN [r EXCEPT !.phase = "question", !.question = @ + 1]
                                     ELSE [r EXCEPT !.phase = "finished"]
    BY <1>2, <1>4 DEF MovesOn
  <2>3. ASSUME NEW p, NEW q, next = [r EXCEPT !.phase = p, !.question = q]
        PROVE  /\ v.phase = p /\ v.question = q /\ v.run = r.run /\ v.seq = r.seq + 1
               /\ v.attached = r.attached /\ v.answered = r.answered
    BY <2>2, <2>3 DEF RoomRecords
  <2>4. ASSUME NEW p, next = [r EXCEPT !.phase = p]
        PROVE  /\ v.phase = p /\ v.question = r.question /\ v.run = r.run /\ v.seq = r.seq + 1
               /\ v.attached = r.attached /\ v.answered = r.answered
    BY <2>2, <2>4 DEF RoomRecords
  <2>5. CASE r.phase = "lobby"
    <3>1. v.phase = "question" /\ v.run = r.run /\ v.seq = r.seq + 1 /\ v.attached = r.attached
          /\ v.answered = r.answered
      BY <2>2, <2>4, <2>5
    <3> QED  BY <3>1 DEF Advanced
  <2>6. CASE r.phase = "question"
    <3>1. /\ v.phase = "reveal" /\ v.question = r.question
          /\ v.run = r.run /\ v.seq = r.seq + 1 /\ v.attached = r.attached
          /\ v.answered = r.answered
      BY <2>2, <2>4, <2>6
    <3> QED  BY <2>6, <3>1 DEF Advanced, Shown
  <2>7. CASE r.phase = "reveal"
    <3>1. /\ v.phase \in {"question", "finished"}
          /\ v.run = r.run /\ v.seq = r.seq + 1 /\ v.attached = r.attached
          /\ v.answered = r.answered
      <4>1. CASE r.question + 1 < NumQuestions
        <5>1. next = [r EXCEPT !.phase = "question", !.question = r.question + 1]
          BY <2>2, <2>7, <4>1
        <5> QED  BY <2>3, <5>1
      <4>2. CASE ~(r.question + 1 < NumQuestions)
        <5>1. next = [r EXCEPT !.phase = "finished"]
          BY <2>2, <2>7, <4>2
        <5> QED  BY <2>4, <5>1
      <4> QED  BY <4>1, <4>2
    <3> QED  BY <3>1 DEF Advanced
  <2> QED  BY <2>1, <2>5, <2>6, <2>7
<1>7. ASSUME NEW s \in Sockets PROVE Wired(sock'[s], s, tab', room')
  <2>1. Wired(sock[s], s, tab, r)
    BY <1>2 DEF ViewInv
  <2>2. Wired(ToEach(sock, Event(v), r.attached)[s], s, tab, v)
    BY <1>5, <1>6, <2>1, BroadcastWires
  <2> QED  BY <1>4, <1>5, <2>2
<1> QED  BY <1>7 DEF ViewInv

\* Another session takes the place of this one: who was attached is told, or cut off.
Quiet(x) == Live(x) => x.server = "open" /\ ~Ended(x.up) /\ Without(x.down, Telling)

LEMMA DismissedQuiet ==
    ASSUME NEW ss \in [Sockets -> SockRecords], NEW r, NEW t, NEW s \in Sockets,
           Wired(ss[s], s, t, r)
    PROVE  Quiet(Dismissed(ss, r.attached)[s])
<1>1. PICK x \in SockRecords : x = ss[s]
  OBVIOUS
<1>2. CASE s \notin r.attached
  <2>1. Dismissed(ss, r.attached)[s] = x
    BY <1>1, <1>2 DEF Dismissed
  <2> QED  BY <1>1, <1>2, <2>1 DEF Wired, Quiet
<1>3. CASE s \in r.attached
  <2>1. PICK m \in DownFrames : m = Close(1001) /\ m.t = "close"
    BY FramesTyped, FramesAre
  <2>2. PICK y \in SockRecords :
          /\ Say(ss, s, m) = With(ss, s, y)
          /\ y.client = x.client /\ y.server = x.server
          /\ Live(x) /\ x.server = "open" => y.down = Append(x.down, m)
          /\ ~(Live(x) /\ x.server = "open") => y = x
    BY <1>1, HearsIs
  <2>3. Say(ss, s, m)[s] = y
    BY <2>2, WithIs
  <2>4. PICK w : w = [y EXCEPT !.server = IF @ = "open" THEN "closing" ELSE @]
    OBVIOUS
  <2>5. Dismissed(ss, r.attached)[s] = w
    BY <1>3, <2>1, <2>3, <2>4 DEF Dismissed
  <2>6. w.client = y.client /\ w.down = y.down
    BY <2>4 DEF SockRecords
  <2>7. ~Live(y)
    <3>1. CASE Live(x)
      <4>1. y.down = Append(x.down, m) /\ x.down \in Seq(DownFrames)
        BY <1>1, <2>2, <3>1, SockFields DEF Wired
      <4>2. Ended(y.down)
        BY <2>1, <4>1, EndedAppended
      <4> QED  BY <4>2 DEF Live
    <3>2. CASE ~Live(x)
      BY <2>2, <3>2
    <3> QED  BY <3>1, <3>2
  <2>8. ~Live(w)
    BY <2>6, <2>7 DEF Live
  <2> QED  BY <2>5, <2>8 DEF Quiet
<1> QED  BY <1>2, <1>3

LEMMA CutQuiet ==
    ASSUME NEW ss \in [Sockets -> SockRecords], NEW s \in Sockets,
           Live(ss[s]) => ss[s].server \in {"open", "closing"}
    PROVE  Quiet(Cut(ss, Sockets)[s])
<1>1. PICK x \in SockRecords : x = ss[s]
  OBVIOUS
<1>2. CASE x.server \notin {"open", "closing"}
  <2>1. Cut(ss, Sockets)[s] = x /\ ~Live(x)
    BY <1>1, <1>2 DEF Cut
  <2> QED  BY <2>1 DEF Quiet
<1>3. CASE x.server \in {"open", "closing"}
  <2>0. PICK left : left = IF x.client \in {"open", "closing"} THEN Put(x.down, Close(1006))
                           ELSE x.down
    OBVIOUS
  <2>1. PICK w : w = [x EXCEPT !.server = "closed", !.joining = None, !.run = None,
                               !.userId = None, !.up = <<>>, !.down = left]
    OBVIOUS
  <2>2. Cut(ss, Sockets)[s] = w
    BY <1>1, <1>3, <2>0, <2>1 DEF Cut
  <2>3. w.client = x.client /\ w.down = left
    BY <2>1 DEF SockRecords
  <2>4. x.client = "open" => Ended(left)
    <3>1. Ended(x.down) \/ Ended(Append(x.down, Close(1006)))
      BY SockFields, FramesTyped, FramesAre, EndedAppended
    <3> QED  BY <2>0, <3>1 DEF Put
  <2>5. ~Live(w)
    BY <2>3, <2>4 DEF Live
  <2> QED  BY <2>2, <2>5 DEF Quiet
<1> QED  BY <1>2, <1>3

LEMMA ReplacedWires ==
    ASSUME ClientInv, ViewInv, Restart \/ Shutdown \/ Crash PROVE ViewInv'
<1>1. StateTyped /\ SocksTyped
  BY DEF ClientInv
<1>2. room' = Opening(room.run + 1) /\ tab' = tab
  BY DEF Restart, Shutdown, Crash
<1>3. \/ sock' = Dismissed(sock, room.attached)
      \/ sock' = Cut(Dismissed(sock, room.attached), Sockets)
      \/ sock' = Cut(sock, Sockets)
  BY DEF Restart, Shutdown, Crash
<1>4. sock \in [Sockets -> SockRecords]
  BY <1>1 DEF SocksTyped
<1>5. PICK ss \in [Sockets -> SockRecords] :
        ss = Dismissed(sock, room.attached) /\ \A z \in Sockets : Quiet(ss[z])
  <2>1. \A z \in Sockets : Quiet(Dismissed(sock, room.attached)[z])
    BY <1>4, DismissedQuiet DEF ViewInv
  <2> QED  BY <1>4, <2>1, DismissedIs
<1>6. ASSUME NEW z \in Sockets PROVE Quiet(sock'[z])
  <2>1. CASE sock' = Dismissed(sock, room.attached)
    BY <1>5, <2>1
  <2>2. CASE sock' = Cut(Dismissed(sock, room.attached), Sockets)
    <3>1. Live(ss[z]) => ss[z].server = "open"
      BY <1>5 DEF Quiet
    <3>2. Quiet(Cut(ss, Sockets)[z])
      BY <3>1, CutQuiet
    <3> QED  BY <1>5, <2>2, <3>2
  <2>3. CASE sock' = Cut(sock, Sockets)
    <3>1. Live(sock[z]) => sock[z].server = "open"
      BY DEF ViewInv, Wired
    <3>2. Quiet(Cut(sock, Sockets)[z])
      BY <1>4, <3>1, CutQuiet
    <3> QED  BY <2>3, <3>2
  <2> QED  BY <1>3, <2>1, <2>2, <2>3
<1>7. room'.attached = {}
  BY <1>2 DEF Opening
<1> QED  BY <1>6, <1>7 DEF ViewInv, Wired, Quiet

\* Nobody listens any more, or yet.
LEMMA NobodyWires ==
    ASSUME ViewInv, room' = room, NEW left, \A z \in Sockets : left[z].server = sock[z].server,
           \A z \in Sockets : sock'[z].server = left[z].server /\ sock'[z].client # "open"
    PROVE  ViewInv'
<1>1. ASSUME NEW z \in Sockets PROVE Wired(sock'[z], z, tab', room')
  <2>1. Wired(sock[z], z, tab, room) /\ ~Live(sock'[z])
    BY DEF ViewInv, Live
  <2>2. z \in room'.attached => sock'[z].server # None
    BY <2>1 DEF Wired
  <2> QED  BY <2>1, <2>2, WiredDead
<1> QED  BY <1>1 DEF ViewInv

\* A new attempt has nothing under way, whatever the last one left on screen.
LEMMA RetryFiresWires ==
    ASSUME ClientInv, ViewInv, RetryFires PROVE ViewInv'
<1>1. StateTyped /\ SocksTyped /\ RefsOK
  BY DEF ClientInv
<1>2. Retries(tab) /\ Connect(tab, sock) /\ room' = room
  BY <1>1 DEF RetryFires, Retries, StateTyped, TabRecords
<1>3. PICK n \in Sockets : n = NextSocket
  BY <1>2, NextSocketIs DEF Connect
<1>4. sock' = [sock EXCEPT ![n].client = "connecting"] /\ sock \in [Sockets -> SockRecords]
  BY <1>1, <1>2, <1>3 DEF Connect, SocksTyped
<1>5. \A z \in Sockets : sock[z].client # "open"
  BY <1>1, <1>2, Constants DEF RefsOK
<1>6. \A z \in Sockets : sock'[z].server = sock[z].server /\ sock'[z].client # "open"
  BY <1>4, <1>5 DEF SockRecords
<1> QED  BY <1>2, <1>6, NobodyWires

LEMMA RemountWires ==
    ASSUME ClientInv, ViewInv, Remount PROVE ViewInv'
<1>1. StateTyped /\ SocksTyped /\ RefsOK
  BY DEF ClientInv
<1>2. PICK s : s = tab.ref
  OBVIOUS
<1>3. PICK left : left = IF s = None THEN sock ELSE Ask(ClosingAt(sock, s), s, Leaving)
  OBVIOUS
<1>4. Connect(Blank, left) /\ room' = room
  BY <1>2, <1>3 DEF Remount, ClosingAt
<1>5. sock \in [Sockets -> SockRecords] /\ \A z \in Sockets : Orderly(sock[z])
  BY <1>1 DEF SocksTyped
<1>6. /\ left \in [Sockets -> SockRecords]
      /\ \A z \in Sockets : left[z].client # "open" /\ left[z].server = sock[z].server
      /\ \A z \in Sockets : left[z].client = None <=> sock[z].client = None
  <2>1. CASE s = None
    <3>1. left = sock
      BY <1>3, <2>1
    <3>2. \A z \in Sockets : sock[z].client # "open"
      BY <1>1, <1>2, <2>1, Constants DEF RefsOK
    <3> QED  BY <1>5, <3>1, <3>2
  <2>2. CASE s # None
    <3>1. s \in Sockets /\ sock[s].client \in {"connecting", "open"}
      BY <1>1, <1>2, <2>2 DEF RefsOK
    <3>2. PICK x \in SockRecords : x = sock[s] /\ Orderly(x) /\ x.client # None
      BY <1>5, <3>1, Constants
    <3>3. PICK z \in SockRecords : z = Closing(x) /\ z.client = "closing" /\ z.server = x.server
      <4>1. Closing(x).server = x.server
        BY DEF Closing, SockRecords
      <4> QED  BY <3>2, <4>1, ClosingIs
    <3>4. PICK ss \in [Sockets -> SockRecords] :
            ss = ClosingAt(sock, s) /\ ss = With(sock, s, z) /\ ss[s] = z
      <4>1. ClosingAt(sock, s) = With(sock, s, Closing(sock[s]))
        BY <1>5, <3>1 DEF ClosingAt, With, Closing
      <4> QED  BY <1>5, <3>1, <3>2, <3>3, <4>1, WithIs
    <3>5. PICK y \in SockRecords : Ask(ss, s, Leaving) = With(ss, s, y) /\ Sent(z, y, Leaving)
      BY <3>1, <3>4, AskIs, FramesTyped
    <3>6. y.client = "closing" /\ y.server = x.server
      BY <3>3, <3>5, SentFields
    <3>7. left = With(sock, s, y)
      BY <1>3, <1>5, <2>2, <3>1, <3>4, <3>5, TwiceIs
    <3>8. left \in [Sockets -> SockRecords]
      BY <1>5, <3>1, <3>5, <3>7, WithIs
    <3>9. left[s] = y
      BY <1>5, <3>1, <3>5, <3>7, WithIs
    <3>10. \A v \in Sockets : v # s => left[v] = sock[v]
      BY <1>5, <3>1, <3>5, <3>7, WithIs
    <3>11. \A v \in Sockets : v # s => sock[v].client # "open"
      BY <1>1, <1>2 DEF RefsOK
    <3>12. y.client # None /\ y.client # "open"
      BY <3>6, Constants
    <3> QED  BY <3>1, <3>2, <3>6, <3>8, <3>9, <3>10, <3>11, <3>12
  <2> QED  BY <2>1, <2>2
<1>7. \E v \in Sockets : sock[v].client = None
  BY <1>4, <1>6 DEF Connect
<1>8. PICK n \in Sockets : n = NextSocket
  BY <1>7, NextSocketIs
<1>9. sock' = [left EXCEPT ![n].client = "connecting"]
  BY <1>4, <1>8 DEF Connect
<1>10. \A z \in Sockets : sock'[z].server = left[z].server /\ sock'[z].client # "open"
  BY <1>6, <1>9 DEF SockRecords
<1> QED  BY <1>4, <1>6, <1>10, NobodyWires

-----------------------------------------------------------------------------
LEMMA InitViews == ASSUME ClientInit PROVE ViewInv
<1>1. sock = [s \in Sockets |-> IF s = 1 THEN [NoSocket EXCEPT !.client = "connecting"] ELSE NoSocket]
      /\ room = Opening(1)
  BY DEF ClientInit
<1>2. NoSocket.client # "open" /\ [NoSocket EXCEPT !.client = "connecting"].client # "open"
  BY Constants DEF NoSocket
<1>3. room.attached = {}
  BY <1>1 DEF Opening
<1>4. \A s \in Sockets : ~Live(sock[s])
  BY <1>1, <1>2 DEF Live
<1> QED  BY <1>3, <1>4 DEF ViewInv, Wired

LEMMA StepViews == ASSUME ClientInv, ViewInv, [ClientNext]_vars PROVE ViewInv'
<1>1. CASE UNCHANGED vars
  BY <1>1 DEF vars, ViewInv
<1>2. ASSUME NEW s \in Sockets,
             \/ Opened(s) \/ Receives(s) \/ Closed(s) \/ Fails(s) \/ Refused(s)
             \/ Leaves(s) \/ Handles(s) \/ Limited(s) \/ Resolves(s) \/ LookupFails(s)
             \/ Breaks(s)
      PROVE  ViewInv'
  BY <1>2, OpenedWires, ReceivesWires, ClosedWires, FailedWires, LeavesWires, HandlesWires,
     LimitedWires, ResolvesWires, ResolvesLateWires, LookupFailsWires, BreaksWires
<1>3. ASSUME RetryFires \/ Remount \/ Choose \/ MovesOn \/ Restart \/ Shutdown \/ Crash
      PROVE  ViewInv'
  BY <1>3, RetryFiresWires, RemountWires, ChooseWires, MovesOnWires, ReplacedWires
<1>4. CASE Expires
  <2>1. tab' = tab /\ sock' = sock /\ room' = room
    BY <1>4 DEF Expires
  <2> QED  BY <2>1 DEF ViewInv
<1> QED  BY <1>1, <1>2, <1>3, <1>4 DEF ClientNext

\* Snapshot, then stream (quiz-actor.ts, ws.ts:73-74, useQuizSocket.ts:93-159): of every socket that is
\* open and attached, the last frame under way about each part of the screen says it as
\* the session has it, or that part is right already; event numbers come in order.
THEOREM ClientKeepsView == ClientSpec => [](ClientInv /\ ViewInv)
<1>1. ClientInit => ClientInv /\ ViewInv
  BY InitInv, InitViews
<1>2. ClientInv /\ ViewInv /\ [ClientNext]_vars => (ClientInv /\ ViewInv)'
  BY StepInv, StepViews
<1> QED  BY <1>1, <1>2, PTL DEF ClientSpec

\* Who has read all that was sent sees the session as it is (useQuizSocket.ts:93-159), whatever
\* broke, restarted or was replaced before: its phase, question and number, the server's
\* user id, no result that counts but the question's, and no choice that neither counts,
\* nor is on its way, nor is said not to count (a rejection, or an error).
THEOREM ScreenIsTheSession == ClientSpec => []ViewIsTheSession
<1>1. ClientInv /\ ViewInv => ViewIsTheSession
  <2>1. SUFFICES ASSUME ClientInv, ViewInv, NEW s \in Sockets, InSync(s)
                 PROVE
        /\ tab.phase = room.phase /\ tab.question = Shown(room) /\ tab.seq = room.seq
        /\ tab.you = sock[s].userId
        /\ tab.result # None /\ tab.result.accepted /\ tab.question # None
              => tab.result.q = tab.question
        /\ tab.phase = "question" /\ tab.chosen =>
              \/ <<tab.you, tab.question>> \in room.answered
              \/ \E i \in DOMAIN sock[s].up : sock[s].up[i] = AnswerFrame(tab.question)
              \/ tab.result # None /\ ~tab.result.accepted
              \/ Complains(tab)
    BY DEF ViewIsTheSession
  <2>2. PICK x \in SockRecords : x = sock[s]
    BY <2>1 DEF ClientInv, SocksTyped
  <2>3. s \in room.attached /\ x.client = "open" /\ x.down = <<>>
    BY <2>1, <2>2 DEF InSync
  <2>4. Live(x)
    BY <2>3, EndedWhen DEF Live
  <2>5. Shows(x, tab, room)
    BY <2>1, <2>2, <2>3, <2>4 DEF ViewInv, Wired
  <2>6. \A S : Without(x.down, S)
    BY <2>3 DEF Without
  <2>7. /\ tab.phase = room.phase /\ tab.seq = room.seq /\ tab.question = Shown(room)
        /\ tab.you = x.userId /\ (tab.result = None \/ Judges(tab.result, room, x.userId))
        /\ ChoiceKept(x, tab, room)
    BY <2>5, <2>6 DEF Shows
  <2>8. tab \in TabRecords /\ room \in RoomRecords
    BY <2>1 DEF ClientInv, StateTyped
  <2>9. ASSUME tab.result # None, tab.result.accepted, tab.question # None
        PROVE  tab.result.q = tab.question
    BY <2>7, <2>9 DEF Judges
  <2>10. ASSUME tab.phase = "question", tab.chosen
         PROVE  \/ <<tab.you, tab.question>> \in room.answered
                \/ \E i \in DOMAIN sock[s].up : sock[s].up[i] = AnswerFrame(tab.question)
                \/ tab.result # None /\ ~tab.result.accepted
                \/ Complains(tab)
    <3>1. tab.question = room.question
      BY <2>7, <2>10 DEF Shown
    <3>2. tab.chosen = TRUE
      BY <2>8, <2>10 DEF TabRecords
    <3>3. \/ <<x.userId, room.question>> \in room.answered
          \/ \E i \in DOMAIN x.up : x.up[i] = AnswerFrame(room.question)
          \/ TurnedAway(tab)
      BY <2>3, <2>6, <2>7, <2>10, <3>2 DEF ChoiceKept
    <3> QED  BY <2>2, <2>7, <3>1, <3>3 DEF TurnedAway
  <2> QED  BY <2>2, <2>7, <2>9, <2>10
<1> QED  BY <1>1, ClientKeepsView, PTL
=============================================================================
