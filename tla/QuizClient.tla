----------------------------- MODULE QuizClient -----------------------------
(***************************************************************************)
(* One player's browser and the sockets it opens to the server, end to     *)
(* end: the reducer and the reconnect loop of useQuizSocket.ts, the room   *)
(* that mounts it (QuizRoom.tsx), the handler of a socket (ws.ts), and as  *)
(* much of the session's actor as one player sees of it.  The other        *)
(* players are the reason why the session moves on at any time.            *)
(*                                                                         *)
(* A socket is the client's end, the server's end, and the frames between  *)
(* them, in order in each direction.  A close is the last frame of its     *)
(* direction.  Left out: ping and pong, leaderboards and the clock offset. *)
(***************************************************************************)
EXTENDS Integers, Sequences

CONSTANTS
    None,
    Account,        \* the user id `u_...' of the player's account
    NumQuestions,
    MayRestart,     \* may the session be restarted under its code?
    MayShutDown,    \* may its process shut down and another take it over?
    MaxUpsets,      \* bound: remounts, restarts, shutdowns, crashes, connections
                    \* that break or are refused, and failed lookups, together
    MaxChoices      \* bound: clicks on an answer

Sockets == 1..(1 + MaxUpsets)       \* another socket is made after an upset only
Runs == 1..(1 + MaxUpsets)
Questions == 0..(NumQuestions - 1)
Ids == Sockets \cup {Account}       \* a guest id is named for the socket that was given it

ASSUME ClientAssumption ==
    /\ NumQuestions \in Nat \ {0} /\ {MaxUpsets, MaxChoices} \subseteq Nat
    /\ MayRestart \in BOOLEAN /\ MayShutDown \in BOOLEAN
    /\ None \notin Int \cup {"connecting", "open", "closing", "closed"}
    /\ None \notin {"unauthorized", "internal", "not_joined", "lookup", "rate_limited"}
    /\ None \notin [t : {"answer_result"}, q : Questions, accepted : BOOLEAN]
    /\ Account \notin Int \cup {None}

VARIABLES
    disk,       \* localStorage: the remembered user id, and whether a token is there
    expired,    \* does the server refuse the token by now?
    tab,        \* the hook's state, its refs and the variables of its effect
    sock,
    room,       \* the session under the quiz's code
    upsets, choices

bounds == <<upsets, choices>>
vars == <<disk, expired, tab, sock, room, bounds>>

Phases == {"lobby", "question", "reveal", "finished"}
NoSocket == [client |-> None, up |-> <<>>, down |-> <<>>, server |-> None,
             joining |-> None, denied |-> FALSE,
             run |-> None, userId |-> None]

\* initialState, at a mount.
Blank ==
    [ref |-> None, retry |-> FALSE, fallback |-> FALSE,
     status |-> "connecting", error |-> None, you |-> None, phase |-> None,
     question |-> None, chosen |-> FALSE, result |-> None, seq |-> 0]

Opening(n) == [phase |-> "lobby", question |-> 0, seq |-> 0, run |-> n,
               players |-> {}, answered |-> {}, attached |-> {}]

\* connect: the next socket becomes wsRef.
NextSocket == CHOOSE s \in Sockets : sock[s].client = None
                    /\ \A r \in Sockets : sock[r].client = None => s <= r
Connect(t, ss) ==
    /\ \E s \in Sockets : ss[s].client = None
    /\ tab' = [t EXCEPT !.ref = NextSocket, !.retry = FALSE]
    /\ sock' = [ss EXCEPT ![NextSocket].client = "connecting"]

ClientInit ==
    /\ disk \in [id : {None, Account}, token : BOOLEAN]
    /\ expired = FALSE
    /\ sock = [s \in Sockets |->
                 IF s = 1 THEN [NoSocket EXCEPT !.client = "connecting"]
                 ELSE NoSocket]
    /\ tab = [Blank EXCEPT !.ref = 1]
    /\ room = Opening(1)
    /\ upsets = 0 /\ choices = 0

\* What is not in the ordinary course of a game.
Upset == upsets < MaxUpsets /\ upsets' = upsets + 1 /\ UNCHANGED choices

-----------------------------------------------------------------------------
\* The frames.
JoinFrame(id, token) == [t |-> "join", id |-> id, token |-> token]
AnswerFrame(q) == [t |-> "answer", q |-> q]
Leaving == [t |-> "close"]
Close(code) == [t |-> "close", code |-> code]
Error(code) == [t |-> "error", code |-> code]
Result(q, accepted) == [t |-> "answer_result", q |-> q, accepted |-> accepted]
Event(r) == [t |-> "event", phase |-> r.phase, question |-> r.question, seq |-> r.seq]
Shown(r) == IF r.phase \in {"question", "reveal"} THEN r.question ELSE None
Welcome(r, id) ==
    [t |-> "welcome", you |-> id, phase |-> r.phase, question |-> Shown(r), seq |-> r.seq]

\* Nothing follows a close; who has closed sends and hears nothing.
Ended(channel) == channel # <<>> /\ channel[Len(channel)].t = "close"
Put(channel, m) == IF Ended(channel) THEN channel ELSE Append(channel, m)
CloseOf(channel) == IF Ended(channel) THEN <<channel[Len(channel)]>> ELSE <<>>
Ask(ss, s, m) ==            \* client to server
    IF ss[s].server \in {"open", "closing"} THEN [ss EXCEPT ![s].up = Put(@, m)] ELSE ss
Say(ss, s, m) ==            \* server to client
    IF ss[s].server = "open" /\ ss[s].client = "open"
    THEN [ss EXCEPT ![s].down = Put(@, m)] ELSE ss
\* The same frame to each of these.
ToEach(ss, m, to) == [s \in Sockets |-> IF s \in to THEN Say(ss, s, m)[s] ELSE ss[s]]
\* A join that is turned down.
Deny(ss, s, code) == Say([ss EXCEPT ![s].denied = TRUE], s, Error(code))

-----------------------------------------------------------------------------
\* The hook.
KeepsChoice(t, m) ==        \* mutant: a reconnect keeps the choice
    [t EXCEPT !.error = None, !.you = m.you, !.phase = m.phase, !.question = m.question,
              !.result = None, !.seq = m.seq]
Welcomed(t, m) ==
    [t EXCEPT !.error = IF t.fallback THEN "login_expired" ELSE None,
              !.you = m.you, !.phase = m.phase, !.question = m.question,
              !.chosen = FALSE, !.result = None, !.seq = m.seq]

\* applyServer, for the broadcasts.
Applied(t, m) ==
    IF m.seq < t.seq THEN t
    ELSE CASE m.phase \in {"lobby", "reveal"} -> [t EXCEPT !.phase = m.phase, !.seq = m.seq]
           [] m.phase = "question" ->
                [t EXCEPT !.phase = "question", !.question = m.question,
                          !.chosen = FALSE, !.result = None, !.seq = m.seq]
           [] m.phase = "finished" ->
                [t EXCEPT !.phase = "finished", !.question = None, !.seq = m.seq]

\* Who the join says we are: an account id without a token is not sent.
Forgetful == None               \* mutant: the stored id is never sent
Remembered == IF disk.id = Account /\ ~disk.token THEN None ELSE disk.id

\* saveSession(null)
LoggedOut == [disk EXCEPT !.token = FALSE]

\* onopen
Opened(s) ==
    /\ sock[s].client = "connecting"
    /\ sock' = [sock EXCEPT ![s].client = "open", ![s].server = "open",
                            ![s].up = <<JoinFrame(Remembered, disk.token)>>]
    /\ tab' = [tab EXCEPT !.status = "open"]
    /\ UNCHANGED <<disk, expired, room, bounds>>

\* onmessage, for a socket that is open: a closing one delivers nothing.
Receives(s) ==
    /\ sock[s].client = "open" /\ sock[s].down # <<>>
    /\ Head(sock[s].down).t # "close"
    /\ LET m == Head(sock[s].down)
           read == [sock EXCEPT ![s].down = Tail(@)]
           refused == m = Error("unauthorized") /\ ~tab.fallback
       IN  /\ tab' = CASE refused -> [tab EXCEPT !.fallback = TRUE]
                       [] m.t = "welcome" -> Welcomed(tab, m)
                       [] m.t = "event" -> Applied(tab, m)
                       [] m.t = "answer_result" -> [tab EXCEPT !.result = m]
                       [] m.t = "error" /\ ~refused -> [tab EXCEPT !.error = m.code]
           /\ sock' = IF refused
                      THEN Ask(read, s, JoinFrame(None, FALSE)) ELSE read
           /\ disk' = CASE refused -> LoggedOut
                        [] m.t = "welcome" -> [disk EXCEPT !.id = m.you]
                        [] OTHER -> disk
    /\ UNCHANGED <<expired, room, bounds>>

\* onclose of the socket s, with code.  A socket of an earlier mount is stale.
NoRetry(t, s, code) ==          \* mutant: 1012 and 1006 end it like 1001
    IF t.ref # s THEN t
    ELSE [t EXCEPT !.ref = None, !.status = IF code = 1001 THEN "closed" ELSE "reconnecting",
                   !.error = IF code = 1001 THEN "closed" ELSE @]
NotStale(t, s, code) ==         \* mutant: no stale(); closedIntentionally was set
    IF t.ref # s THEN [t EXCEPT !.ref = None, !.status = "closed"]
    ELSE IF code = 1001 THEN [t EXCEPT !.ref = None, !.status = "closed", !.error = "closed"]
    ELSE [t EXCEPT !.ref = None, !.status = "reconnecting", !.retry = TRUE]
OnClose(t, s, code) ==
    IF t.ref # s THEN t
    ELSE IF code = 1001 THEN [t EXCEPT !.ref = None, !.status = "closed", !.error = "closed"]
    ELSE [t EXCEPT !.ref = None, !.status = "reconnecting", !.retry = TRUE]

\* The server's close, or the end of a connection that was cut, arrives: the
\* server's end learns of it in turn.
Closed(s) ==
    /\ sock[s].down # <<>> /\ Head(sock[s].down).t = "close"
    /\ tab' = OnClose(tab, s, Head(sock[s].down).code)
    /\ sock' = Ask([sock EXCEPT ![s].client = "closed", ![s].down = <<>>], s, Leaving)
    /\ UNCHANGED <<disk, expired, room, bounds>>

\* A socket that was closed before it opened fails.
Fails(s) ==
    /\ sock[s].client = "closing" /\ sock[s].server = None
    /\ tab' = OnClose(tab, s, 1006)
    /\ sock' = [sock EXCEPT ![s].client = "closed"]
    /\ UNCHANGED <<disk, expired, room, bounds>>

Refused(s) ==
    /\ sock[s].client = "connecting"
    /\ tab' = OnClose(tab, s, 1006)
    /\ sock' = [sock EXCEPT ![s].client = "closed"]
    /\ Upset
    /\ UNCHANGED <<disk, expired, room>>

RetryFires ==
    /\ tab.retry
    /\ Connect(tab, sock)
    /\ UNCHANGED <<disk, expired, room, bounds>>

\* The cleanup of the effect, and a new mount: "Play again", a reload, or the
\* second of StrictMode's two mounts.
Remount ==
    /\ Upset
    /\ LET s == tab.ref
           left == IF s = None THEN sock
                   ELSE Ask([sock EXCEPT ![s].client = "closing", ![s].down = CloseOf(@)],
                            s, Leaving)
       IN  Connect(Blank, left)
    /\ UNCHANGED <<disk, expired, room>>

\* answer
Choose ==
    /\ choices < MaxChoices
    /\ tab.ref # None /\ tab.phase = "question" /\ tab.question # None /\ ~tab.chosen
    /\ sock[tab.ref].client = "open"
    /\ tab' = [tab EXCEPT !.chosen = TRUE]
    /\ sock' = Ask(sock, tab.ref, AnswerFrame(tab.question))
    /\ choices' = choices + 1
    /\ UNCHANGED <<disk, expired, room, upsets>>

-----------------------------------------------------------------------------
\* The handler of a socket.  Frames that have arrived behind a join that awaits
\* its session (the chain `queue') are still in `up'.

\* onClose, as soon as it arrives: what the chain still holds finds no conn.
Leaves(s) ==
    /\ sock[s].up # <<>> /\ sock[s].up[Len(sock[s].up)] = Leaving
    /\ Len(sock[s].up) = 1 \/ sock[s].joining # None
    /\ sock' = [sock EXCEPT
                  ![s].server = "closed", ![s].up = <<>>, ![s].run = None, ![s].userId = None,
                  ![s].down = IF sock[s].client = "closing" THEN Put(sock[s].down, Close(1000))
                              ELSE sock[s].down]
    /\ room' = [room EXCEPT !.attached = @ \ {s}]
    /\ UNCHANGED <<disk, expired, tab, bounds>>

Gone(s) == sock[s].server = "closed"        \* conn is null

\* The identity a join asks for, None if it is refused.
Identity(s, m) ==
    CASE m.token -> IF expired THEN None ELSE Account
      [] ~m.token /\ m.id = Account -> None
      [] OTHER -> IF m.id = None THEN s ELSE m.id

\* actor.answer.  The first answer to the question that is on counts, unless it is past
\* the limit and the grace though the tick is still to come (`too_late'); the result
\* goes to every connection of the user.
AnswerHandled(s, m, read) ==
    LET id == sock[s].userId
        counts == room.phase = "question" /\ m.q = room.question
                     /\ <<id, m.q>> \notin room.answered
        his == {c \in room.attached : sock[c].userId = id}
    IN  CASE sock[s].run = None \/ sock[s].userId = None ->
                sock' = Say(read, s, Error("not_joined")) /\ UNCHANGED room
          [] sock[s].run # None /\ sock[s].userId # None /\ sock[s].run # room.run ->
                sock' = Say(read, s, Error("internal")) /\ UNCHANGED room  \* disposed
          [] OTHER -> \E accepted \in {counts, FALSE} :
                /\ sock' = ToEach(read, Result(m.q, accepted), his)
                /\ room' = IF accepted THEN [room EXCEPT !.answered = @ \cup {<<id, m.q>>}]
                           ELSE room

\* The next frame is handled, a join up to its await.
NoChain(s) == FALSE         \* mutant: a frame does not wait for the one before it
Waits(s) == sock[s].joining # None
Handles(s) ==
    /\ sock[s].up # <<>> /\ Head(sock[s].up) # Leaving /\ ~Waits(s)
    /\ LET m == Head(sock[s].up)
           read == [sock EXCEPT ![s].up = Tail(@)]
       IN  CASE m.t = "join" ->
                  /\ sock' = IF Identity(s, m) = None THEN Deny(read, s, "unauthorized")
                             ELSE [read EXCEPT ![s].joining = Identity(s, m)]
                  /\ UNCHANGED room
             [] m.t = "answer" -> AnswerHandled(s, m, read)
    /\ UNCHANGED <<disk, expired, tab, bounds>>

\* The token bucket of onMessage is empty when an answer arrives, behind a join that
\* awaits its session or not: it is dropped.  The joins of a socket are among its first
\* frames, for which the bucket was filled.
Limited(s) ==
    /\ sock[s].up # <<>> /\ Head(sock[s].up).t = "answer"
    /\ sock' = Say([sock EXCEPT ![s].up = Tail(@)], s, Error("rate_limited"))
    /\ UNCHANGED <<disk, expired, tab, room, bounds>>

\* resolveForJoin returns and the actor takes the connection: the welcome, then
\* the lobby's opening if this is its first player.
Resolves(s) ==
    /\ sock[s].joining # None
    /\ LET id == sock[s].joining
           done == [sock EXCEPT ![s].joining = None]
           opens == room.phase = "lobby" /\ room.players = {}
           joined == [room EXCEPT !.players = @ \cup {id}, !.attached = @ \cup {s}]
           after == [joined EXCEPT !.seq = IF opens THEN @ + 1 ELSE @]
           seated == Say([done EXCEPT ![s].run = room.run, ![s].userId = id], s,
                         Welcome(joined, id))
       IN  IF Gone(s) THEN sock' = done /\ UNCHANGED room
           ELSE /\ room' = after
                /\ sock' = IF opens THEN ToEach(seated, Event(after), after.attached) ELSE seated
    /\ UNCHANGED <<disk, expired, tab, bounds>>

\* quiz_not_found, or Redis fails
LookupFails(s) ==
    /\ sock[s].joining # None
    /\ sock' = Deny([sock EXCEPT ![s].joining = None], s, "lookup")
    /\ Upset
    /\ UNCHANGED <<disk, expired, tab, room>>

-----------------------------------------------------------------------------
\* The session moves on; its lobby waits for a player.
MovesOn ==
    /\ room.phase # "finished" /\ (room.phase = "lobby" => room.players # {})
    /\ LET next == CASE room.phase = "lobby" -> [room EXCEPT !.phase = "question"]
                     [] room.phase = "question" -> [room EXCEPT !.phase = "reveal"]
                     [] room.phase = "reveal" ->
                          IF room.question + 1 < NumQuestions
                          THEN [room EXCEPT !.phase = "question", !.question = @ + 1]
                          ELSE [room EXCEPT !.phase = "finished"]
       IN  /\ room' = [next EXCEPT !.seq = @ + 1]
           /\ sock' = ToEach(sock, Event(room'), room.attached)
    /\ UNCHANGED <<disk, expired, tab, bounds>>

\* actor.dispose: the connections are closed with 1001.
Dismissed(ss, who) ==
    [s \in Sockets |->
        IF s \in who THEN [Say(ss, s, Close(1001))[s] EXCEPT !.server =
                              IF @ = "open" THEN "closing" ELSE @]
        ELSE ss[s]]
\* The process is gone: what it had open is cut.
Cut(ss, who) ==
    [s \in Sockets |->
        IF s \in who /\ ss[s].server \in {"open", "closing"}
        THEN [ss[s] EXCEPT !.server = "closed", !.joining = None, !.run = None,
                !.userId = None, !.up = <<>>,
                !.down = IF ss[s].client \in {"open", "closing"} THEN Put(@, Close(1006))
                         ELSE @]
        ELSE ss[s]]

Restart ==
    /\ MayRestart
    /\ Upset
    /\ room' = Opening(room.run + 1)
    /\ sock' = Dismissed(sock, room.attached)
    /\ UNCHANGED <<disk, expired, tab>>

\* server.close, and another process takes the session over.
Shutdown ==
    /\ MayShutDown
    /\ Upset
    /\ room' = Opening(room.run + 1)
    /\ sock' = Cut(Dismissed(sock, room.attached), Sockets)
    /\ UNCHANGED <<disk, expired, tab>>

Crash ==
    /\ Upset
    /\ room' = Opening(room.run + 1)
    /\ sock' = Cut(sock, Sockets)
    /\ UNCHANGED <<disk, expired, tab>>

\* A connection breaks; frames under way are lost, both ends learn of it later,
\* the server's by its heartbeat at the latest.
Breaks(s) ==
    /\ sock[s].client = "open"
    /\ Upset
    /\ sock' = Ask([sock EXCEPT ![s].down = <<Close(1006)>>, ![s].up = <<>>], s, Leaving)
    /\ UNCHANGED <<disk, expired, tab, room>>

\* verify's `exp', or a server that has another AUTH_SECRET
Expires ==
    /\ disk.token /\ ~expired
    /\ expired' = TRUE
    /\ UNCHANGED <<disk, tab, sock, room, bounds>>

ClientNext ==
    \/ \E s \in Sockets :
          \/ Opened(s) \/ Receives(s) \/ Closed(s) \/ Fails(s) \/ Refused(s)
          \/ Leaves(s) \/ Handles(s) \/ Limited(s) \/ Resolves(s) \/ LookupFails(s)
          \/ Breaks(s)
    \/ RetryFires \/ Remount \/ Choose
    \/ MovesOn \/ Restart \/ Shutdown \/ Crash \/ Expires

ClientSpec == ClientInit /\ [][ClientNext]_vars

\* The network delivers, the event loops run, and timers fire.
Working ==
    \/ RetryFires
    \/ \E s \in Sockets : Opened(s) \/ Receives(s) \/ Closed(s) \/ Fails(s)
                            \/ Leaves(s) \/ Handles(s) \/ Resolves(s)
FairClientSpec == ClientSpec /\ WF_vars(Working)

-----------------------------------------------------------------------------
\* Types of the state, and wsRef: it is the one socket of the mount that is not
\* closed, or there is none and the status and the timer say so
\* (useQuizSocket.ts:188-192).
ClientTypeOK ==
    /\ disk \in [id : Ids \cup {None}, token : BOOLEAN] /\ expired \in BOOLEAN
    /\ tab.phase \in Phases \cup {None} /\ tab.question \in Questions \cup {None}
    /\ tab.you \in Ids \cup {None}
    /\ room.run \in Runs /\ room.phase \in Phases /\ room.players \subseteq Ids
    /\ room.attached \subseteq Sockets /\ room.answered \subseteq Ids \X Questions
    /\ \A s \in Sockets :
          /\ sock[s].client \in {None, "connecting", "open", "closing", "closed"}
          /\ sock[s].server \in {None, "open", "closing", "closed"}
          /\ sock[s].client \in {"connecting", "open"} => tab.ref = s
    /\ tab.ref = None <=> tab.status = "closed" \/ tab.retry
    /\ tab.ref # None => sock[tab.ref].client \in {"connecting", "open"}

\* Has s, the socket of the tab, been told all there is to tell?
InSync(s) ==
    s = tab.ref /\ s \in room.attached /\ sock[s].client = "open" /\ sock[s].down = <<>>

\* The screen says why a frame of the player's came to nothing.
Complains(t) == t.error \notin {None, "login_expired"}

\* Snapshot, then stream, whatever connections broke and sessions were replaced
\* before: a player who has been sent everything sees the session as it is, under
\* the server's user id.  A result that counted an answer is shown with the question it
\* is for (one that did not may be shown with the next question: nothing in
\* useQuizSocket.ts:132 compares them).  A choice that shows as made is with the server,
\* on its way or on record, or the screen says that it was not counted: one that was
\* lost without a word can be made again.
ViewIsTheSession ==
    \A s \in Sockets : InSync(s) =>
        /\ tab.phase = room.phase /\ tab.question = Shown(room) /\ tab.seq = room.seq
        /\ tab.you = sock[s].userId
        /\ tab.result # None /\ tab.result.accepted /\ tab.question # None
              => tab.result.q = tab.question
        /\ tab.phase = "question" /\ tab.chosen =>
              \/ <<tab.you, tab.question>> \in room.answered
              \/ \E i \in DOMAIN sock[s].up : sock[s].up[i] = AnswerFrame(tab.question)
              \/ tab.result # None /\ ~tab.result.accepted
              \/ Complains(tab)

\* An answer never overtakes the join that precedes it (ws.ts:73-74): `not_joined'
\* is said only after a join of that socket was turned down.
AnswerFollowsJoin ==
    \A s \in Sockets :
        (\E i \in DOMAIN sock[s].down : sock[s].down[i] = Error("not_joined"))
            => sock[s].denied

\* A reload or a reconnect keeps the player and the score (useQuizSocket.ts:8-9):
\* once told a guest id, the browser is never told another; an account's gives way
\* only to a login that has lapsed.
IdentityKept ==
    [][disk.id # None /\ disk'.id # disk.id
            => \/ disk'.id = Account
               \/ disk.id = Account /\ (expired \/ ~disk.token)]_vars

\* Whatever breaks, the player gets back into the session, is told that the round
\* was closed, or is shown what the last frame that was turned down came to: nobody stares at "Reconnecting".
Seated ==
    /\ tab.status = "open" /\ tab.ref \in room.attached
    /\ tab.you = sock[tab.ref].userId
ToldWhy == tab.error \in IF tab.status = "closed" THEN {"closed"} ELSE {"lookup", "not_joined", "rate_limited"}
NeverStuck == []<>(Seated \/ ToldWhy)

\* After a shutdown clients reconnect (docs/DESIGN.md, 8.3).
ClosedTabReturns == tab.status = "closed" ~> Seated
=============================================================================
