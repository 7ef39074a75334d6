----------------------------- MODULE RateLimit -----------------------------
(***************************************************************************)
(* transport/rate-limit.ts: the token bucket each socket has.  Tokens are  *)
(* counted in thousandths, which makes elapsed milliseconds times the rate *)
(* per second exact where the source divides by 1000 in floating point.    *)
(* The time a frame comes at is any reading of the wall clock, which may   *)
(* be set back.                                                            *)
(***************************************************************************)
EXTENDS Integers, TLAPS

CONSTANTS
    RatePerSec,     \* WS_RATE_LIMIT_PER_SEC
    Burst,          \* WS_RATE_LIMIT_BURST
    Opened          \* the clock when the socket was opened

VARIABLES
    tokens, last,   \* the fields of TokenBucket
    accepted,       \* frames let through
    setBack         \* by how much the clock was set back, in all

rateVars == <<tokens, last, accepted, setBack>>

Token == 1000
Positive(n) == IF n > 0 THEN n ELSE 0

RateInit == tokens = Token * Burst /\ last = Opened /\ accepted = 0 /\ setBack = 0

\* The tokens there are at time now.
Refilled(now) ==
    LET t == tokens + Positive(now - last) * RatePerSec
    IN  IF t > Token * Burst THEN Token * Burst ELSE t

Take(now) ==
    /\ last' = now
    /\ setBack' = setBack + Positive(last - now)
    /\ \/ /\ Refilled(now) < Token
          /\ tokens' = Refilled(now) /\ UNCHANGED accepted
       \/ /\ Refilled(now) >= Token
          /\ tokens' = Refilled(now) - Token /\ accepted' = accepted + 1

RateNext == \E now \in Int : Take(now)
RateSpec == RateInit /\ [][RateNext]_rateVars

-----------------------------------------------------------------------------
TokensInBucket == tokens \in 0..Token * Burst
Frames ==
    last \in Int /\ setBack \in Nat /\ accepted \in Nat

\* What a connection is let through is bounded by the burst, and the rate over what
\* its clock ran forward: how far it is from when the socket was opened, and how far
\* it was set back in between.
RateBounded ==
    Token * accepted + tokens <= Token * Burst + RatePerSec * (last - Opened + setBack)

LEMMA Distributes ==
    ASSUME NEW a \in Int, NEW b \in Int, NEW c \in Int
    PROVE  a * (b + c) = a * b + c * a
BY SMT

LEMMA TakeKeeps ==
    ASSUME RatePerSec \in Nat, Burst \in Nat, Opened \in Int,
           TokensInBucket, Frames, RateBounded, NEW now \in Int, Take(now)
    PROVE  TokensInBucket' /\ Frames' /\ RateBounded'
<1> DEFINE gain == Positive(now - last)
           lost == Positive(last - now)
           span == last - Opened + setBack
<1>1. /\ gain \in Nat /\ lost \in Nat /\ now - last + lost = gain
      /\ span \in Int /\ last' - Opened + setBack' = span + gain
  BY DEF Positive, Frames, Take
<1>2. gain * RatePerSec \in Nat /\ RatePerSec * span \in Int
  BY <1>1
<1>3. RatePerSec * (span + gain) = RatePerSec * span + gain * RatePerSec
  BY <1>1, Distributes
<1>4. RatePerSec * (last' - Opened + setBack') = RatePerSec * span + gain * RatePerSec
  BY <1>1, <1>3
<1>5. Token * accepted + tokens <= Token * Burst + RatePerSec * span
  BY DEF RateBounded
<1>6. Refilled(now) \in 0..Token * Burst /\ Refilled(now) <= tokens + gain * RatePerSec
  BY <1>2 DEF Refilled, TokensInBucket, Token
<1> HIDE DEF gain, span
<1>7. CASE Refilled(now) < Token /\ tokens' = Refilled(now) /\ UNCHANGED accepted
  BY <1>1, <1>2, <1>4, <1>5, <1>6, <1>7 DEF TokensInBucket, Frames, RateBounded, Token, Take
<1>8. CASE Refilled(now) >= Token /\ tokens' = Refilled(now) - Token /\ accepted' = accepted + 1
  BY <1>1, <1>2, <1>4, <1>5, <1>6, <1>8 DEF TokensInBucket, Frames, RateBounded, Token, Take
<1> QED  BY <1>7, <1>8 DEF Take

\* The limit of transport/rate-limit.ts for every rate, burst and clock: the
\* bucket never holds more than the burst nor less than nothing, and the frames let
\* through are bounded by it and by the time gone by.
THEOREM RateLimited ==
    ASSUME RatePerSec \in Nat, Burst \in Nat, Opened \in Int
    PROVE  RateSpec => [](TokensInBucket /\ RateBounded)
<1> DEFINE Inv == TokensInBucket /\ Frames /\ RateBounded
<1>1. RateInit => Inv
  <2>1. SUFFICES ASSUME RateInit PROVE Inv
    OBVIOUS
  <2>2. RatePerSec * (last - Opened + setBack) = 0
    <3>1. last - Opened + setBack = 0
      BY <2>1 DEF RateInit
    <3> QED  BY <3>1
  <2> QED  BY <2>1, <2>2 DEF RateInit, TokensInBucket, Frames, RateBounded, Token
<1>2. Inv /\ [RateNext]_rateVars => Inv'
  <2>1. SUFFICES ASSUME Inv, [RateNext]_rateVars PROVE Inv'
    OBVIOUS
  <2>2. CASE RateNext
    BY <2>1, <2>2, TakeKeeps DEF RateNext
  <2>3. CASE UNCHANGED rateVars
    BY <2>1, <2>3 DEF rateVars, TokensInBucket, Frames, RateBounded
  <2> QED  BY <2>1, <2>2, <2>3
<1> QED  BY <1>1, <1>2, PTL DEF RateSpec
=============================================================================
