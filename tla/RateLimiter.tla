----------------------------- MODULE RateLimiter -----------------------------
(***************************************************************************)
(* The token bucket of one tenant (ratelimit/limiter.py), in memory or in  *)
(* Redis, where a script runs it for all gateway replicas and the key      *)
(* expires.  The tenant's API keys share it, each with a rate of its own   *)
(* (middleware/auth.py).                                                   *)
(*                                                                         *)
(* Time is the fastest replica's, in ticks.  A minute has Token ticks and  *)
(* a token Token units, so a key's rpm is the units it refills in a tick.  *)
(* A check reads its host's clock first and runs the script later, so the  *)
(* time it brings may lag: by what its host's clock is behind and by what  *)
(* the script was under way, at most MaxLag together.  Checks may run in   *)
(* another order than they read the time.  In memory (Expires FALSE,       *)
(* MaxLag 0) a check is one step of the event loop.                        *)
(***************************************************************************)
EXTENDS Integers

CONSTANTS
    Keys,        \* the API keys of the tenant
    KeyRpm,      \* rpm of each; 0 is none
    DefaultRpm,  \* default_rpm
    Burst,       \* burst; 0 is none
    Token,       \* ticks in a minute, units in a token
    Slowest,     \* bounds of the rates ...
    Fastest,
    Largest,     \* ... and of the capacities
    MaxLag,      \* how old the time of a check may be
    Expires,     \* whether the bucket is a Redis key that expires
    MaxBack,     \* bound: checks that set the time back, in each of two counts
    MaxTime      \* bound: the clock

\* rpm and capacity, as a check of key k computes them.
Rate(k) == IF KeyRpm[k] = 0 THEN DefaultRpm ELSE KeyRpm[k]
Capacity(k) == Token * (IF Burst = 0 THEN Rate(k) ELSE Burst)

\* The key expires 120 s after the last check.
KeyLife == 2 * Token

ASSUME RatesAssumption ==
    /\ Token \in Nat \ {0} /\ Slowest \in Nat /\ Fastest \in Nat /\ Largest \in Nat
    /\ Slowest <= Fastest
    /\ \A k \in Keys :
          /\ Rate(k) \in Slowest..Fastest
          /\ Capacity(k) \in Token..Largest
ASSUME TimesAssumption ==
    /\ MaxLag \in Nat /\ Expires \in BOOLEAN
    /\ MaxTime \in Nat /\ MaxBack \in Nat

VARIABLES
    known,      \* whether there is a bucket
    tokens,     \* its units; checks that lag may overdraw it
    ts,         \* the time it was filled to
    life,       \* ticks until its key expires
    clock,      \* the time
    last,       \* history: when a request was admitted last ...
    backLast,   \* ... and the checks that have set the time back since
    since,      \* history: when the count began ...
    backSince,  \* ... the checks that have set the time back since ...
    expired,    \* ... how often the key has expired since ...
    used        \* ... and the units admitted requests have used

vars == <<known, tokens, ts, life, clock, last, backLast, since, backSince, expired, used>>

Times == (clock - MaxLag)..clock

\* Mutant: the bucket overflows.
FilledOver(k, now) == IF known THEN tokens + Rate(k) * (now - ts) ELSE Capacity(k)

\* The bucket as a check of key k at the time now finds it; a new one is full.
Filled(k, now) ==
    LET level == tokens + Rate(k) * (now - ts)
    IN  IF known /\ level <= Capacity(k) THEN level ELSE Capacity(k)

-----------------------------------------------------------------------------

Init ==
    /\ known = FALSE
    /\ tokens = 0 /\ ts = 0 /\ life = 0
    /\ clock = 0 /\ last = 0 /\ backLast = 0
    /\ since = 0 /\ backSince = 0 /\ expired = 0 /\ used = 0

\* Whether a check at the time now sets the bucket's time back.
Back(now) == IF known /\ now < ts THEN 1 ELSE 0

\* Mutant: the life of the key runs from its creation.
StoredOnce(now) ==
    /\ known' = TRUE
    /\ ts' = now
    /\ life' = IF known THEN life ELSE KeyLife
    /\ backSince + Back(now) <= MaxBack
    /\ backSince' = backSince + Back(now)
    /\ UNCHANGED <<clock, since, expired>>

\* The bucket is written, and lives on from now.
Stored(now) ==
    /\ known' = TRUE
    /\ ts' = now
    /\ life' = KeyLife
    /\ backSince + Back(now) <= MaxBack
    /\ backSince' = backSince + Back(now)
    /\ UNCHANGED <<clock, since, expired>>

\* A check that admits its request.
Allow(k, now) ==
    /\ Filled(k, now) >= Token
    /\ tokens' = Filled(k, now) - Token
    /\ used' = used + Token
    /\ last' = clock /\ backLast' = 0
    /\ Stored(now)

\* Mutant: a refusal stores its time but not the refill.
RefuseForgets(k, now) ==
    /\ Filled(k, now) < Token
    /\ tokens' = tokens
    /\ backLast' = backLast + Back(now)
    /\ backLast' <= MaxBack
    /\ UNCHANGED <<used, last>>
    /\ Stored(now)

\* A check that refuses it: 429.  The refill is stored all the same.
Refuse(k, now) ==
    /\ Filled(k, now) < Token
    /\ tokens' = Filled(k, now)
    /\ backLast + Back(now) <= MaxBack
    /\ backLast' = backLast + Back(now)
    /\ UNCHANGED <<used, last>>
    /\ Stored(now)

\* Whether the key expires with the next tick.
Lapses == known /\ Expires /\ life <= 1

Tick ==
    /\ clock < MaxTime
    /\ clock' = clock + 1
    /\ life' = IF life > 0 THEN life - 1 ELSE 0
    /\ known' = (known /\ ~Lapses)
    /\ expired' = IF Lapses THEN expired + 1 ELSE expired
    /\ UNCHANGED <<tokens, ts, last, backLast, since, backSince, used>>

\* The count of admitted requests may begin at any time.
Mark ==
    /\ since' = clock /\ backSince' = 0 /\ expired' = 0
    /\ used' = 0
    /\ UNCHANGED <<known, tokens, ts, life, clock, last, backLast>>

Next ==
    \/ \E k \in Keys : \E now \in Times : Allow(k, now) \/ Refuse(k, now)
    \/ Tick
    \/ Mark

Spec == Init /\ [][Next]_vars

-----------------------------------------------------------------------------
(* Properties *)

\* What a check may win or lose that sets the time back: it takes the lag off
\* at its own key's rate, and the time is refilled later at another's.
Drift == (Fastest - Slowest) * MaxLag

\* Every variable has its type; only lag overdraws the bucket.
TypeOK ==
    /\ known \in BOOLEAN
    /\ tokens \in Int /\ tokens <= Largest
    /\ tokens >= -(Slowest * MaxLag) - Drift * backLast
    /\ ts \in Int /\ ts <= clock
    /\ life \in 0..KeyLife
    /\ clock \in 0..MaxTime /\ last \in 0..clock /\ since \in 0..clock
    /\ backLast \in 0..MaxBack /\ backSince \in 0..MaxBack
    /\ expired \in Nat /\ used \in Nat

\* What the tenant may gain when the key expires: what the fastest key would
\* not have refilled in the key's life, and the lag.  Nothing if that is long
\* enough, which limiter.py:80 takes for granted.
Forgiven ==
    LET short == Largest - Fastest * (KeyLife - MaxLag)
    IN  IF short > 0 THEN short ELSE 0

\* In no stretch of time, wherever it begins, are more requests admitted than
\* the bucket holds and the time refills for the fastest key, but for the lag
\* of the clocks, for what each check drifts that sets the time back, where
\* keys have different rates, and for what each expiry of the key forgives
\* (limiter.py:76-80): not after idle time, nor by scripts that run out of
\* order, nor by a bucket that is forgotten while requests come.
LimitHolds ==
    used <= Largest + Fastest * (clock - since + MaxLag)
                + Drift * backSince + Forgiven * expired

\* Refusals cost nothing: a request is refused only if one was admitted less
\* than a token's refill ago, at the slowest key's rate, however often keys of
\* the tenant asked in between, but for the drift.
RefusalsAreFree ==
    [][\A k \in Keys : \A now \in Times :
          Refuse(k, now) => Slowest * (now - last) < Token + Drift * backLast']_vars
=============================================================================
