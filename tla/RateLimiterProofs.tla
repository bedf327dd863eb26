-------------------------- MODULE RateLimiterProofs --------------------------
(***************************************************************************)
(* Proofs about RateLimiter, for every set of keys and rates, every        *)
(* capacity, token and lag.                                                *)
(***************************************************************************)
EXTENDS RateLimiter, TLAPS

LEMMA Constants ==
    /\ Token \in Nat \ {0} /\ Slowest \in Nat /\ Fastest \in Nat /\ Largest \in Nat
    /\ Slowest <= Fastest
    /\ MaxLag \in Nat /\ KeyLife \in Nat \ {0} /\ MaxTime \in Nat /\ MaxBack \in Nat
    /\ \A k \in Keys : Slowest <= Rate(k) /\ Rate(k) <= Fastest /\ Rate(k) \in Nat
    /\ \A k \in Keys : Token <= Capacity(k) /\ Capacity(k) <= Largest /\ Capacity(k) \in Nat
  BY RatesAssumption, TimesAssumption DEF KeyLife

LEMMA ProductType == ASSUME NEW a \in Int, NEW b \in Int PROVE a * b \in Int
  OBVIOUS

LEMMA ProductNat == ASSUME NEW a \in Nat, NEW b \in Nat PROVE a * b \in Nat
  OBVIOUS

\* A longer time at the same rate, and the same time at a higher one.
LEMMA Monotone ==
    ASSUME NEW a \in Nat, NEW b \in Int, NEW c \in Int, b <= c
    PROVE  a * b <= a * c
  <1>1. (c - b) \in Nat
    OBVIOUS
  <1>2. a * (c - b) \in Nat
    BY <1>1, ProductNat
  <1>3. a * (c - b) = a * c - a * b
    OBVIOUS
  <1> QED BY <1>2, <1>3, ProductType

LEMMA Distribute ==
    ASSUME NEW a \in Int, NEW b \in Int, NEW c \in Int
    PROVE  /\ a * (b - c) = a * b - a * c /\ (b - c) * a = a * b - a * c
           /\ a * (b + c) = a * b + a * c
           /\ a * b \in Int /\ a * c \in Int
  OBVIOUS

LEMMA DriftType == Drift \in Int
  BY Constants, ProductType DEF Drift

LEMMA DriftNat == Drift \in Nat
  <1>1. Fastest - Slowest \in Nat
    BY Constants
  <1> QED BY <1>1, Constants, ProductNat DEF Drift

-----------------------------------------------------------------------------
(* What a check finds *)

LevelAt(k, now) == tokens + Rate(k) * (now - ts)

LEMMA FilledType ==
    ASSUME TypeOK, NEW k \in Keys, NEW now \in Times
    PROVE  /\ now \in Int /\ now <= clock /\ now >= clock - MaxLag
           /\ LevelAt(k, now) \in Int
           /\ Filled(k, now) \in Int /\ Filled(k, now) <= Largest
           /\ known => Filled(k, now) <= LevelAt(k, now)
           /\ ~known => Filled(k, now) = Capacity(k)
           /\ Filled(k, now) < Token => known /\ Filled(k, now) = LevelAt(k, now)
  <1>1. clock \in Int /\ tokens \in Int /\ ts \in Int
    BY DEF TypeOK
  <1>2. now \in Int /\ now <= clock /\ now >= clock - MaxLag
    BY <1>1, Constants DEF Times
  <1>3. Rate(k) * (now - ts) \in Int
    BY <1>1, <1>2, Constants, ProductType
  <1> HIDE DEF Rate, Capacity
  <1> QED BY <1>1, <1>2, <1>3, Constants DEF Filled, LevelAt

LEMMA BackType == ASSUME NEW now PROVE Back(now) \in {0, 1}
  BY DEF Back

\* The level moves with the time; what it gains or loses on the way at the
\* fastest or the slowest rate is the drift at most, for a check that sets the
\* time back, and nothing for any other.
LEMMA Drifts ==
    ASSUME TypeOK, known, NEW k \in Keys, NEW now \in Times
    PROVE  /\ LevelAt(k, now) - Fastest * now <= tokens - Fastest * ts + Drift * Back(now)
           /\ LevelAt(k, now) - Slowest * now >= tokens - Slowest * ts - Drift * Back(now)
           /\ Fastest * now \in Int /\ Fastest * ts \in Int
           /\ Slowest * now \in Int /\ Slowest * ts \in Int
           /\ Drift * Back(now) \in Int
  <1> DEFINE r == Rate(k)
  <1>1. /\ now \in Int /\ ts \in Int /\ tokens \in Int /\ clock \in Int
        /\ ts <= clock /\ now >= clock - MaxLag
    BY FilledType DEF TypeOK
  <1>2. r \in Nat /\ Slowest <= r /\ r <= Fastest
    BY Constants
  <1> HIDE DEF r
  <1>3. /\ Fastest * now \in Int /\ Fastest * ts \in Int /\ Slowest * now \in Int
        /\ Slowest * ts \in Int /\ Drift * Back(now) \in Int
    BY <1>1, Constants, ProductType, DriftType, BackType
  <1>4. CASE now >= ts
    <2>1. Drift * Back(now) = 0
      BY <1>1, <1>4, DriftType DEF Back
    <2>2. (now - ts) \in Nat
      BY <1>1, <1>4
    <2>3. (now - ts) * r <= (now - ts) * Fastest /\ (now - ts) * Slowest <= (now - ts) * r
      BY <1>2, <2>2, Constants, Monotone
    <2>4. /\ (now - ts) * Fastest = Fastest * now - Fastest * ts
          /\ (now - ts) * Slowest = Slowest * now - Slowest * ts
      BY <1>1, Constants, Distribute
    <2>5. (now - ts) * r = r * (now - ts) /\ r * (now - ts) \in Int
      BY <1>1, <1>2
    <2> QED BY <1>1, <1>3, <2>1, <2>3, <2>4, <2>5 DEF LevelAt, r
  <1>5. CASE now < ts
    <2>1. Drift * Back(now) = Drift
      BY <1>1, <1>5, DriftType DEF Back
    <2> DEFINE d == ts - now
    <2>2. d \in Nat /\ d <= MaxLag
      BY <1>1, <1>5, Constants
    <2>3. d * r <= d * Fastest /\ d * Slowest <= d * r
      BY <1>2, <2>2, Constants, Monotone
    <2>4. (Fastest - Slowest) * d <= Drift
      <3>1. Fastest - Slowest \in Nat
        BY <1>2, Constants
      <3> QED BY <2>2, <3>1, Constants, Monotone DEF Drift
    <2>5. (Fastest - Slowest) * d = d * Fastest - d * Slowest /\ d * Fastest \in Int /\ d * Slowest \in Int
      BY <2>2, Constants, Distribute
    <2>6. /\ d * Fastest = Fastest * ts - Fastest * now
          /\ d * Slowest = Slowest * ts - Slowest * now
      BY <1>1, Constants, Distribute
    <2>7. r * (now - ts) = -(d * r) /\ d * r \in Int
      BY <1>1, <1>2
    <2> HIDE DEF d
    <2> QED BY <1>1, <1>3, <2>1, <2>3, <2>4, <2>5, <2>6, <2>7, DriftType DEF LevelAt, r
  <1> QED BY <1>1, <1>3, <1>4, <1>5

-----------------------------------------------------------------------------
(* The type, and refusals *)

\* Why a bucket is never overdrawn by more than the lag, and why refusals are
\* free: the level of the bucket, taken to the present, covers the time since
\* the last admission.  A check moves the level and its time together; only
\* an admission, or a full bucket, sets it back.
Level ==
    /\ known => tokens - Slowest * ts >= -(Slowest * last) - Drift * backLast
    /\ known => ts >= last - MaxLag
    /\ known /\ Expires => clock - last >= KeyLife - life
    /\ expired # 0 => Expires

SafeInv == TypeOK /\ Level

LEMMA InitSafe == Init => SafeInv
  <1> SUFFICES ASSUME Init PROVE SafeInv
    OBVIOUS
  <1>1. ~known /\ known \in BOOLEAN
    BY DEF Init
  <1>2. /\ tokens = 0 /\ ts = 0 /\ life = 0 /\ backLast = 0 /\ backSince = 0
        /\ clock = 0 /\ last = 0 /\ since = 0 /\ expired = 0 /\ used = 0
    BY DEF Init
  <1>3. Slowest * MaxLag \in Nat /\ Drift * backLast = 0
    BY <1>2, Constants, ProductNat, DriftType
  <1>4. TypeOK
    BY <1>1, <1>2, <1>3, Constants DEF TypeOK
  <1> QED BY <1>1, <1>2, <1>4 DEF SafeInv, Level

LEMMA SafeStep == SafeInv /\ [Next]_vars => SafeInv'
  <1> SUFFICES ASSUME SafeInv, [Next]_vars PROVE SafeInv'
    OBVIOUS
  <1>0. /\ clock \in 0..MaxTime /\ since \in 0..clock /\ expired \in Nat /\ used \in Nat
        /\ backLast \in 0..MaxBack /\ backSince \in 0..MaxBack
        /\ last \in 0..clock /\ tokens \in Int /\ ts \in Int
    BY DEF SafeInv, TypeOK
  <1>1. ASSUME NEW k \in Keys, NEW now \in Times, Allow(k, now) PROVE SafeInv'
    <2>1. /\ now \in Int /\ now <= clock /\ now >= clock - MaxLag
          /\ Filled(k, now) \in Int /\ Filled(k, now) <= Largest
      BY FilledType DEF SafeInv
    <2>2. /\ Filled(k, now) >= Token /\ tokens' = Filled(k, now) - Token
          /\ used' = used + Token /\ last' = clock /\ backLast' = 0
          /\ known' = TRUE /\ ts' = now /\ life' = KeyLife
          /\ backSince' = backSince + Back(now) /\ backSince' <= MaxBack
          /\ clock' = clock /\ since' = since /\ expired' = expired
      BY <1>1 DEF Allow, Stored
    <2>3. Drift * backLast' = 0 /\ Drift' = Drift /\ Slowest * MaxLag \in Nat
      BY <2>2, Constants, DriftType, ProductNat DEF Drift
    <2>4. TypeOK'
      <3>1. backSince' \in 0..MaxBack
        BY <1>0, <2>2, BackType
      <3>2. tokens' \in Nat /\ tokens' <= Largest
        BY <2>1, <2>2, Constants
      <3>3. tokens' >= -(Slowest * MaxLag) - Drift' * backLast'
        BY <2>3, <3>2
      <3> QED BY <1>0, <2>1, <2>2, <3>1, <3>2, <3>3, Constants DEF TypeOK
    <2>5. Slowest * ts' <= Slowest * last' /\ Slowest * ts' \in Int /\ Slowest * last' \in Int
      BY <1>0, <2>1, <2>2, Constants, Monotone, ProductType
    <2>6. Level'
      BY <1>0, <2>1, <2>2, <2>3, <2>5, Constants DEF SafeInv, Level
    <2> QED BY <2>4, <2>6 DEF SafeInv
  <1>2. ASSUME NEW k \in Keys, NEW now \in Times, Refuse(k, now) PROVE SafeInv'
    <2>1. /\ now \in Int /\ now <= clock /\ now >= clock - MaxLag
          /\ Filled(k, now) \in Int /\ Filled(k, now) <= Largest
          /\ known /\ Filled(k, now) = LevelAt(k, now)
      BY <1>2, FilledType DEF SafeInv, Refuse
    <2>2. /\ tokens' = Filled(k, now)
          /\ used' = used /\ last' = last
          /\ backLast' = backLast + Back(now) /\ backLast' <= MaxBack
          /\ known' = TRUE /\ ts' = now /\ life' = KeyLife
          /\ backSince' = backSince + Back(now) /\ backSince' <= MaxBack
          /\ clock' = clock /\ since' = since /\ expired' = expired
      BY <1>2 DEF Refuse, Stored
    <2>3. /\ tokens' - Slowest * now >= tokens - Slowest * ts - Drift * Back(now)
          /\ Slowest * now \in Int /\ Slowest * ts \in Int /\ Drift * Back(now) \in Int
      BY <2>1, <2>2, Drifts DEF SafeInv
    <2>4. /\ Drift * backLast' = Drift * backLast + Drift * Back(now)
          /\ Drift * backLast \in Int
          /\ Drift' = Drift
      BY <1>0, <2>2, DriftType, BackType, Distribute DEF Drift
    <2>5. tokens' - Slowest * ts' >= -(Slowest * last') - Drift' * backLast'
      <3>1. tokens - Slowest * ts >= -(Slowest * last) - Drift * backLast
        BY <2>1 DEF SafeInv, Level
      <3>2. Slowest * last \in Int /\ tokens' \in Int
        BY <1>0, <2>1, <2>2, Constants, ProductType
      <3> QED BY <1>0, <2>2, <2>3, <2>4, <3>1, <3>2
    <2>6. Level'
      BY <1>0, <2>1, <2>2, <2>5, Constants DEF SafeInv, Level
    <2>7. tokens' >= -(Slowest * MaxLag) - Drift' * backLast'
      <3>1. Slowest * (last - MaxLag) <= Slowest * now
        BY <1>0, <2>1, Constants, Monotone
      <3>2. /\ Slowest * (last - MaxLag) = Slowest * last - Slowest * MaxLag
            /\ Slowest * last \in Int /\ Slowest * MaxLag \in Int
        BY <1>0, Constants, Distribute
      <3>3. tokens' \in Int /\ Drift' * backLast' \in Int
        BY <2>1, <2>2, <2>3, <2>4
      <3> QED BY <2>2, <2>3, <2>5, <3>1, <3>2, <3>3
    <2>8. backLast' \in 0..MaxBack /\ backSince' \in 0..MaxBack
      BY <1>0, <2>2, BackType
    <2>9. TypeOK'
      BY <1>0, <2>1, <2>2, <2>7, <2>8, Constants DEF TypeOK
    <2> QED BY <2>6, <2>9 DEF SafeInv
  <1>3. CASE Tick
    <2>1. /\ clock' = clock + 1 /\ clock < MaxTime
          /\ life' = IF life > 0 THEN life - 1 ELSE 0
          /\ UNCHANGED <<tokens, ts, last, backLast, since, backSince, used>>
      BY <1>3 DEF Tick
    <2>2. known' \in BOOLEAN /\ (known' => known /\ (Expires => ~(life <= 1)))
      BY <1>3, Zenon DEF Tick, Lapses
    <2>a. expired' \in Nat /\ (expired' # expired => Expires)
      BY <1>0, <1>3 DEF Tick, Lapses
    <2>3. Drift' = Drift
      BY DEF Drift
    <2>4. TypeOK'
      BY <1>0, <2>1, <2>2, <2>a, <2>3, Constants DEF SafeInv, TypeOK
    <2>5. Level'
      BY <1>0, <2>1, <2>2, <2>a, <2>3, Constants DEF SafeInv, TypeOK, Level
    <2> QED BY <2>4, <2>5 DEF SafeInv
  <1>4. CASE Mark
    <2>1. Drift' = Drift
      BY DEF Drift
    <2> QED BY <1>0, <1>4, <2>1, Constants DEF Mark, SafeInv, TypeOK, Level
  <1>5. CASE UNCHANGED vars
    <2>1. Drift' = Drift
      BY DEF Drift
    <2> QED BY <1>5, <2>1 DEF vars, SafeInv, TypeOK, Level
  <1> QED BY <1>1, <1>2, <1>3, <1>4, <1>5 DEF Next

\* Every variable keeps its type, and lag is all that overdraws a bucket.
THEOREM TypeCorrect == Spec => []TypeOK
  <1>1. SafeInv => TypeOK
    BY DEF SafeInv
  <1> QED BY InitSafe, SafeStep, <1>1, PTL DEF Spec

\* Refusals cost nothing but the drift, for all keys, rates, lags and key lives.
THEOREM RefusalsAreFreeForAll == Spec => RefusalsAreFree
  <1>1. SafeInv /\ [Next]_vars =>
            [\A k \in Keys : \A now \in Times :
                Refuse(k, now) => Slowest * (now - last) < Token + Drift * backLast']_vars
    <2> SUFFICES ASSUME SafeInv, NEW k \in Keys, NEW now \in Times, Refuse(k, now)
                 PROVE  Slowest * (now - last) < Token + Drift * backLast'
      OBVIOUS
    <2>1. /\ known /\ LevelAt(k, now) < Token /\ now \in Int /\ LevelAt(k, now) \in Int
          /\ backLast' = backLast + Back(now)
      BY FilledType DEF SafeInv, Refuse
    <2>2. /\ LevelAt(k, now) - Slowest * now >= tokens - Slowest * ts - Drift * Back(now)
          /\ Slowest * now \in Int /\ Slowest * ts \in Int /\ Drift * Back(now) \in Int
      BY <2>1, Drifts DEF SafeInv
    <2>3. /\ tokens - Slowest * ts >= -(Slowest * last) - Drift * backLast
          /\ tokens \in Int /\ last \in Int /\ backLast \in Int
      BY <2>1 DEF SafeInv, TypeOK, Level
    <2>4. /\ Drift * backLast' = Drift * backLast + Drift * Back(now)
          /\ Drift * backLast \in Int
      BY <2>1, <2>3, DriftType, BackType, Distribute
    <2>5. /\ Slowest * (now - last) = Slowest * now - Slowest * last
          /\ Slowest * last \in Int
      BY <2>1, <2>3, Constants, Distribute
    <2> QED BY <2>1, <2>2, <2>3, <2>4, <2>5, Constants
  <1> QED BY InitSafe, SafeStep, <1>1, PTL DEF Spec, RefusalsAreFree

-----------------------------------------------------------------------------
(* The limit *)

LEMMA ForgivenBound ==
    /\ Forgiven \in Nat
    /\ Forgiven >= Largest + Fastest * MaxLag - Fastest * KeyLife
    /\ Fastest * MaxLag \in Nat /\ Fastest * KeyLife \in Nat
  <1>1. Fastest * MaxLag \in Nat /\ Fastest * KeyLife \in Nat
    BY Constants, ProductNat
  <1>2. Fastest * (KeyLife - MaxLag) = Fastest * KeyLife - Fastest * MaxLag
    BY Constants, Distribute
  <1> QED BY <1>1, <1>2, Constants DEF Forgiven

\* What the lag, the drift and the expiries of the key allow.
Allowance == Fastest * MaxLag + Drift * backSince + Forgiven * expired

LEMMA AllowanceType ==
    ASSUME TypeOK
    PROVE  /\ Allowance \in Nat
           /\ Drift * backSince \in Nat /\ Forgiven * expired \in Nat
           /\ Allowance >= Fastest * MaxLag
  <1>1. backSince \in Nat /\ expired \in Nat
    BY Constants DEF TypeOK
  <1>2. Drift * backSince \in Nat /\ Forgiven * expired \in Nat
    BY <1>1, DriftNat, ForgivenBound, ProductNat
  <1> QED BY <1>2, ForgivenBound DEF Allowance

\* LimitHolds, its product written out.
LEMMA LimitHoldsSum ==
    ASSUME TypeOK
    PROVE  LimitHolds <=> used <= Largest + Fastest * clock - Fastest * since + Allowance
  <1>1. clock \in Int /\ since \in Int /\ used \in Int
    BY Constants DEF TypeOK
  <1>2. /\ Fastest * (clock - since) = Fastest * clock - Fastest * since
        /\ Fastest * clock \in Int /\ Fastest * since \in Int
    BY <1>1, Constants, Distribute
  <1>3. Fastest * ((clock - since) + MaxLag) = Fastest * (clock - since) + Fastest * MaxLag
    BY <1>1, Constants, Distribute
  <1>4. Fastest * (clock - since + MaxLag)
            = (Fastest * clock - Fastest * since) + Fastest * MaxLag
    BY <1>2, <1>3
  <1> QED BY <1>1, <1>2, <1>4, AllowanceType, ForgivenBound, Constants DEF LimitHolds, Allowance

\* Why the limit holds: what has been used and what the bucket still holds
\* together stay within the capacity and the time.  What has been used keeps
\* within the time of the last admission, and the key expires no sooner than
\* its life after that; a new bucket is paid for by the time in between, and
\* by what the expiry forgives.
LimitInv ==
    used # 0 =>
        /\ used <= Largest + Fastest * last - Fastest * since + Allowance
        /\ known => used + tokens - Fastest * ts <= Largest - Fastest * since + Allowance
        /\ ~known => used <= Fastest * clock - Fastest * since + Allowance - Fastest * MaxLag

LEMMA LimitInvHolds == SafeInv /\ LimitInv => LimitHolds
  <1> SUFFICES ASSUME SafeInv, LimitInv PROVE LimitHolds
    OBVIOUS
  <1>1. /\ clock \in Int /\ since \in Int /\ last \in Int /\ used \in Nat
        /\ since <= clock /\ last <= clock
    BY Constants DEF SafeInv, TypeOK
  <1>2. /\ Fastest * since <= Fastest * clock /\ Fastest * last <= Fastest * clock
        /\ Fastest * since \in Int /\ Fastest * clock \in Int /\ Fastest * last \in Int
    BY <1>1, Constants, Monotone, ProductType
  <1> QED BY <1>1, <1>2, LimitHoldsSum, AllowanceType, Constants DEF SafeInv, LimitInv

LEMMA LimitStep == SafeInv /\ LimitInv /\ [Next]_vars => LimitInv'
  <1> SUFFICES ASSUME SafeInv, LimitInv, [Next]_vars PROVE LimitInv'
    OBVIOUS
  <1>0. /\ clock \in Nat /\ since \in Nat /\ since <= clock /\ used \in Nat
        /\ tokens \in Int /\ ts \in Int /\ ts <= clock /\ last \in Nat /\ last <= clock
        /\ life \in Int /\ backSince \in Nat /\ expired \in Nat
    BY Constants DEF SafeInv, TypeOK
  <1>a. /\ Fastest * clock \in Int /\ Fastest * since \in Int /\ Fastest * ts \in Int
        /\ Fastest * last \in Int /\ Fastest * since <= Fastest * clock
    BY <1>0, Constants, ProductType, Monotone
  <1>b. /\ Allowance \in Nat /\ Allowance >= Fastest * MaxLag /\ Fastest * MaxLag \in Nat
        /\ Drift * backSince \in Nat /\ Forgiven * expired \in Nat
        /\ Drift' = Drift /\ Forgiven' = Forgiven
    BY AllowanceType, ForgivenBound DEF SafeInv, Drift, Forgiven
  \* A check allows the drift if it sets the time back.
  <1>c. ASSUME NEW now \in Times, Stored(now)
        PROVE  Allowance' = Allowance + Drift * Back(now) /\ Drift * Back(now) \in Nat
    <2>1. backSince' = backSince + Back(now) /\ expired' = expired /\ Back(now) \in Nat
      BY <1>c, BackType DEF Stored
    <2>2. /\ Drift * backSince' = Drift * backSince + Drift * Back(now)
          /\ Drift * Back(now) \in Nat
      BY <1>0, <2>1, DriftNat, Distribute, ProductNat
    <2> QED BY <1>b, <2>1, <2>2 DEF Allowance
  <1>1. ASSUME NEW k \in Keys, NEW now \in Times, Allow(k, now) PROVE LimitInv'
    <2>1. /\ now \in Int /\ now >= clock - MaxLag /\ now <= clock
          /\ Filled(k, now) \in Int /\ Filled(k, now) <= Largest
          /\ known => Filled(k, now) <= LevelAt(k, now) /\ LevelAt(k, now) \in Int
      BY FilledType DEF SafeInv
    <2>2. /\ tokens' = Filled(k, now) - Token /\ used' = used + Token /\ tokens' >= 0
          /\ known' /\ ts' = now /\ since' = since /\ last' = clock /\ Stored(now)
      BY <1>0, <1>1, <2>1, Constants DEF Allow, Stored
    <2>3. Allowance' = Allowance + Drift * Back(now) /\ Drift * Back(now) \in Nat
      BY <1>c, <2>2
    <2>5. /\ Fastest * clock - Fastest * MaxLag <= Fastest * now /\ Fastest * now \in Int
          /\ Fastest * now <= Fastest * clock
      <3>1. Fastest * (clock - MaxLag) <= Fastest * now /\ Fastest * now <= Fastest * clock
        BY <1>0, <2>1, Constants, Monotone
      <3>2. Fastest * (clock - MaxLag) = Fastest * clock - Fastest * MaxLag
        BY <1>0, Constants, Distribute
      <3> QED BY <2>1, <3>1, <3>2, Constants, ProductType
    <2>6. used + Filled(k, now) - Fastest * now <= Largest - Fastest * since + Allowance'
      <3>1. CASE used = 0
        BY <1>0, <1>a, <1>b, <2>1, <2>3, <2>5, <3>1, Constants
      <3>2. CASE known /\ used # 0
        <4>1. LevelAt(k, now) - Fastest * now <= tokens - Fastest * ts + Drift * Back(now)
          BY <3>2, Drifts DEF SafeInv
        <4>2. used + tokens - Fastest * ts <= Largest - Fastest * since + Allowance
          BY <3>2 DEF LimitInv
        <4> QED BY <1>0, <1>a, <1>b, <2>1, <2>3, <2>5, <3>2, <4>1, <4>2, Constants
      <3>3. CASE ~known /\ used # 0
        <4>1. used <= Fastest * clock - Fastest * since + Allowance - Fastest * MaxLag
          BY <3>3 DEF LimitInv
        <4> QED BY <1>0, <1>a, <1>b, <2>1, <2>3, <2>5, <4>1, Constants
      <3> QED BY <3>1, <3>2, <3>3
    <2>7. used' + tokens' - Fastest * ts' <= Largest - Fastest * since' + Allowance'
      BY <1>0, <1>a, <1>b, <2>1, <2>2, <2>3, <2>5, <2>6, Constants
    <2>8. used' <= Largest + Fastest * last' - Fastest * since' + Allowance'
      BY <1>0, <1>a, <1>b, <2>1, <2>2, <2>3, <2>5, <2>7, Constants
    <2> QED BY <2>2, <2>7, <2>8 DEF LimitInv
  <1>2. ASSUME NEW k \in Keys, NEW now \in Times, Refuse(k, now) PROVE LimitInv'
    <2>1. /\ known /\ Filled(k, now) = LevelAt(k, now) /\ now \in Int
          /\ LevelAt(k, now) \in Int
      BY <1>2, FilledType DEF SafeInv, Refuse
    <2>2. /\ tokens' = LevelAt(k, now) /\ used' = used /\ last' = last
          /\ known' /\ ts' = now /\ since' = since /\ Stored(now)
      BY <1>2, <2>1 DEF Refuse, Stored
    <2>3. Allowance' = Allowance + Drift * Back(now) /\ Drift * Back(now) \in Nat
      BY <1>c, <2>2
    <2>4. /\ LevelAt(k, now) - Fastest * now <= tokens - Fastest * ts + Drift * Back(now)
          /\ Fastest * now \in Int
      BY <2>1, Drifts DEF SafeInv
    <2> SUFFICES ASSUME used # 0
                 PROVE  /\ used' <= Largest + Fastest * last' - Fastest * since' + Allowance'
                        /\ used' + tokens' - Fastest * ts'
                               <= Largest - Fastest * since' + Allowance'
      BY <2>2 DEF LimitInv
    <2>5. /\ used <= Largest + Fastest * last - Fastest * since + Allowance
          /\ used + tokens - Fastest * ts <= Largest - Fastest * since + Allowance
      BY <2>1 DEF LimitInv
    <2> QED BY <1>0, <1>a, <1>b, <2>1, <2>2, <2>3, <2>4, <2>5, Constants
  <1>3. CASE Tick
    <2>1. /\ clock' = clock + 1 /\ tokens' = tokens /\ ts' = ts
          /\ last' = last /\ since' = since /\ used' = used /\ backSince' = backSince
      BY <1>3 DEF Tick
    <2>2. Fastest * clock <= Fastest * clock' /\ Fastest * clock' \in Int
      BY <1>0, <2>1, Constants, Monotone, ProductType
    <2> SUFFICES ASSUME used # 0 PROVE LimitInv'
      BY <2>1 DEF LimitInv
    <2>3. used <= Largest + Fastest * last - Fastest * since + Allowance
      BY DEF LimitInv
    <2>4. CASE ~Lapses
      <3>1. expired' = expired
        BY <1>3, <2>4 DEF Tick
      <3>2. Allowance' = Allowance
        BY <1>b, <2>1, <3>1 DEF Allowance
      <3>3. CASE known
        <4>1. known'
          BY <1>3, <2>4, <3>3, Zenon DEF Tick
        <4> QED BY <2>1, <3>2, <3>3, <4>1 DEF LimitInv
      <3>4. CASE ~known
        <4>1. ~known'
          BY <1>3, <3>4, Zenon DEF Tick
        <4>2. used <= Fastest * clock - Fastest * since + Allowance - Fastest * MaxLag
          BY <3>4 DEF LimitInv
        <4>3. used' <= Fastest * clock' - Fastest * since' + Allowance' - Fastest * MaxLag
          BY <1>0, <1>a, <1>b, <2>1, <2>2, <3>2, <4>2
        <4> QED BY <2>1, <2>3, <3>2, <4>1, <4>3 DEF LimitInv
      <3> QED BY <3>3, <3>4
    <2>5. CASE Lapses
      <3>1. expired' = expired + 1
        BY <1>3, <2>5 DEF Tick
      <3>2. ~known'
        BY <1>3, <2>5, Zenon DEF Tick
      <3>3. Allowance' = Allowance + Forgiven
        <4>1. Forgiven * (expired + 1) = Forgiven * expired + Forgiven
          BY <1>0, ForgivenBound, Distribute
        <4> QED BY <1>b, <2>1, <3>1, <4>1, ForgivenBound DEF Allowance
      <3>4. Fastest * last + Fastest * KeyLife <= Fastest * clock'
        <4>1. known /\ Expires /\ life <= 1
          BY <2>5 DEF Lapses
        <4>2. last + KeyLife <= clock'
          BY <1>0, <2>1, <4>1, Constants DEF SafeInv, Level
        <4>3. Fastest * (last + KeyLife) <= Fastest * clock'
          BY <1>0, <2>1, <4>2, Constants, Monotone
        <4>4. Fastest * (last + KeyLife) = Fastest * last + Fastest * KeyLife
          BY <1>0, Constants, Distribute
        <4> QED BY <4>3, <4>4
      <3>5. /\ used' <= Fastest * clock' - Fastest * since' + Allowance' - Fastest * MaxLag
            /\ used' <= Largest + Fastest * last' - Fastest * since' + Allowance'
        BY <1>0, <1>a, <1>b, <2>1, <2>2, <2>3, <3>3, <3>4, ForgivenBound, Constants
      <3> QED BY <3>2, <3>5 DEF LimitInv
    <2> QED BY <2>4, <2>5
  <1>4. CASE Mark
    BY <1>4 DEF Mark, LimitInv
  <1>5. CASE UNCHANGED vars
    <2>1. Allowance' = Allowance
      BY <1>5, <1>b DEF vars, Allowance
    <2> QED BY <1>5, <2>1 DEF vars, LimitInv
  <1> QED BY <1>1, <1>2, <1>3, <1>4, <1>5 DEF Next

LEMMA InitLimit == Init => LimitInv
  BY DEF Init, LimitInv

\* The limit holds in every stretch of time, whatever expires in it.
THEOREM LimitHoldsForAll == Spec => []LimitHolds
  BY InitSafe, SafeStep, InitLimit, LimitStep, LimitInvHolds, PTL DEF Spec

\* In memory, or where the key outlives the refill of the bucket at the fastest
\* rate and the lag, expiry costs nothing.
THEOREM ExpiryIsFree ==
    ASSUME Expires => Largest <= Fastest * (KeyLife - MaxLag)
    PROVE  Spec => [](used <= Largest + Fastest * (clock - since + MaxLag) + Drift * backSince)
  <1>1. SafeInv /\ LimitHolds =>
            used <= Largest + Fastest * (clock - since + MaxLag) + Drift * backSince
    <2> SUFFICES ASSUME SafeInv, LimitHolds
                 PROVE  used <= Largest + Fastest * (clock - since + MaxLag) + Drift * backSince
      OBVIOUS
    <2>1. Forgiven * expired = 0
      <3>1. CASE Expires
        <4>1. Forgiven = 0
          BY <3>1, Constants, ProductType DEF Forgiven
        <4> QED BY <4>1 DEF SafeInv, TypeOK
      <3>2. CASE ~Expires
        <4>1. expired = 0
          BY <3>2 DEF SafeInv, Level
        <4> QED BY <4>1, ForgivenBound
      <3> QED BY <3>1, <3>2
    <2>2. /\ clock - since + MaxLag \in Int /\ backSince \in Int
          /\ Fastest * (clock - since + MaxLag) \in Int /\ Drift * backSince \in Int
      BY Constants, DriftType, ProductType DEF SafeInv, TypeOK
    <2> HIDE DEF Forgiven
    <2> QED BY <2>1, <2>2, Constants DEF LimitHolds
  <1> QED BY InitSafe, SafeStep, InitLimit, LimitStep, LimitInvHolds, <1>1, PTL DEF Spec
=============================================================================
