------------------------- MODULE RateLimiterProofs -------------------------
(* Theorems about the rate limiter, for any limit, window, number of       *)
(* clients and of pipelines under way.                                     *)
EXTENDS RateLimiter, TLAPS

LEMMA Types ==
  ASSUME TypeOK, NEW k \in Client
  PROVE  /\ now \in Nat /\ counter[k] \in Nat /\ expiry[k] \in Nat
         /\ inFlight[k] \in Nat /\ inFlight[k] <= MaxInFlight
         /\ stamps[k] \in Seq(Nat)
         /\ refusals[k] \in Nat /\ errors[k] \in Nat /\ last[k] \in Nat
         /\ torn[k] \in SUBSET [at : Nat, left : Nat]
         /\ expiry[k] # 0 => counter[k] > 0 /\ now < expiry[k]
BY LimiterAssumption, SMT DEF TypeOK

LEMMA Numbers ==
  /\ Rpm \in Nat /\ Window \in Nat /\ Window > 0
  /\ MaxInFlight \in Nat /\ MaxInFlight > 0
BY LimiterAssumption, SMT

LEMMA TypeInit == Init => TypeOK
BY LimiterAssumption, SMT DEF Init, TypeOK

\* What an INCR does, and an INCR whose EXPIRE will follow.
LEMMA IncrTypes ==
  ASSUME TypeOK, NEW k \in Client, Incr(k)
  PROVE  /\ now' \in Nat
         /\ counter' \in [Client -> Nat] /\ expiry' \in [Client -> Nat]
         /\ last' \in [Client -> Nat]
         /\ \A d \in Client : expiry'[d] # 0 => counter'[d] > 0 /\ now' < expiry'[d]
<1>1. /\ now' = now /\ expiry' = expiry
      /\ counter' = [counter EXCEPT ![k] = counter[k] + 1]
      /\ last' = [last EXCEPT ![k] = now]
  BY DEF Incr
<1>2. /\ now' \in Nat /\ counter' \in [Client -> Nat]
      /\ expiry' \in [Client -> Nat] /\ last' \in [Client -> Nat]
  BY <1>1 DEF TypeOK
<1>3. ASSUME NEW d \in Client, expiry'[d] # 0
      PROVE  counter'[d] > 0 /\ now' < expiry'[d]
  <2>1. counter[d] > 0 /\ now < expiry[d] /\ counter[d] \in Nat
    BY <1>1, <1>3, Types
  <2>2. counter'[d] = counter[d] \/ counter'[d] = counter[d] + 1
    BY <1>1 DEF TypeOK
  <2> QED BY <1>1, <2>1, <2>2
<1> QED BY <1>2, <1>3

LEMMA InFlightType ==
  ASSUME TypeOK, NEW k \in Client, IncrThenExpire(k)
  PROVE  inFlight' \in [Client -> 0 .. MaxInFlight]
<1>1. inFlight[k] + 1 \in 0 .. MaxInFlight
  BY Types, Numbers DEF IncrThenExpire
<1> QED BY <1>1 DEF IncrThenExpire, TypeOK

LEMMA TypeStep ==
  ASSUME TypeOK, [Next]_vars
  PROVE  TypeOK'
<1>1. ASSUME NEW k \in Client, Limit(k)
      PROVE  TypeOK'
  <2>1. Incr(k) /\ IncrThenExpire(k) /\ errors' = errors /\ torn' = torn
    BY <1>1 DEF Limit, IncrThenExpire
  <2>2. refusals[k] + 1 \in Nat /\ Append(stamps[k], now) \in Seq(Nat)
    BY Types
  <2>3. refusals' \in [Client -> Nat] /\ stamps' \in [Client -> Seq(Nat)]
    BY <1>1, <2>2 DEF Limit, TypeOK
  <2> QED BY <2>1, <2>3, IncrTypes, InFlightType DEF TypeOK
<1>2. ASSUME NEW k \in Client, LimitError(k)
      PROVE  TypeOK'
  <2>1. refusals' = refusals /\ stamps' = stamps /\ torn' = torn
    BY <1>2 DEF LimitError
  <2>2. errors[k] + 1 \in Nat
    BY Types
  <2>3. errors' \in [Client -> Nat]
    BY <1>2, <2>2 DEF LimitError, TypeOK
  <2>4. CASE UNCHANGED <<now, redis, last>>
    BY <2>1, <2>3, <2>4 DEF TypeOK, redis
  <2>5. CASE Incr(k) /\ UNCHANGED inFlight
    BY <2>1, <2>3, <2>5, IncrTypes DEF TypeOK
  <2>6. CASE IncrThenExpire(k)
    <3>1. Incr(k)
      BY <2>6 DEF IncrThenExpire
    <3> QED BY <2>1, <2>3, <2>6, <3>1, IncrTypes, InFlightType DEF TypeOK
  <2> QED BY <1>2, <2>4, <2>5, <2>6 DEF LimitError
<1>3. ASSUME NEW k \in Client, Expire(k)
      PROVE  TypeOK'
  <2>1. /\ now' = now /\ counter' = counter /\ stamps' = stamps
        /\ refusals' = refusals /\ errors' = errors /\ torn' = torn
        /\ last' = [last EXCEPT ![k] = now]
        /\ inFlight' = [inFlight EXCEPT ![k] = inFlight[k] - 1]
        /\ inFlight[k] > 0
        /\ \/ expiry' = expiry
           \/ expiry' = [expiry EXCEPT ![k] = now + Window] /\ counter[k] > 0
    BY <1>3 DEF Expire
  <2>2. inFlight[k] - 1 \in 0 .. MaxInFlight /\ now + Window \in Nat /\ now < now + Window
    BY <2>1, Types, Numbers
  <2>3. /\ inFlight' \in [Client -> 0 .. MaxInFlight] /\ expiry' \in [Client -> Nat]
        /\ last' \in [Client -> Nat]
    BY <2>1, <2>2 DEF TypeOK
  <2>4. \A d \in Client : expiry'[d] # 0 => counter'[d] > 0 /\ now' < expiry'[d]
    <3>1. ASSUME NEW d \in Client
          PROVE  expiry'[d] = expiry[d] \/ (expiry'[d] = now + Window /\ counter[d] > 0)
      <4>1. CASE expiry' = expiry
        BY <4>1
      <4>2. CASE expiry' = [expiry EXCEPT ![k] = now + Window] /\ counter[k] > 0
        BY <4>2 DEF TypeOK
      <4> QED BY <2>1, <4>1, <4>2
    <3> QED BY <2>1, <2>2, <3>1, Types
  <2> QED BY <2>1, <2>3, <2>4 DEF TypeOK
<1>4. CASE Tick
  <2>1. /\ now' = now + 1
        /\ counter' = [d \in Client |-> IF expiry[d] = now' THEN 0 ELSE counter[d]]
        /\ expiry' = [d \in Client |-> IF expiry[d] = now' THEN 0 ELSE expiry[d]]
        /\ inFlight' = inFlight /\ stamps' = stamps /\ refusals' = refusals
        /\ errors' = errors /\ last' = last
    BY <1>4 DEF Tick
  <2>2. ASSUME NEW d \in Client
        PROVE  /\ counter'[d] \in Nat /\ expiry'[d] \in Nat
               /\ expiry'[d] # 0 => counter'[d] > 0 /\ now' < expiry'[d]
    <3>1. \/ counter'[d] = 0 /\ expiry'[d] = 0
          \/ counter'[d] = counter[d] /\ expiry'[d] = expiry[d] /\ expiry[d] # now'
      BY <2>1
    <3> QED BY <2>1, <3>1, Types
  <2>3. counter' \in [Client -> Nat] /\ expiry' \in [Client -> Nat] /\ now' \in Nat
    BY <2>1, <2>2 DEF TypeOK
  <2>4. torn' \in [Client -> SUBSET [at : Nat, left : Nat]]
    <3>1. ASSUME NEW d \in Client
          PROVE  Torn(d) \in [at : Nat, left : Nat] /\ torn[d] \in SUBSET [at : Nat, left : Nat]
      BY Types DEF Torn
    <3>2. torn' = [d \in Client |-> IF expiry[d] = now' /\ inFlight[d] > 0
                                  THEN torn[d] \cup {Torn(d)} ELSE torn[d]]
      BY <1>4 DEF Tick
    <3> QED BY <3>1, <3>2
  <2> QED BY <2>1, <2>2, <2>3, <2>4 DEF TypeOK
<1>5. CASE UNCHANGED vars
  BY <1>5 DEF TypeOK, vars, redis
<1> QED BY <1>1, <1>2, <1>3, <1>4, <1>5 DEF Next

\* The limiter's variables keep their types, and no key that is gone has an
\* expiry, nor has a key outlived its own.
THEOREM TypeCorrect == Spec => []TypeOK
<1> QED BY TypeInit, TypeStep, PTL DEF Spec
-----------------------------------------------------------------------------
(* The window.                                                             *)

\* A counter that knows of more, or a later end of the window, is explained by the
\* same torn counter; so is one more request that the counter knows of.
LEMMA StillExplained ==
  ASSUME NEW T \in SUBSET [at : Nat, left : Nat], NEW from \in Nat, NEW to \in Nat,
         NEW l \in Nat, NEW v \in Nat, Explained(T, from, to, l, v),
         NEW u \in Nat, to <= u, NEW p \in Nat, NEW w \in Nat, p + v <= l + w
  PROVE  Explained(T, from, u, p, w)
<1>1. PICK k \in T : from <= k.at /\ k.at <= to /\ l <= v + k.left
  BY DEF Explained
<1>2. k.at \in Nat /\ k.left \in Nat
  OBVIOUS
<1>3. from <= k.at /\ k.at <= u /\ p <= w + k.left
  BY <1>1, <1>2
<1> QED BY <1>3 DEF Explained

LEMMA Appended ==
  ASSUME NEW s \in Seq(Nat), NEW t \in Nat
  PROVE  /\ Append(s, t) \in Seq(Nat)
         /\ Len(s) \in Nat /\ Len(Append(s, t)) = Len(s) + 1
         /\ DOMAIN s = 1 .. Len(s) /\ DOMAIN Append(s, t) = 1 .. Len(s) + 1
         /\ \A k \in 1 .. Len(s) : Append(s, t)[k] = s[k] /\ s[k] \in Nat
         /\ Append(s, t)[Len(s) + 1] = t
OBVIOUS

\* What WindowRespected says of one client.
Spaced(c) ==
  \A n, m \in DOMAIN stamps[c] :
    n + Rpm <= m /\ stamps[c][m] < stamps[c][n] + Window =>
      Explained(torn[c], stamps[c][n], stamps[c][m], m - n + 1, Rpm)

LEMMA AllSpaced == WindowRespected <=> \A c \in Client : Spaced(c)
BY DEF WindowRespected, Spaced

\* A higher count, with or without one more request let through, and a later hour
\* leave a request known.
LEMMA KnownMore ==
  ASSUME NEW T \in SUBSET [at : Nat, left : Nat], NEW at \in Nat, NEW more \in Nat,
         NEW v \in Nat, NEW t \in Nat, Known(T, at, more, v, t)
  PROVE  /\ Known(T, at, more, v + 1, t)
         /\ Known(T, at, more + 1, v + 1, t)
         /\ Known(T, at, more, v, t + 1)
<1>1. ASSUME more >= v, t < at + Window,
             NEW u \in Nat, t <= u, NEW p \in Nat, NEW w \in Nat, p + v <= more + w
      PROVE  Explained(T, at, u, p + 1, w)
  <2>1. Explained(T, at, t, more + 1, v)
    BY <1>1 DEF Known
  <2>2. (p + 1) + v <= (more + 1) + w /\ more + 1 \in Nat /\ p + 1 \in Nat
    BY <1>1
  <2> QED BY <1>1, <2>1, <2>2, StillExplained
<1>2. Known(T, at, more, v + 1, t)
  <2> SUFFICES ASSUME more >= v + 1, t < at + Window
               PROVE  Explained(T, at, t, more + 1, v + 1)
    BY DEF Known
  <2> QED BY <1>1, SMTT(30)
<1>3. Known(T, at, more + 1, v + 1, t)
  <2> SUFFICES ASSUME more + 1 >= v + 1, t < at + Window
               PROVE  Explained(T, at, t, (more + 1) + 1, v + 1)
    BY DEF Known
  <2>1. more >= v /\ t <= t /\ (more + 1) + v <= more + (v + 1) /\ more + 1 \in Nat
        /\ v + 1 \in Nat
    OBVIOUS
  <2> QED BY <1>1, <2>1
<1>4. Known(T, at, more, v, t + 1)
  <2> SUFFICES ASSUME more >= v, t + 1 < at + Window
               PROVE  Explained(T, at, t + 1, more + 1, v)
    BY DEF Known
  <2>1. t < at + Window /\ t <= t + 1 /\ t + 1 \in Nat /\ more + v <= more + v
    BY Numbers
  <2> QED BY <1>1, <2>1
<1> QED BY <1>2, <1>3, <1>4

\* The same of a counter's end: more pipelines under way cover more.
LEMMA CoveredMore ==
  ASSUME NEW at \in Nat, NEW more \in Nat, NEW w \in Nat, NEW e \in Nat,
         Covered(at, more, w, e)
  PROVE  Covered(at, more, w + 1, e) /\ Covered(at, more + 1, w + 1, e)
BY DEF Covered

\* A counter that goes with pipelines under way is torn, and explains what they know.
LEMMA TornExplains ==
  ASSUME NEW at \in Nat, NEW more \in Nat, NEW w \in Nat, NEW e \in Nat, e # 0,
         at <= e, Covered(at, more, w, e), NEW T,
         w > 0 => [at |-> e, left |-> w] \in T
  PROVE  Known(T, at, more, 0, e)
<1> SUFFICES ASSUME e < at + Window
             PROVE  Explained(T, at, e, more + 1, 0)
  BY DEF Known
<1>1. ~(more >= w)
  BY Numbers DEF Covered
<1>2. w > 0 /\ more + 1 <= 0 + w
  BY <1>1
<1> DEFINE k == [at |-> e, left |-> w]
<1>3. k \in T /\ k.at = e /\ k.left = w
  BY <1>2
<1> QED BY <1>2, <1>3 DEF Explained

\* The arithmetic of the request that a counter, now at v, lets through as the
\* (l + 1)-th, and of an earlier one, the n-th.
LEMMA LetThrough ==
  ASSUME NEW l \in Nat, NEW v \in Nat, v + 1 <= Rpm, NEW n \in 1 .. l + 1
  PROVE  /\ n \in 1 .. l \/ n = l + 1
         /\ n + Rpm <= l + 1 => n \in 1 .. l
         /\ n + Rpm <= l + 1 => (l - n) + 1 >= v + 1
         /\ \A m \in 1 .. l + 1 : n + Rpm <= m => n \in 1 .. l
         /\ \A p \in Nat : p + (v + 1) <= p + Rpm
BY Numbers

\* The inductive facts about the n-th request let through.
NthInv(c, n) ==
  /\ stamps[c][n] <= now
  /\ Known(torn[c], stamps[c][n], Len(stamps[c]) - n, counter[c], now)
  /\ Covered(stamps[c][n], Len(stamps[c]) - n, inFlight[c], expiry[c])

LEMMA AllNth ==
  ASSUME NEW c
  PROVE  CounterInv(c) <=> \A n \in DOMAIN stamps[c] : NthInv(c, n)
BY DEF CounterInv, NthInv

LEMMA Nth ==
  ASSUME TypeOK, NEW c \in Client, NEW n \in DOMAIN stamps[c]
  PROVE  /\ n \in Nat /\ n > 0 /\ stamps[c][n] \in Nat
         /\ Len(stamps[c]) \in Nat /\ Len(stamps[c]) - n \in Nat
BY Types, SMTT(30)

\* An INCR leaves the past and the expiry as they are; at most one more request
\* is let through, and it is one more that the counter knows of.
LEMMA CountedOnce ==
  ASSUME TypeOK, NEW k \in Client, CounterInv(k), Spaced(k),
         now' = now, expiry'[k] = expiry[k], counter'[k] = counter[k] + 1,
         torn'[k] = torn[k],
         \/ inFlight'[k] = inFlight[k] + 1
         \/ stamps'[k] = stamps[k] /\ inFlight'[k] = inFlight[k],
         \/ stamps'[k] = stamps[k]
         \/ stamps'[k] = Append(stamps[k], now) /\ counter[k] + 1 <= Rpm
  PROVE  CounterInv(k)' /\ Spaced(k)'
<1>t. /\ torn[k] \in SUBSET [at : Nat, left : Nat] /\ now \in Nat
      /\ counter[k] \in Nat /\ inFlight[k] \in Nat /\ expiry[k] \in Nat
      /\ stamps[k] \in Seq(Nat)
  BY Types
<1>0. ASSUME NEW n \in DOMAIN stamps[k]
      PROVE  NthInv(k, n)
  BY DEF NthInv, CounterInv
<1>1. CASE stamps'[k] = stamps[k]
  <2>1. ASSUME NEW n \in DOMAIN stamps[k]
        PROVE  NthInv(k, n)'
    <3> DEFINE more == Len(stamps[k]) - n
    <3>1. more \in Nat /\ stamps[k][n] \in Nat
      BY Nth
    <3>2. /\ stamps[k][n] <= now
          /\ Known(torn[k], stamps[k][n], more, counter[k], now)
          /\ Covered(stamps[k][n], more, inFlight[k], expiry[k])
      BY <1>0 DEF NthInv
    <3> HIDE DEF more
    <3>3. Known(torn[k], stamps[k][n], more, counter[k] + 1, now)
      BY <1>t, <3>1, <3>2, KnownMore
    <3>4. Covered(stamps[k][n], more, inFlight'[k], expiry[k])
      BY <1>t, <3>1, <3>2, CoveredMore
    <3> QED BY <1>1, <3>2, <3>3, <3>4 DEF NthInv, more
  <2>2. CounterInv(k)'
    BY <1>1, <2>1 DEF CounterInv, NthInv
  <2> QED BY <1>1, <2>2 DEF Spaced
<1>2. CASE /\ stamps'[k] = Append(stamps[k], now) /\ counter[k] + 1 <= Rpm
           /\ inFlight'[k] = inFlight[k] + 1
  <2> DEFINE l == Len(stamps[k])
  <2>1. /\ l \in Nat /\ Len(stamps'[k]) = l + 1 /\ stamps'[k][l + 1] = now
        /\ DOMAIN stamps[k] = 1 .. l /\ DOMAIN stamps'[k] = 1 .. l + 1
        /\ \A n \in 1 .. l : stamps'[k][n] = stamps[k][n] /\ stamps[k][n] \in Nat
    BY <1>2, <1>t, Appended
  <2> HIDE DEF l
  <2>a. \A n \in 1 .. l + 1 : n \in 1 .. l \/ n = l + 1
    BY <1>2, <1>t, <2>1, LetThrough
  <2>2. ASSUME NEW n \in 1 .. l
        PROVE  /\ NthInv(k, n)'
               /\ n + Rpm <= l + 1 /\ now < stamps[k][n] + Window =>
                    Explained(torn[k], stamps[k][n], now, (l + 1) - n + 1, Rpm)
    <3> DEFINE more == l - n
               at == stamps[k][n]
    <3>1. more \in Nat /\ at \in Nat /\ n \in DOMAIN stamps[k] /\ n \in Nat
      BY <2>1, Nth
    <3>2. /\ at <= now
          /\ Known(torn[k], at, more, counter[k], now)
          /\ Covered(at, more, inFlight[k], expiry[k])
      BY <1>0, <3>1 DEF NthInv, l
    <3> HIDE DEF more, at
    <3>3. Known(torn[k], at, more + 1, counter[k] + 1, now)
      BY <1>t, <3>1, <3>2, KnownMore
    <3>4. Covered(at, more + 1, inFlight[k] + 1, expiry[k])
      BY <1>t, <3>1, <3>2, CoveredMore
    <3>5. (l + 1) - n = more + 1 /\ more + 1 + 1 \in Nat
      BY <2>1, <3>1 DEF more
    <3>6. NthInv(k, n)'
      BY <1>2, <2>1, <3>2, <3>3, <3>4, <3>5 DEF NthInv, at
    <3>7. ASSUME n + Rpm <= l + 1, now < at + Window
          PROVE  Explained(torn[k], at, now, (more + 1) + 1, Rpm)
      <4>1. more + 1 >= counter[k] + 1
        <5>1. n \in 1 .. l + 1
          BY <2>1
        <5> QED BY <1>2, <1>t, <2>1, <3>7, <5>1, LetThrough DEF more
      <4>2. Explained(torn[k], at, now, (more + 1) + 1, counter[k] + 1)
        BY <3>3, <3>7, <4>1 DEF Known
      <4>3. /\ ((more + 1) + 1) + (counter[k] + 1) <= ((more + 1) + 1) + Rpm
            /\ (more + 1) + 1 \in Nat /\ counter[k] + 1 \in Nat /\ now <= now
        <5>1. (more + 1) + 1 \in Nat /\ counter[k] + 1 \in Nat /\ now <= now
          BY <1>t, <3>1
        <5>2. n \in 1 .. l + 1
          BY <2>1
        <5> QED BY <1>2, <1>t, <2>1, <5>1, <5>2, LetThrough
      <4> QED BY <1>t, <3>1, <4>2, <4>3, Numbers, StillExplained
    <3> QED BY <3>5, <3>6, <3>7 DEF at
  <2>3. ASSUME NEW n \in 1 .. l + 1, n = l + 1
        PROVE  NthInv(k, n)'
    <3>1. Len(stamps'[k]) - n = 0 /\ stamps'[k][n] = now /\ now <= now'
      BY <1>t, <2>1, <2>3
    <3>2. ~(0 >= counter[k] + 1) /\ ~(0 >= inFlight[k] + 1)
      BY <1>t
    <3>3. /\ Known(torn'[k], stamps'[k][n], Len(stamps'[k]) - n, counter'[k], now')
          /\ Covered(stamps'[k][n], Len(stamps'[k]) - n, inFlight'[k], expiry'[k])
      BY <1>2, <3>1, <3>2 DEF Known, Covered
    <3> QED BY <3>1, <3>3 DEF NthInv
  <2>4. CounterInv(k)'
    <3>1. ASSUME NEW n \in 1 .. l + 1
          PROVE  NthInv(k, n)'
      BY <2>2, <2>3, <2>a
    <3> QED BY <2>1, <3>1 DEF CounterInv, NthInv
  <2>5. ASSUME NEW n \in 1 .. l + 1, NEW m \in 1 .. l + 1, n + Rpm <= m,
               stamps'[k][m] < stamps'[k][n] + Window
        PROVE  Explained(torn[k], stamps'[k][n], stamps'[k][m], m - n + 1, Rpm)
    <3>1. CASE m \in 1 .. l /\ n \in 1 .. l
      BY <2>1, <2>5, <3>1 DEF Spaced
    <3>2. CASE m = l + 1 /\ n \in 1 .. l
      BY <2>1, <2>2, <2>5, <3>2
    <3>3. (m \in 1 .. l \/ m = l + 1) /\ n \in 1 .. l
      BY <1>2, <1>t, <2>1, <2>5, <2>a, LetThrough
    <3> QED BY <3>1, <3>2, <3>3
  <2>6. Spaced(k)'
    BY <2>1, <2>5 DEF Spaced
  <2> QED BY <2>4, <2>6
<1> QED BY <1>1, <1>2

LEMMA WindowInit == Init => WindowRespected /\ \A c \in Client : CounterInv(c)
BY SMT DEF Init, WindowRespected, CounterInv

LEMMA WindowStep ==
  ASSUME TypeOK, \A c \in Client : CounterInv(c) /\ Spaced(c), [Next]_vars
  PROVE  \A c \in Client : CounterInv(c)' /\ Spaced(c)'
<1> SUFFICES ASSUME NEW d \in Client
             PROVE  CounterInv(d)' /\ Spaced(d)'
  OBVIOUS
<1>t. /\ torn[d] \in SUBSET [at : Nat, left : Nat] /\ now \in Nat
      /\ counter[d] \in Nat /\ inFlight[d] \in Nat /\ expiry[d] \in Nat
  BY Types
<1>0. CASE /\ now' = now /\ stamps'[d] = stamps[d] /\ counter'[d] = counter[d]
           /\ expiry'[d] = expiry[d] /\ inFlight'[d] = inFlight[d] /\ torn'[d] = torn[d]
  BY <1>0 DEF CounterInv, Spaced
<1>1. ASSUME NEW k \in Client, Limit(k)
      PROVE  CounterInv(d)' /\ Spaced(d)'
  <2>1. CASE k # d
    BY <1>0, <1>1, <2>1 DEF Limit, IncrThenExpire, Incr, TypeOK
  <2>2. CASE k = d
    <3>1. /\ now' = now /\ expiry'[d] = expiry[d] /\ counter'[d] = counter[d] + 1
          /\ inFlight'[d] = inFlight[d] + 1 /\ torn'[d] = torn[d]
      BY <1>1, <2>2 DEF Limit, IncrThenExpire, Incr, TypeOK
    <3>2. \/ stamps'[d] = stamps[d]
          \/ stamps'[d] = Append(stamps[d], now) /\ ~(counter'[d] > Rpm)
      BY <1>1, <2>2 DEF Limit, TypeOK
    <3>3. ~(counter[d] + 1 > Rpm) => counter[d] + 1 <= Rpm
      BY Types, Numbers
    <3> QED BY <3>1, <3>2, <3>3, CountedOnce
  <2> QED BY <2>1, <2>2
<1>2. ASSUME NEW k \in Client, LimitError(k)
      PROVE  CounterInv(d)' /\ Spaced(d)'
  <2>1. CASE k # d \/ UNCHANGED <<now, redis, last>>
    BY <1>0, <1>2, <2>1 DEF LimitError, IncrThenExpire, Incr, TypeOK, redis
  <2>2. CASE k = d /\ Incr(d) /\ (UNCHANGED inFlight \/ IncrThenExpire(d))
    <3>1. /\ now' = now /\ expiry'[d] = expiry[d] /\ counter'[d] = counter[d] + 1
          /\ stamps'[d] = stamps[d] /\ torn'[d] = torn[d]
      BY <1>2, <2>2 DEF LimitError, Incr, TypeOK
    <3>2. inFlight'[d] = inFlight[d] \/ inFlight'[d] = inFlight[d] + 1
      BY <2>2 DEF IncrThenExpire, TypeOK
    <3> QED BY <3>1, <3>2, CountedOnce
  <2> QED BY <1>2, <2>1, <2>2 DEF LimitError, IncrThenExpire
<1>3. ASSUME NEW k \in Client, Expire(k)
      PROVE  CounterInv(d)' /\ Spaced(d)'
  <2>1. CASE k # d
    BY <1>0, <1>3, <2>1 DEF Expire, TypeOK
  <2>2. CASE k = d
    <3>1. /\ now' = now /\ stamps' = stamps /\ counter' = counter /\ torn' = torn
          /\ counter[d] > 0 => expiry'[d] = now + Window
          /\ ~(counter[d] > 0) => expiry'[d] = 0
      <4>1. /\ now' = now /\ stamps' = stamps /\ counter' = counter /\ torn' = torn
            /\ counter[d] > 0 => expiry'[d] = now + Window
            /\ ~(counter[d] > 0) => expiry'[d] = expiry[d]
        BY <1>3, <2>2 DEF Expire, TypeOK
      <4> QED BY <4>1, Types
    <3>2. ASSUME NEW n \in DOMAIN stamps[d]
          PROVE  /\ stamps[d][n] <= now
                 /\ Known(torn[d], stamps[d][n], Len(stamps[d]) - n, counter[d], now)
                 /\ expiry'[d] # 0 => stamps[d][n] + Window <= expiry'[d]
      <4>1. /\ stamps[d][n] <= now /\ stamps[d][n] \in Nat
            /\ Known(torn[d], stamps[d][n], Len(stamps[d]) - n, counter[d], now)
        BY Nth DEF CounterInv
      <4> QED BY <1>t, <3>1, <4>1, Numbers
    <3>3. CounterInv(d)'
      BY <3>1, <3>2 DEF CounterInv, Covered
    <3> QED BY <3>1, <3>3 DEF Spaced
  <2> QED BY <2>1, <2>2
<1>4. ASSUME Tick
      PROVE  CounterInv(d)' /\ Spaced(d)'
  <2>1. /\ now' = now + 1 /\ stamps' = stamps /\ inFlight' = inFlight
        /\ counter'[d] = IF expiry[d] = now' THEN 0 ELSE counter[d]
        /\ expiry'[d] = IF expiry[d] = now' THEN 0 ELSE expiry[d]
        /\ torn'[d] = IF expiry[d] = now' /\ inFlight[d] > 0
                      THEN torn[d] \cup {[at |-> now + 1, left |-> inFlight[d]]} ELSE torn[d]
    BY <1>4 DEF Tick, Torn
  <2>2. ASSUME NEW n \in DOMAIN stamps[d]
        PROVE  /\ stamps[d][n] <= now'
               /\ Known(torn'[d], stamps[d][n], Len(stamps[d]) - n, counter'[d], now')
               /\ Covered(stamps[d][n], Len(stamps[d]) - n, inFlight[d], expiry'[d])
    <3> DEFINE more == Len(stamps[d]) - n
               at == stamps[d][n]
    <3>1. more \in Nat /\ at \in Nat
      BY Nth
    <3>2. /\ at <= now
          /\ Known(torn[d], at, more, counter[d], now)
          /\ Covered(at, more, inFlight[d], expiry[d])
      BY DEF CounterInv
    <3> HIDE DEF more, at
    <3>3. at <= now + 1
      BY <1>t, <3>1, <3>2
    <3>4. CASE expiry[d] = now'
      <4>1. /\ counter'[d] = 0 /\ expiry'[d] = 0 /\ expiry[d] = now + 1 /\ now + 1 # 0
            /\ now + 1 \in Nat
        BY <1>t, <2>1, <3>4
      <4>2. inFlight[d] > 0 => [at |-> now + 1, left |-> inFlight[d]] \in torn'[d]
        BY <2>1, <3>4
      <4>3. Known(torn'[d], at, more, 0, now + 1)
        BY <1>t, <3>1, <3>2, <3>3, <4>1, <4>2, TornExplains
      <4> QED BY <2>1, <3>3, <4>1, <4>3 DEF Covered, more, at
    <3>5. CASE expiry[d] # now'
      <4>1. counter'[d] = counter[d] /\ expiry'[d] = expiry[d] /\ torn'[d] = torn[d]
        BY <2>1, <3>5
      <4>2. Known(torn[d], at, more, counter[d], now + 1)
        BY <1>t, <3>1, <3>2, KnownMore
      <4> QED BY <2>1, <3>2, <3>3, <4>1, <4>2 DEF more, at
    <3> QED BY <3>4, <3>5
  <2>3. CounterInv(d)'
    BY <2>1, <2>2 DEF CounterInv
  <2>4. torn[d] \subseteq torn'[d]
    BY <2>1
  <2>5. Spaced(d)'
    BY <2>1, <2>4 DEF Spaced, Explained
  <2> QED BY <2>3, <2>5
<1>5. CASE UNCHANGED vars
  BY <1>0, <1>5 DEF vars, redis
<1> QED BY <1>1, <1>2, <1>3, <1>4, <1>5 DEF Next

\* The limit holds in every window, but for those in the middle of which a counter
\* went with pipelines under way; and there it is passed by their number at most.
THEOREM LimitHolds == Spec => []WindowRespected
<1>1. Init => TypeOK /\ WindowRespected /\ \A c \in Client : CounterInv(c)
  BY TypeInit, WindowInit
<1>2. TypeOK /\ WindowRespected /\ (\A c \in Client : CounterInv(c)) /\ [Next]_vars
      => (TypeOK /\ WindowRespected /\ \A c \in Client : CounterInv(c))'
  <2> SUFFICES ASSUME TypeOK, WindowRespected, \A c \in Client : CounterInv(c), [Next]_vars
               PROVE  (TypeOK /\ WindowRespected /\ \A c \in Client : CounterInv(c))'
    OBVIOUS
  <2>1. \A c \in Client : CounterInv(c) /\ Spaced(c)
    BY AllSpaced
  <2>2. \A c \in Client : CounterInv(c)' /\ Spaced(c)'
    BY <2>1, WindowStep
  <2>3. WindowRespected'
    BY <2>2 DEF WindowRespected, Spaced
  <2> QED BY <2>2, <2>3, TypeStep
<1> QED BY <1>1, <1>2, PTL DEF Spec
-----------------------------------------------------------------------------
(* The quiet client.                                                       *)

LEMMA ExpiryInit == Init => \A c \in Client : ExpiryInv(c)
BY LimiterAssumption, SMT DEF Init, ExpiryInv

LEMMA ExpiryStep ==
  ASSUME TypeOK, \A c \in Client : ExpiryInv(c), [Next]_vars
  PROVE  \A c \in Client : ExpiryInv(c)'
<1> SUFFICES ASSUME NEW d \in Client
             PROVE  ExpiryInv(d)'
  OBVIOUS
<1>a. /\ (expiry[d] = 0 /\ inFlight[d] = 0 => counter[d] <= errors[d])
      /\ last[d] <= now /\ expiry[d] <= last[d] + Window
  BY DEF ExpiryInv
<1>0. CASE /\ now' = now /\ counter'[d] = counter[d] /\ expiry'[d] = expiry[d]
           /\ inFlight'[d] = inFlight[d] /\ last'[d] = last[d]
           /\ (errors'[d] = errors[d] \/ errors'[d] = errors[d] + 1)
  BY <1>a, <1>0, Types DEF ExpiryInv
<1>1. ASSUME NEW k \in Client, Limit(k)
      PROVE  ExpiryInv(d)'
  <2>1. CASE k # d
    BY <1>0, <1>1, <2>1 DEF Limit, IncrThenExpire, Incr, TypeOK
  <2>2. CASE k = d
    <3>1. /\ now' = now /\ expiry'[d] = expiry[d] /\ last'[d] = now
          /\ inFlight'[d] = inFlight[d] + 1
      BY <1>1, <2>2 DEF Limit, IncrThenExpire, Incr, TypeOK
    <3> QED BY <1>a, <3>1, Types, Numbers, SMTT(30) DEF ExpiryInv
  <2> QED BY <2>1, <2>2
<1>2. ASSUME NEW k \in Client, LimitError(k)
      PROVE  ExpiryInv(d)'
  <2>1. CASE k # d
    BY <1>0, <1>2, <2>1 DEF LimitError, IncrThenExpire, Incr, TypeOK, redis
  <2>2. CASE k = d
    <3>1. errors'[d] = errors[d] + 1
      BY <1>2, <2>2 DEF LimitError, TypeOK
    <3>2. CASE UNCHANGED <<now, redis, last>>
      BY <1>0, <3>1, <3>2 DEF redis
    <3>3. CASE Incr(d) /\ UNCHANGED inFlight
      <4>1. /\ now' = now /\ expiry'[d] = expiry[d] /\ last'[d] = now
            /\ counter'[d] = counter[d] + 1 /\ inFlight'[d] = inFlight[d]
        BY <3>3 DEF Incr, TypeOK
      <4> QED BY <1>a, <3>1, <4>1, Types, Numbers, SMTT(30) DEF ExpiryInv
    <3>4. CASE IncrThenExpire(d)
      <4>1. /\ now' = now /\ expiry'[d] = expiry[d] /\ last'[d] = now
            /\ inFlight'[d] = inFlight[d] + 1
        BY <3>4 DEF IncrThenExpire, Incr, TypeOK
      <4>2. inFlight[d] + 1 # 0 /\ expiry[d] <= now + Window /\ now <= now
        BY <1>a, Types, Numbers
      <4> QED BY <4>1, <4>2 DEF ExpiryInv
    <3> QED BY <1>2, <2>2, <3>2, <3>3, <3>4 DEF LimitError
  <2> QED BY <2>1, <2>2
<1>3. ASSUME NEW k \in Client, Expire(k)
      PROVE  ExpiryInv(d)'
  <2>1. CASE k # d
    BY <1>0, <1>3, <2>1 DEF Expire, TypeOK
  <2>2. CASE k = d
    <3>1. /\ now' = now /\ counter' = counter /\ last'[d] = now
          /\ counter[d] > 0 => expiry'[d] = now + Window
          /\ ~(counter[d] > 0) => expiry'[d] = expiry[d]
          /\ errors' = errors
      BY <1>3, <2>2 DEF Expire, TypeOK
    <3> QED BY <1>a, <3>1, Types, Numbers DEF ExpiryInv
  <2> QED BY <2>1, <2>2
<1>4. CASE Tick
  <2>1. /\ now' = now + 1 /\ inFlight' = inFlight /\ last' = last /\ errors' = errors
        /\ \/ counter'[d] = 0 /\ expiry'[d] = 0
           \/ counter'[d] = counter[d] /\ expiry'[d] = expiry[d]
    BY <1>4 DEF Tick
  <2> QED BY <1>a, <2>1, Types, Numbers DEF ExpiryInv
<1>5. CASE UNCHANGED vars
  BY <1>0, <1>5 DEF vars, redis
<1> QED BY <1>1, <1>2, <1>3, <1>4, <1>5 DEF Next

LEMMA RefusalStep ==
  ASSUME TypeOK, \A c \in Client : ExpiryInv(c), [Next]_vars,
         NEW d \in Client, refusals'[d] # refusals[d]
  PROVE  now < last[d] + Window \/ inFlight[d] > 0 \/ errors[d] >= Rpm
<1>1. PICK k \in Client : Limit(k)
  BY DEF Next, LimitError, Expire, Tick, vars
<1>2. k = d
  BY <1>1 DEF Limit, TypeOK
<1>3. counter[d] >= Rpm
  BY <1>1, <1>2, LimiterAssumption, SMT DEF Limit, IncrThenExpire, Incr, TypeOK
<1>4. /\ now \in Nat /\ last[d] \in Nat /\ expiry[d] \in Nat /\ counter[d] \in Nat
      /\ inFlight[d] \in Nat /\ errors[d] \in Nat
      /\ expiry[d] # 0 => now < expiry[d]
  BY DEF TypeOK
<1>5. /\ expiry[d] = 0 /\ inFlight[d] = 0 => counter[d] <= errors[d]
      /\ expiry[d] <= last[d] + Window
  BY DEF ExpiryInv
<1>6. Rpm \in Nat /\ Window \in Nat
  BY LimiterAssumption
<1>7. CASE expiry[d] # 0
  BY <1>4, <1>5, <1>6, <1>7
<1>8. CASE expiry[d] = 0
  BY <1>3, <1>4, <1>5, <1>6, <1>8
<1> QED BY <1>7, <1>8

\* A client that kept quiet for a window is not refused.
THEOREM QuietPass == Spec => QuietClientsPass
<1>1. Init => TypeOK /\ \A c \in Client : ExpiryInv(c)
  BY TypeInit, ExpiryInit
<1>2. TypeOK /\ (\A c \in Client : ExpiryInv(c)) /\ [Next]_vars
      => (TypeOK /\ \A c \in Client : ExpiryInv(c))'
  BY TypeStep, ExpiryStep
<1>3. TypeOK /\ (\A c \in Client : ExpiryInv(c)) /\ [Next]_vars
      => [\A c \in Client : refusals'[c] # refusals[c] =>
            \/ now < last[c] + Window
            \/ inFlight[c] > 0
            \/ errors[c] >= Rpm]_vars
  BY RefusalStep
<1> QED BY <1>1, <1>2, <1>3, PTL DEF Spec, QuietClientsPass
=============================================================================
