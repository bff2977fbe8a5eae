---------------------------- MODULE RateLimiter ----------------------------
(***************************************************************************)
(* The api-gateway's rate limiter: one counter in Redis per RemoteAddr.    *)
(* Limit sends INCR and EXPIRE in one pipeline, which is no transaction:   *)
(* time passes and other requests' commands run between the two, and the   *)
(* pipeline may break off.  The verdict rests on the value INCR returned;  *)
(* EXPIRE renews the life of the counter with every request, the refused   *)
(* ones included.                                                          *)
(***************************************************************************)
EXTENDS Integers, Sequences, FiniteSets

CONSTANTS
  Client,       \* values of RemoteAddr
  Rpm,          \* requests let through per window
  Window,       \* life of a counter, one minute in the code
  MaxInFlight,  \* pipelines of one client between their two commands
  MaxAsked,     \* bound: requests per client
  MaxTime       \* bound: ticks of the clock

ASSUME LimiterAssumption ==
  /\ Rpm \in Nat /\ Window \in Nat \ {0} /\ MaxInFlight \in Nat \ {0}
  /\ MaxAsked \in Nat /\ MaxTime \in Nat

VARIABLES
  now,
  counter,    \* Redis: the value of each client's key, 0 if there is none
  expiry,     \* Redis: when the key goes, 0 if it stays
  inFlight,   \* inFlight[c]: pipelines whose EXPIRE Redis has yet to run
  stamps,     \* history: when the requests let through by count were counted
  refusals,   \* history: how many were answered 429
  errors,     \* history: how many were let through because Exec failed
  torn,       \* history: the counters that went while pipelines were under way
  last        \* history: when Redis last ran a command for the client

redis == <<counter, expiry, inFlight>>
vars == <<now, redis, stamps, refusals, errors, torn, last>>

Init ==
  /\ now = 0
  /\ counter = [c \in Client |-> 0] /\ expiry = [c \in Client |-> 0]
  /\ inFlight = [c \in Client |-> 0]
  /\ stamps = [c \in Client |-> << >>]
  /\ refusals = [c \in Client |-> 0] /\ errors = [c \in Client |-> 0]
  /\ torn = [c \in Client |-> {}]
  /\ last = [c \in Client |-> 0]

MayAsk(c) == Len(stamps[c]) + refusals[c] + errors[c] < MaxAsked

\* Redis runs the INCR; a key it has to create never expires.
Incr(c) ==
  /\ counter' = [counter EXCEPT ![c] = @ + 1]
  /\ last' = [last EXCEPT ![c] = now]
  /\ UNCHANGED <<now, expiry>>

\* The pipeline is under way: its EXPIRE will follow.
IncrThenExpire(c) ==
  /\ inFlight[c] < MaxInFlight
  /\ Incr(c)
  /\ inFlight' = [inFlight EXCEPT ![c] = @ + 1]

Limit(c) ==
  /\ MayAsk(c)
  /\ IncrThenExpire(c)
  /\ IF counter'[c] > Rpm
     THEN refusals' = [refusals EXCEPT ![c] = @ + 1] /\ UNCHANGED stamps
     ELSE stamps' = [stamps EXCEPT ![c] = Append(@, now)] /\ UNCHANGED refusals
  /\ UNCHANGED <<errors, torn>>

\* Exec fails: the request is let through.  Redis has run neither command, or
\* INCR alone, or it runs both although their answers are lost.
LimitError(c) ==
  /\ MayAsk(c)
  /\ errors' = [errors EXCEPT ![c] = @ + 1]
  /\ \/ UNCHANGED <<now, redis, last>>
     \/ Incr(c) /\ UNCHANGED inFlight
     \/ IncrThenExpire(c)
  /\ UNCHANGED <<stamps, refusals, torn>>

\* Wrong: only a counter without an expiry gets one, a fixed window.
ExpireOnce(c) ==
  /\ inFlight[c] > 0
  /\ inFlight' = [inFlight EXCEPT ![c] = @ - 1]
  /\ expiry' = IF counter[c] > 0 /\ expiry[c] = 0
               THEN [expiry EXCEPT ![c] = now + Window] ELSE expiry
  /\ last' = [last EXCEPT ![c] = now]
  /\ UNCHANGED <<now, counter, stamps, refusals, errors, torn>>

\* Wrong: the expiry of a key that is gone is remembered for the next one.
ExpireUnborn(c) ==
  /\ inFlight[c] > 0
  /\ inFlight' = [inFlight EXCEPT ![c] = @ - 1]
  /\ expiry' = [expiry EXCEPT ![c] = now + Window]
  /\ last' = [last EXCEPT ![c] = now]
  /\ UNCHANGED <<now, counter, stamps, refusals, errors, torn>>

\* Wrong: the EXPIRE is left out.
ExpireForgotten(c) ==
  /\ inFlight[c] > 0
  /\ inFlight' = [inFlight EXCEPT ![c] = @ - 1]
  /\ last' = [last EXCEPT ![c] = now]
  /\ UNCHANGED <<now, counter, expiry, stamps, refusals, errors, torn>>

\* Redis runs the EXPIRE, which does nothing for a key that is gone.
Expire(c) ==
  /\ inFlight[c] > 0
  /\ inFlight' = [inFlight EXCEPT ![c] = @ - 1]
  /\ expiry' = IF counter[c] > 0 THEN [expiry EXCEPT ![c] = now + Window] ELSE expiry
  /\ last' = [last EXCEPT ![c] = now]
  /\ UNCHANGED <<now, counter, stamps, refusals, errors, torn>>

Torn(c) == [at |-> now + 1, left |-> inFlight[c]]

\* Time passes; keys whose time has come are gone.
Tick ==
  /\ now < MaxTime
  /\ now' = now + 1
  /\ counter' = [c \in Client |-> IF expiry[c] = now' THEN 0 ELSE counter[c]]
  /\ expiry' = [c \in Client |-> IF expiry[c] = now' THEN 0 ELSE expiry[c]]
  /\ torn' = [c \in Client |-> IF expiry[c] = now' /\ inFlight[c] > 0
                              THEN torn[c] \cup {Torn(c)} ELSE torn[c]]
  /\ UNCHANGED <<inFlight, stamps, refusals, errors, last>>

Next ==
  \/ \E c \in Client : Limit(c) \/ LimitError(c) \/ Expire(c)
  \/ Tick

Spec == Init /\ [][Next]_vars
-----------------------------------------------------------------------------
TypeOK ==
  /\ now \in Nat
  /\ counter \in [Client -> Nat] /\ expiry \in [Client -> Nat]
  /\ inFlight \in [Client -> 0 .. MaxInFlight]
  /\ stamps \in [Client -> Seq(Nat)]
  /\ refusals \in [Client -> Nat] /\ errors \in [Client -> Nat]
  /\ torn \in [Client -> SUBSET [at : Nat, left : Nat]]
  /\ last \in [Client -> Nat]
  /\ \A c \in Client : expiry[c] # 0 => counter[c] > 0 /\ now < expiry[c]

\* One of the torn counters T went between two instants, and the pipelines it left
\* behind account for what was let through beyond the requests known.
Explained(T, from, to, through, known) ==
  \E k \in T : from <= k.at /\ k.at <= to /\ through <= known + k.left

\* In no window, wherever it starts, does a client get more requests through by
\* count than the limit, unless the counter went in the middle of that window with
\* pipelines between their two commands; and then at most as many more as there
\* were of those.
WindowRespected ==
  \A c \in Client : \A n, m \in DOMAIN stamps[c] :
    n + Rpm <= m /\ stamps[c][m] < stamps[c][n] + Window =>
      Explained(torn[c], stamps[c][n], stamps[c][m], m - n + 1, Rpm)

\* A client that has kept quiet for a window is let through: whoever is refused
\* was heard of within the last window, unless one of his pipelines is still between
\* its two commands or errors alone filled a counter that never got an expiry.
QuietClientsPass ==
  [][\A c \in Client : refusals'[c] # refusals[c] =>
       \/ now < last[c] + Window
       \/ inFlight[c] > 0
       \/ errors[c] >= Rpm]_vars
-----------------------------------------------------------------------------
(* Why it is: the inductive invariant behind the properties.               *)

\* Of a request let through at an instant, and more after it: the counter, now at v,
\* knows of all of them, or they are a window old, or a torn counter explains them.
Known(T, at, more, v, t) ==
  more >= v /\ t < at + Window => Explained(T, at, t, more + 1, v)

\* And when the counter goes, at e, pipelines under way know of all of them, w of
\* those, or they are a window old.
Covered(at, more, w, e) == e # 0 /\ more >= w => at + Window <= e

CounterInv(c) ==
  \A n \in DOMAIN stamps[c] :
    LET more == Len(stamps[c]) - n
    IN  /\ stamps[c][n] <= now
        /\ Known(torn[c], stamps[c][n], more, counter[c], now)
        /\ Covered(stamps[c][n], more, inFlight[c], expiry[c])

\* A counter that nobody will give an expiry was filled by errors; one that has
\* an expiry was used less than a window before it.
ExpiryInv(c) ==
  /\ expiry[c] = 0 /\ inFlight[c] = 0 => counter[c] <= errors[c]
  /\ last[c] <= now
  /\ expiry[c] <= last[c] + Window

IInv ==
  /\ TypeOK
  /\ WindowRespected
  /\ \A c \in Client : CounterInv(c) /\ ExpiryInv(c)
=============================================================================
