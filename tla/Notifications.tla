--------------------------- MODULE Notifications ---------------------------
(***************************************************************************)
(* The notification-service: for every outcome event its handler saves one *)
(* notification per channel, one after the other; a Save that fails is     *)
(* logged and the next channel is tried.                                   *)
(***************************************************************************)
EXTENDS Naturals, Sequences, FiniteSets, FiniteSetsExt

CONSTANTS
  Instance,
  Event,
  NoEvent,
  MaxMishaps    \* bound: how often each kind of mishap happens

\* The channels in the order they are told on.
Channels == <<"email", "sms">>

Mishap == {"dbError", "fetchError", "redelivery", "crash"}

\* There are finitely many running copies.
ASSUME NotificationAssumption ==
  /\ NoEvent \notin Event
  /\ IsFiniteSet(Instance)
  /\ MaxMishaps \in [Mishap -> Nat]

VARIABLES
  published, cur, handled, skipped,
  told,       \* told[i]: how many channels i's handler is done with
  saved,      \* table notifications: saved[e][c] rows tell of e on channel c
  spoiled,    \* history: <<e, c>> whose Save failed some time
  mishaps

Topics == INSTANCE Delivery

delivery == <<published, cur, handled, skipped>>
vars == <<delivery, told, saved, spoiled, mishaps>>

Init ==
  /\ Topics!Init
  /\ told = [i \in Instance |-> 0]
  /\ saved = [e \in Event |-> [c \in DOMAIN Channels |-> 0]]
  /\ spoiled = {}
  /\ mishaps = [m \in Mishap |-> 0]

Suffer(m) ==
  /\ mishaps[m] < MaxMishaps[m]
  /\ mishaps' = [mishaps EXCEPT ![m] = @ + 1]

Publish(e) ==
  /\ e \notin published
  /\ Topics!Publish(e)
  /\ UNCHANGED <<told, saved, spoiled, mishaps>>

Begin(i, e) ==
  /\ Topics!Begin(i, e)
  /\ IF Topics!Again(e) THEN Suffer("redelivery") ELSE UNCHANGED mishaps
  /\ UNCHANGED <<told, saved, spoiled>>

\* Wrong: the next event starts where the last one ended.
KeepPlace(i) ==
  /\ told' = [told EXCEPT ![i] = @ + 1]
  /\ IF told[i] + 1 < Len(Channels) THEN UNCHANGED delivery ELSE Topics!Finish(i)

\* The loop goes on to the next channel; after the last the handler returns.
NextChannel(i) ==
  IF told[i] + 1 < Len(Channels)
  THEN told' = [told EXCEPT ![i] = @ + 1] /\ UNCHANGED delivery
  ELSE told' = [told EXCEPT ![i] = 0] /\ Topics!Finish(i)

AddRow(i) == saved' = [saved EXCEPT ![cur[i]][told[i] + 1] = @ + 1]

Save(i) ==
  /\ cur[i] # NoEvent
  /\ AddRow(i)
  /\ NextChannel(i)
  /\ UNCHANGED <<spoiled, mishaps>>

\* Wrong: the loop is left at the first error.
SaveErrorReturns(i) ==
  /\ cur[i] # NoEvent
  /\ Suffer("dbError")
  /\ spoiled' = spoiled \cup {<<cur[i], told[i] + 1>>}
  /\ AddRow(i) \/ UNCHANGED saved
  /\ told' = [told EXCEPT ![i] = 0] /\ Topics!Finish(i)

\* Wrong: a Save that failed is tried again.
SaveErrorRetries(i) ==
  /\ cur[i] # NoEvent
  /\ Suffer("dbError")
  /\ spoiled' = spoiled \cup {<<cur[i], told[i] + 1>>}
  /\ AddRow(i) \/ UNCHANGED saved
  /\ UNCHANGED <<delivery, told>>

\* The error is logged; the row may be there all the same.
SaveError(i) ==
  /\ cur[i] # NoEvent
  /\ Suffer("dbError")
  /\ spoiled' = spoiled \cup {<<cur[i], told[i] + 1>>}
  /\ AddRow(i) \/ UNCHANGED saved
  /\ NextChannel(i)

FetchError(e) ==
  /\ Suffer("fetchError")
  /\ e \notin skipped /\ Topics!Skip({e})
  /\ UNCHANGED <<told, saved, spoiled>>

Crash(i) ==
  /\ Suffer("crash")
  /\ Topics!Drop(i)
  /\ told' = [told EXCEPT ![i] = 0]
  /\ UNCHANGED <<saved, spoiled>>

Work(i) == (\E e \in Event : Begin(i, e)) \/ Save(i)

Next ==
  \/ \E e \in Event : Publish(e) \/ FetchError(e)
  \/ \E i \in Instance : Work(i) \/ SaveError(i) \/ Crash(i)

Spec == Init /\ [][Next]_vars

\* The consumer goroutine of a live process keeps running; statements return.
Fairness == \A i \in Instance : WF_vars(Work(i))

LiveSpec == Spec /\ Fairness
-----------------------------------------------------------------------------
TypeOK ==
  /\ Topics!TypeOK
  /\ told \in [Instance -> 0 .. Len(Channels) - 1]
  /\ \A i \in Instance : cur[i] = NoEvent => told[i] = 0
  /\ saved \in [Event -> [DOMAIN Channels -> Nat]]
  /\ spoiled \subseteq published \X DOMAIN Channels
  /\ mishaps \in [Mishap -> Nat]

\* The channels on which an event that was handled has not been told.
Missing == {m \in handled \X DOMAIN Channels : saved[m[1]][m[2]] = 0}

\* A Save that fails costs no other notification: neither the event's other
\* channel nor another event, whoever handles what at the same time.
OneErrorOneNotification == Missing \subseteq spoiled

\* The channels a handler is done with have their row or their error.
LoopInv ==
  \A i \in Instance : cur[i] # NoEvent =>
    /\ cur[i] \in published
    /\ \A c \in 1 .. told[i] : saved[cur[i]][c] > 0 \/ <<cur[i], c>> \in spoiled

IInv == TypeOK /\ OneErrorOneNotification /\ LoopInv

\* Nobody is told of what was not announced, and no event is told on a channel more
\* than once and once more for each repetition and each crash, of whatever event or
\* handler these were: where nothing comes twice and no handler is cut short, nobody
\* is told twice, however many Saves fail.
RepeatsHaveReasons ==
  \A e \in Event, c \in DOMAIN Channels :
    saved[e][c] <= IF e \in published THEN 1 + mishaps["redelivery"] + mishaps["crash"] ELSE 0

\* The handlers at work on e that have still to try channel c.
Untold(e, c) == {i \in Instance : cur[i] = e /\ told[i] < c}

\* Why it is: what has been told of an event, what the handlers at work on it
\* will tell and what its first delivery will are paid for by that delivery, its
\* repetitions and the crashes.
TellingsPaid ==
  \A e \in Event, c \in DOMAIN Channels :
    /\ saved[e][c] + Cardinality(Untold(e, c)) + (IF Topics!Again(e) THEN 0 ELSE 1)
         <= 1 + mishaps["redelivery"] + mishaps["crash"]
    /\ e \notin published => saved[e][c] = 0

\* Every outcome is told on every channel in the end, unless that very Save
\* failed or a fetch error swallowed the event.
EveryOutcomeTold ==
  \A e \in Event, c \in DOMAIN Channels :
    e \in published ~> saved[e][c] > 0 \/ <<e, c>> \in spoiled \/ e \in skipped
=============================================================================
