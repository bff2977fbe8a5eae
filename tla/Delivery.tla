------------------------------ MODULE Delivery ------------------------------
(***************************************************************************)
(* What a service can rely on of the events it consumes, whatever relays,  *)
(* topics, partitions and consumer groups do in between: an event is       *)
(* handled after it was published, any number of times, by any instances,  *)
(* also at the same time, and in any order.  KafkaConsumer says how this   *)
(* comes about.                                                            *)
(***************************************************************************)
CONSTANTS
  Instance,    \* running copies of the service
  Event,
  NoEvent      \* in place of the event an idle instance works on

VARIABLES
  published,   \* events in their topics
  cur,         \* cur[i]: the event i's handler is working on
  handled,     \* events some handler has returned from
  skipped      \* events a poll returned along with a fetch error

vars == <<published, cur, handled, skipped>>

Init ==
  /\ published = {}
  /\ cur = [i \in Instance |-> NoEvent]
  /\ handled = {} /\ skipped = {}

Publish(e) ==
  /\ published' = published \cup {e}
  /\ UNCHANGED <<cur, handled, skipped>>

\* It takes a relay that publishes twice, a rebalance or a restart for e to be
\* handed out once more.
Again(e) == e \in handled \cup skipped \/ \E i \in Instance : cur[i] = e

Begin(i, e) ==
  /\ cur[i] = NoEvent
  /\ e \in published
  /\ cur' = [cur EXCEPT ![i] = e]
  /\ UNCHANGED <<published, handled, skipped>>

Finish(i) ==
  /\ cur[i] # NoEvent
  /\ handled' = handled \cup {cur[i]}
  /\ cur' = [cur EXCEPT ![i] = NoEvent]
  /\ UNCHANGED <<published, skipped>>

\* The process of i dies; what it was working on is handed out again.
Drop(i) ==
  /\ cur[i] # NoEvent
  /\ cur' = [cur EXCEPT ![i] = NoEvent]
  /\ UNCHANGED <<published, handled, skipped>>

\* The consumption loop continues after a fetch error without dispatching the
\* events in S; an instance that has lost a partition may still be at work on one.
Skip(S) ==
  /\ S \subseteq published
  /\ skipped' = skipped \cup S
  /\ UNCHANGED <<published, cur, handled>>

Next ==
  \/ \E e \in Event : Publish(e)
  \/ \E i \in Instance : Finish(i) \/ Drop(i) \/ \E e \in published : Begin(i, e)
  \/ \E S \in SUBSET published : Skip(S)

Spec == Init /\ [][Next]_vars

TypeOK ==
  /\ published \subseteq Event
  /\ cur \in [Instance -> Event \cup {NoEvent}]
  /\ handled \subseteq published /\ skipped \subseteq published
=============================================================================
