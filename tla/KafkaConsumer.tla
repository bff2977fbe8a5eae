--------------------------- MODULE KafkaConsumer ---------------------------
(***************************************************************************)
(* The consumption loop of the services (Consumer.Start) over the franz-go *)
(* group consumer it drives, for one topic partition.                      *)
(*                                                                         *)
(* The client runs with its defaults: it commits offsets in the background *)
(* and what it may commit is what was handed out by the polls before the   *)
(* latest one.  Calling PollFetches again is therefore what acknowledges a *)
(* batch; no record is acknowledged on its own, and a handler's error is   *)
(* logged by the service and reaches nobody.                               *)
(*                                                                         *)
(* Offsets count from 1; an offset of 0 stands for "before the first".     *)
(***************************************************************************)
EXTENDS Naturals, Sequences

CONSTANT Instance    \* running copies of the service, one group

VARIABLES
  log,         \* the partition, append only
  owner,       \* the instance the partition is assigned to
  position,    \* the owner has been handed the records up to here
  head,        \* where the owner's latest poll started
  committed,   \* the offset the group resumes from
  todo,        \* todo[i]: offsets of i's latest poll not yet dispatched
  cur,         \* cur[i]: offset i's handler is working on, 0 if none
  handled,     \* history: offsets some handler has returned from
  skipped      \* history: offsets a poll returned along with fetch errors

groupVars == <<owner, position, head, committed, todo, cur, handled, skipped>>

Init ==
  /\ owner \in Instance
  /\ position = 0 /\ head = 0 /\ committed = 0
  /\ todo = [i \in Instance |-> << >>]
  /\ cur = [i \in Instance |-> 0]
  /\ handled = {} /\ skipped = {}

\* The loop of i stands at PollFetches.
Idle(i) == todo[i] = << >> /\ cur[i] = 0

\* Wrong: a batch is acknowledged as soon as it is handed out.
CommittableOnPoll == position

\* The background committer acknowledges the polls before the latest one; a
\* client that is back in PollFetches has none outstanding.
Committable == IF Idle(owner) THEN position ELSE head

\* PollFetches returns whatever the owner has buffered, at least one record,
\* and EachRecord goes through it in order.
Poll(i) ==
  /\ i = owner /\ Idle(i)
  /\ \E n \in (position + 1) .. Len(log) :
       /\ todo' = [todo EXCEPT ![i] = [k \in 1 .. (n - position) |-> position + k]]
       /\ position' = n
  /\ head' = position
  /\ UNCHANGED <<owner, committed, cur, handled, skipped>>

\* fetches.Errors() is not empty: the loop logs the errors and polls again.
\* The records that came in the same fetches are never dispatched.
PollErrors(i) ==
  /\ i = owner /\ Idle(i)
  /\ \E n \in (position + 1) .. Len(log) :
       /\ position' = n
       /\ skipped' = skipped \cup (position + 1) .. n
  /\ head' = position
  /\ UNCHANGED <<owner, committed, todo, cur, handled>>

\* Wrong: a goroutine per record.
BeginAtOnce(i) ==
  /\ todo[i] # << >>
  /\ cur' = [cur EXCEPT ![i] = Head(todo[i])]
  /\ todo' = [todo EXCEPT ![i] = Tail(@)]
  /\ UNCHANGED <<owner, position, head, committed, handled, skipped>>

\* EachRecord calls handleRecord with the next record ...
Begin(i) ==
  /\ cur[i] = 0 /\ todo[i] # << >>
  /\ cur' = [cur EXCEPT ![i] = Head(todo[i])]
  /\ todo' = [todo EXCEPT ![i] = Tail(@)]
  /\ UNCHANGED <<owner, position, head, committed, handled, skipped>>

\* ... and handleRecord returns, whatever the outcome.
Finish(i) ==
  /\ cur[i] # 0
  /\ handled' = handled \cup {cur[i]}
  /\ cur' = [cur EXCEPT ![i] = 0]
  /\ UNCHANGED <<owner, position, head, committed, todo, skipped>>

AutoCommit ==
  /\ committed < Committable
  /\ committed' = Committable
  /\ UNCHANGED <<owner, position, head, todo, cur, handled, skipped>>

\* The group moves the partition.  The new owner resumes from the committed
\* offset; the old one still works through the batch it holds.
Rebalance(j) ==
  /\ j # owner
  /\ owner' = j
  /\ position' = committed /\ head' = committed
  /\ UNCHANGED <<committed, todo, cur, handled, skipped>>

\* The process dies and comes back with nothing in memory.
Restart(i) ==
  /\ todo' = [todo EXCEPT ![i] = << >>]
  /\ cur' = [cur EXCEPT ![i] = 0]
  /\ position' = IF i = owner THEN committed ELSE position
  /\ head' = IF i = owner THEN committed ELSE head
  /\ UNCHANGED <<owner, committed, handled, skipped>>

Step(i) ==
  \/ Poll(i) \/ PollErrors(i) \/ Begin(i) \/ Finish(i)
  \/ AutoCommit \/ Rebalance(i) \/ Restart(i)

TypeOK ==
  /\ owner \in Instance
  /\ position \in Nat /\ head \in Nat /\ committed \in Nat
  /\ todo \in [Instance -> Seq(Nat \ {0})]
  /\ cur \in [Instance -> Nat]
  /\ handled \subseteq Nat /\ skipped \subseteq Nat

Done == handled \cup skipped

Pending(i) == {cur[i]} \cup {todo[i][k] : k \in DOMAIN todo[i]}

\* What keeps the group from resuming behind a record nobody handled: all the
\* owner was ever handed is done, or is in the batch it works through, and all
\* but its latest batch is done.
NothingLost ==
  /\ head <= position /\ committed <= position /\ position <= Len(log)
  /\ 1 .. head \subseteq Done
  /\ 1 .. committed \subseteq Done
  /\ 1 .. position \subseteq Done \cup Pending(owner)
  /\ \A i \in Instance : Pending(i) \subseteq 0 .. Len(log)
=============================================================================
