---------------------------- MODULE OutboxRelay ----------------------------
(***************************************************************************)
(* The outbox relay of the account-service and of the transfer-service:    *)
(* every two seconds it reads a batch of unpublished rows of outbox_events *)
(* in the order of their creation, publishes each to Kafka and marks it.   *)
(*                                                                         *)
(* Several instances may run; nothing keeps them from relaying the same    *)
(* rows.  A row is known here by its place in the order of created_at,     *)
(* which is the time its INSERT began: concurrent INSERTs may become       *)
(* visible in another order.                                               *)
(***************************************************************************)
EXTENDS Naturals, Sequences, FiniteSets, Functions

CONSTANTS
  Relay,        \* running instances, one relay each
  Limit,        \* rows read at once, 50 in the code
  MaxInserting, \* bound: INSERTs under way at a time
  MaxRows,      \* bound: rows ever saved
  MaxMishaps,   \* bound: how often each kind of mishap happens
  MaxTrouble    \* bound: mishaps of all kinds together

Mishap == {"publishError", "markError", "crash"}

ASSUME RelayAssumption ==
  /\ Limit \in Nat \ {0}
  /\ MaxInserting \in Nat /\ MaxRows \in Nat
  /\ MaxMishaps \in [Mishap -> Nat] /\ MaxTrouble \in Nat

VARIABLES
  inserting,    \* rows whose INSERT has begun and is not committed
  saved,        \* rows of the table, committed
  published,    \* rows whose column published is true
  log,          \* the topic: a sequence of rows
  batch,        \* batch[r]: what r has still to do of the batch it read
  sent,         \* sent[r]: r has published Head(batch[r]) and not marked it
  earlier,      \* history: earlier[n] were in the table when n's INSERT began
  missed,       \* history: rows for which a publish has returned an error
  mishaps

table == <<inserting, saved, earlier>>
vars == <<table, published, log, batch, sent, missed, mishaps>>

InLog == {log[n] : n \in DOMAIN log}

Init ==
  /\ inserting = {} /\ saved = {} /\ earlier = << >>
  /\ published = {} /\ log = << >> /\ missed = {}
  /\ batch = [r \in Relay |-> << >>]
  /\ sent = [r \in Relay |-> FALSE]
  /\ mishaps = [m \in Mishap |-> 0]

Suffer(m) ==
  /\ mishaps[m] < MaxMishaps[m] /\ SumFunction(mishaps) < MaxTrouble
  /\ mishaps' = [mishaps EXCEPT ![m] = @ + 1]

\* SaveEvent, by the service beside the relay: the INSERT draws NOW() ...
BeginSave ==
  /\ Len(earlier) < MaxRows /\ Cardinality(inserting) < MaxInserting
  /\ earlier' = Append(earlier, saved)
  /\ inserting' = inserting \cup {Len(earlier')}
  /\ UNCHANGED <<saved, published, log, batch, sent, missed, mishaps>>

\* ... and becomes visible to others when it returns.
CommitSave(n) ==
  /\ n \in inserting
  /\ inserting' = inserting \ {n}
  /\ saved' = saved \cup {n}
  /\ UNCHANGED <<earlier, published, log, batch, sent, missed, mishaps>>

\* Wrong: the relay remembers how far it got instead of what it marked.
AboveWatermark == {n \in saved : \A m \in published : m < n}

Unpublished == saved \ published

Batches(S) == UNION {[1 .. n -> S] : n \in 1 .. Limit}

\* Wrong: ORDER BY created_at DESC.
Newest(S) ==
  {b \in Batches(S) :
     /\ \A j, k \in DOMAIN b : j < k => b[j] > b[k]
     /\ \A x \in S : \/ \E k \in DOMAIN b : b[k] = x
                     \/ Len(b) = Limit /\ \A k \in DOMAIN b : b[k] > x}

\* The rows in S as a sequence, oldest first, at most Limit of them.
Oldest(S) ==
  {b \in Batches(S) :
     /\ \A j, k \in DOMAIN b : j < k => b[j] < b[k]
     /\ \A x \in S : \/ \E k \in DOMAIN b : b[k] = x
                     \/ Len(b) = Limit /\ \A k \in DOMAIN b : b[k] < x}

\* A tick with nothing to relay, or whose query fails, changes nothing.
GetUnpublished(r) ==
  /\ batch[r] = << >>
  /\ Unpublished # {}
  /\ \E b \in Oldest(Unpublished) : batch' = [batch EXCEPT ![r] = b]
  /\ UNCHANGED <<table, published, log, sent, missed, mishaps>>

\* Wrong: what was remembered of the event passed over stays.
AdvanceKeepsSent(r) == batch' = [batch EXCEPT ![r] = Tail(@)] /\ UNCHANGED sent

\* On to the next event of the batch.
Advance(r) ==
  /\ batch' = [batch EXCEPT ![r] = Tail(@)]
  /\ sent' = [sent EXCEPT ![r] = FALSE]

Publish(r) ==
  /\ batch[r] # << >> /\ ~sent[r]
  /\ log' = Append(log, Head(batch[r]))
  /\ sent' = [sent EXCEPT ![r] = TRUE]
  /\ UNCHANGED <<table, published, batch, missed, mishaps>>

\* Wrong: no continue after the error.
MarkedAfterError(r) ==
  /\ batch[r] # << >> /\ ~sent[r]
  /\ Suffer("publishError")
  /\ sent' = [sent EXCEPT ![r] = TRUE]
  /\ UNCHANGED <<table, published, log, batch, missed>>

\* ProduceSync returns an error: the event is passed over.  The record may
\* have reached the topic all the same.
PublishError(r) ==
  /\ batch[r] # << >> /\ ~sent[r]
  /\ Suffer("publishError")
  /\ log' \in {log, Append(log, Head(batch[r]))}
  /\ missed' = missed \cup {Head(batch[r])}
  /\ Advance(r)
  /\ UNCHANGED <<table, published>>

MarkPublished(r) ==
  /\ sent[r]
  /\ published' = published \cup {Head(batch[r])}
  /\ Advance(r)
  /\ UNCHANGED <<table, log, missed, mishaps>>

\* The UPDATE returns an error, which is logged; it may have taken effect.
MarkError(r) ==
  /\ sent[r]
  /\ Suffer("markError")
  /\ published' \in {published, published \cup {Head(batch[r])}}
  /\ Advance(r)
  /\ UNCHANGED <<table, log, missed>>

Crash(r) ==
  /\ batch[r] # << >>
  /\ Suffer("crash")
  /\ batch' = [batch EXCEPT ![r] = << >>]
  /\ sent' = [sent EXCEPT ![r] = FALSE]
  /\ UNCHANGED <<table, published, log, missed>>

Work(r) == GetUnpublished(r) \/ Publish(r) \/ MarkPublished(r)

Next ==
  \/ BeginSave \/ \E n \in 1 .. MaxRows : CommitSave(n)
  \/ \E r \in Relay : Work(r) \/ PublishError(r) \/ MarkError(r) \/ Crash(r)

Spec == Init /\ [][Next]_vars

\* The ticker of a live process keeps firing, and calls return.
Fairness == \A r \in Relay : WF_vars(Work(r))

LiveSpec == Spec /\ Fairness
-----------------------------------------------------------------------------
TypeOK ==
  /\ earlier \in Seq(SUBSET saved)
  /\ saved \cap inserting = {} /\ saved \cup inserting = DOMAIN earlier
  /\ published \subseteq saved
  /\ log \in Seq(saved) /\ missed \subseteq saved
  /\ batch \in [Relay -> Seq(saved)]
  /\ sent \in [Relay -> BOOLEAN]
  /\ \A r \in Relay : sent[r] => batch[r] # << >>
  /\ mishaps \in [Mishap -> Nat]

\* No row is marked whose event is not in the topic: a mark, once set, is
\* never looked at again, so a row marked too early would be lost.
MarkedIsInLog == published \subseteq InLog

\* The relays come to rest: whatever fails finitely often, every saved row is
\* marked in the end (and with MarkedIsInLog, is in the topic).
EverySavedMarked ==
  \A n \in 1 .. MaxRows : n \in saved ~> n \in published

\* A row that was in the table before another one was inserted is also published
\* before it, with several relays, repetitions and crashes: of two events of which
\* one caused the other, or which one handler saved, the later does not overtake the
\* earlier.  It does if a publish of the earlier one itself has returned an error, as
\* the loop then goes on with the next; a failed publish of any other is no excuse.
FirstInOrder ==
  \A n \in DOMAIN log : \A x \in earlier[log[n]] \ missed :
    \E m \in 1 .. (n - 1) : log[m] = x
-----------------------------------------------------------------------------
(* Why it is: the inductive invariant behind the safety properties.        *)

\* created_at only grows: what was in the table when n's INSERT began is older.
EarlierIsOlder == \A n \in DOMAIN earlier : \A x \in earlier[n] : x < n

SentIsInLog == \A r \in Relay : sent[r] => batch[r][1] \in InLog

\* What a row in a batch has to wait for is in the topic or in the batch before
\* it, because a batch leaves out no older row.
BatchesInOrder ==
  \A r \in Relay : \A k \in DOMAIN batch[r] : \A x \in earlier[batch[r][k]] \ missed :
    x \in InLog \/ \E j \in 1 .. (k - 1) : batch[r][j] = x

IInv ==
  /\ TypeOK
  /\ MarkedIsInLog /\ SentIsInLog
  /\ EarlierIsOlder /\ FirstInOrder /\ BatchesInOrder
=============================================================================
