-------------------------- MODULE TransferOutcomes --------------------------
(***************************************************************************)
(* The other half of the transfer-service: HandleTransferCompleted and     *)
(* HandleTransferFailed read the transfer an outcome event is about, mark  *)
(* it and write it back under the version they read.  Neither looks at the *)
(* status it finds.                                                        *)
(*                                                                         *)
(* Every transfer here has its row: TransferRequests shows that a transfer *)
(* is requested only after its row is in the table.                        *)
(***************************************************************************)
EXTENDS Naturals, FiniteSets

CONSTANTS
  Instance,
  Transfer,
  Event,        \* outcome events the account-service may publish
  NoEvent,
  NoRow,        \* an instance holds no copy
  MaxMishaps    \* bound: how often each kind of mishap happens

Status == {"pending", "completed", "failed"}

\* The event of a topic, transfers.completed or transfers.failed.
Events == [outcome : {"completed", "failed"}, transfer : Transfer]

\* What the reason says is left out, that there is one is not.
Row == [status : Status, reason : {"none", "given"}, version : Nat \ {0}]

Mishap == {"dbError", "fetchError", "redelivery", "crash"}

ASSUME OutcomeAssumption ==
  /\ Event \subseteq Events
  /\ NoEvent \notin Event
  /\ NoRow \notin Row
  /\ MaxMishaps \in [Mishap -> Nat]

VARIABLES
  published, cur, handled, skipped,
  pc,         \* pc[i]: the statement i's handler issues next
  copy,       \* copy[i]: the row it read, marked
  rows,       \* table transfers
  spoiled,    \* history: events a statement failed for
  mishaps

Topics == INSTANCE Delivery

delivery == <<published, cur, handled, skipped>>
vars == <<delivery, pc, copy, rows, spoiled, mishaps>>

Stage == {"idle", "read", "update"}

Init ==
  /\ Topics!Init
  /\ pc = [i \in Instance |-> "idle"]
  /\ copy = [i \in Instance |-> NoRow]
  /\ rows = [t \in Transfer |-> [status |-> "pending", reason |-> "none", version |-> 1]]
  /\ spoiled = {}
  /\ mishaps = [m \in Mishap |-> 0]

Suffer(m) ==
  /\ mishaps[m] < MaxMishaps[m]
  /\ mishaps' = [mishaps EXCEPT ![m] = @ + 1]

MarkCompleted(row) == [row EXCEPT !.status = "completed", !.version = @ + 1]

MarkFailed(row) ==
  [row EXCEPT !.status = "failed", !.reason = "given", !.version = @ + 1]

\* Wrong: the version stays as it was read.
MarkedInPlace(row, e) ==
  IF e.outcome = "completed" THEN [row EXCEPT !.status = "completed"]
  ELSE [row EXCEPT !.status = "failed", !.reason = "given"]

\* Wrong: the topics call each other's handlers.
MarkedOtherwise(row, e) ==
  IF e.outcome = "completed" THEN MarkFailed(row) ELSE MarkCompleted(row)

Mark(row, e) == IF e.outcome = "completed" THEN MarkCompleted(row) ELSE MarkFailed(row)

\* Wrong: the WHERE clause has lost its version.
AnyVersion(t, row) == row # NoRow

\* UPDATE transfers ... WHERE id = t AND version = row.version - 1 finds a row.
CanUpdate(t, row) == rows[t].version = row.version - 1

\* Wrong: the handler does not let go of its copy.
ReturnWithCopy(i) ==
  /\ Topics!Finish(i)
  /\ pc' = [pc EXCEPT ![i] = "idle"]
  /\ UNCHANGED copy

\* The handler returns; handleRecord logs its error, if any.
Return(i) ==
  /\ Topics!Finish(i)
  /\ pc' = [pc EXCEPT ![i] = "idle"]
  /\ copy' = [copy EXCEPT ![i] = NoRow]
-----------------------------------------------------------------------------
Publish(e) ==
  /\ e \notin published
  /\ Topics!Publish(e)
  /\ UNCHANGED <<pc, copy, rows, spoiled, mishaps>>

\* handleRecord: the topic decides which handler is called.
Begin(i, e) ==
  /\ Topics!Begin(i, e)
  /\ IF Topics!Again(e) THEN Suffer("redelivery") ELSE UNCHANGED mishaps
  /\ pc' = [pc EXCEPT ![i] = "read"]
  /\ UNCHANGED <<copy, rows, spoiled>>

Read(i) ==
  /\ pc[i] = "read"
  /\ copy' = [copy EXCEPT ![i] = Mark(rows[cur[i].transfer], cur[i])]
  /\ pc' = [pc EXCEPT ![i] = "update"]
  /\ UNCHANGED <<delivery, rows, spoiled, mishaps>>

Update(i) ==
  /\ pc[i] = "update"
  /\ CanUpdate(cur[i].transfer, copy[i])
  /\ rows' = [rows EXCEPT ![cur[i].transfer] = copy[i]]
  /\ Return(i)
  /\ UNCHANGED <<spoiled, mishaps>>

\* ErrOptimisticLock: the error is logged, the outcome forgotten.
UpdateRefused(i) ==
  /\ pc[i] = "update"
  /\ ~CanUpdate(cur[i].transfer, copy[i])
  /\ Return(i)
  /\ UNCHANGED <<rows, spoiled, mishaps>>

\* A statement fails; the UPDATE may have taken effect.
StatementError(i) ==
  /\ pc[i] # "idle"
  /\ Suffer("dbError")
  /\ spoiled' = spoiled \cup {cur[i]}
  /\ \/ UNCHANGED rows
     \/ /\ pc[i] = "update" /\ CanUpdate(cur[i].transfer, copy[i])
        /\ rows' = [rows EXCEPT ![cur[i].transfer] = copy[i]]
  /\ Return(i)

FetchError(e) ==
  /\ Suffer("fetchError")
  /\ e \notin skipped /\ Topics!Skip({e})
  /\ UNCHANGED <<pc, copy, rows, spoiled>>

Crash(i) ==
  /\ Suffer("crash")
  /\ Topics!Drop(i)
  /\ pc' = [pc EXCEPT ![i] = "idle"]
  /\ copy' = [copy EXCEPT ![i] = NoRow]
  /\ UNCHANGED <<rows, spoiled>>
-----------------------------------------------------------------------------
Work(i) ==
  \/ \E e \in Event : Begin(i, e)
  \/ Read(i) \/ Update(i) \/ UpdateRefused(i)

Next ==
  \/ \E e \in Event : Publish(e) \/ FetchError(e)
  \/ \E i \in Instance : Work(i) \/ StatementError(i) \/ Crash(i)

Spec == Init /\ [][Next]_vars

\* The consumer goroutine of a live process keeps running; statements return.
Fairness == \A i \in Instance : WF_vars(Work(i))

LiveSpec == Spec /\ Fairness
-----------------------------------------------------------------------------
TypeOK ==
  /\ Topics!TypeOK
  /\ pc \in [Instance -> Stage]
  /\ copy \in [Instance -> Row \cup {NoRow}]
  /\ rows \in [Transfer -> Row]
  /\ \A i \in Instance : /\ pc[i] = "idle" <=> cur[i] = NoEvent
                         /\ pc[i] = "update" <=> copy[i] # NoRow
  /\ spoiled \subseteq published
  /\ mishaps \in [Mishap -> Nat]

OutcomesOf(t) == {e \in published : e.transfer = t}

\* The status a client reads was announced by the account-service for this
\* very transfer, whichever copies of which rows are written when; and a
\* failure reason is shown only where a failure was announced.
StatusWasAnnounced ==
  \A t \in Transfer :
    /\ rows[t].status # "pending" => \E e \in OutcomesOf(t) : e.outcome = rows[t].status
    /\ rows[t].reason = "given" => \E e \in OutcomesOf(t) : e.outcome = "failed"

\* What an instance is about to write was announced as well, for the transfer it
\* is going to write it to.
CopiesInv ==
  \A i \in Instance :
    /\ cur[i] # NoEvent => cur[i] \in published
    /\ copy[i] # NoRow =>
         /\ copy[i].status = cur[i].outcome
         /\ copy[i].reason = "given" => \E e \in OutcomesOf(cur[i].transfer) : e.outcome = "failed"

IInv == TypeOK /\ StatusWasAnnounced /\ CopiesInv

\* Two instances that read the same version do not both write: a row changes
\* only under a version of its own, the next one.
VersionNamesContent ==
  [][\A t \in Transfer : rows'[t] # rows[t] => rows'[t].version = rows[t].version + 1]_vars

\* An announced outcome is recorded: a lost race means another outcome of the
\* same transfer was recorded, and a crash or rebalance loses none.  Only an
\* error of the database or a fetch error, about an outcome of the transfer
\* itself, can keep it pending.
OutcomesRecorded ==
  \A t \in Transfer :
    OutcomesOf(t) # {} ~>
      \/ rows[t].status # "pending"
      \/ OutcomesOf(t) \cap (skipped \cup spoiled) # {}

\* README.md: "Transfer statuses: pending -> completed | failed".  A status
\* that is not pending stays.
StatusIsFinal ==
  [][\A t \in Transfer : rows[t].status # "pending" => rows'[t].status = rows[t].status]_vars
=============================================================================
