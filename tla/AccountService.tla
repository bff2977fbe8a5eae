--------------------------- MODULE AccountService ---------------------------
(***************************************************************************)
(* The account-service: accounts in PostgreSQL, and one Kafka consumer per *)
(* running instance whose handler, ProcessTransferRequested, moves money   *)
(* between two accounts and records the outcome in the outbox.             *)
(*                                                                         *)
(* The handler runs no database transaction: it reads two rows, computes   *)
(* the new balances in memory, and issues two UPDATEs and one INSERT.  Each*)
(* of these statements is one action here, so that statements of several   *)
(* instances interleave, fail, or are cut short by a crash.                *)
(***************************************************************************)
EXTENDS Numeric, Integers, Sequences, FiniteSets, FiniteSetsExt

CONSTANTS
  Account,       \* ids CreateAccount draws, each at most once
  Stranger,      \* ids no account ever has
  Currency,
  Deposit,       \* initial balances clients ask for, negative ones included
  Instance,
  Transfer,      \* transfer ids
  Order,         \* Order[t]: what the event of transfer t asks for
  NoRow,         \* what GetByID returns for an id without a row
  MaxRequested,  \* bound: events the topic ever holds
  MaxMishaps     \* bound: how often each kind of mishap happens

AccountId == Account \cup Stranger

Orders == [source : AccountId, dest : AccountId,
           amount : Nat \ {0}, currency : Currency]

Mishap == {"dbError", "fetchError", "rebalance", "crash"}

\* NewTransfer lets no order pass that is not of a positive amount between
\* two different accounts.  Ids are UUIDs, of which there are finitely many.
ASSUME ServiceAssumption ==
  /\ Order \in [Transfer -> Orders]
  /\ \A t \in Transfer : Order[t].source # Order[t].dest
  /\ Deposit \subseteq Int
  /\ Account \cap Stranger = {}
  /\ IsFiniteSet(Account) /\ IsFiniteSet(Transfer)
  /\ IsFiniteSet(Instance)
  /\ MaxRequested \in Nat
  /\ MaxMishaps \in [Mishap -> Nat]

Status == {"active", "inactive", "frozen"}

Row == [balance : Nat, currency : Currency, status : Status, version : Nat \ {0}]

ASSUME NoRowAssumption ==
  NoRow \notin Row \cup [balance : Nat, currency : Currency]

VARIABLES
  requested,   \* topic transfers.requested: a sequence of transfer ids
  owner, position, head, committed, todo, cur, handled, skipped,
  pc,          \* pc[i]: the statement i's handler issues next
  source,      \* source[i], dest[i]: its copies of the two rows
  dest,
  accounts,    \* table accounts
  outbox,      \* table outbox_events, in insertion order
  opening,     \* history: the balance each account was opened with
  debited,     \* history: debited[i][t] counts the source updates that took
  credited,    \*   effect in i's handlings of t, credited[i][t] those of dest
  mishaps      \* mishaps so far, by kind

Group == INSTANCE KafkaConsumer WITH log <- requested

group == <<owner, position, head, committed, todo, cur, handled, skipped>>
copies == <<source, dest>>
books == <<accounts, opening, debited, credited>>
vars == <<requested, group, pc, copies, books, outbox, mishaps>>

Stage == {"idle", "readSource", "readDest", "updateSource", "updateDest",
          "saveCompleted", "saveFailed"}
-----------------------------------------------------------------------------
(* The domain: NewAccount; Account.Debit and Account.Credit on a row's copy. *)

NewAccount(c, deposit) ==
  [balance |-> deposit, currency |-> c, status |-> "active", version |-> 1]

CreditRefused(row, order) ==
  \/ order.amount <= 0
  \/ row.status = "frozen"
  \/ row.currency # order.currency

\* Wrong: overdrafts are not refused.
OverdraftAllowed(row, order) == CreditRefused(row, order)

DebitRefused(row, order) ==
  \/ CreditRefused(row, order)
  \/ row.balance < order.amount

Debit(row, order) ==
  [row EXCEPT !.balance = @ - order.amount, !.version = @ + 1]

Credit(row, order) ==
  [row EXCEPT !.balance = @ + order.amount, !.version = @ + 1]
-----------------------------------------------------------------------------
(* The repository.                                                         *)

GetByID(id) == IF id \in Account THEN accounts[id] ELSE NoRow

\* Wrong: the WHERE clause has lost its version.
AnyVersion(a, row) == GetByID(a) # NoRow /\ Fits(row.balance)

\* UPDATE accounts ... WHERE id = a AND version = row.version - 1 finds a row
\* and the balance fits the column; otherwise the caller gets an error.
CanUpdate(a, row) ==
  /\ GetByID(a) # NoRow
  /\ accounts[a].version = row.version - 1
  /\ Fits(row.balance)

\* Wrong: the UPDATE leaves the version as it was.
UpdateWithoutVersion(a, row) ==
  accounts' = [accounts EXCEPT ![a].balance = Stored(row.balance)]

UpdateWithVersion(a, row) ==
  accounts' = [accounts EXCEPT ![a].balance = Stored(row.balance),
                               ![a].version = row.version]

\* INSERT INTO accounts, under an id never drawn before.
Create(a, account) ==
  /\ accounts[a] = NoRow
  /\ Fits(account.balance)
  /\ accounts' = [accounts EXCEPT ![a] =
       [balance |-> Stored(account.balance), currency |-> account.currency,
        status |-> account.status, version |-> account.version]]

SaveEvent(topic, t) == outbox' = Append(outbox, [topic |-> topic, key |-> t])
-----------------------------------------------------------------------------
(* The control of the handler.                                             *)

Init ==
  /\ requested = << >>
  /\ Group!Init
  /\ pc = [i \in Instance |-> "idle"]
  /\ source = [i \in Instance |-> NoRow]
  /\ dest = [i \in Instance |-> NoRow]
  /\ accounts = [a \in Account |-> NoRow]
  /\ outbox = << >>
  /\ opening = [a \in Account |-> 0]
  /\ debited = [i \in Instance |-> [t \in Transfer |-> 0]]
  /\ credited = [i \in Instance |-> [t \in Transfer |-> 0]]
  /\ mishaps = [m \in Mishap |-> 0]

\* The transfer i's handler is working on, and its order.
Job(i) == requested[cur[i]]
Asked(i) == Order[Job(i)]

Goto(i, stage) ==
  /\ pc' = [pc EXCEPT ![i] = stage]
  /\ UNCHANGED <<requested, group>>

\* The handler returns, with or without an error; its copies are gone.
Return(i) ==
  /\ Group!Finish(i)
  /\ pc' = [pc EXCEPT ![i] = "idle"]
  /\ source' = [source EXCEPT ![i] = NoRow]
  /\ dest' = [dest EXCEPT ![i] = NoRow]
  /\ UNCHANGED requested

Suffer(m) ==
  /\ mishaps[m] < MaxMishaps[m]
  /\ mishaps' = [mishaps EXCEPT ![m] = @ + 1]
-----------------------------------------------------------------------------
(* HTTP and the broker.                                                    *)

\* Wrong: NewAccount takes any initial balance.
CreateUnchecked(a, c, deposit) ==
  /\ Create(a, NewAccount(c, deposit))
  /\ opening' = [opening EXCEPT ![a] = deposit]
  /\ UNCHANGED <<requested, group, pc, copies, outbox, debited, credited, mishaps>>

\* NewAccount refuses a negative balance.  A client that repeats its request
\* gets another account; the request names none.
CreateAccount(a, c, deposit) ==
  /\ deposit >= 0
  /\ Create(a, NewAccount(c, deposit))
  /\ opening' = [opening EXCEPT ![a] = deposit]
  /\ UNCHANGED <<requested, group, pc, copies, outbox, debited, credited, mishaps>>

\* The transfer-service publishes the event of t, once or several times.  A
\* client learns the id of an account from the reply that created it.
Deliver(t) ==
  /\ Len(requested) < MaxRequested
  /\ \A id \in {Order[t].source, Order[t].dest} \cap Account : accounts[id] # NoRow
  /\ requested' = Append(requested, t)
  /\ UNCHANGED <<group, pc, copies, books, outbox, mishaps>>

Poll(i) ==
  /\ Group!Poll(i)
  /\ UNCHANGED <<requested, pc, copies, books, outbox, mishaps>>

PollErrors(i) ==
  /\ Suffer("fetchError")
  /\ Group!PollErrors(i)
  /\ UNCHANGED <<requested, pc, copies, books, outbox>>

AutoCommit ==
  /\ Group!AutoCommit
  /\ UNCHANGED <<requested, pc, copies, books, outbox, mishaps>>

Rebalance(i) ==
  /\ Suffer("rebalance")
  /\ Group!Rebalance(i)
  /\ UNCHANGED <<requested, pc, copies, books, outbox>>

\* The process of i ends between two statements, by a crash or because main
\* returned while the consumer was still running, and is started again.
Crash(i) ==
  /\ Suffer("crash")
  /\ Group!Restart(i)
  /\ pc' = [pc EXCEPT ![i] = "idle"]
  /\ source' = [source EXCEPT ![i] = NoRow]
  /\ dest' = [dest EXCEPT ![i] = NoRow]
  /\ UNCHANGED <<requested, books, outbox>>
-----------------------------------------------------------------------------
(* ProcessTransferRequested.                                               *)

Begin(i) ==
  /\ Group!Begin(i)
  /\ pc' = [pc EXCEPT ![i] = "readSource"]
  /\ UNCHANGED <<requested, copies, books, outbox, mishaps>>

\* Wrong: an unknown source account is an error, not an answer.
UnknownSourceUnanswered(i) ==
  /\ pc[i] = "readSource"
  /\ LET row == GetByID(Asked(i).source) IN
       IF row = NoRow THEN Return(i)
       ELSE /\ source' = [source EXCEPT ![i] = row]
            /\ Goto(i, "readDest")
            /\ UNCHANGED dest
  /\ UNCHANGED <<books, outbox, mishaps>>

ReadSource(i) ==
  /\ pc[i] = "readSource"
  /\ LET row == GetByID(Asked(i).source) IN
       /\ source' = [source EXCEPT ![i] = row]
       /\ Goto(i, IF row = NoRow THEN "saveFailed" ELSE "readDest")
  /\ UNCHANGED <<dest, books, outbox, mishaps>>

\* The second read is followed by Debit and Credit in memory.
ReadDest(i) ==
  /\ pc[i] = "readDest"
  /\ LET row == GetByID(Asked(i).dest)
         refused == \/ row = NoRow
                    \/ DebitRefused(source[i], Asked(i))
                    \/ CreditRefused(row, Asked(i))
     IN IF refused
        THEN Goto(i, "saveFailed") /\ UNCHANGED copies
        ELSE /\ Goto(i, "updateSource")
             /\ source' = [source EXCEPT ![i] = Debit(@, Asked(i))]
             /\ dest' = [dest EXCEPT ![i] = Credit(row, Asked(i))]
  /\ UNCHANGED <<books, outbox, mishaps>>

UpdateSource(i) ==
  /\ pc[i] = "updateSource"
  /\ CanUpdate(Asked(i).source, source[i])
  /\ UpdateWithVersion(Asked(i).source, source[i])
  /\ debited' = [debited EXCEPT ![i][Job(i)] = @ + 1]
  /\ Goto(i, "updateDest")
  /\ UNCHANGED <<copies, outbox, opening, credited, mishaps>>

\* Wrong: the credited copy is never written.
DestForgotten(i) ==
  /\ pc[i] = "updateDest"
  /\ Goto(i, "saveCompleted")
  /\ UNCHANGED <<copies, books, outbox, mishaps>>

UpdateDest(i) ==
  /\ pc[i] = "updateDest"
  /\ CanUpdate(Asked(i).dest, dest[i])
  /\ UpdateWithVersion(Asked(i).dest, dest[i])
  /\ credited' = [credited EXCEPT ![i][Job(i)] = @ + 1]
  /\ Goto(i, "saveCompleted")
  /\ UNCHANGED <<copies, outbox, opening, debited, mishaps>>

\* Wrong: the error of the source update is not looked at.
SourceErrorIgnored(i) ==
  \/ /\ pc[i] = "updateSource" /\ ~CanUpdate(Asked(i).source, source[i])
     /\ Goto(i, "updateDest")
     /\ UNCHANGED <<copies, books, outbox, mishaps>>
  \/ /\ pc[i] = "updateDest" /\ ~CanUpdate(Asked(i).dest, dest[i])
     /\ Return(i)
     /\ UNCHANGED <<books, outbox, mishaps>>

\* Wrong: the error of the destination update is not looked at.
DestErrorIgnored(i) ==
  \/ /\ pc[i] = "updateSource" /\ ~CanUpdate(Asked(i).source, source[i])
     /\ Return(i)
     /\ UNCHANGED <<books, outbox, mishaps>>
  \/ /\ pc[i] = "updateDest" /\ ~CanUpdate(Asked(i).dest, dest[i])
     /\ Goto(i, "saveCompleted")
     /\ UNCHANGED <<copies, books, outbox, mishaps>>

\* Either UPDATE may match no row (ErrOptimisticLock) or overflow the column.
CannotUpdate(i) ==
  \/ pc[i] = "updateSource" /\ ~CanUpdate(Asked(i).source, source[i])
  \/ pc[i] = "updateDest" /\ ~CanUpdate(Asked(i).dest, dest[i])

\* The handler returns the error; a source update already made stays.
UpdateRefused(i) ==
  /\ CannotUpdate(i)
  /\ Return(i)
  /\ UNCHANGED <<books, outbox, mishaps>>

SaveCompleted(i) ==
  /\ pc[i] = "saveCompleted"
  /\ SaveEvent("completed", Job(i))
  /\ Return(i)
  /\ UNCHANGED <<books, mishaps>>

\* Wrong: the failure goes to the topic of the completed transfers.
FailureOnWrongTopic(i) ==
  /\ pc[i] = "saveFailed"
  /\ SaveEvent("completed", Job(i))
  /\ Return(i)
  /\ UNCHANGED <<books, mishaps>>

\* publishFailure.
SaveFailed(i) ==
  /\ pc[i] = "saveFailed"
  /\ SaveEvent("failed", Job(i))
  /\ Return(i)
  /\ UNCHANGED <<books, mishaps>>
-----------------------------------------------------------------------------
(* A statement whose error is not an answer of the database: a timeout or a*)
(* lost connection.  A read that fails counts as an account not found.  A  *)
(* write that fails may or may not have taken effect.                      *)

ReadError(i) ==
  /\ pc[i] \in {"readSource", "readDest"}
  /\ Suffer("dbError")
  /\ Goto(i, "saveFailed")
  /\ UNCHANGED <<copies, books, outbox>>

WriteError(i) ==
  /\ pc[i] \in {"updateSource", "updateDest", "saveCompleted", "saveFailed"}
  /\ Suffer("dbError")
  /\ Return(i)
  /\ UNCHANGED <<books, outbox>>

UpdateErrorAfterEffect(i) ==
  /\ Suffer("dbError")
  /\ \/ /\ pc[i] = "updateSource"
        /\ CanUpdate(Asked(i).source, source[i])
        /\ UpdateWithVersion(Asked(i).source, source[i])
        /\ debited' = [debited EXCEPT ![i][Job(i)] = @ + 1]
        /\ UNCHANGED credited
     \/ /\ pc[i] = "updateDest"
        /\ CanUpdate(Asked(i).dest, dest[i])
        /\ UpdateWithVersion(Asked(i).dest, dest[i])
        /\ credited' = [credited EXCEPT ![i][Job(i)] = @ + 1]
        /\ UNCHANGED debited
  /\ Return(i)
  /\ UNCHANGED <<outbox, opening>>

SaveErrorAfterEffect(i) ==
  /\ Suffer("dbError")
  /\ \/ pc[i] = "saveCompleted" /\ SaveEvent("completed", Job(i))
     \/ pc[i] = "saveFailed" /\ SaveEvent("failed", Job(i))
  /\ Return(i)
  /\ UNCHANGED books
-----------------------------------------------------------------------------
Handler(i) ==
  \/ Begin(i) \/ ReadSource(i) \/ ReadDest(i)
  \/ UpdateSource(i) \/ UpdateDest(i) \/ UpdateRefused(i)
  \/ SaveCompleted(i) \/ SaveFailed(i)

Fault(i) ==
  \/ ReadError(i) \/ WriteError(i)
  \/ UpdateErrorAfterEffect(i) \/ SaveErrorAfterEffect(i)
  \/ PollErrors(i) \/ Rebalance(i) \/ Crash(i)

Next ==
  \/ \E a \in Account, c \in Currency, d \in Deposit : CreateAccount(a, c, d)
  \/ \E t \in Transfer : Deliver(t)
  \/ \E i \in Instance : Poll(i) \/ Handler(i) \/ Fault(i)
  \/ AutoCommit

Spec == Init /\ [][Next]_vars

\* The consumer goroutine of a live process keeps running; statements return.
Fairness == \A i \in Instance : WF_vars(Poll(i) \/ Handler(i))

LiveSpec == Spec /\ Fairness
-----------------------------------------------------------------------------
TypeOK ==
  /\ requested \in Seq(Transfer)
  /\ Group!TypeOK
  /\ pc \in [Instance -> Stage]
  /\ source \in [Instance -> Row \cup {NoRow}]
  /\ dest \in [Instance -> Row \cup {NoRow}]
  /\ accounts \in [Account -> Row \cup {NoRow}]
  /\ outbox \in Seq([topic : {"completed", "failed"}, key : Transfer])
  /\ opening \in [Account -> Nat]
  /\ debited \in [Instance -> [Transfer -> Nat]]
  /\ credited \in [Instance -> [Transfer -> Nat]]
  /\ mishaps \in [Mishap -> Nat]
-----------------------------------------------------------------------------
(* What should be true of it.                                              *)

\* How often the money of t was taken and how often it was paid out.
Count(postings, t) == SumFunction([i \in Instance |-> postings[i][t]])
Taken(t) == Count(debited, t)
PaidOut(t) == Count(credited, t)

Existing == {a \in Account : accounts[a] # NoRow}

\* The balance on a, none before it is opened.
Balance(a) == IF accounts[a] = NoRow THEN 0 ELSE accounts[a].balance

\* What half-done handlings of t took and never paid out.
UnderWay(t) == Order[t].amount * (Taken(t) - PaidOut(t))

\* The books balance: the balances on all accounts add up to what was paid in
\* when they were opened, less what half-done transfers took and never paid
\* out.  A balance is written as an absolute value computed from a read that
\* may be several statements old; a lost update would show here.  Exact only
\* when all amounts fit the column, as they do with Scale = 1.
BooksBalance ==
  SumFunction([a \in Account |-> Balance(a)])
    = SumFunction(opening) - SumFunction([t \in Transfer |-> UnderWay(t)])

\* No instance pays a transfer out more often than it took the money, however
\* often the event is delivered, and while it stands between its two updates
\* it has taken the money once more.
TakenBeforeGiven ==
  \A i \in Instance, t \in Transfer :
    /\ credited[i][t] <= debited[i][t]
    /\ pc[i] = "updateDest" /\ Job(i) = t => credited[i][t] < debited[i][t]

Completed == {outbox[k].key : k \in {n \in DOMAIN outbox : outbox[n].topic = "completed"}}

\* A transfer announced as completed has been paid out.
CompletedMeansMoved ==
  \A t \in Completed : \E i \in Instance : 0 < credited[i][t] /\ credited[i][t] <= debited[i][t]

\* The group never resumes behind a record no handler has returned from, bar
\* those the consumption loop itself threw away with a fetch error; neither a
\* rebalance nor a crash loses a request.
CommittedMeansHandled == 1 .. committed \subseteq handled \cup skipped

\* At-least-once delivery, as README.md states it: no request is acknowledged
\* that was not handled.
AtLeastOnce == 1 .. committed \subseteq handled

\* No handler is at work on t.
AtRest(t) == \A i \in Instance : cur[i] = 0 \/ Job(i) # t

\* Once no handler is at work on a transfer, both of its postings have been
\* made or none (system-design.md: "commits or rolls back balance changes").
AllOrNothing ==
  \A t \in Transfer : AtRest(t) => \A i \in Instance : debited[i][t] = credited[i][t]

Promised ==
  INSTANCE Ledger WITH
    Teller <- Instance, NoAccount <- NoRow, completed <- Completed,
    books <- [a \in Account |->
                IF accounts[a] = NoRow THEN NoRow
                ELSE [balance |-> accounts[a].balance, currency |-> accounts[a].currency]]

\* A version number names one content of a row for good: an UPDATE that
\* changes a row also raises its version.  The WHERE clause relies on it.
VersionNamesContent ==
  [][\A a \in Existing :
       /\ accounts'[a] # NoRow
       /\ accounts'[a] = accounts[a] \/ accounts[a].version < accounts'[a].version]_vars

\* The three statements of the handler, interleaved with those of the other
\* instances, repeated and cut short, do what the atomic postings of Ledger
\* do: no lost update, no overdraft, no posting in a foreign currency.
ImplementsLedger == Promised!Spec

\* The consumption loop, the group and their mishaps, as the handler sees them.
Handed ==
  INSTANCE Delivery WITH
    Event <- 1 .. MaxRequested, NoEvent <- 0, published <- DOMAIN requested

\* Offsets, batches, automatic commits, rebalances and restarts do nothing to a
\* handler that Delivery, on which the models of the other consumers rest, leaves
\* out: an event comes after it was published, one at a time to an instance, and
\* is done when its handler has returned.
ImplementsDelivery == Handed!Spec

\* The nth request leads to an nth outcome event, if nothing fails.
EveryRequestAnswered ==
  \A n \in 1 .. MaxRequested : n <= Len(requested) ~> n <= Len(outbox)

\* How often t was announced as completed.
Completions(t) ==
  Cardinality({k \in DOMAIN outbox : outbox[k] = [topic |-> "completed", key |-> t]})

\* While one instance runs undisturbed, and all balances fit, there is one answer
\* per request, in the order of the requests; and unless its handler is at work on
\* a transfer, the money of that was taken and paid out as often as it was announced
\* as completed: a repeated request moves it again, a refused one not at all.
OneAnswerEach ==
  /\ Len(outbox) = Cardinality(handled)
  /\ \A k \in DOMAIN outbox : outbox[k].key = requested[k]
  /\ \A t \in Transfer : AtRest(t) => \A i \in Instance :
       debited[i][t] = Completions(t) /\ credited[i][t] = Completions(t)
-----------------------------------------------------------------------------
(* Why it is: the inductive invariant behind the safety properties.        *)

\* The row a copy was taken from is still there, in the same currency and
\* not older; while it still has that version it holds that balance.
CopyOf(id, row, version, balance) ==
  /\ GetByID(id) # NoRow
  /\ accounts[id].currency = row.currency
  /\ version <= accounts[id].version
  /\ version = accounts[id].version => accounts[id].balance = balance

\* A row as Debit or Credit left it, not yet written, fits the order.
DebitedCopy(i) ==
  /\ source[i] # NoRow /\ source[i].currency = Asked(i).currency
  /\ CopyOf(Asked(i).source, source[i], source[i].version - 1,
            source[i].balance + Asked(i).amount)

CreditedCopy(i) ==
  /\ dest[i] # NoRow /\ dest[i].currency = Asked(i).currency
  /\ CopyOf(Asked(i).dest, dest[i], dest[i].version - 1,
            dest[i].balance - Asked(i).amount)

CopiesInv ==
  \A i \in Instance :
    /\ pc[i] = "idle" <=> cur[i] = 0
    /\ pc[i] = "readDest" =>
         /\ source[i] # NoRow
         /\ CopyOf(Asked(i).source, source[i], source[i].version, source[i].balance)
    /\ pc[i] = "updateSource" => DebitedCopy(i) /\ CreditedCopy(i)
    /\ pc[i] = "updateDest" => CreditedCopy(i)
    /\ pc[i] = "saveCompleted" => 0 < credited[i][Job(i)]

IInv ==
  /\ TypeOK
  /\ Group!NothingLost
  /\ CopiesInv
  /\ TakenBeforeGiven
  /\ CompletedMeansMoved
=============================================================================
