-------------------------------- MODULE Saga --------------------------------
(***************************************************************************)
(* A transfer from the client's request to the status the client reads:    *)
(* the accepting half of the transfer-service, the account-service and the *)
(* recording half of the transfer-service, joined by the two outboxes with *)
(* their relays.  Each step is a step of one component; the components     *)
(* share nothing but what the relays carry.  Each component is taken with  *)
(* what is proved of it, for the proofs about all of them in SagaProofs.   *)
(***************************************************************************)
EXTENDS Integers, Sequences, FiniteSets, FiniteSetsExt, Functions

CONSTANTS
  Request,           \* requests of clients, also the transfers they may make
  Key,
  Account, Currency, Deposit,
  Order,             \* Order[q]: key, source, dest, amount, currency
  Teller,            \* instances of the account-service
  Recorder,          \* consumers of the transfer-service
  RequestFault,      \* what may go wrong with a request
  MaxDelivered,      \* bound: records in transfers.requested
  TellerMishaps, RecorderMishaps,    \* bounds on each kind of mishap
  MaxMishaps,        \* bound: mishaps of all consumers together
  Scale, MaxNumeric,
  None, Refused, Failed, Gone, NoRow, NoEvent

VARIABLES
  reqPc, reply, reqRows, cache, reqOutbox,                    \* accepting
  requested, owner, position, head, committed, todo, cur, handled, skipped,
  pc, source, dest, accounts, outbox, opening, debited, credited, mishaps,
  published, outCur, outHandled, outSkipped, outPc, copy, rows, spoiled,
  outMishaps                                                  \* recording

Accepting ==
  INSTANCE TransferRequestsProofs WITH
    Party <- Account, Fault <- RequestFault,
    pc <- reqPc, rows <- reqRows, outbox <- reqOutbox,
    Order <- [q \in Request |-> [key |-> Order[q].key, source |-> Order[q].source,
                                 dest |-> Order[q].dest, amount |-> Order[q].amount]]

Bank ==
  INSTANCE AccountServiceProofs WITH
    Stranger <- {}, Instance <- Teller, Transfer <- Request,
    MaxRequested <- MaxDelivered, MaxMishaps <- TellerMishaps,
    Order <- [q \in Request |-> [source |-> Order[q].source, dest |-> Order[q].dest,
                                 amount |-> Order[q].amount, currency |-> Order[q].currency]]

Recording ==
  INSTANCE TransferOutcomesProofs WITH
    Instance <- Recorder, Transfer <- Request, MaxMishaps <- RecorderMishaps,
    Event <- [outcome : {"completed", "failed"}, transfer : Request],
    cur <- outCur, handled <- outHandled, skipped <- outSkipped, pc <- outPc,
    mishaps <- outMishaps

\* Orders that NewTransfer refuses go no further than TransferRequests.  The
\* values in place of a row, a reply or an event are none.
ASSUME SagaAssumption ==
  /\ Order \in [Request -> [key : Key, source : Account, dest : Account,
                            amount : Nat \ {0}, currency : Currency]]
  /\ \A q \in Request : Order[q].source # Order[q].dest
  /\ Deposit \subseteq Int
  /\ IsFiniteSet(Request) /\ IsFiniteSet(Account) /\ IsFiniteSet(Teller)
  /\ RequestFault \subseteq Accepting!Faults
  /\ MaxDelivered \in Nat
  /\ TellerMishaps \in [Bank!Mishap -> Nat]
  /\ RecorderMishaps \in [Recording!Mishap -> Nat]
  /\ Scale \in Nat \ {0} /\ MaxNumeric \in Nat
  /\ Accepting!NoAnswer \cap (Accepting!Answer \cup Request) = {}
  /\ None \notin {Refused, Failed, Gone}
  /\ NoRow \notin Bank!Row \cup [balance : Nat, currency : Currency] \cup Recording!Row
  /\ NoEvent \notin Recording!Events

accepting == <<reqPc, reply, reqRows, cache, reqOutbox>>
bank == <<requested, owner, position, head, committed, todo, cur, handled, skipped,
          pc, source, dest, accounts, outbox, opening, debited, credited, mishaps>>
recording == <<published, outCur, outHandled, outSkipped, outPc, copy, rows, spoiled,
               outMishaps>>
vars == <<accepting, bank, recording>>

Init == Accepting!Init /\ Bank!Init /\ Recording!Init
-----------------------------------------------------------------------------
(* The relays and topics.                                                  *)

Delivered == {requested[n] : n \in DOMAIN requested}

\* Events of the account-service's outbox: two rows that say the same count as
\* one event that is handed out again.
Announced ==
  {[outcome |-> outbox[k].topic, transfer |-> outbox[k].key] : k \in DOMAIN outbox}

\* The transfer-service's relay publishes an event of its outbox, or repeats it.
RelayRequest(q) ==
  /\ q \in reqOutbox
  /\ Bank!Deliver(q)
  /\ UNCHANGED <<accepting, recording>>

RelayOutcome(e) ==
  /\ e \in Announced
  /\ Recording!Publish(e)
  /\ UNCHANGED <<accepting, bank>>
-----------------------------------------------------------------------------
(* The components.                                                         *)

\* A client asks for a transfer between accounts it knows.
Serve(q) ==
  /\ \A a \in {Order[q].source, Order[q].dest} : accounts[a] # NoRow
  /\ Accepting!Work(q)
  /\ UNCHANGED <<bank, recording>>

ServeBadly(q) == Accepting!Trouble(q) /\ UNCHANGED <<bank, recording>>

Expire(k) == Accepting!Expire(k) /\ UNCHANGED <<bank, recording>>

CreateAccount(a, c, d) ==
  Bank!CreateAccount(a, c, d) /\ UNCHANGED <<accepting, recording>>

Transact(i) ==
  (Bank!Poll(i) \/ Bank!Handler(i)) /\ UNCHANGED <<accepting, recording>>

\* The bound that ties the mishaps of tellers and recorders together.
MishapLeft ==
  SumFunction(mishaps) + SumFunction(outMishaps) < MaxMishaps

TransactBadly(i) == MishapLeft /\ Bank!Fault(i) /\ UNCHANGED <<accepting, recording>>

AutoCommit == Bank!AutoCommit /\ UNCHANGED <<accepting, recording>>

Record(i) == Recording!Work(i) /\ UNCHANGED <<accepting, bank>>

RecordBadly(i) ==
  /\ MishapLeft
  /\ Recording!StatementError(i) \/ Recording!Crash(i)
  /\ UNCHANGED <<accepting, bank>>

LoseOutcome(e) == MishapLeft /\ Recording!FetchError(e) /\ UNCHANGED <<accepting, bank>>

Next ==
  \/ \E q \in Request : RelayRequest(q) \/ Serve(q) \/ ServeBadly(q)
  \/ \E k \in Key : Expire(k)
  \/ \E a \in Account, c \in Currency, d \in Deposit : CreateAccount(a, c, d)
  \/ \E i \in Teller : Transact(i) \/ TransactBadly(i)
  \/ AutoCommit
  \/ \E e \in Announced : RelayOutcome(e) \/ LoseOutcome(e)
  \/ \E i \in Recorder : Record(i) \/ RecordBadly(i)

Spec == Init /\ [][Next]_vars

\* The components' own fairness, and that of the relays: a row of an outbox
\* is published (OutboxRelay shows it).
Fairness ==
  /\ \A q \in Request :
       /\ WF_vars(reqPc[q] # "getCache" /\ Serve(q))
       /\ WF_vars(q \notin Delivered /\ RelayRequest(q))
  /\ \A i \in Teller : WF_vars(Transact(i))
  /\ \A e \in Recording!Events : WF_vars(RelayOutcome(e))
  /\ \A i \in Recorder : WF_vars(Record(i))

LiveSpec == Spec /\ Fairness
-----------------------------------------------------------------------------
Taken(q) == Bank!Taken(q)
PaidOut(q) == Bank!PaidOut(q)

\* The account-service may have been handed the request of q more than once.
Repeated(q) ==
  \/ Cardinality({n \in DOMAIN requested : requested[n] = q}) > 1
  \/ mishaps["crash"] + mishaps["rebalance"] > 0

\* What the client reads is what happened to the money: a transfer shown as
\* completed was paid out, and unless its request was handed out again exactly
\* once; one shown as failed has then moved nothing, not even half of the way.
StatusTellsTheTruth ==
  \A q \in Request :
    /\ rows[q].status = "completed" =>
         0 < PaidOut(q) /\ PaidOut(q) <= Taken(q) /\ (Taken(q) = 1 \/ Repeated(q))
    /\ rows[q].status = "failed" => Taken(q) = 0 \/ Repeated(q)

\* Retries are free: however often a client repeats a request, all money that
\* moves under a key moves for one transfer, the one in the table, and it is the
\* one that everybody was answered with; no outcome misses its row.
RetriesAreFree ==
  \A q \in Request :
    Taken(q) > 0 \/ (\E e \in published : e.transfer = q) =>
      /\ reqRows[Order[q].key] = q
      /\ \A p \in Accepting!Answered : Order[p].key = Order[q].key => reply[p].id = q

\* The amount the table transfers shows for q.
Shown(q) == Accepting!Recorded(q).amount

\* The amounts shown account for the balances: a payee got exactly the amounts
\* shown; a payer gave them too, less at most one unit in the last place of the
\* column for each time.
AmountsShownAreBooked ==
  \A a \in Bank!Existing :
    LET out == {q \in Request : Order[q].source = a}
        in  == {q \in Request : Order[q].dest = a}
        expected == Bank!Stored(opening[a])
                      + SumFunction([q \in in |-> Shown(q) * PaidOut(q)])
                      - SumFunction([q \in out |-> Shown(q) * Taken(q)])
    IN  accounts[a].balance - expected
          \in 0 .. Scale * SumFunction([q \in out |-> Taken(q)])

\* An UPDATE of the handler that works on q is about to be refused: the row has got
\* another version since it was read, or the balance does not fit the column.
Unbookable(q) == \E i \in Teller : cur[i] # 0 /\ Bank!Job(i) = q /\ Bank!CannotUpdate(i)

\* A statement of a consumer failed, or a fetch error swallowed a record.
Spoiled ==
  \/ mishaps["dbError"] + mishaps["fetchError"] > 0
  \/ outMishaps["dbError"] + outMishaps["fetchError"] > 0

\* A transfer whose event was saved is settled in the end, whatever crashes and
\* wherever the partition goes, unless a statement failed, a record was swallowed or
\* a handler gave the request up because its UPDATE was refused.
EveryTransferSettles ==
  \A q \in Request :
    \/ q \in reqOutbox ~> rows[q].status # "pending" \/ Spoiled
    \/ <>Unbookable(q)

\* README.md: "Transfer statuses: pending -> completed | failed".  A status
\* that is not pending stays.
StatusIsFinal == Recording!StatusIsFinal
=============================================================================
