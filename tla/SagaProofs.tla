------------------------------ MODULE SagaProofs ------------------------------
(***************************************************************************)
(* Proofs about the saga: for every number of requests, keys, accounts,    *)
(* tellers and recorders, any order and any number of mishaps.             *)
(*                                                                         *)
(* The inductive invariant joins those of the components, each with its    *)
(* own proof, by one fact about what the relays carry (Linked): a request  *)
(* delivered to the account-service was saved by the transfer-service, and *)
(* an outcome published to it was saved by the account-service.            *)
(***************************************************************************)
EXTENDS Saga, SumTheorems

\* The components are taken under the assumptions they make.
LEMMA AcceptingAssumed == Accepting!NumericAssumption /\ Accepting!RequestAssumption
<1>1. Accepting!NumericAssumption
  BY SagaAssumption DEF Accepting!NumericAssumption
<1>2. [q \in Request |-> [key |-> Order[q].key, source |-> Order[q].source,
                          dest |-> Order[q].dest, amount |-> Order[q].amount]]
        \in [Request -> Accepting!Orders]
  BY SagaAssumption DEF Accepting!Orders
<1>3. Accepting!RequestAssumption
  BY <1>2, SagaAssumption DEF Accepting!RequestAssumption
<1> QED
  BY <1>1, <1>3

\* So is the account-service.
LEMMA BankAssumed ==
  Bank!NumericAssumption /\ Bank!ServiceAssumption /\ Bank!NoRowAssumption
<1>1. Bank!NumericAssumption
  BY SagaAssumption DEF Bank!NumericAssumption
<1>2. /\ [q \in Request |-> [source |-> Order[q].source, dest |-> Order[q].dest,
                             amount |-> Order[q].amount, currency |-> Order[q].currency]]
           \in [Request -> Bank!Orders]
      /\ \A q \in Request : Order[q].source # Order[q].dest
  BY SagaAssumption DEF Bank!Orders, Bank!AccountId
<1>3. Bank!ServiceAssumption
  <2>1. \A q \in Request :
          [p \in Request |-> [source |-> Order[p].source, dest |-> Order[p].dest,
                              amount |-> Order[p].amount, currency |-> Order[p].currency]][q].source
            # [p \in Request |-> [source |-> Order[p].source, dest |-> Order[p].dest,
                                 amount |-> Order[p].amount, currency |-> Order[p].currency]][q].dest
    BY <1>2
  <2>2. Account \cap {} = {}
    OBVIOUS
  <2>3. /\ Deposit \subseteq Int /\ IsFiniteSet(Request) /\ IsFiniteSet(Account)
        /\ IsFiniteSet(Teller) /\ MaxDelivered \in Nat /\ TellerMishaps \in [Bank!Mishap -> Nat]
    BY SagaAssumption
  <2> QED
    BY <1>2, <2>1, <2>2, <2>3, Zenon DEF Bank!ServiceAssumption, Bank!IsFiniteSet, IsFiniteSet
<1>4. Bank!NoRowAssumption
  BY SagaAssumption DEF Bank!NoRowAssumption
<1> QED
  BY <1>1, <1>3, <1>4

\* So is the recording half of the transfer-service.
LEMMA RecordingAssumed == Recording!OutcomeAssumption
BY SagaAssumption DEF Recording!OutcomeAssumption, Recording!Events

\* The invariants of the components, and those that tie them together.
BankInv ==
  /\ Bank!IInv
  /\ Bank!BooksInv
  /\ Bank!OnlyRequested
  /\ Bank!NoneTwice
  /\ Bank!AccountsBooked

\* Records come from the outboxes.
Linked == Delivered \subseteq reqOutbox /\ published \subseteq Announced

SInv == Accepting!IInv /\ BankInv /\ Recording!IInv /\ Linked

\* A fresh system satisfies them.
LEMMA Initially == Init => SInv
<1> SUFFICES ASSUME Init PROVE SInv
  OBVIOUS
<1>1. Accepting!IInv
  BY AcceptingAssumed, Accepting!Initially DEF Init
<1>2. BankInv
  <2>1. Bank!IInv
    BY BankAssumed, Bank!Initially DEF Init
  <2>2. Bank!BooksInv
    BY BankAssumed, Bank!BooksInitially DEF Init
  <2>3. Bank!OnlyRequested /\ Bank!NoneTwice /\ Bank!AccountsBooked
    BY BankAssumed, Bank!NothingInitially DEF Init
  <2> QED
    BY <2>1, <2>2, <2>3 DEF BankInv
<1>3. Recording!IInv
  BY RecordingAssumed, Recording!InitInv DEF Init
<1>4. Linked
  BY DEF Linked, Init, Bank!Init, Recording!Init, Recording!Topics!Init, Delivered
<1> QED
  BY <1>1, <1>2, <1>3, <1>4 DEF SInv

\* Events of the outbox are of those the recording half knows.
LEMMA AnnouncedType ==
  ASSUME Bank!TypeOK
  PROVE  Announced \subseteq Recording!Events
<1>1. \A k \in DOMAIN outbox : outbox[k] \in [topic : {"completed", "failed"}, key : Request]
  <2>1. outbox \in Seq([topic : {"completed", "failed"}, key : Request])
    BY DEF Bank!TypeOK
  <2>2. ASSUME NEW E, NEW s \in Seq(E)
        PROVE  \A k \in DOMAIN s : s[k] \in E
    OBVIOUS
  <2> QED
    BY <2>1, <2>2
<1> QED
  BY <1>1 DEF Announced, Recording!Events

\* A step of the whole is one of each component, or none.
LEMMA StepOfAccepting ==
  ASSUME [Next]_vars
  PROVE  [Accepting!Next]_(Accepting!vars)
BY DEF Next, vars, accepting, Accepting!vars, Accepting!Next, RelayRequest, RelayOutcome, Serve,
       ServeBadly, Expire, CreateAccount, Transact, TransactBadly, AutoCommit, Record,
       RecordBadly, LoseOutcome

\* So it is for the account-service.
LEMMA StepOfBank ==
  ASSUME [Next]_vars
  PROVE  [Bank!Next]_(Bank!vars)
BY DEF Next, vars, bank, Bank!vars, Bank!group, Bank!copies, Bank!books, Bank!Next, RelayRequest,
       RelayOutcome, Serve, ServeBadly, Expire, CreateAccount, Transact, TransactBadly,
       AutoCommit, Record, RecordBadly, LoseOutcome

\* So it is for the recording half of the transfer-service.
LEMMA StepOfRecording ==
  ASSUME Bank!TypeOK, [Next]_vars
  PROVE  [Recording!Next]_(Recording!vars)
BY AnnouncedType
   DEF Next, vars, recording, Recording!vars, Recording!delivery, Recording!Next, Recording!Events,
       RelayRequest, RelayOutcome, Serve, ServeBadly, Expire, CreateAccount, Transact,
       TransactBadly, AutoCommit, Record, RecordBadly, LoseOutcome
-----------------------------------------------------------------------------
(* The steps.                                                             *)

\* Only a relay adds to the topics, and only what is in its outbox.
LEMMA Relayed ==
  ASSUME [Next]_vars
  PROVE  /\ \/ requested' = requested
            \/ \E q \in reqOutbox : requested' = Append(requested, q)
         /\ \/ published' = published
            \/ \E e \in Announced : published' = published \cup {e}
<1>1. CASE UNCHANGED vars
  BY <1>1 DEF vars, bank, recording
<1>2. ASSUME NEW q \in Request, RelayRequest(q)
      PROVE  published' = published /\ q \in reqOutbox /\ requested' = Append(requested, q)
  BY <1>2 DEF RelayRequest, recording, Bank!Deliver
<1>a. ASSUME NEW q \in Request, Serve(q) \/ ServeBadly(q)
      PROVE  requested' = requested /\ published' = published
  BY <1>a DEF Serve, ServeBadly, bank, recording
<1>3. ASSUME NEW k \in Key, Expire(k)
      PROVE  requested' = requested /\ published' = published
  BY <1>3 DEF Expire, bank, recording
<1>4. ASSUME NEW a \in Account, NEW c \in Currency, NEW d \in Deposit, CreateAccount(a, c, d)
      PROVE  requested' = requested /\ published' = published
  BY <1>4 DEF CreateAccount, recording, Bank!CreateAccount
<1>5. ASSUME NEW i \in Teller, Transact(i) \/ TransactBadly(i)
      PROVE  requested' = requested /\ published' = published
  BY <1>5, BankAssumed, Bank!TopicStep DEF Transact, TransactBadly, recording
<1>6. CASE AutoCommit
  BY <1>6 DEF AutoCommit, recording, Bank!AutoCommit
<1>7. ASSUME NEW e \in Announced, RelayOutcome(e) \/ LoseOutcome(e)
      PROVE  /\ requested' = requested
             /\ published' = published \/ published' = published \cup {e}
  BY <1>7 DEF RelayOutcome, LoseOutcome, bank, Recording!Publish, Recording!FetchError,
              Recording!Topics!Publish, Recording!Topics!Skip
<1>8. ASSUME NEW i \in Recorder, Record(i) \/ RecordBadly(i)
      PROVE  requested' = requested /\ published' = published
  BY <1>8 DEF Record, RecordBadly, bank, Recording!Work, Recording!Begin, Recording!Read,
              Recording!Update, Recording!UpdateRefused, Recording!StatementError,
              Recording!Crash, Recording!Return, Recording!delivery, Recording!Topics!Begin,
              Recording!Topics!Finish, Recording!Topics!Drop
<1> QED
  BY <1>1, <1>2, <1>a, <1>3, <1>4, <1>5, <1>6, <1>7, <1>8 DEF Next

\* The outbox of the transfer-service keeps what it holds.
LEMMA AcceptedStay ==
  ASSUME [Accepting!Next]_(Accepting!vars)
  PROVE  reqOutbox \subseteq reqOutbox'
BY DEF Accepting!Next, Accepting!vars, Accepting!Work, Accepting!Trouble, Accepting!GetCached,
       Accepting!CacheMissed, Accepting!GetRow, Accepting!Insert, Accepting!InsertRefused,
       Accepting!SaveEvent, Accepting!SetCache, Accepting!ReadError, Accepting!InsertError,
       Accepting!SaveError, Accepting!Abandon, Accepting!Expire

\* Every step keeps all of it.
LEMMA Inductively ==
  ASSUME SInv, [Next]_vars
  PROVE  SInv'
<1>0. Bank!IInv /\ Bank!TypeOK /\ Bank!Base /\ [Bank!Next]_(Bank!vars)
  BY StepOfBank DEF SInv, BankInv, Bank!IInv, Bank!Base
<1>1. Accepting!IInv'
  BY AcceptingAssumed, StepOfAccepting, Accepting!Inductively DEF SInv
<1>2. BankInv'
  <2>1. Bank!IInv'
    BY <1>0, BankAssumed, Bank!Inductively
  <2>2. Bank!TypeOK'
    BY <2>1 DEF Bank!IInv
  <2>3. Bank!BooksInv'
    BY <1>0, BankAssumed, Bank!BooksInvStep DEF SInv, BankInv
  <2>4. Bank!OnlyRequested'
    BY <1>0, BankAssumed, Bank!OnlyRequestedStep DEF SInv, BankInv
  <2>5. Bank!NoneTwice'
    BY <1>0, BankAssumed, Bank!NoneTwiceStep DEF SInv, BankInv
  <2>6. Bank!AccountsBooked'
    BY <1>0, <2>2, BankAssumed, Bank!AccountsBookedStep DEF SInv, BankInv
  <2> QED
    BY <2>1, <2>3, <2>4, <2>5, <2>6 DEF BankInv
<1>3. Recording!IInv'
  BY <1>0, RecordingAssumed, StepOfRecording, Recording!StepInv DEF SInv
<1>4. Delivered' \subseteq reqOutbox'
  <2>1. Delivered \subseteq reqOutbox'
    BY StepOfAccepting, AcceptedStay DEF SInv, Linked
  <2>2. requested \in Seq(Request)
    BY <1>0 DEF Bank!TypeOK
  <2>3. CASE requested' = requested
    BY <2>1, <2>3 DEF Delivered
  <2>4. ASSUME NEW q \in reqOutbox, requested' = Append(requested, q)
        PROVE  Delivered' \subseteq reqOutbox'
    <3>1. q \in reqOutbox'
      BY StepOfAccepting, AcceptedStay
    <3>2. q \in Request
      BY DEF SInv, Accepting!IInv, Accepting!TypeOK
    <3>3. \A n \in DOMAIN requested' : requested'[n] = q \/ requested'[n] \in Delivered
      BY <2>2, <2>4, <3>2 DEF Delivered
    <3> QED
      BY <2>1, <3>1, <3>3 DEF Delivered
  <2> QED
    BY <2>3, <2>4, Relayed
<1>5. published' \subseteq Announced'
  <2>1. \A k \in DOMAIN outbox : k \in DOMAIN outbox' /\ outbox'[k] = outbox[k]
    BY <1>0, BankAssumed, Bank!OutboxGrows
  <2>2. Announced \subseteq Announced'
    BY <2>1 DEF Announced
  <2> QED
    BY <2>2, Relayed DEF SInv, Linked
<1> QED
  BY <1>1, <1>2, <1>3, <1>4, <1>5 DEF SInv, Linked

\* Every reachable state satisfies all of it.
THEOREM Invariance == Spec => []SInv
BY Initially, Inductively, PTL DEF Spec

\* The whole runs each of its components as the component's own module has it, so
\* that what is shown there of one holds here of all three together.
THEOREM ComponentsRun == Spec => Accepting!Spec /\ Bank!Spec /\ Recording!Spec
<1>1. Init => Accepting!Init /\ Bank!Init /\ Recording!Init
  BY DEF Init
<1>2. SInv /\ [Next]_vars => [Accepting!Next]_(Accepting!vars)
  BY StepOfAccepting
<1>3. SInv /\ [Next]_vars => [Bank!Next]_(Bank!vars)
  BY StepOfBank
<1>4. SInv /\ [Next]_vars => [Recording!Next]_(Recording!vars)
  BY StepOfRecording DEF SInv, BankInv, Bank!IInv
<1> QED
  BY <1>1, <1>2, <1>3, <1>4, Invariance, PTL DEF Spec, Accepting!Spec, Bank!Spec, Recording!Spec
-----------------------------------------------------------------------------
(* What the invariants say of a transfer.                                  *)

\* A transfer whose money moved, or whose outcome was announced, was accepted.
LEMMA OnlyAccepted ==
  ASSUME SInv, NEW q \in Request, Taken(q) > 0 \/ \E e \in published : e.transfer = q
  PROVE  q \in reqOutbox
<1>0. Bank!TypeOK /\ Bank!OnlyRequested /\ Linked
  BY DEF SInv, BankInv, Bank!IInv
<1>1. Bank!IsRequested(q)
  <2>1. CASE Taken(q) > 0
    BY <1>0, <2>1, BankAssumed, Bank!TakenIsRequested DEF Taken
  <2>2. ASSUME NEW e \in published, e.transfer = q
        PROVE  Bank!IsRequested(q)
    <3>1. PICK k \in DOMAIN outbox : e = [outcome |-> outbox[k].topic, transfer |-> outbox[k].key]
      BY <1>0 DEF Linked, Announced
    <3>2. outbox[k].key = q
      BY <2>2, <3>1
    <3> QED
      BY <1>0, <3>2 DEF Bank!OnlyRequested
  <2> QED
    BY <2>1, <2>2
<1>2. q \in Delivered
  BY <1>1 DEF Bank!IsRequested, Delivered
<1> QED
  BY <1>0, <1>2 DEF Linked

\* However often a client repeats a request, money moves for one transfer of its
\* key, the one in the table transfers that everybody was answered with.
THEOREM RetriesMoveNothing == Spec => []RetriesAreFree
<1>1. SInv => RetriesAreFree
  <2> SUFFICES ASSUME SInv, NEW q \in Request,
                      Taken(q) > 0 \/ \E e \in published : e.transfer = q
               PROVE  /\ reqRows[Order[q].key] = q
                      /\ \A p \in Accepting!Answered :
                           Order[p].key = Order[q].key => reply[p].id = q
    BY DEF RetriesAreFree
  <2>1. \A p \in Request : Accepting!KeyOf(p) = Order[p].key
    BY DEF Accepting!KeyOf
  <2>2. reqRows[Order[q].key] = q
    BY <2>1, OnlyAccepted DEF SInv, Accepting!IInv, Accepting!OneRequestPerKey
  <2>3. ASSUME NEW p \in Accepting!Answered, Order[p].key = Order[q].key
        PROVE  reply[p].id = q
    <3>1. p \in Request /\ Accepting!RequestInv(p)
      BY DEF SInv, Accepting!IInv, Accepting!Answered
    <3>2. reqRows[Order[p].key] = reply[p].id
      BY <2>1, <3>1 DEF Accepting!RequestInv
    <3> QED
      BY <2>2, <2>3, <3>2
  <2> QED
    BY <2>2, <2>3
<1> QED
  BY <1>1, Invariance, PTL

\* Unless it is Repeated, a transfer is requested once, of a service that is steady.
LEMMA NotRepeated ==
  ASSUME Bank!TypeOK, NEW q \in Request, ~Repeated(q)
  PROVE  Bank!Steady /\ Bank!Once(q)
<1>1. Bank!Steady
  <2>1. mishaps["crash"] \in Nat /\ mishaps["rebalance"] \in Nat
    BY DEF Bank!TypeOK, Bank!Mishap
  <2> QED
    BY <2>1 DEF Repeated, Bank!Steady
<1>2. Bank!Once(q)
  <2> DEFINE Of == {n \in DOMAIN requested : requested[n] = q}
  <2>1. IsFiniteSet(Of)
    <3>1. Len(requested) \in Nat /\ DOMAIN requested = 1 .. Len(requested)
      BY DEF Bank!TypeOK
    <3>2. IsFiniteSet(DOMAIN requested)
      BY <3>1, FS_Interval
    <3> QED
      BY <3>2, FS_Subset
  <2>2. ASSUME NEW m \in Of, NEW n \in Of, m # n
        PROVE  FALSE
    <3>1. IsFiniteSet({m}) /\ Cardinality({m}) = 1 /\ n \notin {m}
      BY <2>2, FS_Singleton
    <3>2. Cardinality({m} \cup {n}) = 2
      <4>1. PICK S : S = {m}
        OBVIOUS
      <4>2. Cardinality(S \cup {n}) = 1 + 1
        BY ONLY <3>1, <4>1, FS_AddElement
      <4> QED
        BY <4>1, <4>2
    <3>3. Cardinality({m} \cup {n}) <= Cardinality(Of) /\ Cardinality(Of) \in Nat
      <4> HIDE DEF Of
      <4> QED
        BY <2>1, FS_Subset, FS_CardinalityType
    <3> QED
      BY <3>2, <3>3 DEF Repeated
  <2> QED
    BY <2>2 DEF Bank!Once
<1> QED
  BY <1>1, <1>2

\* The status a client reads is what happened to the money.
THEOREM StatusIsTrue == Spec => []StatusTellsTheTruth
<1>1. ASSUME SInv, NEW q \in Request, rows[q].status \in {"completed", "failed"}
      PROVE  \E k \in DOMAIN outbox : outbox[k].key = q /\ outbox[k].topic = rows[q].status
  <2>1. PICK e \in published : e.transfer = q /\ e.outcome = rows[q].status
    BY <1>1 DEF SInv, Recording!IInv, Recording!StatusWasAnnounced, Recording!OutcomesOf
  <2>2. PICK k \in DOMAIN outbox : e = [outcome |-> outbox[k].topic, transfer |-> outbox[k].key]
    BY <1>1 DEF SInv, Linked, Announced
  <2> QED
    BY <2>1, <2>2
<1>2. SInv => StatusTellsTheTruth
  <2> SUFFICES ASSUME SInv, NEW q \in Request
               PROVE  /\ rows[q].status = "completed" =>
                           /\ 0 < PaidOut(q) /\ PaidOut(q) <= Taken(q)
                           /\ Taken(q) = 1 \/ Repeated(q)
                      /\ rows[q].status = "failed" => Taken(q) = 0 \/ Repeated(q)
    BY DEF StatusTellsTheTruth
  <2>0. /\ Bank!TypeOK /\ Bank!Base /\ Bank!CompletedMeansMoved /\ Bank!NoneTwice
        /\ ~Repeated(q) => Bank!Steady /\ Bank!Once(q)
    BY NotRepeated DEF SInv, BankInv, Bank!IInv, Bank!Base
  <2>1. ASSUME NEW k \in DOMAIN outbox, outbox[k].key = q
        PROVE  /\ outbox[k].topic = "completed" =>
                    /\ 0 < PaidOut(q) /\ PaidOut(q) <= Taken(q)
                    /\ Bank!Steady /\ Bank!Once(q) => Taken(q) = 1
               /\ outbox[k].topic = "failed" => (Bank!Steady /\ Bank!Once(q) => Taken(q) = 0)
    BY <2>0, <2>1, BankAssumed, Bank!AnnouncedIsTrue DEF Taken, PaidOut
  <2> QED
    BY <1>1, <2>0, <2>1
<1> QED
  BY <1>2, Invariance, PTL

\* The sums of the bank are the sums shown.
LEMMA SameSums == \A f : Bank!SumFunction(f) = SumFunction(f)
BY Zenon DEF Bank!SumFunction, SumFunction, Bank!SumFunctionOnSet, SumFunctionOnSet,
   Bank!FoldFunctionOnSet, FoldFunctionOnSet, Bank!MapThenFoldSet, MapThenFoldSet

\* The amounts in the table transfers account for the balances, up to a unit of
\* the column's last place for each time a payer gave.
THEOREM AmountsAreBooked == Spec => []AmountsShownAreBooked
<1>1. SInv => AmountsShownAreBooked
  <2> SUFFICES ASSUME SInv, NEW a \in Bank!Existing,
                      NEW out, out = {q \in Request : Order[q].source = a},
                      NEW in, in = {q \in Request : Order[q].dest = a}
               PROVE  accounts[a].balance
                        - (Bank!Stored(opening[a])
                            + SumFunction([q \in in |-> Shown(q) * PaidOut(q)])
                            - SumFunction([q \in out |-> Shown(q) * Taken(q)]))
                        \in 0 .. Scale * SumFunction([q \in out |-> Taken(q)])
    BY DEF AmountsShownAreBooked
  <2>1. a \in Account /\ accounts[a].balance = Bank!Balance(a)
    BY DEF Bank!Existing, Bank!Balance
  <2>2. out = Bank!OutOf(a) /\ in = Bank!Into(a)
    BY DEF Bank!OutOf, Bank!Into
  <2>3. \A q \in Request : Shown(q) = Bank!Shown(q)
    BY DEF Shown, Accepting!Recorded, Bank!Shown, Accepting!Stored, Bank!Stored
  <2>4. [q \in in |-> Shown(q) * PaidOut(q)] = [q \in in |-> Bank!Shown(q) * Bank!Count(credited, q)]
    BY <2>3 DEF PaidOut, Bank!PaidOut
  <2>5. [q \in out |-> Shown(q) * Taken(q)] = [q \in out |-> Bank!Shown(q) * Bank!Count(debited, q)]
    BY <2>3 DEF Taken, Bank!Taken
  <2>6. [q \in out |-> Taken(q)] = [q \in out |-> Bank!Count(debited, q)]
    BY DEF Taken, Bank!Taken
  <2>7. /\ SumFunction([q \in in |-> Shown(q) * PaidOut(q)]) = Bank!Posted(credited, Bank!Into(a))
        /\ SumFunction([q \in out |-> Shown(q) * Taken(q)]) = Bank!Posted(debited, Bank!OutOf(a))
        /\ SumFunction([q \in out |-> Taken(q)]) = Bank!TimesPosted(debited, Bank!OutOf(a))
    BY <2>2, <2>4, <2>5, <2>6, SameSums DEF Bank!Posted, Bank!TimesPosted
  <2>8. Bank!Gap(a) \in 0 .. Scale * Bank!TimesPosted(debited, Bank!OutOf(a))
    BY <2>1 DEF SInv, BankInv, Bank!AccountsBooked
  <2> QED
    BY <2>1, <2>7, <2>8 DEF Bank!Gap
<1> QED
  BY <1>1, Invariance, PTL
=============================================================================
