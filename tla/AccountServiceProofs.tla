------------------------ MODULE AccountServiceProofs ------------------------
(***************************************************************************)
(* Proofs about AccountService for every number of instances, accounts and *)
(* transfers, any order, and any number of mishaps.                        *)
(***************************************************************************)
EXTENDS AccountService, SumTheorems

\* The column holds natural numbers only.
LEMMA StoredType ==
  ASSUME NEW x \in Nat
  PROVE  Stored(x) \in Nat
<1> DEFINE n == 2 * x + Scale
           d == 2 * Scale
<1>1. n \in Nat /\ d \in Nat \ {0} /\ Scale \in Nat
  BY NumericAssumption
<1> HIDE DEF n, d
<1>2. n \div d \in Nat
  BY <1>1
<1>3. (n \div d) * Scale \in Nat
  BY <1>1, <1>2
<1> QED
  BY <1>3 DEF Stored, n, d

\* The amounts the column holds exactly.
Whole == {n * Scale : n \in Nat}

\* What is stored is such an amount.
LEMMA StoredIsWhole ==
  ASSUME NEW x \in Nat
  PROVE  Stored(x) \in Whole
<1> DEFINE n == 2 * x + Scale
           d == 2 * Scale
<1>1. n \in Nat /\ d \in Nat \ {0}
  BY NumericAssumption
<1> HIDE DEF n, d
<1>2. n \div d \in Nat
  BY <1>1
<1> QED
  BY <1>2 DEF Stored, Whole, n, d

\* Such an amount is stored as it is.
LEMMA WholeIsStored ==
  ASSUME NEW x \in Whole
  PROVE  x \in Nat /\ Stored(x) = x
<1>1. PICK n \in Nat : x = n * Scale
  BY DEF Whole
<1> DEFINE d == 2 * Scale
<1>2. Scale \in Nat \ {0} /\ d \in Nat \ {0} /\ Scale < d
  BY NumericAssumption
<1>3. 2 * x + Scale = n * d + Scale
  BY <1>1, <1>2
<1> HIDE DEF d
<1>4. (n * d + Scale) \div d = n
  BY <1>2
<1> QED
  BY <1>1, <1>2, <1>3, <1>4 DEF Stored, d

\* Sums and differences of such amounts are such amounts.
LEMMA WholeSum ==
  ASSUME NEW x \in Whole, NEW y \in Whole
  PROVE  x + y \in Whole /\ (x >= y => x - y \in Whole)
<1>1. PICK m \in Nat : x = m * Scale
  BY DEF Whole
<1>2. PICK n \in Nat : y = n * Scale
  BY DEF Whole
<1>3. Scale \in Nat \ {0}
  BY NumericAssumption
<1>4. x + y = (m + n) * Scale /\ x - y = (m - n) * Scale
  BY <1>1, <1>2, <1>3
<1>5. ASSUME x >= y, m < n PROVE FALSE
  <2> DEFINE k == n - m
  <2>1. k \in Nat \ {0} /\ n = m + k
    BY <1>5
  <2>2. n * Scale = m * Scale + k * Scale
    BY <1>3, <2>1
  <2> HIDE DEF k
  <2>3. k * Scale > 0
    BY <1>3, <2>1
  <2>4. m * Scale \in Nat /\ n * Scale \in Nat /\ k * Scale \in Nat
    BY <1>3, <2>1
  <2> QED
    BY <1>1, <1>2, <1>5, <2>2, <2>3, <2>4
<1>6. m + n \in Nat /\ (x >= y => m - n \in Nat)
  BY <1>5
<1> QED
  BY <1>4, <1>6 DEF Whole

\* A running instance leaves the topic alone and moves the group on or not at all.
LEMMA TopicStep ==
  ASSUME NEW i \in Instance, Handler(i) \/ Fault(i) \/ Poll(i)
  PROVE  /\ UNCHANGED requested
         /\ UNCHANGED group \/ Group!Step(i)
<1> USE DEF group, Goto, Return, Group!Step
<1>1. CASE Handler(i)
  BY <1>1 DEF Handler, Begin, ReadSource, ReadDest, UpdateSource, UpdateDest,
              UpdateRefused, SaveCompleted, SaveFailed
<1>2. CASE Fault(i)
  BY <1>2 DEF Fault, ReadError, WriteError, UpdateErrorAfterEffect,
              SaveErrorAfterEffect, PollErrors, Rebalance, Crash
<1>3. CASE Poll(i)
  BY <1>3 DEF Poll
<1> QED
  BY <1>1, <1>2, <1>3

\* What the service does to the consumer group: one step of it, or none while
\* the topic stays as it is or grows.
LEMMA GroupStep ==
  ASSUME owner \in Instance, [Next]_vars
  PROVE  \/ /\ UNCHANGED group
            /\ \/ UNCHANGED requested
               \/ \E t \in Transfer : /\ Len(requested) < MaxRequested
                                      /\ requested' = Append(requested, t)
         \/ /\ UNCHANGED requested
            /\ \E i \in Instance : Group!Step(i)
<1> USE DEF group
<1>1. ASSUME NEW i \in Instance, Handler(i) \/ Fault(i) \/ Poll(i)
      PROVE  /\ UNCHANGED requested
             /\ UNCHANGED group \/ Group!Step(i)
  BY <1>1, TopicStep
<1>2. ASSUME NEW a \in Account, NEW c \in Currency, NEW d \in Deposit, CreateAccount(a, c, d)
      PROVE  UNCHANGED requested /\ UNCHANGED group
  BY <1>2 DEF CreateAccount, NewAccount, Create
<1>3. ASSUME NEW t \in Transfer, Deliver(t)
      PROVE  /\ Len(requested) < MaxRequested
             /\ requested' = Append(requested, t) /\ UNCHANGED group
  BY <1>3 DEF Deliver
<1>4. CASE AutoCommit
  BY <1>4 DEF AutoCommit, Group!Step, Group!AutoCommit
<1>5. CASE UNCHANGED vars
  BY <1>5 DEF vars
<1> QED
  BY <1>1, <1>2, <1>3, <1>4, <1>5 DEF Next
-----------------------------------------------------------------------------
(* The consumer group.                                                     *)

\* Every step of the consumer group keeps the types of its variables.
LEMMA GroupTypeStep ==
  ASSUME Group!TypeOK, NEW i \in Instance, UNCHANGED requested, Group!Step(i)
  PROVE  Group!TypeOK'
<1> USE DEF Group!TypeOK
<1>1. CASE Group!Poll(i)
  <2>1. PICK n \in (position + 1) .. Len(requested) :
          todo' = [todo EXCEPT ![i] = [k \in 1 .. (n - position) |-> position + k]]
          /\ position' = n
    BY <1>1 DEF Group!Poll
  <2>2. [k \in 1 .. (n - position) |-> position + k] \in Seq(Nat \ {0})
    OBVIOUS
  <2> QED
    BY <1>1, <2>1, <2>2 DEF Group!Poll
<1>2. CASE Group!PollErrors(i)
  BY <1>2 DEF Group!PollErrors
<1>3. CASE Group!Begin(i)
  <2>1. todo[i] \in Seq(Nat \ {0}) /\ todo[i] # << >>
    BY <1>3 DEF Group!Begin
  <2>2. Head(todo[i]) \in Nat /\ Tail(todo[i]) \in Seq(Nat \ {0})
    BY <2>1
  <2> QED
    BY <1>3, <2>2 DEF Group!Begin
<1>4. CASE Group!Finish(i)
  BY <1>4 DEF Group!Finish
<1>5. CASE Group!AutoCommit
  BY <1>5 DEF Group!AutoCommit, Group!Committable
<1>6. CASE Group!Rebalance(i)
  BY <1>6 DEF Group!Rebalance
<1>7. CASE Group!Restart(i)
  BY <1>7 DEF Group!Restart
<1> QED
  BY <1>1, <1>2, <1>3, <1>4, <1>5, <1>6, <1>7 DEF Group!Step

\* The offsets of a sequence are its first one and those of the rest.
LEMMA HeadAndTail ==
  ASSUME NEW S, NEW s \in Seq(S), s # << >>
  PROVE  {s[k] : k \in DOMAIN s} =
           {Head(s)} \cup {Tail(s)[k] : k \in DOMAIN Tail(s)}
<1>1. /\ Head(s) = s[1] /\ DOMAIN s = 1 .. Len(s) /\ Len(s) \in Nat \ {0}
      /\ DOMAIN Tail(s) = 1 .. (Len(s) - 1)
      /\ \A k \in 1 .. (Len(s) - 1) : Tail(s)[k] = s[k + 1]
  OBVIOUS
<1>2. \A k \in 1 .. Len(s) : k = 1 \/ k - 1 \in 1 .. (Len(s) - 1)
  BY <1>1
<1>3. ASSUME NEW k \in 1 .. Len(s), k # 1
      PROVE  \E j \in DOMAIN Tail(s) : s[k] = Tail(s)[j]
  <2>1. k - 1 \in DOMAIN Tail(s) /\ s[k] = Tail(s)[k - 1]
    BY <1>1, <1>2, <1>3
  <2> QED
    BY <2>1
<1>4. ASSUME NEW k \in DOMAIN Tail(s)
      PROVE  \E j \in DOMAIN s : Tail(s)[k] = s[j]
  <2>1. k + 1 \in DOMAIN s /\ Tail(s)[k] = s[k + 1]
    BY <1>1
  <2> QED
    BY <2>1
<1>5. \E j \in DOMAIN s : Head(s) = s[j]
  BY <1>1
<1>6. {s[k] : k \in DOMAIN s} \subseteq {Head(s)} \cup {Tail(s)[k] : k \in DOMAIN Tail(s)}
  <2> SUFFICES ASSUME NEW k \in DOMAIN s
               PROVE  s[k] \in {Head(s)} \cup {Tail(s)[j] : j \in DOMAIN Tail(s)}
    OBVIOUS
  <2> QED
    BY <1>1, <1>3
<1>7. {Head(s)} \cup {Tail(s)[k] : k \in DOMAIN Tail(s)} \subseteq {s[k] : k \in DOMAIN s}
  <2> SUFFICES ASSUME NEW k \in DOMAIN Tail(s)
               PROVE  Tail(s)[k] \in {s[j] : j \in DOMAIN s}
    BY <1>5
  <2> QED
    BY <1>4
<1> QED
  BY <1>6, <1>7

\* No step of the group leaves behind a record that nobody is done with: what
\* the owner was handed is done or in the batch it works through.
LEMMA NothingLostStep ==
  ASSUME Group!TypeOK, requested \in Seq(Transfer), Group!NothingLost,
         NEW i \in Instance, UNCHANGED requested, Group!Step(i)
  PROVE  Group!NothingLost'
<1> USE DEF Group!TypeOK, Group!NothingLost, Group!Done, Group!Pending
<1>1. CASE Group!Poll(i)
  <2>1. PICK n \in (position + 1) .. Len(requested) :
          todo' = [todo EXCEPT ![i] = [k \in 1 .. (n - position) |-> position + k]]
          /\ position' = n
    BY <1>1 DEF Group!Poll
  <2>2. i = owner /\ todo[i] = << >> /\ cur[i] = 0
    BY <1>1 DEF Group!Poll, Group!Idle
  <2>3. 1 .. position \subseteq handled \cup skipped
    <3>1. ASSUME NEW x \in 1 .. position PROVE x # cur[owner] /\ x \notin {todo[owner][k] : k \in DOMAIN todo[owner]}
      BY <2>2
    <3> QED
      BY <3>1
  <2>4. ASSUME NEW x \in 1 .. n, x \notin 1 .. position
        PROVE  x \in Group!Pending(owner)'
    <3>1. x - position \in 1 .. (n - position) /\ position + (x - position) = x
      BY <2>1, <2>4
    <3>2. x - position \in DOMAIN todo'[owner] /\ todo'[owner][x - position] = x
      BY <2>1, <2>2, <3>1
    <3> QED
      BY <1>1, <3>2 DEF Group!Poll
  <2>5. Group!Pending(i)' \subseteq 0 .. Len(requested)
    <3>1. \A k \in DOMAIN todo'[i] : todo'[i][k] \in 0 .. Len(requested)
      BY <2>1
    <3>2. cur'[i] = 0
      BY <1>1, <2>2 DEF Group!Poll
    <3> QED
      BY <3>1, <3>2
  <2>6. \A j \in Instance : j # i => Group!Pending(j)' = Group!Pending(j)
    BY <1>1, <2>1 DEF Group!Poll
  <2> HIDE DEF Group!Pending
  <2>7. 1 .. n \subseteq handled \cup skipped \cup Group!Pending(owner)'
    BY <2>3, <2>4
  <2>8. /\ head' = position /\ position' = n
        /\ UNCHANGED <<owner, committed, handled, skipped>>
    BY <1>1, <2>1 DEF Group!Poll
  <2>9. \A j \in Instance : Group!Pending(j)' \subseteq 0 .. Len(requested)
    BY <2>5, <2>6
  <2> QED
    BY <2>1, <2>3, <2>7, <2>8, <2>9
<1>2. CASE Group!PollErrors(i)
  <2>1. i = owner /\ todo[i] = << >> /\ cur[i] = 0
    BY <1>2 DEF Group!PollErrors, Group!Idle
  <2>2. 1 .. position \subseteq handled \cup skipped
    <3>1. ASSUME NEW x \in 1 .. position PROVE x # cur[owner] /\ x \notin {todo[owner][k] : k \in DOMAIN todo[owner]}
      BY <2>1
    <3> QED
      BY <3>1
  <2> QED
    BY <1>2, <2>2 DEF Group!PollErrors
<1>3. CASE Group!Begin(i)
  <2>1. todo[i] \in Seq(Nat \ {0}) /\ todo[i] # << >> /\ cur[i] = 0
    BY <1>3 DEF Group!Begin
  <2>2. {todo[i][k] : k \in DOMAIN todo[i]} =
          {Head(todo[i])} \cup {Tail(todo[i])[k] : k \in DOMAIN Tail(todo[i])}
    BY <2>1, HeadAndTail
  <2>3. Group!Pending(i)' = {Head(todo[i])} \cup {Tail(todo[i])[k] : k \in DOMAIN Tail(todo[i])}
    BY <1>3 DEF Group!Begin
  <2>4. Group!Pending(i)' \cup {0} = Group!Pending(i)
    BY <2>1, <2>2, <2>3
  <2>5. \A j \in Instance : j # i => Group!Pending(j)' = Group!Pending(j)
    BY <1>3 DEF Group!Begin
  <2> HIDE DEF Group!Pending
  <2>6. ASSUME NEW x \in 1 .. position, x \notin handled \cup skipped
        PROVE  x \in Group!Pending(owner)'
    <3>1. x \in Group!Pending(owner) /\ x # 0 /\ owner' = owner
      BY <1>3, <2>6 DEF Group!Begin
    <3>2. CASE owner = i
      BY <2>4, <3>1, <3>2
    <3>3. CASE owner # i
      BY <2>5, <3>1, <3>3
    <3> QED
      BY <3>2, <3>3
  <2> QED
    BY <1>3, <2>4, <2>5, <2>6 DEF Group!Begin
<1>4. CASE Group!Finish(i)
  <2>1. Group!Pending(i) \subseteq Group!Pending(i)' \cup {cur[i]}
    BY <1>4 DEF Group!Finish
  <2>2. \A j \in Instance : j # i => Group!Pending(j)' = Group!Pending(j)
    BY <1>4 DEF Group!Finish
  <2>3. Group!Pending(i)' \subseteq Group!Pending(i) \cup {0}
    BY <1>4 DEF Group!Finish
  <2> HIDE DEF Group!Pending
  <2>4. handled' = handled \cup {cur[i]} /\ UNCHANGED <<owner, position, head, committed, skipped>>
    BY <1>4 DEF Group!Finish
  <2>5. ASSUME NEW x \in 1 .. position
        PROVE  x \in handled' \cup skipped' \cup Group!Pending(owner)'
    BY <2>1, <2>2, <2>4, <2>5
  <2>6. ASSUME NEW j \in Instance
        PROVE  Group!Pending(j)' \subseteq 0 .. Len(requested)
    <3>1. 0 \in 0 .. Len(requested)
      OBVIOUS
    <3>2. Group!Pending(j) \subseteq 0 .. Len(requested)
      OBVIOUS
    <3>3. CASE j = i
      <4>1. Group!Pending(i)' \subseteq 0 .. Len(requested)
        BY <2>3, <3>1, <3>2, <3>3
      <4> QED
        BY <3>3, <4>1
    <3>4. CASE j # i
      BY <2>2, <3>2, <3>4
    <3> QED
      BY <3>3, <3>4
  <2> QED
    BY <2>4, <2>5, <2>6
<1>5. CASE Group!AutoCommit
  <2>1. 1 .. Group!Committable \subseteq handled \cup skipped
    <3>1. CASE Group!Idle(owner)
      <4>1. ASSUME NEW x \in 1 .. position PROVE x # cur[owner] /\ x \notin {todo[owner][k] : k \in DOMAIN todo[owner]}
        BY <3>1 DEF Group!Idle
      <4> QED
        BY <3>1, <4>1 DEF Group!Committable
    <3>2. CASE ~Group!Idle(owner)
      BY <3>2 DEF Group!Committable
    <3> QED
      BY <3>1, <3>2
  <2>2. Group!Committable \in Nat /\ Group!Committable <= position
    BY DEF Group!Committable
  <2> QED
    BY <1>5, <2>1, <2>2 DEF Group!AutoCommit
<1>6. CASE Group!Rebalance(i)
  BY <1>6 DEF Group!Rebalance
<1>7. CASE Group!Restart(i)
  BY <1>7 DEF Group!Restart
<1> QED
  BY <1>1, <1>2, <1>3, <1>4, <1>5, <1>6, <1>7 DEF Group!Step

\* Nor does any step of the service, which moves the group or leaves it alone.
LEMMA GroupInvStep ==
  ASSUME TypeOK, Group!NothingLost, [Next]_vars
  PROVE  /\ Group!TypeOK' /\ Group!NothingLost'
         /\ requested' \in Seq(Transfer)
         /\ Len(requested) <= Len(requested')
         /\ \A k \in 1 .. Len(requested) : requested'[k] = requested[k]
<1> USE DEF TypeOK
<1>1. owner \in Instance
  BY DEF Group!TypeOK
<1>2. CASE UNCHANGED requested /\ \E i \in Instance : Group!Step(i)
  BY <1>2, GroupTypeStep, NothingLostStep
<1>3. CASE UNCHANGED group /\ UNCHANGED requested
  BY <1>3 DEF group, Group!TypeOK, Group!NothingLost, Group!Done, Group!Pending
<1>4. ASSUME UNCHANGED group, NEW t \in Transfer, requested' = Append(requested, t)
      PROVE  /\ Group!TypeOK' /\ Group!NothingLost'
             /\ requested' \in Seq(Transfer)
             /\ Len(requested') = Len(requested) + 1
             /\ \A k \in 1 .. Len(requested) : requested'[k] = requested[k]
  <2>1. /\ requested' \in Seq(Transfer) /\ Len(requested') = Len(requested) + 1
        /\ \A k \in 1 .. Len(requested) : requested'[k] = requested[k]
    BY <1>4
  <2>2. Group!TypeOK'
    BY <1>4 DEF group, Group!TypeOK
  <2>3. \A i \in Instance : Group!Pending(i)' = Group!Pending(i)
    BY <1>4 DEF group, Group!Pending
  <2>4. \A i \in Instance : Group!Pending(i) \subseteq 0 .. (Len(requested) + 1)
    BY DEF Group!NothingLost
  <2>5. Group!NothingLost'
    BY <1>1, <1>4, <2>1, <2>3, <2>4 DEF group, Group!TypeOK, Group!NothingLost, Group!Done
  <2> QED
    BY <2>1, <2>2, <2>5
<1> QED
  BY <1>1, <1>2, <1>3, <1>4, GroupStep
-----------------------------------------------------------------------------
(* The table of accounts.                                                  *)

\* A handler at work has a transfer of the topic to work on.
LEMMA BusyHasJob ==
  ASSUME TypeOK, Group!NothingLost, CopiesInv, NEW i \in Instance, pc[i] # "idle"
  PROVE  /\ cur[i] \in 1 .. Len(requested)
         /\ Job(i) \in Transfer
         /\ Asked(i) \in Orders
         /\ Asked(i).source # Asked(i).dest
<1>1. cur[i] # 0
  BY DEF CopiesInv
<1>2. cur[i] \in 1 .. Len(requested)
  <2>1. cur[i] \in Group!Pending(i)
    BY DEF Group!Pending
  <2>2. cur[i] \in 0 .. Len(requested)
    BY <2>1 DEF Group!NothingLost
  <2> QED
    BY <1>1, <2>2
<1>3. Job(i) \in Transfer
  BY <1>2 DEF Job, TypeOK
<1> QED
  BY <1>2, <1>3, ServiceAssumption DEF Asked

\* What an UPDATE that found its row does.
LEMMA UpdateEffect ==
  ASSUME TypeOK, NEW a, NEW row \in Row, CanUpdate(a, row), UpdateWithVersion(a, row)
  PROVE  /\ a \in Account
         /\ accounts[a] \in Row
         /\ accounts[a].version = row.version - 1
         /\ Stored(row.balance) \in Nat
         /\ accounts' = [accounts EXCEPT ![a] =
              [accounts[a] EXCEPT !.balance = Stored(row.balance), !.version = row.version]]
         /\ accounts' \in [Account -> Row \cup {NoRow}]
<1>1. a \in Account /\ accounts[a] \in Row /\ accounts[a].version = row.version - 1
  BY DEF CanUpdate, GetByID, TypeOK
<1>2. Stored(row.balance) \in Nat
  BY StoredType DEF Row
<1>3. accounts' = [accounts EXCEPT ![a] =
        [accounts[a] EXCEPT !.balance = Stored(row.balance), !.version = row.version]]
  BY <1>1 DEF UpdateWithVersion, TypeOK, Row
<1>4. [accounts[a] EXCEPT !.balance = Stored(row.balance), !.version = row.version] \in Row
  BY <1>1, <1>2 DEF Row
<1> QED
  BY <1>1, <1>2, <1>3, <1>4 DEF TypeOK

\* Rows are never deleted, keep their currency, and change only to a higher
\* version.
Grows ==
  \A a \in Account :
    accounts[a] # NoRow =>
      /\ accounts'[a] # NoRow
      /\ accounts'[a].currency = accounts[a].currency
      /\ accounts'[a] = accounts[a] \/ accounts[a].version < accounts'[a].version

\* An UPDATE changes its row under a new version and no other row.
LEMMA UpdateGrows ==
  ASSUME TypeOK, NEW a, NEW row \in Row, CanUpdate(a, row), UpdateWithVersion(a, row)
  PROVE  Grows
<1>1. /\ a \in Account /\ accounts[a] \in Row
      /\ accounts[a].version = row.version - 1
      /\ accounts' = [accounts EXCEPT ![a] =
           [accounts[a] EXCEPT !.balance = Stored(row.balance), !.version = row.version]]
      /\ accounts' \in [Account -> Row \cup {NoRow}]
  BY UpdateEffect
<1> SUFFICES ASSUME NEW b \in Account, accounts[b] # NoRow
             PROVE  /\ accounts'[b] # NoRow
                    /\ accounts'[b].currency = accounts[b].currency
                    /\ accounts'[b] = accounts[b] \/ accounts[b].version < accounts'[b].version
  BY DEF Grows
<1>2. CASE b = a
  <2>1. accounts'[a] = [accounts[a] EXCEPT !.balance = Stored(row.balance), !.version = row.version]
    BY <1>1 DEF TypeOK
  <2>2. accounts'[a].version = row.version /\ accounts'[a].currency = accounts[a].currency
    BY <1>1, <2>1 DEF Row
  <2>3. [accounts[a] EXCEPT !.balance = Stored(row.balance), !.version = row.version] \in Row
    BY <1>1, StoredType DEF Row
  <2>4. accounts'[a] # NoRow
    BY <2>1, <2>3, NoRowAssumption
  <2>5. row.version \in Nat
    BY DEF Row
  <2>6. accounts[a].version < accounts'[a].version
    BY <1>1, <2>2, <2>5
  <2> QED
    BY <1>2, <2>2, <2>4, <2>6
<1>3. CASE b # a
  BY <1>1, <1>3 DEF TypeOK
<1> QED
  BY <1>2, <1>3

\* The copy a handler is about to write is a row.
LEMMA CopyType ==
  ASSUME TypeOK, Group!NothingLost, CopiesInv, NEW i \in Instance
  PROVE  /\ pc[i] \in {"readDest", "updateSource"} => source[i] \in Row
         /\ pc[i] \in {"updateSource", "updateDest"} => dest[i] \in Row
BY DEF TypeOK, CopiesInv, DebitedCopy, CreditedCopy

\* Every step of the service leaves the table a table and its rows where they
\* are, changing them only under a new version.
LEMMA TableStep ==
  ASSUME TypeOK, Group!NothingLost, CopiesInv, [Next]_vars
  PROVE  accounts' \in [Account -> Row \cup {NoRow}] /\ Grows
<1> DEFINE Goal == accounts' \in [Account -> Row \cup {NoRow}] /\ Grows
<1> SUFFICES Goal
  OBVIOUS
<1>1. ASSUME UNCHANGED accounts PROVE Goal
  BY <1>1 DEF TypeOK, Grows
<1>2. ASSUME NEW a \in Account, NEW c \in Currency, NEW d \in Deposit, CreateAccount(a, c, d)
      PROVE  Goal
  <2>1. d \in Nat
    BY <1>2, ServiceAssumption DEF CreateAccount, NewAccount, Create
  <2>2. [balance |-> Stored(d), currency |-> c, status |-> "active", version |-> 1] \in Row
    BY <2>1, StoredType DEF Row, Status
  <2> QED
    BY <1>2, <2>2 DEF CreateAccount, NewAccount, Create, TypeOK, Grows
<1>3. ASSUME NEW i \in Instance, NEW id, NEW row \in Row,
             CanUpdate(id, row), UpdateWithVersion(id, row)
      PROVE  Goal
  BY <1>3, UpdateEffect, UpdateGrows
<1> HIDE DEF Goal
<1>4. ASSUME NEW i \in Instance, Handler(i) \/ Fault(i) \/ Poll(i) PROVE Goal
  <2> USE DEF books
  <2>1. CASE UpdateSource(i)
    BY <1>3, <2>1, CopyType DEF UpdateSource
  <2>2. CASE UpdateDest(i)
    BY <1>3, <2>2, CopyType DEF UpdateDest
  <2>3. CASE UpdateErrorAfterEffect(i)
    BY <1>3, <2>3, CopyType DEF UpdateErrorAfterEffect
  <2>4. CASE Begin(i) \/ ReadSource(i) \/ ReadDest(i) \/ UpdateRefused(i)
             \/ SaveCompleted(i) \/ SaveFailed(i)
    BY <1>1, <2>4 DEF Begin, ReadSource, ReadDest, UpdateRefused, SaveCompleted, SaveFailed
  <2>5. CASE ReadError(i) \/ WriteError(i) \/ SaveErrorAfterEffect(i)
             \/ PollErrors(i) \/ Rebalance(i) \/ Crash(i) \/ Poll(i)
    BY <1>1, <2>5 DEF ReadError, WriteError, SaveErrorAfterEffect,
                      PollErrors, Rebalance, Crash, Poll
  <2> QED
    BY <1>4, <2>1, <2>2, <2>3, <2>4, <2>5 DEF Handler, Fault
<1>5. CASE \E t \in Transfer : Deliver(t)
  BY <1>1, <1>5 DEF Deliver, books
<1>6. CASE AutoCommit \/ UNCHANGED vars
  BY <1>1, <1>6 DEF AutoCommit, vars, books
<1> QED
  BY <1>2, <1>4, <1>5, <1>6 DEF Next
-----------------------------------------------------------------------------
(* Types.                                                                  *)

LocalTypeOK ==
  /\ pc \in [Instance -> Stage]
  /\ source \in [Instance -> Row \cup {NoRow}]
  /\ dest \in [Instance -> Row \cup {NoRow}]
  /\ outbox \in Seq([topic : {"completed", "failed"}, key : Transfer])
  /\ opening \in [Account -> Nat]
  /\ debited \in [Instance -> [Transfer -> Nat]]
  /\ credited \in [Instance -> [Transfer -> Nat]]
  /\ mishaps \in [Mishap -> Nat]

\* Debit and Credit turn a row they do not refuse into a row.
LEMMA PostingType ==
  ASSUME NEW row \in Row, NEW order \in Orders
  PROVE  /\ Credit(row, order) \in Row
         /\ ~DebitRefused(row, order) => Debit(row, order) \in Row
<1>1. /\ row.balance \in Nat /\ row.version \in Nat \ {0}
      /\ order.amount \in Nat \ {0}
  BY DEF Row, Orders
<1>2. Credit(row, order) \in Row
  <2>1. row.balance + order.amount \in Nat /\ row.version + 1 \in Nat \ {0}
    BY <1>1
  <2> QED
    BY <2>1 DEF Credit, Row
<1>3. ASSUME ~DebitRefused(row, order)
      PROVE  Debit(row, order) \in Row
  <2>1. row.balance - order.amount \in Nat /\ row.version + 1 \in Nat \ {0}
    BY <1>1, <1>3 DEF DebitRefused
  <2> QED
    BY <1>1, <2>1 DEF Debit, Row
<1> QED
  BY <1>2, <1>3

\* A counter of postings goes up by one in one place.
LEMMA CountUp ==
  ASSUME NEW f \in [Instance -> [Transfer -> Nat]], NEW i \in Instance, NEW t \in Transfer,
         NEW g, g = [f EXCEPT ![i][t] = @ + 1]
  PROVE  /\ g \in [Instance -> [Transfer -> Nat]]
         /\ g[i][t] = f[i][t] + 1
         /\ \A j \in Instance, u \in Transfer : j # i \/ u # t => g[j][u] = f[j][u]
OBVIOUS

\* A mishap more is still a number.
LEMMA SufferType ==
  ASSUME mishaps \in [Mishap -> Nat], NEW m \in Mishap, Suffer(m)
  PROVE  mishaps' \in [Mishap -> Nat]
BY DEF Suffer

\* The outbox grows by an event.
LEMMA SaveEventType ==
  ASSUME TypeOK, NEW topic \in {"completed", "failed"}, NEW t \in Transfer, SaveEvent(topic, t)
  PROVE  outbox' \in Seq([topic : {"completed", "failed"}, key : Transfer])
BY DEF SaveEvent, TypeOK

\* The variables of the handlers keep their types in every step.
LEMMA LocalTypeStep ==
  ASSUME TypeOK, Group!NothingLost, CopiesInv, [Next]_vars
  PROVE  LocalTypeOK'
<1>0. LocalTypeOK
  BY DEF TypeOK, LocalTypeOK
<1> USE DEF Goto, Return, books, copies, Stage
<1>1. ASSUME NEW a \in Account, NEW c \in Currency, NEW d \in Deposit, CreateAccount(a, c, d)
      PROVE  LocalTypeOK'
  <2>1. d \in Nat
    BY <1>1, ServiceAssumption DEF CreateAccount, NewAccount, Create
  <2> QED
    BY <1>0, <1>1, <2>1 DEF CreateAccount, NewAccount, Create, LocalTypeOK
<1>2. ASSUME NEW t \in Transfer, Deliver(t) PROVE LocalTypeOK'
  BY <1>0, <1>2 DEF Deliver, LocalTypeOK
<1>3. CASE AutoCommit
  BY <1>0, <1>3 DEF AutoCommit, LocalTypeOK
<1>4. CASE UNCHANGED vars
  BY <1>0, <1>4 DEF vars, LocalTypeOK
<1>m. ASSUME NEW m \in {"dbError", "fetchError", "rebalance", "crash"}, Suffer(m)
      PROVE  mishaps' \in [Mishap -> Nat]
  BY <1>m, SufferType DEF Mishap, TypeOK
<1>5. ASSUME NEW i \in Instance, Poll(i) \/ Begin(i) \/ UpdateRefused(i)
      PROVE  LocalTypeOK'
  BY <1>0, <1>5 DEF Poll, Begin, UpdateRefused, LocalTypeOK
<1>6. ASSUME NEW i \in Instance,
             \/ PollErrors(i) \/ Rebalance(i) \/ Crash(i)
             \/ ReadError(i) \/ WriteError(i)
      PROVE  LocalTypeOK'
  <2>1. mishaps' \in [Mishap -> Nat]
    BY <1>6, <1>m DEF PollErrors, Rebalance, Crash, ReadError, WriteError
  <2> QED
    BY <1>0, <1>6, <2>1 DEF PollErrors, Rebalance, Crash, ReadError, WriteError, LocalTypeOK
<1>7. ASSUME NEW i \in Instance, ReadSource(i) PROVE LocalTypeOK'
  <2>1. GetByID(Asked(i).source) \in Row \cup {NoRow}
    BY DEF GetByID, TypeOK
  <2> QED
    BY <1>0, <1>7, <2>1 DEF ReadSource, LocalTypeOK
<1>8. ASSUME NEW i \in Instance, ReadDest(i) PROVE LocalTypeOK'
  <2> DEFINE row == GetByID(Asked(i).dest)
             refused == \/ row = NoRow
                        \/ DebitRefused(source[i], Asked(i))
                        \/ CreditRefused(row, Asked(i))
  <2>1. CASE refused
    BY <1>0, <1>8, <2>1 DEF ReadDest, LocalTypeOK
  <2>2. CASE ~refused
    <3>1. row \in Row
      BY <2>2 DEF GetByID, TypeOK
    <3>2. source[i] \in Row /\ Asked(i) \in Orders
      BY <1>8, CopyType, BusyHasJob DEF ReadDest
    <3>3. Debit(source[i], Asked(i)) \in Row /\ Credit(row, Asked(i)) \in Row
      BY <2>2, <3>1, <3>2, PostingType
    <3>4. /\ source' = [source EXCEPT ![i] = Debit(source[i], Asked(i))]
          /\ dest' = [dest EXCEPT ![i] = Credit(row, Asked(i))]
          /\ pc' = [pc EXCEPT ![i] = "updateSource"]
          /\ UNCHANGED <<outbox, opening, debited, credited, mishaps>>
      BY <1>0, <1>8, <2>2 DEF ReadDest, LocalTypeOK
    <3> HIDE DEF row, refused
    <3> QED
      BY <1>0, <3>3, <3>4 DEF LocalTypeOK
  <2> QED
    BY <2>1, <2>2
<1>9. ASSUME NEW i \in Instance, UpdateSource(i) \/ UpdateDest(i) PROVE LocalTypeOK'
  <2>1. Job(i) \in Transfer
    BY <1>9, BusyHasJob DEF UpdateSource, UpdateDest
  <2>2. /\ debited' \in [Instance -> [Transfer -> Nat]]
        /\ credited' \in [Instance -> [Transfer -> Nat]]
    <3>1. CASE UpdateSource(i)
      <4>1. debited' = [debited EXCEPT ![i][Job(i)] = @ + 1] /\ UNCHANGED credited
        BY <3>1 DEF UpdateSource
      <4> QED
        BY <1>0, <2>1, <4>1, CountUp DEF LocalTypeOK
    <3>2. CASE UpdateDest(i)
      <4>1. credited' = [credited EXCEPT ![i][Job(i)] = @ + 1] /\ UNCHANGED debited
        BY <3>2 DEF UpdateDest
      <4> QED
        BY <1>0, <2>1, <4>1, CountUp DEF LocalTypeOK
    <3> QED
      BY <1>9, <3>1, <3>2
  <2> QED
    BY <1>0, <1>9, <2>2 DEF UpdateSource, UpdateDest, LocalTypeOK
<1>10. ASSUME NEW i \in Instance, UpdateErrorAfterEffect(i) PROVE LocalTypeOK'
  <2>1. Job(i) \in Transfer
    BY <1>10, BusyHasJob DEF UpdateErrorAfterEffect
  <2>2. /\ debited' \in [Instance -> [Transfer -> Nat]]
        /\ credited' \in [Instance -> [Transfer -> Nat]]
    <3>1. CASE debited' = [debited EXCEPT ![i][Job(i)] = @ + 1] /\ UNCHANGED credited
      BY <1>0, <2>1, <3>1, CountUp DEF LocalTypeOK
    <3>2. CASE credited' = [credited EXCEPT ![i][Job(i)] = @ + 1] /\ UNCHANGED debited
      BY <1>0, <2>1, <3>2, CountUp DEF LocalTypeOK
    <3> QED
      BY <1>10, <3>1, <3>2 DEF UpdateErrorAfterEffect
  <2>3. mishaps' \in [Mishap -> Nat]
    BY <1>10, <1>m DEF UpdateErrorAfterEffect
  <2> QED
    BY <1>0, <1>10, <2>2, <2>3 DEF UpdateErrorAfterEffect, LocalTypeOK
<1>11. ASSUME NEW i \in Instance, SaveCompleted(i) \/ SaveFailed(i) \/ SaveErrorAfterEffect(i)
       PROVE  LocalTypeOK'
  <2>1. Job(i) \in Transfer
    BY <1>11, BusyHasJob DEF SaveCompleted, SaveFailed, SaveErrorAfterEffect
  <2>2. outbox' \in Seq([topic : {"completed", "failed"}, key : Transfer])
    BY <1>11, <2>1, SaveEventType DEF SaveCompleted, SaveFailed, SaveErrorAfterEffect
  <2>3. mishaps' \in [Mishap -> Nat]
    BY <1>0, <1>11, <1>m DEF SaveCompleted, SaveFailed, SaveErrorAfterEffect, LocalTypeOK
  <2> QED
    BY <1>0, <1>11, <2>2, <2>3 DEF SaveCompleted, SaveFailed, SaveErrorAfterEffect, LocalTypeOK
<1> QED
  BY <1>1, <1>2, <1>3, <1>4, <1>5, <1>6, <1>7, <1>8, <1>9, <1>10, <1>11
  DEF Next, Handler, Fault

\* All variables keep their types in every step.
LEMMA TypeStep ==
  ASSUME TypeOK, Group!NothingLost, CopiesInv, [Next]_vars
  PROVE  TypeOK'
BY GroupInvStep, TableStep, LocalTypeStep DEF TypeOK, LocalTypeOK
-----------------------------------------------------------------------------
(* Copies and postings, one instance at a time.                            *)

\* The part of the invariant that speaks of instance i.
CopiesOf(i) ==
  /\ pc[i] = "idle" <=> cur[i] = 0
  /\ pc[i] = "readDest" =>
       /\ source[i] # NoRow
       /\ CopyOf(Asked(i).source, source[i], source[i].version, source[i].balance)
  /\ pc[i] = "updateSource" => DebitedCopy(i) /\ CreditedCopy(i)
  /\ pc[i] = "updateDest" => CreditedCopy(i)
  /\ pc[i] = "saveCompleted" => 0 < credited[i][Job(i)]

PostingsOf(i) ==
  \A t \in Transfer :
    /\ credited[i][t] <= debited[i][t]
    /\ pc[i] = "updateDest" /\ Job(i) = t => credited[i][t] < debited[i][t]

Base == TypeOK /\ Group!NothingLost /\ CopiesInv /\ TakenBeforeGiven

\* The invariant of the handlers holds if it holds of each.
LEMMA OneByOne ==
  /\ CopiesInv <=> \A i \in Instance : CopiesOf(i)
  /\ TakenBeforeGiven <=> \A i \in Instance : PostingsOf(i)
BY DEF CopiesInv, CopiesOf, TakenBeforeGiven, PostingsOf

\* What the steps that are not i's own leave alone.
Undisturbed(i) ==
  /\ pc'[i] = pc[i] /\ cur'[i] = cur[i]
  /\ source'[i] = source[i] /\ dest'[i] = dest[i]
  /\ debited'[i] = debited[i] /\ credited'[i] = credited[i]

\* What is not a statement or a fault of i leaves i alone.
LEMMA OthersDoNotDisturb ==
  ASSUME TypeOK, [Next]_vars, NEW i \in Instance
  PROVE  Undisturbed(i) \/ Handler(i) \/ Fault(i)
<1> USE DEF TypeOK, Group!TypeOK, Undisturbed, group, copies, books, Goto, Return
<1>1. ASSUME NEW a \in Account, NEW c \in Currency, NEW d \in Deposit, CreateAccount(a, c, d)
      PROVE  Undisturbed(i)
  BY <1>1 DEF CreateAccount, NewAccount, Create
<1>2. ASSUME NEW t \in Transfer, Deliver(t) PROVE Undisturbed(i)
  BY <1>2 DEF Deliver
<1>3. CASE AutoCommit
  BY <1>3 DEF AutoCommit, Group!AutoCommit
<1>4. CASE UNCHANGED vars
  BY <1>4 DEF vars
<1>5. ASSUME NEW j \in Instance, Poll(j) PROVE Undisturbed(i)
  BY <1>5 DEF Poll, Group!Poll
<1>6. ASSUME NEW j \in Instance, j # i, Handler(j) PROVE Undisturbed(i)
  <2>1. CASE Begin(j)
    BY <1>6, <2>1 DEF Begin, Group!Begin
  <2>2. CASE ReadSource(j) \/ ReadDest(j)
    BY <1>6, <2>2, SMTT(30) DEF ReadSource, ReadDest
  <2>3. CASE UpdateSource(j) \/ UpdateDest(j)
    BY <1>6, <2>3 DEF UpdateSource, UpdateDest
  <2>4. CASE UpdateRefused(j) \/ SaveCompleted(j) \/ SaveFailed(j)
    BY <1>6, <2>4, SMTT(30) DEF UpdateRefused, SaveCompleted, SaveFailed, Group!Finish
  <2> QED
    BY <1>6, <2>1, <2>2, <2>3, <2>4 DEF Handler
<1>7. ASSUME NEW j \in Instance, j # i, Fault(j) PROVE Undisturbed(i)
  <2>1. CASE ReadError(j) \/ WriteError(j)
    BY <1>7, <2>1 DEF ReadError, WriteError, Group!Finish
  <2>2. CASE UpdateErrorAfterEffect(j) \/ SaveErrorAfterEffect(j)
    BY <1>7, <2>2 DEF UpdateErrorAfterEffect, SaveErrorAfterEffect, Group!Finish
  <2>3. CASE PollErrors(j) \/ Rebalance(j)
    BY <1>7, <2>3 DEF PollErrors, Rebalance, Group!PollErrors, Group!Rebalance
  <2>4. CASE Crash(j)
    BY <1>7, <2>4 DEF Crash, Group!Restart
  <2> QED
    BY <1>7, <2>1, <2>2, <2>3, <2>4 DEF Fault
<1> QED
  BY <1>1, <1>2, <1>3, <1>4, <1>5, <1>6, <1>7 DEF Next

\* A copy stays one, whatever happens to the table.
LEMMA CopyStays ==
  ASSUME TypeOK, Grows, accounts' \in [Account -> Row \cup {NoRow}],
         NEW id, NEW row, NEW version \in Int, NEW balance,
         CopyOf(id, row, version, balance)
  PROVE  /\ id \in Account /\ accounts'[id] # NoRow
         /\ accounts'[id].currency = row.currency
         /\ version <= accounts'[id].version
         /\ version = accounts'[id].version => accounts'[id].balance = balance
<1>1. /\ id \in Account /\ accounts[id] # NoRow /\ accounts[id].currency = row.currency
      /\ version <= accounts[id].version
      /\ version = accounts[id].version => accounts[id].balance = balance
  BY DEF CopyOf, GetByID
<1>2. /\ accounts'[id] # NoRow /\ accounts'[id].currency = accounts[id].currency
      /\ accounts'[id] = accounts[id] \/ accounts[id].version < accounts'[id].version
  BY <1>1 DEF Grows
<1>3. accounts[id] \in Row /\ accounts'[id] \in Row
  BY <1>1, <1>2 DEF TypeOK
<1>4. accounts[id].version \in Nat /\ accounts'[id].version \in Nat
  BY <1>3 DEF Row
<1> QED
  BY <1>1, <1>2, <1>4

\* A handler's job stays the same while it works on the same offset.
LEMMA JobStays ==
  ASSUME Base, [Next]_vars, NEW i \in Instance, pc[i] # "idle", cur'[i] = cur[i]
  PROVE  Job(i)' = Job(i)
BY GroupInvStep, BusyHasJob DEF Base, Job

\* The copies of a handler that is still at its job, whoever took the step.
LEMMA CopyStaysOf ==
  ASSUME Base, [Next]_vars, NEW i \in Instance,
         cur'[i] = cur[i], dest'[i] = dest[i]
  PROVE  /\ pc[i] = "readDest" /\ source'[i] = source[i] =>
              CopyOf(Asked(i).source, source[i], source[i].version, source[i].balance)'
         /\ pc[i] = "updateSource" /\ source'[i] = source[i] => DebitedCopy(i)'
         /\ pc[i] \in {"updateSource", "updateDest"} => CreditedCopy(i)'
<1>0. /\ TypeOK /\ Group!NothingLost /\ CopiesInv
      /\ accounts' \in [Account -> Row \cup {NoRow}] /\ Grows
  BY TableStep DEF Base
<1>1. pc[i] # "idle" => Asked(i)' = Asked(i) /\ Asked(i) \in Orders
  BY JobStays, BusyHasJob, <1>0 DEF Asked
<1>2. ASSUME pc[i] = "readDest", source'[i] = source[i]
      PROVE  CopyOf(Asked(i).source, source[i], source[i].version, source[i].balance)'
  <2>1. CopyOf(Asked(i).source, source[i], source[i].version, source[i].balance)
    BY <1>0, <1>2 DEF CopiesInv
  <2>2. source[i].version \in Int
    BY <1>0, <1>2, CopyType DEF Row
  <2>3. LET id == Asked(i).source IN
        /\ id \in Account /\ accounts'[id] # NoRow
        /\ accounts'[id].currency = source[i].currency
        /\ source[i].version <= accounts'[id].version
        /\ source[i].version = accounts'[id].version => accounts'[id].balance = source[i].balance
    BY <1>0, <2>1, <2>2, CopyStays
  <2> QED
    BY <1>1, <1>2, <2>3 DEF CopyOf, GetByID
<1>3. ASSUME pc[i] = "updateSource", source'[i] = source[i]
      PROVE  DebitedCopy(i)'
  <2> DEFINE v == source[i].version - 1
             b == source[i].balance + Asked(i).amount
  <2>1. /\ CopyOf(Asked(i).source, source[i], v, b)
        /\ source[i] # NoRow /\ source[i].currency = Asked(i).currency
    BY <1>0, <1>3 DEF CopiesInv, DebitedCopy
  <2>2. v \in Int
    BY <1>0, <1>3, CopyType DEF Row
  <2> HIDE DEF v, b
  <2>3. LET id == Asked(i).source IN
        /\ id \in Account /\ accounts'[id] # NoRow
        /\ accounts'[id].currency = source[i].currency
        /\ v <= accounts'[id].version
        /\ v = accounts'[id].version => accounts'[id].balance = b
    BY <1>0, <2>1, <2>2, CopyStays
  <2> QED
    BY <1>1, <1>3, <2>1, <2>3 DEF CopyOf, GetByID, DebitedCopy, v, b
<1>4. ASSUME pc[i] \in {"updateSource", "updateDest"}
      PROVE  CreditedCopy(i)'
  <2> DEFINE v == dest[i].version - 1
             b == dest[i].balance - Asked(i).amount
  <2>1. /\ CopyOf(Asked(i).dest, dest[i], v, b)
        /\ dest[i] # NoRow /\ dest[i].currency = Asked(i).currency
    BY <1>0, <1>4 DEF CopiesInv, CreditedCopy
  <2>2. v \in Int
    BY <1>0, <1>4, CopyType DEF Row
  <2> HIDE DEF v, b
  <2>3. LET id == Asked(i).dest IN
        /\ id \in Account /\ accounts'[id] # NoRow
        /\ accounts'[id].currency = dest[i].currency
        /\ v <= accounts'[id].version
        /\ v = accounts'[id].version => accounts'[id].balance = b
    BY <1>0, <2>1, <2>2, CopyStays
  <2> QED
    BY <1>1, <1>4, <2>1, <2>3 DEF CopyOf, GetByID, CreditedCopy, v, b
<1> QED
  BY <1>2, <1>3, <1>4

\* A handler that takes no step itself keeps its part of the invariant.
LEMMA UndisturbedStep ==
  ASSUME Base, [Next]_vars, NEW i \in Instance, Undisturbed(i)
  PROVE  CopiesOf(i)' /\ PostingsOf(i)'
<1>1. CopiesOf(i) /\ PostingsOf(i)
  BY OneByOne DEF Base
<1>2. pc[i] # "idle" => Job(i)' = Job(i)
  BY JobStays DEF Undisturbed
<1>3. CopiesOf(i)'
  BY <1>1, <1>2, CopyStaysOf DEF Undisturbed, CopiesOf
<1>4. PostingsOf(i)'
  BY <1>1, <1>2 DEF Undisturbed, PostingsOf
<1> QED
  BY <1>3, <1>4

\* A handler that returns leaves nothing to keep sound but its postings.
LEMMA ReturnStep ==
  ASSUME Base, NEW i \in Instance, pc'[i] = "idle", cur'[i] = 0,
         \A t \in Transfer : credited'[i][t] <= debited'[i][t]
  PROVE  CopiesOf(i)' /\ PostingsOf(i)'
BY DEF CopiesOf, PostingsOf

\* After Return the handler is idle.
LEMMA ReturnClears ==
  ASSUME Base, NEW i \in Instance, Return(i)
  PROVE  pc'[i] = "idle" /\ cur'[i] = 0
BY DEF Base, TypeOK, Group!TypeOK, Return, Group!Finish

\* The next statement of a handler that goes on.
LEMMA GotoStage ==
  ASSUME Base, NEW i \in Instance, NEW stage, Goto(i, stage)
  PROVE  pc'[i] = stage /\ cur'[i] = cur[i] /\ Job(i)' = Job(i)
BY DEF Base, TypeOK, Goto, group, Job

\* Postings are counted in numbers, and no more credits than debits.
LEMMA PostingCounts ==
  ASSUME Base, NEW i \in Instance
  PROVE  \A t \in Transfer : /\ debited[i][t] \in Nat /\ credited[i][t] \in Nat
                             /\ credited[i][t] <= debited[i][t]
BY DEF Base, TypeOK, TakenBeforeGiven

\* The source update counts one debit more.
LEMMA SourcePosting ==
  ASSUME Base, NEW i \in Instance, pc[i] # "idle",
         debited' = [debited EXCEPT ![i][Job(i)] = @ + 1], UNCHANGED credited
  PROVE  \A t \in Transfer : /\ credited'[i][t] <= debited'[i][t]
                             /\ t = Job(i) => credited'[i][t] < debited'[i][t]
<1>1. Job(i) \in Transfer /\ debited \in [Instance -> [Transfer -> Nat]]
  BY BusyHasJob DEF Base, TypeOK
<1>2. /\ debited'[i][Job(i)] = debited[i][Job(i)] + 1
      /\ \A t \in Transfer : t # Job(i) => debited'[i][t] = debited[i][t]
  BY <1>1, CountUp
<1> QED
  BY <1>1, <1>2, PostingCounts

\* The destination update counts one credit more.
LEMMA DestPosting ==
  ASSUME Base, NEW i \in Instance, pc[i] = "updateDest",
         credited' = [credited EXCEPT ![i][Job(i)] = @ + 1], UNCHANGED debited
  PROVE  /\ \A t \in Transfer : credited'[i][t] <= debited'[i][t]
         /\ 0 < credited'[i][Job(i)]
<1>1. Job(i) \in Transfer /\ credited \in [Instance -> [Transfer -> Nat]]
  BY BusyHasJob DEF Base, TypeOK
<1>2. /\ credited'[i][Job(i)] = credited[i][Job(i)] + 1
      /\ \A t \in Transfer : t # Job(i) => credited'[i][t] = credited[i][t]
  BY <1>1, CountUp
<1>3. credited[i][Job(i)] < debited[i][Job(i)]
  BY <1>1 DEF Base, TakenBeforeGiven
<1> QED
  BY <1>1, <1>2, <1>3, PostingCounts

\* A statement of a handler keeps the part of the invariant about it.
LEMMA HandlerStep ==
  ASSUME Base, [Next]_vars, NEW i \in Instance, Handler(i)
  PROVE  CopiesOf(i)' /\ PostingsOf(i)'
<1> USE DEF books, copies
<1>0. /\ TypeOK /\ Group!NothingLost /\ CopiesInv /\ CopiesOf(i)
      /\ pc[i] # "idle" => Asked(i) \in Orders
  BY OneByOne, BusyHasJob DEF Base
<1>1. CASE Begin(i)
  <2>1. pc'[i] = "readSource" /\ UNCHANGED <<debited, credited>>
    BY <1>0, <1>1 DEF Begin, TypeOK
  <2>2. cur'[i] # 0
    <3>1. todo[i] \in Seq(Nat \ {0}) /\ todo[i] # << >> /\ cur'[i] = Head(todo[i])
      BY <1>0, <1>1 DEF Begin, Group!Begin, TypeOK, Group!TypeOK
    <3> QED
      BY <3>1
  <2> QED
    BY <2>1, <2>2, PostingCounts DEF CopiesOf, PostingsOf
<1>2. CASE ReadSource(i)
  <2> DEFINE row == GetByID(Asked(i).source)
  <2>1. /\ UNCHANGED <<accounts, debited, credited>> /\ source'[i] = row
        /\ Goto(i, IF row = NoRow THEN "saveFailed" ELSE "readDest")
        /\ pc[i] = "readSource"
    BY <1>0, <1>2 DEF ReadSource, TypeOK
  <2>2. /\ pc'[i] = IF row = NoRow THEN "saveFailed" ELSE "readDest"
        /\ cur'[i] = cur[i] /\ Job(i)' = Job(i)
    BY <2>1, GotoStage
  <2>3. ASSUME row # NoRow
        PROVE  CopyOf(Asked(i).source, source[i], source[i].version, source[i].balance)'
    <3>1. row \in Row
      BY <1>0, <2>3 DEF GetByID, TypeOK
    <3> QED
      BY <2>1, <2>2, <2>3, <3>1 DEF CopyOf, GetByID, Asked, Row
  <2>4. cur[i] # 0
    BY <1>0, <2>1 DEF CopiesOf
  <2> QED
    BY <2>1, <2>2, <2>3, <2>4, PostingCounts DEF CopiesOf, PostingsOf
<1>3. CASE ReadDest(i)
  <2> DEFINE row == GetByID(Asked(i).dest)
             refused == \/ row = NoRow
                        \/ DebitRefused(source[i], Asked(i))
                        \/ CreditRefused(row, Asked(i))
  <2>1. pc[i] = "readDest" /\ cur[i] # 0 /\ UNCHANGED <<accounts, debited, credited>>
    BY <1>0, <1>3 DEF ReadDest, CopiesOf
  <2>2. CASE refused
    <3>1. Goto(i, "saveFailed")
      BY <1>3, <2>2 DEF ReadDest
    <3> QED
      BY <2>1, <3>1, GotoStage, PostingCounts DEF CopiesOf, PostingsOf
  <2>3. CASE ~refused
    <3>1. Goto(i, "updateSource")
          /\ source'[i] = Debit(source[i], Asked(i)) /\ dest'[i] = Credit(row, Asked(i))
      BY <1>0, <1>3, <2>3 DEF ReadDest, TypeOK
    <3>2. pc'[i] = "updateSource" /\ cur'[i] = cur[i] /\ Job(i)' = Job(i)
      BY <3>1, GotoStage
    <3>3. Asked(i)' = Asked(i) /\ Asked(i) \in Orders
      BY <1>0, <2>1, <3>2 DEF Asked
    <3>4. source[i] \in Row /\ row \in Row
      BY <1>0, <2>1, <2>3, CopyType DEF GetByID, TypeOK
    <3>5. source'[i] \in Row /\ dest'[i] \in Row
      BY <2>3, <3>1, <3>3, <3>4, PostingType
    <3>6. DebitedCopy(i)'
      <4>1. CopyOf(Asked(i).source, source[i], source[i].version, source[i].balance)
        BY <1>0, <2>1 DEF CopiesOf
      <4>2. /\ source'[i].currency = source[i].currency
            /\ source'[i].version = source[i].version + 1
            /\ source'[i].balance = source[i].balance - Asked(i).amount
            /\ source[i].currency = Asked(i).currency
        BY <2>3, <3>1, <3>3, <3>4 DEF Debit, Row, DebitRefused, CreditRefused
      <4>3. /\ source'[i].version - 1 = source[i].version
            /\ source'[i].balance + Asked(i).amount = source[i].balance
        BY <3>3, <3>4, <4>2 DEF Row, Orders
      <4> QED
        BY <2>1, <3>3, <3>5, <4>1, <4>2, <4>3, NoRowAssumption DEF DebitedCopy, CopyOf, GetByID
    <3>7. CreditedCopy(i)'
      <4>1. /\ dest'[i].currency = row.currency
            /\ dest'[i].version = row.version + 1
            /\ dest'[i].balance = row.balance + Asked(i).amount
            /\ row.currency = Asked(i).currency
        BY <2>3, <3>1, <3>3, <3>4 DEF Credit, Row, CreditRefused
      <4>2. /\ dest'[i].version - 1 = row.version
            /\ dest'[i].balance - Asked(i).amount = row.balance
            /\ row.version \in Nat
        BY <3>3, <3>4, <4>1 DEF Row, Orders
      <4>3. Asked(i).dest \in Account /\ row = accounts[Asked(i).dest] /\ row # NoRow
        BY <2>3 DEF GetByID
      <4> HIDE DEF row, refused
      <4> QED
        BY <2>1, <3>3, <3>5, <4>1, <4>2, <4>3, NoRowAssumption DEF CreditedCopy, CopyOf, GetByID
    <3> QED
      BY <2>1, <3>2, <3>6, <3>7, PostingCounts DEF CopiesOf, PostingsOf
  <2> QED
    BY <2>2, <2>3
<1>4. CASE UpdateSource(i)
  <2>1. /\ pc[i] = "updateSource" /\ Goto(i, "updateDest") /\ UNCHANGED <<copies, credited>>
        /\ debited' = [debited EXCEPT ![i][Job(i)] = @ + 1]
    BY <1>4 DEF UpdateSource
  <2>2. pc'[i] = "updateDest" /\ cur'[i] = cur[i] /\ Job(i)' = Job(i)
    BY <2>1, GotoStage
  <2>3. CreditedCopy(i)'
    BY <2>1, <2>2, CopyStaysOf
  <2>4. cur[i] # 0
    BY <1>0, <2>1 DEF CopiesOf
  <2> QED
    BY <2>1, <2>2, <2>3, <2>4, SourcePosting DEF CopiesOf, PostingsOf
<1>5. CASE UpdateDest(i)
  <2>1. /\ pc[i] = "updateDest" /\ Goto(i, "saveCompleted") /\ UNCHANGED debited
        /\ credited' = [credited EXCEPT ![i][Job(i)] = @ + 1]
    BY <1>5 DEF UpdateDest
  <2>2. pc'[i] = "saveCompleted" /\ cur'[i] = cur[i] /\ Job(i)' = Job(i)
    BY <2>1, GotoStage
  <2>3. cur[i] # 0
    BY <1>0, <2>1 DEF CopiesOf
  <2> QED
    BY <2>1, <2>2, <2>3, DestPosting DEF CopiesOf, PostingsOf
<1>6. CASE UpdateRefused(i) \/ SaveCompleted(i) \/ SaveFailed(i)
  BY <1>6, ReturnClears, ReturnStep, PostingCounts
  DEF UpdateRefused, SaveCompleted, SaveFailed
<1> QED
  BY <1>1, <1>2, <1>3, <1>4, <1>5, <1>6 DEF Handler

\* So does a statement that fails, and a crash.
LEMMA FaultStep ==
  ASSUME Base, [Next]_vars, NEW i \in Instance, Fault(i)
  PROVE  CopiesOf(i)' /\ PostingsOf(i)'
<1> USE DEF books, copies
<1>0. CopiesOf(i)
  BY OneByOne DEF Base
<1>1. CASE ReadError(i)
  <2>1. /\ pc[i] # "idle" /\ Goto(i, "saveFailed")
        /\ UNCHANGED <<debited, credited>>
    BY <1>1 DEF ReadError
  <2>2. pc'[i] = "saveFailed" /\ cur'[i] = cur[i] /\ cur[i] # 0
    BY <1>0, <2>1, GotoStage DEF CopiesOf
  <2> QED
    BY <2>1, <2>2, PostingCounts DEF CopiesOf, PostingsOf
<1>2. CASE WriteError(i) \/ SaveErrorAfterEffect(i)
  BY <1>2, ReturnClears, ReturnStep, PostingCounts DEF WriteError, SaveErrorAfterEffect
<1>3. CASE UpdateErrorAfterEffect(i)
  <2>1. pc[i] # "idle" /\ Return(i)
    BY <1>3 DEF UpdateErrorAfterEffect
  <2>2. \A t \in Transfer : credited'[i][t] <= debited'[i][t]
    BY <1>3, <2>1, SourcePosting, DestPosting DEF UpdateErrorAfterEffect
  <2> QED
    BY <2>1, <2>2, ReturnClears, ReturnStep
<1>4. CASE PollErrors(i) \/ Rebalance(i)
  <2>1. Undisturbed(i)
    BY <1>4 DEF PollErrors, Rebalance, Group!PollErrors, Group!Rebalance, Undisturbed
  <2> QED
    BY <2>1, UndisturbedStep
<1>5. CASE Crash(i)
  <2>1. pc'[i] = "idle" /\ cur'[i] = 0 /\ UNCHANGED <<debited, credited>>
    BY <1>5 DEF Crash, Group!Restart, Base, TypeOK, Group!TypeOK
  <2> QED
    BY <2>1, ReturnStep, PostingCounts
<1> QED
  BY <1>1, <1>2, <1>3, <1>4, <1>5 DEF Fault
-----------------------------------------------------------------------------
(* Outcomes.                                                               *)

\* A counter of postings never goes down.
LEMMA CountersGrow ==
  ASSUME Base, [Next]_vars, NEW i \in Instance, NEW t \in Transfer
  PROVE  /\ credited'[i][t] \in Nat /\ debited'[i][t] \in Nat
         /\ credited[i][t] <= credited'[i][t]
         /\ debited[i][t] <= debited'[i][t]
<1> DEFINE Up(f, g) ==
      \/ g = f
      \/ \E j \in Instance, u \in Transfer : g = [f EXCEPT ![j][u] = @ + 1]
<1>1. Up(debited, debited') /\ Up(credited, credited')
  <2> USE DEF books
  <2>0. TypeOK /\ Group!NothingLost /\ CopiesInv
    BY DEF Base
  <2>1. ASSUME NEW j \in Instance, UpdateSource(j) \/ UpdateDest(j) \/ UpdateErrorAfterEffect(j)
        PROVE  Up(debited, debited') /\ Up(credited, credited')
    <3>1. Job(j) \in Transfer
      BY <2>0, <2>1, BusyHasJob DEF UpdateSource, UpdateDest, UpdateErrorAfterEffect
    <3> QED
      BY <2>1, <3>1 DEF UpdateSource, UpdateDest, UpdateErrorAfterEffect
  <2>2. ASSUME UNCHANGED <<debited, credited>>
        PROVE  Up(debited, debited') /\ Up(credited, credited')
    BY <2>2
  <2> HIDE DEF Up
  <2>3. ASSUME NEW j \in Instance,
               \/ Begin(j) \/ ReadSource(j) \/ ReadDest(j) \/ UpdateRefused(j)
               \/ SaveCompleted(j) \/ SaveFailed(j)
        PROVE  UNCHANGED <<debited, credited>>
    BY <2>3 DEF Begin, ReadSource, ReadDest, UpdateRefused, SaveCompleted, SaveFailed
  <2>4. ASSUME NEW j \in Instance,
               \/ ReadError(j) \/ WriteError(j) \/ SaveErrorAfterEffect(j)
               \/ PollErrors(j) \/ Rebalance(j) \/ Crash(j) \/ Poll(j)
        PROVE  UNCHANGED <<debited, credited>>
    BY <2>4 DEF ReadError, WriteError, SaveErrorAfterEffect, PollErrors, Rebalance, Crash, Poll
  <2>5. CASE \/ \E a \in Account, c \in Currency, d \in Deposit : CreateAccount(a, c, d)
             \/ \E t_1 \in Transfer : Deliver(t_1)
             \/ AutoCommit \/ UNCHANGED vars
    BY <2>2, <2>5 DEF CreateAccount, NewAccount, Create, Deliver, AutoCommit, vars
  <2> QED
    BY <2>1, <2>2, <2>3, <2>4, <2>5 DEF Next, Handler, Fault
<1>2. ASSUME NEW f \in [Instance -> [Transfer -> Nat]], NEW g, Up(f, g)
      PROVE  f[i][t] <= g[i][t] /\ g[i][t] \in Nat
  <2>1. ASSUME NEW j \in Instance, NEW u \in Transfer, g = [f EXCEPT ![j][u] = @ + 1]
        PROVE  f[i][t] <= g[i][t] /\ g[i][t] \in Nat
    BY <2>1, CountUp
  <2>2. CASE g = f
    BY <2>2
  <2> QED
    BY <1>2, <2>1, <2>2
<1> HIDE DEF Up
<1> QED
  BY <1>1, <1>2 DEF Base, TypeOK

\* An outcome is announced as completed only where the handler has paid out.
LEMMA CompletedStep ==
  ASSUME Base, CompletedMeansMoved, [Next]_vars
  PROVE  CompletedMeansMoved'
<1> DEFINE Moved(t) == \E i \in Instance : 0 < credited[i][t] /\ credited[i][t] <= debited[i][t]
<1>0. /\ TypeOK /\ Group!NothingLost /\ CopiesInv
      /\ \A i \in Instance : CopiesOf(i)' /\ PostingsOf(i)'
  BY OthersDoNotDisturb, UndisturbedStep, HandlerStep, FaultStep DEF Base
<1>1. ASSUME NEW k \in DOMAIN outbox PROVE outbox[k].key \in Transfer
  <2> DEFINE Event == [topic : {"completed", "failed"}, key : Transfer]
  <2>1. outbox \in Seq(Event)
    BY <1>0 DEF TypeOK
  <2> HIDE DEF Event
  <2>2. outbox[k] \in Event
    BY <1>1, <2>1
  <2> QED
    BY <2>2 DEF Event
<1>2. ASSUME NEW t \in Transfer, Moved(t) PROVE Moved(t)'
  <2>1. PICK i \in Instance : 0 < credited[i][t]
    BY <1>2
  <2>2. 0 < credited'[i][t] /\ credited'[i][t] <= debited'[i][t]
    BY <1>0, <2>1, CountersGrow DEF PostingsOf, Base, TypeOK
  <2> QED
    BY <2>2
<1>3. \/ UNCHANGED outbox
      \/ \E t \in Transfer : SaveEvent("failed", t)
      \/ \E i \in Instance : pc[i] = "saveCompleted" /\ SaveEvent("completed", Job(i))
  <2> USE DEF Goto, Return
  <2>1. ASSUME NEW i \in Instance, SaveFailed(i) \/ SaveErrorAfterEffect(i)
        PROVE  \/ \E t \in Transfer : SaveEvent("failed", t)
               \/ pc[i] = "saveCompleted" /\ SaveEvent("completed", Job(i))
    BY <1>0, <2>1, BusyHasJob DEF SaveFailed, SaveErrorAfterEffect
  <2>2. ASSUME NEW i \in Instance,
               \/ Begin(i) \/ ReadSource(i) \/ ReadDest(i) \/ UpdateSource(i)
               \/ UpdateDest(i) \/ UpdateRefused(i)
        PROVE  UNCHANGED outbox
    BY <2>2 DEF Begin, ReadSource, ReadDest, UpdateSource, UpdateDest, UpdateRefused
  <2>3. ASSUME NEW i \in Instance,
               \/ ReadError(i) \/ WriteError(i) \/ UpdateErrorAfterEffect(i)
               \/ PollErrors(i) \/ Rebalance(i) \/ Crash(i) \/ Poll(i)
        PROVE  UNCHANGED outbox
    BY <2>3 DEF ReadError, WriteError, UpdateErrorAfterEffect, PollErrors, Rebalance, Crash, Poll
  <2>4. CASE \/ \E a \in Account, c \in Currency, d \in Deposit : CreateAccount(a, c, d)
             \/ \E t \in Transfer : Deliver(t)
             \/ AutoCommit \/ UNCHANGED vars
    BY <2>4 DEF CreateAccount, NewAccount, Create, Deliver, AutoCommit, vars
  <2> QED
    BY <2>1, <2>2, <2>3, <2>4 DEF Next, Handler, Fault, SaveCompleted
<1>4. ASSUME NEW t \in Completed'
      PROVE  t \in Completed \/ \E i \in Instance : pc[i] = "saveCompleted" /\ t = Job(i)
  <2>1. PICK k \in DOMAIN outbox' : outbox'[k].topic = "completed" /\ t = outbox'[k].key
    BY <1>4 DEF Completed
  <2>2. CASE UNCHANGED outbox
    BY <2>1, <2>2 DEF Completed
  <2>3. ASSUME NEW topic, NEW u, SaveEvent(topic, u), ~(k \in DOMAIN outbox /\ outbox'[k] = outbox[k])
        PROVE  outbox'[k] = [topic |-> topic, key |-> u]
    BY <1>0, <2>1, <2>3 DEF SaveEvent, TypeOK
  <2>4. CASE k \in DOMAIN outbox /\ outbox'[k] = outbox[k]
    BY <2>1, <2>4 DEF Completed
  <2> QED
    BY <1>3, <2>1, <2>2, <2>3, <2>4
<1>5. ASSUME NEW t \in Completed' PROVE Moved(t)'
  <2>1. CASE t \in Completed
    BY <1>1, <1>2, <2>1 DEF CompletedMeansMoved, Completed
  <2>2. ASSUME NEW i \in Instance, pc[i] = "saveCompleted", t = Job(i)
        PROVE  Moved(t)'
    <3>1. t \in Transfer /\ 0 < credited[i][t] /\ credited[i][t] <= debited[i][t]
      BY <1>0, <2>2, BusyHasJob, PostingCounts DEF CopiesInv
    <3> QED
      BY <1>2, <3>1
  <2> QED
    BY <1>4, <1>5, <2>1, <2>2
<1> QED
  BY <1>5 DEF CompletedMeansMoved
-----------------------------------------------------------------------------
(* The invariant, and what follows from it.                                *)

\* The invariant holds initially.
LEMMA Initially ==
  ASSUME Init
  PROVE  IInv
<1> USE DEF Init, Group!Init
<1>1. TypeOK
  BY DEF TypeOK, Group!TypeOK, Stage
<1>2. Group!NothingLost
  BY DEF Group!NothingLost, Group!Pending, Group!Done
<1>3. CopiesInv /\ TakenBeforeGiven
  BY DEF CopiesInv, TakenBeforeGiven
<1>4. CompletedMeansMoved
  BY DEF CompletedMeansMoved, Completed
<1> QED
  BY <1>1, <1>2, <1>3, <1>4 DEF IInv

\* The invariant is inductive.
LEMMA Inductively ==
  ASSUME IInv, [Next]_vars
  PROVE  IInv'
<1>1. Base /\ CompletedMeansMoved
  BY DEF IInv, Base
<1>2. TypeOK' /\ Group!NothingLost'
  BY <1>1, TypeStep, GroupInvStep DEF Base
<1>3. \A i \in Instance : CopiesOf(i)' /\ PostingsOf(i)'
  BY <1>1, OthersDoNotDisturb, UndisturbedStep, HandlerStep, FaultStep DEF Base
<1>4. CopiesInv' /\ TakenBeforeGiven'
  BY <1>3 DEF CopiesInv, CopiesOf, TakenBeforeGiven, PostingsOf
<1>5. CompletedMeansMoved'
  BY <1>1, CompletedStep
<1> QED
  BY <1>2, <1>4, <1>5 DEF IInv

\* The inductive invariant holds in every reachable state.
THEOREM Invariance == Spec => []IInv
BY Initially, Inductively, PTL DEF Spec

\* Every variable keeps its type: no balance ever falls below zero, and every
\* row the repository scans is one it wrote.
THEOREM TypeCorrect == Spec => []TypeOK
BY Invariance, PTL DEF IInv

\* Money is taken before it is given, by every instance and in every handling
\* of an event, whatever is delivered twice, fails or crashes.
THEOREM TakenFirst == Spec => []TakenBeforeGiven
BY Invariance, PTL DEF IInv

\* A transfer announced as completed has been paid out.
THEOREM CompletedIsMoved == Spec => []CompletedMeansMoved
BY Invariance, PTL DEF IInv

\* Only a fetch error loses a request: no rebalance, crash or automatic commit
\* acknowledges a record that no handler has returned from.
THEOREM CommittedIsHandled == Spec => []CommittedMeansHandled
<1>1. IInv => CommittedMeansHandled
  BY DEF IInv, Group!NothingLost, Group!Done, CommittedMeansHandled
<1> QED
  BY <1>1, Invariance, PTL

\* A row's version names its content for good.
THEOREM VersionsNameContent == Spec => VersionNamesContent
<1>1. ASSUME IInv, [Next]_vars
      PROVE  [\A a \in Existing :
                /\ accounts'[a] # NoRow
                /\ accounts'[a] = accounts[a] \/ accounts[a].version < accounts'[a].version]_vars
  BY <1>1, TableStep DEF IInv, Grows, Existing
<1> QED
  BY <1>1, Invariance, PTL DEF Spec, VersionNamesContent
-----------------------------------------------------------------------------
(* The handlers implement the ledger.                                      *)

\* The books of the ledger, as Promised reads them off the table.
Line(row) == IF row = NoRow THEN NoRow
             ELSE [balance |-> row.balance, currency |-> row.currency]

Books == [a \in Account |-> Line(accounts[a])]

\* A row and its line in the books say the same.
LEMMA LineOfRow ==
  ASSUME NEW row \in Row
  PROVE  /\ Line(row) = [balance |-> row.balance, currency |-> row.currency]
         /\ Line(row) # NoRow
         /\ Line(row).balance = row.balance /\ Line(row).currency = row.currency
<1>1. row # NoRow /\ row.balance \in Nat /\ row.currency \in Currency
  BY NoRowAssumption DEF Row
<1> QED
  BY <1>1, NoRowAssumption DEF Line

\* An UPDATE changes the balance in one line of the books.
LEMMA BooksUpdate ==
  ASSUME TypeOK, NEW a, NEW row \in Row, CanUpdate(a, row), UpdateWithVersion(a, row)
  PROVE  /\ Books[a].balance = accounts[a].balance
         /\ Books[a] # NoRow /\ Books[a].currency = accounts[a].currency
         /\ Books' = [Books EXCEPT ![a].balance = Stored(row.balance)]
<1>1. /\ a \in Account /\ accounts[a] \in Row
      /\ accounts' = [accounts EXCEPT ![a] =
           [accounts[a] EXCEPT !.balance = Stored(row.balance), !.version = row.version]]
      /\ accounts' \in [Account -> Row \cup {NoRow}]
      /\ Stored(row.balance) \in Nat
  BY UpdateEffect
<1>2. Books[a] = Line(accounts[a])
  BY <1>1 DEF Books
<1>3. accounts'[a] = [accounts[a] EXCEPT !.balance = Stored(row.balance), !.version = row.version]
  BY <1>1 DEF TypeOK
<1>4. /\ accounts'[a] \in Row
      /\ accounts'[a].balance = Stored(row.balance)
      /\ accounts'[a].currency = accounts[a].currency
  BY <1>1, <1>3 DEF Row
<1>5. Line(accounts'[a]) = [Line(accounts[a]) EXCEPT !.balance = Stored(row.balance)]
  <2>1. Line(accounts[a]) = [balance |-> accounts[a].balance, currency |-> accounts[a].currency]
    BY <1>1, LineOfRow
  <2>2. Line(accounts'[a]) = [balance |-> accounts'[a].balance, currency |-> accounts'[a].currency]
    BY <1>4, LineOfRow
  <2> QED
    BY <1>4, <2>1, <2>2
<1>6. \A b \in Account : b # a => accounts'[b] = accounts[b]
  BY <1>1 DEF TypeOK
<1>7. Books' = [b \in Account |-> Line(accounts'[b])]
  BY DEF Books, Line
<1>8. Books' = [Books EXCEPT ![a].balance = Stored(row.balance)]
  BY <1>1, <1>5, <1>6, <1>7 DEF Books
<1> QED
  BY <1>1, <1>2, <1>8, LineOfRow

\* A source update is a Debit of the ledger, and never an overdraft.
LEMMA DebitImplemented ==
  ASSUME Base, NEW i \in Instance, pc[i] = "updateSource",
         CanUpdate(Asked(i).source, source[i]),
         UpdateWithVersion(Asked(i).source, source[i]),
         debited' = [debited EXCEPT ![i][Job(i)] = @ + 1],
         UNCHANGED <<credited, outbox>>
  PROVE  Promised!Debit(i, Job(i))
<1> DEFINE a == Asked(i).source
<1>1. /\ TypeOK /\ source[i] \in Row /\ Asked(i) \in Orders
      /\ CopiesOf(i) /\ Asked(i) = Order[Job(i)]
  BY CopyType, BusyHasJob, OneByOne DEF Base, Asked
<1>2. /\ a \in Account /\ accounts[a] \in Row
      /\ accounts[a].version = source[i].version - 1
  BY <1>1, UpdateEffect
<1>3. /\ accounts[a].balance = source[i].balance + Asked(i).amount
      /\ accounts[a].currency = Asked(i).currency
  BY <1>1, <1>2 DEF CopiesOf, DebitedCopy, CopyOf, GetByID
<1>4. /\ source[i].balance = accounts[a].balance - Asked(i).amount
      /\ accounts[a].balance >= Asked(i).amount
  BY <1>1, <1>3 DEF Row, Orders
<1>5. /\ Books[a].balance = accounts[a].balance
      /\ Books[a] # NoRow /\ Books[a].currency = accounts[a].currency
      /\ Books' = [Books EXCEPT ![a].balance = Stored(source[i].balance)]
  BY <1>1, BooksUpdate
<1>6. Books' = [Books EXCEPT ![a].balance = Stored(@ - Asked(i).amount)]
  BY <1>2, <1>4, <1>5 DEF Books
<1>7. UNCHANGED <<credited, Completed>>
  BY DEF Completed
<1>8. Promised!Serves(a, Job(i))
  BY <1>1, <1>2, <1>3, <1>5 DEF Promised!Serves, Books, Line
<1>9. Books[a].balance >= Order[Job(i)].amount
  BY <1>1, <1>4, <1>5
<1>10. Books' = [Books EXCEPT ![Order[Job(i)].source].balance = Stored(@ - Order[Job(i)].amount)]
  BY <1>1, <1>6
<1>11. /\ Promised!Serves(Order[Job(i)].source, Job(i))
       /\ Books[Order[Job(i)].source].balance >= Order[Job(i)].amount
  BY <1>1, <1>8, <1>9, SMTT(30)
<1> HIDE DEF a
<1> QED
  BY <1>7, <1>10, <1>11 DEF Promised!Debit, Promised!Stored, Stored, Books, Line

\* A destination update is a Credit of the ledger.
LEMMA CreditImplemented ==
  ASSUME Base, NEW i \in Instance, pc[i] = "updateDest",
         CanUpdate(Asked(i).dest, dest[i]),
         UpdateWithVersion(Asked(i).dest, dest[i]),
         credited' = [credited EXCEPT ![i][Job(i)] = @ + 1],
         UNCHANGED <<debited, outbox>>
  PROVE  Promised!Credit(i, Job(i))
<1> DEFINE a == Asked(i).dest
<1>1. /\ TypeOK /\ dest[i] \in Row /\ Asked(i) \in Orders
      /\ CopiesOf(i) /\ Asked(i) = Order[Job(i)]
  BY CopyType, BusyHasJob, OneByOne DEF Base, Asked
<1>2. /\ a \in Account /\ accounts[a] \in Row
      /\ accounts[a].version = dest[i].version - 1
  BY <1>1, UpdateEffect
<1>3. /\ accounts[a].balance = dest[i].balance - Asked(i).amount
      /\ accounts[a].currency = Asked(i).currency
  BY <1>1, <1>2 DEF CopiesOf, CreditedCopy, CopyOf, GetByID
<1>4. dest[i].balance = accounts[a].balance + Asked(i).amount
  BY <1>1, <1>3 DEF Row, Orders
<1>5. /\ Books[a].balance = accounts[a].balance
      /\ Books[a] # NoRow /\ Books[a].currency = accounts[a].currency
      /\ Books' = [Books EXCEPT ![a].balance = Stored(dest[i].balance)]
  BY <1>1, BooksUpdate
<1>6. Books' = [Books EXCEPT ![a].balance = Stored(@ + Asked(i).amount)]
  BY <1>2, <1>4, <1>5 DEF Books
<1>7. UNCHANGED <<debited, Completed>>
  BY DEF Completed
<1>8. credited[i][Job(i)] < debited[i][Job(i)]
  BY BusyHasJob DEF Base, TakenBeforeGiven
<1>9. Promised!Serves(a, Job(i))
  BY <1>1, <1>2, <1>3, <1>5 DEF Promised!Serves, Books, Line
<1>10. Books' = [Books EXCEPT ![Order[Job(i)].dest].balance = Stored(@ + Order[Job(i)].amount)]
  BY <1>1, <1>6
<1>11. Promised!Serves(Order[Job(i)].dest, Job(i))
  BY <1>1, <1>9
<1> HIDE DEF a
<1> QED
  BY <1>7, <1>8, <1>10, <1>11 DEF Promised!Credit, Promised!Stored, Stored, Books, Line

\* CreateAccount opens an account in the ledger.
LEMMA OpenImplemented ==
  ASSUME TypeOK, NEW a \in Account, NEW c \in Currency, NEW d \in Deposit,
         CreateAccount(a, c, d)
  PROVE  Promised!Open(a, c, d)
<1> DEFINE row == [balance |-> Stored(d), currency |-> c, status |-> "active", version |-> 1]
<1>1. /\ accounts[a] = NoRow /\ d >= 0 /\ accounts' = [accounts EXCEPT ![a] = row]
      /\ UNCHANGED <<debited, credited, outbox>>
  BY DEF CreateAccount, NewAccount, Create
<1>2. Stored(d) \in Nat
  BY <1>1, ServiceAssumption, StoredType
<1>3. row \in Row
  BY <1>2 DEF Row, Status
<1>4. Line(row) = [balance |-> Stored(d), currency |-> c]
  BY <1>3, LineOfRow
<1>5. Books' = [b \in Account |-> Line(accounts'[b])]
  BY DEF Books, Line
<1> HIDE DEF row
<1>6. Books' = [Books EXCEPT ![a] = Line(row)]
  BY <1>1, <1>5 DEF Books, TypeOK
<1>7. Books[a] = NoRow /\ Books' = [Books EXCEPT ![a] = [balance |-> Stored(d), currency |-> c]]
  BY <1>1, <1>4, <1>6 DEF Books, Line
<1>8. UNCHANGED <<debited, credited, Completed>>
  BY <1>1 DEF Completed
<1> QED
  BY <1>1, <1>7, <1>8 DEF Promised!Open, Promised!Stored, Stored, Books, Line

\* An event appended to the outbox adds its key to Completed if it says so.
LEMMA CompletedAfterSave ==
  ASSUME TypeOK, NEW topic \in {"completed", "failed"}, NEW t, SaveEvent(topic, t)
  PROVE  Completed' = IF topic = "completed" THEN Completed \cup {t} ELSE Completed
<1> DEFINE Event == [topic : {"completed", "failed"}, key : Transfer]
           n == Len(outbox)
<1>1. outbox \in Seq(Event)
  BY DEF TypeOK
<1>2. outbox' = Append(outbox, [topic |-> topic, key |-> t])
  BY DEF SaveEvent
<1> HIDE DEF Event
<1>3. /\ n \in Nat /\ DOMAIN outbox = 1 .. n /\ DOMAIN outbox' = 1 .. (n + 1)
      /\ \A k \in 1 .. n : outbox'[k] = outbox[k]
      /\ outbox'[n + 1] = [topic |-> topic, key |-> t]
  BY <1>1, <1>2
<1> HIDE DEF n
<1>4. ASSUME NEW u
      PROVE  u \in Completed' <=> u \in Completed \/ (topic = "completed" /\ u = t)
  <2>1. u \in Completed <=> \E k \in 1 .. n : outbox[k].topic = "completed" /\ outbox[k].key = u
    BY <1>3 DEF Completed
  <2>2. u \in Completed' <=> \E k \in 1 .. (n + 1) : outbox'[k].topic = "completed" /\ outbox'[k].key = u
    BY <1>3 DEF Completed
  <2>3. \A k : k \in 1 .. (n + 1) <=> k \in 1 .. n \/ k = n + 1
    BY <1>3
  <2> QED
    BY <1>3, <2>1, <2>2, <2>3
<1> QED
  BY <1>4

\* Saving a completed event is an Announce of the ledger.
LEMMA AnnounceImplemented ==
  ASSUME Base, NEW i \in Instance, pc[i] = "saveCompleted",
         SaveEvent("completed", Job(i)), UNCHANGED <<accounts, debited, credited>>
  PROVE  Promised!Announce(i, Job(i))
<1>1. 0 < credited[i][Job(i)] /\ credited[i][Job(i)] \in Nat
  BY BusyHasJob DEF Base, TypeOK, CopiesInv
<1>2. Completed' = Completed \cup {Job(i)}
  BY CompletedAfterSave DEF Base
<1> QED
  BY <1>1, <1>2 DEF Promised!Announce

\* A step that touches neither books nor outcomes is none of the ledger's.
LEMMA Stutters ==
  ASSUME UNCHANGED <<accounts, debited, credited>>, UNCHANGED Completed
  PROVE  UNCHANGED Promised!vars
BY DEF Promised!vars

\* Every step of the service is a step of the ledger or a stutter.
LEMMA StepImplemented ==
  ASSUME Base, [Next]_vars
  PROVE  [Promised!Next]_(Promised!vars)
<1> USE DEF books
<1>0. TypeOK /\ Group!NothingLost /\ CopiesInv
  BY DEF Base
<1>1. ASSUME NEW a \in Account, NEW c \in Currency, NEW d \in Deposit, CreateAccount(a, c, d)
      PROVE  Promised!Next
  BY <1>0, <1>1, OpenImplemented DEF Promised!Next
<1>2. ASSUME NEW i \in Instance, UpdateSource(i) \/ UpdateDest(i) \/ UpdateErrorAfterEffect(i)
      PROVE  Promised!Next
  <2>1. Job(i) \in Transfer
    BY <1>0, <1>2, BusyHasJob DEF UpdateSource, UpdateDest, UpdateErrorAfterEffect
  <2>2. Promised!Debit(i, Job(i)) \/ Promised!Credit(i, Job(i))
    <3>1. CASE UpdateSource(i)
      BY <3>1, DebitImplemented DEF UpdateSource
    <3>2. CASE UpdateDest(i)
      BY <3>2, CreditImplemented DEF UpdateDest
    <3>3. CASE UpdateErrorAfterEffect(i)
      BY <3>3, DebitImplemented, CreditImplemented DEF UpdateErrorAfterEffect
    <3> QED
      BY <1>2, <3>1, <3>2, <3>3
  <2>3. CASE Promised!Debit(i, Job(i))
    BY <2>1, <2>3, ZenonT(40) DEF Promised!Next, Promised!Debit
  <2>4. CASE Promised!Credit(i, Job(i))
    BY <2>1, <2>4 DEF Promised!Next, Promised!Credit
  <2> QED
    BY <2>2, <2>3, <2>4
<1>3. ASSUME NEW i \in Instance, SaveCompleted(i) \/ SaveFailed(i) \/ SaveErrorAfterEffect(i)
      PROVE  [Promised!Next]_(Promised!vars)
  <2>1. Job(i) \in Transfer
    BY <1>0, <1>3, BusyHasJob DEF SaveCompleted, SaveFailed, SaveErrorAfterEffect
  <2>2. UNCHANGED <<accounts, debited, credited>>
    BY <1>3 DEF SaveCompleted, SaveFailed, SaveErrorAfterEffect
  <2>3. CASE pc[i] = "saveCompleted" /\ SaveEvent("completed", Job(i))
    BY <2>1, <2>2, <2>3, AnnounceImplemented DEF Promised!Next
  <2>4. CASE SaveEvent("failed", Job(i))
    BY <1>0, <2>2, <2>4, CompletedAfterSave, Stutters
  <2> QED
    BY <1>3, <2>3, <2>4 DEF SaveCompleted, SaveFailed, SaveErrorAfterEffect
<1>4. ASSUME UNCHANGED <<accounts, debited, credited, outbox>>
      PROVE  UNCHANGED Promised!vars
  BY <1>4, Stutters DEF Completed
<1>5. ASSUME NEW i \in Instance,
             \/ Begin(i) \/ ReadSource(i) \/ ReadDest(i) \/ UpdateRefused(i)
             \/ ReadError(i) \/ WriteError(i)
             \/ PollErrors(i) \/ Rebalance(i) \/ Crash(i) \/ Poll(i)
      PROVE  UNCHANGED <<accounts, debited, credited, outbox>>
  BY <1>5 DEF Begin, ReadSource, ReadDest, UpdateRefused, ReadError, WriteError,
              PollErrors, Rebalance, Crash, Poll
<1>6. CASE (\E t \in Transfer : Deliver(t)) \/ AutoCommit \/ UNCHANGED vars
  BY <1>4, <1>6 DEF Deliver, AutoCommit, vars
<1> QED
  BY <1>1, <1>2, <1>3, <1>4, <1>5, <1>6 DEF Next, Handler, Fault

\* Three statements of SQL, interleaved, repeated and cut short, do what the
\* atomic postings of the ledger do: no lost update, no overdraft, no posting
\* in a foreign currency, no completion announced that was not paid out.
THEOREM LedgerImplemented == Spec => ImplementsLedger
<1>1. Init => Promised!Init
  BY DEF Init, Promised!Init, Completed
<1>2. IInv /\ [Next]_vars => [Promised!Next]_(Promised!vars)
  BY StepImplemented DEF IInv, Base
<1> QED
  BY <1>1, <1>2, Invariance, PTL DEF Spec, ImplementsLedger, Promised!Spec
-----------------------------------------------------------------------------
(* The service implements Delivery.                                        *)

\* What a step of the group is to a handler.
LEMMA GroupImplemented ==
  ASSUME TypeOK, Group!NothingLost, UNCHANGED requested,
         NEW i \in Instance, Group!Step(i)
  PROVE  [Handed!Next]_(Handed!vars)
<1> USE DEF Handed!vars
<1>0. /\ requested \in Seq(Transfer) /\ DOMAIN requested = 1 .. Len(requested)
      /\ cur \in [Instance -> Nat] /\ todo \in [Instance -> Seq(Nat \ {0})]
  BY DEF TypeOK, Group!TypeOK
<1>1. CASE Group!Begin(i)
  <2>1. cur[i] = 0 /\ todo[i] # << >> /\ cur' = [cur EXCEPT ![i] = Head(todo[i])]
        /\ UNCHANGED <<handled, skipped>>
    BY <1>1 DEF Group!Begin
  <2>2. 1 \in DOMAIN todo[i] /\ Head(todo[i]) = todo[i][1] /\ todo[i][1] \in Nat \ {0}
    BY <1>0, <2>1
  <2>3. todo[i][1] \in 0 .. Len(requested)
    BY <2>2 DEF Group!NothingLost, Group!Pending
  <2>4. Handed!Begin(i, Head(todo[i])) /\ Head(todo[i]) \in DOMAIN requested
    BY <1>0, <2>1, <2>2, <2>3 DEF Handed!Begin
  <2> QED
    BY <2>4 DEF Handed!Next
<1>2. CASE Group!Finish(i)
  <2>1. Handed!Finish(i)
    BY <1>2 DEF Group!Finish, Handed!Finish
  <2> QED
    BY <2>1 DEF Handed!Next
<1>3. CASE Group!PollErrors(i)
  <2>1. PICK n \in (position + 1) .. Len(requested) :
          skipped' = skipped \cup (position + 1) .. n
    BY <1>3 DEF Group!PollErrors
  <2>2. (position + 1) .. n \subseteq DOMAIN requested
    BY <1>0, <2>1 DEF TypeOK, Group!TypeOK
  <2>3. Handed!Skip((position + 1) .. n)
    BY <1>3, <2>1, <2>2 DEF Group!PollErrors, Handed!Skip
  <2> QED
    BY <2>2, <2>3 DEF Handed!Next
<1>4. CASE Group!Restart(i)
  <2>1. cur' = [cur EXCEPT ![i] = 0] /\ UNCHANGED <<handled, skipped>>
    BY <1>4 DEF Group!Restart
  <2>2. CASE cur[i] = 0
    <3>1. cur' = cur
      BY <1>0, <2>1, <2>2
    <3> QED
      BY <2>1, <3>1
  <2>3. CASE cur[i] # 0
    BY <2>1, <2>3 DEF Handed!Drop, Handed!Next
  <2> QED
    BY <2>2, <2>3
<1>5. CASE Group!Poll(i) \/ Group!AutoCommit \/ Group!Rebalance(i)
  BY <1>5 DEF Group!Poll, Group!AutoCommit, Group!Rebalance
<1> QED
  BY <1>1, <1>2, <1>3, <1>4, <1>5 DEF Group!Step

\* The consumer group with its batches, offsets, rebalances, fetch errors and
\* restarts hands requests to the handlers as Delivery says.
THEOREM DeliveryImplemented == Spec => ImplementsDelivery
<1>1. Init => Handed!Init
  BY DEF Init, Group!Init, Handed!Init
<1>2. ASSUME IInv, [Next]_vars PROVE [Handed!Next]_(Handed!vars)
  <2>1. TypeOK /\ Group!NothingLost /\ owner \in Instance
    BY <1>2 DEF IInv, TypeOK, Group!TypeOK
  <2>2. CASE UNCHANGED group /\ UNCHANGED requested
    BY <2>2 DEF group, Handed!vars
  <2>3. ASSUME UNCHANGED group, NEW t \in Transfer,
               Len(requested) < MaxRequested, requested' = Append(requested, t)
        PROVE  Handed!Next
    <3>1. /\ DOMAIN requested' = DOMAIN requested \cup {Len(requested) + 1}
          /\ Len(requested) + 1 \in 1 .. MaxRequested
      <4>1. requested \in Seq(Transfer) /\ MaxRequested \in Nat
        BY <2>1, ServiceAssumption DEF TypeOK
      <4>2. /\ Len(requested) \in Nat
            /\ DOMAIN requested = 1 .. Len(requested)
            /\ DOMAIN requested' = 1 .. (Len(requested) + 1)
        BY <4>1, <2>3
      <4>3. Len(requested) < MaxRequested
        BY <2>3
      <4>4. /\ 1 .. (Len(requested) + 1) = 1 .. Len(requested) \cup {Len(requested) + 1}
            /\ Len(requested) + 1 \in 1 .. MaxRequested
        BY <4>1, <4>2, <4>3
      <4> QED
        BY <4>2, <4>4
    <3>2. Handed!Publish(Len(requested) + 1)
      BY <2>3, <3>1 DEF Handed!Publish, group
    <3> QED
      BY <3>1, <3>2 DEF Handed!Next
  <2> QED
    BY <1>2, <2>1, <2>2, <2>3, GroupStep, GroupImplemented
<1> QED
  BY <1>1, <1>2, Invariance, PTL DEF Spec, ImplementsDelivery, Handed!Spec
-----------------------------------------------------------------------------
(* The books balance.                                                      *)

\* i's handler takes the money of its transfer, and i's handler pays it out.
Takes(i) ==
  /\ pc[i] = "updateSource"
  /\ CanUpdate(Asked(i).source, source[i])
  /\ UpdateWithVersion(Asked(i).source, source[i])
  /\ debited' = [debited EXCEPT ![i][Job(i)] = @ + 1]
  /\ UNCHANGED <<credited, opening>>

Gives(i) ==
  /\ pc[i] = "updateDest"
  /\ CanUpdate(Asked(i).dest, dest[i])
  /\ UpdateWithVersion(Asked(i).dest, dest[i])
  /\ credited' = [credited EXCEPT ![i][Job(i)] = @ + 1]
  /\ UNCHANGED <<debited, opening>>

\* What a step does to the books.
LEMMA BooksStep ==
  ASSUME [Next]_vars
  PROVE  \/ UNCHANGED books
         \/ \E a \in Account, c \in Currency, d \in Deposit : CreateAccount(a, c, d)
         \/ \E i \in Instance : Takes(i) \/ Gives(i)
<1> USE DEF books
<1>1. ASSUME NEW i \in Instance, UpdateSource(i) \/ UpdateDest(i) \/ UpdateErrorAfterEffect(i)
      PROVE  Takes(i) \/ Gives(i)
  BY <1>1 DEF UpdateSource, UpdateDest, UpdateErrorAfterEffect, Takes, Gives
<1>2. ASSUME NEW i \in Instance,
             \/ Begin(i) \/ ReadSource(i) \/ ReadDest(i) \/ UpdateRefused(i)
             \/ SaveCompleted(i) \/ SaveFailed(i)
      PROVE  UNCHANGED books
  BY <1>2 DEF Begin, ReadSource, ReadDest, UpdateRefused, SaveCompleted, SaveFailed
<1>3. ASSUME NEW i \in Instance,
             \/ ReadError(i) \/ WriteError(i) \/ SaveErrorAfterEffect(i)
             \/ PollErrors(i) \/ Rebalance(i) \/ Crash(i) \/ Poll(i)
      PROVE  UNCHANGED books
  BY <1>3 DEF ReadError, WriteError, SaveErrorAfterEffect, PollErrors, Rebalance, Crash, Poll
<1>4. CASE (\E t \in Transfer : Deliver(t)) \/ AutoCommit \/ UNCHANGED vars
  BY <1>4 DEF Deliver, AutoCommit, vars
<1> QED
  BY <1>1, <1>2, <1>3, <1>4 DEF Next, Handler, Fault

\* An UPDATE changes the balance on one account.
LEMMA BalanceUpdate ==
  ASSUME TypeOK, NEW a, NEW row \in Row, CanUpdate(a, row), UpdateWithVersion(a, row)
  PROVE  /\ a \in Account
         /\ Balance(a) = accounts[a].balance
         /\ Balance(a)' = Stored(row.balance)
         /\ \A b \in Account : b # a => Balance(b)' = Balance(b)
<1>1. /\ a \in Account /\ accounts[a] \in Row
      /\ accounts' = [accounts EXCEPT ![a] =
           [accounts[a] EXCEPT !.balance = Stored(row.balance), !.version = row.version]]
      /\ Stored(row.balance) \in Nat
  BY UpdateEffect
<1>2. accounts'[a] = [accounts[a] EXCEPT !.balance = Stored(row.balance), !.version = row.version]
  BY <1>1 DEF TypeOK
<1>3. [accounts[a] EXCEPT !.balance = Stored(row.balance), !.version = row.version] \in Row
  BY <1>1 DEF Row
<1>4. accounts[a] # NoRow /\ accounts'[a] # NoRow /\ accounts'[a].balance = Stored(row.balance)
  BY <1>1, <1>2, <1>3, NoRowAssumption DEF Row
<1>5. \A b \in Account : b # a => accounts'[b] = accounts[b]
  BY <1>1 DEF TypeOK
<1> QED
  BY <1>1, <1>4, <1>5 DEF Balance

\* Money is taken off the balance that is there, and there is enough of it.
LEMMA TakesFromBalance ==
  ASSUME Base, NEW i \in Instance, Takes(i),
         NEW t, t = Job(i), NEW a, a = Order[t].source
  PROVE  /\ t \in Transfer /\ a \in Account
         /\ Balance(a) >= Order[t].amount
         /\ Balance(a)' = Stored(Balance(a) - Order[t].amount)
         /\ \A b \in Account : b # a => Balance(b)' = Balance(b)
<1>1. /\ TypeOK /\ source[i] \in Row /\ Asked(i) \in Orders /\ Job(i) \in Transfer
      /\ CopiesOf(i) /\ Asked(i) = Order[t] /\ Asked(i).source = a
  BY CopyType, BusyHasJob, OneByOne DEF Base, Asked, Takes
<1>2. /\ a \in Account /\ accounts[a] \in Row
      /\ accounts[a].version = source[i].version - 1
  <2>1. CanUpdate(a, source[i]) /\ UpdateWithVersion(a, source[i])
    BY <1>1 DEF Takes
  <2> QED
    BY <1>1, <2>1, UpdateEffect
<1>3. accounts[a].balance = source[i].balance + Asked(i).amount
  BY <1>1, <1>2 DEF CopiesOf, DebitedCopy, CopyOf, GetByID, Takes
<1>4. /\ source[i].balance = accounts[a].balance - Asked(i).amount
      /\ accounts[a].balance >= Asked(i).amount
  BY <1>1, <1>3 DEF Row, Orders
<1>5. /\ Balance(a) = accounts[a].balance
      /\ Balance(a)' = Stored(source[i].balance)
      /\ \A b \in Account : b # a => Balance(b)' = Balance(b)
  BY <1>1, <1>2, BalanceUpdate DEF Takes
<1> QED
  BY <1>1, <1>2, <1>4, <1>5

\* It is added to the balance that is there.
LEMMA GivesToBalance ==
  ASSUME Base, NEW i \in Instance, Gives(i),
         NEW t, t = Job(i), NEW a, a = Order[t].dest
  PROVE  /\ t \in Transfer /\ a \in Account
         /\ Balance(a)' = Stored(Balance(a) + Order[t].amount)
         /\ \A b \in Account : b # a => Balance(b)' = Balance(b)
<1>1. /\ TypeOK /\ dest[i] \in Row /\ Asked(i) \in Orders /\ Job(i) \in Transfer
      /\ CopiesOf(i) /\ Asked(i) = Order[t] /\ Asked(i).dest = a
  BY CopyType, BusyHasJob, OneByOne DEF Base, Asked, Gives
<1>2. /\ a \in Account /\ accounts[a] \in Row
      /\ accounts[a].version = dest[i].version - 1
  <2>1. CanUpdate(a, dest[i]) /\ UpdateWithVersion(a, dest[i])
    BY <1>1 DEF Gives
  <2> QED
    BY <1>1, <2>1, UpdateEffect
<1>3. accounts[a].balance = dest[i].balance - Asked(i).amount
  BY <1>1, <1>2 DEF CopiesOf, CreditedCopy, CopyOf, GetByID, Gives
<1>4. dest[i].balance = accounts[a].balance + Asked(i).amount
  BY <1>1, <1>3 DEF Row, Orders
<1>5. /\ Balance(a) = accounts[a].balance
      /\ Balance(a)' = Stored(dest[i].balance)
      /\ \A b \in Account : b # a => Balance(b)' = Balance(b)
  BY <1>1, <1>2, BalanceUpdate DEF Gives
<1> QED
  BY <1>1, <1>2, <1>4, <1>5

\* A new account has the deposit on it.
LEMMA OpensBalance ==
  ASSUME TypeOK, NEW a \in Account, NEW c \in Currency, NEW d \in Deposit,
         CreateAccount(a, c, d)
  PROVE  /\ d \in Nat
         /\ Balance(a) = 0 /\ Balance(a)' = Stored(d)
         /\ \A b \in Account : b # a => Balance(b)' = Balance(b)
         /\ opening' = [opening EXCEPT ![a] = d]
         /\ UNCHANGED <<debited, credited>>
<1> DEFINE row == [balance |-> Stored(d), currency |-> c, status |-> "active", version |-> 1]
<1>1. /\ accounts[a] = NoRow /\ d \in Nat /\ accounts' = [accounts EXCEPT ![a] = row]
      /\ opening' = [opening EXCEPT ![a] = d]
      /\ UNCHANGED <<debited, credited>>
  BY ServiceAssumption DEF CreateAccount, NewAccount, Create
<1>2. Stored(d) \in Nat
  BY <1>1, StoredType
<1>3. row \in Row
  BY <1>2 DEF Row, Status
<1>4. row # NoRow /\ row.balance = Stored(d)
  BY <1>3, NoRowAssumption
<1> HIDE DEF row
<1>5. accounts'[a] = row /\ \A b \in Account : b # a => accounts'[b] = accounts[b]
  BY <1>1 DEF TypeOK
<1> QED
  BY <1>1, <1>4, <1>5 DEF Balance

\* A count that changes for one instance changes as much for all together.
LEMMA CountChanged ==
  ASSUME NEW f, NEW g, NEW t, NEW i \in Instance,
         \A j \in Instance : f[j][t] \in Int /\ g[j][t] \in Int,
         \A j \in Instance : j # i => g[j][t] = f[j][t]
  PROVE  Count(g, t) = Count(f, t) + (g[i][t] - f[i][t])
<1>1. IsFiniteSet(Instance)
  BY ServiceAssumption
<1>2. PICK old : old = [j \in Instance |-> f[j][t]]
  OBVIOUS
<1>3. PICK new : new = [j \in Instance |-> g[j][t]]
  OBVIOUS
<1>4. old \in [Instance -> Int] /\ new \in [Instance -> Int]
  BY <1>2, <1>3
<1>5. \A j \in Instance : j # i => new[j] = old[j]
  BY <1>2, <1>3
<1>6. SumFunction(new) = SumFunction(old) + (new[i] - old[i])
  BY ONLY <1>1, <1>4, <1>5, i \in Instance, SumChanged
<1>7. new[i] = g[i][t] /\ old[i] = f[i][t]
  BY <1>2, <1>3
<1> QED
  BY <1>2, <1>3, <1>6, <1>7 DEF Count

\* Postings are counted in natural numbers.
LEMMA CountType ==
  ASSUME NEW f \in [Instance -> [Transfer -> Nat]], NEW t \in Transfer
  PROVE  /\ Count(f, t) \in Nat
         /\ \A i \in Instance : f[i][t] <= Count(f, t)
<1> DEFINE x == [i \in Instance |-> f[i][t]]
<1>1. IsFiniteSet(Instance) /\ x \in [Instance -> Nat]
  BY ServiceAssumption
<1>2. \A i \in Instance : x[i] = f[i][t]
  OBVIOUS
<1> HIDE DEF x
<1>3. SumFunction(x) \in Nat /\ \A i \in Instance : x[i] <= SumFunction(x)
  BY <1>1, SumOfNaturals
<1> QED
  BY <1>2, <1>3 DEF Count, x

\* g counts one posting of t by i more than f.
OneMore(f, g, i, t) ==
  /\ g[i][t] = f[i][t] + 1
  /\ \A j \in Instance, u \in Transfer : j # i \/ u # t => g[j][u] = f[j][u]

\* One posting more of t is one more of t and of no other.
LEMMA CountSum ==
  ASSUME NEW f \in [Instance -> [Transfer -> Nat]], NEW i \in Instance, NEW t \in Transfer,
         NEW g \in [Instance -> [Transfer -> Nat]], OneMore(f, g, i, t)
  PROVE  /\ Count(g, t) = Count(f, t) + 1
         /\ \A u \in Transfer : u # t => Count(g, u) = Count(f, u)
<1>1. ASSUME NEW u \in Transfer
      PROVE  Count(g, u) = Count(f, u) + (g[i][u] - f[i][u])
  BY CountChanged DEF OneMore
<1>2. \A u \in Transfer : Count(f, u) \in Nat
  BY CountType
<1>3. g[i][t] - f[i][t] = 1 /\ \A u \in Transfer : u # t => g[i][u] - f[i][u] = 0
  BY DEF OneMore
<1> QED
  BY <1>1, <1>2, <1>3

\* Taking the money of t puts it under way, paying it out ends that.
LEMMA PostingSums ==
  ASSUME Base, TypeOK', NEW i \in Instance, NEW t \in Transfer, t = Job(i)
  PROVE  /\ Takes(i) =>
              /\ Taken(t)' = Taken(t) + 1 /\ PaidOut(t)' = PaidOut(t)
              /\ UnderWay(t)' = UnderWay(t) + Order[t].amount
         /\ Gives(i) =>
              /\ Taken(t)' = Taken(t) /\ PaidOut(t)' = PaidOut(t) + 1
              /\ UnderWay(t)' = UnderWay(t) - Order[t].amount
         /\ Takes(i) \/ Gives(i) =>
              \A u \in Transfer : u # t =>
                /\ Taken(u)' = Taken(u) /\ PaidOut(u)' = PaidOut(u)
                /\ UnderWay(u)' = UnderWay(u)
<1>1. /\ debited \in [Instance -> [Transfer -> Nat]]
      /\ credited \in [Instance -> [Transfer -> Nat]]
      /\ Order[t].amount \in Int
  BY ServiceAssumption DEF Base, TypeOK, Orders
<1>2. \A u \in Transfer : /\ Taken(u) \in Nat /\ PaidOut(u) \in Nat
                          /\ Taken(u)' \in Nat /\ PaidOut(u)' \in Nat
  BY CountType DEF Base, TypeOK, Taken, PaidOut
<1>3. ASSUME Takes(i)
      PROVE  /\ Taken(t)' = Taken(t) + 1
             /\ \A u \in Transfer : u # t => Taken(u)' = Taken(u)
             /\ \A u \in Transfer : PaidOut(u)' = PaidOut(u)
  <2>1. debited' = [debited EXCEPT ![i][t] = @ + 1] /\ credited' = credited
    BY <1>3 DEF Takes
  <2>2. /\ debited' \in [Instance -> [Transfer -> Nat]]
        /\ OneMore(debited, debited', i, t)
    BY <1>1, <2>1, CountUp DEF OneMore
  <2>3. /\ Count(debited', t) = Count(debited, t) + 1
        /\ \A u \in Transfer : u # t => Count(debited', u) = Count(debited, u)
    BY <1>1, <2>2, CountSum, SMTT(30)
  <2> QED
    BY <2>1, <2>3 DEF Taken, PaidOut
<1>4. ASSUME Gives(i)
      PROVE  /\ PaidOut(t)' = PaidOut(t) + 1
             /\ \A u \in Transfer : u # t => PaidOut(u)' = PaidOut(u)
             /\ \A u \in Transfer : Taken(u)' = Taken(u)
  <2>1. credited' = [credited EXCEPT ![i][t] = @ + 1] /\ debited' = debited
    BY <1>4 DEF Gives
  <2>2. /\ credited' \in [Instance -> [Transfer -> Nat]]
        /\ OneMore(credited, credited', i, t)
    BY <1>1, <2>1, CountUp DEF OneMore
  <2>3. /\ Count(credited', t) = Count(credited, t) + 1
        /\ \A u \in Transfer : u # t => Count(credited', u) = Count(credited, u)
    BY <1>1, <2>2, CountSum, SMTT(30)
  <2> QED
    BY <2>1, <2>3 DEF Taken, PaidOut
<1>5. ASSUME NEW n \in Int, NEW x \in Nat, NEW y \in Nat
      PROVE  n * ((x + 1) - y) = n * (x - y) + n /\ n * (x - (y + 1)) = n * (x - y) - n
  OBVIOUS
<1>6. ASSUME Takes(i)
      PROVE  UnderWay(t)' = UnderWay(t) + Order[t].amount
  <2>1. /\ Taken(t) \in Nat /\ PaidOut(t) \in Nat
        /\ Taken(t)' = Taken(t) + 1 /\ PaidOut(t)' = PaidOut(t)
    BY <1>2, <1>3, <1>6
  <2>2. UnderWay(t)' = Order[t].amount * ((Taken(t) + 1) - PaidOut(t))
    BY <2>1 DEF UnderWay
  <2>3. Order[t].amount * ((Taken(t) + 1) - PaidOut(t))
          = Order[t].amount * (Taken(t) - PaidOut(t)) + Order[t].amount
    BY <1>1, <1>5, <2>1
  <2> QED
    BY <2>2, <2>3 DEF UnderWay
<1>7. ASSUME Gives(i)
      PROVE  UnderWay(t)' = UnderWay(t) - Order[t].amount
  <2>1. /\ Taken(t) \in Nat /\ PaidOut(t) \in Nat
        /\ Taken(t)' = Taken(t) /\ PaidOut(t)' = PaidOut(t) + 1
    BY <1>2, <1>4, <1>7
  <2>2. UnderWay(t)' = Order[t].amount * (Taken(t) - (PaidOut(t) + 1))
    BY <2>1 DEF UnderWay
  <2>3. Order[t].amount * (Taken(t) - (PaidOut(t) + 1))
          = Order[t].amount * (Taken(t) - PaidOut(t)) - Order[t].amount
    BY <1>1, <1>5, <2>1
  <2> QED
    BY <2>2, <2>3 DEF UnderWay
<1>8. ASSUME Takes(i) \/ Gives(i), NEW u \in Transfer, u # t
      PROVE  /\ Taken(u)' = Taken(u) /\ PaidOut(u)' = PaidOut(u)
             /\ UnderWay(u)' = UnderWay(u)
  BY <1>3, <1>4, <1>8 DEF UnderWay
<1> QED
  BY <1>3, <1>4, <1>6, <1>7, <1>8

\* The sum of the balances changes as the one balance that changes.
LEMMA BalanceSum ==
  ASSUME TypeOK, TypeOK', NEW a \in Account,
         \A b \in Account : b # a => Balance(b)' = Balance(b)
  PROVE  SumFunction([b \in Account |-> Balance(b)])'
           = SumFunction([b \in Account |-> Balance(b)]) + (Balance(a)' - Balance(a))
<1> DEFINE f == [b \in Account |-> Balance(b)]
           g == [b \in Account |-> Balance(b)']
<1>1. f \in [Account -> Int] /\ g \in [Account -> Int]
  BY DEF TypeOK, Balance, Row
<1>2. /\ \A b \in Account : b # a => g[b] = f[b]
      /\ f[a] = Balance(a) /\ g[a] = Balance(a)'
  OBVIOUS
<1>3. SumFunction([b \in Account |-> Balance(b)])' = SumFunction(g)
  OBVIOUS
<1> HIDE DEF f, g
<1>4. SumFunction(g) = SumFunction(f) + (g[a] - f[a])
  BY <1>1, <1>2, ServiceAssumption, SumChanged
<1> QED
  BY <1>2, <1>3, <1>4 DEF f

\* So does the sum of what is under way.
LEMMA UnderWaySum ==
  ASSUME TypeOK, TypeOK', NEW t \in Transfer,
         \A u \in Transfer : u # t => UnderWay(u)' = UnderWay(u)
  PROVE  SumFunction([u \in Transfer |-> UnderWay(u)])'
           = SumFunction([u \in Transfer |-> UnderWay(u)]) + (UnderWay(t)' - UnderWay(t))
<1> DEFINE f == [u \in Transfer |-> UnderWay(u)]
           g == [u \in Transfer |-> UnderWay(u)']
<1>0. \A u \in Transfer : Order[u].amount \in Int
  BY ServiceAssumption DEF Orders
<1>1. f \in [Transfer -> Int] /\ g \in [Transfer -> Int]
  <2>1. \A u \in Transfer : /\ Taken(u) \in Nat /\ PaidOut(u) \in Nat
                            /\ Taken(u)' \in Nat /\ PaidOut(u)' \in Nat
    BY CountType DEF TypeOK, Taken, PaidOut
  <2> QED
    BY <1>0, <2>1 DEF UnderWay
<1>2. /\ \A u \in Transfer : u # t => g[u] = f[u]
      /\ f[t] = UnderWay(t) /\ g[t] = UnderWay(t)'
  OBVIOUS
<1>3. SumFunction([u \in Transfer |-> UnderWay(u)])' = SumFunction(g)
  OBVIOUS
<1> HIDE DEF f, g
<1>4. SumFunction(g) = SumFunction(f) + (g[t] - f[t])
  BY <1>1, <1>2, ServiceAssumption, SumChanged
<1> QED
  BY <1>2, <1>3, <1>4 DEF f
\* What a balance says that the types do not: it is an amount the column holds,
\* and an account that is not open has had no deposit.
BooksInv ==
  \A a \in Account : /\ Balance(a) \in Whole
                     /\ accounts[a] = NoRow => opening[a] = 0

\* Every step keeps that.
LEMMA BooksInvStep ==
  ASSUME Base, BooksInv, [Next]_vars
  PROVE  BooksInv'
<1> DEFINE Fine(a) == Balance(a) \in Whole /\ (accounts[a] = NoRow => opening[a] = 0)
<1>0. /\ TypeOK /\ Group!NothingLost /\ CopiesInv
      /\ \A a \in Account : accounts[a] # NoRow => accounts'[a] # NoRow
      /\ \A a \in Account : Balance(a) \in Nat
  BY TableStep DEF Base, Grows, Balance, TypeOK, Row
<1>1. ASSUME UNCHANGED books PROVE BooksInv'
  BY <1>1 DEF books, BooksInv, Balance
<1>2. ASSUME NEW a \in Account, NEW c \in Currency, NEW d \in Deposit, CreateAccount(a, c, d)
      PROVE  BooksInv'
  <2>1. /\ d \in Nat /\ Balance(a)' = Stored(d)
        /\ \A b \in Account : b # a => Balance(b)' = Balance(b)
        /\ opening' = [opening EXCEPT ![a] = d]
    BY <1>0, <1>2, OpensBalance
  <2>2. accounts' = [accounts EXCEPT ![a] = accounts'[a]] /\ accounts'[a] # NoRow
    <3> DEFINE row == [balance |-> Stored(d), currency |-> c, status |-> "active", version |-> 1]
    <3>1. accounts' = [accounts EXCEPT ![a] = row]
      BY <1>2 DEF CreateAccount, NewAccount, Create
    <3>2. row \in Row
      BY <2>1, StoredType DEF Row, Status
    <3> HIDE DEF row
    <3>3. accounts'[a] = row
      BY <1>0, <3>1 DEF TypeOK
    <3> QED
      BY <3>1, <3>2, <3>3, NoRowAssumption
  <2>3. Stored(d) \in Whole
    BY <2>1, StoredIsWhole
  <2> QED
    BY <1>0, <2>1, <2>2, <2>3 DEF BooksInv, TypeOK
<1>3. ASSUME NEW i \in Instance, Takes(i) \/ Gives(i)
      PROVE  BooksInv'
  <2>1. PICK a \in Account :
          /\ Balance(a)' \in Whole
          /\ \A b \in Account : b # a => Balance(b)' = Balance(b)
    <3>1. PICK t : t = Job(i)
      OBVIOUS
    <3>2. CASE Takes(i)
      <4>1. PICK a : a = Order[t].source
        OBVIOUS
      <4>2. /\ t \in Transfer /\ a \in Account /\ Balance(a) >= Order[t].amount
            /\ Balance(a)' = Stored(Balance(a) - Order[t].amount)
            /\ \A b \in Account : b # a => Balance(b)' = Balance(b)
        BY <3>1, <3>2, <4>1, TakesFromBalance
      <4>3. Balance(a) - Order[t].amount \in Nat
        BY <1>0, <4>2, ServiceAssumption DEF Orders
      <4> QED
        BY <4>2, <4>3, StoredIsWhole
    <3>3. CASE Gives(i)
      <4>1. PICK a : a = Order[t].dest
        OBVIOUS
      <4>2. /\ t \in Transfer /\ a \in Account
            /\ Balance(a)' = Stored(Balance(a) + Order[t].amount)
            /\ \A b \in Account : b # a => Balance(b)' = Balance(b)
        BY <3>1, <3>3, <4>1, GivesToBalance
      <4>3. Balance(a) + Order[t].amount \in Nat
        BY <1>0, <4>2, ServiceAssumption DEF Orders
      <4> QED
        BY <4>2, <4>3, StoredIsWhole
    <3> QED
      BY <1>3, <3>2, <3>3
  <2>2. opening' = opening
    BY <1>3 DEF Takes, Gives
  <2> QED
    BY <1>0, <2>1, <2>2 DEF BooksInv
<1> QED
  BY <1>1, <1>2, <1>3, BooksStep

\* Amounts with no more decimals than the column keeps.
ExactAmounts ==
  /\ \A t \in Transfer : Order[t].amount \in Whole
  /\ \A d \in Deposit : d >= 0 => d \in Whole

\* No step makes money or loses it.
LEMMA BalanceStep ==
  ASSUME ExactAmounts, Base, TypeOK', BooksInv, BooksBalance, [Next]_vars
  PROVE  BooksBalance'
<1> DEFINE Held == SumFunction([a \in Account |-> Balance(a)])
           Open == SumFunction(opening)
           Moving == SumFunction([t \in Transfer |-> UnderWay(t)])
<1>0. /\ TypeOK /\ Held = Open - Moving
      /\ Held \in Int /\ Open \in Int /\ Moving \in Int
      /\ \A a \in Account : Balance(a) \in Nat
      /\ \A t \in Transfer : UnderWay(t) \in Int
  <2>1. \A a \in Account : Balance(a) \in Nat
    BY DEF Base, TypeOK, Balance, Row
  <2>2. \A t \in Transfer : UnderWay(t) \in Int
    <3>1. \A t \in Transfer : Order[t].amount \in Nat
      BY ServiceAssumption DEF Orders
    <3>2. \A t \in Transfer : Taken(t) \in Nat /\ PaidOut(t) \in Nat
      BY CountType DEF Base, TypeOK, Taken, PaidOut
    <3> QED
      BY <3>1, <3>2 DEF UnderWay
  <2>3. IsFiniteSet(Account) /\ IsFiniteSet(Transfer)
    BY ServiceAssumption
  <2>4. Held \in Int
    <3>1. [a \in Account |-> Balance(a)] \in [Account -> Int]
      BY <2>1
    <3> QED
      BY <2>3, <3>1, SumType
  <2>5. Open \in Int
    <3>1. opening \in [Account -> Int]
      BY DEF Base, TypeOK
    <3> QED
      BY <2>3, <3>1, SumType
  <2>6. Moving \in Int
    <3>1. [t \in Transfer |-> UnderWay(t)] \in [Transfer -> Int]
      BY <2>2
    <3> QED
      BY <2>3, <3>1, SumType
  <2> QED
    BY <2>1, <2>2, <2>4, <2>5, <2>6 DEF BooksBalance, Base
<1>1. ASSUME Held' = Open' - Moving' PROVE BooksBalance'
  BY <1>1 DEF BooksBalance
<1>2. CASE UNCHANGED books
  BY <1>2 DEF books, BooksBalance, Balance, UnderWay, Taken, PaidOut
<1>3. ASSUME NEW a \in Account, NEW c \in Currency, NEW d \in Deposit, CreateAccount(a, c, d)
      PROVE  BooksBalance'
  <2>1. /\ d \in Nat /\ Balance(a) = 0 /\ Balance(a)' = Stored(d)
        /\ \A b \in Account : b # a => Balance(b)' = Balance(b)
        /\ opening' = [opening EXCEPT ![a] = d]
        /\ UNCHANGED <<debited, credited>>
    BY <1>0, <1>3, OpensBalance
  <2>2. Stored(d) = d
    BY <2>1, WholeIsStored DEF ExactAmounts
  <2>3. Held' = Held + (Balance(a)' - Balance(a))
    BY <1>0, <2>1, BalanceSum
  <2>4. Open' = Open + (opening'[a] - opening[a])
    <3>1. opening \in [Account -> Int] /\ opening' \in [Account -> Int]
      BY DEF Base, TypeOK
    <3>2. IsFiniteSet(Account)
      BY ServiceAssumption
    <3>3. \A b \in Account : b # a => opening'[b] = opening[b]
      BY <2>1, <3>1
    <3> QED
      BY <3>1, <3>2, <3>3, SumChanged
  <2>5. Moving' = Moving
    BY <2>1 DEF UnderWay, Taken, PaidOut
  <2>6. opening[a] = 0 /\ opening'[a] = d
    BY <1>0, <1>3, <2>1 DEF BooksInv, CreateAccount, Create, TypeOK
  <2> HIDE DEF Held, Open, Moving
  <2>7. Held' = Open' - Moving'
    BY <1>0, <2>1, <2>2, <2>3, <2>4, <2>5, <2>6
  <2> QED
    BY <1>1, <2>7
<1>4. ASSUME NEW i \in Instance, Takes(i)
      PROVE  BooksBalance'
  <2>1. PICK t : t = Job(i)
    OBVIOUS
  <2>2. PICK a : a = Order[t].source
    OBVIOUS
  <2>3. /\ t \in Transfer /\ a \in Account /\ Balance(a) >= Order[t].amount
        /\ Balance(a)' = Stored(Balance(a) - Order[t].amount)
        /\ \A b \in Account : b # a => Balance(b)' = Balance(b)
    BY <1>4, <2>1, <2>2, TakesFromBalance
  <2>4. /\ Order[t].amount \in Nat
        /\ Stored(Balance(a) - Order[t].amount) = Balance(a) - Order[t].amount
    <3>1. Order[t].amount \in Whole /\ Balance(a) \in Whole
      BY <2>3 DEF ExactAmounts, BooksInv
    <3> QED
      BY <2>3, <3>1, WholeSum, WholeIsStored
  <2>5. /\ UnderWay(t)' = UnderWay(t) + Order[t].amount
        /\ \A u \in Transfer : u # t => UnderWay(u)' = UnderWay(u)
    BY <1>4, <2>1, <2>3, PostingSums
  <2>6. Held' = Held + (Balance(a)' - Balance(a))
    BY <1>0, <2>3, BalanceSum
  <2>7. Moving' = Moving + (UnderWay(t)' - UnderWay(t))
    BY <1>0, <2>3, <2>5, UnderWaySum
  <2>8. Open' = Open
    BY <1>4 DEF Takes
  <2> HIDE DEF Held, Open, Moving
  <2>9. Held' = Open' - Moving'
    BY <1>0, <2>3, <2>4, <2>5, <2>6, <2>7, <2>8
  <2> QED
    BY <1>1, <2>9
<1>5. ASSUME NEW i \in Instance, Gives(i)
      PROVE  BooksBalance'
  <2>1. PICK t : t = Job(i)
    OBVIOUS
  <2>2. PICK a : a = Order[t].dest
    OBVIOUS
  <2>3. /\ t \in Transfer /\ a \in Account
        /\ Balance(a)' = Stored(Balance(a) + Order[t].amount)
        /\ \A b \in Account : b # a => Balance(b)' = Balance(b)
    BY <1>5, <2>1, <2>2, GivesToBalance
  <2>4. /\ Order[t].amount \in Nat
        /\ Stored(Balance(a) + Order[t].amount) = Balance(a) + Order[t].amount
    <3>1. Order[t].amount \in Whole /\ Balance(a) \in Whole
      BY <2>3 DEF ExactAmounts, BooksInv
    <3> QED
      BY <3>1, WholeSum, WholeIsStored
  <2>5. /\ UnderWay(t)' = UnderWay(t) - Order[t].amount
        /\ \A u \in Transfer : u # t => UnderWay(u)' = UnderWay(u)
    BY <1>5, <2>1, <2>3, PostingSums
  <2>6. Held' = Held + (Balance(a)' - Balance(a))
    BY <1>0, <2>3, BalanceSum
  <2>7. Moving' = Moving + (UnderWay(t)' - UnderWay(t))
    BY <1>0, <2>3, <2>5, UnderWaySum
  <2>8. Open' = Open
    BY <1>5 DEF Gives
  <2> HIDE DEF Held, Open, Moving
  <2>9. Held' = Open' - Moving'
    BY <1>0, <2>3, <2>4, <2>5, <2>6, <2>7, <2>8
  <2> QED
    BY <1>1, <2>9
<1> QED
  BY <1>2, <1>3, <1>4, <1>5, BooksStep

\* At first there is no money.
LEMMA BooksInitially ==
  ASSUME Init
  PROVE  BooksInv /\ BooksBalance
<1> DEFINE f == [a \in Account |-> Balance(a)]
           g == [t \in Transfer |-> UnderWay(t)]
<1>1. \A a \in Account : Balance(a) = 0 /\ opening[a] = 0
  BY DEF Init, Balance
<1>2. \A t \in Transfer : UnderWay(t) = 0
  <2>1. \A t \in Transfer : Taken(t) = PaidOut(t) /\ Taken(t) \in Nat
    <3>1. debited = credited /\ debited \in [Instance -> [Transfer -> Nat]]
      BY DEF Init
    <3> QED
      BY <3>1, CountType DEF Taken, PaidOut
  <2> QED
    BY <2>1, ServiceAssumption DEF UnderWay, Orders
<1>3. f \in [Account -> {0}] /\ opening \in [Account -> {0}] /\ g \in [Transfer -> {0}]
  BY <1>1, <1>2 DEF Init
<1>4. IsFiniteSet(Account) /\ IsFiniteSet(Transfer)
  BY ServiceAssumption
<1>5. 0 \in Whole
  BY NumericAssumption DEF Whole
<1> HIDE DEF f, g
<1>6. SumFunction(f) = 0 /\ SumFunction(opening) = 0 /\ SumFunction(g) = 0
  BY <1>3, <1>4, SumOfZeros
<1> QED
  BY <1>1, <1>5, <1>6 DEF BooksInv, BooksBalance, f, g

\* While no amount is finer than the column, the books balance in every
\* reachable state: whatever interleaves, fails, repeats or crashes, no money is
\* made, and none is lost but what a half-done transfer took.
THEOREM BooksAlwaysBalance ==
  ASSUME ExactAmounts
  PROVE  Spec => []BooksBalance
<1>1. Init => BooksInv /\ BooksBalance
  BY BooksInitially
<1>2. IInv /\ IInv' /\ BooksInv /\ BooksBalance /\ [Next]_vars => BooksInv' /\ BooksBalance'
  BY BooksInvStep, BalanceStep DEF IInv, Base
<1> QED
  BY <1>1, <1>2, Invariance, PTL DEF Spec
-----------------------------------------------------------------------------
(* One instance that nothing disturbs.                                     *)

\* There is no second instance, and no statement, poll, group or process fails.
Alone ==
  /\ \A i, j \in Instance : i = j
  /\ \A m \in Mishap : MaxMishaps[m] = 0

\* The balances the handlers are about to write fit the column.
RoomLeft ==
  \A i \in Instance : /\ pc[i] = "updateSource" => Fits(source[i].balance)
                      /\ pc[i] = "updateDest" => Fits(dest[i].balance)

\* The copies of a handler are up to date.
Fresh(i) ==
  /\ pc[i] = "readDest" => accounts[Asked(i).source].version = source[i].version
  /\ pc[i] = "updateSource" => accounts[Asked(i).source].version = source[i].version - 1
  /\ pc[i] \in {"updateSource", "updateDest"} =>
       accounts[Asked(i).dest].version = dest[i].version - 1

\* How many requests i has begun to handle: one for each answer, and the one it
\* is at.
Begun(i) == Len(outbox) + (IF cur[i] = 0 THEN 0 ELSE 1)

\* i goes through the requests in their order, leaving out none.
InOrder(i) ==
  /\ cur[i] \in {0, Len(outbox) + 1}
  /\ position = Begun(i) + Len(todo[i])
  /\ \A k \in DOMAIN todo[i] : todo[i][k] = Begun(i) + k

\* What i has taken and paid out is what was announced, and what its handler is
\* about to announce.
Accounted(i) ==
  \A t \in Transfer :
    LET at(stages) == IF pc[i] \in stages /\ Job(i) = t THEN 1 ELSE 0
    IN  /\ debited[i][t] = Completions(t) + at({"updateDest", "saveCompleted"})
        /\ credited[i][t] = Completions(t) + at({"saveCompleted"})

Orderly ==
  /\ \A i \in Instance : Fresh(i) /\ InOrder(i) /\ Accounted(i)
  /\ handled = 1 .. Len(outbox)
  /\ \A k \in DOMAIN outbox : outbox[k].key = requested[k]

\* What does not happen to such an instance.
LEMMA NothingFails ==
  ASSUME Alone, TypeOK, NEW i \in Instance, Fault(i)
  PROVE  FALSE
<1>1. PICK m \in Mishap : Suffer(m)
  BY DEF Fault, ReadError, WriteError, UpdateErrorAfterEffect, SaveErrorAfterEffect,
         PollErrors, Rebalance, Crash, Mishap
<1>2. mishaps[m] \in Nat /\ MaxMishaps[m] = 0 /\ mishaps[m] < MaxMishaps[m]
  BY <1>1 DEF Alone, TypeOK, Suffer
<1> QED
  BY <1>2

\* No UPDATE of its handler finds another version than the one it read.
LEMMA NothingRefused ==
  ASSUME Base, RoomLeft, NEW i \in Instance, Fresh(i), UpdateRefused(i)
  PROVE  FALSE
<1>0. TypeOK /\ Group!NothingLost /\ CopiesInv /\ CopiesOf(i)
  BY OneByOne DEF Base
<1>1. CASE pc[i] = "updateSource"
  <2>1. CanUpdate(Asked(i).source, source[i])
    BY <1>0, <1>1 DEF CanUpdate, CopiesOf, DebitedCopy, CopyOf, Fresh, RoomLeft
  <2> QED
    BY <1>1, <2>1 DEF UpdateRefused, CannotUpdate
<1>2. CASE pc[i] = "updateDest"
  <2>1. CanUpdate(Asked(i).dest, dest[i])
    BY <1>0, <1>2 DEF CanUpdate, CopiesOf, CreditedCopy, CopyOf, Fresh, RoomLeft
  <2> QED
    BY <1>2, <2>1 DEF UpdateRefused, CannotUpdate
<1> QED
  BY <1>1, <1>2 DEF UpdateRefused, CannotUpdate

\* Its copies stay up to date.
LEMMA FreshStep ==
  ASSUME Alone, Base, RoomLeft, [Next]_vars, NEW i \in Instance, Fresh(i)
  PROVE  Fresh(i)'
<1> USE DEF books, copies
<1>0. /\ TypeOK /\ Group!NothingLost /\ CopiesInv /\ CopiesOf(i)
      /\ \A j \in Instance : j = i
  BY OneByOne DEF Base, Alone
<1>1. ASSUME pc[i] # "idle"
      PROVE  Asked(i) \in Orders /\ Asked(i).source # Asked(i).dest
  BY <1>0, <1>1, BusyHasJob
<1>2. ASSUME pc[i] # "idle", cur'[i] = cur[i]
      PROVE  Asked(i)' = Asked(i)
  BY <1>2, JobStays DEF Asked
<1>3. /\ pc[i] \in {"readDest", "updateSource"} =>
           Asked(i).source \in Account /\ accounts[Asked(i).source] # NoRow
      /\ pc[i] \in {"updateSource", "updateDest"} =>
           Asked(i).dest \in Account /\ accounts[Asked(i).dest] # NoRow
  BY <1>0 DEF CopiesOf, DebitedCopy, CreditedCopy, CopyOf, GetByID
<1>4. ASSUME UNCHANGED <<pc, cur, copies>>,
             \A a \in Account : accounts[a] # NoRow => accounts'[a] = accounts[a]
      PROVE  Fresh(i)'
  <2>1. pc[i] # "idle" => Asked(i)' = Asked(i)
    BY <1>2, <1>4
  <2> QED
    BY <1>3, <1>4, <2>1 DEF Fresh
<1>5. ASSUME NEW a \in Account, NEW c \in Currency, NEW d \in Deposit, CreateAccount(a, c, d)
      PROVE  Fresh(i)'
  <2>1. accounts[a] = NoRow /\ \A b \in Account : b # a => accounts'[b] = accounts[b]
    BY <1>0, <1>5 DEF CreateAccount, Create, TypeOK
  <2> QED
    BY <1>4, <1>5, <2>1 DEF CreateAccount, group
<1>6. CASE \/ \E t \in Transfer : Deliver(t)
           \/ Poll(i) \/ AutoCommit \/ UNCHANGED vars
  BY <1>4, <1>6 DEF Deliver, Poll, AutoCommit, vars, group, Group!Poll, Group!AutoCommit
<1>7. ASSUME pc'[i] \notin {"readDest", "updateSource", "updateDest"}
      PROVE  Fresh(i)'
  BY <1>7 DEF Fresh
<1>8. CASE Begin(i) \/ UpdateDest(i) \/ SaveCompleted(i) \/ SaveFailed(i)
  BY <1>0, <1>7, <1>8 DEF Begin, UpdateDest, SaveCompleted, SaveFailed, Goto, Return, TypeOK
<1>9. CASE ReadSource(i)
  <2>1. /\ pc[i] = "readSource" /\ cur'[i] = cur[i] /\ accounts' = accounts
        /\ source'[i] = GetByID(Asked(i).source)
        /\ pc'[i] = IF GetByID(Asked(i).source) = NoRow THEN "saveFailed" ELSE "readDest"
    BY <1>0, <1>9 DEF ReadSource, Goto, group, TypeOK
  <2> QED
    BY <1>2, <2>1 DEF Fresh, GetByID
<1>10. CASE ReadDest(i)
  <2> DEFINE row == GetByID(Asked(i).dest)
             refused == \/ row = NoRow
                        \/ DebitRefused(source[i], Asked(i))
                        \/ CreditRefused(row, Asked(i))
  <2>0. pc[i] = "readDest" /\ cur'[i] = cur[i] /\ accounts' = accounts
    BY <1>10 DEF ReadDest, Goto, group
  <2>1. CASE refused
    <3>1. pc'[i] = "saveFailed"
      BY <1>0, <1>10, <2>1 DEF ReadDest, Goto, TypeOK
    <3> QED
      BY <1>7, <3>1
  <2>2. CASE ~refused
    <3>1. /\ pc'[i] = "updateSource"
          /\ source'[i] = Debit(source[i], Asked(i)) /\ dest'[i] = Credit(row, Asked(i))
      BY <1>0, <1>10, <2>2 DEF ReadDest, Goto, TypeOK
    <3>2. source[i] \in Row /\ row \in Row /\ Asked(i).dest \in Account
      BY <1>0, <2>0, <2>2, CopyType DEF GetByID, TypeOK
    <3>3. /\ source'[i].version - 1 = source[i].version
          /\ dest'[i].version - 1 = accounts[Asked(i).dest].version
      BY <3>1, <3>2 DEF Debit, Credit, Row, GetByID
    <3>4. accounts[Asked(i).source].version = source[i].version
      BY <2>0 DEF Fresh
    <3> QED
      BY <1>2, <2>0, <3>1, <3>3, <3>4 DEF Fresh
  <2> QED
    BY <2>1, <2>2
<1>11. CASE UpdateSource(i)
  <2>1. /\ pc[i] = "updateSource" /\ pc'[i] = "updateDest" /\ cur'[i] = cur[i]
        /\ dest' = dest
        /\ CanUpdate(Asked(i).source, source[i])
        /\ UpdateWithVersion(Asked(i).source, source[i])
    BY <1>0, <1>11 DEF UpdateSource, Goto, group, TypeOK
  <2>2. accounts'[Asked(i).dest] = accounts[Asked(i).dest]
    <3>1. source[i] \in Row
      BY <1>0, <2>1, CopyType
    <3>2. PICK a : a = Asked(i).source
      OBVIOUS
    <3>3. \E r : accounts' = [accounts EXCEPT ![a] = r]
      BY <1>0, <2>1, <3>1, <3>2, UpdateEffect, ZenonT(40)
    <3> QED
      BY <1>0, <1>1, <1>3, <2>1, <3>2, <3>3 DEF TypeOK
  <2> QED
    BY <1>2, <2>1, <2>2 DEF Fresh
<1>12. ~UpdateRefused(i) /\ ~Fault(i)
  BY <1>0, NothingRefused, NothingFails
<1> QED
  BY <1>0, <1>5, <1>6, <1>8, <1>9, <1>10, <1>11, <1>12 DEF Next, Handler
\* The answers given so far: one for each request handled, in their order.
Answers ==
  /\ handled = 1 .. Len(outbox)
  /\ \A k \in DOMAIN outbox : outbox[k].key = requested[k]

\* A saved event is the answer to the request its handler is at, and the next
\* one in order.
LEMMA AnswerStep ==
  ASSUME Base, NEW i \in Instance, InOrder(i), Answers, pc[i] # "idle",
         Return(i), NEW topic \in {"completed", "failed"}, SaveEvent(topic, Job(i))
  PROVE  InOrder(i)' /\ Answers'
<1>1. TypeOK /\ Group!TypeOK /\ outbox \in Seq([topic : {"completed", "failed"}, key : Transfer])
  BY DEF Base, TypeOK
<1>2. cur[i] # 0 /\ Job(i) \in Transfer /\ cur[i] = Len(outbox) + 1
  BY BusyHasJob DEF Base, InOrder
<1>3. PICK e \in [topic : {"completed", "failed"}, key : Transfer] :
        outbox' = Append(outbox, e) /\ e.key = requested[cur[i]]
  BY <1>2 DEF SaveEvent, Job
<1>4. /\ Len(outbox) \in Nat /\ Len(outbox') = Len(outbox) + 1
      /\ DOMAIN outbox' = 1 .. (Len(outbox) + 1) /\ DOMAIN outbox = 1 .. Len(outbox)
      /\ \A k \in DOMAIN outbox : outbox'[k] = outbox[k]
      /\ outbox'[Len(outbox) + 1] = e
  BY <1>1, <1>3
<1>5. /\ cur'[i] = 0 /\ handled' = handled \cup {cur[i]}
      /\ UNCHANGED <<requested, position, todo>>
  BY <1>1, <1>2 DEF Return, Group!Finish, Group!TypeOK
<1>6. Begun(i)' = Begun(i)
  BY <1>2, <1>4, <1>5 DEF Begun
<1>7. InOrder(i)'
  BY <1>5, <1>6 DEF InOrder
<1>8. handled' = 1 .. Len(outbox')
  BY <1>2, <1>4, <1>5 DEF Answers
<1>9. ASSUME NEW k \in DOMAIN outbox'
      PROVE  outbox'[k].key = requested'[k]
  <2>1. CASE k \in DOMAIN outbox
    BY <1>4, <1>5, <2>1 DEF Answers
  <2>2. CASE k = Len(outbox) + 1
    BY <1>2, <1>3, <1>4, <1>5, <2>2
  <2> QED
    BY <1>4, <2>1, <2>2
<1> QED
  BY <1>7, <1>8, <1>9 DEF Answers

\* What leaves the handler's place in the topic and the outbox alone leaves its
\* order alone.
LEMMA SameOrder ==
  ASSUME Base, [Next]_vars, NEW i \in Instance, \A j \in Instance : j = i,
         InOrder(i), Answers, UNCHANGED <<cur, todo, position, handled, outbox>>
  PROVE  InOrder(i)' /\ Answers'
<1>1. owner = i /\ outbox \in Seq([topic : {"completed", "failed"}, key : Transfer])
  BY DEF Base, TypeOK, Group!TypeOK
<1>2. Len(outbox) \in Nat /\ DOMAIN outbox = 1 .. Len(outbox) /\ todo[i] \in Seq(Nat \ {0})
  BY <1>1 DEF Base, TypeOK, Group!TypeOK
<1>3. Len(outbox) <= position /\ position <= Len(requested)
  <2>1. Begun(i) \in Nat /\ Len(outbox) <= Begun(i) /\ Len(todo[i]) \in Nat
    BY <1>2 DEF Begun
  <2>2. position = Begun(i) + Len(todo[i])
    BY DEF InOrder
  <2>3. Len(outbox) <= position
    BY <1>2, <2>1, <2>2
  <2> QED
    BY <2>3 DEF Base, Group!NothingLost
<1>4. \A k \in DOMAIN outbox : requested'[k] = requested[k]
  <2>1. \A k \in 1 .. Len(requested) : requested'[k] = requested[k]
    BY GroupInvStep DEF Base
  <2>2. Len(requested) \in Nat /\ position \in Nat
    BY DEF Base, TypeOK, Group!TypeOK
  <2> QED
    BY <1>2, <1>3, <2>1, <2>2
<1>5. InOrder(i)'
  BY DEF InOrder, Begun
<1> QED
  BY <1>4, <1>5 DEF Answers

\* No step of such an instance leaves a request out or answers one twice.
LEMMA OrderStep ==
  ASSUME Alone, Base, RoomLeft, [Next]_vars, NEW i \in Instance, Fresh(i),
         InOrder(i), Answers
  PROVE  InOrder(i)' /\ Answers'
<1>0. /\ TypeOK /\ Group!TypeOK /\ \A j \in Instance : j = i
      /\ outbox \in Seq([topic : {"completed", "failed"}, key : Transfer])
  BY DEF Alone, Base, TypeOK
<1>1. Len(outbox) \in Nat
  BY <1>0
<1>2. ASSUME UNCHANGED <<cur, todo, position, handled, outbox>>
      PROVE  InOrder(i)' /\ Answers'
  BY <1>0, <1>2, SameOrder
<1>3. CASE \/ \E a \in Account, c \in Currency, d \in Deposit : CreateAccount(a, c, d)
           \/ \E t \in Transfer : Deliver(t)
           \/ AutoCommit \/ UNCHANGED vars
  BY <1>2, <1>3 DEF CreateAccount, Deliver, AutoCommit, vars, group, Group!AutoCommit
<1>4. CASE ReadSource(i) \/ ReadDest(i) \/ UpdateSource(i) \/ UpdateDest(i)
  <2>1. UNCHANGED group /\ UNCHANGED outbox
    BY <1>4 DEF ReadSource, ReadDest, UpdateSource, UpdateDest, Goto
  <2> QED
    BY <1>2, <2>1 DEF group
<1>5. CASE Poll(i)
  <2>1. PICK n \in (position + 1) .. Len(requested) :
          /\ todo' = [todo EXCEPT ![i] = [k \in 1 .. (n - position) |-> position + k]]
          /\ position' = n
    BY <1>5 DEF Poll, Group!Poll
  <2>2. /\ i = owner /\ todo[i] = << >> /\ cur[i] = 0
        /\ UNCHANGED <<cur, handled, requested, outbox>>
    BY <1>5 DEF Poll, Group!Poll, Group!Idle
  <2>3. position = Len(outbox)
    BY <1>1, <2>2 DEF InOrder, Begun
  <2>4. /\ Len(todo'[i]) = n - position /\ DOMAIN todo'[i] = 1 .. (n - position)
        /\ \A k \in 1 .. (n - position) : todo'[i][k] = position + k
    <3>1. todo'[i] = [k \in 1 .. (n - position) |-> position + k]
      BY <1>0, <2>1 DEF Group!TypeOK
    <3>2. n - position \in Nat /\ position \in Nat
      BY <1>0, <2>1 DEF Group!TypeOK
    <3> QED
      BY <3>1, <3>2
  <2>5. Begun(i)' = position
    BY <1>1, <2>2, <2>3 DEF Begun
  <2>6. position' = Begun(i)' + Len(todo'[i])
    BY <1>1, <2>1, <2>3, <2>4, <2>5
  <2>7. InOrder(i)'
    BY <2>2, <2>4, <2>5, <2>6 DEF InOrder
  <2>8. Answers'
    BY <2>2 DEF Answers
  <2> QED
    BY <2>7, <2>8
<1>6. CASE Begin(i)
  <2>1. /\ cur[i] = 0 /\ todo[i] # << >>
        /\ cur'[i] = Head(todo[i]) /\ todo'[i] = Tail(todo[i])
        /\ UNCHANGED <<position, handled, requested, outbox>>
    BY <1>0, <1>6 DEF Begin, Group!Begin, Group!TypeOK
  <2>2. todo[i] \in Seq(Nat \ {0})
    BY <1>0 DEF Group!TypeOK
  <2>3. /\ Len(todo[i]) \in Nat \ {0} /\ 1 \in DOMAIN todo[i] /\ Head(todo[i]) = todo[i][1]
        /\ Len(Tail(todo[i])) = Len(todo[i]) - 1
        /\ DOMAIN Tail(todo[i]) = 1 .. (Len(todo[i]) - 1)
        /\ \A k \in 1 .. (Len(todo[i]) - 1) :
             k + 1 \in DOMAIN todo[i] /\ Tail(todo[i])[k] = todo[i][k + 1]
    BY <2>1, <2>2
  <2>4. Begun(i) = Len(outbox) /\ cur'[i] = Len(outbox) + 1
    BY <1>1, <2>1, <2>3 DEF InOrder, Begun
  <2>5. Begun(i)' = Begun(i) + 1
    BY <1>1, <2>1, <2>4 DEF Begun
  <2>6. position' = Begun(i)' + Len(todo'[i])
    <3>1. position = Len(outbox) + Len(todo[i])
      BY <2>4 DEF InOrder
    <3>2. Begun(i)' = Len(outbox) + 1 /\ Len(todo'[i]) = Len(todo[i]) - 1
      BY <2>1, <2>3, <2>4, <2>5
    <3>3. position' = position /\ Len(todo[i]) \in Nat
      BY <2>1, <2>3
    <3>4. PICK n \in Nat, m \in Nat : n = Len(outbox) /\ m = Len(todo[i])
      BY <1>1, <3>3
    <3>5. position' = n + m /\ Begun(i)' = n + 1 /\ Len(todo'[i]) = m - 1
      BY ONLY <3>1, <3>2, <3>3, <3>4
    <3>6. n + m = (n + 1) + (m - 1)
      OBVIOUS
    <3> QED
      BY <3>5, <3>6
  <2>7. \A k \in DOMAIN todo'[i] : todo'[i][k] = Begun(i)' + k
    BY <1>1, <2>1, <2>3, <2>4, <2>5, SMTT(30) DEF InOrder
  <2>8. InOrder(i)'
    BY <2>1, <2>4, <2>6, <2>7 DEF InOrder
  <2> QED
    BY <2>1, <2>8 DEF Answers
<1>7. CASE SaveCompleted(i) \/ SaveFailed(i)
  <2>1. pc[i] # "idle" /\ Return(i) /\ \E topic \in {"completed", "failed"} : SaveEvent(topic, Job(i))
    BY <1>7 DEF SaveCompleted, SaveFailed
  <2> QED
    BY <2>1, AnswerStep
<1>8. ~UpdateRefused(i) /\ ~Fault(i)
  BY <1>0, NothingRefused, NothingFails
<1> QED
  BY <1>0, <1>3, <1>4, <1>5, <1>6, <1>7, <1>8 DEF Next, Handler

\* An event saved adds to the completions of its transfer, if it is one.
LEMMA CompletionsStep ==
  ASSUME outbox \in Seq([topic : {"completed", "failed"}, key : Transfer]),
         NEW topic \in {"completed", "failed"}, NEW job \in Transfer, SaveEvent(topic, job),
         NEW t \in Transfer
  PROVE  Completions(t)' = Completions(t) + (IF topic = "completed" /\ job = t THEN 1 ELSE 0)
<1> DEFINE e == [topic |-> "completed", key |-> t]
           new == [topic |-> topic, key |-> job]
           S == {k \in DOMAIN outbox : outbox[k] = e}
           l == Len(outbox)
<1>1. /\ l \in Nat /\ DOMAIN outbox = 1 .. l /\ DOMAIN outbox' = 1 .. l + 1
      /\ \A k \in 1 .. l : outbox'[k] = outbox[k]
      /\ outbox'[l + 1] = new
  BY DEF SaveEvent
<1>2. new = e <=> topic = "completed" /\ job = t
  OBVIOUS
<1>3. IsFiniteSet(S) /\ Cardinality(S) \in Nat /\ l + 1 \notin S
  <2>1. IsFiniteSet(1 .. l)
    BY <1>1, FS_Interval
  <2>2. S \subseteq 1 .. l /\ l + 1 \notin 1 .. l
    BY <1>1
  <2>3. IsFiniteSet(S)
    BY <2>1, <2>2, FS_Subset
  <2> QED
    BY <2>2, <2>3, FS_CardinalityType
<1>4. {k \in DOMAIN outbox' : outbox'[k] = e} = IF new = e THEN S \cup {l + 1} ELSE S
  <2> HIDE DEF l, e, new
  <2>1. \A k : k \in 1 .. l + 1 <=> k \in 1 .. l \/ k = l + 1
    BY <1>1
  <2> QED
    BY <1>1, <2>1
<1>5. Cardinality(S \cup {l + 1}) = Cardinality(S) + 1
  BY <1>3, FS_AddElement
<1>6. Completions(t) = Cardinality(S)
  BY DEF Completions
<1>7. Completions(t)' = Cardinality(IF new = e THEN S \cup {l + 1} ELSE S)
  BY <1>4 DEF Completions
<1> QED
  BY <1>2, <1>3, <1>5, <1>6, <1>7

LEMMA CompletionsType ==
  ASSUME outbox \in Seq([topic : {"completed", "failed"}, key : Transfer]), NEW t
  PROVE  Completions(t) \in Nat
<1>1. IsFiniteSet(1 .. Len(outbox)) /\ DOMAIN outbox = 1 .. Len(outbox)
  BY FS_Interval
<1>2. IsFiniteSet({k \in DOMAIN outbox : outbox[k] = [topic |-> "completed", key |-> t]})
  BY <1>1, FS_Subset
<1> QED
  BY <1>2, FS_CardinalityType DEF Completions

\* Every posting such an instance makes is followed by its announcement.
LEMMA AccountedStep ==
  ASSUME Alone, Base, RoomLeft, [Next]_vars, NEW i \in Instance, Fresh(i), Accounted(i)
  PROVE  Accounted(i)'
<1> DEFINE at(stages, t) == IF pc[i] \in stages /\ Job(i) = t THEN 1 ELSE 0
           held(t) == at({"updateDest", "saveCompleted"}, t)
           owed(t) == at({"saveCompleted"}, t)
<1>0. /\ TypeOK /\ CopiesOf(i) /\ \A j \in Instance : j = i
      /\ outbox \in Seq([topic : {"completed", "failed"}, key : Transfer])
      /\ pc \in [Instance -> Stage]
      /\ debited \in [Instance -> [Transfer -> Nat]]
      /\ credited \in [Instance -> [Transfer -> Nat]]
  BY OneByOne DEF Base, Alone, TypeOK
<1>a. \A t \in Transfer : /\ debited[i][t] = Completions(t) + held(t)
                          /\ credited[i][t] = Completions(t) + owed(t)
                          /\ Completions(t) \in Nat
  BY <1>0, CompletionsType DEF Accounted
<1>b. ASSUME pc[i] # "idle"
      PROVE  Job(i) \in Transfer
  BY <1>0, <1>b, BusyHasJob DEF Base
<1>c. ASSUME pc[i] # "idle", cur'[i] = cur[i]
      PROVE  Job(i)' = Job(i)
  BY <1>c, JobStays
<1>1. ASSUME UNCHANGED <<debited, credited, outbox>>,
             \/ UNCHANGED <<pc, cur>>
             \/ /\ pc[i] \notin {"updateDest", "saveCompleted"}
                /\ pc'[i] \notin {"updateDest", "saveCompleted"}
      PROVE  Accounted(i)'
  <2>1. ASSUME NEW t \in Transfer
        PROVE  held(t)' = held(t) /\ owed(t)' = owed(t) /\ Completions(t)' = Completions(t)
    BY <1>0, <1>1, <1>c DEF Completions
  <2> QED
    BY <1>1, <1>a, <2>1 DEF Accounted
<1>2. CASE \/ \E a \in Account, c \in Currency, d \in Deposit : CreateAccount(a, c, d)
           \/ \E t \in Transfer : Deliver(t)
           \/ Poll(i) \/ AutoCommit \/ UNCHANGED vars
  BY <1>1, <1>2 DEF CreateAccount, Deliver, Poll, AutoCommit, vars, group, books,
                    Group!Poll, Group!AutoCommit
<1>3. CASE Begin(i) \/ ReadSource(i) \/ ReadDest(i)
  <2>1. /\ pc[i] \notin {"updateDest", "saveCompleted"}
        /\ pc'[i] \notin {"updateDest", "saveCompleted"}
        /\ UNCHANGED <<debited, credited, outbox>>
    <3>1. CASE Begin(i)
      <4>1. pc[i] = "idle"
        BY <1>0, <3>1 DEF Begin, Group!Begin, Group!Idle, CopiesOf
      <4> QED
        BY <1>0, <3>1, <4>1 DEF Begin, books
    <3>2. CASE ReadSource(i) \/ ReadDest(i)
      BY <1>0, <3>2 DEF ReadSource, ReadDest, Goto, books
    <3> QED
      BY <1>3, <3>1, <3>2
  <2> QED
    BY <1>1, <2>1
<1>4. CASE UpdateSource(i)
  <2>1. /\ pc[i] = "updateSource" /\ pc'[i] = "updateDest" /\ cur'[i] = cur[i]
        /\ credited' = credited /\ outbox' = outbox
        /\ debited' = [debited EXCEPT ![i][Job(i)] = @ + 1]
    BY <1>0, <1>4 DEF UpdateSource, Goto, group
  <2>2. Job(i) \in Transfer /\ Job(i)' = Job(i)
    BY <1>b, <1>c, <2>1
  <2>3. ASSUME NEW t \in Transfer
        PROVE  /\ debited'[i][t] = Completions(t)' + held(t)'
               /\ credited'[i][t] = Completions(t)' + owed(t)'
    <3>1. Completions(t)' = Completions(t)
      BY <2>1 DEF Completions
    <3>2. debited'[i][t] = debited[i][t] + (IF Job(i) = t THEN 1 ELSE 0)
      BY <1>0, <2>1, <2>2
    <3>3. /\ held(t) = 0 /\ owed(t) = 0 /\ owed(t)' = 0
          /\ held(t)' = IF Job(i) = t THEN 1 ELSE 0
      BY <2>1, <2>2
    <3> QED
      BY <1>a, <2>1, <3>1, <3>2, <3>3
  <2> QED
    BY <2>3 DEF Accounted
<1>5. CASE UpdateDest(i)
  <2>1. /\ pc[i] = "updateDest" /\ pc'[i] = "saveCompleted" /\ cur'[i] = cur[i]
        /\ debited' = debited /\ outbox' = outbox
        /\ credited' = [credited EXCEPT ![i][Job(i)] = @ + 1]
    BY <1>0, <1>5 DEF UpdateDest, Goto, group
  <2>2. Job(i) \in Transfer /\ Job(i)' = Job(i)
    BY <1>b, <1>c, <2>1
  <2>3. ASSUME NEW t \in Transfer
        PROVE  /\ debited'[i][t] = Completions(t)' + held(t)'
               /\ credited'[i][t] = Completions(t)' + owed(t)'
    <3>1. Completions(t)' = Completions(t)
      BY <2>1 DEF Completions
    <3>2. credited'[i][t] = credited[i][t] + (IF Job(i) = t THEN 1 ELSE 0)
      BY <1>0, <2>1, <2>2
    <3>3. /\ owed(t) = 0 /\ held(t)' = held(t)
          /\ owed(t)' = IF Job(i) = t THEN 1 ELSE 0
      BY <2>1, <2>2
    <3> QED
      BY <1>a, <2>1, <3>1, <3>2, <3>3
  <2> QED
    BY <2>3 DEF Accounted
<1>6. CASE SaveCompleted(i) \/ SaveFailed(i)
  <2>1. PICK topic \in {"completed", "failed"} :
          /\ SaveEvent(topic, Job(i))
          /\ topic = "completed" => pc[i] = "saveCompleted"
          /\ topic = "failed" => pc[i] = "saveFailed"
    BY <1>6 DEF SaveCompleted, SaveFailed
  <2>2. pc'[i] = "idle" /\ UNCHANGED <<debited, credited>>
    BY <1>0, <1>6 DEF SaveCompleted, SaveFailed, Return, books
  <2>3. Job(i) \in Transfer
    BY <1>b, <2>1
  <2>4. ASSUME NEW t \in Transfer
        PROVE  /\ debited'[i][t] = Completions(t)' + held(t)'
               /\ credited'[i][t] = Completions(t)' + owed(t)'
    <3>1. Completions(t)'
            = Completions(t) + (IF topic = "completed" /\ Job(i) = t THEN 1 ELSE 0)
      BY <1>0, <2>1, <2>3, CompletionsStep
    <3>2. held(t)' = 0 /\ owed(t)' = 0
      BY <2>2
    <3>3. /\ held(t) = IF topic = "completed" /\ Job(i) = t THEN 1 ELSE 0
          /\ owed(t) = IF topic = "completed" /\ Job(i) = t THEN 1 ELSE 0
      BY <2>1
    <3> QED
      BY <1>a, <2>2, <3>1, <3>2, <3>3
  <2> QED
    BY <2>4 DEF Accounted
<1>7. ~UpdateRefused(i) /\ ~Fault(i)
  BY <1>0, NothingRefused, NothingFails
<1> QED
  BY <1>0, <1>2, <1>3, <1>4, <1>5, <1>6, <1>7 DEF Next, Handler

\* One instance that no failure disturbs, and whose balances fit the column,
\* gives one answer to each request, in the order of the requests, and between them
\* has taken and paid out what it announced.
THEOREM OneInstanceAnswersOnce ==
  ASSUME Alone
  PROVE  Spec /\ []RoomLeft => []OneAnswerEach
<1>1. Init => Orderly
  <2> SUFFICES ASSUME Init PROVE Orderly
    OBVIOUS
  <2> QED
    <3>1. \A i \in Instance : Fresh(i) /\ InOrder(i)
      BY DEF Init, Group!Init, Fresh, InOrder, Begun
    <3>2. ASSUME NEW i \in Instance PROVE Accounted(i)
      <4>1. \A t : {k \in DOMAIN outbox : outbox[k] = [topic |-> "completed", key |-> t]} = {}
        BY DEF Init
      <4>2. \A t : Completions(t) = 0
        BY <4>1, FS_EmptySet DEF Completions
      <4> QED
        BY <4>2 DEF Init, Accounted
    <3> QED
      BY <3>1, <3>2 DEF Init, Group!Init, Orderly
<1>2. IInv /\ RoomLeft /\ Orderly /\ [Next]_vars => Orderly'
  <2> SUFFICES ASSUME IInv, RoomLeft, Orderly, [Next]_vars
               PROVE  Orderly'
    OBVIOUS
  <2>1. Base /\ Answers
    BY DEF IInv, Base, Orderly, Answers
  <2>2. PICK i \in Instance : \A j \in Instance : j = i
    BY DEF IInv, TypeOK, Group!TypeOK, Alone
  <2>3. Fresh(i) /\ InOrder(i) /\ Accounted(i)
    BY DEF Orderly
  <2>4. Fresh(i)' /\ InOrder(i)' /\ Answers' /\ Accounted(i)'
    BY <2>1, <2>3, FreshStep, OrderStep, AccountedStep
  <2> QED
    BY <2>2, <2>4 DEF Orderly, Answers
<1>3. IInv /\ Orderly => OneAnswerEach
  <2> SUFFICES ASSUME IInv, Orderly PROVE OneAnswerEach
    OBVIOUS
  <2>1. Len(outbox) \in Nat
    BY DEF IInv, TypeOK
  <2>2. Cardinality(1 .. Len(outbox)) = Len(outbox)
    <3>1. PICK n \in Nat : n = Len(outbox)
      BY <2>1
    <3>2. Cardinality(1 .. n) = IF 1 > n THEN 0 ELSE n - 1 + 1
      BY FS_Interval
    <3>3. Cardinality(1 .. n) = n
      BY ONLY <3>1, <3>2
    <3> QED
      BY <3>1, <3>3
  <2>3. ASSUME NEW t \in Transfer, AtRest(t), NEW i \in Instance
        PROVE  debited[i][t] = Completions(t) /\ credited[i][t] = Completions(t)
    <3>1. Accounted(i) /\ Completions(t) \in Nat
      BY CompletionsType DEF Orderly, IInv, TypeOK
    <3>2. pc[i] = "idle" \/ Job(i) # t
      BY <2>3 DEF AtRest, IInv, CopiesInv
    <3> QED
      BY <3>1, <3>2 DEF Accounted
  <2> QED
    BY <2>2, <2>3 DEF Orderly, OneAnswerEach
<1> QED
  BY <1>1, <1>2, <1>3, Invariance, PTL DEF Spec
-----------------------------------------------------------------------------
(* Nothing is done that was not requested.                                 *)

\* A request of t has been delivered.
IsRequested(t) == \E n \in DOMAIN requested : requested[n] = t

\* Money is taken, and outcomes are announced, for delivered requests only.
OnlyRequested ==
  /\ \A k \in DOMAIN outbox : IsRequested(outbox[k].key)
  /\ \A i \in Instance, t \in Transfer : debited[i][t] > 0 => IsRequested(t)

\* What a handler that is at work does to its place, its postings and the
\* outbox in one step that does not end its process.
LEMMA WorkStep ==
  ASSUME Base, NEW i \in Instance, Handler(i) \/ Fault(i),
         ~Begin(i), ~PollErrors(i), ~Rebalance(i), ~Crash(i)
  PROVE  /\ pc[i] # "idle" /\ UNCHANGED requested
         /\ \/ UNCHANGED debited
            \/ /\ pc[i] = "updateSource"
               /\ debited' = [debited EXCEPT ![i][Job(i)] = @ + 1]
         /\ \/ /\ UNCHANGED outbox
               /\ \E stage : /\ Goto(i, stage)
                             /\ pc[i] \in {"updateSource", "updateDest", "saveCompleted"} =>
                                  stage \in {"updateDest", "saveCompleted"}
            \/ Return(i) /\ UNCHANGED outbox
            \/ /\ Return(i) /\ UNCHANGED debited
               /\ \E topic \in {"completed", "failed"} :
                    /\ SaveEvent(topic, Job(i))
                    /\ topic = "failed" => pc[i] = "saveFailed"
<1>1. CASE ReadSource(i) \/ ReadDest(i) \/ ReadError(i)
  <2>1. /\ pc[i] \in {"readSource", "readDest"} /\ UNCHANGED outbox /\ UNCHANGED debited
        /\ \E stage : Goto(i, stage)
    <3>1. CASE ReadSource(i)
      BY <3>1 DEF ReadSource, books
    <3>2. CASE ReadDest(i)
      BY <3>2 DEF ReadDest, books
    <3>3. CASE ReadError(i)
      BY <3>3 DEF ReadError, books
    <3> QED
      BY <1>1, <3>1, <3>2, <3>3
  <2> QED
    BY <2>1 DEF Goto
<1>2. CASE UpdateSource(i) \/ UpdateDest(i)
  BY <1>2 DEF UpdateSource, UpdateDest, Goto
<1>3. CASE UpdateRefused(i) \/ WriteError(i) \/ UpdateErrorAfterEffect(i)
  BY <1>3 DEF UpdateRefused, CannotUpdate, WriteError, UpdateErrorAfterEffect, Return, books
<1>4. CASE SaveCompleted(i) \/ SaveFailed(i) \/ SaveErrorAfterEffect(i)
  BY <1>4 DEF SaveCompleted, SaveFailed, SaveErrorAfterEffect, Return, books
<1> QED
  BY <1>1, <1>2, <1>3, <1>4 DEF Handler, Fault

\* Other steps touch neither postings nor outbox.
LEMMA IdleStep ==
  ASSUME [Next]_vars
  PROVE  \/ UNCHANGED <<debited, outbox>>
         \/ \E i \in Instance : /\ Handler(i) \/ Fault(i)
                                /\ ~Begin(i) /\ ~PollErrors(i) /\ ~Rebalance(i) /\ ~Crash(i)
BY DEF Next, Handler, Fault, CreateAccount, Deliver, Poll, Begin, PollErrors, Rebalance, Crash,
       AutoCommit, vars, books

\* A saved event is the last one of the outbox.
LEMMA Appended ==
  ASSUME TypeOK, NEW topic \in {"completed", "failed"}, NEW t \in Transfer, SaveEvent(topic, t)
  PROVE  /\ DOMAIN outbox' = DOMAIN outbox \cup {Len(outbox) + 1}
         /\ Len(outbox) + 1 \notin DOMAIN outbox
         /\ \A k \in DOMAIN outbox : outbox'[k] = outbox[k]
         /\ outbox'[Len(outbox) + 1].topic = topic /\ outbox'[Len(outbox) + 1].key = t
<1>1. PICK e \in [topic : {"completed", "failed"}, key : Transfer] :
        outbox' = Append(outbox, e) /\ e.key = t /\ e.topic = topic
  BY DEF SaveEvent
<1>2. /\ outbox \in Seq([topic : {"completed", "failed"}, key : Transfer])
      /\ Len(outbox) \in Nat /\ DOMAIN outbox = 1 .. Len(outbox)
  BY DEF TypeOK
<1>3. /\ DOMAIN outbox' = 1 .. (Len(outbox) + 1)
      /\ \A k \in DOMAIN outbox : outbox'[k] = outbox[k]
      /\ outbox'[Len(outbox) + 1] = e
  BY <1>1, <1>2
<1> QED
  BY <1>1, <1>2, <1>3

\* Every step keeps to the requests.
LEMMA OnlyRequestedStep ==
  ASSUME Base, OnlyRequested, [Next]_vars
  PROVE  OnlyRequested'
<1>0. TypeOK /\ debited \in [Instance -> [Transfer -> Nat]]
  BY DEF Base, TypeOK
<1>1. ASSUME NEW t, IsRequested(t) PROVE IsRequested(t)'
  <2>1. /\ requested \in Seq(Transfer) /\ requested' \in Seq(Transfer)
        /\ Len(requested) <= Len(requested')
        /\ \A k \in 1 .. Len(requested) : requested'[k] = requested[k]
    BY GroupInvStep DEF Base, TypeOK
  <2>2. PICK n \in DOMAIN requested : requested[n] = t
    BY <1>1 DEF IsRequested
  <2>3. n \in 1 .. Len(requested) /\ n \in DOMAIN requested'
    BY <2>1
  <2> QED
    BY <2>1, <2>2, <2>3 DEF IsRequested
<1>2. CASE UNCHANGED <<debited, outbox>>
  BY <1>1, <1>2 DEF OnlyRequested
<1>3. ASSUME NEW i \in Instance, Handler(i) \/ Fault(i),
             ~Begin(i), ~PollErrors(i), ~Rebalance(i), ~Crash(i)
      PROVE  OnlyRequested'
  <2>1. pc[i] # "idle"
    BY <1>3, WorkStep
  <2>2. Job(i) \in Transfer /\ IsRequested(Job(i))
    BY <2>1, BusyHasJob DEF Base, TypeOK, IsRequested, Job
  <2>3. PICK t \in Transfer : t = Job(i) /\ IsRequested(t)'
    BY <1>1, <2>2
  <2>4. \/ UNCHANGED debited
        \/ debited' = [debited EXCEPT ![i][t] = @ + 1]
    BY <1>3, <2>3, WorkStep
  <2>5. \A j \in Instance, u \in Transfer : debited'[j][u] > 0 => IsRequested(u)'
    <3>1. CASE UNCHANGED debited
      BY <1>1, <3>1 DEF OnlyRequested
    <3>2. CASE debited' = [debited EXCEPT ![i][t] = @ + 1]
      <4>1. \A j \in Instance, u \in Transfer : j # i \/ u # t => debited'[j][u] = debited[j][u]
        BY <1>0, <3>2, CountUp
      <4> QED
        BY <1>1, <2>3, <4>1 DEF OnlyRequested
    <3> QED
      BY <2>4, <3>1, <3>2
  <2>6. \A k \in DOMAIN outbox' : \A u : u = outbox'[k].key => IsRequested(u)'
    <3>1. CASE UNCHANGED outbox
      BY <1>1, <3>1 DEF OnlyRequested
    <3>2. ASSUME NEW topic \in {"completed", "failed"}, SaveEvent(topic, t)
          PROVE  \A k \in DOMAIN outbox' : \A u : u = outbox'[k].key => IsRequested(u)'
      <4>1. /\ DOMAIN outbox' = DOMAIN outbox \cup {Len(outbox) + 1}
            /\ \A k \in DOMAIN outbox : outbox'[k] = outbox[k]
            /\ outbox'[Len(outbox) + 1].key = t
        BY <1>0, <3>2, Appended
      <4> QED
        BY <1>1, <2>3, <4>1 DEF OnlyRequested
    <3> QED
      BY <1>3, <2>3, <3>1, <3>2, WorkStep
  <2> QED
    BY <2>5, <2>6 DEF OnlyRequested
<1> QED
  BY <1>2, <1>3, IdleStep
-----------------------------------------------------------------------------
(* Nothing is done twice while neither a rebalance nor a crash hands out an*)
(* offset again.                                                           *)

Steady == mishaps["rebalance"] = 0 /\ mishaps["crash"] = 0

\* The offset the owner began last.
Reached == position - Len(todo[owner])

\* Only the owner is at work, on one offset after the other.
InLine ==
  /\ handled \subseteq 1 .. Len(requested)
  /\ \A i \in Instance : i # owner => cur[i] = 0 /\ todo[i] = << >>
  /\ \A k \in DOMAIN todo[owner] : todo[owner][k] = Reached + k
  /\ cur[owner] \in {0, Reached}
  /\ \A n \in handled : n <= Reached /\ n # cur[owner]

\* t has been requested at most once so far.
Once(t) == \A m, n \in DOMAIN requested : requested[m] = t /\ requested[n] = t => m = n

\* A handler has returned from a request of t.
HandledOf(t) == \E n \in handled : requested[n] = t

\* The money of t is taken at most once, by the one handling of t; its outcome is
\* announced by that handling, as failed only if it took nothing.
TakenOnce(t) ==
  /\ \A i \in Instance : debited[i][t] <= IF i = owner THEN 1 ELSE 0
  /\ debited[owner][t] = 1 =>
       \/ HandledOf(t)
       \/ pc[owner] \in {"updateDest", "saveCompleted"} /\ Job(owner) = t
  /\ \A k \in DOMAIN outbox : outbox[k].key = t =>
       HandledOf(t) /\ (outbox[k].topic = "failed" => debited[owner][t] = 0)

NoneTwice ==
  Steady => InLine /\ \A t \in Transfer : Once(t) => TakenOnce(t)

\* The consumer group hands out the offsets in line.
LEMMA InLineStep ==
  ASSUME Group!TypeOK, requested \in Seq(Transfer), Group!NothingLost, InLine,
         NEW i \in Instance, UNCHANGED requested,
         Group!Poll(i) \/ Group!PollErrors(i) \/ Group!Begin(i) \/ Group!Finish(i)
  PROVE  InLine' /\ i = owner /\ owner' = owner /\ handled \subseteq handled'
<1> USE DEF Group!TypeOK
<1>0. /\ todo[owner] \in Seq(Nat \ {0}) /\ Len(todo[owner]) \in Nat
      /\ position \in Nat /\ position <= Len(requested) /\ Len(requested) \in Nat
      /\ DOMAIN todo[owner] = 1 .. Len(todo[owner])
  BY DEF Group!NothingLost
<1>1. CASE Group!Poll(i)
  <2>1. PICK n \in (position + 1) .. Len(requested) :
          /\ todo' = [todo EXCEPT ![i] = [k \in 1 .. (n - position) |-> position + k]]
          /\ position' = n
    BY <1>1 DEF Group!Poll
  <2>2. i = owner /\ todo[i] = << >> /\ cur[i] = 0 /\ UNCHANGED <<owner, cur, handled>>
    BY <1>1 DEF Group!Poll, Group!Idle
  <2>3. /\ Len(todo'[i]) = n - position /\ DOMAIN todo'[i] = 1 .. (n - position)
        /\ \A k \in 1 .. (n - position) : todo'[i][k] = position + k
    <3>1. todo'[i] = [k \in 1 .. (n - position) |-> position + k]
      BY <2>1
    <3>2. n - position \in Nat
      BY <1>0, <2>1
    <3> QED
      BY <3>1, <3>2
  <2>4. Reached = position /\ Reached' = position
    <3>1. Len(todo[owner]) = 0
      BY <2>2
    <3> QED
      BY <1>0, <2>1, <2>2, <2>3, <3>1 DEF Reached
  <2>5. \A j \in Instance : j # i => todo'[j] = todo[j]
    BY <2>1
  <2> QED
    BY <2>2, <2>3, <2>4, <2>5 DEF InLine
<1>2. CASE Group!PollErrors(i)
  <2>1. /\ i = owner /\ todo[i] = << >> /\ cur[i] = 0
        /\ UNCHANGED <<owner, cur, handled, todo>>
        /\ position' \in (position + 1) .. Len(requested)
    BY <1>2 DEF Group!PollErrors, Group!Idle
  <2>2. Reached = position /\ Reached' = position'
    <3>1. Len(todo[owner]) = 0 /\ Len(todo'[owner']) = 0
      BY <2>1
    <3>2. Reached = position - 0 /\ Reached' = position' - 0
      BY <3>1 DEF Reached
    <3>3. position' \in Nat /\ position \in Nat
      BY <1>0, <2>1
    <3>4. \A x \in Nat : x - 0 = x
      OBVIOUS
    <3> QED
      BY <3>2, <3>3, <3>4
  <2>3. DOMAIN todo[owner] = {} /\ handled \subseteq Nat
    BY <2>1
  <2>4. \A n \in handled : n <= Reached'
    <3>1. \A n \in handled : n <= position /\ n \in Nat
      BY <2>2, <2>3 DEF InLine
    <3>2. position < position' /\ position' \in Nat
      BY <1>0, <2>1
    <3> QED
      BY <1>0, <2>2, <3>1, <3>2
  <2> QED
    BY <2>1, <2>3, <2>4 DEF InLine
<1>3. CASE Group!Begin(i)
  <2>1. /\ cur[i] = 0 /\ todo[i] # << >>
        /\ cur' = [cur EXCEPT ![i] = Head(todo[i])]
        /\ todo' = [todo EXCEPT ![i] = Tail(todo[i])]
        /\ UNCHANGED <<owner, position, handled>>
    BY <1>3 DEF Group!Begin
  <2>2. i = owner
    BY <2>1 DEF InLine
  <2>3. /\ Len(todo[i]) \in Nat \ {0} /\ 1 \in DOMAIN todo[i] /\ Head(todo[i]) = todo[i][1]
        /\ Len(Tail(todo[i])) = Len(todo[i]) - 1
        /\ DOMAIN Tail(todo[i]) = 1 .. (Len(todo[i]) - 1)
        /\ \A k \in 1 .. (Len(todo[i]) - 1) :
             k + 1 \in DOMAIN todo[i] /\ Tail(todo[i])[k] = todo[i][k + 1]
    BY <1>0, <2>1, <2>2
  <2>4. todo'[i] = Tail(todo[i]) /\ cur'[i] = Head(todo[i])
    BY <2>1
  <2>5. Reached \in Int /\ Reached' = Reached + 1
    BY <1>0, <2>1, <2>2, <2>3, <2>4 DEF Reached
  <2>6. cur'[i] = Reached'
    BY <2>2, <2>3, <2>4, <2>5 DEF InLine
  <2>7. \A k \in DOMAIN todo'[i] : todo'[i][k] = Reached' + k
    <3>1. \A k \in 1 .. (Len(todo[i]) - 1) : todo[i][k + 1] = Reached + (k + 1)
      BY <2>2, <2>3 DEF InLine
    <3> QED
      BY <2>3, <2>4, <2>5, <3>1, SMTT(30)
  <2>8. \A n \in handled : n <= Reached' /\ n # cur'[i]
    <3>1. \A n \in handled : n \in Nat /\ n <= Reached
      BY DEF InLine
    <3> QED
      BY <2>5, <2>6, <3>1
  <2>9. \A j \in Instance : j # i => todo'[j] = todo[j] /\ cur'[j] = cur[j]
    BY <2>1
  <2> QED
    BY <2>1, <2>2, <2>6, <2>7, <2>8, <2>9 DEF InLine
<1>4. CASE Group!Finish(i)
  <2>1. /\ cur[i] # 0 /\ handled' = handled \cup {cur[i]} /\ cur' = [cur EXCEPT ![i] = 0]
        /\ UNCHANGED <<owner, position, todo>>
    BY <1>4 DEF Group!Finish
  <2>2. i = owner /\ cur[i] = Reached /\ Reached' = Reached
    BY <2>1 DEF InLine, Reached
  <2>3. cur[i] \in 1 .. Len(requested)
    <3>1. cur[i] \in 0 .. Len(requested)
      BY DEF Group!NothingLost, Group!Pending
    <3> QED
      BY <2>1, <3>1
  <2>4. cur'[i] = 0 /\ \A j \in Instance : j # i => cur'[j] = cur[j]
    BY <2>1
  <2>5. \A n \in handled' : n \in 1 .. Len(requested) /\ n <= Reached' /\ n # cur'[i]
    <3>1. \A n \in handled : n \in 1 .. Len(requested) /\ n <= Reached
      BY DEF InLine
    <3>2. cur[i] <= Reached
      BY <2>2, <2>3
    <3>3. \A n \in 1 .. Len(requested) : n # 0
      BY <1>0
    <3> QED
      BY <2>1, <2>2, <2>3, <2>4, <3>1, <3>2, <3>3
  <2>6. \A k \in DOMAIN todo'[owner] : todo'[owner][k] = Reached' + k
    BY <2>1, <2>2 DEF InLine
  <2> QED
    BY <2>1, <2>2, <2>4, <2>5, <2>6 DEF InLine
<1> QED
  BY <1>1, <1>2, <1>3, <1>4

\* Nor do steps that leave the group alone disturb the line.
LEMMA InLineStays ==
  ASSUME Base, InLine, [Next]_vars, UNCHANGED <<owner, position, todo, cur, handled>>
  PROVE  InLine'
<1>1. Reached' = Reached
  BY DEF Reached
<1>2. 1 .. Len(requested) \subseteq 1 .. Len(requested')
  <2>1. /\ Len(requested) \in Nat /\ Len(requested') \in Nat
        /\ Len(requested) <= Len(requested')
    BY GroupInvStep DEF Base, TypeOK
  <2> QED
    BY <2>1
<1> QED
  BY <1>1, <1>2 DEF InLine

\* A transfer requested once and not yet dealt with has moved nothing but what its
\* handler is just moving, and nothing of it has been announced.
LEMMA FirstHandling ==
  ASSUME Base, InLine, NEW i \in Instance, pc[i] # "idle", Once(Job(i)), TakenOnce(Job(i))
  PROVE  /\ i = owner
         /\ debited[i][Job(i)] \in {0, 1}
         /\ pc[i] \notin {"updateDest", "saveCompleted"} => debited[i][Job(i)] = 0
         /\ \A k \in DOMAIN outbox : outbox[k].key # Job(i)
<1>1. cur[i] \in 1 .. Len(requested) /\ Job(i) \in Transfer /\ debited[i][Job(i)] \in Nat
  BY BusyHasJob DEF Base, TypeOK
<1>2. i = owner
  BY <1>1 DEF InLine
<1>3. ~HandledOf(Job(i))
  <2> SUFFICES ASSUME NEW n \in handled, requested[n] = Job(i) PROVE FALSE
    BY DEF HandledOf
  <2>1. requested \in Seq(Transfer) /\ DOMAIN requested = 1 .. Len(requested)
    BY DEF Base, TypeOK
  <2>2. n \in DOMAIN requested /\ n # cur[i]
    BY <1>2, <2>1 DEF InLine
  <2> QED
    BY <1>1, <2>1, <2>2 DEF Once, Job
<1>4. debited[i][Job(i)] \in {0, 1}
  <2>1. debited[i][Job(i)] <= 1
    BY <1>2 DEF TakenOnce
  <2> QED
    BY <1>1, <2>1
<1> QED
  BY <1>2, <1>3, <1>4 DEF TakenOnce

\* The steps of a service that neither crashes nor is rebalanced.
LEMMA SteadyStep ==
  ASSUME Base, [Next]_vars, Steady'
  PROVE  /\ Steady
         /\ \A i \in Instance : ~Crash(i) /\ ~Rebalance(i)
<1>1. mishaps \in [Mishap -> Nat]
  BY DEF Base, TypeOK
<1>2. ASSUME NEW m \in Mishap, Suffer(m)
      PROVE  /\ mishaps'[m] > 0
             /\ \A k \in Mishap : mishaps'[k] = 0 => mishaps[k] = 0
  BY <1>1, <1>2 DEF Suffer
<1>3. UNCHANGED mishaps \/ \E m \in Mishap : Suffer(m)
  BY DEF Next, Handler, Fault, CreateAccount, Deliver, Poll, Begin, ReadSource, ReadDest,
         UpdateSource, UpdateDest, UpdateRefused, SaveCompleted, SaveFailed, ReadError,
         WriteError, UpdateErrorAfterEffect, SaveErrorAfterEffect, PollErrors, Rebalance,
         Crash, AutoCommit, vars, Mishap
<1>4. "crash" \in Mishap /\ "rebalance" \in Mishap
  BY DEF Mishap
<1>5. Steady
  BY <1>2, <1>3, <1>4 DEF Steady
<1>6. ASSUME NEW i \in Instance, Crash(i) \/ Rebalance(i)
      PROVE  FALSE
  <2>1. Suffer("crash") \/ Suffer("rebalance")
    BY <1>6 DEF Crash, Rebalance
  <2> QED
    BY <1>2, <1>4, <2>1 DEF Steady
<1> QED
  BY <1>5, <1>6

\* What was asked for once after a step was so before it, and what was handled
\* before it is so after it.
LEMMA OnceStays ==
  ASSUME Base, InLine, [Next]_vars, handled \subseteq handled', NEW t
  PROVE  /\ Once(t)' => Once(t)
         /\ HandledOf(t) => HandledOf(t)'
<1>1. /\ requested \in Seq(Transfer) /\ requested' \in Seq(Transfer)
      /\ Len(requested) <= Len(requested')
      /\ \A k \in 1 .. Len(requested) : requested'[k] = requested[k]
  BY GroupInvStep DEF Base, TypeOK
<1>2. /\ DOMAIN requested = 1 .. Len(requested) /\ DOMAIN requested \subseteq DOMAIN requested'
      /\ \A k \in DOMAIN requested : requested'[k] = requested[k]
  BY <1>1
<1>3. Once(t)' => Once(t)
  BY <1>2 DEF Once
<1>4. HandledOf(t) => HandledOf(t)'
  BY <1>2 DEF HandledOf, InLine
<1> QED
  BY <1>3, <1>4

\* A step that moves nothing, announces nothing and takes no handler off its job
\* leaves a transfer as it was.
LEMMA TakenStays ==
  ASSUME Base, [Next]_vars, NEW t, TakenOnce(t),
         UNCHANGED <<debited, outbox, owner>>, HandledOf(t) => HandledOf(t)',
         pc[owner] = "idle" \/ (pc'[owner] = pc[owner] /\ cur'[owner] = cur[owner])
  PROVE  TakenOnce(t)'
<1>1. owner \in Instance
  BY DEF Base, TypeOK, Group!TypeOK
<1>2. pc'[owner] = pc[owner] /\ cur'[owner] = cur[owner] /\ pc[owner] # "idle" =>
        Job(owner)' = Job(owner)
  BY <1>1, JobStays
<1> QED
  BY <1>2 DEF TakenOnce

\* A statement of the one handler that is at work leaves every transfer taken at
\* most once.
LEMMA TakenOnceStep ==
  ASSUME Base, InLine, NEW i \in Instance, Handler(i) \/ Fault(i),
         ~Begin(i), ~PollErrors(i), ~Rebalance(i), ~Crash(i), [Next]_vars,
         NEW t \in Transfer, Once(t), TakenOnce(t), handled \subseteq handled'
  PROVE  TakenOnce(t)'
<1>0. /\ TypeOK /\ debited \in [Instance -> [Transfer -> Nat]]
      /\ HandledOf(t) => HandledOf(t)'
  BY OnceStays DEF Base, TypeOK
<1>1. /\ pc[i] # "idle" /\ UNCHANGED requested /\ Job(i) \in Transfer /\ cur[i] # 0
      /\ i = owner
  BY WorkStep, BusyHasJob DEF Base, InLine
<1>2. owner' = owner
  BY WorkStep DEF Goto, Return, group, Group!Finish
<1>3. CASE t # Job(i)
  <2>1. \A j \in Instance : debited'[j][t] = debited[j][t]
    <3>1. CASE UNCHANGED debited
      BY <3>1
    <3>2. CASE debited' = [debited EXCEPT ![i][Job(i)] = @ + 1]
      BY <1>0, <1>1, <1>3, <3>2, CountUp
    <3> QED
      BY <3>1, <3>2, WorkStep
  <2>2. ASSUME NEW k \in DOMAIN outbox', outbox'[k].key = t
        PROVE  k \in DOMAIN outbox /\ outbox'[k] = outbox[k]
    <3>1. ASSUME NEW topic \in {"completed", "failed"}, SaveEvent(topic, Job(i))
          PROVE  k \in DOMAIN outbox /\ outbox'[k] = outbox[k]
      BY <1>0, <1>1, <1>3, <2>2, <3>1, Appended
    <3> QED
      BY <2>2, <3>1, WorkStep
  <2>3. debited[owner][t] = 1 => HandledOf(t)
    BY <1>1, <1>3 DEF TakenOnce
  <2> QED
    BY <1>0, <1>1, <1>2, <2>1, <2>2, <2>3 DEF TakenOnce
<1>4. CASE t = Job(i)
  <2>1. /\ debited[i][t] \in {0, 1}
        /\ pc[i] \notin {"updateDest", "saveCompleted"} => debited[i][t] = 0
        /\ \A k \in DOMAIN outbox : outbox[k].key # t
    BY <1>1, <1>4, FirstHandling
  <2>2. \/ UNCHANGED debited
        \/ /\ pc[i] = "updateSource" /\ debited'[i][t] = 1
           /\ \A j \in Instance : j # i => debited'[j][t] = debited[j][t]
    <3>1. CASE pc[i] = "updateSource" /\ debited' = [debited EXCEPT ![i][t] = @ + 1]
      <4>1. /\ debited'[i][t] = debited[i][t] + 1
            /\ \A j \in Instance : j # i => debited'[j][t] = debited[j][t]
        BY <1>0, <3>1, CountUp
      <4> QED
        BY <2>1, <3>1, <4>1
    <3> QED
      BY <1>4, <3>1, WorkStep
  <2>3. \A j \in Instance : debited'[j][t] <= IF j = owner THEN 1 ELSE 0
    BY <1>1, <2>1, <2>2 DEF TakenOnce
  <2>4. ASSUME UNCHANGED outbox, NEW stage, Goto(i, stage),
               pc[i] \in {"updateSource", "updateDest", "saveCompleted"} =>
                 stage \in {"updateDest", "saveCompleted"}
        PROVE  TakenOnce(t)'
    <3>1. pc'[i] = stage /\ Job(i)' = t
      BY <1>4, <2>4, GotoStage
    <3>2. debited'[i][t] = 1 => stage \in {"updateDest", "saveCompleted"}
      BY <2>1, <2>2, <2>4
    <3> QED
      BY <1>1, <1>2, <2>1, <2>3, <2>4, <3>1, <3>2 DEF TakenOnce
  <2>5. ASSUME Return(i), \/ UNCHANGED outbox
                          \/ /\ UNCHANGED debited
                             /\ \E topic \in {"completed", "failed"} :
                                  /\ SaveEvent(topic, t)
                                  /\ topic = "failed" => pc[i] = "saveFailed"
        PROVE  TakenOnce(t)'
    <3>1. HandledOf(t)'
      BY <1>1, <1>4, <2>5 DEF Return, Group!Finish, HandledOf, Job
    <3>2. CASE UNCHANGED outbox
      BY <1>2, <2>1, <2>3, <3>1, <3>2 DEF TakenOnce
    <3>3. ASSUME UNCHANGED debited, NEW topic \in {"completed", "failed"}, SaveEvent(topic, t),
                 topic = "failed" => pc[i] = "saveFailed"
          PROVE  TakenOnce(t)'
      <4>1. \A k \in DOMAIN outbox' : outbox'[k].key = t => outbox'[k].topic = topic
        BY <1>0, <2>1, <3>3, Appended
      <4>2. topic = "failed" => debited'[owner][t] = 0
        BY <1>1, <2>1, <3>3
      <4> QED
        BY <1>2, <2>3, <3>1, <4>1, <4>2 DEF TakenOnce
    <3> QED
      BY <2>5, <3>2, <3>3
  <2> QED
    BY <1>4, <2>4, <2>5, WorkStep
<1> QED
  BY <1>3, <1>4

\* What every step keeps: while the service is steady, nothing is done twice.
LEMMA NoneTwiceStep ==
  ASSUME Base, NoneTwice, [Next]_vars
  PROVE  NoneTwice'
<1> SUFFICES ASSUME Steady'
             PROVE  InLine' /\ \A t \in Transfer : Once(t)' => TakenOnce(t)'
  BY DEF NoneTwice
<1>0. /\ Steady /\ InLine /\ \A i \in Instance : ~Crash(i) /\ ~Rebalance(i)
      /\ \A t \in Transfer : Once(t) => TakenOnce(t)
      /\ TypeOK /\ Group!TypeOK /\ Group!NothingLost /\ requested \in Seq(Transfer)
      /\ owner \in Instance
  BY SteadyStep DEF NoneTwice, Base, TypeOK, Group!TypeOK
<1>1. ASSUME InLine', UNCHANGED <<debited, outbox, owner>>, handled \subseteq handled',
             pc[owner] = "idle" \/ (pc'[owner] = pc[owner] /\ cur'[owner] = cur[owner])
      PROVE  InLine' /\ \A t \in Transfer : Once(t)' => TakenOnce(t)'
  BY <1>0, <1>1, OnceStays, TakenStays
<1>2. CASE \/ \E a \in Account, c \in Currency, d \in Deposit : CreateAccount(a, c, d)
           \/ \E t \in Transfer : Deliver(t)
           \/ AutoCommit \/ UNCHANGED vars
  <2>1. UNCHANGED <<owner, position, todo, cur, handled, pc, debited, outbox>>
    BY <1>2 DEF CreateAccount, Deliver, AutoCommit, vars, group, books, Group!AutoCommit
  <2>2. InLine'
    BY <1>0, <2>1, InLineStays
  <2> QED
    BY <1>1, <2>1, <2>2
<1>3. ASSUME NEW i \in Instance, Poll(i) \/ PollErrors(i) \/ Begin(i)
      PROVE  InLine' /\ \A t \in Transfer : Once(t)' => TakenOnce(t)'
  <2>1. /\ UNCHANGED <<requested, debited, outbox>>
        /\ Group!Poll(i) \/ Group!PollErrors(i) \/ Group!Begin(i)
        /\ cur[i] = 0
    BY <1>3 DEF Poll, PollErrors, Begin, books, Group!Poll, Group!PollErrors, Group!Begin, Group!Idle
  <2>2. InLine' /\ i = owner /\ owner' = owner /\ handled \subseteq handled'
    BY <1>0, <2>1, InLineStep
  <2>3. pc[owner] = "idle"
    BY <2>1, <2>2 DEF Base, CopiesInv
  <2> QED
    BY <1>1, <2>1, <2>2, <2>3
<1>4. ASSUME NEW i \in Instance, Handler(i) \/ Fault(i), ~Begin(i), ~PollErrors(i)
      PROVE  InLine' /\ \A t \in Transfer : Once(t)' => TakenOnce(t)'
  <2>1. UNCHANGED requested /\ (UNCHANGED group \/ Group!Finish(i))
    BY <1>0, <1>4, WorkStep DEF Goto, Return
  <2>2. InLine' /\ handled \subseteq handled'
    <3>1. CASE UNCHANGED group
      BY <1>0, <3>1, InLineStays DEF group
    <3>2. CASE Group!Finish(i)
      BY <1>0, <2>1, <3>2, InLineStep
    <3> QED
      BY <2>1, <3>1, <3>2
  <2> QED
    BY <1>0, <1>4, <2>2, OnceStays, TakenOnceStep
<1> QED
  BY <1>0, <1>2, <1>3, <1>4 DEF Next, Handler
-----------------------------------------------------------------------------
(* Every account's balance is accounted for by what the column stores of   *)
(* its deposit and of the amounts of its transfers.                        *)

\* The quotient is known by its remainder.
LEMMA DivisionIs ==
  ASSUME NEW d \in Nat \ {0}, NEW q \in Int, NEW r \in 0 .. (d - 1)
  PROVE  (q * d + r) \div d = q
OBVIOUS

\* Every number is a multiple and a remainder.
LEMMA Divided ==
  ASSUME NEW n \in Nat, NEW d \in Nat \ {0}
  PROVE  \E q \in Nat, r \in 0 .. (d - 1) : n = q * d + r
<1>1. n \div d \in Nat /\ n % d \in 0 .. (d - 1) /\ n = (n \div d) * d + (n % d)
  OBVIOUS
<1> QED
  BY <1>1

\* A sum with an amount the column holds exactly is stored as that amount and
\* what is stored of the other.
LEMMA StoredSum ==
  ASSUME NEW b \in Whole, NEW x \in Nat
  PROVE  Stored(b + x) = b + Stored(x)
<1>1. PICK n \in Nat : b = n * Scale
  BY DEF Whole
<1> DEFINE d == 2 * Scale
           m == 2 * x + Scale
<1>2. Scale \in Nat \ {0} /\ d \in Nat \ {0} /\ m \in Nat
  BY NumericAssumption
<1>3. 2 * (b + x) + Scale = n * d + m
  BY <1>1, <1>2
<1> HIDE DEF d, m
<1>4. PICK q \in Nat, r \in 0 .. (d - 1) : m = q * d + r
  BY <1>2, Divided
<1>5. n * d + m = (n + q) * d + r
  BY <1>2, <1>4
<1>6. m \div d = q /\ (n * d + m) \div d = n + q
  BY <1>2, <1>4, <1>5, DivisionIs
<1>7. (n + q) * Scale = n * Scale + q * Scale
  BY <1>2
<1> QED
  BY <1>1, <1>3, <1>6, <1>7 DEF Stored, d, m

\* What is left of such an amount is stored as that amount less what is stored of
\* the other, or one unit in the column's last place more.
LEMMA StoredRest ==
  ASSUME NEW b \in Whole, NEW x \in Nat, x <= b
  PROVE  Stored(b - x) - (b - Stored(x)) \in {0, Scale}
<1>1. PICK n \in Nat : b = n * Scale
  BY DEF Whole
<1> DEFINE d == 2 * Scale
           m == 2 * x + Scale
<1>2. Scale \in Nat \ {0} /\ d \in Nat \ {0} /\ m \in Nat
  BY NumericAssumption
<1>3. 2 * (b - x) + Scale = n * d - m + d
  BY <1>1, <1>2
<1> HIDE DEF d, m
<1>4. PICK q \in Nat, r \in 0 .. (d - 1) : m = q * d + r
  BY <1>2, Divided
<1>5. m \div d = q
  BY <1>2, <1>4, DivisionIs
<1>6. (n * d - m + d) \div d \in {n - q, n - q + 1}
  <2>1. CASE r = 0
    <3>1. n * d - m + d = (n - q + 1) * d + 0
      BY <1>2, <1>4, <2>1
    <3>2. 0 \in 0 .. (d - 1) /\ n - q + 1 \in Int
      BY <1>2
    <3> QED
      BY <1>2, <3>1, <3>2, DivisionIs
  <2>2. CASE r # 0
    <3>1. n * d - m + d = (n - q) * d + (d - r)
      BY <1>2, <1>4
    <3>2. d - r \in 0 .. (d - 1) /\ n - q \in Int
      BY <1>2, <1>4, <2>2
    <3> QED
      BY <1>2, <3>1, <3>2, DivisionIs
  <2> QED
    BY <2>1, <2>2
<1>7. /\ (n - q) * Scale = n * Scale - q * Scale
      /\ (n - q + 1) * Scale = n * Scale - q * Scale + Scale
      /\ n * Scale \in Int /\ q * Scale \in Int
  BY <1>2
<1>8. /\ Stored(x) = q * Scale
      /\ Stored(b - x) \in {(n - q) * Scale, (n - q + 1) * Scale}
  BY <1>3, <1>5, <1>6 DEF Stored, d, m
<1> QED
  BY <1>1, <1>2, <1>7, <1>8

\* The amount the column stores for t; the transfers to and from an account.
Shown(t) == Stored(Order[t].amount)
Into(a) == {t \in Transfer : Order[t].dest = a}
OutOf(a) == {t \in Transfer : Order[t].source = a}

\* The postings counted by f for the transfers in S, by number and by amount.
TimesPosted(f, S) == SumFunction([t \in S |-> Count(f, t)])
Posted(f, S) == SumFunction([t \in S |-> Shown(t) * Count(f, t)])

\* The numbers and amounts of postings are natural numbers.
LEMMA PostedType ==
  ASSUME NEW f \in [Instance -> [Transfer -> Nat]], NEW S \in SUBSET Transfer
  PROVE  TimesPosted(f, S) \in Nat /\ Posted(f, S) \in Nat
<1>1. IsFiniteSet(S)
  BY ServiceAssumption, FS_Subset
<1>2. \A t \in S : Count(f, t) \in Nat /\ Shown(t) \in Nat
  BY CountType, StoredType, ServiceAssumption DEF Shown, Orders
<1>3. [t \in S |-> Count(f, t)] \in [S -> Nat] /\ [t \in S |-> Shown(t) * Count(f, t)] \in [S -> Nat]
  BY <1>2
<1> QED
  BY <1>1, <1>3, SumOfNaturals DEF TimesPosted, Posted

\* g counts one posting of t more than f for S, if t is in it.
OneMorePosted(f, g, t, S) ==
  /\ t \in S => /\ TimesPosted(g, S) = TimesPosted(f, S) + 1
                /\ Posted(g, S) = Posted(f, S) + Shown(t)
  /\ t \notin S => TimesPosted(g, S) = TimesPosted(f, S) /\ Posted(g, S) = Posted(f, S)

\* One posting more of t counts for the sets t is in.
LEMMA PostedOnce ==
  ASSUME NEW f, NEW g, NEW i, NEW t, NEW S,
         f \in [Instance -> [Transfer -> Nat]], g \in [Instance -> [Transfer -> Nat]],
         i \in Instance, t \in Transfer, OneMore(f, g, i, t), S \in SUBSET Transfer
  PROVE  OneMorePosted(f, g, t, S)
<1>1. IsFiniteSet(S)
  BY ServiceAssumption, FS_Subset
<1>2. \A u \in S : Count(f, u) \in Nat /\ Count(g, u) \in Nat /\ Shown(u) \in Nat
  BY CountType, StoredType, ServiceAssumption DEF Shown, Orders
<1>3. Count(g, t) = Count(f, t) + 1 /\ \A u \in Transfer : u # t => Count(g, u) = Count(f, u)
  BY CountSum
<1> DEFINE old == [u \in S |-> Count(f, u)]
           new == [u \in S |-> Count(g, u)]
           was == [u \in S |-> Shown(u) * Count(f, u)]
           is == [u \in S |-> Shown(u) * Count(g, u)]
<1>4. /\ old \in [S -> Int] /\ new \in [S -> Int] /\ was \in [S -> Int] /\ is \in [S -> Int]
      /\ \A u \in S : /\ old[u] = Count(f, u) /\ new[u] = Count(g, u)
                      /\ was[u] = Shown(u) * Count(f, u) /\ is[u] = Shown(u) * Count(g, u)
  BY <1>2
<1>5. /\ TimesPosted(f, S) = SumFunction(old) /\ TimesPosted(g, S) = SumFunction(new)
      /\ Posted(f, S) = SumFunction(was) /\ Posted(g, S) = SumFunction(is)
  BY DEF TimesPosted, Posted
<1> HIDE DEF old, new, was, is
<1>6. CASE t \in S
  <2>1. \A u \in S : u # t => new[u] = old[u] /\ is[u] = was[u]
    BY <1>3, <1>4
  <2>2. new[t] - old[t] = 1 /\ is[t] - was[t] = Shown(t)
    <3>1. ASSUME NEW x \in Nat, NEW y \in Nat
          PROVE  (x + 1) - x = 1 /\ y * (x + 1) - y * x = y
      OBVIOUS
    <3> QED
      BY <1>2, <1>3, <1>4, <1>6, <3>1
  <2>3. /\ SumFunction(new) = SumFunction(old) + (new[t] - old[t])
        /\ SumFunction(is) = SumFunction(was) + (is[t] - was[t])
    BY <1>1, <1>4, <1>6, <2>1, SumChanged, SMTT(30)
  <2> QED
    BY <1>5, <1>6, <2>2, <2>3 DEF OneMorePosted
<1>7. CASE t \notin S
  <2>1. new = old /\ is = was
    <3>1. \A u \in S : Count(g, u) = Count(f, u)
      BY <1>3, <1>7
    <3> QED
      BY <3>1 DEF new, old, is, was
  <2>2. TimesPosted(f, S) \in Nat /\ Posted(f, S) \in Nat
    BY PostedType
  <2> QED
    BY <1>5, <1>7, <2>1, <2>2 DEF OneMorePosted
<1> QED
  BY <1>6, <1>7

\* By how much the balance of a is above what is stored of its deposit and of the
\* amounts posted to it.
Gap(a) ==
  Balance(a) - (Stored(opening[a]) + Posted(credited, Into(a)) - Posted(debited, OutOf(a)))

\* By nothing, or by what rounding left on it, less than a unit of the column's
\* last place for each time it paid.
AccountsBooked ==
  \A a \in Account : Gap(a) \in 0 .. Scale * TimesPosted(debited, OutOf(a))

\* The parts of the gap are numbers.
LEMMA GapType ==
  ASSUME TypeOK, NEW a \in Account
  PROVE  /\ Balance(a) \in Nat /\ Stored(opening[a]) \in Nat
         /\ Posted(credited, Into(a)) \in Nat /\ Posted(debited, OutOf(a)) \in Nat
         /\ TimesPosted(debited, OutOf(a)) \in Nat
<1>1. Balance(a) \in Nat
  BY DEF TypeOK, Balance, Row
<1>2. Stored(opening[a]) \in Nat
  BY StoredType DEF TypeOK
<1> QED
  BY <1>1, <1>2, PostedType DEF TypeOK, Into, OutOf

\* No step books anything else than the amounts shown.
LEMMA AccountsBookedStep ==
  ASSUME Base, TypeOK', BooksInv, AccountsBooked, [Next]_vars
  PROVE  AccountsBooked'
<1>0. /\ TypeOK /\ Scale \in Nat /\ debited \in [Instance -> [Transfer -> Nat]]
      /\ credited \in [Instance -> [Transfer -> Nat]]
  BY NumericAssumption DEF Base, TypeOK
<1>1. CASE UNCHANGED books
  BY <1>1 DEF books, AccountsBooked, Gap, Balance
<1>2. ASSUME NEW a \in Account, NEW c \in Currency, NEW d \in Deposit, CreateAccount(a, c, d)
      PROVE  AccountsBooked'
  <2>1. /\ d \in Nat /\ Balance(a) = 0 /\ Balance(a)' = Stored(d)
        /\ \A b \in Account : b # a => Balance(b)' = Balance(b)
        /\ opening' = [opening EXCEPT ![a] = d]
        /\ UNCHANGED <<debited, credited>>
    BY <1>0, <1>2, OpensBalance
  <2>2. /\ opening[a] = 0 /\ opening'[a] = d
        /\ \A b \in Account : b # a => opening'[b] = opening[b]
    BY <1>0, <1>2, <2>1 DEF BooksInv, CreateAccount, Create, TypeOK
  <2>3. Stored(0) = 0
    <3>1. 0 \in Whole
      BY NumericAssumption DEF Whole
    <3> QED
      BY <3>1, WholeIsStored
  <2>4. ASSUME NEW b \in Account
        PROVE  Gap(b)' = Gap(b)
    <3>1. CASE b = a
      BY <1>0, <2>1, <2>2, <2>3, <3>1, GapType, StoredType DEF Gap
    <3>2. CASE b # a
      BY <2>1, <2>2, <3>2 DEF Gap
    <3> QED
      BY <3>1, <3>2
  <2> QED
    BY <2>1, <2>4 DEF AccountsBooked
<1>3. ASSUME NEW i \in Instance, Takes(i)
      PROVE  AccountsBooked'
  <2>1. PICK t : t = Job(i)
    OBVIOUS
  <2>2. PICK a : a = Order[t].source
    OBVIOUS
  <2>3. /\ t \in Transfer /\ a \in Account /\ Balance(a) >= Order[t].amount
        /\ Balance(a)' = Stored(Balance(a) - Order[t].amount)
        /\ \A b \in Account : b # a => Balance(b)' = Balance(b)
        /\ Order[t].amount \in Nat
    BY <1>3, <2>1, <2>2, TakesFromBalance, ServiceAssumption DEF Orders
  <2>4. Balance(a)' - (Balance(a) - Shown(t)) \in {0, Scale} /\ Balance(a)' \in Nat
    BY <1>0, <2>3, StoredRest, GapType, StoredType DEF BooksInv, Shown
  <2>5. debited' = [debited EXCEPT ![i][t] = @ + 1] /\ UNCHANGED <<credited, opening>>
    BY <1>3, <2>1 DEF Takes
  <2>6. debited' \in [Instance -> [Transfer -> Nat]] /\ OneMore(debited, debited', i, t)
    BY <1>0, <2>3, <2>5, CountUp DEF OneMore
  <2>7. ASSUME NEW b \in Account
        PROVE  /\ b = a =>
                    /\ TimesPosted(debited', OutOf(b)) = TimesPosted(debited, OutOf(b)) + 1
                    /\ Posted(debited', OutOf(b)) = Posted(debited, OutOf(b)) + Shown(t)
               /\ b # a =>
                    /\ TimesPosted(debited', OutOf(b)) = TimesPosted(debited, OutOf(b))
                    /\ Posted(debited', OutOf(b)) = Posted(debited, OutOf(b))
    <3>1. OutOf(b) \in SUBSET Transfer /\ (t \in OutOf(b) <=> b = a)
      BY <2>2, <2>3 DEF OutOf
    <3>2. PICK f \in [Instance -> [Transfer -> Nat]], g \in [Instance -> [Transfer -> Nat]],
               S \in SUBSET Transfer :
            f = debited /\ g = debited' /\ S = OutOf(b) /\ OneMore(f, g, i, t)
      BY <1>0, <2>6, <3>1
    <3>3. OneMorePosted(f, g, t, S)
      BY <2>3, <3>2, PostedOnce
    <3> QED
      BY <3>1, <3>2, <3>3 DEF OneMorePosted
  <2>8. Shown(t) \in Nat
    BY <2>3, StoredType DEF Shown
  <2>9. ASSUME NEW b \in Account
        PROVE  Gap(b)' \in 0 .. Scale * TimesPosted(debited', OutOf(b))
    <3>1. PICK n \in Nat : n = TimesPosted(debited, OutOf(b)) /\ Gap(b) \in 0 .. Scale * n
      BY <1>0, GapType DEF AccountsBooked
    <3>2. PICK p \in Nat, q \in Nat, u \in Nat, v \in Nat :
            /\ p = Stored(opening[b]) /\ q = Posted(credited, Into(b))
            /\ u = Posted(debited, OutOf(b)) /\ v = Balance(b)
      BY <1>0, GapType
    <3>3. /\ Gap(b) = v - (p + q - u)
          /\ Gap(b)' = Balance(b)' - (p + q - Posted(debited', OutOf(b)))
      BY <2>5, <3>2 DEF Gap
    <3>4. CASE b = a
      <4>1. PICK w \in Nat : w = Balance(b)' /\ w - (v - Shown(t)) \in {0, Scale}
        BY <2>4, <3>2, <3>4
      <4>2. Gap(b)' = w - (p + q - (u + Shown(t)))
        BY <2>7, <3>2, <3>3, <3>4, <4>1
      <4>3. Scale * (n + 1) = Scale * n + Scale /\ Scale * n \in Nat
        BY <1>0
      <4>4. Gap(b)' \in 0 .. Scale * (n + 1)
        <5>1. v - (p + q - u) \in 0 .. Scale * n
          BY <3>1, <3>3
        <5> QED
          BY ONLY <1>0, <2>8, <4>1, <4>2, <4>3, <5>1
      <4> QED
        BY <2>7, <3>1, <3>4, <4>4
    <3>5. CASE b # a
      <4>1. Balance(b)' = v
        BY <2>3, <3>2, <3>5
      <4>2. Posted(debited', OutOf(b)) = u
        BY <2>7, <3>2, <3>5
      <4>3. TimesPosted(debited', OutOf(b)) = n
        BY <2>7, <3>1, <3>5
      <4> QED
        BY <3>1, <3>3, <4>1, <4>2, <4>3
    <3> QED
      BY <3>4, <3>5
  <2> QED
    BY <2>9 DEF AccountsBooked
<1>4. ASSUME NEW i \in Instance, Gives(i)
      PROVE  AccountsBooked'
  <2>1. PICK t : t = Job(i)
    OBVIOUS
  <2>2. PICK a : a = Order[t].dest
    OBVIOUS
  <2>3. /\ t \in Transfer /\ a \in Account
        /\ Balance(a)' = Stored(Balance(a) + Order[t].amount)
        /\ \A b \in Account : b # a => Balance(b)' = Balance(b)
        /\ Order[t].amount \in Nat
    BY <1>4, <2>1, <2>2, GivesToBalance, ServiceAssumption DEF Orders
  <2>4. Balance(a)' = Balance(a) + Shown(t)
    BY <2>3, StoredSum DEF BooksInv, Shown
  <2>5. credited' = [credited EXCEPT ![i][t] = @ + 1] /\ UNCHANGED <<debited, opening>>
    BY <1>4, <2>1 DEF Gives
  <2>6. credited' \in [Instance -> [Transfer -> Nat]] /\ OneMore(credited, credited', i, t)
    BY <1>0, <2>3, <2>5, CountUp DEF OneMore
  <2>7. Shown(t) \in Nat
    BY <2>3, StoredType DEF Shown
  <2>8. ASSUME NEW b \in Account
        PROVE  Gap(b)' = Gap(b)
    <3>0. Into(b) \in SUBSET Transfer /\ (t \in Into(b) <=> b = a)
      BY <2>2, <2>3 DEF Into
    <3>1. PICK f \in [Instance -> [Transfer -> Nat]], g \in [Instance -> [Transfer -> Nat]],
               S \in SUBSET Transfer :
            f = credited /\ g = credited' /\ S = Into(b) /\ OneMore(f, g, i, t)
      BY <1>0, <2>6, <3>0
    <3>2. OneMorePosted(f, g, t, S)
      BY <2>3, <3>1, PostedOnce
    <3>3. PICK p \in Nat, q \in Nat, u \in Nat, v \in Nat :
            /\ p = Stored(opening[b]) /\ q = Posted(f, S)
            /\ u = Posted(debited, OutOf(b)) /\ v = Balance(b)
      BY <1>0, <3>1, GapType
    <3>4. /\ Gap(b) = v - (p + q - u)
          /\ Gap(b)' = Balance(b)' - (p + Posted(g, S) - u)
      BY <2>5, <3>1, <3>3 DEF Gap
    <3>5. CASE b = a
      <4>1. Gap(b)' = (v + Shown(t)) - (p + (q + Shown(t)) - u)
        BY <2>4, <3>0, <3>1, <3>2, <3>3, <3>4, <3>5 DEF OneMorePosted
      <4> QED
        BY ONLY <2>7, <3>3, <3>4, <4>1
    <3>6. CASE b # a
      <4>1. Gap(b)' = v - (p + q - u)
        BY <2>3, <3>0, <3>1, <3>2, <3>3, <3>4, <3>6 DEF OneMorePosted
      <4> QED
        BY ONLY <3>3, <3>4, <4>1
    <3> QED
      BY <3>5, <3>6
  <2> QED
    BY <2>5, <2>8 DEF AccountsBooked
<1> QED
  BY <1>1, <1>2, <1>3, <1>4, BooksStep

\* At first nothing is requested, handled or posted.
LEMMA NothingInitially ==
  ASSUME Init
  PROVE  OnlyRequested /\ NoneTwice /\ AccountsBooked
<1>1. OnlyRequested
  BY DEF Init, OnlyRequested
<1>2. NoneTwice
  <2>1. InLine
    BY DEF Init, Group!Init, InLine, Reached
  <2>2. \A t \in Transfer : TakenOnce(t)
    BY DEF Init, Group!Init, TakenOnce
  <2> QED
    BY <2>1, <2>2 DEF NoneTwice
<1>3. AccountsBooked
  <2>1. debited = credited /\ debited \in [Instance -> [Transfer -> {0}]]
    BY DEF Init
  <2>2. \A t \in Transfer : Count(debited, t) = 0
    <3> SUFFICES ASSUME NEW t \in Transfer PROVE Count(debited, t) = 0
      OBVIOUS
    <3>1. [i \in Instance |-> debited[i][t]] \in [Instance -> {0}]
      BY <2>1
    <3> QED
      BY <3>1, SumOfZeros, ServiceAssumption DEF Count
  <2>3. ASSUME NEW S \in SUBSET Transfer
        PROVE  TimesPosted(debited, S) = 0 /\ Posted(debited, S) = 0
    <3>1. \A t \in S : Shown(t) \in Nat
      BY StoredType, ServiceAssumption DEF Shown, Orders
    <3>2. /\ [t \in S |-> Count(debited, t)] \in [S -> {0}]
          /\ [t \in S |-> Shown(t) * Count(debited, t)] \in [S -> {0}]
      BY <2>2, <3>1
    <3>3. IsFiniteSet(S)
      BY ServiceAssumption, FS_Subset
    <3> QED
      BY <3>2, <3>3, SumOfZeros DEF TimesPosted, Posted
  <2>4. Stored(0) = 0
    <3>1. 0 \in Whole
      BY NumericAssumption DEF Whole
    <3> QED
      BY <3>1, WholeIsStored
  <2>5. ASSUME NEW a \in Account
        PROVE  Gap(a) \in 0 .. Scale * TimesPosted(debited, OutOf(a))
    <3>1. Balance(a) = 0 /\ opening[a] = 0
      BY DEF Init, Balance
    <3>2. /\ Posted(credited, Into(a)) = 0 /\ Posted(debited, OutOf(a)) = 0
          /\ TimesPosted(debited, OutOf(a)) = 0
      BY <2>1, <2>3 DEF Into, OutOf
    <3> QED
      BY <2>4, <3>1, <3>2, NumericAssumption DEF Gap
  <2> QED
    BY <2>5 DEF AccountsBooked
<1> QED
  BY <1>1, <1>2, <1>3
-----------------------------------------------------------------------------
(* What the other services may rely on.                                    *)

\* The outbox keeps what it holds.
LEMMA OutboxGrows ==
  ASSUME Base, [Next]_vars, NEW k \in DOMAIN outbox
  PROVE  k \in DOMAIN outbox' /\ outbox'[k] = outbox[k]
<1>1. TypeOK
  BY DEF Base
<1>2. CASE UNCHANGED outbox
  BY <1>2
<1>3. ASSUME NEW i \in Instance, Handler(i) \/ Fault(i),
             ~Begin(i), ~PollErrors(i), ~Rebalance(i), ~Crash(i)
      PROVE  k \in DOMAIN outbox' /\ outbox'[k] = outbox[k]
  <2>1. pc[i] # "idle" /\ (UNCHANGED outbox \/ \E topic \in {"completed", "failed"} : SaveEvent(topic, Job(i)))
    BY <1>3, WorkStep
  <2>2. Job(i) \in Transfer
    BY <2>1, BusyHasJob DEF Base
  <2> QED
    BY <1>1, <2>1, <2>2, Appended
<1> QED
  BY <1>2, <1>3, IdleStep

\* Where no instance has made a posting none is counted, where one has all of
\* its are, and who never exceeds another counts no more.
LEMMA Counting ==
  ASSUME NEW f \in [Instance -> [Transfer -> Nat]], NEW t \in Transfer
  PROVE  /\ (\A i \in Instance : f[i][t] = 0) => Count(f, t) = 0
         /\ \A i \in Instance :
              (\A j \in Instance : j # i => f[j][t] = 0) => Count(f, t) = f[i][t]
         /\ \A g \in [Instance -> [Transfer -> Nat]] :
              (\A i \in Instance : f[i][t] <= g[i][t]) => Count(f, t) <= Count(g, t)
<1>0. IsFiniteSet(Instance)
  BY ServiceAssumption
<1> DEFINE x == [i \in Instance |-> f[i][t]]
           none == [i \in Instance |-> 0]
<1>1. /\ x \in [Instance -> Int] /\ none \in [Instance -> {0}] /\ none \in [Instance -> Int]
      /\ \A i \in Instance : x[i] = f[i][t] /\ none[i] = 0 /\ f[i][t] \in Nat
      /\ Count(f, t) = SumFunction(x)
  BY DEF Count
<1>2. ASSUME \A i \in Instance : f[i][t] = 0
      PROVE  Count(f, t) = 0
  <2>1. x \in [Instance -> {0}]
    BY <1>2
  <2> HIDE DEF x
  <2> QED
    BY <1>0, <1>1, <2>1, SumOfZeros
<1>3. ASSUME NEW i \in Instance, \A j \in Instance : j # i => f[j][t] = 0
      PROVE  Count(f, t) = f[i][t]
  <2> HIDE DEF x, none
  <2>0. /\ x \in [Instance -> Int] /\ none \in [Instance -> Int]
        /\ \A j \in Instance : j # i => x[j] = none[j]
    BY <1>1, <1>3
  <2>1. SumFunction(x) = SumFunction(none) + (x[i] - none[i])
    BY ONLY <1>0, <2>0, SumChanged, i \in Instance
  <2>2. SumFunction(none) = 0
    BY <1>0, <1>1, SumOfZeros
  <2>3. PICK n \in Nat : n = x[i]
    BY <1>1
  <2>4. SumFunction(x) = 0 + (n - 0)
    BY <1>1, <2>1, <2>2, <2>3
  <2>5. 0 + (n - 0) = n
    OBVIOUS
  <2> QED
    BY <1>1, <2>3, <2>4, <2>5
<1>4. ASSUME NEW g \in [Instance -> [Transfer -> Nat]], \A i \in Instance : f[i][t] <= g[i][t]
      PROVE  Count(f, t) <= Count(g, t)
  <2> DEFINE y == [i \in Instance |-> g[i][t]]
  <2>1. /\ y \in [Instance -> Int] /\ Count(g, t) = SumFunction(y)
        /\ \A i \in Instance : y[i] = g[i][t]
    BY DEF Count
  <2> HIDE DEF x, y
  <2>2. x \in [Instance -> Int] /\ \A i \in Instance : x[i] <= y[i]
    BY <1>1, <1>4, <2>1
  <2>3. SumFunction(x) <= SumFunction(y)
    BY <1>0, <2>1, <2>2, SumsOrdered
  <2> QED
    BY <1>1, <2>1, <2>3
<1> QED
  BY <1>2, <1>3, <1>4

\* Only for a request is money taken.
LEMMA TakenIsRequested ==
  ASSUME TypeOK, OnlyRequested, NEW t \in Transfer, Taken(t) > 0
  PROVE  IsRequested(t)
<1>1. SUFFICES ASSUME \A i \in Instance : debited[i][t] = 0 PROVE FALSE
  <2>1. \A i \in Instance : debited[i][t] \in Nat
    BY DEF TypeOK
  <2> QED
    BY <1>1, <2>1 DEF OnlyRequested
<1>2. Taken(t) = 0
  BY <1>1, Counting DEF Taken, TypeOK
<1> QED
  BY <1>2

\* What is announced of a transfer is what happened to its money: it was paid out
\* if announced as completed, and unless it was requested twice or its request
\* handed out again it was taken once then, and not at all if announced as failed.
LEMMA AnnouncedIsTrue ==
  ASSUME Base, CompletedMeansMoved, NoneTwice, NEW k \in DOMAIN outbox,
         NEW t \in Transfer, t = outbox[k].key
  PROVE  /\ outbox[k].topic = "completed" =>
              /\ 0 < PaidOut(t) /\ PaidOut(t) <= Taken(t)
              /\ Steady /\ Once(t) => Taken(t) = 1
         /\ outbox[k].topic = "failed" => (Steady /\ Once(t) => Taken(t) = 0)
<1>1. /\ debited \in [Instance -> [Transfer -> Nat]] /\ credited \in [Instance -> [Transfer -> Nat]]
      /\ \A i \in Instance : credited[i][t] <= debited[i][t]
      /\ owner \in Instance
  BY DEF Base, TypeOK, Group!TypeOK, TakenBeforeGiven
<1>2. PaidOut(t) <= Taken(t) /\ PaidOut(t) \in Nat /\ Taken(t) \in Nat
  BY <1>1, Counting, CountType DEF PaidOut, Taken
<1>3. ASSUME outbox[k].topic = "completed"
      PROVE  0 < PaidOut(t)
  <2>1. PICK i \in Instance : 0 < credited[i][t]
    BY <1>3 DEF CompletedMeansMoved, Completed
  <2>2. credited[i][t] <= PaidOut(t) /\ credited[i][t] \in Nat
    BY <1>1, CountType DEF PaidOut
  <2> QED
    BY <1>2, <2>1, <2>2
<1>4. ASSUME Steady, Once(t)
      PROVE  /\ Taken(t) = debited[owner][t]
             /\ debited[owner][t] \in {0, 1}
             /\ outbox[k].topic = "failed" => debited[owner][t] = 0
  <2>1. TakenOnce(t)
    BY <1>4 DEF NoneTwice
  <2>2. \A i \in Instance : i # owner => debited[i][t] = 0
    BY <1>1, <2>1 DEF TakenOnce
  <2>3. debited[owner][t] \in {0, 1}
    <3>1. debited[owner][t] \in Nat /\ debited[owner][t] <= 1
      BY <1>1, <2>1 DEF TakenOnce
    <3> QED
      BY <3>1
  <2> QED
    BY <1>1, <2>1, <2>2, <2>3, Counting DEF Taken, TakenOnce
<1> QED
  BY <1>2, <1>3, <1>4
=============================================================================
