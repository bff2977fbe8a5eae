------------------------------- MODULE Ledger -------------------------------
(***************************************************************************)
(* What the account-service promises about money, with every posting an    *)
(* atomic change of a balance relative to the balance it finds.            *)
(*                                                                         *)
(* Tellers (the running instances) carry out transfers in two postings.    *)
(* The service promises neither that both postings of a transfer take      *)
(* place nor that a transfer is carried out once; it promises that money   *)
(* is taken before it is given, that no account is overdrawn, that a       *)
(* posting is made in the currency of the account, that no posting         *)
(* overwrites another, and that nothing is announced as completed which    *)
(* has not been paid out.                                                  *)
(***************************************************************************)
EXTENDS Numeric, FiniteSets

CONSTANTS Account, Currency, Deposit, Teller, Transfer, Order,
          NoAccount     \* in place of an account not opened yet

VARIABLES
  books,       \* books[a]: balance and currency of account a
  debited,     \* debited[i][t]: how often teller i has taken the money of t
  credited,    \* credited[i][t]: how often teller i has paid it out
  completed    \* transfers announced as completed

vars == <<books, debited, credited, completed>>

Init ==
  /\ books = [a \in Account |-> NoAccount]
  /\ debited = [i \in Teller |-> [t \in Transfer |-> 0]]
  /\ credited = [i \in Teller |-> [t \in Transfer |-> 0]]
  /\ completed = {}

\* Account a is open and kept in the currency of transfer t.
Serves(a, t) ==
  /\ a \in Account
  /\ books[a] # NoAccount
  /\ books[a].currency = Order[t].currency

Open(a, c, deposit) ==
  /\ books[a] = NoAccount
  /\ deposit >= 0
  /\ books' = [books EXCEPT ![a] = [balance |-> Stored(deposit), currency |-> c]]
  /\ UNCHANGED <<debited, credited, completed>>

Debit(i, t) ==
  /\ Serves(Order[t].source, t)
  /\ books[Order[t].source].balance >= Order[t].amount
  /\ books' = [books EXCEPT ![Order[t].source].balance = Stored(@ - Order[t].amount)]
  /\ debited' = [debited EXCEPT ![i][t] = @ + 1]
  /\ UNCHANGED <<credited, completed>>

Credit(i, t) ==
  /\ Serves(Order[t].dest, t)
  /\ credited[i][t] < debited[i][t]
  /\ books' = [books EXCEPT ![Order[t].dest].balance = Stored(@ + Order[t].amount)]
  /\ credited' = [credited EXCEPT ![i][t] = @ + 1]
  /\ UNCHANGED <<debited, completed>>

Announce(i, t) ==
  /\ credited[i][t] > 0
  /\ completed' = completed \cup {t}
  /\ UNCHANGED <<books, debited, credited>>

Next ==
  \/ \E a \in Account, c \in Currency, deposit \in Deposit : Open(a, c, deposit)
  \/ \E i \in Teller, t \in Transfer : Debit(i, t) \/ Credit(i, t) \/ Announce(i, t)

Spec == Init /\ [][Next]_vars
=============================================================================
