------------------------------- MODULE MCSaga -------------------------------
(* Small instances of Saga.                                                *)
EXTENDS Saga, TLC

CONSTANTS q1, q2, k1, a1, a2, EUR

\* A request and its retry, which asks for more; the account of a1 holds enough for
\* one of them only.  With MaxNumeric = 14 the payee's new balance fits the column
\* for q1, and for q2 it does not.
Retried ==
  [q \in {q1, q2} |->
     [key |-> k1, source |-> a1, dest |-> a2,
      amount |-> IF q = q1 THEN 5 ELSE 7, currency |-> EUR]]

Deposits == {8}

Bank4(db, fetch, move, crash) ==
  "dbError" :> db @@ "fetchError" :> fetch @@ "rebalance" :> move @@ "crash" :> crash
Outcome4(db, fetch, again, crash) ==
  "dbError" :> db @@ "fetchError" :> fetch @@ "redelivery" :> again @@ "crash" :> crash

BankMishaps == Bank4(1, 1, 1, 1)
OutcomeMishaps == Outcome4(1, 1, 1, 1)
NoBankMishaps == Bank4(0, 0, 0, 0)
NoOutcomeMishaps == Outcome4(0, 0, 0, 0)
=============================================================================
