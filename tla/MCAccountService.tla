-------------------------- MODULE MCAccountService --------------------------
(* Small instances of AccountService.                                      *)
EXTENDS AccountService, TLC

CONSTANTS a1, a2, ghost, t1, t2, t3, t4, EUR, USD

order(from, to, n, c) == [source |-> from, dest |-> to, amount |-> n, currency |-> c]

\* Opposite transfers between two accounts, one to nobody and one from nobody.
Crossing == t1 :> order(a1, a2, 2, EUR) @@ t2 :> order(a2, a1, 1, EUR)

CrossingAndLost ==
  Crossing @@ t3 :> order(a1, ghost, 1, EUR) @@ t4 :> order(ghost, a1, 1, EUR)

\* How often each mishap may happen.
Mishaps(db, fetch, move, crash) ==
  "dbError" :> db @@ "fetchError" :> fetch @@ "rebalance" :> move @@ "crash" :> crash
NoMishaps == Mishaps(0, 0, 0, 0)
EveryMishap == Mishaps(1, 1, 1, 1)
OneRebalance == Mishaps(0, 0, 1, 0)
OneFetchError == Mishaps(0, 1, 0, 0)

Deposits == {-1, 2}

Instances == Permutations(Instance)
=============================================================================
