------------------------- MODULE MCTransferRequests -------------------------
(* Small instances of TransferRequests.                                    *)
EXTENDS TransferRequests, TLC

CONSTANTS q1, q2, q3, q4, q5, k1, k2, alice, bob

order(k, to, n) == [key |-> k, source |-> alice, dest |-> to, amount |-> n]

\* Two attempts at one order, a third one under another key.
Attempts == q1 :> order(k1, bob, 1) @@ q2 :> order(k1, bob, 1) @@ q3 :> order(k2, bob, 2)

\* The key of a transfer used again: for another amount, for one that is too
\* large for the column, for a negative one and for a transfer to oneself.
Reuse ==
  q1 :> order(k1, bob, 1) @@ q2 :> order(k1, bob, 2) @@
  q3 :> order(k1, bob, 9) @@ q4 :> order(k1, bob, -1) @@
  q5 :> order(k1, alice, 1)
=============================================================================
