------------------------- MODULE MCTransferOutcomes -------------------------
(* Small instances of TransferOutcomes.                                    *)
EXTENDS TransferOutcomes, TLC

CONSTANTS t1, t2

event(o, t) == [outcome |-> o, transfer |-> t]

\* One transfer with contradicting outcomes, one with a single one.
Contradicting ==
  {event("completed", t1), event("failed", t1), event("failed", t2)}

Mishaps(db, fetch, again, crash) ==
  "dbError" :> db @@ "fetchError" :> fetch @@ "redelivery" :> again @@ "crash" :> crash
EveryMishap == Mishaps(1, 1, 1, 1)
=============================================================================
