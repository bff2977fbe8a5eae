--------------------------- MODULE MCOutboxRelay ---------------------------
(* Small instances of OutboxRelay.                                         *)
EXTENDS OutboxRelay, TLC

Mishaps == "publishError" :> 1 @@ "markError" :> 1 @@ "crash" :> 1
=============================================================================
