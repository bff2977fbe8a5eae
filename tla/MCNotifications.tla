-------------------------- MODULE MCNotifications --------------------------
(* Small instances of Notifications.                                       *)
EXTENDS Notifications, TLC

TwoErrors ==
  "dbError" :> 2 @@ "fetchError" :> 1 @@ "redelivery" :> 1 @@ "crash" :> 1
=============================================================================
