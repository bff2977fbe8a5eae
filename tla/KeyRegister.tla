----------------------------- MODULE KeyRegister -----------------------------
(***************************************************************************)
(* What the transfer-service promises to clients that send requests under  *)
(* idempotency keys, with nothing of its statements, its cache, or what a  *)
(* request has found out so far.                                           *)
(*                                                                         *)
(* A key is a register that is written once.  The service does not promise *)
(* that a request is answered, nor that a transfer in the register is ever *)
(* requested of the account-service; it promises that a key, once taken,   *)
(* stays with its transfer, that nothing invalid takes one, that only the  *)
(* request that took it requests the transfer, that a client gets one      *)
(* reply, that the reply names the transfer of its key, to the client that *)
(* made it only when it is requested, and that nothing is done any more in *)
(* the name of a client that got its reply.                                *)
(***************************************************************************)
EXTENDS Numeric, Integers

CONSTANTS Request, Key, Order, None, Refused, Failed, Gone

VARIABLES
  taken,       \* taken[k]: the transfer of key k
  requested,   \* transfers requested of the account-service
  reply        \* reply[q]

vars == <<taken, requested, reply>>

KeyOf(q) == Order[q].key

Init ==
  /\ taken = [k \in Key |-> None]
  /\ requested = {}
  /\ reply = [q \in Request |-> None]

Acceptable(q) == Order[q].amount > 0 /\ Order[q].source # Order[q].dest

Take(q) ==
  /\ taken[KeyOf(q)] = None
  /\ Acceptable(q)
  /\ Fits(Order[q].amount)
  /\ taken' = [taken EXCEPT ![KeyOf(q)] = q]
  /\ UNCHANGED requested

Ask(q) ==
  /\ taken[KeyOf(q)] = q
  /\ requested' = requested \cup {q}
  /\ UNCHANGED taken

\* The amount is the one the client of t gave, or the one the column holds.
Answer(q, t) ==
  /\ taken[KeyOf(q)] = t
  /\ t = q => q \in requested
  /\ \E n \in {Order[t].amount, Stored(Order[t].amount)} :
       reply' = [reply EXCEPT ![q] = [id |-> t, amount |-> n]]
  /\ UNCHANGED <<taken, requested>>

Refuse(q) ==
  /\ taken[KeyOf(q)] = None
  /\ ~Acceptable(q)
  /\ reply' = [reply EXCEPT ![q] = Refused]
  /\ UNCHANGED <<taken, requested>>

\* A statement that reports an error may have taken effect.
Fail(q) ==
  /\ \E r \in {Failed, Gone} : reply' = [reply EXCEPT ![q] = r]
  /\ Take(q) \/ Ask(q) \/ UNCHANGED <<taken, requested>>

Serve(q) ==
  /\ reply[q] = None
  /\ \/ (Take(q) \/ Ask(q)) /\ UNCHANGED reply
     \/ (\E t \in Request : Answer(q, t)) \/ Refuse(q) \/ Fail(q)

Next == \E q \in Request : Serve(q)

Spec == Init /\ [][Next]_vars
=============================================================================
