----------------------- MODULE TransferOutcomesProofs -----------------------
(***************************************************************************)
(* A recorded status was announced for that very transfer, and versions    *)
(* name contents: for every number of instances, transfers and mishaps.    *)
(* The inductive invariant is IInv.                                        *)
(***************************************************************************)
EXTENDS TransferOutcomes, TLAPS

\* Marking a row under an event announced for its transfer yields a row, with
\* the event's outcome as its status and one version further.
LEMMA MarkedRow ==
  ASSUME NEW row \in Row, NEW e \in Events
  PROVE  /\ Mark(row, e) \in Row
         /\ Mark(row, e) # NoRow
         /\ Mark(row, e).status = e.outcome
         /\ Mark(row, e).reason = "given" => row.reason = "given" \/ e.outcome = "failed"
<1>0. row.version + 1 \in Nat \ {0} /\ row.reason \in {"none", "given"}
  BY DEF Row
<1>1. CASE e.outcome = "completed"
  <2>0. Mark(row, e) = MarkCompleted(row)
    BY <1>1 DEF Mark
  <2>1. MarkCompleted(row) \in Row
    <3>1. MarkCompleted(row) = [status |-> "completed", reason |-> row.reason, version |-> row.version + 1]
      <4>1. /\ DOMAIN MarkCompleted(row) = {"status", "reason", "version"}
            /\ MarkCompleted(row).status = "completed"
            /\ MarkCompleted(row).reason = row.reason
            /\ MarkCompleted(row).version = row.version + 1
        BY DEF MarkCompleted, Row
      <4>2. MarkCompleted(row) = [f \in DOMAIN MarkCompleted(row) |-> MarkCompleted(row)[f]]
        BY DEF MarkCompleted
      <4> QED
        BY <4>1, <4>2
    <3> QED
      BY <1>0, <3>1 DEF Row, Status
  <2>2. MarkCompleted(row).status = e.outcome /\ MarkCompleted(row).reason = row.reason
    BY <1>1 DEF MarkCompleted, Row
  <2> QED
    BY <2>0, <2>1, <2>2, OutcomeAssumption
<1>2. CASE e.outcome = "failed"
  <2>0. Mark(row, e) = MarkFailed(row)
    BY <1>2 DEF Mark
  <2>1. MarkFailed(row) \in Row
    <3>1. MarkFailed(row) = [status |-> "failed", reason |-> "given", version |-> row.version + 1]
      <4>1. /\ DOMAIN MarkFailed(row) = {"status", "reason", "version"}
            /\ MarkFailed(row).status = "failed"
            /\ MarkFailed(row).reason = "given"
            /\ MarkFailed(row).version = row.version + 1
        BY DEF MarkFailed, Row
      <4>2. MarkFailed(row) = [f \in DOMAIN MarkFailed(row) |-> MarkFailed(row)[f]]
        BY DEF MarkFailed
      <4> QED
        BY <4>1, <4>2
    <3> QED
      BY <1>0, <3>1 DEF Row, Status
  <2>2. MarkFailed(row).status = e.outcome
    BY <1>2 DEF MarkFailed, Row
  <2> QED
    BY <1>2, <2>0, <2>1, <2>2, OutcomeAssumption
<1> QED
  BY <1>1, <1>2 DEF Events

\* The count of a mishap stays a natural number.
LEMMA Counting ==
  ASSUME mishaps \in [Mishap -> Nat], NEW m \in Mishap, Suffer(m)
  PROVE  mishaps' \in [Mishap -> Nat]
  BY DEF Suffer

\* A service that has just started satisfies the invariant.
LEMMA InitInv == Init => IInv
<1> SUFFICES ASSUME Init PROVE IInv
  OBVIOUS
<1> USE OutcomeAssumption DEF Init, Topics!Init
<1>1. TypeOK
  BY DEF TypeOK, Topics!TypeOK, Stage, Row, Status, Mishap
<1>2. StatusWasAnnounced
  BY DEF StatusWasAnnounced
<1>3. CopiesInv
  BY DEF CopiesInv
<1> QED
  BY <1>1, <1>2, <1>3 DEF IInv

\* Every step of the service preserves the invariant.
LEMMA StepInv == IInv /\ [Next]_vars => IInv'
<1> SUFFICES ASSUME IInv, [Next]_vars PROVE IInv'
  OBVIOUS
<1> USE OutcomeAssumption
<1> USE DEF IInv, TypeOK, StatusWasAnnounced, CopiesInv, OutcomesOf, Topics!TypeOK, delivery
<1>1. ASSUME NEW e \in Event, Publish(e) PROVE IInv'
  BY <1>1 DEF Publish, Topics!Publish
<1>2. ASSUME NEW i \in Instance, NEW e \in Event, Begin(i, e) PROVE IInv'
  BY <1>2 DEF Begin, Topics!Begin, Suffer, Stage
<1>3. ASSUME NEW i \in Instance, Read(i) PROVE IInv'
  <2> DEFINE t == cur[i].transfer
  <2>1. cur[i] \in published /\ cur[i] \in Events /\ t \in Transfer /\ rows[t] \in Row
    BY <1>3 DEF Read, Events
  <2>2. /\ Mark(rows[t], cur[i]) \in Row
        /\ Mark(rows[t], cur[i]) # NoRow
        /\ Mark(rows[t], cur[i]).status = cur[i].outcome
        /\ Mark(rows[t], cur[i]).reason = "given" => rows[t].reason = "given" \/ cur[i].outcome = "failed"
    BY <2>1, MarkedRow
  <2>3. TypeOK'
    BY <1>3, <2>1, <2>2 DEF Read, Stage
  <2>4. StatusWasAnnounced'
    BY <1>3 DEF Read
  <2>5. CopiesInv'
    BY <1>3, <2>1, <2>2 DEF Read
  <2> QED
    BY <2>3, <2>4, <2>5
<1>4. ASSUME NEW i \in Instance, Return(i), UNCHANGED <<rows>>, spoiled' \subseteq published,
             mishaps' \in [Mishap -> Nat]
      PROVE  IInv'
  BY <1>4 DEF Return, Topics!Finish, Stage
<1>5. ASSUME NEW i \in Instance, pc[i] = "update", Return(i), spoiled' \subseteq published,
             mishaps' \in [Mishap -> Nat],
             rows' = [rows EXCEPT ![cur[i].transfer] = copy[i]]
      PROVE  IInv'
  <2>1. cur[i] \in published /\ cur[i].transfer \in Transfer /\ copy[i] \in Row
    BY <1>5 DEF Events
  <2>2. TypeOK'
    BY <1>5, <2>1 DEF Return, Topics!Finish, Stage
  <2>3. StatusWasAnnounced'
    BY <1>5, <2>1 DEF Return, Topics!Finish
  <2>4. CopiesInv'
    BY <1>5, <2>1 DEF Return, Topics!Finish
  <2> QED
    BY <2>2, <2>3, <2>4
<1>6. ASSUME NEW i \in Instance, Update(i) PROVE IInv'
  BY <1>5, <1>6 DEF Update
<1>7. ASSUME NEW i \in Instance, UpdateRefused(i) PROVE IInv'
  BY <1>4, <1>7 DEF UpdateRefused
<1>8. ASSUME NEW i \in Instance, StatementError(i) PROVE IInv'
  <2>1. spoiled' \subseteq published /\ mishaps' \in [Mishap -> Nat] /\ Return(i)
    BY <1>8, Counting DEF StatementError, Mishap
  <2> QED
    BY <1>4, <1>5, <1>8, <2>1 DEF StatementError
<1>9. ASSUME NEW e \in Event, FetchError(e) PROVE IInv'
  <2>1. mishaps' \in [Mishap -> Nat]
    BY <1>9, Counting DEF FetchError, Mishap
  <2> QED
    BY <1>9, <2>1 DEF FetchError, Topics!Skip
<1>10. ASSUME NEW i \in Instance, Crash(i) PROVE IInv'
  <2>1. mishaps' \in [Mishap -> Nat]
    BY <1>10, Counting DEF Crash, Mishap
  <2>2. TypeOK'
    BY <1>10, <2>1 DEF Crash, Topics!Drop, Stage
  <2>3. StatusWasAnnounced'
    BY <1>10 DEF Crash, Topics!Drop
  <2>4. CopiesInv'
    BY <1>10 DEF Crash, Topics!Drop
  <2> QED
    BY <2>2, <2>3, <2>4
<1>11. CASE UNCHANGED vars
  BY <1>11 DEF vars
<1> QED
  BY <1>1, <1>2, <1>3, <1>6, <1>7, <1>8, <1>9, <1>10, <1>11 DEF Next, Work

\* IInv holds in every reachable state.
THEOREM Invariance == Spec => []IInv
  BY InitInv, StepInv, PTL DEF Spec

\* Every variable of the recording half of the transfer-service keeps its type.
THEOREM TypeCorrect == Spec => []TypeOK
<1>1. IInv => TypeOK
  BY DEF IInv
<1> QED
  BY <1>1, Invariance, PTL

\* HandleTransferCompleted and HandleTransferFailed never give a transfer a
\* status or a failure reason the account-service did not announce for it.
THEOREM StatusAnnounced == Spec => []StatusWasAnnounced
<1>1. IInv => StatusWasAnnounced
  BY DEF IInv
<1> QED
  BY <1>1, Invariance, PTL

\* UpdateWithVersion changes a row only under the version after the present one.
THEOREM VersionsNameContent == Spec => VersionNamesContent
<1> DEFINE Named ==
      \A t \in Transfer : rows'[t] # rows[t] => rows'[t].version = rows[t].version + 1
<1>1. IInv /\ [Next]_vars => [Named]_vars
  <2> SUFFICES ASSUME IInv, Next, NEW t \in Transfer, rows'[t] # rows[t]
               PROVE  rows'[t].version = rows[t].version + 1
    BY DEF vars
  <2>1. ASSUME NEW i \in Instance, CanUpdate(cur[i].transfer, copy[i]), pc[i] = "update",
               rows' = [rows EXCEPT ![cur[i].transfer] = copy[i]]
        PROVE  rows'[t].version = rows[t].version + 1
    <3>1. cur[i].transfer = t /\ rows'[t] = copy[i]
      BY <2>1 DEF IInv, TypeOK
    <3>2. copy[i] \in Row /\ rows[t] \in Row
      BY <2>1 DEF IInv, TypeOK
    <3> QED
      BY <2>1, <3>1, <3>2 DEF CanUpdate, Row
  <2>2. PICK i \in Instance : Update(i) \/ StatementError(i)
    BY DEF Next, Work, Publish, FetchError, Begin, Read, UpdateRefused, Crash
  <2> QED
    BY <2>1, <2>2 DEF Update, StatementError
<1> QED
  BY <1>1, Invariance, PTL DEF Spec, VersionNamesContent
=============================================================================
