------------------------ MODULE NotificationsProofs ------------------------
(***************************************************************************)
(* A Save that fails costs no other notification, and a customer told twice*)
(* has been so for a reason, for every number of instances, events and     *)
(* mishaps.  The inductive invariants are IInv (what the handler has passed*)
(* in its loop has a row or an error of its own) and TellingsPaid (every   *)
(* row, told or to be told, is paid for by a delivery or a crash).         *)
(***************************************************************************)
EXTENDS Notifications, FiniteSetTheorems, TLAPS

\* There are two channels, numbered from 1.
LEMMA TwoChannels == Len(Channels) = 2 /\ DOMAIN Channels = 1 .. 2
  BY DEF Channels

\* The count of a mishap stays a natural number.
LEMMA Counting ==
  ASSUME mishaps \in [Mishap -> Nat], NEW m \in Mishap, Suffer(m)
  PROVE  mishaps' \in [Mishap -> Nat]
  BY DEF Suffer

\* A service that has just started satisfies the invariant.
LEMMA InitInv == Init => IInv
  BY TwoChannels, NotificationAssumption
     DEF Init, Topics!Init, IInv, TypeOK, Topics!TypeOK, OneErrorOneNotification, Missing, LoopInv, Mishap

\* A handler goes on to its next channel, or returns after the last, once the
\* channel it was at has its row or its error.
LEMMA LoopStep ==
  ASSUME IInv, NEW i \in Instance, cur[i] # NoEvent,
         NextChannel(i),
         AddRow(i) \/ saved' = saved,
         spoiled' \in {spoiled, spoiled \cup {<<cur[i], told[i] + 1>>}},
         mishaps' \in [Mishap -> Nat],
         saved'[cur[i]][told[i] + 1] > 0 \/ <<cur[i], told[i] + 1>> \in spoiled'
  PROVE  IInv'
<1> USE TwoChannels, NotificationAssumption DEF IInv, TypeOK, Topics!TypeOK, delivery
<1> DEFINE e == cur[i]
           c == told[i] + 1
<1>1. e \in published /\ e \in Event /\ told[i] \in {0, 1} /\ c \in 1 .. 2
  BY DEF LoopInv
<1>2. /\ saved' \in [Event -> [1 .. 2 -> Nat]]
      /\ \A f \in Event, d \in 1 .. 2 : saved[f][d] > 0 => saved'[f][d] > 0
  <2>1. CASE AddRow(i)
    BY <2>1, <1>1 DEF AddRow
  <2>2. CASE saved' = saved
    BY <2>2
  <2> QED
    BY <2>1, <2>2
<1>3. /\ spoiled \subseteq spoiled'
      /\ spoiled' \subseteq published \X (1 .. 2)
  BY <1>1
<1>4. CASE told[i] = 0
  <2>1. told' = [told EXCEPT ![i] = 1] /\ UNCHANGED <<published, cur, handled, skipped>>
    BY <1>4 DEF NextChannel
  <2>2. TypeOK'
    BY <2>1, <1>2, <1>3
  <2>3. OneErrorOneNotification'
    BY <2>1, <1>2, <1>3 DEF OneErrorOneNotification, Missing
  <2>4. LoopInv'
    <3>1. ASSUME NEW j \in Instance, cur'[j] # NoEvent
          PROVE  /\ cur'[j] \in published'
                 /\ \A d \in 1 .. told'[j] : saved'[cur'[j]][d] > 0 \/ <<cur'[j], d>> \in spoiled'
      <4>1. CASE j = i
        BY <2>1, <1>1, <1>4, <4>1
      <4>2. CASE j # i
        <5>1. told'[j] = told[j] /\ cur'[j] = cur[j] /\ cur[j] \in published /\ told[j] \in 0 .. 1
          BY <2>1, <3>1, <4>2 DEF LoopInv
        <5>2. \A d \in 1 .. told[j] : saved[cur[j]][d] > 0 \/ <<cur[j], d>> \in spoiled
          BY <5>1, <3>1 DEF LoopInv
        <5>3. ASSUME NEW d \in 1 .. told[j]
              PROVE  saved'[cur[j]][d] > 0 \/ <<cur[j], d>> \in spoiled'
          <6>1. d \in 1 .. 2 /\ cur[j] \in Event
            BY <5>1
          <6> QED
            BY <5>2, <6>1, <1>2, <1>3
        <5>4. \A d \in 1 .. told[j] : saved'[cur[j]][d] > 0 \/ <<cur[j], d>> \in spoiled'
          BY ONLY <5>3
        <5>5. published' = published
          BY <2>1
        <5> QED
          BY <5>1, <5>4, <5>5
      <4> QED
        BY <4>1, <4>2
    <3> QED
      BY <3>1 DEF LoopInv
  <2> QED
    BY <2>2, <2>3, <2>4
<1>5. CASE told[i] = 1
  <2>1. /\ told' = [told EXCEPT ![i] = 0]
        /\ handled' = handled \cup {e}
        /\ cur' = [cur EXCEPT ![i] = NoEvent]
        /\ UNCHANGED <<published, skipped>>
    BY <1>5 DEF NextChannel, Topics!Finish
  <2>2. TypeOK'
    BY <2>1, <1>1, <1>2, <1>3
  <2>3. OneErrorOneNotification'
    <3>1. saved'[e][2] > 0 \/ <<e, 2>> \in spoiled'
      BY <1>5
    <3>2. saved'[e][1] > 0 \/ <<e, 1>> \in spoiled'
      <4>1. saved[e][1] > 0 \/ <<e, 1>> \in spoiled
        BY <1>5 DEF LoopInv
      <4> QED
        BY <4>1, <1>1, <1>2, <1>3
    <3>3. ASSUME NEW f \in handled', NEW d \in 1 .. 2, saved'[f][d] = 0
          PROVE  <<f, d>> \in spoiled'
      <4>1. CASE f = e
        BY <3>1, <3>2, <3>3, <4>1
      <4>2. CASE f # e
        <5>1. f \in handled /\ f \in Event
          BY <2>1, <3>3, <4>2
        <5>2. saved[f][d] = 0
          BY <5>1, <3>3, <1>2
        <5>3. <<f, d>> \in Missing
          BY <5>1, <5>2 DEF Missing
        <5> QED
          BY <5>3, <1>3 DEF OneErrorOneNotification
      <4> QED
        BY <4>1, <4>2
    <3>4. ASSUME NEW m \in Missing' PROVE m \in spoiled'
      <4>1. m \in handled' \X (1 .. 2) /\ saved'[m[1]][m[2]] = 0
        BY <3>4 DEF Missing
      <4>2. PICK f \in handled', d \in 1 .. 2 : m = <<f, d>>
        BY <4>1
      <4> QED
        BY <3>3, <4>1, <4>2
    <3> QED
      BY <3>4 DEF OneErrorOneNotification
  <2>4. LoopInv'
    BY <2>1, <1>2, <1>3, SMTT(30) DEF LoopInv
  <2> QED
    BY <2>2, <2>3, <2>4
<1> QED
  BY <1>1, <1>4, <1>5

\* Every step of the service preserves the invariant.
LEMMA StepInv == IInv /\ [Next]_vars => IInv'
<1> SUFFICES ASSUME IInv, [Next]_vars PROVE IInv'
  OBVIOUS
<1> USE TwoChannels, NotificationAssumption
<1> USE DEF IInv, TypeOK, Topics!TypeOK, delivery, OneErrorOneNotification, Missing, LoopInv
<1>1. ASSUME NEW e \in Event, Publish(e) PROVE IInv'
  BY <1>1 DEF Publish, Topics!Publish
<1>2. ASSUME NEW i \in Instance, NEW e \in Event, Begin(i, e) PROVE IInv'
  <2>1. mishaps' \in [Mishap -> Nat]
    BY <1>2, Counting DEF Begin, Mishap
  <2> QED
    BY <1>2, <2>1 DEF Begin, Topics!Begin
<1>3. ASSUME NEW i \in Instance, Save(i) PROVE IInv'
  <2>1. cur[i] \in Event /\ told[i] + 1 \in 1 .. 2
    BY <1>3 DEF Save
  <2>2. saved'[cur[i]][told[i] + 1] > 0
    BY <1>3, <2>1 DEF Save, AddRow
  <2> QED
    BY <1>3, <2>2, LoopStep DEF Save
<1>4. ASSUME NEW i \in Instance, SaveError(i) PROVE IInv'
  <2>1. mishaps' \in [Mishap -> Nat]
    BY <1>4, Counting DEF SaveError, Mishap
  <2> QED
    BY <1>4, <2>1, LoopStep DEF SaveError
<1>5. ASSUME NEW e \in Event, FetchError(e) PROVE IInv'
  <2>1. mishaps' \in [Mishap -> Nat]
    BY <1>5, Counting DEF FetchError, Mishap
  <2> QED
    BY <1>5, <2>1 DEF FetchError, Topics!Skip
<1>6. ASSUME NEW i \in Instance, Crash(i) PROVE IInv'
  <2>1. mishaps' \in [Mishap -> Nat]
    BY <1>6, Counting DEF Crash, Mishap
  <2> QED
    BY <1>6, <2>1 DEF Crash, Topics!Drop
<1>7. CASE UNCHANGED vars
  BY <1>7 DEF vars
<1> QED
  BY <1>1, <1>2, <1>3, <1>4, <1>5, <1>6, <1>7 DEF Next, Work

\* IInv holds in every reachable state.
THEOREM Invariance == Spec => []IInv
  BY InitInv, StepInv, PTL DEF Spec

\* Every variable of the notification-service keeps its type.
THEOREM TypeCorrect == Spec => []TypeOK
<1>1. IInv => TypeOK
  BY DEF IInv
<1> QED
  BY <1>1, Invariance, PTL

\* A notification of a handled event is missing only where its own Save failed:
\* the handlers' loops go on after an error.
THEOREM ErrorsCostOne == Spec => []OneErrorOneNotification
<1>1. IInv => OneErrorOneNotification
  BY DEF IInv
<1> QED
  BY <1>1, Invariance, PTL
-----------------------------------------------------------------------------
(* Repeated notifications.                                                 *)

\* A set of handlers is finite, and smaller or larger by one without or with a
\* certain handler.
LEMMA HandlersCount ==
  ASSUME NEW S \in SUBSET Instance
  PROVE  /\ Cardinality(S) \in Nat
         /\ \A i \in S : Cardinality(S \ {i}) = Cardinality(S) - 1
         /\ \A i \in Instance : Cardinality(S \cup {i}) <= Cardinality(S) + 1
         /\ \A T \in SUBSET S : Cardinality(T) <= Cardinality(S)
<1>1. IsFiniteSet(S)
  BY FS_Subset, NotificationAssumption
<1> QED
  BY <1>1, FS_CardinalityType, FS_AddElement, FS_RemoveElement, FS_Subset

\* What is set against what an event costs on a channel ...
Cost(e, c) ==
  saved[e][c] + Cardinality(Untold(e, c)) + (IF Topics!Again(e) THEN 0 ELSE 1)

\* ... is what its deliveries and the crashes pay for.
Paid == 1 + mishaps["redelivery"] + mishaps["crash"]

\* The mishaps are only ever counted up.
LEMMA PaidGrows ==
  ASSUME mishaps \in [Mishap -> Nat],
         UNCHANGED mishaps \/ \E m \in Mishap : Suffer(m)
  PROVE  /\ Paid \in Nat /\ Paid' \in Nat /\ Paid <= Paid'
         /\ Suffer("redelivery") \/ Suffer("crash") => Paid' = Paid + 1
<1> USE DEF Mishap
<1>1. CASE UNCHANGED mishaps
  BY <1>1 DEF Paid, Suffer
<1>2. ASSUME NEW m \in Mishap, Suffer(m)
      PROVE  /\ Paid \in Nat /\ Paid' \in Nat /\ Paid <= Paid'
             /\ Suffer("redelivery") \/ Suffer("crash") => Paid' = Paid + 1
  <2>1. mishaps' = [mishaps EXCEPT ![m] = mishaps[m] + 1]
    BY <1>2 DEF Suffer
  <2>2. mishaps["redelivery"] \in Nat /\ mishaps["crash"] \in Nat
    OBVIOUS
  <2>3. CASE m = "redelivery"
    BY <2>1, <2>2, <2>3 DEF Paid, Suffer
  <2>4. CASE m = "crash"
    BY <2>1, <2>2, <2>4 DEF Paid, Suffer
  <2>5. CASE m \notin {"redelivery", "crash"}
    BY <2>1, <2>2, <2>5 DEF Paid, Suffer
  <2> QED
    BY <2>3, <2>4, <2>5
<1> QED
  BY <1>1, <1>2

\* What keeps the rows of an event, those who work on it and how far they are
\* costs no more than before.
LEMMA SameCost ==
  ASSUME IInv, NEW e \in Event, NEW c \in 1 .. 2,
         saved'[e][c] = saved[e][c], Untold(e, c)' = Untold(e, c),
         Topics!Again(e) => Topics!Again(e)'
  PROVE  Cost(e, c)' <= Cost(e, c)
<1>1. saved[e][c] \in Nat
  BY TwoChannels DEF IInv, TypeOK
<1>2. Cardinality(Untold(e, c)) \in Nat
  BY HandlersCount DEF Untold
<1> QED
  BY <1>1, <1>2 DEF Cost

\* Telling a channel, or failing to, costs no more than having it still to tell.
LEMMA TellingCost ==
  ASSUME IInv, NEW e \in Event, NEW c \in 1 .. 2, NEW i \in Instance, cur[i] # NoEvent,
         NextChannel(i), AddRow(i) \/ UNCHANGED saved
  PROVE  Cost(e, c)' <= Cost(e, c)
<1> USE TwoChannels, NotificationAssumption
<1>0. /\ cur[i] \in Event /\ told[i] \in 0 .. 1 /\ saved \in [Event -> [1 .. 2 -> Nat]]
      /\ cur \in [Instance -> Event \cup {NoEvent}] /\ told \in [Instance -> 0 .. 1]
  BY DEF IInv, TypeOK, Topics!TypeOK
<1>1. /\ saved'[e][c] \in {saved[e][c], saved[e][c] + 1}
      /\ cur[i] # e \/ told[i] + 1 # c => saved'[e][c] = saved[e][c]
  <2>1. CASE AddRow(i)
    BY <1>0, <2>1 DEF AddRow
  <2>2. CASE UNCHANGED saved
    BY <2>2
  <2> QED
    BY <2>1, <2>2
<1>2. /\ \A j \in Instance : j # i => cur'[j] = cur[j] /\ told'[j] = told[j]
      /\ \/ told[i] = 0 /\ told'[i] = 1 /\ cur'[i] = cur[i] /\ handled' = handled
         \/ told[i] = 1 /\ told'[i] = 0 /\ cur'[i] = NoEvent
            /\ handled' = handled \cup {cur[i]}
      /\ skipped' = skipped
  <2>1. CASE told[i] = 0
    BY <1>0, <2>1 DEF NextChannel, delivery
  <2>2. CASE told[i] = 1
    BY <1>0, <2>2 DEF NextChannel, Topics!Finish
  <2> QED
    BY <1>0, <2>1, <2>2
<1>3. Topics!Again(e) => Topics!Again(e)'
  BY <1>2 DEF Topics!Again
<1>4. CASE cur[i] # e \/ told[i] + 1 # c
  <2>1. Untold(e, c)' = Untold(e, c)
    <3>1. ASSUME NEW j \in Instance
          PROVE  (cur'[j] = e /\ told'[j] < c) <=> (cur[j] = e /\ told[j] < c)
      BY <1>0, <1>2, <1>4
    <3> QED
      BY <3>1 DEF Untold
  <2> QED
    BY <1>1, <1>3, <1>4, <2>1, SameCost
<1>5. CASE cur[i] = e /\ told[i] + 1 = c
  <2>1. i \in Untold(e, c) /\ Untold(e, c)' = Untold(e, c) \ {i}
    <3>1. ASSUME NEW j \in Instance
          PROVE  (cur'[j] = e /\ told'[j] < c) <=> (cur[j] = e /\ told[j] < c /\ j # i)
      BY <1>0, <1>2, <1>5
    <3> QED
      BY <1>0, <1>5, <3>1 DEF Untold
  <2>2. /\ Cardinality(Untold(e, c)) \in Nat
        /\ Cardinality(Untold(e, c)') = Cardinality(Untold(e, c)) - 1
    BY <2>1, HandlersCount DEF Untold
  <2>3. saved[e][c] \in Nat
    BY <1>0
  <2> QED
    BY <1>1, <1>3, <2>2, <2>3 DEF Cost
<1> QED
  BY <1>4, <1>5

\* Rows are written for published events only.
LEMMA TellingsPublished ==
  ASSUME IInv, [Next]_vars, NEW e \in Event, NEW c \in 1 .. 2,
         e \notin published => saved[e][c] = 0
  PROVE  e \notin published' => saved'[e][c] = 0
<1> USE TwoChannels, NotificationAssumption
<1>1. published \subseteq published'
  BY DEF Next, Work, Publish, Begin, Save, SaveError, FetchError, Crash, NextChannel, vars,
         delivery, Topics!Publish, Topics!Begin, Topics!Finish, Topics!Skip, Topics!Drop
<1>2. ASSUME e \notin published
      PROVE  saved'[e][c] = saved[e][c]
  <2>1. ASSUME NEW i \in Instance, cur[i] # NoEvent, AddRow(i)
        PROVE  saved'[e][c] = saved[e][c]
    BY <1>2, <2>1 DEF IInv, LoopInv, TypeOK, AddRow
  <2> QED
    BY <2>1 DEF Next, Work, Publish, Begin, Save, SaveError, FetchError, Crash, vars
<1> QED
  BY <1>1, <1>2

\* Every step is paid for.
LEMMA PaidStep ==
  ASSUME IInv, [Next]_vars, NEW e \in Event, NEW c \in 1 .. 2, Cost(e, c) <= Paid
  PROVE  Cost(e, c)' <= Paid'
<1> USE TwoChannels, NotificationAssumption
<1>0. /\ TypeOK /\ Topics!TypeOK /\ saved[e][c] \in Nat /\ mishaps \in [Mishap -> Nat]
      /\ Untold(e, c) \subseteq Instance /\ Cardinality(Untold(e, c)) \in Nat
  BY HandlersCount DEF IInv, TypeOK, Untold
<1>1. Cost(e, c) \in Nat
  BY <1>0 DEF Cost
<1>2. ASSUME Cost(e, c)' <= Cost(e, c), Cost(e, c)' \in Nat,
             UNCHANGED mishaps \/ \E m \in Mishap : Suffer(m)
      PROVE  Cost(e, c)' <= Paid'
  BY <1>0, <1>1, <1>2, PaidGrows
<1>3. Cost(e, c)' \in Nat
  <2>1. saved'[e][c] \in Nat
    <3>1. IInv'
      BY StepInv
    <3> QED
      BY <3>1 DEF IInv, TypeOK
  <2>2. Cardinality(Untold(e, c)') \in Nat
    BY HandlersCount DEF Untold
  <2> QED
    BY <2>1, <2>2 DEF Cost
<1>4. CASE UNCHANGED <<cur, told, handled, saved>> /\ skipped \subseteq skipped'
           /\ (UNCHANGED mishaps \/ \E m \in Mishap : Suffer(m))
  <2>1. Untold(e, c)' = Untold(e, c) /\ (Topics!Again(e) => Topics!Again(e)')
    BY <1>4 DEF Untold, Topics!Again
  <2> QED
    BY <1>2, <1>3, <1>4, <2>1, SameCost
<1>5. ASSUME NEW f \in Event, Publish(f) \/ FetchError(f)
      PROVE  Cost(e, c)' <= Paid'
  BY <1>4, <1>5 DEF Publish, FetchError, Topics!Publish, Topics!Skip, Mishap
<1>6. ASSUME NEW i \in Instance, NEW f \in Event, Begin(i, f)
      PROVE  Cost(e, c)' <= Paid'
  <2>1. /\ cur[i] = NoEvent /\ told[i] = 0 /\ cur' = [cur EXCEPT ![i] = f]
        /\ cur \in [Instance -> Event \cup {NoEvent}]
        /\ UNCHANGED <<handled, skipped, told, saved>>
        /\ IF Topics!Again(f) THEN Suffer("redelivery") ELSE UNCHANGED mishaps
    BY <1>0, <1>6 DEF Begin, Topics!Begin, TypeOK, Topics!TypeOK
  <2>2. UNCHANGED mishaps \/ \E m \in Mishap : Suffer(m)
    BY <2>1 DEF Mishap
  <2>3. CASE e # f
    <3>1. ASSUME NEW j \in Instance PROVE cur'[j] = e <=> cur[j] = e
      BY <2>1, <2>3
    <3>2. Untold(e, c)' = Untold(e, c) /\ (Topics!Again(e) => Topics!Again(e)')
      BY <2>1, <3>1 DEF Untold, Topics!Again
    <3> QED
      BY <1>2, <1>3, <2>1, <2>2, <3>2, SameCost
  <2>4. CASE e = f
    <3>1. Untold(e, c)' = Untold(e, c) \cup {i}
      <4>1. ASSUME NEW j \in Instance
            PROVE  (cur'[j] = e /\ told[j] < c) <=> ((cur[j] = e /\ told[j] < c) \/ j = i)
        BY <2>1, <2>4
      <4> QED
        BY <2>1, <4>1 DEF Untold
    <3>2. Cardinality(Untold(e, c)') <= Cardinality(Untold(e, c)) + 1
      BY <1>0, <3>1, HandlersCount
    <3>3. Topics!Again(e)' /\ saved'[e][c] = saved[e][c] /\ Cardinality(Untold(e, c)') \in Nat
      <4>1. cur'[i] = e
        BY <2>1, <2>4
      <4> QED
        BY <2>1, <4>1, HandlersCount DEF Topics!Again, Untold
    <3>4. CASE Topics!Again(e)
      <4>1. Paid' = Paid + 1 /\ Paid \in Nat
        BY <1>0, <2>1, <2>2, <2>4, <3>4, PaidGrows
      <4>2. Cost(e, c)' <= Cost(e, c) + 1
        BY <1>0, <3>2, <3>3, <3>4 DEF Cost
      <4> QED
        BY <1>1, <1>3, <4>1, <4>2
    <3>5. CASE ~Topics!Again(e)
      <4>1. Cost(e, c)' <= Cost(e, c)
        BY <1>0, <3>2, <3>3, <3>5 DEF Cost
      <4> QED
        BY <1>2, <1>3, <2>2, <4>1
    <3> QED
      BY <3>4, <3>5
  <2> QED
    BY <2>3, <2>4
<1>7. ASSUME NEW i \in Instance, Save(i) \/ SaveError(i)
      PROVE  Cost(e, c)' <= Paid'
  <2>1. /\ cur[i] # NoEvent /\ NextChannel(i) /\ (AddRow(i) \/ UNCHANGED saved)
        /\ UNCHANGED mishaps \/ \E m \in Mishap : Suffer(m)
    BY <1>7 DEF Save, SaveError, Mishap
  <2> QED
    BY <1>2, <1>3, <2>1, TellingCost
<1>8. ASSUME NEW i \in Instance, Crash(i)
      PROVE  Cost(e, c)' <= Paid'
  <2>1. /\ Suffer("crash") /\ UNCHANGED saved
        /\ \A j \in Instance : j # i => cur'[j] = cur[j] /\ told'[j] = told[j]
        /\ cur'[i] = NoEvent
    BY <1>0, <1>8 DEF Crash, Topics!Drop, TypeOK, Topics!TypeOK
  <2>2. Untold(e, c)' \subseteq Untold(e, c)
    BY <2>1 DEF Untold
  <2>3. Cardinality(Untold(e, c)') <= Cardinality(Untold(e, c)) /\ Cardinality(Untold(e, c)') \in Nat
    BY <1>0, <2>2, HandlersCount
  <2>4. Paid' = Paid + 1 /\ Paid \in Nat
    BY <1>0, <2>1, PaidGrows DEF Mishap
  <2>5. Cost(e, c)' <= Cost(e, c) + 1
    BY <1>0, <2>1, <2>3 DEF Cost
  <2> QED
    BY <1>1, <1>3, <2>4, <2>5
<1>9. CASE UNCHANGED vars
  BY <1>4, <1>9 DEF vars, delivery
<1> QED
  BY <1>5, <1>6, <1>7, <1>8, <1>9 DEF Next, Work

\* The customer is told twice only where the event came twice or a handler was
\* cut short, and of nothing that was not announced.
THEOREM RepetitionsExplained == Spec => []RepeatsHaveReasons
<1>1. Init => TellingsPaid
  <2> SUFFICES ASSUME Init, NEW e \in Event, NEW c \in DOMAIN Channels
               PROVE  saved[e][c] = 0 /\ Cost(e, c) <= Paid
    BY DEF TellingsPaid, Cost, Paid
  <2>1. saved[e][c] = 0 /\ mishaps["redelivery"] = 0 /\ mishaps["crash"] = 0
    BY DEF Init, Mishap
  <2>2. Untold(e, c) = {}
    BY NotificationAssumption DEF Untold, Init, Topics!Init
  <2>3. Cardinality(Untold(e, c)) = 0
    BY <2>2, FS_EmptySet
  <2> QED
    BY <2>1, <2>3 DEF Cost, Paid
<1>2. IInv /\ TellingsPaid /\ [Next]_vars => TellingsPaid'
  <2> SUFFICES ASSUME IInv, TellingsPaid, [Next]_vars,
                      NEW e \in Event, NEW c \in 1 .. 2
               PROVE  /\ Cost(e, c)' <= Paid'
                      /\ e \notin published' => saved'[e][c] = 0
    BY TwoChannels DEF TellingsPaid, Cost, Paid
  <2>1. Cost(e, c) <= Paid /\ (e \notin published => saved[e][c] = 0)
    BY TwoChannels DEF TellingsPaid, Cost, Paid
  <2> QED
    BY <2>1, PaidStep, TellingsPublished
<1>3. IInv /\ TellingsPaid => RepeatsHaveReasons
  <2> SUFFICES ASSUME IInv, TellingsPaid, NEW e \in Event, NEW c \in 1 .. 2, e \in published
               PROVE  saved[e][c] <= Paid
    BY TwoChannels DEF RepeatsHaveReasons, TellingsPaid, Paid, IInv, TypeOK
  <2>1. Cost(e, c) <= Paid /\ saved[e][c] \in Nat /\ Paid \in Nat
    BY TwoChannels DEF TellingsPaid, Cost, Paid, IInv, TypeOK, Mishap
  <2>2. Cardinality(Untold(e, c)) \in Nat
    BY HandlersCount DEF Untold
  <2> QED
    BY <2>1, <2>2 DEF Cost
<1> QED
  BY <1>1, <1>2, <1>3, Invariance, PTL DEF Spec
=============================================================================
