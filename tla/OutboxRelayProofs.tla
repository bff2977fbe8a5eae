-------------------------- MODULE OutboxRelayProofs --------------------------
(***************************************************************************)
(* Proofs about OutboxRelay: its types, that no row is marked whose event  *)
(* is not in the topic, and the order of events in the topic, for every    *)
(* number of relays, rows and mishaps and every size of a batch.           *)
(***************************************************************************)
EXTENDS OutboxRelay, TLAPS

LEMMA SeqMono ==
  ASSUME NEW S, NEW T, S \subseteq T
  PROVE  Seq(S) \subseteq Seq(T)
  OBVIOUS

\* What a relay reads is a sequence of the rows it read from.
LEMMA BatchType ==
  ASSUME NEW S, NEW b \in Oldest(S)
  PROVE  b \in Seq(S) /\ b # << >>
<1>1. b \in Batches(S)
  BY DEF Oldest
<1>2. PICK n \in 1 .. Limit : b \in [1 .. n -> S]
  BY <1>1 DEF Batches
<1>3. n \in Nat /\ n > 0
  BY <1>2, RelayAssumption
<1> QED
  BY <1>2, <1>3

\* Counting a mishap.
LEMMA Counting ==
  ASSUME mishaps \in [Mishap -> Nat], NEW m \in Mishap, Suffer(m)
  PROVE  mishaps' \in [Mishap -> Nat] /\ mishaps'[m] # 0
  BY DEF Suffer

\* A topic only grows.
LEMMA Grown ==
  ASSUME NEW S, log \in Seq(S), NEW e, log' \in {log, Append(log, e)}
  PROVE  InLog \subseteq InLog'
<1>1. CASE log' = log
  BY <1>1 DEF InLog
<1>2. CASE log' = Append(log, e)
  <2>1. \A n \in DOMAIN log : n \in DOMAIN log' /\ log'[n] = log[n]
    BY <1>2
  <2> QED
    BY <2>1 DEF InLog
<1> QED
  BY <1>1, <1>2
-----------------------------------------------------------------------------
THEOREM InitTypes == Init => TypeOK
  BY DEF Init, TypeOK

\* Moving on in a batch keeps the types.
LEMMA AdvanceTypes ==
  ASSUME TypeOK, NEW r \in Relay, batch[r] # << >>, Advance(r)
  PROVE  /\ batch' \in [Relay -> Seq(saved)]
         /\ sent' \in [Relay -> BOOLEAN]
         /\ \A s \in Relay : sent'[s] => batch'[s] # << >>
<1>1. batch[r] \in Seq(saved) /\ Tail(batch[r]) \in Seq(saved)
  BY DEF TypeOK
<1>2. batch' = [batch EXCEPT ![r] = Tail(batch[r])] /\ sent' = [sent EXCEPT ![r] = FALSE]
  BY DEF Advance
<1> QED
  BY <1>1, <1>2 DEF TypeOK

\* Every step keeps the types.
THEOREM TypeStep == TypeOK /\ [Next]_vars => TypeOK'
<1> SUFFICES ASSUME TypeOK, [Next]_vars PROVE TypeOK'
  OBVIOUS
<1>1. CASE BeginSave
  <2>1. earlier \in Seq(SUBSET saved) /\ earlier' = Append(earlier, saved)
    BY <1>1 DEF BeginSave, TypeOK
  <2>2. /\ Len(earlier') = Len(earlier) + 1 /\ Len(earlier) \in Nat
        /\ DOMAIN earlier' = 1 .. Len(earlier) + 1 /\ DOMAIN earlier = 1 .. Len(earlier)
    BY <2>1
  <2>3. earlier' \in Seq(SUBSET saved)
    BY <2>1
  <2>4. /\ saved' = saved /\ inserting' = inserting \cup {Len(earlier) + 1}
        /\ saved \cap inserting' = {} /\ saved \cup inserting' = DOMAIN earlier'
    BY <1>1, <2>2 DEF BeginSave, TypeOK
  <2> QED
    BY <1>1, <2>3, <2>4 DEF BeginSave, TypeOK
<1>2. ASSUME NEW n \in 1 .. MaxRows, CommitSave(n) PROVE TypeOK'
  <2>1. /\ saved \subseteq saved' /\ saved' = saved \cup {n} /\ n \in inserting
        /\ inserting' = inserting \ {n}
        /\ UNCHANGED <<earlier, published, log, batch, sent, missed, mishaps>>
    BY <1>2 DEF CommitSave
  <2>2. Seq(saved) \subseteq Seq(saved') /\ Seq(SUBSET saved) \subseteq Seq(SUBSET saved')
    BY <2>1, SeqMono
  <2>3. saved' \cap inserting' = {} /\ saved' \cup inserting' = DOMAIN earlier'
    BY <2>1 DEF TypeOK
  <2>4. /\ earlier' \in Seq(SUBSET saved') /\ log' \in Seq(saved')
        /\ batch' \in [Relay -> Seq(saved')] /\ published' \subseteq saved'
        /\ missed' \subseteq saved'
    BY <2>1, <2>2 DEF TypeOK
  <2> QED
    BY <2>1, <2>3, <2>4 DEF TypeOK
<1>3. ASSUME NEW r \in Relay, GetUnpublished(r) PROVE TypeOK'
  <2>1. PICK b \in Oldest(Unpublished) : batch' = [batch EXCEPT ![r] = b]
    BY <1>3 DEF GetUnpublished
  <2>2. b \in Seq(saved) /\ b # << >>
    BY <2>1, BatchType, SeqMono DEF Unpublished
  <2>3. UNCHANGED <<table, published, log, sent, missed, mishaps>>
    BY <1>3 DEF GetUnpublished
  <2> QED
    BY <2>1, <2>2, <2>3 DEF TypeOK, table
<1>4. ASSUME NEW r \in Relay, Publish(r) PROVE TypeOK'
  <2>1. batch[r] # << >> /\ batch[r] \in Seq(saved)
    BY <1>4 DEF Publish, TypeOK
  <2>2. Head(batch[r]) \in saved
    BY <2>1
  <2>3. log' \in Seq(saved)
    BY <1>4, <2>2 DEF Publish, TypeOK
  <2> QED
    BY <1>4, <2>1, <2>3 DEF Publish, TypeOK, table
<1>5. ASSUME NEW r \in Relay, PublishError(r) PROVE TypeOK'
  <2>1. batch[r] # << >> /\ batch[r] \in Seq(saved) /\ log \in Seq(saved)
    BY <1>5 DEF PublishError, TypeOK
  <2>2. Head(batch[r]) \in saved
    BY <2>1
  <2>3. log' \in Seq(saved)
    BY <1>5, <2>1, <2>2 DEF PublishError
  <2>4. mishaps' \in [Mishap -> Nat] /\ missed' = missed \cup {Head(batch[r])}
    BY <1>5, Counting DEF PublishError, TypeOK, Mishap
  <2> QED
    BY <1>5, <2>1, <2>2, <2>3, <2>4, AdvanceTypes DEF PublishError, TypeOK, table
<1>6. ASSUME NEW r \in Relay, MarkPublished(r) PROVE TypeOK'
  <2>1. batch[r] # << >> /\ batch[r] \in Seq(saved)
    BY <1>6 DEF MarkPublished, TypeOK
  <2>2. Head(batch[r]) \in saved
    BY <2>1
  <2> QED
    BY <1>6, <2>1, <2>2, AdvanceTypes DEF MarkPublished, TypeOK, table
<1>7. ASSUME NEW r \in Relay, MarkError(r) PROVE TypeOK'
  <2>1. batch[r] # << >> /\ batch[r] \in Seq(saved)
    BY <1>7 DEF MarkError, TypeOK
  <2>2. Head(batch[r]) \in saved
    BY <2>1
  <2>3. mishaps' \in [Mishap -> Nat]
    BY <1>7, Counting DEF MarkError, TypeOK, Mishap
  <2> QED
    BY <1>7, <2>1, <2>2, <2>3, AdvanceTypes DEF MarkError, TypeOK, table
<1>8. ASSUME NEW r \in Relay, Crash(r) PROVE TypeOK'
  <2>1. mishaps' \in [Mishap -> Nat]
    BY <1>8, Counting DEF Crash, TypeOK, Mishap
  <2> QED
    BY <1>8, <2>1 DEF Crash, TypeOK, table
<1>9. CASE UNCHANGED vars
  BY <1>9 DEF vars, table, TypeOK
<1> QED
  BY <1>1, <1>2, <1>3, <1>4, <1>5, <1>6, <1>7, <1>8, <1>9 DEF Next, Work

\* Spec => []TypeOK.
THEOREM TypeCorrect == Spec => []TypeOK
  BY InitTypes, TypeStep, PTL DEF Spec
-----------------------------------------------------------------------------
(* What is marked, and what is about to be, is in the topic.               *)

Marks == MarkedIsInLog /\ SentIsInLog

LEMMA FirstOf ==
  ASSUME NEW S, NEW b \in Seq(S), b # << >>
  PROVE  Head(b) \in S /\ Head(b) = b[1]
OBVIOUS

LEMMA LastOf ==
  ASSUME NEW S, NEW b \in Seq(S), NEW x \in S
  PROVE  /\ Len(b) + 1 \in DOMAIN Append(b, x)
         /\ Append(b, x)[Len(b) + 1] = x
OBVIOUS

\* Moving on, with the marks as they are or with that of the first row of r.
LEMMA AdvanceMarks ==
  ASSUME TypeOK, Marks, NEW r \in Relay, batch[r] # << >>, Advance(r),
         InLog \subseteq InLog',
         \/ published' = published
         \/ sent[r] /\ published' = published \cup {Head(batch[r])}
  PROVE  Marks'
<1>1. batch' = [batch EXCEPT ![r] = Tail(batch[r])] /\ sent' = [sent EXCEPT ![r] = FALSE]
  BY DEF Advance
<1>2. \A s \in Relay : sent'[s] => s # r /\ sent[s] /\ batch'[s] = batch[s]
  BY <1>1 DEF TypeOK
<1>3. Head(batch[r]) = batch[r][1]
  BY DEF TypeOK
<1> QED
  BY <1>2, <1>3 DEF Marks, MarkedIsInLog, SentIsInLog

LEMMA MarksStep == TypeOK /\ Marks /\ [Next]_vars => Marks'
<1> SUFFICES ASSUME TypeOK, Marks, [Next]_vars PROVE Marks'
  OBVIOUS
<1>1. ASSUME UNCHANGED <<published, log, batch, sent>> PROVE Marks'
  BY <1>1 DEF Marks, MarkedIsInLog, SentIsInLog, InLog
<1>2. ASSUME NEW r \in Relay, GetUnpublished(r) PROVE Marks'
  <2>1. ~sent[r] /\ UNCHANGED <<published, log, sent>>
    BY <1>2 DEF GetUnpublished, TypeOK
  <2>2. \A s \in Relay : s # r => batch'[s] = batch[s]
    BY <1>2 DEF GetUnpublished, TypeOK
  <2> QED
    BY <2>1, <2>2 DEF Marks, MarkedIsInLog, SentIsInLog, InLog
<1>3. ASSUME NEW r \in Relay, Publish(r) PROVE Marks'
  <2>1. /\ batch[r] # << >> /\ batch[r] \in Seq(saved) /\ log \in Seq(saved)
        /\ log' = Append(log, Head(batch[r])) /\ sent' = [sent EXCEPT ![r] = TRUE]
        /\ UNCHANGED <<published, batch>>
    BY <1>3 DEF Publish, TypeOK, table
  <2>2. InLog \subseteq InLog'
    <3>1. log \in Seq(saved) /\ log' \in {log, Append(log, Head(batch[r]))}
      BY <2>1
    <3> QED
      BY <3>1, Grown, SMTT(30)
  <2>3. batch[r][1] \in InLog'
    <3>1. Head(batch[r]) \in saved /\ Head(batch[r]) = batch[r][1]
      BY <2>1, FirstOf
    <3>2. Len(log) + 1 \in DOMAIN log' /\ log'[Len(log) + 1] = batch[r][1]
      BY <2>1, <3>1, LastOf
    <3> QED
      BY <3>2 DEF InLog
  <2>4. \A s \in Relay : sent'[s] => s = r \/ sent[s]
    BY <2>1 DEF TypeOK
  <2> QED
    BY <2>1, <2>2, <2>3, <2>4 DEF Marks, MarkedIsInLog, SentIsInLog
<1>4. ASSUME NEW r \in Relay, PublishError(r) PROVE Marks'
  <2>1. InLog \subseteq InLog'
    <3>1. log \in Seq(saved) /\ log' \in {log, Append(log, Head(batch[r]))}
      BY <1>4 DEF PublishError, TypeOK
    <3> QED
      BY <3>1, Grown, SMTT(30)
  <2>2. batch[r] # << >> /\ Advance(r) /\ published' = published
    BY <1>4 DEF PublishError
  <2> QED
    BY <2>1, <2>2, AdvanceMarks
<1>5. ASSUME NEW r \in Relay, MarkPublished(r) \/ MarkError(r) PROVE Marks'
  <2>1. batch[r] # << >> /\ sent[r] /\ Advance(r) /\ log' = log
    BY <1>5 DEF MarkPublished, MarkError, TypeOK
  <2>2. InLog \subseteq InLog'
    BY <2>1 DEF InLog
  <2>3. published' = published \/ published' = published \cup {Head(batch[r])}
    BY <1>5 DEF MarkPublished, MarkError
  <2> QED
    BY <2>1, <2>2, <2>3, AdvanceMarks
<1>6. ASSUME NEW r \in Relay, Crash(r) PROVE Marks'
  <2>1. UNCHANGED <<published, log>>
    BY <1>6 DEF Crash
  <2>2. \A s \in Relay : sent'[s] => s # r /\ sent[s] /\ batch'[s] = batch[s]
    BY <1>6 DEF Crash, TypeOK
  <2> QED
    BY <2>1, <2>2 DEF Marks, MarkedIsInLog, SentIsInLog, InLog
<1>7. CASE BeginSave \/ \E n \in 1 .. MaxRows : CommitSave(n)
  BY <1>1, <1>7 DEF BeginSave, CommitSave
<1>8. CASE UNCHANGED vars
  BY <1>1, <1>8 DEF vars
<1> QED
  BY <1>2, <1>3, <1>4, <1>5, <1>6, <1>7, <1>8 DEF Next, Work

LEMMA MarksInit == Init => Marks
  BY DEF Init, Marks, MarkedIsInLog, SentIsInLog
-----------------------------------------------------------------------------
(* The order of the topic.                                                 *)

Ordered == EarlierIsOlder /\ FirstInOrder /\ BatchesInOrder

\* Row n has nothing to wait for: all that was there before it is in the topic, but
\* for what a failed publish passed over.
Ready(n) == \A x \in earlier[n] \ missed : x \in InLog

\* Moving on when the first row of the batch is in the topic or a publish of it has
\* failed.
LEMMA AdvanceOrder ==
  ASSUME TypeOK, Ordered, NEW r \in Relay, batch[r] # << >>, Advance(r),
         batch[r][1] \in InLog' \cup missed', earlier' = earlier,
         InLog \subseteq InLog', missed \subseteq missed'
  PROVE  BatchesInOrder'
<1>1. ASSUME NEW s \in Relay, NEW k \in DOMAIN batch'[s],
             NEW x \in earlier[batch'[s][k]] \ missed'
      PROVE  x \in InLog' \/ \E j \in 1 .. (k - 1) : batch'[s][j] = x
  <2>1. CASE s # r
    <3>1. batch'[s] = batch[s] /\ x \notin missed
      BY <1>1, <2>1 DEF Advance, TypeOK
    <3> QED
      BY <1>1, <3>1 DEF Ordered, BatchesInOrder
  <2>2. CASE s = r
    <3>1. batch[r] \in Seq(saved) /\ batch'[r] = Tail(batch[r])
      BY DEF Advance, TypeOK
    <3>2. /\ k \in Nat \ {0} /\ k + 1 \in DOMAIN batch[r] /\ batch'[r][k] = batch[r][k + 1]
          /\ \A j \in 2 .. k : j - 1 \in 1 .. (k - 1) /\ batch'[r][j - 1] = batch[r][j]
      BY <2>2, <3>1
    <3>3. x \in InLog' \/ \E j \in 1 .. k : batch[r][j] = x
      <4>1. x \in earlier[batch[r][k + 1]] \ missed
        BY <1>1, <2>2, <3>2
      <4>2. x \in InLog \/ \E j \in 1 .. ((k + 1) - 1) : batch[r][j] = x
        BY <3>2, <4>1 DEF Ordered, BatchesInOrder
      <4> QED
        BY <3>2, <4>2
    <3>4. \A j \in 1 .. k : j = 1 \/ j \in 2 .. k
      BY <3>2
    <3> QED
      BY <1>1, <2>2, <3>2, <3>3, <3>4
  <2> QED
    BY <2>1, <2>2
<1> QED
  BY <1>1 DEF BatchesInOrder

\* The topic stays in order when the first row of a batch is published.
LEMMA LogOrder ==
  ASSUME TypeOK, Ordered, NEW r \in Relay, batch[r] # << >>,
         log' \in {log, Append(log, Head(batch[r]))},
         earlier' = earlier, missed \subseteq missed'
  PROVE  FirstInOrder' /\ EarlierIsOlder'
<1>1. CASE log' = log
  BY <1>1 DEF Ordered, EarlierIsOlder, FirstInOrder
<1>2. CASE log' = Append(log, Head(batch[r]))
  <2>1. batch[r] \in Seq(saved) /\ log \in Seq(saved)
    BY DEF TypeOK
  <2>2. /\ Len(log) \in Nat /\ DOMAIN log' = 1 .. (Len(log) + 1) /\ DOMAIN log = 1 .. Len(log)
        /\ log'[Len(log) + 1] = batch[r][1]
        /\ \A n \in DOMAIN log : log'[n] = log[n]
        /\ 1 \in DOMAIN batch[r]
    BY <1>2, <2>1
  <2>3. Ready(batch[r][1])
    BY <2>2 DEF Ordered, BatchesInOrder, Ready
  <2>4. ASSUME NEW n \in DOMAIN log', NEW x \in earlier[log'[n]] \ missed'
        PROVE  \E m \in 1 .. (n - 1) : log'[m] = x
    <3>1. CASE n \in DOMAIN log
      <4>1. x \in earlier[log[n]] \ missed
        BY <2>2, <2>4, <3>1
      <4>2. PICK m \in 1 .. (n - 1) : log[m] = x
        BY <3>1, <4>1 DEF Ordered, FirstInOrder
      <4>3. m \in DOMAIN log
        BY <2>2, <3>1
      <4> QED
        BY <2>2, <4>2, <4>3
    <3>2. CASE n = Len(log) + 1
      <4>1. x \in InLog
        BY <2>2, <2>3, <2>4, <3>2 DEF Ready
      <4>2. PICK m \in DOMAIN log : log[m] = x
        BY <4>1 DEF InLog
      <4>3. m \in 1 .. (n - 1)
        BY <2>2, <3>2
      <4> QED
        BY <2>2, <4>2, <4>3
    <3> QED
      BY <2>2, <3>1, <3>2
  <2> QED
    BY <2>4 DEF Ordered, EarlierIsOlder, FirstInOrder
<1> QED
  BY <1>1, <1>2

\* A new row: what it waits for is what the table holds.
LEMMA BeginSaveOrder == TypeOK /\ Ordered /\ BeginSave => Ordered'
<1> SUFFICES ASSUME TypeOK, Ordered, BeginSave PROVE Ordered'
  OBVIOUS
<1>1. /\ earlier' = Append(earlier, saved) /\ earlier \in Seq(SUBSET saved)
      /\ UNCHANGED <<saved, log, batch, missed>>
  BY DEF BeginSave, TypeOK
<1>2. /\ Len(earlier) \in Nat /\ DOMAIN earlier = 1 .. Len(earlier)
      /\ DOMAIN earlier' = 1 .. (Len(earlier) + 1)
      /\ earlier'[Len(earlier) + 1] = saved
      /\ \A n \in DOMAIN earlier : earlier'[n] = earlier[n]
  BY <1>1
<1>3. saved \subseteq DOMAIN earlier
  BY DEF TypeOK
<1>4. EarlierIsOlder'
  BY <1>2, <1>3 DEF Ordered, EarlierIsOlder
<1>5. FirstInOrder'
  <2>1. \A n \in DOMAIN log : log[n] \in saved
    BY DEF TypeOK
  <2> QED
    BY <1>1, <1>2, <1>3, <2>1 DEF Ordered, FirstInOrder
<1>6. BatchesInOrder'
  <2>1. \A r \in Relay : \A k \in DOMAIN batch[r] : batch[r][k] \in saved
    BY DEF TypeOK
  <2> QED
    BY <1>1, <1>2, <1>3, <2>1 DEF Ordered, BatchesInOrder, InLog
<1> QED
  BY <1>4, <1>5, <1>6 DEF Ordered

\* A batch leaves out no row older than one of its own.
LEMMA ReadOrder ==
  ASSUME TypeOK, Marks, Ordered, NEW r \in Relay, GetUnpublished(r)
  PROVE  Ordered'
<1>1. PICK b \in Oldest(Unpublished) : batch' = [batch EXCEPT ![r] = b]
  BY DEF GetUnpublished
<1>2. UNCHANGED <<earlier, log, missed>>
  BY DEF GetUnpublished, table
<1>3. b \in Seq(Unpublished)
  BY <1>1, BatchType
<1>4. ASSUME NEW k \in DOMAIN b, NEW x \in earlier[b[k]] \ missed
      PROVE  x \in InLog \/ \E j \in 1 .. (k - 1) : b[j] = x
  <2>1. b[k] \in saved /\ k \in Nat /\ saved \subseteq DOMAIN earlier
    BY <1>3 DEF TypeOK, Unpublished
  <2>2. DOMAIN earlier \subseteq Nat /\ earlier[b[k]] \subseteq saved
    BY <2>1 DEF TypeOK
  <2>3. x \in saved /\ x < b[k] /\ x \in Nat /\ b[k] \in Nat
    BY <2>1, <2>2 DEF Ordered, EarlierIsOlder
  <2>4. CASE x \in published
    BY <2>4 DEF Marks, MarkedIsInLog
  <2>5. CASE x \notin published
    <3>1. \/ \E j \in DOMAIN b : b[j] = x
          \/ \A j \in DOMAIN b : b[j] < x
      BY <1>1, <2>3, <2>5 DEF Oldest, Unpublished
    <3>2. PICK j \in DOMAIN b : b[j] = x
      BY <2>3, <3>1
    <3>3. j \in Nat \ {0} /\ ~(k < j) /\ j # k
      BY <1>1, <1>3, <2>1, <2>3, <3>2 DEF Oldest
    <3> QED
      BY <2>1, <3>2, <3>3
  <2> QED
    BY <2>4, <2>5
<1>5. EarlierIsOlder' /\ FirstInOrder'
  BY <1>2 DEF Ordered, EarlierIsOlder, FirstInOrder
<1>6. BatchesInOrder'
  <2>1. batch'[r] = b /\ \A s \in Relay : s # r => batch'[s] = batch[s]
    BY <1>1 DEF TypeOK
  <2>2. InLog' = InLog
    BY <1>2 DEF InLog
  <2> QED
    BY <1>2, <1>4, <2>1, <2>2 DEF Ordered, BatchesInOrder
<1> QED
  BY <1>5, <1>6 DEF Ordered

\* The first row of a batch is ready to be published, whether the relay hears of its
\* success or of an error.
LEMMA PublishOrder ==
  ASSUME TypeOK, Ordered, NEW r \in Relay, Publish(r) \/ PublishError(r)
  PROVE  Ordered'
<1>1. /\ batch[r] # << >> /\ earlier' = earlier /\ missed \subseteq missed'
      /\ log' \in {log, Append(log, Head(batch[r]))}
  BY DEF Publish, PublishError, table
<1>2. FirstInOrder' /\ EarlierIsOlder'
  BY <1>1, LogOrder
<1>3. InLog \subseteq InLog'
  <2>1. log \in Seq(saved)
    BY DEF TypeOK
  <2> QED
    BY <1>1, <2>1, Grown, SMTT(30)
<1>4. CASE Publish(r)
  <2>1. batch' = batch
    BY <1>4 DEF Publish
  <2>2. BatchesInOrder'
    BY <1>1, <1>3, <2>1 DEF Ordered, BatchesInOrder
  <2> QED
    BY <1>2, <2>2 DEF Ordered
<1>5. CASE PublishError(r)
  <2>1. Advance(r) /\ missed' = missed \cup {Head(batch[r])}
    BY <1>5 DEF PublishError
  <2>2. Head(batch[r]) = batch[r][1]
    BY DEF TypeOK
  <2>3. BatchesInOrder'
    BY <1>1, <1>3, <2>1, <2>2, AdvanceOrder
  <2> QED
    BY <1>2, <2>3 DEF Ordered
<1> QED
  BY <1>4, <1>5

LEMMA OrderStep == TypeOK /\ Marks /\ Ordered /\ [Next]_vars => Ordered'
<1> SUFFICES ASSUME TypeOK, Marks, Ordered, [Next]_vars PROVE Ordered'
  OBVIOUS
<1>1. ASSUME NEW n \in 1 .. MaxRows, CommitSave(n) PROVE Ordered'
  BY <1>1 DEF CommitSave, Ordered, EarlierIsOlder, FirstInOrder, BatchesInOrder, InLog
<1>2. ASSUME NEW r \in Relay, MarkPublished(r) \/ MarkError(r) PROVE Ordered'
  <2>1. sent[r] /\ Advance(r) /\ UNCHANGED <<earlier, log, missed>>
    BY <1>2 DEF MarkPublished, MarkError, table
  <2>2. batch[r] # << >> /\ batch[r][1] \in InLog /\ InLog' = InLog
    BY <2>1 DEF TypeOK, Marks, SentIsInLog, InLog
  <2>3. BatchesInOrder'
    BY <2>1, <2>2, AdvanceOrder
  <2> QED
    BY <2>1, <2>3 DEF Ordered, EarlierIsOlder, FirstInOrder
<1>3. ASSUME NEW r \in Relay, Crash(r) PROVE Ordered'
  <2>1. UNCHANGED <<earlier, log, missed>>
    BY <1>3 DEF Crash, table
  <2>2. \A s \in Relay : batch'[s] = batch[s] \/ batch'[s] = << >>
    BY <1>3 DEF Crash, TypeOK
  <2>3. InLog' = InLog /\ DOMAIN << >> = {}
    BY <2>1 DEF InLog
  <2> QED
    BY <2>1, <2>2, <2>3 DEF Ordered, EarlierIsOlder, FirstInOrder, BatchesInOrder
<1>4. CASE UNCHANGED vars
  BY <1>4 DEF vars, table, Ordered, EarlierIsOlder, FirstInOrder, BatchesInOrder, InLog
<1> QED
  BY <1>1, <1>2, <1>3, <1>4, BeginSaveOrder, ReadOrder, PublishOrder DEF Next, Work

LEMMA OrderInit == Init => Ordered
  BY DEF Init, Ordered, EarlierIsOlder, FirstInOrder, BatchesInOrder

LEMMA Inductive == Spec => []IInv
<1>1. IInv <=> TypeOK /\ Marks /\ Ordered
  BY DEF IInv, Marks, Ordered
<1>2. TypeOK /\ Marks /\ Ordered /\ [Next]_vars => TypeOK' /\ Marks' /\ Ordered'
  BY TypeStep, MarksStep, OrderStep
<1> QED
  BY InitTypes, MarksInit, OrderInit, <1>1, <1>2, PTL DEF Spec

\* Spec => []MarkedIsInLog: no row is marked whose event is not in the topic,
\* whatever publish or mark reports an error and whenever a relay dies.
THEOREM MarkedInLog == Spec => []MarkedIsInLog
<1>1. IInv => MarkedIsInLog
  BY DEF IInv
<1> QED
  BY Inductive, <1>1, PTL

\* Spec => []FirstInOrder: no row is published before one that was in the table when
\* it was inserted, unless a publish of that one has returned an error, however many
\* relays read, repeat and die.
THEOREM CausalOrder == Spec => []FirstInOrder
<1>1. IInv => FirstInOrder
  BY DEF IInv
<1> QED
  BY Inductive, <1>1, PTL
=============================================================================
