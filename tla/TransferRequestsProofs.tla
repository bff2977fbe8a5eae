----------------------- MODULE TransferRequestsProofs -----------------------
(* Proofs about TransferRequests.                                          *)
EXTENDS TransferRequests, TLAPS

\* A column holds natural numbers only.
LEMMA StoredType ==
  ASSUME NEW x \in Nat
  PROVE  Stored(x) \in Nat
BY NumericAssumption, Z3 DEF Stored

\* What is written down or answered of a valid request is an answer.
LEMMA AnswerType ==
  ASSUME NEW q \in Request, ~Invalid(q)
  PROVE  Made(q) \in Answer /\ Recorded(q) \in Answer
<1>1. Order[q].amount \in Nat
  BY RequestAssumption DEF Orders, Invalid
<1> QED
  BY <1>1, StoredType DEF Made, Recorded, Answer

\* The marks for what is no answer are told from answers and requests.
LEMMA NoAnswers ==
  /\ None \notin Request /\ None \notin Answer
  /\ Failed \notin Answer /\ Refused \notin Answer /\ Gone \notin Answer
  /\ None \notin {Failed, Refused, Gone}
BY RequestAssumption DEF NoAnswer

\* A request carries a key of the table.
LEMMA KeyType ==
  ASSUME NEW q \in Request
  PROVE  KeyOf(q) \in Key
BY RequestAssumption DEF Orders, KeyOf
-----------------------------------------------------------------------------
(* What a step of one request leaves alone.                                *)

Same(q) == pc'[q] = pc[q] /\ reply'[q] = reply[q]

\* Rows and events are never taken back, and what is cached is no news.
Grows ==
  /\ \A k \in Key : rows[k] # None => rows'[k] = rows[k]
  /\ outbox \subseteq outbox'

\* A request at rest keeps its invariant when others work.
LEMMA OthersKeep ==
  ASSUME TypeOK, NEW q \in Request, RequestInv(q), Same(q), Grows
  PROVE  RequestInv(q)'
<1>1. KeyOf(q) \in Key /\ KeyOf(q)' = KeyOf(q) /\ Invalid(q)' = Invalid(q)
  BY KeyType DEF KeyOf, Invalid
<1>2. q # None /\ (q \in Answered => reply[q].id # None)
  BY NoAnswers DEF Answered, Answer
<1>3. (q \in Answered)' => q \in Answered
  BY DEF Answered, Same
<1> QED
  BY <1>1, <1>2, <1>3 DEF RequestInv, Same, Grows
-----------------------------------------------------------------------------
(* The tables.                                                             *)

Tables == RowsValid /\ OneRequestPerKey /\ CachedMeansRequested

\* A statement that writes nothing keeps the tables.
LEMMA Unwritten ==
  ASSUME IInv, UNCHANGED <<rows, cache, outbox>>
  PROVE  Tables' /\ Grows
<1>1. /\ \A q \in Request : KeyOf(q)' = KeyOf(q)
      /\ \A k \in Key : Invalid(rows[k])' = Invalid(rows[k])
  BY DEF KeyOf, Invalid
<1> QED
  BY <1>1 DEF IInv, Tables, Grows, RowsValid, OneRequestPerKey, CachedMeansRequested, TypeOK

\* So does an INSERT: it takes a key that has no row, no event and no entry
\* in the cache.
LEMMA Inserted ==
  ASSUME IInv, NEW q \in Request, pc[q] = "insert", Insertable(q),
         rows' = [rows EXCEPT ![KeyOf(q)] = q], UNCHANGED <<cache, outbox>>
  PROVE  Tables' /\ Grows /\ rows'[KeyOf(q)] = q /\ rows' \in [Key -> Request \cup {None}]
<1>1. /\ \A p \in Request : KeyOf(p)' = KeyOf(p) /\ KeyOf(p) \in Key /\ p # None
      /\ \A k \in Key : Invalid(rows[k])' = Invalid(rows'[k])
  BY KeyType, NoAnswers DEF KeyOf, Invalid
<1>2. /\ rows' \in [Key -> Request \cup {None}]
      /\ rows'[KeyOf(q)] = q /\ rows[KeyOf(q)] = None
      /\ \A k \in Key \ {KeyOf(q)} : rows'[k] = rows[k]
  BY <1>1 DEF IInv, TypeOK, Insertable
<1>3. ~Invalid(q)
  BY DEF IInv, RequestInv
<1>4. RowsValid'
  BY <1>1, <1>2, <1>3 DEF IInv, RowsValid
<1>5. OneRequestPerKey'
  BY <1>1, <1>2 DEF IInv, TypeOK, OneRequestPerKey
<1>6. CachedMeansRequested'
  BY <1>1, <1>2 DEF IInv, TypeOK, CachedMeansRequested
<1>7. Grows
  BY <1>2 DEF Grows
<1> QED
  BY <1>2, <1>4, <1>5, <1>6, <1>7 DEF Tables

\* So does SaveEvent, whose transfer has its row.
LEMMA Saved ==
  ASSUME IInv, NEW q \in Request, pc[q] = "save",
         outbox' = outbox \cup {q}, UNCHANGED <<rows, cache>>
  PROVE  Tables' /\ Grows
<1>1. /\ \A p \in Request : KeyOf(p)' = KeyOf(p)
      /\ \A k \in Key : Invalid(rows[k])' = Invalid(rows[k])
      /\ rows[KeyOf(q)] = q
  BY DEF KeyOf, Invalid, IInv, RequestInv
<1> QED
  BY <1>1 DEF IInv, Tables, Grows, RowsValid, OneRequestPerKey, CachedMeansRequested, TypeOK

\* And so does Set, whose transfer has its row and its event.
LEMMA Cached ==
  ASSUME IInv, NEW q \in Request, pc[q] = "setCache",
         cache' = [cache EXCEPT ![KeyOf(q)] = q], UNCHANGED <<rows, outbox>>
  PROVE  Tables' /\ Grows /\ cache' \in [Key -> Request \cup {None}]
<1>1. /\ \A p \in Request : KeyOf(p)' = KeyOf(p)
      /\ \A k \in Key : Invalid(rows[k])' = Invalid(rows[k])
      /\ q \in outbox /\ rows[KeyOf(q)] = q /\ KeyOf(q) \in Key
  BY KeyType DEF KeyOf, Invalid, IInv, RequestInv, OneRequestPerKey
<1>2. /\ cache' \in [Key -> Request \cup {None}]
      /\ cache'[KeyOf(q)] = q
      /\ \A k \in Key \ {KeyOf(q)} : cache'[k] = cache[k]
  BY <1>1 DEF IInv, TypeOK
<1>3. CachedMeansRequested'
  BY <1>1, <1>2 DEF IInv, CachedMeansRequested
<1> QED
  BY <1>1, <1>2, <1>3 DEF IInv, Tables, Grows, RowsValid, OneRequestPerKey, TypeOK
-----------------------------------------------------------------------------
(* The handlers.                                                           *)

\* What a step of q has to bring about.
StepKeeps(q) ==
  /\ Tables' /\ Grows /\ TypeOK'
  /\ \A p \in Request \ {q} : Same(p)
  /\ RequestInv(q)'
  /\ (Stranded(q) => pc[q] = "save" \/ reply[q] \in {Failed, Gone})'

\* A handler that goes on, over tables that are in order.
LEMMA GoesOn ==
  ASSUME IInv, NEW q \in Request, NEW stage \in Stage \ {"done"}, pc[q] # "done",
         Goto(q, stage), Tables', Grows,
         rows' \in [Key -> Request \cup {None}], cache' = cache, outbox' \subseteq Request,
         stage \in {"insert", "save", "setCache"} => ~Invalid(q),
         stage = "save" => rows'[KeyOf(q)] = q,
         stage = "setCache" => q \in outbox',
         rows'[KeyOf(q)] = q /\ q \notin outbox' => stage = "save"
  PROVE  StepKeeps(q)
<1>1. /\ pc'[q] = stage /\ reply' = reply /\ reply[q] = None
      /\ \A p \in Request \ {q} : Same(p)
      /\ KeyOf(q)' = KeyOf(q) /\ Invalid(q)' = Invalid(q)
  BY DEF IInv, TypeOK, Goto, Same, KeyOf, Invalid, RequestInv
<1>2. TypeOK'
  BY <1>1 DEF IInv, TypeOK, Goto
<1>3. RequestInv(q)'
  BY <1>1, NoAnswers DEF RequestInv, Answered
<1>4. (Stranded(q) => pc[q] = "save" \/ reply[q] \in {Failed, Gone})'
  BY <1>1 DEF Stranded
<1> QED
  BY <1>1, <1>2, <1>3, <1>4 DEF StepKeeps

\* A handler that replies, over tables that are in order.
LEMMA Replies ==
  ASSUME IInv, NEW q \in Request, pc[q] # "done", NEW r \in Answer \cup NoAnswer,
         Reply(q, r), Tables', Grows,
         rows' \in [Key -> Request \cup {None}], cache' \in [Key -> Request \cup {None}],
         outbox' \subseteq Request,
         r \in Answer => rows'[KeyOf(q)] = r.id,
         rows'[KeyOf(q)] = q /\ q \notin outbox' => r \in {Failed, Gone}
  PROVE  StepKeeps(q)
<1>1. /\ pc'[q] = "done" /\ reply'[q] = r
      /\ \A p \in Request \ {q} : Same(p)
      /\ KeyOf(q)' = KeyOf(q)
  BY DEF IInv, TypeOK, Reply, Same, KeyOf
<1>2. TypeOK'
  BY DEF IInv, TypeOK, Reply, Stage
<1>3. RequestInv(q)'
  BY <1>1 DEF RequestInv, Answered
<1>4. (Stranded(q) => pc[q] = "save" \/ reply[q] \in {Failed, Gone})'
  BY <1>1 DEF Stranded
<1> QED
  BY <1>1, <1>2, <1>3, <1>4 DEF StepKeeps

\* Every statement of a handler, and every way it fails.
LEMMA RequestStep ==
  ASSUME IInv, NEW q \in Request, Work(q) \/ Trouble(q)
  PROVE  StepKeeps(q)
<1>0. /\ TypeOK /\ RequestInv(q) /\ OneRequestPerKey /\ CachedMeansRequested
      /\ KeyOf(q) \in Key /\ q # None
      /\ Stranded(q) => pc[q] = "save" \/ reply[q] \in {Failed, Gone}
  BY KeyType, NoAnswers DEF IInv, OnlyFailuresStrand
<1>a. /\ rows[KeyOf(q)] \in Request \cup {None} /\ cache[KeyOf(q)] \in Request \cup {None}
      /\ {Failed, Refused, Gone} \subseteq NoAnswer
      /\ pc[q] # "save" => ~Stranded(q) \/ reply[q] # None
  BY <1>0, NoAnswers DEF TypeOK, NoAnswer
<1>b. \A p \in Request : rows[KeyOf(q)] = p => ~Invalid(p)
  BY <1>0, NoAnswers DEF IInv, RowsValid
<1>c. pc[q] \notin {"save", "done"} /\ rows[KeyOf(q)] = q => q \in outbox
  BY <1>0, NoAnswers DEF Stranded, RequestInv
<1>1. CASE GetCached(q)
  <2>1. /\ cache[KeyOf(q)] \in Request /\ rows[KeyOf(q)] = cache[KeyOf(q)]
        /\ UNCHANGED <<rows, cache, outbox>> /\ pc[q] = "getCache"
        /\ Reply(q, Made(cache[KeyOf(q)]))
    BY <1>0, <1>a, <1>1 DEF GetCached, CachedMeansRequested
  <2>2. /\ Made(cache[KeyOf(q)]) \in Answer
        /\ Made(cache[KeyOf(q)]).id = cache[KeyOf(q)]
    BY <1>b, <2>1, AnswerType DEF Made
  <2> QED
    BY <1>0, <1>c, <2>1, <2>2, Unwritten, Replies DEF TypeOK
<1>2. CASE CacheMissed(q)
  <2>1. pc[q] = "getCache" /\ Goto(q, "getRow") /\ UNCHANGED <<rows, cache, outbox>>
    BY <1>2 DEF CacheMissed
  <2> QED
    BY <1>0, <1>c, <2>1, Unwritten, GoesOn DEF TypeOK, Stage
<1>3. CASE GetRow(q)
  <2>1. pc[q] = "getRow" /\ UNCHANGED <<rows, cache, outbox>>
    BY <1>3 DEF GetRow
  <2>2. CASE rows[KeyOf(q)] # None
    <3>1. /\ Reply(q, Recorded(rows[KeyOf(q)])) /\ rows[KeyOf(q)] \in Request
          /\ Recorded(rows[KeyOf(q)]).id = rows[KeyOf(q)]
      BY <1>3, <1>a, <2>2 DEF GetRow, Recorded
    <3>2. Recorded(rows[KeyOf(q)]) \in Answer
      BY <1>b, <3>1, AnswerType
    <3> QED
      BY <1>0, <1>c, <2>1, <3>1, <3>2, Unwritten, Replies DEF TypeOK
  <2>3. CASE rows[KeyOf(q)] = None /\ Invalid(q)
    <3>1. Reply(q, Refused)
      BY <1>3, <2>3 DEF GetRow
    <3> QED
      BY <1>0, <1>a, <2>1, <2>3, <3>1, NoAnswers, Unwritten, Replies DEF TypeOK
  <2>4. CASE rows[KeyOf(q)] = None /\ ~Invalid(q)
    <3>1. Goto(q, "insert")
      BY <1>3, <2>4 DEF GetRow
    <3> QED
      BY <1>0, <2>1, <2>4, <3>1, Unwritten, GoesOn DEF TypeOK, Stage
  <2> QED
    BY <2>2, <2>3, <2>4
<1>4. CASE Insert(q)
  <2>1. /\ pc[q] = "insert" /\ Insertable(q) /\ Goto(q, "save")
        /\ rows' = [rows EXCEPT ![KeyOf(q)] = q] /\ UNCHANGED <<cache, outbox>>
    BY <1>4 DEF Insert
  <2> QED
    BY <1>0, <2>1, Inserted, GoesOn DEF TypeOK, Stage, RequestInv
<1>5. CASE InsertRefused(q)
  <2>1. pc[q] = "insert" /\ Reply(q, Failed) /\ UNCHANGED <<rows, cache, outbox>>
    BY <1>5 DEF InsertRefused
  <2> QED
    BY <1>0, <1>a, <2>1, NoAnswers, Unwritten, Replies DEF TypeOK
<1>6. CASE SaveEvent(q)
  <2>1. /\ pc[q] = "save" /\ Goto(q, "setCache")
        /\ outbox' = outbox \cup {q} /\ UNCHANGED <<rows, cache>>
    BY <1>6 DEF SaveEvent
  <2> QED
    BY <1>0, <2>1, Saved, GoesOn DEF TypeOK, Stage, RequestInv
<1>7. CASE SetCache(q)
  <2>1. /\ pc[q] = "setCache" /\ Reply(q, Made(q)) /\ UNCHANGED <<rows, outbox>>
        /\ cache' = [cache EXCEPT ![KeyOf(q)] = q] \/ UNCHANGED cache
    BY <1>7 DEF SetCache
  <2>2. Tables' /\ Grows /\ cache' \in [Key -> Request \cup {None}]
    BY <1>0, <2>1, Cached, Unwritten DEF TypeOK
  <2>3. q \in outbox /\ rows[KeyOf(q)] = q /\ Made(q) \in Answer /\ Made(q).id = q
    BY <1>0, <2>1, AnswerType DEF RequestInv, OneRequestPerKey, Made
  <2> QED
    BY <1>0, <2>1, <2>2, <2>3, Replies DEF TypeOK
<1>8. CASE ReadError(q)
  <2>1. pc[q] = "getRow" /\ Reply(q, Failed) /\ UNCHANGED <<rows, cache, outbox>>
    BY <1>8 DEF ReadError
  <2> QED
    BY <1>0, <1>a, <2>1, NoAnswers, Unwritten, Replies DEF TypeOK
<1>9. CASE InsertError(q)
  <2>1. /\ pc[q] = "insert" /\ Reply(q, Failed) /\ UNCHANGED <<cache, outbox>>
        /\ \/ UNCHANGED rows
           \/ Insertable(q) /\ rows' = [rows EXCEPT ![KeyOf(q)] = q]
    BY <1>9 DEF InsertError
  <2>2. Tables' /\ Grows /\ rows' \in [Key -> Request \cup {None}]
    BY <1>0, <2>1, Inserted, Unwritten DEF TypeOK
  <2> QED
    BY <1>0, <1>a, <2>1, <2>2, NoAnswers, Replies DEF TypeOK
<1>10. CASE SaveError(q)
  <2>1. /\ pc[q] = "save" /\ Reply(q, Failed) /\ UNCHANGED <<rows, cache>>
        /\ outbox' = outbox \cup {q} \/ UNCHANGED outbox
    BY <1>10 DEF SaveError
  <2>2. Tables' /\ Grows /\ outbox' \subseteq Request
    BY <1>0, <2>1, Saved, Unwritten DEF TypeOK
  <2> QED
    BY <1>0, <1>a, <2>1, <2>2, NoAnswers, Replies DEF TypeOK
<1>11. CASE Abandon(q)
  <2>1. pc[q] # "done" /\ Reply(q, Gone) /\ UNCHANGED <<rows, cache, outbox>>
    BY <1>11 DEF Abandon
  <2> QED
    BY <1>0, <1>a, <2>1, NoAnswers, Unwritten, Replies DEF TypeOK
<1> QED
  BY <1>1, <1>2, <1>3, <1>4, <1>5, <1>6, <1>7, <1>8, <1>9, <1>10, <1>11
  DEF Work, Trouble

\* An entry of the cache that expires is missed by nobody.
LEMMA ExpireStep ==
  ASSUME IInv, NEW k \in Key, Expire(k)
  PROVE  IInv'
<1>1. /\ UNCHANGED <<pc, reply, rows, outbox>>
      /\ \A p \in Request : KeyOf(p)' = KeyOf(p) /\ Invalid(p)' = Invalid(p)
      /\ \A j \in Key : Invalid(rows[j])' = Invalid(rows[j])
  BY DEF Expire, KeyOf, Invalid
<1>2. cache' \in [Key -> Request \cup {None}] /\ \A j \in Key : cache'[j] \in {cache[j], None}
  BY DEF Expire, IInv, TypeOK
<1>3. TypeOK'
  BY <1>1, <1>2 DEF IInv, TypeOK
<1>4. RowsValid' /\ OneRequestPerKey' /\ OnlyFailuresStrand'
  BY <1>1 DEF IInv, RowsValid, OneRequestPerKey, OnlyFailuresStrand, Stranded
<1>5. CachedMeansRequested'
  BY <1>1, <1>2 DEF IInv, CachedMeansRequested
<1>6. \A q \in Request : RequestInv(q)'
  BY <1>1 DEF IInv, RequestInv, Answered
<1> QED
  BY <1>3, <1>4, <1>5, <1>6 DEF IInv

\* The invariant holds initially.
LEMMA Initially == Init => IInv
<1> SUFFICES ASSUME Init PROVE IInv
  OBVIOUS
<1> USE DEF Init
<1>1. TypeOK
  BY DEF TypeOK, Stage, NoAnswer
<1>2. RowsValid /\ OneRequestPerKey /\ CachedMeansRequested
  BY DEF RowsValid, OneRequestPerKey, CachedMeansRequested
<1>3. OnlyFailuresStrand
  BY KeyType, NoAnswers DEF OnlyFailuresStrand, Stranded
<1>4. \A q \in Request : RequestInv(q)
  BY NoAnswers DEF RequestInv, Answered
<1> QED
  BY <1>1, <1>2, <1>3, <1>4 DEF IInv

\* The invariant is inductive.
LEMMA Inductively == IInv /\ [Next]_vars => IInv'
<1> SUFFICES ASSUME IInv, [Next]_vars PROVE IInv'
  OBVIOUS
<1>1. ASSUME NEW q \in Request, Work(q) \/ Trouble(q) PROVE IInv'
  <2>1. StepKeeps(q)
    BY <1>1, RequestStep
  <2>2. \A p \in Request : RequestInv(p)'
    BY <2>1, OthersKeep DEF IInv, StepKeeps
  <2>3. ASSUME NEW p \in Request \ {q}
        PROVE  (Stranded(p) => pc[p] = "save" \/ reply[p] \in {Failed, Gone})'
    <3>1. Same(p) /\ KeyOf(p)' = KeyOf(p) /\ Grows
      BY <2>1 DEF StepKeeps, KeyOf
    <3>2. CASE Stranded(p)
      BY <3>1, <3>2 DEF IInv, OnlyFailuresStrand, Same
    <3>3. CASE ~Stranded(p)
      <4>1. p \in outbox => p \in outbox'
        BY <3>1 DEF Grows
      <4>2. CASE rows[KeyOf(p)] # p /\ Stranded(p)'
        \* Only a step of p writes a row of p.
        <5>1. rows'[KeyOf(p)] = p /\ KeyOf(p) \in Key
          BY <3>1, <4>2, KeyType DEF Stranded
        <5>2. rows[KeyOf(p)] = p \/ rows'[KeyOf(p)] \in {rows[KeyOf(p)], q}
          BY <1>1, <5>1 DEF Work, Trouble, GetCached, CacheMissed, GetRow, Insert,
             InsertRefused, SaveEvent, SetCache, ReadError, InsertError, SaveError,
             Abandon, IInv, TypeOK
        <5> QED
          BY <4>2, <5>1, <5>2
      <4> QED
        BY <3>1, <3>3, <4>1, <4>2 DEF Stranded
    <3> QED
      BY <3>2, <3>3
  <2> QED
    BY <2>1, <2>2, <2>3 DEF StepKeeps, Tables, IInv, OnlyFailuresStrand
<1>2. ASSUME UNCHANGED vars PROVE IInv'
  <2>1. \A p \in Request : KeyOf(p)' = KeyOf(p) /\ Invalid(p)' = Invalid(p)
    BY DEF KeyOf, Invalid
  <2>2. Tables'
    BY <1>2, Unwritten DEF vars
  <2>3. TypeOK' /\ OnlyFailuresStrand'
    BY <1>2, <2>1 DEF vars, IInv, TypeOK, OnlyFailuresStrand, Stranded
  <2>4. \A p \in Request : RequestInv(p)'
    BY <1>2, <2>1 DEF vars, IInv, RequestInv, Answered
  <2> QED
    BY <2>2, <2>3, <2>4 DEF IInv, Tables
<1> QED
  BY <1>1, <1>2, ExpireStep DEF Next
-----------------------------------------------------------------------------
(* The service implements the register.                                    *)

\* What the register makes of an order, it makes of the same order.
LEMMA SameOrders ==
  ASSUME NEW q \in Request
  PROVE  /\ Promised!KeyOf(q) = KeyOf(q)
         /\ Promised!Acceptable(q) <=> ~Invalid(q)
         /\ Promised!Fits(Order[q].amount) <=> Fits(Order[q].amount)
         /\ Promised!Stored(Order[q].amount) = Stored(Order[q].amount)
<1>1. Order[q].amount \in Int
  BY RequestAssumption DEF Orders
<1> QED
  BY <1>1 DEF Promised!KeyOf, KeyOf, Promised!Acceptable, Invalid, Promised!Fits, Fits,
     Promised!Stored, Stored

\* A reply that names the transfer of the key answers in the register's sense.
LEMMA AnswerImplemented ==
  ASSUME NEW q \in Request, NEW t \in Request, rows[KeyOf(q)] = t, t = q => q \in outbox,
         NEW r \in {Made(t), Recorded(t)}, Reply(q, r), reply[q] = None,
         UNCHANGED <<rows, outbox>>
  PROVE  Promised!Next
<1>1. /\ Promised!KeyOf(q) = KeyOf(q)
      /\ Promised!Stored(Order[t].amount) = Stored(Order[t].amount)
  BY SameOrders
<1>2. PICK n \in {Order[t].amount, Stored(Order[t].amount)} : r = [id |-> t, amount |-> n]
  BY DEF Made, Recorded
<1>3. Promised!Answer(q, t)
  BY <1>1, <1>2 DEF Promised!Answer, Reply
<1> QED
  BY <1>3 DEF Promised!Serve, Promised!Next

\* A handler that gives up, after a statement that may have had its effect.
LEMMA FailureImplemented ==
  ASSUME NEW q \in Request, NEW r \in {Failed, Gone}, Reply(q, r), reply[q] = None,
         Promised!Take(q) \/ Promised!Ask(q) \/ UNCHANGED <<rows, outbox>>
  PROVE  Promised!Next
<1>1. Promised!Fail(q)
  BY DEF Promised!Fail, Reply
<1> QED
  BY <1>1 DEF Promised!Serve, Promised!Next

\* An INSERT that is carried out takes the key.
LEMMA InsertTakes ==
  ASSUME IInv, NEW q \in Request, pc[q] = "insert", Insertable(q),
         rows' = [rows EXCEPT ![KeyOf(q)] = q], UNCHANGED outbox
  PROVE  Promised!Take(q)
<1>1. ~Invalid(q)
  BY DEF IInv, RequestInv
<1> QED
  BY <1>1, SameOrders DEF Insertable, Promised!Take

\* The INSERT into the outbox asks for the transfer that took the key.
LEMMA SaveAsks ==
  ASSUME IInv, NEW q \in Request, pc[q] = "save", outbox' = outbox \cup {q}, UNCHANGED rows
  PROVE  Promised!Ask(q)
<1>1. rows[KeyOf(q)] = q
  BY DEF IInv, RequestInv
<1> QED
  BY <1>1, SameOrders DEF Promised!Ask

\* Every statement of a handler is a step of the register or none.
LEMMA RequestImplemented ==
  ASSUME IInv, NEW q \in Request, Work(q) \/ Trouble(q)
  PROVE  Promised!Next \/ UNCHANGED Promised!vars
<1>1. /\ RequestInv(q) /\ CachedMeansRequested /\ KeyOf(q) \in Key
      /\ Stranded(q) => pc[q] = "save" \/ reply[q] \in {Failed, Gone}
      /\ rows[KeyOf(q)] \in Request \cup {None} /\ cache[KeyOf(q)] \in Request \cup {None}
  BY KeyType DEF IInv, TypeOK, OnlyFailuresStrand
<1>2. pc[q] # "done" /\ reply[q] = None /\ None \notin {Failed, Gone}
  BY <1>1, NoAnswers DEF RequestInv, Work, Trouble, GetCached, CacheMissed, GetRow, Insert,
     InsertRefused, SaveEvent, SetCache, ReadError, InsertError, SaveError, Abandon
<1>3. CASE GetCached(q)
  <2>1. /\ Reply(q, Made(cache[KeyOf(q)])) /\ cache[KeyOf(q)] \in Request
        /\ UNCHANGED <<rows, outbox>>
    BY <1>1, <1>3 DEF GetCached
  <2>2. rows[KeyOf(q)] = cache[KeyOf(q)] /\ cache[KeyOf(q)] \in outbox
    BY <1>1, <1>3 DEF GetCached, CachedMeansRequested
  <2> QED
    BY <1>2, <2>1, <2>2, AnswerImplemented
<1>4. CASE GetRow(q)
  <2>1. pc[q] = "getRow" /\ UNCHANGED <<rows, outbox>>
    BY <1>4 DEF GetRow
  <2>2. CASE rows[KeyOf(q)] # None
    <3>1. Reply(q, Recorded(rows[KeyOf(q)])) /\ rows[KeyOf(q)] \in Request
      BY <1>1, <1>4, <2>2 DEF GetRow
    <3>2. rows[KeyOf(q)] = q => q \in outbox
      BY <1>1, <1>2, <2>1 DEF Stranded
    <3> QED
      BY <1>2, <2>1, <3>1, <3>2, AnswerImplemented
  <2>3. CASE rows[KeyOf(q)] = None /\ Invalid(q)
    <3>1. Reply(q, Refused)
      BY <1>4, <2>3 DEF GetRow
    <3>2. Promised!Refuse(q)
      BY <2>1, <2>3, <3>1, SameOrders DEF Reply, Promised!Refuse
    <3> QED
      BY <1>2, <3>2 DEF Promised!Serve, Promised!Next
  <2>4. CASE rows[KeyOf(q)] = None /\ ~Invalid(q)
    BY <1>4, <2>1, <2>4 DEF GetRow, Goto, Promised!vars
  <2> QED
    BY <2>2, <2>3, <2>4
<1>5. CASE CacheMissed(q)
  BY <1>5 DEF CacheMissed, Goto, Promised!vars
<1>6. CASE Insert(q)
  <2>1. Promised!Take(q) /\ UNCHANGED reply
    BY <1>6, InsertTakes DEF Insert, Goto
  <2> QED
    BY <1>2, <2>1 DEF Promised!Serve, Promised!Next
<1>7. CASE SaveEvent(q)
  <2>1. Promised!Ask(q) /\ UNCHANGED reply
    BY <1>7, SaveAsks DEF SaveEvent, Goto
  <2> QED
    BY <1>2, <2>1 DEF Promised!Serve, Promised!Next
<1>8. CASE SetCache(q)
  <2>1. pc[q] = "setCache" /\ Reply(q, Made(q)) /\ UNCHANGED <<rows, outbox>>
    BY <1>8 DEF SetCache
  <2>2. q \in outbox /\ rows[KeyOf(q)] = q
    BY <1>1, <2>1 DEF IInv, RequestInv, OneRequestPerKey
  <2> QED
    BY <1>2, <2>1, <2>2, AnswerImplemented
<1>9. CASE InsertRefused(q) \/ ReadError(q) \/ Abandon(q)
  <2>1. /\ \E r \in {Failed, Gone} : Reply(q, r)
        /\ UNCHANGED <<rows, outbox>>
    BY <1>9 DEF InsertRefused, ReadError, Abandon
  <2> QED
    BY <1>2, <2>1, FailureImplemented
<1>10. CASE InsertError(q)
  <2>1. /\ Reply(q, Failed) /\ pc[q] = "insert" /\ UNCHANGED outbox
        /\ \/ UNCHANGED rows
           \/ Insertable(q) /\ rows' = [rows EXCEPT ![KeyOf(q)] = q]
    BY <1>10 DEF InsertError
  <2>2. Promised!Take(q) \/ UNCHANGED <<rows, outbox>>
    BY <2>1, InsertTakes
  <2> QED
    BY <1>2, <2>1, <2>2, FailureImplemented
<1>11. CASE SaveError(q)
  <2>1. /\ Reply(q, Failed) /\ pc[q] = "save" /\ UNCHANGED rows
        /\ outbox' = outbox \cup {q} \/ UNCHANGED outbox
    BY <1>11 DEF SaveError
  <2>2. Promised!Ask(q) \/ UNCHANGED <<rows, outbox>>
    BY <2>1, SaveAsks
  <2> QED
    BY <1>2, <2>1, <2>2, FailureImplemented
<1> QED
  BY <1>3, <1>4, <1>5, <1>6, <1>7, <1>8, <1>9, <1>10, <1>11 DEF Work, Trouble
-----------------------------------------------------------------------------
(* What follows.                                                           *)

\* The inductive invariant holds in every reachable state.
THEOREM Invariance == Spec => []IInv
BY Initially, Inductively, PTL DEF Spec

\* Every variable keeps its type: no negative amount is recorded or answered.
THEOREM TypeCorrect == Spec => []TypeOK
BY Invariance, PTL DEF IInv

\* All requests with one key that are answered with a transfer are answered
\* with the same one: each is answered with the row of its key.
THEOREM KeyNamesTransfer == Spec => []AnswersAgree
<1>1. IInv => AnswersAgree
  BY DEF IInv, RequestInv, AnswersAgree, Answered
<1> QED
  BY <1>1, Invariance, PTL

\* No key has two transfers requested.
THEOREM RequestedOnce == Spec => []OneRequestPerKey
BY Invariance, PTL DEF IInv

\* Redis serves nothing the database has not recorded and requested.
THEOREM CacheBehind == Spec => []CachedMeansRequested
BY Invariance, PTL DEF IInv

\* Statements interleaved, repeated and cut short do what a register does that
\* each key writes once: a taken key is never taken again, nothing is requested
\* but what took its key, and the one reply a client gets names what is there.
THEOREM RegisterImplemented == Spec => ImplementsRegister
<1>1. Init => Promised!Init
  BY DEF Init, Promised!Init
<1>2. IInv /\ [Next]_vars => [Promised!Next]_(Promised!vars)
  <2> SUFFICES ASSUME IInv, [Next]_vars PROVE [Promised!Next]_(Promised!vars)
    OBVIOUS
  <2>1. ASSUME NEW k \in Key, Expire(k) PROVE UNCHANGED Promised!vars
    BY <2>1 DEF Expire, Promised!vars
  <2>2. CASE UNCHANGED vars
    BY <2>2 DEF vars, Promised!vars
  <2> QED
    BY <2>1, <2>2, RequestImplemented DEF Next
<1> QED
  BY <1>1, <1>2, Invariance, PTL DEF Spec, ImplementsRegister, Promised!Spec

\* Only a request that failed or was abandoned leaves a transfer unrequested.
THEOREM StrandedByFailure == Spec => []OnlyFailuresStrand
BY Invariance, PTL DEF IInv
=============================================================================
