-------------------------- MODULE TransferRequests --------------------------
(***************************************************************************)
(* The accepting half of the transfer-service: POST /transfers, that is    *)
(* CreateTransfer over the table transfers, the outbox and the idempotency *)
(* cache in Redis.  A client that retries sends a new request with the key *)
(* of the old one; all requests are served concurrently, by one instance   *)
(* or several.                                                             *)
(*                                                                         *)
(* A request creates at most one transfer, so the request also names it.   *)
(***************************************************************************)
EXTENDS Numeric, Integers

CONSTANTS
  Request,
  Key,          \* idempotency keys
  Party,        \* account ids
  Order,        \* Order[q]: what request q asks for
  Fault,        \* what may go wrong: a subset of Faults
  None,         \* no row, no cache entry, no reply yet
  Refused,      \* reply: 422, an order NewTransfer does not accept
  Failed,       \* reply: 500
  Gone          \* no reply: the client left or the process died

Faults == {"dbError", "redisError", "abandon"}

Orders == [key : Key, source : Party, dest : Party, amount : Int]

\* A reply that names a transfer and its amount.
Answer == [id : Request, amount : Nat]

NoAnswer == {None, Refused, Failed, Gone}

ASSUME RequestAssumption ==
  /\ Order \in [Request -> Orders]
  /\ Fault \subseteq Faults
  /\ NoAnswer \cap (Answer \cup Request) = {}
  /\ None \notin {Refused, Failed, Gone}

VARIABLES
  pc,       \* pc[q]: the statement the handler of q issues next
  reply,    \* reply[q]
  rows,     \* table transfers by its UNIQUE column: the transfer of each key
  cache,    \* Redis: the transfer serialized under each key
  outbox    \* transfers with an event of topic transfers.requested

vars == <<pc, reply, rows, cache, outbox>>

Stage == {"getCache", "getRow", "insert", "save", "setCache", "done"}

KeyOf(q) == Order[q].key

\* Transfer q as the service made it, and as the table holds it.
Made(q) == [id |-> q, amount |-> Order[q].amount]
Recorded(q) == [id |-> q, amount |-> Stored(Order[q].amount)]

\* Wrong: only a zero amount is refused.
InvalidIfZero(q) == Order[q].amount = 0 \/ Order[q].source = Order[q].dest

\* NewTransfer.
Invalid(q) == Order[q].amount <= 0 \/ Order[q].source = Order[q].dest

Init ==
  /\ pc = [q \in Request |-> "getCache"]
  /\ reply = [q \in Request |-> None]
  /\ rows = [k \in Key |-> None]
  /\ cache = [k \in Key |-> None]
  /\ outbox = {}

Goto(q, stage) == pc' = [pc EXCEPT ![q] = stage] /\ UNCHANGED reply

Reply(q, r) ==
  /\ pc' = [pc EXCEPT ![q] = "done"]
  /\ reply' = [reply EXCEPT ![q] = r]
-----------------------------------------------------------------------------
(* CreateTransfer, one action per statement.                               *)

\* Wrong: a hit is answered with the amount of the request at hand.
CachedEchoed(q) ==
  /\ pc[q] = "getCache"
  /\ cache[KeyOf(q)] # None
  /\ Reply(q, [Made(cache[KeyOf(q)]) EXCEPT !.amount = Order[q].amount])
  /\ UNCHANGED <<rows, cache, outbox>>

GetCached(q) ==
  /\ pc[q] = "getCache"
  /\ cache[KeyOf(q)] # None
  /\ Reply(q, Made(cache[KeyOf(q)]))
  /\ UNCHANGED <<rows, cache, outbox>>

\* An error of Redis counts as a miss.
CacheMissed(q) ==
  /\ pc[q] = "getCache"
  /\ cache[KeyOf(q)] = None \/ "redisError" \in Fault
  /\ Goto(q, "getRow")
  /\ UNCHANGED <<rows, cache, outbox>>

GetRow(q) ==
  /\ pc[q] = "getRow"
  /\ LET row == rows[KeyOf(q)] IN
       IF row # None THEN Reply(q, Recorded(row))
       ELSE IF Invalid(q) THEN Reply(q, Refused)
       ELSE Goto(q, "insert")
  /\ UNCHANGED <<rows, cache, outbox>>

\* Wrong: the column idempotency_key is not UNIQUE, the later row hides the
\* earlier one.
InsertableTwice(q) == Fits(Order[q].amount)

\* The INSERT violates no constraint and the amount fits its column.
Insertable(q) == rows[KeyOf(q)] = None /\ Fits(Order[q].amount)

\* Wrong: the transfer is created and answered, its event forgotten.
InsertOnly(q) ==
  /\ pc[q] = "insert"
  /\ Insertable(q)
  /\ rows' = [rows EXCEPT ![KeyOf(q)] = q]
  /\ Goto(q, "setCache")
  /\ UNCHANGED <<cache, outbox>>

Insert(q) ==
  /\ pc[q] = "insert"
  /\ Insertable(q)
  /\ rows' = [rows EXCEPT ![KeyOf(q)] = q]
  /\ Goto(q, "save")
  /\ UNCHANGED <<cache, outbox>>

\* Wrong: ON CONFLICT DO NOTHING, and nobody counts the rows.
ConflictIgnored(q) ==
  /\ pc[q] = "insert"
  /\ ~Insertable(q)
  /\ Goto(q, "save")
  /\ UNCHANGED <<rows, cache, outbox>>

InsertRefused(q) ==
  /\ pc[q] = "insert"
  /\ ~Insertable(q)
  /\ Reply(q, Failed)
  /\ UNCHANGED <<rows, cache, outbox>>

SaveEvent(q) ==
  /\ pc[q] = "save"
  /\ outbox' = outbox \cup {q}
  /\ Goto(q, "setCache")
  /\ UNCHANGED <<rows, cache>>

\* The error of Set is ignored; it may have taken effect.
SetCache(q) ==
  /\ pc[q] = "setCache"
  /\ \/ cache' = [cache EXCEPT ![KeyOf(q)] = q]
     \/ "redisError" \in Fault /\ UNCHANGED cache
  /\ Reply(q, Made(q))
  /\ UNCHANGED <<rows, outbox>>
-----------------------------------------------------------------------------
(* What goes wrong outside.  A write that reports an error may or may not  *)
(* have taken effect.                                                      *)

ReadError(q) ==
  /\ "dbError" \in Fault
  /\ pc[q] = "getRow"
  /\ Reply(q, Failed)
  /\ UNCHANGED <<rows, cache, outbox>>

InsertError(q) ==
  /\ "dbError" \in Fault
  /\ pc[q] = "insert"
  /\ \/ UNCHANGED rows
     \/ Insertable(q) /\ rows' = [rows EXCEPT ![KeyOf(q)] = q]
  /\ Reply(q, Failed)
  /\ UNCHANGED <<cache, outbox>>

\* Wrong: the error of SaveEvent is logged and forgotten.
SaveErrorIgnored(q) ==
  /\ "dbError" \in Fault
  /\ pc[q] = "save"
  /\ outbox' \in {outbox, outbox \cup {q}}
  /\ Goto(q, "setCache")
  /\ UNCHANGED <<rows, cache>>

SaveError(q) ==
  /\ "dbError" \in Fault
  /\ pc[q] = "save"
  /\ outbox' \in {outbox, outbox \cup {q}}
  /\ Reply(q, Failed)
  /\ UNCHANGED <<rows, cache>>

\* The process dies, or the client goes away and r.Context() is cancelled.
Abandon(q) ==
  /\ "abandon" \in Fault
  /\ pc[q] # "done"
  /\ Reply(q, Gone)
  /\ UNCHANGED <<rows, cache, outbox>>

\* After 24 hours, or earlier when Redis is short of memory or restarts.
Expire(k) ==
  /\ cache[k] # None
  /\ cache' = [cache EXCEPT ![k] = None]
  /\ UNCHANGED <<pc, reply, rows, outbox>>
-----------------------------------------------------------------------------
Work(q) ==
  \/ GetCached(q) \/ CacheMissed(q) \/ GetRow(q)
  \/ Insert(q) \/ InsertRefused(q) \/ SaveEvent(q) \/ SetCache(q)

Trouble(q) == ReadError(q) \/ InsertError(q) \/ SaveError(q) \/ Abandon(q)

Next ==
  \/ \E q \in Request : Work(q) \/ Trouble(q)
  \/ \E k \in Key : Expire(k)

\* A request may also never be made: its handler then takes no step.
Spec == Init /\ [][Next]_vars

\* The handler of a request that is being served runs to its end.
Fairness == \A q \in Request : WF_vars(pc[q] # "getCache" /\ Work(q))

LiveSpec == Spec /\ Fairness
-----------------------------------------------------------------------------
TypeOK ==
  /\ pc \in [Request -> Stage]
  /\ reply \in [Request -> Answer \cup NoAnswer]
  /\ rows \in [Key -> Request \cup {None}]
  /\ cache \in [Key -> Request \cup {None}]
  /\ outbox \subseteq Request

Answered == {q \in Request : reply[q] \in Answer}

\* A key stands for one transfer: whatever requests carry it, however they
\* overlap and whether they find it in Redis, in the table or create it, all
\* that are answered with a transfer are answered with the same one.
AnswersAgree ==
  \A p, q \in Answered : KeyOf(p) = KeyOf(q) => reply[p].id = reply[q].id

\* A key moves money once: no two transfers of a key are requested, and what
\* is requested is the transfer in the table, so that its outcome finds a row.
OneRequestPerKey == \A q \in outbox : rows[KeyOf(q)] = q

\* Redis never runs ahead of the database: what is served from the cache has
\* been recorded and requested, and is what the table would have served.
CachedMeansRequested ==
  \A k \in Key : cache[k] # None => rows[k] = cache[k] /\ cache[k] \in outbox

\* Row and event are written by two statements.  A transfer in the table that
\* is not requested is being worked on, or the request that made it got an
\* error or no reply at all; it never was reported to that client as accepted.
Stranded(q) == rows[KeyOf(q)] = q /\ q \notin outbox

OnlyFailuresStrand ==
  \A q \in Request : Stranded(q) => pc[q] = "save" \/ reply[q] \in {Failed, Gone}

\* A transfer in the table gets requested, unless its own request failed.
EveryRowRequested ==
  \A q \in Request : Stranded(q) ~> q \in outbox \/ reply[q] \in {Failed, Gone}

\* Statement by statement, with a cache that may forget and requests that
\* overlap, are repeated, fail and are cut short, the service does what a register
\* does that each key writes once, and tells every client what is in it.
Promised == INSTANCE KeyRegister WITH taken <- rows, requested <- outbox

ImplementsRegister == Promised!Spec

\* "Outbox events are saved in the same local database transaction" and "safe
\* to retry": when a client is answered with a transfer, the transfer has been
\* requested or the request that made it is about to.
AcceptedMeansRequested ==
  \A q \in Answered : reply[q].id \in outbox \/ pc[reply[q].id] = "save"
-----------------------------------------------------------------------------
(* Why it is: the inductive invariant behind the safety properties.        *)

RowsValid == \A k \in Key : rows[k] # None => ~Invalid(rows[k])

\* What the place of a handler, and its reply, say of the tables.
RequestInv(q) ==
  /\ pc[q] # "done" => reply[q] = None
  /\ pc[q] \in {"insert", "save", "setCache"} => ~Invalid(q)
  /\ pc[q] = "save" => rows[KeyOf(q)] = q
  /\ pc[q] = "setCache" => q \in outbox
  /\ q \in Answered => rows[KeyOf(q)] = reply[q].id

IInv ==
  /\ TypeOK
  /\ RowsValid
  /\ OneRequestPerKey
  /\ CachedMeansRequested
  /\ OnlyFailuresStrand
  /\ \A q \in Request : RequestInv(q)
=============================================================================
