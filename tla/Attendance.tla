------------------------------ MODULE Attendance ------------------------------
(***************************************************************************)
(* register_attendance: a person registers for an event.  Requests of one  *)
(* person may run at once on several replicas; what they share is          *)
(*                                                                         *)
(*   in Redis      the attempt counter of the person, a lock per event,    *)
(*                 and the responses remembered by Idempotency-Key         *)
(*   in PostgreSQL the registration row of the event                       *)
(*                                                                         *)
(* All of it is kept per person, so the module follows one person, whose   *)
(* row of users stays.  Redis calls never fail a request: a call without   *)
(* an answer counts as "not limited", "not remembered", "lock not taken".  *)
(***************************************************************************)
EXTENDS Naturals

CONSTANTS Events,
          Requests,
          Keys,             \* values of the Idempotency-Key header
          Limit,            \* attempts in a minute, 10
          ProviderMayFail,  \* FALSE for the client of today, which is a stub
          None

ASSUME LimitPositive == Limit \in Nat \ {0}
ASSUME MayFailIsBoolean == ProviderMayFail \in BOOLEAN
ASSUME NoneIsNothing == None \notin Events \union Requests \union Keys

VARIABLES
  attempts,   \* ratelimit:attendance:{user}, 0 when there is no such key
  expiring,   \* that key has its TTL of a minute
  lock,       \* lock:attendance:{event}:{user}: the request that took it
  remembered, \* <<event, key>> with a remembered response
  row,        \* attendance_registrations.status, "absent" without a row
  pc,         \* where each request stands
  event, key, \* the path and the header of a request
  result,     \* what the locked part of a request came to
  reply,      \* what a request was answered last
  trouble     \* Redis and the database may fail, requests may be dropped

redisVars == <<attempts, expiring, lock, remembered>>
callVars == <<event, key, result, reply>>
vars == <<redisVars, row, pc, callVars, trouble>>

LockedPcs == {"insert", "inspect", "retake", "ask", "record", "release"}
Pcs == {"idle", "count", "expire", "lookup", "lock", "store"} \union LockedPcs
Results == {"registered", "in progress", "error"}

Init ==
    /\ attempts = 0 /\ expiring = FALSE
    /\ lock = [e \in Events |-> None]
    /\ remembered = {}
    /\ row = [e \in Events |-> "absent"]
    /\ pc = [r \in Requests |-> "idle"]
    /\ event = [r \in Requests |-> None]
    /\ key = [r \in Requests |-> None]
    /\ result = [r \in Requests |-> "error"]
    /\ reply = [r \in Requests |-> None]
    /\ trouble = TRUE

Goto(r, label) == pc' = [pc EXCEPT ![r] = label]

Answer(r, text) ==
    /\ Goto(r, "idle")
    /\ reply' = [reply EXCEPT ![r] = text]
    /\ UNCHANGED <<event, key>>

\* register_attendance_locked returns; the lock is released next.
Return(r, outcome) ==
    /\ Goto(r, "release")
    /\ result' = [result EXCEPT ![r] = outcome]
    /\ UNCHANGED <<event, key, reply>>

-----------------------------------------------------------------------------
Start(r, e, k) ==
    /\ pc[r] = "idle"
    /\ Goto(r, "count")
    /\ event' = [event EXCEPT ![r] = e]
    /\ key' = [key EXCEPT ![r] = k]
    /\ reply' = [reply EXCEPT ![r] = None]
    /\ UNCHANGED <<redisVars, row, result, trouble>>

\* INCR; counts above the limit are all the same to the handler.
CountedUp == IF attempts > Limit THEN attempts ELSE attempts + 1

Count(r) ==
    /\ pc[r] = "count"
    /\ attempts' = CountedUp
    /\ CASE attempts = 0 -> Goto(r, "expire") /\ UNCHANGED <<event, key, reply>>
         [] attempts >= Limit -> Answer(r, "too many attempts")
         [] OTHER -> Goto(r, "lookup") /\ UNCHANGED <<event, key, reply>>
    /\ UNCHANGED <<expiring, lock, remembered, row, result, trouble>>

\* The INCR was applied or not, and EXPIRE is not tried.
CountUnanswered(r) ==
    /\ trouble
    /\ pc[r] = "count"
    /\ attempts' \in {attempts, CountedUp}
    /\ Goto(r, "lookup")
    /\ UNCHANGED <<expiring, lock, remembered, row, callVars, trouble>>

\* Only the request that made the counter gives it a TTL, in a second call.
ExpireCounter(r) ==
    /\ pc[r] = "expire"
    /\ expiring' = TRUE \/ (trouble /\ UNCHANGED expiring)
    /\ Goto(r, "lookup")
    /\ UNCHANGED <<attempts, lock, remembered, row, callVars, trouble>>

WindowEnds ==
    /\ expiring
    /\ attempts' = 0 /\ expiring' = FALSE
    /\ UNCHANGED <<lock, remembered, row, pc, callVars, trouble>>

\* A response remembered for this event and key is the answer, within 24 hours.
LookUp(r) ==
    /\ pc[r] = "lookup"
    /\ \/ <<event[r], key[r]>> \in remembered /\ Answer(r, "registered")
       \/ /\ <<event[r], key[r]>> \notin remembered \/ trouble
          /\ Goto(r, "lock") /\ UNCHANGED <<event, key, reply>>
    /\ UNCHANGED <<redisVars, row, result, trouble>>

Forget(e, k) ==
    /\ <<e, k>> \in remembered
    /\ remembered' = remembered \ {<<e, k>>}
    /\ UNCHANGED <<attempts, expiring, lock, row, pc, callVars, trouble>>

\* SET key token NX EX 30
LockIgnored(e) == TRUE
LockFree(e) == lock[e] = None

TakeLock(r) ==
    /\ pc[r] = "lock"
    /\ IF LockFree(event[r])
         THEN /\ lock' = [lock EXCEPT ![event[r]] = r]
              /\ Goto(r, "insert") /\ UNCHANGED <<event, key, reply>>
         ELSE Answer(r, "in progress") /\ UNCHANGED lock
    /\ UNCHANGED <<attempts, expiring, remembered, row, result, trouble>>

\* The SET was applied or not, and counts as refused.
LockUnanswered(r) ==
    /\ trouble
    /\ pc[r] = "lock"
    /\ \/ LockFree(event[r]) /\ lock' = [lock EXCEPT ![event[r]] = r]
       \/ UNCHANGED lock
    /\ Answer(r, "in progress")
    /\ UNCHANGED <<attempts, expiring, remembered, row, result, trouble>>

\* Its TTL of 30 seconds ends no lock under a live request, which was timed
\* out 30 seconds after it arrived and took the lock later than that.
NoExpiry(e) == FALSE
Expires(e) == \A r \in Requests : ~(pc[r] \in LockedPcs /\ event[r] = e)

LockExpires(e) ==
    /\ lock[e] # None
    /\ Expires(e)
    /\ lock' = [lock EXCEPT ![e] = None]
    /\ UNCHANGED <<attempts, expiring, remembered, row, pc, callVars, trouble>>

-----------------------------------------------------------------------------
\* INSERT ... 'pending' ... ON CONFLICT (event_id, user_id) DO NOTHING
InsertRow(r) ==
    /\ pc[r] = "insert"
    /\ IF row[event[r]] = "absent"
         THEN row' = [row EXCEPT ![event[r]] = "pending"] /\ Goto(r, "ask")
         ELSE UNCHANGED row /\ Goto(r, "inspect")
    /\ UNCHANGED <<redisVars, callVars, trouble>>

Inspect(r) ==
    /\ pc[r] = "inspect"
    /\ CASE row[event[r]] = "registered" -> Return(r, "registered")
         [] row[event[r]] = "pending" -> Return(r, "in progress")
         [] OTHER -> Goto(r, "retake") /\ UNCHANGED callVars
    /\ UNCHANGED <<redisVars, row, trouble>>

\* UPDATE ... SET status = 'pending', whatever the status is by now.
Retake(r) ==
    /\ pc[r] = "retake"
    /\ row' = [row EXCEPT ![event[r]] = "pending"]
    /\ Goto(r, "ask")
    /\ UNCHANGED <<redisVars, callVars, trouble>>

Ask(r) ==
    /\ pc[r] = "ask"
    /\ \E outcome \in {"registered", "error"} :
         /\ outcome = "error" => ProviderMayFail
         /\ result' = [result EXCEPT ![r] = outcome]
    /\ Goto(r, "record")
    /\ UNCHANGED <<redisVars, row, event, key, reply, trouble>>

Record(r) ==
    /\ pc[r] = "record"
    /\ row' = [row EXCEPT ![event[r]] =
                 IF result[r] = "registered" THEN "registered" ELSE "failed"]
    /\ Goto(r, "release")
    /\ UNCHANGED <<redisVars, callVars, trouble>>

\* The ? after a statement of the locked part: the row stays as it is.
StatementFails(r) ==
    /\ trouble
    /\ pc[r] \in {"insert", "inspect", "retake", "record"}
    /\ Return(r, "error")
    /\ UNCHANGED <<redisVars, row, trouble>>

\* Only a success is remembered, and only for a request with a key.
AnyResult(r) == key[r] # None
EvenWithoutKey(r) == result[r] = "registered"
Remembers(r) == result[r] = "registered" /\ key[r] # None

\* The lock is deleted if it is still this request's own.
ReleaseLock(r) ==
    /\ pc[r] = "release"
    /\ \/ lock' = [lock EXCEPT ![event[r]] = IF @ = r THEN None ELSE @]
       \/ trouble /\ UNCHANGED lock
    /\ IF Remembers(r)
         THEN Goto(r, "store") /\ UNCHANGED <<event, key, reply>>
         ELSE Answer(r, result[r])
    /\ UNCHANGED <<attempts, expiring, remembered, row, result, trouble>>

StoreResponse(r) ==
    /\ pc[r] = "store"
    /\ \/ remembered' = remembered \union {<<event[r], key[r]>>}
       \/ trouble /\ UNCHANGED remembered
    /\ Answer(r, "registered")
    /\ UNCHANGED <<attempts, expiring, lock, row, result, trouble>>

\* The client goes away, the timeout fires or the process dies; also a failed
\* SELECT of the person, before the lock is taken.
Drop(r) ==
    /\ trouble
    /\ pc[r] # "idle"
    /\ Goto(r, "idle")
    /\ UNCHANGED <<redisVars, row, callVars, trouble>>

Recover ==
    /\ trouble
    /\ trouble' = FALSE
    /\ UNCHANGED <<redisVars, row, pc, callVars>>

RequestStep(r) ==
    \/ Count(r) \/ ExpireCounter(r) \/ LookUp(r) \/ TakeLock(r)
    \/ InsertRow(r) \/ Inspect(r) \/ Retake(r) \/ Ask(r) \/ Record(r)
    \/ ReleaseLock(r) \/ StoreResponse(r)

Next ==
    \/ \E r \in Requests :
         \/ \E e \in Events, k \in Keys \union {None} : Start(r, e, k)
         \/ RequestStep(r)
         \/ CountUnanswered(r) \/ LockUnanswered(r) \/ StatementFails(r) \/ Drop(r)
    \/ \E e \in Events : LockExpires(e)
    \/ \E e \in Events, k \in Keys : Forget(e, k)
    \/ WindowEnds \/ Recover

Spec == Init /\ [][Next]_vars

\* Redis expires its keys, the runtime carries requests on, trouble ends; that
\* a person makes or repeats a request is not assumed.
Fairness ==
    /\ WF_vars(WindowEnds) /\ WF_vars(Recover)
    /\ \A e \in Events : WF_vars(LockExpires(e))
    /\ \A r \in Requests : WF_vars(RequestStep(r))

LiveSpec == Spec /\ Fairness

-----------------------------------------------------------------------------
\* Every variable holds what its key, column or local variable can hold.
TypeOK ==
    /\ attempts \in 0..(Limit + 1)
    /\ expiring \in BOOLEAN
    /\ lock \in [Events -> Requests \union {None}]
    /\ remembered \subseteq Events \X Keys
    /\ row \in [Events -> {"absent", "pending", "registered", "failed"}]
    /\ pc \in [Requests -> Pcs]
    /\ event \in [Requests -> Events \union {None}]
    /\ key \in [Requests -> Keys \union {None}]
    /\ \A r \in Requests : pc[r] # "idle" => event[r] \in Events
    /\ \A r \in Requests : pc[r] = "store" => key[r] \in Keys
    /\ result \in [Requests -> Results]
    /\ reply \in [Requests -> Results \union {None, "too many attempts"}]
    /\ trouble \in BOOLEAN

\* One request at a time registers the person for an event, although the lock
\* and the row live in two stores and either may fail or be left behind.
OneAtATime ==
    \A q, r \in Requests :
        pc[q] \in LockedPcs /\ pc[r] \in LockedPcs /\ event[q] = event[r] => q = r

\* A registration that succeeded is never reopened: the unconditional UPDATEs
\* of a retry only ever meet a row that failed.
RegisteredStays ==
    [][\A e \in Events : row[e] = "registered" => row'[e] = "registered"]_vars

\* A remembered response, which is replayed for a day without a look at the
\* table, says what the table says.
ReplaysAreTrue == \A x \in remembered : row[x[1]] = "registered"

\* A lock that a dropped request or a failed call left behind goes away.
LockFreed == \A e \in Events : lock[e] # None ~> lock[e] = None

\* Who is told that the registration is in progress, because its row is still
\* pending, has lost a race to a request that is at work on it.
InProgressIsTrue ==
    [][\A r \in Requests :
          pc[r] = "inspect" /\ pc'[r] = "release" /\ result'[r] = "in progress"
             => \E q \in Requests \ {r} :
                    event[q] = event[r] /\ pc[q] \in LockedPcs]_vars
=============================================================================
