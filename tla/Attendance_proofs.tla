-------------------------- MODULE Attendance_proofs --------------------------
(***************************************************************************)
(* Theorems about Attendance, for any set of events, requests and keys.    *)
(* The argument rests on one fact: a request in the locked part holds the  *)
(* lock of its event.  From it, what the request has read of the row and   *)
(* what it knows of the provider's answer stays true until it writes.      *)
(***************************************************************************)
EXTENDS Attendance, TLAPS

\* The first state is well typed.
LEMMA TypeInit == Init => TypeOK
<1> SUFFICES ASSUME Init PROVE TypeOK
  OBVIOUS
<1>1. attempts \in 0..(Limit + 1)
  BY LimitPositive DEF Init
<1>2. QED
  BY <1>1 DEF Init, TypeOK, Results, Pcs, LockedPcs

\* The counter stays within what the handler tells apart.
LEMMA CountBounded ==
  ASSUME attempts \in 0..(Limit + 1)
  PROVE  CountedUp \in 0..(Limit + 1) /\ 0 \in 0..(Limit + 1)
  BY LimitPositive DEF CountedUp

\* Every step keeps the types.
LEMMA TypeStep == TypeOK /\ [Next]_vars => TypeOK'
<1> SUFFICES ASSUME TypeOK, [Next]_vars PROVE TypeOK'
  OBVIOUS
<1>0. CountedUp \in 0..(Limit + 1) /\ 0 \in 0..(Limit + 1)
  BY CountBounded DEF TypeOK
<1> USE NoneIsNothing DEF TypeOK, Pcs, LockedPcs, Results
<1>1. ASSUME NEW r \in Requests, NEW e \in Events, NEW k \in Keys \union {None},
             Start(r, e, k)
      PROVE  TypeOK'
  BY <1>1 DEF Start, Goto, redisVars
<1>2. ASSUME NEW r \in Requests, RequestStep(r) PROVE TypeOK'
  <2>1. CASE Count(r)
    BY <1>0, <2>1, ZenonT(60) DEF Count, Goto, Answer
  <2>2. CASE ExpireCounter(r)
    BY <2>2 DEF ExpireCounter, Goto, callVars
  <2>3. CASE LookUp(r)
    <3>1. pc[r] = "lookup" /\ UNCHANGED <<redisVars, row, result, trouble, event, key>>
      BY <2>3 DEF LookUp, Answer
    <3>2. CASE Answer(r, "registered")
      BY <3>1, <3>2 DEF Answer, Goto, redisVars
    <3>3. CASE Goto(r, "lock") /\ UNCHANGED reply
      BY <3>1, <3>3 DEF Goto, redisVars
    <3>4. QED BY <2>3, <3>2, <3>3 DEF LookUp
  <2>4. CASE TakeLock(r)
    <3>1. /\ pc[r] = "lock" /\ event[r] \in Events
          /\ UNCHANGED <<attempts, expiring, remembered, row, result, trouble, event, key>>
      BY <2>4 DEF TakeLock, Answer
    <3>2. CASE LockFree(event[r])
      <4>1. lock' \in [Events -> Requests \union {None}] /\ reply' = reply
        BY <2>4, <3>1, <3>2 DEF TakeLock
      <4>2. pc' \in [Requests -> Pcs] /\ pc' = [pc EXCEPT ![r] = "insert"]
        BY <2>4, <3>2 DEF TakeLock, Goto
      <4>3. QED BY <3>1, <4>1, <4>2
    <3>3. CASE ~LockFree(event[r])
      BY <2>4, <3>1, <3>3, ZenonT(60) DEF TakeLock, Goto, Answer
    <3>4. QED BY <3>2, <3>3
  <2>5. CASE InsertRow(r)
    BY <2>5, ZenonT(60) DEF InsertRow, Goto, redisVars, callVars
  <2>6. CASE Inspect(r)
    BY <2>6, ZenonT(60) DEF Inspect, Goto, Return, redisVars, callVars
  <2>7. CASE Retake(r)
    BY <2>7 DEF Retake, Goto, redisVars, callVars
  <2>8. CASE Ask(r)
    BY <2>8, ZenonT(60) DEF Ask, Goto, redisVars
  <2>9. CASE Record(r)
    BY <2>9 DEF Record, Goto, redisVars, callVars
  <2>10. CASE ReleaseLock(r)
    <3>1. lock' \in [Events -> Requests \union {None}]
      BY <2>10 DEF ReleaseLock
    <3>2. /\ pc[r] = "release"
          /\ UNCHANGED <<attempts, expiring, remembered, row, result, trouble, event, key>>
      BY <2>10 DEF ReleaseLock, Answer
    <3>3. CASE Remembers(r)
      BY <2>10, <3>1, <3>2, <3>3 DEF ReleaseLock, Remembers, Goto
    <3>4. CASE ~Remembers(r)
      BY <2>10, <3>1, <3>2, <3>4, ZenonT(60) DEF ReleaseLock, Goto, Answer
    <3>5. QED BY <3>3, <3>4
  <2>11. CASE StoreResponse(r)
    <3>1. remembered' \subseteq Events \X Keys
      <4>1. <<event[r], key[r]>> \in Events \X Keys
        BY <2>11 DEF StoreResponse
      <4>2. remembered' = remembered \/ remembered' = remembered \union {<<event[r], key[r]>>}
        BY <2>11 DEF StoreResponse
      <4>3. QED BY <4>1, <4>2
    <3>2. QED BY <2>11, <3>1 DEF StoreResponse, Goto, Answer
  <2>12. QED
    BY <1>2, <2>1, <2>2, <2>3, <2>4, <2>5, <2>6, <2>7, <2>8, <2>9, <2>10, <2>11
       DEF RequestStep
<1>3. ASSUME NEW r \in Requests, CountUnanswered(r) PROVE TypeOK'
  BY <1>0, <1>3 DEF CountUnanswered, Goto, callVars
<1>4. ASSUME NEW r \in Requests, LockUnanswered(r) PROVE TypeOK'
  BY <1>4, ZenonT(60) DEF LockUnanswered, Goto, Answer
<1>5. ASSUME NEW r \in Requests, StatementFails(r) PROVE TypeOK'
  BY <1>5 DEF StatementFails, Goto, Return, redisVars
<1>6. ASSUME NEW r \in Requests, Drop(r) PROVE TypeOK'
  BY <1>6 DEF Drop, Goto, redisVars, callVars
<1>7. ASSUME NEW e \in Events, LockExpires(e) PROVE TypeOK'
  BY <1>7 DEF LockExpires, callVars
<1>8. ASSUME NEW e \in Events, NEW k \in Keys, Forget(e, k) PROVE TypeOK'
  BY <1>8 DEF Forget, callVars
<1>9. CASE WindowEnds
  BY <1>0, <1>9 DEF WindowEnds, callVars
<1>10. CASE Recover \/ UNCHANGED vars
  BY <1>10 DEF Recover, redisVars, callVars, vars
<1>11. QED
  BY <1>1, <1>2, <1>3, <1>4, <1>5, <1>6, <1>7, <1>8, <1>9, <1>10 DEF Next

\* Every variable holds what its key, column or local variable can hold.
THEOREM TypeCorrect == Spec => []TypeOK
  BY TypeInit, TypeStep, PTL DEF Spec

-----------------------------------------------------------------------------
(* The inductive invariant.                                                *)

\* A request in the locked part holds the lock of its event.
Holds == \A r \in Requests : pc[r] \in LockedPcs => lock[event[r]] = r

\* What a request in the locked part knows of the row is still so.
Knows ==
    \A r \in Requests :
        /\ pc[r] = "inspect" => row[event[r]] # "absent"
        /\ pc[r] = "retake" => row[event[r]] = "failed"
        /\ pc[r] \in {"ask", "record"} => row[event[r]] = "pending"

\* A success that is yet to be answered is in the table.
Succeeded ==
    \A r \in Requests : pc[r] \in {"release", "store"} =>
        (result[r] = "registered" => row[event[r]] = "registered")

\* Only successes get as far as being remembered.
StoresSuccess == \A r \in Requests : pc[r] = "store" => result[r] = "registered"

LockInv == TypeOK /\ Holds /\ Knows /\ Succeeded /\ StoresSuccess /\ ReplaysAreTrue

\* A request that holds the lock of its event is alone with the event.
LEMMA Alone == TypeOK /\ Holds => OneAtATime
  BY DEF TypeOK, Holds, OneAtATime

\* Nothing is locked, known or remembered at first.
LEMMA LockInit == Init => Holds /\ Knows /\ Succeeded /\ StoresSuccess /\ ReplaysAreTrue
  BY DEF Init, Holds, Knows, Succeeded, StoresSuccess, ReplaysAreTrue, LockedPcs

\* Who takes the lock finds nobody in the locked part; who leaves it, or lets
\* the lock expire, disturbs nobody else.
LEMMA HoldsStep == TypeOK /\ Holds /\ [Next]_vars => Holds'
<1> SUFFICES ASSUME TypeOK, Holds, [Next]_vars,
                    NEW q \in Requests, pc'[q] \in LockedPcs
             PROVE  lock'[event'[q]] = q
  BY DEF Holds
<1> USE NoneIsNothing DEF TypeOK, Holds, LockedPcs
<1>1. ASSUME NEW r \in Requests, NEW e \in Events, NEW k \in Keys \union {None},
             Start(r, e, k)
      PROVE  lock'[event'[q]] = q
  BY <1>1 DEF Start, Goto, redisVars
<1>2. ASSUME NEW r \in Requests, TakeLock(r) PROVE lock'[event'[q]] = q
  <2>1. CASE LockFree(event[r])
    <3>1. /\ event[r] \in Events /\ lock[event[r]] = None
          /\ lock' = [lock EXCEPT ![event[r]] = r]
          /\ pc' = [pc EXCEPT ![r] = "insert"]
          /\ event' = event
      BY <1>2, <2>1 DEF TakeLock, LockFree, Goto
    <3>2. CASE q = r
      BY <3>1, <3>2
    <3>3. CASE q # r
      <4>1. lock[event[q]] = q /\ event[q] \in Events
        BY <3>1, <3>3
      <4>2. QED BY <3>1, <3>3, <4>1
    <3>4. QED BY <3>2, <3>3
  <2>2. CASE ~LockFree(event[r])
    BY <1>2, <2>2 DEF TakeLock, Goto, Answer
  <2>3. QED BY <2>1, <2>2
<1>3. ASSUME NEW r \in Requests, LockUnanswered(r) PROVE lock'[event'[q]] = q
  BY <1>3 DEF LockUnanswered, LockFree, Goto, Answer
<1>4. ASSUME NEW r \in Requests, ReleaseLock(r) PROVE lock'[event'[q]] = q
  <2>0. \E label \in {"store", "idle"} : Goto(r, label)
    BY <1>4 DEF ReleaseLock, Answer
  <2>1. /\ q # r /\ pc'[q] = pc[q] /\ event' = event
        /\ lock' \in {lock, [lock EXCEPT ![event[r]] = IF @ = r THEN None ELSE @]}
    <3>1. q # r /\ pc'[q] = pc[q]
      BY <2>0 DEF Goto
    <3>2. event' = event
      BY <1>4 DEF ReleaseLock, Answer
    <3>3. lock' \in {lock, [lock EXCEPT ![event[r]] = IF @ = r THEN None ELSE @]}
      BY <1>4 DEF ReleaseLock
    <3>4. QED BY <3>1, <3>2, <3>3
  <2>2. lock[event[q]] = q /\ lock[event[r]] = r
    BY <1>4, <2>1 DEF ReleaseLock
  <2>3. QED BY <1>4, <2>1, <2>2 DEF ReleaseLock
<1>5. ASSUME NEW e \in Events, LockExpires(e) PROVE lock'[event'[q]] = q
  BY <1>5 DEF LockExpires, Expires, callVars
<1>6. ASSUME NEW r \in Requests,
             \/ InsertRow(r) \/ Inspect(r) \/ Retake(r) \/ Ask(r) \/ Record(r)
             \/ StatementFails(r)
      PROVE  lock'[event'[q]] = q
  <2>1. pc[r] \in LockedPcs /\ UNCHANGED <<lock, event>>
    BY <1>6 DEF InsertRow, Inspect, Retake, Ask, Record, StatementFails, Return,
                redisVars, callVars
  <2>2. \A p \in Requests \ {r} : pc'[p] = pc[p]
    BY <1>6, ZenonT(60) DEF InsertRow, Inspect, Retake, Ask, Record, StatementFails, Return, Goto
  <2>3. QED BY <2>1, <2>2
<1>7. ASSUME NEW r \in Requests,
             \/ Count(r) \/ CountUnanswered(r) \/ ExpireCounter(r) \/ LookUp(r)
             \/ StoreResponse(r) \/ Drop(r)
      PROVE  lock'[event'[q]] = q
  <2>1. UNCHANGED <<lock, event>>
    BY <1>7 DEF Count, CountUnanswered, ExpireCounter, LookUp, StoreResponse, Drop,
                Answer, redisVars, callVars
  <2>2. \E label \in {"idle", "expire", "lookup", "lock"} : Goto(r, label)
    BY <1>7 DEF Count, CountUnanswered, ExpireCounter, LookUp, StoreResponse, Drop,
                Answer
  <2>3. pc[q] \in LockedPcs
    BY <2>2 DEF Goto
  <2>4. QED BY <2>1, <2>3
<1>8. CASE \/ \E e \in Events, k \in Keys : Forget(e, k)
           \/ WindowEnds \/ Recover \/ UNCHANGED vars
  BY <1>8 DEF Forget, WindowEnds, Recover, vars, redisVars, callVars
<1>9. QED
  BY <1>1, <1>2, <1>3, <1>4, <1>5, <1>6, <1>7, <1>8 DEF Next, RequestStep

\* Under the invariant a step can reopen no registration that succeeded.
LEMMA RegisteredStep ==
  ASSUME LockInv, [Next]_vars, NEW e \in Events, row[e] = "registered"
  PROVE  row'[e] = "registered"
<1>1. ASSUME NEW r \in Requests, InsertRow(r) \/ Retake(r) \/ Record(r)
      PROVE  row'[e] = "registered"
  BY <1>1 DEF InsertRow, Retake, Record, LockInv, TypeOK, Knows
<1>2. CASE UNCHANGED row
  BY <1>2
<1>3. QED
  BY <1>1, <1>2
  DEF Next, RequestStep, vars, redisVars, callVars, Start, Count, CountUnanswered,
      ExpireCounter, LookUp, TakeLock, LockUnanswered, Inspect, StatementFails, Ask,
      ReleaseLock, StoreResponse, Drop, LockExpires, Forget, WindowEnds, Recover

\* Only the request that is alone with an event writes its row.
LEMMA RowWriter ==
  ASSUME LockInv, [Next]_vars, NEW q \in Requests, pc[q] \in LockedPcs,
         row'[event[q]] # row[event[q]]
  PROVE  InsertRow(q) \/ Retake(q) \/ Record(q)
<1>1. PICK r \in Requests : InsertRow(r) \/ Retake(r) \/ Record(r)
  BY DEF Next, RequestStep, vars, redisVars, callVars, Start, Count, CountUnanswered,
         ExpireCounter, LookUp, TakeLock, LockUnanswered, Inspect, StatementFails, Ask,
         ReleaseLock, StoreResponse, Drop, LockExpires, Forget, WindowEnds, Recover
<1>2. pc[r] \in LockedPcs /\ event[r] = event[q]
  <2>1. pc[r] \in LockedPcs
    BY <1>1 DEF InsertRow, Retake, Record, LockedPcs
  <2>2. \A e \in Events \ {event[r]} : row'[e] = row[e]
    BY <1>1 DEF InsertRow, Retake, Record, LockInv, TypeOK
  <2>3. event[q] \in Events
    BY DEF LockInv, TypeOK, LockedPcs
  <2>4. QED BY <2>1, <2>2, <2>3
<1>3. QED BY <1>1, <1>2, Alone DEF LockInv, OneAtATime

\* A step of one request is no step of another.
LEMMA OthersStand ==
  ASSUME TypeOK, NEW q \in Requests, NEW r \in Requests, r # q,
         \/ RequestStep(r)
         \/ CountUnanswered(r) \/ LockUnanswered(r) \/ StatementFails(r) \/ Drop(r)
  PROVE  pc'[q] = pc[q] /\ event'[q] = event[q] /\ result'[q] = result[q]
<1>1. \E label : Goto(r, label)
  BY DEF RequestStep, Count, ExpireCounter, LookUp, TakeLock, InsertRow, Inspect, Retake,
         Ask, Record, ReleaseLock, StoreResponse, CountUnanswered, LockUnanswered,
         StatementFails, Drop, Answer, Return
<1>2. event' = event
  BY DEF RequestStep, Count, ExpireCounter, LookUp, TakeLock, InsertRow, Inspect, Retake,
         Ask, Record, ReleaseLock, StoreResponse, CountUnanswered, LockUnanswered,
         StatementFails, Drop, Answer, Return, callVars
<1>3. result' = result \/ \E outcome : result' = [result EXCEPT ![r] = outcome]
  BY DEF RequestStep, Count, ExpireCounter, LookUp, TakeLock, InsertRow, Inspect, Retake,
         Ask, Record, ReleaseLock, StoreResponse, CountUnanswered, LockUnanswered,
         StatementFails, Drop, Answer, Return, callVars
<1>4. pc'[q] = pc[q]
  BY <1>1 DEF Goto, TypeOK
<1>5. result'[q] = result[q]
  BY <1>3 DEF TypeOK
<1>6. QED BY <1>2, <1>4, <1>5

\* What a request knows of the row is read under the lock, and kept by it.
LEMMA KnowsStep == LockInv /\ [Next]_vars => Knows'
<1> SUFFICES ASSUME LockInv, [Next]_vars, NEW q \in Requests,
                    pc'[q] \in {"inspect", "retake", "ask", "record"}
             PROVE  /\ pc'[q] = "inspect" => row'[event'[q]] # "absent"
                    /\ pc'[q] = "retake" => row'[event'[q]] = "failed"
                    /\ pc'[q] \in {"ask", "record"} => row'[event'[q]] = "pending"
  BY DEF Knows
<1>1. CASE InsertRow(q) \/ Inspect(q) \/ Retake(q) \/ Ask(q)
  <2>1. CASE InsertRow(q)
    BY <2>1 DEF InsertRow, Goto, LockInv, TypeOK, callVars
  <2>2. CASE Inspect(q)
    <3>1. row[event[q]] = "failed" /\ UNCHANGED <<row, event>> /\ pc'[q] = "retake"
      <4>1. event[q] \in Events /\ row[event[q]] \in {"absent", "pending", "registered", "failed"}
        BY <2>2 DEF Inspect, LockInv, TypeOK
      <4>2. ~Return(q, "registered") /\ ~Return(q, "in progress")
        BY DEF Return, Goto, LockInv, TypeOK
      <4>3. row[event[q]] # "registered" /\ row[event[q]] # "pending" /\ Goto(q, "retake")
            /\ UNCHANGED <<row, event>>
        BY <2>2, <4>2 DEF Inspect, callVars
      <4>4. row[event[q]] # "absent"
        BY <2>2 DEF Inspect, LockInv, Knows
      <4>5. QED BY <4>1, <4>3, <4>4 DEF Goto, LockInv, TypeOK
    <3>2. QED BY <3>1
  <2>3. CASE Retake(q)
    BY <2>3 DEF Retake, Goto, LockInv, TypeOK, callVars
  <2>4. CASE Ask(q)
    BY <2>4 DEF Ask, Goto, LockInv, TypeOK, Knows
  <2>5. QED BY <1>1, <2>1, <2>2, <2>3, <2>4
<1>2. CASE ~(InsertRow(q) \/ Inspect(q) \/ Retake(q) \/ Ask(q))
  <2>1. pc'[q] = pc[q] /\ event'[q] = event[q]
    <3>2. ASSUME NEW r \in Requests, NEW e \in Events, NEW k \in Keys \union {None},
                 Start(r, e, k)
          PROVE  pc'[q] = pc[q] /\ event'[q] = event[q]
      BY <3>2 DEF Start, Goto, LockInv, TypeOK
    <3>3. ASSUME NEW r \in Requests, r # q,
                 \/ RequestStep(r)
                 \/ CountUnanswered(r) \/ LockUnanswered(r) \/ StatementFails(r) \/ Drop(r)
          PROVE  pc'[q] = pc[q] /\ event'[q] = event[q]
      BY <3>3, OthersStand DEF LockInv
    <3>5. ASSUME Count(q) \/ ExpireCounter(q) \/ LookUp(q) \/ TakeLock(q) \/ Record(q)
                 \/ ReleaseLock(q) \/ StoreResponse(q) \/ CountUnanswered(q)
                 \/ LockUnanswered(q) \/ StatementFails(q) \/ Drop(q)
          PROVE  FALSE
      <4>1. \E label \in Pcs \ {"inspect", "retake", "ask", "record"} : Goto(q, label)
        BY <3>5 DEF Count, ExpireCounter, LookUp, TakeLock, Record, ReleaseLock,
             StoreResponse, CountUnanswered, LockUnanswered, StatementFails, Drop,
             Answer, Return, Pcs, LockedPcs
      <4>2. QED BY <4>1 DEF Goto, LockInv, TypeOK
    <3>6. CASE \/ \E e \in Events : LockExpires(e)
               \/ \E e \in Events, k \in Keys : Forget(e, k)
               \/ WindowEnds \/ Recover \/ UNCHANGED vars
      BY <3>6 DEF LockExpires, Forget, WindowEnds, Recover, vars, callVars
    <3>7. QED
      BY <1>2, <3>2, <3>3, <3>5, <3>6 DEF Next, RequestStep
  <2>2. pc[q] \in LockedPcs
    BY <2>1 DEF LockedPcs
  <2>3. ~Record(q)
    BY <2>1 DEF Record, Goto, LockInv, TypeOK
  <2>4. row'[event[q]] = row[event[q]]
    BY <1>2, <2>2, <2>3, RowWriter
  <2>5. QED BY <2>1, <2>4 DEF LockInv, Knows
<1>3. QED BY <1>1, <1>2

\* A success comes from the record of one's own row, or from reading it.
LEMMA SucceededStep == LockInv /\ [Next]_vars => Succeeded' /\ StoresSuccess'
<1> SUFFICES ASSUME LockInv, [Next]_vars, NEW q \in Requests,
                    pc'[q] \in {"release", "store"}
             PROVE  /\ result'[q] = "registered" => row'[event'[q]] = "registered"
                    /\ pc'[q] = "store" => result'[q] = "registered"
  BY DEF Succeeded, StoresSuccess
<1>1. CASE Inspect(q)
  BY <1>1 DEF Inspect, Goto, Return, LockInv, TypeOK
<1>2. CASE Record(q)
  BY <1>2 DEF Record, Goto, LockInv, TypeOK, callVars
<1>3. CASE StatementFails(q)
  BY <1>3 DEF StatementFails, Goto, Return, LockInv, TypeOK
<1>4. CASE ReleaseLock(q)
  <2>1. pc[q] = "release" /\ UNCHANGED <<row, result, event>>
    BY <1>4 DEF ReleaseLock, Answer
  <2>2. Remembers(q)
    BY <1>4 DEF ReleaseLock, Answer, Goto, LockInv, TypeOK
  <2>3. QED BY <2>1, <2>2 DEF Remembers, LockInv, Succeeded
<1>5. CASE ~(Inspect(q) \/ Record(q) \/ StatementFails(q) \/ ReleaseLock(q))
  <2>1. pc'[q] = pc[q] /\ event'[q] = event[q] /\ result'[q] = result[q]
    <3>1. ASSUME NEW r \in Requests, NEW e \in Events, NEW k \in Keys \union {None},
                 Start(r, e, k)
          PROVE  pc'[q] = pc[q] /\ event'[q] = event[q] /\ result'[q] = result[q]
      BY <3>1 DEF Start, Goto, LockInv, TypeOK
    <3>2. ASSUME NEW r \in Requests, r # q,
                 \/ RequestStep(r)
                 \/ CountUnanswered(r) \/ LockUnanswered(r) \/ StatementFails(r) \/ Drop(r)
          PROVE  pc'[q] = pc[q] /\ event'[q] = event[q] /\ result'[q] = result[q]
      BY <3>2, OthersStand DEF LockInv
    <3>4. ASSUME Count(q) \/ ExpireCounter(q) \/ LookUp(q) \/ TakeLock(q)
                 \/ InsertRow(q) \/ Retake(q) \/ Ask(q) \/ StoreResponse(q)
                 \/ CountUnanswered(q) \/ LockUnanswered(q) \/ Drop(q)
          PROVE  FALSE
      <4>1. \E label \in Pcs \ {"release", "store"} : Goto(q, label)
        BY <3>4 DEF Count, ExpireCounter, LookUp, TakeLock, InsertRow, Retake, Ask,
             StoreResponse, CountUnanswered, LockUnanswered, Drop, Answer, Pcs, LockedPcs
      <4>2. QED BY <4>1 DEF Goto, LockInv, TypeOK
    <3>5. CASE \/ \E e \in Events : LockExpires(e)
               \/ \E e \in Events, k \in Keys : Forget(e, k)
               \/ WindowEnds \/ Recover \/ UNCHANGED vars
      BY <3>5 DEF LockExpires, Forget, WindowEnds, Recover, vars, callVars
    <3>6. QED
      BY <1>5, <3>1, <3>2, <3>4, <3>5 DEF Next, RequestStep
  <2>2. event[q] \in Events
    BY <2>1 DEF LockInv, TypeOK
  <2>3. QED BY <2>1, <2>2, RegisteredStep DEF LockInv, Succeeded, StoresSuccess
<1>6. QED BY <1>1, <1>2, <1>3, <1>4, <1>5

\* What is remembered was a success, and stays one.
LEMMA ReplaysStep == LockInv /\ [Next]_vars => ReplaysAreTrue'
<1> SUFFICES ASSUME LockInv, [Next]_vars, NEW x \in remembered'
             PROVE  row'[x[1]] = "registered"
  BY DEF ReplaysAreTrue
<1>1. \/ x \in remembered
      \/ \E r \in Requests : pc[r] = "store" /\ x = <<event[r], key[r]>>
  BY DEF Next, RequestStep, vars, redisVars, callVars, Start, Count, CountUnanswered,
         ExpireCounter, LookUp, TakeLock, LockUnanswered, InsertRow, Inspect, Retake,
         Ask, Record, StatementFails, ReleaseLock, StoreResponse, Drop, LockExpires,
         Forget, WindowEnds, Recover
<1>2. x[1] \in Events /\ row[x[1]] = "registered"
  <2>1. CASE x \in remembered
    BY <2>1 DEF LockInv, TypeOK, ReplaysAreTrue
  <2>2. ASSUME NEW r \in Requests, pc[r] = "store", x = <<event[r], key[r]>>
        PROVE  x[1] \in Events /\ row[x[1]] = "registered"
    BY <2>2 DEF LockInv, TypeOK, Succeeded, StoresSuccess
  <2>3. QED BY <1>1, <2>1, <2>2
<1>3. QED BY <1>2, RegisteredStep

\* The lock's invariant, from which the three theorems below follow.
THEOREM LockInvariant == Spec => []LockInv
<1>1. Init => LockInv
  BY TypeInit, LockInit DEF LockInv
<1>2. LockInv /\ [Next]_vars => LockInv'
  BY TypeStep, HoldsStep, KnowsStep, SucceededStep, ReplaysStep DEF LockInv
<1>3. QED BY <1>1, <1>2, PTL DEF Spec

\* One request at a time is at work on a registration.
THEOREM AloneWithTheEvent == Spec => []OneAtATime
<1>1. LockInv => OneAtATime
  BY Alone DEF LockInv
<1>2. QED BY <1>1, LockInvariant, PTL

\* A registration that succeeded is never reopened.
THEOREM RegistrationsStay == Spec => RegisteredStays
<1>1. LockInv /\ [Next]_vars
        => [\A e \in Events : row[e] = "registered" => row'[e] = "registered"]_vars
  BY RegisteredStep
<1>2. QED BY <1>1, LockInvariant, PTL DEF Spec, RegisteredStays

\* Whatever is replayed from the cache is what the table says.
THEOREM ReplaysTrue == Spec => []ReplaysAreTrue
<1>1. LockInv => ReplaysAreTrue
  BY DEF LockInv
<1>2. QED BY <1>1, LockInvariant, PTL
\* The second call that gives the counter its TTL is nobody's any more, and
\* the counter is over the limit: "retry in a minute" is then said for ever.
LimitStuck ==
    /\ attempts > Limit
    /\ ~expiring
    /\ \A r \in Requests : pc[r] # "expire"

\* Once a counter over the limit is left without a TTL, by a request that was
\* dropped between INCR and EXPIRE or by an EXPIRE that failed, no request and
\* no expiry ever lifts it.
THEOREM LimitStaysStuck == Spec => [][LimitStuck => LimitStuck']_vars
<1>1. TypeOK /\ [Next]_vars => [LimitStuck => LimitStuck']_vars
  <2> SUFFICES ASSUME TypeOK, [Next]_vars, LimitStuck PROVE LimitStuck'
    OBVIOUS
  <2>1. /\ attempts \in Nat /\ attempts # 0 /\ attempts > Limit
        /\ CountedUp = attempts
        /\ pc \in [Requests -> Pcs]
    <3>1. attempts \in 0..(Limit + 1) /\ pc \in [Requests -> Pcs] /\ attempts > Limit
      BY DEF LimitStuck, TypeOK
    <3>2. QED BY <3>1, LimitPositive DEF CountedUp
  <2>2. attempts' = attempts /\ expiring' = expiring
    BY <2>1 DEF LimitStuck, Next, RequestStep, vars, redisVars, callVars, Start, Count,
           CountUnanswered, ExpireCounter, LookUp, TakeLock, LockUnanswered, InsertRow,
           Inspect, Retake, Ask, Record, StatementFails, ReleaseLock, StoreResponse,
           Drop, LockExpires, Forget, WindowEnds, Recover
  <2>3. ASSUME NEW r \in Requests PROVE pc'[r] # "expire"
    BY <2>1 DEF LimitStuck, Next, RequestStep, vars, redisVars, callVars, Start, Count,
           CountUnanswered, ExpireCounter, LookUp, TakeLock, LockUnanswered, InsertRow,
           Inspect, Retake, Ask, Record, StatementFails, ReleaseLock, StoreResponse,
           Drop, LockExpires, Forget, WindowEnds, Recover, Goto, Answer, Return
  <2>4. QED BY <2>2, <2>3 DEF LimitStuck
<1>2. QED BY <1>1, TypeCorrect, PTL DEF Spec
=============================================================================
