---------------------------- MODULE Accounts_proofs ----------------------------
(***************************************************************************)
(* Theorems about Accounts, for any persons, addresses, rows, requests and *)
(* attempts.  While addresses stay with their persons, a linked row bears  *)
(* its person's address; so a callback that has found a row by its address *)
(* finds nobody else's, and no other callback can take the row away.       *)
(***************************************************************************)
EXTENDS Accounts, TLAPS

\* A callback's local variables, once it is under way.
Local == [pc : CallbackPcs, attempt : Attempts \union {None}, who : People \union {None},
          mail : Emails \union {None}, found : Rows \union {None}]

\* What the local variables hold at each step.
Locals ==
    \A c \in Callbacks :
        /\ task[c].pc \in {"delete_state", "redeem"} => task[c].attempt \in Attempts
        /\ task[c].pc \in {"select", "update", "insert", "session"} =>
             task[c].who \in People /\ task[c].mail \in Emails
        /\ task[c].pc \in {"update", "session"} => task[c].found \in Rows
        /\ task[c].pc \notin {"update", "session"} => task[c].found = None

\* A row that is not there is linked to nobody.
GoneRows == \A r \in Rows : ~Exists(r) => hca[r] = None

\* Linked rows, and the callbacks with an identity, have the person's address.
OwnAddress ==
    /\ \A p, q \in People : primary[p] = primary[q] /\ primary[p] # None => p = q
    /\ \A r \in Rows : hca[r] # None => email[r] = primary[hca[r]]
    /\ \A c \in Callbacks : task[c].who # None => task[c].mail = primary[task[c].who]

\* What a callback found is what the person may have.
FoundOwn ==
    \A c \in Callbacks :
        /\ task[c].pc = "update" /\ Exists(task[c].found) => email[task[c].found] = task[c].mail
        /\ task[c].pc = "session" /\ Exists(task[c].found) => hca[task[c].found] = task[c].who
        /\ task[c].pc = "insert" => \A r \in Rows : email[r] = task[c].mail => hca[r] # None

Typed == TypeOK /\ Locals
Unique == OneAccountEach /\ GoneRows
Faithful == steady => OwnAddress /\ FoundOwn /\ \A s \in sessions : hca[s[1]] = s[2]

AccountsInv == Typed /\ Unique /\ Faithful

-----------------------------------------------------------------------------
\* The first state satisfies the invariant.
LEMMA AccountsInit == Init => AccountsInv
<1> SUFFICES ASSUME Init PROVE AccountsInv
  OBVIOUS
<1> USE NoneIsNobody
<1>1. TypeOK
  BY DEF Init, TypeOK
<1>2. \A c \in Callbacks : task[c] = NoTask
  BY DEF Init
<1>3. Locals
  BY <1>2 DEF Locals, NoTask
<1>4. Unique
  <2>1. email \in [Rows -> Emails \union {None}] /\ Distinct(email)
    BY DEF Init
  <2>2. \A r, s \in Rows : email[r] = email[s] /\ email[r] # None => r = s
    BY <2>1 DEF Distinct
  <2>3. \A r \in Rows : hca[r] = None
    BY DEF Init
  <2>4. QED BY <2>2, <2>3 DEF Unique, OneAccountEach, GoneRows, Exists
<1>5. OwnAddress
  <2>1. primary \in [People -> Emails] /\ Distinct(primary)
    BY DEF Init
  <2>2. \A p, q \in People : primary[p] = primary[q] /\ primary[p] # None => p = q
    BY <2>1 DEF Distinct
  <2>3. \A r \in Rows : hca[r] = None
    BY DEF Init
  <2>4. QED BY <1>2, <2>2, <2>3 DEF OwnAddress, NoTask
<1>6. FoundOwn
  BY <1>2 DEF FoundOwn, NoTask
<1>7. sessions = {}
  BY DEF Init
<1>8. QED
  BY <1>1, <1>3, <1>4, <1>5, <1>6, <1>7 DEF AccountsInv, Typed, Faithful

\* A callback that is not idle has a full set of local variables.
LEMMA Busy ==
  ASSUME TypeOK, NEW c \in Callbacks, task[c].pc # "idle"
  PROVE  task[c] \in Local
<1>1. task[c] \in {NoTask} \union Local
  BY DEF TypeOK, Local
<1>2. NoTask.pc = "idle"
  BY DEF NoTask
<1>3. QED
  BY <1>1, <1>2

\* New local variables are typed if they are those of a callback under way.
LEMMA TaskTyped ==
  ASSUME TypeOK, NEW c \in Callbacks, NEW l \in Local \union {NoTask},
         task' = [task EXCEPT ![c] = l]
  PROVE  task' \in [Callbacks -> {NoTask} \union Local]
BY DEF TypeOK, Local

\* Each step of a callback keeps what its variables can hold.
LEMMA CallbackTyped ==
  ASSUME Typed, CallbackNext
  PROVE  Typed'
<1> USE NoneIsNobody
<1>1. PICK c \in Callbacks : CallbackStep(c)
  BY DEF CallbackNext
<1>2. UNCHANGED <<primary, target, steady>>
  BY DEF CallbackNext
<1> DEFINE TaskOK == task' \in [Callbacks -> {NoTask} \union Local] /\ Locals'
<1> DEFINE RowsOK == /\ hca' \in [Rows -> People \union {None}]
                     /\ email' \in [Rows -> Emails \union {None}]
                     /\ role' \in [Rows -> Roles]
                     /\ sessions' \subseteq {r \in Rows : email'[r] # None} \X People
                     /\ state' \subseteq Attempts
                     /\ code' \in [Attempts -> People \union {None}]
<1>3. SUFFICES TaskOK /\ RowsOK
  BY <1>2 DEF Typed, TypeOK, Local, Exists
<1>4. TypeOK /\ Locals
  BY DEF Typed
<1>5. /\ hca \in [Rows -> People \union {None}]
      /\ email \in [Rows -> Emails \union {None}]
      /\ role \in [Rows -> Roles]
      /\ sessions \subseteq {r \in Rows : email[r] # None} \X People
      /\ state \subseteq Attempts
      /\ code \in [Attempts -> People \union {None}]
      /\ primary \in [People -> Emails \union {None}]
  BY <1>4 DEF TypeOK, Exists
<1>6. task \in [Callbacks -> {NoTask} \union Local]
  BY <1>4 DEF TypeOK, Local
<1>7. ASSUME NEW l \in Local \union {NoTask}, task' = [task EXCEPT ![c] = l],
             /\ l.pc \in {"delete_state", "redeem"} => l.attempt \in Attempts
             /\ l.pc \in {"select", "update", "insert", "session"} => l.who \in People /\ l.mail \in Emails
             /\ l.pc \in {"update", "session"} => l.found \in Rows
             /\ l.pc \notin {"update", "session"} => l.found = None
      PROVE  TaskOK
  BY <1>4, <1>6, <1>7 DEF Locals
<1>8. /\ NoTask \in Local \union {NoTask} /\ NoTask.pc = "idle" /\ NoTask.found = None
  BY DEF NoTask
<1>9. Ends(c) => TaskOK
  BY <1>7, <1>8 DEF Ends
<1> HIDE DEF TaskOK
<1>10. ASSUME NEW a \in Attempts, Callback(c, a) PROVE TaskOK /\ RowsOK
  <2> DEFINE l == [NoTask EXCEPT !.pc = "delete_state", !.attempt = a]
  <2>1. l \in Local /\ l.pc = "delete_state" /\ l.attempt = a /\ l.found = None
    BY DEF NoTask, Local, CallbackPcs
  <2>2. task' = [task EXCEPT ![c] = l]
    BY <1>10 DEF Callback
  <2> HIDE DEF l
  <2>3. TaskOK
    BY <1>7, <2>1, <2>2
  <2>4. QED BY <1>5, <1>10, <2>3 DEF Callback, userVars, linkVars
<1>11. ASSUME NEW label \in CallbackPcs, Goto(c, label), task[c] \in Local,
              /\ label \in {"delete_state", "redeem"} => task[c].attempt \in Attempts
              /\ label \in {"select", "update", "insert", "session"} =>
                   task[c].who \in People /\ task[c].mail \in Emails
              /\ label \in {"update", "session"} => task[c].found \in Rows
              /\ label \notin {"update", "session"} => task[c].found = None
       PROVE  TaskOK
  <2> DEFINE l == [task[c] EXCEPT !.pc = label]
  <2>1. l \in Local /\ l.pc = label /\ l.attempt = task[c].attempt /\ l.who = task[c].who
          /\ l.mail = task[c].mail /\ l.found = task[c].found
    BY <1>11 DEF Local
  <2>2. task' = [task EXCEPT ![c] = l]
    BY <1>6, <1>11 DEF Goto
  <2> HIDE DEF l
  <2>3. QED BY <1>7, <1>11, <2>1, <2>2
<1>12. CASE DeleteState(c)
  <2>1. task[c] \in Local /\ task[c].attempt \in Attempts /\ task[c].found = None
    BY <1>4, <1>12, Busy DEF DeleteState, Locals
  <2>2. TaskOK
    BY <1>11, <1>12, <2>1 DEF DeleteState, CallbackPcs
  <2>3. QED BY <1>5, <1>12, <2>2 DEF DeleteState, userVars
<1>13. CASE Redeem(c)
  <2> DEFINE p == code[task[c].attempt]
  <2>1. task[c].attempt \in Attempts
    BY <1>4, <1>13 DEF Redeem, Locals
  <2>2. p \in People \union {None}
    BY <1>5, <2>1
  <2>3. CASE p # None /\ primary[p] # None
    <3> DEFINE l == [NoTask EXCEPT !.pc = "select", !.who = p, !.mail = primary[p]]
    <3>1. p \in People /\ primary[p] \in Emails
      BY <1>5, <2>2, <2>3
    <3>2. l \in Local /\ l.pc = "select" /\ l.who = p /\ l.mail = primary[p] /\ l.found = None
      BY <3>1 DEF NoTask, Local, CallbackPcs
    <3>3. task' = [task EXCEPT ![c] = l]
      BY <1>13, <2>3 DEF Redeem
    <3> HIDE DEF l
    <3>4. TaskOK
      BY <1>7, <3>1, <3>2, <3>3
    <3>5. QED BY <1>5, <1>13, <2>1, <3>4 DEF Redeem, userVars
  <2>4. CASE ~(p # None /\ primary[p] # None)
    BY <1>5, <1>9, <1>13, <2>1, <2>4 DEF Redeem, userVars
  <2>5. QED BY <2>3, <2>4
<1>14. CASE Select(c)
  <2>1. /\ task[c] \in Local /\ task[c].who \in People /\ task[c].mail \in Emails
        /\ task[c].found = None
    BY <1>4, <1>14, Busy DEF Select, Locals
  <2>2. RowsOK
    BY <1>5, <1>14 DEF Select, userVars, linkVars
  <2>3. CASE Goto(c, "insert")
    BY <1>11, <2>1, <2>2, <2>3 DEF CallbackPcs
  <2>4. ASSUME NEW r \in Rows, task' = [task EXCEPT ![c].pc = "update", ![c].found = r] PROVE TaskOK
    <3> DEFINE l == [task[c] EXCEPT !.pc = "update", !.found = r]
    <3>1. l \in Local /\ l.pc = "update" /\ l.who = task[c].who /\ l.mail = task[c].mail /\ l.found = r
      BY <2>1 DEF Local, CallbackPcs
    <3>2. task' = [task EXCEPT ![c] = l]
      BY <1>6, <2>4
    <3> HIDE DEF l
    <3>3. QED BY <1>7, <2>1, <3>1, <3>2
  <2>5. QED BY <1>14, <2>2, <2>3, <2>4 DEF Select, Found
<1>15. CASE Update(c)
  <2>1. /\ task[c] \in Local /\ task[c].who \in People /\ task[c].mail \in Emails
        /\ task[c].found \in Rows
    BY <1>4, <1>15, Busy DEF Update, Locals
  <2>2. Goto(c, "session") => TaskOK
    BY <1>11, <2>1 DEF CallbackPcs
  <2>3. TaskOK
    BY <1>9, <1>15, <2>2 DEF Update
  <2>4. RowsOK
    BY <1>5, <1>15, <2>1 DEF Update, userVars, linkVars, Exists, WithIdentity
  <2>5. QED BY <2>3, <2>4
<1>16. CASE Insert(c)
  <2>1. /\ task[c] \in Local /\ task[c].who \in People /\ task[c].mail \in Emails
    BY <1>4, <1>16, Busy DEF Insert, Locals
  <2>2. ASSUME NEW r \in Rows, task' = [task EXCEPT ![c].pc = "session", ![c].found = r] PROVE TaskOK
    <3> DEFINE l == [task[c] EXCEPT !.pc = "session", !.found = r]
    <3>1. l \in Local /\ l.pc = "session" /\ l.who = task[c].who /\ l.mail = task[c].mail /\ l.found = r
      BY <2>1 DEF Local, CallbackPcs
    <3>2. task' = [task EXCEPT ![c] = l]
      BY <1>6, <2>2
    <3> HIDE DEF l
    <3>3. QED BY <1>7, <2>1, <3>1, <3>2
  <2>3. TaskOK
    BY <1>9, <1>16, <2>2 DEF Insert
  <2>4. RowsOK
    BY <1>5, <1>16, <2>1 DEF Insert, InsertUser, userVars, linkVars, Roles
  <2>5. QED BY <2>3, <2>4
<1>17. CASE CreateSession(c)
  <2>1. task[c].who \in People /\ task[c].found \in Rows
    BY <1>4, <1>17 DEF CreateSession, Locals
  <2>2. QED BY <1>5, <1>9, <1>17, <2>1 DEF CreateSession, UserThere, Exists, userVars, linkVars
<1>18. CASE Fail(c)
  <2>1. task[c].pc = "redeem" => task[c].attempt \in Attempts
    BY <1>4 DEF Locals
  <2>2. QED BY <1>5, <1>9, <1>18, <2>1 DEF Fail, userVars
<1>19. QED
  BY <1>1, <1>10, <1>12, <1>13, <1>14, <1>15, <1>16, <1>17, <1>18 DEF CallbackStep

\* So do the other steps.
LEMMA TypedStep == ASSUME Typed, [Next]_vars PROVE Typed'
<1> USE NoneIsNobody
<1>1. TypeOK /\ Locals
  BY DEF Typed
<1>2. /\ hca \in [Rows -> People \union {None}]
      /\ email \in [Rows -> Emails \union {None}]
      /\ role \in [Rows -> Roles]
      /\ sessions \subseteq {r \in Rows : email[r] # None} \X People
      /\ primary \in [People -> Emails \union {None}]
      /\ state \subseteq Attempts
      /\ code \in [Attempts -> People \union {None}]
      /\ target \in [AdminRequests -> Rows \union {None}]
      /\ steady \in BOOLEAN
  BY <1>1 DEF TypeOK, Exists
<1>3. ASSUME UNCHANGED task,
             /\ hca' \in [Rows -> People \union {None}]
             /\ email' \in [Rows -> Emails \union {None}]
             /\ role' \in [Rows -> Roles]
             /\ sessions' \subseteq {r \in Rows : email'[r] # None} \X People
             /\ primary' \in [People -> Emails \union {None}]
             /\ state' \subseteq Attempts
             /\ code' \in [Attempts -> People \union {None}]
             /\ target' \in [AdminRequests -> Rows \union {None}]
             /\ steady' \in BOOLEAN
      PROVE  Typed'
  <2>1. Locals'
    BY <1>1, <1>3 DEF Locals
  <2>2. task' \in [Callbacks -> {NoTask} \union Local]
    BY <1>1, <1>3 DEF TypeOK, Local
  <2>3. QED BY <1>3, <2>1, <2>2 DEF Typed, TypeOK, Local, Exists
<1>4. CASE LoginNext
  BY <1>2, <1>3, <1>4 DEF LoginNext, Login, LinkExpires, userVars
<1>5. CASE CallbackNext
  BY <1>5, CallbackTyped
<1>6. CASE AdminNext
  <2>1. PICK q \in AdminRequests : AdminStep(q)
    BY <1>6 DEF AdminNext
  <2>2. UNCHANGED <<primary, linkVars, task>>
    BY <1>6 DEF AdminNext
  <2>3. CASE DeleteUser(q)
    <3>1. \A s \in sessions' : s \in sessions /\ s[1] # target[q]
      BY <2>3 DEF DeleteUser
    <3>2. sessions' \subseteq {r \in Rows : email'[r] # None} \X People
      BY <1>2, <2>3, <3>1 DEF DeleteUser
    <3>3. QED BY <1>2, <1>3, <2>2, <2>3, <3>2 DEF DeleteUser, AdminEnds, Roles, linkVars
  <2>4. CASE AdminFails(q)
    BY <1>2, <1>3, <2>2, <2>4 DEF AdminFails, AdminEnds, userVars, linkVars
  <2>5. ASSUME NEW r \in Rows, AdminBegins(q, r) PROVE Typed'
    BY <1>2, <1>3, <2>2, <2>5 DEF AdminBegins, userVars, linkVars
  <2>6. ASSUME NEW e \in Emails \union {None}, NEW as \in Roles \union {None}, UpdateUser(q, e, as)
        PROVE  Typed'
    <3>1. /\ email' \in [Rows -> Emails \union {None}]
          /\ \A r \in Rows : email[r] # None => email'[r] # None
      BY <1>2, <2>6 DEF UpdateUser
    <3>2. role' \in [Rows -> Roles]
      BY <1>2, <2>6 DEF UpdateUser
    <3>3. sessions' \subseteq {r \in Rows : email'[r] # None} \X People
      BY <1>2, <2>6, <3>1 DEF UpdateUser
    <3>4. QED BY <1>2, <1>3, <2>2, <2>6, <3>1, <3>2, <3>3 DEF UpdateUser, AdminEnds, linkVars
  <2>7. QED
    BY <2>1, <2>3, <2>4, <2>5, <2>6 DEF AdminStep
<1>7. ASSUME NEW s \in sessions, SessionEnds(s) PROVE Typed'
  BY <1>2, <1>3, <1>7 DEF SessionEnds, userVars, linkVars
<1>8. ASSUME NEW p \in People, NEW e \in Emails \union {None}, MoveAddress(p, e) PROVE Typed'
  BY <1>2, <1>3, <1>8 DEF MoveAddress, userVars, linkVars
<1>9. CASE UNCHANGED vars
  BY <1>2, <1>3, <1>9 DEF vars, userVars, linkVars
<1>10. QED
  BY <1>4, <1>5, <1>6, <1>7, <1>8, <1>9 DEF Next

-----------------------------------------------------------------------------
\* The unique columns of users stay unique, and what is deleted is empty.
LEMMA UniqueStep == ASSUME Typed, Unique, [Next]_vars PROVE Unique'
<1> USE NoneIsNobody
<1>1. /\ hca \in [Rows -> People \union {None}]
      /\ email \in [Rows -> Emails \union {None}]
      /\ target \in [AdminRequests -> Rows \union {None}]
      /\ Locals
  BY DEF Typed, TypeOK
<1>2. /\ \A r, s \in Rows : email[r] # None /\ email[s] # None /\ r # s
           => email[r] # email[s] /\ (hca[r] # None => hca[r] # hca[s])
      /\ \A r \in Rows : email[r] = None => hca[r] = None
  BY DEF Unique, OneAccountEach, GoneRows, Exists
<1>3. UNCHANGED <<hca, email>> => Unique'
  BY <1>2 DEF Unique, OneAccountEach, GoneRows, Exists
<1>4. ASSUME NEW r \in Rows, NEW p \in People, NEW e \in Emails, NEW skip,
             skip = r \/ (skip \notin Rows /\ email[r] = None), Clashes(skip, p, e) = {},
             hca' = [hca EXCEPT ![r] = p], email' = [email EXCEPT ![r] = e]
      PROVE  Unique'
  <2>1. \A s \in Rows \ {r} : email[s] # None => hca[s] # p /\ email[s] # e
    BY <1>4 DEF Clashes, Exists
  <2>2. \A s \in Rows : /\ s # r => hca'[s] = hca[s] /\ email'[s] = email[s]
                        /\ s = r => hca'[s] = p /\ email'[s] = e
    BY <1>1, <1>4
  <2>3. QED BY <1>2, <2>1, <2>2 DEF Unique, OneAccountEach, GoneRows, Exists
<1>5. CASE CallbackNext
  <2>1. PICK c \in Callbacks : CallbackStep(c)
    BY <1>5 DEF CallbackNext
  <2>2. ASSUME NEW a \in Attempts, Callback(c, a) PROVE Unique'
    BY <1>3, <2>2 DEF Callback, userVars
  <2>3. CASE DeleteState(c) \/ Redeem(c) \/ Select(c) \/ CreateSession(c) \/ Fail(c)
    BY <1>3, <2>3 DEF DeleteState, Redeem, Select, CreateSession, Fail, userVars
  <2>4. CASE Update(c)
    <3>1. task[c].who \in People /\ task[c].mail \in Emails /\ task[c].found \in Rows
      BY <1>1, <2>4 DEF Update, Locals
    <3>2. QED BY <1>3, <1>4, <2>4, <3>1 DEF Update, WithIdentity, userVars
  <2>5. CASE Insert(c)
    <3>1. task[c].who \in People /\ task[c].mail \in Emails
      BY <1>1, <2>5 DEF Insert, Locals
    <3>2. QED BY <1>3, <1>4, <2>5, <3>1 DEF Insert, InsertUser, Fresh, Exists, userVars
  <2>6. QED
    BY <2>1, <2>2, <2>3, <2>4, <2>5 DEF CallbackStep
<1>6. CASE AdminNext
  <2>1. PICK q \in AdminRequests : AdminStep(q)
    BY <1>6 DEF AdminNext
  <2>2. CASE DeleteUser(q)
    BY <1>1, <1>2, <2>2 DEF DeleteUser, AdminEnds, Unique, OneAccountEach, GoneRows, Exists
  <2>3. CASE AdminFails(q)
    BY <1>3, <2>3 DEF AdminFails, userVars
  <2>4. ASSUME NEW r \in Rows, AdminBegins(q, r) PROVE Unique'
    BY <1>3, <2>4 DEF AdminBegins, userVars
  <2>5. ASSUME NEW e \in Emails \union {None}, NEW as \in Roles \union {None}, UpdateUser(q, e, as)
        PROVE  Unique'
    <3>1. target[q] \in Rows /\ email[target[q]] # None /\ hca' = hca
      BY <1>1, <2>5 DEF UpdateUser, AdminEnds, Exists
    <3>2. CASE e = None
      BY <1>3, <2>5, <3>1, <3>2 DEF UpdateUser
    <3>3. CASE e # None
      <4>1. \A r \in Rows : email'[r] = IF r = target[q] THEN e ELSE email[r]
        BY <1>1, <2>5, <3>3 DEF UpdateUser
      <4>2. \A r \in Rows \ {target[q]} : email[r] # e
        BY <2>5, <3>3 DEF UpdateUser
      <4>3. QED BY <1>2, <3>1, <3>3, <4>1, <4>2 DEF Unique, OneAccountEach, GoneRows, Exists
    <3>4. QED BY <3>2, <3>3
  <2>6. QED
    BY <2>1, <2>2, <2>3, <2>4, <2>5 DEF AdminStep
<1>7. CASE LoginNext
  BY <1>3, <1>7 DEF LoginNext, userVars
<1>8. ASSUME NEW s \in sessions, SessionEnds(s) PROVE Unique'
  BY <1>3, <1>8 DEF SessionEnds, userVars
<1>9. ASSUME NEW p \in People, NEW e \in Emails \union {None}, MoveAddress(p, e) PROVE Unique'
  BY <1>3, <1>9 DEF MoveAddress, userVars
<1>10. CASE UNCHANGED vars
  BY <1>3, <1>10 DEF vars, userVars
<1>11. QED
  BY <1>5, <1>6, <1>7, <1>8, <1>9, <1>10 DEF Next

-----------------------------------------------------------------------------
\* While addresses stay with their persons, what links rows, callbacks and
\* sessions to persons survives the steps of callbacks.
LEMMA FaithfulCallback ==
  ASSUME Typed, Unique, steady, Faithful, CallbackNext
  PROVE  Faithful'
<1> USE NoneIsNobody
<1>1. /\ hca \in [Rows -> People \union {None}]
      /\ email \in [Rows -> Emails \union {None}]
      /\ \A s \in sessions : s[1] \in Rows /\ s[2] \in People /\ email[s[1]] # None
      /\ primary \in [People -> Emails \union {None}]
      /\ code \in [Attempts -> People \union {None}]
      /\ DOMAIN task = Callbacks
      /\ \A c \in Callbacks : task[c].who \in People \union {None}
  <2>1. TypeOK
    BY DEF Typed
  <2>2. \A c \in Callbacks : task[c] \in {NoTask} \union Local
    BY <2>1 DEF TypeOK, Local
  <2>3. QED BY <2>1, <2>2 DEF TypeOK, Local, NoTask, Exists
<1>2. Locals
  BY DEF Typed
<1>3. /\ \A p, q \in People : primary[p] = primary[q] /\ primary[p] # None => p = q
      /\ \A r \in Rows : hca[r] # None => email[r] = primary[hca[r]]
      /\ \A c \in Callbacks : task[c].who # None => task[c].mail = primary[task[c].who]
      /\ \A c \in Callbacks : task[c].pc = "update" /\ email[task[c].found] # None
                               => email[task[c].found] = task[c].mail
      /\ \A c \in Callbacks : task[c].pc = "session" /\ email[task[c].found] # None
                               => hca[task[c].found] = task[c].who
      /\ \A c \in Callbacks : task[c].pc = "insert"
                               => \A r \in Rows : email[r] = task[c].mail => hca[r] # None
      /\ \A s \in sessions : hca[s[1]] = s[2]
  BY DEF Faithful, OwnAddress, FoundOwn, Exists
<1>4. UNCHANGED <<primary, steady>>
  BY DEF CallbackNext
<1> DEFINE Kept ==
               /\ \A r \in Rows : hca'[r] # None => email'[r] = primary[hca'[r]]
               /\ \A c \in Callbacks : task'[c].who # None => task'[c].mail = primary[task'[c].who]
               /\ \A c \in Callbacks : task'[c].pc = "update" /\ email'[task'[c].found] # None
                                        => email'[task'[c].found] = task'[c].mail
               /\ \A c \in Callbacks : task'[c].pc = "session" /\ email'[task'[c].found] # None
                                        => hca'[task'[c].found] = task'[c].who
               /\ \A c \in Callbacks : task'[c].pc = "insert"
                                        => \A r \in Rows : email'[r] = task'[c].mail => hca'[r] # None
               /\ \A s \in sessions' : hca'[s[1]] = s[2]
<1>5. ASSUME Kept PROVE Faithful'
  <2>1. OwnAddress'
    BY <1>3, <1>4, <1>5 DEF OwnAddress
  <2>2. FoundOwn'
    BY <1>5 DEF FoundOwn, Exists
  <2>3. \A s \in sessions' : hca'[s[1]] = s[2]
    BY <1>5
  <2>4. QED BY <2>1, <2>2, <2>3 DEF Faithful
<1> SUFFICES Kept
  BY <1>5
<1>6. PICK c \in Callbacks : CallbackStep(c)
  BY DEF CallbackNext
<1>7. Ends(c) => /\ task'[c].who = None /\ task'[c].pc = "idle"
                 /\ \A b \in Callbacks \ {c} : task'[b] = task[b]
  BY <1>1 DEF Ends, NoTask
<1>8. ASSUME NEW label, Goto(c, label)
      PROVE  /\ task'[c].who = task[c].who /\ task'[c].mail = task[c].mail
             /\ task'[c].found = task[c].found /\ task'[c].pc = label
             /\ \A b \in Callbacks \ {c} : task'[b] = task[b]
  <2>1. task[c] \in {NoTask} \union Local
    BY DEF Typed, TypeOK, Local
  <2>2. QED BY <1>1, <1>8, <2>1 DEF Goto, Local, NoTask
<1>9. ASSUME NEW label, NEW r, task' = [task EXCEPT ![c].pc = label, ![c].found = r]
      PROVE  /\ task'[c].who = task[c].who /\ task'[c].mail = task[c].mail
             /\ task'[c].found = r /\ task'[c].pc = label
             /\ \A b \in Callbacks \ {c} : task'[b] = task[b]
  <2>1. task[c] \in {NoTask} \union Local
    BY DEF Typed, TypeOK, Local
  <2>2. QED BY <1>1, <1>9, <2>1 DEF Local, NoTask
<1> HIDE DEF Kept
<1>10. ASSUME UNCHANGED <<hca, email>>,
              \A s \in sessions' : hca[s[1]] = s[2],
              \A b \in Callbacks \ {c} : task'[b] = task[b],
              task'[c].who # None => task'[c].mail = primary[task'[c].who],
              task'[c].pc = "update" /\ email[task'[c].found] # None
                => email[task'[c].found] = task'[c].mail,
              task'[c].pc = "session" /\ email[task'[c].found] # None
                => hca[task'[c].found] = task'[c].who,
              task'[c].pc = "insert" => \A r \in Rows : email[r] = task'[c].mail => hca[r] # None
       PROVE  Kept
  BY <1>3, <1>10 DEF Kept
<1>11. ASSUME UNCHANGED userVars, \A s \in sessions' : hca[s[1]] = s[2], Ends(c) PROVE Kept
  BY <1>7, <1>10, <1>11 DEF userVars
<1>12. ASSUME NEW a \in Attempts, Callback(c, a) PROVE Kept
  <2>1. /\ task'[c].who = None /\ task'[c].pc = "delete_state"
        /\ \A b \in Callbacks \ {c} : task'[b] = task[b]
    BY <1>1, <1>12 DEF Callback, NoTask
  <2>2. UNCHANGED <<hca, email, sessions>>
    BY <1>12 DEF Callback, userVars
  <2>3. QED BY <1>3, <1>10, <2>1, <2>2
<1>13. CASE DeleteState(c)
  BY <1>3, <1>8, <1>10, <1>13 DEF DeleteState, userVars
<1>14. CASE Redeem(c)
  <2> DEFINE p == code[task[c].attempt]
  <2>1. UNCHANGED <<userVars, sessions>>
    BY <1>14 DEF Redeem
  <2>2. CASE p # None /\ primary[p] # None
    <3>1. /\ task'[c].who = p /\ task'[c].mail = primary[p] /\ task'[c].pc = "select"
          /\ \A b \in Callbacks \ {c} : task'[b] = task[b]
      <4> DEFINE l == [NoTask EXCEPT !.pc = "select", !.who = p, !.mail = primary[p]]
      <4>1. l.who = p /\ l.mail = primary[p] /\ l.pc = "select"
        BY DEF NoTask
      <4>2. task' = [task EXCEPT ![c] = l]
        BY <1>14, <2>2 DEF Redeem
      <4> HIDE DEF l
      <4>3. QED BY <1>1, <4>1, <4>2
    <3>2. QED BY <1>3, <1>10, <2>1, <3>1 DEF userVars
  <2>3. CASE ~(p # None /\ primary[p] # None)
    BY <1>3, <1>11, <1>14, <2>1, <2>3 DEF Redeem
  <2>4. QED BY <2>2, <2>3
<1>15. CASE Select(c)
  <2>1. /\ UNCHANGED <<userVars, sessions>>
        /\ task[c].who \in People /\ task[c].mail \in Emails
        /\ task[c].mail = primary[task[c].who]
    BY <1>2, <1>3, <1>15 DEF Select, Locals
  <2>2. CASE Found(task[c].who, task[c].mail) = {}
    <3>1. Goto(c, "insert")
      BY <1>15, <2>2 DEF Select
    <3>2. \A r \in Rows : email[r] # task[c].mail
      <4>1. ASSUME NEW r \in Rows, email[r] = task[c].mail PROVE FALSE
        <5> DEFINE rows == {s \in Rows : Matches(s, task[c].who, task[c].mail)}
                   rank(s) == Rank(s, task[c].who)
        <5>1. r \in rows
          BY <2>1, <4>1 DEF Matches, Exists
        <5>2. \A s \in rows : rank(s) \in {0, 1, 2}
          BY DEF Rank
        <5>3. \E s \in rows : \A z \in rows : rank(s) <= rank(z)
          <6>1. CASE \E s \in rows : rank(s) = 0
            BY <5>2, <6>1
          <6>2. CASE ~(\E s \in rows : rank(s) = 0) /\ \E s \in rows : rank(s) = 1
            BY <5>2, <6>2
          <6>3. CASE ~(\E s \in rows : rank(s) = 0) /\ ~\E s \in rows : rank(s) = 1
            BY <5>1, <5>2, <6>3
          <6>4. QED BY <6>1, <6>2, <6>3
        <5>4. QED BY <2>2, <5>3 DEF Found
      <4>2. QED BY <4>1
    <3>3. QED BY <1>3, <1>8, <1>10, <2>1, <3>1, <3>2 DEF userVars
  <2>3. CASE Found(task[c].who, task[c].mail) # {}
    <3>1. PICK r \in Found(task[c].who, task[c].mail) :
            task' = [task EXCEPT ![c].pc = "update", ![c].found = r]
      BY <1>15, <2>3 DEF Select
    <3>2. r \in Rows /\ Matches(r, task[c].who, task[c].mail)
      BY DEF Found
    <3>3. email[r] = task[c].mail
      BY <1>3, <2>1, <3>2 DEF Matches
    <3>4. QED BY <1>3, <1>9, <1>10, <2>1, <3>1, <3>3, ZenonT(60) DEF userVars
  <2>4. QED BY <2>2, <2>3
<1>16. CASE Update(c)
  <2> DEFINE r == task[c].found
             p == task[c].who
  <2>1. /\ p \in People /\ r \in Rows /\ task[c].mail \in Emails /\ task[c].mail = primary[p]
        /\ sessions' = sessions
    BY <1>2, <1>3, <1>16 DEF Update, Locals
  <2>2. CASE ~Exists(r) /\ Goto(c, "session") /\ UNCHANGED userVars
    BY <1>3, <1>8, <1>10, <2>1, <2>2 DEF Exists, userVars
  <2>3. CASE Ends(c) /\ UNCHANGED userVars
    BY <1>3, <1>11, <2>1, <2>3
  <2>4. CASE /\ Exists(r) /\ Goto(c, "session")
             /\ hca' = WithIdentity(r, p) /\ email' = [email EXCEPT ![r] = task[c].mail]
    <3>1. email[r] = task[c].mail /\ email' = email
      BY <1>1, <1>3, <1>16, <2>1, <2>4 DEF Exists, Update
    <3>2. hca[r] \in {None, p}
      BY <1>1, <1>3, <2>1, <3>1
    <3>3. \A s \in Rows : hca'[s] = IF s = r THEN p ELSE hca[s]
      BY <1>1, <2>4 DEF WithIdentity
    <3>4. \A s \in Rows : hca[s] # None => hca'[s] = hca[s]
      BY <3>2, <3>3
    <3>5. \A b \in Callbacks : task[b].pc = "session" => task[b].found \in Rows /\ task[b].who \in People
      BY <1>2 DEF Locals
    <3>6. /\ task'[c].who = p /\ task'[c].mail = primary[p] /\ task'[c].found = r
          /\ task'[c].pc = "session" /\ \A b \in Callbacks \ {c} : task'[b] = task[b]
      BY <1>8, <2>1, <2>4
    <3>7. \A s \in sessions' : hca'[s[1]] = s[2]
      BY <1>1, <1>3, <2>1, <3>4
    <3>8. \A s \in Rows : hca'[s] # None => email'[s] = primary[hca'[s]]
      BY <1>3, <2>1, <3>1, <3>3
    <3>9. \A b \in Callbacks : task'[b].who # None => task'[b].mail = primary[task'[b].who]
      BY <1>3, <3>6
    <3>10. \A b \in Callbacks : task'[b].pc = "update" /\ email'[task'[b].found] # None
                                => email'[task'[b].found] = task'[b].mail
      BY <1>3, <3>1, <3>6
    <3>11. \A b \in Callbacks : task'[b].pc = "session" /\ email'[task'[b].found] # None
                                => hca'[task'[b].found] = task'[b].who
      BY <1>3, <2>1, <3>1, <3>3, <3>4, <3>5, <3>6
    <3>12. \A b \in Callbacks : task'[b].pc = "insert"
                                => \A s \in Rows : email'[s] = task'[b].mail => hca'[s] # None
      BY <1>3, <3>1, <3>4, <3>6
    <3>13. QED BY <3>7, <3>8, <3>9, <3>10, <3>11, <3>12 DEF Kept
  <2>5. QED BY <1>16, <2>2, <2>3, <2>4 DEF Update
<1>17. CASE Insert(c)
  <2> DEFINE p == task[c].who
  <2>1. /\ p \in People /\ task[c].mail \in Emails /\ task[c].mail = primary[p]
        /\ sessions' = sessions
    BY <1>2, <1>3, <1>17 DEF Insert, Locals
  <2>2. CASE Ends(c) /\ UNCHANGED userVars
    BY <1>3, <1>11, <2>1, <2>2
  <2>3. ASSUME NEW r \in Rows, Fresh(r), InsertUser(r, p, task[c].mail),
               task' = [task EXCEPT ![c].pc = "session", ![c].found = r]
        PROVE  Kept
    <3>1. email[r] = None /\ \A b \in Callbacks : task[b].found # r
      BY <2>3 DEF Fresh, Exists
    <3>2. \A s \in Rows : /\ hca'[s] = IF s = r THEN p ELSE hca[s]
                          /\ email'[s] = IF s = r THEN task[c].mail ELSE email[s]
      BY <1>1, <2>3 DEF InsertUser
    <3>3. /\ task'[c].who = p /\ task'[c].mail = primary[p] /\ task'[c].found = r
          /\ task'[c].pc = "session" /\ \A b \in Callbacks \ {c} : task'[b] = task[b]
      BY <1>9, <2>1, <2>3
    <3>4. \A b \in Callbacks : task[b].pc \in {"update", "session"} => task[b].found \in Rows
      BY <1>2 DEF Locals
    <3>5. \A s \in sessions' : hca'[s[1]] = s[2]
      BY <1>1, <1>3, <2>1, <3>1, <3>2
    <3>6. \A s \in Rows : hca'[s] # None => email'[s] = primary[hca'[s]]
      BY <1>3, <2>1, <3>2
    <3>7. \A b \in Callbacks : task'[b].who # None => task'[b].mail = primary[task'[b].who]
      BY <1>3, <3>3
    <3>8. \A b \in Callbacks : task'[b].pc = "update" /\ email'[task'[b].found] # None
                               => email'[task'[b].found] = task'[b].mail
      BY <1>3, <3>1, <3>2, <3>3, <3>4
    <3>9. \A b \in Callbacks : task'[b].pc = "session" /\ email'[task'[b].found] # None
                               => hca'[task'[b].found] = task'[b].who
      BY <1>3, <3>1, <3>2, <3>3, <3>4
    <3>10. \A b \in Callbacks : task'[b].pc = "insert"
                                => \A s \in Rows : email'[s] = task'[b].mail => hca'[s] # None
      BY <1>3, <2>1, <3>2, <3>3
    <3>11. QED BY <3>5, <3>6, <3>7, <3>8, <3>9, <3>10 DEF Kept
  <2>4. QED BY <1>17, <2>2, <2>3 DEF Insert
<1>18. CASE CreateSession(c)
  <2>1. /\ Ends(c) /\ UNCHANGED userVars /\ task[c].pc = "session"
        /\ sessions' = sessions \union
             (IF UserThere(task[c].found) THEN {<<task[c].found, task[c].who>>} ELSE {})
    BY <1>18 DEF CreateSession
  <2>2. \A s \in sessions' : hca[s[1]] = s[2]
    BY <1>3, <2>1 DEF UserThere, Exists
  <2>3. QED BY <1>11, <2>1, <2>2
<1>19. CASE Fail(c)
  BY <1>3, <1>11, <1>19 DEF Fail
<1>20. QED
  BY <1>5, <1>6, <1>12, <1>13, <1>14, <1>15, <1>16, <1>17, <1>18, <1>19 DEF CallbackStep

\* And the steps of everybody else.
LEMMA FaithfulStep == ASSUME AccountsInv, [Next]_vars PROVE Faithful'
<1> USE NoneIsNobody
<1>1. SUFFICES ASSUME steady' PROVE Faithful'
  BY DEF Faithful
<1>2. Typed /\ Unique /\ Faithful
  BY DEF AccountsInv
<1>3. /\ hca \in [Rows -> People \union {None}]
      /\ email \in [Rows -> Emails \union {None}]
      /\ \A s \in sessions : s[1] \in Rows
      /\ target \in [AdminRequests -> Rows \union {None}]
      /\ steady \in BOOLEAN
      /\ Locals
  BY <1>2 DEF Typed, TypeOK
<1>4. ASSUME steady, UNCHANGED <<task, primary>>, sessions' \subseteq sessions, UNCHANGED <<hca, email>>
      PROVE  Faithful'
  BY <1>2, <1>4 DEF Faithful, OwnAddress, FoundOwn, Exists
<1>5. CASE CallbackNext
  <2>1. steady
    BY <1>1, <1>5 DEF CallbackNext
  <2>2. QED BY <1>2, <1>5, <2>1, FaithfulCallback
<1>6. CASE LoginNext
  BY <1>1, <1>4, <1>6 DEF LoginNext, userVars
<1>7. CASE AdminNext
  <2>1. PICK q \in AdminRequests : AdminStep(q)
    BY <1>7 DEF AdminNext
  <2>2. UNCHANGED <<primary, task>>
    BY <1>7 DEF AdminNext
  <2>3. CASE DeleteUser(q)
    <3>1. steady /\ target[q] \in Rows
      BY <1>1, <1>3, <2>3 DEF DeleteUser, AdminEnds
    <3>2. \A r \in Rows : /\ hca'[r] = IF r = target[q] THEN None ELSE hca[r]
                          /\ email'[r] = IF r = target[q] THEN None ELSE email[r]
      BY <1>3, <2>3 DEF DeleteUser
    <3>3. \A s \in sessions' : s \in sessions /\ s[1] # target[q]
      BY <2>3 DEF DeleteUser
    <3>4. \A c \in Callbacks : /\ task[c].pc \in {"update", "session"} => task[c].found \in Rows
                               /\ task[c].pc = "insert" => task[c].mail \in Emails
      BY <1>3 DEF Locals
    <3>5. OwnAddress'
      BY <1>2, <2>2, <3>1, <3>2 DEF Faithful, OwnAddress
    <3>6. FoundOwn'
      BY <1>2, <2>2, <3>1, <3>2, <3>4 DEF Faithful, FoundOwn, Exists
    <3>7. \A s \in sessions' : hca'[s[1]] = s[2]
      BY <1>2, <1>3, <3>1, <3>2, <3>3 DEF Faithful
    <3>8. QED BY <3>5, <3>6, <3>7 DEF Faithful
  <2>4. CASE AdminFails(q)
    BY <1>1, <1>4, <2>2, <2>4 DEF AdminFails, userVars
  <2>5. ASSUME NEW r \in Rows, AdminBegins(q, r) PROVE Faithful'
    BY <1>1, <1>4, <2>2, <2>5 DEF AdminBegins, userVars
  <2>6. ASSUME NEW e \in Emails \union {None}, NEW as \in Roles \union {None}, UpdateUser(q, e, as)
        PROVE  Faithful'
    <3>1. steady /\ e = None
      BY <1>1, <1>3, <2>6 DEF UpdateUser
    <3>2. QED BY <1>4, <2>2, <2>6, <3>1 DEF UpdateUser
  <2>7. QED
    BY <2>1, <2>3, <2>4, <2>5, <2>6 DEF AdminStep
<1>8. ASSUME NEW s \in sessions, SessionEnds(s) PROVE Faithful'
  BY <1>1, <1>4, <1>8 DEF SessionEnds, userVars
<1>9. ASSUME NEW p \in People, NEW e \in Emails \union {None}, MoveAddress(p, e) PROVE Faithful'
  BY <1>1, <1>9 DEF MoveAddress
<1>10. CASE UNCHANGED vars
  BY <1>1, <1>4, <1>10 DEF vars, userVars
<1>11. QED
  BY <1>5, <1>6, <1>7, <1>8, <1>9, <1>10 DEF Next

-----------------------------------------------------------------------------
\* The invariant holds in every reachable state.
THEOREM AccountsInvariant == Spec => []AccountsInv
<1>1. AccountsInv /\ [Next]_vars => AccountsInv'
  BY TypedStep, UniqueStep, FaithfulStep DEF AccountsInv
<1>2. QED
  BY AccountsInit, <1>1, PTL DEF Spec

\* Types are correct, and every session is one of a user who exists.
THEOREM TypeCorrect == Spec => []TypeOK
<1>1. AccountsInv => TypeOK
  BY DEF AccountsInv, Typed
<1>2. QED
  BY <1>1, AccountsInvariant, PTL

\* No race of sign-ins and admins gives a person or an address two accounts.
THEOREM AccountsUnique == Spec => []OneAccountEach
<1>1. AccountsInv => OneAccountEach
  BY DEF AccountsInv, Unique
<1>2. QED
  BY <1>1, AccountsInvariant, PTL

\* While addresses stay with their persons, sessions open their own accounts.
THEOREM SessionsOpenOwn == Spec => []OwnAccount
<1>1. AccountsInv => OwnAccount
  BY DEF AccountsInv, Faithful, OwnAccount
<1>2. QED
  BY <1>1, AccountsInvariant, PTL

\* A sign-in loses only against its own person's other sign-in.
THEOREM RefusedByOwnOnly == Spec => []OnlyOwnAccountRefuses
<1>1. AccountsInv => OnlyOwnAccountRefuses
  <2> SUFFICES ASSUME AccountsInv, steady, NEW c \in Callbacks,
                      NEW r \in Clashes(task[c].found, task[c].who, task[c].mail)
               PROVE  /\ task[c].pc = "insert" => hca[r] = task[c].who
                      /\ task[c].pc = "update" => ~Exists(task[c].found)
    BY DEF OnlyOwnAccountRefuses
  <2> USE NoneIsNobody
  <2>1. /\ r \in Rows /\ r # task[c].found /\ Exists(r)
        /\ hca[r] = task[c].who \/ email[r] = task[c].mail
    BY DEF Clashes
  <2>2. OwnAddress /\ FoundOwn /\ Locals /\ TypeOK /\ OneAccountEach
    BY DEF AccountsInv, Faithful, Typed, Unique
  <2>3. hca[r] \in People \union {None}
    BY <2>1, <2>2 DEF TypeOK
  <2>4. CASE task[c].pc = "insert"
    <3>1. task[c].who \in People /\ task[c].mail = primary[task[c].who] /\ task[c].mail \in Emails
      BY <2>2, <2>4 DEF Locals, OwnAddress
    <3>2. email[r] = task[c].mail => hca[r] # None /\ email[r] = primary[hca[r]]
      BY <2>1, <2>2, <2>4 DEF FoundOwn, OwnAddress
    <3>3. email[r] = task[c].mail => hca[r] = task[c].who
      BY <2>2, <2>3, <3>1, <3>2 DEF OwnAddress
    <3>4. QED BY <2>1, <2>4, <3>3
  <2>5. CASE task[c].pc = "update"
    <3>1. /\ task[c].who \in People /\ task[c].mail = primary[task[c].who]
          /\ task[c].mail \in Emails /\ task[c].found \in Rows
      BY <2>2, <2>5 DEF Locals, OwnAddress
    <3>2. email[r] = task[c].mail
      BY <2>1, <2>2, <3>1 DEF OwnAddress
    <3>3. ASSUME Exists(task[c].found) PROVE FALSE
      <4>1. email[task[c].found] = task[c].mail
        BY <2>2, <2>5, <3>3 DEF FoundOwn
      <4>2. QED BY <2>1, <2>2, <3>1, <3>2, <3>3, <4>1 DEF OneAccountEach
    <3>4. QED BY <2>5, <3>3
  <2>6. QED
    BY <2>4, <2>5
<1>2. QED
  BY <1>1, AccountsInvariant, PTL

\* Nobody becomes an admin but by an admin's request.
THEOREM AdminsFromAdmins == Spec => AdminsComeFromAdmins
<1>1. ASSUME TypeOK, [Next]_vars, NoAdmin PROVE NoAdmin'
  <2>1. /\ \A r \in Rows : role[r] # "admin"
        /\ \A q \in AdminRequests : target[q] = None
        /\ \A s \in sessions : s[1] \in Rows
        /\ role \in [Rows -> Roles]
    BY <1>1 DEF NoAdmin, TypeOK
  <2>2. UNCHANGED <<role, target>> => NoAdmin'
    BY <1>1 DEF NoAdmin
  <2>3. CASE CallbackNext
    <3>1. PICK c \in Callbacks : CallbackStep(c)
      BY <2>3 DEF CallbackNext
    <3>2. UNCHANGED target
      BY <2>3 DEF CallbackNext
    <3>3. UNCHANGED role \/ \E r \in Rows : role' = [role EXCEPT ![r] = "user"]
      BY <3>1 DEF CallbackStep, Callback, DeleteState, Redeem, Select, Update, Insert, InsertUser,
                  CreateSession, Fail, userVars
    <3>4. QED BY <2>1, <2>2, <3>2, <3>3 DEF NoAdmin
  <2>4. CASE AdminNext
    <3>1. PICK q \in AdminRequests : AdminStep(q)
      BY <2>4 DEF AdminNext
    <3>2. target[q] = None
      BY <2>1
    <3>3. PICK r \in Rows : AdminBegins(q, r)
      BY <3>1, <3>2 DEF AdminStep, DeleteUser, AdminFails, UpdateUser, AdminEnds
    <3>4. QED BY <2>1, <3>3 DEF AdminBegins, RequireAdmin
  <2>5. CASE LoginNext \/ UNCHANGED vars
    BY <2>2, <2>5 DEF LoginNext, vars, userVars
  <2>6. ASSUME NEW s \in sessions, SessionEnds(s) PROVE NoAdmin'
    BY <2>2, <2>6 DEF SessionEnds, userVars
  <2>7. ASSUME NEW p \in People, NEW e \in Emails \union {None}, MoveAddress(p, e) PROVE NoAdmin'
    BY <2>2, <2>7 DEF MoveAddress, userVars
  <2>8. QED
    BY <1>1, <2>3, <2>4, <2>5, <2>6, <2>7 DEF Next
<1>2. TypeOK /\ [Next]_vars => [NoAdmin => NoAdmin']_vars
  BY <1>1
<1>3. QED
  BY TypeCorrect, <1>2, PTL DEF Spec, AdminsComeFromAdmins
=============================================================================
