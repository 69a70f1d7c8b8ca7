------------------------------- MODULE Accounts -------------------------------
(***************************************************************************)
(* Sign-in with a Hack Club identity, the users and sessions tables, and   *)
(* the admin's edits of users.                                             *)
(*                                                                         *)
(* hackclub_login leaves a state in Redis; the browser comes back to       *)
(* hackclub_callback with that state and a code, possibly twice.  The      *)
(* callback reads and deletes the state in two calls, redeems the code for *)
(* the identity, finds the person's row by hca_id or by e-mail address,    *)
(* updates it or inserts one, and opens a session.  Nothing of this is a   *)
(* transaction, and rows change hands or go away in between.               *)
(*                                                                         *)
(* A state and its code are an attempt of the set Attempts, used again     *)
(* once no callback looks for it.  Sessions of one row opened by one       *)
(* person are the same thing here, since nothing treats them differently.  *)
(***************************************************************************)
EXTENDS Naturals

CONSTANTS People,      \* identities at Hack Club: values of hca_id
          Emails, Rows,
          Attempts, Callbacks,
          AdminRequests,
          None         \* SQL NULL

ASSUME NoneIsNobody == None \notin People \union Emails \union Rows \union Attempts

VARIABLES
  hca, email, role,  \* columns of users; email[r] = None if there is no row r
  sessions,          \* <<row, person>>: a session of row, opened by person
  primary,           \* primary_email of a person's identity, or None
  state,             \* attempts whose oauth:hackclub:{state} is in Redis
  code,              \* whom an attempt's code stands for; None once it is spent
  task,              \* a callback's step and local variables
  target,            \* the user_id an admin request is about to write, or None
  steady             \* history: no address has passed from one person to another

userVars == <<hca, email, role>>
linkVars == <<state, code>>
vars == <<userVars, sessions, primary, linkVars, task, target, steady>>

Roles == {"user", "admin"}   \* a reviewer is a user where accounts are concerned
Exists(r) == email[r] # None

CallbackPcs == {"delete_state", "redeem", "select", "update", "insert", "session"}
NoTask == [pc |-> "idle", attempt |-> None, who |-> None, mail |-> None, found |-> None]
Goto(c, label) == task' = [task EXCEPT ![c].pc = label]
Ends(c) == task' = [task EXCEPT ![c] = NoTask]

Distinct(f) == \A p, q \in DOMAIN f : f[p] = f[q] /\ f[p] # None => p = q

\* Rows from before migration 0002 have no hca_id; the first admin is one of
\* them.
Init ==
    /\ hca = [r \in Rows |-> None]
    /\ email \in {f \in [Rows -> Emails \union {None}] : Distinct(f)}
    /\ role \in {f \in [Rows -> Roles] : \A r \in Rows : ~Exists(r) => f[r] = "user"}
    /\ primary \in {f \in [People -> Emails] : Distinct(f)}
    /\ sessions = {}
    /\ state = {}
    /\ code = [a \in Attempts |-> None]
    /\ task = [c \in Callbacks |-> NoTask]
    /\ target = [q \in AdminRequests |-> None]
    /\ steady = TRUE

-----------------------------------------------------------------------------
\* hackclub_login makes a state, and Hack Club sends the person back with a
\* code, which it honours once.
Login(a, p) ==
    /\ a \notin state /\ code[a] = None
    /\ \A c \in Callbacks : task[c].attempt # a
    /\ state' = state \union {a}
    /\ code' = [code EXCEPT ![a] = p]

\* SETEX for ten minutes; a code that nobody redeems is short-lived too.
LinkExpires(a) ==
    /\ state' = state \ {a}
    /\ code' = [code EXCEPT ![a] = None]

-----------------------------------------------------------------------------
\* get_json finds the state, or the callback ends as expired.
Callback(c, a) ==
    /\ task[c].pc = "idle"
    /\ a \in state
    /\ task' = [task EXCEPT ![c] = [NoTask EXCEPT !.pc = "delete_state", !.attempt = a]]
    /\ UNCHANGED <<userVars, sessions, linkVars>>

\* A DEL that fails is not noticed.
DeleteState(c) ==
    /\ task[c].pc = "delete_state"
    /\ state' = state \ {task[c].attempt} \/ UNCHANGED state
    /\ Goto(c, "redeem")
    /\ UNCHANGED <<userVars, sessions, code>>

\* hackclub_identity, which may come without an address
Redeem(c) ==
    /\ task[c].pc = "redeem"
    /\ LET p == code[task[c].attempt] IN
         IF p # None /\ primary[p] # None
           THEN task' = [task EXCEPT ![c] = [NoTask EXCEPT !.pc = "select", !.who = p, !.mail = primary[p]]]
           ELSE Ends(c)
    /\ code' = [code EXCEPT ![task[c].attempt] = None]
    /\ UNCHANGED <<userVars, sessions, state>>

\* WHERE hca_id = $1 OR email = $2
OnlyByIdentity(r, p, e) == Exists(r) /\ hca[r] = p
Matches(r, p, e) == Exists(r) /\ (hca[r] = p \/ email[r] = e)

\* ORDER BY (hca_id = $1) DESC: NULL comes before TRUE, TRUE before FALSE.
Rank(r, p) == CASE hca[r] = None -> 0 [] hca[r] = p -> 1 [] OTHER -> 2

Found(p, e) ==
    LET rows == {r \in Rows : Matches(r, p, e)}
    IN  {r \in rows : \A s \in rows : Rank(r, p) <= Rank(s, p)}

Select(c) ==
    /\ task[c].pc = "select"
    /\ IF Found(task[c].who, task[c].mail) = {} THEN Goto(c, "insert")
       ELSE \E r \in Found(task[c].who, task[c].mail) :
              task' = [task EXCEPT ![c].pc = "update", ![c].found = r]
    /\ UNCHANGED <<userVars, sessions, linkVars>>

\* The unique columns: the rows other than r with the identity or the address.
NoUniqueColumns(r, p, e) == {}
Clashes(r, p, e) ==
    {s \in Rows \ {r} : Exists(s) /\ (hca[s] = p \/ email[s] = e)}

\* UPDATE ... WHERE id: a row that has gone is not missed until the session.
KeepsIdentity(r, p) == hca
WithIdentity(r, p) == [hca EXCEPT ![r] = p]

Update(c) ==
    /\ task[c].pc = "update"
    /\ LET r == task[c].found IN
         \/ ~Exists(r) /\ Goto(c, "session") /\ UNCHANGED userVars
         \/ /\ Exists(r)
            /\ Clashes(r, task[c].who, task[c].mail) # {}
            /\ Ends(c) /\ UNCHANGED userVars
         \/ /\ Exists(r)
            /\ Clashes(r, task[c].who, task[c].mail) = {}
            /\ hca' = WithIdentity(r, task[c].who)
            /\ email' = [email EXCEPT ![r] = task[c].mail]
            /\ Goto(c, "session")
            /\ UNCHANGED role
    /\ UNCHANGED <<sessions, linkVars>>

\* A UUID that nothing refers to stands for a new one.
Fresh(r) ==
    /\ ~Exists(r)
    /\ \A c \in Callbacks : task[c].found # r
    /\ \A q \in AdminRequests : target[q] # r

InsertUser(r, p, e) ==
    /\ hca' = [hca EXCEPT ![r] = p]
    /\ email' = [email EXCEPT ![r] = e]
    /\ role' = [role EXCEPT ![r] = "user"]

Insert(c) ==
    /\ task[c].pc = "insert"
    /\ IF Clashes(None, task[c].who, task[c].mail) # {}
         THEN Ends(c) /\ UNCHANGED userVars
         ELSE \E r \in Rows :
                /\ Fresh(r)
                /\ InsertUser(r, task[c].who, task[c].mail)
                /\ task' = [task EXCEPT ![c].pc = "session", ![c].found = r]
    /\ UNCHANGED <<sessions, linkVars>>

\* create_session; the foreign key refuses a row that is gone.  Whether the
\* answer is lost makes no difference to what is left behind.
NoForeignKey(r) == TRUE
UserThere(r) == Exists(r)

CreateSession(c) ==
    /\ task[c].pc = "session"
    /\ sessions' = sessions \union (IF UserThere(task[c].found)
                                     THEN {<<task[c].found, task[c].who>>} ELSE {})
    /\ Ends(c)
    /\ UNCHANGED <<userVars, linkVars>>

\* No code in the query, a refusal of the provider, a failing statement, a
\* dropped request.
Fail(c) ==
    /\ task[c].pc # "idle"
    /\ Ends(c)
    /\ code' = IF task[c].pc = "redeem" THEN [code EXCEPT ![task[c].attempt] = None] ELSE code
    /\ UNCHANGED <<userVars, sessions, state>>

-----------------------------------------------------------------------------
\* logout, or expires_at passes: from then on the session opens nothing.
SessionEnds(s) ==
    /\ sessions' = sessions \ {s}
    /\ UNCHANGED <<userVars, linkVars, task, target, primary, steady>>

\* current_session_user joins the session with its user, ensure_user looks for
\* the target; what they read is good for the whole request.
AnySession(s) == TRUE
RequireAdmin(s) == role[s[1]] = "admin"

AdminBegins(q, r) ==
    /\ target[q] = None
    /\ \E s \in sessions : RequireAdmin(s)
    /\ Exists(r)
    /\ target' = [target EXCEPT ![q] = r]
    /\ UNCHANGED <<userVars, sessions, steady>>

AdminEnds(q) == target[q] # None /\ target' = [target EXCEPT ![q] = None]

\* update_user_role and admin_update_user; None where COALESCE keeps a column.
\* The row may now bear the address of somebody else.
UpdateUser(q, e, as) ==
    /\ AdminEnds(q)
    /\ Exists(target[q])
    /\ e # None => \A r \in Rows \ {target[q]} : email[r] # e
    /\ email' = IF e = None THEN email ELSE [email EXCEPT ![target[q]] = e]
    /\ role' = IF as = None THEN role ELSE [role EXCEPT ![target[q]] = as]
    /\ steady' = (steady /\ e = None)
    /\ UNCHANGED <<hca, sessions>>

\* admin_delete_user; the sessions go with the row.
DeleteUser(q) ==
    /\ AdminEnds(q)
    /\ hca' = [hca EXCEPT ![target[q]] = None]
    /\ email' = [email EXCEPT ![target[q]] = None]
    /\ role' = [role EXCEPT ![target[q]] = "user"]
    /\ sessions' = {s \in sessions : s[1] # target[q]}
    /\ UNCHANGED steady

\* A statement that fails, a unique column or a foreign key that refuses, a
\* target that has gone, a request that is dropped.
AdminFails(q) == AdminEnds(q) /\ UNCHANGED <<userVars, sessions, steady>>

\* At Hack Club a person gives up an address, or verifies a new one, which
\* another person may have given up.
MoveAddress(p, e) ==
    /\ primary' = [primary EXCEPT ![p] = e]
    /\ Distinct(primary')
    /\ steady' = FALSE
    /\ UNCHANGED <<userVars, sessions, linkVars, task, target>>

-----------------------------------------------------------------------------
LoginNext ==
    /\ \E a \in Attempts : LinkExpires(a) \/ (\E p \in People : Login(a, p))
    /\ UNCHANGED <<userVars, sessions, primary, task, target, steady>>

CallbackStep(c) ==
    \/ \E a \in Attempts : Callback(c, a)
    \/ DeleteState(c) \/ Redeem(c) \/ Select(c) \/ Update(c) \/ Insert(c) \/ CreateSession(c)
    \/ Fail(c)

CallbackNext ==
    /\ \E c \in Callbacks : CallbackStep(c)
    /\ UNCHANGED <<primary, target, steady>>

AdminStep(q) ==
    \/ DeleteUser(q) \/ AdminFails(q)
    \/ \E r \in Rows : AdminBegins(q, r)
    \/ \E e \in Emails \union {None}, as \in Roles \union {None} : UpdateUser(q, e, as)

AdminNext ==
    /\ \E q \in AdminRequests : AdminStep(q)
    /\ UNCHANGED <<primary, linkVars, task>>

Next ==
    \/ LoginNext \/ CallbackNext \/ AdminNext
    \/ \E s \in sessions : SessionEnds(s)
    \/ \E p \in People, e \in Emails \union {None} : MoveAddress(p, e)

Spec == Init /\ [][Next]_vars

-----------------------------------------------------------------------------
\* Every variable holds what its column, key or local variable can hold, and a
\* session is always one of an existing user.
TypeOK ==
    /\ hca \in [Rows -> People \union {None}]
    /\ email \in [Rows -> Emails \union {None}]
    /\ role \in [Rows -> Roles]
    /\ sessions \subseteq {r \in Rows : Exists(r)} \X People
    /\ primary \in [People -> Emails \union {None}]
    /\ state \subseteq Attempts
    /\ code \in [Attempts -> People \union {None}]
    /\ task \in [Callbacks -> {NoTask} \union
                 [pc : CallbackPcs, attempt : Attempts \union {None}, who : People \union {None},
                  mail : Emails \union {None}, found : Rows \union {None}]]
    /\ target \in [AdminRequests -> Rows \union {None}]
    /\ steady \in BOOLEAN

\* A person has one account and an address has one account, however many
\* first sign-ins of the person race and whatever addresses move.
OneAccountEach ==
    \A r, s \in Rows :
        Exists(r) /\ Exists(s) /\ r # s => email[r] # email[s] /\ (hca[r] # None => hca[r] # hca[s])

\* While addresses stay with their persons, a session opens the account of
\* the person who signed in, also if accounts are deleted and made meanwhile.
OwnAccount == steady => \A s \in sessions : hca[s[1]] = s[2]

\* While addresses stay with their persons, a sign-in is refused by a unique
\* column only because of the person's own account, which a race has just
\* made: the next attempt finds it.
OnlyOwnAccountRefuses ==
    steady => \A c \in Callbacks :
        \A r \in Clashes(task[c].found, task[c].who, task[c].mail) :
            /\ task[c].pc = "insert" => hca[r] = task[c].who
            /\ task[c].pc = "update" => ~Exists(task[c].found)

\* Where there is no admin and no request that an admin began is under way,
\* it stays so: signing in, linking an old row or losing a race never grants
\* the role, and an admin who was demoted can finish requests, but begin none.
NoAdmin == (\A r \in Rows : role[r] # "admin") /\ (\A q \in AdminRequests : target[q] = None)
AdminsComeFromAdmins == [][NoAdmin => NoAdmin']_vars
=============================================================================
