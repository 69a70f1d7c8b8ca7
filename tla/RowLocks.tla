------------------------------- MODULE RowLocks -------------------------------
(***************************************************************************)
(* The row locks that the statements of the backend take, until COMMIT, in *)
(* PostgreSQL: what locks an operation needs and in which order follows    *)
(* from its SQL and from the foreign keys of the migrations.               *)
(*                                                                         *)
(*   update          FOR UPDATE, DELETE                                    *)
(*   no_key_update   UPDATE of columns no foreign key can refer to         *)
(*   key_share       INSERT or UPDATE of a row that refers to this one     *)
(*   restrict        no lock: ON DELETE RESTRICT looks for referring rows  *)
(*                                                                         *)
(* A row that depends on a project (its shipment) or on a user (the        *)
(* wallet) exists as long as that does: it is named by it, and inserting   *)
(* it locks it like an update.  A link is a row of its own: DELETE locks   *)
(* those it finds and INSERT the one it makes.  So is a value of a column  *)
(* that is UNIQUE: whoever writes it, in a row of their own, waits for an  *)
(* open transaction that has taken or given up the same value.             *)
(*                                                                         *)
(* Left out are statements that commit by themselves and hold nothing that *)
(* anybody waits for while they wait: UPDATEs and DELETEs of one row that  *)
(* leave its unique columns alone, and INSERTs whose unique values are     *)
(* awaited by the same INSERT only (a registration, a connection) or by    *)
(* nobody (a session, a new project).  The unique values of credits and    *)
(* purchases are left out because their writers meet at a lock before.     *)
(***************************************************************************)
EXTENDS Naturals

CONSTANTS Users, Projects, Items,
          Names,        \* Hackatime names that can be linked to a project
          Unique,       \* values of users.email, users.hca_id and of the
                        \* columns that hold Airtable record ids
          Owner,        \* projects.owner_id
          ReviewerOf,   \* project_shipments.project_reviewer_id, or None
          Tasks,        \* requests and synchronisations
          Uploads,      \* banner uploads, whose UPDATE waits for locks too
          None

Transactions == Tasks \union Uploads

ASSUME OwnersAreUsers == Owner \in [Projects -> Users]
ASSUME ReviewersAreUsers == ReviewerOf \in [Projects -> Users \union {None}]
ASSUME NoneIsNothing == None \notin Users \union Projects \union Items
ASSUME TasksAreNoUploads == Tasks \intersect Uploads = {}

VARIABLES
  users, projects,   \* rows that exist
  awarded,           \* projects with a row in project_credit_awards
  bought,            \* <<user, item>> of the rows of shop_purchases
  op,                \* the operation of an open transaction, or None
  taken              \* the locks a transaction has taken

rowVars == <<users, projects, awarded, bought>>
lockVars == <<rowVars, op, taken>>

\* The rows of which a statement can write a unique column.
Bearers == ({"user"} \X Users) \union ({"shipment"} \X Projects)

\* found: the links that a DELETE meets, whatever others have made of them;
\* keys: the values that a statement takes and gives up, in a row that exists
\* or, at sign-up, in a new one.
Operations ==
    [kind : {"award", "ship"}, of : Projects]
      \union [kind : {"links"}, of : Projects, found : SUBSET Names, names : SUBSET Names]
      \union [kind : {"review_row", "review"}, of : Projects, by : Users]
      \union [kind : {"purchase"}, of : Items, by : Users]
      \union [kind : {"unique"}, row : Bearers \union {None}, keys : (SUBSET Unique) \ {{}}]
      \union [kind : {"delete_project"}, of : Projects, found : SUBSET Names]
      \union {o \in [kind : {"delete_user"}, of : Users, found : SUBSET (Projects \X Names)] :
                \A f \in o.found : Owner[f[1]] = o.of}

BannerUpdates == [kind : {"banner"}, of : Projects]

RowLocksInit ==
    /\ users = Users
    /\ projects = Projects
    /\ awarded = {}
    /\ bought = {}
    /\ op = [t \in Transactions |-> None]
    /\ taken = [t \in Transactions |-> {}]

-----------------------------------------------------------------------------
\* The lock an operation takes as its at-th on the row of a table.
Lock(at, table, id, mode) == [at |-> at, row |-> <<table, id>>, mode |-> mode]
LinkLock(at, p, n) == [at |-> at, row |-> <<"link", p, n>>, mode |-> "update"]

\* SELECT ... FOR UPDATE, then the award row, then the wallet.  An award that
\* was given before ends at its row; committing it again changes nothing.
ProjectLockingAward(p) ==
    {Lock(1, "shipment", p, "update"), Lock(2, "project", p, "update"),
     Lock(3, "user", Owner[p], "key_share"), Lock(4, "wallet", Owner[p], "no_key_update")}
AwardLocks(p) ==
    {Lock(1, "shipment", p, "update"), Lock(2, "project", p, "key_share"),
     Lock(3, "user", Owner[p], "key_share"), Lock(4, "wallet", Owner[p], "no_key_update")}

\* SELECT ... FOR UPDATE, then the debit, then the purchase row
PurchaseLocks(i, u) ==
    {Lock(1, "item", i, "update"), Lock(2, "wallet", u, "no_key_update"),
     Lock(3, "user", u, "key_share")}

\* DELETE of the links that are found, INSERT of the new ones (sorted in the
\* code, in any order here), which refer to the project, and UPDATE projects
LinksLocks(p, found, names) ==
    {LinkLock(1, p, n) : n \in found} \union {LinkLock(2, p, n) : n \in names}
      \union (IF names = {} THEN {} ELSE {Lock(2, "project", p, "key_share")})
      \union {Lock(3, "project", p, "no_key_update")}

\* One statement each, of two rows: ship_project, and the two statements of
\* create_project_review.
ShipLocks(p) ==
    {Lock(1, "project", p, "no_key_update"), Lock(2, "shipment", p, "no_key_update")}
ReviewRowLocks(p, u) ==
    {Lock(1, "project", p, "key_share"), Lock(2, "user", u, "key_share")}
ReviewLocks(p, u) ==
    {Lock(1, "shipment", p, "no_key_update"), Lock(2, "user", u, "key_share")}

\* One statement, which locks its row and then, one by one, the values: a
\* sign-in or an admin writes users.email, a synchronisation a record id.
UniqueLocks(row, keys) ==
    (IF row = None THEN {} ELSE {Lock(1, row[1], row[2], "update")})
      \union {Lock(2, "unique", k, "update") : k \in keys}

\* The links and the shipment go with a project, an award forbids it.
Cascade(p, found) ==
    {LinkLock(6, p, n) : n \in found}
      \union {Lock(7, "shipment", p, "update"), Lock(8, "project", p, "restrict")}

\* The projects and the wallet go with a user, who is taken off shipments that
\* they reviewed; an award or a purchase forbids it.
DeleteUserLocks(u, found) ==
    LET own == {p \in Projects : Owner[p] = u} IN
      {Lock(1, "user", u, "update"), Lock(4, "wallet", u, "update"),
       Lock(5, "user", u, "restrict")}
        \union {Lock(2, "project", p, "update") : p \in own}
        \union {Lock(3, "shipment", p, "no_key_update") : p \in {q \in Projects : ReviewerOf[q] = u}}
        \union UNION {Cascade(p, {n \in Names : <<p, n>> \in found}) : p \in own}

LocksOf(o) ==
    CASE o.kind = "award" -> AwardLocks(o.of)
      [] o.kind = "purchase" -> PurchaseLocks(o.of, o.by)
      [] o.kind = "links" -> LinksLocks(o.of, o.found, o.names)
      [] o.kind = "ship" -> ShipLocks(o.of)
      [] o.kind = "review_row" -> ReviewRowLocks(o.of, o.by)
      [] o.kind = "review" -> ReviewLocks(o.of, o.by)
      [] o.kind = "banner" -> {Lock(1, "project", o.of, "no_key_update")}
      [] o.kind = "unique" -> UniqueLocks(o.row, o.keys)
      [] o.kind = "delete_project" -> {Lock(1, "project", o.of, "update")} \union Cascade(o.of, o.found)
      [] o.kind = "delete_user" -> DeleteUserLocks(o.of, o.found)

Deletes(o) == o.kind \in {"delete_user", "delete_project"}

Open(t) == op[t] # None
Left(t) == IF Open(t) THEN LocksOf(op[t]) \ taken[t] ELSE {}

\* A user's projects follow each other, here in any order.
Precedes(v, w) == v.at < w.at /\ (v.at < 6 \/ v.row[2] = w.row[2])
Upcoming(t) ==
    LET left == Left(t) IN {w \in left : \A v \in left : ~Precedes(v, w)}

Exists(row) ==
    CASE row[1] \in {"user", "wallet"} -> row[2] \in users
      [] row[1] \in {"project", "shipment"} -> row[2] \in projects
      [] row[1] \in {"item", "link", "unique"} -> TRUE

Conflict(m, n) == "update" \in {m, n} \/ (m = "no_key_update" /\ n = "no_key_update")

Blocks(t, w) == \E h \in taken[t] : h.row = w.row /\ w.mode # "restrict" /\ Conflict(h.mode, w.mode)

WaitsFor(s, t) == s # t /\ \E w \in Upcoming(s) : Exists(w.row) /\ Blocks(t, w)

-----------------------------------------------------------------------------
Begin(t, o) ==
    /\ ~Open(t)
    /\ op' = [op EXCEPT ![t] = o]
    /\ UNCHANGED <<rowVars, taken>>

\* Whatever way a transaction ends, its locks go with it.
EndsHolding(t) == op' = [op EXCEPT ![t] = None] /\ UNCHANGED taken
Ends(t) ==
    /\ op' = [op EXCEPT ![t] = None]
    /\ taken' = [taken EXCEPT ![t] = {}]

Gets(t, w) == taken' = [taken EXCEPT ![t] = @ \union {w}] /\ UNCHANGED op

Take(t, w) ==
    /\ w.mode # "restrict"
    /\ Exists(w.row)
    /\ \A s \in Transactions \ {t} : ~Blocks(s, w)
    /\ Gets(t, w)

\* The row is gone.  A cascade goes on without it; a SELECT or UPDATE finds
\* nothing and a foreign key fails, and the operation ends.
Miss(t, w) ==
    /\ ~Exists(w.row)
    /\ IF Deletes(op[t]) /\ w.at > 1 THEN Gets(t, w) ELSE Ends(t)

\* project_credit_awards and shop_purchases refer with ON DELETE RESTRICT.
OnlyAwarded(row) ==
    CASE row[1] = "project" -> row[2] \in awarded
      [] row[1] = "user" -> \E p \in awarded : Owner[p] = row[2]
Referenced(row) ==
    CASE row[1] = "project" -> row[2] \in awarded
      [] row[1] = "user" -> (\E p \in awarded : Owner[p] = row[2]) \/ (\E b \in bought : b[1] = row[2])

Restrict(t, w) ==
    /\ w.mode = "restrict"
    /\ Exists(w.row)
    /\ IF Referenced(w.row) THEN Ends(t) ELSE Gets(t, w)

GoesOn(t) ==
    /\ \E w \in Upcoming(t) : Take(t, w) \/ Miss(t, w) \/ Restrict(t, w)
    /\ UNCHANGED rowVars

GoneUsers(o) == IF o.kind = "delete_user" THEN {o.of} ELSE {}
GoneProjects(o) ==
    CASE o.kind = "delete_project" -> {o.of}
      [] o.kind = "delete_user" -> {p \in Projects : Owner[p] = o.of}
      [] OTHER -> {}

Commit(t) ==
    /\ Open(t)
    /\ Left(t) = {}
    /\ users' = users \ GoneUsers(op[t])
    /\ projects' = projects \ GoneProjects(op[t])
    /\ awarded' = awarded \union (IF op[t].kind = "award" THEN {op[t].of} ELSE {})
    /\ bought' = bought \union (IF op[t].kind = "purchase" THEN {<<op[t].by, op[t].of>>} ELSE {})
    /\ Ends(t)

\* Rolled back: an early return, a failed statement, a timeout or a crash, or
\* PostgreSQL, which finds a deadlock after a second and ends one of it.
GiveUp(t) == Open(t) /\ Ends(t) /\ UNCHANGED rowVars

TaskStep(t) ==
    \/ \E o \in Operations : Begin(t, o)
    \/ GoesOn(t) \/ Commit(t) \/ GiveUp(t)

-----------------------------------------------------------------------------
Modes == {"update", "no_key_update", "key_share", "restrict"}
Tables == {"user", "wallet", "project", "shipment", "item", "unique"}
Rows ==
    (Tables \X (Users \union Projects \union Items \union Unique))
      \union ({"link"} \X Projects \X Names)
Locks == [at : 1..8, row : Rows, mode : Modes]

RowLocksTypeOK ==
    /\ users \subseteq Users
    /\ projects \subseteq Projects
    /\ awarded \subseteq Projects
    /\ bought \subseteq Users \X Items
    /\ op \in [Transactions -> Operations \union BannerUpdates \union {None}]
    /\ taken \in [Transactions -> SUBSET Locks]
    /\ \A t \in Transactions : taken[t] # {} => Open(t) /\ taken[t] \subseteq LocksOf(op[t])

\* Two replacements of a project's links that have a name in common (the lock
\* in Redis, which keeps them apart, expires before they must end), and two
\* statements that write the same unique value.
Rivals(o, q) ==
    \/ /\ o.kind = "links" /\ q.kind = "links" /\ o.of = q.of
       /\ (o.found \union o.names) \intersect (q.found \union q.names) # {}
    \/ o.kind = "unique" /\ q.kind = "unique" /\ o.keys \intersect q.keys # {}

\* Transactions that all wait for each other include a deletion or two rivals:
\* otherwise awards, purchases, reviews, shipping, links, sign-ins and record
\* ids take their locks in orders that agree, whatever rows they are about.
DeadlocksAreKnown ==
    \A S \in SUBSET {t \in Transactions : Open(t) /\ ~Deletes(op[t])} :
        S # {} /\ (\A s, t \in S : s # t => ~Rivals(op[s], op[t]))
          => \E s \in S : \A t \in S : ~WaitsFor(s, t)

\* A credit keeps its project and owner and a purchase its buyer: the locks that
\* either holds until COMMIT leave a deletion no moment in which to miss it.
ReferencesHold ==
    /\ \A p \in awarded : p \in projects /\ Owner[p] \in users
    /\ \A b \in bought : b[1] \in users
    /\ \A p \in projects : Owner[p] \in users
=============================================================================
