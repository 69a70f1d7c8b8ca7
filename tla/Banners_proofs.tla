---------------------------- MODULE Banners_proofs ----------------------------
(***************************************************************************)
(* What holds of the row locks and of the banner uploads for any users,    *)
(* projects and items, and any number of transactions and uploads.         *)
(*                                                                         *)
(* The locks of each operation are described once (the lemmas about        *)
(* LocksOf); the invariant then says that locks are taken in that order,   *)
(* that two transactions never hold locks in conflict on a row that        *)
(* exists, and that a row outlives the locks held on it.                   *)
(***************************************************************************)
EXTENDS Banners, TLAPS

-----------------------------------------------------------------------------
\* What an operation is about, kind by kind.
LEMMA OperationKinds ==
  ASSUME NEW o \in Operations \union BannerUpdates
  PROVE  /\ o.kind \in {"award", "links", "ship", "banner", "review_row", "review", "purchase", "unique", "delete_project", "delete_user"}
         /\ o.kind \in {"award", "links", "ship", "banner", "review_row", "review", "delete_project"} => o.of \in Projects
         /\ o.kind \in {"review_row", "review", "purchase"} => o.by \in Users
         /\ o.kind = "purchase" => o.of \in Items
         /\ o.kind = "links" => o.found \subseteq Names /\ o.names \subseteq Names
         /\ o.kind = "unique" => o.row \in Bearers \union {None} /\ o.keys \subseteq Unique
         /\ o.kind = "delete_project" => o.found \subseteq Names
         /\ o.kind = "delete_user" => o.of \in Users
BY DEF Operations, BannerUpdates

\* The locks of an operation, kind by kind.
LEMMA LocksByKind ==
  ASSUME NEW o
  PROVE  /\ o.kind = "award" => LocksOf(o) = AwardLocks(o.of)
         /\ o.kind = "links" => LocksOf(o) = LinksLocks(o.of, o.found, o.names)
         /\ o.kind = "ship" => LocksOf(o) = ShipLocks(o.of)
         /\ o.kind = "banner" => LocksOf(o) = {Lock(1, "project", o.of, "no_key_update")}
         /\ o.kind = "review_row" => LocksOf(o) = ReviewRowLocks(o.of, o.by)
         /\ o.kind = "review" => LocksOf(o) = ReviewLocks(o.of, o.by)
         /\ o.kind = "purchase" => LocksOf(o) = PurchaseLocks(o.of, o.by)
         /\ o.kind = "unique" => LocksOf(o) = UniqueLocks(o.row, o.keys)
         /\ o.kind = "delete_project" => LocksOf(o) = {Lock(1, "project", o.of, "update")} \union Cascade(o.of, o.found)
         /\ o.kind = "delete_user" => LocksOf(o) = DeleteUserLocks(o.of, o.found)
BY DEF LocksOf

\* A row is a link, or a table and what it is found by there.
LEMMA RowParts ==
  ASSUME NEW row \in Rows
  PROVE  /\ row[1] \in Tables \union {"link"}
         /\ row[1] # "link" => row = <<row[1], row[2]>>
BY DEF Rows, Tables

\* Every operation asks for locks on rows there can be.
LEMMA LocksTyped ==
  ASSUME NEW o \in Operations \union BannerUpdates
  PROVE  LocksOf(o) \subseteq Locks
<1> USE DEF Lock, LinkLock, Locks, Rows, Tables, Modes
<1>1. \A p \in Projects : Owner[p] \in Users
  BY OwnersAreUsers
<1>2. ASSUME NEW p \in Projects, NEW found \in SUBSET Names PROVE Cascade(p, found) \subseteq Locks
  BY DEF Cascade
<1>3. ASSUME NEW u \in Users, NEW found PROVE DeleteUserLocks(u, found) \subseteq Locks
  <2>1. /\ Lock(1, "user", u, "update") \in Locks
        /\ Lock(4, "wallet", u, "update") \in Locks
        /\ Lock(5, "user", u, "restrict") \in Locks
    OBVIOUS
  <2>2. ASSUME NEW p \in Projects
        PROVE  Lock(2, "project", p, "update") \in Locks /\ Lock(3, "shipment", p, "no_key_update") \in Locks
    OBVIOUS
  <2>3. ASSUME NEW p \in Projects PROVE Cascade(p, {n \in Names : <<p, n>> \in found}) \subseteq Locks
    BY <1>2
  <2> HIDE DEF Lock, LinkLock, Locks
  <2>4. QED BY <2>1, <2>2, <2>3 DEF DeleteUserLocks
<1>4. ASSUME NEW p \in Projects
      PROVE  /\ AwardLocks(p) \subseteq Locks
             /\ ShipLocks(p) \subseteq Locks
             /\ Lock(1, "project", p, "no_key_update") \in Locks
             /\ Lock(1, "project", p, "update") \in Locks
  BY <1>1 DEF AwardLocks, ShipLocks
<1>5. ASSUME NEW p \in Projects, NEW u \in Users PROVE ReviewLocks(p, u) \subseteq Locks /\ ReviewRowLocks(p, u) \subseteq Locks
  BY DEF ReviewLocks, ReviewRowLocks
<1>6. ASSUME NEW u \in Users, NEW i \in Items PROVE PurchaseLocks(i, u) \subseteq Locks
  BY DEF PurchaseLocks
<1>17. ASSUME NEW p \in Projects, NEW found \in SUBSET Names, NEW names \in SUBSET Names
       PROVE  LinksLocks(p, found, names) \subseteq Locks
  BY DEF LinksLocks
<1>18. ASSUME NEW row \in Bearers \union {None}, NEW keys \in SUBSET Unique PROVE UniqueLocks(row, keys) \subseteq Locks
  BY DEF UniqueLocks, Bearers
<1> HIDE DEF Lock, LinkLock, Locks, Rows, Tables, Modes
<1>7. CASE o.kind = "award"
  <2>1. LocksOf(o) = AwardLocks(o.of)
    BY <1>7, LocksByKind
  <2>2. o.of \in Projects
    BY <1>7, OperationKinds
  <2>3. QED BY <1>4, <2>1, <2>2
<1>8. CASE o.kind = "links"
  <2>1. LocksOf(o) = LinksLocks(o.of, o.found, o.names)
    BY <1>8, LocksByKind
  <2>2. o.of \in Projects /\ o.found \subseteq Names /\ o.names \subseteq Names
    BY <1>8, OperationKinds
  <2>3. QED BY <1>17, <2>1, <2>2
<1>9. CASE o.kind = "ship"
  <2>1. LocksOf(o) = ShipLocks(o.of)
    BY <1>9, LocksByKind
  <2>2. o.of \in Projects
    BY <1>9, OperationKinds
  <2>3. QED BY <1>4, <2>1, <2>2
<1>10. CASE o.kind = "banner"
  <2>1. LocksOf(o) = {Lock(1, "project", o.of, "no_key_update")}
    BY <1>10, LocksByKind
  <2>2. o.of \in Projects
    BY <1>10, OperationKinds
  <2>3. QED BY <1>4, <2>1, <2>2
<1>11. CASE o.kind = "review"
  <2>1. LocksOf(o) = ReviewLocks(o.of, o.by)
    BY <1>11, LocksByKind
  <2>2. o.of \in Projects /\ o.by \in Users
    BY <1>11, OperationKinds
  <2>3. QED BY <1>5, <2>1, <2>2
<1>12. CASE o.kind = "purchase"
  <2>1. LocksOf(o) = PurchaseLocks(o.of, o.by)
    BY <1>12, LocksByKind
  <2>2. o.of \in Items /\ o.by \in Users
    BY <1>12, OperationKinds
  <2>3. QED BY <1>6, <2>1, <2>2
<1>13. CASE o.kind = "delete_project"
  <2>1. LocksOf(o) = {Lock(1, "project", o.of, "update")} \union Cascade(o.of, o.found)
    BY <1>13, LocksByKind
  <2>2. o.of \in Projects /\ o.found \subseteq Names
    BY <1>13, OperationKinds
  <2>3. QED BY <1>2, <1>4, <2>1, <2>2
<1>14. CASE o.kind = "delete_user"
  <2>1. LocksOf(o) = DeleteUserLocks(o.of, o.found)
    BY <1>14, LocksByKind
  <2>2. o.of \in Users
    BY <1>14, OperationKinds
  <2>3. QED BY <1>3, <2>1, <2>2
<1>15. CASE o.kind = "review_row"
  <2>1. LocksOf(o) = ReviewRowLocks(o.of, o.by)
    BY <1>15, LocksByKind
  <2>2. o.of \in Projects /\ o.by \in Users
    BY <1>15, OperationKinds
  <2>3. QED BY <1>5, <2>1, <2>2
<1>16. CASE o.kind = "unique"
  <2>1. LocksOf(o) = UniqueLocks(o.row, o.keys)
    BY <1>16, LocksByKind
  <2>2. o.row \in Bearers \union {None} /\ o.keys \subseteq Unique
    BY <1>16, OperationKinds
  <2>3. QED BY <1>18, <2>1, <2>2
<1>19. QED
  BY <1>7, <1>8, <1>9, <1>10, <1>11, <1>12, <1>13, <1>14, <1>15, <1>16, OperationKinds

-----------------------------------------------------------------------------
\* An operation that deletes nothing and writes no unique column.
Plain(o) == ~Deletes(o) /\ o.kind # "unique"

\* Where a table stands in the order in which such operations lock its rows.
Rank(table) ==
    CASE table = "project" -> 1
      [] table \in {"item", "shipment"} -> 2
      [] OTHER -> 3

\* It locks a row against all others only in three tables, and shares keys only
\* in the two that have references; the links it locks are of its project.
LEMMA PlainLocks ==
  ASSUME NEW o \in Operations \union BannerUpdates, Plain(o), NEW h \in LocksOf(o)
  PROVE  /\ h.mode \in {"update", "no_key_update", "key_share"}
         /\ h.mode = "update" => h.row[1] \in {"shipment", "item", "link"}
         /\ h.mode = "key_share" => h.row[1] \in {"project", "user"}
         /\ h.at \in 1..4
         /\ h.row[1] # "unique"
         /\ h.row[1] = "link" =>
              o.kind = "links" /\ \E n \in o.found \union o.names : h.row = <<"link", o.of, n>>
<1> USE DEF Lock, LinkLock
<1>1. CASE o.kind = "award"
  <2>1. LocksOf(o) = AwardLocks(o.of)
    BY <1>1, LocksByKind
  <2>2. QED BY <2>1 DEF AwardLocks
<1>2. CASE o.kind = "links"
  <2>1. LocksOf(o) = LinksLocks(o.of, o.found, o.names)
    BY <1>2, LocksByKind
  <2>2. CASE \E n \in o.found \union o.names : h \in {LinkLock(1, o.of, n), LinkLock(2, o.of, n)}
    BY <1>2, <2>2
  <2>3. CASE h \in {Lock(2, "project", o.of, "key_share"), Lock(3, "project", o.of, "no_key_update")}
    BY <2>3
  <2>4. QED BY <2>1, <2>2, <2>3 DEF LinksLocks
<1>3. CASE o.kind = "ship"
  <2>1. LocksOf(o) = ShipLocks(o.of)
    BY <1>3, LocksByKind
  <2>2. QED BY <2>1 DEF ShipLocks
<1>4. CASE o.kind = "banner"
  <2>1. LocksOf(o) = {Lock(1, "project", o.of, "no_key_update")}
    BY <1>4, LocksByKind
  <2>2. QED BY <2>1
<1>5. CASE o.kind = "review"
  <2>1. LocksOf(o) = ReviewLocks(o.of, o.by)
    BY <1>5, LocksByKind
  <2>2. QED BY <2>1 DEF ReviewLocks
<1>6. CASE o.kind = "purchase"
  <2>1. LocksOf(o) = PurchaseLocks(o.of, o.by)
    BY <1>6, LocksByKind
  <2>2. QED BY <2>1 DEF PurchaseLocks
<1>7. CASE o.kind = "review_row"
  <2>1. LocksOf(o) = ReviewRowLocks(o.of, o.by)
    BY <1>7, LocksByKind
  <2>2. QED BY <2>1 DEF ReviewRowLocks
<1>8. QED
  BY <1>1, <1>2, <1>3, <1>4, <1>5, <1>6, <1>7, OperationKinds DEF Plain, Deletes

\* A statement that writes unique columns locks its row, then the values.
LEMMA UniqueLocked ==
  ASSUME NEW o \in Operations \union BannerUpdates, o.kind = "unique", NEW h \in LocksOf(o)
  PROVE  /\ h.mode = "update"
         /\ h.row[1] # "link"
         /\ \/ h.at = 1 /\ o.row # None /\ h = Lock(1, o.row[1], o.row[2], "update") /\ h.row[1] \in {"user", "shipment"}
            \/ h.at = 2 /\ \E k \in o.keys : h.row = <<"unique", k>>
<1>1. LocksOf(o) = UniqueLocks(o.row, o.keys) /\ o.row \in Bearers \union {None}
  BY LocksByKind, OperationKinds
<1>2. CASE o.row # None /\ h = Lock(1, o.row[1], o.row[2], "update")
  BY <1>1, <1>2 DEF Lock, Bearers
<1>3. CASE \E k \in o.keys : h = Lock(2, "unique", k, "update")
  BY <1>3 DEF Lock
<1>4. QED
  BY <1>1, <1>2, <1>3 DEF UniqueLocks

\* What deletes nothing takes locks only, and locks what exists.
LEMMA UndeletingModes ==
  ASSUME NEW o \in Operations \union BannerUpdates, ~Deletes(o), NEW h \in LocksOf(o)
  PROVE  h.mode \in {"update", "no_key_update", "key_share"}
BY PlainLocks, UniqueLocked DEF Plain

\* Apart from links and shared keys, a plain operation goes up the ranks.
LEMMA PlainOrder ==
  ASSUME NEW o \in Operations \union BannerUpdates, Plain(o),
         NEW h \in LocksOf(o), NEW w \in LocksOf(o), h.row[1] # "link", w.row[1] # "link"
  PROVE  /\ h # w => h.at # w.at
         /\ h.at < w.at /\ "key_share" \notin {h.mode, w.mode} => Rank(h.row[1]) < Rank(w.row[1])
<1> USE DEF Lock, LinkLock, Rank
<1>1. CASE o.kind = "award"
  <2>1. LocksOf(o) = AwardLocks(o.of)
    BY <1>1, LocksByKind
  <2>2. QED BY <2>1 DEF AwardLocks
<1>2. CASE o.kind = "links"
  <2>1. LocksOf(o) = LinksLocks(o.of, o.found, o.names)
    BY <1>2, LocksByKind
  <2>2. QED BY <2>1 DEF LinksLocks
<1>3. CASE o.kind = "ship"
  <2>1. LocksOf(o) = ShipLocks(o.of)
    BY <1>3, LocksByKind
  <2>2. QED BY <2>1 DEF ShipLocks
<1>4. CASE o.kind = "banner"
  <2>1. LocksOf(o) = {Lock(1, "project", o.of, "no_key_update")}
    BY <1>4, LocksByKind
  <2>2. QED BY <2>1
<1>5. CASE o.kind = "review"
  <2>1. LocksOf(o) = ReviewLocks(o.of, o.by)
    BY <1>5, LocksByKind
  <2>2. QED BY <2>1 DEF ReviewLocks
<1>6. CASE o.kind = "purchase"
  <2>1. LocksOf(o) = PurchaseLocks(o.of, o.by)
    BY <1>6, LocksByKind
  <2>2. QED BY <2>1 DEF PurchaseLocks
<1>7. CASE o.kind = "review_row"
  <2>1. LocksOf(o) = ReviewRowLocks(o.of, o.by)
    BY <1>7, LocksByKind
  <2>2. QED BY <2>1 DEF ReviewRowLocks
<1>8. QED
  BY <1>1, <1>2, <1>3, <1>4, <1>5, <1>6, <1>7, OperationKinds DEF Plain, Deletes

\* What a deletion has locked against all others when it has all its locks.
LEMMA DeletionLocks ==
  ASSUME NEW o \in Operations \union BannerUpdates
  PROVE  /\ \A u \in GoneUsers(o) : \A table \in {"user", "wallet"} :
              \E h \in LocksOf(o) : h.row = <<table, u>> /\ h.mode = "update"
         /\ \A p \in GoneProjects(o) : \A table \in {"project", "shipment"} :
              \E h \in LocksOf(o) : h.row = <<table, p>> /\ h.mode = "update"
<1>1. ASSUME NEW p, NEW found
      PROVE  \E h \in Cascade(p, found) : h.row = <<"shipment", p>> /\ h.mode = "update"
  <2>1. Lock(7, "shipment", p, "update") \in Cascade(p, found)
    BY DEF Cascade
  <2>2. QED BY <2>1 DEF Lock
<1>2. ASSUME NEW p
      PROVE  /\ Lock(1, "project", p, "update").row = <<"project", p>>
             /\ Lock(1, "project", p, "update").mode = "update"
             /\ Lock(2, "project", p, "update").row = <<"project", p>>
             /\ Lock(2, "project", p, "update").mode = "update"
             /\ Lock(1, "user", p, "update").row = <<"user", p>>
             /\ Lock(1, "user", p, "update").mode = "update"
             /\ Lock(4, "wallet", p, "update").row = <<"wallet", p>>
             /\ Lock(4, "wallet", p, "update").mode = "update"
  BY DEF Lock
<1>3. CASE o.kind = "delete_project"
  <2>1. GoneUsers(o) = {} /\ GoneProjects(o) = {o.of} /\ LocksOf(o) = {Lock(1, "project", o.of, "update")} \union Cascade(o.of, o.found)
    BY <1>3, LocksByKind DEF GoneProjects, GoneUsers
  <2>2. \E h \in LocksOf(o) : h.row = <<"project", o.of>> /\ h.mode = "update"
    <3>1. Lock(1, "project", o.of, "update") \in LocksOf(o)
      BY <2>1
    <3>2. QED BY <1>2, <3>1
  <2>3. \E h \in LocksOf(o) : h.row = <<"shipment", o.of>> /\ h.mode = "update"
    BY <1>1, <2>1
  <2>4. QED BY <1>3, <2>1, <2>2, <2>3
<1>4. CASE o.kind = "delete_user"
  <2>1. GoneUsers(o) = {o.of} /\ GoneProjects(o) = {p \in Projects : Owner[p] = o.of} /\ LocksOf(o) = DeleteUserLocks(o.of, o.found)
    BY <1>4, LocksByKind DEF GoneProjects, GoneUsers
  <2>2. /\ Lock(1, "user", o.of, "update") \in LocksOf(o)
        /\ Lock(4, "wallet", o.of, "update") \in LocksOf(o)
    BY <2>1 DEF DeleteUserLocks
  <2>3. ASSUME NEW p \in GoneProjects(o)
        PROVE  /\ Lock(2, "project", p, "update") \in LocksOf(o)
               /\ Cascade(p, {n \in Names : <<p, n>> \in o.found}) \subseteq LocksOf(o)
    BY <2>1, <2>3 DEF DeleteUserLocks
  <2>4. ASSUME NEW p \in GoneProjects(o), NEW table \in {"project", "shipment"}
        PROVE  \E h \in LocksOf(o) : h.row = <<table, p>> /\ h.mode = "update"
    <3>1. CASE table = "project"
      BY <1>2, <2>3, <3>1
    <3>2. CASE table = "shipment"
      BY <1>1, <2>3, <3>2
    <3>3. QED BY <3>1, <3>2
  <2>5. ASSUME NEW table \in {"user", "wallet"}
        PROVE  \E h \in LocksOf(o) : h.row = <<table, o.of>> /\ h.mode = "update"
    BY <1>2, <2>2
  <2>6. QED BY <2>1, <2>4, <2>5
<1>5. CASE o.kind \notin {"delete_project", "delete_user"}
  BY <1>5 DEF GoneProjects, GoneUsers
<1>6. QED
  BY <1>3, <1>4, <1>5

\* ON DELETE RESTRICT is checked for rows that are locked by then.
LEMMA RestrictLocked ==
  ASSUME NEW o \in Operations \union BannerUpdates, NEW h \in LocksOf(o), h.mode = "restrict"
  PROVE  /\ h.row[1] \in {"project", "user"}
         /\ \E g \in LocksOf(o) : g.row = h.row /\ g.mode = "update" /\ Precedes(g, h)
<1>1. Deletes(o)
  BY UndeletingModes
<1>2. ASSUME NEW p, NEW found, h \in Cascade(p, found)
      PROVE  /\ h = Lock(8, "project", p, "restrict")
             /\ Precedes(Lock(1, "project", p, "update"), h)
             /\ Precedes(Lock(2, "project", p, "update"), h)
  BY <1>2 DEF Cascade, Lock, LinkLock, Precedes
<1>3. CASE o.kind = "delete_project"
  <2>1. LocksOf(o) = {Lock(1, "project", o.of, "update")} \union Cascade(o.of, o.found)
    BY <1>3, LocksByKind
  <2>2. h \in Cascade(o.of, o.found)
    BY <2>1 DEF Lock
  <2>3. Lock(1, "project", o.of, "update") \in LocksOf(o) /\ Precedes(Lock(1, "project", o.of, "update"), h)
    BY <1>2, <2>1, <2>2
  <2>4. h = Lock(8, "project", o.of, "restrict")
    BY <1>2, <2>2
  <2>5. QED BY <2>3, <2>4 DEF Lock
<1>4. CASE o.kind = "delete_user"
  <2>1. LocksOf(o) = DeleteUserLocks(o.of, o.found)
    BY <1>4, LocksByKind
  <2>2. CASE h = Lock(5, "user", o.of, "restrict")
    <3>1. Lock(1, "user", o.of, "update") \in LocksOf(o)
      BY <2>1 DEF DeleteUserLocks
    <3>2. QED BY <2>2, <3>1 DEF Lock, Precedes
  <2>3. CASE \E p \in Projects : Owner[p] = o.of /\ h \in Cascade(p, {n \in Names : <<p, n>> \in o.found})
    <3>1. PICK p \in Projects : Owner[p] = o.of /\ h \in Cascade(p, {n \in Names : <<p, n>> \in o.found})
      BY <2>3
    <3>2. Lock(2, "project", p, "update") \in LocksOf(o)
      BY <2>1, <3>1 DEF DeleteUserLocks
    <3>3. h = Lock(8, "project", p, "restrict") /\ Precedes(Lock(2, "project", p, "update"), h)
      BY <1>2, <3>1
    <3>4. QED BY <3>2, <3>3 DEF Lock
  <2>4. QED BY <2>1, <2>2, <2>3 DEF DeleteUserLocks, Lock
<1>5. QED
  BY <1>1, <1>3, <1>4 DEF Deletes

-----------------------------------------------------------------------------
\* The inductive invariant.
\* A transaction takes its locks in their order,
Ordered ==
    \A t \in Transactions : \A h \in taken[t], w \in Left(t) : ~Precedes(w, h)

\* no two hold locks in conflict on a row that exists,
Exclusive ==
    \A s, t \in Transactions : \A h \in taken[s], g \in taken[t] :
        s # t /\ h.row = g.row /\ "restrict" \notin {h.mode, g.mode} /\ Exists(h.row)
          => ~Conflict(h.mode, g.mode)

\* a row stays while one that deletes nothing holds a lock on it,
HeldExists ==
    \A t \in Transactions :
        Open(t) /\ ~Deletes(op[t]) => \A h \in taken[t] : Exists(h.row)

\* and no reference appears to a row that a deletion has checked.
Checked ==
    \A t \in Transactions : \A h \in taken[t] :
        h.mode = "restrict" /\ Exists(h.row) => ~Referenced(h.row)

LockInv == RowLocksTypeOK /\ Ordered /\ Exclusive /\ HeldExists /\ Checked /\ ReferencesHold

-----------------------------------------------------------------------------
\* Every step is one of these as far as users, projects, credits, purchases
\* and locks are concerned.
LockStep ==
    \/ \E t \in Transactions : \E o \in Operations \union BannerUpdates : Begin(t, o)
    \/ \E t \in Transactions : GoesOn(t) \/ Commit(t) \/ GiveUp(t)
    \/ \E t \in Transactions : Ends(t) /\ UNCHANGED rowVars
    \/ UNCHANGED lockVars

\* The first state satisfies the invariant.
LEMMA LockInvInit == Init => LockInv
<1> SUFFICES ASSUME Init PROVE LockInv
  OBVIOUS
<1>1. RowLocksTypeOK
  BY DEF Init, RowLocksInit, RowLocksTypeOK
<1>2. ReferencesHold
  BY OwnersAreUsers DEF Init, RowLocksInit, ReferencesHold
<1>3. Ordered /\ Exclusive /\ HeldExists /\ Checked
  BY DEF Init, RowLocksInit, Ordered, Exclusive, HeldExists, Checked
<1>4. QED
  BY <1>1, <1>2, <1>3 DEF LockInv

\* A step of the module is a lock step, given the types of the targets.
LEMMA NextIsLockStep ==
  ASSUME [Next]_vars, \A u \in Uploads : upc[u] = "update" => target[u] \in Projects
  PROVE  LockStep
<1>1. CASE UNCHANGED vars
  BY <1>1 DEF vars, LockStep
<1>2. ASSUME NEW t \in Tasks, TaskStep(t) PROVE LockStep
  BY <1>2 DEF TaskStep, LockStep, Transactions
<1>3. ASSUME NEW u \in Uploads, UploadStep(u) PROVE LockStep
  <2>1. CASE BeginUpdate(u)
    <3>1. [kind |-> "banner", of |-> target[u]] \in BannerUpdates
      BY <2>1 DEF BeginUpdate, BannerUpdates
    <3>2. QED BY <2>1, <3>1 DEF BeginUpdate, LockStep, Transactions
  <2>2. CASE UpdateRow(u) \/ UpdateNothing(u)
    BY <2>2 DEF UpdateRow, UpdateNothing, GoesOn, LockStep, Transactions
  <2>3. CASE DropUpload(u)
    BY <2>3 DEF DropUpload, LockStep, Transactions
  <2>4. CASE (\E w \in Upcoming(u) : Take(u, w)) /\ UNCHANGED rowVars
    BY <2>4 DEF GoesOn, LockStep, Transactions
  <2>5. CASE UNCHANGED lockVars
    BY <2>5 DEF LockStep
  <2>6. QED BY <1>3, <2>1, <2>2, <2>3, <2>4, <2>5 DEF UploadStep
<1>4. QED
  BY <1>1, <1>2, <1>3 DEF Next

\* A transaction that is not open holds nothing, and what one holds is among
\* the locks of its operation.
LEMMA Holds ==
  ASSUME RowLocksTypeOK, NEW t \in Transactions
  PROVE  /\ ~Open(t) => taken[t] = {}
         /\ \A h \in taken[t] : Open(t) /\ h \in LocksOf(op[t])
         /\ Open(t) => op[t] \in Operations \union BannerUpdates
BY DEF RowLocksTypeOK, Open

\* The end of one transaction leaves the others as they are.
LEMMA EndsOne ==
  ASSUME RowLocksTypeOK, NEW t \in Transactions, Ends(t)
  PROVE  /\ op' \in [Transactions -> Operations \union BannerUpdates \union {None}]
         /\ taken' \in [Transactions -> SUBSET Locks]
         /\ ~Open(t)' /\ taken'[t] = {}
         /\ \A s \in Transactions \ {t} : op'[s] = op[s] /\ taken'[s] = taken[s]
         /\ \A s \in Transactions \ {t} : Left(s)' = Left(s) /\ Open(s)' = Open(s)
         /\ \A s \in Transactions : taken'[s] # {} => Open(s)' /\ taken'[s] \subseteq LocksOf(op'[s])
BY DEF RowLocksTypeOK, Ends, Open, Left

\* A transaction that begins changes nothing that the invariant is about.
LEMMA BeginKeeps ==
  ASSUME LockInv, NEW t \in Transactions, NEW o \in Operations \union BannerUpdates, Begin(t, o)
  PROVE  LockInv'
<1> USE DEF LockInv
<1>1. taken[t] = {} /\ UNCHANGED <<rowVars, taken>>
  BY Holds DEF Begin
<1>2. \A s \in Transactions \ {t} : op'[s] = op[s] /\ Left(s)' = Left(s) /\ Open(s)' = Open(s)
  BY DEF Begin, Open, Left, RowLocksTypeOK
<1>3. RowLocksTypeOK'
  BY <1>1, <1>2 DEF Begin, RowLocksTypeOK, rowVars, Open
<1>4. Ordered'
  BY <1>1, <1>2 DEF Ordered
<1>5. Exclusive'
  BY <1>1 DEF Exclusive, rowVars, Exists
<1>6. HeldExists'
  BY <1>1, <1>2 DEF HeldExists, rowVars, Exists
<1>7. \A row : Exists(row)' = Exists(row) /\ Referenced(row)' = Referenced(row)
  BY <1>1 DEF Begin, rowVars, Exists, Referenced
<1>8. Checked'
  BY <1>1, <1>7 DEF Checked
<1>9. ReferencesHold'
  BY DEF Begin, ReferencesHold, rowVars
<1>10. QED
  BY <1>3, <1>4, <1>5, <1>6, <1>8, <1>9

\* Nor does one that ends without a trace.
LEMMA EndsKeeps ==
  ASSUME LockInv, NEW t \in Transactions, Ends(t), UNCHANGED rowVars
  PROVE  LockInv'
<1> USE DEF LockInv
<1>1. RowLocksTypeOK'
  BY EndsOne DEF RowLocksTypeOK, rowVars
<1>2. Ordered'
  BY EndsOne DEF Ordered
<1>3. Exclusive'
  BY EndsOne DEF Exclusive, rowVars, Exists
<1>4. HeldExists'
  BY EndsOne DEF HeldExists, rowVars, Exists
<1>5. \A row : Exists(row)' = Exists(row) /\ Referenced(row)' = Referenced(row)
  BY DEF rowVars, Exists, Referenced
<1>6. Checked'
  BY EndsOne, <1>5 DEF Checked
<1>7. ReferencesHold'
  BY DEF ReferencesHold, rowVars
<1>8. QED
  BY <1>1, <1>2, <1>3, <1>4, <1>6, <1>7

\* A lock is taken next, on a row that no other transaction has locked, that
\* does not exist, or that nothing refers to.
LEMMA OneMoreKeeps ==
  ASSUME LockInv, NEW t \in Transactions, NEW w \in Upcoming(t),
         Gets(t, w), UNCHANGED rowVars,
         Exists(w.row) => \A s \in Transactions \ {t} : ~Blocks(s, w),
         ~Deletes(op[t]) => Exists(w.row),
         w.mode = "restrict" /\ Exists(w.row) => ~Referenced(w.row)
  PROVE  LockInv'
<1> USE DEF LockInv
<1> USE DEF Gets
<1>0. w \in Left(t) /\ \A v \in Left(t) : ~Precedes(v, w)
  BY DEF Upcoming
<1>1. Open(t) /\ w \in LocksOf(op[t]) /\ w \in Locks
  BY <1>0, Holds, LocksTyped DEF Left
<1>2. /\ taken'[t] = taken[t] \union {w}
      /\ \A s \in Transactions \ {t} : taken'[s] = taken[s]
      /\ \A s \in Transactions : op'[s] = op[s] /\ Open(s)' = Open(s) /\ Left(s)' \subseteq Left(s)
  BY DEF RowLocksTypeOK, Open, Left
<1>3. RowLocksTypeOK'
  <2>1. taken' \in [Transactions -> SUBSET Locks]
    BY <1>1 DEF RowLocksTypeOK
  <2>2. QED BY <1>1, <1>2, <2>1 DEF RowLocksTypeOK, rowVars
<1>4. Ordered'
  BY <1>0, <1>2 DEF Ordered
<1>5. Exclusive'
  <2> SUFFICES ASSUME NEW r \in Transactions, NEW s \in Transactions, NEW h \in taken'[r], NEW g \in taken'[s],
                      r # s, h.row = g.row, "restrict" \notin {h.mode, g.mode}, Exists(h.row)
               PROVE  ~Conflict(h.mode, g.mode)
    BY ZenonT(60) DEF Exclusive, Exists, rowVars
  <2>1. CASE h \in taken[r] /\ g \in taken[s]
    BY <2>1 DEF Exclusive
  <2>2. CASE r = t /\ h = w
    BY <1>2, <2>2 DEF Blocks, Conflict
  <2>3. CASE s = t /\ g = w
    BY <1>2, <2>3 DEF Blocks, Conflict
  <2>4. QED BY <1>2, <2>1, <2>2, <2>3
<1>6. HeldExists'
  BY <1>2, ZenonT(60) DEF HeldExists, rowVars, Exists
<1>7. Checked'
  <2>1. \A row : (Exists(row)' <=> Exists(row)) /\ (Referenced(row)' <=> Referenced(row))
    BY DEF rowVars, Exists, Referenced
  <2>2. QED BY <1>2, <2>1 DEF Checked
<1>8. ReferencesHold'
  BY DEF rowVars, ReferencesHold
<1>9. QED
  BY <1>3, <1>4, <1>5, <1>6, <1>7, <1>8

\* A deletion that is about to commit is alone with the rows that will go: no
\* transaction that deletes nothing has a lock on one.
LEMMA DeletesAlone ==
  ASSUME LockInv, NEW t \in Transactions, Open(t), Left(t) = {},
         NEW s \in Transactions, s # t, Open(s), ~Deletes(op[s]), NEW h \in taken[s]
  PROVE  /\ \A u \in GoneUsers(op[t]) : h.row \notin {<<"user", u>>, <<"wallet", u>>}
         /\ \A p \in GoneProjects(op[t]) : h.row \notin {<<"project", p>>, <<"shipment", p>>}
<1> USE DEF LockInv
<1>1. Exists(h.row)
  BY DEF HeldExists
<1>2. h.mode \in {"update", "no_key_update", "key_share"}
  BY Holds, UndeletingModes
<1>3. taken[t] = LocksOf(op[t]) /\ op[t] \in Operations \union BannerUpdates
  BY Holds DEF Left
<1>4. ASSUME NEW g \in taken[t], g.mode = "update" PROVE h.row # g.row
  BY <1>1, <1>2, <1>4 DEF Exclusive, Conflict
<1>5. ASSUME NEW u \in GoneUsers(op[t]), NEW table \in {"user", "wallet"}
      PROVE  h.row # <<table, u>>
  <2>1. PICK g \in LocksOf(op[t]) : g.row = <<table, u>> /\ g.mode = "update"
    BY <1>3, <1>5, DeletionLocks, ZenonT(60)
  <2>2. QED BY <1>3, <1>4, <2>1
<1>6. ASSUME NEW p \in GoneProjects(op[t]), NEW table \in {"project", "shipment"}
      PROVE  h.row # <<table, p>>
  <2>1. PICK g \in LocksOf(op[t]) : g.row = <<table, p>> /\ g.mode = "update"
    BY <1>3, <1>6, DeletionLocks, ZenonT(60)
  <2>2. QED BY <1>3, <1>4, <2>1
<1>7. QED
  BY <1>5, <1>6

\* A check of references stands while the row it was made for is locked: no
\* transaction about to commit a reference to it holds its key.
LEMMA CheckedAlone ==
  ASSUME LockInv, NEW t \in Transactions, NEW h \in taken[t], h.mode = "restrict", Exists(h.row),
         NEW s \in Transactions, s # t, NEW g \in taken[s], g.mode = "key_share"
  PROVE  g.row # h.row
<1> USE DEF LockInv
<1>1. Open(t) /\ h \in LocksOf(op[t]) /\ op[t] \in Operations \union BannerUpdates
  BY Holds
<1>2. PICK k \in LocksOf(op[t]) : k.row = h.row /\ k.mode = "update" /\ Precedes(k, h)
  BY <1>1, RestrictLocked
<1>3. k \in taken[t]
  BY <1>1, <1>2 DEF Ordered, Left
<1>4. QED
  BY <1>2, <1>3 DEF Exclusive, Conflict

\* What a commit makes of the rows, by kind.
LEMMA CommitRows ==
  ASSUME LockInv, NEW t \in Transactions, Commit(t)
  PROVE  /\ op[t].kind = "award" => UNCHANGED <<users, projects, bought>> /\ awarded' = awarded \union {op[t].of}
         /\ op[t].kind = "purchase" => UNCHANGED <<users, projects, awarded>> /\ bought' = bought \union {<<op[t].by, op[t].of>>}
         /\ op[t].kind \notin {"award", "purchase"} => UNCHANGED <<awarded, bought>>
         /\ ~Deletes(op[t]) => UNCHANGED <<users, projects>>
         /\ op[t].kind # "delete_user" => UNCHANGED users
         /\ op[t].kind = "delete_user" => users' = users \ {op[t].of}
         /\ users' = users \ GoneUsers(op[t])
         /\ projects' = projects \ GoneProjects(op[t])
BY DEF Commit, GoneProjects, GoneUsers, Deletes

\* A commit keeps the references.
LEMMA CommitKeepsReferences ==
  ASSUME LockInv, NEW t \in Transactions, Commit(t)
  PROVE  ReferencesHold'
<1> USE DEF LockInv
<1>1. Open(t) /\ Left(t) = {} /\ op[t] \in Operations \union BannerUpdates /\ taken[t] = LocksOf(op[t])
  BY Holds DEF Commit, Left
<1>2. CASE op[t].kind = "award"
  <2>1. /\ UNCHANGED <<users, projects, bought>> /\ awarded' = awarded \union {op[t].of}
        /\ op[t].of \in Projects
    BY <1>1, <1>2, CommitRows, OperationKinds
  <2>2. LocksOf(op[t]) = AwardLocks(op[t].of)
    BY <1>2, LocksByKind
  <2>3. /\ Exists(Lock(2, "project", op[t].of, "key_share").row)
        /\ Exists(Lock(3, "user", Owner[op[t].of], "key_share").row)
    BY <1>1, <1>2, <2>2 DEF AwardLocks, HeldExists, Deletes
  <2>4. op[t].of \in projects /\ Owner[op[t].of] \in users
    BY <2>3 DEF Exists, Lock
  <2>5. QED BY <2>1, <2>4 DEF ReferencesHold
<1>3. CASE op[t].kind = "purchase"
  <2>1. UNCHANGED <<users, projects, awarded>> /\ bought' = bought \union {<<op[t].by, op[t].of>>}
    BY <1>3, CommitRows
  <2>2. LocksOf(op[t]) = PurchaseLocks(op[t].of, op[t].by)
    BY <1>3, LocksByKind
  <2>3. Exists(Lock(3, "user", op[t].by, "key_share").row)
    BY <1>1, <1>3, <2>2 DEF PurchaseLocks, HeldExists, Deletes
  <2>4. op[t].by \in users
    BY <2>3 DEF Exists, Lock
  <2>5. QED BY <2>1, <2>4 DEF ReferencesHold
<1>4. CASE op[t].kind = "delete_project"
  <2>1. /\ UNCHANGED <<users, awarded, bought>> /\ projects' = projects \ {op[t].of}
        /\ op[t].of \in Projects
    BY <1>1, <1>4, CommitRows, OperationKinds DEF GoneProjects, GoneUsers
  <2>2. Lock(8, "project", op[t].of, "restrict") \in taken[t]
    BY <1>1, <1>4, LocksByKind DEF Cascade
  <2>3. op[t].of \in projects => op[t].of \notin awarded
    BY <2>2 DEF Checked, Lock, Exists, Referenced
  <2>4. QED BY <2>1, <2>3 DEF ReferencesHold
<1>5. CASE op[t].kind = "delete_user"
  <2>1. /\ UNCHANGED <<awarded, bought>> /\ users' = users \ {op[t].of}
        /\ projects' = projects \ {p \in Projects : Owner[p] = op[t].of}
    BY <1>5, CommitRows DEF GoneProjects, GoneUsers
  <2>2. Lock(5, "user", op[t].of, "restrict") \in taken[t]
    BY <1>1, <1>5, LocksByKind DEF DeleteUserLocks
  <2>3. op[t].of \in users =>
          (\A p \in awarded : Owner[p] # op[t].of) /\ (\A b \in bought : b[1] # op[t].of)
    BY <2>2 DEF Checked, Lock, Exists, Referenced
  <2>4. projects \subseteq Projects /\ awarded \subseteq Projects
    BY DEF RowLocksTypeOK
  <2>5. QED BY <2>1, <2>3, <2>4 DEF ReferencesHold
<1>6. CASE op[t].kind \notin {"award", "purchase", "delete_project", "delete_user"}
  BY <1>6, CommitRows DEF ReferencesHold, Deletes
<1>7. QED
  BY <1>2, <1>3, <1>4, <1>5, <1>6

\* A commit keeps the rows on which others hold locks, and what they checked.
LEMMA CommitKeepsRows ==
  ASSUME LockInv, NEW t \in Transactions, Commit(t)
  PROVE  HeldExists' /\ Checked'
<1> USE DEF LockInv
<1>1. Open(t) /\ Left(t) = {} /\ op[t] \in Operations \union BannerUpdates /\ taken[t] = LocksOf(op[t]) /\ Ends(t)
  BY Holds DEF Commit, Left
<1>2. users' \subseteq users /\ projects' \subseteq projects
  BY DEF Commit
<1>3. ASSUME NEW s \in Transactions, s # t, Open(s), ~Deletes(op[s]), NEW h \in taken[s]
      PROVE  Exists(h.row)'
  <2>1. Exists(h.row) /\ h \in Locks
    BY <1>3, Holds, LocksTyped DEF HeldExists
  <2>2. /\ \A u \in GoneUsers(op[t]) : h.row \notin {<<"user", u>>, <<"wallet", u>>}
        /\ \A p \in GoneProjects(op[t]) : h.row \notin {<<"project", p>>, <<"shipment", p>>}
    BY <1>1, <1>3, DeletesAlone
  <2>3. /\ h.row[1] \in Tables \union {"link"}
        /\ h.row[1] # "link" => h.row = <<h.row[1], h.row[2]>>
    BY <2>1, RowParts DEF Locks
  <2>4. CASE h.row[1] \in {"user", "wallet"}
    BY <2>1, <2>2, <2>3, <2>4, CommitRows DEF Exists
  <2>5. CASE h.row[1] \in {"project", "shipment"}
    BY <2>1, <2>2, <2>3, <2>5, CommitRows DEF Exists
  <2>6. CASE h.row[1] \in {"item", "link", "unique"}
    BY <2>6 DEF Exists
  <2>7. QED BY <2>3, <2>4, <2>5, <2>6 DEF Tables
<1>4. HeldExists'
  BY <1>1, <1>3, EndsOne DEF HeldExists
<1>5. ASSUME NEW s \in Transactions, s # t, NEW h \in taken[s], h.mode = "restrict", Exists(h.row)'
      PROVE  ~Referenced(h.row)'
  <2>0. h.row[1] \in {"project", "user"} /\ h \in Locks
    BY <1>5, Holds, RestrictLocked, LocksTyped
  <2>1. Exists(h.row)
    BY <1>2, <1>5, <2>0 DEF Exists
  <2>2. ~Referenced(h.row)
    BY <1>5, <2>1 DEF Checked
  <2>3. h.row[1] \in {"project", "user"} /\ h \in Locks
    BY <2>0
  <2>4. h.row = <<h.row[1], h.row[2]>>
    BY <2>3, RowParts DEF Locks
  <2>5. CASE op[t].kind = "award"
    <3>1. LocksOf(op[t]) = AwardLocks(op[t].of)
      BY <2>5, LocksByKind
    <3>2. /\ Lock(2, "project", op[t].of, "key_share") \in taken[t]
          /\ Lock(3, "user", Owner[op[t].of], "key_share") \in taken[t]
      BY <1>1, <3>1 DEF AwardLocks
    <3>3. h.row # <<"project", op[t].of>> /\ h.row # <<"user", Owner[op[t].of]>>
      BY <1>5, <2>1, <3>2, CheckedAlone DEF Lock
    <3>4. awarded' = awarded \union {op[t].of} /\ bought' = bought
      BY <2>5, CommitRows
    <3>5. QED BY <2>2, <2>3, <2>4, <3>3, <3>4 DEF Referenced
  <2>6. CASE op[t].kind = "purchase"
    <3>1. LocksOf(op[t]) = PurchaseLocks(op[t].of, op[t].by)
      BY <2>6, LocksByKind
    <3>2. Lock(3, "user", op[t].by, "key_share") \in taken[t]
      BY <1>1, <3>1 DEF PurchaseLocks
    <3>3. h.row # <<"user", op[t].by>>
      BY <1>5, <2>1, <3>2, CheckedAlone DEF Lock
    <3>4. awarded' = awarded /\ bought' = bought \union {<<op[t].by, op[t].of>>}
      BY <2>6, CommitRows
    <3>5. CASE h.row[1] = "project"
      BY <2>2, <3>4, <3>5 DEF Referenced
    <3>6. CASE h.row[1] = "user"
      <4>1. h.row[2] # op[t].by
        BY <2>4, <3>3, <3>6
      <4>2. \A b \in bought' : b[1] = h.row[2] => b \in bought
        BY <3>4, <4>1
      <4>3. QED BY <2>2, <3>4, <3>6, <4>2 DEF Referenced
    <3>7. QED BY <2>3, <3>5, <3>6
  <2>7. CASE op[t].kind \notin {"award", "purchase"}
    BY <2>2, <2>7, CommitRows DEF Referenced
  <2>8. QED BY <2>5, <2>6, <2>7
<1>6. Checked'
  BY <1>1, <1>5, EndsOne DEF Checked
<1>7. QED
  BY <1>4, <1>6

\* A commit keeps the invariant.
LEMMA CommitKeeps ==
  ASSUME LockInv, NEW t \in Transactions, Commit(t)
  PROVE  LockInv'
<1> USE DEF LockInv
<1>1. Open(t) /\ Ends(t) /\ op[t] \in Operations \union BannerUpdates
  BY Holds DEF Commit
<1>2. users' \subseteq users /\ projects' \subseteq projects
  BY DEF Commit
<1>3. awarded' \subseteq Projects /\ bought' \subseteq Users \X Items
  <2>1. CASE op[t].kind = "award"
    BY <1>1, <2>1, CommitRows, OperationKinds DEF RowLocksTypeOK
  <2>2. CASE op[t].kind = "purchase"
    BY <1>1, <2>2, CommitRows, OperationKinds DEF RowLocksTypeOK
  <2>3. CASE op[t].kind \notin {"award", "purchase"}
    BY <2>3, CommitRows DEF RowLocksTypeOK
  <2>4. QED BY <2>1, <2>2, <2>3
<1>4. RowLocksTypeOK'
  BY <1>1, <1>2, <1>3, EndsOne DEF RowLocksTypeOK
<1>5. Ordered'
  BY <1>1, EndsOne DEF Ordered
<1>6. Exclusive'
  <2> SUFFICES ASSUME NEW r \in Transactions, NEW s \in Transactions, NEW h \in taken'[r], NEW g \in taken'[s],
                      r # s, h.row = g.row, "restrict" \notin {h.mode, g.mode}, Exists(h.row)'
               PROVE  ~Conflict(h.mode, g.mode)
    BY DEF Exclusive
  <2>1. h \in taken[r] /\ g \in taken[s]
    BY <1>1, EndsOne
  <2>2. h.row[1] \in Tables \union {"link"}
    BY <2>1, Holds, LocksTyped, RowParts DEF Locks
  <2>3. Exists(h.row)
    BY <1>2, <2>2 DEF Exists, Tables
  <2>4. QED BY <2>1, <2>3 DEF Exclusive
<1>7. QED
  BY <1>4, <1>5, <1>6, CommitKeepsRows, CommitKeepsReferences

\* Every step keeps the invariant.
LEMMA LockInvStep == ASSUME LockInv, LockStep PROVE LockInv'
<1>1. ASSUME NEW t \in Transactions, NEW o \in Operations \union BannerUpdates, Begin(t, o) PROVE LockInv'
  BY <1>1, BeginKeeps
<1>2. ASSUME NEW t \in Transactions, Ends(t), UNCHANGED rowVars PROVE LockInv'
  BY <1>2, EndsKeeps
<1>3. ASSUME NEW t \in Transactions, NEW w \in Upcoming(t), UNCHANGED rowVars, Take(t, w) PROVE LockInv'
  BY <1>3, OneMoreKeeps DEF Take
<1>4. ASSUME NEW t \in Transactions, NEW w \in Upcoming(t), UNCHANGED rowVars, Miss(t, w) PROVE LockInv'
  BY <1>2, <1>4, OneMoreKeeps DEF Miss
<1>5. ASSUME NEW t \in Transactions, NEW w \in Upcoming(t), UNCHANGED rowVars, Restrict(t, w) PROVE LockInv'
  <2>1. \A s \in Transactions : ~Blocks(s, w)
    BY <1>5 DEF Restrict, Blocks
  <2>2. ~Deletes(op[t]) => FALSE
    BY <1>5, Holds, UndeletingModes DEF Restrict, Upcoming, Left, LockInv
  <2>3. QED BY <1>2, <1>5, <2>1, <2>2, OneMoreKeeps DEF Restrict
<1>9. ASSUME NEW t \in Transactions, GoesOn(t) PROVE LockInv'
  BY <1>3, <1>4, <1>5, <1>9 DEF GoesOn
<1>6. ASSUME NEW t \in Transactions, GiveUp(t) PROVE LockInv'
  BY <1>2, <1>6 DEF GiveUp
<1>7. ASSUME UNCHANGED lockVars PROVE LockInv'
  BY <1>7 DEF LockInv, lockVars, rowVars, RowLocksTypeOK, Ordered, Exclusive, HeldExists, Checked,
              ReferencesHold, Open, Left, Exists, Referenced
<1>8. QED
  BY <1>1, <1>2, <1>6, <1>7, <1>9, CommitKeeps DEF LockStep

-----------------------------------------------------------------------------
UploadTypeOK ==
    /\ upc \in [Uploads -> UploadPcs]
    /\ target \in [Uploads -> Projects \union {None}]
    /\ body \in [Uploads -> Bodies \union {None}]
    /\ temporary \subseteq Uploads
    /\ stored \subseteq Uploads
    /\ banner \in [Projects -> Uploads \union {None}]
    /\ excused \subseteq Uploads

\* An upload that goes to the database has its image stored, what a row names
\* is done with, and temporary files belong to uploads still at work on them.
UploadInv ==
    /\ UploadTypeOK
    /\ \A u \in Uploads : upc[u] # "start" => target[u] \in Projects \/ upc[u] = "done"
    /\ \A u \in Uploads : upc[u] = "rename" => body[u] = "image"
    /\ \A u \in Uploads : upc[u] = "update" => body[u] = "image" /\ u \in stored
    /\ \A p \in Projects : banner[p] # None =>
          upc[banner[p]] = "done" /\ body[banner[p]] = "image" /\ banner[p] \in stored
    /\ \A u \in temporary : upc[u] \in {"stream", "finish", "discard", "rename"} \/ u \in excused

\* The first state satisfies it.
LEMMA UploadInvInit == Init => UploadInv
BY DEF Init, RowLocksInit, UploadInv, UploadTypeOK, UploadPcs

\* Every step keeps what holds of the uploads.
LEMMA UploadInvStep == ASSUME UploadInv, [Next]_vars PROVE UploadInv'
<1> USE DEF UploadInv, UploadTypeOK
<1>1. CASE UNCHANGED bannerVars
  BY <1>1 DEF bannerVars, fileVars
<1>2. ASSUME NEW u \in Uploads, UploadStep(u) PROVE UploadInv'
  <2> USE DEF Goto, fileVars, UploadPcs, Bodies
  <2>1. ASSUME NEW p \in Projects, StartUpload(u, p) PROVE UploadInv'
    BY <2>1 DEF StartUpload
  <2>2. CASE CreateFile(u)
    BY <2>2 DEF CreateFile
  <2>3. CASE StreamFails(u)
    BY <2>3 DEF StreamFails, AfterRefusal
  <2>4. ASSUME NEW b \in Bodies, Stream(u, b) PROVE UploadInv'
    BY <2>4 DEF Stream
  <2>5. CASE Finish(u)
    BY <2>5 DEF Finish, AfterRefusal, Accepted
  <2>6. CASE Discard(u)
    BY <2>6 DEF Discard
  <2>7. CASE Rename(u)
    BY <2>7 DEF Rename
  <2>8. CASE UpdateRow(u)
    BY <2>8 DEF UpdateRow
  <2>9. CASE UpdateNothing(u)
    BY <2>9 DEF UpdateNothing
  <2>10. CASE DropUpload(u)
    BY <2>10 DEF DropUpload
  <2>11. CASE BeginUpdate(u) \/ ((\E w \in Upcoming(u) : Take(u, w)) /\ UNCHANGED <<rowVars, bannerVars>>)
    BY <1>1, <2>11 DEF BeginUpdate
  <2>12. QED
    BY <1>2, <2>1, <2>2, <2>3, <2>4, <2>5, <2>6, <2>7, <2>8, <2>9, <2>10, <2>11 DEF UploadStep
<1>3. CASE UNCHANGED vars
  BY <1>1, <1>3 DEF vars
<1>4. QED
  BY <1>1, <1>2, <1>3 DEF Next

\* Both invariants hold in every reachable state.
THEOREM Invariants == Spec => [](LockInv /\ UploadInv)
<1>1. Init => LockInv /\ UploadInv
  BY LockInvInit, UploadInvInit
<1>2. ASSUME LockInv /\ UploadInv, [Next]_vars PROVE (LockInv /\ UploadInv)'
  <2>1. \A u \in Uploads : upc[u] = "update" => target[u] \in Projects
    BY <1>2 DEF UploadInv
  <2>2. QED BY <1>2, <2>1, NextIsLockStep, LockInvStep, UploadInvStep
<1>3. QED
  BY <1>1, <1>2, PTL DEF Spec

\* Types are correct for any users, projects, items, transactions, uploads.
THEOREM TypeCorrect == Spec => []TypeOK
<1>1. LockInv /\ UploadInv => TypeOK
  BY DEF LockInv, UploadInv, UploadTypeOK, TypeOK
<1>2. QED
  BY <1>1, Invariants, PTL

\* Credits and purchases keep what they refer to, whatever deletions run.
THEOREM ReferencesStay == Spec => []ReferencesHold
<1>1. LockInv => ReferencesHold
  BY DEF LockInv
<1>2. QED
  BY <1>1, Invariants, PTL

\* The banner that a project shows is an image whose file is there.
THEOREM BannersServed == Spec => []BannerServed
<1>1. LockInv /\ UploadInv => BannerServed
  BY DEF LockInv, RowLocksTypeOK, UploadInv, BannerServed
<1>2. QED
  BY <1>1, Invariants, PTL

\* Uploads that were not dropped or failed by the file system clean up.
THEOREM LeftoversExcused == Spec => []NoLeftovers
<1>1. UploadInv => NoLeftovers
  BY DEF UploadInv, NoLeftovers
<1>2. QED
  BY <1>1, Invariants, PTL

-----------------------------------------------------------------------------
\* Nobody waits for a link or for a unique value but behind a rival.
LEMMA OnlyRivalsMeet ==
  ASSUME LockInv, NEW s \in Transactions, NEW t \in Transactions,
         Open(s), Open(t), ~Deletes(op[s]), ~Deletes(op[t]), ~Rivals(op[s], op[t]),
         NEW v \in Upcoming(s), Blocks(t, v)
  PROVE  v.row[1] \notin {"link", "unique"}
<1>1. /\ v \in LocksOf(op[s])
      /\ op[s] \in Operations \union BannerUpdates
      /\ op[t] \in Operations \union BannerUpdates
  BY Holds DEF Upcoming, Left, LockInv
<1>2. PICK h \in taken[t] : h.row = v.row
  BY DEF Blocks
<1>3. h \in LocksOf(op[t])
  BY Holds DEF LockInv
<1>4. ASSUME v.row[1] = "link" PROVE FALSE
  <2>1. Plain(op[s]) /\ Plain(op[t])
    BY <1>1, <1>2, <1>3, <1>4, UniqueLocked DEF Plain
  <2>2. PICK n \in op[s].found \union op[s].names : v.row = <<"link", op[s].of, n>>
    BY <1>1, <1>4, <2>1, PlainLocks
  <2>3. PICK m \in op[t].found \union op[t].names : h.row = <<"link", op[t].of, m>>
    BY <1>1, <1>2, <1>3, <1>4, <2>1, PlainLocks
  <2>4. op[s].of = op[t].of /\ n = m
    BY <1>2, <2>2, <2>3
  <2>5. op[s].kind = "links" /\ op[t].kind = "links"
    BY <1>1, <1>2, <1>3, <1>4, <2>1, PlainLocks
  <2>6. QED BY <2>4, <2>5 DEF Rivals
<1>5. ASSUME v.row[1] = "unique" PROVE FALSE
  <2>1. op[s].kind = "unique" /\ op[t].kind = "unique"
    BY <1>1, <1>2, <1>3, <1>5, PlainLocks DEF Plain
  <2>2. PICK k \in op[s].keys : v.row = <<"unique", k>>
    BY <1>1, <1>5, <2>1, UniqueLocked
  <2>3. PICK j \in op[t].keys : h.row = <<"unique", j>>
    BY <1>1, <1>2, <1>3, <1>5, <2>1, UniqueLocked
  <2>4. k = j
    BY <1>2, <2>2, <2>3
  <2>5. QED BY <2>1, <2>4 DEF Rivals
<1>6. QED
  BY <1>4, <1>5

\* A statement that waits for its row has nothing yet that blocks anybody.
LEMMA UniqueWaitsFirst ==
  ASSUME LockInv, NEW t \in Transactions, Open(t), op[t].kind = "unique",
         NEW w \in Upcoming(t), w.row[1] # "unique"
  PROVE  taken[t] = {}
<1>1. w \in Left(t) /\ w \in LocksOf(op[t]) /\ op[t] \in Operations \union BannerUpdates
  BY Holds DEF Upcoming, Left, LockInv
<1>2. w.at = 1 /\ w = Lock(1, op[t].row[1], op[t].row[2], "update")
  BY <1>1, UniqueLocked
<1>3. ASSUME NEW h \in taken[t] PROVE FALSE
  <2>1. h \in LocksOf(op[t]) /\ h # w /\ ~Precedes(w, h)
    BY <1>1, Holds DEF LockInv, Ordered, Left
  <2>2. h.at = 2
    BY <1>1, <1>2, <2>1, UniqueLocked
  <2>3. QED BY <1>2, <2>1, <2>2 DEF Precedes
<1>4. QED
  BY <1>3

\* Of two plain transactions, where the first waits for the second and the
\* second for a plain one, the second waits further up.
LEMMA WaitingClimbs ==
  ASSUME LockInv, NEW s \in Transactions, NEW t \in Transactions, NEW r \in Transactions,
         Open(s), Open(t), Open(r), Plain(op[s]), Plain(op[t]), Plain(op[r]),
         NEW v \in Upcoming(s), NEW w \in Upcoming(t), Blocks(t, v), Blocks(r, w),
         v.row[1] # "link", w.row[1] # "link"
  PROVE  Rank(v.row[1]) < Rank(w.row[1])
<1> USE DEF LockInv
<1>1. /\ v \in LocksOf(op[s]) /\ w \in LocksOf(op[t]) /\ w \in Left(t)
      /\ op[s] \in Operations \union BannerUpdates
      /\ op[t] \in Operations \union BannerUpdates
      /\ op[r] \in Operations \union BannerUpdates
  BY Holds DEF Upcoming, Left
<1>2. PICK h \in taken[t] : h.row = v.row /\ Conflict(h.mode, v.mode)
  BY DEF Blocks
<1>3. PICK g \in taken[r] : g.row = w.row /\ Conflict(g.mode, w.mode)
  BY DEF Blocks
<1>4. h \in LocksOf(op[t]) /\ g \in LocksOf(op[r])
  BY Holds
<1>5. h.mode # "key_share" /\ w.mode # "key_share"
  <2>1. h.mode # "key_share"
    BY <1>1, <1>2, <1>4, PlainLocks DEF Conflict
  <2>2. w.mode # "key_share"
    BY <1>1, <1>3, <1>4, PlainLocks DEF Conflict
  <2>3. QED BY <2>1, <2>2
<1>6. h.at < w.at
  <2>1. h # w /\ ~Precedes(w, h)
    BY <1>1 DEF Ordered, Left
  <2>2. h.at \in 1..4 /\ w.at \in 1..4 /\ h.at # w.at
    BY <1>1, <1>2, <1>4, <2>1, PlainLocks, PlainOrder
  <2>3. QED BY <2>1, <2>2 DEF Precedes
<1>7. Rank(h.row[1]) < Rank(w.row[1])
  BY <1>1, <1>2, <1>4, <1>5, <1>6, PlainOrder
<1>8. QED
  BY <1>2, <1>7

\* No deadlock but with a deletion or between rivals, whatever the constants:
\* without rivals nobody waits for a statement that writes unique columns and
\* waits itself, and among the others somebody waits furthest up.
THEOREM DeadlocksExplained == Spec => []DeadlocksAreKnown
<1>1. ASSUME LockInv PROVE DeadlocksAreKnown
  <2> SUFFICES ASSUME NEW S \in SUBSET {t \in Transactions : Open(t) /\ ~Deletes(op[t])},
                      \A s, t \in S : s # t => ~Rivals(op[s], op[t]),
                      \A s \in S : \E t \in S : WaitsFor(s, t)
               PROVE  S = {}
    BY DEF DeadlocksAreKnown
  <2> DEFINE P == {s \in S : Plain(op[s])}
  <2>1. ASSUME NEW s \in S, NEW t \in S, WaitsFor(s, t)
        PROVE  /\ t \in P
               /\ \E v \in Upcoming(s) : Blocks(t, v) /\ v.row[1] # "link"
    <3>1. PICK v \in Upcoming(s) : Blocks(t, v)
      BY <2>1 DEF WaitsFor
    <3>2. v.row[1] # "link"
      BY <1>1, <2>1, <3>1, OnlyRivalsMeet DEF WaitsFor
    <3>3. PICK r \in S, w \in Upcoming(t) : r # t /\ Blocks(r, w)
      BY DEF WaitsFor
    <3>4. w.row[1] # "unique"
      BY <1>1, <3>3, OnlyRivalsMeet
    <3>5. taken[t] # {}
      BY <3>1 DEF Blocks
    <3>6. op[t].kind # "unique"
      BY <1>1, <3>3, <3>4, <3>5, UniqueWaitsFirst
    <3>7. QED BY <3>1, <3>2, <3>6 DEF Plain
  <2> DEFINE High(k) == \A s \in P : \A v \in Upcoming(s) :
                           (\E t \in P : Blocks(t, v)) /\ v.row[1] # "link" => Rank(v.row[1]) < k
  <2>2. \A table : Rank(table) \in 1..3
    BY DEF Rank
  <2>3. High(4)
    BY <2>2
  <2>4. ASSUME NEW k \in 2..4, High(k) PROVE High(k - 1)
    <3> SUFFICES ASSUME NEW s \in P, NEW v \in Upcoming(s), NEW t \in P, Blocks(t, v), v.row[1] # "link"
                 PROVE  Rank(v.row[1]) < k - 1
      OBVIOUS
    <3>1. PICK r \in S : WaitsFor(t, r)
      OBVIOUS
    <3>2. PICK w \in Upcoming(t) : Blocks(r, w) /\ w.row[1] # "link"
      BY <2>1, <3>1
    <3>3. r \in P
      BY <2>1, <3>1
    <3>4. Rank(v.row[1]) < Rank(w.row[1])
      BY <1>1, <3>2, <3>3, WaitingClimbs
    <3>5. Rank(w.row[1]) < k
      BY <2>4, <3>2, <3>3
    <3>6. QED BY <2>2, <3>4, <3>5
  <2>5. High(1)
    <3>1. High(3)
      BY <2>3, <2>4
    <3>2. High(2)
      BY <2>4, <3>1
    <3>3. QED BY <2>4, <3>2
  <2>6. ASSUME NEW s \in P PROVE FALSE
    <3>1. PICK t \in S : WaitsFor(s, t)
      OBVIOUS
    <3>2. PICK v \in Upcoming(s) : Blocks(t, v) /\ v.row[1] # "link"
      BY <2>1, <3>1
    <3>3. Rank(v.row[1]) < 1
      BY <2>1, <2>5, <3>1, <3>2
    <3>4. QED BY <2>2, <3>3
  <2>7. QED BY <2>1, <2>6
<1>2. QED
  BY <1>1, Invariants, PTL
=============================================================================
