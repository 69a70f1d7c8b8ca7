------------------------------- MODULE Tables -------------------------------
(***************************************************************************)
(* The rows of the PostgreSQL schema that approved time depends on, and    *)
(* the single-transaction operations on them: a project is created and     *)
(* shipped by its owner, a user or a project is deleted by an admin.  The  *)
(* foreign keys act inside those operations: CASCADE and SET NULL are part *)
(* of a deletion's effect, RESTRICT is its guard.                          *)
(*                                                                         *)
(* A row is identified by a UUID that is never reused, so a deleted        *)
(* project stays deleted and a deleted user never comes back.              *)
(***************************************************************************)
EXTENDS Naturals, FiniteSets

CONSTANTS Users, Projects,
          Owner,              \* projects.owner_id, fixed when a row is made
          Reviewers, Admins,  \* the users holding each role
          RecordIds,          \* Airtable record ids, per row of the tables
          None                \* SQL NULL

ASSUME OwnerIsUser == Owner \in [Projects -> Users]
ASSUME RolesAreUsers == Reviewers \subseteq Users /\ Admins \subseteq Users
ASSUME RowsAreDistinct == Users \intersect Projects = {}
ASSUME NoneIsNoRow == None \notin Users \union Projects \union RecordIds

VARIABLES
  users,        \* rows of users
  projectRow,   \* [Projects -> "absent" | "live" | "deleted"]
  shipped,      \* live projects with shipped_at set
  reviewed,     \* <<p, u>>: a project_reviews row of reviewer u on project p
  approval,     \* project_shipments.project_approval_status
  reviewer,     \* project_shipments.project_reviewer_id
  fraud,        \* project_shipments.fraud_approval_status
  recordId,     \* airtable_{participant,project}_record_id of a row
  awarded,      \* rows of project_credit_awards
  minutes,      \* project_credit_awards.credited_minutes
  wallet        \* user_wallets.available_minutes

peopleVars == <<users, projectRow, shipped>>
reviewVars == <<reviewed, approval, reviewer>>
creditVars == <<awarded, minutes, wallet>>
tableVars  == <<peopleVars, reviewVars, fraud, recordId, creditVars>>

Rows == Users \union Projects
ApprovalStatus == {"pending", "approved", "rejected", "changes_requested"}
FraudStatus == {"pending", "approved", "rejected"}

Live(row) == row \in users \/ (row \in Projects /\ projectRow[row] = "live")

TablesTypeOK ==
    /\ users \subseteq Users
    /\ projectRow \in [Projects -> {"absent", "live", "deleted"}]
    /\ shipped \subseteq Projects
    /\ reviewed \subseteq Projects \X Users
    /\ approval \in [Projects -> ApprovalStatus]
    /\ reviewer \in [Projects -> Users \union {None}]
    /\ fraud \in [Projects -> FraudStatus]
    /\ recordId \in [Rows -> RecordIds \union {None}]
    /\ awarded \subseteq Projects
    /\ minutes \in [Projects -> Nat]
    /\ wallet \in [Users -> Nat]

\* Everybody has signed in once, nothing has been created yet.
TablesInit ==
    /\ users = Users
    /\ projectRow = [p \in Projects |-> "absent"]
    /\ shipped = {}
    /\ reviewed = {}
    /\ approval = [p \in Projects |-> "pending"]
    /\ reviewer = [p \in Projects |-> None]
    /\ fraud = [p \in Projects |-> "pending"]
    /\ recordId = [row \in Rows |-> None]
    /\ awarded = {}
    /\ minutes = [p \in Projects |-> 0]
    /\ wallet = [u \in Users |-> 0]

\* The projects row and its shipment row are inserted in one transaction.
CreateProject(p) ==
    /\ Owner[p] \in users
    /\ projectRow[p] = "absent"
    /\ projectRow' = [projectRow EXCEPT ![p] = "live"]
    /\ UNCHANGED <<users, shipped, reviewVars, fraud, recordId, creditVars>>

\* Only the owner ships; shipped_at is written once and never cleared.
ShipProject(p) ==
    /\ Owner[p] \in users
    /\ projectRow[p] = "live"
    /\ shipped' = shipped \union {p}
    /\ UNCHANGED <<users, projectRow, reviewVars, fraud, recordId, creditVars>>

\* The shipment row and the reviews of the projects in gone go with them.
CascadeProjects(gone) ==
    /\ projectRow' = [p \in Projects |->
                        IF p \in gone THEN "deleted" ELSE projectRow[p]]
    /\ shipped' = shipped \ gone
    /\ approval' = [p \in Projects |->
                      IF p \in gone THEN "pending" ELSE approval[p]]
    /\ fraud' = [p \in Projects |->
                   IF p \in gone THEN "pending" ELSE fraud[p]]

\* project_credit_awards.project_id is ON DELETE RESTRICT, not CASCADE.
ProjectAlwaysDeletable(p) == TRUE
ProjectUnreferenced(p) == p \notin awarded

AdminDeleteProject(p) ==
    /\ Admins \intersect users # {}
    /\ projectRow[p] = "live"
    /\ ProjectUnreferenced(p)
    /\ CascadeProjects({p})
    /\ reviewed' = {r \in reviewed : r[1] # p}
    /\ reviewer' = [reviewer EXCEPT ![p] = None]
    /\ recordId' = [recordId EXCEPT ![p] = None]
    /\ UNCHANGED <<users, creditVars>>

OwnedBy(u) == {p \in Projects : Owner[p] = u /\ projectRow[p] = "live"}

\* A user's projects and wallet go with the user, reviews too, and a
\* shipment loses the reviewer's name but keeps the reviewer's decision.
AdminDeleteUser(u) ==
    /\ Admins \intersect users # {}
    /\ u \in users
    /\ \A p \in OwnedBy(u) : ProjectUnreferenced(p)
    /\ users' = users \ {u}
    /\ CascadeProjects(OwnedBy(u))
    /\ reviewed' = {r \in reviewed : r[1] \notin OwnedBy(u) /\ r[2] # u}
    /\ reviewer' = [p \in Projects |->
         IF p \in OwnedBy(u) \/ reviewer[p] = u THEN None ELSE reviewer[p]]
    /\ recordId' = [row \in Rows |->
         IF row = u \/ row \in OwnedBy(u) THEN None ELSE recordId[row]]
    /\ wallet' = [wallet EXCEPT ![u] = 0]
    /\ UNCHANGED <<awarded, minutes>>
=============================================================================
