----------------------------- MODULE AirtableSync -----------------------------
(***************************************************************************)
(* airtable_sync::sync, as run by the scheduler of every replica and by    *)
(* POST /admin/airtable/sync, with nothing that keeps two of them apart.   *)
(* A synchronisation pushes all participants, then all shipped projects,   *)
(* then imports the fraud decisions that staff made in Airtable, and tries *)
(* the award after each approval.  Each phase reads its rows once and then *)
(* works through them, so what it works on may be old.                     *)
(*                                                                         *)
(* Airtable itself is external: a table of records per row that staff may  *)
(* edit, and delete when AllowRecordDeletion.  The sync is the only        *)
(* creator of records.                                                     *)
(***************************************************************************)
EXTENDS Award

CONSTANTS RawStatuses,          \* fraud field values staff enter in this instance
          AllowRecordDeletion   \* staff delete Airtable records

RawStatus == {"approved", "rejected", "pending", "unrecognised", "unset"}

ASSUME RawStatusesKnown == RawStatuses \subseteq RawStatus
ASSUME DeletionIsBoolean == AllowRecordDeletion \in BOOLEAN

VARIABLES
  record,   \* [Rows \X RecordIds -> fraud field | "absent" | "deleted"]
  work,     \* rows or records a sync's current phase has yet to handle
  saving    \* <<row, id>> written upstream, to be saved locally; or None

syncVars == <<work, saving>>

Jobs == Rows \X (RecordIds \union {None})         \* a row and its saved id
Decided == Projects \X RecordIds \X (RawStatus \ {"unset"})   \* a fetched record

SyncTypeOK ==
    /\ record \in [Rows \X RecordIds -> RawStatus \union {"absent", "deleted"}]
    /\ work \in [Syncers -> SUBSET (Jobs \union Decided)]
    /\ saving \in [Syncers -> (Rows \X RecordIds) \union {None}]
    /\ \A s \in Syncers :
         /\ pc[s] \in {"users", "projects"} => work[s] \subseteq Jobs
         /\ pc[s] \in {"fraud"} \union AwardPcs => work[s] \subseteq Decided
         /\ saving[s] # None => pc[s] \in {"users", "projects"}

SyncInit ==
    /\ record = [cell \in Rows \X RecordIds |-> "absent"]
    /\ work = [s \in Syncers |-> {}]
    /\ saving = [s \in Syncers |-> None]

Exists(row, id) == record[<<row, id>>] \notin {"absent", "deleted"}

\* A phase's SELECT: each row with the record id it carries at this moment.
Snapshot(rows) == {<<row, recordId[row]>> : row \in rows}

StartPhase(s, label, todo) ==
    /\ Goto(s, label)
    /\ work' = [work EXCEPT ![s] = todo]
    /\ UNCHANGED <<tableVars, awardVars, trouble, record, saving>>

\* An error propagates out of sync(): the rest of the run is abandoned.
Abandon(s) ==
    /\ work' = [work EXCEPT ![s] = {}]
    /\ saving' = [saving EXCEPT ![s] = None]

-----------------------------------------------------------------------------
SyncParticipants(s) ==
    /\ pc[s] = "idle"
    /\ StartPhase(s, "users", Snapshot(users))

\* Only rows with shipped_at are sent to Airtable.
EveryProject == {p \in Projects : projectRow[p] = "live"}
ProjectsToPush == shipped

SyncProjects(s) ==
    /\ pc[s] = "users" /\ work[s] = {} /\ saving[s] = None
    /\ StartPhase(s, "projects", Snapshot(ProjectsToPush))

\* POST when the row had no record id in the snapshot.
CreateRecord(s) ==
    /\ pc[s] \in {"users", "projects"} /\ saving[s] = None
    /\ \E job \in work[s], id \in RecordIds :
         /\ job[2] = None
         /\ record[<<job[1], id>>] = "absent"
         /\ record' = [record EXCEPT ![<<job[1], id>>] = "unset"]
         /\ saving' = [saving EXCEPT ![s] = <<job[1], id>>]
         /\ work' = [work EXCEPT ![s] = @ \ {job}]
    /\ UNCHANGED <<tableVars, pc, awardVars, trouble>>

\* PATCH of the record in the snapshot; the fraud field is not among the
\* fields sent, so the record keeps what staff entered.
PatchRecord(s) ==
    /\ pc[s] \in {"users", "projects"} /\ saving[s] = None
    /\ \E job \in work[s] :
         /\ job[2] # None
         /\ Exists(job[1], job[2])
         /\ saving' = [saving EXCEPT ![s] = job]
         /\ work' = [work EXCEPT ![s] = @ \ {job}]
    /\ UNCHANGED <<tableVars, pc, awardVars, trouble, record>>

\* PATCH of a record that was deleted upstream: not found, and the ? in the
\* loop abandons every row that is still to come.
PatchRefused(s) ==
    /\ pc[s] \in {"users", "projects"} /\ saving[s] = None
    /\ \E job \in work[s] : job[2] # None /\ ~Exists(job[1], job[2])
    /\ Goto(s, "idle")
    /\ Abandon(s)
    /\ UNCHANGED <<tableVars, awardVars, trouble, record>>

\* UPDATE ... SET airtable_..._record_id WHERE id, no row when it is gone.
SaveRecordId(s) ==
    /\ saving[s] # None
    /\ recordId' = IF Live(saving[s][1])
                     THEN [recordId EXCEPT ![saving[s][1]] = saving[s][2]]
                     ELSE recordId
    /\ saving' = [saving EXCEPT ![s] = None]
    /\ UNCHANGED <<peopleVars, reviewVars, fraud, creditVars, pc, awardVars,
                   trouble, record, work>>

\* The fraud decisions of all records; a record without the field is skipped.
\* The table fits one page of 100 records, so the read is one step.
FetchedDecisions ==
    {<<c[1], c[2], record[c]>> :
        c \in {c \in Projects \X RecordIds :
                  Exists(c[1], c[2]) /\ record[c] # "unset"}}

SyncFraudStatuses(s) ==
    /\ pc[s] = "projects" /\ work[s] = {} /\ saving[s] = None
    /\ StartPhase(s, "fraud", FetchedDecisions)

\* normalized_fraud_status, None for a value it does not know
RawAsStatus(raw) == raw
NormalizedFraudStatus(raw) == IF raw = "unrecognised" THEN None ELSE raw

\* What the synchroniser does next once a decision is written.
NoAwardAfterDecision(s, p, status) == UNCHANGED <<pc, target, hours>>
AfterDecision(s, p, status) ==
    IF status = "approved"
      THEN Call(s, p)
      ELSE UNCHANGED <<pc, target, hours>>

\* UPDATE ... WHERE project_id = $3, whatever was decided before.
OnlyUndecided(p) == projectRow[p] = "live" /\ fraud[p] = "pending"
DecisionApplies(p) == projectRow[p] = "live"

\* One fetched record: skipped, matching no row, or written.
ImportDecision(s) ==
    /\ pc[s] = "fraud"
    /\ \E d \in work[s] :
         LET p == d[1]
             status == NormalizedFraudStatus(d[3])
         IN /\ work' = [work EXCEPT ![s] = @ \ {d}]
            /\ IF status = None \/ ~DecisionApplies(p)
                 THEN UNCHANGED <<fraud, recordId, pc, target, hours>>
                 ELSE /\ fraud' = [fraud EXCEPT ![p] = status]
                      /\ recordId' = [recordId EXCEPT ![p] = d[2]]
                      /\ AfterDecision(s, p, status)
    /\ UNCHANGED <<peopleVars, reviewVars, creditVars, missed, trouble, record,
                   saving>>

SyncComplete(s) ==
    /\ pc[s] = "fraud" /\ work[s] = {}
    /\ Goto(s, "idle")
    /\ UNCHANGED <<tableVars, awardVars, trouble, record, syncVars>>

\* What a synchronisation does of itself, when every upstream answers.
SyncStep(s) ==
    \/ SyncParticipants(s) \/ SyncProjects(s) \/ SyncFraudStatuses(s)
    \/ CreateRecord(s) \/ PatchRecord(s) \/ PatchRefused(s) \/ SaveRecordId(s)
    \/ ImportDecision(s) \/ SyncComplete(s)
    \/ AwardStep(s) /\ UNCHANGED <<record, syncVars>>

\* A bound on RecordIds, not a guard of the code: the id of a new record is
\* lost only while every sync has an id left to POST the row once more.
MayBeLost(cell) ==
    Cardinality({id \in RecordIds : record[<<cell[1], id>>] = "absent"})
        >= Cardinality(Syncers)

\* A failed call to Airtable or the database ends the run as a drop does, and
\* the response to a POST may be what is lost; a failed award does not end it.
SyncNext(s) ==
    \/ SyncStep(s)
    \/ AwardFail(s) /\ UNCHANGED <<record, syncVars>>
    \/ /\ saving[s] # None => MayBeLost(saving[s])
       /\ Drop(s) /\ Abandon(s) /\ UNCHANGED record

-----------------------------------------------------------------------------
\* Staff edit the fraud field of a project's record.
FraudReview(p, id, raw) ==
    /\ Exists(p, id)
    /\ record' = [record EXCEPT ![<<p, id>>] = raw]

DeleteRecord(row, id) ==
    /\ AllowRecordDeletion
    /\ Exists(row, id)
    /\ record' = [record EXCEPT ![<<row, id>>] = "deleted"]

AirtableStaff ==
    /\ \/ \E p \in Projects, id \in RecordIds, raw \in RawStatuses :
            FraudReview(p, id, raw)
       \/ \E row \in Rows, id \in RecordIds : DeleteRecord(row, id)
    /\ UNCHANGED <<tableVars, pc, awardVars, trouble, syncVars>>
=============================================================================
