-------------------------------- MODULE Award --------------------------------
(***************************************************************************)
(* award_if_fully_approved: the procedure that turns two independent       *)
(* approvals into one credit.  It is called by the review handler and by   *)
(* the Airtable synchroniser, on any number of replicas at once, so it is  *)
(* modelled as the steps of a calling task, one per await:                 *)
(*                                                                         *)
(*   award_read    the shipment's two statuses and the owner's token       *)
(*   award_check   is there an award already?                              *)
(*   award_hours   the linked names, then the Hackatime round trip         *)
(*   award_commit  the transaction, which locks the shipment row           *)
(*                                                                         *)
(* The transaction is one step: it holds the shipment row FOR UPDATE from  *)
(* its first statement, so no other writer of that row comes in between,   *)
(* and the primary key of project_credit_awards serialises its INSERT.     *)
(***************************************************************************)
EXTENDS Tables

CONSTANTS Requests,   \* HTTP requests that review a project
          Syncers,    \* Airtable synchronisations, scheduled or by request
          Minutes     \* what a conversion of Hackatime seconds may yield

Callers == Requests \union Syncers

ASSUME CallersAreDistinct == Requests \intersect Syncers = {}
ASSUME MinutesAreNat == Minutes \subseteq Nat /\ 0 \in Minutes

VARIABLES
  pc,       \* where each calling task stands
  target,   \* the project_id of the task's award attempt
  hours,    \* the credited_minutes the attempt computed
  missed,   \* history: projects whose last attempt failed or was dropped
  trouble   \* upstreams may fail and tasks may be dropped or crash

awardVars == <<target, hours, missed>>

AwardPcs == {"award_read", "award_check", "award_hours", "award_commit"}
RequestPcs == {"idle", "upsert", "apply"} \union AwardPcs
SyncerPcs == {"idle", "users", "projects", "fraud"} \union AwardPcs

AwardTypeOK ==
    /\ pc \in [Callers -> RequestPcs \union SyncerPcs]
    /\ \A r \in Requests : pc[r] \in RequestPcs
    /\ \A s \in Syncers : pc[s] \in SyncerPcs
    /\ target \in [Callers -> Projects \union {None}]
    /\ \A c \in Callers : pc[c] \in AwardPcs => target[c] \in Projects
    /\ hours \in [Callers -> Minutes]
    /\ missed \subseteq Projects
    /\ trouble \in BOOLEAN

AwardInit ==
    /\ pc = [c \in Callers |-> "idle"]
    /\ target = [c \in Callers |-> None]
    /\ hours = [c \in Callers |-> 0]
    /\ missed = {}
    /\ trouble = TRUE

\* project_shipments.{project,fraud}_approval_status = 'approved'
BothApproved(p) ==
    projectRow[p] = "live" /\ approval[p] = "approved" /\ fraud[p] = "approved"

Goto(c, label) == pc' = [pc EXCEPT ![c] = label]

\* The handler answers its client; the synchroniser takes its next record.
\* An Err is passed to the client by the former and logged by the latter.
Return(c) ==
    /\ Goto(c, IF c \in Requests THEN "idle" ELSE "fraud")
    /\ target' = [target EXCEPT ![c] = None]
    /\ hours' = [hours EXCEPT ![c] = 0]

\* The caller's next await is the award of p.
Call(c, p) ==
    /\ Goto(c, "award_read")
    /\ target' = [target EXCEPT ![c] = p]
    /\ UNCHANGED hours

-----------------------------------------------------------------------------
\* The statuses are read without a lock; a project that is gone is NotFound.
\* From here on this attempt answers for what earlier attempts missed.
AwardRead(c) ==
    /\ pc[c] = "award_read"
    /\ IF BothApproved(target[c])
         THEN /\ Goto(c, "award_check")
              /\ missed' = missed \ {target[c]}
              /\ UNCHANGED <<target, hours>>
         ELSE Return(c) /\ UNCHANGED missed
    /\ UNCHANGED <<tableVars, trouble>>

AwardCheck(c) ==
    /\ pc[c] = "award_check"
    /\ IF target[c] \in awarded
         THEN Return(c)
         ELSE Goto(c, "award_hours") /\ UNCHANGED <<target, hours>>
    /\ UNCHANGED <<tableVars, missed, trouble>>

\* Any number of minutes, 0 also when the owner has no Hackatime connection
\* or linked nothing to the project.
AwardHours(c) ==
    /\ pc[c] = "award_hours"
    /\ \E m \in Minutes : hours' = [hours EXCEPT ![c] = m]
    /\ Goto(c, "award_commit")
    /\ UNCHANGED <<tableVars, target, missed, trouble>>

\* The re-check under FOR UPDATE: the approvals read four awaits ago are old.
TrustsFirstRead(p) == TRUE
StillApproved(p) == BothApproved(p)

\* INSERT ... ON CONFLICT (project_id) DO NOTHING RETURNING project_id
InsertsAlways(p) == TRUE
Inserted(p) == p \notin awarded

AwardCommit(c) ==
    /\ pc[c] = "award_commit"
    /\ LET p == target[c] IN
         IF StillApproved(p) /\ Inserted(p)
           THEN /\ awarded' = awarded \union {p}
                /\ minutes' = [minutes EXCEPT ![p] = hours[c]]
                /\ wallet' = [wallet EXCEPT ![Owner[p]] = @ + hours[c]]
           ELSE UNCHANGED creditVars
    /\ Return(c)
    /\ UNCHANGED <<peopleVars, reviewVars, fraud, recordId, missed, trouble>>

\* Hackatime or the database answers an error: the attempt is over.
AwardFail(c) ==
    /\ trouble
    /\ pc[c] \in AwardPcs
    /\ missed' = missed \union {target[c]}
    /\ Return(c)
    /\ UNCHANGED <<tableVars, trouble>>

AwardStep(c) == AwardRead(c) \/ AwardCheck(c) \/ AwardHours(c) \/ AwardCommit(c)

\* The task is dropped at an await: a client went away, the request timeout
\* fired, or the process died.  An open transaction rolls back.
Drop(c) ==
    /\ trouble
    /\ pc[c] # "idle"
    /\ Goto(c, "idle")
    /\ missed' = IF pc[c] \in AwardPcs THEN missed \union {target[c]}
                                       ELSE missed
    /\ target' = [target EXCEPT ![c] = None]
    /\ hours' = [hours EXCEPT ![c] = 0]
    /\ UNCHANGED <<tableVars, trouble>>

\* Upstreams answer and nothing is dropped from here on.
Recover ==
    /\ trouble
    /\ trouble' = FALSE
    /\ UNCHANGED <<tableVars, pc, awardVars>>
=============================================================================
