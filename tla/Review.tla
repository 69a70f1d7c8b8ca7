-------------------------------- MODULE Review --------------------------------
(***************************************************************************)
(* create_project_review: a reviewer or an admin records a decision.  The  *)
(* handler writes the review row and the shipment status with two separate *)
(* statements, outside any transaction, and then tries the award.  Steps   *)
(* of a request, one per await: idle (authorisation and the shipped_at     *)
(* check), upsert, apply, then the award_ steps of Award.                  *)
(***************************************************************************)
EXTENDS Award

CONSTANT Decisions    \* the statuses that reviewers send

ASSUME DecisionsAreStatuses == Decisions \subseteq ApprovalStatus

VARIABLES
  author,     \* the session user of a request
  subject,    \* the project a request reviews
  decision    \* the status in its body

requestVars == <<author, subject, decision>>

ReviewTypeOK ==
    /\ author \in [Requests -> Users \union {None}]
    /\ subject \in [Requests -> Projects \union {None}]
    /\ decision \in [Requests -> Decisions \union {None}]
    /\ \A r \in Requests : pc[r] \in {"upsert", "apply"} =>
         author[r] \in Users /\ subject[r] \in Projects /\ decision[r] \in Decisions

ReviewInit ==
    /\ author = [r \in Requests |-> None]
    /\ subject = [r \in Requests |-> None]
    /\ decision = [r \in Requests |-> None]

Forget(r) ==
    /\ author' = [author EXCEPT ![r] = None]
    /\ subject' = [subject EXCEPT ![r] = None]
    /\ decision' = [decision EXCEPT ![r] = None]

\* The request ends here with an error response.
Refuse(r) ==
    /\ Goto(r, "idle")
    /\ Forget(r)
    /\ UNCHANGED <<target, hours>>

\* require_reviewer_or_admin, and reviewers see shipped projects only.
MayReview(u, p) ==
    /\ u \in users
    /\ projectRow[p] = "live"
    /\ u \in Admins \/ (u \in Reviewers /\ p \in shipped)

ReviewStart(r, u, p, d) ==
    /\ pc[r] = "idle"
    /\ MayReview(u, p)
    /\ Goto(r, "upsert")
    /\ author' = [author EXCEPT ![r] = u]
    /\ subject' = [subject EXCEPT ![r] = p]
    /\ decision' = [decision EXCEPT ![r] = d]
    /\ UNCHANGED <<tableVars, awardVars, trouble>>

\* Both foreign keys of the review row are checked as it is written.
ReviewUpsert(r) ==
    /\ pc[r] = "upsert"
    /\ IF projectRow[subject[r]] = "live" /\ author[r] \in users
         THEN /\ reviewed' = reviewed \union {<<subject[r], author[r]>>}
              /\ Goto(r, "apply")
              /\ UNCHANGED <<requestVars, target, hours>>
         ELSE Refuse(r) /\ UNCHANGED reviewed
    /\ UNCHANGED <<peopleVars, approval, reviewer, fraud, recordId, creditVars,
                   missed, trouble>>

\* The handler's last own step: an approval goes on to the award.
Applied(r) ==
    /\ IF decision[r] = "approved"
         THEN Call(r, subject[r])
         ELSE Goto(r, "idle") /\ UNCHANGED <<target, hours>>
    /\ Forget(r)

\* project_shipments.project_reviewer_id references users(id).
ReviewerUnchecked(u) == TRUE
ReviewerKnown(u) == u \in users

\* UPDATE ... WHERE project_id matches no row when the project is gone, which
\* the handler does not notice; a reviewer who is gone fails the statement.
ReviewApply(r) ==
    /\ pc[r] = "apply"
    /\ LET p == subject[r] IN
         CASE projectRow[p] # "live" -> Applied(r) /\ UNCHANGED <<approval, reviewer>>
           [] projectRow[p] = "live" /\ ~ReviewerKnown(author[r]) ->
                Refuse(r) /\ UNCHANGED <<approval, reviewer>>
           [] OTHER ->
                /\ approval' = [approval EXCEPT ![p] = decision[r]]
                /\ reviewer' = [reviewer EXCEPT ![p] = author[r]]
                /\ Applied(r)
    /\ UNCHANGED <<peopleVars, reviewed, fraud, recordId, creditVars,
                   missed, trouble>>

ReviewNext(r) ==
    \/ \E u \in Users, p \in Projects, d \in Decisions : ReviewStart(r, u, p, d)
    \/ ReviewUpsert(r)
    \/ ReviewApply(r)
    \/ (AwardStep(r) \/ AwardFail(r)) /\ UNCHANGED requestVars
    \/ Drop(r) /\ Forget(r)
=============================================================================
