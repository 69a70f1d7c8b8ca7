---------------------------- MODULE ApprovedHours ----------------------------
(***************************************************************************)
(* From shipping to credit: owners ship, reviewers review, staff decide in *)
(* Airtable, syncs carry the decisions over, admins delete, and whoever    *)
(* sees both approvals tries to credit the owner.  Reviews and syncs run   *)
(* concurrently on any replica; the tables are all they share.             *)
(***************************************************************************)
EXTENDS Review, AirtableSync, FiniteSetsExt

vars == <<tableVars, pc, awardVars, trouble, requestVars, record, syncVars>>

Init == TablesInit /\ AwardInit /\ ReviewInit /\ SyncInit

\* Single-transaction requests of owners and admins.
TablesNext ==
    /\ \/ \E p \in Projects :
            CreateProject(p) \/ ShipProject(p) \/ AdminDeleteProject(p)
       \/ \E u \in Users : AdminDeleteUser(u)
    /\ UNCHANGED <<pc, awardVars, trouble, requestVars, record, syncVars>>

Next ==
    \/ TablesNext
    \/ \E r \in Requests : ReviewNext(r) /\ UNCHANGED <<record, syncVars>>
    \/ \E s \in Syncers : SyncNext(s) /\ UNCHANGED requestVars
    \/ AirtableStaff /\ UNCHANGED requestVars
    \/ Recover /\ UNCHANGED <<requestVars, record, syncVars>>

Spec == Init /\ [][Next]_vars

\* The scheduler ticks for ever and its sync runs on while upstreams answer;
\* trouble does not last.  Nothing is assumed of people or of requests.
Fairness ==
    /\ WF_vars(Recover /\ UNCHANGED <<requestVars, record, syncVars>>)
    /\ \A s \in Syncers : WF_vars(SyncStep(s) /\ UNCHANGED requestVars)

LiveSpec == Spec /\ Fairness

-----------------------------------------------------------------------------
\* Every variable holds what its column, or its local variable, can hold.
TypeOK == TablesTypeOK /\ AwardTypeOK /\ ReviewTypeOK /\ SyncTypeOK

\* The two approvals arrive in either order and on different replicas, and
\* each writer looks for the other's only after its own write: a project with
\* both is credited, or somebody is on the way to credit it, or an attempt
\* failed after the second approval.  No interleaving loses the award.
AwardOwed ==
    \A p \in Projects : BothApproved(p) /\ p \notin awarded =>
        p \in missed \/ \E c \in Callers : pc[c] \in AwardPcs /\ target[c] = p

\* An admin may approve a project that was never shipped, but only shipped
\* projects reach Airtable, so only they can get the second approval and
\* the credit.
ShippedBeforeCredited == awarded \subseteq shipped

\* The reviewer named on a shipment has a review of that project, although
\* the two rows are written by two statements with deletions in between.
ReviewerOnRecordReviewed ==
    \A p \in Projects : reviewer[p] # None => <<p, reviewer[p]>> \in reviewed

\* A balance is exactly the credit of the owner's projects, whatever retries,
\* concurrent attempts and deletions there were.
CreditOf(S) == MapThenSumSet(LAMBDA p : minutes[p], S)
WalletBacked ==
    \A u \in Users : wallet[u] = CreditOf({p \in awarded : Owner[p] = u})

\* A credit is given in a state where both approvals stand, not merely after
\* a moment at which they did.
AwardOnlyOnDoubleApproval ==
    [][\A p \in Projects : p \in awarded' /\ p \notin awarded => BothApproved(p)]_vars

\* Once given, a credit keeps its amount, its project and its owner.
AwardIsFinal ==
    [][\A p \in awarded :
          /\ p \in awarded'
          /\ minutes'[p] = minutes[p]
          /\ projectRow'[p] = "live"
          /\ Owner[p] \in users']_vars

\* Two approvals that stand are credited in the end: a failed attempt is
\* retried by the next sync for as long as Airtable says approved.
AirtableApproves(p) == \E id \in RecordIds : record[<<p, id>>] = "approved"
AwardEventually ==
    \A p \in Projects :
        <>[](BothApproved(p) /\ AirtableApproves(p)) => <>(p \in awarded)

\* Airtable is authoritative: a decision that staff leave alone ends up in
\* the shipment and stays there, whichever sync fetched which version of it.
AirtableSays(p, status) ==
    /\ projectRow[p] = "live"
    /\ \E id \in RecordIds : Exists(p, id)
    /\ \A id \in RecordIds : Exists(p, id) =>
           NormalizedFraudStatus(record[<<p, id>>]) = status
FraudConverges ==
    \A p \in Projects, status \in FraudStatus :
        <>[]AirtableSays(p, status) => <>[](fraud[p] = status)

\* A rejection that was imported stands while Airtable says rejected.
RejectionStands ==
    [][\A p \in Projects :
          fraud[p] = "rejected" /\ AirtableSays(p, "rejected")
             => fraud'[p] # "approved"]_vars

-----------------------------------------------------------------------------
\* No item is claimed here: the shop is another module.
LedgerOfAwards == INSTANCE Ledger WITH
    Items <- {}, Price <- [i \in {} |-> 1], Amounts <- Minutes,
    credited <- awarded, amount <- minutes, claimed <- {}, balance <- wallet

\* The awards implement the ledger: whatever attempts race, fail or are
\* repeated, a project is credited once and a balance moves by that credit.
ImplementsLedger == LedgerOfAwards!LedgerSpec
=============================================================================
