------------------------- MODULE ApprovedHours_proofs -------------------------
(***************************************************************************)
(* Proofs about ApprovedHours, for any number of users, projects, requests *)
(* and synchronisations; and, in the last part, about Backend, where the   *)
(* awards share the wallets and the users with the shop.                   *)
(***************************************************************************)
EXTENDS Backend, TLAPS

\* The constants' assumptions, cited together.
LEMMA Constants ==
    /\ Owner \in [Projects -> Users]
    /\ Reviewers \subseteq Users /\ Admins \subseteq Users
    /\ Users \intersect Projects = {}
    /\ None \notin Users \union Projects \union RecordIds
    /\ Requests \intersect Syncers = {}
    /\ Minutes \subseteq Nat /\ 0 \in Minutes
    /\ Decisions \subseteq ApprovalStatus
    /\ RawStatuses \subseteq RawStatus
  BY OwnerIsUser, RolesAreUsers, RowsAreDistinct, NoneIsNoRow, CallersAreDistinct,
     MinutesAreNat, DecisionsAreStatuses, RawStatusesKnown

-----------------------------------------------------------------------------
(* Type correctness, one group of variables after the other.               *)

\* The tables as the migrations leave them, and idle tasks, are well typed.
LEMMA TypeInit == Init => TypeOK
  BY Constants DEF Init, TablesInit, AwardInit, ReviewInit, SyncInit, TypeOK,
     TablesTypeOK, AwardTypeOK, ReviewTypeOK, SyncTypeOK, ApprovalStatus,
     FraudStatus, RequestPcs, SyncerPcs, AwardPcs, Callers

\* What owners and admins do, cascades included, keeps the types.
LEMMA TypeTables ==
  ASSUME TypeOK, TablesNext
  PROVE  TypeOK'
  <1> USE Constants DEF TypeOK, TablesTypeOK
  <1>1. TablesTypeOK'
    <2>1. ASSUME NEW p \in Projects, CreateProject(p) PROVE TablesTypeOK'
      BY <2>1 DEF CreateProject, reviewVars, creditVars
    <2>2. ASSUME NEW p \in Projects, ShipProject(p) PROVE TablesTypeOK'
      BY <2>2 DEF ShipProject, reviewVars, creditVars
    <2>3. ASSUME NEW p \in Projects, AdminDeleteProject(p) PROVE TablesTypeOK'
      BY <2>3 DEF AdminDeleteProject, CascadeProjects, creditVars,
         ApprovalStatus, FraudStatus
    <2>4. ASSUME NEW u \in Users, AdminDeleteUser(u) PROVE TablesTypeOK'
      BY <2>4 DEF AdminDeleteUser, CascadeProjects, creditVars, Rows,
         ApprovalStatus, FraudStatus
    <2>5. QED BY <2>1, <2>2, <2>3, <2>4 DEF TablesNext
  <1>2. AwardTypeOK' /\ ReviewTypeOK' /\ SyncTypeOK'
    BY DEF TablesNext, awardVars, requestVars, syncVars, AwardTypeOK,
       ReviewTypeOK, SyncTypeOK
  <1>3. QED BY <1>1, <1>2

\* So does every step of an award attempt, its failures and a dropped task.
LEMMA TypeAward ==
  ASSUME TypeOK, NEW c \in Callers, AwardStep(c) \/ AwardFail(c),
         UNCHANGED <<requestVars, record, syncVars>>
  PROVE  TypeOK'
  <1> USE Constants DEF TypeOK, AwardTypeOK, Callers, RequestPcs, SyncerPcs, AwardPcs
  <1>1. TablesTypeOK' /\ AwardTypeOK' /\ UNCHANGED <<requestVars, record, syncVars>>
    <2> USE DEF TablesTypeOK, tableVars, peopleVars, reviewVars, creditVars,
       Goto, Return
    <2>1. CASE AwardRead(c)
      BY <2>1 DEF AwardRead
    <2>2. CASE AwardCheck(c)
      BY <2>2 DEF AwardCheck
    <2>3. CASE AwardHours(c)
      BY <2>3 DEF AwardHours
    <2>4. CASE AwardCommit(c)
      <3>1. target[c] \in Projects /\ Owner[target[c]] \in Users /\ hours[c] \in Nat
        BY <2>4 DEF AwardCommit
      <3>2. awarded' \subseteq Projects /\ minutes' \in [Projects -> Nat]
            /\ wallet' \in [Users -> Nat]
        BY <2>4, <3>1 DEF AwardCommit
      <3>3. AwardTypeOK'
        BY <2>4 DEF AwardCommit
      <3>4. QED BY <2>4, <3>2, <3>3 DEF AwardCommit
    <2>5. CASE AwardFail(c)
      BY <2>5 DEF AwardFail
    <2>6. QED BY <2>1, <2>2, <2>3, <2>4, <2>5 DEF AwardStep
  <1>2. \A r \in Requests : pc'[r] \in {"upsert", "apply"} => pc'[r] = pc[r]
    BY DEF AwardStep, AwardRead, AwardCheck, AwardHours, AwardCommit, AwardFail,
       Goto, Return
  <1>3. ReviewTypeOK'
    BY <1>1, <1>2 DEF ReviewTypeOK, requestVars
  <1>4. \A s \in Syncers :
           pc'[s] # pc[s] => pc[s] \in AwardPcs /\ pc'[s] \in AwardPcs \union {"fraud"}
    BY DEF AwardStep, AwardRead, AwardCheck, AwardHours, AwardCommit, AwardFail,
       Goto, Return
  <1>5. SyncTypeOK'
    BY <1>1, <1>4 DEF SyncTypeOK, syncVars
  <1>6. QED BY <1>1, <1>3, <1>5

\* So does a request that reviews a project.
LEMMA TypeReview ==
  ASSUME TypeOK, NEW r \in Requests, ReviewNext(r), UNCHANGED <<record, syncVars>>
  PROVE  TypeOK'
  <1> USE Constants DEF TypeOK, AwardTypeOK, ReviewTypeOK, Callers, RequestPcs,
          SyncerPcs, AwardPcs
  <1> DEFINE Typed == TablesTypeOK' /\ AwardTypeOK' /\ ReviewTypeOK'
                      /\ \A s \in Syncers : pc'[s] = pc[s]
  <1>1. ASSUME NEW u \in Users, NEW p \in Projects, NEW d \in Decisions,
               ReviewStart(r, u, p, d)
        PROVE  Typed
    BY <1>1 DEF ReviewStart, Goto, TablesTypeOK, tableVars, peopleVars, reviewVars,
       creditVars, awardVars
  <1>2. ASSUME ReviewUpsert(r) PROVE Typed
    <2>1. subject[r] \in Projects /\ author[r] \in Users
      BY <1>2 DEF ReviewUpsert
    <2>2. TablesTypeOK'
      BY <1>2, <2>1 DEF ReviewUpsert, TablesTypeOK, peopleVars, creditVars
    <2>3. AwardTypeOK' /\ \A s \in Syncers : pc'[s] = pc[s]
      BY <1>2 DEF ReviewUpsert, Goto, Refuse
    <2>4. ReviewTypeOK'
      BY <1>2 DEF ReviewUpsert, Goto, Refuse, Forget, requestVars
    <2>5. QED BY <2>2, <2>3, <2>4
  <1>3. ASSUME ReviewApply(r) PROVE Typed
    <2>1. subject[r] \in Projects /\ author[r] \in Users
          /\ decision[r] \in ApprovalStatus
      BY <1>3 DEF ReviewApply
    <2>2. TablesTypeOK'
      BY <1>3, <2>1 DEF ReviewApply, TablesTypeOK, peopleVars, creditVars
    <2>3. AwardTypeOK' /\ \A s \in Syncers : pc'[s] = pc[s]
      BY <1>3, <2>1 DEF ReviewApply, Applied, Call, Goto, Refuse
    <2>4. ReviewTypeOK'
      BY <1>3 DEF ReviewApply, Applied, Call, Goto, Refuse, Forget
    <2>5. QED BY <2>2, <2>3, <2>4
  <1>4. ASSUME Drop(r) /\ Forget(r) PROVE Typed
    BY <1>4 DEF Drop, Goto, Forget, TablesTypeOK, tableVars, peopleVars, reviewVars,
       creditVars
  <1>5. SyncTypeOK' \/ ((AwardStep(r) \/ AwardFail(r)) /\ UNCHANGED requestVars)
    BY <1>1, <1>2, <1>3, <1>4 DEF ReviewNext, SyncTypeOK, syncVars
  <1>6. QED BY <1>1, <1>2, <1>3, <1>4, <1>5, TypeAward DEF ReviewNext

\* So does a synchronisation with Airtable, wherever it fails.
LEMMA TypeSync ==
  ASSUME TypeOK, NEW s \in Syncers, SyncNext(s), UNCHANGED requestVars
  PROVE  TypeOK'
  <1> USE Constants DEF TypeOK, AwardTypeOK, SyncTypeOK, Callers, RequestPcs,
          SyncerPcs, AwardPcs
  <1> DEFINE Typed == TablesTypeOK' /\ AwardTypeOK' /\ SyncTypeOK'
                      /\ \A r \in Requests : pc'[r] = pc[r]
  <1>1. ASSUME NEW label \in {"users", "projects"}, NEW rows \in SUBSET Rows,
               StartPhase(s, label, Snapshot(rows))
        PROVE  Typed
    <2>1. Snapshot(rows) \subseteq Jobs
      BY DEF Snapshot, Jobs, TablesTypeOK
    <2>2. QED
      BY <1>1, <2>1 DEF StartPhase, Goto, TablesTypeOK, tableVars, peopleVars,
         reviewVars, creditVars, awardVars
  <1>2. ASSUME SyncParticipants(s) PROVE Typed
    BY <1>1, <1>2 DEF SyncParticipants, TablesTypeOK, Rows
  <1>3. ASSUME SyncProjects(s) PROVE Typed
    BY <1>1, <1>3 DEF SyncProjects, ProjectsToPush, TablesTypeOK, Rows
  <1>4. ASSUME SyncFraudStatuses(s) PROVE Typed
    <2>1. FetchedDecisions \subseteq Decided
      <3>1. SUFFICES ASSUME NEW c \in Projects \X RecordIds,
                            Exists(c[1], c[2]), record[c] # "unset"
                     PROVE  <<c[1], c[2], record[c]>> \in Decided
        BY DEF FetchedDecisions
      <3>2. c = <<c[1], c[2]>> /\ c \in Rows \X RecordIds
        BY DEF Rows
      <3>3. record[c] \in RawStatus \ {"unset"}
        BY <3>1, <3>2 DEF Exists
      <3>4. QED BY <3>3 DEF Decided
    <2>2. QED
      BY <1>4, <2>1 DEF SyncFraudStatuses, StartPhase, Goto, TablesTypeOK, tableVars,
         peopleVars, reviewVars, creditVars, awardVars
  <1>5. ASSUME CreateRecord(s) PROVE Typed
    BY <1>5 DEF CreateRecord, Jobs, RawStatus, TablesTypeOK, tableVars, peopleVars,
       reviewVars, creditVars, awardVars
  <1>6. ASSUME PatchRecord(s) PROVE Typed
    BY <1>6 DEF PatchRecord, Jobs, TablesTypeOK, tableVars, peopleVars,
       reviewVars, creditVars, awardVars
  <1>7. ASSUME PatchRefused(s) PROVE Typed
    BY <1>7 DEF PatchRefused, Abandon, Goto, TablesTypeOK, tableVars, peopleVars,
       reviewVars, creditVars, awardVars
  <1>8. ASSUME SaveRecordId(s) PROVE Typed
    BY <1>8 DEF SaveRecordId, TablesTypeOK, peopleVars, reviewVars, creditVars,
       awardVars
  <1>9. ASSUME ImportDecision(s) PROVE Typed
    <2>1. pc[s] = "fraud" /\ TablesTypeOK
      BY <1>9 DEF ImportDecision
    <2>2. PICK d \in work[s] :
            /\ work' = [work EXCEPT ![s] = @ \ {d}]
            /\ IF NormalizedFraudStatus(d[3]) = None \/ ~DecisionApplies(d[1])
                 THEN UNCHANGED <<fraud, recordId, pc, target, hours>>
                 ELSE /\ fraud' = [fraud EXCEPT ![d[1]] = NormalizedFraudStatus(d[3])]
                      /\ recordId' = [recordId EXCEPT ![d[1]] = d[2]]
                      /\ AfterDecision(s, d[1], NormalizedFraudStatus(d[3]))
      BY <1>9 DEF ImportDecision
    <2>3. d \in Decided
      BY <2>1
    <2>4. d[1] \in Projects /\ d[2] \in RecordIds /\ d[3] \in RawStatus \ {"unset"}
      BY <2>3 DEF Decided
    <2>5. NormalizedFraudStatus(d[3]) # None => NormalizedFraudStatus(d[3]) \in FraudStatus
      BY <2>4 DEF NormalizedFraudStatus, RawStatus, FraudStatus
    <2>6. TablesTypeOK'
      BY <1>9, <2>1, <2>2, <2>4, <2>5, SMTT(30) DEF ImportDecision,
         TablesTypeOK, peopleVars,
         reviewVars, creditVars
    <2>7. AwardTypeOK' /\ \A r \in Requests : pc'[r] = pc[r]
      BY <1>9, <2>1, <2>2, <2>4 DEF ImportDecision, AfterDecision, Call, Goto
    <2>8. SyncTypeOK'
      BY <1>9, <2>1, <2>2, <2>4 DEF ImportDecision, AfterDecision, Call, Goto
    <2>9. QED BY <2>6, <2>7, <2>8
  <1>10. ASSUME SyncComplete(s) PROVE Typed
    BY <1>10 DEF SyncComplete, Goto, TablesTypeOK, tableVars, peopleVars,
       reviewVars, creditVars, awardVars, syncVars
  <1>11. ASSUME Drop(s) /\ Abandon(s) /\ UNCHANGED record PROVE Typed
    BY <1>11 DEF Drop, Goto, Abandon, TablesTypeOK, tableVars, peopleVars,
       reviewVars, creditVars
  <1>12. ReviewTypeOK' \/ ((AwardStep(s) \/ AwardFail(s)) /\ UNCHANGED <<record, syncVars>>)
    BY <1>2, <1>3, <1>4, <1>5, <1>6, <1>7, <1>8, <1>9, <1>10, <1>11
       DEF SyncNext, SyncStep, ReviewTypeOK, requestVars
  <1>13. QED
    BY <1>2, <1>3, <1>4, <1>5, <1>6, <1>7, <1>8, <1>9, <1>10, <1>11, <1>12,
       TypeAward DEF SyncNext, SyncStep

\* There is no step that puts anything else into a variable.
LEMMA TypeStep == ASSUME TypeOK, [Next]_vars PROVE TypeOK'
  <1>1. CASE TablesNext
    BY <1>1, TypeTables
  <1>2. ASSUME NEW r \in Requests, ReviewNext(r), UNCHANGED <<record, syncVars>>
        PROVE  TypeOK'
    BY <1>2, TypeReview
  <1>3. ASSUME NEW s \in Syncers, SyncNext(s), UNCHANGED requestVars PROVE TypeOK'
    BY <1>3, TypeSync
  <1>4. CASE AirtableStaff /\ UNCHANGED requestVars
    <2>1. record' \in [Rows \X RecordIds -> RawStatus \union {"absent", "deleted"}]
      BY <1>4, Constants, ZenonT(60) DEF AirtableStaff, FraudReview,
         DeleteRecord, TypeOK,
         SyncTypeOK
    <2>2. QED
      BY <1>4, <2>1 DEF AirtableStaff, TypeOK, TablesTypeOK, AwardTypeOK,
         ReviewTypeOK, SyncTypeOK, tableVars, peopleVars, reviewVars, creditVars,
         awardVars, requestVars, syncVars
  <1>5. CASE Recover /\ UNCHANGED <<requestVars, record, syncVars>>
    BY <1>5 DEF Recover, TypeOK, TablesTypeOK, AwardTypeOK, ReviewTypeOK,
       SyncTypeOK, tableVars, peopleVars, reviewVars, creditVars, awardVars,
       requestVars, syncVars
  <1>6. CASE UNCHANGED vars
    BY <1>6 DEF vars, TypeOK, TablesTypeOK, AwardTypeOK, ReviewTypeOK,
       SyncTypeOK, tableVars, peopleVars, reviewVars, creditVars, awardVars,
       requestVars, syncVars
  <1>7. QED BY <1>1, <1>2, <1>3, <1>4, <1>5, <1>6 DEF Next

\* Every column and every local variable of the handlers, of the synchroniser
\* and of the award procedure holds what it can hold, whatever interleaves.
THEOREM TypeCorrect == Spec => []TypeOK
  <1>1. TypeOK /\ [Next]_vars => TypeOK'
    BY TypeStep
  <1>2. QED BY <1>1, TypeInit, PTL DEF Spec

-----------------------------------------------------------------------------
(***************************************************************************)
(* Where credits come from.  ShippedBeforeCredited is not inductive: what  *)
(* carries "shipped" from the shipment to the credit is the Airtable       *)
(* record, the batch a sync is importing, and the fraud status.  A deleted *)
(* project may linger in the first two, but no longer has a shipment.      *)
(***************************************************************************)
EverShipped(row) ==
    row \in Projects => row \in shipped \/ projectRow[row] = "deleted"

OwnersLive == \A p \in Projects : projectRow[p] = "live" => Owner[p] \in users
ShippedLive == \A p \in shipped : projectRow[p] = "live"
RecordsShipped ==
    \A row \in Rows, id \in RecordIds :
        record[<<row, id>>] # "absent" => EverShipped(row)
WorkShipped == \A s \in Syncers : \A entry \in work[s] : EverShipped(entry[1])
SavingShipped == \A s \in Syncers : saving[s] # None => EverShipped(saving[s][1])
DecidedShipped == \A p \in Projects : fraud[p] # "pending" => p \in shipped
WalletEarned ==
    \A u \in Users : wallet[u] # 0 => \E p \in awarded : Owner[p] = u

Provenance ==
    /\ OwnersLive /\ ShippedLive
    /\ RecordsShipped /\ WorkShipped /\ SavingShipped /\ DecidedShipped
    /\ ShippedBeforeCredited /\ WalletEarned

provenanceVars ==
    <<users, projectRow, shipped, awarded, wallet, fraud, record, work, saving>>

\* A step that changes none of these variables keeps the invariant.
LEMMA ProvenanceStutters ==
  ASSUME Provenance, UNCHANGED provenanceVars
  PROVE  Provenance'
  BY DEF Provenance, provenanceVars, OwnersLive, ShippedLive, RecordsShipped,
     WorkShipped, SavingShipped, DecidedShipped, ShippedBeforeCredited,
     WalletEarned, EverShipped

\* A step that leaves the tables alone can only disturb the Airtable parts.
LEMMA ProvenanceOfSync ==
  ASSUME Provenance, UNCHANGED <<users, projectRow, shipped, awarded, wallet>>,
         RecordsShipped', WorkShipped', SavingShipped', DecidedShipped'
  PROVE  Provenance'
  BY DEF Provenance, OwnersLive, ShippedLive, ShippedBeforeCredited, WalletEarned

\* There is nothing to account for at first.
LEMMA ProvenanceInit == Init => Provenance
  BY Constants DEF Init, TablesInit, AwardInit, SyncInit, Provenance, OwnersLive,
     ShippedLive, RecordsShipped, WorkShipped, SavingShipped, DecidedShipped,
     ShippedBeforeCredited, WalletEarned, EverShipped, Rows

\* Owners and admins keep it: a deletion is refused once there is a credit.
LEMMA ProvenanceTables ==
  ASSUME TypeOK, Provenance, TablesNext
  PROVE  Provenance'
  <1> USE Constants DEF TypeOK, TablesTypeOK, Provenance, OwnersLive, ShippedLive,
          RecordsShipped, WorkShipped, SavingShipped, DecidedShipped,
          ShippedBeforeCredited, WalletEarned, EverShipped
  <1>1. UNCHANGED <<record, work, saving>>
    BY DEF TablesNext, syncVars
  <1>2. ASSUME NEW p \in Projects, CreateProject(p) PROVE Provenance'
    BY <1>1, <1>2 DEF CreateProject, creditVars
  <1>3. ASSUME NEW p \in Projects, ShipProject(p) PROVE Provenance'
    BY <1>1, <1>3 DEF ShipProject, creditVars
  <1>4. ASSUME NEW p \in Projects, AdminDeleteProject(p) PROVE Provenance'
    BY <1>1, <1>4 DEF AdminDeleteProject, CascadeProjects, creditVars,
       ProjectUnreferenced
  <1>5. ASSUME NEW u \in Users, AdminDeleteUser(u) PROVE Provenance'
    <2>1. awarded \intersect OwnedBy(u) = {}
      BY <1>5 DEF AdminDeleteUser, ProjectUnreferenced
    <2>2. OwnersLive' /\ ShippedLive'
      BY <1>5 DEF AdminDeleteUser, CascadeProjects, OwnedBy
    <2>3. \A row : EverShipped(row) => EverShipped(row)'
      BY <1>5 DEF AdminDeleteUser, CascadeProjects, OwnedBy
    <2>4. RecordsShipped' /\ WorkShipped' /\ SavingShipped' /\ DecidedShipped'
      BY <1>1, <1>5, <2>3 DEF AdminDeleteUser, CascadeProjects
    <2>5. ShippedBeforeCredited' /\ WalletEarned'
      BY <1>5, <2>1 DEF AdminDeleteUser, CascadeProjects
    <2>6. QED BY <2>2, <2>4, <2>5
  <1>6. QED BY <1>2, <1>3, <1>4, <1>5 DEF TablesNext

\* An award attempt keeps it: what it credits has a fraud decision.
LEMMA ProvenanceAward ==
  ASSUME TypeOK, Provenance, NEW c \in Callers, AwardStep(c) \/ AwardFail(c),
         UNCHANGED <<record, syncVars>>
  PROVE  Provenance'
  <1>1. CASE AwardCommit(c) /\ StillApproved(target[c]) /\ Inserted(target[c])
    <2>1. target[c] \in Projects /\ hours[c] \in Nat
      BY <1>1, Constants DEF AwardCommit, TypeOK, AwardTypeOK, AwardPcs
    <2>2. target[c] \in shipped
      BY <1>1, <2>1 DEF StillApproved, BothApproved, Provenance, DecidedShipped
    <2>3. awarded' = awarded \union {target[c]}
          /\ wallet' = [wallet EXCEPT ![Owner[target[c]]] = @ + hours[c]]
          /\ UNCHANGED <<users, projectRow, shipped, fraud, record, work, saving>>
      BY <1>1 DEF AwardCommit, peopleVars, syncVars
    <2>4. ShippedBeforeCredited'
      BY <2>2, <2>3 DEF Provenance, ShippedBeforeCredited
    <2>5. WalletEarned'
      BY <2>1, <2>3, Constants DEF Provenance, WalletEarned, TypeOK, TablesTypeOK
    <2>6. QED
      BY <2>3, <2>4, <2>5 DEF Provenance, OwnersLive, ShippedLive, RecordsShipped,
         WorkShipped, SavingShipped, DecidedShipped, EverShipped
  <1>2. CASE ~(AwardCommit(c) /\ StillApproved(target[c]) /\ Inserted(target[c]))
    BY <1>2, ProvenanceStutters DEF AwardStep, AwardRead, AwardCheck, AwardHours,
       AwardCommit, AwardFail, tableVars, peopleVars, creditVars, syncVars,
       provenanceVars
  <1>3. QED BY <1>1, <1>2

\* A synchronisation keeps it: what it pushes is shipped, what it imports was
\* pushed, and what was deleted in between matches no shipment.
LEMMA ProvenanceSync ==
  ASSUME TypeOK, Provenance, NEW s \in Syncers, SyncNext(s), UNCHANGED requestVars
  PROVE  Provenance'
  <1> USE Constants DEF RecordsShipped, WorkShipped, SavingShipped, EverShipped
  <1>0. work \in [Syncers -> SUBSET (Jobs \union Decided)]
        /\ saving \in [Syncers -> (Rows \X RecordIds) \union {None}]
        /\ record \in [Rows \X RecordIds -> RawStatus \union {"absent", "deleted"}]
        /\ RecordsShipped /\ WorkShipped /\ SavingShipped /\ DecidedShipped
    BY DEF TypeOK, SyncTypeOK, Provenance
  <1>1. ASSUME NEW label, NEW todo, StartPhase(s, label, todo),
               \A entry \in todo : EverShipped(entry[1])
        PROVE  Provenance'
    <2>1. UNCHANGED <<users, projectRow, shipped, awarded, wallet, fraud, record, saving>>
          /\ work' = [work EXCEPT ![s] = todo]
      BY <1>1 DEF StartPhase, tableVars, peopleVars, creditVars
    <2>2. QED BY <1>0, <1>1, <2>1, ProvenanceOfSync DEF DecidedShipped
  <1>2. CASE SyncParticipants(s)
    BY <1>1, <1>2 DEF SyncParticipants, Snapshot, TypeOK, TablesTypeOK
  <1>3. CASE SyncProjects(s)
    BY <1>1, <1>3 DEF SyncProjects, Snapshot, ProjectsToPush
  <1>4. CASE SyncFraudStatuses(s)
    <2>1. \A d \in FetchedDecisions : EverShipped(d[1])
      <3>1. ASSUME NEW c \in Projects \X RecordIds, Exists(c[1], c[2])
            PROVE  EverShipped(c[1])
        BY <1>0, <3>1 DEF Exists, Rows
      <3>2. \A d \in FetchedDecisions :
               \E c \in Projects \X RecordIds : Exists(c[1], c[2]) /\ d[1] = c[1]
        BY DEF FetchedDecisions
      <3>3. QED BY <3>1, <3>2
    <2>2. QED BY <1>1, <1>4, <2>1 DEF SyncFraudStatuses
  <1>5. CASE CreateRecord(s) \/ PatchRecord(s)
    <2>1. UNCHANGED <<users, projectRow, shipped, awarded, wallet, fraud>>
      BY <1>5 DEF CreateRecord, PatchRecord, tableVars, peopleVars, creditVars
    <2>2. PICK entry \in work[s], id \in RecordIds :
            /\ record' \in {record, [record EXCEPT ![<<entry[1], id>>] = "unset"]}
            /\ saving' = [saving EXCEPT ![s] = <<entry[1], id>>]
            /\ work' = [work EXCEPT ![s] = @ \ {entry}]
      <3>1. CASE CreateRecord(s)
        BY <3>1 DEF CreateRecord
      <3>2. CASE PatchRecord(s)
        <4>1. PICK entry \in work[s] : /\ entry[2] # None
                                     /\ saving' = [saving EXCEPT ![s] = entry]
                                     /\ work' = [work EXCEPT ![s] = @ \ {entry}]
          BY <3>2 DEF PatchRecord
        <4>2. entry \in Jobs /\ record' = record
          BY <3>2, <4>1 DEF PatchRecord, TypeOK, SyncTypeOK
        <4>3. entry[2] \in RecordIds /\ entry = <<entry[1], entry[2]>>
          BY <4>1, <4>2 DEF Jobs
        <4>4. QED BY <4>1, <4>2, <4>3
      <3>3. QED BY <1>5, <3>1, <3>2
    <2>3. EverShipped(entry[1])
      BY <1>0
    <2>4. RecordsShipped'
      BY <1>0, <2>1, <2>2, <2>3
    <2>5. WorkShipped' /\ SavingShipped' /\ DecidedShipped'
      BY <1>0, <2>1, <2>2, <2>3 DEF DecidedShipped
    <2>6. QED BY <2>1, <2>4, <2>5, ProvenanceOfSync
  <1>6. CASE PatchRefused(s) \/ SaveRecordId(s) \/ SyncComplete(s)
             \/ (Drop(s) /\ Abandon(s) /\ UNCHANGED record)
    <2>1. UNCHANGED <<users, projectRow, shipped, awarded, wallet, fraud, record>>
          /\ (work' = work \/ work' = [work EXCEPT ![s] = {}])
          /\ (saving' = saving \/ saving' = [saving EXCEPT ![s] = None])
      BY <1>6 DEF PatchRefused, SaveRecordId, SyncComplete, Drop, Abandon, tableVars,
         peopleVars, creditVars, syncVars
    <2>2. QED BY <1>0, <2>1, ProvenanceOfSync DEF DecidedShipped
  <1>7. CASE ImportDecision(s)
    <2>1. PICK d \in work[s] :
            /\ work' = [work EXCEPT ![s] = @ \ {d}]
            /\ \/ UNCHANGED fraud
               \/ /\ projectRow[d[1]] = "live"
                  /\ \E status : fraud' = [fraud EXCEPT ![d[1]] = status]
      BY <1>7 DEF ImportDecision, DecisionApplies
    <2>2. UNCHANGED <<users, projectRow, shipped, awarded, wallet, record, saving>>
      BY <1>7 DEF ImportDecision, peopleVars, creditVars
    <2>3. d[1] \in Projects /\ EverShipped(d[1])
      BY <1>0, <1>7 DEF ImportDecision, TypeOK, SyncTypeOK, Decided
    <2>4. DecidedShipped'
      BY <1>0, <2>1, <2>2, <2>3 DEF DecidedShipped, TypeOK, TablesTypeOK
    <2>5. QED BY <1>0, <2>1, <2>2, <2>4, ProvenanceOfSync
  <1>8. QED
    BY <1>2, <1>3, <1>4, <1>5, <1>6, <1>7, ProvenanceAward DEF SyncNext, SyncStep,
       Callers

\* Every step keeps the invariant.
LEMMA ProvenanceInductive ==
  ASSUME TypeOK, Provenance, [Next]_vars
  PROVE  Provenance'
  <1>1. CASE TablesNext
    BY <1>1, ProvenanceTables
  <1>2. ASSUME NEW r \in Requests, ReviewNext(r), UNCHANGED <<record, syncVars>>
        PROVE  Provenance'
    <2>1. CASE AwardStep(r) \/ AwardFail(r)
      BY <1>2, <2>1, ProvenanceAward DEF Callers
    <2>2. CASE ~(AwardStep(r) \/ AwardFail(r))
      BY <1>2, <2>2, ProvenanceStutters DEF ReviewNext, ReviewStart, ReviewUpsert,
         ReviewApply, Drop, tableVars, peopleVars, creditVars, syncVars,
         provenanceVars
    <2>3. QED BY <2>1, <2>2
  <1>3. ASSUME NEW s \in Syncers, SyncNext(s), UNCHANGED requestVars
        PROVE  Provenance'
    BY <1>3, ProvenanceSync
  <1>4. CASE AirtableStaff /\ UNCHANGED requestVars
    <2>1. UNCHANGED <<users, projectRow, shipped, awarded, wallet, fraud, work, saving>>
      BY <1>4 DEF AirtableStaff, tableVars, peopleVars, creditVars, syncVars
    <2>2. RecordsShipped'
      BY <1>4, <2>1, Constants DEF AirtableStaff, FraudReview, DeleteRecord, Exists,
         Provenance, RecordsShipped, EverShipped, TypeOK, SyncTypeOK
    <2>3. QED
      BY <2>1, <2>2, ProvenanceOfSync DEF Provenance, WorkShipped, SavingShipped,
         DecidedShipped, EverShipped
  <1>5. CASE (Recover /\ UNCHANGED <<requestVars, record, syncVars>>)
             \/ UNCHANGED vars
    BY <1>5, ProvenanceStutters DEF Recover, vars, tableVars, peopleVars, creditVars,
       syncVars, provenanceVars
  <1>6. QED BY <1>1, <1>2, <1>3, <1>4, <1>5 DEF Next

\* Whatever was pushed, is being imported or was decided stems from a project
\* that its owner had shipped.
THEOREM ProvenanceInvariant == Spec => []Provenance
  BY TypeCorrect, ProvenanceInit, ProvenanceInductive, PTL DEF Spec

\* Only shipped projects are ever credited.
THEOREM ShippedFirst == Spec => []ShippedBeforeCredited
  BY ProvenanceInvariant, PTL DEF Provenance

-----------------------------------------------------------------------------
(***************************************************************************)
(* The ledger.  Only a committing award touches awarded or minutes; a      *)
(* wallet moves there, and is dropped with its user only when it is empty. *)
(***************************************************************************)
LEMMA CreditSteps ==
  ASSUME TypeOK, Provenance, [Next]_vars
  PROVE  \/ UNCHANGED creditVars
         \/ \E c \in Callers :
              /\ target[c] \in Projects /\ hours[c] \in Minutes
              /\ BothApproved(target[c])
              /\ target[c] \notin awarded
              /\ awarded' = awarded \union {target[c]}
              /\ minutes' = [minutes EXCEPT ![target[c]] = hours[c]]
              /\ wallet' = [wallet EXCEPT ![Owner[target[c]]] = @ + hours[c]]
              /\ UNCHANGED peopleVars
  <1> DEFINE Awards(c) ==
              /\ target[c] \in Projects /\ hours[c] \in Minutes
              /\ BothApproved(target[c])
              /\ target[c] \notin awarded
              /\ awarded' = awarded \union {target[c]}
              /\ minutes' = [minutes EXCEPT ![target[c]] = hours[c]]
              /\ wallet' = [wallet EXCEPT ![Owner[target[c]]] = @ + hours[c]]
              /\ UNCHANGED peopleVars
  <1>1. ASSUME NEW c \in Callers, AwardStep(c) \/ AwardFail(c)
        PROVE  UNCHANGED creditVars \/ Awards(c)
    BY <1>1 DEF AwardStep, AwardRead, AwardCheck, AwardHours, AwardCommit, AwardFail,
       StillApproved, Inserted, tableVars, TypeOK, AwardTypeOK, AwardPcs
  <1>2. CASE TablesNext
    <2>1. ASSUME NEW u \in Users, AdminDeleteUser(u) PROVE UNCHANGED creditVars
      <3>1. \A p \in awarded : Owner[p] # u
        BY <2>1 DEF AdminDeleteUser, OwnedBy, ProjectUnreferenced, Provenance,
           ShippedBeforeCredited, ShippedLive, TypeOK, TablesTypeOK
      <3>2. wallet[u] = 0
        BY <3>1 DEF Provenance, WalletEarned
      <3>3. wallet' = wallet
        BY <2>1, <3>2 DEF AdminDeleteUser, TypeOK, TablesTypeOK
      <3>4. QED BY <2>1, <3>3 DEF AdminDeleteUser, creditVars
    <2>2. QED
      BY <1>2, <2>1 DEF TablesNext, CreateProject, ShipProject, AdminDeleteProject
  <1>3. ASSUME NEW r \in Requests, ReviewNext(r)
        PROVE  UNCHANGED creditVars \/ Awards(r)
    BY <1>1, <1>3 DEF ReviewNext, ReviewStart, ReviewUpsert, ReviewApply, Drop,
       tableVars, Callers
  <1>4. ASSUME NEW s \in Syncers, SyncNext(s)
        PROVE  UNCHANGED creditVars \/ Awards(s)
    BY <1>1, <1>4 DEF SyncNext, SyncStep, SyncParticipants, SyncProjects,
       SyncFraudStatuses, StartPhase, CreateRecord, PatchRecord, PatchRefused,
       SaveRecordId, ImportDecision, SyncComplete, Drop, tableVars, Callers
  <1>5. CASE AirtableStaff \/ Recover \/ UNCHANGED vars
    BY <1>5 DEF AirtableStaff, Recover, vars, tableVars
  <1>6. QED BY <1>2, <1>3, <1>4, <1>5 DEF Next, Callers

\* The awards implement the ledger: one credit per project, whatever races.
THEOREM AwardsImplementLedger == Spec => ImplementsLedger
  <1>1. Init => LedgerOfAwards!LedgerInit
    BY DEF Init, TablesInit, LedgerOfAwards!LedgerInit
  <1>2. TypeOK /\ Provenance /\ [Next]_vars
          => [LedgerOfAwards!LedgerNext]_(LedgerOfAwards!ledgerVars)
    <2> SUFFICES ASSUME TypeOK, Provenance, [Next]_vars
                 PROVE  [LedgerOfAwards!LedgerNext]_(LedgerOfAwards!ledgerVars)
      OBVIOUS
    <2>1. CASE UNCHANGED creditVars
      BY <2>1 DEF creditVars, LedgerOfAwards!ledgerVars
    <2>2. CASE ~UNCHANGED creditVars
      BY <2>2, CreditSteps DEF LedgerOfAwards!LedgerNext, LedgerOfAwards!Credit
    <2>3. QED BY <2>1, <2>2
  <1>3. QED
    BY <1>1, <1>2, TypeCorrect, ProvenanceInvariant, PTL
       DEF Spec, ImplementsLedger, LedgerOfAwards!LedgerSpec

\* The ledger with what is proved about it.
Books == INSTANCE Ledger_proofs WITH
    Items <- {}, Price <- [i \in {} |-> 1], Amounts <- Minutes,
    credited <- awarded, amount <- minutes, claimed <- {}, balance <- wallet

\* A balance is exactly the credit of the owner's projects: racing attempts,
\* retries and deletions neither lose a minute nor give one twice.  The awards
\* inherit this from the ledger, where nothing is spent.
THEOREM WalletsBacked == Spec => []WalletBacked
  <1>1. Books!LedgerConstants
    BY Constants DEF Books!LedgerConstants
  <1>2. Spec => Books!LedgerSpec
    BY AwardsImplementLedger, PTL DEF ImplementsLedger,
       LedgerOfAwards!LedgerSpec, LedgerOfAwards!LedgerInit, LedgerOfAwards!LedgerNext,
       LedgerOfAwards!Credit, LedgerOfAwards!Claim, LedgerOfAwards!ledgerVars,
       Books!LedgerSpec, Books!LedgerInit, Books!LedgerNext,
       Books!Credit, Books!Claim, Books!ledgerVars
  <1>3. TypeOK /\ Books!Balanced => WalletBacked
    <2> SUFFICES ASSUME TypeOK, Books!Balanced, NEW u \in Users
                 PROVE  wallet[u] = CreditOf({p \in awarded : Owner[p] = u})
      BY DEF WalletBacked
    <2>1. CreditOf({p \in awarded : Owner[p] = u}) = Books!Earned(u)
      BY DEF CreditOf, Books!Earned, Books!CreditedTo, MapThenSumSet, MapThenFoldSet,
         Books!MapThenSumSet, Books!MapThenFoldSet
    <2>2. Books!ClaimedBy(u) = {}
      BY DEF Books!ClaimedBy
    <2>3. Books!Spent(u) = 0
      BY <2>2, Books!AccountSums, Books!SumOfNone
    <2>4. wallet[u] + Books!Spent(u) = Books!Earned(u) /\ wallet[u] \in Nat
      BY DEF Books!Balanced, TypeOK, TablesTypeOK
    <2>5. QED
      BY <2>1, <2>3, <2>4
  <1>4. QED
    BY <1>1, <1>2, <1>3, TypeCorrect, Books!BooksBalance, PTL

\* Every credit is given under two standing approvals.
THEOREM AwardedOnDoubleApproval == Spec => AwardOnlyOnDoubleApproval
  <1>1. TypeOK /\ Provenance /\ [Next]_vars =>
          [\A p \in Projects : p \in awarded' /\ p \notin awarded => BothApproved(p)]_vars
    BY CreditSteps DEF creditVars
  <1>2. QED
    BY <1>1, TypeCorrect, ProvenanceInvariant, PTL DEF Spec, AwardOnlyOnDoubleApproval

\* A credit keeps its amount, its project and its owner for ever.
THEOREM AwardsAreFinal == Spec => AwardIsFinal
  <1> DEFINE Kept == \A p \in awarded : /\ p \in awarded'
                                        /\ minutes'[p] = minutes[p]
                                        /\ projectRow'[p] = "live"
                                        /\ Owner[p] \in users'
  <1>1. TypeOK /\ Provenance /\ Provenance' /\ [Next]_vars => [Kept]_vars
    <2> SUFFICES ASSUME TypeOK, Provenance, Provenance', [Next]_vars,
                        NEW p \in awarded
                 PROVE  /\ p \in awarded'
                        /\ minutes'[p] = minutes[p]
                        /\ projectRow'[p] = "live"
                        /\ Owner[p] \in users'
      OBVIOUS
    <2>1. p \in awarded' /\ minutes'[p] = minutes[p]
      BY CreditSteps DEF creditVars, TypeOK, TablesTypeOK
    <2>2. p \in Projects
      BY DEF TypeOK, TablesTypeOK
    <2>3. QED
      BY <2>1, <2>2 DEF Provenance, ShippedBeforeCredited, ShippedLive, OwnersLive
  <1>2. QED
    BY <1>1, TypeCorrect, ProvenanceInvariant, PTL DEF Spec, AwardIsFinal

-----------------------------------------------------------------------------
(***************************************************************************)
(* No award is lost.  AwardOwed is inductive relative to Provenance, by    *)
(* which a new project starts undecided: the writer that completes the     *)
(* pair of approvals stands at award_read right after its write, and an    *)
(* attempt ends without a credit only in a state where the pair does not   *)
(* stand, or by failing, which marks the project.                          *)
(***************************************************************************)
\* Steps that leave both the approvals and the attempts of p as they are.
LEMMA OwedStutters ==
  ASSUME AwardOwed, missed \subseteq missed', awarded \subseteq awarded',
         \A p \in Projects : BothApproved(p)' => BothApproved(p),
         \A c \in Callers : pc[c] \in AwardPcs => pc'[c] \in AwardPcs /\ target'[c] = target[c]
  PROVE  AwardOwed'
  BY DEF AwardOwed

\* An attempt that ends without a credit has found one or leaves a mark, or
\* the approvals no longer stand.
LEMMA OwedAward ==
  ASSUME TypeOK, AwardOwed, NEW c \in Callers, AwardStep(c) \/ AwardFail(c)
  PROVE  AwardOwed'
  <1> USE DEF TypeOK, AwardTypeOK, AwardPcs, Goto
  <1>1. \A p \in Projects : BothApproved(p)' = BothApproved(p)
    BY DEF AwardStep, AwardRead, AwardCheck, AwardHours, AwardCommit, AwardFail,
       tableVars, peopleVars, reviewVars, BothApproved
  <1>2. awarded \subseteq awarded'
    BY DEF AwardStep, AwardRead, AwardCheck, AwardHours, AwardCommit, AwardFail,
       tableVars, creditVars
  <1>3. pc[c] \in AwardPcs /\ target[c] \in Projects
    BY DEF AwardStep, AwardRead, AwardCheck, AwardHours, AwardCommit, AwardFail
  <1>4. \A d \in Callers \ {c} : pc'[d] = pc[d] /\ target'[d] = target[d]
    BY DEF AwardStep, AwardRead, AwardCheck, AwardHours, AwardCommit, AwardFail, Return
  <1>5. missed \ {target[c]} \subseteq missed'
    BY DEF AwardStep, AwardRead, AwardCheck, AwardHours, AwardCommit, AwardFail
  <1>6. \/ pc'[c] \in AwardPcs /\ target'[c] = target[c]
        \/ ~BothApproved(target[c])
        \/ target[c] \in awarded'
        \/ target[c] \in missed'
    BY <1>3 DEF AwardStep, AwardRead, AwardCheck, AwardHours, AwardCommit, AwardFail,
       StillApproved, Inserted, tableVars, creditVars
  <1>7. ASSUME NEW p \in Projects, BothApproved(p)', p \notin awarded', p \notin missed'
        PROVE  \E d \in Callers : pc'[d] \in AwardPcs /\ target'[d] = p
    <2>1. CASE p = target[c]
      BY <1>1, <1>6, <1>7, <2>1
    <2>2. CASE p # target[c]
      <3>1. PICK d \in Callers : pc[d] \in AwardPcs /\ target[d] = p
        BY <1>1, <1>2, <1>5, <1>7, <2>2 DEF AwardOwed
      <3>2. QED BY <1>4, <2>2, <3>1
    <2>3. QED BY <2>1, <2>2
  <1>8. QED BY <1>7 DEF AwardOwed

\* A task that is dropped inside an attempt leaves the project marked.
LEMMA OwedDrop ==
  ASSUME TypeOK, AwardOwed, NEW c \in Callers, Drop(c)
  PROVE  AwardOwed'
  <1>1. \A p \in Projects : BothApproved(p)' = BothApproved(p)
    BY DEF Drop, tableVars, peopleVars, reviewVars, BothApproved
  <1>2. \A d \in Callers \ {c} : pc'[d] = pc[d] /\ target'[d] = target[d]
    BY DEF Drop, Goto, TypeOK, AwardTypeOK
  <1>3. awarded' = awarded /\ missed \subseteq missed'
        /\ (pc[c] \in AwardPcs => target[c] \in missed')
    BY DEF Drop, tableVars, creditVars
  <1>4. QED BY <1>1, <1>2, <1>3 DEF AwardOwed

\* Owners and admins complete no pair of approvals.
LEMMA OwedTables ==
  ASSUME TypeOK, Provenance, AwardOwed, TablesNext
  PROVE  AwardOwed'
  <1>1. UNCHANGED <<pc, awardVars>>
    BY DEF TablesNext
  <1>2. UNCHANGED awarded
    BY DEF TablesNext, CreateProject, ShipProject, AdminDeleteProject,
       AdminDeleteUser, creditVars
  <1>3. \A p \in Projects : BothApproved(p)' => BothApproved(p)
    <2> USE DEF TypeOK, TablesTypeOK, BothApproved
    <2>1. ASSUME NEW p \in Projects, CreateProject(p) \/ ShipProject(p)
          PROVE  \A q \in Projects : BothApproved(q)' => BothApproved(q)
      <3>1. CASE CreateProject(p)
        <4>1. UNCHANGED <<approval, fraud>> /\ projectRow[p] = "absent"
              /\ projectRow' = [projectRow EXCEPT ![p] = "live"]
          BY <3>1 DEF CreateProject, reviewVars
        <4>2. fraud[p] # "approved"
          BY <4>1 DEF Provenance, DecidedShipped, ShippedLive
        <4>3. QED BY <4>1, <4>2
      <3>2. CASE ShipProject(p)
        BY <3>2 DEF ShipProject, reviewVars
      <3>3. QED BY <2>1, <3>1, <3>2
    <2>2. ASSUME NEW p \in Projects, AdminDeleteProject(p)
          PROVE  \A q \in Projects : BothApproved(q)' => BothApproved(q)
      BY <2>2 DEF AdminDeleteProject, CascadeProjects
    <2>3. ASSUME NEW u \in Users, AdminDeleteUser(u)
          PROVE  \A q \in Projects : BothApproved(q)' => BothApproved(q)
      BY <2>3 DEF AdminDeleteUser, CascadeProjects
    <2>4. QED BY <2>1, <2>2, <2>3 DEF TablesNext
  <1>4. QED BY <1>1, <1>2, <1>3, OwedStutters DEF awardVars

\* A review that completes a pair of approvals is on its way to the credit.
LEMMA OwedReview ==
  ASSUME TypeOK, AwardOwed, NEW r \in Requests, ReviewNext(r)
  PROVE  AwardOwed'
  <1> USE DEF TypeOK, AwardTypeOK, AwardPcs, Goto, Callers
  <1>1. ASSUME NEW u \in Users, NEW p \in Projects, NEW d \in Decisions,
               ReviewStart(r, u, p, d)
        PROVE  AwardOwed'
    BY <1>1, OwedStutters DEF ReviewStart, tableVars, peopleVars, reviewVars,
       creditVars, awardVars, BothApproved
  <1>2. CASE ReviewUpsert(r)
    BY <1>2, OwedStutters DEF ReviewUpsert, Refuse, Forget, peopleVars, creditVars,
       BothApproved
  <1>3. CASE ReviewApply(r)
    <2>1. awarded' = awarded /\ missed' = missed /\ projectRow' = projectRow
          /\ fraud' = fraud
      BY <1>3 DEF ReviewApply, peopleVars, creditVars
    <2>2. \A d \in Callers : pc[d] \in AwardPcs =>
             pc'[d] \in AwardPcs /\ target'[d] = target[d]
      BY <1>3 DEF ReviewApply, Applied, Call, Refuse
    <2>3. subject[r] \in Projects
      BY <1>3 DEF ReviewApply, ReviewTypeOK
    <2>4. \A p \in Projects \ {subject[r]} : BothApproved(p)' => BothApproved(p)
      BY <1>3, <2>1, <2>3 DEF ReviewApply, BothApproved, TablesTypeOK
    <2>5. ASSUME NEW p \in Projects, p = subject[r], BothApproved(p)', ~BothApproved(p)
          PROVE  pc'[r] \in AwardPcs /\ target'[r] = p
      <3>1. approval' = [approval EXCEPT ![p] = decision[r]] /\ Applied(r)
        BY <1>3, <2>1, <2>5 DEF ReviewApply, BothApproved
      <3>2. decision[r] = "approved"
        BY <2>5, <3>1 DEF BothApproved, TablesTypeOK
      <3>3. QED BY <2>5, <3>1, <3>2 DEF Applied, Call
    <2>6. SUFFICES ASSUME NEW p \in Projects, BothApproved(p)', p \notin awarded',
                          p \notin missed'
                   PROVE  \E c \in Callers : pc'[c] \in AwardPcs /\ target'[c] = p
      BY DEF AwardOwed
    <2>7. CASE BothApproved(p)
      BY <2>1, <2>2, <2>6, <2>7 DEF AwardOwed
    <2>8. CASE p = subject[r] /\ ~BothApproved(p)
      BY <2>5, <2>6, <2>8
    <2>9. QED BY <2>4, <2>6, <2>7, <2>8
  <1>4. QED BY <1>1, <1>2, <1>3, OwedAward, OwedDrop DEF ReviewNext

\* So is an import that completes one.
LEMMA OwedSync ==
  ASSUME TypeOK, AwardOwed, NEW s \in Syncers, SyncNext(s)
  PROVE  AwardOwed'
  <1> USE DEF TypeOK, AwardTypeOK, AwardPcs, Goto, Callers
  <1>1. CASE ImportDecision(s)
    <2>1. PICK d \in work[s] :
             IF NormalizedFraudStatus(d[3]) = None \/ ~DecisionApplies(d[1])
               THEN UNCHANGED <<fraud, pc, target>>
               ELSE /\ fraud' = [fraud EXCEPT ![d[1]] = NormalizedFraudStatus(d[3])]
                    /\ AfterDecision(s, d[1], NormalizedFraudStatus(d[3]))
      BY <1>1 DEF ImportDecision
    <2>2. awarded' = awarded /\ missed' = missed /\ projectRow' = projectRow
          /\ approval' = approval /\ pc[s] = "fraud"
      BY <1>1 DEF ImportDecision, peopleVars, reviewVars, creditVars
    <2>3. d[1] \in Projects
      BY <2>2 DEF SyncTypeOK, Decided
    <2>4. \A c \in Callers : pc[c] \in AwardPcs =>
             pc'[c] \in AwardPcs /\ target'[c] = target[c]
      BY <2>1, <2>2 DEF AfterDecision, Call
    <2>5. \A p \in Projects \ {d[1]} : BothApproved(p)' => BothApproved(p)
      BY <2>1, <2>2, <2>3 DEF BothApproved, TablesTypeOK
    <2>6. BothApproved(d[1])' =>
             BothApproved(d[1]) \/ (pc'[s] = "award_read" /\ target'[s] = d[1])
      BY <2>1, <2>2, <2>3 DEF AfterDecision, Call, BothApproved, TablesTypeOK
    <2>7. QED BY <2>2, <2>3, <2>4, <2>5, <2>6 DEF AwardOwed
  <1>2. CASE \/ SyncParticipants(s) \/ SyncProjects(s) \/ SyncFraudStatuses(s)
             \/ CreateRecord(s) \/ PatchRecord(s) \/ PatchRefused(s)
             \/ SaveRecordId(s) \/ SyncComplete(s)
    <2>1. UNCHANGED <<projectRow, approval, fraud, awarded, missed, target>>
      BY <1>2 DEF SyncParticipants, SyncProjects, SyncFraudStatuses, StartPhase,
         CreateRecord, PatchRecord, PatchRefused, SaveRecordId, SyncComplete,
         tableVars, peopleVars, reviewVars, creditVars, awardVars
    <2>2. \A c \in Callers : pc[c] \in AwardPcs => pc'[c] = pc[c]
      BY <1>2 DEF SyncParticipants, SyncProjects, SyncFraudStatuses, StartPhase,
         CreateRecord, PatchRecord, PatchRefused, SaveRecordId, SyncComplete,
         SyncTypeOK
    <2>3. QED BY <2>1, <2>2, OwedStutters DEF BothApproved
  <1>3. QED BY <1>1, <1>2, OwedAward, OwedDrop DEF SyncNext, SyncStep

\* No step loses an award unseen.
LEMMA OwedStep ==
  ASSUME TypeOK, Provenance, AwardOwed, [Next]_vars
  PROVE  AwardOwed'
  <1>1. CASE (AirtableStaff /\ UNCHANGED requestVars)
             \/ (Recover /\ UNCHANGED <<requestVars, record, syncVars>>)
             \/ UNCHANGED vars
    BY <1>1, OwedStutters DEF AirtableStaff, Recover, vars, tableVars, peopleVars,
       reviewVars, creditVars, awardVars, BothApproved
  <1>2. QED BY <1>1, OwedTables, OwedReview, OwedSync DEF Next

\* Nothing is owed at first.
LEMMA OwedInit == Init => AwardOwed
  BY DEF Init, TablesInit, AwardOwed, BothApproved

\* No interleaving of reviews, imports and failures loses an award unseen.
THEOREM NoAwardLost == Spec => []AwardOwed
  <1>1. TypeOK /\ Provenance /\ AwardOwed /\ [Next]_vars => AwardOwed'
    BY OwedStep
  <1>2. QED BY OwedInit, <1>1, TypeCorrect, ProvenanceInvariant, PTL DEF Spec

-----------------------------------------------------------------------------
(***************************************************************************)
(* Reviewers on record.  Between the handler's two statements the review   *)
(* row may only go together with the reviewer or with the project, and     *)
(* either makes the second statement fail or match nothing.                *)
(***************************************************************************)
ReviewPending ==
    \A r \in Requests :
        /\ pc[r] \in {"upsert", "apply"} => projectRow[subject[r]] # "absent"
        /\ pc[r] = "apply" /\ author[r] \in users /\ projectRow[subject[r]] = "live"
             => <<subject[r], author[r]>> \in reviewed

ReviewsKept == ReviewPending /\ ReviewerOnRecordReviewed

\* Deletions take a name off the shipments with the review it stands for.
LEMMA ReviewsTables ==
  ASSUME TypeOK, ReviewsKept, TablesNext
  PROVE  ReviewsKept'
  <1> USE DEF TypeOK, TablesTypeOK, ReviewTypeOK, ReviewsKept, ReviewPending,
          ReviewerOnRecordReviewed
  <1>1. UNCHANGED <<pc, author, subject, decision>>
    BY DEF TablesNext, requestVars
  <1>2. \A r \in Requests : pc[r] \in {"upsert", "apply"} =>
                               subject[r] \in Projects /\ author[r] \in Users
    OBVIOUS
  <1>3. ASSUME NEW p \in Projects, CreateProject(p) PROVE ReviewsKept'
    BY <1>1, <1>2, <1>3 DEF CreateProject, reviewVars
  <1>4. ASSUME NEW p \in Projects, ShipProject(p) PROVE ReviewsKept'
    BY <1>1, <1>2, <1>4 DEF ShipProject, reviewVars
  <1>5. ASSUME NEW p \in Projects, AdminDeleteProject(p) PROVE ReviewsKept'
    BY <1>1, <1>2, <1>5 DEF AdminDeleteProject, CascadeProjects
  <1>6. ASSUME NEW u \in Users, AdminDeleteUser(u) PROVE ReviewsKept'
    <2>1. ReviewPending'
      BY <1>1, <1>2, <1>6, Constants DEF AdminDeleteUser, CascadeProjects
    <2>2. ReviewerOnRecordReviewed'
      BY <1>6, Constants DEF AdminDeleteUser, CascadeProjects
    <2>3. QED BY <2>1, <2>2
  <1>7. QED BY <1>3, <1>4, <1>5, <1>6 DEF TablesNext

\* The reviewer named on a shipment has a review of that project.
THEOREM ReviewersOnRecord == Spec => []ReviewerOnRecordReviewed
  <1>1. Init => ReviewsKept
    BY DEF Init, TablesInit, AwardInit, ReviewsKept, ReviewPending,
       ReviewerOnRecordReviewed, Callers
  <1>2. TypeOK /\ ReviewsKept /\ [Next]_vars => ReviewsKept'
    <2> SUFFICES ASSUME TypeOK, ReviewsKept, [Next]_vars PROVE ReviewsKept'
      OBVIOUS
    <2> USE DEF ReviewsKept, ReviewPending, ReviewerOnRecordReviewed
    <2>1. CASE TablesNext
      BY <2>1, ReviewsTables
    <2>2. ASSUME NEW r \in Requests, ReviewNext(r) PROVE ReviewsKept'
      <3> USE DEF TypeOK, TablesTypeOK, AwardTypeOK, ReviewTypeOK, Goto, Callers
      <3>1. CASE (AwardStep(r) \/ AwardFail(r)) /\ UNCHANGED requestVars
        <4>1. UNCHANGED <<users, projectRow, reviewed, reviewer, author, subject>>
          BY <3>1 DEF AwardStep, AwardRead, AwardCheck, AwardHours, AwardCommit,
             AwardFail, requestVars, tableVars, peopleVars, reviewVars
        <4>2. \A q \in Requests : pc'[q] = pc[q] \/ pc'[q] \in {"idle"} \union AwardPcs
          BY <3>1 DEF AwardStep, AwardRead, AwardCheck, AwardHours, AwardCommit,
             AwardFail, Return, AwardPcs
        <4>3. QED BY <4>1, <4>2 DEF AwardPcs
      <3>2. CASE Drop(r) /\ Forget(r)
        BY <3>2 DEF Drop, Forget, tableVars, peopleVars, reviewVars
      <3>3. ASSUME NEW u \in Users, NEW p \in Projects, NEW d \in Decisions,
                   ReviewStart(r, u, p, d)
            PROVE  ReviewsKept'
        BY <3>3 DEF ReviewStart, MayReview, tableVars, peopleVars, reviewVars
      <3>4. CASE ReviewUpsert(r)
        BY <3>4 DEF ReviewUpsert, Refuse, Forget, peopleVars, requestVars
      <3>5. CASE ReviewApply(r)
        <4>1. subject[r] \in Projects /\ author[r] \in Users
          BY <3>5 DEF ReviewApply
        <4>2. ReviewPending'
          BY <3>5 DEF ReviewApply, Applied, Call, Refuse, Forget, peopleVars
        <4>3. ReviewerOnRecordReviewed'
          BY <3>5, <4>1 DEF ReviewApply, ReviewerKnown
        <4>4. QED BY <4>2, <4>3
      <3>6. QED BY <2>2, <3>1, <3>2, <3>3, <3>4, <3>5 DEF ReviewNext
    <2>3. ASSUME NEW s \in Syncers, SyncNext(s), UNCHANGED requestVars
          PROVE  ReviewsKept'
      <3>1. UNCHANGED <<users, projectRow, reviewed, reviewer, author, subject>>
        BY <2>3 DEF SyncNext, SyncStep, SyncParticipants, SyncProjects,
           SyncFraudStatuses, StartPhase, CreateRecord, PatchRecord, PatchRefused,
           SaveRecordId, ImportDecision, SyncComplete, Drop, AwardStep, AwardRead,
           AwardCheck, AwardHours, AwardCommit, AwardFail, requestVars, tableVars,
           peopleVars, reviewVars
      <3>2. \A r \in Requests : pc'[r] = pc[r]
        <4>1. pc' = pc \/ \E label : Goto(s, label)
          BY <2>3 DEF SyncNext, SyncStep, SyncParticipants, SyncProjects,
             SyncFraudStatuses, StartPhase, CreateRecord, PatchRecord, PatchRefused,
             SaveRecordId, ImportDecision, AfterDecision, Call, SyncComplete, Drop,
             AwardStep, AwardRead, AwardCheck, AwardHours, AwardCommit, AwardFail,
             Return
        <4>2. QED BY <4>1, Constants DEF Goto, TypeOK, AwardTypeOK, Callers
      <3>3. QED BY <3>1, <3>2
    <2>4. CASE (AirtableStaff /\ UNCHANGED requestVars)
               \/ (Recover /\ UNCHANGED <<requestVars, record, syncVars>>)
               \/ UNCHANGED vars
      BY <2>4 DEF AirtableStaff, Recover, vars, tableVars, peopleVars, reviewVars,
         requestVars
    <2>5. QED BY <2>1, <2>2, <2>3, <2>4 DEF Next
  <1>3. QED BY <1>1, <1>2, TypeCorrect, PTL DEF Spec, ReviewsKept

-----------------------------------------------------------------------------
(***************************************************************************)
(* The backend: awards and orders on the same wallets and users.  Its      *)
(* invariant joins those of the two sides.  Each side keeps its own under  *)
(* its own steps, as proved above and in Shop_proofs; what is left is what *)
(* it does to the other's: an award is a credit of the shop, an order      *)
(* spends only where there was a balance, so where there was a credit, and *)
(* a deletion finds no order that holds the wallet.                        *)
(*                                                                         *)
(* Sales is the shop with what is proved about it.  It is Shopping under   *)
(* another name, which the provers have to be shown action by action.      *)
(***************************************************************************)
Sales == INSTANCE Shop_proofs WITH Requests <- Orders, credited <- awarded

\* The assumptions on the shop's constants, cited together.
LEMMA SalesConstants ==
    /\ Sales!WorkersAreDistinct /\ Sales!SweepLimitPositive
    /\ Sales!SilentAreWorkers /\ Sales!NoneIsNoUser /\ Sales!MailBoundPositive
    /\ Sales!PricesPositive /\ Sales!OwnersAreUsers /\ Sales!CreditsAreNat
  BY Constants, ShopPrices, OrdersAreNoSweeps, SilentReplicas, ShopBounds
     DEF Sales!WorkersAreDistinct, Sales!SweepLimitPositive,
     Sales!SilentAreWorkers, Sales!Workers,
     Sales!NoneIsNoUser, Sales!MailBoundPositive,
     Sales!PricesPositive, Sales!OwnersAreUsers, Sales!CreditsAreNat

\* Both instances start in the same state.
LEMMA SameInit == Shopping!Init <=> Sales!Init
  BY DEF Shopping!Init, Sales!Init, Shopping!OutboxInit, Sales!OutboxInit,
     Shopping!Workers, Sales!Workers

\* A worker delivers alike in both.
LEMMA SameDelivery ==
  ASSUME NEW w
  PROVE  /\ Shopping!DeliveryStep(w) <=> Sales!DeliveryStep(w)
         /\ Shopping!SendUnanswered(w) <=> Sales!SendUnanswered(w)
         /\ Shopping!DeliveryError(w) <=> Sales!DeliveryError(w)
         /\ Shopping!DropDelivery(w) <=> Sales!DropDelivery(w)
         /\ Shopping!SweepStep(w) <=> Sales!SweepStep(w)
  <1> USE DEF Shopping!Step, Sales!Step, Shopping!Delivered, Sales!Delivered,
     Shopping!rowVars, Sales!rowVars, Shopping!mailVars, Sales!mailVars,
     Shopping!DeliveryPcs, Sales!DeliveryPcs, Shopping!Unrecorded, Sales!Unrecorded,
     Shopping!AsksProvider, Sales!AsksProvider
  <1>1. Shopping!Claim(w) <=> Sales!Claim(w)
    BY DEF Shopping!Claim, Sales!Claim, Shopping!Claimable, Sales!Claimable
  <1>2. Shopping!SendAccepted(w) <=> Sales!SendAccepted(w)
    BY DEF Shopping!SendAccepted, Sales!SendAccepted
  <1>3. Shopping!SendRefused(w) <=> Sales!SendRefused(w)
    BY DEF Shopping!SendRefused, Sales!SendRefused
  <1>4. Shopping!MarkSent(w) <=> Sales!MarkSent(w)
    BY DEF Shopping!MarkSent, Sales!MarkSent
  <1>5. Shopping!MarkFailed(w) <=> Sales!MarkFailed(w)
    BY DEF Shopping!MarkFailed, Sales!MarkFailed
  <1>6. Shopping!DeliveryStep(w) <=> Sales!DeliveryStep(w)
    <2>1. Shopping!SendSkipped(w) <=> Sales!SendSkipped(w)
      BY DEF Shopping!SendSkipped, Sales!SendSkipped
    <2>2. QED
      BY <1>1, <1>2, <1>3, <1>4, <1>5, <2>1 DEF Shopping!DeliveryStep, Sales!DeliveryStep
  <1>7. Shopping!SendUnanswered(w) <=> Sales!SendUnanswered(w)
    BY DEF Shopping!SendUnanswered, Sales!SendUnanswered
  <1>8. Shopping!DeliveryError(w) <=> Sales!DeliveryError(w)
    BY DEF Shopping!DeliveryError, Sales!DeliveryError
  <1>9. Shopping!DropDelivery(w) <=> Sales!DropDelivery(w)
    BY DEF Shopping!DropDelivery, Sales!DropDelivery
  <1>10. Shopping!SweepStart(w) <=> Sales!SweepStart(w)
    <2>1. \A S : Shopping!Cardinality(S) = Sales!Cardinality(S)
      BY DEF Shopping!Cardinality, Sales!Cardinality
    <2>2. Shopping!Unsent = Sales!Unsent
      BY DEF Shopping!Unsent, Sales!Unsent
    <2>3. Sales!Due = Shopping!Due
      BY <2>1, <2>2, SMT DEF Sales!Due, Shopping!Due
    <2>4. QED BY <2>3, Zenon DEF Shopping!SweepStart, Sales!SweepStart
  <1>11. Shopping!SweepRow(w) <=> Sales!SweepRow(w)
    BY Zenon DEF Shopping!SweepRow, Sales!SweepRow, Shopping!Deliver, Sales!Deliver
  <1>12. QED BY <1>6, <1>7, <1>8, <1>9, <1>10, <1>11 DEF Shopping!SweepStep,
     Sales!SweepStep

\* A request buys alike in both.
LEMMA SamePurchase ==
  ASSUME NEW r
  PROVE  Shopping!PurchaseNext(r) <=> Sales!PurchaseNext(r)
  BY Zenon DEF Shopping!PurchaseNext, Sales!PurchaseNext, Shopping!PurchaseStart,
     Sales!PurchaseStart, Shopping!LockItem, Sales!LockItem, Shopping!LookUpKey,
     Sales!LookUpKey, Shopping!Debit, Sales!Debit, Shopping!InsertPurchase,
     Sales!InsertPurchase, Shopping!CommitPurchase, Sales!CommitPurchase,
     Shopping!DropPurchase, Sales!DropPurchase, Shopping!Answer, Sales!Answer,
     Shopping!Step, Sales!Step, Shopping!Forget, Sales!Forget,
     Shopping!GoOn, Sales!GoOn, Shopping!ItemLockFree, Sales!ItemLockFree,
     Shopping!HoldsItem, Sales!HoldsItem, Shopping!PurchasePcs, Sales!PurchasePcs,
     Shopping!Covers, Sales!Covers, Shopping!HoldsWallet, Sales!HoldsWallet,
     Shopping!Claimed, Sales!Claimed, Shopping!KeyTaken, Sales!KeyTaken,
     Shopping!Deliver, Sales!Deliver, Shopping!walletVars, Sales!walletVars,
     Shopping!requestVars, Sales!requestVars, Shopping!shopVars, Sales!shopVars,
     Shopping!deliveryVars, Sales!deliveryVars, Shopping!rowVars, Sales!rowVars,
     Shopping!mailVars, Sales!mailVars

\* So all their actions are the same.
LEMMA SameSteps ==
  /\ \A o \in Orders : Shopping!RequestNext(o) <=> Sales!RequestNext(o)
  /\ \A s \in Sweepers : Shopping!SweeperNext(s) <=> Sales!SweeperNext(s)
  /\ \A u \in Users : Shopping!ClaimLapses(u) <=> Sales!ClaimLapses(u)
  /\ \A p \in Projects, m \in Minutes : Shopping!CreditProject(p, m) <=> Sales!CreditProject(p, m)
  /\ Shopping!Recover <=> Sales!Recover
  /\ Shopping!vars = Sales!vars
  <1> USE DEF Shopping!shopVars, Sales!shopVars, Shopping!walletVars,
     Sales!walletVars, Shopping!requestVars, Sales!requestVars, Shopping!rowVars,
     Sales!rowVars, Shopping!mailVars, Sales!mailVars, Shopping!deliveryVars,
     Sales!deliveryVars
  <1>1. \A o \in Orders : Shopping!RequestNext(o) <=> Sales!RequestNext(o)
    BY SameDelivery, SamePurchase DEF Shopping!RequestNext, Sales!RequestNext
  <1>2. \A s \in Sweepers : Shopping!SweeperNext(s) <=> Sales!SweeperNext(s)
    BY SameDelivery DEF Shopping!SweeperNext, Sales!SweeperNext
  <1>3. \A u \in Users : Shopping!ClaimLapses(u) <=> Sales!ClaimLapses(u)
    BY DEF Shopping!ClaimLapses, Sales!ClaimLapses, Shopping!Sending,
       Sales!Sending, Shopping!Workers, Sales!Workers, Shopping!DeliveryPcs,
       Sales!DeliveryPcs
  <1>4. \A p \in Projects, m \in Minutes : Shopping!CreditProject(p, m) <=> Sales!CreditProject(p, m)
    BY DEF Shopping!CreditProject, Sales!CreditProject, Shopping!HoldsWallet,
       Sales!HoldsWallet
  <1>5. Shopping!Recover <=> Sales!Recover
    BY DEF Shopping!Recover, Sales!Recover
  <1>6. Shopping!vars = Sales!vars
    BY DEF Shopping!vars, Sales!vars
  <1>7. QED BY <1>1, <1>2, <1>3, <1>4, <1>5, <1>6

\* And with them the next-state relations.
LEMMA SameNext == [Sales!Next]_(Sales!vars) => [Shopping!Next]_(Shopping!vars)
  <1>1. (UNCHANGED Shopping!shopVars) <=> UNCHANGED Sales!shopVars
    BY DEF Shopping!shopVars, Sales!shopVars, Shopping!walletVars,
       Sales!walletVars, Shopping!requestVars, Sales!requestVars
  <1>2. UNCHANGED Sales!vars => UNCHANGED Shopping!vars
    BY DEF Shopping!vars, Sales!vars, Shopping!shopVars, Sales!shopVars,
       Shopping!walletVars, Sales!walletVars, Shopping!requestVars,
       Sales!requestVars, Shopping!rowVars, Sales!rowVars, Shopping!mailVars,
       Sales!mailVars, Shopping!deliveryVars, Sales!deliveryVars
  <1>3. QED BY <1>1, <1>2, SameSteps DEF Shopping!Next, Sales!Next

-----------------------------------------------------------------------------
\* An outage ends by itself, and no credit comes in the same step.
LEMMA TroubleSteps ==
  ASSUME [Next]_vars, trouble' # trouble
  PROVE  Recover
  BY DEF Next, vars, TablesNext, ReviewNext, ReviewStart, ReviewUpsert, ReviewApply,
     SyncNext, SyncStep, SyncParticipants, SyncProjects, SyncFraudStatuses, StartPhase,
     CreateRecord, PatchRecord, PatchRefused, SaveRecordId, ImportDecision, SyncComplete,
     AirtableStaff, Drop, AwardStep, AwardRead, AwardCheck, AwardHours, AwardCommit,
     AwardFail

\* A step of the backend is a step of the shop, whose credits are real ones.
LEMMA BackendIsSales ==
  ASSUME TypeOK, Provenance, [BackendNext]_backendVars
  PROVE  [Sales!Next]_(Sales!vars)
  <1> USE DEF Sales!shopVars, Sales!walletVars, Sales!requestVars, Sales!rowVars,
          Sales!mailVars, Sales!deliveryVars
  <1>1. CASE AwardsNext
    <2>1. [Next]_vars /\ UNCHANGED orderVars
      BY <1>1 DEF AwardsNext
    <2>2. CASE Recover
      BY <2>1, <2>2 DEF Recover, Sales!Next, Sales!Recover, tableVars,
         creditVars, orderVars, buyingVars
    <2>3. CASE UNCHANGED creditVars /\ UNCHANGED trouble
      BY <2>1, <2>3 DEF creditVars, orderVars, buyingVars, Sales!vars
    <2>4. CASE ~UNCHANGED creditVars /\ UNCHANGED trouble
      <3>1. PICK c \in Callers :
              /\ target[c] \in Projects /\ hours[c] \in Minutes
              /\ target[c] \notin awarded
              /\ awarded' = awarded \union {target[c]}
              /\ minutes' = [minutes EXCEPT ![target[c]] = hours[c]]
              /\ wallet' = [wallet EXCEPT ![Owner[target[c]]] = @ + hours[c]]
        BY <2>1, <2>4, CreditSteps
      <3>2. WalletFree(Owner[target[c]])
        BY <1>1, <3>1 DEF AwardsNext
      <3>3. \A o \in Orders : ~Sales!HoldsWallet(o, Owner[target[c]])
        BY <3>2 DEF WalletFree, Shopping!HoldsWallet, Sales!HoldsWallet
      <3>4. Sales!CreditProject(target[c], hours[c])
        BY <2>1, <2>4, <3>1, <3>3 DEF Sales!CreditProject, orderVars, buyingVars
      <3>5. QED BY <3>1, <3>4 DEF Sales!Next
    <2>5. QED BY <2>1, <2>2, <2>3, <2>4, TroubleSteps
  <1>2. CASE OrdersNext
    <2>1. UNCHANGED <<awarded, minutes>>
      BY <1>2 DEF OrdersNext, ownVars
    <2>2. ASSUME NEW o \in Orders, OrderNext(o) PROVE Sales!Next
      BY <2>2, SameSteps DEF OrderNext, Sales!Next
    <2>3. ASSUME NEW s \in Sweepers, Shopping!SweeperNext(s), UNCHANGED <<wallet, buyingVars>>
          PROVE  Sales!Next
      BY <2>1, <2>3, SameSteps DEF Sales!Next, buyingVars
    <2>4. ASSUME NEW u \in Users, Shopping!ClaimLapses(u), UNCHANGED <<wallet, buyingVars>>
          PROVE  Sales!Next
      BY <2>1, <2>4, SameSteps DEF Sales!Next, buyingVars
    <2>5. QED BY <1>2, <2>2, <2>3, <2>4 DEF OrdersNext
  <1>3. CASE UNCHANGED backendVars
    BY <1>3 DEF backendVars, vars, tableVars, creditVars, orderVars, buyingVars,
       Sales!vars
  <1>4. QED BY <1>1, <1>2, <1>3 DEF BackendNext

\* What both sides are known to keep, and what each owes the other.
BackendInv == TypeOK /\ Provenance /\ BuyersHaveAccounts /\ Sales!ShopInv

\* The first state satisfies the invariant.
LEMMA BackendFirst == BackendInit => BackendInv
  <1>1. BackendInit => TypeOK /\ Provenance
    BY TypeInit, ProvenanceInit DEF BackendInit
  <1>2. BackendInit => Sales!ShopInv
    BY SameInit, SalesConstants, Sales!ShopInit DEF BackendInit
  <1>3. BackendInit => BuyersHaveAccounts
    BY DEF BackendInit, Init, TablesInit, BuyersHaveAccounts, Shopping!Init
  <1>4. QED BY <1>1, <1>2, <1>3 DEF BackendInv

\* What the orders do is of no concern to reviews and synchronisations: all
\* they share is a wallet, and that is only spent where it was earned.
LEMMA OrdersKeepAwards ==
  ASSUME TypeOK, Provenance, Sales!ShopInv, OrdersNext
  PROVE  TypeOK' /\ Provenance'
  <1>1. [Sales!Next]_(Sales!vars)
    BY BackendIsSales DEF BackendNext
  <1>2. \A u \in Users : wallet'[u] = wallet[u] \/ wallet[u] # 0
    BY <1>1, SalesConstants, Sales!SpendsWhatIsThere DEF OrdersNext, ownVars
  <1>3. wallet' \in [Users -> Nat] /\ trouble' \in BOOLEAN
    <2>1. Sales!ShopInv'
      BY <1>1, SalesConstants, Sales!ShopStep
    <2>2. QED BY <2>1 DEF Sales!ShopInv, Sales!Typed, Sales!TypeOK, Sales!OutboxTypeOK
  <1>4. UNCHANGED ownVars
    BY DEF OrdersNext
  <1>5. TypeOK'
    BY <1>3, <1>4 DEF ownVars, peopleVars, reviewVars, awardVars, requestVars, syncVars,
       TypeOK, TablesTypeOK, AwardTypeOK, ReviewTypeOK, SyncTypeOK
  <1>6. Provenance'
    <2>1. UNCHANGED <<users, projectRow, shipped, awarded, fraud, record, work, saving>>
      BY <1>4 DEF ownVars, peopleVars, syncVars
    <2>2. WalletEarned'
      BY <1>2, <2>1 DEF Provenance, WalletEarned
    <2>3. QED
      BY <2>1, <2>2 DEF Provenance, OwnersLive, ShippedLive, RecordsShipped,
         WorkShipped,
         SavingShipped, DecidedShipped, ShippedBeforeCredited, EverShipped
  <1>7. QED BY <1>5, <1>6

\* A deletion waits for the orders of the user and finds their purchases; an
\* order finds a balance only where there is a credit, and a credited project
\* keeps its owner.
LEMMA AccountsStep ==
  ASSUME BackendInv, [BackendNext]_backendVars
  PROVE  BuyersHaveAccounts'
  <1> USE DEF BuyersHaveAccounts
  <1>1. CASE AwardsNext
    <2>1. UNCHANGED <<purchases, wpc, buyer>>
      BY <1>1 DEF AwardsNext, orderVars, buyingVars
    <2>2. \A o \in Orders, u \in Users : Shopping!HoldsWallet(o, u)' <=> Shopping!HoldsWallet(o, u)
      BY <2>1 DEF Shopping!HoldsWallet
    <2>3. \A u \in users \ users' : WalletFree(u) /\ \A row \in purchases : row[1] # u
      BY <1>1 DEF AwardsNext
    <2>4. QED BY <2>1, <2>2, <2>3 DEF BackendInv, WalletFree
  <1>2. CASE OrdersNext
    <2>1. UNCHANGED users
      BY <1>2 DEF OrdersNext, ownVars, peopleVars
    <2>2. [Sales!Next]_(Sales!vars)
      BY BackendIsSales DEF BackendInv
    <2>3. /\ \A o \in Orders, u \in Users : Sales!HoldsWallet(o, u)' => Sales!HoldsWallet(o, u) \/ wallet[u] # 0
          /\ \A row \in purchases' : row \in purchases \/ \E o \in Orders : Sales!HoldsWallet(o, row[1])
      BY <2>2, SalesConstants, Sales!SpendsWhatIsThere DEF BackendInv
    <2>4. \A u \in Users : wallet[u] # 0 => u \in users
      BY DEF BackendInv, TypeOK, TablesTypeOK, Provenance, WalletEarned,
         ShippedBeforeCredited, ShippedLive, OwnersLive
    <2>5. \A row \in purchases' : row[1] \in Users
      BY <2>2, SalesConstants, Sales!ShopStep
         DEF BackendInv, Sales!ShopInv, Sales!Typed, Sales!TypeOK
    <2>6. \A o, u : Shopping!HoldsWallet(o, u) <=> Sales!HoldsWallet(o, u)
      BY DEF Shopping!HoldsWallet, Sales!HoldsWallet
    <2>7. \A o, u : Shopping!HoldsWallet(o, u)' <=> Sales!HoldsWallet(o, u)'
      BY DEF Shopping!HoldsWallet, Sales!HoldsWallet
    <2>8. QED BY <2>1, <2>3, <2>4, <2>5, <2>6, <2>7 DEF BackendInv
  <1>3. CASE UNCHANGED backendVars
    BY <1>3 DEF BackendInv, backendVars, vars, tableVars, peopleVars, orderVars,
       buyingVars, Shopping!HoldsWallet
  <1>4. QED BY <1>1, <1>2, <1>3 DEF BackendNext

\* Each side keeps its own invariant under the steps of the other.
LEMMA BackendStep ==
  ASSUME BackendInv, [BackendNext]_backendVars
  PROVE  BackendInv'
  <1>1. Sales!ShopInv'
    BY BackendIsSales, SalesConstants, Sales!ShopStep DEF BackendInv
  <1>2. BuyersHaveAccounts'
    BY AccountsStep
  <1>3. TypeOK' /\ Provenance'
    <2>1. CASE AwardsNext
      BY <2>1, TypeStep, ProvenanceInductive DEF BackendInv, AwardsNext
    <2>2. CASE OrdersNext
      BY <2>2, OrdersKeepAwards DEF BackendInv
    <2>3. CASE UNCHANGED backendVars
      BY <2>3, TypeStep, ProvenanceInductive DEF BackendInv, backendVars
    <2>4. QED BY <2>1, <2>2, <2>3 DEF BackendNext
  <1>4. QED BY <1>1, <1>2, <1>3 DEF BackendInv

\* The invariant holds in every reachable state.
LEMMA BackendInvariant == BackendSpec => []BackendInv
  <1>1. BackendInv /\ [BackendNext]_backendVars => BackendInv'
    BY BackendStep
  <1>2. QED BY <1>1, BackendFirst, PTL DEF BackendSpec

\* The backend is an instance of the shop.
LEMMA BackendSales == BackendSpec => Sales!Spec
  <1>1. BackendInit => Sales!Init
    BY SameInit DEF BackendInit
  <1>2. BackendInv /\ [BackendNext]_backendVars => [Sales!Next]_(Sales!vars)
    BY BackendIsSales DEF BackendInv
  <1>3. QED BY <1>1, <1>2, BackendInvariant, PTL DEF BackendSpec, Sales!Spec

\* Whatever reviews, synchronisations and deletions do, the shop only ever
\* sees credits that arrive, each once.
THEOREM BackendImplementsShop == BackendSpec => ImplementsShop
  <1>1. BackendInit => Shopping!Init
    BY DEF BackendInit
  <1>2. BackendInv /\ [BackendNext]_backendVars => [Shopping!Next]_(Shopping!vars)
    BY BackendIsSales, SameNext DEF BackendInv
  <1>3. QED
    BY <1>1, <1>2, BackendInvariant, PTL DEF BackendSpec, ImplementsShop, Shopping!Spec

\* With real awards, orders and deletions racing for one wallet, what a person
\* has and has spent is what the person's projects earned.
THEOREM BackendBalances == BackendSpec => []BooksBalanced
  <1>1. Sales!WalletBalanced => BooksBalanced
    BY DEF BooksBalanced, Shopping!WalletBalanced, Sales!WalletBalanced,
       Shopping!LedgerOfShop!Balanced, Sales!LedgerOfShop!Balanced,
       Shopping!LedgerOfShop!Earned, Sales!LedgerOfShop!Earned,
       Shopping!LedgerOfShop!Spent, Sales!LedgerOfShop!Spent,
       Shopping!LedgerOfShop!CreditedTo, Sales!LedgerOfShop!CreditedTo,
       Shopping!LedgerOfShop!ClaimedBy, Sales!LedgerOfShop!ClaimedBy,
       Shopping!LedgerOfShop!MapThenSumSet, Sales!LedgerOfShop!MapThenSumSet,
       Shopping!LedgerOfShop!MapThenFoldSet, Sales!LedgerOfShop!MapThenFoldSet
  <1>2. QED BY <1>1, BackendSales, SalesConstants, Sales!WalletsBalance, PTL

\* Nobody loses the account under an order or after a purchase.
THEOREM BuyersStay == BackendSpec => []BuyersHaveAccounts
  <1>1. BackendInv => BuyersHaveAccounts
    BY DEF BackendInv
  <1>2. QED BY <1>1, BackendInvariant, PTL

\* Orders under way lose no award either, and neither does an award that has
\* to wait for one.
THEOREM NoAwardLostToOrders == BackendSpec => []AwardOwed
  <1>1. BackendInit => AwardOwed
    BY OwedInit DEF BackendInit
  <1>2. BackendInv /\ AwardOwed /\ [BackendNext]_backendVars => AwardOwed'
    <2> SUFFICES ASSUME BackendInv, AwardOwed, [BackendNext]_backendVars PROVE AwardOwed'
      OBVIOUS
    <2>1. CASE [Next]_vars
      BY <2>1, OwedStep DEF BackendInv
    <2>2. CASE OrdersNext
      BY <2>2, OwedStutters DEF OrdersNext, ownVars, peopleVars, reviewVars, awardVars,
         BothApproved
    <2>3. QED BY <2>1, <2>2 DEF BackendNext, AwardsNext, backendVars
  <1>3. QED BY <1>1, <1>2, BackendInvariant, PTL DEF BackendSpec
=============================================================================
