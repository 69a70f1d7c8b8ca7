SPECIFICATION Spec
CONSTANTS
  u1 = u1
  u2 = u2
  p1 = p1
  None = None
  Users = {u1, u2}
  Admins = {u2}
  Reviewers = {u1}
  Projects = {p1}
  Owner <- OneOwner
  RecordIds = {a}
  Requests = {r1}
  Syncers = {s1}
  Minutes = {0, 1}
  Decisions = {"approved", "rejected"}
  RawStatuses = {"approved", "rejected", "unrecognised"}
  AllowRecordDeletion = TRUE
INVARIANTS TypeOK AwardOwed ShippedBeforeCredited WalletBacked ReviewerOnRecordReviewed
PROPERTIES AwardIsFinal AwardOnlyOnDoubleApproval ImplementsLedger
