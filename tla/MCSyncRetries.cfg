SPECIFICATION LiveSpec
CONSTANTS
  u1 = u1
  u2 = u2
  p1 = p1
  None = None
  Users = {u1}
  Admins = {}
  Reviewers = {u1}
  Projects = {p1}
  Owner <- OneOwner
  RecordIds = {a, b}
  Requests = {r1}
  Syncers = {s1}
  Minutes = {0}
  Decisions = {"approved"}
  RawStatuses = {"approved", "rejected", "unset"}
  AllowRecordDeletion = FALSE
PROPERTIES AwardEventually FraudConverges
