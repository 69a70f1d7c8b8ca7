SPECIFICATION Spec
CONSTANTS
  u1 = u1
  u2 = u2
  p1 = p1
  None = None
  Users = {u1}
  Admins = {}
  Reviewers = {u1}
  Projects = {p1}
  Owner <- OneOwner
  RecordIds = {a, b}
  Requests = {r1}
  Syncers = {s1, s2}
  Minutes = {0}
  Decisions = {"approved"}
  RawStatuses = {"approved", "rejected"}
  AllowRecordDeletion = FALSE
PROPERTIES RejectionStands
