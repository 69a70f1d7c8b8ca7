SPECIFICATION BackendSpec
CONSTANTS
  u1 = u1
  p1 = p1
  Ticket = ticket
  None = None
  Users = {u1}
  Admins = {u1}
  Reviewers = {u1}
  Projects = {p1}
  Owner <- OneOwner
  RecordIds = {a}
  Requests = {r1}
  Syncers = {s1}
  Minutes = {0, 1}
  Decisions = {"approved"}
  RawStatuses = {"approved"}
  AllowRecordDeletion = FALSE
  Orders = {o1}
  Items = {ticket}
  Price <- OneMinute
  Keys = {k1, k2}
  Sweepers = {w1}
  SweepLimit = 1
  Undeliverable = {}
  Silent = {w1}
  MaxMails = 1
INVARIANTS BooksBalanced BuyersHaveAccounts
PROPERTIES ImplementsShop
