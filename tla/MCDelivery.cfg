SPECIFICATION LiveSpec
CONSTANTS
  u1 = u1
  u2 = u2
  u3 = u3
  p1 = p1
  p2 = p2
  p3 = p3
  mug = mug
  Ticket = ticket
  None = None
  Users = {u1, u2, u3}
  Projects = {p1, p2, p3}
  Owner <- ThreeBuyers
  Items = {ticket}
  Price <- Prices
  Keys = {k1}
  Requests = {r1}
  Sweepers = {s1}
  SweepLimit = 2
  Undeliverable = {u1}
  Silent = {r1}
  MaxMails = 2
  Minutes = {2}
INVARIANTS SoleSender
PROPERTIES ImplementsConfirmations ConfirmedEventually
