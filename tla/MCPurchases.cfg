SPECIFICATION Spec
CONSTANTS
  u1 = u1
  u2 = u2
  u3 = u3
  p1 = p1
  p2 = p2
  p3 = p3
  mug = mug
  Ticket = ticket
  None = None
  Users = {u1}
  Projects = {p1, p2}
  Owner <- OneBuyer
  Items = {ticket, mug}
  Price <- Prices
  Keys = {k1, k2}
  Requests = {r1, r2}
  Sweepers = {}
  SweepLimit = 1
  Undeliverable = {}
  Silent = {}
  MaxMails = 1
  Minutes = {1, 2}
INVARIANTS TypeOK KeyNamesOnePurchase TicketsQueued
PROPERTIES ReplayNeverRefused ImplementsLedger
