SPECIFICATION Spec
CONSTANTS
  None = None
  People = {p, q}
  Emails = {e, f}
  Rows = {x, y}
  Attempts = {a1}
  Callbacks = {c1, c2}
  AdminRequests = {d}
SYMMETRY Alike
INVARIANTS TypeOK OneAccountEach OwnAccount OnlyOwnAccountRefuses
PROPERTIES AdminsComeFromAdmins
