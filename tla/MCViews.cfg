SPECIFICATION LiveSpec
CONSTANTS
  None = None
  Views = {hackatime}
  Links = {n, m}
  Accounts = {x, y}
  Users = {o, d}
  Owner = o
  Readers = {r1}
  Writers = {w1}
  Connectors = {c1}
INVARIANTS StaleOnlyByRace
PROPERTIES ViewsConverge OwnersViewReturns
