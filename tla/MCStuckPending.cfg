SPECIFICATION Spec
CONSTANTS
  None = None
  Events = {e1}
  Requests = {r1, r2}
  Keys = {k1}
  Limit = 3
  ProviderMayFail = FALSE
PROPERTIES InProgressIsTrue
