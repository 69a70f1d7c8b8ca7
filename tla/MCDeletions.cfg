SPECIFICATION Spec
CONSTANTS
  None = None
  o = o
  Users = {o}
  Projects = {p}
  Items = {i}
  Names = {n1, n2}
  Unique = {k1, k2}
  Owner <- MCOwner
  ReviewerOf <- MCReviewerOf
  Tasks = {t1, t2}
  Uploads = {u1}
SYMMETRY Alike
INVARIANTS TypeOK DeadlocksAreKnown ReferencesHold BannerServed NoLeftovers
