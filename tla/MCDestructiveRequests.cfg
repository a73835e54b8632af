\* Two overlapping requests on one target, two approvals, three operators.
CONSTANTS
  Admins = {alice, bob, carol}
  Targets = {t1}
  Approvals = {a1, a2}
  Requests = {r1, r2}
  NumKeys = 1
SPECIFICATION Spec
SYMMETRY Symmetry
INVARIANTS
  TypeOK
  TwoPartyRule
  ErasureIsCertified
  RecordedAnswerIsTrue
