CONSTANTS
  Admins = {alice, bob}
  Targets = {t1}
  Approvals = {a1}
  Requests = {r1, r2}
  NumKeys = 1
SPECIFICATION Spec
INVARIANT NoReexecution
