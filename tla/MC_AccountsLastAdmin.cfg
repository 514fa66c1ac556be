SPECIFICATION Spec
CONSTANTS
  Users = {u1, u2}
  Founder = u1
  Tasks = {t1, t2}
  SecLen = 1
  MaxTime = 1
  MaxTokens = 0
  None = None
INVARIANTS AdminRemains
