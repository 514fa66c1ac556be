SPECIFICATION Spec
CONSTANTS
  Users = {u1, u2}
  Founder = u1
  Tasks = {t1, t2}
  SecLen = 1
  MaxTime = 2
  MaxTokens = 1
  None = None
SYMMETRY Symmetry
INVARIANTS CachedAdminExplained AdminTokenExplained
PROPERTY LastAdminKept
