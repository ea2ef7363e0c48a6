SPECIFICATION Spec
CONSTANTS
  None = None
  Process = {p1, p2}
  Debug = {p1}
  Cell = {c1, out}
  Export = {out}
  Value = {v1, v2}
  Lookalike = {v2}
  Passphrase = {w1, w2}
  Salt = {s1, s2, s3}
  MaxOps = 4
CHECK_DEADLOCK FALSE
SYMMETRY Symmetry
INVARIANTS TypeOK CiphertextFitsSalt SaltKept
PROPERTIES ManagerEncrypts
