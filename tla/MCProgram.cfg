SPECIFICATION Spec
CONSTANTS
  bucket = bucket
  other = other
  Statement <- MCStatement
  Served = {bucket, other}
  Canned = {bucket}
  Kinds <- MCKinds
  ChainOf <- MCChainOf
  Requires = {bucket, other}
  Injected = {other}
  Transform = {t1, t2}
  Stack = stack
  None = None
  MaxRuns = 1
SYMMETRY Symmetry
CHECK_DEADLOCK FALSE
INVARIANTS TypeOK TransformsApplied StackOutputsLatest EventsTell
PROPERTIES MonitorSpec
