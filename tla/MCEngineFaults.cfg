SPECIFICATION Spec
CONSTANTS
  None = None
  p = p
  x = x
  y = y
  u1 = u1
  u2 = u2
  u3 = u3
  i1 = i1
  i2 = i2
  i3 = i3
  i4 = i4
  Resource = {x, y}
  Urn = {u2, u3}
  UrnOf <- UrnDistinct
  ParentOf <- Flat
  Component = {}
  Input = {a, b}
  Id = {i1, i2}
  Handler = {h1, h2}
  Fault = {"providerError", "lostCall", "programFails", "exitEarly", "outOfBand", "saveFails", "crash"}
  MaxOps = 2
CHECK_DEADLOCK FALSE
SYMMETRY Symmetry
INVARIANTS TypeOK NoSilentLeak NoSilentDangling NoSilentDrift OneUrnPerObject
PROPERTIES PreviewTouchesNothing LedgerSpec
