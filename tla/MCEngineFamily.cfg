SPECIFICATION Spec
CONSTANTS
  None = None
  p = p
  x = x
  y = y
  u1 = u1
  u2 = u2
  u3 = u3
  i1 = i1
  i2 = i2
  i3 = i3
  i4 = i4
  Resource = {p, x, y}
  Urn = {u1, u2, u3}
  UrnOf <- UrnDistinct
  ParentOf <- Family
  Component = {u1}
  Input = {a, b}
  Id = {i1, i2, i3, i4}
  Handler = {h1, h2}
  Fault = {}
  MaxOps = 3
CHECK_DEADLOCK FALSE
SYMMETRY Symmetry
INVARIANTS CheckpointExact
PROPERTIES DestroyChildrenFirst
