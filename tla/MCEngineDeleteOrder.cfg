SPECIFICATION Spec
CONSTANTS
  None = None
  p = p
  x = x
  y = y
  u1 = u1
  u2 = u2
  u3 = u3
  i1 = i1
  i2 = i2
  i3 = i3
  i4 = i4
  Resource = {p, x}
  Urn = {u1, u2}
  UrnOf <- UrnDistinct
  ParentOf <- Family
  Component = {}
  Input = {a}
  Id = {i1, i2}
  Handler = {h1}
  Fault = {}
  MaxOps = 2
CHECK_DEADLOCK FALSE
SYMMETRY Symmetry
PROPERTIES DeleteChildrenFirst
