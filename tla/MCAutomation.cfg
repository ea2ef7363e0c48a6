SPECIFICATION Spec
CONSTANTS
  w1 = w1
  w2 = w2
  own = own
  Worker = {w1, w2}
  Stack <- MCStack
  Key = {region, token}
  Setting = {on}
  EnvOf <- MCEnvOf
  Plain = plain
  None = None
  Empty = Empty
  Garbled = Garbled
  Saved = Saved
  MaxOps = 3
CHECK_DEADLOCK FALSE
INVARIANTS TypeOK SettingsReachProgram UnreadKept StackIsThere
