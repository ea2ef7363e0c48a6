CONSTANTS
  N = 4
  MaxAsked = 1
  Programs <- Graphs4
  FirstLeaf = {"unresolved"}
  SecondLeaf = {"secret", "future"}
  Kinds = {"map", "flat_map", "join", "try_join"}
SPECIFICATION FairSpec
INVARIANTS DepsTracked
CHECK_DEADLOCK FALSE
