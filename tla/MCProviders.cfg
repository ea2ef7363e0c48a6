SPECIFICATION FairSpec
CONSTANTS
  None = None
  Engine = engine
  Package = {aws, gcp}
  Proc = {q1, q2, q3}
  Task = {t1, t2}
  Fault = {"launchFails", "pluginDies", "programFails", "startFails"}
  MaxRuns = 2
CHECK_DEADLOCK FALSE
INVARIANTS TypeOK OneProcessPerPackage NoStrayProcess OnlyLatePluginsSurvive OwnPluginsConnect
PROPERTIES ShutdownLeavesNothing CallersAreServed
