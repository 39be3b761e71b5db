CONSTANTS
  a = a
  b = b
  Xloil = Xloil
  Core = Core
  Xlls = {Xloil, a, b}
  Early = {b}
  Plugins <- TwoPlugins
  Faults = {"settings", "missing", "refuses", "attach"}
  MaxOpens = 6
SPECIFICATION FairLoaderSpec
INVARIANT NothingIsKept
PROPERTY PluginsAreTried
CHECK_DEADLOCK FALSE
