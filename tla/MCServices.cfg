CONSTANTS
  Works = {1}
  Others = {e}
  Places = 2
  NoAddr = NoAddr
  Sos = {old, new}
  Startup = old
  MaxFds = 1
  MaxReload = 1
  MaxShort = 1
SPECIFICATION FairSpec
INVARIANTS
  TypeOK
  CacheIsTrue
  PluginWasWanted
PROPERTIES
  ClosedEnds
  CachesConverge
