SPECIFICATION Spec
CONSTANTS
  Pids = {p1, p2, p3}
  Tuis = {tui}
  Clis = {cli}
  Worlds <- MCWorlds
  MaxTries = 1
  MaxCrashes = 1
  NoFile = NoFile
  None = None
INVARIANTS TypeOK OneDaemon Findable DisabledIsStopped
PROPERTIES CallsReturn 
