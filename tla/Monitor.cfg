SPECIFICATION Spec
CONSTANTS
  Hosts <- MCHosts
  Cap = 3
  MaxBuilt = 2
  MaxPlugs = 2
  Wrap = 100
  MaxJiffies = 6
  MaxStep = 2
  Worlds <- MCWorlds
  None = None
INVARIANTS TypeOK LabelsMatch NoLeak VethsCurrent UsageExact
