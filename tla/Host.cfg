SPECIFICATION Spec
CONSTANTS
  Tui = tui
  Daemon = daemon
  Machines <- MCMachines
  CoreLists = {"2-5", "3"}
  Names = {"ns", "lab"}
  Nets = {n1, n2}
  Configs <- MCConfigs
  Default <- MCDefault
  Worlds <- MCWorlds
  NoFile = NoFile
  None = None
INVARIANTS TypeOK RuntimeBaselineTrue RuntimeNothingForgotten SetupTakesHold
SYMMETRY NetSymmetry
