SPECIFICATION Spec
CONSTANTS
  Tui = tui
  Daemon = daemon
  Machines <- JustPlain
  CoreLists = {"2-5", "3"}
  Names = {"ns", "lab"}
  Nets = {n1, n2}
  Configs <- MCConfigs
  Default <- MCDefault
  Worlds <- Calm
  NoFile = NoFile
  None = None
INVARIANT ActiveIsApplied
