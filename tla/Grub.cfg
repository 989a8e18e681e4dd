SPECIFICATION Spec
CONSTANTS
  CoreLists <- MCCoreLists
  CStates <- MCCStates
  Hosts <- AllHosts
  Configs <- AllConfigs
  Restores <- AnyRestore
  Within <- MCWithin
  Elsewhere = {}
  Worlds <- MCWorlds
  NoFile = NoFile
  None = None
INVARIANTS TypeOK BaselineTrue NothingForgotten BootWhole RebootDelivers
PROPERTY ContractSpec
