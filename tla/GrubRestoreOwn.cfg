SPECIFICATION Spec
CONSTANTS
  CoreLists <- MCCoreLists
  CStates <- MCCStates
  Hosts <- OnlyOwn
  Configs <- OnlyA
  Restores <- RestoreNoCores
  Within <- ExactWithin
  Elsewhere = {}
  Worlds <- RestoreWorld
  NoFile = NoFile
  None = None
INVARIANT NextBootOriginal
