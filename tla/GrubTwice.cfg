SPECIFICATION Spec
CONSTANTS
  CoreLists <- MCCoreLists
  CStates <- MCCStates
  Hosts <- OnlyPlain
  Configs <- OnlyA
  Restores <- NoSnapshot
  Within <- ExactWithin
  Elsewhere = {}
  Worlds <- PlainWorld
  NoFile = NoFile
  None = None
INVARIANT SetupConverges
