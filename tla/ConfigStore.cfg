SPECIFICATION Spec
CONSTANTS
  Default <- MCDefault
  Typed <- MCTyped
  Lives <- MCLives
  MaxEdits = 1
  MaxSecond = 1
  MaxFaults = 1
  Worlds <- MCWorlds
  None = None
  Junk = Junk
  Infinite = Infinite
  Words <- MCWords
  Quote = Quote
INVARIANTS TypeOK NewestIsPre TornIsPrefix ReenterKeeps
PROPERTIES StoreSpec
