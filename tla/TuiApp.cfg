SPECIFICATION Spec
CONSTANTS
  Form <- MCForm
  MaxSnaps = 4
  Worlds <- MCWorlds
INVARIANTS TypeOK KeysGoWhereSeen PickerInRange  Sighted
PROPERTIES TeardownGuarded
CHECK_DEADLOCK FALSE
