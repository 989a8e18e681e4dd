SPECIFICATION Spec
CONSTANTS
  Writers = {w}
  Readers = {r}
  Files = {f1, f2, f3}
  Size = 2
  MaxAge = 2
  MaxSnaps = 3
  MaxNow = 3
  NoFile = NoFile
  Nothing = Nothing
INVARIANTS TypeOK WholeReads FreshReads
PROPERTIES RegisterSpec
