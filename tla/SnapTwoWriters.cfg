SPECIFICATION Spec
CONSTANTS
  Writers = {w1, w2}
  Readers = {r}
  Files = {f1, f2, f3, f4}
  Size = 2
  MaxAge = 2
  MaxSnaps = 3
  MaxNow = 0
  NoFile = NoFile
  Nothing = Nothing
INVARIANTS WholeReads
