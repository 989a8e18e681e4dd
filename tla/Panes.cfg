SPECIFICATION Spec
CONSTANTS
  Chars = {"a", "c"}
  ClearText <- MCClear
  Greeting = 1
  MaxText = 2
  MaxTotal = 4
  MaxVisible = 3
  Strides = {1, 2, 3}
  Far = 9
  HistoryCap = 2
  None = None
INVARIANTS TypeOK WindowFull Browsing FewLostPresses
