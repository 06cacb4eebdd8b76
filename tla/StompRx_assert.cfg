SPECIFICATION RxSpec
CONSTANTS
  MaxUnits = 2
  MaxUspMsgLen = 10
INVARIANT BufferHoldsFrame
CHECK_DEADLOCK FALSE
