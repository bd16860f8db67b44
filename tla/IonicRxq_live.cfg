\* RX progress with no allocation failure: the ring is refilled and
\* announced forever.  Pages are not split here (recycling is covered by
\* the safety run); liveness is checked without symmetry.
CONSTANTS
  NumDescs = 4
  pg1 = pg1
  pg2 = pg2
  pg3 = pg3
  pg4 = pg4
  pg5 = pg5
  pg6 = pg6
  Pages <- MC_Pages
  NoPage = NoPage
  PageSize = 1
  FrameLen = 1
  MtuSplit = FALSE
  MaxSgElems = 0
  CopyBreak = 0
  RxBudget = 2
  FillThresh = 1
  AllocFaults = FALSE
  Teardown = FALSE
SPECIFICATION Spec
\* A state with no successor has hw_tail = dbell (HwRecv is disabled) and
\* so violates RxKeepsReceiving; a stop is reported through that property.
CHECK_DEADLOCK FALSE
PROPERTY RxKeepsReceiving
