\* RX progress when page allocation can fail transiently: the fairness
\* lets a fill that is retried often enough get its pages.
CONSTANTS
  NumDescs = 4
  pg1 = pg1
  pg2 = pg2
  pg3 = pg3
  pg4 = pg4
  pg5 = pg5
  pg6 = pg6
  Pages <- MC_Pages
  NoPage = NoPage
  PageSize = 1
  FrameLen = 1
  MtuSplit = FALSE
  MaxSgElems = 0
  CopyBreak = 0
  RxBudget = 2
  FillThresh = 1
  AllocFaults = TRUE
  Teardown = FALSE
SPECIFICATION Spec
\* The stop this run is about is a state with no successor; report it as
\* the violated property rather than as a deadlock.
CHECK_DEADLOCK FALSE
PROPERTY RxKeepsReceiving
