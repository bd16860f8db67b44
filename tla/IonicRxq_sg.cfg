\* RX safety with page splitting and scatter-gather: pages of three split
\* units, frames of up to two, so a recycled page can leave too little
\* room and the fill adds an SG buffer; frames of one unit are copied
\* (copybreak), longer ones attached as frags; all allocation failures;
\* the LIF may be stopped and the queue emptied at any point.
\* A 2-entry ring (one descriptor, 2 / IONIC_RX_FILL_DIV = 0 threshold)
\* keeps the four pages its two slots can hold within reach.
CONSTANTS
  NumDescs = 2
  pg1 = pg1
  pg2 = pg2
  pg3 = pg3
  pg4 = pg4
  pg5 = pg5
  pg6 = pg6
  Pages <- MC_Pages
  NoPage = NoPage
  PageSize = 3
  FrameLen = 2
  MtuSplit = TRUE
  MaxSgElems = 1
  CopyBreak = 1
  RxBudget = 2
  FillThresh = 0
  AllocFaults = TRUE
  Teardown = TRUE
SYMMETRY MC_Symmetry
SPECIFICATION Spec
\* A failed ionic_rx_fill on an empty ring really stops the queue (see the
\* rx_fill_stall run); safety is checked here, that stop by the liveness runs.
CHECK_DEADLOCK FALSE
INVARIANT TypeOK
INVARIANT RxPageAccounting
INVARIANT RxNoDmaOverlap
INVARIANT RxDescCapacity
INVARIANT RxEmptyReleases
