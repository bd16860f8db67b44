\* A TSO completion cleaned slot by slot while ionic_maybe_stop_tx stops
\* and re-checks: 3-segment skbs on a 4-entry ring.
CONSTANTS
  NumDescs = 4
  StopThresh = 2
  p1 = p1
  p2 = p2
  p3 = p3
  NoPkt = NoPkt
  MaxSegs = 3
  MaxSgElems = 1
  TxBudget = 2
  Pkts <- MC_Pkts2
  MaxFrags = 0
  XmitMore = FALSE
  AllocFaults = FALSE
  HeadMapFaults = FALSE
  FragMapFaults = FALSE
  Teardown = FALSE
  TsoOneSeg = FALSE
  HwstampModes = {FALSE}
SPECIFICATION Spec
INVARIANT NoLostWakeup
