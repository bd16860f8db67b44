\* DMA mapping failures of the head and of fragments: skb accounting.
CONSTANTS
  NumDescs = 4
  StopThresh = 2
  p1 = p1
  p2 = p2
  p3 = p3
  NoPkt = NoPkt
  MaxSegs = 2
  MaxSgElems = 1
  TxBudget = 1
  Pkts <- MC_Pkts2
  MaxFrags = 2
  XmitMore = FALSE
  AllocFaults = FALSE
  HeadMapFaults = TRUE
  FragMapFaults = TRUE
  Teardown = FALSE
  TsoOneSeg = FALSE
  HwstampModes = {FALSE, TRUE}
SPECIFICATION Spec
INVARIANT SkbOwnership
