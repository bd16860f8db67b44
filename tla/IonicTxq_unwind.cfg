\* ionic_tx_map_skb dma_fail unwind: fragment mapping failures only.
CONSTANTS
  NumDescs = 4
  StopThresh = 2
  p1 = p1
  p2 = p2
  p3 = p3
  NoPkt = NoPkt
  MaxSegs = 2
  MaxSgElems = 1
  TxBudget = 2
  Pkts <- MC_Pkts2
  MaxFrags = 2
  XmitMore = FALSE
  AllocFaults = FALSE
  HeadMapFaults = FALSE
  FragMapFaults = TRUE
  Teardown = FALSE
  TsoOneSeg = FALSE
  HwstampModes = {FALSE}
SPECIFICATION Spec
INVARIANT DmaMappingSafe
