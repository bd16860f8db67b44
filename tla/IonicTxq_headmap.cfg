\* Head dma_map_single failure checked with dma_mapping_error(dev, 0).
CONSTANTS
  NumDescs = 4
  StopThresh = 2
  p1 = p1
  p2 = p2
  p3 = p3
  NoPkt = NoPkt
  MaxSegs = 2
  MaxSgElems = 1
  TxBudget = 2
  Pkts <- MC_Pkts2
  MaxFrags = 1
  XmitMore = FALSE
  AllocFaults = FALSE
  HeadMapFaults = TRUE
  FragMapFaults = FALSE
  Teardown = FALSE
  TsoOneSeg = FALSE
  HwstampModes = {FALSE}
SPECIFICATION Spec
INVARIANT DmaMappingSafe
