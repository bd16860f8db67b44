\* Liveness of one TX queue: 2 skbs, every skb handed over is freed.
\* Deadlock freedom is checked by IonicTxq_safety.cfg over a larger model;
\* here a stall (always with an skb still live) is reported by the property.
CONSTANTS
  NumDescs = 4
  StopThresh = 2
  p1 = p1
  p2 = p2
  p3 = p3
  NoPkt = NoPkt
  MaxSegs = 2
  MaxSgElems = 1
  TxBudget = 2
  Pkts <- MC_Pkts2
  MaxFrags = 0
  XmitMore = FALSE
  AllocFaults = TRUE
  HeadMapFaults = FALSE
  FragMapFaults = FALSE
  Teardown = FALSE
  TsoOneSeg = FALSE
  HwstampModes = {FALSE, TRUE}
SPECIFICATION Spec
PROPERTY EveryPacketReleased
CHECK_DEADLOCK FALSE
