\* Doorbell deferred on xmit_more while ionic_maybe_stop_tx(q, 4) stops
\* the queue.  The stall this run exhibits is a state with no step left,
\* so deadlock is not reported separately; the liveness property shows it.
CONSTANTS
  NumDescs = 4
  StopThresh = 2
  p1 = p1
  p2 = p2
  p3 = p3
  NoPkt = NoPkt
  MaxSegs = 2
  MaxSgElems = 1
  TxBudget = 2
  Pkts <- MC_Pkts
  MaxFrags = 1
  XmitMore = TRUE
  AllocFaults = FALSE
  HeadMapFaults = FALSE
  FragMapFaults = FALSE
  Teardown = FALSE
  TsoOneSeg = FALSE
  HwstampModes = {FALSE}
SPECIFICATION Spec
PROPERTY EveryPacketReleased
CHECK_DEADLOCK FALSE
