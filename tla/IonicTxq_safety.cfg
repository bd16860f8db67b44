\* Safety of one TX queue: 3 skbs, 4-entry ring, linearize and
\* skb_cow_head failures, doorbell rung on every packet; the LIF may be
\* stopped, the queue flushed, emptied and reopened.
CONSTANTS
  NumDescs = 4
  StopThresh = 2
  p1 = p1
  p2 = p2
  p3 = p3
  NoPkt = NoPkt
  MaxSegs = 2
  MaxSgElems = 1
  TxBudget = 1
  Pkts <- MC_Pkts
  MaxFrags = 2
  XmitMore = FALSE
  AllocFaults = TRUE
  HeadMapFaults = FALSE
  FragMapFaults = FALSE
  Teardown = TRUE
  TsoOneSeg = FALSE
  HwstampModes = {FALSE}
SPECIFICATION Spec
INVARIANT TypeOK
INVARIANT SkbOwnership
INVARIANT DmaMappingSafe
INVARIANT CompletionOrder
INVARIANT TxTeardownReleases
PROPERTY TxQueueRefined
