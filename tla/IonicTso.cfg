\* The TSO walk over every skb of up to 3 buffers (2 fragments, the SG
\* limit) of 1..3 bytes, hdrlen 1..2 and mss 1..3.  The walk ends once
\* the last descriptor is posted, so the final state has no successor.
CONSTANTS
  MaxSgElems = 2
  MaxBufLen = 3
  MaxHdr = 2
  MaxMss = 3
SPECIFICATION Spec
CHECK_DEADLOCK FALSE
INVARIANT TypeOK
INVARIANT TsoMatchesReference
