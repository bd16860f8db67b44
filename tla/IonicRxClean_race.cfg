\* ethtool moves rx_copybreak between 1 and 2 while frames of length 2
\* arrive: a write between the reads at lines 324 and 410 flips the
\* decision for the frame being cleaned.
SPECIFICATION Spec
CONSTANTS
  sk1 = sk1
  sk2 = sk2
  sk3 = sk3
  Skbs <- MC_Skbs
  NoSkb = NoSkb
  Lens = {2}
  CopyBreaks = {1, 2}
INVARIANT RxSkbOwnedOnce
