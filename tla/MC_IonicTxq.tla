---------------------------- MODULE MC_IonicTxq ----------------------------
(* Model-checking instance of IonicTxq: three skbs over a 4-entry ring.   *)
EXTENDS IonicTxq

CONSTANTS p1, p2, p3

MC_Pkts == {p1, p2, p3}
MC_Pkts2 == {p1, p2}


=============================================================================
