---------------------------- MODULE MC_IonicRxq ----------------------------
EXTENDS IonicRxq, TLC

CONSTANTS pg1, pg2, pg3, pg4, pg5, pg6

MC_Pages == {pg1, pg2, pg3, pg4}

\* Pages are interchangeable: no definition names a particular page.
MC_Symmetry == Permutations(MC_Pages)

MC_Pages6 == MC_Pages \cup {pg5, pg6}

MC_Symmetry6 == Permutations(MC_Pages6)

====
