-------------------------- MODULE MC_IonicRxClean --------------------------
EXTENDS IonicRxClean

CONSTANTS sk1, sk2, sk3

MC_Skbs == {sk1, sk2, sk3}

====
