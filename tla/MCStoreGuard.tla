--------------------------- MODULE MCStoreGuard ----------------------------
(* Model values for StoreGuard: three writers whose calls overlap.          *)
EXTENDS StoreGuard

CONSTANTS w1, w2, w3

ThreeWriters == {w1, w2, w3}
Nobody       == {}
=============================================================================
