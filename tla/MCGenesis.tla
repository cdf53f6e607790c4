----------------------------- MODULE MCGenesis -----------------------------
(* Genesis needs no model values; this is the root module of its runs.      *)
EXTENDS Genesis
=============================================================================
