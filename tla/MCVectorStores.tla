--------------------------- MODULE MCVectorStores ---------------------------
(* Model values for the TLC run of VectorStores.                           *)
EXTENDS VectorStores

CONSTANTS c1, c2, i1, i2

MCValues ==
  {[text |-> "none", dimension |-> 1], [text |-> "a", dimension |-> 1], [text |-> "a", dimension |-> 2]}
=============================================================================
