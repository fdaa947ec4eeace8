--------------------------- MODULE MCRequestGate ---------------------------
(***************************************************************************)
(* A small instance of RequestGate for TLC.                                *)
(***************************************************************************)
EXTENDS RequestGate

OneEdit == {[role |-> "ADMIN", key |-> "enrich_lead", cell |-> "OWN"]}
=============================================================================
