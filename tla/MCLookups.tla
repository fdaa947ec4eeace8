----------------------------- MODULE MCLookups -----------------------------
(***************************************************************************)
(* A small instance of Lookups for TLC: a dear provider that searches and  *)
(* enrichments ask, a free one that only searches do, and the verifier; a  *)
(* user of level 1 may use none of them.                                   *)
(***************************************************************************)
EXTENDS Lookups, TLC

Catalog == {"BATCHDATA", "ENDATO", "TWILIO"}
Prices == ("BATCHDATA" :> 2) @@ ("ENDATO" :> 0) @@ ("TWILIO" :> 1)
SearchCaps == ("BATCHDATA" :> 3) @@ ("ENDATO" :> 0) @@ ("TWILIO" :> 0)
Limits == ("BATCHDATA" :> 0) @@ ("ENDATO" :> 1) @@ ("TWILIO" :> 1)

\* The administrator puts BATCHDATA out of service and brings it back, with or
\* without its credentials and the attestation.
Switches == {[code |-> "BATCHDATA", isActive |-> "FALSE", key |-> FALSE, attested |-> FALSE]}
              \cup {[code |-> "BATCHDATA", isActive |-> "TRUE", key |-> TRUE, attested |-> s] : s \in BOOLEAN}

Levels == ("BATCHDATA" :> 2) @@ ("ENDATO" :> 3) @@ ("TWILIO" :> 2)

Use(ops, levels) == [ops |-> ops, levels |-> levels]
Days == {Use({"SEARCH", "PROVIDER"}, {}), Use({"ENRICH"}, {2}),
         Use({"ENRICH", "CALL", "LIST"}, {1}), Use({"REPORT", "CONFIGURE"}, {})}
EnrichOnly == {Use({"ENRICH"}, {2})}

Symmetric == Permutations(Requests)
=============================================================================
