----------------------------- MODULE MCWebGate -----------------------------
(* Every policy of at most five of the seven traits. *)
EXTENDS WebGate

MCPolicies ==
    {p \in SUBSET Traits :
        Cardinality(p) <= 5 /\ ("abandon" \in p => "abort" \in p)}
=============================================================================
