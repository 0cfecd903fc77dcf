----------------------------- MODULE MCEvidence -----------------------------
(* Evidence on a few paths: tokens of one prefix, opaque and stable ids, literals. *)
EXTENDS Evidence, TLC

MCTypeOf == [t |-> "literal", ab |-> "literal", cd |-> "literal", v1 |-> "version", usd |-> "currency",
             tok_1 |-> "opaque_id", tok_2 |-> "opaque_id", x9 |-> "opaque_id"]

MCValues == DOMAIN MCTypeOf

MCPrefixOf == [tok_1 |-> "tok_", tok_2 |-> "tok_"] @@ [v \in MCValues |-> None]

MCSingular == [v \in MCValues |-> v]

On(host, path) == [host |-> host, path |-> path]

MCIris == {On("h", <<"t", "tok_1">>), On("h", <<"t", "tok_2", "ab">>),
           On("h", <<"t", "x9">>), On("h", <<"v1">>), On("h", <<"cd", "usd">>),
           On("g", <<"t", "tok_1">>)}
=============================================================================
