------------------------------ MODULE MCEngine ------------------------------
(* Small instances of Engine.  Values 1 and 2 share a NormalisedKey, as two *)
(* texts with the same first 13 bytes and length do; value 3 does not.     *)
EXTENDS Engine

MCNorm == [v \in 1 .. 3 |-> IF v = 3 THEN 1 ELSE 0]
MCMixes == {{"create", "delete", "tag", "install"},
            {"create", "delete", "attr"},
            {"create", "delete", "rel", "blob"}}
MCEdges == {<<1, 2>>, <<2, 3>>, <<1, 3>>, <<3, 1>>}

=============================================================================
