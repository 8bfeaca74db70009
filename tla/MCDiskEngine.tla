---------------------------- MODULE MCDiskEngine ----------------------------
(* Small instances of DiskEngine.  Tag 1 implies tag 2; values 1 and 2     *)
(* share a NormalisedKey; 0 is the placeholder a value reads back as.     *)
EXTENDS DiskEngine, TLC

MCNorm == [v \in 0 .. 2 |-> (v + 1) \div 2]
MCImpl == {<<1, 2>>}
MCTagMixes == {{"create", "add_tag", "commit", "cut"}}
MCMixes == MCTagMixes \cup
           {{"create", "delete", "add_tag", "remove_tag", "commit"},
            {"create", "add_tag", "register", "commit"},
            {"create", "delete", "set_attr", "remove_attr", "commit"},
            {"create", "delete", "write_blob", "commit", "cut"},
            {"create", "add_relation", "remove_relation", "commit"}}

\* Contents are told apart by nothing but equality.
MCSymmetry == Permutations(Contents)
=============================================================================
