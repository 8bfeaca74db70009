----------------------------- MODULE ModuleFile ------------------------------
(***************************************************************************)
(* Ontology module files (ontology/module.rs): a TOML document is read     *)
(* into a module and a module is written back as TOML.  A document is the  *)
(* record its schema names; "" is an absent option, and an option that is  *)
(* a table or a plain string carries its argument (0 for the plain form).  *)
(***************************************************************************)
EXTENDS Integers, Sequences, FiniteSets

CONSTANTS
    Documents,   \* the files users write
    MaxSaves     \* bound: times the file is rewritten

VARIABLES
    file,     \* the document on disk
    module,   \* the module in memory, or NoModule
    first,    \* the module as it was first read
    saves

vars == <<file, module, first, saves>>

Absent == ""
NoModule == [ok |-> FALSE]
Error == "error"

-----------------------------------------------------------------------------
(* Reading. *)

ValueTypes == [text |-> "Text", int |-> "Int", float |-> "Float", timestamp |-> "Timestamp", blob |-> "Blob"]

\* "attr" and "ordered" are second spellings; an attribute is text by default.
parse_semantics(s, value_type) ==
    LET vt == IF value_type = Absent THEN "text" ELSE value_type IN
    CASE s = "label" -> <<"Label", Absent>>
      [] s \in {"attribute", "attr"} /\ vt \in DOMAIN ValueTypes -> <<"Attribute", ValueTypes[vt]>>
      [] s = "grouping" -> <<"Grouping", Absent>>
      [] s \in {"ordered-collection", "ordered"} -> <<"OrderedCollection", Absent>>
      [] s = "hierarchical" -> <<"Hierarchical", Absent>>
      [] OTHER -> <<Error, Absent>>

\* Implications have their own table.
parse_relation_kind(s) ==
    CASE s \in {"mutex", "mutually-exclusive"} -> "MutuallyExclusive"
      [] s = "requires" -> "Requires"
      [] s = "alias" -> "Alias"
      [] OTHER -> Error

parse_chunking(algo) ==
    CASE algo = Absent -> Absent
      [] algo = "none" -> "None"
      [] algo \in {"fixed", "fixed-size"} -> "FixedSize"
      [] algo \in {"fastcdc", "cdc"} -> "FastCDC"
      [] OTHER -> Error

\* A plain zstd is level 3; only zstd takes a level.
parse_compression(c) ==
    CASE c.algo = Absent -> <<Absent, 0>>
      [] c.algo \in {"none", "lz4"} /\ c.arg = 0 -> <<c.algo, 0>>
      [] c.algo = "zstd" -> <<"zstd", IF c.arg = 0 THEN 3 ELSE c.arg>>
      [] OTHER -> <<Error, 0>>

\* Only hctr2 takes an object id, and it needs one.
parse_encryption(e) ==
    CASE e.algo = Absent -> <<Absent, 0>>
      [] e.algo \in {"none", "xts"} /\ e.arg = 0 -> <<e.algo, 0>>
      [] e.algo \in {"aes-gcm", "gcm"} /\ e.arg = 0 -> <<"aes-gcm", 0>>
      [] e.algo \in {"chacha20", "chacha20-poly1305"} /\ e.arg = 0 -> <<"chacha20-poly1305", 0>>
      [] e.algo = "hctr2" /\ e.arg # 0 -> <<"hctr2", e.arg>>
      [] OTHER -> <<Error, 0>>

parse_storage(s) ==
    [present |-> s.present, chunking |-> parse_chunking(s.chunking),
     compression |-> parse_compression(s.compression), encryption |-> parse_encryption(s.encryption)]

\* The element constraint of an ordered collection must name a tag of the file;
\* it is not kept.
parse_tag(t) ==
    [name |-> t.name, semantics |-> parse_semantics(t.semantics, t.value_type),
     storage |-> parse_storage(t.storage)]

BadTag(t, names) ==
    LET p == parse_tag(t) IN
    \/ p.semantics[1] = Error
    \/ p.semantics[1] = "OrderedCollection" /\ t.element_constraint \notin {Absent} \cup names
    \/ p.storage.chunking = Error \/ p.storage.compression[1] = Error \/ p.storage.encryption[1] = Error

from_toml(d) ==
    LET names == {d.tags[i].name : i \in DOMAIN d.tags} IN
    IF \/ \E i \in DOMAIN d.tags : BadTag(d.tags[i], names)
       \/ \E i \in DOMAIN d.relations : parse_relation_kind(d.relations[i].kind) = Error
    THEN NoModule
    ELSE [ok |-> TRUE, header |-> d.header,
          tags |-> [i \in DOMAIN d.tags |-> parse_tag(d.tags[i])],
          implications |-> d.implications,
          relations |-> [i \in DOMAIN d.relations |->
                            <<d.relations[i].from, parse_relation_kind(d.relations[i].kind),
                              d.relations[i].to>>]]

-----------------------------------------------------------------------------
(* Writing. *)

encode_semantics(sem) ==
    CASE sem[1] = "Label" -> <<"label", Absent>>
      [] sem[1] = "Attribute" -> <<"attribute", CHOOSE v \in DOMAIN ValueTypes : ValueTypes[v] = sem[2]>>
      [] sem[1] = "Grouping" -> <<"grouping", Absent>>
      [] sem[1] = "OrderedCollection" -> <<"ordered-collection", Absent>>
      [] sem[1] = "Hierarchical" -> <<"hierarchical", Absent>>

relation_kind_to_str(kind) ==
    CASE kind = "MutuallyExclusive" -> "mutually-exclusive"
      [] kind = "Requires" -> "requires"
      [] kind = "Alias" -> "alias"

encode_chunking(algo) ==
    CASE algo = Absent -> Absent
      [] algo = "None" -> "none"
      [] algo = "FixedSize" -> "fixed"
      [] algo = "FastCDC" -> "fastcdc"

\* Mutant of encode_storage: compression is always written in its plain form.
encode_storage_plain(s) ==
    [present |-> s.present, chunking |-> encode_chunking(s.chunking),
     compression |-> [algo |-> s.compression[1], arg |-> 0],
     encryption |-> [algo |-> s.encryption[1], arg |-> s.encryption[2]]]

\* zstd always with its level, hctr2 with its object id.
encode_storage(s) ==
    [present |-> s.present, chunking |-> encode_chunking(s.chunking),
     compression |-> [algo |-> s.compression[1], arg |-> s.compression[2]],
     encryption |-> [algo |-> s.encryption[1], arg |-> s.encryption[2]]]

to_toml(m) ==
    [header |-> m.header,
     tags |-> [i \in DOMAIN m.tags |->
        [name |-> m.tags[i].name, semantics |-> encode_semantics(m.tags[i].semantics)[1],
         value_type |-> encode_semantics(m.tags[i].semantics)[2], element_constraint |-> Absent,
         storage |-> encode_storage(m.tags[i].storage)]],
     implications |-> m.implications,
     relations |-> [i \in DOMAIN m.relations |->
        [from |-> m.relations[i][1], kind |-> relation_kind_to_str(m.relations[i][2]),
         to |-> m.relations[i][3]]]]

-----------------------------------------------------------------------------
Init ==
    /\ file \in Documents
    /\ module = NoModule /\ first = NoModule
    /\ saves = 0

Load ==
    /\ from_toml(file).ok
    /\ module' = from_toml(file)
    /\ first' = IF first.ok THEN first ELSE module'
    /\ UNCHANGED <<file, saves>>

Save ==
    /\ module.ok /\ saves < MaxSaves
    /\ file' = to_toml(module)
    /\ saves' = saves + 1
    /\ UNCHANGED <<module, first>>

Next == Load \/ Save

Spec == Init /\ [][Next]_vars

-----------------------------------------------------------------------------
\* A module that was read keeps its meaning however often it is written out and
\* read again, and what is written can be read: second spellings, the default
\* value type and the default zstd level are settled by the first reading
\* (OntologyModule::from_toml and to_toml).
ModuleStable ==
    /\ first.ok => module = first
    /\ saves > 0 => from_toml(file).ok /\ from_toml(file) = first
=============================================================================
