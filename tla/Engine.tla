------------------------------- MODULE Engine -------------------------------
(***************************************************************************)
(* The in-memory engine (crates/engine/src/engine.rs) under any sequence   *)
(* of calls.  Engine is used through &mut self, so a call is one step; a   *)
(* call that answers ObjectNotFound changes nothing and is a stuttering    *)
(* step.  The correctness question is whether the four indexes keep        *)
(* telling the same story about every object.                              *)
(***************************************************************************)
EXTENDS EngineOps

CONSTANTS
    Mixes,      \* a client's mix of calls: each behaviour uses one of these
    MaxCopies,  \* bound: equal attributes or relations on one object
    ModuleEdges \* implications the ontology modules at hand declare

ASSUME MixAssumption ==
    Mixes \subseteq SUBSET {"create", "delete", "tag", "attr", "rel", "blob",
                            "install"}
ASSUME EdgeAssumption == ModuleEdges \subseteq Tags \X Tags

VARIABLES
    eng, \* the engine
    mix  \* the calls this client makes

vars == <<eng, mix>>

Init ==
    /\ eng = NewEngine({}, {})
    /\ mix \in Mixes

Create ==
    /\ "create" \in mix
    /\ eng.next_oid <= MaxOid
    /\ eng' = CreateObject(eng)
    /\ UNCHANGED mix

Delete(o) ==
    /\ "delete" \in mix
    /\ HasRecord(eng, o)
    /\ eng' = DeleteObject(eng, o)
    /\ UNCHANGED mix

\* A tag that no ontology registers is accepted and adds nothing.
Tag(o, t) ==
    /\ "tag" \in mix
    /\ HasRecord(eng, o)
    /\ eng' = AddTag(eng, o, t)
    /\ UNCHANGED mix

Untag(o, t) ==
    /\ "tag" \in mix
    /\ HasRecord(eng, o)
    /\ eng' = RemoveTag(eng, o, t)
    /\ UNCHANGED mix

AttrSet(o, a) ==
    /\ "attr" \in mix
    /\ HasRecord(eng, o)
    /\ eng.attrs[o][a] < MaxCopies
    /\ eng' = SetAttr(eng, o, a)
    /\ UNCHANGED mix

AttrRemove(o, a) ==
    /\ "attr" \in mix
    /\ HasRecord(eng, o)
    /\ eng' = RemoveAttr(eng, o, a)
    /\ UNCHANGED mix

Relate(o, r) ==
    /\ "rel" \in mix
    /\ HasRecord(eng, o)
    /\ eng.rels[o][r] < MaxCopies
    /\ eng' = AddRelation(eng, o, r)
    /\ UNCHANGED mix

Unrelate(o, r) ==
    /\ "rel" \in mix
    /\ HasRecord(eng, o)
    /\ eng' = RemoveRelation(eng, o, r)
    /\ UNCHANGED mix

Write(o, c) ==
    /\ "blob" \in mix
    /\ HasRecord(eng, o)
    /\ eng' = WriteBlob(eng, o, c)
    /\ UNCHANGED mix

\* An ontology module registers the next free ids and adds implications
\* between any registered tags; a cycle is refused and rolled back.
\* register_tag is the case of one tag and no implication.
Install(n, edges) ==
    LET all == 1 .. Cardinality(eng.known) + n IN
    /\ "install" \in mix
    /\ all \subseteq Tags
    /\ edges \subseteq all \X all
    /\ \A t \in all, u \in all :
           <<t, u>> \in edges => t \notin Implied(eng.impl \cup edges, u)
    /\ eng' = [eng EXCEPT !.known = all, !.impl = @ \cup edges]
    /\ UNCHANGED mix

Next ==
    \/ Create
    \/ \E o \in Oids :
        \/ Delete(o)
        \/ \E t \in Tags : Tag(o, t) \/ Untag(o, t)
        \/ \E a \in Attrs : AttrSet(o, a) \/ AttrRemove(o, a)
        \/ \E r \in Rels : Relate(o, r) \/ Unrelate(o, r)
        \/ \E c \in Contents : Write(o, c)
    \/ \E n \in 0 .. MaxTag, edges \in SUBSET ModuleEdges : Install(n, edges)

Spec == Init /\ [][Next]_vars

-----------------------------------------------------------------------------
(* Properties.                                                             *)

\* Every table keeps its shape; no call takes an id beyond its range.
TypeOK ==
    /\ eng \in Engines
    /\ mix \in Mixes

\* Forward index and tag index are kept together by add_tag, remove_tag and
\* delete_object: an object is in a tag's bitmap exactly when the forward
\* index holds the tag for it, whatever closure was added or pruned.
TagIndexAgrees ==
    \A o \in Oids, t \in Tags : o \in eng.tagidx[t] <=> eng.tags[o][t] # "none"

\* A materialized tag is there because of a direct one: remove_tag prunes
\* exactly what nothing supports any more, and an ontology installed later
\* never takes the support away.
MaterializedSupported ==
    \A o \in Oids, t \in Tags :
        eng.tags[o][t] = "mat" =>
            \E d \in DirectTags(eng, o) : t \in Closure(eng, d)

\* A key/value or range query never answers with an object that does not
\* carry the attribute: remove_attr and delete_object drop from both inverted
\* indexes whatever they drop from the forward index.
AttrIndexesSound ==
    \A o \in Oids :
        /\ \A a \in Attrs : o \in eng.kv[a] => eng.attrs[o][a] > 0
        /\ \A n \in NormKeys : o \in eng.range[n] =>
               \E a \in Attrs : NormOf(a) = n /\ eng.attrs[o][a] > 0

\* "the ID is never reused" (delete_object): ids at or above next_oid_local
\* have never had a record, ids below it keep one, tombstone included.
OidsDense ==
    \A o \in Oids : HasRecord(eng, o) <=> o < eng.next_oid

\* A tombstone never comes back to life and an id is handed out once.
NoResurrection ==
    [][\A o \in Oids :
         /\ eng.obj[o] = "tomb" => eng'.obj[o] = "tomb"
         /\ eng'.obj[o] = "none" => eng.obj[o] = "none"]_vars

=============================================================================
