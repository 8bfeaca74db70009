------------------------------ MODULE EngineOps ------------------------------
(***************************************************************************)
(* The mutations of crates/engine/src/engine.rs as functions from one      *)
(* engine state to the next: the live operations, which callers use, and   *)
(* their replay_* counterparts, which DiskEngine::open applies to the log. *)
(*                                                                         *)
(* An engine is a record of the tables the mutations touch:                *)
(*   obj, content  object table: record state, content hash                *)
(*   tags          forward index, Assertion::Tag with its TagOrigin        *)
(*   attrs, rels   forward index, Attr and Relation: number of copies      *)
(*   tagidx, kv, range   the inverted indexes                              *)
(*   stores        tags that have a TagStore, an emptied one included      *)
(*   known, impl   ontology: nodes and edges of the implication DAG        *)
(*   next_oid      next_oid_local                                          *)
(* Timestamps and the tag_count/attr_count/relation_count statistics are   *)
(* left out; oplog, clock and subscriptions have modules of their own.     *)
(* Mutants, used to show that a property can fail, are marked as such.     *)
(***************************************************************************)
EXTENDS Integers, FiniteSets

CONSTANTS
    MaxOid,      \* bound: object ids are 1 .. MaxOid
    MaxTag,      \* bound: tag ids are 1 .. MaxTag
    Keys, Vals,  \* attribute keys and values
    Norm,        \* NormalisedKey::from_value, [Vals -> Nat]; may collide
    Rels,        \* <<predicate, target>> pairs
    Contents,    \* blob contents (a content is its own hash)
    NoContent    \* the zero content_hash of a fresh record

ASSUME OidAssumption == MaxOid \in Nat /\ MaxTag \in Nat
ASSUME NormAssumption == Norm \in [Vals -> Nat]
ASSUME ContentAssumption == NoContent \notin Contents

Oids == 1 .. MaxOid
Tags == 1 .. MaxTag
Attrs == Keys \X Vals
NormKeys == Keys \X {Norm[v] : v \in Vals}
NormOf(a) == <<a[1], Norm[a[2]]>>

Engines ==
    [obj: [Oids -> {"none", "active", "tomb"}],
     content: [Oids -> Contents \cup {NoContent}],
     tags: [Oids -> [Tags -> {"none", "direct", "mat"}]],
     attrs: [Oids -> [Attrs -> Nat]],
     rels: [Oids -> [Rels -> Nat]],
     tagidx: [Tags -> SUBSET Oids],
     stores: SUBSET Tags,
     kv: [Attrs -> SUBSET Oids],
     range: [NormKeys -> SUBSET Oids],
     known: SUBSET Tags,
     impl: SUBSET (Tags \X Tags),
     next_oid: 1 .. MaxOid + 1]

\* Engine::new with an ontology already installed.
NewEngine(known, impl) ==
    [obj |-> [o \in Oids |-> "none"],
     content |-> [o \in Oids |-> NoContent],
     tags |-> [o \in Oids |-> [t \in Tags |-> "none"]],
     attrs |-> [o \in Oids |-> [a \in Attrs |-> 0]],
     rels |-> [o \in Oids |-> [r \in Rels |-> 0]],
     tagidx |-> [t \in Tags |-> {}],
     stores |-> {},
     kv |-> [a \in Attrs |-> {}],
     range |-> [n \in NormKeys |-> {}],
     known |-> known,
     impl |-> impl,
     next_oid |-> 1]

HasRecord(e, o) == e.obj[o] # "none"

\* ImplicationDag::closure: what a tag implies, itself included; nothing for
\* a tag the DAG does not have.
Implied(impl, t) ==
    {u \in Tags : \A S \in SUBSET Tags :
        (t \in S /\ \A x \in S, y \in Tags : <<x, y>> \in impl => y \in S)
            => u \in S}
Closure(e, t) == IF t \in e.known THEN Implied(e.impl, t) ELSE {}

-----------------------------------------------------------------------------
(* Live operations.  Each presumes that the object has a record (of any    *)
(* state): without one the call answers ObjectNotFound and changes nothing. *)

\* Mutants of CreateObject: the counter is not advanced; the id of a deleted
\* object is handed out again.
CreateSameOid(e) == [e EXCEPT !.obj[e.next_oid] = "active"]
CreateReusing(e) ==
    IF \E o \in Oids : e.obj[o] = "tomb"
    THEN [e EXCEPT !.obj = [o \in Oids |-> IF @[o] = "tomb" THEN "active" ELSE @[o]]]
    ELSE [e EXCEPT !.obj[e.next_oid] = "active", !.next_oid = @ + 1]

CreateObject(e) ==
    [e EXCEPT !.obj[e.next_oid] = "active", !.next_oid = @ + 1]

\* Mutant of AddTag: implied tags do not reach the tag index.
AddTagIndexesDirect(e, o, t) ==
    LET new == {c \in Closure(e, t) : e.tags[o][c] = "none"} IN
    [e EXCEPT
        !.tags[o] = [c \in Tags |-> IF c \notin new THEN @[c]
                                    ELSE IF c = t THEN "direct" ELSE "mat"],
        !.tagidx = [c \in Tags |-> IF c = t THEN @[c] \cup {o} ELSE @[c]]]

\* A tag of the closure is added unless the object has it, whatever the
\* origin; forward and tag index change together.
AddTag(e, o, t) ==
    LET new == {c \in Closure(e, t) : e.tags[o][c] = "none"} IN
    [e EXCEPT
        !.tags[o] = [c \in Tags |-> IF c \notin new THEN @[c]
                                    ELSE IF c = t THEN "direct" ELSE "mat"],
        !.tagidx = [c \in Tags |-> IF c \in new THEN @[c] \cup {o} ELSE @[c]],
        !.stores = @ \cup new]

DirectTags(e, o) == {c \in Tags : e.tags[o][c] = "direct"}
MaterializedTags(e, o) == {c \in Tags : e.tags[o][c] = "mat"}

\* The materialized tags that go when direct tag t goes: those no other
\* direct tag of the object implies.
Orphans(e, o, t) ==
    {m \in MaterializedTags(e, o) :
        \A d \in DirectTags(e, o) \ {t} : m \notin Closure(e, d)}

DropTags(e, o, D) ==
    [e EXCEPT
        !.tags[o] = [c \in Tags |-> IF c \in D THEN "none" ELSE @[c]],
        !.tagidx = [c \in Tags |-> IF c \in D THEN @[c] \ {o} ELSE @[c]]]

\* Mutant of RemoveTag: implied tags are left behind.
RemoveTagOnly(e, o, t) ==
    IF e.tags[o][t] = "none" THEN e ELSE DropTags(e, o, {t})

RemoveTag(e, o, t) ==
    CASE e.tags[o][t] = "none" -> e
      [] e.tags[o][t] = "mat" -> DropTags(e, o, {t})
      [] e.tags[o][t] = "direct" -> DropTags(e, o, {t} \cup Orphans(e, o, t))

SetAttr(e, o, a) ==
    [e EXCEPT !.attrs[o][a] = @ + 1,
              !.kv[a] = @ \cup {o},
              !.range[NormOf(a)] = @ \cup {o}]

\* One copy leaves the forward index; the inverted indexes forget the object.
RemoveAttr(e, o, a) ==
    IF e.attrs[o][a] = 0 THEN e
    ELSE [e EXCEPT !.attrs[o][a] = @ - 1,
                   !.kv[a] = @ \ {o},
                   !.range[NormOf(a)] = @ \ {o}]

AddRelation(e, o, r) == [e EXCEPT !.rels[o][r] = @ + 1]

\* Mutant of RemoveRelation: a relation that is not there is removed.
RemoveRelationBlind(e, o, r) == [e EXCEPT !.rels[o][r] = @ - 1]

RemoveRelation(e, o, r) ==
    [e EXCEPT !.rels[o][r] = IF @ = 0 THEN 0 ELSE @ - 1]

WriteBlob(e, o, c) == [e EXCEPT !.content[o] = c]

\* What delete and its replay have in common: record, tag index, forward index.
Tombstone(e, o) ==
    [e EXCEPT
        !.obj[o] = IF @ = "none" THEN "none" ELSE "tomb",
        !.tagidx = [t \in Tags |-> @[t] \ {o}],
        !.tags[o] = [t \in Tags |-> "none"],
        !.attrs[o] = [a \in Attrs |-> 0],
        !.rels[o] = [r \in Rels |-> 0]]

\* Mutant of DeleteObject: the attribute indexes keep the object.
DeleteKeepsAttrs(e, o) == Tombstone(e, o)

\* The attribute entries to drop are the ones the forward index names.
DeleteObject(e, o) ==
    LET held == {a \in Attrs : e.attrs[o][a] > 0}
        norms == {NormOf(a) : a \in held}
        d == Tombstone(e, o)
    IN  [d EXCEPT
            !.kv = [a \in Attrs |-> IF a \in held THEN @[a] \ {o} ELSE @[a]],
            !.range = [n \in NormKeys |->
                          IF n \in norms THEN @[n] \ {o} ELSE @[n]]]

-----------------------------------------------------------------------------
(* Replay.  A missing record is created where the code creates one; only   *)
(* replay_create_object moves next_oid_local.                              *)

Materialise(e, o) ==
    IF HasRecord(e, o) THEN e ELSE [e EXCEPT !.obj[o] = "active"]

\* Mutant of ReplayCreateObject: the counter stays where it was.
ReplayCreateKeepsCounter(e, o) == Materialise(e, o)

\* Also ensure_oid_exists.
ReplayCreateObject(e, o) ==
    [Materialise(e, o) EXCEPT !.next_oid = IF o >= @ THEN o + 1 ELSE @]

ReplayDeleteObject(e, o) == Tombstone(e, o)

\* Mutants of ReplayAddTag and ReplaySetAttr: no closure; no inverted indexes.
ReplayAddTagAlone(e, o, t) ==
    [Materialise(e, o) EXCEPT
        !.tags[o][t] = IF @ = "none" THEN "direct" ELSE @,
        !.tagidx[t] = @ \cup {o}, !.stores = @ \cup {t}]
ReplaySetAttrForward(e, o, a) == [Materialise(e, o) EXCEPT !.attrs[o][a] = @ + 1]

ReplayAddTag(e, o, t) == AddTag(Materialise(e, o), o, t)
ReplayRemoveTag(e, o, t) == IF HasRecord(e, o) THEN RemoveTag(e, o, t) ELSE e
ReplaySetAttr(e, o, a) == SetAttr(Materialise(e, o), o, a)
ReplayRemoveAttr(e, o, a) == RemoveAttr(e, o, a)
ReplayAddRelation(e, o, r) == AddRelation(Materialise(e, o), o, r)
ReplayRemoveRelation(e, o, r) == RemoveRelation(e, o, r)
ReplayWriteBlob(e, o, c) == WriteBlob(Materialise(e, o), o, c)

-----------------------------------------------------------------------------
(* An operation as the log records it (OpKind, projected by project_op).   *)

Ops ==
    [kind: {"create", "delete"}, oid: Oids]
        \cup [kind: {"add_tag", "remove_tag"}, oid: Oids, arg: Tags]
        \cup [kind: {"set_attr", "remove_attr"}, oid: Oids, arg: Attrs]
        \cup [kind: {"add_relation", "remove_relation"}, oid: Oids, arg: Rels]
        \cup [kind: {"write_blob"}, oid: Oids, arg: Contents]

\* The call is possible, and does not answer ObjectNotFound.
Accepts(e, op) ==
    IF op.kind = "create" THEN op.oid = e.next_oid ELSE HasRecord(e, op.oid)

Live(e, op) ==
    CASE op.kind = "create" -> CreateObject(e)
      [] op.kind = "delete" -> DeleteObject(e, op.oid)
      [] op.kind = "add_tag" -> AddTag(e, op.oid, op.arg)
      [] op.kind = "remove_tag" -> RemoveTag(e, op.oid, op.arg)
      [] op.kind = "set_attr" -> SetAttr(e, op.oid, op.arg)
      [] op.kind = "remove_attr" -> RemoveAttr(e, op.oid, op.arg)
      [] op.kind = "add_relation" -> AddRelation(e, op.oid, op.arg)
      [] op.kind = "remove_relation" -> RemoveRelation(e, op.oid, op.arg)
      [] op.kind = "write_blob" -> WriteBlob(e, op.oid, op.arg)

\* replay_wal_op, for an LSN above last_applied_lsn.
Replay(e, op) ==
    CASE op.kind = "create" -> ReplayCreateObject(e, op.oid)
      [] op.kind = "delete" -> ReplayDeleteObject(e, op.oid)
      [] op.kind = "add_tag" -> ReplayAddTag(e, op.oid, op.arg)
      [] op.kind = "remove_tag" -> ReplayRemoveTag(e, op.oid, op.arg)
      [] op.kind = "set_attr" -> ReplaySetAttr(e, op.oid, op.arg)
      [] op.kind = "remove_attr" -> ReplayRemoveAttr(e, op.oid, op.arg)
      [] op.kind = "add_relation" -> ReplayAddRelation(e, op.oid, op.arg)
      [] op.kind = "remove_relation" -> ReplayRemoveRelation(e, op.oid, op.arg)
      [] op.kind = "write_blob" -> ReplayWriteBlob(e, op.oid, op.arg)

=============================================================================
