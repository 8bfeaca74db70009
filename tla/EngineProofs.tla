---------------------------- MODULE EngineProofs ----------------------------
(***************************************************************************)
(* Proofs about Engine, for every number of objects and tags, every set of *)
(* attributes and every ontology: the inductive invariant, one step per    *)
(* call.  What a call does to the engine record is in EngineOpsProofs.     *)
(***************************************************************************)
EXTENDS Engine, EngineOpsProofs, FiniteSetTheorems

-----------------------------------------------------------------------------
(* The inductive invariant.  The registered tags are 1 .. k: without it an *)
(* install, which numbers its tags from the count of registered ones,      *)
(* might forget a tag and with it the support of a materialized one.       *)

KnownDense == \E k \in Nat : eng.known = 1 .. k

EngineInv ==
    /\ TypeOK
    /\ TagIndexAgrees
    /\ MaterializedSupported
    /\ AttrIndexesSound
    /\ OidsDense
    /\ KnownDense

\* Calls that leave the tag tables and the ontology alone.
LEMMA TagsFrame ==
    ASSUME EngineInv, eng'.tags = eng.tags, eng'.tagidx = eng.tagidx,
           eng'.known = eng.known, eng'.impl = eng.impl
    PROVE  TagIndexAgrees' /\ MaterializedSupported' /\ KnownDense'
BY ZenonT(60) DEF EngineInv, TagIndexAgrees, MaterializedSupported, KnownDense,
       DirectTags, Closure

\* Calls that leave the attribute tables alone.
LEMMA AttrsFrame ==
    ASSUME EngineInv, eng'.attrs = eng.attrs, eng'.kv = eng.kv,
           eng'.range = eng.range
    PROVE  AttrIndexesSound'
BY Zenon DEF EngineInv, AttrIndexesSound

\* Calls that leave the object table alone.
LEMMA OidsFrame ==
    ASSUME EngineInv, eng'.obj = eng.obj, eng'.next_oid = eng.next_oid
    PROVE  OidsDense'
BY Zenon DEF EngineInv, OidsDense, HasRecord

\* create_object: the new id has never had a record.
LEMMA CreatePreserves ==
    ASSUME EngineInv, Create PROVE EngineInv'
<1>1. /\ eng \in Engines /\ eng.next_oid \in Oids /\ eng.next_oid \in Nat
      /\ eng.next_oid + 1 \in 1 .. MaxOid + 1
  BY OidAssumption, SMTT(60) DEF EngineInv, TypeOK, Create, Engines, Oids
<1>2. [eng.obj EXCEPT ![eng.next_oid] = "active"] \in [Oids -> {"none", "active", "tomb"}]
  BY <1>1, Zenon DEF Engines
<1>3. eng' = [eng EXCEPT !.obj = [eng.obj EXCEPT ![eng.next_oid] = "active"],
                         !.next_oid = eng.next_oid + 1]
  BY <1>1, Zenon DEF Create, CreateObject, Engines
<1>4. eng' \in Engines
  BY <1>1, <1>2, <1>3, Zenon DEF Engines
<1>5. /\ eng'.obj = [eng.obj EXCEPT ![eng.next_oid] = "active"]
      /\ eng'.next_oid = eng.next_oid + 1
  BY <1>1, <1>3, Zenon DEF Engines
<1>6. /\ eng'.tags = eng.tags /\ eng'.tagidx = eng.tagidx
      /\ eng'.attrs = eng.attrs /\ eng'.kv = eng.kv /\ eng'.range = eng.range
      /\ eng'.known = eng.known /\ eng'.impl = eng.impl
  BY <1>1, <1>3, Zenon DEF Engines
<1>7. TypeOK'
  BY <1>4, Zenon DEF EngineInv, TypeOK, Create
<1>8. OidsDense'
  <2>. SUFFICES ASSUME NEW o \in Oids
                PROVE  eng'.obj[o] # "none" <=> o < eng'.next_oid
    BY Zenon DEF OidsDense, HasRecord
  <2>1. o \in Nat /\ (eng.obj[o] # "none" <=> o < eng.next_oid)
    BY DEF EngineInv, OidsDense, HasRecord, Oids
  <2>2. CASE o = eng.next_oid
    BY <1>1, <1>5, <2>1, <2>2 DEF Engines
  <2>3. CASE o # eng.next_oid
    <3>1. eng'.obj[o] = eng.obj[o]
      BY <1>1, <1>5, <2>3, ZenonT(60) DEF Engines
    <3>2. o < eng.next_oid + 1 <=> o < eng.next_oid
      BY <1>1, <2>1, <2>3
    <3>. QED BY <1>5, <2>1, <3>1, <3>2, Zenon
  <2>. QED BY <2>2, <2>3, Zenon
<1>. QED BY <1>6, <1>7, <1>8, TagsFrame, AttrsFrame, Zenon DEF EngineInv

\* delete_object: the object leaves every table, its record stays.
LEMMA DeletePreserves ==
    ASSUME EngineInv, NEW o \in Oids, Delete(o) PROVE EngineInv'
<1>. DEFINE held == {a \in Attrs : eng.attrs[o][a] > 0}
            norms == {NormOf(a) : a \in held}
<1>1. eng \in Engines /\ eng' = DeleteObject(eng, o)
  BY Zenon DEF EngineInv, TypeOK, Delete
<1>0. /\ eng.obj \in [Oids -> {"none", "active", "tomb"}]
      /\ eng.tags \in [Oids -> [Tags -> Origins]]
      /\ eng.tagidx \in [Tags -> SUBSET Oids]
      /\ eng.attrs \in [Oids -> [Attrs -> Nat]]
      /\ eng.kv \in [Attrs -> SUBSET Oids]
      /\ eng.range \in [NormKeys -> SUBSET Oids]
  BY <1>1, FieldTypes, Zenon
<1>2. /\ eng' \in Engines
      /\ eng'.obj = [eng.obj EXCEPT ![o] = IF @ = "none" THEN "none" ELSE "tomb"]
      /\ eng'.tags = [eng.tags EXCEPT ![o] = [t \in Tags |-> "none"]]
      /\ eng'.tagidx = [t \in Tags |-> eng.tagidx[t] \ {o}]
      /\ eng'.attrs = [eng.attrs EXCEPT ![o] = [a \in Attrs |-> 0]]
      /\ eng'.kv = [a \in Attrs |-> IF a \in held THEN eng.kv[a] \ {o} ELSE eng.kv[a]]
      /\ eng'.range = [n \in NormKeys |-> IF n \in norms THEN eng.range[n] \ {o}
                                          ELSE eng.range[n]]
      /\ eng'.next_oid = eng.next_oid /\ eng'.known = eng.known
      /\ eng'.impl = eng.impl
  BY <1>1, DeleteFields, ZenonT(60)
<1>3. TypeOK'
  BY <1>2, Zenon DEF EngineInv, TypeOK, Delete
<1>4. TagIndexAgrees'
  BY <1>0, <1>2 DEF EngineInv, TagIndexAgrees
<1>5. MaterializedSupported'
  BY <1>0, <1>2 DEF EngineInv, MaterializedSupported, DirectTags, Closure
<1>6. AttrIndexesSound'
  <2>1. ASSUME NEW p \in Oids, NEW a \in Attrs, p \in eng'.kv[a]
        PROVE  eng'.attrs[p][a] > 0
    <3>1. p \in eng.kv[a] /\ (a \in held => p # o)
      BY <1>2, <2>1
    <3>2. eng.attrs[p][a] > 0
      BY <3>1, Zenon DEF EngineInv, AttrIndexesSound
    <3>3. p # o
      BY <3>1, <3>2, Zenon
    <3>. QED BY <1>0, <1>2, <3>2, <3>3, Zenon
  <2>2. ASSUME NEW p \in Oids, NEW n \in NormKeys, p \in eng'.range[n]
        PROVE  \E a \in Attrs : NormOf(a) = n /\ eng'.attrs[p][a] > 0
    <3>1. p \in eng.range[n] /\ (n \in norms => p # o)
      BY <1>2, <2>2
    <3>2. PICK a \in Attrs : NormOf(a) = n /\ eng.attrs[p][a] > 0
      BY <3>1, Zenon DEF EngineInv, AttrIndexesSound
    <3>3. p # o
      BY <3>1, <3>2, Zenon
    <3>4. eng'.attrs[p][a] > 0
      BY <1>0, <1>2, <3>2, <3>3, Zenon
    <3>. QED BY <3>2, <3>4, Zenon
  <2>. QED BY <2>1, <2>2, Zenon DEF AttrIndexesSound
<1>7. OidsDense'
  BY <1>0, <1>2, Zenon DEF EngineInv, OidsDense, HasRecord
<1>8. KnownDense'
  BY <1>2, Zenon DEF EngineInv, KnownDense
<1>. QED BY <1>3, <1>4, <1>5, <1>6, <1>7, <1>8, Zenon DEF EngineInv

\* add_tag: a new materialized tag is supported by the tag itself or, when
\* that was materialized already, by the direct tag behind it.
LEMMA TagPreserves ==
    ASSUME EngineInv, NEW o \in Oids, NEW t \in Tags, Tag(o, t) PROVE EngineInv' /\ eng'.obj = eng.obj
<1>. DEFINE new == {c \in Closure(eng, t) : eng.tags[o][c] = "none"}
<1>1. eng \in Engines /\ eng' = AddTag(eng, o, t)
  BY Zenon DEF EngineInv, TypeOK, Tag
<1>0. /\ eng.obj \in [Oids -> {"none", "active", "tomb"}]
      /\ eng.tags \in [Oids -> [Tags -> Origins]]
      /\ eng.tagidx \in [Tags -> SUBSET Oids]
      /\ eng.attrs \in [Oids -> [Attrs -> Nat]]
      /\ eng.kv \in [Attrs -> SUBSET Oids]
      /\ eng.range \in [NormKeys -> SUBSET Oids]
  BY <1>1, FieldTypes, Zenon
<1>2. /\ eng' \in Engines
      /\ eng'.tags = [eng.tags EXCEPT ![o] =
            [c \in Tags |-> IF c \notin new THEN eng.tags[o][c]
                            ELSE IF c = t THEN "direct" ELSE "mat"]]
      /\ eng'.tagidx = [c \in Tags |-> IF c \in new THEN eng.tagidx[c] \cup {o}
                                       ELSE eng.tagidx[c]]
      /\ eng'.obj = eng.obj /\ eng'.next_oid = eng.next_oid
      /\ eng'.attrs = eng.attrs /\ eng'.kv = eng.kv /\ eng'.range = eng.range
      /\ eng'.known = eng.known /\ eng'.impl = eng.impl
  BY <1>1, AddTagFields
<1>3. TypeOK'
  BY <1>2, Zenon DEF EngineInv, TypeOK, Tag
<1>4. TagIndexAgrees'
  BY <1>0, <1>2 DEF EngineInv, TagIndexAgrees
<1>5. MaterializedSupported'
  <2>. SUFFICES ASSUME NEW p \in Oids, NEW u \in Tags, eng'.tags[p][u] = "mat"
                PROVE  \E d \in Tags : eng'.tags[p][d] = "direct" /\ u \in Closure(eng, d)
    BY <1>2, Zenon DEF MaterializedSupported, DirectTags, Closure
  <2>1. \A d \in Tags : eng.tags[p][d] = "direct" => eng'.tags[p][d] = "direct"
    BY <1>0, <1>2
  <2>2. CASE eng.tags[p][u] = "mat"
    <3>1. PICK d \in Tags : eng.tags[p][d] = "direct" /\ u \in Closure(eng, d)
      BY <2>2, Zenon DEF EngineInv, MaterializedSupported, DirectTags
    <3>. QED BY <2>1, <3>1, Zenon
  <2>3. CASE eng.tags[p][u] # "mat"
    <3>1. p = o /\ u \in new /\ u # t
      BY <1>0, <1>2, <2>3
    <3>2. t \in eng.known /\ t \in Closure(eng, t) /\ u \in Implied(eng.impl, t)
      BY <3>1, ImpliedSelf, Zenon DEF Closure
    <3>3. CASE eng.tags[o][t] = "none"
      <4>1. eng'.tags[o][t] = "direct"
        BY <1>0, <1>2, <3>2, <3>3
      <4>. QED BY <3>1, <4>1, Zenon
    <3>4. CASE eng.tags[o][t] = "direct"
      BY <2>1, <3>1, <3>4, Zenon
    <3>5. CASE eng.tags[o][t] = "mat"
      <4>1. PICK d \in Tags : eng.tags[o][d] = "direct" /\ t \in Closure(eng, d)
        BY <3>5, Zenon DEF EngineInv, MaterializedSupported, DirectTags
      <4>2. u \in Closure(eng, d)
        BY <3>2, <4>1, ImpliedTransitive, Zenon DEF Closure
      <4>. QED BY <2>1, <3>1, <4>1, <4>2, Zenon
    <3>. QED BY <1>0, <3>3, <3>4, <3>5 DEF Origins
  <2>. QED BY <2>2, <2>3, Zenon
<1>6. KnownDense'
  BY <1>2, Zenon DEF EngineInv, KnownDense
<1>. QED BY <1>2, <1>3, <1>4, <1>5, <1>6, AttrsFrame, OidsFrame, Zenon DEF EngineInv

\* remove_tag: what loses its last direct supporter is pruned with it.
LEMMA UntagPreserves ==
    ASSUME EngineInv, NEW o \in Oids, NEW t \in Tags, Untag(o, t) PROVE EngineInv' /\ eng'.obj = eng.obj
<1>. DEFINE D == IF eng.tags[o][t] = "direct" THEN {t} \cup Orphans(eng, o, t)
                 ELSE {t}
<1>1. eng \in Engines /\ eng' = RemoveTag(eng, o, t)
  BY Zenon DEF EngineInv, TypeOK, Untag
<1>0. /\ eng.obj \in [Oids -> {"none", "active", "tomb"}]
      /\ eng.tags \in [Oids -> [Tags -> Origins]]
      /\ eng.tagidx \in [Tags -> SUBSET Oids]
      /\ eng.attrs \in [Oids -> [Attrs -> Nat]]
      /\ eng.kv \in [Attrs -> SUBSET Oids]
      /\ eng.range \in [NormKeys -> SUBSET Oids]
  BY <1>1, FieldTypes, Zenon
<1>2. eng.tags[o][t] \in Origins
  BY <1>0, Zenon
<1>3. mix' \in Mixes
  BY Zenon DEF EngineInv, TypeOK, Untag
<1>4. CASE eng.tags[o][t] = "none"
  <2>1. eng' = eng
    BY <1>1, <1>4, Zenon DEF RemoveTag
  <2>. QED BY <1>1, <1>3, <2>1, TagsFrame, AttrsFrame, OidsFrame, Zenon
           DEF EngineInv, TypeOK
<1>5. CASE eng.tags[o][t] # "none"
  <2>1. eng' = DropTags(eng, o, D)
    BY <1>1, <1>2, <1>5, Zenon DEF RemoveTag, Origins
  <2>. HIDE DEF D
  <2>2. /\ eng' \in Engines
        /\ eng'.tags = [eng.tags EXCEPT ![o] =
              [c \in Tags |-> IF c \in D THEN "none" ELSE eng.tags[o][c]]]
        /\ eng'.tagidx = [c \in Tags |-> IF c \in D THEN eng.tagidx[c] \ {o}
                                         ELSE eng.tagidx[c]]
        /\ eng'.obj = eng.obj /\ eng'.next_oid = eng.next_oid
        /\ eng'.attrs = eng.attrs /\ eng'.kv = eng.kv /\ eng'.range = eng.range
        /\ eng'.known = eng.known /\ eng'.impl = eng.impl
    BY <1>1, <2>1, DropTagsFields, SMTT(60)
  <2>3. TypeOK'
    BY <1>3, <2>2, Zenon DEF TypeOK
  <2>4. TagIndexAgrees'
    BY <1>0, <2>2 DEF EngineInv, TagIndexAgrees
  <2>5. MaterializedSupported'
    <3>. SUFFICES ASSUME NEW p \in Oids, NEW u \in Tags, eng'.tags[p][u] = "mat"
                  PROVE  \E d \in Tags : eng'.tags[p][d] = "direct"
                                            /\ u \in Closure(eng, d)
      BY <2>2, Zenon DEF MaterializedSupported, DirectTags, Closure
    <3>1. eng.tags[p][u] = "mat" /\ (p = o => u \notin D)
      BY <1>0, <2>2
    <3>2. \A d \in Tags : eng.tags[p][d] = "direct" /\ (p = o => d \notin D)
                             => eng'.tags[p][d] = "direct"
      BY <1>0, <2>2
    <3>3. \A d \in D : d = t \/ eng.tags[o][d] = "mat"
      BY Zenon DEF D, Orphans, MaterializedTags
    <3>4. CASE p = o /\ eng.tags[o][t] = "direct"
      <4>1. PICK d \in Tags : /\ eng.tags[o][d] = "direct" /\ d # t
                              /\ u \in Closure(eng, d)
        BY <3>1, <3>4, Zenon DEF D, Orphans, MaterializedTags, DirectTags
      <4>. QED BY <3>2, <3>3, <3>4, <4>1, Zenon
    <3>5. CASE ~(p = o /\ eng.tags[o][t] = "direct")
      <4>1. PICK d \in Tags : eng.tags[p][d] = "direct" /\ u \in Closure(eng, d)
        BY <3>1, Zenon DEF EngineInv, MaterializedSupported, DirectTags
      <4>. QED BY <3>2, <3>3, <3>5, <4>1, Zenon
    <3>. QED BY <3>4, <3>5, Zenon
  <2>6. KnownDense'
    BY <2>2, Zenon DEF EngineInv, KnownDense
  <2>. QED BY <2>2, <2>3, <2>4, <2>5, <2>6, AttrsFrame, OidsFrame, Zenon DEF EngineInv
<1>. QED BY <1>4, <1>5, Zenon

\* set_attr.
LEMMA AttrSetPreserves ==
    ASSUME EngineInv, NEW o \in Oids, NEW a \in Attrs, AttrSet(o, a)
    PROVE  EngineInv' /\ eng'.obj = eng.obj
<1>1. eng \in Engines /\ eng' = SetAttr(eng, o, a)
  BY Zenon DEF EngineInv, TypeOK, AttrSet
<1>0. /\ eng.obj \in [Oids -> {"none", "active", "tomb"}]
      /\ eng.tags \in [Oids -> [Tags -> Origins]]
      /\ eng.tagidx \in [Tags -> SUBSET Oids]
      /\ eng.attrs \in [Oids -> [Attrs -> Nat]]
      /\ eng.kv \in [Attrs -> SUBSET Oids]
      /\ eng.range \in [NormKeys -> SUBSET Oids]
  BY <1>1, FieldTypes, Zenon
<1>2. /\ eng' \in Engines
      /\ eng'.attrs = [eng.attrs EXCEPT ![o] = [eng.attrs[o] EXCEPT ![a] = @ + 1]]
      /\ eng'.kv = [eng.kv EXCEPT ![a] = @ \cup {o}]
      /\ eng'.range = [eng.range EXCEPT ![NormOf(a)] = @ \cup {o}]
      /\ eng'.obj = eng.obj /\ eng'.next_oid = eng.next_oid
      /\ eng'.tags = eng.tags /\ eng'.tagidx = eng.tagidx
      /\ eng'.known = eng.known /\ eng'.impl = eng.impl
  BY <1>1, SetAttrFields
<1>3. TypeOK'
  BY <1>2, Zenon DEF EngineInv, TypeOK, AttrSet
<1>4. eng'.attrs[o][a] > 0
      /\ \A p \in Oids, b \in Attrs : eng.attrs[p][b] > 0 => eng'.attrs[p][b] > 0
  BY <1>0, <1>2
<1>5. AttrIndexesSound'
  <2>1. ASSUME NEW p \in Oids, NEW b \in Attrs, p \in eng'.kv[b]
        PROVE  eng'.attrs[p][b] > 0
    <3>1. p \in eng.kv[b] \/ (p = o /\ b = a)
      BY <1>0, <1>2, <2>1
    <3>. QED BY <1>4, <3>1, Zenon DEF EngineInv, AttrIndexesSound
  <2>2. ASSUME NEW p \in Oids, NEW n \in NormKeys, p \in eng'.range[n]
        PROVE  \E b \in Attrs : NormOf(b) = n /\ eng'.attrs[p][b] > 0
    <3>1. p \in eng.range[n] \/ (p = o /\ n = NormOf(a))
      BY <1>0, <1>2, <2>2
    <3>. QED BY <1>4, <3>1, Zenon DEF EngineInv, AttrIndexesSound
  <2>. QED BY <2>1, <2>2, Zenon DEF AttrIndexesSound
<1>. QED BY <1>2, <1>3, <1>5, TagsFrame, OidsFrame, Zenon DEF EngineInv

\* remove_attr: the range entry may have been another attribute's as well;
\* losing it loses answers, never soundness.
LEMMA AttrRemovePreserves ==
    ASSUME EngineInv, NEW o \in Oids, NEW a \in Attrs, AttrRemove(o, a)
    PROVE  EngineInv' /\ eng'.obj = eng.obj
<1>1. eng \in Engines /\ eng' = RemoveAttr(eng, o, a)
  BY Zenon DEF EngineInv, TypeOK, AttrRemove
<1>0. /\ eng.obj \in [Oids -> {"none", "active", "tomb"}]
      /\ eng.tags \in [Oids -> [Tags -> Origins]]
      /\ eng.tagidx \in [Tags -> SUBSET Oids]
      /\ eng.attrs \in [Oids -> [Attrs -> Nat]]
      /\ eng.kv \in [Attrs -> SUBSET Oids]
      /\ eng.range \in [NormKeys -> SUBSET Oids]
  BY <1>1, FieldTypes, Zenon
<1>2. mix' \in Mixes
  BY Zenon DEF EngineInv, TypeOK, AttrRemove
<1>3. CASE eng.attrs[o][a] = 0
  <2>1. eng' = eng
    BY <1>1, <1>3, Zenon DEF RemoveAttr
  <2>. QED BY <1>1, <1>2, <2>1, TagsFrame, AttrsFrame, OidsFrame, Zenon
           DEF EngineInv, TypeOK
<1>4. CASE eng.attrs[o][a] # 0
  <2>1. /\ eng' \in Engines
        /\ eng'.attrs = [eng.attrs EXCEPT ![o] = [eng.attrs[o] EXCEPT ![a] = @ - 1]]
        /\ eng'.kv = [eng.kv EXCEPT ![a] = @ \ {o}]
        /\ eng'.range = [eng.range EXCEPT ![NormOf(a)] = @ \ {o}]
        /\ eng'.obj = eng.obj /\ eng'.next_oid = eng.next_oid
        /\ eng'.tags = eng.tags /\ eng'.tagidx = eng.tagidx
        /\ eng'.known = eng.known /\ eng'.impl = eng.impl
    BY <1>1, <1>4, RemoveAttrFields, SMTT(60)
  <2>2. TypeOK'
    BY <1>2, <2>1, Zenon DEF TypeOK
  <2>3. \A p \in Oids, b \in Attrs :
            (p # o \/ b # a) => eng'.attrs[p][b] = eng.attrs[p][b]
    BY <1>0, <2>1
  <2>4. AttrIndexesSound'
    <3>1. ASSUME NEW p \in Oids, NEW b \in Attrs, p \in eng'.kv[b]
          PROVE  eng'.attrs[p][b] > 0
      <4>1. p \in eng.kv[b] /\ (p # o \/ b # a)
        BY <1>0, <2>1, <3>1
      <4>. QED BY <2>3, <4>1, Zenon DEF EngineInv, AttrIndexesSound
    <3>2. ASSUME NEW p \in Oids, NEW n \in NormKeys, p \in eng'.range[n]
          PROVE  \E b \in Attrs : NormOf(b) = n /\ eng'.attrs[p][b] > 0
      <4>1. p \in eng.range[n] /\ (p # o \/ n # NormOf(a))
        BY <1>0, <2>1, <3>2
      <4>2. PICK b \in Attrs : NormOf(b) = n /\ eng.attrs[p][b] > 0
        BY <4>1, Zenon DEF EngineInv, AttrIndexesSound
      <4>. QED BY <2>3, <4>1, <4>2, Zenon
    <3>. QED BY <3>1, <3>2, Zenon DEF AttrIndexesSound
  <2>. QED BY <2>1, <2>2, <2>4, TagsFrame, OidsFrame, Zenon DEF EngineInv
<1>. QED BY <1>3, <1>4, Zenon

\* add_relation, remove_relation: nothing an invariant looks at.
LEMMA RelationPreserves ==
    ASSUME EngineInv, NEW o \in Oids, NEW r \in Rels, Relate(o, r) \/ Unrelate(o, r)
    PROVE  EngineInv' /\ eng'.obj = eng.obj
<1>1. eng \in Engines /\ eng' \in {AddRelation(eng, o, r), RemoveRelation(eng, o, r)}
  BY Zenon DEF EngineInv, TypeOK, Relate, Unrelate
<1>2. /\ eng' \in Engines
      /\ eng'.obj = eng.obj /\ eng'.next_oid = eng.next_oid
      /\ eng'.tags = eng.tags /\ eng'.tagidx = eng.tagidx
      /\ eng'.attrs = eng.attrs /\ eng'.kv = eng.kv /\ eng'.range = eng.range
      /\ eng'.known = eng.known /\ eng'.impl = eng.impl
  <2>1. CASE eng' = AddRelation(eng, o, r)
    BY <1>1, <2>1, AddRelationFields, ZenonT(60)
  <2>2. CASE eng' = RemoveRelation(eng, o, r)
    BY <1>1, <2>2, RemoveRelationFields, ZenonT(60)
  <2>. QED BY <1>1, <2>1, <2>2, Zenon
<1>3. TypeOK'
  BY <1>2, Zenon DEF EngineInv, TypeOK, Relate, Unrelate
<1>. QED BY <1>2, <1>3, TagsFrame, AttrsFrame, OidsFrame, Zenon DEF EngineInv

\* write_blob: nothing an invariant looks at.
LEMMA WritePreserves ==
    ASSUME EngineInv, NEW o \in Oids, NEW c \in Contents, Write(o, c)
    PROVE  EngineInv' /\ eng'.obj = eng.obj
<1>1. eng \in Engines /\ eng' = [eng EXCEPT !.content = [eng.content EXCEPT ![o] = c]]
  BY Zenon DEF EngineInv, TypeOK, Write, WriteBlob
<1>2. [eng.content EXCEPT ![o] = c] \in [Oids -> Contents \cup {NoContent}]
  BY <1>1, Zenon DEF Engines
<1>3. eng' \in Engines
  BY <1>1, <1>2, Zenon DEF Engines
<1>4. /\ eng'.obj = eng.obj /\ eng'.next_oid = eng.next_oid
      /\ eng'.tags = eng.tags /\ eng'.tagidx = eng.tagidx
      /\ eng'.attrs = eng.attrs /\ eng'.kv = eng.kv /\ eng'.range = eng.range
      /\ eng'.known = eng.known /\ eng'.impl = eng.impl
  BY <1>1, Zenon DEF Engines
<1>5. TypeOK'
  BY <1>3, Zenon DEF EngineInv, TypeOK, Write
<1>. QED BY <1>4, <1>5, TagsFrame, AttrsFrame, OidsFrame, Zenon DEF EngineInv

\* OntologyState::install: registered tags and closures only grow.
LEMMA InstallPreserves ==
    ASSUME EngineInv, NEW n \in 0 .. MaxTag, NEW edges \in SUBSET ModuleEdges,
           Install(n, edges)
    PROVE  EngineInv' /\ eng'.obj = eng.obj
<1>. DEFINE all == 1 .. Cardinality(eng.known) + n
<1>1. /\ eng \in Engines
      /\ eng' = [eng EXCEPT !.known = all, !.impl = eng.impl \cup edges]
      /\ all \subseteq Tags
  BY Zenon DEF EngineInv, TypeOK, Install
<1>2. PICK k \in Nat : eng.known = 1 .. k
  BY Zenon DEF EngineInv, KnownDense
<1>3. Cardinality(eng.known) = k
  BY <1>2, FS_Interval
<1>4. eng.known \subseteq all /\ Cardinality(eng.known) + n \in Nat
  BY <1>2, <1>3
<1>5. eng.impl \cup edges \in SUBSET (Tags \X Tags)
  BY <1>1, EdgeAssumption, Zenon DEF Engines
<1>. HIDE DEF all
<1>6. eng' \in Engines
  BY <1>1, <1>5, Zenon DEF Engines
<1>7. /\ eng'.known = all /\ eng'.impl = eng.impl \cup edges
      /\ eng'.obj = eng.obj /\ eng'.next_oid = eng.next_oid
      /\ eng'.tags = eng.tags /\ eng'.tagidx = eng.tagidx
      /\ eng'.attrs = eng.attrs /\ eng'.kv = eng.kv /\ eng'.range = eng.range
  BY <1>1, Zenon DEF Engines
<1>8. TypeOK'
  BY <1>6, Zenon DEF EngineInv, TypeOK, Install
<1>9. TagIndexAgrees'
  BY <1>7, Zenon DEF EngineInv, TagIndexAgrees
<1>10. MaterializedSupported'
  <2>1. ASSUME NEW d \in Tags, NEW u \in Closure(eng, d)
        PROVE  u \in Closure(eng', d)
    <3>1. d \in eng.known /\ u \in Implied(eng.impl, d)
      BY <2>1, Zenon DEF Closure
    <3>2. u \in Implied(eng.impl \cup edges, d)
      BY <3>1, ImpliedGrows, Zenon
    <3>. QED BY <1>4, <1>7, <3>1, <3>2, Zenon DEF Closure
  <2>. QED BY <1>7, <2>1, Zenon DEF EngineInv, MaterializedSupported, DirectTags
<1>11. KnownDense'
  BY <1>4, <1>7, Zenon DEF KnownDense, all
<1>. QED BY <1>7, <1>8, <1>9, <1>10, <1>11, AttrsFrame, OidsFrame, Zenon DEF EngineInv

-----------------------------------------------------------------------------
(* Theorems.                                                               *)

\* A new engine satisfies the invariant.
LEMMA InitEstablishes == Init => EngineInv
<1>. SUFFICES ASSUME Init PROVE EngineInv
  BY Zenon
<1>1. eng = NewEngine({}, {})
  BY Zenon DEF Init
<1>2. eng \in Engines
  BY <1>1, OidAssumption DEF NewEngine, Engines
<1>3. /\ eng.tags = [o \in Oids |-> [t \in Tags |-> "none"]]
      /\ eng.tagidx = [t \in Tags |-> {}]
      /\ eng.attrs = [o \in Oids |-> [a \in Attrs |-> 0]]
      /\ eng.kv = [a \in Attrs |-> {}] /\ eng.range = [n \in NormKeys |-> {}]
      /\ eng.obj = [o \in Oids |-> "none"] /\ eng.next_oid = 1
      /\ eng.known = {}
  BY <1>1, Zenon DEF NewEngine
<1>4. TypeOK
  BY <1>2, Zenon DEF Init, TypeOK
<1>5. TagIndexAgrees /\ MaterializedSupported
  BY <1>3 DEF TagIndexAgrees, MaterializedSupported
<1>6. AttrIndexesSound
  BY <1>3, Zenon DEF AttrIndexesSound
<1>7. OidsDense
  BY <1>3 DEF OidsDense, HasRecord, Oids
<1>8. KnownDense
  <2>1. {} = 1 .. 0
    OBVIOUS
  <2>. QED BY <1>3, <2>1, Zenon DEF KnownDense
<1>. QED BY <1>4, <1>5, <1>6, <1>7, <1>8, Zenon DEF EngineInv

\* Every call keeps it.
LEMMA StepPreserves == EngineInv /\ [Next]_vars => EngineInv'
<1>. SUFFICES ASSUME EngineInv, [Next]_vars PROVE EngineInv'
  BY Zenon
<1>1. CASE UNCHANGED vars
  BY <1>1, TagsFrame, AttrsFrame, OidsFrame, Zenon DEF vars, EngineInv, TypeOK
<1>2. CASE Create
  BY <1>2, CreatePreserves, Zenon
<1>3. ASSUME NEW o \in Oids, Delete(o) PROVE EngineInv'
  BY <1>3, DeletePreserves, Zenon
<1>4. ASSUME NEW o \in Oids, NEW t \in Tags, Tag(o, t) \/ Untag(o, t) PROVE EngineInv'
  BY <1>4, TagPreserves, UntagPreserves, Zenon
<1>5. ASSUME NEW o \in Oids, NEW a \in Attrs, AttrSet(o, a) \/ AttrRemove(o, a)
      PROVE  EngineInv'
  BY <1>5, AttrSetPreserves, AttrRemovePreserves, Zenon
<1>6. ASSUME NEW o \in Oids, NEW r \in Rels, Relate(o, r) \/ Unrelate(o, r)
      PROVE  EngineInv'
  BY <1>6, RelationPreserves, Zenon
<1>7. ASSUME NEW o \in Oids, NEW c \in Contents, Write(o, c) PROVE EngineInv'
  BY <1>7, WritePreserves, Zenon
<1>8. ASSUME NEW n \in 0 .. MaxTag, NEW edges \in SUBSET ModuleEdges, Install(n, edges)
      PROVE  EngineInv'
  BY <1>8, InstallPreserves, Zenon
<1>. QED BY <1>1, <1>2, <1>3, <1>4, <1>5, <1>6, <1>7, <1>8, Zenon DEF Next

\* The inductive invariant holds in every state of the engine.
THEOREM EngineInvariance == Spec => []EngineInv
BY InitEstablishes, StepPreserves, PTL DEF Spec

\* Types: add_tag .. write_blob and install keep the shape of every table.
THEOREM EngineTypes == Spec => []TypeOK
<1>1. EngineInv => TypeOK
  BY Zenon DEF EngineInv
<1>. QED BY <1>1, EngineInvariance, PTL

\* Forward index and tag index agree on every object and tag.
THEOREM TagIndexesAgree == Spec => []TagIndexAgrees
<1>1. EngineInv => TagIndexAgrees
  BY Zenon DEF EngineInv
<1>. QED BY <1>1, EngineInvariance, PTL

\* Every materialized tag has a direct tag that implies it.
THEOREM MaterializedTagsSupported == Spec => []MaterializedSupported
<1>1. EngineInv => MaterializedSupported
  BY Zenon DEF EngineInv
<1>. QED BY <1>1, EngineInvariance, PTL

\* Attribute lookups answer only with objects that have the attribute.
THEOREM AttributeLookupsSound == Spec => []AttrIndexesSound
<1>1. EngineInv => AttrIndexesSound
  BY Zenon DEF EngineInv
<1>. QED BY <1>1, EngineInvariance, PTL

\* The ids with a record, tombstones included, are the ones below the counter.
THEOREM OidsAreDense == Spec => []OidsDense
<1>1. EngineInv => OidsDense
  BY Zenon DEF EngineInv
<1>. QED BY <1>1, EngineInvariance, PTL

\* delete_object is final and no record disappears: only create_object and
\* delete_object write the object table's state, the one at an id that has no
\* record yet, the other towards the tombstone.
THEOREM TombstonesAreFinal == Spec => NoResurrection
<1>. DEFINE Kept == \A o \in Oids :
                /\ eng.obj[o] = "tomb" => eng'.obj[o] = "tomb"
                /\ eng'.obj[o] = "none" => eng.obj[o] = "none"
<1>1. ASSUME EngineInv, [Next]_vars PROVE Kept
  <2>. USE <1>1
  <2>1. eng \in Engines
    BY Zenon DEF EngineInv, TypeOK
  <2>2. CASE UNCHANGED eng
    BY <2>2, Zenon
  <2>3. CASE eng'.obj = eng.obj
    BY <2>3, Zenon
  <2>4. CASE Create
    <3>1. eng.next_oid \in Oids /\ eng.obj[eng.next_oid] = "none"
      BY <2>1, <2>4, OidAssumption
         DEF EngineInv, OidsDense, HasRecord, Create, Engines, Oids
    <3>2. eng'.obj = [eng.obj EXCEPT ![eng.next_oid] = "active"]
      BY <2>1, <2>4, Zenon DEF Create, CreateObject, Engines
    <3>. QED BY <2>1, <3>1, <3>2, ZenonT(60) DEF Engines
  <2>5. ASSUME NEW o \in Oids, Delete(o) PROVE Kept
    <3>1. eng'.obj = [eng.obj EXCEPT ![o] = IF @ = "none" THEN "none" ELSE "tomb"]
      BY <2>1, <2>5, DeleteFields, Zenon DEF Delete
    <3>. QED BY <2>1, <3>1, Zenon DEF Engines
  <2>6. ASSUME NEW o \in Oids, NEW t \in Tags, Tag(o, t) \/ Untag(o, t)
        PROVE  eng'.obj = eng.obj
    BY <2>6, TagPreserves, UntagPreserves, Zenon
  <2>7. ASSUME NEW o \in Oids, NEW a \in Attrs, AttrSet(o, a) \/ AttrRemove(o, a)
        PROVE  eng'.obj = eng.obj
    BY <2>7, AttrSetPreserves, AttrRemovePreserves, Zenon
  <2>8. ASSUME NEW o \in Oids, NEW r \in Rels, Relate(o, r) \/ Unrelate(o, r)
        PROVE  eng'.obj = eng.obj
    BY <2>8, RelationPreserves, Zenon
  <2>9. ASSUME NEW o \in Oids, NEW c \in Contents, Write(o, c) PROVE eng'.obj = eng.obj
    BY <2>9, WritePreserves, Zenon
  <2>10. ASSUME NEW n \in 0 .. MaxTag, NEW edges \in SUBSET ModuleEdges,
                Install(n, edges)
         PROVE  eng'.obj = eng.obj
    BY <2>10, InstallPreserves, Zenon
  <2>. HIDE DEF Kept
  <2>11. CASE UNCHANGED vars
    BY <2>2, <2>11, Zenon DEF vars
  <2>12. CASE Next
    BY <2>3, <2>4, <2>5, <2>6, <2>7, <2>8, <2>9, <2>10, <2>12, Zenon DEF Next
  <2>. QED BY <2>11, <2>12, Zenon
<1>2. EngineInv /\ [Next]_vars => [Kept]_vars
  BY <1>1, Zenon
<1>. QED BY <1>2, EngineInvariance, PTL DEF Spec, NoResurrection

=============================================================================
