--------------------------- MODULE EngineOpsProofs ---------------------------
(***************************************************************************)
(* Lemmas about the operators of EngineOps, for every number of objects    *)
(* and tags, every set of attributes and every ontology: what the closure  *)
(* operator is, what each mutation does to the fields of the engine        *)
(* record, and how a replayed mutation relates to the live one.            *)
(***************************************************************************)
EXTENDS EngineOps, TLAPS

-----------------------------------------------------------------------------
(* ImplicationDag::closure.                                                *)

\* A tag is in its own closure (closure pushes the root first).
LEMMA ImpliedSelf ==
    ASSUME NEW impl, NEW t \in Tags
    PROVE  t \in Implied(impl, t)
BY Zenon DEF Implied

\* What an implied tag implies is implied (the traversal is transitive).
LEMMA ImpliedTransitive ==
    ASSUME NEW impl, NEW t \in Tags, NEW u \in Implied(impl, t),
           NEW v \in Implied(impl, u)
    PROVE  v \in Implied(impl, t)
BY Zenon DEF Implied

\* An implication more (add_implication) takes nothing out of a closure.
LEMMA ImpliedGrows ==
    ASSUME NEW impl, NEW more, NEW t \in Tags, NEW u \in Implied(impl, t)
    PROVE  u \in Implied(impl \cup more, t)
BY Zenon DEF Implied

\* A closure consists of tags, and of none for an unregistered tag.
LEMMA ClosureTags ==
    ASSUME NEW e, NEW t PROVE Closure(e, t) \subseteq Tags
BY Zenon DEF Closure, Implied

-----------------------------------------------------------------------------
(* What the mutations do to the record's fields.                           *)

Origins == {"none", "direct", "mat"}

\* The types of the fields the invariants talk about.
LEMMA FieldTypes ==
    ASSUME NEW e \in Engines
    PROVE  /\ e.obj \in [Oids -> {"none", "active", "tomb"}]
           /\ e.tags \in [Oids -> [Tags -> Origins]]
           /\ e.tagidx \in [Tags -> SUBSET Oids]
           /\ e.content \in [Oids -> Contents \cup {NoContent}]
           /\ e.attrs \in [Oids -> [Attrs -> Nat]]
           /\ e.rels \in [Oids -> [Rels -> Nat]]
           /\ e.kv \in [Attrs -> SUBSET Oids]
           /\ e.range \in [NormKeys -> SUBSET Oids]
           /\ e.next_oid \in 1 .. MaxOid + 1
BY Zenon DEF Engines, Origins

\* add_tag changes the two tag tables and the set of tag stores.
LEMMA AddTagFields ==
    ASSUME NEW e \in Engines, NEW o \in Oids, NEW t \in Tags
    PROVE  LET new == {c \in Closure(e, t) : e.tags[o][c] = "none"}
               f == AddTag(e, o, t)
           IN  /\ f \in Engines
               /\ f.tags = [e.tags EXCEPT ![o] =
                     [c \in Tags |-> IF c \notin new THEN e.tags[o][c]
                                     ELSE IF c = t THEN "direct" ELSE "mat"]]
               /\ f.tagidx = [c \in Tags |-> IF c \in new THEN e.tagidx[c] \cup {o}
                                             ELSE e.tagidx[c]]
               /\ f.obj = e.obj /\ f.content = e.content /\ f.next_oid = e.next_oid
               /\ f.attrs = e.attrs /\ f.kv = e.kv /\ f.range = e.range
               /\ f.rels = e.rels /\ f.known = e.known /\ f.impl = e.impl
<1>. DEFINE new == {c \in Closure(e, t) : e.tags[o][c] = "none"}
            row == [c \in Tags |-> IF c \notin new THEN e.tags[o][c]
                                   ELSE IF c = t THEN "direct" ELSE "mat"]
            idx == [c \in Tags |-> IF c \in new THEN e.tagidx[c] \cup {o}
                                   ELSE e.tagidx[c]]
            f == AddTag(e, o, t)
<1>1. f = [e EXCEPT !.tags = [e.tags EXCEPT ![o] = row], !.tagidx = idx,
                    !.stores = e.stores \cup new]
  BY Zenon DEF AddTag, Engines
<1>2. [e.tags EXCEPT ![o] = row] \in [Oids -> [Tags -> Origins]]
  BY DEF Engines, Origins
<1>3. idx \in [Tags -> SUBSET Oids]
  BY Zenon DEF Engines
<1>4. e.stores \cup new \in SUBSET Tags
  BY ClosureTags, Zenon DEF Engines
<1>. HIDE DEF new, row, idx
<1>5. f \in Engines
  BY <1>1, <1>2, <1>3, <1>4, Zenon DEF Engines, Origins
<1>6. f.tags = [e.tags EXCEPT ![o] = row] /\ f.tagidx = idx
  BY <1>1, Zenon DEF Engines
<1>7. /\ f.obj = e.obj /\ f.content = e.content /\ f.next_oid = e.next_oid
      /\ f.attrs = e.attrs /\ f.kv = e.kv /\ f.range = e.range
      /\ f.rels = e.rels /\ f.known = e.known /\ f.impl = e.impl
  BY <1>1, Zenon DEF Engines
<1>. QED BY <1>5, <1>6, <1>7, Zenon DEF new, row, idx

\* DropTags changes the two tag tables.
LEMMA DropTagsFields ==
    ASSUME NEW e \in Engines, NEW o \in Oids, NEW D
    PROVE  LET f == DropTags(e, o, D)
           IN  /\ f \in Engines
               /\ f.tags = [e.tags EXCEPT ![o] =
                     [c \in Tags |-> IF c \in D THEN "none" ELSE e.tags[o][c]]]
               /\ f.tagidx = [c \in Tags |-> IF c \in D THEN e.tagidx[c] \ {o}
                                             ELSE e.tagidx[c]]
               /\ f.obj = e.obj /\ f.content = e.content /\ f.next_oid = e.next_oid
               /\ f.attrs = e.attrs /\ f.kv = e.kv /\ f.range = e.range
               /\ f.rels = e.rels /\ f.known = e.known /\ f.impl = e.impl
<1>. DEFINE row == [c \in Tags |-> IF c \in D THEN "none" ELSE e.tags[o][c]]
            idx == [c \in Tags |-> IF c \in D THEN e.tagidx[c] \ {o}
                                   ELSE e.tagidx[c]]
            f == DropTags(e, o, D)
<1>1. f = [e EXCEPT !.tags = [e.tags EXCEPT ![o] = row], !.tagidx = idx]
  BY Zenon DEF DropTags, Engines
<1>2. [e.tags EXCEPT ![o] = row] \in [Oids -> [Tags -> Origins]]
  BY DEF Engines, Origins
<1>3. idx \in [Tags -> SUBSET Oids]
  BY Zenon DEF Engines
<1>. HIDE DEF row, idx
<1>4. f \in Engines
  BY <1>1, <1>2, <1>3, Zenon DEF Engines, Origins
<1>5. f.tags = [e.tags EXCEPT ![o] = row] /\ f.tagidx = idx
  BY <1>1, Zenon DEF Engines
<1>6. /\ f.obj = e.obj /\ f.content = e.content /\ f.next_oid = e.next_oid
      /\ f.attrs = e.attrs /\ f.kv = e.kv /\ f.range = e.range
      /\ f.rels = e.rels /\ f.known = e.known /\ f.impl = e.impl
  BY <1>1, Zenon DEF Engines
<1>. QED BY <1>4, <1>5, <1>6, Zenon DEF row, idx

\* set_attr adds one copy to the forward index and the object to kv and range.
LEMMA SetAttrFields ==
    ASSUME NEW e \in Engines, NEW o \in Oids, NEW a \in Attrs
    PROVE  LET f == SetAttr(e, o, a)
           IN  /\ f \in Engines
               /\ f.attrs = [e.attrs EXCEPT ![o] = [e.attrs[o] EXCEPT ![a] = e.attrs[o][a] + 1]]
               /\ f.kv = [e.kv EXCEPT ![a] = e.kv[a] \cup {o}]
               /\ f.range = [e.range EXCEPT ![NormOf(a)] = e.range[NormOf(a)] \cup {o}]
               /\ f.obj = e.obj /\ f.content = e.content /\ f.next_oid = e.next_oid
               /\ f.tags = e.tags /\ f.tagidx = e.tagidx
               /\ f.rels = e.rels /\ f.known = e.known /\ f.impl = e.impl
<1>. DEFINE A == [e.attrs EXCEPT ![o] = [e.attrs[o] EXCEPT ![a] = e.attrs[o][a] + 1]]
            K == [e.kv EXCEPT ![a] = e.kv[a] \cup {o}]
            R == [e.range EXCEPT ![NormOf(a)] = e.range[NormOf(a)] \cup {o}]
            f == SetAttr(e, o, a)
<1>1. f = [e EXCEPT !.attrs = A, !.kv = K, !.range = R]
  BY Zenon DEF SetAttr, Engines
<1>2. e.attrs \in [Oids -> [Attrs -> Nat]] /\ e.kv \in [Attrs -> SUBSET Oids]
      /\ e.range \in [NormKeys -> SUBSET Oids]
  BY Zenon DEF Engines
<1>3. A \in [Oids -> [Attrs -> Nat]]
  <2>1. e.attrs[o] \in [Attrs -> Nat] /\ e.attrs[o][a] \in Nat
    BY <1>2, Zenon
  <2>2. [e.attrs[o] EXCEPT ![a] = e.attrs[o][a] + 1] \in [Attrs -> Nat]
    BY <2>1
  <2>. QED BY <1>2, <2>2, Zenon
<1>4. K \in [Attrs -> SUBSET Oids]
  BY <1>2, Zenon
<1>5. R \in [NormKeys -> SUBSET Oids]
  BY <1>2, Zenon
<1>. HIDE DEF A, K, R
<1>6. f \in Engines
  BY <1>1, <1>3, <1>4, <1>5, Zenon DEF Engines
<1>7. f.attrs = A /\ f.kv = K /\ f.range = R
  BY <1>1, Zenon DEF Engines
<1>8. /\ f.obj = e.obj /\ f.content = e.content /\ f.next_oid = e.next_oid
      /\ f.tags = e.tags /\ f.tagidx = e.tagidx
      /\ f.rels = e.rels /\ f.known = e.known /\ f.impl = e.impl
  BY <1>1, Zenon DEF Engines
<1>. QED BY <1>6, <1>7, <1>8, Zenon DEF A, K, R

\* remove_attr of an attribute the object has.
LEMMA RemoveAttrFields ==
    ASSUME NEW e \in Engines, NEW o \in Oids, NEW a \in Attrs, e.attrs[o][a] # 0
    PROVE  LET f == RemoveAttr(e, o, a)
           IN  /\ f \in Engines
               /\ f.attrs = [e.attrs EXCEPT ![o] = [e.attrs[o] EXCEPT ![a] = e.attrs[o][a] - 1]]
               /\ f.kv = [e.kv EXCEPT ![a] = e.kv[a] \ {o}]
               /\ f.range = [e.range EXCEPT ![NormOf(a)] = e.range[NormOf(a)] \ {o}]
               /\ f.obj = e.obj /\ f.content = e.content /\ f.next_oid = e.next_oid
               /\ f.tags = e.tags /\ f.tagidx = e.tagidx
               /\ f.rels = e.rels /\ f.known = e.known /\ f.impl = e.impl
<1>. DEFINE A == [e.attrs EXCEPT ![o] = [e.attrs[o] EXCEPT ![a] = e.attrs[o][a] - 1]]
            K == [e.kv EXCEPT ![a] = e.kv[a] \ {o}]
            R == [e.range EXCEPT ![NormOf(a)] = e.range[NormOf(a)] \ {o}]
            f == RemoveAttr(e, o, a)
<1>1. f = [e EXCEPT !.attrs = A, !.kv = K, !.range = R]
  BY Zenon DEF RemoveAttr, Engines
<1>2. e.attrs \in [Oids -> [Attrs -> Nat]] /\ e.kv \in [Attrs -> SUBSET Oids]
      /\ e.range \in [NormKeys -> SUBSET Oids]
  BY Zenon DEF Engines
<1>3. A \in [Oids -> [Attrs -> Nat]]
  <2>1. e.attrs[o] \in [Attrs -> Nat] /\ e.attrs[o][a] \in Nat
    BY <1>2, Zenon
  <2>2. [e.attrs[o] EXCEPT ![a] = e.attrs[o][a] - 1] \in [Attrs -> Nat]
    BY <2>1
  <2>. QED BY <1>2, <2>2, Zenon
<1>4. K \in [Attrs -> SUBSET Oids]
  BY <1>2, Zenon
<1>5. R \in [NormKeys -> SUBSET Oids]
  BY <1>2, Zenon
<1>. HIDE DEF A, K, R
<1>6. f \in Engines
  BY <1>1, <1>3, <1>4, <1>5, Zenon DEF Engines
<1>7. f.attrs = A /\ f.kv = K /\ f.range = R
  BY <1>1, Zenon DEF Engines
<1>8. /\ f.obj = e.obj /\ f.content = e.content /\ f.next_oid = e.next_oid
      /\ f.tags = e.tags /\ f.tagidx = e.tagidx
      /\ f.rels = e.rels /\ f.known = e.known /\ f.impl = e.impl
  BY <1>1, Zenon DEF Engines
<1>. QED BY <1>6, <1>7, <1>8, Zenon DEF A, K, R

\* add_relation adds a copy.
LEMMA AddRelationFields ==
    ASSUME NEW e \in Engines, NEW o \in Oids, NEW r \in Rels
    PROVE  LET f == AddRelation(e, o, r)
           IN  /\ f \in Engines
               /\ f.rels = [e.rels EXCEPT ![o] = [e.rels[o] EXCEPT ![r] =
                               e.rels[o][r] + 1]]
               /\ f.obj = e.obj /\ f.content = e.content /\ f.next_oid = e.next_oid
               /\ f.tags = e.tags /\ f.tagidx = e.tagidx
               /\ f.attrs = e.attrs /\ f.kv = e.kv /\ f.range = e.range
               /\ f.known = e.known /\ f.impl = e.impl
<1>. DEFINE n == e.rels[o][r] + 1
            R == [e.rels EXCEPT ![o] = [e.rels[o] EXCEPT ![r] = n]]
            f == AddRelation(e, o, r)
<1>1. n \in Nat
  BY DEF Engines
<1>2. f = [e EXCEPT !.rels = R]
  BY Zenon DEF AddRelation, Engines
<1>3. R \in [Oids -> [Rels -> Nat]]
  <2>1. e.rels \in [Oids -> [Rels -> Nat]] /\ e.rels[o] \in [Rels -> Nat]
    BY Zenon DEF Engines
  <2>2. [e.rels[o] EXCEPT ![r] = n] \in [Rels -> Nat]
    BY <1>1, <2>1, Zenon
  <2>. QED BY <2>1, <2>2, Zenon
<1>. HIDE DEF R, f
<1>4. f \in Engines
  BY <1>2, <1>3, Zenon DEF Engines
<1>. QED BY <1>2, <1>4, Zenon DEF Engines, R, f

\* remove_relation takes one away, if there is one.
OneFewer(n) == IF n = 0 THEN 0 ELSE n - 1

\* remove_relation.
LEMMA RemoveRelationFields ==
    ASSUME NEW e \in Engines, NEW o \in Oids, NEW r \in Rels
    PROVE  LET f == RemoveRelation(e, o, r)
           IN  /\ f \in Engines
               /\ f.rels = [e.rels EXCEPT ![o] = [e.rels[o] EXCEPT ![r] =
                               OneFewer(e.rels[o][r])]]
               /\ f.obj = e.obj /\ f.content = e.content /\ f.next_oid = e.next_oid
               /\ f.tags = e.tags /\ f.tagidx = e.tagidx
               /\ f.attrs = e.attrs /\ f.kv = e.kv /\ f.range = e.range
               /\ f.known = e.known /\ f.impl = e.impl
<1>. DEFINE n == OneFewer(e.rels[o][r])
            R == [e.rels EXCEPT ![o] = [e.rels[o] EXCEPT ![r] = n]]
            f == RemoveRelation(e, o, r)
<1>1. n \in Nat
  BY DEF Engines, OneFewer
<1>2. f = [e EXCEPT !.rels = R]
  BY Zenon DEF RemoveRelation, Engines, OneFewer
<1>3. R \in [Oids -> [Rels -> Nat]]
  <2>1. e.rels \in [Oids -> [Rels -> Nat]] /\ e.rels[o] \in [Rels -> Nat]
    BY Zenon DEF Engines
  <2>2. [e.rels[o] EXCEPT ![r] = n] \in [Rels -> Nat]
    BY <1>1, <2>1, Zenon
  <2>. QED BY <2>1, <2>2, Zenon
<1>. HIDE DEF R, f
<1>4. f \in Engines
  BY <1>2, <1>3, Zenon DEF Engines
<1>. QED BY <1>2, <1>4, Zenon DEF Engines, R, f

\* What delete_object and its replay do: the record becomes a tombstone, and
\* the object leaves the tag index and the forward index.
LEMMA TombstoneFields ==
    ASSUME NEW e \in Engines, NEW o \in Oids
    PROVE  LET f == Tombstone(e, o)
           IN  /\ f \in Engines
               /\ f.obj = [e.obj EXCEPT ![o] = IF @ = "none" THEN "none" ELSE "tomb"]
               /\ f.tags = [e.tags EXCEPT ![o] = [t \in Tags |-> "none"]]
               /\ f.tagidx = [t \in Tags |-> e.tagidx[t] \ {o}]
               /\ f.attrs = [e.attrs EXCEPT ![o] = [a \in Attrs |-> 0]]
               /\ f.rels = [e.rels EXCEPT ![o] = [r \in Rels |-> 0]]
               /\ f.kv = e.kv /\ f.range = e.range /\ f.content = e.content
               /\ f.next_oid = e.next_oid /\ f.known = e.known /\ f.impl = e.impl
<1>. DEFINE ob == [e.obj EXCEPT ![o] = IF @ = "none" THEN "none" ELSE "tomb"]
            tg == [e.tags EXCEPT ![o] = [t \in Tags |-> "none"]]
            ix == [t \in Tags |-> e.tagidx[t] \ {o}]
            at == [e.attrs EXCEPT ![o] = [a \in Attrs |-> 0]]
            rl == [e.rels EXCEPT ![o] = [r \in Rels |-> 0]]
            f == Tombstone(e, o)
<1>1. f = [e EXCEPT !.obj = ob, !.tagidx = ix, !.tags = tg, !.attrs = at, !.rels = rl]
  BY Zenon DEF Tombstone, Engines
<1>2. /\ ob \in [Oids -> {"none", "active", "tomb"}]
      /\ tg \in [Oids -> [Tags -> Origins]]
      /\ ix \in [Tags -> SUBSET Oids]
      /\ at \in [Oids -> [Attrs -> Nat]]
      /\ rl \in [Oids -> [Rels -> Nat]]
  BY Zenon DEF Engines, Origins
<1>. HIDE DEF ob, tg, ix, at, rl, f
<1>3. f \in Engines
  BY <1>1, <1>2, Zenon DEF Engines, Origins
<1>4. /\ f.obj = ob /\ f.tags = tg /\ f.tagidx = ix /\ f.attrs = at /\ f.rels = rl
      /\ f.kv = e.kv /\ f.range = e.range /\ f.content = e.content
      /\ f.next_oid = e.next_oid /\ f.known = e.known /\ f.impl = e.impl
  BY <1>1, Zenon DEF Engines
<1>. QED BY <1>3, <1>4, Zenon DEF ob, tg, ix, at, rl, f

\* delete_object also takes the object out of the attribute indexes, as far
\* as the forward index names its attributes.
LEMMA DeleteFields ==
    ASSUME NEW e \in Engines, NEW o \in Oids
    PROVE  LET held == {a \in Attrs : e.attrs[o][a] > 0}
               norms == {NormOf(a) : a \in held}
               f == DeleteObject(e, o)
           IN  /\ f \in Engines
               /\ f.obj = [e.obj EXCEPT ![o] = IF @ = "none" THEN "none" ELSE "tomb"]
               /\ f.tags = [e.tags EXCEPT ![o] = [t \in Tags |-> "none"]]
               /\ f.tagidx = [t \in Tags |-> e.tagidx[t] \ {o}]
               /\ f.attrs = [e.attrs EXCEPT ![o] = [a \in Attrs |-> 0]]
               /\ f.rels = [e.rels EXCEPT ![o] = [r \in Rels |-> 0]]
               /\ f.kv = [a \in Attrs |-> IF a \in held THEN e.kv[a] \ {o} ELSE e.kv[a]]
               /\ f.range = [n \in NormKeys |-> IF n \in norms THEN e.range[n] \ {o}
                                                ELSE e.range[n]]
               /\ f.content = e.content
               /\ f.next_oid = e.next_oid /\ f.known = e.known /\ f.impl = e.impl
<1>. DEFINE held == {a \in Attrs : e.attrs[o][a] > 0}
            norms == {NormOf(a) : a \in held}
            K == [a \in Attrs |-> IF a \in held THEN e.kv[a] \ {o} ELSE e.kv[a]]
            R == [n \in NormKeys |-> IF n \in norms THEN e.range[n] \ {o}
                                     ELSE e.range[n]]
            d == Tombstone(e, o)
            f == DeleteObject(e, o)
<1>1. d \in Engines /\ d.kv = e.kv /\ d.range = e.range
  BY TombstoneFields, Zenon
<1>0. /\ d.obj = [e.obj EXCEPT ![o] = IF @ = "none" THEN "none" ELSE "tomb"]
      /\ d.tags = [e.tags EXCEPT ![o] = [t \in Tags |-> "none"]]
      /\ d.tagidx = [t \in Tags |-> e.tagidx[t] \ {o}]
      /\ d.attrs = [e.attrs EXCEPT ![o] = [a \in Attrs |-> 0]]
      /\ d.rels = [e.rels EXCEPT ![o] = [r \in Rels |-> 0]]
      /\ d.content = e.content
      /\ d.next_oid = e.next_oid /\ d.known = e.known /\ d.impl = e.impl
  BY TombstoneFields, Zenon
<1>2. f = [d EXCEPT !.kv = K, !.range = R]
  BY <1>1, Zenon DEF DeleteObject
<1>3. K \in [Attrs -> SUBSET Oids] /\ R \in [NormKeys -> SUBSET Oids]
  BY Zenon DEF Engines
<1>. HIDE DEF K, R, d, f, held, norms
<1>4. f \in Engines
  BY <1>1, <1>2, <1>3, Zenon DEF Engines
<1>5. /\ f.obj = d.obj /\ f.tags = d.tags /\ f.tagidx = d.tagidx
      /\ f.attrs = d.attrs /\ f.rels = d.rels /\ f.kv = K /\ f.range = R
      /\ f.content = d.content
      /\ f.next_oid = d.next_oid /\ f.known = d.known /\ f.impl = d.impl
  BY <1>1, <1>2, Zenon DEF Engines
<1>. QED BY <1>4, <1>5, <1>0, Zenon DEF K, R, f, held, norms

\* create_object gives the next id a record.
LEMMA CreateFields ==
    ASSUME NEW e \in Engines, e.next_oid \in Oids
    PROVE  LET f == CreateObject(e)
           IN  /\ f \in Engines
               /\ f.obj = [e.obj EXCEPT ![e.next_oid] = "active"]
               /\ f.next_oid = e.next_oid + 1
               /\ f.content = e.content /\ f.tags = e.tags /\ f.tagidx = e.tagidx
               /\ f.attrs = e.attrs /\ f.kv = e.kv /\ f.range = e.range
               /\ f.rels = e.rels /\ f.known = e.known /\ f.impl = e.impl
<1>. DEFINE ob == [e.obj EXCEPT ![e.next_oid] = "active"]
            f == CreateObject(e)
<1>1. f = [e EXCEPT !.obj = ob, !.next_oid = e.next_oid + 1]
  BY Zenon DEF CreateObject, Engines
<1>2. ob \in [Oids -> {"none", "active", "tomb"}]
      /\ e.next_oid + 1 \in 1 .. MaxOid + 1
  BY OidAssumption DEF Engines, Oids
<1>. HIDE DEF ob, f
<1>3. f \in Engines
  BY <1>1, <1>2, Zenon DEF Engines
<1>. QED BY <1>1, <1>3, Zenon DEF Engines, ob, f

\* write_blob changes the object's content hash.
LEMMA WriteBlobFields ==
    ASSUME NEW e \in Engines, NEW o \in Oids, NEW c \in Contents
    PROVE  LET f == WriteBlob(e, o, c)
           IN  /\ f \in Engines
               /\ f.content = [e.content EXCEPT ![o] = c]
               /\ f.obj = e.obj /\ f.next_oid = e.next_oid
               /\ f.tags = e.tags /\ f.tagidx = e.tagidx
               /\ f.attrs = e.attrs /\ f.kv = e.kv /\ f.range = e.range
               /\ f.rels = e.rels /\ f.known = e.known /\ f.impl = e.impl
<1>. DEFINE ct == [e.content EXCEPT ![o] = c]
            f == WriteBlob(e, o, c)
<1>1. f = [e EXCEPT !.content = ct]
  BY Zenon DEF WriteBlob, Engines
<1>2. ct \in [Oids -> Contents \cup {NoContent}]
  BY Zenon DEF Engines
<1>. HIDE DEF ct, f
<1>3. f \in Engines
  BY <1>1, <1>2, Zenon DEF Engines
<1>. QED BY <1>1, <1>3, Zenon DEF Engines, ct, f

\* A replayed operation first gives the object a record if it has none.
LEMMA MaterialiseFields ==
    ASSUME NEW e \in Engines, NEW o \in Oids
    PROVE  LET f == Materialise(e, o)
           IN  /\ f \in Engines
               /\ f.obj = [e.obj EXCEPT ![o] = IF @ = "none" THEN "active" ELSE @]
               /\ f.content = e.content /\ f.next_oid = e.next_oid
               /\ f.tags = e.tags /\ f.tagidx = e.tagidx
               /\ f.attrs = e.attrs /\ f.kv = e.kv /\ f.range = e.range
               /\ f.rels = e.rels /\ f.known = e.known /\ f.impl = e.impl
<1>. DEFINE ob == [e.obj EXCEPT ![o] = IF @ = "none" THEN "active" ELSE @]
            f == Materialise(e, o)
<1>1. e.obj \in [Oids -> {"none", "active", "tomb"}]
      /\ ob \in [Oids -> {"none", "active", "tomb"}]
  BY Zenon DEF Engines
<1>2. CASE HasRecord(e, o)
  <2>1. f = e /\ ob = e.obj
    BY <1>1, <1>2, Zenon DEF Materialise, HasRecord
  <2>. QED BY <2>1, Zenon
<1>3. CASE ~HasRecord(e, o)
  <2>1. f = [e EXCEPT !.obj = ob]
    BY <1>3, Zenon DEF Materialise, HasRecord, Engines
  <2>. HIDE DEF ob, f
  <2>2. f \in Engines
    BY <1>1, <2>1, Zenon DEF Engines
  <2>. QED BY <2>1, <2>2, Zenon DEF Engines, ob, f
<1>. QED BY <1>2, <1>3, Zenon

\* replay_create_object, ensure_oid_exists: next_oid_local passes the id.
LEMMA ReplayCreateFields ==
    ASSUME NEW e \in Engines, NEW o \in Oids
    PROVE  LET f == ReplayCreateObject(e, o)
           IN  /\ f \in Engines
               /\ f.obj = [e.obj EXCEPT ![o] = IF @ = "none" THEN "active" ELSE @]
               /\ f.next_oid = IF o >= e.next_oid THEN o + 1 ELSE e.next_oid
               /\ f.content = e.content /\ f.tags = e.tags /\ f.tagidx = e.tagidx
               /\ f.attrs = e.attrs /\ f.kv = e.kv /\ f.range = e.range
               /\ f.rels = e.rels /\ f.known = e.known /\ f.impl = e.impl
<1>. DEFINE m == Materialise(e, o)
            n == IF o >= e.next_oid THEN o + 1 ELSE e.next_oid
            f == ReplayCreateObject(e, o)
<1>1. m \in Engines /\ m.next_oid = e.next_oid
  BY MaterialiseFields, Zenon
<1>2. f = [m EXCEPT !.next_oid = n]
  BY <1>1, Zenon DEF ReplayCreateObject, Engines
<1>3. n \in 1 .. MaxOid + 1
  BY OidAssumption DEF Engines, Oids
<1>. HIDE DEF m, n, f
<1>4. f \in Engines
  BY <1>1, <1>2, <1>3, Zenon DEF Engines
<1>5. /\ f.next_oid = n /\ f.obj = m.obj
      /\ f.content = m.content /\ f.tags = m.tags /\ f.tagidx = m.tagidx
      /\ f.attrs = m.attrs /\ f.kv = m.kv /\ f.range = m.range
      /\ f.rels = m.rels /\ f.known = m.known /\ f.impl = m.impl
  BY <1>1, <1>2, Zenon DEF Engines
<1>6. /\ m.obj = [e.obj EXCEPT ![o] = IF @ = "none" THEN "active" ELSE @]
      /\ m.content = e.content /\ m.tags = e.tags /\ m.tagidx = e.tagidx
      /\ m.attrs = e.attrs /\ m.kv = e.kv /\ m.range = e.range
      /\ m.rels = e.rels /\ m.known = e.known /\ m.impl = e.impl
  BY MaterialiseFields, ZenonT(60) DEF m
<1>7. f.obj = [e.obj EXCEPT ![o] = IF @ = "none" THEN "active" ELSE @]
  BY <1>5, <1>6, Zenon
<1>8. /\ f.content = e.content /\ f.tags = e.tags /\ f.tagidx = e.tagidx
      /\ f.attrs = e.attrs /\ f.kv = e.kv /\ f.range = e.range
      /\ f.rels = e.rels /\ f.known = e.known /\ f.impl = e.impl
  BY <1>5, <1>6, Zenon
<1>9. f.next_oid = IF o >= e.next_oid THEN o + 1 ELSE e.next_oid
  BY <1>5, Zenon DEF n
<1>. QED BY <1>4, <1>7, <1>8, <1>9, Zenon DEF f

-----------------------------------------------------------------------------
(* Operations as the log records them.                                     *)

Kinds == {"create", "delete", "add_tag", "remove_tag", "set_attr", "remove_attr",
          "add_relation", "remove_relation", "write_blob"}

\* An operation names an object and the argument its kind calls for.
LEMMA OpShape ==
    ASSUME NEW op \in Ops
    PROVE  /\ op.oid \in Oids /\ op.kind \in Kinds
           /\ op.kind \in {"add_tag", "remove_tag"} => op.arg \in Tags
           /\ op.kind \in {"set_attr", "remove_attr"} => op.arg \in Attrs
           /\ op.kind \in {"add_relation", "remove_relation"} => op.arg \in Rels
           /\ op.kind = "write_blob" => op.arg \in Contents
BY Zenon DEF Ops, Kinds

\* The tags that remove_tag takes from an object.
Dropped(e, o, t) ==
    IF e.tags[o][t] = "none" THEN {}
    ELSE IF e.tags[o][t] = "mat" THEN {t} ELSE {t} \cup Orphans(e, o, t)

\* remove_tag.
LEMMA RemoveTagFields ==
    ASSUME NEW e \in Engines, NEW o \in Oids, NEW t \in Tags
    PROVE  LET f == RemoveTag(e, o, t)
               D == Dropped(e, o, t)
           IN  /\ f \in Engines
               /\ f.tags = [e.tags EXCEPT ![o] =
                     [c \in Tags |-> IF c \in D THEN "none" ELSE e.tags[o][c]]]
               /\ f.tagidx = [c \in Tags |-> IF c \in D THEN e.tagidx[c] \ {o}
                                             ELSE e.tagidx[c]]
               /\ f.obj = e.obj /\ f.content = e.content /\ f.next_oid = e.next_oid
               /\ f.attrs = e.attrs /\ f.kv = e.kv /\ f.range = e.range
               /\ f.rels = e.rels /\ f.known = e.known /\ f.impl = e.impl
<1>. DEFINE D == Dropped(e, o, t)
<1>0. e.tags[o][t] \in Origins
  BY DEF Engines, Origins
<1>1. CASE e.tags[o][t] = "none"
  <2>1. RemoveTag(e, o, t) = e /\ D = {}
    BY <1>1, Zenon DEF RemoveTag, Dropped
  <2>2. /\ e.tags \in [Oids -> [Tags -> Origins]] /\ e.tagidx \in [Tags -> SUBSET Oids]
    BY FieldTypes, Zenon
  <2>3. [c \in Tags |-> IF c \in D THEN "none" ELSE e.tags[o][c]] = e.tags[o]
    BY <2>1, <2>2, Zenon
  <2>4. e.tags = [e.tags EXCEPT ![o] = e.tags[o]]
    BY <2>2, Zenon
  <2>5. e.tagidx = [c \in Tags |-> IF c \in D THEN e.tagidx[c] \ {o} ELSE e.tagidx[c]]
    BY <2>1, <2>2, Zenon
  <2>. QED BY <2>1, <2>3, <2>4, <2>5, Zenon
<1>2. CASE e.tags[o][t] # "none"
  <2>1. RemoveTag(e, o, t) = DropTags(e, o, D)
    <3>1. CASE e.tags[o][t] = "mat"
      BY <3>1, Zenon DEF RemoveTag, Dropped
    <3>2. CASE e.tags[o][t] = "direct"
      BY <3>2, Zenon DEF RemoveTag, Dropped
    <3>. QED BY <1>0, <1>2, <3>1, <3>2, Zenon DEF Origins
  <2>. HIDE DEF D
  <2>2. LET f == DropTags(e, o, D)
        IN  /\ f \in Engines
            /\ f.tags = [e.tags EXCEPT ![o] =
                  [c \in Tags |-> IF c \in D THEN "none" ELSE e.tags[o][c]]]
            /\ f.tagidx = [c \in Tags |-> IF c \in D THEN e.tagidx[c] \ {o}
                                          ELSE e.tagidx[c]]
            /\ f.obj = e.obj /\ f.content = e.content /\ f.next_oid = e.next_oid
            /\ f.attrs = e.attrs /\ f.kv = e.kv /\ f.range = e.range
            /\ f.rels = e.rels /\ f.known = e.known /\ f.impl = e.impl
    BY DropTagsFields
  <2>. QED BY <2>1, <2>2, Zenon DEF D
<1>. QED BY <1>1, <1>2, Zenon

\* The attribute calls leave the other tables alone, whether or not the
\* object has the attribute.
OnlyAttrs(e, f) ==
    /\ f \in Engines
    /\ f.obj = e.obj /\ f.content = e.content /\ f.next_oid = e.next_oid
    /\ f.tags = e.tags /\ f.tagidx = e.tagidx
    /\ f.rels = e.rels /\ f.known = e.known /\ f.impl = e.impl

\* set_attr and remove_attr.
LEMMA AttrFrame ==
    ASSUME NEW e \in Engines, NEW o \in Oids, NEW a \in Attrs
    PROVE  OnlyAttrs(e, SetAttr(e, o, a)) /\ OnlyAttrs(e, RemoveAttr(e, o, a))
<1>1. ASSUME NEW f \in Engines, NEW A, NEW K, NEW R,
             f = [e EXCEPT !.attrs = A, !.kv = K, !.range = R]
      PROVE  OnlyAttrs(e, f)
  BY <1>1, Zenon DEF Engines, OnlyAttrs
<1>2. OnlyAttrs(e, SetAttr(e, o, a))
  <2>1. SetAttr(e, o, a) \in Engines
    BY SetAttrFields, Zenon
  <2>2. \E A, K, R : SetAttr(e, o, a) = [e EXCEPT !.attrs = A, !.kv = K, !.range = R]
    BY Zenon DEF SetAttr, Engines
  <2>. QED BY <1>1, <2>1, <2>2, Zenon
<1>3. CASE e.attrs[o][a] = 0
  BY <1>2, <1>3, Zenon DEF RemoveAttr, OnlyAttrs
<1>4. CASE e.attrs[o][a] # 0
  <2>1. RemoveAttr(e, o, a) \in Engines
    BY <1>4, RemoveAttrFields, Zenon
  <2>2. \E A, K, R : RemoveAttr(e, o, a) = [e EXCEPT !.attrs = A, !.kv = K, !.range = R]
    BY <1>4, Zenon DEF RemoveAttr, Engines
  <2>. QED BY <1>1, <1>2, <2>1, <2>2, Zenon
<1>. QED BY <1>3, <1>4, Zenon

-----------------------------------------------------------------------------
(* What an operation does to the object table, live and replayed.          *)

\* The object table of f comes from that of e by operation op.
LiveObjects(e, op, f) ==
    /\ f.obj = IF op.kind = "create" THEN [e.obj EXCEPT ![op.oid] = "active"]
               ELSE IF op.kind = "delete"
               THEN [e.obj EXCEPT ![op.oid] = IF @ = "none" THEN "none" ELSE "tomb"]
               ELSE e.obj
    /\ f.content = IF op.kind = "write_blob" THEN [e.content EXCEPT ![op.oid] = op.arg]
                   ELSE e.content
    /\ f.next_oid = IF op.kind = "create" THEN op.oid + 1 ELSE e.next_oid

\* Replay creates missing records, and skips an id it has passed.
Creating == {"create", "add_tag", "set_attr", "add_relation", "write_blob"}

ReplayObjects(e, op, f) ==
    /\ f.obj = IF op.kind \in Creating
               THEN [e.obj EXCEPT ![op.oid] = IF @ = "none" THEN "active" ELSE @]
               ELSE IF op.kind = "delete"
               THEN [e.obj EXCEPT ![op.oid] = IF @ = "none" THEN "none" ELSE "tomb"]
               ELSE e.obj
    /\ f.content = IF op.kind = "write_blob" THEN [e.content EXCEPT ![op.oid] = op.arg]
                   ELSE e.content
    /\ f.next_oid = IF op.kind = "create" /\ op.oid >= e.next_oid
                    THEN op.oid + 1 ELSE e.next_oid

\* What a live call does to the object table, and that it leaves the
\* ontology alone.
LEMMA LiveFields ==
    ASSUME NEW e \in Engines, NEW op \in Ops,
           op.kind = "create" => op.oid = e.next_oid
    PROVE  LET f == Live(e, op)
           IN  /\ f \in Engines /\ LiveObjects(e, op, f)
               /\ f.known = e.known /\ f.impl = e.impl
<1>. DEFINE o == op.oid
            f == Live(e, op)
<1>0. o \in Oids /\ op.kind \in Kinds
  BY OpShape, Zenon
<1>. SUFFICES /\ f \in Engines /\ LiveObjects(e, op, f)
              /\ f.known = e.known /\ f.impl = e.impl
  BY Zenon
<1>. HIDE DEF f, o
<1>1. CASE op.kind = "create"
  <2>1. f = CreateObject(e)
    BY <1>1, Zenon DEF f, o, Live
  <2>. QED BY <1>0, <1>1, <2>1, CreateFields, ZenonT(60) DEF LiveObjects, o
<1>2. CASE op.kind = "delete"
  <2>1. f = DeleteObject(e, o)
    BY <1>2, Zenon DEF f, o, Live
  <2>2. /\ f \in Engines /\ f.content = e.content /\ f.next_oid = e.next_oid
        /\ f.obj = [e.obj EXCEPT ![o] = IF @ = "none" THEN "none" ELSE "tomb"]
        /\ f.known = e.known /\ f.impl = e.impl
    BY <1>0, <2>1, DeleteFields, Zenon
  <2>. QED BY <1>2, <2>2, Zenon DEF LiveObjects, o
<1>3. CASE op.kind = "write_blob"
  <2>1. f = WriteBlob(e, o, op.arg) /\ op.arg \in Contents
    BY <1>3, OpShape, Zenon DEF f, o, Live
  <2>. QED BY <1>0, <1>3, <2>1, WriteBlobFields, ZenonT(60) DEF LiveObjects, o
<1>4. CASE op.kind \notin {"create", "delete", "write_blob"}
  <2>. SUFFICES /\ f \in Engines
                /\ f.obj = e.obj /\ f.content = e.content /\ f.next_oid = e.next_oid
                /\ f.known = e.known /\ f.impl = e.impl
    BY <1>4, Zenon DEF LiveObjects, o
  <2>1. CASE op.kind = "add_tag"
    <3>1. f = AddTag(e, o, op.arg) /\ op.arg \in Tags
      BY <2>1, OpShape, Zenon DEF f, o, Live
    <3>. QED BY <1>0, <3>1, AddTagFields, Zenon
  <2>2. CASE op.kind = "remove_tag"
    <3>1. f = RemoveTag(e, o, op.arg) /\ op.arg \in Tags
      BY <2>2, OpShape, Zenon DEF f, o, Live
    <3>. QED BY <1>0, <3>1, RemoveTagFields, ZenonT(60)
  <2>3. CASE op.kind = "set_attr"
    <3>1. f = SetAttr(e, o, op.arg) /\ op.arg \in Attrs
      BY <2>3, OpShape, Zenon DEF f, o, Live
    <3>2. OnlyAttrs(e, f)
      BY <1>0, <3>1, AttrFrame, Zenon
    <3>. QED BY <3>2, Zenon DEF OnlyAttrs
  <2>4. CASE op.kind = "remove_attr"
    <3>1. f = RemoveAttr(e, o, op.arg) /\ op.arg \in Attrs
      BY <2>4, OpShape, Zenon DEF f, o, Live
    <3>2. OnlyAttrs(e, f)
      BY <1>0, <3>1, AttrFrame, Zenon
    <3>. QED BY <3>2, Zenon DEF OnlyAttrs
  <2>5. CASE op.kind = "add_relation"
    <3>1. f = AddRelation(e, o, op.arg) /\ op.arg \in Rels
      BY <2>5, OpShape, Zenon DEF f, o, Live
    <3>. QED BY <1>0, <3>1, AddRelationFields, Zenon
  <2>6. CASE op.kind = "remove_relation"
    <3>1. f = RemoveRelation(e, o, op.arg) /\ op.arg \in Rels
      BY <2>6, OpShape, Zenon DEF f, o, Live
    <3>. QED BY <1>0, <3>1, RemoveRelationFields, Zenon
  <2>. QED BY <1>0, <1>4, <2>1, <2>2, <2>3, <2>4, <2>5, <2>6, Zenon DEF Kinds
<1>. QED BY <1>1, <1>2, <1>3, <1>4, Zenon

\* What apply_wal_op does to the object table, and that it leaves the
\* ontology alone.
LEMMA ReplayFields ==
    ASSUME NEW e \in Engines, NEW op \in Ops
    PROVE  LET f == Replay(e, op)
           IN  /\ f \in Engines /\ ReplayObjects(e, op, f)
               /\ f.known = e.known /\ f.impl = e.impl
<1>. DEFINE o == op.oid
            m == Materialise(e, o)
            f == Replay(e, op)
<1>0. o \in Oids /\ op.kind \in Kinds
  BY OpShape, Zenon
<1>m. m \in Engines
  BY <1>0, MaterialiseFields, Zenon
<1>n. /\ m.content = e.content /\ m.next_oid = e.next_oid
      /\ m.obj = [e.obj EXCEPT ![o] = IF @ = "none" THEN "active" ELSE @]
      /\ m.known = e.known /\ m.impl = e.impl
  BY <1>0, MaterialiseFields, Zenon
<1>. SUFFICES /\ f \in Engines /\ ReplayObjects(e, op, f)
              /\ f.known = e.known /\ f.impl = e.impl
  BY Zenon
<1>. HIDE DEF m, f, o
<1>1. CASE op.kind = "create"
  <2>1. f = ReplayCreateObject(e, o)
    BY <1>1, Zenon DEF f, o, Replay
  <2>. QED BY <1>0, <1>1, <2>1, ReplayCreateFields, ZenonT(60) DEF ReplayObjects, o, Creating
<1>2. CASE op.kind = "delete"
  <2>1. f = Tombstone(e, o)
    BY <1>2, Zenon DEF f, o, Replay, ReplayDeleteObject
  <2>2. /\ f \in Engines /\ f.content = e.content /\ f.next_oid = e.next_oid
        /\ f.obj = [e.obj EXCEPT ![o] = IF @ = "none" THEN "none" ELSE "tomb"]
        /\ f.known = e.known /\ f.impl = e.impl
    BY <1>0, <2>1, TombstoneFields, Zenon
  <2>. QED BY <1>2, <2>2, Zenon DEF ReplayObjects, o, Creating
<1>3. CASE op.kind = "write_blob"
  <2>1. f = WriteBlob(m, o, op.arg) /\ op.arg \in Contents
    BY <1>3, OpShape, Zenon DEF f, o, Replay, ReplayWriteBlob, m
  <2>2. /\ f \in Engines /\ f.content = [m.content EXCEPT ![o] = op.arg]
        /\ f.obj = m.obj /\ f.next_oid = m.next_oid
        /\ f.known = m.known /\ f.impl = m.impl
    BY <1>0, <1>m, <2>1, WriteBlobFields, ZenonT(60)
  <2>3. /\ f.content = [e.content EXCEPT ![o] = op.arg] /\ f.next_oid = e.next_oid
        /\ f.obj = [e.obj EXCEPT ![o] = IF @ = "none" THEN "active" ELSE @]
        /\ f.known = e.known /\ f.impl = e.impl
    BY <1>n, <2>2, Zenon
  <2>. QED BY <1>3, <2>2, <2>3, Zenon DEF ReplayObjects, o, Creating
<1>4. CASE op.kind \in {"add_tag", "set_attr", "add_relation"}
  <2>. SUFFICES /\ f \in Engines
                /\ f.obj = m.obj /\ f.content = m.content /\ f.next_oid = m.next_oid
                /\ f.known = m.known /\ f.impl = m.impl
    BY <1>4, <1>n, Zenon DEF ReplayObjects, o, Creating
  <2>1. CASE op.kind = "add_tag"
    <3>1. f = AddTag(m, o, op.arg) /\ op.arg \in Tags
      BY <2>1, OpShape, Zenon DEF f, o, Replay, ReplayAddTag, m
    <3>. QED BY <1>0, <1>m, <3>1, AddTagFields, ZenonT(60)
  <2>2. CASE op.kind = "set_attr"
    <3>1. f = SetAttr(m, o, op.arg) /\ op.arg \in Attrs
      BY <2>2, OpShape, Zenon DEF f, o, Replay, ReplaySetAttr, m
    <3>2. OnlyAttrs(m, f)
      BY <1>0, <1>m, <3>1, AttrFrame, Zenon
    <3>. QED BY <3>2, Zenon DEF OnlyAttrs
  <2>3. CASE op.kind = "add_relation"
    <3>1. f = AddRelation(m, o, op.arg) /\ op.arg \in Rels
      BY <2>3, OpShape, Zenon DEF f, o, Replay, ReplayAddRelation, m
    <3>. QED BY <1>0, <1>m, <3>1, AddRelationFields, ZenonT(60)
  <2>. QED BY <1>4, <2>1, <2>2, <2>3, Zenon
<1>5. CASE op.kind \in {"remove_tag", "remove_attr", "remove_relation"}
  <2>. SUFFICES /\ f \in Engines
                /\ f.obj = e.obj /\ f.content = e.content /\ f.next_oid = e.next_oid
                /\ f.known = e.known /\ f.impl = e.impl
    BY <1>5, Zenon DEF ReplayObjects, o, Creating
  <2>1. CASE op.kind = "remove_tag"
    <3>1. (f = e \/ f = RemoveTag(e, o, op.arg)) /\ op.arg \in Tags
      BY <2>1, OpShape, Zenon DEF f, o, Replay, ReplayRemoveTag
    <3>2. CASE f = e
      BY <3>2, Zenon
    <3>3. CASE f = RemoveTag(e, o, op.arg)
      BY <1>0, <3>1, <3>3, RemoveTagFields, Zenon
    <3>. QED BY <3>1, <3>2, <3>3, Zenon
  <2>2. CASE op.kind = "remove_attr"
    <3>1. f = RemoveAttr(e, o, op.arg) /\ op.arg \in Attrs
      BY <2>2, OpShape, Zenon DEF f, o, Replay, ReplayRemoveAttr
    <3>2. OnlyAttrs(e, f)
      BY <1>0, <3>1, AttrFrame, Zenon
    <3>. QED BY <3>2, Zenon DEF OnlyAttrs
  <2>3. CASE op.kind = "remove_relation"
    <3>1. f = RemoveRelation(e, o, op.arg) /\ op.arg \in Rels
      BY <2>3, OpShape, Zenon DEF f, o, Replay, ReplayRemoveRelation
    <3>. QED BY <1>0, <3>1, RemoveRelationFields, Zenon
  <2>. QED BY <1>5, <2>1, <2>2, <2>3, Zenon
<1>. QED BY <1>0, <1>1, <1>2, <1>3, <1>4, <1>5, Zenon DEF Kinds

-----------------------------------------------------------------------------
(* Two engines that agree on some of their tables.                         *)

SameObjects(e, f) ==
    e.obj = f.obj /\ e.content = f.content /\ e.next_oid = f.next_oid

\* The tag tables, with the ontology that add_tag and remove_tag consult,
\* and the relations.
SameTags(e, f) ==
    /\ e.tags = f.tags /\ e.tagidx = f.tagidx /\ e.rels = f.rels
    /\ e.known = f.known /\ e.impl = f.impl

\* The same call leaves them in agreement.
LEMMA LiveSameObjects ==
    ASSUME NEW e \in Engines, NEW f \in Engines, NEW op \in Ops,
           op.kind = "create" => op.oid = e.next_oid, SameObjects(e, f)
    PROVE  SameObjects(Live(e, op), Live(f, op))
<1>1. LiveObjects(e, op, Live(e, op)) /\ LiveObjects(f, op, Live(f, op))
  BY LiveFields, Zenon DEF SameObjects
<1>. QED BY <1>1, Zenon DEF SameObjects, LiveObjects

\* add_tag on engines that agree on tags and ontology.
LEMMA AddTagSame ==
    ASSUME NEW e \in Engines, NEW f \in Engines, NEW o \in Oids, NEW t \in Tags,
           SameTags(e, f)
    PROVE  SameTags(AddTag(e, o, t), AddTag(f, o, t))
<1>. DEFINE new(x) == {c \in Closure(x, t) : x.tags[o][c] = "none"}
            row(x) == [c \in Tags |-> IF c \notin new(x) THEN x.tags[o][c]
                                      ELSE IF c = t THEN "direct" ELSE "mat"]
            idx(x) == [c \in Tags |-> IF c \in new(x) THEN x.tagidx[c] \cup {o}
                                      ELSE x.tagidx[c]]
            tab(x) == [x.tags EXCEPT ![o] = row(x)]
<1>1. new(e) = new(f)
  BY Zenon DEF SameTags, Closure
<1>2. ASSUME NEW x \in Engines
      PROVE  /\ AddTag(x, o, t).tags = tab(x)
             /\ AddTag(x, o, t).tagidx = idx(x) /\ AddTag(x, o, t).rels = x.rels
             /\ AddTag(x, o, t).known = x.known /\ AddTag(x, o, t).impl = x.impl
  BY AddTagFields
<1>3. row(e) = row(f) /\ idx(e) = idx(f)
  BY <1>1, Zenon DEF SameTags
<1>. HIDE DEF row, idx
<1>4. tab(e) = tab(f)
  BY <1>3, Zenon DEF SameTags
<1>. HIDE DEF tab
<1>. QED BY <1>2, <1>3, <1>4, Zenon DEF SameTags

\* remove_tag on engines that agree on tags and ontology.
LEMMA RemoveTagSame ==
    ASSUME NEW e \in Engines, NEW f \in Engines, NEW o \in Oids, NEW t \in Tags,
           SameTags(e, f)
    PROVE  SameTags(RemoveTag(e, o, t), RemoveTag(f, o, t))
<1>. DEFINE row(x) == [c \in Tags |-> IF c \in Dropped(x, o, t) THEN "none"
                                      ELSE x.tags[o][c]]
            idx(x) == [c \in Tags |-> IF c \in Dropped(x, o, t) THEN x.tagidx[c] \ {o}
                                      ELSE x.tagidx[c]]
            tab(x) == [x.tags EXCEPT ![o] = row(x)]
<1>1. Dropped(e, o, t) = Dropped(f, o, t)
  <2>1. Orphans(e, o, t) = Orphans(f, o, t)
    BY Zenon DEF SameTags, Orphans, MaterializedTags, DirectTags, Closure
  <2>. QED BY <2>1, Zenon DEF SameTags, Dropped
<1>2. ASSUME NEW x \in Engines
      PROVE  /\ RemoveTag(x, o, t).tags = tab(x)
             /\ RemoveTag(x, o, t).tagidx = idx(x) /\ RemoveTag(x, o, t).rels = x.rels
             /\ RemoveTag(x, o, t).known = x.known /\ RemoveTag(x, o, t).impl = x.impl
  BY RemoveTagFields
<1>3. row(e) = row(f) /\ idx(e) = idx(f)
  BY <1>1, Zenon DEF SameTags
<1>. HIDE DEF row, idx
<1>4. tab(e) = tab(f)
  BY <1>3, Zenon DEF SameTags
<1>. HIDE DEF tab
<1>. QED BY <1>2, <1>3, <1>4, Zenon DEF SameTags

\* add_relation and remove_relation on engines that agree on relations.
LEMMA RelationSame ==
    ASSUME NEW e \in Engines, NEW f \in Engines, NEW o \in Oids, NEW r \in Rels,
           SameTags(e, f)
    PROVE  /\ SameTags(AddRelation(e, o, r), AddRelation(f, o, r))
           /\ SameTags(RemoveRelation(e, o, r), RemoveRelation(f, o, r))
<1>. DEFINE Counts(x, n) == [x.rels EXCEPT ![o] = [x.rels[o] EXCEPT ![r] = n]]
<1>1. ASSUME NEW x \in Engines
      PROVE  LET g == AddRelation(x, o, r)
             IN  /\ g.rels = Counts(x, x.rels[o][r] + 1)
                 /\ g.tags = x.tags /\ g.tagidx = x.tagidx
                 /\ g.known = x.known /\ g.impl = x.impl
  BY AddRelationFields
<1>2. ASSUME NEW x \in Engines
      PROVE  LET g == RemoveRelation(x, o, r)
             IN  /\ g.rels = Counts(x, OneFewer(x.rels[o][r]))
                 /\ g.tags = x.tags /\ g.tagidx = x.tagidx
                 /\ g.known = x.known /\ g.impl = x.impl
  BY RemoveRelationFields
<1>3. /\ Counts(e, e.rels[o][r] + 1) = Counts(f, f.rels[o][r] + 1)
      /\ Counts(e, OneFewer(e.rels[o][r])) = Counts(f, OneFewer(f.rels[o][r]))
  BY Zenon DEF SameTags
<1>. HIDE DEF Counts
<1>. QED BY <1>1, <1>2, <1>3, ZenonT(60) DEF SameTags

\* The other calls leave the tag tables and the relations alone.
LEMMA OtherSame ==
    ASSUME NEW e \in Engines, NEW f \in Engines, NEW o \in Oids, SameTags(e, f)
    PROVE  /\ SameTags(Materialise(e, o), f)
           /\ SameTags(ReplayCreateObject(e, o), f)
           /\ f.next_oid \in Oids => SameTags(e, CreateObject(f))
           /\ SameTags(Tombstone(e, o), DeleteObject(f, o))
           /\ SameTags(DeleteObject(e, o), DeleteObject(f, o))
           /\ \A c \in Contents : SameTags(e, WriteBlob(f, o, c))
           /\ \A a \in Attrs : SameTags(e, SetAttr(f, o, a))
                                /\ SameTags(e, RemoveAttr(f, o, a))
<1>1. SameTags(Materialise(e, o), f)
  BY MaterialiseFields, Zenon DEF SameTags
<1>2. SameTags(ReplayCreateObject(e, o), f)
  BY ReplayCreateFields, Zenon DEF SameTags
<1>3. f.next_oid \in Oids => SameTags(e, CreateObject(f))
  BY CreateFields, Zenon DEF SameTags
<1>4. ASSUME NEW x \in Engines, SameTags(x, f)
      PROVE  /\ SameTags(Tombstone(x, o), Tombstone(f, o))
             /\ SameTags(Tombstone(x, o), DeleteObject(x, o))
  <2>. DEFINE tg(y) == [y.tags EXCEPT ![o] = [t \in Tags |-> "none"]]
              ix(y) == [t \in Tags |-> y.tagidx[t] \ {o}]
              rl(y) == [y.rels EXCEPT ![o] = [r \in Rels |-> 0]]
  <2>1. ASSUME NEW y \in Engines
        PROVE  LET g == Tombstone(y, o)
               IN  /\ g.tags = tg(y) /\ g.tagidx = ix(y) /\ g.rels = rl(y)
                   /\ g.known = y.known /\ g.impl = y.impl
    BY TombstoneFields, ZenonT(60)
  <2>2. ASSUME NEW y \in Engines
        PROVE  LET g == DeleteObject(y, o)
               IN  /\ g.tags = tg(y) /\ g.tagidx = ix(y) /\ g.rels = rl(y)
                   /\ g.known = y.known /\ g.impl = y.impl
    BY DeleteFields, Zenon
  <2>3. tg(x) = tg(f) /\ ix(x) = ix(f) /\ rl(x) = rl(f)
    BY <1>4, Zenon DEF SameTags
  <2>. HIDE DEF tg, ix, rl
  <2>. QED BY <1>4, <2>1, <2>2, <2>3, ZenonT(60) DEF SameTags
<1>5. /\ SameTags(Tombstone(e, o), DeleteObject(f, o))
      /\ SameTags(DeleteObject(e, o), DeleteObject(f, o))
  <2>1. SameTags(f, f)
    BY Zenon DEF SameTags
  <2>2. /\ SameTags(Tombstone(e, o), Tombstone(f, o))
        /\ SameTags(Tombstone(e, o), DeleteObject(e, o))
        /\ SameTags(Tombstone(f, o), DeleteObject(f, o))
    BY <1>4, <2>1, Zenon
  <2>. QED BY <2>2, Zenon DEF SameTags
<1>6. \A c \in Contents : SameTags(e, WriteBlob(f, o, c))
  BY WriteBlobFields, ZenonT(60) DEF SameTags
<1>7. \A a \in Attrs : SameTags(e, SetAttr(f, o, a)) /\ SameTags(e, RemoveAttr(f, o, a))
  BY AttrFrame, ZenonT(60) DEF SameTags, OnlyAttrs
<1>. QED BY <1>1, <1>2, <1>3, <1>5, <1>6, <1>7, Zenon

\* Every live call keeps two engines in agreement on their tags.
LEMMA LiveSameTags ==
    ASSUME NEW e \in Engines, NEW f \in Engines, NEW op \in Ops,
           op.kind = "create" => e.next_oid \in Oids /\ f.next_oid \in Oids,
           SameTags(e, f)
    PROVE  SameTags(Live(e, op), Live(f, op))
<1>0. op.oid \in Oids /\ op.kind \in Kinds
  BY OpShape, Zenon
<1>1. CASE op.kind = "create"
  <2>1. Live(e, op) = CreateObject(e) /\ Live(f, op) = CreateObject(f)
    BY <1>1, Zenon DEF Live
  <2>2. SameTags(e, e)
    BY Zenon DEF SameTags
  <2>3. SameTags(e, CreateObject(e)) /\ SameTags(e, CreateObject(f))
    BY <1>0, <1>1, <2>2, OtherSame, Zenon
  <2>. QED BY <2>1, <2>3, Zenon DEF SameTags
<1>2. CASE op.kind = "delete"
  BY <1>0, <1>2, OtherSame, Zenon DEF Live
<1>3. CASE op.kind = "add_tag"
  BY <1>0, <1>3, OpShape, AddTagSame, Zenon DEF Live
<1>4. CASE op.kind = "remove_tag"
  BY <1>0, <1>4, OpShape, RemoveTagSame, Zenon DEF Live
<1>5. CASE op.kind \in {"set_attr", "remove_attr"}
  <2>1. op.arg \in Attrs
    BY <1>5, OpShape, Zenon
  <2>2. ASSUME NEW x \in Engines
        PROVE  Live(x, op) = SetAttr(x, op.oid, op.arg)
               \/ Live(x, op) = RemoveAttr(x, op.oid, op.arg)
    BY <1>5, Zenon DEF Live
  <2>3. ASSUME NEW x \in Engines PROVE SameTags(x, Live(x, op))
    <3>1. SameTags(x, x)
      BY Zenon DEF SameTags
    <3>. QED BY <1>0, <2>1, <2>2, <3>1, OtherSame, Zenon
  <2>. QED BY <2>3, Zenon DEF SameTags
<1>6. CASE op.kind = "add_relation"
  BY <1>0, <1>6, OpShape, RelationSame, Zenon DEF Live
<1>7. CASE op.kind = "remove_relation"
  BY <1>0, <1>7, OpShape, RelationSame, Zenon DEF Live
<1>8. CASE op.kind = "write_blob"
  <2>1. op.arg \in Contents
    BY <1>8, OpShape, Zenon
  <2>2. Live(e, op) = WriteBlob(e, op.oid, op.arg)
        /\ Live(f, op) = WriteBlob(f, op.oid, op.arg)
    BY <1>8, Zenon DEF Live
  <2>3. SameTags(e, e)
    BY Zenon DEF SameTags
  <2>4. SameTags(e, Live(e, op)) /\ SameTags(e, Live(f, op))
    BY <1>0, <2>1, <2>2, <2>3, OtherSame, Zenon
  <2>. QED BY <2>4, Zenon DEF SameTags
<1>. QED BY <1>0, <1>1, <1>2, <1>3, <1>4, <1>5, <1>6, <1>7, <1>8, Zenon DEF Kinds

\* A replayed operation does to an engine that agrees with f what the live
\* one did to f, when f accepted it.
LEMMA ReplaySameTags ==
    ASSUME NEW e \in Engines, NEW f \in Engines, NEW op \in Ops,
           op.kind = "create" => f.next_oid \in Oids,
           op.kind = "remove_tag" => HasRecord(e, op.oid),
           SameTags(e, f)
    PROVE  SameTags(Replay(e, op), Live(f, op))
<1>. DEFINE m == Materialise(e, op.oid)
<1>0. op.oid \in Oids /\ op.kind \in Kinds
  BY OpShape, Zenon
<1>m. m \in Engines /\ SameTags(m, f)
  BY <1>0, MaterialiseFields, OtherSame, Zenon
<1>. HIDE DEF m
<1>1. CASE op.kind = "create"
  <2>1. Replay(e, op) = ReplayCreateObject(e, op.oid) /\ Live(f, op) = CreateObject(f)
    BY <1>1, Zenon DEF Replay, Live
  <2>2. ReplayCreateObject(e, op.oid) \in Engines
    BY <1>0, ReplayCreateFields, Zenon
  <2>3. SameTags(ReplayCreateObject(e, op.oid), f) /\ SameTags(e, CreateObject(f))
    BY <1>0, <1>1, OtherSame, Zenon
  <2>. QED BY <2>1, <2>3, Zenon DEF SameTags
<1>2. CASE op.kind = "delete"
  BY <1>0, <1>2, OtherSame, Zenon DEF Replay, Live, ReplayDeleteObject
<1>3. CASE op.kind = "add_tag"
  <2>1. Replay(e, op) = AddTag(m, op.oid, op.arg) /\ Live(f, op) = AddTag(f, op.oid, op.arg)
    BY <1>3, Zenon DEF Replay, Live, ReplayAddTag, m
  <2>. QED BY <1>0, <1>3, <1>m, <2>1, OpShape, AddTagSame, Zenon
<1>4. CASE op.kind = "remove_tag"
  <2>1. /\ Replay(e, op) = RemoveTag(e, op.oid, op.arg)
        /\ Live(f, op) = RemoveTag(f, op.oid, op.arg)
    BY <1>4, Zenon DEF Replay, Live, ReplayRemoveTag
  <2>. QED BY <1>0, <1>4, <2>1, OpShape, RemoveTagSame, Zenon
<1>5. CASE op.kind = "set_attr"
  <2>1. op.arg \in Attrs /\ Live(f, op) = SetAttr(f, op.oid, op.arg)
        /\ Replay(e, op) = SetAttr(m, op.oid, op.arg)
    BY <1>5, OpShape, Zenon DEF Replay, Live, ReplaySetAttr, m
  <2>2. SameTags(f, f) /\ SameTags(m, m)
    BY Zenon DEF SameTags
  <2>3. SameTags(f, Live(f, op)) /\ SameTags(m, Replay(e, op))
    BY <1>0, <1>m, <2>1, <2>2, OtherSame, Zenon
  <2>. QED BY <1>m, <2>3, Zenon DEF SameTags
<1>6. CASE op.kind = "remove_attr"
  <2>1. op.arg \in Attrs /\ Live(f, op) = RemoveAttr(f, op.oid, op.arg)
        /\ Replay(e, op) = RemoveAttr(e, op.oid, op.arg)
    BY <1>6, OpShape, Zenon DEF Replay, Live, ReplayRemoveAttr
  <2>2. SameTags(f, f) /\ SameTags(e, e)
    BY Zenon DEF SameTags
  <2>3. SameTags(f, Live(f, op)) /\ SameTags(e, Replay(e, op))
    BY <1>0, <2>1, <2>2, OtherSame, Zenon
  <2>. QED BY <2>3, Zenon DEF SameTags
<1>7. CASE op.kind = "add_relation"
  <2>1. /\ Replay(e, op) = AddRelation(m, op.oid, op.arg)
        /\ Live(f, op) = AddRelation(f, op.oid, op.arg)
    BY <1>7, Zenon DEF Replay, Live, ReplayAddRelation, m
  <2>. QED BY <1>0, <1>7, <1>m, <2>1, OpShape, RelationSame, Zenon
<1>8. CASE op.kind = "remove_relation"
  BY <1>0, <1>8, OpShape, RelationSame, Zenon DEF Replay, Live, ReplayRemoveRelation
<1>9. CASE op.kind = "write_blob"
  <2>1. op.arg \in Contents /\ Live(f, op) = WriteBlob(f, op.oid, op.arg)
        /\ Replay(e, op) = WriteBlob(m, op.oid, op.arg)
    BY <1>9, OpShape, Zenon DEF Replay, Live, ReplayWriteBlob, m
  <2>2. SameTags(f, f) /\ SameTags(m, m)
    BY Zenon DEF SameTags
  <2>3. SameTags(f, Live(f, op)) /\ SameTags(m, Replay(e, op))
    BY <1>0, <1>m, <2>1, <2>2, OtherSame, Zenon
  <2>. QED BY <1>m, <2>3, Zenon DEF SameTags
<1>. QED BY <1>0, <1>1, <1>2, <1>3, <1>4, <1>5, <1>6, <1>7, <1>8, <1>9, Zenon DEF Kinds

-----------------------------------------------------------------------------
(* What an operation does to the attributes.                               *)

Sets(op, o, a) == op.kind = "set_attr" /\ op.oid = o /\ op.arg = a
Removes(op, o, a) == op.kind = "remove_attr" /\ op.oid = o /\ op.arg = a
Deletes(op, o) == op.kind = "delete" /\ op.oid = o

\* The forward index.
AttrCounts(e, op, f) ==
    \A o \in Oids, a \in Attrs :
        f.attrs[o][a] = IF Sets(op, o, a) THEN e.attrs[o][a] + 1
                        ELSE IF Removes(op, o, a) THEN OneFewer(e.attrs[o][a])
                        ELSE IF Deletes(op, o) THEN 0 ELSE e.attrs[o][a]

\* The operation takes a held attribute out of the inverted indexes; a
\* replayed delete does not.
Unindexes(e, op, o, a, live) ==
    e.attrs[o][a] # 0 /\ (Removes(op, o, a) \/ (live /\ Deletes(op, o)))

\* The inverted indexes.
AttrLookups(e, op, f, live) ==
    /\ \A o \in Oids, a \in Attrs :
          o \in f.kv[a] <=> \/ Sets(op, o, a)
                            \/ o \in e.kv[a] /\ ~Unindexes(e, op, o, a, live)
    /\ \A o \in Oids, n \in NormKeys :
          o \in f.range[n] <=>
              \/ \E a \in Attrs : NormOf(a) = n /\ Sets(op, o, a)
              \/ o \in e.range[n]
                 /\ \A a \in Attrs : NormOf(a) = n => ~Unindexes(e, op, o, a, live)

AttrStep(e, op, f, live) == AttrCounts(e, op, f) /\ AttrLookups(e, op, f, live)

SameAttrs(e, f) == f.attrs = e.attrs /\ f.kv = e.kv /\ f.range = e.range

\* The calls about other things.
LEMMA NoAttrStep ==
    ASSUME NEW e, NEW f, NEW op, NEW live,
           op.kind \notin {"set_attr", "remove_attr", "delete"}, SameAttrs(e, f)
    PROVE  AttrStep(e, op, f, live)
<1>1. \A o, a : ~Sets(op, o, a) /\ ~Removes(op, o, a) /\ ~Deletes(op, o)
  BY Zenon DEF Sets, Removes, Deletes
<1>2. AttrCounts(e, op, f)
  BY <1>1, Zenon DEF AttrCounts, SameAttrs
<1>3. AttrLookups(e, op, f, live)
  BY <1>1, Zenon DEF AttrLookups, Unindexes, SameAttrs
<1>. QED BY <1>2, <1>3, Zenon DEF AttrStep

\* set_attr, live or replayed.
LEMMA SetAttrStep ==
    ASSUME NEW e \in Engines, NEW op \in Ops, op.kind = "set_attr", NEW live
    PROVE  AttrStep(e, op, SetAttr(e, op.oid, op.arg), live)
<1>. DEFINE q == op.oid
            b == op.arg
            f == SetAttr(e, q, b)
<1>0. q \in Oids /\ b \in Attrs
  BY OpShape, Zenon
<1>1. /\ e.attrs \in [Oids -> [Attrs -> Nat]] /\ e.kv \in [Attrs -> SUBSET Oids]
      /\ e.range \in [NormKeys -> SUBSET Oids]
  BY FieldTypes, Zenon
<1>2. /\ f.attrs = [e.attrs EXCEPT ![q] = [e.attrs[q] EXCEPT ![b] = e.attrs[q][b] + 1]]
      /\ f.kv = [e.kv EXCEPT ![b] = e.kv[b] \cup {q}]
      /\ f.range = [e.range EXCEPT ![NormOf(b)] = e.range[NormOf(b)] \cup {q}]
  <2>1. f = SetAttr(e, q, b)
    BY Zenon
  <2>. HIDE DEF q, b, f
  <2>. QED BY <1>0, <2>1, SetAttrFields
<1>3. /\ \A o, a : Sets(op, o, a) <=> o = q /\ a = b
      /\ \A o, a : ~Removes(op, o, a) /\ ~Deletes(op, o)
  BY Zenon DEF Sets, Removes, Deletes
<1>. HIDE DEF q, b, f
<1>4. AttrCounts(e, op, f)
  BY <1>0, <1>1, <1>2, <1>3 DEF AttrCounts
<1>5. \A o \in Oids, a \in Attrs : o \in f.kv[a] <=> (o = q /\ a = b) \/ o \in e.kv[a]
  BY <1>0, <1>1, <1>2
<1>6. \A o \in Oids, n \in NormKeys :
          o \in f.range[n] <=> (o = q /\ NormOf(b) = n) \/ o \in e.range[n]
  BY <1>0, <1>1, <1>2
<1>7. AttrLookups(e, op, f, live)
  <2>1. \A o, n : (\E a \in Attrs : NormOf(a) = n /\ Sets(op, o, a)) <=> o = q /\ NormOf(b) = n
    BY <1>0, <1>3, Zenon
  <2>2. \A o, a : ~Unindexes(e, op, o, a, live)
    BY <1>3, Zenon DEF Unindexes
  <2>. QED BY <1>3, <1>5, <1>6, <2>1, <2>2, Zenon DEF AttrLookups
<1>. QED BY <1>4, <1>7, Zenon DEF AttrStep, f, q, b

\* remove_attr, live or replayed: an attribute that is not held stays
\* in the indexes it is in.
LEMMA RemoveAttrStep ==
    ASSUME NEW e \in Engines, NEW op \in Ops, op.kind = "remove_attr", NEW live
    PROVE  AttrStep(e, op, RemoveAttr(e, op.oid, op.arg), live)
<1>. DEFINE q == op.oid
            b == op.arg
            f == RemoveAttr(e, q, b)
<1>0. q \in Oids /\ b \in Attrs
  BY OpShape, Zenon
<1>1. /\ e.attrs \in [Oids -> [Attrs -> Nat]] /\ e.kv \in [Attrs -> SUBSET Oids]
      /\ e.range \in [NormKeys -> SUBSET Oids]
  BY FieldTypes, Zenon
<1>2. /\ \A o, a : Removes(op, o, a) <=> o = q /\ a = b
      /\ \A o, a : ~Sets(op, o, a) /\ ~Deletes(op, o)
  BY Zenon DEF Sets, Removes, Deletes
<1>3. CASE e.attrs[q][b] = 0
  <2>1. f = e
    BY <1>3, Zenon DEF RemoveAttr
  <2>. HIDE DEF q, b, f
  <2>2. AttrCounts(e, op, f)
    BY <1>2, <1>3, <2>1 DEF AttrCounts, OneFewer
  <2>3. \A o, a : ~Unindexes(e, op, o, a, live)
    BY <1>2, <1>3 DEF Unindexes
  <2>4. AttrLookups(e, op, f, live)
    BY <1>2, <2>1, <2>3, Zenon DEF AttrLookups
  <2>. QED BY <2>2, <2>4, Zenon DEF AttrStep, f, q, b
<1>4. CASE e.attrs[q][b] # 0
  <2>1. /\ f.attrs = [e.attrs EXCEPT ![q] = [e.attrs[q] EXCEPT ![b] = e.attrs[q][b] - 1]]
        /\ f.kv = [e.kv EXCEPT ![b] = e.kv[b] \ {q}]
        /\ f.range = [e.range EXCEPT ![NormOf(b)] = e.range[NormOf(b)] \ {q}]
    <3>1. f = RemoveAttr(e, q, b)
      BY Zenon
    <3>. HIDE DEF q, b, f
    <3>. QED BY <1>0, <1>4, <3>1, RemoveAttrFields, SMTT(60)
  <2>. HIDE DEF q, b, f
  <2>2. AttrCounts(e, op, f)
    BY <1>0, <1>1, <1>2, <1>4, <2>1 DEF AttrCounts, OneFewer
  <2>3. \A o, a : Unindexes(e, op, o, a, live) <=> o = q /\ a = b
    BY <1>2, <1>4, Zenon DEF Unindexes
  <2>4. \A o \in Oids, a \in Attrs : o \in f.kv[a] <=> o \in e.kv[a] /\ ~(o = q /\ a = b)
    BY <1>0, <1>1, <2>1
  <2>5. \A o \in Oids, n \in NormKeys :
            o \in f.range[n] <=> o \in e.range[n] /\ ~(o = q /\ NormOf(b) = n)
    BY <1>0, <1>1, <2>1
  <2>6. AttrLookups(e, op, f, live)
    BY <1>0, <1>2, <2>3, <2>4, <2>5, Zenon DEF AttrLookups
  <2>. QED BY <2>2, <2>6, Zenon DEF AttrStep, f, q, b
<1>. QED BY <1>3, <1>4, Zenon

\* delete_object takes every held attribute out of the inverted indexes.
LEMMA DeleteAttrStep ==
    ASSUME NEW e \in Engines, NEW op \in Ops, op.kind = "delete"
    PROVE  /\ AttrStep(e, op, DeleteObject(e, op.oid), TRUE)
           /\ AttrStep(e, op, Tombstone(e, op.oid), FALSE)
<1>. DEFINE q == op.oid
            f == DeleteObject(e, q)
            g == Tombstone(e, q)
<1>0. q \in Oids
  BY OpShape, Zenon
<1>1. /\ e.attrs \in [Oids -> [Attrs -> Nat]] /\ e.kv \in [Attrs -> SUBSET Oids]
      /\ e.range \in [NormKeys -> SUBSET Oids]
  BY FieldTypes, Zenon
<1>2. /\ f.attrs = [e.attrs EXCEPT ![q] = [a \in Attrs |-> 0]]
      /\ f.kv = [a \in Attrs |-> IF a \in {x \in Attrs : e.attrs[q][x] > 0}
                                THEN e.kv[a] \ {q} ELSE e.kv[a]]
      /\ f.range = [n \in NormKeys |->
                       IF n \in {NormOf(a) : a \in {x \in Attrs : e.attrs[q][x] > 0}}
                       THEN e.range[n] \ {q} ELSE e.range[n]]
  BY <1>0, DeleteFields, Zenon
<1>3. g.attrs = [e.attrs EXCEPT ![q] = [a \in Attrs |-> 0]] /\ g.kv = e.kv /\ g.range = e.range
  BY <1>0, TombstoneFields, Zenon
<1>4. /\ \A o : Deletes(op, o) <=> o = q
      /\ \A o, a : ~Removes(op, o, a) /\ ~Sets(op, o, a)
  BY Zenon DEF Sets, Removes, Deletes
<1>. HIDE DEF q, f, g
<1>5. AttrCounts(e, op, f) /\ AttrCounts(e, op, g)
  BY <1>0, <1>1, <1>2, <1>3, <1>4 DEF AttrCounts
<1>6. \A a \in Attrs : e.attrs[q][a] # 0 <=> e.attrs[q][a] > 0
  BY <1>0, <1>1
<1>7. \A o \in Oids, a \in Attrs : o \in f.kv[a] <=> o \in e.kv[a] /\ ~(o = q /\ e.attrs[o][a] # 0)
  BY <1>1, <1>2, <1>6
<1>8. \A o \in Oids, n \in NormKeys :
          o \in f.range[n] <=>
              o \in e.range[n] /\ \A a \in Attrs : NormOf(a) = n => ~(o = q /\ e.attrs[o][a] # 0)
  BY <1>1, <1>2, <1>6
<1>9. \A o \in Oids, a \in Attrs :
          /\ Unindexes(e, op, o, a, TRUE) <=> o = q /\ e.attrs[o][a] # 0
          /\ ~Unindexes(e, op, o, a, FALSE)
  BY <1>4, Zenon DEF Unindexes
<1>10. AttrLookups(e, op, f, TRUE)
  <2>1. \A o \in Oids, a \in Attrs :
            o \in f.kv[a] <=> o \in e.kv[a] /\ ~Unindexes(e, op, o, a, TRUE)
    BY <1>7, <1>9, Zenon
  <2>2. \A o \in Oids, n \in NormKeys :
            o \in f.range[n] <=>
                o \in e.range[n] /\ \A a \in Attrs : NormOf(a) = n => ~Unindexes(e, op, o, a, TRUE)
    BY <1>8, <1>9, ZenonT(60)
  <2>. QED BY <1>4, <2>1, <2>2, Zenon DEF AttrLookups
<1>11. AttrLookups(e, op, g, FALSE)
  BY <1>3, <1>4, <1>9, Zenon DEF AttrLookups
<1>. QED BY <1>5, <1>10, <1>11, Zenon DEF AttrStep, f, g, q

\* A live call, and the replay of one.
LEMMA LiveAttrs ==
    ASSUME NEW e \in Engines, NEW op \in Ops, op.kind = "create" => e.next_oid \in Oids
    PROVE  AttrStep(e, op, Live(e, op), TRUE)
<1>. DEFINE o == op.oid
            f == Live(e, op)
<1>0. o \in Oids /\ op.kind \in Kinds
  BY OpShape, Zenon
<1>1. CASE op.kind = "set_attr"
  BY <1>1, SetAttrStep, Zenon DEF Live
<1>2. CASE op.kind = "remove_attr"
  BY <1>2, RemoveAttrStep, Zenon DEF Live
<1>3. CASE op.kind = "delete"
  BY <1>3, DeleteAttrStep, Zenon DEF Live
<1>4. CASE op.kind \notin {"set_attr", "remove_attr", "delete"}
  <2>. HIDE DEF o, f
  <2>1. SameAttrs(e, f)
    <3>1. CASE op.kind = "create"
      BY <1>0, <3>1, CreateFields, Zenon DEF Live, SameAttrs, f
    <3>2. CASE op.kind = "add_tag"
      <4>1. f = AddTag(e, o, op.arg) /\ op.arg \in Tags
        BY <3>2, OpShape, Zenon DEF f, o, Live
      <4>. QED BY <1>0, <4>1, AddTagFields, ZenonT(60) DEF SameAttrs
    <3>3. CASE op.kind = "remove_tag"
      <4>1. f = RemoveTag(e, o, op.arg) /\ op.arg \in Tags
        BY <3>3, OpShape, Zenon DEF f, o, Live
      <4>. QED BY <1>0, <4>1, RemoveTagFields, ZenonT(60) DEF SameAttrs
    <3>4. CASE op.kind = "add_relation"
      <4>1. f = AddRelation(e, o, op.arg) /\ op.arg \in Rels
        BY <3>4, OpShape, Zenon DEF f, o, Live
      <4>. QED BY <1>0, <4>1, AddRelationFields, ZenonT(60) DEF SameAttrs
    <3>5. CASE op.kind = "remove_relation"
      <4>1. f = RemoveRelation(e, o, op.arg) /\ op.arg \in Rels
        BY <3>5, OpShape, Zenon DEF f, o, Live
      <4>. QED BY <1>0, <4>1, RemoveRelationFields, ZenonT(60) DEF SameAttrs
    <3>6. CASE op.kind = "write_blob"
      <4>1. f = WriteBlob(e, o, op.arg) /\ op.arg \in Contents
        BY <3>6, OpShape, Zenon DEF f, o, Live
      <4>. QED BY <1>0, <4>1, WriteBlobFields, Zenon DEF SameAttrs
    <3>. QED BY <1>0, <1>4, <3>1, <3>2, <3>3, <3>4, <3>5, <3>6, Zenon DEF Kinds
  <2>. QED BY <1>4, <2>1, NoAttrStep, Zenon DEF f
<1>. QED BY <1>1, <1>2, <1>3, <1>4, Zenon

\* apply_wal_op and the attributes.
LEMMA ReplayAttrs ==
    ASSUME NEW e \in Engines, NEW op \in Ops
    PROVE  AttrStep(e, op, Replay(e, op), FALSE)
<1>. DEFINE o == op.oid
            m == Materialise(e, o)
            f == Replay(e, op)
<1>0. o \in Oids /\ op.kind \in Kinds
  BY OpShape, Zenon
<1>m. m \in Engines /\ SameAttrs(e, m)
  BY <1>0, MaterialiseFields, Zenon DEF SameAttrs
<1>1. CASE op.kind = "set_attr"
  <2>1. f = SetAttr(m, o, op.arg)
    BY <1>1, Zenon DEF Replay, ReplaySetAttr
  <2>. HIDE DEF m, f
  <2>2. AttrStep(m, op, f, FALSE)
    BY <1>1, <1>m, <2>1, SetAttrStep, Zenon
  <2>3. AttrStep(e, op, f, FALSE)
    BY <1>m, <2>2, Zenon DEF AttrStep, AttrCounts, AttrLookups, Unindexes, SameAttrs
  <2>. QED BY <2>3, Zenon DEF f
<1>2. CASE op.kind = "remove_attr"
  BY <1>2, RemoveAttrStep, Zenon DEF Replay, ReplayRemoveAttr
<1>3. CASE op.kind = "delete"
  BY <1>3, DeleteAttrStep, Zenon DEF Replay, ReplayDeleteObject
<1>4. CASE op.kind \notin {"set_attr", "remove_attr", "delete"}
  <2>. HIDE DEF o, f, m
  <2>1. CASE op.kind = "create"
    <3>1. f = ReplayCreateObject(e, o)
      BY <2>1, Zenon DEF Replay, f, o
    <3>2. SameAttrs(e, f)
      BY <1>0, <3>1, ReplayCreateFields, Zenon DEF SameAttrs
    <3>. QED BY <1>4, <3>2, NoAttrStep, Zenon DEF f
  <2>2. CASE op.kind = "remove_tag"
    <3>1. (f = e \/ f = RemoveTag(e, o, op.arg)) /\ op.arg \in Tags
      BY <2>2, OpShape, Zenon DEF f, o, Replay, ReplayRemoveTag
    <3>2. ASSUME f = RemoveTag(e, o, op.arg) PROVE SameAttrs(e, f)
      <4>1. op.arg \in Tags
        BY <3>1, Zenon
      <4>. QED BY <1>0, <3>2, <4>1, RemoveTagFields, ZenonT(60) DEF SameAttrs
    <3>3. SameAttrs(e, f)
      BY <3>1, <3>2, Zenon DEF SameAttrs
    <3>. QED BY <1>4, <3>3, NoAttrStep, Zenon DEF f
  <2>3. CASE op.kind = "remove_relation"
    <3>1. f = RemoveRelation(e, o, op.arg) /\ op.arg \in Rels
      BY <2>3, OpShape, Zenon DEF f, o, Replay, ReplayRemoveRelation
    <3>2. SameAttrs(e, f)
      BY <1>0, <3>1, RemoveRelationFields, ZenonT(60) DEF SameAttrs
    <3>. QED BY <1>4, <3>2, NoAttrStep, Zenon DEF f
  <2>4. CASE op.kind \in {"add_tag", "add_relation", "write_blob"}
    <3>1. SameAttrs(m, f)
      <4>1. CASE op.kind = "add_tag"
        <5>1. f = AddTag(m, o, op.arg) /\ op.arg \in Tags
          BY <4>1, OpShape, Zenon DEF f, o, m, Replay, ReplayAddTag
        <5>. QED BY <1>0, <1>m, <5>1, AddTagFields, ZenonT(60) DEF SameAttrs
      <4>2. CASE op.kind = "add_relation"
        <5>1. f = AddRelation(m, o, op.arg) /\ op.arg \in Rels
          BY <4>2, OpShape, Zenon DEF f, o, m, Replay, ReplayAddRelation
        <5>. QED BY <1>0, <1>m, <5>1, AddRelationFields, Zenon DEF SameAttrs
      <4>3. CASE op.kind = "write_blob"
        <5>1. f = WriteBlob(m, o, op.arg) /\ op.arg \in Contents
          BY <4>3, OpShape, Zenon DEF f, o, m, Replay, ReplayWriteBlob
        <5>. QED BY <1>0, <1>m, <5>1, WriteBlobFields, Zenon DEF SameAttrs
      <4>. QED BY <2>4, <4>1, <4>2, <4>3, Zenon
    <3>2. SameAttrs(e, f)
      BY <1>m, <3>1, Zenon DEF SameAttrs
    <3>. QED BY <1>4, <3>2, NoAttrStep, Zenon DEF f
  <2>. QED BY <1>0, <1>4, <2>1, <2>2, <2>3, <2>4, Zenon DEF Kinds
<1>. QED BY <1>1, <1>2, <1>3, <1>4, Zenon

\* Counts in order stay in order.
LEMMA FewerStep ==
    ASSUME NEW e, NEW f, NEW g, NEW h, NEW op, NEW x, NEW y,
           AttrStep(e, op, f, x), AttrStep(g, op, h, y), NEW o \in Oids, NEW a \in Attrs,
           e.attrs[o][a] \in Nat, g.attrs[o][a] \in Nat, e.attrs[o][a] <= g.attrs[o][a]
    PROVE  f.attrs[o][a] <= h.attrs[o][a]
BY DEF AttrStep, AttrCounts, OneFewer

=============================================================================
