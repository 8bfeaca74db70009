----------------------------- MODULE OntologyOps -----------------------------
(***************************************************************************)
(* The operations of the ontology registry (crates/ontology/src/state.rs,  *)
(* module.rs, materializer.rs) as functions of its state                   *)
(*                                                                         *)
(*   ont.tags       tag id -> definition                                   *)
(*   ont.names      tag name -> tag id                                     *)
(*   ont.dag        the implication graph, see ImplicationDag              *)
(*   ont.relations  mutex / requires / alias triples of tag ids            *)
(*   ont.modules    module id -> what the module added when it was         *)
(*                  installed                                              *)
(*                                                                         *)
(* A definition is [name, semantics, implies, storage]; storage maps the   *)
(* axes the tag declares to their setting.  A vector whose order nothing   *)
(* reads is a set.  Ids are u32 counters; the instances stay far from the  *)
(* width, so they are naturals here.                                       *)
(***************************************************************************)
EXTENDS ImplicationDag, FiniteSetsExt

NewOntology == [tags |-> <<>>, names |-> <<>>, dag |-> EmptyDag,
                relations |-> {}, modules |-> <<>>]

\* f with key x set to y.
Put(f, x, y) == [z \in DOMAIN f \cup {x} |-> IF z = x THEN y ELSE f[z]]

Drop(f, X) == Restrict(f, DOMAIN f \ X)

Axes == {"chunking", "compression", "encryption"}

Declares(ont, t, axis) ==
    t \in DOMAIN ont.tags /\ axis \in DOMAIN ont.tags[t].storage

-----------------------------------------------------------------------------
(* Tag ids.                                                                *)

HighestId(ont) == Max(DOMAIN ont.tags \cup {0})

\* IdAllocator: the next id to issue, and the bump past an id seen.
starting_at(start) == Max({start, 1})
observe(alloc, id) == IF id >= alloc THEN id + 1 ELSE alloc

\* OntologyState::fresh_allocator, and next_tag_id of the mimir commands:
\* one past the highest id in the ontology.
fresh_allocator(ont) == starting_at(HighestId(ont) + 1)

\* A definition under a new id: dag node, name and table entry.
Register(ont, id, def) ==
    [ont EXCEPT !.dag = add_tag(@, id),
                !.names = Put(@, def.name, id),
                !.tags = Put(@, id, def)]

Definition(name, semantics, storage) ==
    [name |-> name, semantics |-> semantics, implies |-> {}, storage |-> storage]

NoStorage == [a \in {} |-> "unset"]

-----------------------------------------------------------------------------
(* Install.  A module is [id, tags, implications, relations], the last     *)
(* three sequences: of definitions, of <<from, to>> and of                 *)
(* <<from, kind, to>>, by name.                                            *)

\* Step 1: tags whose name is unknown get the next id.
RegisterTags(ont, alloc, defs) ==
    LET step(acc, def) ==
            IF def.name \in DOMAIN acc.ont.names
            THEN [acc EXCEPT !.alloc = observe(@, acc.ont.names[def.name])]
            ELSE [ont |-> Register(acc.ont, acc.alloc, def),
                  alloc |-> acc.alloc + 1,
                  new |-> acc.new \cup {acc.alloc}]
    IN  FoldLeft(step, [ont |-> ont, alloc |-> alloc, new |-> {}], defs)

\* Step 2: implications, resolved by name, into the dag and the definition.
AddImplications(ont, imps) ==
    LET step(acc, i) ==
            IF ~acc.ok \/ {i[1], i[2]} \cap DOMAIN acc.ont.names # {i[1], i[2]}
            THEN [acc EXCEPT !.ok = FALSE]
            ELSE LET from == acc.ont.names[i[1]]
                     to   == acc.ont.names[i[2]]
                     res  == add_implication(acc.ont.dag, from, to)
                 IN  IF res.ok
                     THEN [acc EXCEPT !.ont.dag = res.dag,
                                      !.ont.tags[from].implies = @ \cup {to},
                                      !.added = @ \cup {<<from, to>>}]
                     ELSE [acc EXCEPT !.ok = FALSE]
    IN  FoldLeft(step, [ok |-> TRUE, ont |-> ont, added |-> {}], imps)

\* Step 3: the other relations; implied-by is refused.
AddRelations(ont, rels) ==
    LET step(acc, r) ==
            IF ~acc.ok \/ r[2] = "implied-by"
               \/ {r[1], r[3]} \cap DOMAIN ont.names # {r[1], r[3]}
            THEN [acc EXCEPT !.ok = FALSE]
            ELSE LET edge == <<ont.names[r[1]], r[2], ont.names[r[3]]>>
                 IN  [acc EXCEPT !.ont.relations = @ \cup {edge},
                                 !.added = @ \cup {edge}]
    IN  FoldLeft(step, [ok |-> TRUE, ont |-> ont, added |-> {}], rels)

\* Step 4: on every axis the declaring tags are pairwise related.
check_axis_invariant(ont) ==
    \A axis \in Axes :
        LET declaring == {t \in DOMAIN ont.tags : Declares(ont, t, axis)}
        IN  \A a \in declaring, b \in declaring :
                a < b => is_a(ont.dag, a, b) \/ is_a(ont.dag, b, a)

\* Answers [ok, ont]; when ok is FALSE ont is the state the failing step
\* left behind, which the caller throws away.
install_inner(ont, module, alloc) ==
    LET s1 == RegisterTags(ont, alloc, module.tags)
        s2 == AddImplications(s1.ont, module.implications)
        s3 == AddRelations(s2.ont, module.relations)
        record == [tags |-> s1.new, implications |-> s2.added, relations |-> s3.added]
    IN  CASE ~s2.ok -> [ok |-> FALSE, ont |-> s2.ont]
          [] s2.ok /\ ~(s3.ok /\ check_axis_invariant(s3.ont)) ->
                [ok |-> FALSE, ont |-> s3.ont]
          [] OTHER ->
                [ok |-> TRUE,
                 ont |-> [s3.ont EXCEPT !.modules = Put(@, module.id, record)]]

install(ont, module, alloc) ==
    IF module.id \in DOMAIN ont.modules THEN [ok |-> FALSE, ont |-> ont]
    ELSE LET res == install_inner(ont, module, alloc)
         IN  IF res.ok THEN res ELSE [ok |-> FALSE, ont |-> ont]

-----------------------------------------------------------------------------
(* Upgrade and scrub.                                                      *)

\* Upgrade keeps every tag name the module registered before and the
\* semantics of every name that exists.
UpgradeRefused(ont, module) ==
    LET prev == ont.modules[module.id]
        kept == {ont.tags[t].name : t \in prev.tags \cap DOMAIN ont.tags}
        defs == ToSet(module.tags)
    IN  \/ ~(kept \subseteq {d.name : d \in defs})
        \/ \E d \in defs :
               /\ d.name \in DOMAIN ont.names
               /\ ont.tags[ont.names[d.name]].semantics # d.semantics

\* Mutant of upgrade: the record of the previous version is forgotten.
upgrade_new_record(ont, module) ==
    IF module.id \notin DOMAIN ont.modules \/ UpgradeRefused(ont, module)
    THEN [ok |-> FALSE, ont |-> ont]
    ELSE LET bare == [ont EXCEPT !.modules = Drop(@, {module.id})]
             res  == install_inner(bare, module, fresh_allocator(bare))
         IN  IF res.ok THEN res ELSE [ok |-> FALSE, ont |-> ont]

upgrade(ont, module) ==
    IF module.id \notin DOMAIN ont.modules \/ UpgradeRefused(ont, module)
    THEN [ok |-> FALSE, ont |-> ont]
    ELSE LET prev == ont.modules[module.id]
             bare == [ont EXCEPT !.modules = Drop(@, {module.id})]
             res  == install_inner(bare, module, fresh_allocator(bare))
             merged == [f \in DOMAIN prev |-> prev[f] \cup res.ont.modules[module.id][f]]
         IN  IF res.ok
             THEN [ok |-> TRUE, ont |-> [res.ont EXCEPT !.modules[module.id] = merged]]
             ELSE [ok |-> FALSE, ont |-> ont]

\* The implications of the module no other installed module also added
\* leave the dag and the definitions, then its relations, then its tags with
\* all their edges.  Relations and implies lists of what stays may go on
\* naming a tag that went.
scrub(ont, id) ==
    LET record == ont.modules[id]
        others == Drop(ont.modules, {id})
        Claimed(f) == UNION {others[m][f] : m \in DOMAIN others}
        gone   == [f \in DOMAIN record |-> record[f] \ Claimed(f)]
        cut    == FoldSet(LAMBDA i, dag : remove_implication(dag, i[1], i[2]),
                          ont.dag, gone.implications)
        order  == SetToSortSeq(gone.tags, <)
        lost   == {ont.tags[t].name : t \in gone.tags \cap DOMAIN ont.tags}
        pruned == [t \in DOMAIN ont.tags |->
                      [ont.tags[t] EXCEPT
                          !.implies = {u \in @ : <<t, u>> \notin gone.implications}]]
    IN  [tags |-> Drop(pruned, gone.tags),
         names |-> Drop(ont.names, lost),
         dag |-> FoldLeft(remove_tag, cut, order),
         relations |-> ont.relations \ gone.relations,
         modules |-> others]

-----------------------------------------------------------------------------
(* Storage policy of an object, per axis.                                  *)

materialise(ont, direct) == closure(ont.dag, direct)

Undominated(ont, declaring) ==
    {t \in declaring : \A u \in declaring \ {t} : ~is_a(ont.dag, u, t)}

\* The first undominated tag in id order, or the smallest declaring one.
most_derived(declaring, undominated) ==
    IF undominated # {} THEN Min(undominated) ELSE Min(declaring)

resolve_policy(ont, direct, default) ==
    LET all == materialise(ont, direct)
        declaring(axis) == {t \in all : Declares(ont, t, axis)}
        chosen(axis) == most_derived(declaring(axis), Undominated(ont, declaring(axis)))
    IN  [axis \in Axes |->
            IF declaring(axis) = {} THEN default[axis]
            ELSE ont.tags[chosen(axis)].storage[axis]]

\* mimir ontology orphans.
run_ontology_orphans(ont) ==
    DOMAIN ont.tags \ UNION {ont.modules[m].tags : m \in DOMAIN ont.modules}

-----------------------------------------------------------------------------
(* The image in the ontology region.                                       *)

to_image(ont) ==
    [tags |-> ont.tags, dag |-> snapshot(ont.dag),
     relations |-> ont.relations, modules |-> ont.modules]

\* Names are rebuilt from the definitions (in id order, a later one wins)
\* and the dag from its node and edge lists; an edge that closes a cycle or
\* names a missing node fails the load.
into_state(image) ==
    LET named == {image.tags[t].name : t \in DOMAIN image.tags}
        dag   == from_snapshot(image.dag)
    IN  [ok |-> dag.ok,
         ont |-> [tags |-> image.tags,
                  names |-> [n \in named |->
                      Max({t \in DOMAIN image.tags : image.tags[t].name = n})],
                  dag |-> dag.dag,
                  relations |-> image.relations,
                  modules |-> image.modules]]
=============================================================================
