------------------------------ MODULE Ontology ------------------------------
(***************************************************************************)
(* The ontology of an open pool under any sequence of module installs,     *)
(* upgrades and removals, ad-hoc registrations, commits and reopens.       *)
(* Every call runs under &mut self, so a call is one step; a refused call  *)
(* leaves the registry as it was.  The engine's id counter lives in memory *)
(* and restarts at 1 when the pool is reopened; ontology changes are not   *)
(* in the write-ahead log, so a reopen goes back to the last image.        *)
(***************************************************************************)
EXTENDS OntologyOps

CONSTANTS
    Catalog,    \* the modules, several versions of one id among them
    AdHocNames, \* names register_tag is called with
    MaxTagId    \* bound: ids issued

VARIABLES
    ont,         \* the registry
    next_tag_id, \* Engine::next_tag_id
    saved        \* the image the last commit wrote

vars == <<ont, next_tag_id, saved>>

Init ==
    /\ ont = NewOntology
    /\ next_tag_id = 1
    /\ saved = to_image(NewOntology)

\* Mutant of next_free_tag_id: the ids in the ontology are not looked at.
next_tag_id_only == next_tag_id

\* Engine::next_free_tag_id.
next_free_tag_id == Max({next_tag_id, HighestId(ont) + 1})

Install(module) ==
    LET res == install(ont, module, starting_at(next_free_tag_id))
    IN  /\ next_free_tag_id + Len(module.tags) <= MaxTagId + 1
        /\ ont' = res.ont
        /\ next_tag_id' = IF res.ok THEN Max({next_tag_id, HighestId(res.ont) + 1})
                          ELSE next_tag_id
        /\ UNCHANGED saved

Upgrade(module) ==
    /\ fresh_allocator(ont) + Len(module.tags) <= MaxTagId + 1
    /\ ont' = upgrade(ont, module).ont
    /\ UNCHANGED <<next_tag_id, saved>>

Scrub(id) ==
    /\ id \in DOMAIN ont.modules
    /\ ont' = scrub(ont, id)
    /\ UNCHANGED <<next_tag_id, saved>>

\* An existing name is answered with its id.
RegisterTag(name) ==
    /\ name \notin DOMAIN ont.names
    /\ next_free_tag_id <= MaxTagId
    /\ ont' = Register(ont, next_free_tag_id, Definition(name, "label", NoStorage))
    /\ next_tag_id' = next_free_tag_id + 1
    /\ UNCHANGED saved

\* The ontology's part of DiskEngine::commit.
Save ==
    /\ saved' = to_image(ont)
    /\ UNCHANGED <<ont, next_tag_id>>

\* A crash or a clean exit, then open.
Reopen ==
    /\ into_state(saved).ok
    /\ ont' = into_state(saved).ont
    /\ next_tag_id' = 1
    /\ UNCHANGED saved

Next ==
    \/ \E module \in Catalog : Install(module) \/ Upgrade(module)
    \/ \E module \in Catalog : Scrub(module.id)
    \/ \E name \in AdHocNames : RegisterTag(name)
    \/ Save
    \/ Reopen

Spec == Init /\ [][Next]_vars

-----------------------------------------------------------------------------
(* Properties.                                                             *)

\* Whatever was installed, upgraded and removed, and whichever slot the last
\* node was moved into by remove_tag: the graph's nodes are exactly the
\* defined tags, the tag-to-slot map and the slots are inverse to each
\* other, the graph has no cycle and every name leads to its own definition.
RegistryCoherent ==
    /\ DOMAIN ont.dag.nodes = DOMAIN ont.tags
    /\ ToSet(ont.dag.graph) = DOMAIN ont.tags
    /\ \A t \in DOMAIN ont.tags :
           /\ ont.dag.nodes[t] \in Slots(ont.dag)
           /\ ont.dag.graph[ont.dag.nodes[t]] = t
    /\ cycle_check(ont.dag)
    /\ DOMAIN ont.names = {ont.tags[t].name : t \in DOMAIN ont.tags}
    /\ \A t \in DOMAIN ont.tags : ont.names[ont.tags[t].name] = t

\* Every implication in the graph is on the record of a module that is still
\* installed, so that removing the last module that asked for it removes it,
\* across any upgrades in between; a tag is on at most one record, only
\* while it is defined, and on none (an orphan) only if register_tag made it.
RecordsCover ==
    LET Records == {ont.modules[m] : m \in DOMAIN ont.modules}
    IN  /\ \A e \in TagEdges(ont.dag) : \E r \in Records : e \in r.implications
        /\ \A r \in Records : r.tags \subseteq DOMAIN ont.tags
        /\ \A m \in DOMAIN ont.modules, n \in DOMAIN ont.modules :
               m # n => ont.modules[m].tags \cap ont.modules[n].tags = {}
        /\ \A t \in run_ontology_orphans(ont) : ont.tags[t].name \in AdHocNames

\* A tag id held by the ontology is not given to another name while the pool
\* is open, whichever counter (the engine's, which restarts at 1 on reopen,
\* or an upgrade's own) issued the new id.
NamesKept ==
    \/ \A t \in DOMAIN ont.tags \cap DOMAIN ont.tags' :
           ont.tags[t].name = ont.tags'[t].name
    \/ Reopen
LiveIdKeepsName == [][NamesKept]_vars

\* A commit at any moment writes an image that loads again, and loading it
\* gives the same definitions, names, implications and modules.
ImageReloads ==
    \A back \in {into_state(to_image(ont))} :
        /\ back.ok
        /\ back.ont.names = ont.names
        /\ TagEdges(back.ont.dag) = TagEdges(ont.dag)
        /\ DOMAIN back.ont.dag.nodes = DOMAIN ont.dag.nodes

\* A tag's own storage setting wins over those of the tags it implies; and
\* while the declaring tags of an axis are pairwise related (which install
\* and upgrade check, and scrub does not), any set of tags on an object
\* leaves one most derived declaration, so resolve_policy never falls back
\* on the order of the ids.
PolicyDecided ==
    LET default == [axis \in Axes |-> "default"]
    IN  /\ \A t \in DOMAIN ont.tags : \A axis \in DOMAIN ont.tags[t].storage :
              resolve_policy(ont, {t}, default)[axis] = ont.tags[t].storage[axis]
        /\ check_axis_invariant(ont) =>
              \A all \in {materialise(ont, direct) : direct \in SUBSET DOMAIN ont.tags},
                 axis \in Axes :
                  LET among == {t \in all : Declares(ont, t, axis)}
                  IN  among # {} => Cardinality(Undominated(ont, among)) = 1

\* "Tags exclusive to this module are removed; tags also registered by
\* another installed module are kept" (scrub): a tag name that every version
\* of another installed module lists among its tags survives the removal.
Lists(id) == {name \in DOMAIN ont.names : \A module \in Catalog : module.id = id =>
                  \E i \in DOMAIN module.tags : module.tags[i].name = name}
SharedKept ==
    \A id \in DOMAIN ont.modules : Scrub(id) =>
        \A other \in DOMAIN ont.modules \ {id} : Lists(other) \subseteq DOMAIN ont'.names
SharedTagKept == [][SharedKept]_vars
=============================================================================
