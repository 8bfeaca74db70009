---------------------------- MODULE RegionFlush ----------------------------
(***************************************************************************)
(* One region at a time: its table changes in memory, is flushed over what *)
(* the region held, the flush is cut or refused, the next process loads    *)
(* it.  `table` selects the structure at hand.                             *)
(***************************************************************************)
EXTENDS IndexRegions, TableRegions

CONSTANTS
    Tables,      \* the structures explored
    Tags, KeyTag, \* tags of objects, and the key of the attributes
    Upgraded,    \* bound: tags whose store may be upgraded
    Locals,      \* local object ids; also buckets, hashes, disks
    Hashes,      \* hashes of values; also the payloads of entries
    Assertions,  \* [kind, a, b, origin]
    MaxAsserts,  \* bound: assertions of an object, length of a list
    MaxOid       \* bound: object ids tried against a path

VARIABLES
    table,   \* the structure at hand
    mem,     \* the table in memory
    disk,    \* its region: slot -> block
    saved,   \* the table of the last flush that ended, while intact
    intact   \* no flush was cut, or failed after a write, since

vars == <<table, mem, disk, saved, intact>>

flush(t, ix) ==
    CASE t = "tags" -> flush_tags(ix) [] t = "forward" -> flush_forward(ix)
      [] t = "kv" -> flush_extendible_hash(ix) [] t = "objects" -> flush_objects(ix)
      [] t = "locations" -> flush_locations(ix) [] t = "chunks" -> flush_chunks(ix)
      [] t = "range" -> flush_range(ix) [] t = "backpointers" -> flush_backpointers(ix)
      [] t = "buckets" -> flush_buckets(ix) [] t = "freespace" -> flush_freespace(ix)
      [] t = "placement" -> flush_placement_rules(ix)
      [] t = "overflow" -> flush_disks_overflow(ix)
      [] t = "ontology" -> flush_ontology(ix)
      [] t = "subscriptions" -> flush_subscriptions(ix)
load(t, d) ==
    CASE t = "tags" -> load_tags(d) [] t = "forward" -> load_forward(d)
      [] t = "kv" -> load_extendible_hash(d) [] t = "objects" -> load_objects(d)
      [] t = "locations" -> load_locations(d) [] t = "chunks" -> load_chunks(d)
      [] t = "range" -> load_range(d) [] t = "backpointers" -> load_backpointers(d)
      [] t = "buckets" -> load_buckets(d) [] t = "freespace" -> load_freespace(d)
      [] t = "placement" -> load_placement_rules(d)
      [] t = "overflow" -> load_disks_overflow(d)
      [] t = "ontology" -> load_ontology(d)
      [] t = "subscriptions" -> load_subscriptions(d)

Init ==
    /\ table \in Tables /\ mem = Empty /\ saved = Empty /\ intact = TRUE
    /\ disk = Blank

Becomes(t, ix) == table = t /\ mem' = ix /\ UNCHANGED <<table, disk, saved, intact>>

MutateTags(o) ==
    \/ \E t \in Tags :
          \/ Becomes("tags", tag_add_member(mem, t, o))
          \/ Becomes("tags", tag_remove_member(mem, t, o))
          \/ t \in Upgraded /\ Becomes("tags", upgrade_to_ordered(mem, t))
          \/ t \in Upgraded /\ Becomes("tags", upgrade_to_ranked(mem, t))
    \/ Becomes("tags", remove_object_from_all(mem, o))

MutateForward(o) ==
    \/ \E a \in Assertions :
          \/ /\ table = "forward" /\ (o \in DOMAIN mem => Len(mem[o]) < MaxAsserts)
             /\ Becomes("forward", add_assertion(mem, o, a))
          \/ Becomes("forward", remove_assertion(mem, o, a))
    \/ Becomes("forward", remove_object(mem, o))

MutateMeta(o) ==
    \/ \E h \in Hashes :
          \/ Becomes("objects", object_insert(mem, [id |-> Oid(o), length |-> h]))
          \/ Becomes("chunks", insert_or_bump(mem, o, h))
          \/ Becomes("range", range_insert(mem, <<KeyTag, h>>, o))
          \/ Becomes("range", range_remove(mem, <<KeyTag, h>>, o))
          \/ Becomes("backpointers", backpointer_insert(mem, <<0, o, 0>>, h))
    \/ \E n \in 0 .. MaxReplicas + 1 :
          LET new == location_new(n, [i \in 1 .. n |-> i])
          IN  new.ok /\ Becomes("locations", location_insert(mem, Oid(o), new.loc))
    \/ Becomes("objects", object_remove(mem, Oid(o)))
    \/ Becomes("locations", location_remove(mem, Oid(o)))
    \/ Becomes("chunks", decrement(mem, o))
    \/ Becomes("backpointers", backpointer_remove(mem, <<0, o, 0>>))

\* BucketAllocTable entries and subscriptions as their callers set them; the
\* ontology is replaced whole.
MutateOthers(o) ==
    \/ \E h \in Hashes :
          \/ Becomes("kv", kv_insert(mem, <<KeyTag, h>>, o))
          \/ Becomes("kv", kv_remove(mem, <<KeyTag, h>>, o))
          \/ Becomes("buckets", With(mem, o, h))
          \/ Becomes("freespace", freespace_insert(mem, h, 0, o))
          \/ Becomes("freespace", freespace_remove(mem, h, 0, o))
          \/ Becomes("subscriptions", With(mem, o, h))
          \/ Becomes("ontology", <<o, h>>)
    \/ Becomes("subscriptions", Without(mem, {o}))
    \/ /\ table = "placement" /\ Len(mem) < MaxAsserts
       /\ Becomes("placement", Append(mem, o))
    \/ /\ table = "overflow" /\ \A i \in DOMAIN mem : mem[i].disk_id # o
       /\ Becomes("overflow", Append(mem, [disk_id |-> o]))

Mutate == \E o \in Locals : MutateTags(o) \/ MutateForward(o) \/ MutateMeta(o) \/ MutateOthers(o)

\* A flush of which the first n writes reach the disk.  Bound: over a damaged
\* region all of them do.
Flush ==
    /\ \E f \in {flush(table, mem)} : \E n \in 0 .. Len(f.writes) :
          /\ ~intact => n = Len(f.writes)
          /\ disk' = Apply(disk, SubSeq(f.writes, 1, n))
          /\ IF f.ok /\ n = Len(f.writes) THEN saved' = mem /\ intact' = TRUE
             ELSE IF n = 0 THEN UNCHANGED <<saved, intact>>
             ELSE saved' = Empty /\ intact' = FALSE
    /\ UNCHANGED <<table, mem>>

\* A crash, and the next process; what a damaged region loads as is not told.
Reopen ==
    /\ intact
    /\ \E back \in {load(table, disk)} : back.ok /\ mem' = back.ix
    /\ UNCHANGED <<table, disk, saved, intact>>

Next == Mutate \/ Flush \/ Reopen

Spec == Init /\ [][Next]_vars

-----------------------------------------------------------------------------
\* What a region keeps of a table: everything, but for the value of an
\* attribute in the forward index, which comes back as Int(0), and the order
\* of the disks beyond the inline ones.
Kept(t, ix) ==
    CASE t = "forward" ->
            [o \in DOMAIN ix |-> [i \in DOMAIN ix[o] |->
               CASE ix[o][i].kind = "Attr" -> [ix[o][i] EXCEPT !.b = <<"Int", 0>>]
                 [] ix[o][i].kind = "Tag" -> [ix[o][i] EXCEPT !.b = <<"none">>]
                 [] OTHER -> ix[o][i]]]
      [] t = "overflow" -> SortSeq(ix, LAMBDA d, e : d.disk_id < e.disk_id)
      [] OTHER -> ix

\* A region loads as the table of the last flush that ended: whatever that
\* table overwrote (longer and shorter chains, other buckets, stale pages and
\* records), whatever flush was cut or failed before it, and although a flush
\* that the code refuses up front (an ordered store, too many entries, an
\* object id beyond the leaf, a run beyond the region) was attempted since.
FlushedTableLoads ==
    intact => load(table, disk) = [ok |-> TRUE, ix |-> Kept(table, saved)]

\* The address of an object id leads back to it in a tree of any height that
\* reaches it, no two ids share an address, and an id beyond the tree has no
\* address, so that no record takes another's slot.
RadixPathsExact ==
    table = "objects" =>
    \A level \in 0 .. MaxLevels + 1, fanout \in {LeafRecords, LeafLocations},
       local \in 0 .. MaxOid :
       LET path == oid_to_radix_path(local, level, fanout)
       IN  /\ path.ok <=> level <= MaxLevels /\ local < fanout * InnerFanout^level
           /\ path.ok => radix_path_to_oid(path, level, fanout) = local

\* The object, location and key-value tables read back the same from their
\* other stored form, one sorted run, and an entry of another snapshot in that
\* run does not replace the current one (to_loaded_node, from_loaded_node).
RunFormsAgree ==
    LET Older(es) ==
            es \o [i \in DOMAIN es |-> <<<<es[i][1][1], 1>>, es[Len(es) + 1 - i][2]>>]
        node(es) == [ok |-> TRUE, entries |-> es]
    IN  CASE table = "objects" ->
                objects_from_node(node(Older(objects_to_node(mem)))) = mem
          [] table = "locations" ->
                locations_from_node(node(Older(locations_to_node(mem)))) = mem
          [] table = "kv" -> kv_from_node(node(kv_to_node(mem))) = mem
          [] OTHER -> TRUE
=============================================================================
