---------------------------- MODULE TableRegions ----------------------------
(***************************************************************************)
(* The tables a commit rewrites in place beside the indices: the object    *)
(* and location tables as positional leaves (crates/meta), and the tables  *)
(* kept as one sorted run: chunk index, range index, backpointers, bucket  *)
(* table, freespace LRU, placement rules, the disks beyond the inline      *)
(* ones, the ontology and the subscriptions.  A table is a function from   *)
(* its keys; snapshot 0 is the only one in use.                            *)
(***************************************************************************)
EXTENDS Regions

CONSTANTS
    LeafRecords,  \* LEAF_RECORDS: records of an object leaf
    LeafLocations, \* LEAF_RECORDS_LOCATION
    InnerFanout,  \* INNER_FANOUT
    MaxLevels,    \* MAX_LEVELS
    MaxReplicas,  \* MAX_INLINE_REPLICAS
    MaxRef        \* u32::MAX, the largest reference count

-----------------------------------------------------------------------------
(* The address of an object id in a tree of `level` inner levels.          *)

\* Mutant of oid_to_radix_path: an id beyond the tree wraps around.
oid_to_radix_path_wraps(local, level, fanout) ==
    LET digit[i \in 0 .. MaxLevels] ==
            IF i = 0 THEN local \div fanout ELSE digit[i - 1] \div InnerFanout
    IN  IF level > MaxLevels THEN [ok |-> FALSE]
        ELSE [ok |-> TRUE, leaf_slot |-> local % fanout,
              child_path |-> [i \in 1 .. MaxLevels |->
                                IF i <= level THEN digit[i - 1] % InnerFanout ELSE 0]]

\* oid_to_radix_path_with_leaf_fanout; the quotient left after the last level
\* must be zero.  The first child is the one next to the leaf.
oid_to_radix_path(local, level, fanout) ==
    LET digit[i \in 0 .. MaxLevels] ==
            IF i = 0 THEN local \div fanout ELSE digit[i - 1] \div InnerFanout
    IN  IF level > MaxLevels \/ digit[level] # 0 THEN [ok |-> FALSE]
        ELSE [ok |-> TRUE, leaf_slot |-> local % fanout,
              child_path |-> [i \in 1 .. MaxLevels |->
                                IF i <= level THEN digit[i - 1] % InnerFanout ELSE 0]]

radix_path_to_oid(path, level, fanout) ==
    LET idx[i \in 1 .. level + 1] ==
            IF i = level + 1 THEN 0 ELSE idx[i + 1] * InnerFanout + path.child_path[i]
    IN  idx[1] * fanout + path.leaf_slot

-----------------------------------------------------------------------------
(* Positional leaves.  The header block has the occupancy bits, block 1 + s *)
(* the record of slot s; a record is written whatever stood there.         *)

\* ObjectLeaf::set; an id beyond the leaf is an error.
leaf_set(slots, local, rec, fanout) ==
    LET path == oid_to_radix_path(local, 0, fanout)
    IN  IF path.ok THEN With(slots, path.leaf_slot, rec) ELSE slots

\* ObjectTable and LocationTable::flush_to_region up to the write: the records
\* go into a new leaf in the order of the ids.
Leaf(ix, fanout) ==
    [ok |-> \A o \in DOMAIN ix : oid_to_radix_path(LocalOf(o), 0, fanout).ok,
     slots |-> FoldLeft(LAMBDA acc, o : leaf_set(acc, LocalOf(o), ix[o], fanout),
                        Empty, Ordered(DOMAIN ix))]

serialise(kind, slots, fanout) ==
    Write(0, [kind |-> kind, occupied |-> DOMAIN slots])
    \o FlattenSeq([i \in 1 .. fanout |->
          Write(i, IF i - 1 \in DOMAIN slots THEN [kind |-> "record", rec |-> slots[i - 1]]
                   ELSE Zero)])

parse(kind, d) ==
    IF d[0] = Zero THEN [ok |-> TRUE, slots |-> Empty]
    ELSE IF d[0].kind # kind THEN [ok |-> FALSE, slots |-> Empty]
    ELSE [ok |-> TRUE, slots |-> [s \in d[0].occupied |-> d[1 + s].rec]]

object_serialise(slots) == serialise("ObjectTable", slots, LeafRecords)
object_parse(d) == parse("ObjectTable", d)
object_insert(ix, rec) == With(ix, rec.id, rec)
object_remove(ix, oid) == Without(ix, {oid})
flush_objects(ix) ==
    LET leaf == Leaf(ix, LeafRecords)
    IN  IF leaf.ok THEN Flushed(object_serialise(leaf.slots)) ELSE Failed(<<>>)
\* The full id comes from the record itself.
load_objects(d) ==
    LET leaf == object_parse(d)
        recs == {leaf.slots[s] : s \in DOMAIN leaf.slots}
    IN  [ok |-> leaf.ok, ix |-> [o \in {r.id : r \in recs} |-> CHOOSE r \in recs : r.id = o]]

\* The same table as one run, for tooling; other snapshots are skipped.
Current(node) == SelectSeq(node.entries, LAMBDA e : e[1][2] = 0)
objects_to_node(ix) ==
    LET es == Entries(ix, <) IN [i \in DOMAIN es |-> <<<<es[i][1], 0>>, es[i][2]>>]
objects_from_node(node) ==
    LET es == Current(node) IN Inserted([i \in DOMAIN es |-> <<es[i][1][1], es[i][2]>>])

\* ObjectLocation::new: the active replicas, the other slots zeroed.
location_new(length, replicas) ==
    IF Len(replicas) > MaxReplicas THEN [ok |-> FALSE]
    ELSE [ok |-> TRUE,
          loc |-> [extent_length |-> length, replica_count |-> Len(replicas),
                   replicas |-> [i \in 1 .. MaxReplicas |->
                                   IF i <= Len(replicas) THEN replicas[i] ELSE 0]]]
active_replicas(loc) == SubSeq(loc.replicas, 1, Min({loc.replica_count, MaxReplicas}))

location_serialise(slots) == serialise("LocationTable", slots, LeafLocations)
location_parse(d) == parse("LocationTable", d)
location_insert(ix, oid, loc) == With(ix, oid, loc)
location_remove(ix, oid) == Without(ix, {oid})
flush_locations(ix) ==
    LET leaf == Leaf(ix, LeafLocations)
    IN  IF leaf.ok THEN Flushed(location_serialise(leaf.slots)) ELSE Failed(<<>>)
\* A location has no id: the node is the engine's own.
load_locations(d) ==
    LET leaf == location_parse(d)
    IN  [ok |-> leaf.ok,
         ix |-> [o \in {Oid(s) : s \in DOMAIN leaf.slots} |-> leaf.slots[LocalOf(o)]]]

\* As one run, a location is its header and the active replicas only.
location_image(loc) == [length |-> loc.extent_length, replicas |-> active_replicas(loc)]
locations_to_node(ix) ==
    LET es == Entries(ix, <)
    IN  [i \in DOMAIN es |-> <<<<es[i][1], 0>>, location_image(es[i][2])>>]
locations_from_node(node) ==
    LET es == Current(node)
    IN  Inserted([i \in DOMAIN es |->
            <<es[i][1][1], location_new(es[i][2].length, es[i][2].replicas).loc>>])

-----------------------------------------------------------------------------
(* The chunk index: hash -> [blob, refs], a hash map sorted when flushed.  *)

insert_or_bump(ix, h, blob) ==
    IF h \in DOMAIN ix THEN [ix EXCEPT ![h].refs = Min({@ + 1, MaxRef})]
    ELSE With(ix, h, [blob |-> blob, refs |-> 1])
decrement(ix, h) ==
    IF h \notin DOMAIN ix THEN ix
    ELSE IF ix[h].refs <= 1 THEN Without(ix, {h}) ELSE [ix EXCEPT ![h].refs = @ - 1]

chunks_to_node(ix) == Entries(ix, <)
chunks_from_node(node) == Inserted(node.entries)
flush_chunks(ix) == write_full_packed("ChunkIndex", chunks_to_node(ix))
load_chunks(d) == LET n == read_packed("ChunkIndex", d) IN Loaded(n, chunks_from_node(n))

-----------------------------------------------------------------------------
(* The range index: <<tag, normalised key>> -> objects.                    *)

range_insert(ix, k, o) ==
    IF k \in DOMAIN ix THEN [ix EXCEPT ![k] = @ \cup {o}] ELSE With(ix, k, {o})
range_remove(ix, k, o) ==
    IF k \notin DOMAIN ix THEN ix
    ELSE IF ix[k] \ {o} = {} THEN Without(ix, {k}) ELSE [ix EXCEPT ![k] = @ \ {o}]

\* Every key gets snapshot 0, and loses it again; a bitmap becomes its bytes.
range_to_node(ix) ==
    LET es == Entries(ix, Lex)
    IN  [i \in DOMAIN es |-> <<Append(es[i][1], 0), Ordered(es[i][2])>>]
range_from_node(node) ==
    Inserted([i \in DOMAIN node.entries |->
                 <<SubSeq(node.entries[i][1], 1, 2), ToSet(node.entries[i][2])>>])
flush_range(ix) == write_full("Range", range_to_node(ix))
load_range(d) == LET n == read("Range", d) IN Loaded(n, range_from_node(n))

-----------------------------------------------------------------------------
(* Backpointers: <<disk, bucket, sector>> -> owner.                        *)

backpointer_insert(ix, k, owner) == With(ix, k, owner)
backpointer_remove(ix, k) == Without(ix, {k})
backpointers_to_node(ix) == Entries(ix, Lex)
backpointers_from_node(node) == Inserted(node.entries)
flush_backpointers(ix) == write_full("Backpointer", backpointers_to_node(ix))
load_backpointers(d) ==
    LET n == read("Backpointer", d) IN Loaded(n, backpointers_from_node(n))

-----------------------------------------------------------------------------
(* The bucket table: bucket -> entry, saved under its disk and loaded       *)
(* without it; and the freespace LRU, which is its keys.                    *)

buckets_to_node(ix, disk_id) ==
    LET es == Entries(ix, <) IN [i \in DOMAIN es |-> <<<<disk_id, es[i][1]>>, es[i][2]>>]
buckets_from_node(node) ==
    Inserted([i \in DOMAIN node.entries |-> <<node.entries[i][1][2], node.entries[i][2]>>])
flush_buckets(ix) == write_full("BucketAlloc", buckets_to_node(ix, 0))
load_buckets(d) == LET n == read("BucketAlloc", d) IN Loaded(n, buckets_from_node(n))

freespace_insert(ix, band, disk_id, b) == With(ix, <<band, disk_id, b>>, "Empty")
freespace_remove(ix, band, disk_id, b) == Without(ix, {<<band, disk_id, b>>})
freespace_to_node(ix) == Entries(ix, Lex)
freespace_from_node(node) == Inserted(node.entries)
flush_freespace(ix) == write_full("FreespaceLru", freespace_to_node(ix))
load_freespace(d) == LET n == read("FreespaceLru", d) IN Loaded(n, freespace_from_node(n))

-----------------------------------------------------------------------------
(* A list as one entry under snapshot 0: the placement rules.  The disks   *)
(* beyond the inline ones: a list sorted by disk id.                       *)

placement_rules_to_node(rules) == <<<<0, rules>>>>
placement_rules_from_node(node) ==
    LET ix == Inserted(node.entries) IN IF 0 \in DOMAIN ix THEN ix[0] ELSE <<>>
flush_placement_rules(rules) == write_full("PlacementRules", placement_rules_to_node(rules))
load_placement_rules(d) ==
    LET n == read("PlacementRules", d) IN Loaded(n, placement_rules_from_node(n))

disks_overflow_to_node(disks) ==
    SortSeq([i \in DOMAIN disks |-> <<disks[i].disk_id, disks[i]>>],
            LAMBDA e, f : e[1] < f[1])
disks_overflow_from_node(node) == [i \in DOMAIN node.entries |-> node.entries[i][2]]
flush_disks_overflow(disks) == write_full("DiskDescriptors", disks_overflow_to_node(disks))
load_disks_overflow(d) ==
    LET n == read("DiskDescriptors", d) IN Loaded(n, disks_overflow_from_node(n))

-----------------------------------------------------------------------------
(* The ontology, one image under snapshot 0, and the subscriptions, a hash *)
(* map of records sorted by id.                                            *)

ontology_to_node(image) == <<<<0, image>>>>
\* The image with the highest snapshot.
ontology_from_node(node) ==
    IF node.entries = <<>> THEN Empty
    ELSE LET ix == Inserted(node.entries) IN ix[Max(DOMAIN ix)]
flush_ontology(image) == write_full("Ontology", ontology_to_node(image))
load_ontology(d) == LET n == read("Ontology", d) IN Loaded(n, ontology_from_node(n))

subscriptions_to_node(subs) ==
    LET es == Entries(subs, <) IN [i \in DOMAIN es |-> <<<<es[i][1], 0>>, es[i][2]>>]
subscriptions_from_node(node) ==
    Inserted([i \in DOMAIN node.entries |-> <<node.entries[i][1][1], node.entries[i][2]>>])
flush_subscriptions(subs) == write_full_packed("Subscriptions", subscriptions_to_node(subs))
load_subscriptions(d) ==
    LET n == read_packed("Subscriptions", d) IN Loaded(n, subscriptions_from_node(n))
=============================================================================
