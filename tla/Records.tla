------------------------------- MODULE Records -------------------------------
(***************************************************************************)
(* The fixed-layout records of the store (`repr(C, packed)` structs read   *)
(* and written as byte images).  A layout is a sequence of <<field, bytes>>*)
(* and an image is the fields' bytes, least significant first.  A byte is  *)
(* a digit 0..9 here, so the widest field (8 bytes) stays within TLC's     *)
(* integers; widths and offsets are those of the code.                     *)
(*                                                                         *)
(* The machine is a record of one type in memory and its image on disk.    *)
(***************************************************************************)
EXTENDS Integers, Sequences, SequencesExt

CONSTANTS
    Kinds,       \* the record types explored
    MaxWrites    \* bound: fields assigned

VARIABLES
    kind,    \* the record type
    mem,     \* the record in memory
    page,    \* the image on disk
    clean,   \* the record was stored since it last changed
    writes

vars == <<kind, mem, page, clean, writes>>

Radix == 10
MAX_INLINE_REPLICAS == 4
PathBytes == 2        \* DISK_PATH_INLINE_LEN

-----------------------------------------------------------------------------
(* Layouts. *)

\* The fields of a struct embedded in another.
In(name, layout) ==
    [i \in DOMAIN layout |-> <<name \o "." \o layout[i][1], layout[i][2]>>]

BlockRef == << <<"disk_id", 2>>, <<"_pad", 2>>, <<"block_no", 4>>, <<"generation", 8>> >>

BlobRef == << <<"disk_id", 2>>, <<"_pad", 2>>, <<"block_no", 4>>, <<"length", 8>> >>

BucketAllocEntry == << <<"generation", 4>>, <<"data_type", 1>>, <<"flags", 1>>,
                       <<"dirty_sectors", 2>>, <<"last_modify_lsn", 8>> >>

BucketAllocKey == << <<"disk_id", 2>>, <<"bucket_no", 4>> >>

FreespaceLruKey == << <<"fragmentation_band", 1>>, <<"disk_id", 2>>, <<"bucket_no", 4>> >>

BackpointerKey == << <<"disk_id", 2>>, <<"bucket_no", 4>>, <<"sector_offset", 2>> >>

\* owner_key is a byte array: two words here.
BackpointerValue == << <<"owner_kind", 1>>, <<"_pad", 1>>, <<"length_sectors", 2>>,
                       <<"bucket_gen", 4>>, <<"owner_key0", 8>>, <<"owner_key1", 8>> >>

ObjectRecord ==
    << <<"id", 8>>, <<"generation", 4>>, <<"state", 1>>, <<"flags", 1>>,
       <<"record_version", 2>>,
       <<"content_hash0", 8>>, <<"content_hash1", 8>>, <<"content_hash2", 8>>, <<"content_hash3", 8>>,
       <<"blob_offset", 8>>, <<"blob_length", 8>>, <<"created_ns", 8>>, <<"modified_ns", 8>>,
       <<"tag_count", 2>>, <<"attr_count", 2>>, <<"compression", 1>>, <<"encryption", 1>>,
       <<"relation_count", 2>>,
       <<"inline_tag0", 4>>, <<"inline_tag1", 4>>, <<"inline_tag2", 4>>, <<"inline_tag3", 4>>,
       <<"overflow_offset", 8>>, <<"stored_size", 8>>, <<"last_modify_lsn", 8>> >>

TagIndexLeafEntry ==
    << <<"last_modify_lsn", 8>> >> \o In("store_root", BlockRef)
    \o << <<"tag_id", 4>>, <<"snapshot", 4>>, <<"cardinality", 4>>, <<"generation", 4>>,
          <<"store_kind", 1>>, <<"_pad", 7>> >>

TagIndexValue ==
    << <<"last_modify_lsn", 8>> >> \o In("store_root", BlockRef)
    \o << <<"cardinality", 4>>, <<"generation", 4>>, <<"store_kind", 1>>, <<"_pad", 7>> >>

ChunkIndexValue == << <<"ref_count", 4>>, <<"length", 4>> >> \o In("blob_ref", BlobRef)

ChunkParamsRecord == << <<"algo", 1>>, <<"flags", 1>>, <<"_pad", 2>>,
                        <<"min_size", 4>>, <<"avg_size", 4>>, <<"max_size", 4>> >>

\* path is a byte array of 192 bytes; two of them here.
DiskDescriptorOnDisk ==
    << <<"disk_id", 2>>, <<"media_type", 1>>, <<"tier", 1>>, <<"state", 1>>, <<"_pad0", 1>>,
       <<"path_len", 1>>, <<"_pad1", 1>>, <<"capacity_bytes", 8>>, <<"used_bytes", 8>>,
       <<"bucket_count", 4>>, <<"first_usable_bucket", 4>> >>
    \o In("buckets_root", BlockRef) \o In("freespace_root", BlockRef)
    \o << <<"path0", 1>>, <<"path1", 1>> >>

WalHybridTimestampWire == << <<"physical_ns", 8>>, <<"logical", 2>>, <<"node_id", 2>>, <<"_pad", 4>> >>

WalEntryHeader ==
    << <<"magic", 4>>, <<"op_kind", 1>>, <<"format_version", 1>>, <<"flags", 2>>, <<"lsn", 8>> >>
    \o In("timestamp", WalHybridTimestampWire)
    \o << <<"payload_length", 4>>, <<"payload_crc", 4>> >>

BlockHeader == << <<"magic", 4>>, <<"kind", 2>>, <<"format_version", 2>>, <<"payload_length", 4>>,
                  <<"generation", 8>>, <<"lsn", 8>>, <<"flags", 4>> >>

KvBucketEntry == << <<"tag_id", 4>>, <<"value_hash", 8>> >> \o In("bitmap_ref", BlockRef)

PackedAssertion == << <<"kind", 1>>, <<"origin", 1>>, <<"_pad", 2>>, <<"a", 4>>, <<"b", 8>> >>

LeafEntryHead == << <<"oid", 8>>, <<"snapshot", 4>>, <<"header", 2>> >>

ReplicaRef == << <<"disk_id", 2>>, <<"sector_offset", 2>>, <<"bucket_no", 4>> >>

LocationHeader == << <<"flags", 1>>, <<"replica_count", 1>>, <<"_pad", 6>>, <<"extent_length", 8>> >>

ObjectLocation ==
    LocationHeader \o In("0", ReplicaRef) \o In("1", ReplicaRef)
    \o In("2", ReplicaRef) \o In("3", ReplicaRef)

BlockPreamble == << <<"magic", 4>>, <<"kind", 2>>, <<"format_version", 2>> >>

ZoneExtent == << <<"offset", 8>>, <<"length", 8>>, <<"flags", 4>>, <<"_pad", 4>> >>

ZoneMapEntry == << <<"zone_kind", 1>>, <<"_pad", 7>> >> \o In("extent", ZoneExtent)

RootNames ==
    <<"object_table_root", "object_history_root", "location_table_root", "location_history_root",
      "forward_index_root", "tag_index_root", "kv_index_root", "range_index_root",
      "chunk_index_root", "value_spill_root", "backpointer_root", "ontology_root",
      "subscriptions_root", "pool_state_root", "snapshot_chain_root", "reconcile_work_root",
      "reconcile_high_prio_root", "reconcile_work_phys_root", "reconcile_high_prio_phys_root",
      "reconcile_pending_root", "reconcile_scan_root", "disks_overflow_root",
      "placement_rules_root", "cluster_peers_root">>

\* A reference is its block number here; BlockRef has its fields.
RootPointer ==
    << <<"seq", 8>>, <<"lsn", 8>> >> \o [i \in DOMAIN RootNames |-> <<RootNames[i], 4>>]
    \o << <<"flags", 4>>, <<"crc", 4>> >>

\* Padding is left out; an embedded struct is the fields that tell it apart
\* (all of them are in its own layout) and an array of bytes is one word.
Superblock ==
    << <<"header", 4>>, <<"magic_full", 8>>, <<"fs_uuid", 8>>, <<"node_id", 2>>, <<"disk_id", 2>>,
       <<"media_type", 1>>, <<"tier", 1>>, <<"device_capacity", 8>>, <<"block_size_log2", 1>>,
       <<"creation_timestamp_ns", 8>>, <<"last_mount_timestamp_ns", 8>>, <<"mount_count", 8>>,
       <<"root_a.seq", 8>>, <<"root_a.lsn", 8>>, <<"root_b.seq", 8>>, <<"root_b.lsn", 8>>,
       <<"active_root", 1>>, <<"wal_offset", 8>>, <<"wal_size", 8>>, <<"bucket_size_log2", 1>>,
       <<"copygc_reserve_pct", 1>>, <<"btree_node_size_log2", 1>>, <<"bootstrap_buckets", 4>>,
       <<"zone_map_offset", 8>>, <<"index_zone.offset", 8>>, <<"index_zone.length", 8>>,
       <<"metadata_zone.offset", 8>>, <<"metadata_zone.length", 8>>,
       <<"blob_zone.offset", 8>>, <<"blob_zone.length", 8>>, <<"encryption_keyid", 8>>,
       <<"fs_format_version", 4>>, <<"fs_min_on_disk", 4>>, <<"compat_features", 8>>,
       <<"ro_compat_features", 8>>, <<"incompat_features", 8>>, <<"downgrade_log_ref", 4>>,
       <<"default_chunking_threshold", 8>>, <<"default_chunking", 8>>, <<"crc", 4>> >>

TagIndexKey == << <<"tag_id", 4>>, <<"snapshot", 4>> >>

ForwardIndexKey == << <<"oid", 8>>, <<"snapshot", 4>> >>

SubscriptionsKey == << <<"id", 8>>, <<"snapshot", 4>> >>

\* A content hash as four words; two bytes to a word here.
ChunkHashKey == << <<"w0", 2>>, <<"w1", 2>>, <<"w2", 2>>, <<"w3", 2>> >>

Layout(k) ==
    CASE k = "BlockRef" -> BlockRef
      [] k = "BucketAllocEntry" -> BucketAllocEntry
      [] k = "BucketAllocKey" -> BucketAllocKey
      [] k = "FreespaceLruKey" -> FreespaceLruKey
      [] k = "BackpointerKey" -> BackpointerKey
      [] k = "BackpointerValue" -> BackpointerValue
      [] k = "ObjectRecord" -> ObjectRecord
      [] k = "TagIndexLeafEntry" -> TagIndexLeafEntry
      [] k = "TagIndexValue" -> TagIndexValue
      [] k = "ChunkIndexValue" -> ChunkIndexValue
      [] k = "ChunkParamsRecord" -> ChunkParamsRecord
      [] k = "DiskDescriptorOnDisk" -> DiskDescriptorOnDisk
      [] k = "WalEntryHeader" -> WalEntryHeader
      [] k = "BlockHeader" -> BlockHeader
      [] k = "KvBucketEntry" -> KvBucketEntry
      [] k = "ObjectLocation" -> ObjectLocation
      [] k = "BlockPreamble" -> BlockPreamble
      [] k = "ZoneMapEntry" -> ZoneMapEntry
      [] k = "RootPointer" -> RootPointer
      [] k = "Superblock" -> Superblock
      [] k = "TagIndexKey" -> TagIndexKey
      [] k = "ForwardIndexKey" -> ForwardIndexKey
      [] k = "SubscriptionsKey" -> SubscriptionsKey
      [] k = "ChunkHashKey" -> ChunkHashKey

Fields(k) == {Layout(k)[i][1] : i \in DOMAIN Layout(k)}
Width(k, f) == (CHOOSE e \in ToSet(Layout(k)) : e[1] = f)[2]
\* Where each field ends; long layouts are halved to keep the recursion short.
Ends(layout) ==
    LET part[lo \in DOMAIN layout, hi \in DOMAIN layout] ==
            IF lo = hi THEN <<layout[lo][2]>>
            ELSE LET left == part[lo, (lo + hi) \div 2]
                     right == part[((lo + hi) \div 2) + 1, hi]
                 IN  left \o [i \in DOMAIN right |-> Last(left) + right[i]]
    IN  part[1, Len(layout)]
SizeOf(layout) == Last(Ends(layout))

-----------------------------------------------------------------------------
(* Discriminants: a variant's number is its place in the list, from 0. *)

ObjectState == <<"Active", "Tombstoned", "BlobReclaim", "Cleared">>
CompressionState == <<"None", "Zstd", "Lz4">>
EncryptionState == <<"None", "Hctr2Aes128", "XtsAes256">>
BucketDataType == <<"Free", "Wal", "Index", "Metadata", "Blob", "BtreeNode", "Stripe",
                    "NeedDiscard", "Reserved">>
OwnerKind == <<"(none)", "BlobExtent", "Chunk", "BtreeNode", "TagBitmapExtent", "OverflowRecord">>
TagStoreKind == <<"Simple", "Ordered", "Ranked">>
MediaType == <<"NVMe", "Ssd", "Hdd", "SmrHdd", "Remote">>
StorageTier == <<"Hot", "Warm", "Cold", "Glacier">>
DiskState == <<"Online", "Draining", "Removed", "Faulted">>

BtreeKind ==
    <<"ObjectTable", "ObjectHistory", "LocationTable", "LocationHistory", "Forward",
      "ForwardOverflow", "TagDirectory", "Range", "KvDirectory", "ValueSpill", "ChunkIndex",
      "ChunkList", "Backpointer", "Ontology", "Subscriptions", "Snapshots", "BucketAlloc",
      "FreespaceLru", "DiskDescriptors", "PlacementRules", "ClusterPeers", "ReconcileWork",
      "ReconcileHighPrio", "ReconcileWorkPhys", "ReconcileHighPrioPhys", "ReconcilePending",
      "ReconcileScan">>

\* The superblock's accessors hold their own table of media.
SuperblockMedia == <<"NVMe", "Ssd", "Hdd", "SmrHdd", "Remote">>

\* The variants of a discriminant, <<>> when it is a plain number.
Variants(k, f) ==
    CASE k = "ObjectRecord" /\ f = "state" -> ObjectState
      [] k = "ObjectRecord" /\ f = "compression" -> CompressionState
      [] k = "ObjectRecord" /\ f = "encryption" -> EncryptionState
      [] k = "BucketAllocEntry" /\ f = "data_type" -> BucketDataType
      [] k = "BackpointerValue" /\ f = "owner_kind" -> OwnerKind
      [] f = "store_kind" -> TagStoreKind
      [] k = "DiskDescriptorOnDisk" /\ f = "media_type" -> MediaType
      [] k = "DiskDescriptorOnDisk" /\ f = "tier" -> StorageTier
      [] k = "DiskDescriptorOnDisk" /\ f = "state" -> DiskState
      [] k = "Superblock" /\ f = "media_type" -> SuperblockMedia
      [] k = "Superblock" /\ f = "tier" -> StorageTier
      [] k = "BlockPreamble" /\ f = "kind" -> BtreeKind
      [] OTHER -> <<>>

\* i64 fields are stored in two's complement.
Signed == {"created_ns", "modified_ns", "timestamp.physical_ns",
           "creation_timestamp_ns", "last_mount_timestamp_ns"}

-----------------------------------------------------------------------------
(* Images. *)

\* The n low digits of v, least significant first.
le(v, n) == [i \in 1..n |-> (v \div Radix^(i - 1)) % Radix]

Unsigned(bytes) == FoldLeft(LAMBDA acc, i : acc + bytes[i] * Radix^(i - 1), 0,
                            [i \in DOMAIN bytes |-> i])

Number(f, bytes) ==
    LET u == Unsigned(bytes) IN
    IF f \in Signed /\ 2 * u >= Radix^Len(bytes) THEN u - Radix^Len(bytes) ELSE u

\* bytemuck::bytes_of
bytes_of(layout, r) ==
    LET part[lo \in DOMAIN layout, hi \in DOMAIN layout] ==
            IF lo = hi THEN le(r[layout[lo][1]], layout[lo][2])
            ELSE part[lo, (lo + hi) \div 2] \o part[((lo + hi) \div 2) + 1, hi]
    IN  part[1, Len(layout)]

\* bytemuck::from_bytes: each field starts where the one before it ends.
from_bytes(layout, bytes) ==
    LET ends == Ends(layout)
        field(i) == SubSeq(bytes, ends[i] - layout[i][2] + 1, ends[i])
        part[lo \in DOMAIN layout, hi \in DOMAIN layout] ==
            IF lo = hi THEN layout[lo][1] :> Number(layout[lo][1], field(lo))
            ELSE part[lo, (lo + hi) \div 2] @@ part[((lo + hi) \div 2) + 1, hi]
    IN  part[1, Len(layout)]

Zeroed(k) == [f \in Fields(k) |-> 0]

Prefix(bytes, n) == SubSeq(bytes, 1, IF n < Len(bytes) THEN n ELSE Len(bytes))
Drop(bytes, n) == SubSeq(bytes, n + 1, Len(bytes))

Refused == [ok |-> FALSE]
Parsed(r) == [ok |-> TRUE, rec |-> r]

\* Read back from serde bytes: only at the exact length.
deserialize(k, bytes) ==
    IF Len(bytes) # SizeOf(Layout(k)) THEN Refused
    ELSE Parsed(from_bytes(Layout(k), bytes))

\* From<Vec<u8>>: a short value is padded with zeros, a long one cut.
from_vec(k, bytes) ==
    LET n == SizeOf(Layout(k))
        short == Prefix(bytes, n)
    IN  Parsed(from_bytes(Layout(k), short \o [i \in 1 .. n - Len(short) |-> 0]))

\* ChunkParamsRecord::parse takes the front of a longer slice.
parse_chunk_params(bytes) ==
    LET n == SizeOf(ChunkParamsRecord) IN
    IF Len(bytes) < n THEN Refused
    ELSE Parsed(from_bytes(ChunkParamsRecord, Prefix(bytes, n)))

\* A location is its header and the replicas in use.
active_replicas(loc) ==
    IF loc["replica_count"] < MAX_INLINE_REPLICAS THEN loc["replica_count"] ELSE MAX_INLINE_REPLICAS

LocationSize(n) == SizeOf(LocationHeader) + n * SizeOf(ReplicaRef)

\* Mutant of serialize: the cap is one short, so a fourth replica is not written.
serialize_capped(loc) ==
    LET n == IF loc["replica_count"] < MAX_INLINE_REPLICAS THEN loc["replica_count"]
             ELSE MAX_INLINE_REPLICAS - 1
    IN  Prefix(bytes_of(ObjectLocation, loc), LocationSize(n))

serialize(loc) == Prefix(bytes_of(ObjectLocation, loc), LocationSize(active_replicas(loc)))

parse(bytes) ==
    LET n == IF Len(bytes) < SizeOf(LocationHeader) THEN MAX_INLINE_REPLICAS + 1
             ELSE from_bytes(LocationHeader, Prefix(bytes, SizeOf(LocationHeader)))["replica_count"]
        pad == [i \in 1 .. LocationSize(MAX_INLINE_REPLICAS) - LocationSize(n) |-> 0]
    IN  IF n > MAX_INLINE_REPLICAS \/ Len(bytes) < LocationSize(n) THEN Refused
        ELSE Parsed(from_bytes(ObjectLocation, Prefix(bytes, LocationSize(n)) \o pad))

\* A leaf entry of the forward index is [oid, snapshot, spill, total, body]:
\* body is the assertions, or the reference to where they went.  The top bit
\* of the header word is the spill flag, the others hold the total.
LEAF_ENTRY_SPILL_FLAG == Radix^2 \div 2
LEAF_ENTRY_TOTAL_MASK == LEAF_ENTRY_SPILL_FLAG - 1

Part(spill) == IF spill THEN BlobRef ELSE PackedAssertion

inline(oid, snapshot, assertions) ==
    IF Len(assertions) > LEAF_ENTRY_TOTAL_MASK THEN Refused
    ELSE Parsed([oid |-> oid, snapshot |-> snapshot, spill |-> FALSE,
                 total |-> Len(assertions), body |-> assertions])

spill(oid, snapshot, total, spill_ref) ==
    IF total >= LEAF_ENTRY_SPILL_FLAG THEN Refused
    ELSE Parsed([oid |-> oid, snapshot |-> snapshot, spill |-> TRUE,
                 total |-> total, body |-> <<spill_ref>>])

serialise_leaf(e) ==
    bytes_of(LeafEntryHead,
             [oid |-> e.oid, snapshot |-> e.snapshot,
              header |-> e.total + (IF e.spill THEN LEAF_ENTRY_SPILL_FLAG ELSE 0)])
    \o FlattenSeq([i \in DOMAIN e.body |-> bytes_of(Part(e.spill), e.body[i])])

parse_leaf(bytes) ==
    LET at == SizeOf(LeafEntryHead)
        head == from_bytes(LeafEntryHead, Prefix(bytes, at))
        is_spill == head["header"] >= LEAF_ENTRY_SPILL_FLAG
        total == head["header"] % LEAF_ENTRY_SPILL_FLAG
        parts == IF is_spill THEN 1 ELSE total
        size == SizeOf(Part(is_spill))
    IN  IF Len(bytes) < at THEN Refused
        ELSE IF Len(bytes) < at + parts * size THEN Refused
        ELSE Parsed([oid |-> head["oid"], snapshot |-> head["snapshot"],
                     spill |-> is_spill, total |-> total,
                     body |-> [i \in 1 .. parts |->
                        from_bytes(Part(is_spill),
                                   SubSeq(bytes, at + (i - 1) * size + 1, at + i * size))]])

\* A packed key hands its fields to the run encoder as u64s and takes them
\* back only when they fit the field.
field_values(k, key) ==
    FoldLeft(LAMBDA acc, e : acc \o le(key[e[1]], 8), <<>>, Layout(k))

from_components(k, bytes) ==
    LET wide == [i \in DOMAIN Layout(k) |-> <<Layout(k)[i][1], 8>>]
        key == from_bytes(wide, bytes)
    IN  IF Len(bytes) = SizeOf(wide) /\ \A f \in Fields(k) : key[f] < Radix^Width(k, f)
        THEN Parsed(key) ELSE Refused

\* A content hash travels as hexadecimal text: two digits to a byte, high first.
NibbleRadix == 4

HashBytes(key) == FoldLeft(LAMBDA acc, e : acc \o Reverse(le(key[e[1]], e[2])), <<>>, ChunkHashKey)

hex(key) ==
    FoldLeft(LAMBDA acc, b : acc \o <<b \div NibbleRadix, b % NibbleRadix>>, <<>>, HashBytes(key))

unhex(text) ==
    LET n == SizeOf(ChunkHashKey)
        bytes == [i \in 1..n |-> text[2*i - 1] * NibbleRadix + text[2*i]]
        word(i) == Unsigned(Reverse(SubSeq(bytes, 2*i + 1, 2*i + 2)))
    IN  IF Len(text) # 2 * n THEN Refused
        ELSE Parsed([f \in Fields("ChunkHashKey") |->
                        word((CHOOSE i \in DOMAIN ChunkHashKey : ChunkHashKey[i][1] = f) - 1)])

image(k, r) ==
    CASE k = "ObjectLocation" -> serialize(r)
      [] k = "LeafEntry" -> serialise_leaf(r)
      [] k \in {"TagIndexKey", "ForwardIndexKey", "SubscriptionsKey"} -> field_values(k, r)
      [] k = "ChunkHashKey" -> hex(r)
      [] OTHER -> bytes_of(Layout(k), r)

load(k, bytes) ==
    CASE k = "ObjectLocation" -> parse(bytes)
      [] k = "LeafEntry" -> parse_leaf(bytes)
      [] k \in {"TagIndexKey", "ForwardIndexKey", "SubscriptionsKey"} -> from_components(k, bytes)
      [] k = "ChunkHashKey" -> unhex(bytes)
      [] k \in {"TagIndexValue", "ChunkIndexValue"} -> from_vec(k, bytes)
      [] k = "ChunkParamsRecord" -> parse_chunk_params(bytes)
      [] OTHER -> deserialize(k, bytes)

-----------------------------------------------------------------------------
(* Keys compare field by field, in the order of the layout. *)

Less(a, b) == \E i \in DOMAIN a : a[i] < b[i] /\ \A j \in 1 .. i - 1 : a[j] = b[j]
InOrder(k, key) == [i \in DOMAIN Layout(k) |-> key[Layout(k)[i][1]]]

Between(k, keys, lo, hi) ==
    {key \in keys : ~Less(InOrder(k, key), lo) /\ ~Less(hi, InOrder(k, key))}

range_in_bucket(keys, disk_id, bucket_no) ==
    Between("BackpointerKey", keys, <<disk_id, bucket_no, 0>>, <<disk_id, bucket_no, Radix^2 - 1>>)

range_on_disk(keys, disk_id) ==
    Between("BackpointerKey", keys, <<disk_id, 0, 0>>, <<disk_id, Radix^4 - 1, Radix^2 - 1>>)

iter_band(keys, band) ==
    Between("FreespaceLruKey", keys, <<band, 0, 0>>, <<band, Radix^2 - 1, Radix^4 - 1>>)

-----------------------------------------------------------------------------
(* What callers put into a record. *)

\* ObjectId::from_parts masks the local sequence to its 6 low bytes.
from_parts(node, local) == node * Radix^6 + (local % Radix^6)

\* The values a field takes: one that fills it and tells its bytes apart, the
\* ends of a signed one, every variant of a discriminant.
Settings(k, f) ==
    LET top == Radix^Width(k, f) - 1 IN
    IF Variants(k, f) # <<>> THEN 0 .. Len(Variants(k, f)) - 1
    ELSE IF f \in Signed THEN {(-1), (-((top + 1) \div 2)), top \div 2}
    ELSE IF k = "ObjectRecord" /\ f = "id"
         THEN {from_parts(n, l) : n \in {0, Radix^2 - 1}, l \in {1, Radix^6 - 1, Radix^6 + 1}}
    ELSE IF f \in {"sector_offset", "bucket_no"} THEN {top - 1, top} ELSE {top - 1}

\* ObjectLocation::new
new_location(extent_length, replicas) ==
    IF Len(replicas) > MAX_INLINE_REPLICAS THEN Refused
    ELSE Parsed([f \in Fields("ObjectLocation") |->
            IF f = "extent_length" THEN extent_length
            ELSE IF f = "replica_count" THEN Len(replicas)
            ELSE LET hits == {<<i, g>> \in (1 .. Len(replicas)) \X {ReplicaRef[j][1] : j \in DOMAIN ReplicaRef} :
                                ToString(i - 1) \o "." \o g = f}
                 IN  IF hits = {} THEN 0
                     ELSE LET h == CHOOSE h \in hits : TRUE IN replicas[h[1]][h[2]]])

\* DiskDescriptorOnDisk::new
new_descriptor(id, media, tier, path) ==
    IF Len(path) > PathBytes THEN Refused
    ELSE Parsed([Zeroed("DiskDescriptorOnDisk") EXCEPT
            !["disk_id"] = id, !["media_type"] = media, !["tier"] = tier,
            !["path_len"] = Len(path),
            !["path0"] = IF Len(path) > 0 THEN path[1] ELSE 0,
            !["path1"] = IF Len(path) > 1 THEN path[2] ELSE 0])

\* ChunkParamsRecord::none, fast_cdc and fixed_size
new_chunk_params(algo, lo, avg, hi) ==
    [Zeroed("ChunkParamsRecord") EXCEPT !["algo"] = algo, !["min_size"] = lo,
                                        !["avg_size"] = avg, !["max_size"] = hi]

MakeReplica(d, s, b) == [disk_id |-> d, sector_offset |-> s, bucket_no |-> b]

\* Assertions, and references to spilled ones, with their bytes told apart.
Assertions == <<[kind |-> 1, origin |-> 9, _pad |-> 0, a |-> 9998, b |-> 10203040],
                [kind |-> 2, origin |-> 0, _pad |-> 0, a |-> 1, b |-> 99999998]>>
SpillRef == [disk_id |-> 98, _pad |-> 0, block_no |-> 1234, length |-> 12345678]

Paths == {<<>>, <<7>>, <<7, 8>>, <<7, 8, 9>>}

Made(k) ==
    CASE k = "ObjectLocation" ->
            {new_location(9, SubSeq(<<MakeReplica(1, 2, 3), MakeReplica(99, 99, 9999),
                                      MakeReplica(0, 0, 1), MakeReplica(4, 5, 6), MakeReplica(1, 1, 1)>>, 1, n)) : n \in 0..5}
      [] k = "DiskDescriptorOnDisk" ->
            {new_descriptor(1, m, 0, p) : m \in 0..1, p \in Paths}
      [] k = "ChunkParamsRecord" ->
            {Parsed(new_chunk_params(0, 0, 0, 0)), Parsed(new_chunk_params(1, 9, 9, 9)),
             Parsed(new_chunk_params(2, 1, 2, 9999))}
      [] k = "LeafEntry" ->
            {inline(99999998, 9998, SubSeq(Assertions, 1, n)) : n \in 0..2}
            \cup {inline(1, 0, [i \in 1 .. LEAF_ENTRY_SPILL_FLAG |-> Assertions[1]])}
            \cup {spill(12345678, 1, n, SpillRef) :
                    n \in {0, 9, LEAF_ENTRY_TOTAL_MASK, LEAF_ENTRY_SPILL_FLAG}}
      [] OTHER -> {}

-----------------------------------------------------------------------------
Init ==
    /\ kind \in Kinds
    /\ mem = IF kind = "LeafEntry" THEN inline(0, 0, <<>>).rec ELSE Zeroed(kind)
    /\ page = image(kind, mem)
    /\ clean = TRUE
    /\ writes = 0

\* Bound: one assignment to the records of some hundred fields.
Bound == IF kind \in {"RootPointer", "Superblock"} THEN 1 ELSE MaxWrites

Put(r) ==
    /\ writes < Bound
    /\ mem' = r
    /\ clean' = FALSE
    /\ writes' = writes + 1
    /\ UNCHANGED <<kind, page>>

\* A caller assigns a field (a location and a leaf entry are only constructed).
Assign ==
    /\ kind \notin {"ObjectLocation", "LeafEntry"}
    /\ \E f \in Fields(kind) : \E v \in Settings(kind, f) : Put([mem EXCEPT ![f] = v])

\* A caller makes a new record; a refused one leaves the old one.
Make == \E m \in Made(kind) : m.ok /\ Put(m.rec)

Store ==
    /\ ~clean
    /\ page' = image(kind, mem)
    /\ clean' = TRUE
    /\ UNCHANGED <<kind, mem, writes>>

\* A restart: only what was stored is left.
Reload ==
    /\ ~clean
    /\ \E back \in {load(kind, page)} : back.ok /\ mem' = back.rec
    /\ clean' = TRUE
    /\ UNCHANGED <<kind, page, writes>>

Next == Assign \/ Make \/ Store \/ Reload

Spec == Init /\ [][Next]_vars

-----------------------------------------------------------------------------
(* Properties. *)

\* A record read back from its image is the record that was stored: no field
\* overlaps its neighbour or loses its sign, a location keeps every replica in
\* use, a leaf entry tells inline assertions from spilled ones, and a packed
\* key fits the fields it came from (bytemuck images, ObjectLocation::serialize
\* and parse, LeafEntry::serialise and parse, PackableKey::from_components,
\* ChunkHashKey's text).
RecordsExact == clean => load(kind, page) = Parsed(mem)

\* Scans by prefix find a key exactly when it has the prefix, up to the last
\* sector and bucket number, and the byte order of two content hashes is the
\* order of the words that the run encoder compares (range_in_bucket,
\* range_on_disk, iter_band, ChunkHashKey::field_values).
KeysOrdered ==
    \A old \in {load(kind, page).rec} :
    CASE kind = "BackpointerKey" ->
            /\ mem \in range_in_bucket({mem}, old["disk_id"], old["bucket_no"])
               <=> mem["disk_id"] = old["disk_id"] /\ mem["bucket_no"] = old["bucket_no"]
            /\ mem \in range_on_disk({mem}, old["disk_id"]) <=> mem["disk_id"] = old["disk_id"]
      [] kind = "FreespaceLruKey" ->
            mem \in iter_band({mem}, old["fragmentation_band"])
            <=> mem["fragmentation_band"] = old["fragmentation_band"]
      [] kind = "ChunkHashKey" ->
            Less(HashBytes(old), HashBytes(mem)) <=> Less(InOrder(kind, old), InOrder(kind, mem))
      [] OTHER -> TRUE
=============================================================================
