------------------------------- MODULE WalOps --------------------------------
(***************************************************************************)
(* The operations of the write-ahead log as they are stored (wal/entry.rs):*)
(* a kind byte in the entry header and a payload that is a CBOR map from   *)
(* field names to values.  CBOR integers carry no width; decoding checks   *)
(* each against the type of the field it lands in, skips fields it does    *)
(* not know and refuses a map without a field it needs.  An integer is its *)
(* size class: 0, 1 for up to u8::MAX, 2 for u16::MAX, 3 for u32::MAX,     *)
(* 4 for u64::MAX, and -1 for a negative one.                              *)
(***************************************************************************)
EXTENDS Integers, Sequences, SequencesExt

CONSTANT MaxLog     \* bound: entries of the log

VARIABLES
    ops,   \* the operations appended, as the caller gave them
    log    \* the entries on disk: [op_kind, payload]

vars == <<ops, log>>

-----------------------------------------------------------------------------
\* The kinds in the order of their numbers, from 0.
WalOpKind ==
    <<"CreateObject", "DeleteObject", "AddTag", "RemoveTag", "SetAttr", "RemoveAttr",
      "AddRelation", "RemoveRelation", "WriteBlob", "ChunkInsertBatch", "ChunkListAppend",
      "ChunkListReplace", "ChunkListShrink", "ChunkObjectFinalize", "BucketAlloc",
      "BucketWrite", "BucketGenBump", "BucketDiscard", "BackpointerInsert",
      "BackpointerRemove", "TagBitmapGrow", "TagBitmapShrink", "SnapshotCreate",
      "SnapshotDelete", "SnapshotUnlink", "SnapshotDepthUpdate", "ReconcileEnqueue",
      "ReconcileDequeue", "ReconcileMove", "ReconcileScanStep", "FormatPromote", "Checkpoint">>

\* op.kind() as u8
kind(op) == (CHOOSE i \in DOMAIN WalOpKind : WalOpKind[i] = op.name) - 1

\* Mutant of from_u8: the numbers of adding and removing a relation are swapped.
from_u8_swapped(v) ==
    IF v \in {6, 7} THEN WalOpKind[14 - v] ELSE
    IF v + 1 \in DOMAIN WalOpKind THEN WalOpKind[v + 1] ELSE "invalid"

from_u8(v) == IF v + 1 \in DOMAIN WalOpKind THEN WalOpKind[v + 1] ELSE "invalid"

-----------------------------------------------------------------------------
(* Payloads: field -> type. *)

\* A block reference travels as three numbers, without its padding.
BlockRefWire(at) == (at \o ".disk_id" :> "u16") @@ (at \o ".block_no" :> "u32")
                    @@ (at \o ".generation" :> "u64")

CreateObject == [oid |-> "u64", generation |-> "u32", created_ns |-> "i64"]
DeleteObject == [oid |-> "u64", lsn |-> "u64"]
AddTag == [oid |-> "u64", tag |-> "u32", origin |-> "u8"]
RemoveTag == [oid |-> "u64", tag |-> "u32"]
SetAttr == [oid |-> "u64", key |-> "u32", value |-> "value"]
RemoveAttr == [oid |-> "u64", key |-> "u32", value_hash |-> "u64"]
AddRelation == [oid |-> "u64", predicate |-> "u32", target |-> "u64"]
RemoveRelation == [oid |-> "u64", predicate |-> "u32", target |-> "u64"]
WriteBlob == [oid |-> "u64", content_hash |-> "bytes", size |-> "u64"] @@ BlockRefWire("extent")
ChunkInsertBatch == [chunks |-> "list"]
ChunkListAppend == [oid |-> "u64", position_start |-> "u64", count |-> "u32"] @@ BlockRefWire("region")
ChunkListReplace == [oid |-> "u64", position |-> "u64", new_hashes |-> "list"]
ChunkListShrink == [oid |-> "u64", new_length |-> "u64"]
ChunkObjectFinalize ==
    [oid |-> "u64", content_hash |-> "bytes", total_length |-> "u64"] @@ BlockRefWire("list_head")
BucketAlloc == [disk_id |-> "u16", bucket_no |-> "u32", data_type |-> "u8", generation |-> "u32"]
BucketWrite == [disk_id |-> "u16", bucket_no |-> "u32", sectors_added |-> "u16"]
BucketGenBump == [disk_id |-> "u16", bucket_no |-> "u32", new_generation |-> "u32"]
BucketDiscard == [disk_id |-> "u16", bucket_no |-> "u32"]
BackpointerInsert == [key |-> "bytes", value |-> "bytes"]
BackpointerRemove == [key |-> "bytes"]
TagBitmapGrow == [tag_id |-> "u32", snapshot |-> "u32", store_kind |-> "u8"] @@ BlockRefWire("new_root")
TagBitmapShrink == [tag_id |-> "u32", snapshot |-> "u32"]
SnapshotCreate == [new_id |-> "u32", parent_id |-> "u32", current_replacement |-> "u32", label |-> "text?"]
SnapshotDelete == [id |-> "u32"]
SnapshotUnlink == [id |-> "u32", parent |-> "u32", prev_sibling |-> "u32"]
SnapshotDepthUpdate ==
    [id |-> "u32", new_depth |-> "u16", new_skiplist |-> "list", new_ancestor_bitmap |-> "bytes"]
WorkItem(at) == (at \o ".target_kind" :> "u8") @@ (at \o ".work_kind" :> "u8")
                @@ (at \o ".priority" :> "u8") @@ (at \o ".owner_key" :> "bytes")
                @@ (at \o ".cursor" :> "bytes")
ReconcileEnqueue == [high_prio |-> "bool", phys_index |-> "bool"] @@ WorkItem("work")
ReconcileDequeue == [target_kind |-> "u8", owner_key |-> "bytes", work_kind |-> "u8"]
ReconcileMove == [owner_key |-> "bytes"] @@ BlockRefWire("from_loc") @@ BlockRefWire("to_loc")
ReconcileScanStep == [scan_id |-> "u64", btree |-> "u16", cursor_key |-> "bytes"]
FormatPromote == [sorted_run_seq |-> "u32", new_format |-> "bytes"] @@ BlockRefWire("node_ref")
Checkpoint == [new_root |-> "bytes", gc_reserve_buckets |-> "u32"]

Schemas ==
    <<CreateObject, DeleteObject, AddTag, RemoveTag, SetAttr, RemoveAttr, AddRelation,
      RemoveRelation, WriteBlob, ChunkInsertBatch, ChunkListAppend, ChunkListReplace,
      ChunkListShrink, ChunkObjectFinalize, BucketAlloc, BucketWrite, BucketGenBump,
      BucketDiscard, BackpointerInsert, BackpointerRemove, TagBitmapGrow, TagBitmapShrink,
      SnapshotCreate, SnapshotDelete, SnapshotUnlink, SnapshotDepthUpdate, ReconcileEnqueue,
      ReconcileDequeue, ReconcileMove, ReconcileScanStep, FormatPromote, Checkpoint>>

Schema(name) == Schemas[CHOOSE i \in DOMAIN WalOpKind : WalOpKind[i] = name]

-----------------------------------------------------------------------------
(* Encoding.  A value is <<CBOR major type, size class>>. *)

Limit == [u8 |-> 1, u16 |-> 2, u32 |-> 3, u64 |-> 4, i64 |-> 3]
Integer == DOMAIN Limit

\* An absent Option is a null; a value keeps the type it was given.
Encoded(type, v) ==
    IF type \in Integer THEN <<"int", v>>
    ELSE IF type = "text?" /\ v = 0 THEN <<"null", 0>>
    ELSE IF type = "text?" THEN <<"text", v>>
    ELSE <<type, v>>

Fits(type, c) ==
    IF type \in Integer
    THEN c[1] = "int" /\ c[2] <= Limit[type] /\ (c[2] >= 0 \/ type = "i64")
    ELSE IF type = "text?" THEN c[1] \in {"null", "text"}
    ELSE c[1] = type

encode(op) ==
    [op_kind |-> kind(op),
     payload |-> [f \in DOMAIN Schema(op.name) |-> Encoded(Schema(op.name)[f], op.fields[f])]]

Failed == [name |-> "error", fields |-> <<>>]

decode(name, payload) ==
    IF \A f \in DOMAIN Schema(name) : f \in DOMAIN payload /\ Fits(Schema(name)[f], payload[f])
    THEN [name |-> name, fields |-> [f \in DOMAIN Schema(name) |-> payload[f][2]]]
    ELSE Failed

ReadEntry(e) == IF from_u8(e.op_kind) = "invalid" THEN Failed
                ELSE decode(from_u8(e.op_kind), e.payload)

-----------------------------------------------------------------------------
\* The least and the greatest value of every field.
Filled(name, top) ==
    [name |-> name,
     fields |-> [f \in DOMAIN Schema(name) |->
        LET t == Schema(name)[f] IN
        IF ~top THEN IF t = "i64" THEN -1 ELSE 0
        ELSE IF t \in Integer THEN Limit[t] ELSE 1]]

Init == ops = <<>> /\ log = <<>>

append(op) ==
    /\ Len(log) < MaxLog
    /\ ops' = Append(ops, op)
    /\ log' = Append(log, encode(op))

Next == \E name \in ToSet(WalOpKind), top \in BOOLEAN : append(Filled(name, top))

Spec == Init /\ [][Next]_vars

-----------------------------------------------------------------------------
\* What replay decodes from the log is what was appended, kind and fields, in
\* order: no two operations share a number, every field a decoder needs is
\* written under its name, and every value fits the field it came from
\* (WalOpKind::from_u8, WalOp::encode and decode).
LogDecodesToOps == ops = [i \in DOMAIN log |-> ReadEntry(log[i])]
=============================================================================
