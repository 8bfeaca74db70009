-------------------------------- MODULE Pages --------------------------------
(***************************************************************************)
(* The 4 KiB pages with a block header and a trailing CRC: hash buckets    *)
(* (kv_bucket.rs), the hash directory (kv_directory.rs), bitmap pages      *)
(* (tag_bitmap_page.rs) and the pool state root (pool.rs).  A page is      *)
(* built in memory, written over whatever its place held, perhaps only in  *)
(* part when the machine stops, and read back by the reader of its kind or *)
(* of another one.  The CRC is taken to tell any two contents apart.       *)
(***************************************************************************)
EXTENDS Integers, Sequences, FiniteSets

CONSTANTS
    Places,       \* where pages are written
    Keys, Refs,   \* bucket keys and what they and the directory point to
    Capacity,     \* cells of a page (entries, bytes, disks)
    MaxDepth,     \* KV_DIRECTORY_MAX_INLINE_DEPTH
    MaxSteps      \* bound: changes and writes

VARIABLES
    draft,     \* the page in memory
    meant,     \* key -> what the draft was told to hold for it
    disk,      \* place -> page
    written,   \* place -> the pages handed to a writer, with their meaning
    steps

vars == <<draft, meant, disk, written, steps>>

None == 0
Nothing == <<None, None>>
Cells == 1..Capacity
FormatVersion == 1

\* The numbers on disk of the block kinds used here.
BlockKind == [PoolStateRoot |-> 2, TagBitmapPage |-> 5, KvHashDirectory |-> 8, KvHashBucket |-> 9]
PageKinds == DOMAIN BlockKind

Blank == [magic |-> FALSE, kind |-> 0, version |-> 0, depth |-> 0, count |-> 0, link |-> None,
          cells |-> [i \in Cells |-> Nothing], crc |-> <<>>]

-----------------------------------------------------------------------------
(* Building a page. *)

\* BlockHeader::new on zeroed bytes
BlockHeader_new(kind) ==
    [Blank EXCEPT !.magic = TRUE, !.kind = BlockKind[kind], !.version = FormatVersion]

KvBucketBlock_new(depth) == [BlockHeader_new("KvHashBucket") EXCEPT !.depth = depth]

Least(a, b) == IF a < b THEN a ELSE b
InUse(p) == 1 .. Least(p.count, Capacity)

lookup(p, key) ==
    LET hits == {i \in InUse(p) : p.cells[i][1] = key} IN
    IF hits = {} THEN None
    ELSE p.cells[CHOOSE i \in hits : \A j \in hits : i <= j][2]

is_full(p) == p.count >= Capacity

upsert(p, key, ref) ==
    IF \E i \in InUse(p) : p.cells[i][1] = key
    THEN [p EXCEPT !.cells[CHOOSE i \in InUse(p) : p.cells[i][1] = key] = <<key, ref>>]
    ELSE [p EXCEPT !.cells[p.count + 1] = <<key, ref>>, !.count = @ + 1]

\* Refused past the inline depth.
KvDirectoryBlock_new(depth) ==
    [BlockHeader_new("KvHashDirectory") EXCEPT !.depth = depth, !.count = 2^depth]

\* Beyond the entries in use a set is dropped and a get answers the zero reference.
set_entry(p, i, ref) ==
    IF i \in InUse(p) THEN [p EXCEPT !.cells[i] = <<i, ref>>] ELSE p

get_entry(p, i) == IF i \in InUse(p) THEN p.cells[i][2] ELSE None

from_bytes_chunk(bytes, next) ==
    [BlockHeader_new("TagBitmapPage") EXCEPT
        !.count = Len(bytes), !.link = next,
        !.cells = [i \in Cells |-> IF i \in DOMAIN bytes THEN <<i, bytes[i]>> ELSE Nothing]]

bitmap_slice(p) == [i \in InUse(p) |-> p.cells[i][2]]

PoolStateRoot_new_blank == BlockHeader_new("PoolStateRoot")

\* More disks than the root holds inline are refused.
set_inline_disks(p, disks) ==
    [p EXCEPT !.count = Len(disks),
              !.cells = [i \in Cells |-> IF i \in DOMAIN disks THEN <<i, disks[i]>> ELSE Nothing]]

-----------------------------------------------------------------------------
(* Writing and reading. *)

block_crc(p) == <<p.magic, p.kind, p.version, p.depth, p.count, p.link, p.cells>>

recompute_crc(p) == [p EXCEPT !.crc = block_crc(p)]

\* Mutant of verify_crc: nothing is compared.
verify_crc_skipped(p) == TRUE

verify_crc(p) == p.crc = block_crc(p)

KvBucket_validate(p) ==
    /\ p.magic /\ p.kind = BlockKind["KvHashBucket"] /\ p.version = FormatVersion
    /\ p.count <= Capacity

KvDirectory_validate(p) ==
    /\ p.magic /\ p.kind = BlockKind["KvHashDirectory"] /\ p.version = FormatVersion
    /\ p.depth <= MaxDepth /\ p.count = 2^p.depth

TagBitmapPage_validate(p) ==
    p.magic /\ p.kind = BlockKind["TagBitmapPage"] /\ p.version = FormatVersion

\* The pool state root does not look at its version.
PoolStateRoot_validate(p) == p.magic /\ p.kind = BlockKind["PoolStateRoot"]

validate(kind, p) ==
    CASE kind = "KvHashBucket" -> KvBucket_validate(p)
      [] kind = "KvHashDirectory" -> KvDirectory_validate(p)
      [] kind = "TagBitmapPage" -> TagBitmapPage_validate(p)
      [] kind = "PoolStateRoot" -> PoolStateRoot_validate(p)

Reads(kind, p) == validate(kind, p) /\ verify_crc(p)

\* What a stopped write leaves: the first sectors new and the rest old, or the
\* other way round.  The header and the first cell are in front, the last
\* cells and the CRC behind.
Mix(front, back) ==
    [front EXCEPT !.cells = [i \in Cells |-> IF i = 1 THEN front.cells[i] ELSE back.cells[i]],
                  !.crc = back.crc]

-----------------------------------------------------------------------------
Unset == [k \in Keys |-> None]

Init ==
    /\ draft = Blank /\ meant = Unset
    /\ disk = [s \in Places |-> Blank]
    /\ written = [s \in Places |-> {}]
    /\ steps = 0

Change(p, m) ==
    /\ steps < MaxSteps
    /\ draft' = p /\ meant' = m
    /\ steps' = steps + 1
    /\ UNCHANGED <<disk, written>>

New ==
    \/ \E d \in 0..1 : Change(KvBucketBlock_new(d), Unset)
    \/ \E d \in 0..MaxDepth : Change(KvDirectoryBlock_new(d), Unset)
    \/ \E n \in 0..Capacity : \E r \in Refs :
        Change(from_bytes_chunk([i \in 1..n |-> r], r),
               [k \in Keys |-> IF k <= n THEN r ELSE None])
    \/ \E n \in 0..Capacity : \E r \in Refs :
        Change(set_inline_disks(PoolStateRoot_new_blank, [i \in 1..n |-> r]),
               [k \in Keys |-> IF k <= n THEN r ELSE None])

Upsert ==
    /\ draft.kind = BlockKind["KvHashBucket"]
    /\ \E k \in Keys, r \in Refs :
        /\ ~is_full(draft) \/ lookup(draft, k) # None
        /\ Change(upsert(draft, k, r), [meant EXCEPT ![k] = r])

Point ==
    /\ draft.kind = BlockKind["KvHashDirectory"]
    /\ \E i \in Keys, r \in Refs :
        Change(set_entry(draft, i, r), IF i <= draft.count THEN [meant EXCEPT ![i] = r] ELSE meant)

write(s) ==
    /\ steps < MaxSteps
    /\ draft.magic
    /\ LET p == recompute_crc(draft) IN
        /\ disk' \in {[disk EXCEPT ![s] = q] : q \in {p, Mix(p, disk[s]), Mix(disk[s], p)}}
        /\ written' = [written EXCEPT ![s] = @ \cup {[page |-> p, map |-> meant]}]
    /\ steps' = steps + 1
    /\ UNCHANGED <<draft, meant>>

\* A reader of one of the kinds takes a page to change it further.
read(s, kind) ==
    /\ Reads(kind, disk[s])
    /\ draft' = disk[s]
    /\ \E w \in written[s] : w.page = disk[s] /\ meant' = w.map
    /\ UNCHANGED <<disk, written, steps>>

Next ==
    \/ New \/ Upsert \/ Point
    \/ \E s \in Places : write(s)
    \/ \E s \in Places, kind \in PageKinds : read(s, kind)

Spec == Init /\ [][Next]_vars

-----------------------------------------------------------------------------
(* Properties. *)

\* What the accessors of a kind answer for a key.
Answer(kind, p, k) ==
    CASE kind = "KvHashBucket" -> lookup(p, k)
      [] kind = "KvHashDirectory" -> get_entry(p, k)
      [] OTHER -> IF k \in InUse(p) THEN bitmap_slice(p)[k] ELSE None

\* A page that its reader accepts is one that was written there whole by the
\* writer of that kind, and it answers what its writer last put into it: torn
\* writes and pages of another kind are refused (validate and verify_crc of the
\* four page types).
PagesWhole ==
    \A s \in Places, kind \in PageKinds :
        Reads(kind, disk[s]) =>
            \E w \in written[s] :
                /\ w.page = disk[s] /\ w.page.kind = BlockKind[kind]
                /\ \A k \in Keys : Answer(kind, disk[s], k) = w.map[k]
=============================================================================
