------------------------------- MODULE Buckets -------------------------------
(***************************************************************************)
(* The bucket allocator (crates/storage/src/allocator.rs) over its table   *)
(* (alloc.rs).  A reference names a block of a bucket and the generation   *)
(* the bucket had when it was handed out.  `held` are the references in    *)
(* use, `gone` those whose bucket was given back; both belong to callers,  *)
(* and a crash takes callers and table back to the last save.              *)
(***************************************************************************)
EXTENDS Integers, FiniteSets

CONSTANTS
    Disk, OtherDisk,
    BucketBits,    \* bucket_size_log2 - BLOCK_SIZE_LOG2
    FirstUsable, Total,
    DataTypes,     \* what a bucket may be allocated for (not Free)
    MaxGen         \* bound: generations explored, far below u32::MAX

\* Bucket numbers are naturals, a bucket has a whole number of blocks and none
\* is allocated as Free.
ASSUME BucketAssumption ==
    /\ FirstUsable \in Nat /\ Total \in Nat /\ MaxGen \in Nat
    /\ 2^BucketBits \in Nat \ {0}
    /\ "Free" \notin DataTypes

VARIABLES
    table,   \* bucket -> [generation, data_type]
    held, gone,
    saved    \* table and references of the last save

vars == <<table, held, gone, saved>>

Usable == FirstUsable .. Total - 1

\* The bucket a block lies in.
block_no_to_bucket(block_no) == block_no \div 2^BucketBits

\* The first block of a bucket.
bucket_block(bucket_no) == bucket_no * 2^BucketBits

Put(t, b, gen, type) ==
    [x \in DOMAIN t \cup {b} |->
        IF x = b THEN [generation |-> gen, data_type |-> type] ELSE t[x]]

\* A bucket without an entry was never allocated.
IsFree(t, b) == b \notin DOMAIN t \/ t[b].data_type = "Free"

\* The first free bucket, or none.
FirstFree(t) == {b \in Usable : IsFree(t, b) /\ \A c \in Usable : IsFree(t, c) => b <= c}

\* Mutant of next_generation: a bucket is handed out again as it was.
next_generation_kept(t, b) == IF b \in DOMAIN t THEN t[b].generation ELSE 1

\* The generation a bucket is handed out under.
next_generation(t, b) == IF b \in DOMAIN t THEN t[b].generation + 1 ELSE 1

validate(t, ref) ==
    LET b == block_no_to_bucket(ref.block_no)
    IN  ref.disk_id = Disk /\ b \in DOMAIN t /\ t[b].generation = ref.generation

Init ==
    /\ table = <<>>
    /\ held = {}
    /\ gone = {}
    /\ saved = [table |-> <<>>, held |-> {}]

\* At format time every usable bucket without an entry gets generation 1.
seed_freelist ==
    /\ table' = [b \in DOMAIN table \cup Usable |->
                   IF b \in DOMAIN table THEN table[b]
                   ELSE [generation |-> 1, data_type |-> "Free"]]
    /\ UNCHANGED <<held, gone, saved>>

\* With no free bucket the allocator is exhausted and nothing changes.
alloc ==
    \E type \in DataTypes, b \in FirstFree(table) :
       LET gen == next_generation(table, b)
           ref == [disk_id |-> Disk, block_no |-> bucket_block(b), generation |-> gen]
       IN  /\ gen <= MaxGen
           /\ table' = Put(table, b, gen, type)
           /\ held' = held \cup {ref}
           /\ UNCHANGED <<gone, saved>>

\* A caller gives back a reference it holds, or gives one back again, or one
\* of another disk.  A reference that does not validate is refused.
free ==
    \E ref \in held \cup gone
                 \cup {[r EXCEPT !.disk_id = OtherDisk] : r \in held} :
       /\ validate(table, ref)
       /\ table' = Put(table, block_no_to_bucket(ref.block_no), ref.generation, "Free")
       /\ held' = held \ {ref}
       /\ gone' = gone \cup {ref}
       /\ UNCHANGED saved

\* A commit saves the table and whatever records the references in use.
Save ==
    /\ saved' = [table |-> table, held |-> held]
    /\ UNCHANGED <<table, held, gone>>

Crash ==
    /\ table' = saved.table
    /\ held' = saved.held
    /\ gone' = {}
    /\ UNCHANGED saved

Next == seed_freelist \/ alloc \/ free \/ Save \/ Crash

Spec == Init /\ [][Next]_vars

-----------------------------------------------------------------------------
\* A bucket in use belongs to one reference: every reference in use still
\* validates and is alone on an allocated bucket, and a reference that was
\* given back neither validates nor frees anything once its bucket is in use
\* again (allocator.rs alloc, free, validate).
RefsExclusive ==
    LET bucket(r) == block_no_to_bucket(r.block_no) IN
    /\ \A r \in held : validate(table, r) /\ ~IsFree(table, bucket(r))
    /\ \A r, s \in held : bucket(r) = bucket(s) => r = s
    /\ \A r \in held, s \in gone : bucket(r) = bucket(s) => ~validate(table, s)
==============================================================================
