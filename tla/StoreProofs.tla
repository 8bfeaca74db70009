----------------------------- MODULE StoreProofs -----------------------------
(***************************************************************************)
(* Two bookkeeping parts of the store, each for every value of its         *)
(* constants: the buckets and the operation history.                       *)
(*                                                                         *)
(* RefsExclusive of Buckets, for any disk, bucket size, range of buckets   *)
(* and data types.  The inductive invariant adds what a reference that was *)
(* given back may still say of its bucket (Spent), and that the last save  *)
(* is a state of the same kind (Sound).                                    *)
(*                                                                         *)
(* HistoryOrdered of OpHistory, for any capacity of the ring, any width of *)
(* the logical counter, any remote timestamps and however the wall clock   *)
(* is set.  The inductive invariant adds what ties the timestamps given    *)
(* out to the clock (the newest is not after it) and that the ring in the  *)
(* last index blob fits the ring that is read from it.                     *)
(***************************************************************************)
EXTENDS Buckets, OpHistory, SequenceTheorems, TLAPS

(* Buckets: references and tables.                                         *)

Types == DataTypes \cup {"Free"}
Tables == UNION {[D -> [generation : Nat, data_type : Types]] : D \in SUBSET Usable}
Ref(b, g) == [disk_id |-> Disk, block_no |-> bucket_block(b), generation |-> g]
Refs == {Ref(b, g) : b \in Usable, g \in Nat}
Bucket(r) == block_no_to_bucket(r.block_no)

\* References in use stand for the current generation of an allocated bucket,
\* one for each bucket.
Sound(t, h) ==
    /\ t \in Tables
    /\ h \in SUBSET Refs
    /\ \A r \in h : /\ Bucket(r) \in DOMAIN t
                    /\ t[Bucket(r)].generation = r.generation
                    /\ t[Bucket(r)].data_type # "Free"
    /\ \A r, s \in h : Bucket(r) = Bucket(s) => r = s

\* A reference given back is of an earlier generation, or of the present one
\* of a bucket that is free.
Spent(t, g) ==
    /\ g \in SUBSET Refs
    /\ \A s \in g : /\ Bucket(s) \in DOMAIN t
                    /\ s.generation <= t[Bucket(s)].generation
                    /\ s.generation = t[Bucket(s)].generation
                          => t[Bucket(s)].data_type = "Free"

BucketsInv ==
    /\ Sound(table, held)
    /\ Spent(table, gone)
    /\ saved \in [table : Tables, held : SUBSET Refs]
    /\ Sound(saved.table, saved.held)

-----------------------------------------------------------------------------
\* The block of a bucket lies in that bucket.
LEMMA BlockInBucket ==
    ASSUME NEW b \in Nat
    PROVE  block_no_to_bucket(bucket_block(b)) = b
<1> DEFINE P == 2^BucketBits
<1>1. P \in Nat \ {0}
  BY BucketAssumption, Zenon
<1>2. \A n \in Nat \ {0} : (b * n) \div n = b
  BY Z3
<1> HIDE DEF P
<1>3. (b * P) \div P = b
  BY <1>1, <1>2, Zenon
<1> QED
  BY <1>3, Zenon DEF P, block_no_to_bucket, bucket_block

\* A reference's fields, and that bucket and generation identify it.
LEMMA RefFields ==
    ASSUME NEW r \in Refs
    PROVE  /\ Bucket(r) \in Usable
           /\ r.disk_id = Disk
           /\ r.generation \in Nat
           /\ r = Ref(Bucket(r), r.generation)
<1>1. PICK b \in Usable, g \in Nat : r = Ref(b, g)
  BY DEF Refs
<1>2. b \in Nat
  BY BucketAssumption DEF Usable
<1>3. Bucket(r) = b
  BY <1>1, <1>2, BlockInBucket, Zenon DEF Ref, Bucket
<1> QED
  BY <1>1, <1>3, Zenon DEF Ref

\* Fields of a table.
LEMMA TableFields ==
    ASSUME NEW t \in Tables
    PROVE  /\ DOMAIN t \subseteq Usable
           /\ \A b \in DOMAIN t : /\ t[b] \in [generation : Nat, data_type : Types]
                                  /\ t[b].generation \in Nat
  BY Zenon DEF Tables

\* A table with one entry put in: the entry is there, the others are kept.
LEMMA PutTable ==
    ASSUME NEW t \in Tables, NEW b \in Usable, NEW gen \in Nat, NEW type \in Types
    PROVE  /\ Put(t, b, gen, type) \in Tables
           /\ DOMAIN Put(t, b, gen, type) = DOMAIN t \cup {b}
           /\ Put(t, b, gen, type)[b] = [generation |-> gen, data_type |-> type]
           /\ \A x \in DOMAIN t \ {b} : Put(t, b, gen, type)[x] = t[x]
<1>1. DOMAIN t \cup {b} \in SUBSET Usable
  BY TableFields, Zenon
<1>2. Put(t, b, gen, type) \in [DOMAIN t \cup {b} -> [generation : Nat, data_type : Types]]
  BY DEF Tables, Put
<1> QED
  BY <1>1, <1>2, Zenon DEF Tables, Put

-----------------------------------------------------------------------------
(* Each action preserves BucketsInv.                                             *)

\* Seeding adds free buckets only, so no bucket in use changes.
LEMMA SeedPreserves ==
    ASSUME BucketsInv, seed_freelist
    PROVE  BucketsInv'
<1> USE DEF BucketsInv
<1>1. table' \in Tables
  <2>1. DOMAIN table \cup Usable \in SUBSET Usable
    BY TableFields, Zenon DEF Sound
  <2>2. table' \in [DOMAIN table \cup Usable -> [generation : Nat, data_type : Types]]
    <3>1. [generation |-> 1, data_type |-> "Free"] \in [generation : Nat, data_type : Types]
      BY Zenon DEF Types
    <3>2. \A b \in DOMAIN table : table[b] \in [generation : Nat, data_type : Types]
      BY TableFields, Zenon DEF Sound
    <3> QED
      BY <3>1, <3>2, Zenon DEF seed_freelist
  <2> QED
    BY <2>1, <2>2, Zenon DEF Tables
<1>2. DOMAIN table \subseteq DOMAIN table' /\ \A b \in DOMAIN table : table'[b] = table[b]
  BY Zenon DEF seed_freelist
<1>3. Sound(table', held)
  BY <1>1, <1>2, Zenon DEF Sound
<1>4. Spent(table', gone)
  BY <1>2, Zenon DEF Spent
<1> QED
  BY <1>3, <1>4, Zenon DEF seed_freelist

\* The bucket handed out is free and its generation new: no reference in use
\* is on it, and those given back are of earlier generations.
LEMMA AllocPreserves ==
    ASSUME BucketsInv, alloc
    PROVE  BucketsInv'
<1>1. PICK type \in DataTypes, b \in FirstFree(table) :
         LET gen == next_generation(table, b)
         IN  /\ table' = Put(table, b, gen, type)
             /\ held' = held \cup {[disk_id |-> Disk, block_no |-> bucket_block(b),
                                   generation |-> gen]}
             /\ UNCHANGED <<gone, saved>>
  BY Zenon DEF alloc
<1> DEFINE gen == next_generation(table, b)
           fresh == Ref(b, gen)
<1>2. table \in Tables /\ b \in Usable /\ IsFree(table, b)
  BY Zenon DEF BucketsInv, Sound, FirstFree
<1>3. gen \in Nat /\ (b \in DOMAIN table => gen > table[b].generation)
  BY <1>2, TableFields DEF next_generation
<1>4. /\ table' = Put(table, b, gen, type)
      /\ held' = held \cup {fresh}
      /\ gone' = gone /\ saved' = saved
  BY <1>1, Zenon DEF Ref
<1>5. fresh \in Refs /\ fresh.generation = gen /\ Bucket(fresh) = b
  <2>1. b \in Nat
    BY <1>2, BucketAssumption DEF Usable
  <2>2. fresh \in Refs
    BY <1>2, <1>3 DEF Refs
  <2>3. fresh.generation = gen /\ fresh.block_no = bucket_block(b)
    BY Zenon DEF Ref
  <2> QED
    BY <2>1, <2>2, <2>3, BlockInBucket, Zenon DEF Bucket
<1> HIDE DEF gen, fresh
<1>6. /\ table' \in Tables
      /\ DOMAIN table' = DOMAIN table \cup {b}
      /\ table'[b] = [generation |-> gen, data_type |-> type]
      /\ \A x \in DOMAIN table \ {b} : table'[x] = table[x]
  BY <1>2, <1>3, <1>4, PutTable DEF Types
<1>7. \A r \in held : Bucket(r) # b
  BY <1>2, Zenon DEF BucketsInv, Sound, IsFree
<1>8. Sound(table', held')
  <2>1. held' \in SUBSET Refs
    BY <1>4, <1>5, Zenon DEF BucketsInv, Sound
  <2>2. type # "Free"
    BY BucketAssumption, Zenon
  <2>3. \A r \in held' : /\ Bucket(r) \in DOMAIN table'
                          /\ table'[Bucket(r)].generation = r.generation
                          /\ table'[Bucket(r)].data_type # "Free"
    BY <1>4, <1>5, <1>6, <1>7, <2>2 DEF BucketsInv, Sound
  <2>4. \A r, s \in held' : Bucket(r) = Bucket(s) => r = s
    BY <1>4, <1>5, <1>7, Zenon DEF BucketsInv, Sound
  <2> QED
    BY <1>6, <2>1, <2>3, <2>4, Zenon DEF Sound
<1>9. Spent(table', gone')
  <2>1. SUFFICES ASSUME NEW s \in gone
                 PROVE  /\ Bucket(s) \in DOMAIN table'
                        /\ s.generation <= table'[Bucket(s)].generation
                        /\ s.generation = table'[Bucket(s)].generation
                              => table'[Bucket(s)].data_type = "Free"
    BY <1>4, Zenon DEF BucketsInv, Spent
  <2>2. s.generation \in Nat
    BY RefFields, Zenon DEF BucketsInv, Spent
  <2>3. CASE Bucket(s) = b
    <3>1. b \in DOMAIN table /\ s.generation <= table[b].generation
      BY <2>3, Zenon DEF BucketsInv, Spent
    <3>2. table[b].generation \in Nat
      BY <3>1, <1>2, TableFields, Zenon
    <3>3. s.generation < gen
      BY <1>3, <2>2, <3>1, <3>2
    <3> QED
      BY <1>3, <1>6, <2>2, <2>3, <3>3
  <2>4. CASE Bucket(s) # b
    BY <1>6, <2>4, Zenon DEF BucketsInv, Spent
  <2> QED
    BY <2>3, <2>4, Zenon
<1> QED
  BY <1>4, <1>8, <1>9, Zenon DEF BucketsInv

\* A reference that validates is in use, and then alone on its bucket, or was
\* given back and its bucket is free already.
LEMMA FreePreserves ==
    ASSUME BucketsInv, free
    PROVE  BucketsInv'
<1>1. PICK ref \in held \cup gone \cup {[r EXCEPT !.disk_id = OtherDisk] : r \in held} :
         /\ validate(table, ref)
         /\ table' = Put(table, block_no_to_bucket(ref.block_no), ref.generation, "Free")
         /\ held' = held \ {ref}
         /\ gone' = gone \cup {ref}
         /\ UNCHANGED saved
  BY Zenon DEF free
<1> DEFINE b == Bucket(ref)
<1>2. ref \in held \cup gone
  <2>1. SUFFICES ASSUME NEW r \in held, ref = [r EXCEPT !.disk_id = OtherDisk]
                 PROVE  ref = r
    BY <1>1, Zenon
  <2>2. r = Ref(Bucket(r), r.generation)
    BY RefFields, Zenon DEF BucketsInv, Sound
  <2>3. ref.disk_id = Disk
    BY <1>1, Zenon DEF validate
  <2>4. OtherDisk = Disk
    BY <2>1, <2>2, <2>3, Zenon DEF Ref
  <2> QED
    BY <2>1, <2>2, <2>4 DEF Ref
<1>3. ref \in Refs /\ ref.generation \in Nat /\ b \in Usable
  BY <1>2, RefFields, Zenon DEF BucketsInv, Sound, Spent
<1>4. b \in DOMAIN table /\ table[b].generation = ref.generation
  BY <1>1, Zenon DEF validate, Bucket
<1>5. /\ table' \in Tables
      /\ DOMAIN table' = DOMAIN table
      /\ table'[b] = [generation |-> ref.generation, data_type |-> "Free"]
      /\ \A x \in DOMAIN table \ {b} : table'[x] = table[x]
  <2>1. table \in Tables /\ "Free" \in Types
    BY Zenon DEF BucketsInv, Sound, Types
  <2>2. table' = Put(table, b, ref.generation, "Free")
    BY <1>1, Zenon DEF Bucket
  <2>3. DOMAIN table \cup {b} = DOMAIN table
    BY <1>4, Zenon
  <2>4. \A c \in Usable, g \in Nat :
           /\ Put(table, c, g, "Free") \in Tables
           /\ DOMAIN Put(table, c, g, "Free") = DOMAIN table \cup {c}
           /\ Put(table, c, g, "Free")[c] = [generation |-> g, data_type |-> "Free"]
           /\ \A x \in DOMAIN table \ {c} : Put(table, c, g, "Free")[x] = table[x]
    BY <2>1, PutTable DEF Types
  <2> HIDE DEF b
  <2> QED
    BY <1>3, <2>2, <2>3, <2>4, Zenon
<1> HIDE DEF b
<1>6. \A r \in held' : r \in held /\ Bucket(r) # b
  <2>1. SUFFICES ASSUME NEW r \in held, r # ref, Bucket(r) = b
                 PROVE  FALSE
    BY <1>1, Zenon
  <2>2. table[b].data_type # "Free"
    BY <2>1, Zenon DEF BucketsInv, Sound
  <2>3. ref \notin gone
    BY <1>4, <2>2, Zenon DEF BucketsInv, Spent, b
  <2> QED
    BY <1>2, <2>1, <2>3, Zenon DEF BucketsInv, Sound, b
<1>7. Sound(table', held')
  BY <1>5, <1>6, Zenon DEF BucketsInv, Sound
<1>8. Spent(table', gone')
  <2>1. gone' \in SUBSET Refs
    BY <1>1, <1>3, Zenon DEF BucketsInv, Spent
  <2>2. SUFFICES ASSUME NEW s \in gone'
                 PROVE  /\ Bucket(s) \in DOMAIN table'
                        /\ s.generation <= table'[Bucket(s)].generation
                        /\ s.generation = table'[Bucket(s)].generation
                              => table'[Bucket(s)].data_type = "Free"
    BY <2>1, Zenon DEF Spent
  <2>3. CASE s = ref
    BY <1>3, <1>4, <1>5, <2>3 DEF b
  <2>4. CASE s \in gone /\ Bucket(s) = b
    BY <1>4, <1>5, <2>4 DEF BucketsInv, Spent
  <2>5. CASE s \in gone /\ Bucket(s) # b
    BY <1>5, <2>5, Zenon DEF BucketsInv, Spent
  <2> QED
    BY <1>1, <2>2, <2>3, <2>4, <2>5, Zenon
<1> QED
  BY <1>1, <1>7, <1>8, Zenon DEF BucketsInv

-----------------------------------------------------------------------------
\* BucketsInv is inductive: it holds at first and every action, a save, a crash and
\* a stuttering step keep it.
LEMMA BucketsInductive ==
    /\ Init => BucketsInv
    /\ BucketsInv /\ [Next]_vars => BucketsInv'
<1>1. ASSUME Init PROVE BucketsInv
  <2>1. <<>> \in Tables
    <3>1. <<>> \in [{} -> [generation : Nat, data_type : Types]]
      OBVIOUS
    <3> QED
      BY <3>1, Zenon DEF Tables
  <2> QED
    BY <1>1, <2>1, Zenon DEF Init, BucketsInv, Sound, Spent
<1>2. ASSUME BucketsInv, [Next]_vars PROVE BucketsInv'
  <2>1. CASE seed_freelist
    BY <1>2, <2>1, SeedPreserves, Zenon
  <2>2. CASE alloc
    BY <1>2, <2>2, AllocPreserves, Zenon
  <2>3. CASE free
    BY <1>2, <2>3, FreePreserves, Zenon
  <2>4. CASE Save
    BY <1>2, <2>4, Zenon DEF Save, BucketsInv, Sound
  <2>5. CASE Crash
    BY <1>2, <2>5, Zenon DEF Crash, BucketsInv, Sound, Spent
  <2>6. CASE UNCHANGED vars
    BY <1>2, <2>6, Zenon DEF vars, BucketsInv
  <2> QED
    BY <1>2, <2>1, <2>2, <2>3, <2>4, <2>5, <2>6, Zenon DEF Next
<1> QED
  BY <1>1, <1>2, Zenon

\* BucketsInv says that references are exclusive.
LEMMA Exclusive ==
    ASSUME BucketsInv
    PROVE  RefsExclusive
<1>1. \A r \in held : r.disk_id = Disk
  BY RefFields, Zenon DEF BucketsInv, Sound
<1>2. \A r \in held : validate(table, r) /\ ~IsFree(table, Bucket(r))
  BY <1>1, Zenon DEF BucketsInv, Sound, validate, IsFree, Bucket
<1>3. \A r, s \in held : Bucket(r) = Bucket(s) => r = s
  BY Zenon DEF BucketsInv, Sound
<1>4. \A r \in held, s \in gone : Bucket(r) = Bucket(s) => ~validate(table, s)
  BY <1>2, Zenon DEF BucketsInv, Sound, Spent, validate, Bucket
<1> QED
  BY <1>2, <1>3, <1>4, Zenon DEF RefsExclusive, Bucket

\* A bucket in use belongs to one reference, whatever was allocated, freed,
\* freed twice, saved and lost in a crash, for disks of any size (allocator.rs
\* alloc, free, validate): RefsExclusive is invariant.
THEOREM ReferencesExclusive ==
    Spec => []RefsExclusive
<1>1. Init => BucketsInv
  BY BucketsInductive, Zenon
<1>2. BucketsInv /\ [Next]_vars => BucketsInv'
  BY BucketsInductive, Zenon
<1>3. BucketsInv => RefsExclusive
  BY Exclusive, Zenon
<1> QED
  BY <1>1, <1>2, <1>3, PTL DEF Spec

-----------------------------------------------------------------------------
(* The history: timestamps and the ring.                                   *)

Stamps == [physical_ns : Nat, logical : 0 .. MaxLogical, node_id : Nat]
Own == [physical_ns : Nat, logical : 0 .. MaxLogical, node_id : {NodeId}]
Operations == [op : Nat, lsn : Nat, timestamp : Own]

\* b is a reading of the clock after it stood at a: later, or the same when
\* the logical counter is saturated.
Advances(a, b) ==
    \/ a.physical_ns < b.physical_ns
    \/ a.physical_ns = b.physical_ns /\ a.logical < b.logical
    \/ a.physical_ns = b.physical_ns /\ a.logical = b.logical /\ b.logical = MaxLogical

\* b is not before a.
NotBefore(a, b) ==
    \/ a.physical_ns < b.physical_ns
    \/ a.physical_ns = b.physical_ns /\ a.logical <= b.logical

\* b is after the remote timestamp r, as far as the counter allows.
After(r, b) ==
    \/ Less(r, b)
    \/ b.physical_ns = r.physical_ns /\ b.logical = MaxLogical

Ordered(s) ==
    \A i \in 1 .. Len(s) - 1 :
        \/ Less(s[i], s[i + 1])
        \/ s[i] = s[i + 1] /\ s[i].logical = MaxLogical

\* Every timestamp of s is of this node, in order, none after t.
UpTo(s, t) ==
    /\ s \in Seq(Own)
    /\ Ordered(s)
    /\ s # <<>> => NotBefore(s[Len(s)], t)

HistoryInv ==
    /\ wall \in Int /\ ops \in Nat /\ last \in Own
    /\ UpTo(issued, last)
    /\ seen \in SUBSET Stamps
    /\ \A remote \in seen : After(remote, last)
    /\ recorded \in Seq(Operations)
    /\ oplog = Newest(recorded, max_len)
    /\ kept \in Seq(Operations) /\ Len(kept) <= max_len

-----------------------------------------------------------------------------
(* The clock.                                                              *)

LEMMA OwnFields ==
    ASSUME NEW t \in Own
    PROVE  /\ t.physical_ns \in Nat /\ t.logical \in Nat /\ t.logical <= MaxLogical
           /\ t.node_id = NodeId
           /\ t = [physical_ns |-> t.physical_ns, logical |-> t.logical, node_id |-> NodeId]
           /\ MaxLogical \in Nat
  BY HistoryAssumption DEF Own

\* The fields of an own timestamp after an update of both.
LEMMA Updated ==
    ASSUME NEW t \in Own, NEW p, NEW l
    PROVE  [[t EXCEPT !.physical_ns = p, !.logical = l] EXCEPT !.node_id = NodeId]
              = [physical_ns |-> p, logical |-> l, node_id |-> NodeId]
<1>. DEFINE Stamped(x, y) == [physical_ns |-> x, logical |-> y, node_id |-> NodeId]
<1>1. \A x, y : [Stamped(x, y) EXCEPT !.physical_ns = p] = Stamped(p, y)
  OBVIOUS
<1>2. \A x, y : [Stamped(x, y) EXCEPT !.logical = l] = Stamped(x, l)
  OBVIOUS
<1>3. \A x, y : [Stamped(x, y) EXCEPT !.node_id = NodeId] = Stamped(x, y)
  OBVIOUS
<1>4. t = Stamped(t.physical_ns, t.logical)
  BY OwnFields, Zenon
<1>. HIDE DEF Stamped
<1>5. [[t EXCEPT !.physical_ns = p, !.logical = l] EXCEPT !.node_id = NodeId] = Stamped(p, l)
  <2>1. [t EXCEPT !.physical_ns = p] = Stamped(p, t.logical)
    BY <1>1, <1>4
  <2>2. [t EXCEPT !.physical_ns = p, !.logical = l] = Stamped(p, l)
    BY <1>2, <2>1, Zenon
  <2>. QED BY <1>3, <2>2, Zenon
<1>. QED BY <1>5 DEF Stamped

\* A reading moves the clock forward however the host's clock was set
\* (HybridTimestamp::tick, HybridClock::now).
LEMMA NowAdvances ==
    ASSUME NEW t \in Own, NEW reading \in Int
    PROVE  now(t, reading) \in Own /\ Advances(t, now(t, reading))
<1>. DEFINE n == now_ns(t, reading)
            u == now(t, reading)
<1>1. n \in Nat
  BY OwnFields DEF now_ns
<1>2. CASE n > t.physical_ns
  <2>1. u = [physical_ns |-> n, logical |-> 0, node_id |-> NodeId]
    <3>1. tick(t, n) = [t EXCEPT !.physical_ns = n, !.logical = 0]
      BY <1>2, Zenon DEF tick
    <3>2. u = [tick(t, n) EXCEPT !.node_id = NodeId]
      BY Zenon DEF now
    <3>. QED BY <3>1, <3>2, Updated, Zenon
  <2>. QED BY <1>1, <1>2, <2>1, OwnFields DEF Own, Advances
<1>3. CASE ~(n > t.physical_ns)
  <2>1. u = [physical_ns |-> t.physical_ns, logical |-> saturating_add(t.logical),
             node_id |-> NodeId]
    BY <1>3, OwnFields DEF now, tick
  <2>2. /\ saturating_add(t.logical) \in 0 .. MaxLogical
        /\ \/ t.logical < saturating_add(t.logical)
           \/ t.logical = saturating_add(t.logical) /\ t.logical = MaxLogical
    BY OwnFields DEF saturating_add
  <2>. HIDE DEF n
  <2>. QED BY <2>1, <2>2, OwnFields DEF Own, Advances
<1>. QED BY <1>2, <1>3

\* Merging a remote timestamp moves the clock forward and past the remote
\* timestamp (HybridTimestamp::recv, HybridClock::observe).
LEMMA ObserveAdvances ==
    ASSUME NEW t \in Own, NEW reading \in Int, NEW r \in Stamps
    PROVE  /\ observe(t, reading, r) \in Own
           /\ Advances(t, observe(t, reading, r))
           /\ After(r, observe(t, reading, r))
<1>. DEFINE n == now_ns(t, reading)
            u == observe(t, reading, r)
            Stamped(p, l) == [physical_ns |-> p, logical |-> l, node_id |-> NodeId]
<1>0. /\ r.physical_ns \in Nat /\ r.logical \in Nat /\ r.logical <= MaxLogical
      /\ r.node_id \in Nat
  BY OwnFields DEF Stamps
<1>1. n \in Nat
  BY OwnFields DEF now_ns
<1>s. \A l \in 0 .. MaxLogical :
         /\ saturating_add(l) \in 0 .. MaxLogical
         /\ l < saturating_add(l) \/ (l = MaxLogical /\ saturating_add(l) = MaxLogical)
  BY HistoryAssumption DEF saturating_add
<1>2. CASE n > t.physical_ns /\ n > r.physical_ns
  <2>1. u = Stamped(n, 0)
    <3>1. recv(t, n, r) = [t EXCEPT !.physical_ns = n, !.logical = 0]
      BY <1>2, Zenon DEF recv
    <3>2. u = [recv(t, n, r) EXCEPT !.node_id = NodeId]
      BY Zenon DEF observe
    <3>. QED BY <3>1, <3>2, Updated, ZenonT(60)
  <2>. HIDE DEF n
  <2>. QED BY <1>0, <1>1, <1>2, <2>1, OwnFields DEF Own, Advances, After, Less
<1>3. CASE ~(n > t.physical_ns /\ n > r.physical_ns) /\ t.physical_ns = r.physical_ns
  <2>. DEFINE m == Larger(t.logical, r.logical)
  <2>1. u = Stamped(t.physical_ns, saturating_add(m))
    BY <1>3, OwnFields DEF observe, recv
  <2>2. m \in 0 .. MaxLogical /\ t.logical <= m /\ r.logical <= m
    BY <1>0, OwnFields DEF Larger
  <2>. HIDE DEF n, m
  <2>3. /\ saturating_add(m) \in 0 .. MaxLogical
        /\ m < saturating_add(m) \/ (m = MaxLogical /\ saturating_add(m) = MaxLogical)
    BY <1>s, <2>2
  <2>. QED BY <1>0, <1>3, <2>1, <2>2, <2>3, OwnFields DEF Own, Advances, After, Less
<1>4. CASE /\ ~(n > t.physical_ns /\ n > r.physical_ns)
           /\ r.physical_ns > t.physical_ns
  <2>1. u = Stamped(r.physical_ns, saturating_add(r.logical))
    <3>1. recv(t, n, r) = [t EXCEPT !.physical_ns = r.physical_ns,
                                    !.logical = saturating_add(r.logical)]
      BY <1>0, <1>4, OwnFields DEF recv
    <3>2. u = [recv(t, n, r) EXCEPT !.node_id = NodeId]
      BY Zenon DEF observe
    <3>. QED BY <3>1, <3>2, Updated, Zenon
  <2>2. /\ saturating_add(r.logical) \in 0 .. MaxLogical
        /\ \/ r.logical < saturating_add(r.logical)
           \/ r.logical = MaxLogical /\ saturating_add(r.logical) = MaxLogical
    BY <1>0, <1>s
  <2>. HIDE DEF n
  <2>. QED BY <1>0, <1>4, <2>1, <2>2, OwnFields DEF Own, Advances, After, Less
<1>5. CASE /\ ~(n > t.physical_ns /\ n > r.physical_ns)
           /\ t.physical_ns > r.physical_ns
  <2>1. u = Stamped(t.physical_ns, saturating_add(t.logical))
    BY <1>0, <1>5, OwnFields DEF observe, recv
  <2>2. /\ saturating_add(t.logical) \in 0 .. MaxLogical
        /\ \/ t.logical < saturating_add(t.logical)
           \/ t.logical = MaxLogical /\ saturating_add(t.logical) = MaxLogical
    BY <1>s, OwnFields
  <2>. HIDE DEF n
  <2>. QED BY <1>0, <1>5, <2>1, <2>2, OwnFields DEF Own, Advances, After, Less
<1>. QED BY <1>0, <1>2, <1>3, <1>4, <1>5, OwnFields

\* A remote timestamp the clock is past stays behind when the clock advances.
LEMMA AfterKept ==
    ASSUME NEW r \in Stamps, NEW t \in Own, NEW u \in Own, After(r, t), Advances(t, u)
    PROVE  After(r, u)
<1>1. r.physical_ns \in Nat /\ r.logical \in Nat /\ r.logical <= MaxLogical /\ r.node_id \in Nat
  BY OwnFields DEF Stamps
<1>2. /\ t.physical_ns \in Nat /\ t.logical \in Nat /\ t.node_id = NodeId
      /\ u.physical_ns \in Nat /\ u.logical \in Nat /\ u.node_id = NodeId
      /\ u.logical <= MaxLogical /\ MaxLogical \in Nat
  BY OwnFields
<1>. QED BY <1>1, <1>2 DEF After, Advances, Less

\* The timestamps given out stay in order when the next one is given out.
LEMMA IssueNext ==
    ASSUME NEW s, NEW t \in Own, NEW u \in Own, UpTo(s, t), Advances(t, u)
    PROVE  UpTo(Append(s, u), u)
<1>. DEFINE a == Append(s, u)
            n == Len(s)
<1>1. s \in Seq(Own) /\ Ordered(s) /\ (s # <<>> => NotBefore(s[n], t))
  BY Zenon DEF UpTo
<1>2. /\ a \in Seq(Own) /\ Len(a) = n + 1 /\ n \in Nat /\ a[n + 1] = u
      /\ \A i \in 1 .. n : a[i] = s[i] /\ s[i] \in Own
  BY <1>1
<1>. HIDE DEF a
<1>3. ASSUME NEW i \in 1 .. Len(a) - 1
      PROVE  \/ Less(a[i], a[i + 1])
             \/ a[i] = a[i + 1] /\ a[i].logical = MaxLogical
  <2>1. CASE i < n
    <3>1. i \in 1 .. n - 1 /\ i \in 1 .. n /\ i + 1 \in 1 .. n
      BY <1>2, <2>1
    <3>2. a[i] = s[i] /\ a[i + 1] = s[i + 1]
      BY <1>2, <3>1, Zenon
    <3>. QED BY <1>1, <3>1, <3>2, Zenon DEF Ordered
  <2>2. CASE i = n
    <3>1. a[i] = s[n] /\ s[n] \in Own /\ a[i + 1] = u
      BY <1>2, <2>2
    <3>2. NotBefore(s[n], t)
      BY <1>1, <1>2, <2>2
    <3>. DEFINE b == s[n]
    <3>3. /\ b.physical_ns \in Nat /\ b.logical \in Nat
          /\ t.physical_ns \in Nat /\ t.logical \in Nat
          /\ u.physical_ns \in Nat /\ u.logical \in Nat
          /\ b.logical <= MaxLogical /\ t.logical <= MaxLogical /\ MaxLogical \in Nat
          /\ b = [physical_ns |-> b.physical_ns, logical |-> b.logical, node_id |-> NodeId]
          /\ u = [physical_ns |-> u.physical_ns, logical |-> u.logical, node_id |-> NodeId]
      BY <3>1, OwnFields, Zenon
    <3>. HIDE DEF b
    <3>4. NotBefore(b, t)
      BY <3>2 DEF b
    <3>5. \/ Less(b, u)
          \/ b.physical_ns = u.physical_ns /\ b.logical = u.logical /\ b.logical = MaxLogical
      BY <3>3, <3>4 DEF Advances, NotBefore, Less
    <3>6. Less(b, u) \/ (b = u /\ b.logical = MaxLogical)
      BY <3>3, <3>5, Zenon
    <3>. QED BY <3>1, <3>6 DEF b
  <2>. QED BY <1>2, <2>1, <2>2
<1>4. NotBefore(a[Len(a)], u)
  <2>1. a[Len(a)] = u
    BY <1>2, Zenon
  <2>2. NotBefore(u, u)
    BY OwnFields DEF NotBefore
  <2>. QED BY <2>1, <2>2, Zenon
<1>. QED BY <1>2, <1>3, <1>4, Zenon DEF UpTo, Ordered, a

-----------------------------------------------------------------------------
(* The ring.                                                               *)

LEMMA RingSize == max_len \in Nat \ {0}
  BY HistoryAssumption DEF max_len

\* The newest n elements: how many there are and which.
LEMMA NewestFacts ==
    ASSUME NEW S, NEW s \in Seq(S), NEW n \in Nat
    PROVE  /\ Newest(s, n) \in Seq(S)
           /\ Len(Newest(s, n)) = IF Len(s) <= n THEN Len(s) ELSE n
           /\ \A i \in 1 .. Len(Newest(s, n)) :
                 Newest(s, n)[i] = s[i + Len(s) - Len(Newest(s, n))]
<1>. DEFINE m == Larger(1, Len(s) - n + 1)
            q == Newest(s, n)
<1>1. Len(s) \in Nat /\ m \in Nat /\ m >= 1 /\ m <= Len(s) + 1
      /\ m = IF Len(s) <= n THEN 1 ELSE Len(s) - n + 1
  BY DEF Larger
<1>. HIDE DEF m
<1>2. q = SubSeq(s, m, Len(s))
  BY Zenon DEF Newest, m
<1>3. \A i \in m .. Len(s) : s[i] \in S
  BY <1>1
<1>4. /\ q \in Seq(S)
      /\ Len(q) = IF m <= Len(s) THEN Len(s) - m + 1 ELSE 0
      /\ \A i \in 1 .. Len(s) - m + 1 : q[i] = s[m + i - 1]
  <2>1. m \in Int /\ Len(s) \in Int
    BY <1>1
  <2>. DEFINE k == Len(s)
  <2>2. /\ SubSeq(s, m, k) \in Seq(S)
        /\ Len(SubSeq(s, m, k)) = IF m <= k THEN k - m + 1 ELSE 0
        /\ \A i \in 1 .. k - m + 1 : SubSeq(s, m, k)[i] = s[m + i - 1]
    <3>. HIDE DEF k
    <3>1. k \in Int /\ \A i \in m .. k : s[i] \in S
      BY <1>3, <2>1, Zenon DEF k
    <3>. QED BY <2>1, <3>1, SubSeqProperties
  <2>. QED BY <1>2, <2>2, Zenon
<1>. HIDE DEF q
<1>5. Len(q) = Len(s) - m + 1
  <2>. DEFINE ls == Len(s)
              lq == Len(q)
  <2>1. ls \in Nat /\ m \in Nat /\ m <= ls + 1 /\ lq = IF m <= ls THEN ls - m + 1 ELSE 0
    BY <1>1, <1>4, Zenon
  <2>. HIDE DEF ls, lq
  <2>2. lq = ls - m + 1
    BY <2>1
  <2>. QED BY <2>2, Zenon DEF ls, lq
<1>6. \A i \in 1 .. Len(q) : m + i - 1 = i + Len(s) - Len(q)
  BY <1>1, <1>5
<1>7. \A i \in 1 .. Len(q) : q[i] = s[i + Len(s) - Len(q)]
  BY <1>4, <1>5, <1>6
<1>8. Len(q) = IF Len(s) <= n THEN Len(s) ELSE n
  BY <1>1, <1>5
<1>. QED BY <1>4, <1>7, <1>8, Zenon DEF q

\* Nothing is dropped from a sequence that fits.
LEMMA NewestAll ==
    ASSUME NEW S, NEW s \in Seq(S), NEW n \in Nat, Len(s) <= n
    PROVE  Newest(s, n) = s
<1>. DEFINE q == Newest(s, n)
<1>1. q \in Seq(S) /\ Len(q) = Len(s) /\ Len(s) \in Nat
      /\ \A i \in 1 .. Len(q) : q[i] = s[i + Len(s) - Len(q)]
  BY NewestFacts
<1>. HIDE DEF q
<1>2. \A i \in 1 .. Len(q) : q[i] = s[i]
  BY <1>1
<1>3. q = s
  BY <1>1, <1>2, SeqEqual
<1>. QED BY <1>3 DEF q

\* Recording drops the oldest operation of a full ring and nothing else
\* (OpLog::record).
LEMMA RecordKeepsNewest ==
    ASSUME NEW S, NEW s \in Seq(S), NEW m \in Nat \ {0}, NEW x \in S
    PROVE  Append(Newest(Newest(s, m), m - 1), x) = Newest(Append(s, x), m)
<1>. DEFINE r == Newest(s, m)
            q == Newest(r, m - 1)
            a == Append(s, x)
            z == Newest(a, m)
            y == Append(q, x)
<1>1. r \in Seq(S) /\ Len(r) = (IF Len(s) <= m THEN Len(s) ELSE m) /\ Len(s) \in Nat
      /\ \A i \in 1 .. Len(r) : r[i] = s[i + Len(s) - Len(r)]
  BY NewestFacts
<1>. HIDE DEF r
<1>2. q \in Seq(S) /\ Len(q) = (IF Len(r) <= m - 1 THEN Len(r) ELSE m - 1)
      /\ \A i \in 1 .. Len(q) : q[i] = r[i + Len(r) - Len(q)]
  <2>1. m - 1 \in Nat
    OBVIOUS
  <2>. QED BY <1>1, <2>1, NewestFacts, Zenon
<1>3. a \in Seq(S) /\ Len(a) = Len(s) + 1 /\ a[Len(s) + 1] = x
      /\ \A i \in 1 .. Len(s) : a[i] = s[i]
  OBVIOUS
<1>. HIDE DEF a
<1>4. z \in Seq(S) /\ Len(z) = (IF Len(a) <= m THEN Len(a) ELSE m)
      /\ \A i \in 1 .. Len(z) : z[i] = a[i + Len(a) - Len(z)]
  BY <1>3, NewestFacts, Zenon
<1>. HIDE DEF q, z
<1>5. y \in Seq(S) /\ Len(y) = Len(q) + 1 /\ y[Len(q) + 1] = x
      /\ \A i \in 1 .. Len(q) : y[i] = q[i]
  BY <1>2
<1>. HIDE DEF y
<1>6. Len(y) = Len(z) /\ Len(q) \in Nat
  BY <1>1, <1>2, <1>3, <1>4, <1>5
<1>7. ASSUME NEW i \in 1 .. Len(y) PROVE y[i] = z[i]
  <2>1. z[i] = a[i + Len(a) - Len(z)]
    BY <1>4, <1>6, Zenon
  <2>2. CASE i = Len(y)
    <3>1. i + Len(a) - Len(z) = Len(s) + 1 /\ i = Len(q) + 1
      BY <1>1, <1>3, <1>5, <1>6, <2>2
    <3>. QED BY <1>3, <1>5, <2>1, <3>1, Zenon
  <2>3. CASE i # Len(y)
    <3>. DEFINE j == i + Len(r) - Len(q)
    <3>1. i \in 1 .. Len(q) /\ j \in 1 .. Len(r)
          /\ j + Len(s) - Len(r) = i + Len(a) - Len(z)
          /\ j + Len(s) - Len(r) \in 1 .. Len(s)
      <4>. DEFINE ls == Len(s)  lr == Len(r)  lq == Len(q)  la == Len(a)  lz == Len(z)  ly == Len(y)
      <4>1. ls \in Nat /\ lq \in Nat /\ la = ls + 1 /\ ly = lz /\ ly = lq + 1
            /\ lr = (IF ls <= m THEN ls ELSE m) /\ lq = (IF lr <= m - 1 THEN lr ELSE m - 1)
        BY <1>1, <1>2, <1>3, <1>5, <1>6, Zenon
      <4>2. i \in 1 .. ly /\ i # ly
        BY <2>3, Zenon
      <4>. HIDE DEF ls, lr, lq, la, lz, ly
      <4>3. /\ i \in 1 .. lq /\ i + lr - lq \in 1 .. lr
            /\ i + lr - lq + ls - lr = i + la - lz
            /\ i + lr - lq + ls - lr \in 1 .. ls
        BY <4>1, <4>2
      <4>. QED BY <4>3, Zenon DEF ls, lr, lq, la, lz, ly
    <3>2. y[i] = q[i] /\ q[i] = r[j]
      BY <1>2, <1>5, <3>1, Zenon
    <3>. HIDE DEF j
    <3>3. r[j] = s[j + Len(s) - Len(r)]
      BY <1>1, <3>1, Zenon
    <3>4. a[j + Len(s) - Len(r)] = s[j + Len(s) - Len(r)]
      BY <1>3, <3>1, Zenon
    <3>. QED BY <2>1, <3>1, <3>2, <3>3, <3>4, Zenon
  <2>. QED BY <2>2, <2>3, Zenon
<1>8. y = z
  BY <1>4, <1>5, <1>6, <1>7, SeqEqual
<1>. QED BY <1>8, Zenon DEF y, q, r, z, a

-----------------------------------------------------------------------------
(* Each action preserves HistoryInv.                                             *)

LEMMA MutatePreserves ==
    ASSUME HistoryInv, Mutate
    PROVE  HistoryInv'
<1>. DEFINE ts == now(last, wall)
            wire == now(ts, wall)
            item == [op |-> ops + 1, lsn |-> 0, timestamp |-> ts]
<1>1. /\ ops' = ops + 1 /\ last' = wire /\ issued' = issued \o <<ts, wire>>
      /\ oplog' = record(oplog, ops + 1, 0, ts)
      /\ recorded' = Append(recorded, item)
      /\ wall' = wall /\ kept' = kept /\ seen' = seen
  BY Zenon DEF Mutate
<1>2. ts \in Own /\ Advances(last, ts) /\ wire \in Own /\ Advances(ts, wire)
  <2>1. ts \in Own /\ Advances(last, ts)
    BY NowAdvances, Zenon DEF HistoryInv
  <2>. HIDE DEF ts
  <2>. QED BY <2>1, NowAdvances, Zenon DEF HistoryInv
<1>3. item \in Operations
  BY <1>2 DEF HistoryInv, Operations
<1>. HIDE DEF ts, wire
<1>4. UpTo(issued', last')
  <2>1. UpTo(Append(issued, ts), ts)
    BY <1>2, IssueNext, Zenon DEF HistoryInv
  <2>2. UpTo(Append(Append(issued, ts), wire), wire)
    BY <1>2, <2>1, IssueNext, Zenon
  <2>3. issued \o <<ts, wire>> = Append(Append(issued, ts), wire)
    <3>1. issued \in Seq(Own)
      BY Zenon DEF HistoryInv, UpTo
    <3>. QED BY <1>2, <3>1
  <2>. QED BY <1>1, <2>2, <2>3, Zenon
<1>5. \A remote \in seen : After(remote, wire)
  <2>1. TAKE remote \in seen
  <2>2. remote \in Stamps /\ After(remote, last) /\ last \in Own
    BY Zenon DEF HistoryInv
  <2>3. After(remote, ts)
    BY <1>2, <2>2, AfterKept, Zenon
  <2>. QED BY <1>2, <2>2, <2>3, AfterKept, Zenon
<1>6. oplog' = Newest(recorded', max_len)
  <2>1. oplog' = Append(Newest(oplog, max_len - 1), item)
    BY <1>1, Zenon DEF record
  <2>2. oplog = Newest(recorded, max_len) /\ recorded \in Seq(Operations)
    BY Zenon DEF HistoryInv
  <2>. HIDE DEF item
  <2>. QED BY <1>1, <1>3, <2>1, <2>2, RingSize, RecordKeepsNewest, Zenon
<1>7. recorded' \in Seq(Operations)
  <2>. HIDE DEF item
  <2>. QED BY <1>1, <1>3 DEF HistoryInv
<1>8. ops' \in Nat
  BY <1>1 DEF HistoryInv
<1>. QED BY <1>1, <1>2, <1>4, <1>5, <1>6, <1>7, <1>8, Zenon DEF HistoryInv, max_len

LEMMA ObservePreserves ==
    ASSUME HistoryInv, Observe
    PROVE  HistoryInv'
<1>1. PICK remote \in Remotes \ seen :
         /\ last' = observe(last, wall, remote)
         /\ seen' = seen \cup {remote}
         /\ UNCHANGED <<wall, oplog, kept, issued, recorded, ops>>
  BY Zenon DEF Observe
<1>2. remote \in Stamps
  BY HistoryAssumption DEF Stamps
<1>3. last' \in Own /\ Advances(last, last') /\ After(remote, last')
  BY <1>1, <1>2, ObserveAdvances, Zenon DEF HistoryInv
<1>4. UpTo(issued, last')
  <2>1. issued \in Seq(Own) /\ Ordered(issued) /\ last \in Own
        /\ (issued # <<>> => NotBefore(issued[Len(issued)], last))
    BY Zenon DEF HistoryInv, UpTo
  <2>2. ASSUME NEW b \in Own, NotBefore(b, last) PROVE NotBefore(b, last')
    BY <1>3, <2>1, <2>2, OwnFields DEF NotBefore, Advances
  <2>3. issued # <<>> => issued[Len(issued)] \in Own
    BY <2>1
  <2>. QED BY <2>1, <2>2, <2>3, Zenon DEF UpTo
<1>5. \A r \in seen' : r \in Stamps /\ After(r, last')
  <2>1. ASSUME NEW r \in seen PROVE r \in Stamps /\ After(r, last')
    BY <1>3, <2>1, AfterKept, Zenon DEF HistoryInv
  <2>. QED BY <1>1, <1>2, <1>3, <2>1, Zenon
<1>. QED BY <1>1, <1>3, <1>4, <1>5, Zenon DEF HistoryInv, max_len

LEMMA CommitPreserves ==
    ASSUME HistoryInv, Commit
    PROVE  HistoryInv'
<1>1. /\ kept' = oplog /\ last' = now(last, wall) /\ issued' = Append(issued, last')
      /\ wall' = wall /\ oplog' = oplog /\ recorded' = recorded /\ seen' = seen /\ ops' = ops
  BY Zenon DEF Commit
<1>2. last' \in Own /\ Advances(last, last')
  BY <1>1, NowAdvances, Zenon DEF HistoryInv
<1>3. UpTo(issued', last')
  BY <1>1, <1>2, IssueNext, Zenon DEF HistoryInv
<1>4. \A remote \in seen' : After(remote, last')
  BY <1>1, <1>2, AfterKept, Zenon DEF HistoryInv
<1>5. kept' \in Seq(Operations) /\ Len(kept') <= max_len
  <2>1. oplog = Newest(recorded, max_len) /\ recorded \in Seq(Operations)
    BY Zenon DEF HistoryInv
  <2>. QED BY <1>1, <2>1, RingSize, NewestFacts
<1>. QED BY <1>1, <1>2, <1>3, <1>4, <1>5, Zenon DEF HistoryInv, max_len

\* HistoryInv is inductive: it holds at first, every action keeps it, and a new
\* process reads a ring that fits its own.
LEMMA HistoryInductive ==
    /\ HistoryInit => HistoryInv
    /\ HistoryInv /\ [HistoryNext]_hvars => HistoryInv'
<1>1. ASSUME HistoryInit PROVE HistoryInv
  <2>1. new_clock \in Own
    BY HistoryAssumption DEF new_clock, Stamp, Own
  <2>2. UpTo(<<>>, new_clock)
    BY DEF UpTo, Ordered
  <2>3. Newest(<<>>, max_len) = <<>>
    <3>1. <<>> \in Seq(Operations) /\ Len(<<>>) <= max_len /\ max_len \in Nat
      BY RingSize
    <3>. QED BY <3>1, NewestAll, Zenon
  <2>4. Len(<<>>) <= max_len /\ <<>> \in Seq(Operations)
    BY RingSize
  <2>5. wall \in Int /\ ops \in Nat
    BY <1>1 DEF HistoryInit
  <2>. QED BY <1>1, <2>1, <2>2, <2>3, <2>4, <2>5, Zenon DEF HistoryInit, HistoryInv
<1>2. ASSUME HistoryInv, [HistoryNext]_hvars PROVE HistoryInv'
  <2>1. CASE SetWall
    <3>1. wall' \in Int
      BY <2>1, HistoryAssumption DEF SetWall
    <3>. QED BY <1>2, <2>1, <3>1, Zenon DEF SetWall, HistoryInv, max_len
  <2>2. CASE Mutate
    BY <1>2, <2>2, MutatePreserves, Zenon
  <2>3. CASE Observe
    BY <1>2, <2>3, ObservePreserves, Zenon
  <2>4. CASE Commit
    BY <1>2, <2>4, CommitPreserves, Zenon
  <2>5. CASE Reopen
    <3>1. /\ last' = new_clock /\ oplog' = kept /\ issued' = <<>> /\ seen' = {}
          /\ recorded' = kept /\ wall' = wall /\ kept' = kept /\ ops' = ops
      BY <2>5, Zenon DEF Reopen
    <3>2. new_clock \in Own
      BY HistoryAssumption DEF new_clock, Stamp, Own
    <3>3. UpTo(<<>>, new_clock)
      BY DEF UpTo, Ordered
    <3>4. kept = Newest(kept, max_len)
      BY <1>2, RingSize, NewestAll, Zenon DEF HistoryInv
    <3>. QED BY <1>2, <3>1, <3>2, <3>3, <3>4, Zenon DEF HistoryInv, max_len
  <2>6. CASE UNCHANGED hvars
    BY <1>2, <2>6, Zenon DEF hvars, HistoryInv, max_len
  <2>. QED BY <1>2, <2>1, <2>2, <2>3, <2>4, <2>5, <2>6, Zenon DEF HistoryNext
<1>. QED BY <1>1, <1>2, Zenon

\* However the wall clock is set, the timestamps of one process never go back
\* and none is before a remote timestamp merged earlier, and the ring holds
\* the newest operations across commits and restarts (HybridClock::now and
\* observe, OpLog::record).
THEOREM HistoryIsOrdered == HistorySpec => []HistoryOrdered
<1>1. HistoryInv => HistoryOrdered
  BY Zenon DEF HistoryInv, UpTo, Ordered, After, HistoryOrdered
<1>. QED BY <1>1, HistoryInductive, PTL DEF HistorySpec
=============================================================================
