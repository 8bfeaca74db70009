-------------------------- MODULE DiskEngineProofs --------------------------
(***************************************************************************)
(* Proofs about DiskEngine, for every number of objects and tags, every    *)
(* ontology, log capacity and number of entries, and every crash: the      *)
(* inductive invariant DiskInv, one lemma per action, and what follows     *)
(* from it for the object table, the ids, the root and the log.            *)
(*                                                                         *)
(* Regions need only their shape to be loaded. What makes the object table *)
(* come back is ObjectsKept: each record, content and the id counter is    *)
(* either in the regions or in an entry that will be replayed, and no      *)
(* entry says more than the history.                                       *)
(***************************************************************************)
EXTENDS ReplayProofs, FiniteSetTheorems

-----------------------------------------------------------------------------
(* What a save leaves in the regions.                                      *)

\* A row of the forward index has finitely many attributes, so the number of
\* placeholders it is read back with is a number.
LEMMA PlaceholdersTyped ==
    ASSUME NEW attrs \in [Oids -> [Attrs -> Nat]]
    PROVE  Placeholders(attrs) \in [Oids -> [Attrs -> Nat]]
<1>1. ASSUME NEW o \in Oids, NEW k PROVE Cardinality(CopiesOf(attrs[o], k)) \in Nat
  <2>. DEFINE B == {b \in Attrs : b[1] = k}
              f == [a \in B |-> {a} \X (1 .. attrs[o][a])]
              T == {{a} \X (1 .. attrs[o][a]) : a \in B}
  <2>1. IsFiniteSet(Attrs)
    BY FiniteAssumption, FS_Product, Zenon DEF Attrs
  <2>2. IsFiniteSet(B)
    BY <2>1, FS_Subset, Zenon
  <2>3. f \in Surjection(B, T)
    BY Zenon DEF Surjection
  <2>4. IsFiniteSet(T)
    BY <2>2, <2>3, FS_Surjection, Zenon
  <2>5. ASSUME NEW a \in B PROVE IsFiniteSet({a} \X (1 .. attrs[o][a]))
    <3>1. attrs[o][a] \in Int /\ 1 \in Int
      OBVIOUS
    <3>2. IsFiniteSet(1 .. attrs[o][a]) /\ IsFiniteSet({a})
      BY <3>1, FS_Interval, FS_Singleton, Zenon
    <3>. QED BY <3>2, FS_Product, Zenon
  <2>6. \A U \in T : IsFiniteSet(U)
    BY <2>5, Zenon
  <2>7. IsFiniteSet(UNION T)
    BY <2>4, <2>6, FS_UNION, Zenon
  <2>. QED BY <2>7, FS_CardinalityType, Zenon DEF CopiesOf
<1>. QED BY <1>1, ZenonT(60) DEF Placeholders

\* The seven regions, in the order save_index_state writes them.
LEMMA RegionNames ==
    /\ Regions = {"kv", "fwd", "tag", "range", "obj", "onto", "blob"}
    /\ Len(RegionOrder) = 7
    /\ RegionOrder[1] = "kv" /\ RegionOrder[2] = "fwd" /\ RegionOrder[3] = "tag"
    /\ RegionOrder[4] = "range" /\ RegionOrder[5] = "obj" /\ RegionOrder[6] = "onto"
    /\ RegionOrder[7] = "blob"
<1>1. /\ DOMAIN RegionOrder = 1 .. 7 /\ Len(RegionOrder) = 7
      /\ RegionOrder[1] = "kv" /\ RegionOrder[2] = "fwd" /\ RegionOrder[3] = "tag"
      /\ RegionOrder[4] = "range" /\ RegionOrder[5] = "obj" /\ RegionOrder[6] = "onto"
      /\ RegionOrder[7] = "blob"
  BY DEF RegionOrder
<1>2. 1 .. 7 = {1, 2, 3, 4, 5, 6, 7}
  OBVIOUS
<1>3. Regions = {RegionOrder[i] : i \in {1, 2, 3, 4, 5, 6, 7}}
  BY <1>1, <1>2, Zenon DEF Regions, Range
<1>4. Regions = {"kv", "fwd", "tag", "range", "obj", "onto", "blob"}
  BY <1>1, <1>3, Zenon
<1>. QED BY <1>1, <1>4, Zenon

\* The shape of each region by itself.
RegionShape(r, c) ==
    CASE r = "kv" -> c \in [Attrs -> SUBSET Oids]
      [] r = "fwd" -> /\ c.tags \in [Oids -> [Tags -> Origins]]
                      /\ c.attrs \in [Oids -> [Attrs -> Nat]]
                      /\ c.rels \in [Oids -> [Rels -> Nat]]
      [] r = "tag" -> c \in [stores : SUBSET Tags, idx : [Tags -> SUBSET Oids]]
      [] r = "range" -> c \in [NormKeys -> SUBSET Oids]
      [] r = "obj" -> /\ c.obj \in [Oids -> {"none", "active", "tomb"}]
                      /\ c.content \in [Oids -> Contents \cup {NoContent}]
      [] r = "onto" -> c.known \in SUBSET Tags /\ c.impl \in SUBSET (Tags \X Tags)
      [] r = "blob" -> c.next_oid \in 1 .. MaxOid + 1 /\ c.applied \in Nat

\* Seven well-shaped regions are a disk that open can load.
LEMMA ShapeByRegion ==
    ASSUME NEW d, \A r \in Regions : RegionShape(r, d[r])
    PROVE  DiskShape(d)
<1>1. /\ RegionShape("kv", d["kv"]) /\ RegionShape("fwd", d["fwd"])
      /\ RegionShape("tag", d["tag"]) /\ RegionShape("range", d["range"])
      /\ RegionShape("obj", d["obj"]) /\ RegionShape("onto", d["onto"])
      /\ RegionShape("blob", d["blob"])
  BY RegionNames, Zenon
<1>. QED BY <1>1, Zenon DEF RegionShape, DiskShape

\* save_index_state.
LEMMA WrittenShape ==
    ASSUME NEW e \in Engines, applied \in Nat, NEW r \in Regions
    PROVE  RegionShape(r, Written(e, r))
<1>1. /\ e.obj \in [Oids -> {"none", "active", "tomb"}]
      /\ e.content \in [Oids -> Contents \cup {NoContent}]
      /\ e.tags \in [Oids -> [Tags -> Origins]]
      /\ e.attrs \in [Oids -> [Attrs -> Nat]]
      /\ e.rels \in [Oids -> [Rels -> Nat]]
      /\ e.tagidx \in [Tags -> SUBSET Oids] /\ e.stores \in SUBSET Tags
      /\ e.kv \in [Attrs -> SUBSET Oids]
      /\ e.range \in [NormKeys -> SUBSET Oids]
      /\ e.known \in SUBSET Tags /\ e.impl \in SUBSET (Tags \X Tags)
      /\ e.next_oid \in 1 .. MaxOid + 1
  BY Zenon DEF Engines, Origins
<1>2. Placeholders(e.attrs) \in [Oids -> [Attrs -> Nat]]
  BY <1>1, PlaceholdersTyped, Zenon
<1>. QED BY <1>1, <1>2, RegionNames, Zenon DEF Written, RegionShape

\* A region never written, or torn.
LEMMA EmptyShape ==
    ASSUME NEW r \in Regions PROVE RegionShape(r, EmptyRegion(r))
<1>1. 1 \in 1 .. MaxOid + 1
  BY OidAssumption
<1>. QED BY <1>1, RegionNames, ZenonT(60) DEF EmptyRegion, NewEngine, RegionShape, Origins

\* Pages half rewritten are still pages.
LEMMA RepagedKv ==
    ASSUME NEW old \in [Attrs -> SUBSET Oids], NEW new \in [Attrs -> SUBSET Oids], NEW j
    PROVE  Repaged(old, KvKeys(old), new, KvKeys(new), AttrLess, j)
               \in [Attrs -> SUBSET Oids]
<1>1. KvKeys(new) \subseteq Attrs
  BY Zenon DEF KvKeys
<1>. QED BY <1>1, Zenon DEF Repaged

\* Half rewritten posting pages of the tag index.
LEMMA RepagedTag ==
    ASSUME NEW old \in [Tags -> SUBSET Oids], NEW new \in [Tags -> SUBSET Oids], NEW j,
           NEW S, NEW T \in SUBSET Tags
    PROVE  Repaged(old, S, new, T, TagLess, j) \in [Tags -> SUBSET Oids]
BY Zenon DEF Repaged

\* A region whose save was cut short still has its shape: torn runs read
\* back empty, half rewritten pages as pages.
LEMMA PartialShape ==
    ASSUME NEW r \in Regions, NEW old, RegionShape(r, old), NEW new, RegionShape(r, new),
           NEW part \in Partial(r, old, new)
    PROVE  RegionShape(r, part)
<1>0. \A c \in TornRun(r, old, new) : RegionShape(r, c)
  BY EmptyShape, Zenon DEF TornRun
<1>1. CASE r = "kv"
  <2>1. \E j : part = Repaged(old, KvKeys(old), new, KvKeys(new), AttrLess, j)
    BY <1>1, Zenon DEF Partial
  <2>2. old \in [Attrs -> SUBSET Oids] /\ new \in [Attrs -> SUBSET Oids]
    BY <1>1, Zenon DEF RegionShape
  <2>3. part \in [Attrs -> SUBSET Oids]
    BY <2>1, <2>2, RepagedKv
  <2>. QED BY <1>1, <2>3, Zenon DEF RegionShape
<1>2. CASE r = "tag"
  <2>1. /\ old \in [stores : SUBSET Tags, idx : [Tags -> SUBSET Oids]]
        /\ new \in [stores : SUBSET Tags, idx : [Tags -> SUBSET Oids]]
    BY <1>2, Zenon DEF RegionShape
  <2>2. \/ part \in TornRun(r, old, new)
        \/ \E j : part = [old EXCEPT !.idx = Repaged(old.idx, old.stores, new.idx,
                                                     new.stores, TagLess, j)]
    BY <1>2, Zenon DEF Partial
  <2>3. ASSUME NEW j, part = [old EXCEPT !.idx = Repaged(old.idx, old.stores, new.idx,
                                                         new.stores, TagLess, j)]
        PROVE  RegionShape(r, part)
    <3>1. Repaged(old.idx, old.stores, new.idx, new.stores, TagLess, j)
              \in [Tags -> SUBSET Oids]
      BY <2>1, RepagedTag, Zenon
    <3>. QED BY <1>2, <2>1, <2>3, <3>1, Zenon DEF RegionShape
  <2>. QED BY <1>0, <2>2, <2>3, Zenon
<1>3. CASE r \in {"fwd", "range", "onto"}
  <2>1. part = old \/ part \in TornRun(r, old, new)
    BY <1>3, Zenon DEF Partial
  <2>. QED BY <1>0, <2>1, Zenon
<1>4. CASE r \in {"obj", "blob"}
  <2>1. part = old
    BY <1>4, Zenon DEF Partial
  <2>. QED BY <2>1, Zenon
<1>. QED BY <1>1, <1>2, <1>3, <1>4, RegionNames, Zenon

\* Engine::new.
LEMMA NewEngineTyped ==
    ASSUME NEW known \in SUBSET Tags, NEW impl \in SUBSET (Tags \X Tags)
    PROVE  NewEngine(known, impl) \in Engines
<1>1. 1 \in 1 .. MaxOid + 1
  BY OidAssumption
<1>. QED BY <1>1, Zenon DEF NewEngine, Engines

\* The last of a nonempty set of log positions.
LEMMA MaxExists ==
    ASSUME NEW n \in Nat, NEW S \in SUBSET (1 .. n), S # {}
    PROVE  Max(S) \in S /\ \A y \in S : Max(S) >= y
<1>. DEFINE T == {k \in Nat : \A U \in SUBSET (1 .. k) :
                                  U # {} => \E x \in U : \A y \in U : x >= y}
<1>1. 0 \in T
  <2>1. 1 .. 0 = {}
    OBVIOUS
  <2>. QED BY <2>1, Zenon
<1>2. ASSUME NEW k \in Nat, k \in T PROVE k + 1 \in T
  <2>. SUFFICES ASSUME NEW U \in SUBSET (1 .. k + 1), U # {}
                PROVE  \E x \in U : \A y \in U : x >= y
    OBVIOUS
  <2>1. CASE k + 1 \in U
    BY <2>1
  <2>2. CASE k + 1 \notin U
    <3>1. U \in SUBSET (1 .. k)
      BY <2>2
    <3>. QED BY <1>2, <3>1, Zenon
  <2>. QED BY <2>1, <2>2, Zenon
<1>3. n \in T
  <2>. HIDE DEF T
  <2>. QED BY <1>1, <1>2, SetInduction, Zenon
<1>4. \E x \in S : \A y \in S : x >= y
  BY <1>3, Zenon
<1>. QED BY <1>4, Zenon DEF Max

-----------------------------------------------------------------------------
(* The inductive invariant.                                                *)

\* Memory, history and regions.
EngineShape ==
    mem \in Engines /\ ref \in Engines /\ \A r \in Regions : RegionShape(r, disk[r])

\* The log is in order, and LSNs are handed out once.
LogShape ==
    /\ log \in Seq(Entries) /\ LogOrdered(log) /\ Len(log) <= Capacity
    /\ \A i \in 1 .. Len(log) : log[i].lsn < next_lsn
    /\ next_lsn \in 1 .. MaxLsn + 1
    /\ applied \in Nat /\ applied < next_lsn /\ disk["blob"].applied < next_lsn

\* A refused call leaves the log full for good, and nothing is logged any more.
ControlShape ==
    /\ pc \in {"idle", "log", "ckpt", "trim", "flip", "down", "read_only"}
    /\ events \subseteq {"refused", "unlogged", "cut", "again"}
    /\ pc = "log" => op \in Ops
    /\ "refused" \in events => LogIsFull /\ pc \notin {"log", "trim", "flip"}

\* The regions hold r's object table.
ObjectsSavedAs(d, r) ==
    /\ d["obj"].obj = r.obj /\ d["obj"].content = r.content
    /\ d["blob"].next_oid = r.next_oid

\* Until a call is refused, memory, history, and what regions and log stand
\* for agree on the objects.
Objects ==
    "refused" \notin events =>
        /\ ObjectsKept(disk, log, ref)
        /\ pc \in {"idle", "read_only", "ckpt", "trim", "flip"} => SameObjects(mem, ref)
        /\ pc = "log" => Accepts(ref, op) /\ SameObjects(mem, Live(ref, op))
        /\ pc \in {"ckpt", "trim", "flip"} => ObjectsSavedAs(disk, ref)

DiskInv == EngineShape /\ LogShape /\ ControlShape /\ Objects

\* A new pool: an empty log over empty regions and the built-in ontology.
LEMMA DiskInvInit == Init => DiskInv
<1>. SUFFICES ASSUME Init PROVE DiskInv
  BY Zenon
<1>1. mem \in Engines /\ ref \in Engines
  <2>1. InitKnown \in SUBSET Tags /\ InitImpl \in SUBSET (Tags \X Tags)
    BY OntologyAssumption, Zenon
  <2>. QED BY <2>1, NewEngineTyped, Zenon DEF Init
<1>2. ASSUME NEW r \in Regions PROVE RegionShape(r, disk[r])
  <2>1. CASE r = "onto"
    <3>1. disk[r] = [known |-> InitKnown, impl |-> InitImpl]
      BY <2>1, Zenon DEF Init
    <3>. QED BY <2>1, <3>1, OntologyAssumption DEF RegionShape
  <2>2. CASE r # "onto"
    <3>1. disk[r] = EmptyRegion(r)
      BY <2>2, Zenon DEF Init
    <3>. QED BY <3>1, EmptyShape, Zenon
  <2>. QED BY <2>1, <2>2, Zenon
<1>3. disk["blob"] = EmptyRegion("blob") /\ disk["obj"] = EmptyRegion("obj")
  BY RegionNames, Zenon DEF Init
<1>4. /\ disk["blob"].applied = 0 /\ disk["blob"].next_oid = 1
      /\ disk["obj"].obj = [o \in Oids |-> "none"]
      /\ disk["obj"].content = [o \in Oids |-> NoContent]
  BY <1>3, SMTT(60) DEF EmptyRegion, NewEngine
<1>5. LogShape
  <2>1. log \in Seq(Entries) /\ Len(log) = 0 /\ 1 .. 0 = {}
    BY DEF Init
  <2>2. next_lsn = 2 /\ applied = 1 /\ 2 \in 1 .. MaxLsn + 1 /\ 0 <= Capacity
    BY LogAssumption DEF Init
  <2>. QED BY <1>4, <2>1, <2>2 DEF LogShape, LogOrdered
<1>6. ControlShape
  BY Zenon DEF Init, ControlShape
<1>7. Objects
  <2>1. /\ ref.obj = [o \in Oids |-> "none"] /\ ref.next_oid = 1
        /\ ref.content = [o \in Oids |-> NoContent]
    BY Zenon DEF Init, NewEngine
  <2>2. \A o \in Oids : ref.obj[o] # "none" <=> o < ref.next_oid
    BY <2>1 DEF Oids
  <2>3. DiskShape(disk)
    BY <1>2, ShapeByRegion, Zenon
  <2>4. ObjectsKept(disk, << >>, ref)
    BY <1>1, <1>4, <2>1, <2>2, <2>3, ObjectsTrimmed, Zenon
  <2>. QED BY <2>4, Zenon DEF Init, Objects, SameObjects
<1>. QED BY <1>1, <1>2, <1>5, <1>6, <1>7, Zenon DEF DiskInv, EngineShape

\* A step that leaves regions, log and history alone.
LEMMA LogFrame ==
    ASSUME DiskInv, disk' = disk, log' = log, next_lsn' = next_lsn,
           applied' \in Nat, applied' < next_lsn
    PROVE  LogShape'
BY Zenon DEF DiskInv, LogShape, LogOrdered

\* The in-memory half of a mutation; log and regions do not change.
LEMMA MutateInv == ASSUME DiskInv, NEW o \in Ops, Mutate(o) PROVE DiskInv'
<1>1. mem \in Engines /\ ref \in Engines /\ mem' = Live(mem, o)
  BY Zenon DEF DiskInv, EngineShape, Mutate
<1>2. pc = "idle" /\ Accepts(mem, o) /\ "refused" \notin events
  BY Zenon DEF DiskInv, ControlShape, Mutate
<1>3. o.kind = "create" => o.oid = mem.next_oid
  BY <1>2, Zenon DEF Accepts
<1>4. mem' \in Engines
  BY <1>1, <1>3, LiveFields, Zenon
<1>5. EngineShape'
  BY <1>4, Zenon DEF DiskInv, EngineShape, Mutate
<1>6. LogShape'
  BY LogFrame, Zenon DEF Mutate, DiskInv, LogShape
<1>7. ControlShape'
  BY <1>2, Zenon DEF DiskInv, ControlShape, Mutate
<1>8. SameObjects(mem, ref)
  BY <1>2, Zenon DEF DiskInv, Objects
<1>9. Accepts(ref, o) /\ SameObjects(mem', Live(ref, o))
  <2>1. Accepts(ref, o)
    BY <1>2, <1>8, Zenon DEF Accepts, SameObjects, HasRecord
  <2>. QED BY <1>1, <1>3, <1>8, <2>1, LiveSameObjects, Zenon
<1>10. Objects'
  BY <1>2, <1>9, Zenon DEF DiskInv, Objects, Mutate
<1>. QED BY <1>5, <1>6, <1>7, <1>10, Zenon DEF DiskInv

\* One more entry keeps the log in order.
LEMMA LogAppends ==
    ASSUME DiskInv, ~LogIsFull, next_lsn <= MaxLsn, NEW o \in Ops \cup {CheckpointOp},
           log' = Append(log, Entry(o)), next_lsn' = next_lsn + 1, disk' = disk,
           applied' \in Nat, applied' < next_lsn
    PROVE  LogShape' /\ Entry(o) \in Entries /\ Entry(o).op = o
           /\ ~(Entry(o).lsn <= disk["blob"].applied)
<1>. DEFINE x == Entry(o)
            k == Len(log) + 1
<1>1. /\ log \in Seq(Entries) /\ Len(log) \in Nat /\ Len(log) <= Capacity
      /\ next_lsn \in Nat /\ next_lsn \in 1 .. MaxLsn + 1 /\ disk["blob"].applied \in Nat
  <2>1. disk["blob"].applied \in Nat
    BY RegionNames, Zenon DEF DiskInv, EngineShape, RegionShape
  <2>. QED BY <2>1, LogAssumption DEF DiskInv, LogShape
<1>2. x \in Entries /\ x.op = o /\ x.lsn = next_lsn
  BY <1>1, Zenon DEF Entry, Entries
<1>3. ~(x.lsn <= disk["blob"].applied)
  BY <1>1, <1>2 DEF DiskInv, LogShape
<1>. HIDE DEF x
<1>4. /\ log' \in Seq(Entries) /\ Len(log') = k /\ log'[k] = x
      /\ \A i \in 1 .. Len(log) : log'[i] = log[i]
  <2>1. log' = Append(log, x)
    BY Zenon DEF x
  <2>. QED BY <1>1, <1>2, <2>1
<1>5. Len(log') <= Capacity
  BY <1>1, <1>4, LogAssumption DEF LogIsFull
<1>6. \A i \in 1 .. k : (i \in 1 .. Len(log) /\ log'[i] = log[i]) \/ (i = k /\ log'[i] = x)
  BY <1>1, <1>4
<1>7. \A i \in 1 .. Len(log) : log[i].lsn < next_lsn /\ log[i].lsn \in Nat
  <2>1. \A i \in 1 .. Len(log) : log[i] \in Entries
    BY <1>1
  <2>. QED BY <2>1, Zenon DEF DiskInv, LogShape, Entries
<1>8. \A i \in 1 .. Len(log') : log'[i].lsn < next_lsn'
  <2>. SUFFICES ASSUME NEW i \in 1 .. Len(log') PROVE log'[i].lsn < next_lsn + 1
    BY Zenon
  <2>1. CASE i = k
    BY <1>1, <1>2, <1>4, <2>1
  <2>2. CASE i # k
    <3>1. i \in 1 .. Len(log) /\ log'[i] = log[i]
      BY <1>4, <1>6, <2>2, Zenon
    <3>. QED BY <1>1, <1>7, <3>1
  <2>. QED BY <2>1, <2>2, Zenon
<1>9. LogOrdered(log')
  <2>. SUFFICES ASSUME NEW i \in 1 .. k, NEW j \in 1 .. k, i < j
                PROVE  log'[i].lsn < log'[j].lsn
    BY <1>4, Zenon DEF LogOrdered
  <2>1. i \in 1 .. Len(log) /\ log'[i] = log[i]
    BY <1>1, <1>6
  <2>2. CASE j = k
    BY <1>2, <1>4, <1>7, <2>1, <2>2, Zenon
  <2>3. CASE j # k
    <3>1. j \in 1 .. Len(log) /\ log'[j] = log[j]
      BY <1>6, <2>3, Zenon
    <3>. QED BY <2>1, <3>1, Zenon DEF DiskInv, LogShape, LogOrdered
  <2>. QED BY <2>2, <2>3, Zenon
<1>10. next_lsn' \in 1 .. MaxLsn + 1 /\ applied' < next_lsn'
       /\ disk'["blob"].applied < next_lsn'
  BY <1>1, LogAssumption DEF DiskInv, LogShape
<1>. QED BY <1>2, <1>3, <1>4, <1>5, <1>8, <1>9, <1>10, Zenon DEF LogShape, x

\* append_wal, whether or not the process lives to see it succeed.
LEMMA AppendKeeps ==
    ASSUME DiskInv, pc = "log", ~LogIsFull, next_lsn <= MaxLsn,
           log' = Append(log, Entry(op)), next_lsn' = next_lsn + 1, disk' = disk,
           ref' = Live(ref, op), applied' \in Nat, applied' < next_lsn
    PROVE  /\ LogShape' /\ ref' \in Engines
           /\ ObjectsKept(disk', log', ref')
           /\ SameObjects(mem, ref')
<1>1. op \in Ops /\ "refused" \notin events
  BY Zenon DEF DiskInv, ControlShape
<1>2. LogShape' /\ Entry(op) \in Entries /\ Entry(op).op = op
      /\ ~(Entry(op).lsn <= disk["blob"].applied)
  BY <1>1, LogAppends, Zenon
<1>3. ~Skips(disk, Entry(op))
  <2>1. op # CheckpointOp
    <3>1. op.kind # CheckpointOp.kind
      BY <1>1, OpShape, Zenon DEF Kinds, CheckpointOp
    <3>. QED BY <3>1, Zenon
  <2>. QED BY <1>2, <2>1, Zenon DEF Skips
<1>4. /\ ref \in Engines /\ DiskShape(disk) /\ log \in Seq(Entries)
      /\ Accepts(ref, op) /\ SameObjects(mem, Live(ref, op)) /\ ObjectsKept(disk, log, ref)
  BY <1>1, ShapeByRegion, Zenon DEF DiskInv, EngineShape, LogShape, Objects
<1>5. ref' \in Engines
  BY <1>1, <1>4, LiveFields, Zenon DEF Accepts
<1>6. ObjectsKept(disk, Append(log, Entry(op)), Live(ref, op))
  BY <1>1, <1>2, <1>3, <1>4, ObjectsAppend, Zenon
<1>. QED BY <1>2, <1>4, <1>5, <1>6, Zenon

\* The append acknowledges it: the entry stands for the change.
LEMMA LogMutationInv == ASSUME DiskInv, LogMutation PROVE DiskInv'
<1>1. /\ LogShape' /\ ref' \in Engines /\ ObjectsKept(disk', log', ref')
      /\ SameObjects(mem, ref')
  BY AppendKeeps, Zenon DEF LogMutation, DiskInv, LogShape
<1>2. EngineShape'
  BY <1>1, Zenon DEF DiskInv, EngineShape, LogMutation
<1>3. ControlShape'
  BY Zenon DEF DiskInv, ControlShape, LogMutation
<1>4. Objects'
  BY <1>1, Zenon DEF Objects, SameObjects, LogMutation
<1>. QED BY <1>1, <1>2, <1>3, <1>4, Zenon DEF DiskInv

\* RingFull: from here on memory is ahead of the log.
LEMMA LogRefusedInv == ASSUME DiskInv, LogRefused PROVE DiskInv'
<1>1. EngineShape' /\ Objects'
  BY Zenon DEF DiskInv, EngineShape, Objects, LogRefused
<1>2. LogShape'
  BY LogFrame, Zenon DEF LogRefused, DiskInv, LogShape
<1>3. ControlShape'
  BY Zenon DEF DiskInv, ControlShape, LogRefused, LogIsFull
<1>. QED BY <1>1, <1>2, <1>3, Zenon DEF DiskInv

\* Only the object table of the history matters to ObjectsKept.
LEMMA ObjectsKeptSame ==
    ASSUME NEW d, NEW l, NEW r, NEW f, SameObjects(r, f), ObjectsKept(d, l, r)
    PROVE  ObjectsKept(d, l, f)
BY SMTT(60) DEF ObjectsKept, RecordsKept, ContentsKept, CounterKept, SameObjects

\* register_tag changes the ontology and no object.
LEMMA RegisterTagInv == ASSUME DiskInv, RegisterTag PROVE DiskInv'
<1>1. PICK id \in Tags : /\ mem' = [mem EXCEPT !.known = @ \cup {id}]
                         /\ ref' = [ref EXCEPT !.known = @ \cup {id}]
  BY Zenon DEF RegisterTag
<1>2. /\ mem \in Engines /\ ref \in Engines /\ UNCHANGED <<disk, log, next_lsn, pc, events, applied, op>>
      /\ pc = "idle"
  BY Zenon DEF DiskInv, EngineShape, RegisterTag
<1>3. /\ mem' \in Engines /\ ref' \in Engines
      /\ SameObjects(mem, mem') /\ SameObjects(ref, ref')
  BY <1>1, <1>2, Zenon DEF Engines, SameObjects
<1>4. EngineShape'
  BY <1>2, <1>3, Zenon DEF DiskInv, EngineShape
<1>5. LogShape'
  BY <1>2, LogFrame, Zenon DEF DiskInv, LogShape
<1>6. ControlShape'
  BY <1>2, Zenon DEF DiskInv, ControlShape, LogIsFull
<1>7. ASSUME "refused" \notin events
      PROVE  ObjectsKept(disk', log', ref') /\ SameObjects(mem', ref')
  <2>1. ObjectsKept(disk, log, ref) /\ SameObjects(mem, ref)
    BY <1>2, <1>7, Zenon DEF DiskInv, Objects
  <2>2. SameObjects(mem', ref')
    BY <1>3, <2>1, Zenon DEF SameObjects
  <2>. QED BY <1>2, <1>3, <2>1, <2>2, ObjectsKeptSame, Zenon
<1>8. Objects'
  BY <1>2, <1>7, Zenon DEF Objects
<1>. QED BY <1>4, <1>5, <1>6, <1>8, Zenon DEF DiskInv

\* save_index_state over regions that the log still covers.
LEMMA SaveIndexStateInv == ASSUME DiskInv, SaveIndexState PROVE DiskInv'
<1>1. /\ mem \in Engines /\ ref \in Engines /\ applied \in Nat /\ applied < next_lsn
      /\ DiskShape(disk) /\ log \in Seq(Entries) /\ LogOrdered(log)
  BY ShapeByRegion, Zenon DEF DiskInv, EngineShape, LogShape
<1>2. \A r \in Regions : disk'[r] = Written(mem, r)
  BY Zenon DEF SaveIndexState
<1>3. \A r \in Regions : RegionShape(r, disk'[r])
  BY <1>1, <1>2, WrittenShape, Zenon
<1>4. /\ disk'["obj"] = [obj |-> mem.obj, content |-> mem.content]
      /\ disk'["blob"] = [next_oid |-> mem.next_oid, applied |-> applied]
  BY <1>2, RegionNames, Zenon DEF Written
<1>5. /\ disk'["obj"].obj = mem.obj /\ disk'["obj"].content = mem.content
      /\ disk'["blob"].next_oid = mem.next_oid /\ disk'["blob"].applied = applied
  BY <1>4
<1>6. EngineShape'
  BY <1>3, Zenon DEF DiskInv, EngineShape, SaveIndexState
<1>7. LogShape'
  BY <1>1, <1>5, Zenon DEF DiskInv, LogShape, SaveIndexState
<1>8. ControlShape'
  BY Zenon DEF DiskInv, ControlShape, SaveIndexState, LogIsFull
<1>9. ASSUME "refused" \notin events
      PROVE  ObjectsKept(disk', log, ref) /\ SameObjects(mem, ref) /\ ObjectsSavedAs(disk', ref)
  <2>1. ObjectsKept(disk, log, ref) /\ SameObjects(mem, ref)
    BY <1>9, Zenon DEF DiskInv, Objects, SaveIndexState
  <2>2. ObjectsSavedAs(disk', ref)
    BY <1>5, <2>1, Zenon DEF SameObjects, ObjectsSavedAs
  <2>3. DiskShape(disk')
    BY <1>3, ShapeByRegion, Zenon
  <2>4. ObjectsKept(disk', log, ref)
    BY <1>1, <2>1, <2>2, <2>3, ObjectsSaved, Zenon DEF ObjectsSavedAs
  <2>. QED BY <2>1, <2>2, <2>4, Zenon
<1>10. Objects'
  BY <1>9, Zenon DEF Objects, SaveIndexState, ObjectsSavedAs, SameObjects
<1>. QED BY <1>6, <1>7, <1>8, <1>10, Zenon DEF DiskInv

\* The Checkpoint entry of a commit.
LEMMA AppendCheckpointInv == ASSUME DiskInv, AppendCheckpoint PROVE DiskInv'
<1>1. LogShape' /\ Entry(CheckpointOp) \in Entries /\ Entry(CheckpointOp).op = CheckpointOp
  <2>1. CheckpointOp \in Ops \cup {CheckpointOp} /\ applied \in Nat /\ applied < next_lsn
    BY Zenon DEF DiskInv, LogShape
  <2>. QED BY <2>1, LogAppends, Zenon DEF AppendCheckpoint
<1>2. EngineShape'
  BY Zenon DEF DiskInv, EngineShape, AppendCheckpoint
<1>3. ControlShape'
  BY Zenon DEF DiskInv, ControlShape, AppendCheckpoint
<1>4. ASSUME "refused" \notin events PROVE ObjectsKept(disk, log', ref)
  <2>1. log' = Append(log, Entry(CheckpointOp)) /\ log \in Seq(Entries)
    BY Zenon DEF AppendCheckpoint, DiskInv, LogShape
  <2>2. ObjectsKept(disk, log, ref)
    BY <1>4, Zenon DEF DiskInv, Objects
  <2>. QED BY <1>1, <2>1, <2>2, ObjectsCheckpoint, Zenon
<1>5. Objects'
  BY <1>4, Zenon DEF DiskInv, Objects, AppendCheckpoint, ObjectsSavedAs, SameObjects
<1>. QED BY <1>1, <1>2, <1>3, <1>5, Zenon DEF DiskInv

\* commit gives up on a full log, after the save.
LEMMA CheckpointRefusedInv == ASSUME DiskInv, CheckpointRefused PROVE DiskInv'
<1>1. /\ Again \subseteq {"again"}
      /\ UNCHANGED <<mem, applied, disk, log, next_lsn, op, ref>>
      /\ pc = "ckpt" /\ pc' = "idle" /\ events' = events \cup Again
  BY Zenon DEF Again, CheckpointRefused
<1>2. EngineShape'
  BY <1>1, Zenon DEF DiskInv, EngineShape
<1>3. LogShape'
  BY <1>1, LogFrame, Zenon DEF DiskInv, LogShape
<1>4. ControlShape'
  BY <1>1, Zenon DEF DiskInv, ControlShape, LogIsFull
<1>5. Objects'
  BY <1>1, Zenon DEF DiskInv, Objects
<1>. QED BY <1>2, <1>3, <1>4, <1>5, Zenon DEF DiskInv

\* Wal::checkpoint: the regions alone now hold the object table.
LEMMA TrimLogInv == ASSUME DiskInv, TrimLog PROVE DiskInv'
<1>1. /\ UNCHANGED <<mem, applied, disk, next_lsn, op, ref, events>>
      /\ log' = << >> /\ pc = "trim" /\ pc' = "flip" /\ "refused" \notin events
  BY Zenon DEF TrimLog, DiskInv, ControlShape
<1>2. EngineShape'
  BY <1>1, Zenon DEF DiskInv, EngineShape
<1>3. LogShape'
  <2>1. log' \in Seq(Entries) /\ Len(log') = 0 /\ 1 .. 0 = {} /\ 0 <= Capacity
    BY <1>1, LogAssumption
  <2>. QED BY <1>1, <2>1, Zenon DEF DiskInv, LogShape, LogOrdered
<1>4. ControlShape'
  BY <1>1, Zenon DEF DiskInv, ControlShape
<1>5. ObjectsKept(disk, << >>, ref)
  <2>1. DiskShape(disk) /\ ref \in Engines
    BY ShapeByRegion, Zenon DEF DiskInv, EngineShape
  <2>2. ObjectsSavedAs(disk, ref) /\ ObjectsKept(disk, log, ref)
    BY <1>1, Zenon DEF DiskInv, Objects
  <2>3. \A o \in Oids : ref.obj[o] # "none" <=> o < ref.next_oid
    BY <2>2, Zenon DEF ObjectsKept, CounterKept
  <2>. QED BY <2>1, <2>2, <2>3, ObjectsTrimmed, Zenon DEF ObjectsSavedAs
<1>6. Objects'
  BY <1>1, <1>5, Zenon DEF DiskInv, Objects
<1>. QED BY <1>2, <1>3, <1>4, <1>6, Zenon DEF DiskInv

\* commit_root, and last_applied_lsn moves to the checkpoint.
LEMMA CommitRootInv == ASSUME DiskInv, CommitRoot PROVE DiskInv'
<1>1. /\ UNCHANGED <<mem, disk, log, next_lsn, op, ref, events>>
      /\ pc = "flip" /\ pc' = "idle" /\ applied' = MaxOf(applied, next_lsn - 1)
  BY Zenon DEF CommitRoot
<1>2. EngineShape'
  BY <1>1, Zenon DEF DiskInv, EngineShape
<1>3. LogShape'
  <2>1. next_lsn \in Nat \ {0} /\ applied \in Nat /\ applied < next_lsn
    BY LogAssumption DEF DiskInv, LogShape
  <2>2. applied' \in Nat /\ applied' < next_lsn
    BY <1>1, <2>1 DEF MaxOf
  <2>. QED BY <1>1, <2>2, LogFrame, Zenon
<1>4. ControlShape'
  BY <1>1, Zenon DEF DiskInv, ControlShape, LogIsFull
<1>5. Objects'
  BY <1>1, Zenon DEF DiskInv, Objects
<1>. QED BY <1>2, <1>3, <1>4, <1>5, Zenon DEF DiskInv

\* What a crash leaves is judged by regions, log and history alone.
LEMMA DiesInv ==
    ASSUME DiskInv, Dies, \A r \in Regions : RegionShape(r, disk'[r]), LogShape',
           ref' \in Engines,
           events' \subseteq {"refused", "unlogged", "cut", "again"},
           "refused" \in events' => LogIsFull',
           "refused" \notin events' => ObjectsKept(disk', log', ref')
    PROVE  DiskInv'
<1>1. EngineShape'
  BY NewEngineTyped, Zenon DEF Dies, EngineShape
<1>2. ControlShape'
  BY Zenon DEF Dies, ControlShape
<1>3. Objects'
  BY Zenon DEF Dies, Objects
<1>. QED BY <1>1, <1>2, <1>3, Zenon DEF DiskInv

\* A crash between two writes.
LEMMA CrashInv == ASSUME DiskInv, Crash PROVE DiskInv'
<1>1. /\ UNCHANGED <<disk, log, next_lsn, ref>> /\ Dies /\ applied' = 0
      /\ \E S \in SUBSET {"unlogged", "again"} : events' = events \cup S
  <2>1. Forgotten \subseteq {"unlogged"} /\ Again \subseteq {"again"}
    BY Zenon DEF Forgotten, Again
  <2>2. Forgotten \cup Again \in SUBSET {"unlogged", "again"}
        /\ events' = events \cup (Forgotten \cup Again)
    BY <2>1, Zenon DEF Crash
  <2>. QED BY <2>2, Zenon DEF Crash, Dies
<1>2. LogShape'
  BY <1>1, LogFrame, SMTT(60) DEF DiskInv, LogShape
<1>3. events' \subseteq {"refused", "unlogged", "cut", "again"}
      /\ ("refused" \in events' => "refused" \in events) /\ events \subseteq events'
  BY <1>1, Zenon DEF DiskInv, ControlShape
<1>4. "refused" \in events' => LogIsFull'
  BY <1>1, <1>3, Zenon DEF DiskInv, ControlShape, LogIsFull
<1>5. "refused" \notin events' => ObjectsKept(disk', log', ref')
  BY <1>1, <1>3, Zenon DEF DiskInv, Objects
<1>6. (\A r \in Regions : RegionShape(r, disk'[r])) /\ ref' \in Engines
  BY <1>1, Zenon DEF DiskInv, EngineShape
<1>. QED BY <1>1, <1>2, <1>3, <1>4, <1>5, <1>6, DiesInv, Zenon

\* A crash after the entry is durable and before the caller hears.
LEMMA CrashInAppendInv == ASSUME DiskInv, CrashInAppend PROVE DiskInv'
<1>1. /\ UNCHANGED disk /\ Dies /\ applied' = 0
      /\ \E S \in SUBSET {"unlogged"} : events' = events \cup S
  BY Zenon DEF CrashInAppend, Forgotten, Dies
<1>2. 0 \in Nat /\ 0 < next_lsn
  BY LogAssumption DEF DiskInv, LogShape
<1>3. LogShape' /\ ref' \in Engines /\ ObjectsKept(disk', log', ref')
  BY <1>1, <1>2, AppendKeeps, Zenon DEF CrashInAppend
<1>4. "refused" \notin events' /\ events' \subseteq {"refused", "unlogged", "cut", "again"}
  BY <1>1, Zenon DEF DiskInv, ControlShape, CrashInAppend
<1>5. \A r \in Regions : RegionShape(r, disk'[r])
  BY <1>1, Zenon DEF DiskInv, EngineShape
<1>. QED BY <1>1, <1>3, <1>4, <1>5, DiesInv, Zenon

\* A crash between two copies of the superblock.
LEMMA CrashInFlipInv ==
    ASSUME DiskInv, NEW n \in 1 .. 3, CrashInFlip(n) PROVE DiskInv'
<1>1. /\ UNCHANGED <<disk, log, next_lsn, ref, events>> /\ Dies /\ applied' = 0
  BY Zenon DEF CrashInFlip, Dies
<1>2. LogShape'
  BY <1>1, LogFrame DEF DiskInv, LogShape
<1>3. /\ events' \subseteq {"refused", "unlogged", "cut", "again"}
      /\ "refused" \in events' => LogIsFull'
      /\ "refused" \notin events' => ObjectsKept(disk', log', ref')
  BY <1>1, Zenon DEF DiskInv, ControlShape, LogIsFull, Objects
<1>4. (\A r \in Regions : RegionShape(r, disk'[r])) /\ ref' \in Engines
  BY <1>1, Zenon DEF DiskInv, EngineShape
<1>. QED BY <1>1, <1>2, <1>3, <1>4, DiesInv, Zenon

\* A save cut short leaves either the old object table or the one of mem.
LEMMA CrashInSaveInv ==
    ASSUME DiskInv, NEW n \in 1 .. Len(RegionOrder), CrashInSave(n) PROVE DiskInv'
<1>. DEFINE q == RegionOrder[n]
            New(r) == \E i \in 1 .. n - 1 : RegionOrder[i] = r
<1>1. /\ UNCHANGED <<log, next_lsn, ref>> /\ Dies /\ applied' = 0 /\ pc = "idle"
      /\ events' = events \cup Forgotten \cup {"cut"} /\ Forgotten \subseteq {"unlogged"}
  BY Zenon DEF CrashInSave, Dies, Forgotten
<1>2. PICK part \in Partial(q, disk[q], Written(mem, q)) :
          disk' = [r \in Regions |-> IF r = q THEN part
                                     ELSE IF New(r) THEN Written(mem, r) ELSE disk[r]]
  BY Zenon DEF CrashInSave
<1>3. n \in 1 .. 7 /\ q \in Regions
  <2>1. n \in {1, 2, 3, 4, 5, 6, 7}
    BY RegionNames, SMTT(60)
  <2>. QED BY <2>1, RegionNames, Zenon
<1>4. /\ mem \in Engines /\ ref \in Engines /\ applied \in Nat
      /\ \A r \in Regions : RegionShape(r, disk[r])
      /\ log \in Seq(Entries) /\ LogOrdered(log)
  BY Zenon DEF DiskInv, EngineShape, LogShape
<1>. HIDE DEF q
<1>5. \A r \in Regions : RegionShape(r, disk'[r])
  <2>. SUFFICES ASSUME NEW r \in Regions PROVE RegionShape(r, disk'[r])
    BY Zenon
  <2>1. RegionShape(r, Written(mem, r)) /\ RegionShape(r, disk[r])
    BY <1>4, WrittenShape, Zenon
  <2>2. CASE r = q
    BY <1>2, <2>1, <2>2, PartialShape, Zenon
  <2>3. CASE r # q
    BY <1>2, <2>1, <2>3, Zenon
  <2>. QED BY <2>2, <2>3, Zenon
<1>6. disk'["blob"] = disk["blob"]
  <2>1. "blob" \in Regions /\ ~New("blob")
    <3>1. ASSUME NEW i \in 1 .. n - 1 PROVE RegionOrder[i] # "blob"
      <4>1. i \in {1, 2, 3, 4, 5, 6}
        BY <1>3
      <4>. QED BY <4>1, RegionNames, Zenon
    <3>. QED BY <3>1, RegionNames, Zenon
  <2>2. CASE q = "blob"
    BY <1>2, <2>1, <2>2, Zenon DEF Partial
  <2>3. CASE q # "blob"
    BY <1>2, <2>1, <2>3, Zenon
  <2>. QED BY <2>2, <2>3, Zenon
<1>7. disk'["obj"] = disk["obj"] \/ disk'["obj"] = [obj |-> mem.obj, content |-> mem.content]
  <2>0. "obj" \in Regions
    BY RegionNames, Zenon
  <2>1. CASE q = "obj"
    BY <1>2, <2>0, <2>1, Zenon DEF Partial
  <2>2. CASE q # "obj"
    BY <1>2, <2>0, <2>2, Zenon DEF Written
  <2>. QED BY <2>1, <2>2, Zenon
<1>8. LogShape'
  BY <1>1, <1>6 DEF DiskInv, LogShape
<1>9. /\ events' \subseteq {"refused", "unlogged", "cut", "again"}
      /\ "refused" \in events' => LogIsFull'
  BY <1>1, Zenon DEF DiskInv, ControlShape, LogIsFull
<1>10. ASSUME "refused" \notin events' PROVE ObjectsKept(disk', log', ref')
  <2>1. ObjectsKept(disk, log, ref) /\ SameObjects(mem, ref)
    BY <1>1, <1>10, Zenon DEF DiskInv, Objects
  <2>2. DiskShape(disk) /\ DiskShape(disk')
    BY <1>4, <1>5, ShapeByRegion, Zenon
  <2>3. CASE disk'["obj"] = disk["obj"]
    BY <1>1, <1>6, <2>1, <2>3, ObjectsUntouched, Zenon
  <2>4. CASE disk'["obj"] = [obj |-> mem.obj, content |-> mem.content]
    <3>1. disk'["obj"].obj = ref.obj /\ disk'["obj"].content = ref.content
      BY <2>1, <2>4 DEF SameObjects
    <3>. QED BY <1>1, <1>4, <1>6, <2>1, <2>2, <3>1, ObjectsSaved, Zenon
  <2>. QED BY <1>7, <2>3, <2>4, Zenon
<1>. QED BY <1>1, <1>4, <1>5, <1>8, <1>9, <1>10, DiesInv, Zenon

\* last_applied_lsn after open is an LSN the ring has given out.
LEMMA LastAppliedBound ==
    ASSUME DiskInv
    PROVE  LastApplied(disk, log) \in Nat /\ LastApplied(disk, log) < next_lsn
<1>1. /\ disk["blob"].applied \in Nat /\ disk["blob"].applied < next_lsn
      /\ Len(log) \in Nat /\ log \in Seq(Entries)
      /\ \A i \in 1 .. Len(log) : log[i].lsn < next_lsn
  BY RegionNames, SMTT(60) DEF DiskInv, EngineShape, RegionShape, LogShape
<1>2. CASE ToReplay(disk, log) = {}
  BY <1>1, <1>2, Zenon DEF LastApplied
<1>3. CASE ToReplay(disk, log) # {}
  <2>1. ToReplay(disk, log) \in SUBSET (1 .. Len(log))
    BY Zenon DEF ToReplay
  <2>2. Max(ToReplay(disk, log)) \in 1 .. Len(log)
    BY <1>1, <1>3, <2>1, MaxExists, Zenon
  <2>3. log[Max(ToReplay(disk, log))] \in Entries
    BY <1>1, <2>2
  <2>4. log[Max(ToReplay(disk, log))].lsn \in Nat
    BY <2>3, Zenon DEF Entries
  <2>. QED BY <1>1, <1>3, <2>2, <2>4, Zenon DEF LastApplied
<1>. QED BY <1>2, <1>3, Zenon

\* open and open_read_only: load, replay, take the newest root.
LEMMA OpenInv ==
    ASSUME DiskInv, Open \/ OpenReadOnly PROVE DiskInv'
<1>1. /\ UNCHANGED <<disk, log, next_lsn, op, ref, events>>
      /\ mem' = Recovered(disk, log) /\ applied' = LastApplied(disk, log)
      /\ pc' \in {"idle", "read_only"}
  BY Zenon DEF Open, OpenReadOnly
<1>2. DiskShape(disk) /\ log \in Seq(Entries) /\ LogOrdered(log) /\ ref \in Engines
  BY ShapeByRegion, Zenon DEF DiskInv, EngineShape, LogShape
<1>3. mem' \in Engines
  <2>1. Len(log) \in 0 .. Len(log)
    BY <1>2
  <2>. QED BY <1>1, <1>2, <2>1, ReplaysTyped, Zenon DEF Recovered
<1>4. EngineShape'
  BY <1>1, <1>3, Zenon DEF DiskInv, EngineShape
<1>5. LogShape'
  BY <1>1, LastAppliedBound, LogFrame, Zenon
<1>6. ControlShape'
  BY <1>1, Zenon DEF DiskInv, ControlShape, LogIsFull
<1>7. ASSUME "refused" \notin events PROVE ObjectsKept(disk, log, ref) /\ SameObjects(mem', ref)
  <2>1. ObjectsKept(disk, log, ref)
    BY <1>7, Zenon DEF DiskInv, Objects
  <2>. QED BY <1>1, <1>2, <2>1, ObjectsKeptRecovered, Zenon
<1>8. Objects'
  BY <1>1, <1>7, Zenon DEF Objects
<1>. QED BY <1>4, <1>5, <1>6, <1>8, Zenon DEF DiskInv

\* Every step.
LEMMA DiskInvStep == ASSUME DiskInv, [Next]_vars PROVE DiskInv'
<1>1. CASE UNCHANGED vars
  BY <1>1, Zenon DEF vars, DiskInv, EngineShape, LogShape, ControlShape, Objects, LogIsFull
<1>2. CASE Next
  BY <1>2, MutateInv, LogMutationInv, LogRefusedInv, RegisterTagInv, SaveIndexStateInv,
     AppendCheckpointInv, CheckpointRefusedInv, TrimLogInv, CommitRootInv, CrashInv,
     CrashInAppendInv, CrashInSaveInv, CrashInFlipInv, OpenInv, Zenon DEF Next
<1>. QED BY <1>1, <1>2, Zenon

\* The invariant holds in every reachable state.
LEMMA DiskInvAlways == Spec => []DiskInv
BY DiskInvInit, DiskInvStep, PTL DEF Spec

\* The shapes of DiskEngine's fields hold in every reachable state.
THEOREM DiskTypeCorrect == Spec => []TypeOK
<1>1. DiskInv => TypeOK
  BY LogAssumption DEF DiskInv, EngineShape, LogShape, ControlShape, TypeOK
<1>. QED BY <1>1, DiskInvAlways, PTL

\* DiskEngine::open rebuilds the object table that the logged mutations made.
THEOREM ObjectTableRecovered == Spec => []ObjectsRecovered
<1>1. DiskInv => ObjectsRecovered
  BY Zenon DEF DiskInv, Objects, SameObjects, ObjectsRecovered, Ready
<1>. QED BY <1>1, DiskInvAlways, PTL

\* create_object never answers twice with an id.
THEOREM ObjectIdFresh == Spec => []OidNeverReused
<1>1. DiskInv => OidNeverReused
  <2>. SUFFICES ASSUME DiskInv, pc = "log", op.kind = "create"
                PROVE  ref.obj[op.oid] = "none"
    BY Zenon DEF OidNeverReused
  <2>1. op \in Ops /\ Accepts(ref, op) /\ ObjectsKept(disk, log, ref) /\ ref \in Engines
    BY Zenon DEF DiskInv, EngineShape, ControlShape, Objects
  <2>2. op.oid = ref.next_oid /\ op.oid \in Oids
    BY <2>1, OpShape, Zenon DEF Accepts
  <2>3. ref.obj[op.oid] # "none" <=> op.oid < ref.next_oid
    BY <2>1, <2>2, Zenon DEF ObjectsKept, CounterKept
  <2>4. op.oid \in Nat
    BY <2>2 DEF Oids
  <2>. QED BY <2>2, <2>3, <2>4
<1>. QED BY <1>1, DiskInvAlways, PTL

-----------------------------------------------------------------------------
(* The root and the full log.                                              *)

RootInv == copies \in [1 .. 3 -> Nat] /\ root \in Nat /\ RootIsNewest

\* Superblock::open finds a copy that no other is ahead of.
LEMMA NewestExists ==
    ASSUME copies \in [1 .. 3 -> Nat]
    PROVE  Newest \in Range(copies) /\ Newest \in Nat /\ \A i \in 1 .. 3 : copies[i] <= Newest
<1>1. 1 .. 3 = {1, 2, 3} /\ DOMAIN copies = 1 .. 3
  OBVIOUS
<1>2. Range(copies) = {copies[1], copies[2], copies[3]}
  BY <1>1, Zenon DEF Range
<1>3. copies[1] \in Nat /\ copies[2] \in Nat /\ copies[3] \in Nat
  BY <1>1, Zenon
<1>4. \E m \in {copies[1], copies[2], copies[3]} :
          copies[1] <= m /\ copies[2] <= m /\ copies[3] <= m
  BY <1>3
<1>5. \E m \in Range(copies) : \A i \in 1 .. 3 : copies[i] <= m
  BY <1>1, <1>2, <1>4, Zenon
<1>6. Newest \in Range(copies) /\ \A i \in 1 .. 3 : copies[i] <= Newest
  BY <1>5, Zenon DEF Newest
<1>. QED BY <1>2, <1>3, <1>6, Zenon

\* Wherever commit_root is interrupted, the root in use is the newest copy.
THEOREM RootSurvives == Spec => []RootIsNewest
<1>1. Init => RootInv
  BY DEF Init, RootInv, RootIsNewest, Range
<1>2. ASSUME RootInv, [Next]_vars PROVE RootInv'
  <2>1. CASE UNCHANGED <<copies, root>> /\ (pc = "down" => pc' = "down")
    BY <1>2, <2>1, Zenon DEF RootInv, RootIsNewest
  <2>2. CASE CommitRoot
    <3>1. root \in Nat /\ root' = root + 1 /\ copies' = [i \in 1 .. 3 |-> root + 1]
      BY <1>2, <2>2, Zenon DEF RootInv, CommitRoot
    <3>2. root' \in Nat /\ copies' \in [1 .. 3 -> Nat] /\ copies'[1] = root'
          /\ \A i \in 1 .. 3 : copies'[i] <= root'
      BY <3>1
    <3>3. root' \in Range(copies')
      BY <3>2 DEF Range
    <3>. QED BY <3>2, <3>3, Zenon DEF RootInv, RootIsNewest
  <2>3. CASE Dies /\ UNCHANGED copies
    BY <1>2, <2>3, Zenon DEF Dies, RootInv, RootIsNewest
  <2>4. ASSUME NEW n \in 1 .. 3, CrashInFlip(n) PROVE RootInv'
    BY <1>2, <2>4 DEF CrashInFlip, Dies, RootInv, RootIsNewest
  <2>5. CASE Open \/ OpenReadOnly
    <3>1. root' = Newest /\ copies' = copies
      BY <2>5, Zenon DEF Open, OpenReadOnly
    <3>. QED BY <1>2, <3>1, NewestExists, Zenon DEF RootInv, RootIsNewest
  <2>6. CASE Next
    <3>1. CASE (\E o \in Ops : Mutate(o)) \/ LogMutation \/ LogRefused \/ RegisterTag
      BY <2>1, <3>1, Zenon DEF Mutate, LogMutation, LogRefused, RegisterTag
    <3>2. CASE SaveIndexState \/ AppendCheckpoint \/ CheckpointRefused \/ TrimLog
      BY <2>1, <3>2, Zenon DEF SaveIndexState, AppendCheckpoint, CheckpointRefused, TrimLog
    <3>3. CASE Crash \/ CrashInAppend \/ \E n \in 1 .. Len(RegionOrder) : CrashInSave(n)
      BY <2>3, <3>3, Zenon DEF Crash, CrashInAppend, CrashInSave
    <3>. QED BY <2>2, <2>4, <2>5, <2>6, <3>1, <3>2, <3>3, Zenon DEF Next
  <2>. QED BY <1>2, <2>1, <2>6, Zenon DEF vars
<1>3. RootInv => RootIsNewest
  BY Zenon DEF RootInv
<1>. QED BY <1>1, <1>2, <1>3, PTL DEF Spec

\* No step but the trim of a commit under way makes room in a full ring.
THEOREM NoRoomInFullLog == Spec => FullLogStaysFull
<1>1. ASSUME Next PROVE LogIsFull /\ pc # "trim" => LogIsFull'
  <2>. SUFFICES ASSUME LogIsFull, pc # "trim" PROVE log' = log
    BY Zenon DEF LogIsFull
  <2>1. CASE (\E o \in Ops : Mutate(o)) \/ LogMutation \/ LogRefused \/ RegisterTag
    BY <2>1, Zenon DEF Mutate, LogMutation, LogRefused, RegisterTag
  <2>2. CASE SaveIndexState \/ AppendCheckpoint \/ CheckpointRefused \/ TrimLog \/ CommitRoot
    BY <2>2, Zenon DEF SaveIndexState, AppendCheckpoint, CheckpointRefused, TrimLog, CommitRoot
  <2>3. CASE Crash \/ CrashInAppend \/ \E n \in 1 .. Len(RegionOrder) : CrashInSave(n)
    BY <2>3, Zenon DEF Crash, CrashInAppend, CrashInSave
  <2>4. CASE (\E n \in 1 .. 3 : CrashInFlip(n)) \/ Open \/ OpenReadOnly
    BY <2>4, Zenon DEF CrashInFlip, Open, OpenReadOnly
  <2>. QED BY <1>1, <2>1, <2>2, <2>3, <2>4, Zenon DEF Next
<1>. QED BY <1>1, PTL DEF Spec, FullLogStaysFull

=============================================================================
