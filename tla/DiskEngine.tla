----------------------------- MODULE DiskEngine -----------------------------
(***************************************************************************)
(* The persistent engine (crates/engine/src/disk_engine.rs): an Engine     *)
(* whose mutations are logged, whose indexes commit() writes to fixed      *)
(* regions of the primary disk, and which open() rebuilds from those       *)
(* regions and the log.                                                    *)
(*                                                                         *)
(* The log is the abstract one of DurableLog, with the ring's capacity.    *)
(* The process may be killed between any two device writes; the writes     *)
(* issued until then survive, in order.  A save is one step, because       *)
(* nothing reads the regions while it runs; CrashInSave is a save cut      *)
(* short after any of its writes.                                          *)
(***************************************************************************)
EXTENDS EngineOps, Sequences, FiniteSetsExt

CONSTANTS
    Zero,               \* the Value every Attr is read back with: Int(0)
    InitKnown, InitImpl,\* the ontology the pool was set up with
    Mixes,              \* bound: the calls, and whether saves are cut, of a behaviour
    Capacity,           \* data sectors of the WAL ring
    MaxLsn,             \* bound: LSNs ever assigned
    MaxCopies           \* bound: equal attributes or relations of an object

ASSUME ZeroAssumption == Zero \in Vals /\ Vals \subseteq Nat /\ Keys \subseteq Nat
\* Keys and values are finitely many: both have a bounded encoding.
ASSUME FiniteAssumption == IsFiniteSet(Keys) /\ IsFiniteSet(Vals)
\* Int(0) shares its NormalisedKey with no other value.
ASSUME PlaceholderAssumption == \A v \in Vals : Norm[v] = Norm[Zero] => v = Zero
ASSUME LogAssumption == Capacity \in Nat \ {0} /\ MaxLsn \in Nat \ {0}
ASSUME OntologyAssumption ==
    InitKnown \subseteq Tags /\ InitImpl \subseteq InitKnown \X InitKnown

VARIABLES
    mem,      \* the engine in memory
    applied,  \* engine.last_applied_lsn
    disk,     \* what each region of the index zone reads back as
    log,      \* entries of the ring between read_cursor and write_cursor
    next_lsn, \* the ring's next LSN
    copies,   \* seq of the active root in the three superblock copies
    root,     \* seq of the active root in the cached superblock
    pc,       \* idle, or the call's next step, or down, or open read-only
    op,       \* the mutation being logged
    mix,      \* the calls this behaviour makes
    ref,      \* history: the engine that ran exactly the logged mutations
    events    \* history: what happened that weakens the guarantees

vars == <<mem, applied, disk, log, next_lsn, copies, root, pc, op, mix, ref, events>>

NoOp == [kind |-> "none"]
CheckpointOp == [kind |-> "checkpoint"]
MaxOf(a, b) == IF a >= b THEN a ELSE b

-----------------------------------------------------------------------------
(* Regions.                                                                *)

RegionOrder == <<"kv", "fwd", "tag", "range", "obj", "onto", "blob">>
Regions == Range(RegionOrder)

\* What a region holds when it was never written, or reads as torn.
EmptyRegion(r) ==
    LET e == NewEngine({}, {}) IN
    CASE r = "kv" -> e.kv
      [] r = "fwd" -> [tags |-> e.tags, attrs |-> e.attrs, rels |-> e.rels]
      [] r = "tag" -> [stores |-> {}, idx |-> e.tagidx]
      [] r = "range" -> e.range
      [] r = "obj" -> [obj |-> e.obj, content |-> e.content]
      [] r = "onto" -> [known |-> {}, impl |-> {}]
      [] r = "blob" -> [next_oid |-> 1, applied |-> 0]

\* A packed assertion keeps the hash of an attribute's value, not the value:
\* every Attr of the forward index reads back as Int(0).
CopiesOf(held, k) == UNION {{a} \X (1 .. held[a]) : a \in {b \in Attrs : b[1] = k}}
Placeholders(attrs) ==
    [o \in Oids |-> [a \in Attrs |->
        IF a[2] # Zero THEN 0 ELSE Cardinality(CopiesOf(attrs[o], a[1]))]]

\* save_index_state: what the region of a finished save reads back as.
Written(e, r) ==
    CASE r = "kv" -> e.kv
      [] r = "fwd" -> [tags |-> e.tags, attrs |-> Placeholders(e.attrs),
                       rels |-> e.rels]
      [] r = "tag" -> [stores |-> e.stores, idx |-> e.tagidx]
      [] r = "range" -> e.range
      [] r = "obj" -> [obj |-> e.obj, content |-> e.content]
      [] r = "onto" -> [known |-> e.known, impl |-> e.impl]
      [] r = "blob" -> [next_oid |-> e.next_oid, applied |-> applied]

\* Pages are rewritten in place, from the first slot, in key order and before the
\* directory that points at them: with j pages written, the old directory
\* finds the new page of whichever key now has the slot.
SlotOf(S, k, less) == Cardinality({x \in S : <<x, k>> \in less})
Repaged(old, oldKeys, new, newKeys, less, j) ==
    LET now(k) == {m \in newKeys : /\ SlotOf(newKeys, m, less) < j
                                   /\ SlotOf(newKeys, m, less) = SlotOf(oldKeys, k, less)}
    IN  [k \in DOMAIN old |-> IF k \in oldKeys /\ now(k) # {}
                              THEN new[CHOOSE m \in now(k) : TRUE] ELSE old[k]]

AttrLess ==
    {p \in Attrs \X Attrs :
        p[1][1] < p[2][1] \/ (p[1][1] = p[2][1] /\ p[1][2] < p[2][2])}
TagLess == {p \in Tags \X Tags : p[1] < p[2]}
KvKeys(kv) == {a \in Attrs : kv[a] # {}}

\* BtreeRegion::write_full puts a run's new header over the old run before
\* its payload; until the payload follows, the checksum fails and the run is
\* dropped.  A region without a run is written with one sector.
RunOf(r, c) ==
    IF r = "tag" THEN [t \in c.stores |-> Cardinality(c.idx[t])] ELSE c
TornRun(r, old, new) ==
    IF RunOf(r, new) = RunOf(r, old) \/ new = EmptyRegion(r)
    THEN {} ELSE {EmptyRegion(r)}

\* What a region may read back as when its save is cut short.
Partial(r, old, new) ==
    CASE r = "kv" ->
            {Repaged(old, KvKeys(old), new, KvKeys(new), AttrLess, j) :
                j \in 0 .. Cardinality(KvKeys(new))}
      [] r = "tag" ->
            {[old EXCEPT !.idx = Repaged(@, old.stores, new.idx, new.stores,
                                         TagLess, j)] :
                j \in 0 .. Cardinality(new.stores)}
            \cup TornRun(r, old, new)
      [] r \in {"fwd", "range", "onto"} -> {old} \cup TornRun(r, old, new)
      [] r \in {"obj", "blob"} -> {old}

\* load_all_regions, apply_index_blob: the object next_oid_local - 1 is
\* created if the object table does not have it.
Loaded(d) ==
    LET e == [obj |-> d["obj"].obj, content |-> d["obj"].content,
              tags |-> d["fwd"].tags, attrs |-> d["fwd"].attrs,
              rels |-> d["fwd"].rels, tagidx |-> d["tag"].idx,
              stores |-> d["tag"].stores, kv |-> d["kv"],
              range |-> d["range"], known |-> d["onto"].known,
              impl |-> d["onto"].impl, next_oid |-> 1]
    IN  IF d["blob"].next_oid > 1
        THEN ReplayCreateObject(e, d["blob"].next_oid - 1) ELSE e

\* replay_wal, entry by entry: what is newer than last_applied_lsn,
\* checkpoints skipped.
Skips(d, x) == x.lsn <= d["blob"].applied \/ x.op = CheckpointOp
ToReplay(d, l) == {i \in 1 .. Len(l) : ~Skips(d, l[i])}

Replays(d, l) ==
    LET replayed[n \in 0 .. Len(l)] ==
            IF n = 0 THEN Loaded(d)
            ELSE IF n \in ToReplay(d, l) THEN Replay(replayed[n - 1], l[n].op)
            ELSE replayed[n - 1]
    IN  replayed
Recovered(d, l) == Replays(d, l)[Len(l)]

\* last_applied_lsn after the replay.
LastApplied(d, l) ==
    IF ToReplay(d, l) = {} THEN d["blob"].applied ELSE l[Max(ToReplay(d, l))].lsn

-----------------------------------------------------------------------------
Init ==
    /\ mem = NewEngine(InitKnown, InitImpl)
    /\ applied = 1
    /\ disk = [r \in Regions |->
                 IF r = "onto" THEN [known |-> InitKnown, impl |-> InitImpl]
                 ELSE EmptyRegion(r)]
    /\ log = <<>>
    /\ next_lsn = 2
    /\ copies = [i \in 1 .. 3 |-> 2] /\ root = 2
    /\ pc = "idle"
    /\ op = NoOp
    /\ mix \in Mixes
    /\ ref = mem
    /\ events = {}

LogIsFull == Len(log) = Capacity
Entry(o) == [lsn |-> next_lsn, op |-> o]

\* A mutation changes the engine first (create_object ... write_blob) ...
\* Callers name tags by ids that register_tag or resolve_tag_name gave them.
\* Bound: one call per behaviour meets a full log, and one save is cut short.
Mutate(o) ==
    /\ pc = "idle"
    /\ o.kind \in mix
    /\ LogIsFull => "refused" \notin events
    /\ Accepts(mem, o)
    /\ o.kind \in {"add_tag", "remove_tag"} => o.arg \in mem.known
    /\ o.kind = "set_attr" => mem.attrs[o.oid][o.arg] < MaxCopies
    /\ o.kind = "add_relation" => mem.rels[o.oid][o.arg] < MaxCopies
    /\ mem' = Live(mem, o)
    /\ op' = o
    /\ pc' = "log"
    /\ UNCHANGED <<applied, disk, log, next_lsn, copies, root, mix, ref, events>>

\* Mutant of LogMutation: the entry is not written.
LogNothing ==
    /\ pc = "log"
    /\ ref' = Live(ref, op)
    /\ pc' = "idle"
    /\ op' = NoOp
    /\ UNCHANGED <<mem, applied, disk, log, next_lsn, copies, root, mix, events>>

\* ... and then appends to the log (append_wal), which acknowledges it.
LogMutation ==
    /\ pc = "log"
    /\ ~LogIsFull /\ next_lsn <= MaxLsn
    /\ log' = Append(log, Entry(op))
    /\ next_lsn' = next_lsn + 1
    /\ ref' = Live(ref, op)
    /\ pc' = "idle"
    /\ op' = NoOp
    /\ UNCHANGED <<mem, applied, disk, copies, root, mix, events>>

\* RingFull: the call fails, the engine keeps the change.
LogRefused ==
    /\ pc = "log"
    /\ LogIsFull
    /\ pc' = "idle"
    /\ op' = NoOp
    /\ events' = events \cup {"refused"}
    /\ UNCHANGED <<mem, applied, disk, log, next_lsn, copies, root, mix, ref>>

\* Engine::register_tag, reached through DiskEngine.engine: not logged.
RegisterTag ==
    LET id == Cardinality(mem.known) + 1 IN
    /\ pc = "idle"
    /\ "register" \in mix
    /\ "unlogged" \notin events
    /\ id \in Tags
    /\ mem' = [mem EXCEPT !.known = @ \cup {id}]
    /\ ref' = [ref EXCEPT !.known = @ \cup {id}]
    /\ UNCHANGED <<applied, disk, log, next_lsn, copies, root, pc, op, mix, events>>

-----------------------------------------------------------------------------
(* commit(): save_index_state, append Checkpoint, trim the log, flip the   *)
(* root.  last_applied_lsn moves only at the end, so the blob that a       *)
(* commit saves carries the value of the commit before.                    *)

\* The regions hold mutations that a replay would apply to them again.
Again ==
    IF pc \in {"ckpt", "trim"} /\ ToReplay(disk, log) # {} THEN {"again"} ELSE {}

SaveIndexState ==
    /\ pc = "idle"
    /\ "commit" \in mix
    /\ disk' = [r \in Regions |-> Written(mem, r)]
    /\ pc' = "ckpt"
    /\ UNCHANGED <<mem, applied, log, next_lsn, copies, root, op, mix, ref, events>>

\* Mutant of AppendCheckpoint: the log is trimmed without one.
SkipCheckpoint ==
    /\ pc = "ckpt"
    /\ log' = <<>>
    /\ pc' = "idle"
    /\ UNCHANGED <<mem, applied, disk, next_lsn, copies, root, op, mix, ref, events>>

AppendCheckpoint ==
    /\ pc = "ckpt"
    /\ ~LogIsFull /\ next_lsn <= MaxLsn
    /\ log' = Append(log, Entry(CheckpointOp))
    /\ next_lsn' = next_lsn + 1
    /\ pc' = "trim"
    /\ UNCHANGED <<mem, applied, disk, copies, root, op, mix, ref, events>>

\* RingFull again: commit fails before it reaches the trim.
CheckpointRefused ==
    /\ pc = "ckpt"
    /\ LogIsFull
    /\ pc' = "idle"
    /\ events' = events \cup Again
    /\ UNCHANGED <<mem, applied, disk, log, next_lsn, copies, root, op, mix, ref>>

TrimLog ==
    /\ pc = "trim"
    /\ log' = <<>>
    /\ pc' = "flip"
    /\ UNCHANGED <<mem, applied, disk, next_lsn, copies, root, op, mix, ref, events>>

\* Superblock::commit_root, and last_applied_lsn := the checkpoint's LSN.
CommitRoot ==
    /\ pc = "flip"
    /\ root' = root + 1
    /\ copies' = [i \in 1 .. 3 |-> root + 1]
    /\ applied' = MaxOf(applied, next_lsn - 1)
    /\ pc' = "idle"
    /\ UNCHANGED <<mem, disk, log, next_lsn, op, mix, ref, events>>

-----------------------------------------------------------------------------
(* The process dies, and DiskEngine::open.                                 *)

Dies ==
    /\ pc' = "down"
    /\ op' = NoOp
    /\ mem' = NewEngine({}, {})
    /\ applied' = 0
    /\ root' = 0
    /\ UNCHANGED mix

\* Tags registered since the last save are gone.
Forgotten == IF mem.known = disk'["onto"].known THEN {} ELSE {"unlogged"}

Crash ==
    /\ pc # "down"
    /\ Dies
    /\ UNCHANGED <<disk, log, next_lsn, copies, ref>>
    /\ events' = events \cup Forgotten \cup Again

\* The entry is durable; the caller never hears.
CrashInAppend ==
    /\ pc = "log"
    /\ ~LogIsFull /\ next_lsn <= MaxLsn
    /\ log' = Append(log, Entry(op))
    /\ next_lsn' = next_lsn + 1
    /\ ref' = Live(ref, op)
    /\ Dies
    /\ UNCHANGED <<disk, copies>>
    /\ events' = events \cup Forgotten

\* The save reached region n: the earlier ones are new, the later ones old.
CrashInSave(n) ==
    /\ pc = "idle"
    /\ "cut" \in mix /\ "cut" \notin events
    /\ \E part \in Partial(RegionOrder[n], disk[RegionOrder[n]],
                           Written(mem, RegionOrder[n])) :
           disk' = [r \in Regions |->
                      IF r = RegionOrder[n] THEN part
                      ELSE IF \E i \in 1 .. n - 1 : RegionOrder[i] = r
                      THEN Written(mem, r) ELSE disk[r]]
    /\ Dies
    /\ UNCHANGED <<log, next_lsn, copies, ref>>
    /\ events' = events \cup Forgotten \cup {"cut"}

CrashInFlip(n) ==
    /\ pc = "flip"
    /\ copies' = [i \in 1 .. 3 |-> IF i <= n THEN root + 1 ELSE copies[i]]
    /\ Dies
    /\ UNCHANGED <<disk, log, next_lsn, ref, events>>

\* Mutant of Newest: the backup copy is believed.
BackupCopy == copies[3]

\* Superblock::open takes the copy with the highest sequence number.
Newest == CHOOSE m \in Range(copies) : \A i \in 1 .. 3 : copies[i] <= m

Open ==
    /\ pc = "down"
    /\ mem' = Recovered(disk, log)
    /\ applied' = LastApplied(disk, log)
    /\ root' = Newest
    /\ pc' = "idle"
    /\ UNCHANGED <<disk, log, next_lsn, copies, op, mix, ref, events>>

\* open_read_only: the same load and replay, in memory only.  Every mutation,
\* commit included, then answers ReadOnly, so all that is left is to exit.
OpenReadOnly ==
    /\ pc = "down"
    /\ mem' = Recovered(disk, log)
    /\ applied' = LastApplied(disk, log)
    /\ root' = Newest
    /\ pc' = "read_only"
    /\ UNCHANGED <<disk, log, next_lsn, copies, op, mix, ref, events>>

Next ==
    \/ \E o \in Ops : Mutate(o)
    \/ LogMutation \/ LogRefused \/ RegisterTag
    \/ SaveIndexState \/ AppendCheckpoint \/ CheckpointRefused
    \/ TrimLog \/ CommitRoot
    \/ Crash \/ CrashInAppend
    \/ \E n \in 1 .. Len(RegionOrder) : CrashInSave(n)
    \/ \E n \in 1 .. 3 : CrashInFlip(n)
    \/ Open \/ OpenReadOnly

Spec == Init /\ [][Next]_vars

-----------------------------------------------------------------------------
(* Properties.                                                             *)

\* The shapes of the engine, the log and the control state.
TypeOK ==
    /\ mem \in Engines /\ ref \in Engines
    /\ applied \in 0 .. MaxLsn
    /\ \A i \in 1 .. Len(log) : log[i].lsn < next_lsn
    /\ Len(log) <= Capacity /\ next_lsn \in 1 .. MaxLsn + 1
    /\ pc \in {"idle", "log", "ckpt", "trim", "flip", "down", "read_only"}
    /\ events \subseteq {"refused", "unlogged", "cut", "again"}

\* No call is running: the engine is open, for writing or read-only.
Ready == pc \in {"idle", "read_only"}

\* Between calls the object table is the one the acknowledged mutations made,
\* whatever crashed: in a save, between save and trim (so that open replays
\* what the regions already hold), in the root flip.  The exception is a
\* mutation that failed with RingFull, which stays in memory.
ObjectsRecovered ==
    Ready /\ "refused" \notin events =>
        mem.obj = ref.obj /\ mem.content = ref.content
            /\ mem.next_oid = ref.next_oid

\* "the ID is never reused": create_object never answers with an id that an
\* acknowledged create answered with before, across commits and crashes.
OidNeverReused ==
    pc = "log" /\ op.kind = "create" => ref.obj[op.oid] = "none"

\* Tags and relations are exact after any crash that did not cut a save, come
\* between a save and its trim, or lose a registered tag.
TagsRecovered ==
    Ready /\ events = {} =>
        mem.tags = ref.tags /\ mem.tagidx = ref.tagidx /\ mem.rels = ref.rels

\* Values are lost from the forward index at every reopen and replay adds
\* copies, but a lookup never misses an object that the acknowledged
\* mutations say it should find, mutations replayed twice included.
AttrsNeverLost ==
    Ready /\ events \cap {"refused", "cut"} = {} =>
        /\ \A a \in Attrs : ref.kv[a] \subseteq mem.kv[a]
        /\ \A n \in NormKeys : ref.range[n] \subseteq mem.range[n]

\* engine.rs: last_applied_lsn is "used to make replay idempotent".  The
\* regions that commit saves carry the value of the commit before, so after a
\* crash between save and trim open applies to them mutations they contain:
\* an add_relation adds a second copy, a remove_relation takes one more, and
\* an add_tag that found its tag materialized makes it Direct.
ReplayIdempotent ==
    Ready /\ events \subseteq {"again"} => mem.tags = ref.tags /\ mem.rels = ref.rels

\* commit_root writes three copies; wherever it is interrupted the engine
\* that opens next continues from the newest of them.
RootIsNewest ==
    pc # "down" => root \in Range(copies) /\ \A i \in 1 .. 3 : copies[i] <= root

\* A ring that fills up stays full: commit() is the only caller of
\* Wal::checkpoint and needs a free sector before it gets there.
FullLogStaysFull ==
    [][LogIsFull /\ pc # "trim" => LogIsFull']_vars

\* engine-design.md: "A crash before the flip leaves the previous root's
\* regions intact."  A tag that acknowledged calls put on an object is there
\* when the pool is open again.
TagsSurvive ==
    pc = "idle" =>
        \A o \in Oids, t \in Tags :
            ref.tags[o][t] = "direct" => mem.tags[o][t] # "none"

=============================================================================
