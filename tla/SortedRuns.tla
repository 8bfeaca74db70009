----------------------------- MODULE SortedRuns -----------------------------
(***************************************************************************)
(* The sorted-run node (crates/storage/src/btree.rs): a stack of sorted    *)
(* runs under a pending journal, a lazily built merged view, and the       *)
(* region a node is written to: by appending one run, or by a compaction   *)
(* into a fresh region.  A crash may fall between any two sector writes.   *)
(*                                                                         *)
(* A run is [seq, lsn, packed, map]; it fills Sectors(run) sectors.  A     *)
(* sector is [run, part] (part 0: the run header alone has been written),  *)
(* so that a run's checksum holds when its sectors hold all its parts.     *)
(***************************************************************************)
EXTENDS Integers, Sequences, FiniteSets, SequencesExt, FiniteSetsExt

CONSTANTS
    Keys, Vals,
    PerSector,     \* entries that fit in a sector after the run header
    RegionSectors, \* sectors of a region after the header sector
    MaxRuns,       \* runs above which should_compact asks for a compaction
    MaxLsn         \* bound: mutations

VARIABLES
    node,     \* the loaded node, or None after a crash
    regions,  \* 1..2: [header, area]
    cur,      \* the region the node lives in
    writes,   \* writes issued and not yet on the device, in order
    target,   \* the region they go to
    lsn, ops  \* the log: last sequence number, the mutations in order

vars == <<node, regions, cur, writes, target, lsn, ops>>

Absent == "absent"
None == [loaded |-> FALSE]
EmptyMap == [k \in {} |-> Absent]
Overlay(f, g) == [k \in DOMAIN f \cup DOMAIN g |-> IF k \in DOMAIN g THEN g[k] ELSE f[k]]
Drop(f, S) == [k \in DOMAIN f \ S |-> f[k]]
Value(f, k) == IF k \in DOMAIN f THEN f[k] ELSE Absent

-----------------------------------------------------------------------------
(* The node in memory.                                                     *)

NoPin == [min |-> 0, max |-> 0, count |-> 0]

\* JournalPin::record
record(pin, n) ==
    IF pin.count = 0 THEN [min |-> n, max |-> n, count |-> 1]
    ELSE [min |-> Min({pin.min, n}), max |-> Max({pin.max, n}), count |-> pin.count + 1]

new(count, used, persisted, runs) ==
    [loaded |-> TRUE,
     header |-> [count |-> count, used |-> used, lsn |-> persisted],
     runs |-> runs, pending |-> <<>>, view |-> None, pin |-> NoPin]

push_journal(nd, e) ==
    [nd EXCEPT !.pin = record(@, e.lsn), !.pending = Append(@, e), !.view = None]

\* MergeIter::new: by key the newest layer, pending entries by lsn; a
\* tombstone hides the key.
OverRuns(runs) == FoldLeft(LAMBDA f, r : Overlay(f, r.map), EmptyMap, runs)
Newest(pending, k) ==
    CHOOSE i \in DOMAIN pending : pending[i].key = k
        /\ \A j \in DOMAIN pending : pending[j].key = k => pending[j].lsn <= pending[i].lsn
merge_iter(nd) ==
    LET touched == {nd.pending[i].key : i \in DOMAIN nd.pending}
        op(k) == nd.pending[Newest(nd.pending, k)].val
        live == {k \in touched : op(k) # Absent}
    IN  Overlay(Drop(OverRuns(nd.runs), touched), [k \in live |-> op(k)])

\* What lookup answers, and the view it leaves behind.
lookup(nd, k) ==
    LET hits == {i \in DOMAIN nd.pending : nd.pending[i].key = k} IN
    IF hits # {} THEN nd.pending[Max(hits)].val
    ELSE Value(IF nd.view # None THEN nd.view.map ELSE merge_iter(nd), k)
looked_up(nd, k) ==
    IF nd.view # None \/ \E i \in DOMAIN nd.pending : nd.pending[i].key = k THEN nd
    ELSE [nd EXCEPT !.view = [loaded |-> TRUE, map |-> merge_iter(nd)]]
range(nd, ks) == LET m == merge_iter(nd) IN [k \in DOMAIN m \cap ks |-> m[k]]

MaxOf(S) == Max(S \cup {0})
Lsns(pending) == {pending[i].lsn : i \in DOMAIN pending}
NextSeq(runs) == IF runs = <<>> THEN 0 ELSE Max({runs[i].seq : i \in DOMAIN runs}) + 1

\* Mutant of can_flush: tombstones are let through, and vanish in the run.
can_flush_any(nd) == nd.pending # <<>>

\* flush_to_run refuses a journal that holds a tombstone.
can_flush(nd) ==
    /\ nd.pending # <<>>
    /\ \A i \in DOMAIN nd.pending : nd.pending[i].val # Absent

PendingRun(nd, packed) ==
    LET live == SelectSeq(nd.pending, LAMBDA e : e.val # Absent)
        put(f, e) == Overlay(f, [k \in {e.key} |-> e.val])
    IN  [seq |-> NextSeq(nd.runs), lsn |-> MaxOf(Lsns(nd.pending)), packed |-> packed,
         map |-> FoldLeft(put, EmptyMap, live)]

flush_to_run(nd, packed) ==
    LET run == PendingRun(nd, packed) IN
    [nd EXCEPT !.pending = <<>>, !.pin = NoPin, !.view = None,
               !.runs = Append(@, run), !.header.count = Len(nd.runs) + 1,
               !.header.lsn = MaxOf({@, run.lsn})]

should_compact(h) == 4 * h.used > 3 * RegionSectors \/ h.count > MaxRuns

compact(nd, packed) ==
    LET merged == merge_iter(nd)
        top == MaxOf(Lsns(nd.pending) \cup {nd.runs[i].lsn : i \in DOMAIN nd.runs})
        run == [seq |-> 0, lsn |-> top, packed |-> packed, map |-> merged]
        runs == IF merged = EmptyMap THEN <<>> ELSE <<run>>
    IN  new(Len(runs), 0, MaxOf({nd.header.lsn, top}), runs)

-----------------------------------------------------------------------------
(* The region on the device.                                               *)

Blank == [run |-> None, part |-> 0]
\* encode_run, encode_run_packed: the sectors a run fills, from its entries.
Sectors(run) == 1 + (Cardinality(DOMAIN run.map) \div (PerSector + 1))
\* write_at of the run header, then of the payload, sector by sector.
RunWrites(run, at) ==
    <<[at |-> at, v |-> [run |-> run, part |-> 0]]>>
    \o [i \in 1 .. Sectors(run) |-> [at |-> at + i - 1, v |-> [run |-> run, part |-> i]]]
HeaderWrite(h) == <<[at |-> 0, v |-> h]>>

Starts(runs) == [i \in DOMAIN runs |->
    1 + FoldLeft(LAMBDA n, r : n + Sectors(r), 0, SubSeq(runs, 1, i - 1))]
Used(runs) == FoldLeft(LAMBDA n, r : n + Sectors(r), 0, runs)

\* write_full, write_full_packed_with_hint: every run, the header last.
Written(h, runs) == [h EXCEPT !.used = Used(runs), !.count = Len(runs)]
write_full(h, runs) ==
    FlattenSeq([i \in DOMAIN runs |-> RunWrites(runs[i], Starts(runs)[i])])
    \o HeaderWrite(Written(h, runs))

\* Mutant of append_sorted_run: the header sector is written first.
append_header_first(h, run) == HeaderWrite(h) \o RunWrites(run, 1 + h.used - Sectors(run))

\* append_sorted_run, append_sorted_run_packed: the new run after the last,
\* then the header sector (h, the header with the run counted in).
append_sorted_run(h, run) == RunWrites(run, 1 + h.used - Sectors(run)) \o HeaderWrite(h)

Fits(n) == n <= RegionSectors
Apply(region, w) ==
    IF w.at = 0 THEN [region EXCEPT !.header = w.v] ELSE [region EXCEPT !.area[w.at] = w.v]

\* The run found at a sector, None when its magic or its checksum fails.
RunAt(area, at) ==
    IF at > RegionSectors \/ area[at].run = None THEN None
    ELSE LET r == area[at].run IN
         IF \A i \in 1 .. Sectors(r) :
               at + i - 1 <= RegionSectors /\ area[at + i - 1] = [run |-> r, part |-> i]
         THEN r ELSE None

\* The runs of a region, up to the first that is torn.
RunsOf(region) ==
    LET step(acc, i) ==
            LET at == 1 + Used(acc.runs) r == RunAt(region.area, at) IN
            IF acc.torn \/ at > region.header.used \/ r = None THEN [acc EXCEPT !.torn = TRUE]
            ELSE [acc EXCEPT !.runs = Append(@, r)]
    IN  FoldLeft(step, [runs |-> <<>>, torn |-> FALSE], [i \in 1 .. region.header.count |-> i]).runs

\* read refuses a packed run; read_packed takes both.
read(region) ==
    IF \E r \in ToSet(RunsOf(region)) : r.packed THEN None
    ELSE [new(0, 0, 0, RunsOf(region)) EXCEPT !.header = region.header]
read_packed(region) ==
    [new(0, 0, 0, RunsOf(region)) EXCEPT !.header = region.header]

-----------------------------------------------------------------------------
FreshHeader == [count |-> 0, used |-> 0, lsn |-> 0]
FreshRegion == [header |-> FreshHeader, area |-> [s \in 1 .. RegionSectors |-> Blank]]

Init ==
    /\ node = new(0, 0, 0, <<>>) /\ regions = <<FreshRegion, FreshRegion>>
    /\ cur = 1 /\ writes = <<>> /\ target = 1 /\ lsn = 0 /\ ops = <<>>

Idle == node.loaded /\ writes = <<>>

Mutate(k, v) ==
    /\ Idle /\ lsn < MaxLsn
    /\ lsn' = lsn + 1
    /\ ops' = Append(ops, [lsn |-> lsn + 1, key |-> k, val |-> v])
    /\ node' = push_journal(node, [lsn |-> lsn + 1, key |-> k, val |-> v])
    /\ UNCHANGED <<regions, cur, writes, target>>

Lookup(k) ==
    /\ Idle /\ node' = looked_up(node, k)
    /\ UNCHANGED <<regions, cur, writes, target, lsn, ops>>

\* The journal becomes a run that is appended to the node's own region.
Flush(packed) ==
    LET run == PendingRun(node, packed)
        h == [node.header EXCEPT !.used = @ + Sectors(run), !.count = @ + 1,
                                 !.lsn = MaxOf({@, run.lsn})]
    IN  /\ Idle /\ can_flush(node) /\ ~should_compact(node.header) /\ Fits(h.used)
        /\ node' = [flush_to_run(node, packed) EXCEPT !.header = h]
        /\ writes' = append_sorted_run(h, run) /\ target' = cur
        /\ UNCHANGED <<regions, cur, lsn, ops>>

\* A compaction is written in full to the other region.
Compact(packed) ==
    LET nd == compact(node, packed) IN
    /\ Idle /\ Len(node.runs) + Len(node.pending) > 0
    /\ Fits(Used(nd.runs))
    /\ node' = [nd EXCEPT !.header = Written(nd.header, nd.runs)]
    /\ writes' = write_full(nd.header, nd.runs) /\ target' = 3 - cur
    /\ UNCHANGED <<regions, cur, lsn, ops>>

\* One write reaches the device; after the last one the new region is used
\* and the other one, which nothing reads until it is rewritten, is freed.
Step ==
    /\ writes # <<>>
    /\ writes' = Tail(writes)
    /\ cur' = IF Len(writes) = 1 THEN target ELSE cur
    /\ regions' = [i \in 1 .. 2 |->
           IF i = target THEN Apply(regions[i], Head(writes))
           ELSE IF i # cur' THEN FreshRegion ELSE regions[i]]
    /\ UNCHANGED <<node, target, lsn, ops>>

Crash ==
    /\ node.loaded /\ node' = None /\ writes' = <<>>
    /\ regions' = [regions EXCEPT ![3 - cur] = FreshRegion] /\ target' = cur
    /\ UNCHANGED <<cur, lsn, ops>>

\* Mutations the region does not hold come back from the log.
Replay(nd, log) ==
    FoldLeft(LAMBDA n, e : IF e.lsn > nd.header.lsn THEN push_journal(n, e) ELSE n, nd, log)
Reopen ==
    /\ ~node.loaded
    /\ node' = Replay(IF read(regions[cur]) # None THEN read(regions[cur])
                      ELSE read_packed(regions[cur]), ops)
    /\ UNCHANGED <<regions, cur, writes, target, lsn, ops>>

Next ==
    \/ \E k \in Keys, v \in Vals \cup {Absent} : Mutate(k, v)
    \/ \E k \in Keys : Lookup(k)
    \/ \E packed \in BOOLEAN : Flush(packed) \/ Compact(packed)
    \/ Step
    \/ Crash
    \/ Reopen

Spec == Init /\ [][Next]_vars

-----------------------------------------------------------------------------
\* The map the mutations made, latest last.
Truth(k) ==
    LET on == {i \in DOMAIN ops : ops[i].key = k}
    IN  IF on = {} THEN Absent ELSE ops[Max(on)].val

\* A loaded node is a map: a lookup, cached or not, and a range scan answer
\* with the last mutation of a key, whatever flushes, compactions, crashes and
\* reloads came between, and a removed key never comes back from an older run.
NodeIsMap ==
    node.loaded =>
        \A k \in Keys : lookup(node, k) = Truth(k) /\ Value(range(node, {k}), k) = Truth(k)

\* At every moment the region on the device, with the mutations of the log
\* above the sequence number in its header, makes up the whole map; the pin
\* holds back at least those mutations while no write is under way.
RecoverableFromLog ==
    LET nd == read_packed(regions[cur]) IN
    /\ \A k \in Keys : Value(merge_iter(Replay(nd, ops)), k) = Truth(k)
    /\ (node.loaded /\ writes = <<>> /\ lsn > nd.header.lsn) =>
           node.pin.count > 0 /\ node.pin.min <= nd.header.lsn + 1
=============================================================================
