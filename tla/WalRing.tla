------------------------------- MODULE WalRing -------------------------------
(***************************************************************************)
(* The write-ahead log of crates/wal/src/ring.rs: a ring of 4 KiB sectors, *)
(* one entry per sector, with two alternating header blocks (slots A, B)   *)
(* on a block device that loses unsynced writes in a crash.                *)
(*                                                                         *)
(* Abstractions.  Cursors and used_bytes are counted in sectors, not       *)
(* bytes.  An entry is its LSN and an opaque payload.  A checksum is a     *)
(* Boolean: a block whose write was torn fails it.  `magic' and `crc' are  *)
(* kept apart because checkpoint looks only at the magic.                  *)
(*                                                                         *)
(* The device.  write_at puts a write in the page cache (`pend'), which    *)
(* the system writes back at any time; sync returns once nothing is left.  *)
(* A crash drops what was not written back and may tear a write that was   *)
(* on its way.  InOrder says whether write-back follows the order of the   *)
(* calls (a killed process, or a device that does not reorder) or not.     *)
(***************************************************************************)
EXTENDS Integers, Sequences, FiniteSets

CONSTANTS
    Sectors,    \* data_sectors(): sectors in the ring's data area
    Payloads,   \* the operations a caller can log
    StaleLsns,  \* LSNs of entries an earlier use of the device left behind
    InOrder,    \* TRUE: unsynced writes reach the medium in call order
    IoErrors,   \* TRUE: write_at and sync may fail
    MaxLsn,     \* bound: appends stop once next_lsn passes it
    MaxGen      \* bound: no header flush beyond this generation

ASSUME SectorsAssumption == Sectors \in Nat \ {0}
ASSUME PayloadsAssumption == Payloads # {}
ASSUME StaleAssumption == StaleLsns \subseteq Nat
ASSUME FaultAssumption == InOrder \in BOOLEAN /\ IoErrors \in BOOLEAN
ASSUME BoundAssumption == MaxLsn \in Nat /\ MaxGen \in Nat

VARIABLES
    slot,    \* the two header blocks on the medium
    sect,    \* the data sectors on the medium
    pend,    \* writes issued and not yet on the medium, oldest first
    wal,     \* Wal.header: the cached header
    active,  \* Wal.active_slot
    pc,      \* where the running call stands ("down": process not running)
    cur,     \* the entry the running append is writing
    acked,   \* history: the entries whose append returned Ok
    trim     \* history: the highest LSN ever passed to checkpoint

vars == <<slot, sect, pend, wal, active, pc, cur, acked, trim>>

Slots == {"A", "B"}
Ring == 0 .. Sectors - 1

Header == [crc: BOOLEAN, generation: Nat, next_lsn: Nat, write_cursor: Ring,
           read_cursor: Ring, used: 0 .. Sectors, last_checkpoint_lsn: Nat]

\* What a reader finds in a data sector.
Sector == [magic: BOOLEAN, crc: BOOLEAN, lsn: Nat, payload: Payloads]

Entry(l, p) == [magic |-> TRUE, crc |-> TRUE, lsn |-> l, payload |-> p]

Write == [to: {"hdr"}, at: Slots, val: Header]
            \cup [to: {"sec"}, at: Ring, val: Sector]

TypeOK ==
    /\ slot \in [Slots -> Header]
    /\ sect \in [Ring -> Sector]
    /\ pend \in Seq(Write)
    /\ wal \in Header
    /\ active \in Slots
    /\ pc \in {"down", "idle", "append_hdr", "append_sync", "ckpt_sync"}
    /\ cur \in Sector
    /\ acked \subseteq Sector
    /\ trim \in Nat

-----------------------------------------------------------------------------
(* Reading the device and the ring.                                        *)

\* read_at of a data sector sees the page cache before the medium.
CachedSector(i) ==
    LET hits == {k \in 1 .. Len(pend) : pend[k].to = "sec" /\ pend[k].at = i}
    IN  IF hits = {} THEN sect[i]
        ELSE pend[CHOOSE k \in hits : \A m \in hits : m <= k].val

\* The i-th sector after cursor c, round the ring.
Pos(c, i) == (c + i) % Sectors
Other(s) == IF s = "A" THEN "B" ELSE "A"

\* Mutant of PickSlot: any valid copy will do, slot A first.
PickFirstValid(sl) == IF sl["A"].crc THEN "A" ELSE "B"

\* Wal::open: the valid copy with the larger generation, A on a tie.
ValidSlots(sl) == {s \in Slots : sl[s].crc}
PickSlot(sl) ==
    IF ~sl["A"].crc THEN "B"
    ELSE IF sl["B"].crc /\ sl["B"].generation > sl["A"].generation
         THEN "B" ELSE "A"

\* The sectors a header says are in use, oldest first.
Window(h, s) ==
    [i \in 1 .. h.used |-> s[Pos(h.read_cursor, i - 1)]]

\* WalIter: entries come out up to the first sector that fails its magic or
\* its checksum; from there on the iterator answers with an error.
IterLen(h, s) ==
    CHOOSE n \in 0 .. h.used :
        /\ \A i \in 1 .. n : Window(h, s)[i].magic /\ Window(h, s)[i].crc
        /\ n < h.used => ~(Window(h, s)[n + 1].magic /\ Window(h, s)[n + 1].crc)
IterEntries(h, s) == SubSeq(Window(h, s), 1, IterLen(h, s))
IterFails(h, s) == IterLen(h, s) < h.used

\* Wal::checkpoint: the walk from read_cursor reclaims n sectors, up to the
\* first one without the magic or with an LSN above l.
Droppable(h, i, l) ==
    LET e == CachedSector(Pos(h.read_cursor, i)) IN e.magic /\ e.lsn <= l
Reclaims(h, l, n) ==
    /\ \A i \in 0 .. n - 1 : Droppable(h, i, l)
    /\ n < h.used => ~Droppable(h, n, l)

-----------------------------------------------------------------------------
(* The operations.                                                         *)

\* Wal::format: slot A with generation 1, slot B a copy with generation 0.
\* The data area keeps whatever the device held before.
FormatHeader(g) ==
    [crc |-> TRUE, generation |-> g, next_lsn |-> 1, write_cursor |-> 0,
     read_cursor |-> 0, used |-> 0, last_checkpoint_lsn |-> 0]

Blank == [magic |-> FALSE, crc |-> FALSE, lsn |-> 0,
          payload |-> CHOOSE p \in Payloads : TRUE]

Init ==
    /\ slot = [s \in Slots |-> FormatHeader(IF s = "A" THEN 1 ELSE 0)]
    /\ sect \in [Ring -> {Blank} \cup
                    {Entry(l, p) : l \in StaleLsns, p \in Payloads}]
    /\ pend = <<>>
    /\ wal = FormatHeader(1)
    /\ active = "A"
    /\ pc = "idle"
    /\ cur = Blank
    /\ acked = {}
    /\ trim = 0

\* Mutant of FlushHeader: the active slot is overwritten in place.
FlushActiveSlot(h) ==
    /\ h.generation < MaxGen
    /\ wal' = [h EXCEPT !.generation = @ + 1]
    /\ pend' = Append(pend, [to |-> "hdr", at |-> active, val |-> wal'])
    /\ active' = active

\* flush_header: bump the generation and write the inactive slot.  The slot
\* becomes the active one only if the write succeeded.
FlushHeader(h) ==
    /\ h.generation < MaxGen
    /\ wal' = [h EXCEPT !.generation = @ + 1]
    /\ pend' = Append(pend, [to |-> "hdr", at |-> Other(active), val |-> wal'])
    /\ active' = Other(active)

FlushHeaderFails(h) ==
    /\ IoErrors
    /\ h.generation < MaxGen
    /\ wal' = [h EXCEPT !.generation = @ + 1]
    /\ UNCHANGED <<pend, active>>

\* Mutant of AppendSector: no ring-full test.
AppendUnchecked(p) ==
    /\ pc = "idle"
    /\ wal.next_lsn <= MaxLsn
    /\ cur' = Entry(wal.next_lsn, p)
    /\ pend' = Append(pend, [to |-> "sec", at |-> wal.write_cursor, val |-> cur'])
    /\ wal' = [wal EXCEPT !.write_cursor = Pos(@, 1), !.used = @ + 1,
                          !.next_lsn = @ + 1]
    /\ pc' = "append_hdr"
    /\ UNCHANGED <<slot, sect, active, acked, trim>>

\* append_raw, up to and including the sector write and the bookkeeping of
\* the cached header.  A full ring, or a failed sector write, changes nothing.
AppendSector(p) ==
    /\ pc = "idle"
    /\ wal.next_lsn <= MaxLsn
    /\ wal.used + 1 <= Sectors
    /\ cur' = Entry(wal.next_lsn, p)
    /\ pend' = Append(pend, [to |-> "sec", at |-> wal.write_cursor, val |-> cur'])
    /\ wal' = [wal EXCEPT !.write_cursor = Pos(@, 1), !.used = @ + 1,
                          !.next_lsn = @ + 1]
    /\ pc' = "append_hdr"
    /\ UNCHANGED <<slot, sect, active, acked, trim>>

AppendHeader ==
    /\ pc = "append_hdr"
    /\ \/ FlushHeader(wal) /\ pc' = "append_sync"
       \/ FlushHeaderFails(wal) /\ pc' = "idle"
    /\ UNCHANGED <<slot, sect, cur, acked, trim>>

\* Mutant of AppendSync: the answer does not wait for device.sync().
AppendNoSync ==
    /\ pc = "append_sync"
    /\ acked' = acked \cup {cur}
    /\ pc' = "idle"
    /\ UNCHANGED <<slot, sect, pend, wal, active, cur, trim>>

\* sync returned Ok: everything issued is on the medium.  append answers Ok.
AppendSync ==
    /\ pc = "append_sync"
    /\ pend = <<>>
    /\ acked' = acked \cup {cur}
    /\ pc' = "idle"
    /\ UNCHANGED <<slot, sect, pend, wal, active, cur, trim>>

\* checkpoint(l): reclaim, remember l, flush the header.
Checkpoint(l) ==
    /\ pc = "idle"
    /\ \E n \in 0 .. wal.used :
         /\ Reclaims(wal, l, n)
         /\ LET h == [wal EXCEPT !.read_cursor = Pos(@, n), !.used = @ - n,
                                 !.last_checkpoint_lsn = l]
            IN  \/ FlushHeader(h) /\ pc' = "ckpt_sync"
                \/ FlushHeaderFails(h) /\ pc' = "idle"
    /\ trim' = IF l > trim THEN l ELSE trim
    /\ UNCHANGED <<slot, sect, cur, acked>>

CheckpointSync ==
    /\ pc = "ckpt_sync"
    /\ pend = <<>>
    /\ pc' = "idle"
    /\ UNCHANGED <<slot, sect, pend, wal, active, cur, acked, trim>>

\* sync failed: the call returns the error, the writes stay in the cache.
SyncFails ==
    /\ IoErrors
    /\ pc \in {"append_sync", "ckpt_sync"}
    /\ pc' = "idle"
    /\ UNCHANGED <<slot, sect, pend, wal, active, cur, acked, trim>>

-----------------------------------------------------------------------------
(* The environment: write-back, crash and restart.                         *)

\* The pending writes without number k.
Without(k) ==
    [i \in 1 .. Len(pend) - 1 |-> IF i < k THEN pend[i] ELSE pend[i + 1]]

\* Write number k reaches the medium.  Two writes of one block never swap.
Writeback(k) ==
    /\ k \in 1 .. Len(pend)
    /\ InOrder => k = 1
    /\ \A m \in 1 .. k - 1 : pend[m].to = pend[k].to => pend[m].at # pend[k].at
    /\ IF pend[k].to = "hdr"
       THEN slot' = [slot EXCEPT ![pend[k].at] = pend[k].val] /\ sect' = sect
       ELSE sect' = [sect EXCEPT ![pend[k].at] = pend[k].val] /\ slot' = slot
    /\ pend' = Without(k)
    /\ UNCHANGED <<wal, active, pc, cur, acked, trim>>

\* The process dies.  The writes in T were under way and are torn: their
\* block fails its checksum (a torn sector may still show its magic).
TornAt(T, kind, at) ==
    {k \in T : pend[k].to = kind /\ pend[k].at = at}

Crash ==
    /\ pc # "down"
    /\ \E T \in SUBSET (1 .. Len(pend)), m \in BOOLEAN :
         /\ InOrder => T \subseteq {1}
         /\ slot' = [s \in Slots |->
                       IF TornAt(T, "hdr", s) = {} THEN slot[s]
                       ELSE [slot[s] EXCEPT !.crc = FALSE]]
         /\ sect' = [i \in Ring |->
                       IF TornAt(T, "sec", i) = {} THEN sect[i]
                       ELSE [sect[i] EXCEPT !.crc = FALSE, !.magic = m]]
    /\ pend' = <<>>
    /\ pc' = "down"
    /\ UNCHANGED <<wal, active, cur, acked, trim>>

\* Wal::open.  With no valid header it answers NoValidHeader: not enabled.
Open ==
    /\ pc = "down"
    /\ ValidSlots(slot) # {}
    /\ active' = PickSlot(slot)
    /\ wal' = slot[PickSlot(slot)]
    /\ pc' = "idle"
    /\ UNCHANGED <<slot, sect, pend, cur, acked, trim>>

Next ==
    \/ \E p \in Payloads : AppendSector(p)
    \/ AppendHeader
    \/ AppendSync
    \/ \E l \in 0 .. wal.next_lsn - 1 : Checkpoint(l)
    \/ CheckpointSync
    \/ SyncFails
    \/ \E k \in 1 .. Len(pend) : Writeback(k)
    \/ Crash
    \/ Open

Spec == Init /\ [][Next]_vars

-----------------------------------------------------------------------------
(* Properties.                                                             *)

\* What a restart would find on the medium.
Durable == slot[PickSlot(slot)]
Recovered == IterEntries(Durable, sect)

\* Every entry whose append returned Ok, and that no checkpoint was asked to
\* drop, is handed to replay after any crash (append_raw syncs the sector and
\* the header before it answers; open falls back to the other header slot).
AckedRecovered ==
    pc = "down" =>
        /\ ValidSlots(slot) # {}
        /\ \A e \in acked : e.lsn > trim =>
              \E i \in 1 .. Len(Recovered) : Recovered[i] = e

\* After any crash replay reads the whole window without an error, the LSNs
\* it sees are consecutive, and the last one is next_lsn - 1: no hole, no
\* entry of an earlier lap of the ring, nothing out of order.
RecoveredInSequence ==
    pc = "down" =>
        /\ ~IterFails(Durable, sect)
        /\ \A i \in 1 .. Len(Recovered) :
              Recovered[i].lsn = Durable.next_lsn - Durable.used + (i - 1)

\* An LSN is acknowledged for one entry only, whatever crashes lie between,
\* and a reopened log continues past every acknowledged LSN.
LsnNeverReused ==
    /\ \A e, f \in acked : e.lsn = f.lsn => e = f
    /\ pc = "idle" => \A e \in acked : e.lsn < wal.next_lsn

\* While the process runs, the cached header describes the sectors it sees:
\* the window ends at the write cursor and holds consecutive LSNs, so an
\* append never lands on an entry that is still needed.
WindowIntact ==
    pc # "down" =>
        /\ wal.write_cursor = Pos(wal.read_cursor, wal.used)
        /\ \A i \in 0 .. wal.used - 1 :
              CachedSector(Pos(wal.read_cursor, i)).lsn
                = wal.next_lsn - wal.used + i

\* "A half-written WAL entry fails its trailing CRC and is discarded"
\* (doc/COMPARISON.md): a restart reads the log without an error.  It does not
\* hold where the device may write the header back before the sector, which
\* the single sync of append_raw permits: the iterator then answers with an
\* error, and DiskEngine::open gives up.
TornEntryDiscarded == pc = "down" => ~IterFails(Durable, sect)

\* The ring implements the abstract log: what a restart would find changes
\* only by one whole append or by trimming a prefix, at the moment a header
\* block reaches the medium.
DL == INSTANCE DurableLog WITH
        LogPayloads <- Payloads,
        log <- [i \in 1 .. Durable.used |->
                  [lsn |-> Window(Durable, sect)[i].lsn,
                   payload |-> Window(Durable, sect)[i].payload]],
        next <- Durable.next_lsn
ImplementsDurableLog == DL!LogSpec

=============================================================================
