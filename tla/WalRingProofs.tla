---------------------------- MODULE WalRingProofs ----------------------------
(***************************************************************************)
(* Proofs about WalRing for every ring size, payload set and bound, on a   *)
(* device that writes back in order and does not fail (the two             *)
(* assumptions InOrder and ~IoErrors of each theorem).                     *)
(***************************************************************************)
EXTENDS WalRing, SequenceTheorems, TLAPS

-----------------------------------------------------------------------------
(* Going round the ring.                                                   *)

\* A cursor advanced by at most one lap stays in the ring, and wraps by
\* subtraction.
LEMMA PosInRing ==
    ASSUME NEW c \in Ring, NEW i \in 0 .. Sectors
    PROVE  /\ Pos(c, i) \in Ring
           /\ c + i < Sectors => Pos(c, i) = c + i
           /\ c + i >= Sectors => Pos(c, i) = c + i - Sectors
BY SectorsAssumption DEF Pos, Ring

\* Within one lap different offsets are different sectors.
LEMMA PosInjective ==
    ASSUME NEW c \in Ring, NEW i \in 0 .. Sectors - 1,
           NEW j \in 0 .. Sectors - 1, Pos(c, i) = Pos(c, j)
    PROVE  i = j
<1>1. /\ c + i < Sectors => Pos(c, i) = c + i
      /\ c + i >= Sectors => Pos(c, i) = c + i - Sectors
  BY SectorsAssumption, PosInRing
<1>2. /\ c + j < Sectors => Pos(c, j) = c + j
      /\ c + j >= Sectors => Pos(c, j) = c + j - Sectors
  BY SectorsAssumption, PosInRing
<1>. QED
  BY <1>1, <1>2, SectorsAssumption DEF Ring

\* Advancing twice is advancing by the sum.
LEMMA PosShift ==
    ASSUME NEW c \in Ring, NEW n \in 0 .. Sectors, NEW i \in 0 .. Sectors,
           n + i <= Sectors
    PROVE  Pos(Pos(c, n), i) = Pos(c, n + i)
<1>1. /\ Pos(c, n) \in Ring
      /\ c + n < Sectors => Pos(c, n) = c + n
      /\ c + n >= Sectors => Pos(c, n) = c + n - Sectors
  BY PosInRing, Zenon
<1>2. /\ Pos(c, n) + i < Sectors => Pos(Pos(c, n), i) = Pos(c, n) + i
      /\ Pos(c, n) + i >= Sectors => Pos(Pos(c, n), i) = Pos(c, n) + i - Sectors
  BY <1>1, PosInRing, Zenon
<1>3. /\ n + i \in 0 .. Sectors
      /\ c + (n + i) < Sectors => Pos(c, n + i) = c + (n + i)
      /\ c + (n + i) >= Sectors => Pos(c, n + i) = c + (n + i) - Sectors
  BY SectorsAssumption, PosInRing
<1>. QED
  BY <1>1, <1>2, <1>3, SectorsAssumption DEF Ring

-----------------------------------------------------------------------------
(* The inductive invariant.                                                *)

\* Header h describes sectors s: the window holds intact entries with
\* consecutive LSNs and ends at the write cursor.
Describes(h, s) ==
    /\ h.crc
    /\ h.used < h.next_lsn
    /\ h.write_cursor = Pos(h.read_cursor, h.used)
    /\ \A i \in 0 .. h.used - 1 :
          /\ s[Pos(h.read_cursor, i)].magic
          /\ s[Pos(h.read_cursor, i)].crc
          /\ s[Pos(h.read_cursor, i)].lsn = h.next_lsn - h.used + i

\* The durable header is the only one of its generation or a later one.
OlderSlot ==
    LET o == slot[Other(PickSlot(slot))]
    IN  o.crc => o.generation < Durable.generation

\* What an append in progress has done to the header.
Advanced(h) == [h EXCEPT !.write_cursor = Pos(@, 1), !.used = @ + 1,
                         !.next_lsn = @ + 1]
Bumped(h) == [h EXCEPT !.generation = @ + 1]
Trimmed(h, n, l) == [h EXCEPT !.read_cursor = Pos(@, n), !.used = @ - n,
                              !.last_checkpoint_lsn = l]

\* The pending writes are exactly w, or v and then w.
Pending1(w) == Len(pend) = 1 /\ pend[1] = w
Pending2(v, w) == Len(pend) = 2 /\ pend[1] = v /\ pend[2] = w

SecWrite == [to |-> "sec", at |-> Durable.write_cursor, val |-> cur]
HdrWrite == [to |-> "hdr", at |-> active, val |-> wal]

\* The cached header and slot are those on the medium and nothing is pending.
Settled == pend = <<>> /\ wal = Durable /\ active = PickSlot(slot)

Appending ==
    /\ Durable.used < Sectors
    /\ cur.magic /\ cur.crc /\ cur.lsn = Durable.next_lsn

SectorLanded == sect[Durable.write_cursor] = cur

AtAppendHdr ==
    /\ Appending
    /\ wal = Advanced(Durable)
    /\ active = PickSlot(slot)
    /\ Pending1(SecWrite) \/ (pend = <<>> /\ SectorLanded)

AtAppendSync ==
    \/ /\ Appending
       /\ wal = Bumped(Advanced(Durable))
       /\ active = Other(PickSlot(slot))
       /\ Pending2(SecWrite, HdrWrite) \/ (Pending1(HdrWrite) /\ SectorLanded)
    \/ /\ Settled
       /\ Durable.used > 0
       /\ cur = sect[Pos(Durable.read_cursor, Durable.used - 1)]
       /\ \A e \in acked : e.lsn < cur.lsn

AtCkptSync ==
    \/ /\ active = Other(PickSlot(slot))
       /\ Pending1(HdrWrite)
       /\ \E n \in 0 .. Durable.used :
            /\ wal = Bumped(Trimmed(Durable, n, wal.last_checkpoint_lsn))
            /\ \A i \in 0 .. n - 1 :
                  sect[Pos(Durable.read_cursor, i)].lsn <= trim
    \/ Settled

Phase ==
    /\ pc = "down" => pend = <<>>
    /\ pc = "idle" => Settled
    /\ pc = "append_hdr" => AtAppendHdr
    /\ pc = "append_sync" => AtAppendSync
    /\ pc = "ckpt_sync" => AtCkptSync

AckedKept ==
    /\ \A e \in acked :
          /\ e.lsn < Durable.next_lsn
          /\ e.lsn > trim =>
                \E i \in 0 .. Durable.used - 1 :
                    sect[Pos(Durable.read_cursor, i)] = e
    /\ \A e, f \in acked : e.lsn = f.lsn => e = f

IInv ==
    /\ TypeOK
    /\ Describes(Durable, sect)
    /\ OlderSlot
    /\ Phase
    /\ AckedKept

-----------------------------------------------------------------------------
(* Lemmas about the pieces.                                                *)

\* Appending to a queue of one write gives a queue of two.
LEMMA AppendToOne ==
  ASSUME NEW S, NEW q \in Seq(S), NEW x \in S, Len(q) = 1
  PROVE  /\ Len(Append(q, x)) = 2
         /\ Append(q, x)[1] = q[1]
         /\ Append(q, x)[2] = x
<1>1. Len(Append(q, x)) = 2
  <2>1. Len(Append(q, x)) = Len(q) + 1
    BY AppendProperties, ZenonT(60)
  <2>. QED
    BY <2>1
<1>2. Append(q, x)[1] = q[1]
  <2>1. \A i \in 1 .. Len(q) : Append(q, x)[i] = q[i]
    BY AppendProperties, SMTT(60)
  <2>. QED
    BY <2>1
<1>3. Append(q, x)[2] = x
  <2>1. Append(q, x)[Len(q) + 1] = x
    BY AppendProperties, Zenon
  <2>2. Len(q) + 1 = 2
    OBVIOUS
  <2>. QED
    BY <2>1, <2>2, Zenon
<1>. QED
  BY <1>1, <1>2, <1>3, Zenon

\* A header that describes the window keeps doing so when the sector just
\* past the window changes, which is where append writes.
LEMMA DescribesOutside ==
    ASSUME NEW h \in Header, NEW s \in [Ring -> Sector], NEW v \in Sector,
           Describes(h, s), h.used < Sectors
    PROVE  /\ Describes(h, [s EXCEPT ![h.write_cursor] = v])
           /\ \A i \in 0 .. h.used - 1 :
                 [s EXCEPT ![h.write_cursor] = v][Pos(h.read_cursor, i)]
                    = s[Pos(h.read_cursor, i)]
<1>1. /\ h.used \in Nat /\ h.used \in 0 .. Sectors - 1
      /\ h.read_cursor \in Ring /\ h.write_cursor \in Ring
  BY SectorsAssumption DEF Header
<1>2. ASSUME NEW i \in 0 .. h.used - 1
      PROVE  Pos(h.read_cursor, i) \in Ring /\ Pos(h.read_cursor, i) # h.write_cursor
  <2>1. i \in 0 .. Sectors - 1 /\ i # h.used /\ i \in 0 .. Sectors
    BY <1>1, SectorsAssumption
  <2>. QED
    BY <1>1, <2>1, PosInRing, PosInjective DEF Describes
<1>3. \A i \in 0 .. h.used - 1 :
         [s EXCEPT ![h.write_cursor] = v][Pos(h.read_cursor, i)]
            = s[Pos(h.read_cursor, i)]
  BY <1>2, Zenon
<1>. QED
  BY <1>3, Zenon DEF Describes

\* The fields of the header that append builds.
LEMMA AdvancedType ==
    ASSUME NEW h \in Header, h.used < Sectors
    PROVE  /\ Advanced(h) \in Header
           /\ Advanced(h).crc = h.crc /\ Advanced(h).generation = h.generation
           /\ Advanced(h).next_lsn = h.next_lsn + 1
           /\ Advanced(h).used = h.used + 1
           /\ Advanced(h).read_cursor = h.read_cursor
           /\ Advanced(h).write_cursor = Pos(h.write_cursor, 1)
<1>1. /\ h.used + 1 \in 0 .. Sectors /\ h.next_lsn + 1 \in Nat
      /\ h.write_cursor \in Ring
  BY SectorsAssumption DEF Header
<1>2. Pos(h.write_cursor, 1) \in Ring
  BY <1>1, SectorsAssumption, PosInRing
<1>3. Advanced(h) \in Header
  BY <1>1, <1>2, Zenon DEF Header, Advanced
<1>4. /\ Advanced(h).crc = h.crc /\ Advanced(h).generation = h.generation
      /\ Advanced(h).next_lsn = h.next_lsn + 1 /\ Advanced(h).used = h.used + 1
  BY Zenon DEF Header, Advanced
<1>5. /\ Advanced(h).read_cursor = h.read_cursor
      /\ Advanced(h).write_cursor = Pos(h.write_cursor, 1)
  BY Zenon DEF Header, Advanced
<1>. QED
  BY <1>3, <1>4, <1>5, Zenon

\* The fields of the header that checkpoint builds.
LEMMA TrimmedType ==
    ASSUME NEW h \in Header, NEW n \in 0 .. h.used, NEW l \in Nat
    PROVE  /\ Trimmed(h, n, l) \in Header
           /\ Trimmed(h, n, l).crc = h.crc
           /\ Trimmed(h, n, l).generation = h.generation
           /\ Trimmed(h, n, l).next_lsn = h.next_lsn
           /\ Trimmed(h, n, l).used = h.used - n
           /\ Trimmed(h, n, l).read_cursor = Pos(h.read_cursor, n)
           /\ Trimmed(h, n, l).write_cursor = h.write_cursor
           /\ Trimmed(h, n, l).last_checkpoint_lsn = l
<1>1. /\ h.used - n \in 0 .. Sectors /\ n \in 0 .. Sectors
      /\ h.read_cursor \in Ring
  BY SectorsAssumption DEF Header
<1>2. Pos(h.read_cursor, n) \in Ring
  BY <1>1, PosInRing, Zenon
<1>3. Trimmed(h, n, l) \in Header
  BY <1>1, <1>2, Zenon DEF Header, Trimmed
<1>4. /\ Trimmed(h, n, l).crc = h.crc
      /\ Trimmed(h, n, l).generation = h.generation
      /\ Trimmed(h, n, l).next_lsn = h.next_lsn
      /\ Trimmed(h, n, l).last_checkpoint_lsn = l
  BY Zenon DEF Header, Trimmed
<1>5. /\ Trimmed(h, n, l).used = h.used - n
      /\ Trimmed(h, n, l).read_cursor = Pos(h.read_cursor, n)
      /\ Trimmed(h, n, l).write_cursor = h.write_cursor
  BY Zenon DEF Header, Trimmed
<1>. QED
  BY <1>3, <1>4, <1>5, Zenon

\* flush_header changes only the generation.
LEMMA BumpedType ==
    ASSUME NEW h \in Header
    PROVE  /\ Bumped(h) \in Header
           /\ Bumped(h).generation = h.generation + 1
           /\ Bumped(h).crc = h.crc /\ Bumped(h).next_lsn = h.next_lsn
           /\ Bumped(h).used = h.used /\ Bumped(h).read_cursor = h.read_cursor
           /\ Bumped(h).write_cursor = h.write_cursor
           /\ Bumped(h).last_checkpoint_lsn = h.last_checkpoint_lsn
BY DEF Header, Bumped

\* The header an append is about to publish describes the ring once the new
\* entry is in place.
LEMMA DescribesAdvanced ==
    ASSUME NEW h \in Header, NEW s \in [Ring -> Sector], NEW e \in Sector,
           Describes(h, s), h.used < Sectors,
           e.magic, e.crc, e.lsn = h.next_lsn, s[h.write_cursor] = e
    PROVE  /\ Bumped(Advanced(h)) \in Header
           /\ Describes(Bumped(Advanced(h)), s)
           /\ Bumped(Advanced(h)).generation = h.generation + 1
           /\ Bumped(Advanced(h)).next_lsn = h.next_lsn + 1
           /\ Bumped(Advanced(h)).used = h.used + 1
           /\ Bumped(Advanced(h)).read_cursor = h.read_cursor
           /\ s[Pos(h.read_cursor, h.used)] = e
<1>. DEFINE a == Bumped(Advanced(h))
<1>1. /\ h.used \in 0 .. Sectors - 1 /\ h.read_cursor \in Ring
      /\ h.write_cursor \in Ring /\ h.next_lsn \in Nat /\ h.generation \in Nat
  BY SectorsAssumption DEF Header
<1>4. /\ a \in Header
      /\ a.crc = h.crc /\ a.generation = h.generation + 1
      /\ a.next_lsn = h.next_lsn + 1 /\ a.used = h.used + 1
      /\ a.read_cursor = h.read_cursor
      /\ a.write_cursor = Pos(h.write_cursor, 1)
  BY AdvancedType, BumpedType
<1>5. Pos(h.write_cursor, 1) = Pos(h.read_cursor, h.used + 1)
  BY <1>1, SectorsAssumption, PosShift DEF Describes
<1>6. s[Pos(h.read_cursor, h.used)] = e
  BY Zenon DEF Describes
<1>7. ASSUME NEW i \in 0 .. a.used - 1
      PROVE  /\ s[Pos(a.read_cursor, i)].magic
             /\ s[Pos(a.read_cursor, i)].crc
             /\ s[Pos(a.read_cursor, i)].lsn = a.next_lsn - a.used + i
  <2>1. CASE i = h.used
    BY <2>1, <1>1, <1>4, <1>6
  <2>2. CASE i \in 0 .. h.used - 1
    BY <2>2, <1>1, <1>4 DEF Describes
  <2>. QED
    BY <2>1, <2>2, <1>1, <1>4
<1>8. Describes(a, s)
  BY <1>1, <1>4, <1>5, <1>7 DEF Describes
<1>. QED
  BY <1>4, <1>6, <1>8, Zenon

\* So does the header a checkpoint is about to publish.
LEMMA DescribesTrimmed ==
    ASSUME NEW h \in Header, NEW s \in [Ring -> Sector], Describes(h, s),
           NEW n \in 0 .. h.used, NEW l \in Nat
    PROVE  /\ Bumped(Trimmed(h, n, l)) \in Header
           /\ Describes(Bumped(Trimmed(h, n, l)), s)
           /\ Bumped(Trimmed(h, n, l)).generation = h.generation + 1
           /\ Bumped(Trimmed(h, n, l)).next_lsn = h.next_lsn
           /\ Bumped(Trimmed(h, n, l)).used = h.used - n
           /\ \A i \in 0 .. h.used - n - 1 :
                 Pos(Bumped(Trimmed(h, n, l)).read_cursor, i)
                    = Pos(h.read_cursor, n + i)
<1>. DEFINE t == Bumped(Trimmed(h, n, l))
<1>1. /\ h.used \in 0 .. Sectors /\ h.read_cursor \in Ring
      /\ h.write_cursor \in Ring /\ h.next_lsn \in Nat /\ h.generation \in Nat
      /\ n \in 0 .. Sectors
  BY SectorsAssumption DEF Header
<1>4. /\ t \in Header
      /\ t.crc = h.crc /\ t.generation = h.generation + 1
      /\ t.next_lsn = h.next_lsn /\ t.used = h.used - n
      /\ t.read_cursor = Pos(h.read_cursor, n)
      /\ t.write_cursor = h.write_cursor
  BY TrimmedType, BumpedType
<1>5. ASSUME NEW i \in 0 .. h.used - n
      PROVE  Pos(t.read_cursor, i) = Pos(h.read_cursor, n + i)
  BY <1>1, <1>4, SectorsAssumption, PosShift
<1>6. t.write_cursor = Pos(t.read_cursor, t.used)
  <2>1. Pos(t.read_cursor, h.used - n) = Pos(h.read_cursor, n + (h.used - n))
    BY <1>5, <1>1
  <2>2. n + (h.used - n) = h.used
    BY <1>1
  <2>. QED
    BY <2>1, <2>2, <1>4, Zenon DEF Describes
<1>7. ASSUME NEW i \in 0 .. t.used - 1
      PROVE  /\ s[Pos(t.read_cursor, i)].magic
             /\ s[Pos(t.read_cursor, i)].crc
             /\ s[Pos(t.read_cursor, i)].lsn = t.next_lsn - t.used + i
  <2>1. n + i \in 0 .. h.used - 1 /\ i \in 0 .. h.used - n
    BY <1>1, <1>4
  <2>. QED
    BY <2>1, <1>1, <1>4, <1>5 DEF Describes
<1>8. Describes(t, s)
  BY <1>1, <1>4, <1>6, <1>7 DEF Describes
<1>. QED
  BY <1>1, <1>4, <1>5, <1>8

-----------------------------------------------------------------------------
(* Init and the steps of the log itself.                                   *)

\* A freshly formatted log satisfies the invariant.
LEMMA InitIInv == Init => IInv
<1>. SUFFICES ASSUME Init PROVE IInv
  BY Zenon
<1>0. Sectors \in Nat /\ Sectors > 0
  BY SectorsAssumption
<1>1. /\ FormatHeader(1) \in Header /\ FormatHeader(0) \in Header
      /\ Blank \in Sector
  <2>1. 0 \in Ring /\ 0 \in 0 .. Sectors
    BY <1>0 DEF Ring
  <2>2. FormatHeader(1) \in Header /\ FormatHeader(0) \in Header
    BY <2>1, Zenon DEF FormatHeader, Header
  <2>3. (CHOOSE p \in Payloads : TRUE) \in Payloads
    BY PayloadsAssumption, Zenon
  <2>4. Blank \in Sector
    BY <2>3, Zenon DEF Blank, Sector
  <2>. QED
    BY <2>2, <2>4, Zenon
<1>2. \A l \in StaleLsns, p \in Payloads : Entry(l, p) \in Sector
  BY StaleAssumption, Zenon DEF Entry, Sector
<1>3. TypeOK
  <2>1. slot \in [Slots -> Header]
    BY <1>1, Zenon DEF Init
  <2>2. sect \in [Ring -> Sector]
    BY <1>1, <1>2 DEF Init
  <2>3. pend \in Seq(Write) /\ trim \in Nat
    BY DEF Init
  <2>. QED
    BY <1>1, <2>1, <2>2, <2>3, Zenon DEF Init, TypeOK, Slots
<1>4. /\ PickSlot(slot) = "A" /\ Durable = FormatHeader(1)
      /\ slot["B"] = FormatHeader(0)
  <2>1. slot["A"] = FormatHeader(1) /\ slot["B"] = FormatHeader(0)
    BY Zenon DEF Init, Slots
  <2>2. /\ FormatHeader(1).crc /\ FormatHeader(0).crc
        /\ FormatHeader(1).generation = 1 /\ FormatHeader(0).generation = 0
    BY Zenon DEF FormatHeader
  <2>3. PickSlot(slot) = "A"
    BY <2>1, <2>2 DEF PickSlot
  <2>. QED
    BY <2>1, <2>3, Zenon DEF Durable
<1>5. Pos(0, 0) = 0
  BY <1>0, PosInRing DEF Ring
<1>6. Describes(Durable, sect)
  BY <1>4, <1>5 DEF Describes, FormatHeader
<1>7. OlderSlot
  BY <1>4 DEF OlderSlot, Other, FormatHeader
<1>8. Phase
  BY <1>4, Zenon DEF Init, Phase, Settled
<1>9. AckedKept
  BY Zenon DEF Init, AckedKept
<1>. QED
  BY <1>3, <1>6, <1>7, <1>8, <1>9, Zenon DEF IInv

\* What TypeOK says of the durable header.
LEMMA DurableType ==
    ASSUME TypeOK
    PROVE  /\ PickSlot(slot) \in Slots /\ Other(PickSlot(slot)) \in Slots
           /\ Durable \in Header
           /\ Durable.used \in 0 .. Sectors /\ Durable.next_lsn \in Nat
           /\ Durable.generation \in Nat
           /\ Durable.read_cursor \in Ring /\ Durable.write_cursor \in Ring
<1>1. PickSlot(slot) \in Slots /\ Other(PickSlot(slot)) \in Slots
  BY Zenon DEF PickSlot, Other, Slots
<1>2. Durable \in Header
  BY <1>1, Zenon DEF TypeOK, Durable
<1>. QED
  BY <1>1, <1>2, Zenon DEF Header

\* A step that leaves the medium alone leaves what a restart would find alone.
LEMMA SameMedium ==
    ASSUME slot' = slot, sect' = sect
    PROVE  /\ Durable' = Durable /\ PickSlot(slot)' = PickSlot(slot)
           /\ Describes(Durable, sect) => Describes(Durable, sect)'
           /\ OlderSlot => OlderSlot'
           /\ acked' = acked /\ trim' = trim /\ AckedKept => AckedKept'
<1>1. Durable' = Durable /\ PickSlot(slot)' = PickSlot(slot)
  BY Zenon DEF Durable
<1>2. Describes(Durable, sect) => Describes(Durable, sect)'
  BY <1>1, Zenon DEF Describes
<1>3. OlderSlot => OlderSlot'
  BY <1>1, Zenon DEF OlderSlot
<1>4. acked' = acked /\ trim' = trim /\ AckedKept => AckedKept'
  BY <1>1, Zenon DEF AckedKept
<1>. QED
  BY <1>1, <1>2, <1>3, <1>4, Zenon

\* append_raw writes its sector just past the window.
LEMMA AppendSectorIInv ==
    ASSUME IInv, NEW p \in Payloads, AppendSector(p)
    PROVE  IInv'
<1>. USE DEF IInv
<1>1. /\ Settled /\ wal = Durable /\ pend = <<>> /\ active = PickSlot(slot)
      /\ pc' = "append_hdr" /\ slot' = slot /\ sect' = sect
      /\ acked' = acked /\ trim' = trim /\ active' = active
      /\ wal.used + 1 <= Sectors
      /\ cur' = Entry(wal.next_lsn, p)
      /\ pend' = Append(pend, [to |-> "sec", at |-> wal.write_cursor, val |-> cur'])
      /\ wal' = Advanced(wal)
  BY Zenon DEF AppendSector, Phase, Settled, Advanced
<1>2. /\ Durable' = Durable /\ PickSlot(slot)' = PickSlot(slot)
      /\ Describes(Durable, sect)' /\ OlderSlot' /\ AckedKept'
  BY <1>1, SameMedium, Zenon
<1>3. /\ Durable \in Header /\ Durable.used \in 0 .. Sectors
      /\ Durable.next_lsn \in Nat /\ Durable.write_cursor \in Ring
  BY DurableType, Zenon
<1>4. cur' \in Sector /\ cur'.magic /\ cur'.crc /\ cur'.lsn = Durable.next_lsn
  BY <1>1, <1>3, Zenon DEF Entry, Sector
<1>5. Pending1(SecWrite)'
  <2>1. SecWrite' = [to |-> "sec", at |-> wal.write_cursor, val |-> cur']
    BY <1>1, <1>2, Zenon DEF SecWrite
  <2>. QED
    BY <1>1, <2>1 DEF Pending1
<1>6. Durable.used < Sectors /\ wal' \in Header
  <2>1. Durable.used < Sectors
    BY <1>1, <1>3, SectorsAssumption
  <2>. QED
    BY <1>1, <1>3, <2>1, AdvancedType, Zenon
<1>7. TypeOK'
  <2>1. [to |-> "sec", at |-> wal.write_cursor, val |-> cur'] \in Write
    BY <1>1, <1>3, <1>4, Zenon DEF Write
  <2>2. pend' \in Seq(Write)
    BY <1>1, <2>1
  <2>. QED
    BY <1>1, <1>4, <1>6, <2>2, Zenon DEF TypeOK
<1>8. AtAppendHdr'
  BY <1>1, <1>2, <1>4, <1>5, <1>6, Zenon DEF AtAppendHdr, Appending
<1>9. Phase'
  BY <1>1, <1>8, Zenon DEF Phase
<1>. QED
  BY <1>2, <1>7, <1>9, Zenon

\* append_raw hands the advanced header to the inactive slot.
LEMMA AppendHeaderIInv ==
    ASSUME IInv, ~IoErrors, AppendHeader
    PROVE  IInv'
<1>. USE DEF IInv
<1>1. /\ AtAppendHdr
      /\ pc' = "append_sync" /\ slot' = slot /\ sect' = sect
      /\ acked' = acked /\ trim' = trim /\ cur' = cur
      /\ active' = Other(active) /\ wal' = Bumped(wal)
      /\ pend' = Append(pend, [to |-> "hdr", at |-> Other(active), val |-> wal'])
  BY Zenon DEF AppendHeader, FlushHeader, FlushHeaderFails, Phase, Bumped
<1>2. /\ Durable' = Durable /\ PickSlot(slot)' = PickSlot(slot)
      /\ Describes(Durable, sect)' /\ OlderSlot' /\ AckedKept'
  BY <1>1, SameMedium, Zenon
<1>3. wal' \in Header /\ Other(active) \in Slots
  BY <1>1, BumpedType, Zenon DEF TypeOK, Other, Slots
<1>4. SecWrite' = SecWrite /\ HdrWrite' = [to |-> "hdr", at |-> Other(active), val |-> wal']
  BY <1>1, <1>2, Zenon DEF SecWrite, HdrWrite
<1>5. \/ Pending2(SecWrite, HdrWrite)'
      \/ Pending1(HdrWrite)' /\ SectorLanded'
  <2>1. CASE Pending1(SecWrite)
    <3>1. pend \in Seq(Write) /\ Len(pend) = 1 /\ pend[1] = SecWrite
      BY <2>1, Zenon DEF Pending1, TypeOK
    <3>2. HdrWrite' \in Write
      BY <1>3, <1>4, Zenon DEF Write
    <3>3. pend' = Append(pend, HdrWrite')
      BY <1>1, <1>4, Zenon
    <3>4. Len(pend') = 2 /\ pend'[1] = pend[1] /\ pend'[2] = HdrWrite'
      BY <3>1, <3>2, <3>3, AppendToOne, ZenonT(60)
    <3>. QED
      BY <3>1, <3>4, <1>4, Zenon DEF Pending2
  <2>2. CASE pend = <<>> /\ SectorLanded
    BY <2>2, <1>1, <1>2, <1>4 DEF SectorLanded, Pending1
  <2>. QED
    BY <1>1, <2>1, <2>2, Zenon DEF AtAppendHdr
<1>6. TypeOK'
  <2>1. [to |-> "hdr", at |-> Other(active), val |-> wal'] \in Write
    BY <1>3, Zenon DEF Write
  <2>2. pend' \in Seq(Write)
    BY <1>1, <2>1 DEF TypeOK
  <2>. QED
    BY <1>1, <1>3, <2>2, Zenon DEF TypeOK
<1>7. AtAppendSync'
  BY <1>1, <1>2, <1>5, Zenon DEF AtAppendHdr, AtAppendSync, Appending
<1>8. Phase'
  BY <1>1, <1>7, Zenon DEF Phase
<1>. QED
  BY <1>2, <1>6, <1>8, Zenon


\* After the sync the durable header is the cached one.
LEMMA AppendSyncIInv ==
    ASSUME IInv, AppendSync
    PROVE  IInv'
<1>. USE DEF IInv
<1>1. /\ AtAppendSync /\ pend = <<>>
      /\ pc' = "idle" /\ slot' = slot /\ sect' = sect /\ pend' = pend
      /\ wal' = wal /\ active' = active /\ cur' = cur /\ trim' = trim
      /\ acked' = acked \cup {cur}
  BY Zenon DEF AppendSync, Phase
<1>2. /\ Durable' = Durable /\ PickSlot(slot)' = PickSlot(slot)
      /\ Describes(Durable, sect)' /\ OlderSlot'
  BY <1>1, SameMedium, Zenon
<1>3. /\ Settled /\ Durable.used > 0
      /\ cur = sect[Pos(Durable.read_cursor, Durable.used - 1)]
      /\ \A e \in acked : e.lsn < cur.lsn
  BY <1>1 DEF AtAppendSync, Pending1, Pending2
<1>4. TypeOK'
  BY <1>1, Zenon DEF TypeOK
<1>5. Phase'
  BY <1>1, <1>2, <1>3, Zenon DEF Phase, Settled
<1>6. /\ Durable.used \in Nat /\ Durable.next_lsn \in Nat
      /\ Durable.used - 1 \in 0 .. Durable.used - 1
  BY <1>3, DurableType
<1>7. cur.lsn = Durable.next_lsn - 1
  BY <1>3, <1>6 DEF Describes
<1>8. ASSUME NEW e \in acked'
      PROVE  /\ e.lsn < Durable.next_lsn
             /\ e.lsn > trim => \E i \in 0 .. Durable.used - 1 :
                                   sect[Pos(Durable.read_cursor, i)] = e
  <2>1. CASE e \in acked
    BY <2>1, Zenon DEF AckedKept
  <2>2. CASE e = cur
    BY <2>2, <1>3, <1>6, <1>7
  <2>. QED
    BY <1>1, <1>8, <2>1, <2>2, Zenon
<1>9. ASSUME NEW e \in acked', NEW f \in acked', e.lsn = f.lsn
      PROVE  e = f
  <2>1. /\ cur.lsn \in Nat
        /\ \A g \in acked : g.lsn \in Nat
    BY Zenon DEF TypeOK, Sector
  <2>. QED
    BY <1>1, <1>3, <1>9, <2>1 DEF AckedKept
<1>10. AckedKept'
  BY <1>1, <1>2, <1>8, <1>9, Zenon DEF AckedKept
<1>. QED
  BY <1>2, <1>4, <1>5, <1>10, Zenon

\* The same holds when checkpoint returns.
LEMMA CheckpointSyncIInv ==
    ASSUME IInv, CheckpointSync
    PROVE  IInv'
<1>. USE DEF IInv
<1>1. /\ AtCkptSync /\ pend = <<>>
      /\ pc' = "idle" /\ slot' = slot /\ sect' = sect /\ pend' = pend
      /\ wal' = wal /\ active' = active /\ cur' = cur /\ trim' = trim
      /\ acked' = acked
  BY Zenon DEF CheckpointSync, Phase
<1>2. /\ Durable' = Durable /\ PickSlot(slot)' = PickSlot(slot)
      /\ Describes(Durable, sect)' /\ OlderSlot' /\ AckedKept'
  BY <1>1, SameMedium, Zenon
<1>3. Settled
  BY <1>1 DEF AtCkptSync, Pending1
<1>4. TypeOK'
  BY <1>1, Zenon DEF TypeOK
<1>5. Phase'
  BY <1>1, <1>2, <1>3, Zenon DEF Phase, Settled
<1>. QED
  BY <1>2, <1>4, <1>5, Zenon

\* A restart caches the durable header.
LEMMA OpenIInv ==
    ASSUME IInv, Open
    PROVE  IInv'
<1>. USE DEF IInv
<1>1. /\ pend = <<>> /\ pc' = "idle" /\ slot' = slot /\ sect' = sect
      /\ pend' = pend /\ cur' = cur /\ trim' = trim /\ acked' = acked
      /\ wal' = Durable /\ active' = PickSlot(slot)
  BY Zenon DEF Open, Phase, Durable
<1>2. /\ Durable' = Durable /\ PickSlot(slot)' = PickSlot(slot)
      /\ Describes(Durable, sect)' /\ OlderSlot' /\ AckedKept'
  BY <1>1, SameMedium, Zenon
<1>3. TypeOK'
  BY <1>1, DurableType, Zenon DEF TypeOK
<1>4. Phase'
  BY <1>1, <1>2, Zenon DEF Phase, Settled
<1>. QED
  BY <1>2, <1>3, <1>4, Zenon

\* With nothing pending a reader sees the medium.
LEMMA CachedIsMedium ==
    ASSUME pend = <<>>, NEW i
    PROVE  CachedSector(i) = sect[i]
BY DEF CachedSector

\* checkpoint hands the trimmed header to the inactive slot.
LEMMA CheckpointIInv ==
    ASSUME IInv, ~IoErrors, NEW l \in Nat, Checkpoint(l)
    PROVE  IInv'
<1>. USE DEF IInv
<1>1. PICK n \in 0 .. wal.used :
         /\ Reclaims(wal, l, n)
         /\ FlushHeader(Trimmed(wal, n, l)) /\ pc' = "ckpt_sync"
  BY Zenon DEF Checkpoint, FlushHeaderFails, Trimmed
<1>2. /\ Settled /\ slot' = slot /\ sect' = sect /\ cur' = cur /\ acked' = acked
      /\ trim' = IF l > trim THEN l ELSE trim
      /\ wal' = Bumped(Trimmed(wal, n, l))
      /\ pend' = Append(pend, [to |-> "hdr", at |-> Other(active), val |-> wal'])
      /\ active' = Other(active)
  BY <1>1, Zenon DEF Checkpoint, FlushHeader, Phase, Bumped
<1>3. /\ Durable' = Durable /\ PickSlot(slot)' = PickSlot(slot)
      /\ Describes(Durable, sect)' /\ OlderSlot'
  BY <1>2, SameMedium, Zenon
<1>4. /\ trim \in Nat /\ trim' \in Nat /\ trim <= trim' /\ l <= trim'
  BY <1>2 DEF TypeOK
<1>5. AckedKept'
  <2>1. \A e \in acked : e.lsn \in Nat
    BY Zenon DEF TypeOK, Sector
  <2>2. ASSUME NEW e \in acked, e.lsn > trim' PROVE e.lsn > trim
    BY <2>1, <2>2, <1>4
  <2>. QED
    BY <2>2, <1>2, <1>3, Zenon DEF AckedKept
<1>6. /\ wal = Durable /\ pend = <<>> /\ active = PickSlot(slot)
      /\ n \in 0 .. Durable.used
  BY <1>1, <1>2, Zenon DEF Settled
<1>7. wal' \in Header /\ Other(active) \in Slots
  BY <1>2, <1>6, DescribesTrimmed, DurableType, Zenon DEF TypeOK
<1>8. TypeOK'
  <2>1. [to |-> "hdr", at |-> Other(active), val |-> wal'] \in Write
    BY <1>7, Zenon DEF Write
  <2>2. pend' \in Seq(Write)
    BY <1>2, <2>1 DEF TypeOK
  <2>. QED
    BY <1>1, <1>2, <1>4, <1>7, <2>2, Zenon DEF TypeOK
<1>9. Pending1(HdrWrite)'
  <2>1. HdrWrite' = [to |-> "hdr", at |-> Other(active), val |-> wal']
    BY <1>2, Zenon DEF HdrWrite
  <2>. QED
    BY <2>1, <1>2, <1>6 DEF Pending1
<1>10. wal'.last_checkpoint_lsn = l
  <2>1. /\ Trimmed(wal, n, l) \in Header
        /\ Trimmed(wal, n, l).last_checkpoint_lsn = l
    BY TrimmedType, Zenon DEF TypeOK
  <2>. QED
    BY <2>1, <1>2, BumpedType, Zenon
<1>11. \A i \in 0 .. n - 1 : sect[Pos(Durable.read_cursor, i)].lsn <= trim'
  <2>. SUFFICES ASSUME NEW i \in 0 .. n - 1
                PROVE  sect[Pos(Durable.read_cursor, i)].lsn <= trim'
    BY Zenon
  <2>1. sect[Pos(Durable.read_cursor, i)].lsn <= l
    BY <1>1, <1>6, CachedIsMedium, Zenon DEF Reclaims, Droppable
  <2>2. Pos(Durable.read_cursor, i) \in Ring
    <3>1. i \in 0 .. Sectors
      BY <1>6, DurableType, SectorsAssumption
    <3>. QED
      BY <3>1, DurableType, PosInRing, Zenon
  <2>3. sect[Pos(Durable.read_cursor, i)].lsn \in Nat
    BY <2>2, Zenon DEF TypeOK, Sector
  <2>. QED
    BY <2>1, <2>3, <1>4
<1>12. AtCkptSync'
  BY <1>2, <1>3, <1>6, <1>9, <1>10, <1>11, Zenon DEF AtCkptSync
<1>13. Phase'
  BY <1>1, <1>12, Zenon DEF Phase
<1>. QED
  BY <1>3, <1>5, <1>8, <1>13, Zenon

-----------------------------------------------------------------------------
(* The environment's steps.                                                *)

\* The entry being appended, or its torn remains, reach the sector past the
\* window: what a restart would find does not change.
LEMMA SectorLands ==
    ASSUME IInv, Durable.used < Sectors, NEW v \in Sector,
           slot' = slot, sect' = [sect EXCEPT ![Durable.write_cursor] = v],
           acked' = acked, trim' = trim
    PROVE  /\ Durable' = Durable /\ PickSlot(slot)' = PickSlot(slot)
           /\ sect' \in [Ring -> Sector] /\ sect'[Durable.write_cursor] = v
           /\ Describes(Durable, sect)' /\ OlderSlot' /\ AckedKept'
<1>. USE DEF IInv
<1>1. Durable' = Durable /\ PickSlot(slot)' = PickSlot(slot) /\ OlderSlot'
  BY Zenon DEF Durable, OlderSlot
<1>2. /\ Durable \in Header /\ Durable.write_cursor \in Ring
      /\ sect \in [Ring -> Sector]
  BY DurableType, Zenon DEF TypeOK
<1>3. sect' \in [Ring -> Sector] /\ sect'[Durable.write_cursor] = v
  BY <1>2, Zenon
<1>4. /\ Describes(Durable, sect')
      /\ \A i \in 0 .. Durable.used - 1 :
            sect'[Pos(Durable.read_cursor, i)] = sect[Pos(Durable.read_cursor, i)]
  BY <1>2, DescribesOutside, Zenon
<1>5. Describes(Durable, sect)'
  BY <1>1, <1>4, Zenon DEF Describes
<1>6. AckedKept'
  BY <1>1, <1>4 DEF AckedKept
<1>. QED
  BY <1>1, <1>3, <1>5, <1>6, Zenon

\* A newer header reaches the other slot and becomes the durable one.
LEMMA HeaderLands ==
    ASSUME IInv, wal.crc, wal.generation = Durable.generation + 1,
           active = Other(PickSlot(slot)), slot' = [slot EXCEPT ![active] = wal]
    PROVE  /\ Durable' = wal /\ PickSlot(slot)' = active
           /\ slot' \in [Slots -> Header] /\ OlderSlot'
<1>. USE DEF IInv
<1>1. /\ Durable \in Header /\ Durable.generation \in Nat /\ active \in Slots
      /\ slot \in [Slots -> Header] /\ slot[PickSlot(slot)].crc /\ wal \in Header
  BY DurableType, Zenon DEF TypeOK, Describes, Durable
<1>2. wal.generation > slot[PickSlot(slot)].generation
  BY <1>1 DEF Durable
<1>3. /\ PickSlot(slot') = active /\ Other(active) = PickSlot(slot)
      /\ slot'[PickSlot(slot)] = slot[PickSlot(slot)]
  <2>1. slot[Other(PickSlot(slot))].crc =>
           slot[Other(PickSlot(slot))].generation < slot[PickSlot(slot)].generation
    BY Zenon DEF OlderSlot, Durable
  <2>2. /\ slot["A"].generation \in Nat /\ slot["B"].generation \in Nat
        /\ wal.generation \in Nat
    BY <1>1, Zenon DEF Slots, Header
  <2>3. CASE PickSlot(slot) = "A"
    BY <1>1, <1>2, <2>1, <2>2, <2>3, Zenon DEF PickSlot, Other, Slots
  <2>4. CASE PickSlot(slot) = "B"
    BY <1>1, <1>2, <2>1, <2>2, <2>4 DEF PickSlot, Other, Slots
  <2>. QED
    BY <2>3, <2>4, Zenon DEF PickSlot
<1>4. Durable' = wal
  BY <1>1, <1>3, Zenon DEF Durable
<1>5. OlderSlot'
  BY <1>1, <1>2, <1>3, <1>4, Zenon DEF OlderSlot, Durable
<1>. QED
  BY <1>1, <1>3, <1>4, <1>5, Zenon

\* Tearing the header being written leaves the durable one in charge.
LEMMA HeaderTorn ==
    ASSUME IInv, active = Other(PickSlot(slot)),
           slot' = [slot EXCEPT ![active] = [slot[active] EXCEPT !.crc = FALSE]]
    PROVE  /\ Durable' = Durable /\ PickSlot(slot)' = PickSlot(slot)
           /\ slot' \in [Slots -> Header] /\ OlderSlot'
<1>. USE DEF IInv
<1>1. /\ active \in Slots /\ slot \in [Slots -> Header]
      /\ slot[PickSlot(slot)].crc
  BY DurableType, Zenon DEF TypeOK, Describes, Durable
<1>2. /\ [slot[active] EXCEPT !.crc = FALSE] \in Header
      /\ ~[slot[active] EXCEPT !.crc = FALSE].crc
  BY <1>1, Zenon DEF Header
<1>3. slot' \in [Slots -> Header] /\ ~slot'[active].crc
  BY <1>1, <1>2, Zenon
<1>4. /\ PickSlot(slot') = PickSlot(slot) /\ Other(PickSlot(slot)) = active
      /\ slot'[PickSlot(slot)] = slot[PickSlot(slot)]
  <2>1. CASE PickSlot(slot) = "A"
    BY <1>1, <1>3, <2>1, Zenon DEF PickSlot, Other, Slots
  <2>2. CASE PickSlot(slot) = "B"
    BY <1>1, <1>3, <2>2, Zenon DEF PickSlot, Other, Slots
  <2>. QED
    BY <2>1, <2>2, Zenon DEF PickSlot
<1>. QED
  BY <1>3, <1>4, Zenon DEF OlderSlot, Durable

\* Writing back the only pending write leaves none; of two, the second.
LEMMA WithoutFirst ==
    ASSUME pend \in Seq(Write)
    PROVE  /\ Len(pend) = 1 => Without(1) = <<>>
           /\ Len(pend) = 2 => /\ Without(1) \in Seq(Write)
                               /\ Len(Without(1)) = 1 /\ Without(1)[1] = pend[2]
<1>1. CASE Len(pend) = 1
  BY <1>1 DEF Without
<1>2. CASE Len(pend) = 2
  <2>1. Without(1) = [i \in 1 .. 1 |-> pend[i + 1]]
    BY <1>2 DEF Without
  <2>2. pend[2] \in Write
    BY <1>2
  <2>. QED
    BY <1>2, <2>1, <2>2
<1>. QED
  BY <1>1, <1>2, Zenon


\* A write that reaches the medium preserves the invariant.
LEMMA WritebackIInv ==
    ASSUME IInv, InOrder, NEW k \in 1 .. Len(pend), Writeback(k)
    PROVE  IInv'
<1>. USE DEF IInv
<1>1. /\ k = 1 /\ Len(pend) >= 1 /\ pend \in Seq(Write) /\ pend # <<>>
      /\ pend' = Without(1) /\ wal' = wal /\ active' = active /\ pc' = pc
      /\ cur' = cur /\ acked' = acked /\ trim' = trim
  BY DEF Writeback, TypeOK
<1>2. /\ pend[1].to = "hdr" =>
            slot' = [slot EXCEPT ![pend[1].at] = pend[1].val] /\ sect' = sect
      /\ pend[1].to = "sec" =>
            sect' = [sect EXCEPT ![pend[1].at] = pend[1].val] /\ slot' = slot
  BY <1>1, Zenon DEF Writeback
<1>3. \/ pc = "append_hdr" /\ Appending /\ AtAppendHdr /\ Pending1(SecWrite)
      \/ pc = "append_sync" /\ Appending /\ AtAppendSync /\ Pending2(SecWrite, HdrWrite)
      \/ pc = "append_sync" /\ Appending /\ AtAppendSync /\ Pending1(HdrWrite)
            /\ SectorLanded /\ wal = Bumped(Advanced(Durable))
            /\ active = Other(PickSlot(slot))
      \/ pc = "ckpt_sync" /\ AtCkptSync /\ Pending1(HdrWrite)
  BY <1>1, Zenon DEF Phase, TypeOK, Settled, AtAppendHdr, AtAppendSync, AtCkptSync
<1>4. CASE /\ Appending /\ pc = "append_hdr" /\ AtAppendHdr /\ Pending1(SecWrite)
  <2>1. pend[1] = SecWrite /\ Len(pend) = 1
    BY <1>4, Zenon DEF Pending1
  <2>2. /\ slot' = slot /\ sect' = [sect EXCEPT ![Durable.write_cursor] = cur]
        /\ cur \in Sector /\ Durable.used < Sectors
    <3>1. /\ pend[1].to = "sec" /\ pend[1].at = Durable.write_cursor
          /\ pend[1].val = cur
      BY <2>1 DEF SecWrite
    <3>2. cur \in Sector /\ Durable.used < Sectors
      BY <1>4, Zenon DEF TypeOK, Appending
    <3>. QED
      BY <1>2, <3>1, <3>2, Zenon
  <2>3. /\ Durable' = Durable /\ PickSlot(slot)' = PickSlot(slot)
        /\ sect' \in [Ring -> Sector] /\ sect'[Durable.write_cursor] = cur
        /\ Describes(Durable, sect)' /\ OlderSlot' /\ AckedKept'
    BY <1>1, <2>2, SectorLands, Zenon
  <2>4. pend' = <<>>
    BY <1>1, <2>1, WithoutFirst, Zenon
  <2>5. TypeOK'
    <3>1. pend' \in Seq(Write)
      BY <2>4
    <3>. QED
      BY <1>1, <2>2, <2>3, <3>1, Zenon DEF TypeOK
  <2>6. AtAppendHdr'
    BY <1>1, <1>4, <2>3, <2>4, Zenon DEF AtAppendHdr, Appending, SectorLanded
  <2>7. Phase'
    BY <1>1, <1>4, <2>6, Zenon DEF Phase
  <2>. QED
    BY <2>3, <2>5, <2>7, Zenon
<1>5. CASE /\ Appending /\ pc = "append_sync" /\ AtAppendSync
           /\ Pending2(SecWrite, HdrWrite)
  <2>1. pend[1] = SecWrite /\ Len(pend) = 2 /\ pend[2] = HdrWrite
    BY <1>5, Zenon DEF Pending2
  <2>2. /\ slot' = slot /\ sect' = [sect EXCEPT ![Durable.write_cursor] = cur]
        /\ cur \in Sector /\ Durable.used < Sectors
    <3>1. /\ pend[1].to = "sec" /\ pend[1].at = Durable.write_cursor
          /\ pend[1].val = cur
      BY <2>1 DEF SecWrite
    <3>2. cur \in Sector /\ Durable.used < Sectors
      BY <1>5, Zenon DEF TypeOK, Appending
    <3>. QED
      BY <1>2, <3>1, <3>2, Zenon
  <2>3. /\ Durable' = Durable /\ PickSlot(slot)' = PickSlot(slot)
        /\ sect' \in [Ring -> Sector] /\ sect'[Durable.write_cursor] = cur
        /\ Describes(Durable, sect)' /\ OlderSlot' /\ AckedKept'
    BY <1>1, <2>2, SectorLands, Zenon
  <2>4. pend' \in Seq(Write) /\ Len(pend') = 1 /\ pend'[1] = HdrWrite
    BY <1>1, <2>1, WithoutFirst, Zenon
  <2>5. TypeOK'
    BY <1>1, <2>2, <2>3, <2>4, Zenon DEF TypeOK
  <2>6. Pending1(HdrWrite)'
    BY <1>1, <2>4, Zenon DEF Pending1, HdrWrite
  <2>7. wal = Bumped(Advanced(Durable)) /\ active = Other(PickSlot(slot))
    BY <1>5 DEF AtAppendSync, Settled, Pending2
  <2>8. AtAppendSync'
    BY <1>1, <1>5, <2>3, <2>6, <2>7, Zenon DEF AtAppendSync, Appending, SectorLanded
  <2>9. Phase'
    BY <1>1, <1>5, <2>8, Zenon DEF Phase
  <2>. QED
    BY <2>3, <2>5, <2>9, Zenon
<1>6. CASE /\ pc = "append_sync" /\ Appending /\ Pending1(HdrWrite)
           /\ SectorLanded /\ wal = Bumped(Advanced(Durable))
           /\ active = Other(PickSlot(slot))
  <2>1. slot' = [slot EXCEPT ![active] = wal] /\ sect' = sect /\ pend' = <<>>
    BY <1>1, <1>2, <1>6, WithoutFirst DEF Pending1, HdrWrite
  <2>2. /\ Durable \in Header /\ sect \in [Ring -> Sector] /\ cur \in Sector
        /\ Durable.used \in 0 .. Sectors /\ Durable.next_lsn \in Nat
        /\ cur.lsn \in Nat
    BY DurableType, Zenon DEF TypeOK, Sector
  <2>3. /\ Describes(wal, sect) /\ wal.generation = Durable.generation + 1
        /\ wal.next_lsn = Durable.next_lsn + 1 /\ wal.used = Durable.used + 1
        /\ wal.read_cursor = Durable.read_cursor
        /\ sect[Pos(Durable.read_cursor, Durable.used)] = cur
    BY <1>6, <2>2, DescribesAdvanced DEF Appending, SectorLanded
  <2>4. /\ Durable' = wal /\ PickSlot(slot)' = active
        /\ slot' \in [Slots -> Header] /\ OlderSlot'
    BY <1>6, <2>1, <2>3, HeaderLands, Zenon DEF Describes
  <2>5. Describes(Durable, sect)'
    BY <2>1, <2>3, <2>4, Zenon DEF Describes
  <2>6. TypeOK'
    <3>1. pend' \in Seq(Write)
      BY <2>1
    <3>. QED
      BY <1>1, <2>1, <2>4, <3>1, Zenon DEF TypeOK
  <2>7. AckedKept'
    <3>1. ASSUME NEW e \in acked
          PROVE  /\ e.lsn < wal.next_lsn
                 /\ e.lsn > trim => \E i \in 0 .. wal.used - 1 :
                                       sect[Pos(wal.read_cursor, i)] = e
      <4>1. e.lsn \in Nat /\ e.lsn < Durable.next_lsn
        BY Zenon DEF AckedKept, TypeOK, Sector
      <4>2. 0 .. Durable.used - 1 \subseteq 0 .. wal.used - 1
        BY <2>2, <2>3
      <4>. QED
        BY <4>1, <4>2, <2>2, <2>3, SMTT(60) DEF AckedKept
    <3>. QED
      BY <3>1, <1>1, <2>1, <2>4, Zenon DEF AckedKept
  <2>8. AtAppendSync'
    <3>1. Settled'
      BY <1>1, <2>1, <2>4, Zenon DEF Settled
    <3>2. wal.used > 0 /\ wal.used - 1 = Durable.used
      BY <2>2, <2>3
    <3>3. \A e \in acked : e.lsn < cur.lsn
      BY <1>6, Zenon DEF AckedKept, Appending
    <3>. QED
      BY <1>1, <2>1, <2>3, <2>4, <3>1, <3>2, <3>3, Zenon DEF AtAppendSync
  <2>9. Phase'
    BY <1>1, <1>6, <2>8, Zenon DEF Phase
  <2>. QED
    BY <2>4, <2>5, <2>6, <2>7, <2>9, Zenon
<1>7. CASE pc = "ckpt_sync" /\ AtCkptSync /\ Pending1(HdrWrite)
  <2>1. /\ active = Other(PickSlot(slot)) /\ wal.last_checkpoint_lsn \in Nat
        /\ sect \in [Ring -> Sector] /\ Durable \in Header
    BY <1>1, <1>7, DurableType, Zenon DEF AtCkptSync, Settled, TypeOK, Header
  <2>2. PICK n \in 0 .. Durable.used :
          /\ wal = Bumped(Trimmed(Durable, n, wal.last_checkpoint_lsn))
          /\ \A i \in 0 .. n - 1 : sect[Pos(Durable.read_cursor, i)].lsn <= trim
    BY <1>1, <1>7, Zenon DEF AtCkptSync, Settled
  <2>3. slot' = [slot EXCEPT ![active] = wal] /\ sect' = sect /\ pend' = <<>>
    BY <1>1, <1>2, <1>7, WithoutFirst DEF Pending1, HdrWrite
  <2>4. /\ Describes(wal, sect) /\ wal.generation = Durable.generation + 1
        /\ wal.next_lsn = Durable.next_lsn /\ wal.used = Durable.used - n
        /\ \A i \in 0 .. Durable.used - n - 1 :
              Pos(wal.read_cursor, i) = Pos(Durable.read_cursor, n + i)
    BY <2>1, <2>2, DescribesTrimmed
  <2>5. /\ Durable' = wal /\ PickSlot(slot)' = active
        /\ slot' \in [Slots -> Header] /\ OlderSlot'
    BY <2>1, <2>3, <2>4, HeaderLands, Zenon DEF Describes
  <2>6. Describes(Durable, sect)'
    BY <2>3, <2>4, <2>5, Zenon DEF Describes
  <2>7. TypeOK'
    <3>1. pend' \in Seq(Write)
      BY <2>3
    <3>. QED
      BY <1>1, <2>3, <2>5, <3>1, Zenon DEF TypeOK
  <2>8. AckedKept'
    <3>1. ASSUME NEW e \in acked, e.lsn > trim
          PROVE  \E i \in 0 .. wal.used - 1 : sect[Pos(wal.read_cursor, i)] = e
      <4>1. PICK j \in 0 .. Durable.used - 1 : sect[Pos(Durable.read_cursor, j)] = e
        BY <3>1, Zenon DEF AckedKept
      <4>2. e.lsn \in Nat /\ trim \in Nat /\ Durable.used \in Nat
        BY DurableType, SMTT(60) DEF TypeOK, Sector
      <4>3. j >= n
        BY <2>2, <3>1, <4>1, <4>2, SMTT(60)
      <4>4. j - n \in 0 .. wal.used - 1 /\ n + (j - n) = j
        BY <2>4, <4>2, <4>3
      <4>. QED
        BY <2>4, <4>1, <4>4, Zenon
    <3>. QED
      BY <1>1, <2>3, <2>4, <2>5, <3>1, Zenon DEF AckedKept
  <2>9. Phase'
    BY <1>1, <1>7, <2>3, <2>5, Zenon DEF Phase, AtCkptSync, Settled
  <2>. QED
    BY <2>5, <2>6, <2>7, <2>8, <2>9, Zenon
<1>. QED
  BY <1>3, <1>4, <1>5, <1>6, <1>7, Zenon


\* What a crash does to the medium: nothing, or it tears the sector past the
\* window, or the header being written.
LEMMA CrashOutcome ==
    ASSUME IInv, InOrder, Crash
    PROVE  \/ slot' = slot /\ sect' = sect
           \/ /\ slot' = slot /\ Durable.used < Sectors
              /\ \E v \in Sector : sect' = [sect EXCEPT ![Durable.write_cursor] = v]
           \/ /\ sect' = sect /\ active = Other(PickSlot(slot))
              /\ slot' = [slot EXCEPT ![active] = [slot[active] EXCEPT !.crc = FALSE]]
<1>. USE DEF IInv
<1>1. PICK T \in SUBSET (1 .. Len(pend)), m \in BOOLEAN :
         /\ InOrder => T \subseteq {1}
         /\ slot' = [s \in Slots |->
                       IF TornAt(T, "hdr", s) = {} THEN slot[s]
                       ELSE [slot[s] EXCEPT !.crc = FALSE]]
         /\ sect' = [i \in Ring |->
                       IF TornAt(T, "sec", i) = {} THEN sect[i]
                       ELSE [sect[i] EXCEPT !.crc = FALSE, !.magic = m]]
  BY Zenon DEF Crash
<1>2. slot \in [Slots -> Header] /\ sect \in [Ring -> Sector]
  BY Zenon DEF TypeOK
<1>3. CASE T = {}
  BY <1>1, <1>2, <1>3, Zenon DEF TornAt
<1>4. CASE T = {1} /\ pend[1] = SecWrite /\ Durable.used < Sectors
  <2>. DEFINE v == [sect[Durable.write_cursor] EXCEPT !.crc = FALSE, !.magic = m]
  <2>1. pend[1].to = "sec" /\ pend[1].at = Durable.write_cursor
    BY <1>4 DEF SecWrite
  <2>2. /\ \A s \in Slots : TornAt(T, "hdr", s) = {}
        /\ \A i \in Ring : i # Durable.write_cursor => TornAt(T, "sec", i) = {}
        /\ TornAt(T, "sec", Durable.write_cursor) # {}
    BY <1>4, <2>1, Zenon DEF TornAt
  <2>3. slot' = slot
    BY <1>1, <1>2, <2>2, Zenon
  <2>4. sect' = [sect EXCEPT ![Durable.write_cursor] = v]
    BY <1>1, <1>2, <2>2, Zenon
  <2>5. v \in Sector
    BY <1>2, DurableType, Zenon DEF Sector
  <2>. QED
    BY <1>4, <2>3, <2>4, <2>5, Zenon
<1>5. CASE T = {1} /\ pend[1] = HdrWrite /\ active = Other(PickSlot(slot))
  <2>1. pend[1].to = "hdr" /\ pend[1].at = active
    BY <1>5 DEF HdrWrite
  <2>2. /\ \A i \in Ring : TornAt(T, "sec", i) = {}
        /\ \A s \in Slots : s # active => TornAt(T, "hdr", s) = {}
        /\ TornAt(T, "hdr", active) # {}
    BY <1>5, <2>1, Zenon DEF TornAt
  <2>3. sect' = sect
    BY <1>1, <1>2, <2>2, Zenon
  <2>4. slot' = [slot EXCEPT ![active] = [slot[active] EXCEPT !.crc = FALSE]]
    BY <1>1, <1>2, <2>2, Zenon
  <2>. QED
    BY <1>5, <2>3, <2>4, Zenon
<1>6. T = {1} => \/ pend[1] = SecWrite /\ Durable.used < Sectors
                 \/ pend[1] = HdrWrite /\ active = Other(PickSlot(slot))
  <2>. SUFFICES ASSUME T = {1}
                PROVE  \/ pend[1] = SecWrite /\ Durable.used < Sectors
                       \/ pend[1] = HdrWrite /\ active = Other(PickSlot(slot))
    BY Zenon
  <2>1. Len(pend) >= 1 /\ pend # <<>>
    <3>1. 1 \in 1 .. Len(pend)
      BY <1>1, Zenon
    <3>2. Len(pend) \in Nat
      BY DEF TypeOK
    <3>. QED
      BY <3>1, <3>2
  <2>. QED
    BY <2>1, Zenon DEF Phase, Crash, TypeOK, Settled, AtAppendHdr, AtAppendSync,
         AtCkptSync, Pending1, Pending2, Appending
<1>7. T = {} \/ T = {1}
  BY <1>1, Zenon
<1>. QED
  BY <1>3, <1>4, <1>5, <1>6, <1>7, Zenon

\* So a crash, which loses or tears what was pending, preserves the invariant.
LEMMA CrashIInv ==
    ASSUME IInv, InOrder, Crash
    PROVE  IInv'
<1>. USE DEF IInv
<1>1. /\ pend' = <<>> /\ pc' = "down" /\ wal' = wal /\ active' = active
      /\ cur' = cur /\ acked' = acked /\ trim' = trim
  BY Zenon DEF Crash
<1>2. pend' \in Seq(Write)
  BY <1>1
<1>3. Phase'
  BY <1>1, Zenon DEF Phase
<1>4. CASE slot' = slot /\ sect' = sect
  <2>1. Describes(Durable, sect)' /\ OlderSlot' /\ AckedKept'
    BY <1>1, <1>4, SameMedium, Zenon
  <2>2. TypeOK'
    BY <1>1, <1>2, <1>4, Zenon DEF TypeOK
  <2>. QED
    BY <1>3, <2>1, <2>2, Zenon
<1>5. CASE /\ slot' = slot /\ Durable.used < Sectors
           /\ \E v \in Sector : sect' = [sect EXCEPT ![Durable.write_cursor] = v]
  <2>1. /\ sect' \in [Ring -> Sector]
        /\ Describes(Durable, sect)' /\ OlderSlot' /\ AckedKept'
    BY <1>1, <1>5, SectorLands, Zenon
  <2>2. TypeOK'
    BY <1>1, <1>2, <1>5, <2>1, Zenon DEF TypeOK
  <2>. QED
    BY <1>3, <2>1, <2>2, Zenon
<1>6. CASE /\ sect' = sect /\ active = Other(PickSlot(slot))
           /\ slot' = [slot EXCEPT ![active] = [slot[active] EXCEPT !.crc = FALSE]]
  <2>1. /\ Durable' = Durable /\ PickSlot(slot)' = PickSlot(slot)
        /\ slot' \in [Slots -> Header] /\ OlderSlot'
    BY <1>6, HeaderTorn, Zenon
  <2>2. Describes(Durable, sect)' /\ AckedKept'
    BY <1>1, <1>6, <2>1, Zenon DEF Describes, AckedKept
  <2>3. TypeOK'
    BY <1>1, <1>2, <1>6, <2>1, Zenon DEF TypeOK
  <2>. QED
    BY <1>3, <2>1, <2>2, <2>3, Zenon
<1>. QED
  BY <1>4, <1>5, <1>6, CrashOutcome, Zenon

-----------------------------------------------------------------------------
(* The theorems.                                                           *)

\* On a device that writes back in order and does not fail, the invariant
\* holds in every reachable state, whatever crashes and restarts happen.
THEOREM Invariance ==
    ASSUME InOrder, ~IoErrors
    PROVE  Spec => []IInv
<1>1. ASSUME IInv, [Next]_vars PROVE IInv'
  <2>1. ASSUME NEW p \in Payloads, AppendSector(p) PROVE IInv'
    BY <1>1, <2>1, AppendSectorIInv, Zenon
  <2>2. CASE AppendHeader
    BY <1>1, <2>2, AppendHeaderIInv, Zenon
  <2>3. CASE AppendSync
    BY <1>1, <2>3, AppendSyncIInv, Zenon
  <2>4. ASSUME NEW l \in 0 .. wal.next_lsn - 1, Checkpoint(l) PROVE IInv'
    <3>1. l \in Nat
      OBVIOUS
    <3>. QED
      BY <1>1, <2>4, <3>1, CheckpointIInv, Zenon
  <2>5. CASE CheckpointSync
    BY <1>1, <2>5, CheckpointSyncIInv, Zenon
  <2>6. CASE SyncFails
    BY <2>6, Zenon DEF SyncFails
  <2>7. ASSUME NEW k \in 1 .. Len(pend), Writeback(k) PROVE IInv'
    BY <1>1, <2>7, WritebackIInv, Zenon
  <2>8. CASE Crash
    BY <1>1, <2>8, CrashIInv, Zenon
  <2>9. CASE Open
    BY <1>1, <2>9, OpenIInv, Zenon
  <2>10. CASE UNCHANGED vars
    BY <1>1, <2>10, ZenonT(60) DEF vars, IInv, TypeOK, Describes, Durable, OlderSlot, Phase,
         AckedKept, Settled, AtAppendHdr, AtAppendSync, AtCkptSync, Pending1,
         Pending2, Appending, SectorLanded, SecWrite, HdrWrite
  <2>. QED
    BY <1>1, <2>1, <2>2, <2>3, <2>4, <2>5, <2>6, <2>7, <2>8, <2>9, <2>10, Zenon DEF Next
<1>. QED
  BY InitIInv, <1>1, PTL DEF Spec


\* When the durable header describes the sectors, the iterator hands out the
\* whole window.
LEMMA IterComplete ==
    ASSUME TypeOK, Describes(Durable, sect)
    PROVE  /\ ~IterFails(Durable, sect)
           /\ Recovered \in Seq(Sector) /\ Len(Recovered) = Durable.used
           /\ \A i \in 1 .. Durable.used :
                 Recovered[i] = sect[Pos(Durable.read_cursor, i - 1)]
<1>. DEFINE W == Window(Durable, sect)
            Stop(n) == /\ \A i \in 1 .. n : W[i].magic /\ W[i].crc
                       /\ n < Durable.used => ~(W[n + 1].magic /\ W[n + 1].crc)
<1>1. /\ Durable.used \in Nat /\ Durable.used \in 0 .. Sectors
      /\ Durable.read_cursor \in Ring /\ sect \in [Ring -> Sector]
  BY DurableType DEF TypeOK
<1>2. \A i \in 1 .. Durable.used :
         i - 1 \in 0 .. Durable.used - 1 /\ i - 1 \in 0 .. Sectors
  BY <1>1, SectorsAssumption
<1>3. \A i \in 1 .. Durable.used : W[i] = sect[Pos(Durable.read_cursor, i - 1)]
  BY Zenon DEF Window
<1>4. \A i \in 1 .. Durable.used : W[i] \in Sector
  BY <1>1, <1>2, <1>3, PosInRing, Zenon
<1>5. W \in Seq(Sector) /\ Len(W) = Durable.used
  <2>1. W = [i \in 1 .. Durable.used |-> W[i]]
    BY Zenon DEF Window
  <2>. HIDE DEF W
  <2>2. W \in Seq(Sector)
    BY <1>1, <1>4, <2>1, IsASeq, SMTT(60)
  <2>3. DOMAIN W = 1 .. Durable.used
    BY <2>1, Zenon
  <2>. QED
    BY <1>1, <2>2, <2>3
<1>6. \A i \in 1 .. Durable.used : W[i].magic /\ W[i].crc
  BY <1>2, <1>3, Zenon DEF Describes
<1>7. Stop(Durable.used)
  BY <1>1, <1>6
<1>8. \A n \in 0 .. Durable.used : Stop(n) => n = Durable.used
  BY <1>1, <1>6
<1>9. IterLen(Durable, sect) = Durable.used
  <2>. HIDE DEF W, Stop
  <2>1. Durable.used \in 0 .. Durable.used
    BY <1>1
  <2>2. (CHOOSE n \in 0 .. Durable.used : Stop(n)) = Durable.used
    BY <1>7, <1>8, <2>1, Zenon
  <2>. QED
    BY <2>2, Zenon DEF IterLen, Stop, W
<1>10. Recovered = SubSeq(W, 1, Durable.used)
  BY <1>9, Zenon DEF Recovered, IterEntries
<1>11. Recovered = W
  <2>. HIDE DEF W
  <2>. QED
    BY <1>1, <1>5, <1>10
<1>. QED
  BY <1>3, <1>5, <1>9, <1>11 DEF IterFails

\* Every acknowledged entry that no checkpoint was asked to drop is replayed
\* after any crash, for every ring size: append_raw's one sync covers both
\* the sector and the header, and open picks the newer valid header.
THEOREM AckedEntriesSurvive ==
    ASSUME InOrder, ~IoErrors
    PROVE  Spec => []AckedRecovered
<1>1. ASSUME IInv PROVE AckedRecovered
  <2>. USE <1>1 DEF IInv
  <2>1. ValidSlots(slot) # {}
    BY DurableType, Zenon DEF ValidSlots, Describes, Durable
  <2>2. ASSUME NEW e \in acked, e.lsn > trim
        PROVE  \E i \in 1 .. Len(Recovered) : Recovered[i] = e
    <3>1. PICK j \in 0 .. Durable.used - 1 : sect[Pos(Durable.read_cursor, j)] = e
      BY <2>2, Zenon DEF AckedKept
    <3>2. Durable.used \in Nat
      BY DurableType
    <3>3. j + 1 \in 1 .. Durable.used /\ (j + 1) - 1 = j
      BY <3>2
    <3>4. Len(Recovered) = Durable.used /\ Recovered[j + 1] = e
      BY <3>1, <3>3, IterComplete, Zenon
    <3>. QED
      BY <3>3, <3>4, Zenon
  <2>. QED
    BY <2>1, <2>2, Zenon DEF AckedRecovered
<1>. QED
  BY <1>1, Invariance, PTL

\* Replay reads the whole window without an error and in LSN order after any
\* crash, for every ring size.
THEOREM ReplayInSequence ==
    ASSUME InOrder, ~IoErrors
    PROVE  Spec => []RecoveredInSequence
<1>1. ASSUME IInv PROVE RecoveredInSequence
  <2>1. Durable.used \in Nat
    BY <1>1, DurableType DEF IInv
  <2>2. ~IterFails(Durable, sect) /\ Len(Recovered) = Durable.used
    BY <1>1, IterComplete, Zenon DEF IInv
  <2>3. ASSUME NEW i \in 1 .. Durable.used
        PROVE  Recovered[i].lsn = Durable.next_lsn - Durable.used + (i - 1)
    <3>1. i - 1 \in 0 .. Durable.used - 1
      BY <2>1
    <3>2. Recovered[i] = sect[Pos(Durable.read_cursor, i - 1)]
      BY <1>1, IterComplete, Zenon DEF IInv
    <3>. QED
      BY <1>1, <3>1, <3>2, Zenon DEF IInv, Describes
  <2>. QED
    BY <2>2, <2>3, Zenon DEF RecoveredInSequence
<1>. QED
  BY <1>1, Invariance, PTL

\* No LSN is acknowledged twice and a reopened log continues past every
\* acknowledged one, for every ring size.
THEOREM LsnsAreUnique ==
    ASSUME InOrder, ~IoErrors
    PROVE  Spec => []LsnNeverReused
<1>1. ASSUME IInv PROVE LsnNeverReused
  BY <1>1, Zenon DEF IInv, AckedKept, Phase, Settled, LsnNeverReused
<1>. QED
  BY <1>1, Invariance, PTL

\* The variables stay in their types: in particular every cursor stays inside
\* the ring and used_bytes never exceeds its capacity.
THEOREM TypeCorrect ==
    ASSUME InOrder, ~IoErrors
    PROVE  Spec => []TypeOK
<1>1. IInv => TypeOK
  BY Zenon DEF IInv
<1>. QED
  BY <1>1, Invariance, PTL

-----------------------------------------------------------------------------
(* What the running process reads.                                         *)

\* Pending header writes do not hide a data sector.
LEMMA HeadersHideNothing ==
    ASSUME \A k \in 1 .. Len(pend) : pend[k].to = "hdr", NEW i
    PROVE  CachedSector(i) = sect[i]
<1>1. {k \in 1 .. Len(pend) : pend[k].to = "sec" /\ pend[k].at = i} = {}
  BY Zenon
<1>. QED
  BY <1>1, Zenon DEF CachedSector

\* While the sector of an append is pending, a reader finds the new entry
\* there and the medium everywhere else.
LEMMA AppendIsSeen ==
    ASSUME Len(pend) \in {1, 2}, pend[1] = SecWrite,
           Len(pend) = 2 => pend[2].to = "hdr", NEW i
    PROVE  CachedSector(i) = IF i = Durable.write_cursor THEN cur ELSE sect[i]
<1>. DEFINE hits == {k \in 1 .. Len(pend) : pend[k].to = "sec" /\ pend[k].at = i}
<1>1. /\ pend[1].to = "sec" /\ pend[1].at = Durable.write_cursor
      /\ pend[1].val = cur
  BY DEF SecWrite
<1>2. CASE i = Durable.write_cursor
  <2>1. hits = {1}
    BY <1>1, <1>2
  <2>2. (CHOOSE k \in hits : \A m \in hits : m <= k) = 1
    BY <2>1
  <2>. QED
    BY <1>1, <1>2, <2>1, <2>2 DEF CachedSector
<1>3. CASE i # Durable.write_cursor
  <2>1. hits = {}
    BY <1>1, <1>3
  <2>. QED
    BY <1>3, <2>1, Zenon DEF CachedSector
<1>. QED
  BY <1>2, <1>3, Zenon

\* Describes does not look at the generation.
LEMMA DescribesBumped ==
    ASSUME NEW h \in Header, NEW s, Describes(Bumped(h), s)
    PROVE  Describes(h, s)
BY BumpedType, ZenonT(60) DEF Describes

\* Whatever call is running, the sectors as they are read are some contents
\* of the ring that the cached header describes.
LEMMA CachedDescribed ==
    ASSUME IInv, pc # "down"
    PROVE  \E s \in [Ring -> Sector] :
              /\ \A i \in Ring : CachedSector(i) = s[i]
              /\ Describes(wal, s)
<1>. USE DEF IInv
<1>. DEFINE s1 == [sect EXCEPT ![Durable.write_cursor] = cur]
<1>1. /\ Durable \in Header /\ Durable.write_cursor \in Ring
      /\ sect \in [Ring -> Sector] /\ wal \in Header /\ cur \in Sector
      /\ pend \in Seq(Write) /\ Durable.used \in 0 .. Sectors
  BY DurableType, Zenon DEF TypeOK
<1>2. CASE Settled
  BY <1>1, <1>2, CachedIsMedium, Zenon DEF Settled
<1>3. ASSUME Appending PROVE /\ s1 \in [Ring -> Sector]
                             /\ Describes(Bumped(Advanced(Durable)), s1)
  <2>1. Durable.used < Sectors /\ cur.magic /\ cur.crc /\ cur.lsn = Durable.next_lsn
    BY <1>3, Zenon DEF Appending
  <2>2. s1 \in [Ring -> Sector] /\ s1[Durable.write_cursor] = cur
    BY <1>1, Zenon
  <2>3. Describes(Durable, s1)
    BY <1>1, <2>1, DescribesOutside, Zenon
  <2>. HIDE DEF s1
  <2>. QED
    BY <1>1, <2>1, <2>2, <2>3, DescribesAdvanced, Zenon
<1>4. ASSUME Appending,
             \/ Pending1(SecWrite) \/ Pending2(SecWrite, HdrWrite)
             \/ (pend = <<>> \/ Pending1(HdrWrite)) /\ SectorLanded
      PROVE  \A i \in Ring : CachedSector(i) = s1[i]
  <2>1. HdrWrite.to = "hdr"
    BY Zenon DEF HdrWrite
  <2>2. CASE Pending1(SecWrite) \/ Pending2(SecWrite, HdrWrite)
    BY <1>1, <2>1, <2>2, AppendIsSeen DEF Pending1, Pending2
  <2>3. CASE (pend = <<>> \/ Pending1(HdrWrite)) /\ SectorLanded
    <3>1. \A k \in 1 .. Len(pend) : pend[k].to = "hdr"
      BY <2>1, <2>3 DEF Pending1
    <3>2. s1 = sect
      BY <1>1, <2>3, Zenon DEF SectorLanded
    <3>. QED
      BY <3>1, <3>2, HeadersHideNothing, Zenon
  <2>. QED
    BY <1>4, <2>2, <2>3, Zenon
<1>5. CASE AtAppendHdr
  <2>1. Appending /\ wal = Advanced(Durable)
    BY <1>5, Zenon DEF AtAppendHdr
  <2>2. \A i \in Ring : CachedSector(i) = s1[i]
    BY <1>4, <1>5, Zenon DEF AtAppendHdr
  <2>3. Describes(wal, s1)
    BY <1>1, <1>3, <2>1, DescribesBumped, Zenon
  <2>. QED
    BY <1>3, <2>1, <2>2, <2>3, Zenon
<1>6. CASE AtAppendSync /\ ~Settled
  <2>1. Appending /\ wal = Bumped(Advanced(Durable))
    BY <1>6, Zenon DEF AtAppendSync
  <2>2. \A i \in Ring : CachedSector(i) = s1[i]
    BY <1>4, <1>6, Zenon DEF AtAppendSync
  <2>. QED
    BY <1>3, <2>1, <2>2, Zenon
<1>7. CASE AtCkptSync /\ ~Settled
  <2>1. Pending1(HdrWrite) /\ HdrWrite.to = "hdr"
    BY <1>7, Zenon DEF AtCkptSync, HdrWrite
  <2>2. \A i \in Ring : CachedSector(i) = sect[i]
    BY <2>1, HeadersHideNothing DEF Pending1
  <2>3. wal.last_checkpoint_lsn \in Nat
    BY <1>1, Zenon DEF Header
  <2>4. Describes(wal, sect)
    BY <1>1, <1>7, <2>3, DescribesTrimmed, ZenonT(60) DEF AtCkptSync
  <2>. QED
    BY <1>1, <2>2, <2>4, Zenon
<1>. QED
  BY <1>2, <1>5, <1>6, <1>7, Zenon DEF Phase, TypeOK

\* While the process runs the window of the cached header ends at the write
\* cursor and holds consecutive LSNs, page cache included: the sector that
\* append_raw writes next is never one that replay still needs.
THEOREM CachedWindowIntact ==
    ASSUME InOrder, ~IoErrors
    PROVE  Spec => []WindowIntact
<1>1. ASSUME IInv, pc # "down"
      PROVE  /\ wal.write_cursor = Pos(wal.read_cursor, wal.used)
             /\ \A i \in 0 .. wal.used - 1 :
                   CachedSector(Pos(wal.read_cursor, i)).lsn
                      = wal.next_lsn - wal.used + i
  <2>1. PICK s \in [Ring -> Sector] :
           (\A i \in Ring : CachedSector(i) = s[i]) /\ Describes(wal, s)
    BY <1>1, CachedDescribed, Zenon
  <2>2. wal.read_cursor \in Ring /\ wal.used \in 0 .. Sectors
    BY <1>1, Zenon DEF IInv, TypeOK, Header
  <2>3. \A i \in 0 .. wal.used - 1 : Pos(wal.read_cursor, i) \in Ring
    BY <2>2, PosInRing, SectorsAssumption
  <2>. QED
    BY <2>1, <2>3, Zenon DEF Describes
<1>2. IInv => WindowIntact
  BY <1>1, Zenon DEF WindowIntact
<1>. QED
  BY <1>2, Invariance, PTL

-----------------------------------------------------------------------------
(* The ring implements the abstract log.                                   *)

\* The log a restart would find: what the instance DL maps its log to.
AbstractEntry(e) == [lsn |-> e.lsn, payload |-> e.payload]
DurableEntries ==
    [i \in 1 .. Durable.used |-> AbstractEntry(sect[Pos(Durable.read_cursor, i - 1)])]

\* What writing back the oldest write does to the medium: the sector past the
\* window changes, or the header of an append or of a checkpoint lands.
LEMMA WritebackOutcome ==
    ASSUME IInv, InOrder, NEW k \in 1 .. Len(pend), Writeback(k)
    PROVE  \/ /\ slot' = slot /\ Durable.used < Sectors
              /\ \E v \in Sector : sect' = [sect EXCEPT ![Durable.write_cursor] = v]
           \/ /\ Appending /\ SectorLanded /\ wal = Bumped(Advanced(Durable))
              /\ active = Other(PickSlot(slot))
              /\ sect' = sect /\ slot' = [slot EXCEPT ![active] = wal]
           \/ /\ active = Other(PickSlot(slot))
              /\ \E n \in 0 .. Durable.used :
                    wal = Bumped(Trimmed(Durable, n, wal.last_checkpoint_lsn))
              /\ sect' = sect /\ slot' = [slot EXCEPT ![active] = wal]
<1>. USE DEF IInv
<1>1. k = 1 /\ Len(pend) >= 1 /\ pend # <<>> /\ cur \in Sector
  BY DEF Writeback, TypeOK
<1>2. /\ pend[1].to = "hdr" =>
            slot' = [slot EXCEPT ![pend[1].at] = pend[1].val] /\ sect' = sect
      /\ pend[1].to = "sec" =>
            sect' = [sect EXCEPT ![pend[1].at] = pend[1].val] /\ slot' = slot
  BY <1>1, Zenon DEF Writeback
<1>3. pend[1] = SecWrite => /\ slot' = slot
                            /\ sect' = [sect EXCEPT ![Durable.write_cursor] = cur]
  <2>1. /\ SecWrite.to = "sec" /\ SecWrite.at = Durable.write_cursor
        /\ SecWrite.val = cur
    BY Zenon DEF SecWrite
  <2>. QED
    BY <1>2, <2>1, Zenon
<1>4. pend[1] = HdrWrite => sect' = sect /\ slot' = [slot EXCEPT ![active] = wal]
  <2>1. HdrWrite.to = "hdr" /\ HdrWrite.at = active /\ HdrWrite.val = wal
    BY Zenon DEF HdrWrite
  <2>. QED
    BY <1>2, <2>1, Zenon
<1>5. CASE pc = "append_hdr"
  BY <1>1, <1>3, <1>5, Zenon DEF Phase, AtAppendHdr, Appending, Pending1
<1>6. CASE pc = "append_sync"
  <2>1. /\ Appending /\ wal = Bumped(Advanced(Durable))
        /\ active = Other(PickSlot(slot))
        /\ Pending2(SecWrite, HdrWrite) \/ (Pending1(HdrWrite) /\ SectorLanded)
    BY <1>1, <1>6, Zenon DEF Phase, AtAppendSync, Settled
  <2>2. CASE Pending2(SecWrite, HdrWrite)
    BY <1>1, <1>3, <2>1, <2>2, Zenon DEF Pending2, Appending
  <2>3. CASE Pending1(HdrWrite) /\ SectorLanded
    BY <1>4, <2>1, <2>3, Zenon DEF Pending1
  <2>. QED
    BY <2>1, <2>2, <2>3, Zenon
<1>7. CASE pc = "ckpt_sync"
  BY <1>1, <1>4, <1>7, Zenon DEF Phase, AtCkptSync, Settled, Pending1
<1>8. pc \in {"append_hdr", "append_sync", "ckpt_sync"}
  BY <1>1, Zenon DEF Phase, Settled, TypeOK
<1>. QED
  BY <1>5, <1>6, <1>7, <1>8, Zenon

\* Entries are read the same as long as the durable header and the sectors of
\* its window are.
LEMMA SameEntries ==
    ASSUME Durable' = Durable,
           \A i \in 0 .. Durable.used - 1 :
              sect'[Pos(Durable.read_cursor, i)] = sect[Pos(Durable.read_cursor, i)],
           Durable.used \in Nat
    PROVE  DurableEntries' = DurableEntries /\ Durable'.next_lsn = Durable.next_lsn
<1>1. \A i \in 1 .. Durable.used : i - 1 \in 0 .. Durable.used - 1
  OBVIOUS
<1>. QED
  BY <1>1, Zenon DEF DurableEntries

\* A change of the sector past the window is no step of the abstract log.
LEMMA SectorStutters ==
    ASSUME IInv, Durable.used < Sectors, slot' = slot, NEW v \in Sector,
           sect' = [sect EXCEPT ![Durable.write_cursor] = v]
    PROVE  DurableEntries' = DurableEntries /\ Durable'.next_lsn = Durable.next_lsn
<1>1. /\ Durable \in Header /\ sect \in [Ring -> Sector] /\ Durable.used \in Nat
      /\ Describes(Durable, sect)
  BY DurableType DEF IInv, TypeOK
<1>2. \A i \in 0 .. Durable.used - 1 :
         sect'[Pos(Durable.read_cursor, i)] = sect[Pos(Durable.read_cursor, i)]
  BY <1>1, DescribesOutside, Zenon
<1>3. Durable' = Durable
  BY Zenon DEF Durable
<1>. QED
  BY <1>1, <1>2, <1>3, SameEntries, Zenon

\* The header of an append reaches the medium: the abstract log grows by one.
LEMMA HeaderAppends ==
    ASSUME IInv, Appending, SectorLanded, wal = Bumped(Advanced(Durable)),
           active = Other(PickSlot(slot)), sect' = sect,
           slot' = [slot EXCEPT ![active] = wal]
    PROVE  \E p \in Payloads :
              /\ DurableEntries' = Append(DurableEntries,
                                          [lsn |-> Durable.next_lsn, payload |-> p])
              /\ Durable'.next_lsn = Durable.next_lsn + 1
<1>. USE DEF IInv
<1>1. /\ Durable \in Header /\ sect \in [Ring -> Sector] /\ cur \in Sector
      /\ Durable.used \in Nat /\ Durable.read_cursor \in Ring
  BY DurableType DEF TypeOK
<1>2. /\ Describes(wal, sect) /\ wal.generation = Durable.generation + 1
      /\ wal.next_lsn = Durable.next_lsn + 1 /\ wal.used = Durable.used + 1
      /\ wal.read_cursor = Durable.read_cursor
      /\ sect[Pos(Durable.read_cursor, Durable.used)] = cur
  BY <1>1, DescribesAdvanced DEF Appending, SectorLanded
<1>3. Durable' = wal
  BY <1>2, HeaderLands, Zenon DEF Describes
<1>4. cur.payload \in Payloads /\ cur.lsn = Durable.next_lsn
  BY <1>1, Zenon DEF Sector, Appending
<1>. DEFINE D == DurableEntries
            x == [lsn |-> Durable.next_lsn, payload |-> cur.payload]
            F(i) == AbstractEntry(sect[Pos(Durable.read_cursor, i - 1)])
<1>5. D = [i \in 1 .. Durable.used |-> F(i)]
  BY Zenon DEF DurableEntries
<1>6. D' = [i \in 1 .. Durable.used + 1 |-> F(i)]
  BY <1>2, <1>3, Zenon DEF DurableEntries
<1>7. F(Durable.used + 1) = x
  BY <1>1, <1>2, <1>4 DEF AbstractEntry
<1>8. D' = Append(D, x)
  <2>. HIDE DEF F, x
  <2>1. Len(D) = Durable.used
    BY <1>1, <1>5
  <2>2. Append(D, x) = [i \in 1 .. Durable.used + 1 |->
                           IF i <= Durable.used THEN D[i] ELSE x]
    BY <1>1, <1>5, <2>1
  <2>3. \A i \in 1 .. Durable.used + 1 :
           (IF i <= Durable.used THEN D[i] ELSE x) = F(i)
    BY <1>1, <1>5, <1>7
  <2>. QED
    BY <1>6, <2>2, <2>3, Zenon
<1>. QED
  BY <1>2, <1>3, <1>4, <1>8, Zenon

\* The header of a checkpoint reaches the medium: the abstract log loses the
\* n entries at its front.
LEMMA HeaderTrims ==
    ASSUME IInv, NEW n \in 0 .. Durable.used,
           wal = Bumped(Trimmed(Durable, n, wal.last_checkpoint_lsn)),
           active = Other(PickSlot(slot)), sect' = sect,
           slot' = [slot EXCEPT ![active] = wal]
    PROVE  /\ n = 0 => DurableEntries' = DurableEntries
           /\ DurableEntries' = SubSeq(DurableEntries, n + 1, Len(DurableEntries))
           /\ Durable'.next_lsn = Durable.next_lsn
           /\ Len(DurableEntries) = Durable.used
<1>. USE DEF IInv
<1>1. /\ Durable \in Header /\ sect \in [Ring -> Sector]
      /\ Durable.used \in Nat /\ Durable.read_cursor \in Ring
      /\ wal.last_checkpoint_lsn \in Nat
  <2>1. wal \in Header
    BY Zenon DEF TypeOK
  <2>2. wal.last_checkpoint_lsn \in Nat
    BY <2>1, Zenon DEF Header
  <2>. QED
    BY <2>2, DurableType DEF TypeOK
<1>2. /\ Describes(wal, sect) /\ wal.generation = Durable.generation + 1
      /\ wal.next_lsn = Durable.next_lsn /\ wal.used = Durable.used - n
      /\ \A i \in 0 .. Durable.used - n - 1 :
            Pos(wal.read_cursor, i) = Pos(Durable.read_cursor, n + i)
  BY <1>1, DescribesTrimmed, SMTT(60)
<1>3. Durable' = wal
  BY <1>2, HeaderLands, Zenon DEF Describes
<1>. DEFINE D == DurableEntries
            F(i) == AbstractEntry(sect[Pos(Durable.read_cursor, i - 1)])
<1>4. D = [i \in 1 .. Durable.used |-> F(i)]
  BY Zenon DEF DurableEntries
<1>5. D' = [i \in 1 .. Durable.used - n |-> F(n + i)]
  <2>1. D' = [i \in 1 .. Durable.used - n |->
                AbstractEntry(sect[Pos(wal.read_cursor, i - 1)])]
    BY <1>2, <1>3, Zenon DEF DurableEntries
  <2>2. \A i \in 1 .. Durable.used - n :
           Pos(wal.read_cursor, i - 1) = Pos(Durable.read_cursor, n + i - 1)
    <3>. SUFFICES ASSUME NEW i \in 1 .. Durable.used - n
                  PROVE  Pos(wal.read_cursor, i - 1) = Pos(Durable.read_cursor, n + i - 1)
      BY Zenon
    <3>1. i - 1 \in 0 .. Durable.used - n - 1 /\ n + (i - 1) = n + i - 1
      BY <1>1
    <3>. QED
      BY <1>2, <3>1, Zenon
  <2>. QED
    BY <2>1, <2>2
<1>6. Len(D) = Durable.used /\ D' = SubSeq(D, n + 1, Len(D))
  <2>. HIDE DEF F
  <2>1. Len(D) = Durable.used
    BY <1>1, <1>4
  <2>2. SubSeq(D, n + 1, Durable.used) = [i \in 1 .. Durable.used - n |-> D[n + i]]
    BY <1>1, <1>4, <2>1
  <2>3. \A i \in 1 .. Durable.used - n : D[n + i] = F(n + i)
    BY <1>1, <1>4
  <2>. QED
    BY <1>5, <2>1, <2>2, <2>3, Zenon
<1>7. n = 0 => D' = D
  <2>. HIDE DEF F
  <2>1. n = 0 => \A i \in 1 .. Durable.used : n + i = i
    OBVIOUS
  <2>. QED
    BY <1>1, <1>4, <1>5, <2>1
<1>. QED
  BY <1>2, <1>3, <1>6, <1>7, Zenon

\* The ring implements the log of DurableLog, for every ring size: a crash, a
\* restart and every write but one are no step of it, and the write that puts
\* a header block on the medium is one whole append or one trim.
THEOREM RingImplementsLog ==
    ASSUME InOrder, ~IoErrors
    PROVE  Spec => ImplementsDurableLog
<1>. DEFINE D == [i \in 1 .. Durable.used |->
                    [lsn |-> Window(Durable, sect)[i].lsn,
                     payload |-> Window(Durable, sect)[i].payload]]
            N == Durable.next_lsn
<1>0. D = DurableEntries /\ D' = DurableEntries'
  BY Zenon DEF Window, DurableEntries, AbstractEntry
<1>1. Init => DL!LogInit
  <2>. SUFFICES ASSUME Init PROVE D = <<>> /\ N = 1
    BY Zenon DEF DL!LogInit
  <2>1. slot["A"] = FormatHeader(1) /\ slot["B"] = FormatHeader(0)
    BY Zenon DEF Init, Slots
  <2>2. Durable = FormatHeader(1)
    BY <2>1 DEF Durable, PickSlot, FormatHeader
  <2>. QED
    BY <2>2 DEF FormatHeader
<1>2. ASSUME IInv, [Next]_vars PROVE [DL!LogNext]_<<D, N>>
  <2>. USE <1>2
  <2>1. CASE slot' = slot /\ sect' = sect
    BY <2>1, Zenon DEF Durable, Window
  <2>2. ASSUME slot' = slot, Durable.used < Sectors,
               NEW v \in Sector, sect' = [sect EXCEPT ![Durable.write_cursor] = v]
        PROVE  UNCHANGED <<D, N>>
    <3>1. DurableEntries' = DurableEntries /\ N' = N
      BY <2>2, SectorStutters, Zenon
    <3>. HIDE DEF D, N
    <3>. QED
      BY <1>0, <3>1, Zenon
  <2>3. CASE /\ Appending /\ SectorLanded /\ wal = Bumped(Advanced(Durable))
             /\ active = Other(PickSlot(slot))
             /\ sect' = sect /\ slot' = [slot EXCEPT ![active] = wal]
    <3>1. PICK p \in Payloads :
             /\ DurableEntries' = Append(DurableEntries, [lsn |-> N, payload |-> p])
             /\ N' = N + 1
      BY <2>3, HeaderAppends, Zenon
    <3>2. D' = Append(D, [lsn |-> N, payload |-> p])
      BY <1>0, <3>1, Zenon
    <3>3. DL!LogAppend(p)
      BY <3>1, <3>2, Zenon DEF DL!LogAppend
    <3>. QED
      BY <3>3, Zenon DEF DL!LogNext
  <2>4. ASSUME active = Other(PickSlot(slot)), NEW n \in 0 .. Durable.used,
               wal = Bumped(Trimmed(Durable, n, wal.last_checkpoint_lsn)),
               sect' = sect, slot' = [slot EXCEPT ![active] = wal]
        PROVE  [DL!LogNext]_<<D, N>>
    <3>1. /\ n = 0 => DurableEntries' = DurableEntries
          /\ DurableEntries' = SubSeq(DurableEntries, n + 1, Len(DurableEntries))
          /\ N' = N /\ Len(DurableEntries) = Durable.used
      BY <2>4, HeaderTrims, Zenon
    <3>2. /\ n = 0 => D' = D
          /\ D' = SubSeq(D, n + 1, Len(D)) /\ Len(D) = Durable.used
      BY <1>0, <3>1, Zenon
    <3>3. CASE n = 0
      BY <3>1, <3>2, <3>3, Zenon
    <3>4. CASE n # 0
      <4>1. DL!LogTrim(n)
        BY <3>1, <3>2, Zenon DEF DL!LogTrim
      <4>2. n \in 1 .. Durable.used
        BY <3>4
      <4>3. n \in 1 .. Len(D)
        BY <3>2, <4>2, Zenon
      <4>. QED
        BY <4>1, <4>3, Zenon DEF DL!LogNext
    <3>. QED
      BY <3>3, <3>4, Zenon
  <2>5. ASSUME NEW k \in 1 .. Len(pend), Writeback(k) PROVE [DL!LogNext]_<<D, N>>
    <3>. HIDE DEF D, N
    <3>. QED
      BY <2>2, <2>3, <2>4, <2>5, WritebackOutcome, Zenon
  <2>6. CASE Crash
    <3>1. CASE /\ sect' = sect /\ active = Other(PickSlot(slot))
               /\ slot' = [slot EXCEPT ![active] = [slot[active] EXCEPT !.crc = FALSE]]
      <4>1. Durable' = Durable
        BY <3>1, HeaderTorn, Zenon
      <4>. QED
        BY <3>1, <4>1, Zenon DEF Window
    <3>. HIDE DEF D, N
    <3>. QED
      BY <2>1, <2>2, <2>6, <3>1, CrashOutcome, Zenon
  <2>7. (\/ \E p \in Payloads : AppendSector(p)
         \/ AppendHeader \/ AppendSync \/ CheckpointSync \/ SyncFails \/ Open
         \/ \E l \in 0 .. wal.next_lsn - 1 : Checkpoint(l)
         \/ UNCHANGED vars) => slot' = slot /\ sect' = sect
    BY Zenon DEF AppendSector, AppendHeader, AppendSync, CheckpointSync, SyncFails,
           Open, Checkpoint, vars
  <2>. HIDE DEF D, N
  <2>. QED
    BY <2>1, <2>5, <2>6, <2>7, Zenon DEF Next
<1>. QED
  BY <1>1, <1>2, Invariance, PTL DEF Spec, ImplementsDurableLog, DL!LogSpec

=============================================================================
