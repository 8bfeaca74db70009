----------------------------- MODULE PackCodec ------------------------------
(***************************************************************************)
(* The packed-key codec of sorted runs (crates/storage/src/btree/pack.rs): *)
(* a key is a header and a tuple of words; a run stores each field's base  *)
(* and width once and of each key only the bits above the base, and the    *)
(* common prefix of the values once.                                       *)
(*                                                                         *)
(* Words have WordBits bits (64 in the code) and wrap; a byte has ByteBits *)
(* bits (8).  An entry is [h, f, v]: key header, fields, value bytes.      *)
(* Varints are in base 2^(ByteBits - 1), continuation bit set but last.    *)
(***************************************************************************)
EXTENDS Integers, Sequences, FiniteSets, SequencesExt, FiniteSetsExt

CONSTANTS WordBits, ByteBits,
          NrFields,      \* nr_fields of the key type
          HeaderBytes,   \* key_header_bytes of the key type
          MaxPrefix      \* longest common prefix the descriptor can hold

Word == 2 ^ WordBits
Byte == 2 ^ ByteBits
Bad == [ok |-> FALSE]

Bit(n, i) == (n \div 2 ^ i) % 2
\* 64 - leading_zeros
Width(n) == IF n = 0 THEN 0 ELSE CHOOSE w \in 1 .. WordBits : 2 ^ (w - 1) <= n /\ n < 2 ^ w
Ceil(n, d) == (n + d - 1) \div d

-----------------------------------------------------------------------------
(* Format selection.                                                       *)

\* Base and width of every field, common value prefix, and whether values
\* carry their length.
FieldSpan(run, i) ==
    LET vs == {run[j].f[i] : j \in DOMAIN run} IN
    IF run = <<>> THEN [bw |-> 0, base |-> 0]
    ELSE [bw |-> Width(Max(vs) - Min(vs)), base |-> Min(vs)]

CommonPrefix(run) ==
    LET short == Min({Len(run[j].v) : j \in DOMAIN run} \cup {MaxPrefix})
        same == {n \in 0 .. short : \A j \in DOMAIN run :
                     SubSeq(run[j].v, 1, n) = SubSeq(run[1].v, 1, n)}
    IN  IF run = <<>> THEN <<>> ELSE SubSeq(run[1].v, 1, Max(same))

select_format_with_hint(run, force) ==
    LET uniform == \A i, j \in DOMAIN run : Len(run[i].v) = Len(run[j].v) IN
    [varint |-> (force /\ run # <<>>) \/ ~uniform,
     fields |-> [i \in 1 .. NrFields |-> FieldSpan(run, i)],
     prefix |-> CommonPrefix(run)]

-----------------------------------------------------------------------------
(* Varints and bits.                                                       *)

VarintBase == 2 ^ (ByteBits - 1)
write_varint_u64(n) ==
    LET digits == CHOOSE d \in 1 .. WordBits :
            n < VarintBase ^ d /\ (d = 1 \/ n >= VarintBase ^ (d - 1))
    IN  [i \in 1 .. digits |-> ((n \div VarintBase ^ (i - 1)) % VarintBase)
                               + (IF i < digits THEN VarintBase ELSE 0)]

\* The value and the position after it; Bad when truncated or too wide.
read_varint_u64(buf, pos) ==
    LET ends == {i \in pos .. Len(buf) : buf[i] < VarintBase}
        last == Min(ends)
        n == MapThenSumSet(LAMBDA i : (buf[i] % VarintBase) * VarintBase ^ (i - pos), pos .. last)
    IN  IF ends = {} THEN Bad ELSE IF n >= Word THEN Bad
        ELSE [ok |-> TRUE, n |-> n, pos |-> last + 1]

\* pack_bits: most significant bit first, from the top bit of a byte down.
pack_bits(n, bw) == [i \in 1 .. bw |-> Bit(n, bw - i)]
ToBytes(bits) ==
    [b \in 1 .. Ceil(Len(bits), ByteBits) |->
        MapThenSumSet(LAMBDA i : bits[i] * 2 ^ ((b * ByteBits) - i),
                      {i \in DOMAIN bits : Ceil(i, ByteBits) = b})]
read_bits(bytes, pos, bw) ==
    MapThenSumSet(
        LAMBDA i : Bit(bytes[Ceil(pos + i, ByteBits)],
                       ByteBits - 1 - ((pos + i - 1) % ByteBits)) * 2 ^ (bw - i),
        1 .. bw)

DataBits(fields) == FoldLeft(LAMBDA n, f : n + f.bw, 0, fields)
bytes_per_key(fields) == HeaderBytes + Ceil(DataBits(fields), ByteBits)

-----------------------------------------------------------------------------
(* The descriptor of a run: a head of five numbers, two per field, and the *)
(* elided prefix.                                                          *)

HeadSize == 5
FieldSize == 2
VALUE_SIZE_KIND(fmt) == IF fmt.varint THEN 1 ELSE 0

total_size(nr, prefix) == HeadSize + nr * FieldSize + prefix

serialise(fmt) ==
    <<Len(fmt.fields), HeaderBytes, Len(fmt.prefix), VALUE_SIZE_KIND(fmt),
      HeaderBytes * ByteBits + DataBits(fmt.fields)>>
    \o FlattenSeq([i \in DOMAIN fmt.fields |-> <<fmt.fields[i].bw, fmt.fields[i].base>>])
    \o fmt.prefix

\* The format and the position after it; Bad when the buffer is too short.
parse(bytes) ==
    LET nr == bytes[1]
        at(i) == HeadSize + (i - 1) * FieldSize
        end == total_size(nr, bytes[3])
    IN  IF Len(bytes) < HeadSize THEN Bad ELSE IF Len(bytes) < end THEN Bad
        ELSE [ok |-> TRUE, size |-> end,
              fmt |-> [varint |-> bytes[4] = 1,
                       fields |-> [i \in 1 .. nr |->
                                     [bw |-> bytes[at(i) + 1], base |-> bytes[at(i) + 2]]],
                       prefix |-> SubSeq(bytes, end - bytes[3] + 1, end)]]

-----------------------------------------------------------------------------
(* Encoding.  A payload is the descriptor and the bytes of the entries.    *)

Delta(e, fields, i) == (e.f[i] - fields[i].base) % Word
FieldFits(e, fields, i) == Delta(e, fields, i) < 2 ^ fields[i].bw

\* Mutant of PackedKey: fields are packed last to first.
PackedKey_reversed(e, fields) ==
    [b \in 1 .. HeaderBytes |-> (e.h \div Byte ^ (b - 1)) % Byte]
    \o ToBytes(FlattenSeq([i \in 1 .. NrFields |->
           pack_bits(Delta(e, fields, NrFields + 1 - i), fields[NrFields + 1 - i].bw)]))

PackedKey(e, fields) ==
    [b \in 1 .. HeaderBytes |-> (e.h \div Byte ^ (b - 1)) % Byte]
    \o ToBytes(FlattenSeq([i \in 1 .. NrFields |->
           pack_bits(Delta(e, fields, i), fields[i].bw)]))

EncodedEntry(e, fmt) ==
    LET tail == SubSeq(e.v, Len(fmt.prefix) + 1, Len(e.v)) IN
    PackedKey(e, fmt.fields)
    \o (IF fmt.varint THEN write_varint_u64(Len(tail)) ELSE <<>>) \o tail

encode_packed_run(run, fmt) ==
    IF \/ ~fmt.varint /\ \E i, j \in DOMAIN run : Len(run[i].v) # Len(run[j].v)
       \/ \E j \in DOMAIN run : ~IsPrefix(fmt.prefix, run[j].v)
       \/ \E j \in DOMAIN run, i \in 1 .. NrFields : ~FieldFits(run[j], fmt.fields, i)
    THEN Bad
    ELSE [ok |-> TRUE,
          bytes |-> serialise(fmt) \o FlattenSeq([j \in DOMAIN run |-> EncodedEntry(run[j], fmt)])]

-----------------------------------------------------------------------------
(* Decoding: entry by entry; value_size is used in fixed mode only.        *)

\* Starting position of field i in the key body.
FieldAt(fields, i) == DataBits(SubSeq(fields, 1, i - 1))

DecodeEntry(acc, fmt, bytes, value_size) ==
    LET body == SubSeq(bytes, acc.pos, Min({acc.pos + bytes_per_key(fmt.fields) - 1, Len(bytes)}))
        data == SubSeq(body, HeaderBytes + 1, Len(body))
        at == acc.pos + bytes_per_key(fmt.fields)
        len == IF fmt.varint THEN read_varint_u64(bytes, at)
               ELSE [ok |-> TRUE, n |-> value_size - Len(fmt.prefix), pos |-> at]
    IN  IF ~acc.ok THEN Bad ELSE IF Len(body) < bytes_per_key(fmt.fields) THEN Bad
        ELSE IF ~len.ok THEN Bad
        ELSE IF len.pos + len.n - 1 > Len(bytes) THEN Bad
        ELSE [ok |-> TRUE, pos |-> len.pos + len.n,
              run |-> Append(acc.run,
                  [h |-> FoldLeft(LAMBDA n, b : n + body[b] * Byte ^ (b - 1), 0,
                                  [b \in 1 .. HeaderBytes |-> b]),
                   f |-> [i \in 1 .. NrFields |->
                             (fmt.fields[i].base
                              + read_bits(data, FieldAt(fmt.fields, i), fmt.fields[i].bw)) % Word],
                   v |-> fmt.prefix \o SubSeq(bytes, len.pos, len.pos + len.n - 1)])]

decode_packed_run(payload, value_size, count) ==
    LET head == parse(payload)
        fmt == head.fmt
        bytes == SubSeq(payload, head.size + 1, Len(payload))
        stride == bytes_per_key(fmt.fields) + value_size - Len(fmt.prefix)
    IN  IF ~head.ok THEN Bad ELSE IF Len(fmt.fields) # NrFields THEN Bad
        ELSE IF ~fmt.varint /\ (\/ Len(fmt.prefix) > value_size
                                \/ Len(bytes) < count * stride) THEN Bad
        ELSE FoldLeft(LAMBDA acc, i : DecodeEntry(acc, fmt, bytes, value_size),
                      [ok |-> TRUE, pos |-> 1, run |-> <<>>], [i \in 1 .. count |-> i])

compare_packed_keys(a, b) ==
    \E i \in 1 .. Len(a) : a[i] < b[i] /\ \A j \in 1 .. i - 1 : a[j] = b[j]

-----------------------------------------------------------------------------
(* Whether a key fits a format; otherwise a wider one.                     *)

Promoted(f, n) ==
    LET top == IF f.bw = WordBits THEN Word - 1 ELSE (f.base + 2 ^ f.bw - 1) % Word
        below == n < f.base
        span == IF below THEN (top - n) % Word ELSE n - f.base
    IN  IF ~below /\ (n - f.base) < 2 ^ f.bw THEN f
        ELSE [bw |-> Max({f.bw, Width(span)}), base |-> IF below THEN n ELSE f.base]

\* Mutant of check_fit: the base stays where it was.
check_fit_keeps_base(fmt, key) ==
    LET wide == [i \in 1 .. NrFields |->
            [bw |-> Promoted(fmt.fields[i], key[i]).bw, base |-> fmt.fields[i].base]]
    IN  IF wide = fmt.fields THEN fmt ELSE [fmt EXCEPT !.fields = wide, !.varint = FALSE]

check_fit(fmt, key) ==
    LET wide == [i \in 1 .. NrFields |-> Promoted(fmt.fields[i], key[i])]
    IN  IF wide = fmt.fields THEN fmt ELSE [fmt EXCEPT !.fields = wide, !.varint = FALSE]
=============================================================================
