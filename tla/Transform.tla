------------------------------ MODULE Transform ------------------------------
(***************************************************************************)
(* crates/transform: the pipeline a blob goes through on its way to the    *)
(* store (hash, compress, pad, encrypt) and back.  The machine is one      *)
(* stored blob, the pipeline in force and a medium that may damage a byte. *)
(* No cipher is built in: every mode but None is refused, in both          *)
(* directions.                                                             *)
(***************************************************************************)
EXTENDS Integers, Sequences, SequencesExt

CONSTANTS
    Plaintexts,   \* contents, sequences of bytes
    SectorSize,   \* SECTOR_SIZE
    MaxWrites     \* bound: writes and damages

VARIABLES
    pipeline,   \* TransformPipeline
    stored,     \* TransformResult of the last write, or NoBlob
    origin,     \* ghost: the plaintext and pipeline of that write
    damaged,    \* ghost: the medium changed a stored byte
    steps

vars == <<pipeline, stored, origin, damaged, steps>>

CompressionAlgo == {"None", "Zstd", "Lz4"}
EncryptionMode == {"None", "Hctr2", "Xts", "AesGcm", "ChaCha20Poly1305"}

Ok(data) == [ok |-> TRUE, data |-> data]
Err(why) == [ok |-> FALSE, why |-> why]

\* BLAKE3 (external): equal only on equal bytes.
hash(data) == <<"blake3", data>>

\* zstd (external): a frame around the content that marks its own end.
Magic == 253
End == 254
encode_all(data) == <<Magic>> \o data \o <<End>>
decode_all(data) ==
    LET ends == {i \in DOMAIN data : data[i] = End} IN
    IF data = <<>> \/ data[1] # Magic \/ ends = {} THEN Err("decompression")
    ELSE Ok(SubSeq(data, 2, (CHOOSE i \in ends : \A j \in ends : i <= j) - 1))

compress(data, algo) ==
    CASE algo = "None" -> Ok(data)
      [] algo = "Zstd" -> Ok(encode_all(data))
      [] algo = "Lz4" -> Err("unsupported")

decompress(data, algo) ==
    CASE algo = "None" -> Ok(data)
      [] algo = "Zstd" -> decode_all(data)
      [] algo = "Lz4" -> Err("unsupported")

encrypt(data, mode) == IF mode = "None" THEN Ok(data) ELSE Err("encryption disabled")
decrypt(data, mode) == IF mode = "None" THEN Ok(data) ELSE Err("encryption disabled")

requires_sector_alignment(mode) == mode \in {"Xts", "Hctr2"}

pad_to(data, size) ==
    LET aligned == ((Len(data) + size - 1) \div size) * size IN
    data \o [i \in 1 .. aligned - Len(data) |-> 0]

\* The steps of a pipeline run in order and the first error ends it.
Then(r, next(_)) == IF r.ok THEN next(r.data) ELSE r

\* Mutant of apply: the content hash is taken after compression.
apply_hash_stored(p, plaintext) ==
    LET c == compress(plaintext, p.compression)
        staged(d) == IF requires_sector_alignment(p.encryption) THEN pad_to(d, SectorSize) ELSE d
        e == Then(c, LAMBDA d : encrypt(staged(d), p.encryption))
    IN  Then(e, LAMBDA d : Ok([content_hash |-> hash(c.data), data |-> d,
                               original_size |-> Len(plaintext),
                               compressed_size |-> Len(c.data), stored_size |-> Len(d)]))

apply(p, plaintext) ==
    LET c == compress(plaintext, p.compression)
        staged(d) == IF requires_sector_alignment(p.encryption) THEN pad_to(d, SectorSize) ELSE d
        e == Then(c, LAMBDA d : encrypt(staged(d), p.encryption))
    IN  Then(e, LAMBDA d : Ok([content_hash |-> hash(plaintext), data |-> d,
                               original_size |-> Len(plaintext),
                               compressed_size |-> Len(c.data), stored_size |-> Len(d)]))

\* expected is a hash, or NoHash to skip the check.
NoHash == <<>>
invert(p, data, expected) ==
    LET plain == Then(decrypt(data, p.encryption), LAMBDA d : decompress(d, p.compression)) IN
    Then(plain, LAMBDA d : IF expected = NoHash \/ hash(d) = expected THEN Ok(d)
                           ELSE Err("hash mismatch"))

-----------------------------------------------------------------------------
NoBlob == [content_hash |-> NoHash, data |-> <<>>, original_size |-> 0,
           compressed_size |-> 0, stored_size |-> 0]
passthrough == [compression |-> "None", encryption |-> "None"]

Init ==
    /\ pipeline = passthrough
    /\ stored = NoBlob
    /\ origin = [written |-> FALSE, plaintext |-> <<>>, pipeline |-> passthrough]
    /\ damaged = FALSE
    /\ steps = 0

Step == steps < MaxWrites /\ steps' = steps + 1

set_transform ==
    \E c \in CompressionAlgo, m \in EncryptionMode :
        /\ Step
        /\ pipeline' = [compression |-> c, encryption |-> m]
        /\ UNCHANGED <<stored, origin, damaged>>

\* A refused write leaves the blob as it was.
Write ==
    \E plaintext \in Plaintexts :
        LET r == apply(pipeline, plaintext) IN
        /\ Step
        /\ IF r.ok
           THEN /\ stored' = r.data
                /\ origin' = [written |-> TRUE, plaintext |-> plaintext, pipeline |-> pipeline]
                /\ damaged' = FALSE
           ELSE UNCHANGED <<stored, origin, damaged>>
        /\ UNCHANGED pipeline

Damage ==
    \E i \in DOMAIN stored.data, b \in {0, 1, End} :
        /\ Step
        /\ stored.data[i] # b
        /\ stored' = [stored EXCEPT !.data[i] = b]
        /\ damaged' = TRUE
        /\ UNCHANGED <<pipeline, origin>>

Next == set_transform \/ Write \/ Damage

Spec == Init /\ [][Next]_vars

-----------------------------------------------------------------------------
(* Properties. *)

\* Whatever pipeline is in force by now, the pipeline a blob was written with
\* gives its content back while the medium kept it; with the content hash a
\* damaged blob, or one read through another pipeline, is an error and never
\* other content (TransformPipeline::apply and invert).
TransformInverts ==
    LET back(p) == invert(p, stored.data, stored.content_hash) IN
    origin.written =>
        /\ ~damaged => back(origin.pipeline) = Ok(origin.plaintext)
        /\ \A p \in {origin.pipeline, pipeline} : back(p).ok => back(p).data = origin.plaintext
=============================================================================
