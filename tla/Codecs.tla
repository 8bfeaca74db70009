------------------------------- MODULE Codecs -------------------------------
(***************************************************************************)
(* Calls of the packed-run codec: a run of entries sorted by key is built  *)
(* one entry at a time, under a format chosen for it or widened for the    *)
(* entry that did not fit, and is encoded and decoded.                     *)
(***************************************************************************)
EXTENDS PackCodec

CONSTANTS Fields,  \* field values of the keys tried
          Values,  \* values (sequences of bytes)
          MaxRun   \* bound: entries of a run

VARIABLES run, fmt
vars == <<run, fmt>>

\* Keys by header, then field by field.
KeyLess(a, b) ==
    \/ a.h < b.h
    \/ /\ a.h = b.h
       /\ \E i \in 1 .. NrFields : a.f[i] < b.f[i] /\ \A j \in 1 .. i - 1 : a.f[j] = b.f[j]
Headers == IF HeaderBytes = 0 THEN {0} ELSE {0, 1}

Init == run = <<>> /\ fmt = select_format_with_hint(<<>>, FALSE)

\* A new entry joins the run; the format is promoted when its key needs it.
Insert(h, f, v) ==
    /\ Len(run) < MaxRun /\ \A j \in DOMAIN run : <<run[j].h, run[j].f>> # <<h, f>>
    /\ run' = SortSeq(Append(run, [h |-> h, f |-> f, v |-> v]), LAMBDA a, b : KeyLess(a, b))
    /\ fmt' = check_fit(fmt, f)

\* The run is written under the format its entries call for.
Reformat(force) ==
    /\ run # <<>> /\ run' = run
    /\ fmt' = select_format_with_hint(run, force)

Next ==
    \/ \E h \in Headers, f \in [1 .. NrFields -> Fields], v \in Values : Insert(h, f, v)
    \/ \E force \in BOOLEAN : Reformat(force)

Spec == Init /\ [][Next]_vars

\* A run that is encoded decodes to itself, in fixed mode when the reader
\* passes the values' length, in varint mode whatever it passes; a payload
\* that was cut short anywhere is refused.
PackRoundTrips ==
    LET p == encode_packed_run(run, fmt)
        decode(n) == decode_packed_run(SubSeq(p.bytes, 1, n),
                                       IF fmt.varint THEN 0 ELSE Len(run[1].v), Len(run))
    IN  (run # <<>> /\ p.ok) =>
            /\ decode(Len(p.bytes)).ok /\ decode(Len(p.bytes)).run = run
            /\ \A n \in 0 .. Len(p.bytes) - 1 : ~decode(n).ok

\* Packed keys compare as the keys do, byte by byte and without decoding; a
\* format chosen for a run, or promoted for its keys one at a time from the
\* empty format, holds every field of every entry.
PackedKeysOrdered ==
    /\ \A j \in DOMAIN run, i \in 1 .. NrFields : FieldFits(run[j], fmt.fields, i)
    /\ \A i, j \in DOMAIN run :
          KeyLess(run[i], run[j]) <=>
              compare_packed_keys(PackedKey(run[i], fmt.fields), PackedKey(run[j], fmt.fields))
=============================================================================
