------------------------------ MODULE Regions ------------------------------
(***************************************************************************)
(* What the 256 KiB regions have in common (crates/storage/src/btree.rs):  *)
(* a region is a function from its blocks, a flush is the sequence of      *)
(* block writes it issues and whether it succeeds.  A flush that fails half *)
(* way has issued the writes before the failure, and a crash or a device   *)
(* error cuts the sequence anywhere.                                       *)
(***************************************************************************)
EXTENDS Integers, Sequences, FiniteSets, SequencesExt, FiniteSetsExt

CONSTANTS
    Node,        \* the node id of the engine
    LocalBits,   \* an object id is node * 2^LocalBits + local
    LastSlot,    \* last block of a region
    NodeCap      \* entries of a sorted run that fit the region

Empty == <<>>
Slots == 0 .. LastSlot
Zero == [kind |-> "zero"]
Blank == [s \in Slots |-> Zero]
Write(slot, block) == <<[slot |-> slot, block |-> block]>>
Apply(d, ws) == FoldLeft(LAMBDA acc, w : [acc EXCEPT ![w.slot] = w.block], d, ws)
Flushed(ws) == [writes |-> ws, ok |-> TRUE]
Failed(ws) == [writes |-> ws, ok |-> FALSE]
After(ws, f) == [f EXCEPT !.writes = ws \o @]
Without(f, S) == [k \in DOMAIN f \ S |-> f[k]]
With(f, k, v) == [x \in DOMAIN f \cup {k} |-> IF x = k THEN v ELSE f[x]]
Ordered(S) == SetToSortSeq(S, <)
Oid(local) == Node * 2^LocalBits + local
LocalOf(oid) == oid % 2^LocalBits

-----------------------------------------------------------------------------
(* A node of at most one run, a sequence of entries <<key, value>> in the  *)
(* order of the keys: integers, or tuples of them.                         *)

Lex(k, l) == \E i \in DOMAIN k : k[i] < l[i] /\ \A j \in 1 .. i - 1 : k[j] = l[j]
Entries(f, lt(_, _)) ==
    LET ks == SetToSortSeq(DOMAIN f, lt) IN [i \in DOMAIN ks |-> <<ks[i], f[ks[i]]>>]
Inserted(entries) == FoldLeft(LAMBDA acc, e : With(acc, e[1], e[2]), Empty, entries)

\* A run too long for the region is refused before the first write; the
\* header sector goes last.
write_full(kind, entries) ==
    IF Len(entries) > NodeCap THEN Failed(<<>>)
    ELSE IF entries = <<>> THEN Flushed(Write(0, [kind |-> kind, runs |-> 0]))
    ELSE Flushed(Write(1, [kind |-> "run", entries |-> entries])
                 \o Write(0, [kind |-> kind, runs |-> 1]))

\* The packed runs of the tag, forward, chunk and subscription regions.
write_full_packed(kind, entries) == write_full(kind, entries)

\* A header of another tree is an error; a header of zeroes is a fresh region
\* (the callers' probe).
read(kind, d) ==
    IF d[0] = Zero THEN [ok |-> TRUE, entries |-> <<>>]
    ELSE IF d[0].kind # kind THEN [ok |-> FALSE, entries |-> <<>>]
    ELSE [ok |-> TRUE, entries |-> IF d[0].runs = 0 THEN <<>> ELSE d[1].entries]
read_packed(kind, d) == read(kind, d)
Loaded(node, ix) == [ok |-> node.ok, ix |-> ix]
=============================================================================
