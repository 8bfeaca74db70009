---------------------------- MODULE IndexRegions ----------------------------
(***************************************************************************)
(* The index regions a commit rewrites in place (crates/index): the tag    *)
(* index with its chains of bitmap pages, the forward index with its       *)
(* overflow chains, and the key-value index as an extendible hash.  A      *)
(* table is a function from its keys.                                      *)
(***************************************************************************)
EXTENDS Regions

CONSTANTS
    HashBits,    \* bits of a value's hash
    PageCap,     \* members in a bitmap page
    RegionCap,   \* assertions in an overflow region
    InlineMax,   \* LEAF_ENTRY_INLINE_SPILL_THRESHOLD
    BucketMax,   \* KV_BUCKET_MAX_ENTRIES
    MaxDepth     \* KV_DIRECTORY_MAX_INLINE_DEPTH

-----------------------------------------------------------------------------
(* Chains of pages, laid out from slot 2.                                  *)

chunks(s, cap) ==
    LET n == IF s = <<>> THEN 1 ELSE (Len(s) + cap - 1) \div cap
    IN  [i \in 1 .. n |-> SubSeq(s, (i - 1) * cap + 1, Min({i * cap, Len(s)}))]

NoLeaves == [writes |-> <<>>, next |-> 2, leaves |-> Empty, ok |-> TRUE]

\* Mutant of write_bitmap_chain: the next chain starts on the last page of
\* this one.
write_bitmap_chain_overlap(acc, key, body, cap) ==
    LET cs == chunks(body, cap)
        n == Len(cs)
        page(i) == [kind |-> "page", body |-> cs[i],
                    next |-> IF i = n THEN 0 ELSE acc.next + i]
    IN  IF acc.next + n > LastSlot + 1 THEN [acc EXCEPT !.ok = FALSE]
        ELSE [acc EXCEPT
                !.writes = @ \o FlattenSeq([i \in 1 .. n |->
                                   Write(acc.next + n - i, page(n + 1 - i))]),
                !.next = @ + Max({n - 1, 1}),
                !.leaves = With(@, key, [total |-> Len(body), head |-> acc.next])]

\* The chunks take consecutive slots and are written tail first; a chain that
\* does not fit the area is refused before its first write.
write_bitmap_chain(acc, key, body, cap) ==
    LET cs == chunks(body, cap)
        n == Len(cs)
        page(i) == [kind |-> "page", body |-> cs[i],
                    next |-> IF i = n THEN 0 ELSE acc.next + i]
    IN  IF acc.next + n > LastSlot + 1 THEN [acc EXCEPT !.ok = FALSE]
        ELSE [acc EXCEPT
                !.writes = @ \o FlattenSeq([i \in 1 .. n |->
                                   Write(acc.next + n - i, page(n + 1 - i))]),
                !.next = @ + n,
                !.leaves = With(@, key, [total |-> Len(body), head |-> acc.next])]

\* The pages from a head on; links only lead upwards.
read_bitmap_chain(d, head) ==
    LET walk[s \in Slots] ==
            IF d[s].kind # "page" THEN [ok |-> FALSE, body |-> <<>>]
            ELSE IF d[s].next = 0 THEN [ok |-> TRUE, body |-> d[s].body]
            ELSE LET rest == walk[d[s].next]
                 IN  [ok |-> rest.ok, body |-> d[s].body \o rest.body]
    IN  walk[head]

-----------------------------------------------------------------------------
(* The tag index: tag -> [kind, members].  An ordered store's sequence and *)
(* a ranked store's scores never reach the disk and are left out.          *)

Simple(ms) == [kind |-> "Simple", members |-> ms]
tag_add_member(ix, t, o) ==
    IF t \in DOMAIN ix THEN [ix EXCEPT ![t].members = @ \cup {o}]
    ELSE With(ix, t, Simple({o}))
tag_remove_member(ix, t, o) ==
    IF t \in DOMAIN ix THEN [ix EXCEPT ![t].members = @ \ {o}] ELSE ix
remove_object_from_all(ix, o) ==
    [t \in DOMAIN ix |-> [ix[t] EXCEPT !.members = @ \ {o}]]
upgrade_to_ordered(ix, t) ==
    IF t \in DOMAIN ix /\ ix[t].kind = "Simple" THEN [ix EXCEPT ![t].kind = "Ordered"] ELSE ix
upgrade_to_ranked(ix, t) ==
    IF t \in DOMAIN ix THEN [ix EXCEPT ![t].kind = "Ranked"] ELSE ix

flush_tags(ix) ==
    LET chain(acc, t) ==
            IF acc.ok THEN write_bitmap_chain(acc, t, Ordered(ix[t].members), PageCap) ELSE acc
        all == FoldLeft(chain, NoLeaves, Ordered(DOMAIN ix))
    IN  IF \E t \in DOMAIN ix : ix[t].kind # "Simple" THEN Failed(<<>>)
        ELSE IF ~all.ok THEN Failed(all.writes)
        ELSE After(all.writes, write_full_packed("TagIndex", Entries(all.leaves, <)))

load_tags(d) ==
    LET node == read_packed("TagIndex", d)
        dir == Inserted(node.entries)
    IN
    [ok |-> node.ok /\ \A t \in DOMAIN dir : read_bitmap_chain(d, dir[t].head).ok,
     ix |-> [t \in DOMAIN dir |-> Simple(ToSet(read_bitmap_chain(d, dir[t].head).body))]]

-----------------------------------------------------------------------------
(* The forward index: object -> sequence of assertions.                    *)

add_assertion(ix, o, a) ==
    IF o \in DOMAIN ix THEN [ix EXCEPT ![o] = Append(@, a)] ELSE With(ix, o, <<a>>)

\* swap_remove of the first match; the entry goes with its last assertion.
remove_assertion(ix, o, a) ==
    IF o \notin DOMAIN ix \/ ~Contains(ix[o], a) THEN ix
    ELSE LET s == ix[o]
             p == Min({i \in DOMAIN s : s[i] = a})
             t == SubSeq([s EXCEPT ![p] = s[Len(s)]], 1, Len(s) - 1)
         IN  IF t = <<>> THEN Without(ix, {o}) ELSE [ix EXCEPT ![o] = t]
remove_object(ix, o) == Without(ix, {o})

\* An attribute goes to disk as its key and the hash of its value.
from_logical(a) ==
    IF a.kind = "Attr" THEN [a EXCEPT !.b = <<"hash", a.b>>]
    ELSE IF a.kind = "Tag" THEN [a EXCEPT !.b = <<"none">>] ELSE a
\* and comes back with the placeholder Int(0) for its value.
to_logical(p) == IF p.kind = "Attr" THEN [p EXCEPT !.b = <<"Int", 0>>] ELSE p

write_overflow_chain(acc, o, packed) == write_bitmap_chain(acc, o, packed, RegionCap)

\* The chain must hold as many entries as the leaf entry says, in no more
\* regions than that many need, and one.
read_overflow_chain(d, leaf) ==
    LET c == read_bitmap_chain(d, leaf.head) IN [c EXCEPT !.ok = @ /\ Len(c.body) = leaf.total]

would_spill(s) == Len(s) > InlineMax

flush_forward(ix) ==
    LET packed(o) == [i \in DOMAIN ix[o] |-> from_logical(ix[o][i])]
        leaf(acc, o) ==
            IF ~acc.ok THEN acc
            ELSE IF would_spill(ix[o]) THEN write_overflow_chain(acc, o, packed(o))
            ELSE [acc EXCEPT !.leaves = With(@, o, [total |-> Len(ix[o]), inline |-> packed(o)])]
        all == FoldLeft(leaf, NoLeaves, Ordered(DOMAIN ix))
    IN  IF ~all.ok THEN Failed(all.writes)
        ELSE After(all.writes, write_full_packed("ForwardIndex", Entries(all.leaves, <)))

load_forward(d) ==
    LET node == read_packed("ForwardIndex", d)
        dir == Inserted(node.entries)
        body(o) == IF "inline" \in DOMAIN dir[o] THEN [ok |-> TRUE, body |-> dir[o].inline]
                   ELSE read_overflow_chain(d, dir[o])
    IN  [ok |-> node.ok /\ \A o \in DOMAIN dir : body(o).ok,
         ix |-> [o \in DOMAIN dir |-> [i \in DOMAIN body(o).body |-> to_logical(body(o).body[i])]]]

-----------------------------------------------------------------------------
(* The key-value index: <<tag, hash of the value>> -> objects.             *)

kv_insert(ix, k, o) ==
    IF k \in DOMAIN ix THEN [ix EXCEPT ![k] = @ \cup {o}] ELSE With(ix, k, {o})
kv_remove(ix, k, o) ==
    IF k \notin DOMAIN ix THEN ix
    ELSE IF ix[k] \ {o} = {} THEN Without(ix, {k}) ELSE [ix EXCEPT ![k] = @ \ {o}]

\* The top `depth` bits of the hash.
directory_index(h, depth) == IF depth = 0 THEN 0 ELSE h \div 2^(HashBits - depth)

select_global_depth(n) ==
    LET needed == (n + BucketMax - 1) \div BucketMax
    IN  IF n <= BucketMax THEN 0
        ELSE Min({dp \in 0 .. MaxDepth : 2^dp >= needed} \cup {MaxDepth + 1})

\* KvBucketBlock::upsert into a bucket that may be full.
Full(bucket, k) == k \notin DOMAIN bucket /\ Cardinality(DOMAIN bucket) >= BucketMax

SortedKeys(ix) ==
    SetToSortSeq(DOMAIN ix, LAMBDA k, l : k[1] < l[1] \/ (k[1] = l[1] /\ k[2] < l[2]))

\* Bitmap pages first, one per entry in key order, then the buckets, then the
\* directory.  A bitmap beyond one page, and a bucket beyond its entries, are
\* noticed when their turn comes.
flush_extendible_hash(ix) ==
    LET n == Cardinality(DOMAIN ix)
        depth == select_global_depth(n)
        count == 2^depth
        place(acc, k) ==
            LET b == directory_index(k[2], depth)
                page == Write(acc.next, [kind |-> "page", body |-> Ordered(ix[k]), next |-> 0])
            IN  IF ~acc.ok THEN acc
                ELSE IF Cardinality(ix[k]) > PageCap THEN [acc EXCEPT !.ok = FALSE]
                ELSE IF Full(acc.buckets[b], k)
                     THEN [acc EXCEPT !.ok = FALSE, !.writes = @ \o page]
                ELSE [acc EXCEPT !.writes = @ \o page, !.next = @ + 1,
                                 !.buckets[b] = With(@, k, acc.next)]
        start == [writes |-> <<>>, next |-> 1 + count, ok |-> TRUE,
                  buckets |-> [b \in 0 .. count - 1 |-> Empty]]
        all == FoldLeft(place, start, SortedKeys(ix))
        blocks == FlattenSeq([i \in 1 .. count |->
                      Write(i, [kind |-> "bucket", entries |-> all.buckets[i - 1]])])
    IN  IF depth > MaxDepth \/ 1 + count + n > LastSlot + 1 THEN Failed(<<>>)
        ELSE IF ~all.ok THEN Failed(all.writes)
        ELSE Flushed(all.writes \o blocks
                     \o Write(0, [kind |-> "dir", entries |-> [i \in 1 .. count |-> i]]))

load_extendible_hash(d) ==
    LET dir == IF d[0] = Zero THEN {} ELSE ToSet(d[0].entries)
        sound == \A s \in dir : d[s].kind = "bucket"
        keys == UNION {DOMAIN d[s].entries : s \in dir}
        page(k) == d[d[CHOOSE s \in dir : k \in DOMAIN d[s].entries].entries[k]]
    IN  IF ~sound THEN [ok |-> FALSE, ix |-> Empty]
        ELSE [ok |-> \A k \in keys : page(k).kind = "page",
              ix |-> [k \in keys |-> ToSet(page(k).body)]]

\* The same table as one run, for tooling; a bitmap becomes its bytes.
kv_to_node(ix) ==
    LET ks == SortedKeys(ix) IN [i \in DOMAIN ks |-> <<ks[i], Ordered(ix[ks[i]])>>]
kv_from_node(node) ==
    Inserted([i \in DOMAIN node.entries |-> <<node.entries[i][1], ToSet(node.entries[i][2])>>])
=============================================================================
