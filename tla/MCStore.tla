------------------------------ MODULE MCStore ------------------------------
(***************************************************************************)
(* What is kept and how it is written, on small instances: the index       *)
(* regions, nodes of sorted runs, pages, records, log entries, the buckets *)
(* of a disk, subscriptions, the history of operations, content            *)
(* transforms, ontology modules, command arguments and a mounted pool.     *)
(* StoreInit chooses the machine that runs.  Buckets, OpHistory and TagVfs *)
(* are the machines with theorems of their own: they keep their variables, *)
(* and stay in an initial state while another machine runs; s1 to s8 hold  *)
(* the state of any other machine.                                         *)
(***************************************************************************)
EXTENDS Buckets, OpHistory, TagVfs

CONSTANT Machines   \* the machines explored

VARIABLES machine, s1, s2, s3, s4, s5, s6, s7, s8

scratch == <<s1, s2, s3, s4, s5, s6, s7, s8>>
svars == <<machine, scratch, vars, hvars, mvars>>
Unused == "unused"

-----------------------------------------------------------------------------
(* Regions of five blocks; two tags and objects, an attribute of two       *)
(* hashes; every table the engine flushes.                                 *)

MCAsserts == {[kind |-> "Attr", a |-> 1, b |-> <<"Int", 7>>, origin |-> "Direct"],
              [kind |-> "Relation", a |-> 1, b |-> <<"oid", 9>>, origin |-> "Direct"]}

G == INSTANCE RegionFlush WITH
        table <- s1, mem <- s2, disk <- s3, saved <- s4, intact <- s5,
        Tables <- {"tags", "forward", "kv", "objects", "locations", "chunks", "range",
                   "backpointers", "buckets", "freespace", "placement", "overflow",
                   "ontology", "subscriptions"},
        Tags <- {1, 2}, Node <- 1, KeyTag <- 3, Upgraded <- {1}, Locals <- {1, 2},
        LocalBits <- 2, Assertions <- MCAsserts, MaxAsserts <- 2, Hashes <- {0, 3},
        HashBits <- 2, LastSlot <- 4, NodeCap <- 3, PageCap <- 1, RegionCap <- 1,
        InlineMax <- 1, BucketMax <- 1, MaxDepth <- 2, LeafRecords <- 2,
        LeafLocations <- 3, InnerFanout <- 2, MaxLevels <- 2, MaxReplicas <- 1,
        MaxRef <- 2, MaxOid <- 30

\* Two keys, four sectors of a run each, three log entries.
R == INSTANCE SortedRuns WITH
        node <- s1, regions <- s2, cur <- s3, writes <- s4, target <- s5, lsn <- s6, ops <- s7,
        Keys <- {"a", "b"}, Vals <- {"x"}, PerSector <- 1, RegionSectors <- 4,
        MaxRuns <- 2, MaxLsn <- 3

\* Words of 4 bits and bytes of 3, so that fields and varints span bytes.
C == INSTANCE Codecs WITH
        run <- s1, fmt <- s2,
        WordBits <- 4, ByteBits <- 3, NrFields <- 2, HeaderBytes <- 1, MaxPrefix <- 3,
        Fields <- {1, 15}, Values <- {<<>>, <<1, 2>>, <<1, 3, 0, 1, 2>>}, MaxRun <- 3

\* One place for pages of every kind, with two cells each.
P == INSTANCE Pages WITH
        draft <- s1, meant <- s2, disk <- s3, written <- s4, steps <- s5,
        Places <- {1}, Keys <- {1, 2, 3}, Refs <- {7, 8}, Capacity <- 2, MaxDepth <- 1,
        MaxSteps <- 5

MCKinds ==
    {"BlockRef", "BucketAllocEntry", "BucketAllocKey", "FreespaceLruKey", "BackpointerKey",
     "BackpointerValue", "ObjectRecord", "TagIndexLeafEntry", "TagIndexValue",
     "ChunkIndexValue", "ChunkParamsRecord", "DiskDescriptorOnDisk", "WalEntryHeader",
     "BlockHeader", "KvBucketEntry", "LeafEntry", "ObjectLocation", "TagIndexKey",
     "ForwardIndexKey", "SubscriptionsKey", "ChunkHashKey", "BlockPreamble",
     "ZoneMapEntry", "RootPointer", "Superblock"}

E == INSTANCE Records WITH
        kind <- s1, mem <- s2, page <- s3, clean <- s4, writes <- s5,
        Kinds <- MCKinds, MaxWrites <- 2

W == INSTANCE WalOps WITH ops <- s1, log <- s2, MaxLog <- 2

-----------------------------------------------------------------------------
\* One object and two tags, 1 implying 2 once a module is installed; queues
\* of two events.
Events == {"tag_added", "tag_removed", "content", "created", "deleted", "entered", "exited"}
HasTag(t) == [q |-> "tag", tag |-> t]
IsA(t) == [q |-> "isa", tag |-> t]

S == INSTANCE Subscriptions WITH
        e <- s1, subs <- s2, saved <- s3, view <- s4, lossy <- s5, stale <- s6,
        MaxOid <- 1, MaxTag <- 2, Keys <- {}, Vals <- {}, Norm <- <<>>, Rels <- {},
        Contents <- {"c"}, NoContent <- "zero", Byte <- 4, TextBytes <- 2, IntBytes <- 2,
        CtxBytes <- 1, Repl <- 2, Known <- {1, 2}, Impl <- {}, LaterImpl <- {<<1, 2>>},
        Watched <- {HasTag(1), IsA(2)}, Interests <- {Events},
        Retentions <- {1, 99}, Unlimited <- 99, MaxSubs <- 1, MaxPending <- 2

\* Two remote readings; the configuration gives the history a ring of two
\* operations and a logical counter up to 3, and the disk two usable buckets
\* handed out up to generation 3.
MCRemotes == {[physical_ns |-> 1, logical |-> 0, node_id |-> 9],
              [physical_ns |-> 2, logical |-> 3, node_id |-> 0]}

\* A mount with two tags, two objects and one context, called by two threads.
MCMembers == [x |-> {1, 2}, y |-> {2}]
MCProjections == [c |-> 1 :> <<"d", "f">> @@ 2 :> <<"g">>]
MCNameOrder == <<"c", "d", "f", "g", "x", "y">>
MCContent == 2 :> 3
MCSpans == {<<2, 4>>}

\* What the entries of such a mount can be: its listings agree with lookup, as
\* the theorems about the inode table ask.
MountKinds ==
    LET Paths(c) == UNION {Prefixes(path) \ {path} : path \in Range(Projections[c])}
    IN  {Plain(is) : is \in {"Root", "TagsRoot", "CtxRoot"}}
        \cup {TagDir(tags) : tags \in SUBSET DOMAIN Members \ {{}}}
        \cup {TagObject(o) : o \in 0 .. MaxOid}
        \cup UNION {{CtxDir(c, path) : path \in Paths(c)} : c \in DOMAIN Projections}
        \cup UNION {{CtxObject(c, o) : o \in DOMAIN Projections[c]} : c \in DOMAIN Projections}

ASSUME ListingsAgree == ListingsTyped(MountKinds) /\ ListingsResolve(MountKinds)

\* Contents up to three bytes, some of them compressible.
X == INSTANCE Transform WITH
        pipeline <- s1, stored <- s2, origin <- s3, damaged <- s4, steps <- s5,
        Plaintexts <- {<<>>, <<0>>, <<1, 0>>, <<1, 1, 0>>}, SectorSize <- 2, MaxWrites <- 4
-----------------------------------------------------------------------------
(* Module files: every spelling of each setting, one setting at a time.    *)

Opt(a, n) == [algo |-> a, arg |-> n]
NoOpt == Opt("", 0)
Storage(c, z, x) == [present |-> TRUE, chunking |-> c, compression |-> z, encryption |-> x]
Storages ==
    {[Storage("", NoOpt, NoOpt) EXCEPT !.present = FALSE]}
    \cup {Storage(c, NoOpt, NoOpt) :
             c \in {"", "none", "fixed", "fixed-size", "fastcdc", "cdc", "?"}}
    \cup {Storage("", Opt(z[1], z[2]), NoOpt) :
             z \in {<<"none", 0>>, <<"lz4", 0>>, <<"lz4", 5>>, <<"zstd", 0>>, <<"zstd", 9>>, <<"?", 0>>}}
    \cup {Storage("", NoOpt, Opt(x[1], x[2])) :
             x \in {<<"none", 0>>, <<"xts", 0>>, <<"gcm", 0>>, <<"aes-gcm", 0>>, <<"chacha20", 0>>,
                    <<"chacha20-poly1305", 0>>, <<"hctr2", 0>>, <<"hctr2", 7>>, <<"xts", 7>>}}
TagWith(s, v, x, st) ==
    [name |-> "t", semantics |-> s, value_type |-> v, element_constraint |-> x, storage |-> st]
Relations ==
    {<<>>} \cup {<<[from |-> "t", kind |-> k, to |-> "t"]>> :
                    k \in {"mutex", "mutually-exclusive", "requires", "alias", "is-a"}}
MCDocuments ==
    {[header |-> "h", tags |-> <<TagWith(s[1], s[2], x, st)>>, implications |-> <<>>, relations |-> r] :
        s \in {<<"label", "">>, <<"label", "int">>, <<"attr", "">>, <<"attribute", "int">>,
               <<"attribute", "blob">>, <<"attr", "?">>, <<"grouping", "">>, <<"ordered", "">>,
               <<"ordered-collection", "">>, <<"hierarchical", "">>, <<"?", "">>},
        x \in {"", "t", "u"}, st \in Storages, r \in Relations}

D == INSTANCE ModuleFile WITH
        file <- s1, module <- s2, first <- s3, saves <- s4,
        Documents <- MCDocuments, MaxSaves <- 2

\* Numbers of at most three digits (12 is no decimal digit), node ids and
\* locals on both sides of 9 and of the mask.
A == INSTANCE Arguments WITH
        typed <- s1, got <- s2,
        Nodes <- {0, 1, 9, 10, 17}, Locals <- {0, 9, 10, 31}, MaxNode <- 31, LocalSpan <- 32,
        MaxInt <- 120, Second <- 10,
        Numerals <- {<<>>} \cup UNION {[1 .. n -> {0, 1, 9, 12}] : n \in 1 .. 3},
        Parts <- {<<"", "">>, <<"tier", "cold">>, <<"tier", "hot">>, <<"tier", "odd">>,
                  <<"media", "smr-hdd">>, <<"capacity", "auto">>, <<"capacity", "big">>,
                  <<"size", "big">>},
        Sizes <- [big |-> 9]

-----------------------------------------------------------------------------
Free8 == s8 = Unused
Free7 == s7 = Unused /\ Free8
Free6 == s6 = Unused /\ Free7
Free5 == s5 = Unused /\ Free6
Free3 == s3 = Unused /\ s4 = Unused /\ Free5
Free1 == s1 = Unused /\ s2 = Unused /\ Free3

StoreInit ==
    /\ machine \in Machines
    /\ Init
    /\ HistoryInit
    /\ MountInit /\ (machine # "mount" => root_inode = INODE_ROOT)
    /\ \/ machine = "regions" /\ G!Init /\ Free6
       \/ machine = "runs" /\ R!Init /\ Free8
       \/ machine = "codecs" /\ C!Init /\ Free3
       \/ machine = "pages" /\ P!Init /\ Free6
       \/ machine = "records" /\ E!Init /\ Free6
       \/ machine = "wal_ops" /\ W!Init /\ Free3
       \/ machine = "subscriptions" /\ S!Init /\ Free7
       \/ machine \in {"buckets", "history", "mount"} /\ Free1
       \/ machine = "transform" /\ X!Init /\ Free6
       \/ machine = "module_file" /\ D!Init /\ Free5
       \/ machine = "arguments" /\ A!Init /\ Free3

Kept8 == UNCHANGED s8
Kept7 == UNCHANGED s7 /\ Kept8
Kept6 == UNCHANGED s6 /\ Kept7
Kept5 == UNCHANGED s5 /\ Kept6
Kept3 == UNCHANGED <<s3, s4>> /\ Kept5

OtherNext ==
    \/ machine = "regions" /\ G!Next /\ Kept6
    \/ machine = "runs" /\ R!Next /\ Kept8
    \/ machine = "codecs" /\ C!Next /\ Kept3
    \/ machine = "pages" /\ P!Next /\ Kept6
    \/ machine = "records" /\ E!Next /\ Kept6
    \/ machine = "wal_ops" /\ W!Next /\ Kept3
    \/ machine = "subscriptions" /\ S!Next /\ Kept7
    \/ machine = "transform" /\ X!Next /\ Kept6
    \/ machine = "module_file" /\ D!Next /\ Kept5
    \/ machine = "arguments" /\ A!Next /\ Kept3

StoreNext ==
    /\ UNCHANGED machine
    /\ \/ machine = "buckets" /\ Next /\ UNCHANGED <<hvars, mvars, scratch>>
       \/ machine = "history" /\ HistoryNext /\ UNCHANGED <<vars, mvars, scratch>>
       \/ machine = "mount" /\ MountNext /\ UNCHANGED <<vars, hvars, scratch>>
       \/ OtherNext /\ UNCHANGED <<vars, hvars, mvars>>

StoreSpec == StoreInit /\ [][StoreNext]_svars

-----------------------------------------------------------------------------
\* Regions: a region loads as the table of the last flush that ended, and an
\* object id has an address of its own.
FlushedTableLoads ==
    machine = "regions" => G!FlushedTableLoads /\ G!RadixPathsExact /\ G!RunFormsAgree

\* Sorted runs: a node answers with the last mutation of a key.
NodeIsMap == machine = "runs" => R!NodeIsMap

\* Sorted runs: the device and the log make up the whole map at any moment.
RecoverableFromLog == machine = "runs" => R!RecoverableFromLog

\* Subscriptions: a consumer that lost no event knows the cached result.
ConsumerFollows == machine = "subscriptions" => S!ConsumerFollows

\* Subscriptions: a subscription to a tag caches the members of the tag.
TagFollowed == machine = "subscriptions" => S!TagFollowed

\* What is written is read back as it was, or refused: runs of packed keys,
\* records, pages, log entries, transformed contents, module files, and what
\* a user types after a command printed it.
StoredFormsExact ==
    CASE machine = "codecs" -> C!PackRoundTrips /\ C!PackedKeysOrdered
      [] machine = "records" -> E!RecordsExact /\ E!KeysOrdered
      [] machine = "pages" -> P!PagesWhole
      [] machine = "wal_ops" -> W!LogDecodesToOps
      [] machine = "transform" -> X!TransformInverts
      [] machine = "module_file" -> D!ModuleStable
      [] machine = "arguments" -> A!ArgumentsRead
      [] OTHER -> TRUE
=============================================================================
