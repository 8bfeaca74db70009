------------------------------- MODULE TagVfs -------------------------------
(* The read-only FUSE view of an engine (crates/fuse): TagVfs, its table of   *)
(* inodes behind three mutexes, and the handlers of MimisbrunnrFs that call   *)
(* it.  Threads run the handlers; a step is what a thread does while it waits *)
(* for no further mutex.  The engine's indices are borrowed and never change  *)
(* while mounted, so they are constants here.  A path of a projection is the  *)
(* sequence of its components and a decimal name is the text of an object id. *)
EXTENDS Integers, SequencesExt
CONSTANTS Threads,      \* the threads that call the handlers
          Members,      \* tag name -> local ids of its members (TagIndex)
          Projections,  \* context name -> (object id -> path)
          NameOrder,    \* the names in lexical order
          Content,      \* object id -> length of its blob (ContentProvider)
          LocalBits,    \* width of the local part of an object id
          MaxOid,       \* bound: the ids a name is parsed against
          Mounts,       \* MountRoots: "full", "tags", "ctx" or a context name
          PageSize,     \* names that fit one readdir reply
          Asked,        \* names a client looks up
          Spans,        \* <<offset, size>> of the reads
          MaxCalls      \* bound: handler calls of one mount
ASSUME MountAssumption == PageSize \in Nat
VARIABLES entries, lookup_index, next_ino,  \* TagVfs, a mutex around each
          root_inode,                       \* the inode the mount's root stands for
          holder,                           \* mutex -> the thread that holds it
          proc,                             \* thread -> its handler call
          known,                            \* inodes a lookup told the kernel
          calls
mvars == <<entries, lookup_index, next_ino, root_inode, holder, proc, known, calls>>

INODE_ROOT == 1
INODE_TAGS_ROOT == 2
INODE_CTX_ROOT == 3
INODE_FIRST_DYNAMIC == 4
None == "none"

(* VfsEntryKind. *)
Kind(is, tags, oid, context, path) ==
    [is |-> is, tags |-> tags, oid |-> oid, context |-> context, path |-> path]
Plain(is) == Kind(is, {}, 0, None, <<>>)
TagDir(tags) == Kind("TagDir", tags, 0, None, <<>>)
TagObject(oid) == Kind("TagObject", {}, oid, None, <<>>)
CtxDir(context, path) == Kind("CtxDir", {}, 0, context, path)
CtxObject(context, oid) == Kind("CtxObject", {}, oid, context, <<>>)
NoKind == Plain(None)

-----------------------------------------------------------------------------
(* What a directory holds. *)
low32_of(oid) == oid % 2^LocalBits
intersect(tags) == {o \in UNION {Members[n] : n \in tags} : \A n \in tags : o \in Members[n]}
Parsed(name) == {oid \in 0..MaxOid : ToString(oid) = name}

derive_child_under_tags_root(name) ==
    IF name \in DOMAIN Members /\ Members[name] # {} THEN TagDir({name}) ELSE NoKind

\* A known tag is a sub-directory or nothing; any other name may be an id.
derive_child_under_tag_dir(tags, name) ==
    IF name \in DOMAIN Members
    THEN IF name \notin tags /\ intersect(tags) \cap Members[name] # {}
         THEN TagDir(tags \cup {name}) ELSE NoKind
    ELSE LET ids == {oid \in Parsed(name) : low32_of(oid) \in intersect(tags)}
         IN  IF ids = {} THEN NoKind ELSE TagObject(CHOOSE oid \in ids : TRUE)

derive_child_under_ctx_root(name) ==
    IF name \in DOMAIN Projections THEN CtxDir(name, <<>>) ELSE NoKind

\* A whole path is a file; a proper prefix of one is a directory.
derive_child_under_ctx_dir(context, path, name) ==
    LET p == Projections[context]
        candidate == Append(path, name)
        files == {o \in DOMAIN p : p[o] = candidate}
    IN  IF files # {} THEN CtxObject(context, CHOOSE o \in files : TRUE)
        ELSE IF \E o \in DOMAIN p : IsStrictPrefix(candidate, p[o])
             THEN CtxDir(context, candidate) ELSE NoKind

derive_child_kind(kind, name) ==
    CASE kind.is = "Root" -> IF name = "tags" THEN Plain("TagsRoot")
                             ELSE IF name = "ctx" THEN Plain("CtxRoot") ELSE NoKind
      [] kind.is = "TagsRoot" -> derive_child_under_tags_root(name)
      [] kind.is = "TagDir" -> derive_child_under_tag_dir(kind.tags, name)
      [] kind.is = "CtxRoot" -> derive_child_under_ctx_root(name)
      [] kind.is = "CtxDir" -> derive_child_under_ctx_dir(kind.context, kind.path, name)
      [] OTHER -> NoKind

\* The names of a set with the kind each is listed as, in lexical order.
Listing(names, kindOf(_)) ==
    LET ordered == SelectSeq(NameOrder, LAMBDA n : n \in names)
    IN  [i \in DOMAIN ordered |-> <<ordered[i], kindOf(ordered[i])>>]

readdir_tags_root ==
    Listing({n \in DOMAIN Members : Members[n] # {}}, LAMBDA n : TagDir({n}))

\* The sub-tags that refine the match, then the matched objects under the id
\* a node-0 engine would have given them.
readdir_tag_dir(tags) ==
    LET matched == SetToSortSeq(intersect(tags), <)
    IN  Listing({n \in DOMAIN Members \ tags : intersect(tags) \cap Members[n] # {}},
                LAMBDA n : TagDir(tags \cup {n}))
        \o [i \in DOMAIN matched |-> <<ToString(matched[i]), TagObject(matched[i])>>]

readdir_ctx_root == Listing(DOMAIN Projections, LAMBDA n : CtxDir(n, <<>>))

\* Directories first, then every file of the directory.
readdir_ctx_dir(context, path) ==
    LET p == Projections[context]
        Rest(o) == SubSeq(p[o], Len(path) + 1, Len(p[o]))
        Rank(o) == CHOOSE i \in DOMAIN NameOrder : NameOrder[i] = Rest(o)[1]
        under == {o \in DOMAIN p : IsStrictPrefix(path, p[o])}
        dirs == {Rest(o)[1] : o \in {x \in under : Len(Rest(x)) > 1}}
        files == SetToSortSeq({o \in under : Len(Rest(o)) = 1},
                    LAMBDA a, b : Rank(a) < Rank(b) \/ (Rank(a) = Rank(b) /\ a < b))
    IN  Listing(dirs, LAMBDA n : CtxDir(context, Append(path, n)))
        \o [i \in DOMAIN files |-> <<Rest(files[i])[1], CtxObject(context, files[i])>>]

readdir_root == <<<<"tags", INODE_TAGS_ROOT>>, <<"ctx", INODE_CTX_ROOT>>>>

readdir(kind) ==
    CASE kind.is = "TagsRoot" -> readdir_tags_root
      [] kind.is = "TagDir" -> readdir_tag_dir(kind.tags)
      [] kind.is = "CtxRoot" -> readdir_ctx_root
      [] kind.is = "CtxDir" -> readdir_ctx_dir(kind.context, kind.path)
      [] OTHER -> <<>>

IsDirectory(kind) == kind.is \in {"Root", "TagsRoot", "CtxRoot", "TagDir", "CtxDir"}
object_for_inode(kind) == IF IsDirectory(kind) THEN {} ELSE {kind.oid}

\* The file kind and size a reply carries.
make_file_attr(kind) ==
    [dir |-> IsDirectory(kind),
     size |-> IF object_for_inode(kind) \cap DOMAIN Content = {} THEN 0 ELSE Content[kind.oid]]

\* The names of a listing one reply has room for, from an offset on.
Least(a, b) == IF a < b THEN a ELSE b
Page(listing, offset) == SubSeq(listing, offset + 1, Least(offset + PageSize, Len(listing)))

\* The part of an object's bytes that lies inside <<offset, size>>.
read(kind, span) ==
    LET len == Content[kind.oid]
        start == Least(span[1], len)
    IN  IF object_for_inode(kind) = {} THEN <<<<"EISDIR", 0, 0>>>>
        ELSE IF kind.oid \notin DOMAIN Content THEN <<<<"ENOENT", 0, 0>>>>
        ELSE <<<<"data", start, Least(start + span[2], len)>>>>

-----------------------------------------------------------------------------
(* The inode table and the mount. *)
Idle == [pc |-> "idle", op |-> None, ino |-> 0, arg |-> <<>>, todo |-> <<>>,
         cur |-> 0, out |-> <<>>]

\* A map with one key set.
insert(f, k, v) == [x \in DOMAIN f \cup {k} |-> IF x = k THEN v ELSE f[x]]

\* The inodes of the three roots are 1, 2 and 3.
new == [table |-> <<[kind |-> Plain("Root"), parent |-> 0],
                    [kind |-> Plain("TagsRoot"), parent |-> INODE_ROOT],
                    [kind |-> Plain("CtxRoot"), parent |-> INODE_ROOT]>>,
        index |-> insert(insert(<<>>, <<INODE_ROOT, "tags">>, INODE_TAGS_ROOT),
                         <<INODE_ROOT, "ctx">>, INODE_CTX_ROOT),
        next |-> INODE_FIRST_DYNAMIC]

\* A mount of one context has allocated that context's directory.
ctx_root_inode(vfs, context) ==
    IF context \notin DOMAIN Projections THEN vfs
    ELSE [table |-> insert(vfs.table, vfs.next,
                           [kind |-> CtxDir(context, <<>>), parent |-> INODE_CTX_ROOT]),
          index |-> insert(vfs.index, <<INODE_CTX_ROOT, context>>, vfs.next),
          next |-> vfs.next + 1]

new_with_root(mount) ==
    CASE mount = "full" -> INODE_ROOT
      [] mount = "tags" -> INODE_TAGS_ROOT
      [] mount = "ctx" -> INODE_CTX_ROOT
      [] OTHER -> IF mount \in DOMAIN Projections THEN new.next ELSE INODE_ROOT

translate(ino) == IF ino = INODE_ROOT THEN root_inode ELSE ino

MountInit ==
    /\ \E mount \in Mounts : LET vfs == ctx_root_inode(new, mount) IN
          /\ entries = vfs.table /\ lookup_index = vfs.index /\ next_ino = vfs.next
          /\ root_inode = new_with_root(mount)
    /\ holder = [l \in {"next_ino", "entries", "lookup_index"} |-> None]
    /\ proc = [t \in Threads |-> Idle]
    /\ known = {INODE_ROOT}
    /\ calls = 0

-----------------------------------------------------------------------------
(* The steps of a thread. *)
At(t, pc) == proc[t].pc = pc
Free(l) == holder[l] = None
Key(t) == <<proc[t].ino, proc[t].todo[1][1]>>
Found(t) == Key(t) \in DOMAIN lookup_index
Table == <<entries, lookup_index, next_ino, root_inode>>

\* The kernel calls a handler with an inode it was given by a lookup.
Call(t, op, ino, arg) ==
    /\ At(t, "idle") /\ calls < MaxCalls
    /\ calls' = calls + 1
    /\ proc' = [proc EXCEPT ![t] = [Idle EXCEPT
          !.op = op, !.ino = translate(ino), !.arg = arg,
          !.pc = IF op = "lookup" THEN "cached" ELSE "entry",
          !.todo = IF op = "lookup" THEN <<<<arg[1], NoKind>>>> ELSE <<>>]]
    /\ UNCHANGED <<Table, holder, known>>

\* Every handler that would write answers at once that the mount is read-only.
refuse(t) ==
    /\ At(t, "idle") /\ calls < MaxCalls
    /\ calls' = calls + 1
    /\ proc' = [proc EXCEPT ![t] = [Idle EXCEPT !.op = "EROFS"]]
    /\ UNCHANGED <<Table, holder, known>>

\* A handler answers; a lookup's answer tells the kernel an inode.
Reply(t, out) ==
    /\ proc' = [proc EXCEPT ![t] = [@ EXCEPT !.pc = "idle", !.todo = <<>>, !.out = out]]
    /\ known' = known \cup (IF proc[t].op = "lookup" THEN {o[2] : o \in Range(out)} ELSE {})
    /\ UNCHANGED <<Table, calls>>

\* TagVfs::lookup asks the cache.  On a hit the guard of lookup_index lives to
\* the end of the `if let`, so the thread goes on to `entry` holding it.
lookup(t) ==
    /\ At(t, "cached") /\ Free("lookup_index")
    /\ IF Found(t)
       THEN /\ holder' = [holder EXCEPT !.lookup_index = t]
            /\ proc' = [proc EXCEPT ![t].pc = "hit", ![t].cur = lookup_index[Key(t)]]
       ELSE /\ proc' = [proc EXCEPT ![t].pc = "entry"]
            /\ UNCHANGED holder
    /\ UNCHANGED <<Table, known, calls>>

lookup_hit(t) ==
    /\ At(t, "hit") /\ Free("entries")
    /\ holder' = [holder EXCEPT !.lookup_index = None]
    /\ Reply(t, <<<<Key(t)[2], proc[t].cur>>>>)

\* `entry` reads the inode the call is about: lookup derives the child,
\* readdir lists the children, getattr and read answer from it.
entry(t) ==
    /\ At(t, "entry") /\ Free("entries")
    /\ LET p == proc[t]
           kind == IF p.ino \in DOMAIN entries THEN entries[p.ino].kind ELSE NoKind
           todo == CASE p.op = "lookup" ->
                          LET child == derive_child_kind(kind, p.arg[1])
                          IN  IF child = NoKind THEN <<>> ELSE <<<<p.arg[1], child>>>>
                     [] p.op = "readdir" -> readdir(kind)
                     [] OTHER -> <<>>
       IN  IF todo # <<>>
           THEN /\ proc' = [proc EXCEPT ![t].pc = "fast", ![t].todo = todo]
                /\ UNCHANGED <<Table, known, calls>>
           ELSE Reply(t, CASE p.op = "readdir" /\ kind.is = "Root" ->
                                Page(readdir_root, p.arg[1])
                           [] p.op = "getattr" /\ kind # NoKind -> <<make_file_attr(kind)>>
                           [] p.op = "read" -> read(kind, p.arg)
                           [] OTHER -> <<>>)
    /\ UNCHANGED holder

\* allocate_inode, fast path: the name may have an inode already.
allocate_fast(t) ==
    /\ At(t, "fast") /\ Free("lookup_index")
    /\ proc' = [proc EXCEPT ![t].pc = IF Found(t) THEN "fetch" ELSE "counter",
                            ![t].cur = IF Found(t) THEN lookup_index[Key(t)] ELSE 0]
    /\ UNCHANGED <<Table, holder, known, calls>>

\* allocate_inode, slow path: the counter, then the table, then the cache.
lock_next_ino(t) ==
    /\ At(t, "counter") /\ Free("next_ino")
    /\ holder' = [holder EXCEPT !.next_ino = t]
    /\ proc' = [proc EXCEPT ![t].pc = "table"]
    /\ UNCHANGED <<Table, known, calls>>

lock_entries(t) ==
    /\ At(t, "table") /\ Free("entries")
    /\ holder' = [holder EXCEPT !.entries = t]
    /\ proc' = [proc EXCEPT ![t].pc = "index"]
    /\ UNCHANGED <<Table, known, calls>>

Insert(t) ==
    /\ entries' = insert(entries, next_ino, [kind |-> proc[t].todo[1][2], parent |-> proc[t].ino])
    /\ lookup_index' = insert(lookup_index, Key(t), next_ino)
    /\ next_ino' = next_ino + 1
    /\ proc' = [proc EXCEPT ![t].pc = "fetch", ![t].cur = next_ino]
    /\ UNCHANGED root_inode

Release(t) ==
    /\ holder' = [l \in DOMAIN holder |-> IF holder[l] = t THEN None ELSE holder[l]]
    /\ UNCHANGED <<known, calls>>

\* Mutant of allocate_inode: no second look under the locks.
allocate_inode_unchecked(t) ==
    /\ At(t, "index") /\ Free("lookup_index")
    /\ Insert(t)
    /\ Release(t)

allocate_inode(t) ==
    /\ At(t, "index") /\ Free("lookup_index")
    /\ IF Found(t)
       THEN /\ proc' = [proc EXCEPT ![t].pc = "fetch", ![t].cur = lookup_index[Key(t)]]
            /\ UNCHANGED Table
       ELSE Insert(t)
    /\ Release(t)

\* The entry of the inode goes to the answer; readdir goes on with the next
\* name and at the end replies with the page at its offset.
fetch(t) ==
    /\ At(t, "fetch") /\ Free("entries")
    /\ LET p == proc[t]
           out == Append(p.out, <<p.todo[1][1], p.cur>>)
       IN  IF Len(p.todo) > 1
           THEN /\ proc' = [proc EXCEPT ![t] = [p EXCEPT !.pc = "fast", !.out = out,
                                                         !.todo = Tail(@)]]
                /\ UNCHANGED <<Table, known, calls>>
           ELSE Reply(t, IF p.op = "readdir"
                         THEN Page(out, p.arg[1]) ELSE out)
    /\ UNCHANGED holder

Ask(t) == \E ino \in known :
    \/ \E n \in Asked : Call(t, "lookup", ino, <<n>>)
    \/ \E i \in {0, PageSize} : Call(t, "readdir", ino, <<i>>)
    \/ Call(t, "getattr", ino, <<>>)
    \/ \E s \in Spans : Call(t, "read", ino, s)
    \/ refuse(t)

Step(t) == \/ lookup(t) \/ lookup_hit(t) \/ entry(t) \/ allocate_fast(t)
           \/ lock_next_ino(t) \/ lock_entries(t) \/ allocate_inode(t) \/ fetch(t)

MountNext == \E t \in Threads : Ask(t) \/ Step(t)
MountSpec == MountInit /\ [][MountNext]_mvars

-----------------------------------------------------------------------------
(* What the theorems take from the borrowed indices, for a set of kinds.   *)

Children(kinds) == {k \in kinds : k.is # "Root"}

\* The kinds are closed: a listing is a sequence of names and children, and a
\* lookup finds a child or nothing.
ListingsTyped(kinds) ==
    /\ {Plain(is) : is \in {"Root", "TagsRoot", "CtxRoot"}} \subseteq kinds
    /\ {CtxDir(c, <<>>) : c \in DOMAIN Projections} \subseteq kinds
    /\ \A kind \in kinds :
          /\ readdir(kind) \in Seq(STRING \X Children(kinds))
          /\ \A n \in Asked : derive_child_kind(kind, n) \in Children(kinds) \cup {NoKind}

\* A name is listed as the kind a lookup derives for it.  It fails when two
\* objects project to one path, or a tag is named like an object id.
ListingsResolve(kinds) ==
    \A kind \in kinds : \A c \in Range(readdir(kind)) :
        c[2] = derive_child_kind(kind, c[1])

-----------------------------------------------------------------------------
\* The inodes in use are the numbers given out, and every inode but the root
\* is the child of one name of one directory.
NamesTree ==
    /\ DOMAIN entries = 1..(next_ino - 1)
    /\ \A i \in DOMAIN entries \ {INODE_ROOT} :
          \E k \in DOMAIN lookup_index : lookup_index[k] = i /\ k[1] = entries[i].parent
    /\ \A k, j \in DOMAIN lookup_index : lookup_index[k] = lookup_index[j] => k = j

\* An inode is the kind lookup derives for its name.
KindsResolve ==
    \A k \in DOMAIN lookup_index :
        entries[lookup_index[k]].kind = derive_child_kind(entries[k[1]].kind, k[2])

\* Every answer of a lookup or a listing is what the name still resolves to.
AnswersStand ==
    \A t \in Threads : At(t, "idle") /\ proc[t].op \in {"lookup", "readdir"} =>
        \A o \in Range(proc[t].out) : lookup_index[<<proc[t].ino, o[1]>>] = o[2]

\* Whatever the threads interleave, the table is a tree of names: every inode
\* but the root is the child of one name of one directory, it is the kind
\* lookup derives for that name, and every answer a lookup or a listing gave
\* is what that name still resolves to (allocate_inode's two looks at the
\* cache, and the agreement of readdir with derive_child_kind).
InodesCoherent == NamesTree /\ KindsResolve /\ AnswersStand

\* The mutex a thread waits for.
Wants(t) ==
    CASE proc[t].pc \in {"cached", "fast", "index"} -> "lookup_index"
      [] proc[t].pc = "counter" -> "next_ino"
      [] proc[t].pc \in {"hit", "entry", "table", "fetch"} -> "entries"
      [] OTHER -> None

\* Concurrent callers are served: no two threads hold what the other waits for
\* (the concurrent allocator of allocate_inode against a lookup that hits).
NoLockCycle ==
    \A t, u \in Threads :
        /\ t # u
        /\ Wants(t) # None
        /\ Wants(u) # None
        => ~(holder[Wants(t)] = u /\ holder[Wants(u)] = t)
=============================================================================
