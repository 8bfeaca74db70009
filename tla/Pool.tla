-------------------------------- MODULE Pool --------------------------------
(***************************************************************************)
(* The disk pool: the backing files, their superblock copies, the pool     *)
(* state root on the primary disk and pool.toml.  Each `brunnr` command is *)
(* one process.  It works out its writes from what it opened and issues    *)
(* them in order; the process may die between any two of them, or inside   *)
(* one, which then leaves that block or file unreadable.                   *)
(***************************************************************************)
EXTENDS Integers, FiniteSets, SequencesExt

CONSTANTS
    Paths,        \* backing files
    LongPaths,    \* those whose name exceeds DISK_PATH_INLINE_LEN
    Tiers,
    Given,        \* <<path, capacity>> a user may ask for, in units of 3 blocks
    DefaultCap,   \* DEFAULT_NEW_DISK_BYTES
    InlineDisks,  \* POOL_STATE_ROOT_INLINE_DISKS
    MaxRuns,      \* bound: commands run
    MaxTorn       \* bound: writes a crash tears

VARIABLES
    files,    \* path -> [len, copies, psr, zone]
    toml,     \* pool.toml: its sequence of entries, or Unreadable
    pending,  \* writes the running command has still to issue
    runs,     \* number of commands run
    torn,     \* number of writes torn so far
    known     \* the pool and drained disks that completed commands left, and
              \* the objects stored since the last create (history)

vars == <<files, toml, pending, runs, torn, known>>

\* A missing or cut pool.toml, a state root that was never written or is torn.
Unreadable == <<>>

\* A superblock copy that fails its checksum.
Bad == [bad |-> TRUE]

-----------------------------------------------------------------------------
\* The pool's lifecycle states and their byte on disk.

disk_state_to_u8(s) ==
    CASE s = "Online" -> 0 [] s = "Draining" -> 1
      [] s = "Removed" -> 2 [] s = "Faulted" -> 3

disk_state_from_u8(v) == <<"Online", "Draining", "Removed", "Faulted">>[v + 1]

\* One row of pool.toml.
Entry(id, path, tier, cap) == [id |-> id, path |-> path, tier |-> tier, cap |-> cap]

\* The primary disk is the one with the lowest id.
primary(config) ==
    CHOOSE e \in ToSet(config) : \A f \in ToSet(config) : e.id <= f.id

find_disk(config, id) == {e \in ToSet(config) : e.id = id}

-----------------------------------------------------------------------------
\* Backing files and superblocks.

\* Opening a device for formatting extends a shorter file.
open_device(file, cap) == [file EXCEPT !.len = IF @ < cap THEN cap ELSE @]

\* The first two blocks and the last one of a device of this capacity.
copy_offsets(cap) == <<0, 1, cap * 3 - 1>>

new_blank(id) == [disk |-> id, seq |-> 0]

\* The copy with the highest sequence number among the readable ones.
superblock_open(file) ==
    LET readable == {file.copies[o] : o \in ToSet(copy_offsets(file.len))
                                              \cap DOMAIN file.copies} \ {Bad}
    IN  IF readable = {} THEN Bad
        ELSE CHOOSE s \in readable : \A t \in readable : t.seq <= s.seq

\* Writes of one superblock to its three places.
sb_writes(path, cap, sb) ==
    [i \in 1..3 |-> [op |-> "copy", path |-> path, at |-> copy_offsets(cap)[i], sb |-> sb]]

\* Formatting a disk: extend the file, then write the blank superblock.
format(entry) ==
    <<[op |-> "extend", path |-> entry.path, cap |-> entry.cap]>>
        \o sb_writes(entry.path, entry.cap, new_blank(entry.id))

\* commit_root puts the next root into all three copies.
commit_root(path, cap, sb) == sb_writes(path, cap, [sb EXCEPT !.seq = @ + 1])

-----------------------------------------------------------------------------
\* The pool state root and the running pool.

\* The descriptors written to the primary disk.
pool_state_root(disks) ==
    [id \in DOMAIN disks |-> disk_state_to_u8(disks[id].state)]

PathTooLong(config) == \E e \in ToSet(config) : e.path \in LongPaths

\* Nothing is written when a path does not fit its descriptor.
write_pool_state_root(config, disks) ==
    IF PathTooLong(config) THEN <<>>
    ELSE <<[op |-> "psr", path |-> primary(config).path, psr |-> pool_state_root(disks)]>>

\* Writing pool.toml truncates the file first.
save_toml(config) == <<[op |-> "truncate"], [op |-> "toml", config |-> config]>>

Runtime(entry, state) == [entry |-> entry, state |-> state, used |-> 0]

\* Mutant of apply_pool_state_root: the states on disk are ignored.
apply_pool_state_root_none(disks, psr) == disks

\* Descriptors of disks that pool.toml does not list are skipped.
apply_pool_state_root(disks, psr) ==
    [id \in DOMAIN disks |->
        IF id \in DOMAIN psr
        THEN [disks[id] EXCEPT !.state = disk_state_from_u8(psr[id])]
        ELSE disks[id]]

\* Every listed disk must carry a superblock with the listed id, and the
\* primary a readable state root.
Opens(config) ==
    /\ config # Unreadable
    /\ \A e \in ToSet(config) :
          LET sb == superblock_open(files[e.path]) IN sb # Bad /\ sb.disk = e.id
    /\ files[primary(config).path].psr # Unreadable

open_pool(config) ==
    apply_pool_state_root(
        [id \in {e.id : e \in ToSet(config)} |->
            Runtime(CHOOSE e \in find_disk(config, id) : TRUE, "Online")],
        files[primary(config).path].psr)

\* The online disk of the tier with the most free space, the lowest id first.
pick_disk(disks, tier) ==
    LET free(id) == disks[id].entry.cap - disks[id].used
        online == {id \in DOMAIN disks : disks[id].state = "Online"
                                           /\ disks[id].entry.tier = tier}
        best == {id \in online : \A j \in online : free(j) <= free(id)}
    IN  {id \in best : \A j \in best : id <= j}

\* What `brunnr status` reports: the state of each disk and each tier's disks.
status(disks) ==
    [disks |-> [id \in DOMAIN disks |-> disks[id].state],
     by_tier |-> [t \in {disks[id].entry.tier : id \in DOMAIN disks} |->
                    Cardinality({id \in DOMAIN disks : disks[id].entry.tier = t})],
     faulted |-> {id \in DOMAIN disks : disks[id].state = "Faulted"}]

-----------------------------------------------------------------------------
\* The commands.  Each puts its writes into `pending`; the last one tells
\* what a completed command amounts to.

Completes(now) == <<[op |-> "done", known |-> now]>>

\* A disk's capacity: as given, else the size of the file, else the default.
resolved_capacity(path, given) ==
    IF given # 0 THEN given
    ELSE IF files[path].len > 0 THEN files[path].len ELSE DefaultCap

\* No file is given a capacity below its size (bound: see the README).
GivenCaps(path) ==
    {0} \cup {g[2] : g \in {g \in Given : g[1] = path /\ g[2] >= files[path].len}}

Entries(paths, tiers, caps) ==
    [i \in 1..Len(paths) |->
        Entry(i - 1, paths[i], tiers[i], resolved_capacity(paths[i], caps[i]))]

\* brunnr create: format every disk, write the state root, format the log,
\* seed the first root, save pool.toml.  The index zone is left as it was.
cmd_create(config) ==
    LET p == primary(config)
        formats == FlattenSeq([i \in 1..Len(config) |-> format(config[i])])
        disks == [id \in {e.id : e \in ToSet(config)} |->
                    Runtime(CHOOSE e \in find_disk(config, id) : TRUE, "Online")]
    IN  IF Len(config) > InlineDisks THEN <<>>
        ELSE IF PathTooLong(config) THEN formats
        ELSE formats
               \o write_pool_state_root(config, disks)
               \o commit_root(p.path, p.cap, new_blank(p.id))
               \o save_toml(config)
               \o Completes([config |-> config, drained |-> {}, stored |-> {}])

\* Mutant of cmd_add_disk: pool.toml names the disk before it is formatted.
cmd_add_disk_listed_first(path, tier, given) ==
    LET disks == open_pool(toml)
        id == 1 + (CHOOSE i \in DOMAIN disks : \A j \in DOMAIN disks : j <= i)
        entry == Entry(id, path, tier, resolved_capacity(path, given))
        config == Append(toml, entry)
    IN  save_toml(config) \o format(entry)
          \o write_pool_state_root(config, disks @@ (id :> Runtime(entry, "Online")))
          \o Completes([known EXCEPT !.config = config])

\* brunnr add-disk: the next id, a formatted disk, the new state root, then
\* pool.toml.
cmd_add_disk(path, tier, given) ==
    LET disks == open_pool(toml)
        id == 1 + (CHOOSE i \in DOMAIN disks : \A j \in DOMAIN disks : j <= i)
        entry == Entry(id, path, tier, resolved_capacity(path, given))
        config == Append(toml, entry)
    IN  IF Len(config) > InlineDisks THEN <<>>
        ELSE IF PathTooLong(config) THEN format(entry)
        ELSE format(entry)
               \o write_pool_state_root(config, disks @@ (id :> Runtime(entry, "Online")))
               \o save_toml(config)
               \o Completes([known EXCEPT !.config = config])

\* brunnr remove-disk: the disk drains; it stays listed.
cmd_remove_disk(id) ==
    write_pool_state_root(toml, [open_pool(toml) EXCEPT ![id].state = "Draining"])
        \o save_toml(toml)
        \o Completes([known EXCEPT !.drained = @ \cup {id}])

\* A command that stores an object and commits: the index zone takes what
\* was loaded and the new object, then the root flips.
store(obj) ==
    LET p == primary(toml)
        sb == superblock_open(files[p.path])
    IN  <<[op |-> "zone", path |-> p.path, zone |-> files[p.path].zone \cup {obj}]>>
          \o commit_root(p.path, files[p.path].len, sb)

-----------------------------------------------------------------------------
Blank == [len |-> 0, copies |-> <<>>, psr |-> Unreadable, zone |-> {}]

Init ==
    /\ files = [p \in Paths |-> Blank]
    /\ toml = Unreadable
    /\ pending = <<>>
    /\ runs = 0
    /\ torn = 0
    /\ known = [config |-> Unreadable, drained |-> {}, stored |-> {}]

Run(writes) ==
    /\ pending' = writes
    /\ runs' = runs + 1
    /\ UNCHANGED <<files, toml, torn>>

Idle == pending = <<>> /\ runs < MaxRuns

\* From here until it completes, a create has taken the pool apart.
Create ==
    /\ Idle
    /\ \E n \in 1..InlineDisks + 1 :
         \E paths \in {s \in [1..n -> Paths] : IsInjective(s)},
            tiers \in [1..n -> Tiers] :
           \E caps \in {c \in [1..n -> {0} \cup {g[2] : g \in Given}] :
                          \A i \in 1..n : c[i] \in GivenCaps(paths[i])} :
             Run(cmd_create(Entries(paths, tiers, caps)))
    /\ known' = [config |-> Unreadable, drained |-> {}, stored |-> {}]

\* The path is one the pool does not hold (bound: see the README).
AddDisk ==
    /\ Idle /\ Opens(toml)
    /\ \E path \in Paths \ {e.path : e \in ToSet(toml)}, tier \in Tiers :
         \E given \in GivenCaps(path) : Run(cmd_add_disk(path, tier, given))
    /\ UNCHANGED known

RemoveDisk ==
    /\ Idle /\ Opens(toml)
    /\ \E e \in ToSet(toml) : Run(cmd_remove_disk(e.id))
    /\ UNCHANGED known

Store ==
    /\ Idle /\ Opens(toml)
    /\ Run(store(runs))
    /\ known' = [known EXCEPT !.stored = @ \cup {runs}]

\* The effect of one write, whole or (cut) ended inside it.
Applied(file, w, cut) ==
    CASE w.op = "extend" -> open_device(file, w.cap)
      [] w.op = "copy" ->
           [file EXCEPT !.copies = (w.at :> IF cut THEN Bad ELSE w.sb) @@ @]
      [] w.op = "psr" -> [file EXCEPT !.psr = IF cut THEN Unreadable ELSE w.psr]
      [] w.op = "zone" -> [file EXCEPT !.zone = w.zone]

Perform(w, cut) ==
    CASE w.op = "truncate" -> toml' = Unreadable /\ UNCHANGED <<files, known>>
      [] w.op = "toml" ->
           toml' = (IF cut THEN Unreadable ELSE w.config) /\ UNCHANGED <<files, known>>
      [] w.op = "done" -> known' = w.known /\ UNCHANGED <<files, toml>>
      [] OTHER -> files' = [files EXCEPT ![w.path] = Applied(@, w, cut)]
                    /\ UNCHANGED <<toml, known>>

Step ==
    /\ pending # <<>>
    /\ Perform(Head(pending), FALSE)
    /\ pending' = Tail(pending)
    /\ UNCHANGED <<runs, torn>>

\* The process dies before its next write, or inside it.
Crash ==
    /\ pending # <<>>
    /\ pending' = <<>>
    /\ UNCHANGED runs
    /\ \/ UNCHANGED <<files, toml, torn, known>>
       \/ /\ Head(pending).op \in {"copy", "psr", "toml"}
          /\ torn < MaxTorn
          /\ torn' = torn + 1
          /\ Perform(Head(pending), TRUE)

Next == Create \/ AddDisk \/ RemoveDisk \/ Store \/ Step \/ Crash

Spec == Init /\ [][Next]_vars

-----------------------------------------------------------------------------
\* A created pool, with pool.toml and its state root whole.
Settled ==
    /\ pending = <<>>
    /\ known.config # Unreadable
    /\ toml # Unreadable
    /\ files[primary(toml).path].psr # Unreadable

\* However add-disk, remove-disk or a commit was cut short, the pool opens:
\* the disks pool.toml lists are exactly the created and added ones, or one
\* more that was added in full, each under its own id (tier.rs open).
PoolReopens ==
    Settled => /\ Opens(toml)
               /\ IsPrefix(known.config, toml)

\* A disk that was removed drains in every later process: status shows it
\* and nothing new is placed on it (tier.rs remove_disk, pick_disk).
DrainStays ==
    Settled => LET disks == open_pool(toml)
               IN  \A id \in known.drained :
                      /\ status(disks).disks[id] = "Draining"
                      /\ \A t \in Tiers : id \notin pick_disk(disks, t)

\* A pool that was created holds nothing but what was stored in it since
\* (main.rs create: "Create a fresh pool").
CreatedPoolIsFresh ==
    Settled => files[primary(toml).path].zone \subseteq known.stored
=============================================================================
