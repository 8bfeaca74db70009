-------------------------- MODULE DiskIndexProofs ---------------------------
(***************************************************************************)
(* What DiskEngine::open gives back of tags, relations and attributes.     *)
(* Tags and relations come back exactly if no save was replayed over       *)
(* (Tagged). Attributes lose their values, so for them the recovered       *)
(* engine is compared with the history in one direction (Indexed):         *)
(* whatever the history finds is found.                                    *)
(***************************************************************************)
EXTENDS DiskEngineProofs

-----------------------------------------------------------------------------
(* Tags and relations.                                                     *)

\* What regions and log hold of the tags.  A registered tag is in neither
\* until the next save, and from a save to its trim the log is ahead of what
\* the regions need.
Tagged ==
    events = {} =>
        /\ pc \notin {"down", "log"} => SameTags(mem, ref)
        /\ pc = "log" => SameTags(mem, Live(ref, op))
        /\ pc # "down" => disk["onto"].known \subseteq mem.known
        /\ pc \in {"ckpt", "trim", "flip"} => SameTags(Loaded(disk), ref)
        /\ pc = "flip" => log = << >>
        /\ \/ pc = "down"
           \/ pc \in {"idle", "read_only", "log"} /\ mem.known = disk["onto"].known
           => SameTags(Recovered(disk, log), ref)

\* An open that has nothing to replay.
LEMMA RecoveredLoaded ==
    ASSUME NEW d, NEW l \in Seq(Entries), ToReplay(d, l) = {}
    PROVE  Recovered(d, l) = Loaded(d)
<1>. DEFINE S == {n \in 0 .. Len(l) : Replays(d, l)[n] = Loaded(d)}
<1>0. Len(l) \in Nat
  OBVIOUS
<1>1. 0 \in S
  BY <1>0, ReplaysStep
<1>2. \A n \in 1 .. Len(l) : n - 1 \in S => n \in S
  BY <1>0, ReplaysStep DEF Step
<1>3. Len(l) \in S
  <2>. HIDE DEF S
  <2>. QED BY <1>0, <1>1, <1>2, ReplayInduction, Zenon
<1>. QED BY <1>3, ZenonT(60) DEF Recovered

\* append_wal: open replays the entry after what it replayed before.
LEMMA AppendReplayed ==
    ASSUME DiskInv, pc = "log", ~LogIsFull, next_lsn <= MaxLsn
    PROVE  /\ op \in Ops /\ Accepts(ref, op) /\ ref \in Engines /\ DiskShape(disk)
           /\ log \in Seq(Entries) /\ LogOrdered(log) /\ ObjectsKept(disk, log, ref)
           /\ Recovered(disk, log) \in Engines
           /\ Entry(op) \in Entries /\ Entry(op).op = op
           /\ Recovered(disk, Append(log, Entry(op))) = Replay(Recovered(disk, log), op)
<1>1. /\ op \in Ops /\ Accepts(ref, op) /\ ref \in Engines /\ DiskShape(disk)
      /\ log \in Seq(Entries) /\ LogOrdered(log) /\ ObjectsKept(disk, log, ref)
  BY ShapeByRegion, Zenon DEF DiskInv, EngineShape, LogShape, ControlShape, Objects
<1>2. Recovered(disk, log) \in Engines
  <2>1. Len(log) \in 0 .. Len(log)
    BY <1>1
  <2>. QED BY <1>1, <2>1, ReplaysTyped, Zenon DEF Recovered
<1>3. Entry(op) \in Entries /\ Entry(op).op = op /\ ~Skips(disk, Entry(op))
  <2>1. /\ next_lsn \in Nat /\ disk["blob"].applied < next_lsn
        /\ disk["blob"].applied \in Nat
    BY RegionNames, LogAssumption, SMTT(60) DEF DiskInv, LogShape, EngineShape, RegionShape
  <2>2. Entry(op) \in Entries /\ Entry(op).op = op /\ Entry(op).lsn = next_lsn
    BY <1>1, <2>1, Zenon DEF Entry, Entries
  <2>3. op # CheckpointOp
    <3>1. op.kind # CheckpointOp.kind
      BY <1>1, OpShape, Zenon DEF Kinds, CheckpointOp
    <3>. QED BY <3>1, Zenon
  <2>. QED BY <2>1, <2>2, <2>3 DEF Skips
<1>4. Recovered(disk, Append(log, Entry(op))) = Replay(Recovered(disk, log), op)
  BY <1>1, <1>3, RecoveredAppend, Zenon
<1>. QED BY <1>1, <1>2, <1>3, <1>4, Zenon

\* append_wal keeps what open would rebuild in step with the history.
LEMMA AppendTagged ==
    ASSUME DiskInv, Tagged, pc = "log", ~LogIsFull, next_lsn <= MaxLsn, events = {},
           mem.known = disk["onto"].known
    PROVE  SameTags(Recovered(disk, Append(log, Entry(op))), Live(ref, op))
<1>. DEFINE e == Recovered(disk, log)
<1>1. /\ op \in Ops /\ Accepts(ref, op) /\ ref \in Engines /\ e \in Engines
      /\ Recovered(disk, Append(log, Entry(op))) = Replay(e, op)
  BY AppendReplayed, Zenon
<1>2. SameObjects(e, ref) /\ SameTags(e, ref)
  BY AppendReplayed, ObjectsKeptRecovered, Zenon DEF Tagged
<1>3. /\ op.kind = "create" => ref.next_oid \in Oids
      /\ op.kind = "remove_tag" => HasRecord(e, op.oid)
  <2>1. op.oid \in Oids
    BY <1>1, OpShape, Zenon
  <2>. QED BY <1>1, <1>2, <2>1, Zenon DEF Accepts, HasRecord, SameObjects
<1>. HIDE DEF e
<1>4. SameTags(Replay(e, op), Live(ref, op))
  BY <1>1, <1>2, <1>3, ReplaySameTags, Zenon
<1>. QED BY <1>1, <1>4, Zenon

\* A new pool.
LEMMA TaggedInit == Init => Tagged
<1>. SUFFICES ASSUME Init PROVE Tagged
  BY Zenon
<1>0. mem = NewEngine(InitKnown, InitImpl) /\ ref = NewEngine(InitKnown, InitImpl)
  BY Zenon DEF Init
<1>1. /\ disk["onto"] = [known |-> InitKnown, impl |-> InitImpl]
      /\ disk["fwd"] = EmptyRegion("fwd") /\ disk["tag"] = EmptyRegion("tag")
  BY RegionNames, Zenon DEF Init
<1>2. DiskShape(disk)
  BY DiskInvInit, ShapeByRegion, Zenon DEF DiskInv, EngineShape
<1>3. SameTags(Loaded(disk), ref)
  <2>1. /\ disk["onto"].known = ref.known /\ disk["onto"].impl = ref.impl
        /\ disk["fwd"].tags = ref.tags /\ disk["fwd"].rels = ref.rels
        /\ disk["tag"].idx = ref.tagidx
    <3>1. /\ EmptyRegion("fwd") = [tags |-> NewEngine({}, {}).tags, attrs |-> NewEngine({}, {}).attrs,
                                   rels |-> NewEngine({}, {}).rels]
          /\ EmptyRegion("tag") = [stores |-> {}, idx |-> NewEngine({}, {}).tagidx]
      BY Zenon DEF EmptyRegion
    <3>2. /\ disk["fwd"].tags = NewEngine({}, {}).tags /\ disk["fwd"].rels = NewEngine({}, {}).rels
          /\ disk["tag"].idx = NewEngine({}, {}).tagidx
      BY <1>1, <3>1
    <3>. QED BY <1>0, <1>1, <3>2 DEF NewEngine
  <2>. QED BY <1>2, <2>1, LoadedFields, Zenon DEF SameTags
<1>4. Recovered(disk, log) = Loaded(disk)
  BY RecoveredEmpty, Zenon DEF Init
<1>5. disk["onto"].known \subseteq mem.known
  BY <1>0, <1>1 DEF NewEngine
<1>. QED BY <1>0, <1>3, <1>4, <1>5, Zenon DEF Tagged, Init, SameTags

\* The calls that change the engine.
LEMMA CallsTagged ==
    ASSUME DiskInv, Tagged, (\E o \in Ops : Mutate(o)) \/ LogMutation \/ LogRefused \/ RegisterTag
    PROVE  Tagged'
<1>. SUFFICES ASSUME events' = {} PROVE Tagged'
  BY Zenon DEF Tagged
<1>0. mem \in Engines /\ ref \in Engines
  BY Zenon DEF DiskInv, EngineShape
<1>1. ASSUME NEW o \in Ops, Mutate(o) PROVE Tagged'
  <2>1. /\ pc = "idle" /\ pc' = "log" /\ op' = o /\ mem' = Live(mem, o) /\ events = {}
        /\ UNCHANGED <<disk, log, ref>> /\ Accepts(mem, o)
    BY <1>1, Zenon DEF Mutate
  <2>2. SameTags(mem, ref) /\ SameObjects(mem, ref) /\ disk["onto"].known \subseteq mem.known
    BY <2>1, Zenon DEF Tagged, DiskInv, Objects
  <2>3. o.kind = "create" => mem.next_oid \in Oids /\ ref.next_oid \in Oids
    BY <2>1, <2>2, OpShape, Zenon DEF Accepts, SameObjects
  <2>4. SameTags(Live(mem, o), Live(ref, o))
    BY <1>0, <2>2, <2>3, LiveSameTags, Zenon
  <2>5. mem'.known = mem.known
    BY <1>0, <2>1, LiveFields, Zenon DEF Accepts
  <2>6. mem'.known = disk'["onto"].known => SameTags(Recovered(disk', log'), ref')
    BY <2>1, <2>5, Zenon DEF Tagged
  <2>. QED BY <2>1, <2>2, <2>4, <2>5, <2>6, Zenon DEF Tagged
<1>2. CASE LogMutation
  <2>1. /\ pc = "log" /\ pc' = "idle" /\ events = {} /\ UNCHANGED <<disk, mem>>
        /\ ref' = Live(ref, op) /\ log' = Append(log, Entry(op))
        /\ ~LogIsFull /\ next_lsn <= MaxLsn
    BY <1>2, Zenon DEF LogMutation
  <2>2. mem.known = disk["onto"].known => SameTags(Recovered(disk', log'), ref')
    BY <2>1, AppendTagged, Zenon
  <2>. QED BY <2>1, <2>2, Zenon DEF Tagged
<1>3. CASE LogRefused
  BY <1>3, Zenon DEF LogRefused
<1>4. CASE RegisterTag
  <2>1. PICK id \in Tags : /\ mem' = [mem EXCEPT !.known = @ \cup {id}]
                           /\ ref' = [ref EXCEPT !.known = @ \cup {id}]
    BY <1>4, Zenon DEF RegisterTag
  <2>2. pc = "idle" /\ pc' = pc /\ events = {} /\ UNCHANGED <<disk, log>>
    BY <1>4, Zenon DEF RegisterTag
  <2>3. SameTags(mem, ref) /\ disk["onto"].known \subseteq mem.known
    BY <2>2, Zenon DEF Tagged
  <2>4. /\ mem'.known = mem.known \cup {id} /\ ref'.known = ref.known \cup {id}
        /\ mem'.tags = mem.tags /\ mem'.tagidx = mem.tagidx /\ mem'.rels = mem.rels
        /\ ref'.tags = ref.tags /\ ref'.tagidx = ref.tagidx /\ ref'.rels = ref.rels
        /\ mem'.impl = mem.impl /\ ref'.impl = ref.impl
    BY <1>0, <2>1, Zenon DEF Engines
  <2>5. SameTags(mem', ref') /\ disk'["onto"].known \subseteq mem'.known
    BY <2>2, <2>3, <2>4, Zenon DEF SameTags
  <2>6. ASSUME mem'.known = disk'["onto"].known PROVE SameTags(Recovered(disk', log'), ref')
    <3>1. mem.known = disk["onto"].known /\ ref'.known = ref.known
      BY <2>2, <2>3, <2>4, <2>6, Zenon DEF SameTags
    <3>. QED BY <2>2, <2>4, <3>1, Zenon DEF Tagged, SameTags
  <2>. QED BY <2>2, <2>5, <2>6, Zenon DEF Tagged
<1>. QED BY <1>1, <1>2, <1>3, <1>4, Zenon

\* commit().
LEMMA CommitTagged ==
    ASSUME DiskInv, Tagged,
           SaveIndexState \/ AppendCheckpoint \/ CheckpointRefused \/ TrimLog \/ CommitRoot
    PROVE  Tagged'
<1>. SUFFICES ASSUME events' = {} PROVE Tagged'
  BY Zenon DEF Tagged
<1>0. log \in Seq(Entries) /\ DiskShape(disk) /\ mem \in Engines
  BY ShapeByRegion, Zenon DEF DiskInv, LogShape, EngineShape
<1>1. CASE SaveIndexState
  <2>1. /\ pc = "idle" /\ pc' = "ckpt" /\ events = {} /\ UNCHANGED <<mem, ref>>
    BY <1>1, Zenon DEF SaveIndexState
  <2>2. /\ disk'["onto"] = [known |-> mem.known, impl |-> mem.impl]
        /\ disk'["fwd"] = [tags |-> mem.tags, attrs |-> Placeholders(mem.attrs),
                           rels |-> mem.rels]
        /\ disk'["tag"] = [stores |-> mem.stores, idx |-> mem.tagidx]
    BY <1>1, RegionNames, Zenon DEF SaveIndexState, Written
  <2>3. DiskShape(disk')
    BY <1>1, SaveIndexStateInv, ShapeByRegion, Zenon DEF DiskInv, EngineShape
  <2>4. SameTags(Loaded(disk'), mem)
    BY <2>2, <2>3, LoadedFields DEF SameTags
  <2>5. SameTags(mem, ref)
    BY <2>1, Zenon DEF Tagged
  <2>6. SameTags(Loaded(disk'), ref') /\ disk'["onto"].known \subseteq mem'.known
    BY <2>1, <2>2, <2>4, <2>5 DEF SameTags
  <2>. QED BY <2>1, <2>5, <2>6, Zenon DEF Tagged
<1>2. CASE AppendCheckpoint
  BY <1>2, Zenon DEF AppendCheckpoint, Tagged
<1>3. CASE CheckpointRefused
  <2>1. /\ pc = "ckpt" /\ pc' = "idle" /\ events = {} /\ UNCHANGED <<mem, ref, disk, log>>
        /\ ToReplay(disk, log) = {}
    BY <1>3, Zenon DEF CheckpointRefused, Again
  <2>2. Recovered(disk, log) = Loaded(disk)
    BY <1>0, <2>1, RecoveredLoaded, Zenon
  <2>. QED BY <2>1, <2>2, Zenon DEF Tagged
<1>4. CASE TrimLog
  BY <1>4, Zenon DEF TrimLog, Tagged
<1>5. CASE CommitRoot
  <2>1. /\ pc = "flip" /\ pc' = "idle" /\ events = {} /\ UNCHANGED <<mem, ref, disk, log>>
    BY <1>5, Zenon DEF CommitRoot
  <2>2. Recovered(disk, log) = Loaded(disk)
    BY <2>1, RecoveredEmpty, Zenon DEF Tagged
  <2>. QED BY <2>1, <2>2, Zenon DEF Tagged
<1>. QED BY <1>1, <1>2, <1>3, <1>4, <1>5, Zenon

\* Crashes, and open.
LEMMA CrashTagged ==
    ASSUME DiskInv, Tagged, \/ Crash \/ CrashInAppend \/ Open \/ OpenReadOnly
                            \/ \E n \in 1 .. Len(RegionOrder) : CrashInSave(n)
                            \/ \E n \in 1 .. 3 : CrashInFlip(n)
    PROVE  Tagged'
<1>. SUFFICES ASSUME events' = {} PROVE Tagged'
  BY Zenon DEF Tagged
<1>0. log \in Seq(Entries) /\ DiskShape(disk)
  BY ShapeByRegion, Zenon DEF DiskInv, LogShape, EngineShape
<1>1. ASSUME events = {}, pc' = "down", SameTags(Recovered(disk', log'), ref') PROVE Tagged'
  BY <1>1, Zenon DEF Tagged
<1>2. CASE Crash
  <2>1. /\ events = {} /\ pc' = "down" /\ pc # "down" /\ UNCHANGED <<disk, log, ref>>
        /\ mem.known = disk["onto"].known
        /\ pc \in {"ckpt", "trim"} => ToReplay(disk, log) = {}
    BY <1>2, Zenon DEF Crash, Dies, Forgotten, Again
  <2>2. CASE pc \in {"idle", "read_only", "log"}
    BY <1>1, <2>1, <2>2, Zenon DEF Tagged
  <2>3. CASE pc \in {"ckpt", "trim", "flip"}
    <3>1. Recovered(disk, log) = Loaded(disk)
      BY <1>0, <2>1, <2>3, RecoveredLoaded, RecoveredEmpty, Zenon DEF Tagged
    <3>. QED BY <1>1, <2>1, <2>3, <3>1, Zenon DEF Tagged
  <2>. QED BY <2>1, <2>2, <2>3, Zenon DEF DiskInv, ControlShape
<1>3. CASE CrashInAppend
  <2>1. /\ events = {} /\ pc = "log" /\ pc' = "down" /\ UNCHANGED disk
        /\ mem.known = disk["onto"].known /\ ~LogIsFull /\ next_lsn <= MaxLsn
        /\ log' = Append(log, Entry(op)) /\ ref' = Live(ref, op)
    BY <1>3, Zenon DEF CrashInAppend, Dies, Forgotten
  <2>. QED BY <1>1, <2>1, AppendTagged, Zenon
<1>4. ASSUME NEW n \in 1 .. Len(RegionOrder), CrashInSave(n) PROVE Tagged'
  BY <1>4, Zenon DEF CrashInSave
<1>5. ASSUME NEW n \in 1 .. 3, CrashInFlip(n) PROVE Tagged'
  <2>1. events = {} /\ pc = "flip" /\ pc' = "down" /\ UNCHANGED <<disk, log, ref>>
    BY <1>5, Zenon DEF CrashInFlip, Dies
  <2>2. Recovered(disk, log) = Loaded(disk)
    BY <2>1, RecoveredEmpty, Zenon DEF Tagged
  <2>. QED BY <1>1, <2>1, <2>2, Zenon DEF Tagged
<1>6. CASE Open \/ OpenReadOnly
  <2>1. /\ events = {} /\ pc = "down" /\ pc' \in {"idle", "read_only"}
        /\ UNCHANGED <<disk, log, ref>> /\ mem' = Recovered(disk, log)
    BY <1>6, Zenon DEF Open, OpenReadOnly
  <2>2. mem'.known = disk["onto"].known
    <3>1. Len(log) \in 0 .. Len(log)
      BY <1>0
    <3>. QED BY <1>0, <2>1, <3>1, ReplaysTyped, Zenon DEF Recovered
  <2>3. SameTags(mem', ref)
    BY <2>1, Zenon DEF Tagged
  <2>. QED BY <2>1, <2>2, <2>3, Zenon DEF Tagged
<1>. QED BY <1>2, <1>3, <1>4, <1>5, <1>6, Zenon

\* Tags and relations are what the logged mutations made them, whenever no
\* save was cut short or replayed over and no registered tag was lost.
THEOREM TagsAndRelationsRecovered == Spec => []TagsRecovered
<1>1. Tagged => TagsRecovered
  BY Zenon DEF Tagged, TagsRecovered, Ready, SameTags
<1>2. ASSUME DiskInv, Tagged, [Next]_vars PROVE Tagged'
  <2>1. CASE UNCHANGED vars
    BY <1>2, <2>1, Zenon DEF Tagged, vars
  <2>2. CASE Next
    BY <1>2, <2>2, CallsTagged, CommitTagged, CrashTagged, Zenon DEF Next
  <2>. QED BY <1>2, <2>1, <2>2, Zenon
<1>. QED BY <1>1, <1>2, TaggedInit, DiskInvAlways, PTL DEF Spec

-----------------------------------------------------------------------------
(* Attributes.                                                             *)

\* What regions, log and memory hold of the attributes.  The regions may be
\* ahead of the part of the log that is replayed over them.
Indexed ==
    events \cap {"refused", "cut"} = {} =>
        /\ AttrsSound(ref) /\ SetLater(log, ref)
        /\ pc # "down" => disk["blob"].applied <= applied
        /\ Covers(Recovered(disk, log), ref)
        /\ pc \notin {"down", "log"} => Covers(mem, ref)
        /\ pc = "log" => Covers(mem, Live(ref, op))
        /\ pc \in {"ckpt", "trim", "flip"} => Covers(Loaded(disk), ref)

\* A new pool.
LEMMA IndexedInit == Init => Indexed
<1>. SUFFICES ASSUME Init PROVE Indexed
  BY Zenon
<1>1. /\ mem = ref /\ pc = "idle" /\ log = << >> /\ applied = 1
      /\ ref.attrs = [o \in Oids |-> [a \in Attrs |-> 0]]
      /\ ref.kv = [a \in Attrs |-> {}] /\ ref.range = [n \in NormKeys |-> {}]
  BY Zenon DEF Init, NewEngine
<1>2. DiskShape(disk)
  BY DiskInvInit, ShapeByRegion, Zenon DEF DiskInv, EngineShape
<1>3. disk["fwd"] = EmptyRegion("fwd") /\ disk["blob"] = EmptyRegion("blob")
  BY RegionNames, Zenon DEF Init
<1>4. disk["blob"].applied <= applied
  BY <1>1, <1>3 DEF EmptyRegion
<1>5. Loaded(disk).attrs = [o \in Oids |-> [a \in Attrs |-> 0]]
  <2>1. EmptyRegion("fwd") = [tags |-> NewEngine({}, {}).tags, attrs |-> NewEngine({}, {}).attrs,
                              rels |-> NewEngine({}, {}).rels]
    BY Zenon DEF EmptyRegion
  <2>2. disk["fwd"].attrs = NewEngine({}, {}).attrs
    BY <1>3, <2>1
  <2>3. Loaded(disk).attrs = disk["fwd"].attrs
    BY <1>2, LoadedFields, Zenon
  <2>. QED BY <2>2, <2>3, Zenon DEF NewEngine
<1>6. AttrsSound(ref) /\ Covers(ref, ref) /\ Covers(Loaded(disk), ref)
  BY <1>1, <1>5, NormTyped DEF AttrsSound, Covers
<1>7. SetLater(log, ref)
  BY <1>1, Zenon DEF SetLater
<1>8. Recovered(disk, log) = Loaded(disk)
  BY <1>1, RecoveredEmpty, Zenon
<1>. QED BY <1>1, <1>4, <1>6, <1>7, <1>8, Zenon DEF Indexed

\* append_wal, whether or not the process lives to see it succeed.
LEMMA AppendIndexed ==
    ASSUME DiskInv, Indexed, pc = "log", ~LogIsFull, next_lsn <= MaxLsn,
           events \cap {"refused", "cut"} = {}
    PROVE  LET l == Append(log, Entry(op))
               g == Live(ref, op)
           IN  AttrsSound(g) /\ SetLater(l, g) /\ Covers(Recovered(disk, l), g)
<1>. DEFINE e == Recovered(disk, log)
            g == Live(ref, op)
<1>1. /\ op \in Ops /\ Accepts(ref, op) /\ ref \in Engines /\ e \in Engines
      /\ log \in Seq(Entries) /\ Entry(op) \in Entries /\ Entry(op).op = op
      /\ Recovered(disk, Append(log, Entry(op))) = Replay(e, op)
  BY AppendReplayed, Zenon
<1>2. AttrsSound(ref) /\ SetLater(log, ref) /\ Covers(e, ref)
  BY Zenon DEF Indexed
<1>3. op.kind = "create" => ref.next_oid \in Oids
  BY <1>1, OpShape, Zenon DEF Accepts
<1>4. AttrStep(ref, op, g, TRUE) /\ AttrStep(e, op, Replay(e, op), FALSE)
  BY <1>1, <1>3, LiveAttrs, ReplayAttrs, Zenon
<1>. HIDE DEF e, g
<1>5. AttrsSound(g)
  BY <1>1, <1>2, <1>4, SoundStep, Zenon
<1>6. Covers(Replay(e, op), g)
  BY <1>1, <1>2, <1>4, CoversStep, Zenon
<1>7. SetLater(Append(log, Entry(op)), g)
  BY <1>1, <1>2, <1>4, SetLaterAppend, Zenon
<1>. QED BY <1>1, <1>5, <1>6, <1>7, Zenon DEF g

\* The calls that change the engine.
LEMMA CallsIndexed ==
    ASSUME DiskInv, Indexed, (\E o \in Ops : Mutate(o)) \/ LogMutation \/ LogRefused \/ RegisterTag
    PROVE  Indexed'
<1>. SUFFICES ASSUME events' \cap {"refused", "cut"} = {} PROVE Indexed'
  BY Zenon DEF Indexed
<1>0. mem \in Engines /\ ref \in Engines
  BY Zenon DEF DiskInv, EngineShape
<1>1. ASSUME NEW o \in Ops, Mutate(o) PROVE Indexed'
  <2>1. /\ pc = "idle" /\ pc' = "log" /\ op' = o /\ mem' = Live(mem, o)
        /\ UNCHANGED <<disk, log, ref, events, applied>> /\ Accepts(mem, o)
    BY <1>1, Zenon DEF Mutate
  <2>2. Covers(mem, ref) /\ AttrsSound(ref) /\ SameObjects(mem, ref)
    BY <2>1, Zenon DEF Indexed, DiskInv, Objects
  <2>3. o.kind = "create" => mem.next_oid \in Oids /\ ref.next_oid \in Oids
    BY <2>1, <2>2, OpShape, Zenon DEF Accepts, SameObjects
  <2>4. AttrStep(mem, o, Live(mem, o), TRUE) /\ AttrStep(ref, o, Live(ref, o), TRUE)
    BY <1>0, <2>3, LiveAttrs, Zenon
  <2>5. Covers(Live(mem, o), Live(ref, o))
    BY <1>0, <2>2, <2>4, CoversStep, Zenon
  <2>. QED BY <2>1, <2>5, Zenon DEF Indexed
<1>2. CASE LogMutation
  <2>1. /\ pc = "log" /\ pc' = "idle" /\ UNCHANGED <<disk, mem, events, applied>>
        /\ ref' = Live(ref, op) /\ log' = Append(log, Entry(op))
        /\ ~LogIsFull /\ next_lsn <= MaxLsn
    BY <1>2, Zenon DEF LogMutation
  <2>2. AttrsSound(ref') /\ SetLater(log', ref') /\ Covers(Recovered(disk, log'), ref')
    BY <2>1, AppendIndexed, Zenon
  <2>. QED BY <2>1, <2>2, Zenon DEF Indexed
<1>3. CASE LogRefused
  BY <1>3, Zenon DEF LogRefused
<1>4. CASE RegisterTag
  <2>1. pc = "idle" /\ pc' = pc /\ UNCHANGED <<disk, log, events, applied>>
    BY <1>4, Zenon DEF RegisterTag
  <2>2. SameAttrs(mem, mem') /\ SameAttrs(ref, ref')
    <3>1. PICK id \in Tags : /\ mem' = [mem EXCEPT !.known = @ \cup {id}]
                             /\ ref' = [ref EXCEPT !.known = @ \cup {id}]
      BY <1>4, Zenon DEF RegisterTag
    <3>. QED BY <1>0, <3>1, Zenon DEF Engines, SameAttrs
  <2>3. /\ AttrsSound(ref) /\ SetLater(log, ref) /\ Covers(mem, ref)
        /\ Covers(Recovered(disk, log), ref) /\ disk["blob"].applied <= applied
    BY <2>1, Zenon DEF Indexed
  <2>4. AttrsSound(ref') /\ SetLater(log, ref')
    BY <2>2, <2>3, ZenonT(60) DEF SameAttrs, AttrsSound, SetLater
  <2>5. Covers(mem', ref') /\ Covers(Recovered(disk, log), ref')
    BY <2>2, <2>3, Zenon DEF SameAttrs, Covers
  <2>. QED BY <2>1, <2>3, <2>4, <2>5, Zenon DEF Indexed
<1>. QED BY <1>1, <1>2, <1>3, <1>4, Zenon

\* save_index_state.
LEMMA SaveIndexed ==
    ASSUME DiskInv, Indexed, SaveIndexState PROVE Indexed'
<1>. SUFFICES ASSUME events' \cap {"refused", "cut"} = {} PROVE Indexed'
  BY Zenon DEF Indexed
<1>1. /\ pc = "idle" /\ pc' = "ckpt" /\ UNCHANGED <<mem, ref, events, log, applied>>
      /\ ref \in Engines /\ mem \in Engines /\ log \in Seq(Entries) /\ LogOrdered(log)
      /\ applied \in Nat /\ DiskShape(disk)
  BY ShapeByRegion, Zenon DEF SaveIndexState, DiskInv, EngineShape, LogShape
<1>2. /\ disk'["kv"] = mem.kv /\ disk'["range"] = mem.range
      /\ disk'["fwd"] = [tags |-> mem.tags, attrs |-> Placeholders(mem.attrs),
                         rels |-> mem.rels]
      /\ disk'["blob"] = [next_oid |-> mem.next_oid, applied |-> applied]
  BY RegionNames, Zenon DEF SaveIndexState, Written
<1>3. DiskShape(disk')
  BY SaveIndexStateInv, ShapeByRegion, Zenon DEF DiskInv, EngineShape
<1>4. /\ AttrsSound(ref) /\ SetLater(log, ref) /\ Covers(mem, ref)
      /\ Covers(Recovered(disk, log), ref) /\ disk["blob"].applied <= applied
  BY <1>1, Zenon DEF Indexed
<1>5. Placeheld(disk')
  <2>1. disk'["fwd"].attrs = Placeholders(mem.attrs)
    BY <1>2
  <2>. QED BY <2>1 DEF Placeheld, Placeholders
<1>6. Covers(Loaded(disk'), ref)
  <2>1. /\ Loaded(disk').kv = mem.kv /\ Loaded(disk').range = mem.range
        /\ Loaded(disk').attrs = disk'["fwd"].attrs
    BY <1>2, <1>3, LoadedFields, Zenon
  <2>2. \A o \in Oids, a \in Attrs : ref.attrs[o][a] \in Nat
    BY <1>1, FieldTypes
  <2>. QED BY <1>4, <1>5, <2>1, <2>2, SMTT(60) DEF Covers, Placeheld
<1>7. disk'["blob"].applied = applied
  BY <1>2
<1>8. Covers(Recovered(disk', log), ref)
  <2>1. disk["blob"].applied <= disk'["blob"].applied
    BY <1>4, <1>7, Zenon
  <2>. QED BY <1>1, <1>3, <1>4, <1>5, <1>6, <2>1, SavedCovers, Zenon
<1>. QED BY <1>1, <1>4, <1>6, <1>7, <1>8 DEF Indexed

\* The rest of commit().
LEMMA CommitIndexed ==
    ASSUME DiskInv, Indexed, AppendCheckpoint \/ CheckpointRefused \/ TrimLog \/ CommitRoot
    PROVE  Indexed'
<1>. SUFFICES ASSUME events' \cap {"refused", "cut"} = {} PROVE Indexed'
  BY Zenon DEF Indexed
<1>1. CASE AppendCheckpoint
  <2>1. /\ pc = "ckpt" /\ pc' = "trim" /\ UNCHANGED <<mem, ref, disk, events, applied>>
        /\ log' = Append(log, Entry(CheckpointOp)) /\ log \in Seq(Entries)
    BY <1>1, Zenon DEF AppendCheckpoint, DiskInv, LogShape
  <2>2. Entry(CheckpointOp) \in Entries /\ Entry(CheckpointOp).op = CheckpointOp
    BY LogAssumption, SMTT(60) DEF DiskInv, LogShape, Entry, Entries
  <2>3. Recovered(disk, log') = Recovered(disk, log)
    BY <2>1, <2>2, RecoveredAppend, Zenon DEF Skips
  <2>4. SetLater(log', ref)
    <3>1. SetLater(log, ref)
      BY <2>1, Zenon DEF Indexed
    <3>. QED BY <2>1, <2>2, <3>1, SetLaterAppend, Zenon
  <2>. QED BY <2>1, <2>3, <2>4, Zenon DEF Indexed
<1>2. CASE CheckpointRefused
  <2>1. /\ pc = "ckpt" /\ pc' = "idle" /\ UNCHANGED <<mem, ref, disk, log, applied>>
        /\ events \cap {"refused", "cut"} = {}
    BY <1>2, Zenon DEF CheckpointRefused
  <2>. QED BY <2>1, Zenon DEF Indexed
<1>3. CASE TrimLog
  <2>1. /\ pc = "trim" /\ pc' = "flip" /\ UNCHANGED <<mem, ref, disk, events, applied>>
        /\ log' = << >>
    BY <1>3, Zenon DEF TrimLog
  <2>2. SetLater(log', ref) /\ Recovered(disk, log') = Loaded(disk)
    BY <2>1, RecoveredEmpty DEF SetLater
  <2>. QED BY <2>1, <2>2, ZenonT(60) DEF Indexed
<1>4. CASE CommitRoot
  <2>1. /\ pc = "flip" /\ pc' = "idle" /\ UNCHANGED <<mem, ref, disk, log, events>>
        /\ applied' = MaxOf(applied, next_lsn - 1)
    BY <1>4, Zenon DEF CommitRoot
  <2>2. applied \in Nat /\ next_lsn \in Nat /\ disk["blob"].applied \in Nat
    BY RegionNames, LogAssumption, SMTT(60) DEF DiskInv, LogShape, EngineShape, RegionShape
  <2>3. disk["blob"].applied <= applied'
    BY <2>1, <2>2, SMTT(60) DEF Indexed, MaxOf
  <2>. QED BY <2>1, <2>3, Zenon DEF Indexed
<1>. QED BY <1>1, <1>2, <1>3, <1>4, Zenon

\* replay_wal leaves last_applied_lsn no lower than it found it.
LEMMA LastAppliedGrows ==
    ASSUME DiskInv PROVE disk["blob"].applied <= LastApplied(disk, log)
<1>1. disk["blob"].applied \in Nat /\ Len(log) \in Nat /\ log \in Seq(Entries)
  BY RegionNames DEF DiskInv, EngineShape, RegionShape, LogShape
<1>2. CASE ToReplay(disk, log) = {}
  BY <1>1, <1>2 DEF LastApplied
<1>3. CASE ToReplay(disk, log) # {}
  <2>. DEFINE m == Max(ToReplay(disk, log))
  <2>1. ToReplay(disk, log) \in SUBSET (1 .. Len(log))
    BY Zenon DEF ToReplay
  <2>2. m \in ToReplay(disk, log)
    BY <1>1, <1>3, <2>1, MaxExists, Zenon
  <2>3. log[m].lsn \in Nat /\ ~(log[m].lsn <= disk["blob"].applied)
    BY <1>1, <2>2, ReplayedEntry, Zenon DEF ToReplay, Skips
  <2>. QED BY <1>1, <1>3, <2>3, SMTT(60) DEF LastApplied
<1>. QED BY <1>2, <1>3, Zenon

\* Crashes, and open.
LEMMA CrashIndexed ==
    ASSUME DiskInv, Indexed, \/ Crash \/ CrashInAppend \/ Open \/ OpenReadOnly
                             \/ \E n \in 1 .. Len(RegionOrder) : CrashInSave(n)
                             \/ \E n \in 1 .. 3 : CrashInFlip(n)
    PROVE  Indexed'
<1>. SUFFICES ASSUME events' \cap {"refused", "cut"} = {} PROVE Indexed'
  BY Zenon DEF Indexed
<1>1. ASSUME events \cap {"refused", "cut"} = {}, pc' = "down", UNCHANGED <<disk, log, ref>>
      PROVE  Indexed'
  BY <1>1, Zenon DEF Indexed
<1>2. CASE Crash
  <2>1. events \cap {"refused", "cut"} = {}
    BY <1>2, Zenon DEF Crash
  <2>. QED BY <1>1, <1>2, <2>1, Zenon DEF Crash, Dies
<1>3. CASE CrashInAppend
  <2>1. /\ pc = "log" /\ pc' = "down" /\ UNCHANGED disk /\ ~LogIsFull /\ next_lsn <= MaxLsn
        /\ log' = Append(log, Entry(op)) /\ ref' = Live(ref, op)
        /\ events \cap {"refused", "cut"} = {}
    BY <1>3, Zenon DEF CrashInAppend, Dies
  <2>2. AttrsSound(ref') /\ SetLater(log', ref') /\ Covers(Recovered(disk, log'), ref')
    BY <2>1, AppendIndexed, Zenon
  <2>. QED BY <2>1, <2>2, Zenon DEF Indexed
<1>4. ASSUME NEW n \in 1 .. Len(RegionOrder), CrashInSave(n) PROVE Indexed'
  BY <1>4, Zenon DEF CrashInSave
<1>5. ASSUME NEW n \in 1 .. 3, CrashInFlip(n) PROVE Indexed'
  BY <1>1, <1>5, Zenon DEF CrashInFlip, Dies
<1>6. CASE Open \/ OpenReadOnly
  <2>1. /\ pc = "down" /\ pc' \in {"idle", "read_only"} /\ UNCHANGED <<disk, log, ref, events>>
        /\ mem' = Recovered(disk, log) /\ applied' = LastApplied(disk, log)
    BY <1>6, Zenon DEF Open, OpenReadOnly
  <2>2. disk["blob"].applied <= applied'
    BY <2>1, LastAppliedGrows, Zenon
  <2>. QED BY <2>1, <2>2, Zenon DEF Indexed
<1>. QED BY <1>2, <1>3, <1>4, <1>5, <1>6, Zenon

\* A lookup by attribute never misses an object that the logged mutations say
\* it should find, whatever was replayed twice over regions that had lost the
\* values.
THEOREM LookupsNeverMiss == Spec => []AttrsNeverLost
<1>1. ASSUME DiskInv, Indexed PROVE AttrsNeverLost
  <2>. SUFFICES ASSUME Ready, events \cap {"refused", "cut"} = {}
                PROVE  /\ \A a \in Attrs : ref.kv[a] \subseteq mem.kv[a]
                       /\ \A n \in NormKeys : ref.range[n] \subseteq mem.range[n]
    BY Zenon DEF AttrsNeverLost
  <2>1. Covers(mem, ref)
    BY <1>1, Zenon DEF Indexed, Ready
  <2>2. /\ ref.kv \in [Attrs -> SUBSET Oids] /\ ref.range \in [NormKeys -> SUBSET Oids]
    BY <1>1, FieldTypes, Zenon DEF DiskInv, EngineShape
  <2>. QED BY <2>1, <2>2, Zenon DEF Covers
<1>2. ASSUME DiskInv, Indexed, [Next]_vars PROVE Indexed'
  <2>1. CASE UNCHANGED vars
    BY <1>2, <2>1, Zenon DEF Indexed, vars
  <2>2. CASE Next
    BY <1>2, <2>2, CallsIndexed, SaveIndexed, CommitIndexed, CrashIndexed, Zenon DEF Next
  <2>. QED BY <1>2, <2>1, <2>2, Zenon
<1>. QED BY <1>1, <1>2, IndexedInit, DiskInvAlways, PTL DEF Spec

=============================================================================
