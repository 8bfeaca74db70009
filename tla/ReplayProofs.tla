---------------------------- MODULE ReplayProofs ----------------------------
(***************************************************************************)
(* What DiskEngine's open() recovers, as a function of the regions and the *)
(* log it finds: proofs about the operators Loaded, Replays and Recovered, *)
(* for every number of objects and tags, every ontology and every log.     *)
(*                                                                         *)
(* The replay of the log is a recursive function.  What it computes is     *)
(* established by induction over its argument, which SetInduction provides *)
(* in a form without operator parameters.                                  *)
(*                                                                         *)
(* The second half is how appends, saves and trims preserve what a replay  *)
(* rebuilds: the object table of the history exactly, and no less than the *)
(* history finds by attribute.  These are facts about regions, a log and   *)
(* two engine records; the steps of DiskEngine use them in                 *)
(* DiskEngineProofs and DiskIndexProofs.                                   *)
(***************************************************************************)
EXTENDS DiskEngine, EngineOpsProofs, WellFoundedInduction, NaturalsInduction

\* Induction over the natural numbers, the predicate given by its extension.
LEMMA SetInduction ==
    ASSUME NEW S, 0 \in S, \A n \in Nat : n \in S => n + 1 \in S
    PROVE  Nat \subseteq S
<1>. DEFINE R == {p \in Nat \X Nat : p[1] < p[2]}
            T == Nat \ S
<1>1. IsWellFoundedOn(R, Nat)
  BY NatLessThanWellFounded, Zenon DEF OpToRel
<1>. SUFFICES ASSUME T # {} PROVE FALSE
  BY Zenon
<1>2. T \subseteq Nat
  BY Zenon
<1>. HIDE DEF R, T
<1>3. PICK x \in T : \A y \in T : ~ (<<y, x>> \in R)
  BY <1>1, <1>2, WFMin, Zenon
<1>. USE DEF R, T
<1>4. x # 0 /\ x \in Nat
  BY <1>3, Zenon
<1>5. x - 1 \in Nat /\ x - 1 + 1 = x
  BY <1>4
<1>6. x - 1 \in T
  BY <1>3, <1>5, Zenon
<1>7. <<x - 1, x>> \in R
  BY <1>4, <1>5
<1>. QED BY <1>3, <1>6, <1>7, Zenon

-----------------------------------------------------------------------------
(* Replay of the log (replay_wal).                                         *)

\* One entry.
Step(d, l, n, e) == IF n \in ToReplay(d, l) THEN Replay(e, l[n].op) ELSE e

\* f is the loop of replay_wal over the first k entries.
LoopOver(d, l, k, f) ==
    f = [n \in 0 .. k |-> IF n = 0 THEN Loaded(d) ELSE Step(d, l, n, f[n - 1])]

\* The loop is well defined.
LEMMA LoopExists ==
    ASSUME NEW d, NEW l, NEW k \in Nat
    PROVE  \E f : LoopOver(d, l, k, f)
<1>. DEFINE S == {n \in Nat : \E f : LoopOver(d, l, n, f)}
<1>1. 0 \in S
  <2>. DEFINE f == [n \in 0 .. 0 |-> Loaded(d)]
  <2>1. LoopOver(d, l, 0, f)
    BY DEF LoopOver
  <2>. QED BY <2>1, Zenon
<1>2. ASSUME NEW n \in Nat, n \in S PROVE n + 1 \in S
  <2>1. PICK f : LoopOver(d, l, n, f)
    BY <1>2, Zenon
  <2>. DEFINE g == [m \in 0 .. n + 1 |->
                      IF m = n + 1 THEN Step(d, l, m, f[n]) ELSE f[m]]
  <2>2. ASSUME NEW m \in 0 .. n + 1
        PROVE  g[m] = IF m = 0 THEN Loaded(d) ELSE Step(d, l, m, g[m - 1])
    <3>1. CASE m = 0
      BY <2>1, <3>1 DEF LoopOver
    <3>2. CASE m = n + 1
      BY <3>2
    <3>3. CASE m \in 1 .. n
      <4>1. g[m] = f[m] /\ g[m - 1] = f[m - 1] /\ m \in 0 .. n /\ m # 0
        BY <3>3
      <4>. QED BY <2>1, <4>1, Zenon DEF LoopOver
    <3>. QED BY <2>2, <3>1, <3>2, <3>3
  <2>3. g = [m \in 0 .. n + 1 |-> IF m = 0 THEN Loaded(d) ELSE Step(d, l, m, g[m - 1])]
    <3>. DEFINE h == [m \in 0 .. n + 1 |->
                        IF m = 0 THEN Loaded(d) ELSE Step(d, l, m, g[m - 1])]
    <3>1. \A m \in 0 .. n + 1 : g[m] = h[m]
      BY <2>2, Zenon
    <3>2. g = [m \in 0 .. n + 1 |-> g[m]] /\ h = [m \in 0 .. n + 1 |-> h[m]]
      OBVIOUS
    <3>. HIDE DEF g, h
    <3>3. g = h
      BY <3>1, <3>2, Zenon
    <3>. QED BY <3>3, Zenon DEF h
  <2>4. LoopOver(d, l, n + 1, g)
    BY <2>3, Zenon DEF LoopOver
  <2>. HIDE DEF g
  <2>. QED BY <1>2, <2>4
<1>. HIDE DEF S
<1>3. k \in S
  BY <1>1, <1>2, SetInduction, Zenon
<1>. QED BY <1>3, Zenon DEF S

\* So the replay starts from the regions and goes entry by entry.
LEMMA ReplaysLoop ==
    ASSUME NEW d, NEW l, Len(l) \in Nat
    PROVE  LoopOver(d, l, Len(l), Replays(d, l))
<1>1. \E f : LoopOver(d, l, Len(l), f)
  BY LoopExists, Zenon
<1>2. Replays(d, l) = CHOOSE f : LoopOver(d, l, Len(l), f)
  BY Zenon DEF Replays, LoopOver, Step
<1>. QED BY <1>1, <1>2, Zenon

\* The rounds of the replay loop, one by one.
LEMMA ReplaysStep ==
    ASSUME NEW d, NEW l, Len(l) \in Nat
    PROVE  /\ Replays(d, l)[0] = Loaded(d)
           /\ \A n \in 1 .. Len(l) :
                 Replays(d, l)[n] = Step(d, l, n, Replays(d, l)[n - 1])
<1>1. LoopOver(d, l, Len(l), Replays(d, l))
  BY ReplaysLoop, Zenon
<1>2. \A n \in 0 .. Len(l) :
          Replays(d, l)[n] = IF n = 0 THEN Loaded(d)
                             ELSE Step(d, l, n, Replays(d, l)[n - 1])
  BY <1>1, Zenon DEF LoopOver
<1>. QED BY <1>2

Entries == [lsn : Nat, op : Ops \cup {CheckpointOp}]

\* What is replayed are operations.
LEMMA ReplayedEntry ==
    ASSUME NEW d, NEW l \in Seq(Entries), NEW i \in ToReplay(d, l)
    PROVE  /\ i \in 1 .. Len(l) /\ i \in Nat
           /\ l[i] \in Entries /\ l[i].lsn \in Nat /\ l[i].op \in Ops
<1>1. i \in 1 .. Len(l) /\ i \in Nat /\ ~Skips(d, l[i])
  BY DEF ToReplay
<1>2. l[i] \in Entries
  BY <1>1
<1>3. l[i].lsn \in Nat /\ l[i].op \in Ops \cup {CheckpointOp}
  BY <1>2, Zenon DEF Entries
<1>. QED BY <1>1, <1>2, <1>3, Zenon DEF Skips

\* An entry appended later does not change the replay of those before it.
LEMMA ReplaysPrefix ==
    ASSUME NEW d, NEW l \in Seq(Entries), NEW x \in Entries, NEW k \in 0 .. Len(l)
    PROVE  Replays(d, Append(l, x))[k] = Replays(d, l)[k]
<1>. DEFINE L == Append(l, x)
            S == {n \in Nat : n <= Len(l) => Replays(d, L)[n] = Replays(d, l)[n]}
<1>0. Len(l) \in Nat /\ Len(L) = Len(l) + 1 /\ Len(L) \in Nat
      /\ \A n \in 1 .. Len(l) : L[n] = l[n]
  OBVIOUS
<1>. HIDE DEF L
<1>1. 0 \in S
  BY <1>0, ReplaysStep, Zenon
<1>2. ASSUME NEW n \in Nat, n \in S PROVE n + 1 \in S
  <2>. SUFFICES ASSUME n + 1 <= Len(l)
                PROVE  Replays(d, L)[n + 1] = Replays(d, l)[n + 1]
    OBVIOUS
  <2>1. n + 1 \in 1 .. Len(l) /\ n + 1 \in 1 .. Len(L) /\ n + 1 - 1 = n /\ n <= Len(l)
    BY <1>0
  <2>2. Replays(d, L)[n] = Replays(d, l)[n]
    BY <1>2, <2>1, Zenon
  <2>3. /\ Replays(d, L)[n + 1] = Step(d, L, n + 1, Replays(d, L)[n])
        /\ Replays(d, l)[n + 1] = Step(d, l, n + 1, Replays(d, l)[n])
    BY <1>0, <2>1, ReplaysStep, SMTT(60)
  <2>4. L[n + 1] = l[n + 1]
    BY <1>0, <2>1, Zenon
  <2>5. n + 1 \in ToReplay(d, L) <=> n + 1 \in ToReplay(d, l)
    BY <2>1, <2>4, Zenon DEF ToReplay
  <2>. QED BY <2>2, <2>3, <2>4, <2>5, Zenon DEF Step
<1>. HIDE DEF S
<1>3. k \in S
  BY <1>0, <1>1, <1>2, SetInduction
<1>. QED BY <1>0, <1>3 DEF S, L

\* An empty log leaves what the regions hold.
LEMMA RecoveredEmpty ==
    ASSUME NEW d PROVE Recovered(d, << >>) = Loaded(d)
<1>1. Len(<< >>) = 0
  BY Zenon
<1>. QED BY <1>1, ReplaysStep, Zenon DEF Recovered

\* One more entry is one more replay.
LEMMA RecoveredAppend ==
    ASSUME NEW d, NEW l \in Seq(Entries), NEW x \in Entries
    PROVE  Recovered(d, Append(l, x)) =
               IF Skips(d, x) THEN Recovered(d, l) ELSE Replay(Recovered(d, l), x.op)
<1>. DEFINE L == Append(l, x)
            k == Len(L)
<1>0. Len(l) \in Nat /\ Len(L) = Len(l) + 1 /\ L[k] = x /\ k \in 1 .. Len(L)
      /\ k - 1 = Len(l) /\ Len(l) \in 0 .. Len(l)
  OBVIOUS
<1>1. Replays(d, L)[Len(l)] = Recovered(d, l)
  BY <1>0, ReplaysPrefix, Zenon DEF Recovered
<1>. HIDE DEF L
<1>2. Recovered(d, L) = Step(d, L, k, Recovered(d, l))
  BY <1>0, <1>1, ReplaysStep DEF Recovered
<1>3. k \in ToReplay(d, L) <=> ~Skips(d, x)
  BY <1>0, Zenon DEF ToReplay
<1>. QED BY <1>0, <1>2, <1>3, Zenon DEF Step, L

-----------------------------------------------------------------------------
(* What the regions read back as.                                          *)

DiskShape(d) ==
    /\ d["kv"] \in [Attrs -> SUBSET Oids]
    /\ d["fwd"].tags \in [Oids -> [Tags -> Origins]]
    /\ d["fwd"].attrs \in [Oids -> [Attrs -> Nat]]
    /\ d["fwd"].rels \in [Oids -> [Rels -> Nat]]
    /\ d["tag"].stores \in SUBSET Tags
    /\ d["tag"].idx \in [Tags -> SUBSET Oids]
    /\ d["range"] \in [NormKeys -> SUBSET Oids]
    /\ d["obj"].obj \in [Oids -> {"none", "active", "tomb"}]
    /\ d["obj"].content \in [Oids -> Contents \cup {NoContent}]
    /\ d["onto"].known \in SUBSET Tags
    /\ d["onto"].impl \in SUBSET (Tags \X Tags)
    /\ d["blob"].next_oid \in 1 .. MaxOid + 1
    /\ d["blob"].applied \in Nat

\* load_all_regions and apply_index_blob give an engine; ensure_oid_exists
\* creates nothing when the object table covers the ids below next_oid_local.
LEMMA LoadedFields ==
    ASSUME NEW d, DiskShape(d)
    PROVE  /\ Loaded(d) \in Engines
           /\ Loaded(d).content = d["obj"].content
           /\ Loaded(d).tags = d["fwd"].tags /\ Loaded(d).tagidx = d["tag"].idx
           /\ Loaded(d).rels = d["fwd"].rels /\ Loaded(d).attrs = d["fwd"].attrs
           /\ Loaded(d).kv = d["kv"] /\ Loaded(d).range = d["range"]
           /\ Loaded(d).known = d["onto"].known /\ Loaded(d).impl = d["onto"].impl
           /\ Loaded(d).next_oid = d["blob"].next_oid
           /\ (\A o \in Oids : o < d["blob"].next_oid => d["obj"].obj[o] # "none")
                  => Loaded(d).obj = d["obj"].obj
<1>. DEFINE e == [obj |-> d["obj"].obj, content |-> d["obj"].content,
                  tags |-> d["fwd"].tags, attrs |-> d["fwd"].attrs,
                  rels |-> d["fwd"].rels, tagidx |-> d["tag"].idx,
                  stores |-> d["tag"].stores, kv |-> d["kv"],
                  range |-> d["range"], known |-> d["onto"].known,
                  impl |-> d["onto"].impl, next_oid |-> 1]
            n == d["blob"].next_oid
            f == Loaded(d)
<1>1. e \in Engines
  <2>1. 1 \in 1 .. MaxOid + 1
    BY OidAssumption
  <2>. QED BY <2>1, Zenon DEF DiskShape, Engines, Origins
<1>2. /\ e.content = d["obj"].content /\ e.obj = d["obj"].obj /\ e.next_oid = 1
      /\ e.tags = d["fwd"].tags /\ e.tagidx = d["tag"].idx
      /\ e.rels = d["fwd"].rels /\ e.attrs = d["fwd"].attrs
      /\ e.kv = d["kv"] /\ e.range = d["range"]
      /\ e.known = d["onto"].known /\ e.impl = d["onto"].impl
  BY Zenon
<1>3. f = IF n > 1 THEN ReplayCreateObject(e, n - 1) ELSE e
  BY Zenon DEF Loaded
<1>4. n \in 1 .. MaxOid + 1 /\ e.obj \in [Oids -> {"none", "active", "tomb"}]
  BY <1>2, Zenon DEF DiskShape
<1>. HIDE DEF e, f, n
<1>5. CASE n > 1
  <2>1. n - 1 \in Oids /\ n - 1 < n /\ f = ReplayCreateObject(e, n - 1)
        /\ (IF n - 1 >= 1 THEN n - 1 + 1 ELSE 1) = n
    BY <1>3, <1>4, <1>5, OidAssumption DEF Oids
  <2>2. /\ f \in Engines
        /\ f.obj = [e.obj EXCEPT ![n - 1] = IF @ = "none" THEN "active" ELSE @]
        /\ f.next_oid = IF n - 1 >= e.next_oid THEN n - 1 + 1 ELSE e.next_oid
        /\ f.content = e.content /\ f.tags = e.tags /\ f.tagidx = e.tagidx
        /\ f.attrs = e.attrs /\ f.kv = e.kv /\ f.range = e.range
        /\ f.rels = e.rels /\ f.known = e.known /\ f.impl = e.impl
    BY <1>1, <2>1, ReplayCreateFields, Zenon
  <2>3. e.obj[n - 1] # "none" => f.obj = e.obj
    BY <1>4, <2>1, <2>2, Zenon
  <2>. QED BY <1>2, <2>1, <2>2, <2>3, Zenon DEF f, n
<1>6. CASE ~(n > 1)
  <2>1. f = e /\ n = 1
    BY <1>3, <1>4, <1>6
  <2>. QED BY <1>1, <1>2, <2>1, Zenon DEF f, n
<1>. QED BY <1>5, <1>6, Zenon

\* Every state of the replay is an engine with the ontology of the regions.
LEMMA ReplaysTyped ==
    ASSUME NEW d, DiskShape(d), NEW l \in Seq(Entries), NEW k \in 0 .. Len(l)
    PROVE  /\ Replays(d, l)[k] \in Engines
           /\ Replays(d, l)[k].known = d["onto"].known
           /\ Replays(d, l)[k].impl = d["onto"].impl
<1>. DEFINE Good(e) == /\ e \in Engines
                       /\ e.known = d["onto"].known /\ e.impl = d["onto"].impl
            S == {n \in Nat : n <= Len(l) => Good(Replays(d, l)[n])}
<1>0. Len(l) \in Nat
  OBVIOUS
<1>1. 0 \in S
  BY <1>0, ReplaysStep, LoadedFields
<1>2. ASSUME NEW n \in Nat, n \in S PROVE n + 1 \in S
  <2>. SUFFICES ASSUME n + 1 <= Len(l) PROVE Good(Replays(d, l)[n + 1])
    OBVIOUS
  <2>1. n + 1 \in 1 .. Len(l) /\ n + 1 - 1 = n /\ n <= Len(l)
    BY <1>0
  <2>2. Replays(d, l)[n + 1] = Step(d, l, n + 1, Replays(d, l)[n])
    BY <1>0, <2>1, ReplaysStep
  <2>3. Good(Replays(d, l)[n])
    BY <1>2, <2>1, Zenon
  <2>4. CASE n + 1 \in ToReplay(d, l)
    <3>1. l[n + 1].op \in Ops
      BY <2>4, ReplayedEntry, Zenon
    <3>2. Replays(d, l)[n + 1] = Replay(Replays(d, l)[n], l[n + 1].op)
      BY <2>2, <2>4, Zenon DEF Step
    <3>. QED BY <2>3, <3>1, <3>2, ReplayFields
  <2>5. CASE n + 1 \notin ToReplay(d, l)
    BY <2>2, <2>3, <2>5, Zenon DEF Step
  <2>. QED BY <2>4, <2>5, Zenon
<1>. HIDE DEF S
<1>3. k \in S
  BY <1>0, <1>1, <1>2, SetInduction
<1>. QED BY <1>0, <1>3 DEF S

-----------------------------------------------------------------------------
(* The object table.  What the regions and the entries to replay say about *)
(* it, against the engine r that ran the logged mutations.                 *)

LogOrdered(l) == \A i, j \in 1 .. Len(l) : i < j => l[i].lsn < l[j].lsn

\* A record only goes from none to active to tomb.
Below(x, y) == x = "none" \/ x = y \/ y = "tomb"

Does(x, kind, o) == x.op.kind = kind /\ x.op.oid = o

\* The records: regions and log hold nothing that r does not have, and one
\* of them holds what r has; an entry about an object comes after its record.
RecordsKept(d, l, r) ==
    /\ \A o \in Oids : Below(d["obj"].obj[o], r.obj[o])
    /\ \A i \in 1 .. Len(l) : l[i].op \in Ops =>
          /\ r.obj[l[i].op.oid] # "none"
          /\ l[i].op.kind = "delete" => r.obj[l[i].op.oid] = "tomb"
    /\ \A o \in Oids :
          \/ r.obj[o] = d["obj"].obj[o]
          \/ \E i \in ToReplay(d, l) :
                \/ Does(l[i], "delete", o)
                \/ Does(l[i], "create", o) /\ r.obj[o] = "active"
    /\ \A i \in ToReplay(d, l) : l[i].op.kind # "create" =>
          \/ d["obj"].obj[l[i].op.oid] # "none"
          \/ \E j \in ToReplay(d, l) : j < i /\ Does(l[j], "create", l[i].op.oid)

\* The contents: the last write_blob of the log wrote what r has, and without
\* one to replay the regions hold it.
ContentsKept(d, l, r) ==
    \A o \in Oids :
        /\ \A i \in 1 .. Len(l) :
              /\ Does(l[i], "write_blob", o)
              /\ \A j \in 1 .. Len(l) : Does(l[j], "write_blob", o) => j <= i
              => l[i].op.arg = r.content[o]
        /\ (\A i \in ToReplay(d, l) : ~Does(l[i], "write_blob", o))
              => r.content[o] = d["obj"].content[o]

\* next_oid_local is the saved one or one past the last id to recreate, and
\* exactly the ids below it have records.
CounterKept(d, l, r) ==
    /\ d["blob"].next_oid <= r.next_oid
    /\ \A i \in 1 .. Len(l) : l[i].op.kind = "create" => l[i].op.oid < r.next_oid
    /\ \/ r.next_oid = d["blob"].next_oid
       \/ \E i \in ToReplay(d, l) : Does(l[i], "create", r.next_oid - 1)
    /\ \A o \in Oids : o < d["blob"].next_oid => d["obj"].obj[o] # "none"
    /\ \A o \in Oids : r.obj[o] # "none" <=> o < r.next_oid

\* Induction along the log.
LEMMA ReplayInduction ==
    ASSUME NEW l, Len(l) \in Nat, NEW S, 0 \in S,
           \A n \in 1 .. Len(l) : n - 1 \in S => n \in S
    PROVE  Len(l) \in S
<1>. DEFINE T == {n \in Nat : n <= Len(l) => n \in S}
<1>1. 0 \in T
  BY Zenon
<1>2. ASSUME NEW n \in Nat, n \in T PROVE n + 1 \in T
  <2>. SUFFICES ASSUME n + 1 <= Len(l) PROVE n + 1 \in S
    OBVIOUS
  <2>1. n \in S /\ n + 1 \in 1 .. Len(l) /\ n + 1 - 1 = n
    BY <1>2
  <2>. QED BY <2>1
<1>3. Nat \subseteq T
  <2>. HIDE DEF T
  <2>. QED BY <1>1, <1>2, SetInduction, Zenon
<1>. QED BY <1>3

\* What one round of the loop does to the object table.
LEMMA ReplayRound ==
    ASSUME NEW d, DiskShape(d), NEW l \in Seq(Entries), NEW n \in 1 .. Len(l)
    PROVE  LET e == Replays(d, l)[n - 1]
               f == Replays(d, l)[n]
           IN  /\ e \in Engines /\ f \in Engines
               /\ n \notin ToReplay(d, l) => f = e
               /\ n \in ToReplay(d, l) =>
                     /\ l[n].op \in Ops
                     /\ f = Replay(e, l[n].op)
                     /\ ReplayObjects(e, l[n].op, f)
<1>. DEFINE e == Replays(d, l)[n - 1]
            f == Replays(d, l)[n]
<1>1. Len(l) \in Nat /\ n - 1 \in 0 .. Len(l) /\ n \in 0 .. Len(l)
  OBVIOUS
<1>2. e \in Engines /\ f \in Engines
  BY <1>1, ReplaysTyped, Zenon
<1>3. f = Step(d, l, n, e)
  BY <1>1, ReplaysStep, Zenon
<1>. HIDE DEF e, f
<1>4. CASE n \in ToReplay(d, l)
  <2>1. l[n].op \in Ops
    BY <1>4, ReplayedEntry, Zenon
  <2>2. f = Replay(e, l[n].op)
    BY <1>3, <1>4, Zenon DEF Step
  <2>3. ReplayObjects(e, l[n].op, f)
    BY <1>2, <2>1, <2>2, ReplayFields, Zenon
  <2>. QED BY <1>2, <1>4, <2>1, <2>2, <2>3, Zenon DEF e, f
<1>5. CASE n \notin ToReplay(d, l)
  BY <1>2, <1>3, <1>5, Zenon DEF Step, e, f
<1>. QED BY <1>4, <1>5, Zenon

\* The records of the recovered engine.
LEMMA RecordsRecovered ==
    ASSUME NEW d, DiskShape(d), NEW l \in Seq(Entries), NEW r \in Engines,
           RecordsKept(d, l, r), CounterKept(d, l, r)
    PROVE  Recovered(d, l).obj = r.obj
<1>. DEFINE D == d["obj"].obj
            R == ToReplay(d, l)
            At(n) == Replays(d, l)[n].obj
            Good(n) == /\ \A o \in Oids : Below(D[o], At(n)[o]) /\ Below(At(n)[o], r.obj[o])
                       /\ \A i \in R : i <= n =>
                             /\ At(n)[l[i].op.oid] # "none"
                             /\ l[i].op.kind = "delete" => At(n)[l[i].op.oid] = "tomb"
            S == {n \in 0 .. Len(l) : Good(n)}
<1>0. Len(l) \in Nat /\ D \in [Oids -> {"none", "active", "tomb"}]
      /\ r.obj \in [Oids -> {"none", "active", "tomb"}]
  BY FieldTypes DEF DiskShape
<1>1. 0 \in S
  <2>1. At(0) = D
    BY <1>0, ReplaysStep, LoadedFields DEF CounterKept
  <2>2. \A i \in R : ~(i <= 0)
    BY <1>0, ReplayedEntry
  <2>. QED BY <1>0, <2>1, <2>2, SMTT(60) DEF RecordsKept, Below
<1>2. ASSUME NEW n \in 1 .. Len(l), n - 1 \in S PROVE n \in S
  <2>. DEFINE e == Replays(d, l)[n - 1]
              f == Replays(d, l)[n]
              call == l[n].op
  <2>0. /\ e \in Engines /\ f \in Engines /\ n \in 0 .. Len(l)
        /\ e.obj \in [Oids -> {"none", "active", "tomb"}]
        /\ f.obj \in [Oids -> {"none", "active", "tomb"}]
    BY <1>0, ReplayRound, FieldTypes, SMTT(60)
  <2>1. Good(n - 1)
    BY <1>2, Zenon
  <2>2. CASE n \notin R
    <3>1. f = e
      BY <2>2, ReplayRound, Zenon
    <3>2. \A i \in R : i <= n => i <= n - 1
      BY <2>2, ReplayedEntry
    <3>. QED BY <2>0, <2>1, <3>1, <3>2, Zenon
  <2>3. CASE n \in R
    <3>1. call \in Ops /\ call.oid \in Oids /\ call.kind \in Kinds /\ ReplayObjects(e, call, f)
      BY <2>3, ReplayRound, OpShape, Zenon
    <3>2. r.obj[call.oid] # "none" /\ (call.kind = "delete" => r.obj[call.oid] = "tomb")
      BY <3>1, Zenon DEF RecordsKept
    <3>3. call.kind # "create" => e.obj[call.oid] # "none"
      <4>1. D[call.oid] # "none" => e.obj[call.oid] # "none"
        BY <2>1, <3>1, Zenon DEF Below
      <4>2. ASSUME NEW k \in R, k < n, Does(l[k], "create", call.oid)
            PROVE  e.obj[call.oid] # "none"
        <5>1. k <= n - 1
          BY <4>2, ReplayedEntry
        <5>. QED BY <2>1, <4>2, <5>1, Zenon DEF Does
      <4>. QED BY <2>3, <4>1, <4>2, Zenon DEF RecordsKept
    <3>. HIDE DEF e, f, call, D, R
    <3>4. f.obj[call.oid] = IF call.kind = "delete" THEN "tomb"
                          ELSE IF e.obj[call.oid] = "none" THEN "active" ELSE e.obj[call.oid]
      BY <2>0, <3>1, <3>3, Zenon DEF ReplayObjects, Creating, Kinds
    <3>5. \A o \in Oids : o # call.oid => f.obj[o] = e.obj[o]
      BY <2>0, <3>1, Zenon DEF ReplayObjects
    <3>6. ASSUME NEW o \in Oids
          PROVE  Below(D[o], f.obj[o]) /\ Below(f.obj[o], r.obj[o])
      <4>1. Below(D[o], e.obj[o]) /\ Below(e.obj[o], r.obj[o])
        BY <2>1, Zenon DEF e
      <4>2. CASE o # call.oid
        BY <3>5, <4>1, <4>2, Zenon
      <4>3. CASE o = call.oid
        BY <1>0, <2>0, <3>2, <3>4, <4>1, <4>3, Zenon DEF Below
      <4>. QED BY <4>2, <4>3, Zenon
    <3>7. ASSUME NEW i \in R, i <= n
          PROVE  /\ f.obj[l[i].op.oid] # "none"
                 /\ l[i].op.kind = "delete" => f.obj[l[i].op.oid] = "tomb"
      <4>1. l[i].op.oid \in Oids /\ i \in Nat
        BY ReplayedEntry, OpShape, Zenon DEF R
      <4>2. CASE i = n
        BY <3>4, <4>2, Zenon DEF call
      <4>3. CASE i # n
        <5>1. i <= n - 1
          BY <3>7, <4>1, <4>3
        <5>2. /\ e.obj[l[i].op.oid] # "none"
              /\ l[i].op.kind = "delete" => e.obj[l[i].op.oid] = "tomb"
          BY <2>1, <5>1, Zenon DEF e
        <5>. QED BY <3>4, <3>5, <4>1, <5>2, Zenon
      <4>. QED BY <4>2, <4>3, Zenon
    <3>. QED BY <2>0, <3>6, <3>7, Zenon DEF f
  <2>. QED BY <2>2, <2>3, Zenon
<1>3. Len(l) \in S
  <2>. HIDE DEF S
  <2>. QED BY <1>0, <1>1, <1>2, ReplayInduction, Zenon
<1>. DEFINE N == Len(l)
<1>4. Good(N) /\ At(N) \in [Oids -> {"none", "active", "tomb"}]
  <2>1. Replays(d, l)[N] \in Engines
    BY <1>0, ReplaysTyped
  <2>. QED BY <1>3, <2>1, FieldTypes, Zenon
<1>5. ASSUME NEW o \in Oids PROVE At(N)[o] = r.obj[o]
  <2>1. Below(D[o], At(N)[o]) /\ Below(At(N)[o], r.obj[o])
    BY <1>4, Zenon
  <2>2. CASE r.obj[o] = D[o]
    BY <1>0, <1>4, <2>1, <2>2, Zenon DEF Below
  <2>3. ASSUME NEW i \in R, Does(l[i], "delete", o)
        PROVE  At(N)[o] = r.obj[o]
    <3>1. i <= N /\ i \in 1 .. Len(l) /\ l[i].op \in Ops
      BY ReplayedEntry
    <3>2. At(N)[o] = "tomb" /\ r.obj[o] = "tomb"
      BY <1>4, <2>3, <3>1, Zenon DEF Does, RecordsKept
    <3>. QED BY <3>2, Zenon
  <2>4. ASSUME NEW i \in R, Does(l[i], "create", o), r.obj[o] = "active"
        PROVE  At(N)[o] = r.obj[o]
    <3>1. i <= N
      BY ReplayedEntry
    <3>2. At(N)[o] # "none"
      BY <1>4, <2>4, <3>1, Zenon DEF Does
    <3>. QED BY <2>1, <2>4, <3>2, Zenon DEF Below
  <2>. QED BY <2>2, <2>3, <2>4, Zenon DEF RecordsKept
<1>. QED BY <1>0, <1>4, <1>5, SMTT(60) DEF Recovered

\* With the log in order, what follows an entry to replay is replayed.
LEMMA ReplayedSuffix ==
    ASSUME NEW d, DiskShape(d), NEW l \in Seq(Entries), LogOrdered(l),
           NEW i \in ToReplay(d, l), NEW j \in 1 .. Len(l), i < j, l[j].op \in Ops
    PROVE  j \in ToReplay(d, l)
<1>1. l[i].lsn < l[j].lsn /\ l[i].lsn \in Nat /\ l[j].lsn \in Nat
  <2>1. i \in 1 .. Len(l) /\ l[i].lsn \in Nat
    BY ReplayedEntry, Zenon
  <2>2. l[j] \in Entries
    OBVIOUS
  <2>. QED BY <2>1, <2>2, Zenon DEF LogOrdered, Entries
<1>2. ~(l[i].lsn <= d["blob"].applied) /\ d["blob"].applied \in Nat
  BY Zenon DEF ToReplay, Skips, DiskShape
<1>3. l[j].op # CheckpointOp
  <2>1. l[j].op.kind # CheckpointOp.kind
    BY OpShape, Zenon DEF Kinds, CheckpointOp
  <2>. QED BY <2>1, Zenon
<1>. QED BY <1>1, <1>2, <1>3 DEF ToReplay, Skips

\* The contents of the recovered engine.
LEMMA ContentsRecovered ==
    ASSUME NEW d, DiskShape(d), NEW l \in Seq(Entries), LogOrdered(l),
           NEW r \in Engines, ContentsKept(d, l, r)
    PROVE  Recovered(d, l).content = r.content
<1>. DEFINE D == d["obj"].content
            R == ToReplay(d, l)
            Hashes == Contents \cup {NoContent}
            At(n) == Replays(d, l)[n].content
            W(i, o) == Does(l[i], "write_blob", o)
            Good(n) == \A o \in Oids :
               \/ At(n)[o] = D[o] /\ \A i \in R : i <= n => ~W(i, o)
               \/ \E i \in R : /\ i <= n /\ W(i, o) /\ At(n)[o] = l[i].op.arg
                              /\ \A k \in R : k <= n /\ W(k, o) => k <= i
            S == {n \in 0 .. Len(l) : Good(n)}
<1>0. Len(l) \in Nat /\ D \in [Oids -> Hashes] /\ r.content \in [Oids -> Hashes]
  BY FieldTypes DEF DiskShape
<1>1. 0 \in S
  <2>1. At(0) = D
    BY <1>0, ReplaysStep, LoadedFields
  <2>2. \A i \in R : ~(i <= 0)
    BY <1>0, ReplayedEntry
  <2>. QED BY <1>0, <2>1, <2>2
<1>2. ASSUME NEW n \in 1 .. Len(l), n - 1 \in S PROVE n \in S
  <2>. DEFINE e == Replays(d, l)[n - 1]
              f == Replays(d, l)[n]
              call == l[n].op
  <2>0. /\ n \in 0 .. Len(l) /\ e.content \in [Oids -> Hashes]
        /\ n \in Nat /\ \A i \in R : i \in Nat
    BY <1>0, ReplayRound, FieldTypes, ReplayedEntry
  <2>. SUFFICES ASSUME NEW o \in Oids
                PROVE  \/ At(n)[o] = D[o] /\ \A i \in R : i <= n => ~W(i, o)
                       \/ \E i \in R : /\ i <= n /\ W(i, o) /\ At(n)[o] = l[i].op.arg
                                      /\ \A k \in R : k <= n /\ W(k, o) => k <= i
    BY <2>0, Zenon
  <2>1. \/ e.content[o] = D[o] /\ \A i \in R : i <= n - 1 => ~W(i, o)
        \/ \E i \in R : /\ i <= n - 1 /\ W(i, o) /\ e.content[o] = l[i].op.arg
                       /\ \A k \in R : k <= n - 1 /\ W(k, o) => k <= i
    BY <1>2, Zenon
  <2>2. CASE n \in R /\ W(n, o)
    <3>1. call.oid = o /\ call.kind = "write_blob" /\ ReplayObjects(e, call, f)
      BY <2>2, ReplayRound, Zenon DEF Does
    <3>2. f.content[o] = call.arg
      BY <2>0, <3>1, Zenon DEF ReplayObjects
    <3>. QED BY <2>0, <2>2, <3>2
  <2>3. CASE ~(n \in R /\ W(n, o))
    <3>1. f.content[o] = e.content[o]
      <4>1. CASE n \notin R
        BY <4>1, ReplayRound, Zenon
      <4>2. CASE n \in R
        <5>1. ReplayObjects(e, call, f) /\ call.oid \in Oids
          BY <4>2, ReplayRound, OpShape, Zenon
        <5>2. call.kind = "write_blob" => call.oid # o
          BY <2>3, <4>2, Zenon DEF Does
        <5>. QED BY <2>0, <5>1, <5>2, Zenon DEF ReplayObjects
      <4>. QED BY <4>1, <4>2, Zenon
    <3>2. \A i \in R : i <= n /\ W(i, o) => i <= n - 1
      BY <2>0, <2>3
    <3>3. \A i \in R : i <= n - 1 => i <= n
      BY <2>0
    <3>. HIDE DEF W, R, D
    <3>. QED BY <2>1, <3>1, <3>2, <3>3, Zenon
  <2>. QED BY <2>2, <2>3, Zenon
<1>3. Len(l) \in S
  <2>. HIDE DEF S
  <2>. QED BY <1>0, <1>1, <1>2, ReplayInduction, Zenon
<1>. DEFINE N == Len(l)
<1>4. Good(N) /\ At(N) \in [Oids -> Hashes]
  <2>1. Replays(d, l)[N] \in Engines
    BY <1>0, ReplaysTyped
  <2>. QED BY <1>3, <2>1, FieldTypes, Zenon
<1>5. ASSUME NEW o \in Oids PROVE At(N)[o] = r.content[o]
  <2>1. CASE At(N)[o] = D[o] /\ \A i \in R : i <= N => ~W(i, o)
    <3>1. \A i \in R : ~W(i, o)
      BY <2>1, ReplayedEntry
    <3>. QED BY <2>1, <3>1, Zenon DEF ContentsKept
  <2>2. ASSUME NEW i \in R, W(i, o), At(N)[o] = l[i].op.arg,
               \A k \in R : k <= N /\ W(k, o) => k <= i
        PROVE  At(N)[o] = r.content[o]
    <3>1. i \in 1 .. Len(l)
      BY ReplayedEntry, Zenon
    <3>2. ASSUME NEW k \in 1 .. Len(l), W(k, o), ~(k <= i) PROVE FALSE
      <4>1. l[k].op \in Ops
        <5>1. l[k] \in Entries /\ l[k].op.kind = "write_blob"
          BY <3>2 DEF Does
        <5>2. CheckpointOp.kind # "write_blob"
          BY Zenon DEF CheckpointOp
        <5>. QED BY <5>1, <5>2, Zenon DEF Entries
      <4>2. i < k /\ k <= N
        BY <3>1, <3>2
      <4>3. k \in R
        BY <4>1, <4>2, ReplayedSuffix, Zenon
      <4>. QED BY <2>2, <3>2, <4>2, <4>3, Zenon
    <3>3. l[i].op.arg = r.content[o]
      BY <2>2, <3>1, <3>2, Zenon DEF ContentsKept
    <3>. QED BY <2>2, <3>3, Zenon
  <2>. HIDE DEF W, R, D
  <2>. QED BY <1>4, <2>1, <2>2, Zenon
<1>. QED BY <1>0, <1>4, <1>5 DEF Recovered

\* next_oid_local of the recovered engine.
LEMMA CounterRecovered ==
    ASSUME NEW d, DiskShape(d), NEW l \in Seq(Entries), NEW r \in Engines,
           CounterKept(d, l, r)
    PROVE  Recovered(d, l).next_oid = r.next_oid
<1>. DEFINE D == d["blob"].next_oid
            R == ToReplay(d, l)
            At(n) == Replays(d, l)[n].next_oid
            Good(n) == /\ D <= At(n) /\ At(n) <= r.next_oid
                       /\ \A i \in R : i <= n /\ l[i].op.kind = "create"
                             => l[i].op.oid < At(n)
            S == {n \in 0 .. Len(l) : Good(n)}
<1>0. Len(l) \in Nat /\ D \in Nat /\ r.next_oid \in Nat
  BY FieldTypes, OidAssumption DEF DiskShape
<1>1. 0 \in S
  <2>1. At(0) = D
    BY <1>0, ReplaysStep, LoadedFields
  <2>2. \A i \in R : ~(i <= 0)
    BY <1>0, ReplayedEntry
  <2>. QED BY <1>0, <2>1, <2>2 DEF CounterKept
<1>2. ASSUME NEW n \in 1 .. Len(l), n - 1 \in S PROVE n \in S
  <2>. DEFINE e == Replays(d, l)[n - 1]
              f == Replays(d, l)[n]
              call == l[n].op
  <2>0. /\ n \in 0 .. Len(l) /\ e.next_oid \in Nat /\ f.next_oid \in Nat /\ n \in Nat
        /\ \A i \in R : i \in Nat /\ l[i].op.oid \in Nat /\ i \in 1 .. Len(l)
    <3>1. \A i \in R : l[i].op.oid \in Oids /\ i \in Nat /\ i \in 1 .. Len(l)
      BY ReplayedEntry, OpShape, Zenon
    <3>2. e \in Engines /\ f \in Engines
      BY ReplayRound, Zenon
    <3>3. e.next_oid \in 1 .. MaxOid + 1 /\ f.next_oid \in 1 .. MaxOid + 1
      BY <3>2, FieldTypes, Zenon
    <3>. QED BY <1>0, <3>1, <3>3, OidAssumption, SMTT(60) DEF Oids
  <2>1. Good(n - 1)
    BY <1>2, Zenon
  <2>. HIDE DEF D
  <2>2. CASE n \notin R
    <3>1. f = e
      BY <2>2, ReplayRound, Zenon
    <3>2. \A i \in R : i <= n => i <= n - 1
      BY <2>0, <2>2
    <3>. QED BY <2>0, <2>1, <3>1, <3>2, Zenon
  <2>3. CASE n \in R
    <3>1. f.next_oid = IF call.kind = "create" /\ call.oid >= e.next_oid
                       THEN call.oid + 1 ELSE e.next_oid
      BY <2>3, ReplayRound, Zenon DEF ReplayObjects
    <3>2. call.kind = "create" => call.oid < r.next_oid
      BY <2>3, <2>0, Zenon DEF CounterKept
    <3>3. call.oid \in Nat
      BY <2>0, <2>3, Zenon
    <3>4. D <= f.next_oid /\ f.next_oid <= r.next_oid /\ e.next_oid <= f.next_oid
      <4>. HIDE DEF call, e, f
      <4>1. D <= e.next_oid /\ e.next_oid <= r.next_oid
        BY <2>1, Zenon DEF e
      <4>2. D \in Nat /\ r.next_oid \in Nat /\ e.next_oid \in Nat /\ call.oid \in Nat
        BY <1>0, <2>0, <3>3, Zenon
      <4>. QED BY <3>1, <3>2, <4>1, <4>2
    <3>5. ASSUME NEW i \in R, i <= n, l[i].op.kind = "create"
          PROVE  l[i].op.oid < f.next_oid
      <4>1. CASE i = n
        <5>. HIDE DEF call, e, f
        <5>1. call.kind = "create" /\ e.next_oid \in Nat /\ l[i].op.oid = call.oid
          BY <2>0, <3>5, <4>1, Zenon DEF call, e
        <5>. QED BY <3>1, <3>3, <5>1
      <4>2. CASE i # n
        <5>1. i <= n - 1 /\ l[i].op.oid \in Nat
          BY <2>0, <3>5, <4>2
        <5>2. l[i].op.oid < e.next_oid
          BY <2>1, <3>5, <5>1, Zenon
        <5>3. e.next_oid \in Nat /\ f.next_oid \in Nat /\ e.next_oid <= f.next_oid
          BY <2>0, <3>4, Zenon
        <5>. HIDE DEF e, f
        <5>. QED BY <5>1, <5>2, <5>3
      <4>. QED BY <4>1, <4>2, Zenon
    <3>. QED BY <2>0, <3>4, <3>5, Zenon
  <2>. QED BY <2>2, <2>3, Zenon
<1>3. Len(l) \in S
  <2>. HIDE DEF S
  <2>. QED BY <1>0, <1>1, <1>2, ReplayInduction, Zenon
<1>. DEFINE N == Len(l)
<1>4. Good(N) /\ At(N) \in Nat
  <2>1. Replays(d, l)[N] \in Engines
    BY <1>0, ReplaysTyped
  <2>2. At(N) \in 1 .. MaxOid + 1
    BY <2>1, FieldTypes, Zenon
  <2>. QED BY <1>3, <2>2, OidAssumption
<1>5. At(N) = r.next_oid
  <2>1. CASE r.next_oid = D
    BY <1>0, <1>4, <2>1
  <2>2. ASSUME NEW i \in R, Does(l[i], "create", r.next_oid - 1)
        PROVE  At(N) = r.next_oid
    <3>1. i <= N
      BY ReplayedEntry
    <3>2. r.next_oid - 1 < At(N)
      BY <1>4, <2>2, <3>1, Zenon DEF Does
    <3>. QED BY <1>0, <1>4, <3>2
  <2>. QED BY <2>1, <2>2, Zenon DEF CounterKept
<1>. QED BY <1>5, Zenon DEF Recovered

\* Together: the recovered object table is r's.
ObjectsKept(d, l, r) ==
    RecordsKept(d, l, r) /\ ContentsKept(d, l, r) /\ CounterKept(d, l, r)

\* open rebuilds the object table.
LEMMA ObjectsKeptRecovered ==
    ASSUME NEW d, DiskShape(d), NEW l \in Seq(Entries), LogOrdered(l),
           NEW r \in Engines, ObjectsKept(d, l, r)
    PROVE  SameObjects(Recovered(d, l), r)
BY RecordsRecovered, ContentsRecovered, CounterRecovered, Zenon DEF ObjectsKept, SameObjects

-----------------------------------------------------------------------------
(* How the steps of the engine preserve ObjectsKept.                       *)

\* An appended entry is to be replayed, unless it is skipped.
LEMMA ToReplayAppend ==
    ASSUME NEW d, NEW l \in Seq(Entries), NEW x \in Entries
    PROVE  LET L == Append(l, x)
           IN  /\ Len(L) = Len(l) + 1 /\ Len(l) \in Nat
               /\ \A i \in 1 .. Len(l) : L[i] = l[i]
               /\ L[Len(l) + 1] = x
               /\ ToReplay(d, L) = ToReplay(d, l) \cup
                     (IF Skips(d, x) THEN {} ELSE {Len(l) + 1})
<1>. DEFINE L == Append(l, x)
<1>1. /\ Len(L) = Len(l) + 1 /\ Len(l) \in Nat
      /\ \A i \in 1 .. Len(l) : L[i] = l[i]
      /\ L[Len(l) + 1] = x
  OBVIOUS
<1>. HIDE DEF L
<1>2. ASSUME NEW i
      PROVE  i \in ToReplay(d, L) <=>
                 i \in ToReplay(d, l) \cup (IF Skips(d, x) THEN {} ELSE {Len(l) + 1})
  <2>1. i \in 1 .. Len(L) <=> i \in 1 .. Len(l) \/ i = Len(l) + 1
    BY <1>1
  <2>2. Len(l) + 1 \notin 1 .. Len(l)
    BY <1>1
  <2>. QED BY <1>1, <2>1, <2>2, Zenon DEF ToReplay
<1>. QED BY <1>1, <1>2, Zenon DEF L

\* A logged mutation (append_wal after the engine's own call).
LEMMA RecordsAppend ==
    ASSUME NEW d, DiskShape(d), NEW l \in Seq(Entries), NEW r \in Engines,
           NEW call \in Ops, NEW x \in Entries, x.op = call, ~Skips(d, x), Accepts(r, call),
           RecordsKept(d, l, r), CounterKept(d, l, r),
           NEW f \in Engines, LiveObjects(r, call, f)
    PROVE  RecordsKept(d, Append(l, x), f)
<1>. DEFINE L == Append(l, x)
            D == d["obj"].obj
            R == ToReplay(d, l)
            k == Len(l) + 1
            o == call.oid
<1>0. /\ Len(L) = k /\ k \in Nat /\ Len(l) \in Nat
      /\ \A i \in 1 .. Len(l) : L[i] = l[i]
      /\ L[k] = x /\ ToReplay(d, L) = R \cup {k}
  <2>1. /\ Len(L) = Len(l) + 1 /\ Len(l) \in Nat
        /\ \A i \in 1 .. Len(l) : L[i] = l[i]
        /\ L[Len(l) + 1] = x
        /\ ToReplay(d, L) = R \cup (IF Skips(d, x) THEN {} ELSE {Len(l) + 1})
    BY ToReplayAppend, Zenon
  <2>. HIDE DEF L, R
  <2>. QED BY <2>1
<1>1. /\ o \in Oids /\ call.kind \in Kinds
      /\ r.obj \in [Oids -> {"none", "active", "tomb"}]
      /\ f.obj \in [Oids -> {"none", "active", "tomb"}]
      /\ D \in [Oids -> {"none", "active", "tomb"}]
  BY OpShape, FieldTypes, Zenon DEF DiskShape
<1>2. \A i \in R : i \in 1 .. Len(l) /\ i < k /\ L[i] = l[i]
  BY <1>0, ReplayedEntry
<1>. HIDE DEF L, D, k, o
<1>3. call.kind = "create" => r.obj[o] = "none"
  <2>1. o \in Nat /\ ~(o < o)
    BY <1>1 DEF Oids
  <2>. QED BY <1>1, <2>1, Zenon DEF Accepts, CounterKept, o
<1>4. call.kind # "create" => r.obj[o] # "none"
  BY Zenon DEF Accepts, HasRecord, o
<1>5. /\ \A p \in Oids : p # o => f.obj[p] = r.obj[p]
      /\ call.kind = "create" => f.obj[o] = "active"
      /\ call.kind = "delete" => f.obj[o] = "tomb"
      /\ call.kind \notin {"create", "delete"} => f.obj[o] = r.obj[o]
      /\ f.obj[o] # "none"
  BY <1>1, <1>4, Zenon DEF LiveObjects, o
<1>6. ASSUME NEW p \in Oids PROVE Below(D[p], f.obj[p])
  <2>1. Below(D[p], r.obj[p])
    BY Zenon DEF RecordsKept, D
  <2>. QED BY <1>1, <1>3, <1>5, <2>1, Zenon DEF Below
<1>7. ASSUME NEW i \in 1 .. Len(L), L[i].op \in Ops
      PROVE  /\ f.obj[L[i].op.oid] # "none"
             /\ L[i].op.kind = "delete" => f.obj[L[i].op.oid] = "tomb"
  <2>1. CASE i = k
    BY <1>0, <1>5, <2>1, Zenon DEF o
  <2>2. CASE i # k
    <3>1. i \in 1 .. Len(l) /\ L[i] = l[i]
      BY <1>0, <1>7, <2>2 DEF k
    <3>2. l[i].op.oid \in Oids
      BY <1>7, <3>1, OpShape, Zenon
    <3>3. /\ r.obj[l[i].op.oid] # "none"
          /\ l[i].op.kind = "delete" => r.obj[l[i].op.oid] = "tomb"
      BY <1>7, <3>1, Zenon DEF RecordsKept
    <3>4. r.obj[l[i].op.oid] = "tomb" => f.obj[l[i].op.oid] = "tomb"
      BY <1>1, <1>3, <1>5, <3>2, Zenon DEF Kinds
    <3>5. r.obj[l[i].op.oid] # "none" => f.obj[l[i].op.oid] # "none"
      BY <1>1, <1>5, <3>2, Zenon
    <3>. QED BY <3>1, <3>3, <3>4, <3>5, Zenon
  <2>. QED BY <2>1, <2>2, Zenon
<1>8. ASSUME NEW p \in Oids
      PROVE  \/ f.obj[p] = D[p]
             \/ \E i \in R \cup {k} :
                   \/ Does(L[i], "delete", p)
                   \/ Does(L[i], "create", p) /\ f.obj[p] = "active"
  <2>1. CASE p = o /\ call.kind \in {"create", "delete"}
    BY <1>0, <1>5, <2>1, Zenon DEF Does, o
  <2>2. CASE ~(p = o /\ call.kind \in {"create", "delete"})
    <3>1. f.obj[p] = r.obj[p]
      BY <1>5, <2>2, Zenon
    <3>. QED BY <1>2, <3>1, Zenon DEF RecordsKept, D
  <2>. QED BY <2>1, <2>2, Zenon
<1>9. ASSUME NEW i \in R \cup {k}, L[i].op.kind # "create"
      PROVE  \/ D[L[i].op.oid] # "none"
             \/ \E j \in R \cup {k} : j < i /\ Does(L[j], "create", L[i].op.oid)
  <2>1. CASE i = k
    <3>1. L[i].op = call /\ r.obj[o] # "none"
      BY <1>0, <1>4, <1>9, <2>1, Zenon
    <3>2. CASE r.obj[o] = D[o]
      BY <3>1, <3>2, Zenon DEF o
    <3>3. ASSUME NEW m \in R, Does(l[m], "create", o)
          PROVE  \E j \in R \cup {k} : j < i /\ Does(L[j], "create", L[i].op.oid)
      BY <1>2, <2>1, <3>1, <3>3, Zenon DEF o
    <3>4. ASSUME NEW m \in R, Does(l[m], "delete", o)
          PROVE  \/ D[o] # "none"
                 \/ \E j \in R : Does(l[j], "create", o)
      BY <3>4, ZenonT(60) DEF RecordsKept, Does, D
    <3>. QED BY <1>1, <3>1, <3>2, <3>3, <3>4, Zenon DEF RecordsKept, D, o
  <2>2. CASE i # k
    <3>1. i \in R /\ L[i] = l[i]
      BY <1>2, <2>2, Zenon
    <3>. QED BY <1>2, <1>9, <3>1, Zenon DEF RecordsKept, D
  <2>. QED BY <2>1, <2>2, Zenon
<1>. QED BY <1>0, <1>6, <1>7, <1>8, <1>9, Zenon DEF RecordsKept, L, D

\* The same for the contents: the last write_blob of the log decides.
LEMMA ContentsAppend ==
    ASSUME NEW d, NEW l \in Seq(Entries), NEW r \in Engines,
           NEW call \in Ops, NEW x \in Entries, x.op = call, ~Skips(d, x),
           ContentsKept(d, l, r), NEW f \in Engines, LiveObjects(r, call, f)
    PROVE  ContentsKept(d, Append(l, x), f)
<1>. DEFINE L == Append(l, x)
            R == ToReplay(d, l)
            k == Len(l) + 1
            W(s, i, o) == Does(s[i], "write_blob", o)
<1>0. /\ Len(L) = k /\ k \in Nat /\ Len(l) \in Nat
      /\ \A i \in 1 .. Len(l) : L[i] = l[i]
      /\ L[k] = x /\ ToReplay(d, L) = R \cup {k}
  <2>1. /\ Len(L) = Len(l) + 1 /\ Len(l) \in Nat
        /\ \A i \in 1 .. Len(l) : L[i] = l[i]
        /\ L[Len(l) + 1] = x
        /\ ToReplay(d, L) = R \cup (IF Skips(d, x) THEN {} ELSE {Len(l) + 1})
    BY ToReplayAppend, Zenon
  <2>. HIDE DEF L, R
  <2>. QED BY <2>1
<1>1. call.oid \in Oids /\ r.content \in [Oids -> Contents \cup {NoContent}]
  BY OpShape, FieldTypes, Zenon
<1>2. \A i \in R : i \in 1 .. Len(l) /\ i < k /\ L[i] = l[i]
  BY <1>0, ReplayedEntry
<1>. HIDE DEF L, k
<1>. SUFFICES ASSUME NEW o \in Oids
              PROVE  /\ \A i \in 1 .. Len(L) :
                           /\ W(L, i, o) /\ \A j \in 1 .. Len(L) : W(L, j, o) => j <= i
                           => L[i].op.arg = f.content[o]
                     /\ (\A i \in R \cup {k} : ~W(L, i, o))
                           => f.content[o] = d["obj"].content[o]
  BY <1>0, Zenon DEF ContentsKept, L
<1>3. CASE Does(x, "write_blob", o)
  <2>1. W(L, k, o) /\ k \in 1 .. Len(L)
    BY <1>0, <1>3 DEF k
  <2>2. f.content[o] = call.arg
    BY <1>1, <1>3, Zenon DEF Does, LiveObjects
  <2>3. ASSUME NEW i \in 1 .. Len(L), \A j \in 1 .. Len(L) : W(L, j, o) => j <= i
        PROVE  L[i].op.arg = f.content[o]
    <3>1. i = k
      BY <1>0, <2>1, <2>3
    <3>. QED BY <1>0, <2>2, <3>1, Zenon
  <2>. QED BY <2>1, <2>3, Zenon
<1>4. CASE ~Does(x, "write_blob", o)
  <2>1. f.content[o] = r.content[o]
    BY <1>1, <1>4, Zenon DEF Does, LiveObjects
  <2>2. ~W(L, k, o)
    BY <1>0, <1>4, Zenon
  <2>3. ASSUME NEW i \in 1 .. Len(L), W(L, i, o),
               \A j \in 1 .. Len(L) : W(L, j, o) => j <= i
        PROVE  L[i].op.arg = f.content[o]
    <3>1. i \in 1 .. Len(l) /\ L[i] = l[i]
      <4>1. i # k
        BY <2>2, <2>3, Zenon
      <4>. QED BY <1>0, <4>1 DEF k
    <3>2. ASSUME NEW j \in 1 .. Len(l), W(l, j, o) PROVE j <= i
      <4>1. j \in 1 .. Len(L) /\ L[j] = l[j]
        BY <1>0 DEF k
      <4>. QED BY <2>3, <3>2, <4>1, Zenon
    <3>3. l[i].op.arg = r.content[o]
      BY <2>3, <3>1, <3>2, Zenon DEF ContentsKept
    <3>. QED BY <2>1, <3>1, <3>3, Zenon
  <2>4. (\A i \in R \cup {k} : ~W(L, i, o)) => f.content[o] = d["obj"].content[o]
    <3>1. ASSUME \A i \in R \cup {k} : ~W(L, i, o)
          PROVE  \A i \in R : ~W(l, i, o)
      BY <1>2, <3>1, Zenon
    <3>. QED BY <2>1, <3>1, Zenon DEF ContentsKept
  <2>. QED BY <2>3, <2>4, Zenon
<1>. QED BY <1>3, <1>4, Zenon

\* The same for next_oid_local: a logged create is below it.
LEMMA CounterAppend ==
    ASSUME NEW d, DiskShape(d), NEW l \in Seq(Entries), NEW r \in Engines,
           NEW call \in Ops, NEW x \in Entries, x.op = call, ~Skips(d, x), Accepts(r, call),
           CounterKept(d, l, r), NEW f \in Engines, LiveObjects(r, call, f)
    PROVE  CounterKept(d, Append(l, x), f)
<1>. DEFINE L == Append(l, x)
            R == ToReplay(d, l)
            k == Len(l) + 1
            n == d["blob"].next_oid
<1>0. /\ Len(L) = k /\ k \in Nat /\ Len(l) \in Nat
      /\ \A i \in 1 .. Len(l) : L[i] = l[i]
      /\ L[k] = x /\ ToReplay(d, L) = R \cup {k}
  <2>1. /\ Len(L) = Len(l) + 1 /\ Len(l) \in Nat
        /\ \A i \in 1 .. Len(l) : L[i] = l[i]
        /\ L[Len(l) + 1] = x
        /\ ToReplay(d, L) = R \cup (IF Skips(d, x) THEN {} ELSE {Len(l) + 1})
    BY ToReplayAppend, Zenon
  <2>. HIDE DEF L, R
  <2>. QED BY <2>1
<1>1. /\ call.oid \in Oids /\ call.oid \in Nat
      /\ r.obj \in [Oids -> {"none", "active", "tomb"}]
      /\ r.next_oid \in Nat /\ n \in Nat
  BY OpShape, FieldTypes, OidAssumption, SMTT(60) DEF DiskShape, Oids
<1>2. \A i \in R : i \in 1 .. Len(l) /\ L[i] = l[i]
  BY <1>0, ReplayedEntry, Zenon
<1>. HIDE DEF L, k, n, R
<1>3. call.kind = "create" => call.oid = r.next_oid /\ f.next_oid = r.next_oid + 1
  BY Zenon DEF Accepts, LiveObjects
<1>4. call.kind # "create" => f.next_oid = r.next_oid
  BY Zenon DEF LiveObjects
<1>5. n <= f.next_oid /\ r.next_oid <= f.next_oid /\ f.next_oid \in Nat
  <2>1. n <= r.next_oid
    BY Zenon DEF CounterKept, n
  <2>. QED BY <1>1, <1>3, <1>4, <2>1, SMTT(60)
<1>6. ASSUME NEW i \in 1 .. Len(L), L[i].op.kind = "create"
      PROVE  L[i].op.oid < f.next_oid
  <2>1. CASE i = k
    BY <1>0, <1>1, <1>3, <1>6, <2>1
  <2>2. CASE i # k
    <3>1. i \in 1 .. Len(l) /\ L[i] = l[i]
      BY <1>0, <2>2 DEF k
    <3>2. l[i].op.oid < r.next_oid
      BY <1>6, <3>1, Zenon DEF CounterKept
    <3>3. l[i].op.oid \in Nat
      <4>1. l[i] \in Entries /\ l[i].op.kind = "create"
        BY <1>6, <3>1
      <4>2. CheckpointOp.kind # "create"
        BY Zenon DEF CheckpointOp
      <4>3. l[i].op \in Ops
        BY <4>1, <4>2, Zenon DEF Entries
      <4>. QED BY <4>3, OpShape DEF Oids
    <3>. QED BY <1>1, <1>5, <3>1, <3>2, <3>3, SMTT(60)
  <2>. QED BY <2>1, <2>2, Zenon
<1>7. \/ f.next_oid = n
      \/ \E i \in R \cup {k} : Does(L[i], "create", f.next_oid - 1)
  <2>1. CASE call.kind = "create"
    <3>1. f.next_oid - 1 = call.oid
      BY <1>1, <1>3, <2>1
    <3>2. Does(L[k], "create", f.next_oid - 1)
      BY <1>0, <2>1, <3>1, Zenon DEF Does
    <3>. QED BY <3>2, Zenon
  <2>2. CASE call.kind # "create"
    BY <1>2, <1>4, <2>2, Zenon DEF CounterKept, n, R
  <2>. QED BY <2>1, <2>2, Zenon
<1>8. ASSUME NEW o \in Oids PROVE f.obj[o] # "none" <=> o < f.next_oid
  <2>1. o \in Nat /\ (r.obj[o] # "none" <=> o < r.next_oid)
    BY DEF CounterKept, Oids
  <2>2. CASE call.kind = "create"
    <3>1. f.obj[o] = IF o = call.oid THEN "active" ELSE r.obj[o]
      BY <1>1, <2>2, Zenon DEF LiveObjects
    <3>. QED BY <1>1, <1>3, <2>1, <2>2, <3>1
  <2>3. CASE call.kind # "create"
    <3>1. f.obj[o] # "none" <=> r.obj[o] # "none"
      BY <1>1, <2>3, Zenon DEF LiveObjects
    <3>. QED BY <1>4, <2>1, <2>3, <3>1, Zenon
  <2>. QED BY <2>2, <2>3, Zenon
<1>. QED BY <1>0, <1>5, <1>6, <1>7, <1>8, Zenon DEF CounterKept, L, n

\* A logged mutation: append_wal after the engine's own call.
LEMMA ObjectsAppend ==
    ASSUME NEW d, DiskShape(d), NEW l \in Seq(Entries), NEW r \in Engines,
           NEW call \in Ops, NEW x \in Entries, x.op = call, ~Skips(d, x), Accepts(r, call),
           ObjectsKept(d, l, r)
    PROVE  ObjectsKept(d, Append(l, x), Live(r, call))
<1>1. Live(r, call) \in Engines /\ LiveObjects(r, call, Live(r, call))
  BY LiveFields, Zenon DEF Accepts
<1>. QED BY <1>1, RecordsAppend, ContentsAppend, CounterAppend, Zenon DEF ObjectsKept

\* A checkpoint entry says nothing about objects.
LEMMA ObjectsCheckpoint ==
    ASSUME NEW d, NEW l \in Seq(Entries), NEW r,
           NEW x \in Entries, x.op = CheckpointOp, ObjectsKept(d, l, r)
    PROVE  ObjectsKept(d, Append(l, x), r)
<1>. DEFINE L == Append(l, x)
            R == ToReplay(d, l)
            k == Len(l) + 1
<1>0. /\ Len(L) = k /\ Len(l) \in Nat
      /\ \A i \in 1 .. Len(l) : L[i] = l[i]
      /\ L[k] = x /\ ToReplay(d, L) = R
  <2>1. /\ Len(L) = Len(l) + 1 /\ Len(l) \in Nat
        /\ \A i \in 1 .. Len(l) : L[i] = l[i]
        /\ L[Len(l) + 1] = x
        /\ ToReplay(d, L) = R \cup (IF Skips(d, x) THEN {} ELSE {Len(l) + 1})
    BY ToReplayAppend, Zenon
  <2>2. Skips(d, x)
    BY Zenon DEF Skips
  <2>. HIDE DEF L, R
  <2>. QED BY <2>1, <2>2, Zenon
<1>1. \A i \in R : i \in 1 .. Len(l) /\ L[i] = l[i]
  BY <1>0, ReplayedEntry, Zenon
<1>2. x.op.kind \notin Kinds /\ x.op \notin Ops
  <2>1. x.op.kind \notin Kinds
    BY DEF CheckpointOp, Kinds
  <2>. QED BY <2>1, OpShape, Zenon
<1>3. \A i \in 1 .. Len(L) : (i \in 1 .. Len(l) /\ L[i] = l[i]) \/ L[i] = x
  BY <1>0, SMTT(60)
<1>4. \A i \in 1 .. Len(l) : i \in 1 .. Len(L)
  BY <1>0
<1>. HIDE DEF L, k, R
<1>5. RecordsKept(d, L, r)
  BY <1>0, <1>1, <1>2, <1>3, ZenonT(60) DEF ObjectsKept, RecordsKept, R
<1>6. ContentsKept(d, L, r)
  <2>1. \A o : ~Does(x, "write_blob", o)
    BY <1>2, Zenon DEF Does, Kinds
  <2>2. ASSUME NEW o \in Oids, NEW i \in 1 .. Len(L), Does(L[i], "write_blob", o),
               \A j \in 1 .. Len(L) : Does(L[j], "write_blob", o) => j <= i
        PROVE  L[i].op.arg = r.content[o]
    <3>1. i \in 1 .. Len(l) /\ L[i] = l[i]
      BY <1>3, <2>1, <2>2, Zenon
    <3>2. \A j \in 1 .. Len(l) : Does(l[j], "write_blob", o) => j <= i
      BY <1>0, <1>4, <2>2, Zenon
    <3>. QED BY <2>2, <3>1, <3>2, Zenon DEF ObjectsKept, ContentsKept
  <2>. QED BY <1>0, <1>1, <2>2, Zenon DEF ObjectsKept, ContentsKept, R
<1>7. CounterKept(d, L, r)
  BY <1>0, <1>1, <1>2, <1>3, Zenon DEF ObjectsKept, CounterKept, R, Kinds
<1>. QED BY <1>5, <1>6, <1>7, Zenon DEF ObjectsKept, L

\* The regions take over r's object table, with r's counter or, when the save
\* is cut before the last region, with the old one.
LEMMA ObjectsSaved ==
    ASSUME NEW d, DiskShape(d), NEW l \in Seq(Entries), LogOrdered(l), NEW r \in Engines,
           ObjectsKept(d, l, r), NEW s, DiskShape(s),
           s["obj"].obj = r.obj, s["obj"].content = r.content,
           s["blob"] = d["blob"] \/ s["blob"].next_oid = r.next_oid
    PROVE  ObjectsKept(s, l, r)
<1>1. \A i \in ToReplay(s, l) : i \in 1 .. Len(l) /\ l[i].op \in Ops
  BY ReplayedEntry, Zenon
<1>2. RecordsKept(s, l, r)
  BY <1>1, Zenon DEF ObjectsKept, RecordsKept, Below
<1>3. ContentsKept(s, l, r)
  BY Zenon DEF ObjectsKept, ContentsKept
<1>4. s["blob"] = d["blob"] => ToReplay(s, l) = ToReplay(d, l)
  BY Zenon DEF ToReplay, Skips
<1>5. /\ s["blob"].next_oid <= r.next_oid
      /\ \/ r.next_oid = s["blob"].next_oid
         \/ \E i \in ToReplay(s, l) : Does(l[i], "create", r.next_oid - 1)
  <2>1. r.next_oid \in Nat
    BY FieldTypes, OidAssumption
  <2>. QED BY <1>4, <2>1, SMTT(60) DEF ObjectsKept, CounterKept
<1>6. \A o \in Oids : o < s["blob"].next_oid => s["obj"].obj[o] # "none"
  <2>1. r.next_oid \in Nat /\ s["blob"].next_oid \in Nat /\ Oids \subseteq Nat
    BY FieldTypes, OidAssumption, SMTT(60) DEF DiskShape, Oids
  <2>. QED BY <1>5, <2>1, SMTT(60) DEF ObjectsKept, CounterKept
<1>7. CounterKept(s, l, r)
  BY <1>5, <1>6, Zenon DEF ObjectsKept, CounterKept
<1>. QED BY <1>2, <1>3, <1>7, Zenon DEF ObjectsKept

\* A save that did not reach the object table.
LEMMA ObjectsUntouched ==
    ASSUME NEW d, NEW l, NEW r, ObjectsKept(d, l, r), NEW s,
           s["obj"] = d["obj"], s["blob"] = d["blob"]
    PROVE  ObjectsKept(s, l, r)
<1>1. ToReplay(s, l) = ToReplay(d, l)
  BY Zenon DEF ToReplay, Skips
<1>. QED BY <1>1, Zenon DEF ObjectsKept, RecordsKept, ContentsKept, CounterKept

\* Trimming the log: the regions hold the object table.
LEMMA ObjectsTrimmed ==
    ASSUME NEW d, DiskShape(d), NEW r \in Engines,
           \A o \in Oids : r.obj[o] # "none" <=> o < r.next_oid,
           d["obj"].obj = r.obj, d["obj"].content = r.content,
           d["blob"].next_oid = r.next_oid
    PROVE  ObjectsKept(d, << >>, r)
<1>1. Len(<< >>) = 0 /\ 1 .. 0 = {} /\ ToReplay(d, << >>) = {}
  BY DEF ToReplay
<1>2. r.next_oid <= r.next_oid
  BY FieldTypes, OidAssumption
<1>. QED BY <1>1, <1>2, Zenon DEF ObjectsKept, RecordsKept, ContentsKept, CounterKept, Below

-----------------------------------------------------------------------------
(* Attributes.  Values come back from the regions as Zero, so the counts   *)
(* of the recovered engine say little; what matters is that a lookup finds *)
(* no less than it should.                                                 *)

\* In an engine that was never recovered, what a lookup finds is held.
AttrsSound(r) ==
    /\ \A o \in Oids, a \in Attrs : o \in r.kv[a] => r.attrs[o][a] # 0
    /\ \A o \in Oids, n \in NormKeys : o \in r.range[n] =>
          \E a \in Attrs : NormOf(a) = n /\ r.attrs[o][a] # 0
    /\ \A o \in Oids, a \in Attrs : a[2] = Zero /\ o \in r.range[NormOf(a)] => o \in r.kv[a]

\* Engine e finds what r finds.  A remove takes an object out of a range
\* bucket that other values share only if r held the value as well.
Covers(e, r) ==
    /\ \A o \in Oids, a \in Attrs : o \in r.kv[a] => o \in e.kv[a]
    /\ \A o \in Oids, n \in NormKeys : o \in r.range[n] => o \in e.range[n]
    /\ \A o \in Oids, a \in Attrs : a[2] # Zero => e.attrs[o][a] <= r.attrs[o][a]

\* The placeholder has a range bucket to itself.
LEMMA ZeroNorm ==
    ASSUME NEW a \in Attrs, NEW b \in Attrs, a[2] = Zero, NormOf(a) = NormOf(b)
    PROVE  a = b
<1>1. a[1] = b[1] /\ Norm[b[2]] = Norm[Zero]
  BY Zenon DEF NormOf
<1>2. b[2] \in Vals /\ a = <<a[1], a[2]>> /\ b = <<b[1], b[2]>>
  BY DEF Attrs
<1>. QED BY <1>1, <1>2, PlaceholderAssumption, Zenon

\* Every attribute has a range bucket.
LEMMA NormTyped == \A a \in Attrs : NormOf(a) \in NormKeys
BY Zenon DEF Attrs, NormOf, NormKeys

\* A live call keeps the history's indexes sound.
LEMMA SoundStep ==
    ASSUME NEW r \in Engines, NEW call \in Ops, AttrsSound(r), NEW g, AttrStep(r, call, g, TRUE)
    PROVE  AttrsSound(g)
<1>0. \A o \in Oids, a \in Attrs : r.attrs[o][a] \in Nat
  BY FieldTypes
<1>1. ASSUME NEW o \in Oids, NEW a \in Attrs,
             Sets(call, o, a) \/ (r.attrs[o][a] # 0 /\ ~Unindexes(r, call, o, a, TRUE))
      PROVE  g.attrs[o][a] # 0
  BY <1>0, <1>1 DEF AttrStep, AttrCounts, Unindexes
<1>2. ASSUME NEW o \in Oids, NEW a \in Attrs, o \in g.kv[a] PROVE g.attrs[o][a] # 0
  BY <1>1, <1>2, Zenon DEF AttrStep, AttrLookups, AttrsSound
<1>3. ASSUME NEW o \in Oids, NEW n \in NormKeys, o \in g.range[n]
      PROVE  \E a \in Attrs : NormOf(a) = n /\ g.attrs[o][a] # 0
  <2>1. CASE \E a \in Attrs : NormOf(a) = n /\ Sets(call, o, a)
    BY <1>1, <2>1, Zenon
  <2>2. CASE o \in r.range[n] /\ \A a \in Attrs : NormOf(a) = n => ~Unindexes(r, call, o, a, TRUE)
    <3>1. PICK a \in Attrs : NormOf(a) = n /\ r.attrs[o][a] # 0
      BY <2>2, Zenon DEF AttrsSound
    <3>. QED BY <1>1, <2>2, <3>1, Zenon
  <2>. QED BY <1>3, <2>1, <2>2, Zenon DEF AttrStep, AttrLookups
<1>4. ASSUME NEW o \in Oids, NEW a \in Attrs, a[2] = Zero, o \in g.range[NormOf(a)]
      PROVE  o \in g.kv[a]
  <2>1. CASE \E b \in Attrs : NormOf(b) = NormOf(a) /\ Sets(call, o, b)
    <3>1. Sets(call, o, a)
      BY <1>4, <2>1, ZeroNorm, Zenon
    <3>. QED BY <3>1, Zenon DEF AttrStep, AttrLookups
  <2>2. CASE o \in r.range[NormOf(a)]
             /\ \A b \in Attrs : NormOf(b) = NormOf(a) => ~Unindexes(r, call, o, b, TRUE)
    <3>1. o \in r.kv[a]
      BY <1>4, <2>2, Zenon DEF AttrsSound
    <3>. QED BY <2>2, <3>1, Zenon DEF AttrStep, AttrLookups
  <2>. QED BY <1>4, <2>1, <2>2, NormTyped, Zenon DEF AttrStep, AttrLookups
<1>. QED BY <1>2, <1>3, <1>4, Zenon DEF AttrsSound

\* Whatever the history runs, e runs or replays without finding less.
LEMMA CoversStep ==
    ASSUME NEW e \in Engines, NEW r \in Engines, NEW call \in Ops, Covers(e, r), AttrsSound(r),
           NEW live, NEW f, AttrStep(e, call, f, live), NEW g, AttrStep(r, call, g, TRUE)
    PROVE  Covers(f, g)
<1>0. \A o \in Oids, a \in Attrs : e.attrs[o][a] \in Nat /\ r.attrs[o][a] \in Nat
  BY FieldTypes, SMTT(60)
<1>1. ASSUME NEW o \in Oids, NEW a \in Attrs, o \in g.kv[a] PROVE o \in f.kv[a]
  <2>1. CASE Sets(call, o, a)
    BY <2>1, Zenon DEF AttrStep, AttrLookups
  <2>2. CASE o \in r.kv[a] /\ ~Unindexes(r, call, o, a, TRUE)
    <3>1. r.attrs[o][a] # 0 /\ o \in e.kv[a]
      BY <2>2, Zenon DEF AttrsSound, Covers
    <3>2. ~Removes(call, o, a) /\ ~Deletes(call, o)
      BY <2>2, <3>1, Zenon DEF Unindexes
    <3>. QED BY <3>1, <3>2, Zenon DEF AttrStep, AttrLookups, Unindexes
  <2>. QED BY <1>1, <2>1, <2>2, Zenon DEF AttrStep, AttrLookups
<1>2. ASSUME NEW o \in Oids, NEW n \in NormKeys, o \in g.range[n] PROVE o \in f.range[n]
  <2>1. CASE \E a \in Attrs : NormOf(a) = n /\ Sets(call, o, a)
    BY <2>1, Zenon DEF AttrStep, AttrLookups
  <2>2. CASE o \in r.range[n] /\ \A a \in Attrs : NormOf(a) = n => ~Unindexes(r, call, o, a, TRUE)
    <3>1. PICK b \in Attrs : NormOf(b) = n /\ r.attrs[o][b] # 0
      BY <2>2, Zenon DEF AttrsSound
    <3>2. ~Deletes(call, o) /\ ~Removes(call, o, b)
      BY <2>2, <3>1, Zenon DEF Unindexes
    <3>3. ASSUME NEW a \in Attrs, NormOf(a) = n, Removes(call, o, a) PROVE e.attrs[o][a] = 0
      <4>1. r.attrs[o][a] = 0
        BY <2>2, <3>3, Zenon DEF Unindexes
      <4>2. a[2] # Zero
        BY <3>1, <3>2, <3>3, ZeroNorm, Zenon
      <4>3. e.attrs[o][a] <= r.attrs[o][a]
        BY <4>2, Zenon DEF Covers
      <4>. QED BY <1>0, <4>1, <4>3, SMTT(60)
    <3>4. \A a \in Attrs : NormOf(a) = n => ~Unindexes(e, call, o, a, live)
      BY <3>2, <3>3, Zenon DEF Unindexes
    <3>5. o \in e.range[n]
      BY <2>2, Zenon DEF Covers
    <3>. QED BY <3>4, <3>5, Zenon DEF AttrStep, AttrLookups
  <2>. QED BY <1>2, <2>1, <2>2, Zenon DEF AttrStep, AttrLookups
<1>3. ASSUME NEW o \in Oids, NEW a \in Attrs, a[2] # Zero
      PROVE  f.attrs[o][a] <= g.attrs[o][a]
  <2>1. e.attrs[o][a] <= r.attrs[o][a] /\ e.attrs[o][a] \in Nat /\ r.attrs[o][a] \in Nat
    BY <1>0, <1>3, Zenon DEF Covers
  <2>. QED BY <2>1, FewerStep, Zenon
<1>. QED BY <1>1, <1>2, <1>3, Zenon DEF Covers

\* A remove_attr of the log whose attribute is there again was followed by
\* the set_attr that put it there.
SetLater(l, r) ==
    \A i \in 1 .. Len(l), o \in Oids, a \in Attrs :
        Removes(l[i].op, o, a) /\ o \in r.kv[a] =>
            \E j \in 1 .. Len(l) : i < j /\ Sets(l[j].op, o, a)

\* One more entry of the log, a mutation or a checkpoint.
LEMMA SetLaterAppend ==
    ASSUME NEW l \in Seq(Entries), NEW r, SetLater(l, r), NEW x \in Entries, NEW g,
           \/ g = r /\ x.op = CheckpointOp
           \/ AttrsSound(r) /\ AttrStep(r, x.op, g, TRUE)
    PROVE  SetLater(Append(l, x), g)
<1>. DEFINE L == Append(l, x)
            k == Len(l) + 1
<1>0. /\ Len(l) \in Nat /\ Len(L) = k /\ L[k] = x
      /\ \A i \in 1 .. Len(l) : L[i] = l[i] /\ i \in 1 .. k /\ i < k
      /\ \A i \in 1 .. k : i \in 1 .. Len(l) \/ i = k
      /\ k \in 1 .. k
  OBVIOUS
<1>. HIDE DEF L
<1>1. ASSUME NEW o \in Oids, NEW a \in Attrs, o \in g.kv[a]
      PROVE  Sets(x.op, o, a) \/ (o \in r.kv[a] /\ ~Removes(x.op, o, a))
  <2>1. CASE g = r /\ x.op = CheckpointOp
    BY <1>1, <2>1, SMTT(60) DEF Removes, CheckpointOp
  <2>2. CASE AttrsSound(r) /\ AttrStep(r, x.op, g, TRUE)
    BY <1>1, <2>2, Zenon DEF AttrsSound, AttrStep, AttrLookups, Unindexes
  <2>. QED BY <2>1, <2>2, Zenon
<1>. SUFFICES ASSUME NEW i \in 1 .. k, NEW o \in Oids, NEW a \in Attrs,
                     Removes(L[i].op, o, a), o \in g.kv[a]
              PROVE  \E j \in 1 .. k : i < j /\ Sets(L[j].op, o, a)
  BY <1>0, Zenon DEF SetLater, L
<1>2. CASE i = k
  <2>1. ~Sets(x.op, o, a)
    BY <1>0, <1>2, Zenon DEF Sets, Removes
  <2>. QED BY <1>0, <1>1, <1>2, <2>1, Zenon
<1>3. CASE i # k
  <2>1. i \in 1 .. Len(l) /\ L[i] = l[i] /\ i < k
    BY <1>0, <1>3, Zenon
  <2>2. CASE Sets(x.op, o, a)
    BY <1>0, <2>1, <2>2, Zenon
  <2>3. CASE o \in r.kv[a]
    <3>1. PICK j \in 1 .. Len(l) : i < j /\ Sets(l[j].op, o, a)
      BY <2>1, <2>3, Zenon DEF SetLater
    <3>. QED BY <1>0, <3>1, Zenon
  <2>. QED BY <1>1, <2>2, <2>3, Zenon
<1>. QED BY <1>2, <1>3, Zenon

\* One round of the loop and the attributes.
LEMMA ReplayRoundAttrs ==
    ASSUME NEW d, DiskShape(d), NEW l \in Seq(Entries), NEW n \in 1 .. Len(l)
    PROVE  LET e == Replays(d, l)[n - 1]
               f == Replays(d, l)[n]
           IN  /\ e \in Engines
               /\ n \notin ToReplay(d, l) => f = e
               /\ n \in ToReplay(d, l) => l[n].op \in Ops /\ AttrStep(e, l[n].op, f, FALSE)
<1>1. CASE n \in ToReplay(d, l)
  BY <1>1, ReplayRound, ReplayAttrs, ZenonT(60)
<1>2. CASE n \notin ToReplay(d, l)
  BY <1>2, ReplayRound, Zenon
<1>. QED BY <1>1, <1>2, Zenon

\* The regions keep no value but the placeholder.
Placeheld(d) == \A o \in Oids, a \in Attrs : a[2] # Zero => d["fwd"].attrs[o][a] = 0

\* Regions s saved over d: what s replays, d replays too, from there to the
\* end of the log.
LEMMA SavedReplay ==
    ASSUME NEW d, DiskShape(d), NEW s, DiskShape(s), NEW l \in Seq(Entries), LogOrdered(l),
           d["blob"].applied <= s["blob"].applied
    PROVE  /\ ToReplay(s, l) \subseteq ToReplay(d, l)
           /\ \A n \in ToReplay(d, l) \ ToReplay(s, l), i \in ToReplay(s, l) : n < i
<1>1. ToReplay(s, l) \subseteq ToReplay(d, l)
  <2>. SUFFICES ASSUME NEW i \in ToReplay(s, l) PROVE i \in ToReplay(d, l)
    BY Zenon
  <2>1. l[i].lsn \in Nat /\ d["blob"].applied \in Nat /\ s["blob"].applied \in Nat
    BY ReplayedEntry, Zenon DEF DiskShape
  <2>. QED BY <2>1, SMTT(60) DEF ToReplay, Skips
<1>2. ASSUME NEW n \in ToReplay(d, l), n \notin ToReplay(s, l), NEW i \in ToReplay(s, l)
      PROVE  n < i
  <2>1. n \in 1 .. Len(l) /\ i \in Nat /\ n \in Nat /\ l[n].op \in Ops
    BY ReplayedEntry, Zenon
  <2>2. ~(i < n)
    BY <1>2, <2>1, ReplayedSuffix, Zenon
  <2>. QED BY <1>2, <2>1, <2>2
<1>. QED BY <1>1, <1>2, Zenon

-----------------------------------------------------------------------------
(* Positions in a log, and counts of attributes.                           *)

\* The rounds of a replay are counted from 0, one for each entry.
LEMMA Positions ==
    ASSUME NEW m \in Nat
    PROVE  /\ 0 \in 0 .. m
           /\ \A n \in 1 .. m : n \in 0 .. m /\ n \in Nat /\ n - 1 \in 0 .. m
  OBVIOUS

\* What comes after round n - 1 is n or comes after it.
LEMMA Before ==
    ASSUME NEW n \in Nat
    PROVE  /\ ~(n < n)
           /\ \A j \in Nat : n < j => n - 1 < j
           /\ \A j \in Nat : n - 1 < j => j = n \/ n < j
  OBVIOUS

\* Counts that grow twice have grown.
LEMMA AtMost ==
    ASSUME NEW x \in Nat, NEW y \in Nat, NEW z \in Nat, x <= y, y <= z
    PROVE  x <= z
  OBVIOUS

\* An engine counts the copies of an attribute.
LEMMA AttrCount ==
    ASSUME NEW e \in Engines, NEW o \in Oids, NEW a \in Attrs
    PROVE  e.attrs[o][a] \in Nat
<1>1. e.attrs \in [Oids -> [Attrs -> Nat]]
  BY FieldTypes, Zenon
<1>. QED BY <1>1, Zenon

\* The replay over s in lock step with the one over d.
LEMMA LockStep ==
    ASSUME NEW d, DiskShape(d), NEW s, DiskShape(s), NEW l \in Seq(Entries), LogOrdered(l),
           d["blob"].applied <= s["blob"].applied, Placeheld(s),
           NEW r, Covers(Loaded(s), r), Covers(Recovered(d, l), r)
    PROVE  LET q == Recovered(s, l)
           IN  /\ \A o \in Oids, a \in Attrs : a[2] # Zero => q.attrs[o][a] <= Recovered(d, l).attrs[o][a]
               /\ \A o \in Oids, n \in NormKeys :
                     o \in r.range[n] /\ (\A a \in Attrs : NormOf(a) = n => a[2] # Zero)
                         => o \in q.range[n]
<1>. DEFINE D(n) == Replays(d, l)[n]
            Q(n) == Replays(s, l)[n]
            Fewer(n) == \A o \in Oids, a \in Attrs : a[2] # Zero => Q(n).attrs[o][a] <= D(n).attrs[o][a]
            Finds(n) == \A o \in Oids, m \in NormKeys :
                            /\ o \in r.range[m] /\ o \in D(n).range[m]
                            /\ \A a \in Attrs : NormOf(a) = m => a[2] # Zero
                            => o \in Q(n).range[m]
            Early(n) == (\A i \in ToReplay(s, l) : n < i) => Q(n) = Loaded(s)
            S == {n \in 0 .. Len(l) : Fewer(n) /\ Finds(n) /\ Early(n)}
<1>0. /\ Len(l) \in Nat
      /\ ToReplay(s, l) \subseteq ToReplay(d, l)
      /\ \A n \in ToReplay(d, l) \ ToReplay(s, l), i \in ToReplay(s, l) : n < i
  BY SavedReplay, SMTT(60)
<1>1. ASSUME NEW n \in 0 .. Len(l), Q(n) = Loaded(s) PROVE Fewer(n) /\ Finds(n)
  <2>1. D(n) \in Engines
    BY ReplaysTyped, Zenon
  <2>2. Q(n).attrs = s["fwd"].attrs
    BY <1>1, LoadedFields, Zenon
  <2>3. Fewer(n)
    <3>. SUFFICES ASSUME NEW o \in Oids, NEW a \in Attrs, a[2] # Zero
                  PROVE  Q(n).attrs[o][a] <= D(n).attrs[o][a]
      BY Zenon
    <3>1. D(n).attrs[o][a] \in Nat
      BY <2>1, AttrCount, Zenon
    <3>2. Q(n).attrs[o][a] = 0
      BY <2>2, Zenon DEF Placeheld
    <3>. HIDE DEF D, Q
    <3>. QED BY <3>1, <3>2
  <2>4. Finds(n)
    BY <1>1, Zenon DEF Covers
  <2>. QED BY <2>3, <2>4, Zenon
<1>2. 0 \in S
  <2>1. Q(0) = Loaded(s)
    BY <1>0, ReplaysStep, Zenon
  <2>2. 0 \in 0 .. Len(l)
    BY <1>0, Positions, Zenon
  <2>. QED BY <1>1, <2>1, <2>2, Zenon
<1>3. ASSUME NEW n \in 1 .. Len(l), n - 1 \in S PROVE n \in S
  <2>. DEFINE call == l[n].op
  <2>0. n \in 0 .. Len(l) /\ Fewer(n - 1) /\ Finds(n - 1) /\ Early(n - 1) /\ n \in Nat
    <3>1. n \in 0 .. Len(l) /\ n \in Nat
      BY <1>0, <1>3, Positions, Zenon
    <3>2. Fewer(n - 1) /\ Finds(n - 1) /\ Early(n - 1)
      BY <1>3, Zenon
    <3>. QED BY <3>1, <3>2, Zenon
  <2>1. /\ D(n - 1) \in Engines /\ Q(n - 1) \in Engines
        /\ n \notin ToReplay(d, l) => D(n) = D(n - 1)
        /\ n \notin ToReplay(s, l) => Q(n) = Q(n - 1)
        /\ n \in ToReplay(d, l) => AttrStep(D(n - 1), call, D(n), FALSE)
        /\ n \in ToReplay(s, l) => AttrStep(Q(n - 1), call, Q(n), FALSE)
    BY ReplayRoundAttrs, Zenon
  <2>2. Early(n)
    <3>. SUFFICES ASSUME \A i \in ToReplay(s, l) : n < i PROVE Q(n) = Loaded(s)
      BY Zenon
    <3>1. n \notin ToReplay(s, l)
      BY <2>0, Before, Zenon
    <3>2. \A i \in ToReplay(s, l) : n - 1 < i
      BY <2>0, ReplayedEntry, Before, Zenon
    <3>. QED BY <2>0, <2>1, <3>1, <3>2, Zenon
  <2>3. CASE n \in ToReplay(d, l) \ ToReplay(s, l)
    <3>1. Q(n) = Loaded(s)
      BY <1>0, <2>2, <2>3, Zenon
    <3>. QED BY <1>1, <2>0, <2>2, <3>1, Zenon
  <2>4. CASE n \notin ToReplay(d, l)
    <3>1. D(n) = D(n - 1) /\ Q(n) = Q(n - 1)
      BY <1>0, <2>1, <2>4, Zenon
    <3>. HIDE DEF D, Q
    <3>. QED BY <2>0, <2>2, <3>1, Zenon
  <2>5. CASE n \in ToReplay(s, l)
    <3>. DEFINE e == Q(n - 1)
                f == Q(n)
                g == D(n - 1)
                h == D(n)
    <3>1. AttrStep(e, call, f, FALSE) /\ AttrStep(g, call, h, FALSE)
      BY <1>0, <2>1, <2>5, Zenon
    <3>2. \A o \in Oids, a \in Attrs : e.attrs[o][a] \in Nat /\ g.attrs[o][a] \in Nat
      <4>1. e \in Engines /\ g \in Engines
        BY <2>1, Zenon
      <4>. HIDE DEF e, g
      <4>. QED BY <4>1, AttrCount, Zenon
    <3>. HIDE DEF call, D, Q
    <3>3. ASSUME NEW o \in Oids, NEW a \in Attrs, a[2] # Zero PROVE f.attrs[o][a] <= h.attrs[o][a]
      <4>1. e.attrs[o][a] <= g.attrs[o][a] /\ e.attrs[o][a] \in Nat /\ g.attrs[o][a] \in Nat
        BY <2>0, <3>2, <3>3, Zenon
      <4>. QED BY <3>1, <4>1, FewerStep, Zenon
    <3>4. ASSUME NEW o \in Oids, NEW m \in NormKeys, o \in r.range[m], o \in h.range[m],
                 \A a \in Attrs : NormOf(a) = m => a[2] # Zero
          PROVE  o \in f.range[m]
      <4>1. CASE \E a \in Attrs : NormOf(a) = m /\ Sets(call, o, a)
        BY <3>1, <4>1, Zenon DEF AttrStep, AttrLookups
      <4>2. CASE o \in g.range[m] /\ \A a \in Attrs : NormOf(a) = m => ~Unindexes(g, call, o, a, FALSE)
        <5>1. o \in e.range[m]
          BY <2>0, <3>4, <4>2, Zenon
        <5>2. ASSUME NEW a \in Attrs, NormOf(a) = m PROVE ~Unindexes(e, call, o, a, FALSE)
          <6>1. e.attrs[o][a] <= g.attrs[o][a] /\ e.attrs[o][a] \in Nat /\ g.attrs[o][a] \in Nat
            BY <2>0, <3>2, <3>4, <5>2, Zenon
          <6>2. ~Unindexes(g, call, o, a, FALSE)
            BY <4>2, <5>2, Zenon
          <6>. QED BY <6>1, <6>2, SMTT(60) DEF Unindexes
        <5>. QED BY <3>1, <5>1, <5>2, Zenon DEF AttrStep, AttrLookups
      <4>. QED BY <3>1, <3>4, <4>1, <4>2, Zenon DEF AttrStep, AttrLookups
    <3>5. Fewer(n) /\ Finds(n)
      BY <3>3, <3>4, Zenon
    <3>. QED BY <2>0, <2>2, <3>5, Zenon
  <2>. QED BY <1>0, <2>3, <2>4, <2>5, Zenon
<1>4. Len(l) \in S
  <2>. HIDE DEF S
  <2>. QED BY <1>0, <1>2, <1>3, ReplayInduction, Zenon
<1>5. Fewer(Len(l)) /\ Finds(Len(l))
  BY <1>4, Zenon
<1>. QED BY <1>5, Zenon DEF Recovered, Covers

\* A replayed remove_attr takes nothing away for good: the set_attr that put
\* the attribute back is replayed after it.
LEMMA SetAgain ==
    ASSUME NEW s, DiskShape(s), NEW l \in Seq(Entries), LogOrdered(l),
           NEW r, AttrsSound(r), SetLater(l, r), Covers(Loaded(s), r)
    PROVE  LET q == Recovered(s, l)
           IN  \A o \in Oids, a \in Attrs : o \in r.kv[a] =>
                   /\ o \in q.kv[a]
                   /\ a[2] = Zero /\ o \in r.range[NormOf(a)] => o \in q.range[NormOf(a)]
<1>. DEFINE Q(n) == Replays(s, l)[n]
            Later(n, o, a) == \E j \in ToReplay(s, l) : n < j /\ Sets(l[j].op, o, a)
            Has(n, o, a) == /\ o \in Q(n).kv[a]
                            /\ a[2] = Zero /\ o \in r.range[NormOf(a)] => o \in Q(n).range[NormOf(a)]
            Good(n) == \A o \in Oids, a \in Attrs : o \in r.kv[a] => Later(n, o, a) \/ Has(n, o, a)
            S == {n \in 0 .. Len(l) : Good(n)}
<1>0. Len(l) \in Nat
  OBVIOUS
<1>1. 0 \in S
  <2>1. Q(0) = Loaded(s)
    BY <1>0, ReplaysStep, Zenon
  <2>2. 0 \in 0 .. Len(l)
    BY <1>0, Positions, Zenon
  <2>3. Good(0)
    BY <2>1, NormTyped, Zenon DEF Covers
  <2>. QED BY <2>2, <2>3, Zenon
<1>2. ASSUME NEW n \in 1 .. Len(l), n - 1 \in S PROVE n \in S
  <2>. DEFINE call == l[n].op
  <2>0. n \in 0 .. Len(l) /\ Good(n - 1) /\ n \in Nat
    <3>1. n \in 0 .. Len(l) /\ n \in Nat
      BY <1>0, <1>2, Positions, Zenon
    <3>2. Good(n - 1)
      BY <1>2, Zenon
    <3>. QED BY <3>1, <3>2, Zenon
  <2>1. /\ n \notin ToReplay(s, l) => Q(n) = Q(n - 1)
        /\ n \in ToReplay(s, l) => AttrStep(Q(n - 1), call, Q(n), FALSE)
    BY ReplayRoundAttrs, Zenon
  <2>2. \A j \in ToReplay(s, l) : n - 1 < j => j = n \/ n < j
    BY <2>0, ReplayedEntry, Before, Zenon
  <2>. SUFFICES ASSUME NEW o \in Oids, NEW a \in Attrs, o \in r.kv[a]
                PROVE  Later(n, o, a) \/ Has(n, o, a)
    BY <2>0, Zenon
  <2>3. Later(n - 1, o, a) \/ Has(n - 1, o, a)
    BY <2>0, Zenon
  <2>4. CASE n \notin ToReplay(s, l)
    <3>1. Q(n) = Q(n - 1)
      BY <2>1, <2>4, Zenon
    <3>. HIDE DEF Q
    <3>. QED BY <2>2, <2>3, <2>4, <3>1, Zenon
  <2>5. CASE n \in ToReplay(s, l)
    <3>. DEFINE e == Q(n - 1)
                f == Q(n)
    <3>1. AttrStep(e, call, f, FALSE)
      BY <2>1, <2>5, Zenon
    <3>. HIDE DEF call, Q
    <3>2. CASE Sets(call, o, a)
      <4>1. o \in f.kv[a] /\ o \in f.range[NormOf(a)]
        BY <3>1, <3>2, NormTyped, Zenon DEF AttrStep, AttrLookups
      <4>. QED BY <4>1, Zenon
    <3>3. CASE Removes(call, o, a)
      <4>1. PICK j \in 1 .. Len(l) : n < j /\ Sets(l[j].op, o, a)
        BY <3>3, Zenon DEF SetLater, call
      <4>2. l[j].op \in Ops
        <5>1. l[j] \in Entries /\ l[j].op.kind = "set_attr"
          BY <4>1, SMTT(60) DEF Sets
        <5>2. CheckpointOp.kind # "set_attr"
          BY Zenon DEF CheckpointOp
        <5>. QED BY <5>1, <5>2, Zenon DEF Entries
      <4>3. j \in ToReplay(s, l)
        BY <2>5, <4>1, <4>2, ReplayedSuffix, Zenon
      <4>. QED BY <4>1, <4>3, Zenon
    <3>4. CASE ~Sets(call, o, a) /\ ~Removes(call, o, a)
      <4>1. CASE Later(n - 1, o, a)
        BY <2>2, <3>4, <4>1, Zenon DEF call
      <4>2. CASE Has(n - 1, o, a)
        <5>1. o \in f.kv[a]
          BY <3>1, <3>4, <4>2, Zenon DEF AttrStep, AttrLookups, Unindexes
        <5>2. ASSUME a[2] = Zero, o \in r.range[NormOf(a)] PROVE o \in f.range[NormOf(a)]
          <6>1. \A b \in Attrs : NormOf(b) = NormOf(a) => ~Unindexes(e, call, o, b, FALSE)
            BY <3>4, <5>2, ZeroNorm, Zenon DEF Unindexes
          <6>2. o \in e.range[NormOf(a)] /\ NormOf(a) \in NormKeys
            BY <4>2, <5>2, NormTyped, Zenon
          <6>. QED BY <3>1, <6>1, <6>2, Zenon DEF AttrStep, AttrLookups
        <5>. QED BY <5>1, <5>2, Zenon
      <4>. QED BY <2>3, <4>1, <4>2, Zenon
    <3>. QED BY <3>2, <3>3, <3>4, Zenon
  <2>. QED BY <2>4, <2>5, Zenon
<1>3. Len(l) \in S
  <2>. HIDE DEF S
  <2>. QED BY <1>0, <1>1, <1>2, ReplayInduction, Zenon
<1>4. Good(Len(l))
  BY <1>3, Zenon
<1>5. \A o \in Oids, a \in Attrs : ~Later(Len(l), o, a)
  BY <1>0, ReplayedEntry, SMTT(60)
<1>. HIDE DEF Later
<1>. QED BY <1>4, <1>5, Zenon DEF Recovered

\* save_index_state over the regions of d: the recovered engine still finds
\* all that the history finds, although it may replay what was saved.
LEMMA SavedCovers ==
    ASSUME NEW d, DiskShape(d), NEW s, DiskShape(s), NEW l \in Seq(Entries), LogOrdered(l),
           d["blob"].applied <= s["blob"].applied, Placeheld(s),
           NEW r \in Engines, AttrsSound(r), SetLater(l, r),
           Covers(Loaded(s), r), Covers(Recovered(d, l), r)
    PROVE  Covers(Recovered(s, l), r)
<1>. DEFINE q == Recovered(s, l)
            p == Recovered(d, l)
<1>0. q \in Engines /\ p \in Engines
  BY ReplaysTyped, SMTT(60) DEF Recovered
<1>1. /\ \A o \in Oids, a \in Attrs : a[2] # Zero => q.attrs[o][a] <= p.attrs[o][a]
      /\ \A o \in Oids, n \in NormKeys :
             o \in r.range[n] /\ (\A a \in Attrs : NormOf(a) = n => a[2] # Zero) => o \in q.range[n]
  BY LockStep, Zenon
<1>2. \A o \in Oids, a \in Attrs : o \in r.kv[a] =>
          /\ o \in q.kv[a]
          /\ a[2] = Zero /\ o \in r.range[NormOf(a)] => o \in q.range[NormOf(a)]
  BY SetAgain, Zenon
<1>. HIDE DEF p, q
<1>3. \A o \in Oids, a \in Attrs : a[2] # Zero => q.attrs[o][a] <= r.attrs[o][a]
  <2>. SUFFICES ASSUME NEW o \in Oids, NEW a \in Attrs, a[2] # Zero
                PROVE  q.attrs[o][a] <= r.attrs[o][a]
    BY Zenon
  <2>1. p.attrs[o][a] \in Nat /\ q.attrs[o][a] \in Nat /\ r.attrs[o][a] \in Nat
    BY <1>0, AttrCount, Zenon
  <2>2. p.attrs[o][a] <= r.attrs[o][a]
    BY Zenon DEF Covers, p
  <2>3. q.attrs[o][a] <= p.attrs[o][a]
    BY <1>1, Zenon
  <2>. QED BY <2>1, <2>2, <2>3, AtMost, Zenon
<1>4. ASSUME NEW o \in Oids, NEW n \in NormKeys, o \in r.range[n] PROVE o \in q.range[n]
  <2>1. CASE \A a \in Attrs : NormOf(a) = n => a[2] # Zero
    BY <1>1, <1>4, <2>1, Zenon
  <2>2. ASSUME NEW a \in Attrs, NormOf(a) = n, a[2] = Zero PROVE o \in q.range[n]
    BY <1>2, <1>4, <2>2, Zenon DEF AttrsSound
  <2>. QED BY <2>1, <2>2, Zenon
<1>. QED BY <1>2, <1>3, <1>4, Zenon DEF Covers, q

=============================================================================
