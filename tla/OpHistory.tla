------------------------------ MODULE OpHistory ------------------------------
(***************************************************************************)
(* The engine's hybrid clock and its ring of recent operations.  The wall  *)
(* clock is the host's and may be set to anything between two readings,    *)
(* also before the epoch.  The ring is saved by a commit and read back at  *)
(* open; the clock is not, and operations replayed from the log are not    *)
(* recorded again.                                                         *)
(***************************************************************************)
EXTENDS Integers, Sequences

CONSTANTS
    NodeId,        \* this engine's node
    Remotes,       \* timestamps received from other nodes
    Capacity,      \* argument of OpLog::new
    DefaultLen,    \* DEFAULT_OPLOG_CAPACITY
    MaxLogical,    \* u16::MAX
    MaxWall,       \* bound: wall clock readings
    MaxOps         \* bound: operations

\* physical_ns is a u64, logical a u16, and the default ring holds something.
ASSUME HistoryAssumption ==
    /\ NodeId \in Nat /\ Capacity \in Nat /\ DefaultLen \in Nat \ {0}
    /\ MaxLogical \in Nat /\ MaxWall \in Nat /\ MaxOps \in Nat
    /\ Remotes \subseteq [physical_ns : Nat, logical : 0 .. MaxLogical, node_id : Nat]

VARIABLES
    wall,      \* the host's clock, -1 before the epoch
    last,      \* HybridClock::last
    oplog,     \* OpLog::entries
    kept,      \* the ring in the last committed index blob
    issued,    \* ghost: the timestamps this process gave out, in order
    recorded,  \* ghost: what was recorded since the ring was last read
    seen,      \* ghost: the remote timestamps this process merged
    ops

hvars == <<wall, last, oplog, kept, issued, recorded, seen, ops>>

-----------------------------------------------------------------------------
(* HybridTimestamp. *)

Stamp(physical_ns, logical, node_id) ==
    [physical_ns |-> physical_ns, logical |-> logical, node_id |-> node_id]

Less(a, b) ==
    \/ a.physical_ns < b.physical_ns
    \/ a.physical_ns = b.physical_ns /\ a.logical < b.logical
    \/ a.physical_ns = b.physical_ns /\ a.logical = b.logical /\ a.node_id < b.node_id

Larger(m, n) == IF m > n THEN m ELSE n
saturating_add(l) == IF l < MaxLogical THEN l + 1 ELSE l

\* Mutant of tick: the reading is taken even when the wall clock went back.
tick_wall(t, now_ns) ==
    IF now_ns # t.physical_ns THEN [t EXCEPT !.physical_ns = now_ns, !.logical = 0]
    ELSE [t EXCEPT !.logical = saturating_add(@)]

tick(t, now_ns) ==
    IF now_ns > t.physical_ns THEN [t EXCEPT !.physical_ns = now_ns, !.logical = 0]
    ELSE [t EXCEPT !.logical = saturating_add(@)]

recv(t, now_ns, other) ==
    IF now_ns > t.physical_ns /\ now_ns > other.physical_ns
    THEN [t EXCEPT !.physical_ns = now_ns, !.logical = 0]
    ELSE IF t.physical_ns = other.physical_ns
    THEN [t EXCEPT !.logical = saturating_add(Larger(@, other.logical))]
    ELSE IF other.physical_ns > t.physical_ns
    THEN [t EXCEPT !.physical_ns = other.physical_ns, !.logical = saturating_add(other.logical)]
    ELSE [t EXCEPT !.logical = saturating_add(@)]

(* HybridClock. *)

new_clock == Stamp(0, 0, NodeId)

now_ns(t, reading) == IF reading >= 0 THEN reading ELSE t.physical_ns

now(t, reading) == [tick(t, now_ns(t, reading)) EXCEPT !.node_id = NodeId]

observe(t, reading, remote) == [recv(t, now_ns(t, reading), remote) EXCEPT !.node_id = NodeId]

(* OpLog. *)

max_len == IF Capacity = 0 THEN DefaultLen ELSE Capacity

Newest(s, n) == SubSeq(s, Larger(1, Len(s) - n + 1), Len(s))

record(entries, op, lsn, ts) ==
    Append(Newest(entries, max_len - 1), [op |-> op, lsn |-> lsn, timestamp |-> ts])

-----------------------------------------------------------------------------
HistoryInit ==
    /\ wall = 0
    /\ last = new_clock
    /\ oplog = <<>> /\ kept = <<>>
    /\ issued = <<>> /\ recorded = <<>> /\ seen = {}
    /\ ops = 0

SetWall ==
    /\ wall' \in (-1 .. MaxWall) \ {wall}
    /\ UNCHANGED <<last, oplog, kept, issued, recorded, seen, ops>>

\* One mutation: the engine stamps and records it (with LSN 0), then the log
\* entry takes a second reading.
Mutate ==
    LET ts == now(last, wall)
        wire == now(ts, wall)
        entry == [op |-> ops + 1, lsn |-> 0, timestamp |-> ts]
    IN  /\ ops < MaxOps
        /\ ops' = ops + 1
        /\ oplog' = record(oplog, ops + 1, 0, ts)
        /\ last' = wire
        /\ issued' = issued \o <<ts, wire>>
        /\ recorded' = Append(recorded, entry)
        /\ UNCHANGED <<wall, kept, seen>>

Observe ==
    \E remote \in Remotes \ seen :
        /\ last' = observe(last, wall, remote)
        /\ seen' = seen \cup {remote}
        /\ UNCHANGED <<wall, oplog, kept, issued, recorded, ops>>

\* A commit saves the ring, then stamps its checkpoint entry.
Commit ==
    /\ oplog # kept
    /\ kept' = oplog
    /\ last' = now(last, wall)
    /\ issued' = Append(issued, last')
    /\ UNCHANGED <<wall, oplog, recorded, seen, ops>>

\* A new process.
Reopen ==
    /\ issued # <<>> \/ seen # {}
    /\ last' = new_clock
    /\ oplog' = kept
    /\ issued' = <<>> /\ seen' = {}
    /\ recorded' = kept
    /\ UNCHANGED <<wall, kept, ops>>

HistoryNext == SetWall \/ Mutate \/ Observe \/ Commit \/ Reopen

HistorySpec == HistoryInit /\ [][HistoryNext]_hvars

-----------------------------------------------------------------------------
(* Properties. *)

\* However the wall clock is set, the timestamps of one process never go back,
\* two of them are equal only once the logical counter is saturated, and one
\* given out after a remote timestamp was merged is not before it
\* (HybridTimestamp::tick and recv, HybridClock::now and observe).  The ring
\* holds the newest max_len operations in the order they were made, across a
\* commit and a restart (OpLog::record, serialise, deserialise).
HistoryOrdered ==
    /\ \A i \in 1 .. Len(issued) - 1 :
          \/ Less(issued[i], issued[i + 1])
          \/ issued[i] = issued[i + 1] /\ issued[i].logical = MaxLogical
    /\ \A remote \in seen :
          \/ Less(remote, last)
          \/ last.physical_ns = remote.physical_ns /\ last.logical = MaxLogical
    /\ oplog = Newest(recorded, max_len)
=============================================================================
