----------------------------- MODULE DurableLog ------------------------------
(***************************************************************************)
(* What the write-ahead log promises: a log whose entries carry            *)
(* consecutive LSNs, that only grows at its end and only shrinks at its    *)
(* front, each in one atomic step.  A crash and a restart are no step at   *)
(* all: they leave the log as it is.                                       *)
(***************************************************************************)
EXTENDS Integers, Sequences

CONSTANT LogPayloads

VARIABLES log, next

LogInit == log = <<>> /\ next = 1

LogAppend(p) ==
    /\ log' = Append(log, [lsn |-> next, payload |-> p])
    /\ next' = next + 1

LogTrim(n) ==
    /\ log' = SubSeq(log, n + 1, Len(log))
    /\ next' = next

LogNext ==
    \/ \E p \in LogPayloads : LogAppend(p)
    \/ \E n \in 1 .. Len(log) : LogTrim(n)

LogSpec == LogInit /\ [][LogNext]_<<log, next>>

=============================================================================
