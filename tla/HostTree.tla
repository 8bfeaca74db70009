------------------------------ MODULE HostTree ------------------------------
(***************************************************************************)
(* mimir project import and export (crates/unix/src/import.rs, export.rs): *)
(* a recursive walk of a host directory, one entry at a time, while other  *)
(* programs add and remove host files; the files found become objects with *)
(* a path; export writes the objects' blobs under another directory.       *)
(*                                                                         *)
(* A path is a sequence of names below the root <<>>.  The host maps the   *)
(* paths that exist to [kind, to]; `to` is the target of a link.  A frame  *)
(* of the recursion is [path, open, left]: the directory, whether read_dir *)
(* was called on it, and the names not taken from it yet.                  *)
(***************************************************************************)
EXTENDS Integers, Sequences, FiniteSets, Bags, SequencesExt

CONSTANTS
    Trees,       \* host trees an import may start on
    Additions,   \* <<path, node>> other programs may add
    Hidden, NonUtf8, \* names with a leading dot, and names that are not UTF-8
    MaxLinks,    \* links the host resolves in one path before ELOOP
    MaxChanges   \* bound: host changes during a walk

VARIABLES
    host, stack, out, result, \* the walk: out counts the <<path, kind>> reported
    changes, kept,            \* host changes so far; paths they left alone
    include_hidden, follow_symlinks,
    exported                  \* [result, tree]: tree maps a path to an object

vars == <<host, stack, out, result, changes, kept, include_hidden, follow_symlinks, exported>>

-----------------------------------------------------------------------------
(* The host file system.                                                   *)

Root == [kind |-> "dir", to |-> <<>>]
Gone == [kind |-> "none", to |-> <<>>]
Node(h, p) == IF p = <<>> THEN Root ELSE IF p \in DOMAIN h THEN h[p] ELSE Gone

\* The path a name leads to once the links on the way are replaced by their
\* targets; below what does not exist, or is no directory, nothing exists.
Target(h) == [q \in Seq(STRING) |-> IF Node(h, q).kind = "link" THEN Node(h, q).to ELSE q]
Resolve(h, p) == FoldLeft(LAMBDA at, name : Target(h)[Append(at, name)], <<>>, p)
lresolve(h, p) == Append(Resolve(h, Front(p)), Last(p))
Links(h, p) ==
    Cardinality({i \in DOMAIN p : Node(h, lresolve(h, SubSeq(p, 1, i))).kind = "link"})

\* fs::metadata: the node at the end of the path and of its links.
metadata(h, p) == IF Links(h, p) <= MaxLinks THEN Node(h, Resolve(h, p)) ELSE Gone

\* fs::symlink_metadata: the last name is not followed.
symlink_metadata(h, p) ==
    IF Links(h, Front(p)) <= MaxLinks THEN Node(h, lresolve(h, p)) ELSE Gone

Children(h, p) ==
    {Last(q) : q \in {q \in DOMAIN h : Front(q) = Resolve(h, p)}}

-----------------------------------------------------------------------------
(* The walk.                                                               *)

top == Last(stack)
Frame(p) == [path |-> p, open |-> FALSE, left |-> {}]

\* Entering a directory: an error ends the whole scan.
read_dir ==
    /\ ~top.open
    /\ IF metadata(host, top.path).kind = "dir"
       THEN /\ stack' = [stack EXCEPT ![Len(stack)] =
                            [@ EXCEPT !.open = TRUE, !.left = Children(host, top.path)]]
            /\ UNCHANGED result
       ELSE result' = "error" /\ UNCHANGED stack
    /\ UNCHANGED out

Concealed(name) == name \in Hidden /\ ~include_hidden

\* Mutant of Skipped: an entry that cannot be read is tried again.
Skipped_retried(name, link) == Concealed(name)

Skipped(name, link) == Concealed(name) \/ link.kind = "none"

\* One entry of the directory.  What cannot be read is skipped, and so is
\* what is neither a file, a directory nor a link; a directory is reported
\* and then entered, a link reported as such unless links are followed.
Entry(name) ==
    LET p == Append(top.path, name)
        taken == [stack EXCEPT ![Len(stack)].left = @ \ {name}]
        link == symlink_metadata(host, p)
        node == IF link.kind = "link" /\ follow_symlinks THEN metadata(host, p) ELSE link
        readable == ~Concealed(name) /\ link.kind # "none"
    IN  \/ /\ Skipped(name, link)
           /\ stack' = taken /\ UNCHANGED <<out, result>>
        \/ /\ readable /\ name \in NonUtf8
           /\ result' = "error" /\ UNCHANGED <<stack, out>>
        \/ /\ readable /\ name \notin NonUtf8
           /\ out' = IF node.kind \in {"dir", "file", "link"}
                     THEN out (+) SetToBag({<<p, node.kind>>}) ELSE out
           /\ stack' = IF node.kind = "dir" THEN Append(taken, Frame(p)) ELSE taken
           /\ UNCHANGED result

\* The directory is done: back to the caller, or the scan answers.
Return ==
    /\ top.open /\ top.left = {}
    /\ stack' = Front(stack)
    /\ result' = IF Len(stack) = 1 THEN "ok" ELSE result
    /\ UNCHANGED out

walk ==
    /\ result = "walking"
    /\ read_dir \/ (top.open /\ \E name \in top.left : Entry(name)) \/ Return
    /\ UNCHANGED <<host, changes, kept, include_hidden, follow_symlinks, exported>>

-----------------------------------------------------------------------------
(* Other programs.  A directory being read may or may not show a new name. *)

Under(p, q) == Len(q) >= Len(p) /\ SubSeq(q, 1, Len(p)) = p

\* A link counts as left alone while what it leads to is.
Change(p) ==
    /\ result = "walking" /\ changes < MaxChanges
    /\ changes' = changes + 1
    /\ kept' = {q \in kept : ~Under(p, q) /\ ~(host[q].kind = "link" /\ Under(p, host[q].to))}
    /\ UNCHANGED <<out, result, include_hidden, follow_symlinks, exported>>

HostRemove(p) ==
    /\ Change(p)
    /\ host' = [q \in {q \in DOMAIN host : ~Under(p, q)} |-> host[q]]
    /\ UNCHANGED stack

HostAdd(p, node, seen) ==
    /\ Change(p)
    /\ p \notin DOMAIN host /\ Node(host, Front(p)).kind = "dir"
    /\ host' = [q \in DOMAIN host \cup {p} |-> IF q = p THEN node ELSE host[q]]
    /\ stack' = [i \in DOMAIN stack |->
                    IF seen /\ stack[i].open /\ Resolve(host, stack[i].path) = Front(p)
                    THEN [stack[i] EXCEPT !.left = @ \cup {Last(p)}] ELSE stack[i]]

-----------------------------------------------------------------------------
(* Import and export.                                                      *)

\* run_project_import: an object <<path, i>> for each time a file is reported.
Objects == {<<e[1], i>> : e \in {e \in DOMAIN out : e[2] = "file"}, i \in 1 .. 2}
projection == {o \in Objects : o[2] <= CopiesIn(<<o[1], "file">>, out)}

NoTree == [p \in {} |-> <<>>]
Write(acc, o) ==
    [acc EXCEPT !.tree = [p \in DOMAIN @ \cup {o[1]} |-> IF p = o[1] THEN o ELSE @[p]]]

\* Mutant of execute: an object with no content is passed over.
execute_lenient(plan, blobs) ==
    FoldSet(LAMBDA o, acc : Write(acc, o), [result |-> "ok", tree |-> NoTree], plan \cap blobs)

\* Exporter::execute: one file after the other; an object with no content,
\* or a file where a directory is needed, ends it with what was written.
\* The plan is sorted by path; what a complete run writes does not depend on
\* the order.
execute(plan, blobs) ==
    LET Blocked(tree, p) ==
            \E q \in DOMAIN tree : q # p /\ (Under(q, p) \/ Under(p, q))
        step(o, acc) ==
            IF acc.result # "ok" THEN acc
            ELSE IF o \notin blobs \/ Blocked(acc.tree, o[1])
                 THEN [acc EXCEPT !.result = "error"] ELSE Write(acc, o)
    IN  FoldSet(step, [result |-> "ok", tree |-> NoTree], plan)

\* run_project_export of every object; blobs are the ones given a content.
Export(blobs) ==
    /\ result = "ok" /\ exported.result = "none"
    /\ exported' = execute(projection, blobs)
    /\ UNCHANGED <<host, stack, out, result, changes, kept, include_hidden, follow_symlinks>>

-----------------------------------------------------------------------------
Init ==
    /\ host \in Trees
    /\ stack = <<Frame(<<>>)>> /\ out = EmptyBag /\ result = "walking"
    /\ changes = 0 /\ kept = DOMAIN host
    /\ include_hidden \in BOOLEAN /\ follow_symlinks \in BOOLEAN
    /\ exported = [result |-> "none", tree |-> NoTree]

Next ==
    \/ walk
    \/ \E p \in DOMAIN host : HostRemove(p)
    \/ \E a \in Additions, seen \in BOOLEAN : HostAdd(a[1], a[2], seen)
    \/ result = "ok" /\ \E missing \in {{}} \cup {{o} : o \in projection} : Export(projection \ missing)

\* The walk is a loop of one thread, which the host keeps running.
Spec == Init /\ [][Next]_vars /\ WF_vars(walk)

-----------------------------------------------------------------------------
\* An import scan ends, with an answer or an error, whatever is added and
\* removed under it and whichever links lead back up the tree.
Ended == result # "walking"
ScanTerminates == <>Ended

\* A scan that answers has reported every path that stayed where it was,
\* once and as what it is; only hidden ones, and those below them, are left
\* out.
ScanComplete ==
    result = "ok" =>
        \A p \in kept :
            /\ host[p].kind # "other"
            /\ include_hidden \/ \A i \in DOMAIN p : p[i] \notin Hidden
            => LET kind == IF follow_symlinks THEN metadata(host, p).kind ELSE host[p].kind
               IN  \A k \in {"dir", "file", "link"} :
                       CopiesIn(<<p, k>>, out) = IF k = kind THEN 1 ELSE 0

\* Importing a tree and exporting it again either fails or gives a tree with
\* exactly the imported files, each with the content of its own object.
ExportFaithful ==
    exported.result = "ok" =>
        /\ DOMAIN exported.tree = {o[1] : o \in projection}
        /\ \A p \in DOMAIN exported.tree : exported.tree[p][1] = p
=============================================================================
