---------------------------- MODULE MimirSession ----------------------------
(***************************************************************************)
(* The mimir and populate command lines (bin/mimir, bin/populate): one     *)
(* process per command, which opens the pool, runs the command and commits *)
(* only if the command succeeded and is one that changes the pool.  A      *)
(* command that fails, or a process that is killed, leaves the operations  *)
(* it logged in the log; the next process replays them.  Tag names, path   *)
(* contexts and projections are not in the log: they are saved by a commit *)
(* or not at all.  Blob contents are left out.                             *)
(*                                                                         *)
(* A pool: names (tag id of a name), group (tags with Grouping semantics), *)
(* n (objects 1..n exist), tags, attrs (of an object), proj (PathContext-  *)
(* Manager: path of an object by context).  Values and paths are model     *)
(* values; whether a value parses and a path is valid is part of the call. *)
(***************************************************************************)
EXTENDS Integers, Sequences, FiniteSets, SequencesExt

CONSTANTS
    TagNames,   \* names a user gives to tags and keys: <<"tag", name>>
    Contexts,   \* names of path contexts
    Paths, BadPaths, \* relative paths validate_relative_path takes, and refuses
    Values,     \* attribute values: <<0, value>>
    MaxObj,     \* bound: objects
    MaxRuns     \* bound: processes

VARIABLES disk, log, meant, runs
vars == <<disk, log, meant, runs>>

Objs == 1 .. MaxObj
UnixPath == <<"tag", "unix-path">>
context_tag_name(c) == <<"unix-path-context", c>>
EmptyPool ==
    [names |-> [x \in {} |-> 0], group |-> {}, n |-> 0,
     tags |-> [o \in Objs |-> {}], attrs |-> [o \in Objs |-> {}],
     proj |-> [x \in {} |-> 0]]

Put(f, x, y) == [z \in DOMAIN f \cup {x} |-> IF z = x THEN y ELSE f[z]]
NextId(m) == 1 + Cardinality(DOMAIN m.names)

\* resolve_tag_name, else register_tag: ids are one above the highest held.
resolve_or_register(m, name) ==
    IF name \in DOMAIN m.names THEN m
    ELSE [m EXCEPT !.names = Put(@, name, NextId(m))]

-----------------------------------------------------------------------------
(* Logged operations and their replay.  A tag the ontology does not have   *)
(* has an empty closure; an attribute is stored whatever its key.          *)

KnownTags(m) == {m.names[x] : x \in DOMAIN m.names}

\* Mutant of Do: a tag is stored whether or not the ontology has it.
Do_unchecked(m, op) ==
    CASE op.op = "create" -> [m EXCEPT !.n = IF op.o > @ THEN op.o ELSE @]
      [] op.op = "tag" -> [m EXCEPT !.tags[op.o] = @ \cup {op.t}]
      [] op.op = "untag" -> [m EXCEPT !.tags[op.o] = @ \ {op.t}]
      [] op.op = "attr" -> [m EXCEPT !.attrs[op.o] = @ \cup {<<op.k, op.v>>}]

Do(m, op) ==
    CASE op.op = "create" -> [m EXCEPT !.n = IF op.o > @ THEN op.o ELSE @]
      [] op.op = "tag" -> IF op.t \in KnownTags(m) THEN [m EXCEPT !.tags[op.o] = @ \cup {op.t}]
                          ELSE m
      [] op.op = "untag" -> [m EXCEPT !.tags[op.o] = @ \ {op.t}]
      [] op.op = "attr" -> [m EXCEPT !.attrs[op.o] = @ \cup {<<op.k, op.v>>}]

open == FoldLeft(Do, disk, log)

\* A command so far: memory, the operations it logged, whether it failed, and
\* its commits on the way (the memory saved, the operations logged by then).
Start(m) == [m |-> m, ops |-> <<>>, ok |-> TRUE, commits |-> <<>>]
Commit(r) == [r EXCEPT !.commits = Append(@, [m |-> r.m, at |-> Len(r.ops)])]
Logged(r, op) == [r EXCEPT !.m = Do(@, op), !.ops = Append(@, op)]
Failed(r) == [r EXCEPT !.ok = FALSE]
Changed(r, m) == [r EXCEPT !.m = m]

Exists(m, o) == o <= m.n

-----------------------------------------------------------------------------
(* Commands.                                                               *)

run_create(m) ==
    Logged(Start(m), [op |-> "create", o |-> m.n + 1])

TagOne(r, o, name) ==
    LET m == resolve_or_register(r.m, name) IN
    Logged(Changed(r, m), [op |-> "tag", o |-> o, t |-> m.names[name]])

run_tag(m, o, names) ==
    IF ~Exists(m, o) THEN Failed(Start(m))
    ELSE FoldLeft(LAMBDA r, x : TagOne(r, o, x), Start(m), names)

run_untag(m, o, name) ==
    IF name \notin DOMAIN m.names \/ ~Exists(m, o) THEN Failed(Start(m))
    ELSE Logged(Start(m), [op |-> "untag", o |-> o, t |-> m.names[name]])

\* The key is registered before the value is parsed.
run_set(m, o, key, v, parses) ==
    IF ~Exists(m, o) THEN Failed(Start(m))
    ELSE LET k == resolve_or_register(m, key) IN
         IF ~parses THEN Failed(Changed(Start(m), k))
         ELSE Logged(Changed(Start(m), k),
                     [op |-> "attr", o |-> o, k |-> k.names[key], v |-> v])

\* A Grouping tag for the context unless there is one, then its projection.
run_project_create_context(m, c) ==
    LET name == context_tag_name(c)
        r == resolve_or_register(m, name)
        id == r.names[name]
        g == IF name \in DOMAIN m.names THEN r ELSE [r EXCEPT !.group = @ \cup {id}]
    IN  IF id \notin g.group \/ id \in DOMAIN g.proj THEN Failed(Changed(Start(m), g))
        ELSE Changed(Start(m), [g EXCEPT !.proj = Put(@, id, [o \in {} |-> 0])])

HasContext(m, c) ==
    /\ context_tag_name(c) \in DOMAIN m.names
    /\ m.names[context_tag_name(c)] \in DOMAIN m.proj

proj_add(r, id, o, p) == Changed(r, [r.m EXCEPT !.proj[id] = Put(@, o, p)])

\* Mutant of run_project_set_path: the projection is updated although the
\* path is refused.
set_path_unvalidated(m, o, c, p) ==
    IF ~Exists(m, o) \/ ~HasContext(m, c) THEN Failed(Start(m))
    ELSE proj_add(Start(m), m.names[context_tag_name(c)], o, p)

\* The projection first, then the attribute that records the path.
run_project_set_path(m, o, c, p) ==
    IF ~Exists(m, o) \/ ~HasContext(m, c) \/ p \in BadPaths THEN Failed(Start(m))
    ELSE LET id == m.names[context_tag_name(c)]
             r == proj_add(Start(m), id, o, p)
             k == resolve_or_register(r.m, UnixPath)
         IN  Logged(Changed(r, k), [op |-> "attr", o |-> o, k |-> k.names[UnixPath],
                                    v |-> <<id, p>>])

\* One object, attribute and projection entry per file found.
ImportOne(r, id, p) ==
    LET o == r.m.n + 1
        c == Logged(r, [op |-> "create", o |-> o])
    IN  proj_add(Logged(c, [op |-> "attr", o |-> o, k |-> c.m.names[UnixPath],
                            v |-> <<id, p>>]), id, o, p)

run_project_import(m, c, files) ==
    IF ~HasContext(m, c) THEN Failed(Start(m))
    ELSE LET k == resolve_or_register(m, UnixPath)
             id == m.names[context_tag_name(c)]
         IN  FoldLeft(LAMBDA r, p : ImportOne(r, id, p), Changed(Start(m), k), files)

AttrOne(r, o, attr) ==
    Logged(r, [op |-> "attr", o |-> o, k |-> r.m.names[attr[1]], v |-> attr[2]])

\* populate: the tag and key pools are registered, then each object gets its
\* tags and attributes, with a commit after every `every` objects.
populate_run(m, pool, picks, every) ==
    LET One(r, i) ==
            LET o == r.m.n + 1
                c == Logged(r, [op |-> "create", o |-> o])
                t == FoldLeft(LAMBDA q, x : TagOne(q, o, x), c, picks[i].tags)
                a == FoldLeft(LAMBDA q, x : AttrOne(q, o, x), t, picks[i].attrs)
            IN  IF i % every = 0 THEN Commit(a) ELSE a
    IN  FoldLeft(One, Changed(Start(m), FoldLeft(resolve_or_register, m, pool)),
                 [i \in 1 .. Len(picks) |-> i])

\* One object of a manifest: a name the ontology lacks ends the run.
create_with(r, spec) ==
    LET o == r.m.n + 1
        OrEnd(q, name, then) == IF q.ok /\ name \in DOMAIN q.m.names THEN then ELSE Failed(q)
        t == FoldLeft(LAMBDA q, x : OrEnd(q, x, TagOne(q, o, x)),
                      Logged(r, [op |-> "create", o |-> o]), spec.tags)
    IN  IF ~r.ok THEN r
        ELSE FoldLeft(LAMBDA q, x : OrEnd(q, x[1], AttrOne(q, o, x)), t, spec.attrs)

\* populate --manifest: the names its modules define, then its objects.
run_manifest(m, defined, objects) ==
    FoldLeft(create_with, Changed(Start(m), FoldLeft(resolve_or_register, m, defined)), objects)

-----------------------------------------------------------------------------
Init == disk = EmptyPool /\ log = <<>> /\ meant = [o \in Objs |-> {}] /\ runs = 0

\* What the user meant an operation of a command to say: tag ids by name.
Meaning(r, op) ==
    IF op.op = "tag" THEN {CHOOSE x \in DOMAIN r.m.names : r.m.names[x] = op.t} ELSE {}

\* dispatch: the process ends after commit, after a failure, or is killed
\* when `kept` of the operations were logged.
Process(r) ==
    /\ runs < MaxRuns
    /\ runs' = runs + 1
    /\ meant' = [o \in Objs |-> meant[o] \cup
                    UNION {Meaning(r, r.ops[i]) : i \in {j \in DOMAIN r.ops : r.ops[j].o = o}}]
    /\ \/ r.ok /\ disk' = r.m /\ log' = <<>>
       \/ \E kept \in 0 .. Len(r.ops) :
             LET saved == SelectSeq(r.commits, LAMBDA c : c.at <= kept) IN
             IF saved = <<>> THEN log' = log \o SubSeq(r.ops, 1, kept) /\ UNCHANGED disk
             ELSE /\ log' = SubSeq(r.ops, Last(saved).at + 1, kept)
                  /\ disk' = Last(saved).m

Create == open.n < MaxObj /\ Process(run_create(open))
Tag(o, names) == Process(run_tag(open, o, names))
Untag(o, x) == Process(run_untag(open, o, x))
Set(o, k, v, parses) == Process(run_set(open, o, k, v, parses))
CreateContext(c) == Process(run_project_create_context(open, c))
SetPath(o, c, p) == Process(run_project_set_path(open, o, c, p))
Import(c, files) ==
    open.n + Len(files) <= MaxObj /\ Process(run_project_import(open, c, files))
Populate(picks, every) ==
    /\ open.n + Len(picks) <= MaxObj
    /\ \E pool \in SetToSeqs(TagNames) : Process(populate_run(open, pool, picks, every))
Manifest(defined, objects) ==
    open.n + Len(objects) <= MaxObj /\ Process(run_manifest(open, defined, objects))

Next ==
    \/ Create
    \/ \E o \in Objs, x, y \in TagNames : Tag(o, <<x, y>>)
    \/ \E o \in Objs, x \in TagNames : Untag(o, x)
    \/ \E o \in Objs, x \in TagNames, v \in Values, ok \in BOOLEAN : Set(o, x, v, ok)
    \/ \E c \in Contexts : CreateContext(c)
    \/ \E o \in Objs, c \in Contexts, p \in Paths \cup BadPaths : SetPath(o, c, p)
    \/ \E c \in Contexts, files \in SeqOf(Paths, MaxObj) : Import(c, files)
    \/ \E x, y \in TagNames, v \in Values, every \in 1 .. 2 :
          Populate(<<[tags |-> <<x>>, attrs |-> <<>>], [tags |-> <<>>, attrs |-> <<<<y, v>>>>]>>,
                   every)
    \/ \E x, y \in TagNames, v \in Values :
          Manifest(<<x>>, <<[tags |-> <<y>>, attrs |-> <<<<x, v>>>>]>>)

Spec == Init /\ [][Next]_vars

-----------------------------------------------------------------------------
\* What a process finds when it opens the pool: a path a projection shows for
\* an object is one that the object's unix-path attribute records in that
\* context, and is a valid relative path.  Projections are saved apart from
\* the attributes, and either may be missing after a failed command.
ProjectionBacked ==
    \A id \in DOMAIN open.proj : \A o \in DOMAIN open.proj[id] :
        /\ open.proj[id][o] \in Paths
        /\ UnixPath \in DOMAIN open.names
        /\ <<open.names[UnixPath], <<id, open.proj[id][o]>>>> \in open.attrs[o]

\* A tag an object shows is one some `mimir tag` gave it under that name,
\* even when a killed command logged an id that another name then took.
TagsAsMeant ==
    \A o \in Objs : \A x \in DOMAIN open.names :
        open.names[x] \in open.tags[o] => x \in meant[o]
=============================================================================
