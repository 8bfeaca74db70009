------------------------------ MODULE Arguments ------------------------------
(***************************************************************************)
(* How the command lines of mimir, populate and brunnr read their          *)
(* arguments: bin/mimir/src/oid.rs and value_parse.rs,                     *)
(* bin/populate/src/commands.rs, bin/brunnr/src/commands.rs, and the paths *)
(* of crates/unix/src/projection.rs.                                       *)
(*                                                                         *)
(* A numeral is the sequence of its digits; a digit above 9 is a letter.   *)
(* The machine is a process that reads one argument.                       *)
(***************************************************************************)
EXTENDS Integers, Sequences, SequencesExt

CONSTANTS
    Nodes, Locals,   \* parts of the object ids printed
    MaxNode,         \* u16::MAX
    LocalSpan,       \* 2^48: locals are masked to 48 bits
    MaxInt,          \* i64::MAX (and, for locals, u64::MAX; for ranges, u32::MAX)
    Second,          \* nanoseconds of a second
    Numerals,        \* the numerals typed
    Parts, Sizes     \* <<key, value>> parts of disk specs; the sizes that are numbers

VARIABLES
    typed,   \* the argument
    got      \* what it was read as

vars == <<typed, got>>

Err == [ok |-> FALSE]
Ok(x) == [ok |-> TRUE, is |-> x]
None == <<>>

-----------------------------------------------------------------------------
(* Numerals. *)

\* Format and parse of the standard library (external).
Digits(n, radix) ==
    LET shown[m \in 0 .. n] ==
            IF m < radix THEN <<m>> ELSE Append(shown[m \div radix], m % radix)
    IN  shown[n]

from_str_radix(ds, radix, max) ==
    LET n == FoldLeft(LAMBDA acc, d : acc * radix + d, 0, ds) IN
    IF ds = <<>> \/ (\E i \in DOMAIN ds : ds[i] >= radix) \/ n > max THEN Err ELSE Ok(n)

-----------------------------------------------------------------------------
(* Object ids: obj:<local>, obj:0x<local> or obj:<node>:<local>.  An       *)
(* argument is [obj, node, hex, local], with node = None for the first two.*)

from_parts(node, local) == [node |-> node, local |-> local % LocalSpan]

\* Mutant of parse_oid: the node is read as a decimal.
parse_oid_decimal(s) ==
    LET node == IF s.node = None THEN Ok(0) ELSE from_str_radix(s.node, 10, MaxNode)
        local == from_str_radix(s.local, IF s.hex THEN 16 ELSE 10, MaxInt)
    IN  IF ~s.obj \/ ~node.ok \/ ~local.ok \/ (s.node # None /\ s.hex) THEN Err
        ELSE Ok(from_parts(node.is, local.is))

parse_oid(s) ==
    LET node == IF s.node = None THEN Ok(0) ELSE from_str_radix(s.node, 16, MaxNode)
        local == from_str_radix(s.local, IF s.hex THEN 16 ELSE 10, MaxInt)
    IN  IF ~s.obj \/ ~node.ok \/ ~local.ok \/ (s.node # None /\ s.hex) THEN Err
        ELSE Ok(from_parts(node.is, local.is))

\* Display for ObjectId.
show_oid(o) == [obj |-> TRUE, node |-> Digits(o.node, 16), hex |-> FALSE, local |-> Digits(o.local, 10)]

-----------------------------------------------------------------------------
(* Values.  An argument is [pre, neg, ds, dot]: a prefix (ns:, s: or       *)
(* none), a sign, digits, and whether there is a decimal point.            *)

ValueKind == {"int", "float", "text", "timestamp", "blob", "auto"}
parse_kind(s) == IF s = "ts" THEN Ok("timestamp")
                 ELSE IF s \in ValueKind \ {"auto"} THEN Ok(s) ELSE Err

Signed(neg, n) == IF neg THEN 0 - n ELSE n

\* str::parse::<i64> and ::<f64> (external).  A float is its sign and digits.
parse_i64(raw) ==
    LET n == from_str_radix(raw.ds, 10, MaxInt + (IF raw.neg THEN 1 ELSE 0)) IN
    IF raw.pre = "" /\ ~raw.dot /\ n.ok THEN Ok(Signed(raw.neg, n.is)) ELSE Err
parse_f64(raw) ==
    IF raw.pre = "" /\ raw.ds # <<>> /\ \A i \in DOMAIN raw.ds : raw.ds[i] < 10
    THEN Ok([neg |-> raw.neg, ds |-> raw.ds, dot |-> raw.dot]) ELSE Err

As(kind, r) == IF r.ok THEN Ok([t |-> kind, v |-> r.is]) ELSE Err

saturating_mul(n) ==
    IF n * Second > MaxInt THEN MaxInt
    ELSE IF n * Second < (0 - MaxInt) - 1 THEN (0 - MaxInt) - 1 ELSE n * Second

\* A bare integer counts as a time only when it is at least a billion seconds.
parse_timestamp(raw) ==
    LET rest == parse_i64([raw EXCEPT !.pre = ""])
        plausible == rest.ok /\ (rest.is >= Second * Second \/ 0 - rest.is >= Second * Second)
    IN  CASE raw.pre = "ns:" -> As("timestamp", rest)
          [] raw.pre = "s:" -> As("timestamp", IF rest.ok THEN Ok(saturating_mul(rest.is)) ELSE Err)
          [] raw.pre = "" -> IF plausible THEN As("timestamp", rest) ELSE Err

infer(raw) ==
    IF parse_i64(raw).ok THEN As("int", parse_i64(raw))
    ELSE IF parse_f64(raw).ok THEN As("float", parse_f64(raw))
    ELSE IF parse_timestamp(raw).ok THEN parse_timestamp(raw)
    ELSE As("text", Ok(raw))

parse_value(raw, kind) ==
    CASE kind = "int" -> As("int", parse_i64(raw))
      [] kind = "float" -> As("float", parse_f64(raw))
      [] kind \in {"text", "blob"} -> As(kind, Ok(raw))
      [] kind = "timestamp" -> parse_timestamp(raw)
      [] kind = "auto" -> Ok(infer(raw).is)

-----------------------------------------------------------------------------
(* populate: ranges <lo>-<hi> or <n>, pools of names separated by commas   *)
(* (an empty name is what a doubled comma leaves).                         *)

parse_range(lo, hi) ==
    LET a == from_str_radix(lo, 10, MaxInt)
        b == IF hi = None THEN a ELSE from_str_radix(hi, 10, MaxInt)
    IN  IF ~a.ok \/ ~b.ok THEN Err ELSE IF a.is > b.is THEN Err ELSE Ok(<<a.is, b.is>>)

parse_tag_pool(names) == SelectSeq(names, LAMBDA n : n # "")

\* An entry is <<key, type>>, with type "" when there is no equals sign.
parse_attr_pool(entries) ==
    LET given == SelectSeq(entries, LAMBDA e : e # <<"", "">>) IN
    IF \E i \in DOMAIN given : given[i][2] \notin {"str", "int", "float"} THEN Err ELSE Ok(given)

-----------------------------------------------------------------------------
(* brunnr: a disk is <path>[:key=value]..., given as the path and the      *)
(* sequence of <<key, value>>; a part without an equals sign has key None. *)

parse_tier(s) == IF s \in {"hot", "warm", "cold", "glacier"} THEN Ok(s) ELSE Err
parse_media(s) ==
    CASE s \in {"nvme", "ssd", "hdd", "remote"} -> Ok(s)
      [] s \in {"smr", "smrhdd", "smr-hdd"} -> Ok("smr")
      [] OTHER -> Err

Auto == [auto |-> TRUE, bytes |-> 0]
parse_capacity(value) ==
    IF value = "auto" THEN Ok(Auto)
    ELSE IF value \in DOMAIN Sizes THEN Ok([auto |-> FALSE, bytes |-> Sizes[value]]) ELSE Err

Setting(key, value) ==
    CASE key = "tier" -> parse_tier(value)
      [] key = "media" -> parse_media(value)
      [] key = "capacity" -> parse_capacity(value)
      [] OTHER -> Err

DiskSpec_parse(path, parts) ==
    LET defaults == [path |-> path, tier |-> "hot", media |-> "nvme", capacity |-> Auto]
        step(acc, kv) ==
            IF ~acc.ok \/ kv = <<"", "">> THEN acc
            ELSE IF ~Setting(kv[1], kv[2]).ok THEN Err
            ELSE Ok([acc.is EXCEPT ![kv[1]] = Setting(kv[1], kv[2]).is])
    IN  IF path = "" THEN Err ELSE FoldLeft(step, Ok(defaults), parts)

-----------------------------------------------------------------------------
(* Projection paths, as the sequence of what stands between the slashes.   *)

validate_relative_path(parts) ==
    /\ parts # <<"">>                            \* empty
    /\ parts[1] # "" \/ Len(parts) = 1           \* absolute
    /\ \A i \in DOMAIN parts : parts[i] \notin {"NUL", ".."}

\* Where the path leads from a root at the given depth.
Depths(parts) ==
    LET at[i \in 0 .. Len(parts)] ==
            IF i = 0 THEN 0
            ELSE CASE parts[i] = ".." -> at[i - 1] - 1
                   [] parts[i] \in {"", "."} -> at[i - 1]
                   [] OTHER -> at[i - 1] + 1
    IN  {at[i] : i \in 0 .. Len(parts)}

-----------------------------------------------------------------------------
Init == typed = [k |-> "nothing"] /\ got = Err

\* An id as mimir printed it, or in a short form.
TypeOid ==
    \E o \in [node : Nodes, local : Locals], hex \in BOOLEAN, node \in BOOLEAN :
        LET arg == [obj |-> TRUE, hex |-> hex, local |-> Digits(o.local, IF hex THEN 16 ELSE 10),
                    node |-> IF node THEN show_oid(o).node ELSE None]
        IN  typed' = [k |-> "oid", arg |-> arg, of |-> o] /\ got' = parse_oid(arg)

\* A value in some spelling, read as the kind asked for.
TypeValue ==
    \E ds \in Numerals, pre \in {"", "ns:", "s:"}, neg, dot \in BOOLEAN, kind \in ValueKind :
        LET raw == [pre |-> pre, neg |-> neg, ds |-> ds, dot |-> dot]
            asked == IF kind = "auto" THEN Ok("auto") ELSE parse_kind(kind)
        IN  typed' = [k |-> "value", arg |-> raw, kind |-> kind] /\ got' = parse_value(raw, asked.is)

TypeRange ==
    \E lo \in Numerals, hi \in Numerals \cup {None} :
        typed' = [k |-> "range", arg |-> <<lo, hi>>] /\ got' = parse_range(lo, hi)

TypePool ==
    \E a, b \in {"", "x", "y"}, t \in {"", "int", "odd"} :
        typed' = [k |-> "pool", arg |-> <<a, b>>, type |-> t]
        /\ got' = IF t = "" THEN Ok(parse_tag_pool(<<a, b>>)) ELSE parse_attr_pool(<< <<a, t>>, <<b, t>> >>)

\* A process reads one argument.
TypeDisk ==
    \E path \in {"", "p"}, n \in 0 .. 2 : \E parts \in [1 .. n -> Parts] :
        typed' = [k |-> "disk", arg |-> parts] /\ got' = DiskSpec_parse(path, parts)

TypePath ==
    \E n \in 1 .. 3 : \E parts \in [1 .. n -> {"", ".", "..", "NUL", "d"}] :
        /\ typed' = [k |-> "path", arg |-> parts]
        /\ got' = IF validate_relative_path(parts) THEN Ok(parts) ELSE Err

Next == typed.k = "nothing" /\ (TypeOid \/ TypeValue \/ TypeRange \/ TypePool \/ TypeDisk \/ TypePath)

Spec == Init /\ [][Next]_vars

-----------------------------------------------------------------------------
(* Properties. *)

Number(raw) == from_str_radix(raw.ds, 10, 16 * MaxInt)

\* What a command prints can be typed back: an id (whose node is printed in
\* hexadecimal and whose local part in decimal) names the same object, the
\* short forms name that object of node 0; every i64 that is printed is read
\* as that integer when no type is asked for, a value is of the type asked
\* for or refused, and seconds beyond i64 nanoseconds stop at the last one.
\* A range never runs backwards, a disk has the last setting given for each
\* key, and an accepted projection path never leads out of its root.
ArgumentsRead ==
    CASE typed.k = "oid" /\ ~(typed.arg.hex /\ typed.arg.node # None) ->
            got = Ok(IF typed.arg.node = None THEN [typed.of EXCEPT !.node = 0] ELSE typed.of)
      [] typed.k = "value" /\ typed.kind = "auto" ->
            /\ got.ok
            /\ (Number(typed.arg).ok /\ typed.arg.pre = "" /\ ~typed.arg.dot) =>
                 LET n == Signed(typed.arg.neg, Number(typed.arg).is) IN
                 IF n \in (0 - MaxInt) - 1 .. MaxInt THEN got.is = [t |-> "int", v |-> n]
                 ELSE got.is.t = "float"
      [] typed.k = "value" /\ typed.kind # "auto" ->
            got.ok => /\ got.is.t = typed.kind
                      /\ got.is.t = "timestamp" => got.is.v \in (0 - MaxInt) - 1 .. MaxInt
      [] typed.k = "range" -> got.ok => got.is[1] <= got.is[2]
      [] typed.k = "disk" ->
            got.ok => \A i \in DOMAIN typed.arg :
                LET kv == typed.arg[i] IN
                (kv # <<"", "">> /\ \A j \in i + 1 .. Len(typed.arg) : typed.arg[j][1] # kv[1]) =>
                    Ok(got.is[kv[1]]) = Setting(kv[1], kv[2])
      [] typed.k = "path" ->
            got.ok => typed.arg[1] # "" /\ \A d \in Depths(typed.arg) : d >= 0
      [] OTHER -> TRUE
=============================================================================
