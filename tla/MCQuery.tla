------------------------------- MODULE MCQuery -------------------------------
(***************************************************************************)
(* Two objects, car (1) implies vehicle (2), one key with values of three  *)
(* types, keys of two text bytes.                                          *)
(***************************************************************************)
EXTENDS Queries

a == <<1>>
ab == <<1, 2>>

MCVals == {Text(ab), IntV(IntMin), IntV(0)}
MCNorm == [v \in Vals |-> from_value(v)]
MCKnown == {1, 2}
MCImpl == {<<1, 2>>}
MCRels == {<<3, 1>>}

MCNames == [car |-> 1, vehicle |-> 2, key |-> 3]

Leaves ==
    {HasTag(2), IsA(2), Related(<<3, 1>>)}
        \cup {HasAttr(3, op, v) : op \in {"=", "!=", "<", "<=", ">", ">=", "prefix"},
                                    v \in {Text(a), IntV(0)}}

MCAsked ==
    Leaves \cup {Not(q) : q \in {HasTag(1), HasAttr(3, "=", IntV(0))}}
           \cup {And(<<>>), Or(<<>>), And(<<HasTag(2), Not(IsA(1))>>),
                 Or(<<HasAttr(3, "<", IntV(0)), And(<<HasTag(1)>>)>>)}

MCWritten ==
    {HasAttr(3, "<", IntV(0)), HasAttr(3, "prefix", Text(a)),
     Or(<<Not(IsA(2)), And(<<>>), And(<<HasTag(1), Related(<<3, 1>>)>>)>>)}

Str(b) == [l |-> "str", s |-> b]
Num(n) == [l |-> "num", int |-> n, float |-> FloatV(0, n)]
Neg(lit) == [l |-> "neg", e |-> lit]
True == [l |-> "bool", b |-> TRUE]
Null == [l |-> "null"]

Tag(n) == [x |-> "cmp", col |-> <<"tag">>, op |-> "=", lit |-> Str(n)]
Key(op, lit) == [x |-> "cmp", col |-> <<"o", "key">>, op |-> op, lit |-> lit]
Like(lead, trail, b, neg) ==
    [x |-> "like", col |-> <<"key">>, lead |-> lead, trail |-> trail,
     inner |-> FALSE, needle |-> b, neg |-> neg]
In(col, list, neg) == [x |-> "in", col |-> <<col>>, list |-> list, neg |-> neg]
Bin(op, l, r) == [x |-> op, l |-> l, r |-> r]
Arg(lit) == [a |-> "expr", e |-> lit]
Call(name, args) == [x |-> "call", name |-> name, args |-> args]

MCWheres ==
    {[x |-> "none"], Tag("car"), Key(">", Neg(Num(1))), Key("<", True), Like(FALSE, TRUE, a, FALSE),
     Like(FALSE, FALSE, ab, TRUE), In("tag", <<Str("car"), Str("vehicle")>>, TRUE),
     In("key", <<Str(a), Num(0)>>, FALSE), Call("ISA", <<Arg(Str("vehicle"))>>),
     Call("related", <<Arg(Str("key")), Arg(Num(1))>>),
     Bin("and", Tag("vehicle"), Bin("or", Tag("car"), Key("=", Num(0)))),
     Bin("or", Bin("and", Tag("car"), Key("<=", Num(0))), Bin("or", Tag("car"), Key("!=", Str(a)))),
     [x |-> "not", e |-> Bin("and", Tag("car"), [x |-> "not", e |-> Key("=", Num(0))])]}

Objects == <<[table |-> TRUE, name |-> "objects", joins |-> 0]>>
Star == <<[i |-> "wildcard"]>>
CountOf(arg) == <<[i |-> "call", name |-> "COUNT", args |-> <<arg>>]>>
Count == CountOf([a |-> "star"])

Select(items, w, l, o) ==
    [stmt |-> "query", clauses |-> {}, from |-> Objects, items |-> items, where |-> w,
     limit |-> l, offset |-> o]

All == Select(Star, Tag("vehicle"), NoClause, NoClause)

MCStatements ==
    {Select(Star, w, NoClause, NoClause) : w \in MCWheres}
        \cup {Select(i, Tag("vehicle"), l, o) :
                 i \in {Star, Count}, l \in {NoClause, <<Num(0)>>, <<Num(1)>>},
                 o \in {NoClause, <<Num(1)>>, <<Num(3)>>}}

MCTyped == {All, Select(Count, Tag("car"), NoClause, <<Num(1)>>)}

MCUnsupported ==
    {<<>>, <<All, All>>, <<[stmt |-> "other"]>>}
        \cup {<<[All EXCEPT !.clauses = {c}]>> : c \in {"with", "order_by", "group_by"}}
        \cup {<<[All EXCEPT !.from = f]>> :
                 f \in {<<>>, Objects \o Objects, <<[Objects[1] EXCEPT !.joins = 1]>>,
                        <<[Objects[1] EXCEPT !.name = "other"]>>}}
        \cup {<<[All EXCEPT !.items = i]>> :
                 i \in {<<>>, Star \o Star, CountOf(Arg(Num(1))), <<[i |-> "other"]>>}}
        \cup {<<[All EXCEPT !.limit = <<l>>]>> : l \in {Neg(Num(1)), Str(a), Num(NotInt)}}
        \cup {<<[All EXCEPT !.where = w]>> :
                 w \in {Tag("boat"), Key("=", Null), Key("=", Neg(Str(a))), [x |-> "other"],
                        [Tag("car") EXCEPT !.op = "!="], [Tag("car") EXCEPT !.col = <<>>],
                        Like(TRUE, TRUE, a, FALSE), In("key", <<Num(0), Null>>, TRUE),
                        Call("isa", <<>>), Call("isa", <<Arg(Num(0))>>),
                        Call("related", <<Arg(Str("key")), Arg(Str(a))>>)}}
=============================================================================
