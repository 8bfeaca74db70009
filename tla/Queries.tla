------------------------------- MODULE Queries -------------------------------
(***************************************************************************)
(* An engine that is changed by its live operations and asked queries and  *)
(* SQL statements in every state.  The answers come from the inverted      *)
(* indexes; what they should be is read off the forward index, object by   *)
(* object.  An attribute is set on an object once: what a second copy does *)
(* to the indexes is the subject of module Engine.                         *)
(***************************************************************************)
EXTENDS QuerySyntax

CONSTANTS
    Known, Impl,   \* the installed ontology
    Asked,         \* the queries asked in every state
    Written,       \* those of them that are asked as text too
    Statements,    \* the SELECT statements asked in every state
    Typed,         \* those of them that are typed at the prompt too
    Unsupported,   \* inputs with something the planner has no support for
    NotInt         \* the first number that is no integer of the engine

VARIABLE e

Init == e = NewEngine(Known, Impl)

Operate(op) ==
    /\ Accepts(e, op)
    /\ op.kind = "create" => e.next_oid <= MaxOid
    /\ op.kind = "set_attr" => e.attrs[op.oid][op.arg] = 0
    /\ op.kind = "add_relation" => e.rels[op.oid][op.arg] = 0
    /\ op.kind # "create" => e.obj[op.oid] = "active"
    /\ e' = Live(e, op)

Next == \E op \in Ops : op.kind # "write_blob" /\ Operate(op)
Spec == Init /\ [][Next]_e

-----------------------------------------------------------------------------
Compares(op, v, w) ==
    /\ SameType(v, w)
    /\ CASE op = "<" -> NaturalLess(v, w)
         [] op = "<=" -> v = w \/ NaturalLess(v, w)
         [] op = ">" -> NaturalLess(w, v)
         [] op = ">=" -> v = w \/ NaturalLess(w, v)

Attr(o, k, v) == v \in Vals /\ e.attrs[o][<<k, v>>] > 0

\* > subtracts the objects that hold the bound itself, also the ones that
\* hold a larger value as well.
AttrMatches(o, q) ==
    CASE q.op = "=" -> Attr(o, q.key, q.val)
      [] q.op = "!=" -> /\ \E v \in Vals : Attr(o, q.key, v)
                        /\ ~Attr(o, q.key, q.val)
      [] q.op = "prefix" -> \E v \in Vals : Attr(o, q.key, v) /\ StartsWith(v, q.val)
      [] q.op \in {"<", "<=", ">", ">="} ->
             /\ \E v \in Vals : Attr(o, q.key, v) /\ Compares(q.op, v, q.val)
             /\ q.op = ">" => ~Attr(o, q.key, q.val)

HasAny(o) == \E t \in Tags : e.tags[o][t] # "none"

\* An object without any tag is outside the universe a negation ranges over.
RECURSIVE Matches(_, _)
Matches(o, q) ==
    CASE q.q = "tag" -> e.tags[o][q.tag] # "none"
      [] q.q = "isa" -> \E t \in Tags : e.tags[o][t] # "none" /\ q.tag \in Closure(e, t)
      [] q.q = "attr" -> AttrMatches(o, q)
      [] q.q = "related" -> e.rels[o][q.rel] > 0
      [] q.q = "and" -> q.qs # <<>> /\ \A i \in DOMAIN q.qs : Matches(o, q.qs[i])
      [] q.q = "or" -> \E i \in DOMAIN q.qs : Matches(o, q.qs[i])
      [] q.q = "not" -> HasAny(o) /\ ~Matches(o, q.inner)

\* No call was made yet.  Parser and planner see names and the ontology only,
\* so one state is enough to ask what they refuse.
Unchanged == e = NewEngine(Known, Impl)

\* A query, asked as a value or as its text, is answered from the tag, kv and
\* range indexes as a scan of the forward index would answer it, whatever
\* sequence of tag, attribute, relation and delete calls built the indexes; a
\* text that is cut short or runs on is refused (QueryExecutor::evaluate,
\* to_sexpr, QueryParser::parse).
AnswersExact ==
    /\ \A q \in Asked : evaluate(e, q) = Ok({o \in Oids : Matches(o, q)})
    /\ \A q \in Written :
        \A toks \in {to_sexpr(q)} :
          /\ run_query_sexpr(e, toks) = evaluate(e, q)
          /\ Unchanged =>
               /\ \A n \in 0 .. Len(toks) - 1 : run_query_sexpr(e, SubSeq(toks, 1, n)).res = "error"
               /\ run_query_sexpr(e, Append(toks, RP)).res = "error"

\* What a literal says, and a WHERE clause of one object, by SQL's meaning.
RECURSIVE Denotes(_)
Denotes(lit) ==
    CASE lit.l = "str" -> Text(lit.s)
      [] lit.l = "num" -> IF lit.int < NotInt THEN IntV(lit.int) ELSE lit.float
      [] lit.l = "bool" -> IntV(IF lit.b THEN 1 ELSE 0)
      [] lit.l = "neg" -> IntV(-Denotes(lit.e).n)

Tagged(o, name) == e.tags[o][Names[name]] # "none"
Unless(neg, o, hit) == IF neg THEN HasAny(o) /\ ~hit ELSE hit

RECURSIVE Selects(_, _)
Selects(x, o) ==
    CASE x.x = "none" -> HasAny(o)
      [] x.x = "cmp" -> IF Last(x.col) \in {"tag", "TAG"} THEN Tagged(o, x.lit.s)
                        ELSE AttrMatches(o, HasAttr(Names[Last(x.col)], x.op, Denotes(x.lit)))
      [] x.x = "in" ->
            Unless(x.neg, o, \E i \in DOMAIN x.list :
                                IF Last(x.col) = "tag" THEN Tagged(o, x.list[i].s)
                                ELSE Attr(o, Names[Last(x.col)], Denotes(x.list[i])))
      [] x.x = "like" ->
            Unless(x.neg, o, \E v \in Vals :
                                /\ Attr(o, Names[Last(x.col)], v) /\ v.t = "text"
                                /\ IF x.trail THEN IsPrefix(x.needle, v.b) ELSE x.needle = v.b)
      [] x.x = "call" ->
            LET t == Names[x.args[1].e.s] IN
            IF Len(x.args) = 1 THEN Matches(o, IsA(t))
            ELSE Matches(o, Related(<<t, x.args[2].e.int>>))
      [] x.x = "and" -> Selects(x.l, o) /\ Selects(x.r, o)
      [] x.x = "or" -> Selects(x.l, o) \/ Selects(x.r, o)
      [] x.x = "not" -> HasAny(o) /\ ~Selects(x.e, o)

Expected(s) ==
    LET all == SetToSortSeq({o \in Oids : Selects(s.where, o)}, <)
        off == IF s.offset = NoClause THEN 0 ELSE s.offset[1].int
        lim == IF s.limit = NoClause THEN Len(all) ELSE s.limit[1].int
        end == IF off + lim < Len(all) THEN off + lim ELSE Len(all)
        rows == SubSeq(all, off + 1, end)
    IN  IF s.items[1].i = "wildcard" THEN [out |-> "rows", ids |-> rows]
        ELSE [out |-> "count", n |-> Len(rows)]

\* A SELECT answers the objects its WHERE clause selects, in id order, less
\* the OFFSET and cut at the LIMIT, COUNT(*) is the number of rows the same
\* statement with * would give, and a statement with anything the planner does
\* not support is refused rather than answered without it: parser, planner,
\* executor and paging together.
SqlAgrees ==
    /\ \A s \in Statements : execute(e, <<s>>) = Expected(s)
    /\ Unchanged => \A stmts \in Unsupported : execute(e, stmts) = [out |-> "refused"]

\* The SQL prompt answers every statement as if it stood alone: one that is
\* spread over lines with a blank one between, one after a failed statement or
\* after a dot-command; a dot-command inside a statement is part of it, and
\* nothing is run for an empty statement, after .quit, or for one that the
\* input cuts off (run_sql_repl).
PromptAnswers ==
    \A s \in Typed : \A answer \in {<<execute(e, <<s>>)>>} :
        LET part(i) == [of |-> <<s>>, i |-> i, n |-> 2]
            line(parts, end) == [dot |-> "none", parts |-> parts, end |-> end]
            dot(word) == [dot |-> word, parts |-> <<[of |-> <<>>, i |-> 0, n |-> 0]>>,
                          end |-> FALSE]
            one == <<line(<<part(1), part(2)>>, TRUE)>>
            two == <<line(<<part(1)>>, FALSE), line(<<>>, FALSE), line(<<part(2)>>, TRUE)>>
            broken == <<line(<<part(1)>>, FALSE), dot("quit"), line(<<part(2)>>, TRUE)>>
            cut == <<line(<<part(1)>>, FALSE)>>
        IN  /\ run_sql_repl(e, <<dot("help")>> \o two \o broken \o <<line(<<>>, TRUE)>> \o one \o cut)
                  = <<[out |-> "help"]>> \o answer \o <<[out |-> "refused"]>> \o answer
            /\ run_sql_repl(e, <<line(<<>>, FALSE), dot("quit")>> \o one) = <<>>

\* The tags mimir explore offers are the ones that overlap the answer, the
\* largest overlap first: narrowing by the first facet keeps the most objects.
FacetsRank ==
    \A name \in {m \in DOMAIN Names : Names[m] \in Tags}, n \in 1 .. 2 :
        LET sel == e.tagidx[Names[name]]
            rows == run_explore(e, name, n)
            kept(t) == Cardinality({o \in sel : e.tags[o][t] # "none"})
        IN  /\ \A i \in DOMAIN rows : kept(rows[i]) > 0
            /\ \A t \in Tags \ {rows[i] : i \in DOMAIN rows} :
                  /\ \A i \in DOMAIN rows : kept(t) <= kept(rows[i])
                  /\ Len(rows) < n => kept(t) = 0
=============================================================================
