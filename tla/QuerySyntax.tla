----------------------------- MODULE QuerySyntax -----------------------------
(***************************************************************************)
(* crates/query/src/parser.rs: the s-expression form of a query, written   *)
(* by to_sexpr and read by QueryParser::parse.                             *)
(*                                                                         *)
(* Text is the sequence of its tokens.  A bare word is told apart by what  *)
(* parse_value makes of it: an integer (num), another number (float) or a  *)
(* text (word).  A float is whole when its magnitude is even, and a text   *)
(* is ASCII when its bytes are below Repl.                                 *)
(***************************************************************************)
EXTENDS Sql

LP == [k |-> "("]
RP == [k |-> ")"]
Word(w) == [k |-> "word", w |-> w]
Tok(k, x) == [k |-> k, x |-> x]
NoQuery == [q |-> "error"]

name_or_id(t) ==
    IF \E n \in DOMAIN Names : Names[n] = t
    THEN Word(CHOOSE n \in DOMAIN Names : Names[n] = t)
    ELSE Tok("@", t)

CmpWords == {"=", "!=", "<", "<=", ">", ">=", "prefix", "contains"}

\* A whole float is printed without a point; a timestamp and a blob as a word
\* that reads as text; a scoped value as a word, a parenthesis, a raw tag and
\* the rest.
push_value(v) ==
    CASE v.t = "int" -> <<Tok("num", v.n)>>
      [] v.t = "float" -> IF v.m % 2 = 0 THEN <<Tok("num", (1 - 2 * v.s) * (v.m \div 2))>>
                                         ELSE <<Tok("float", v)>>
      [] v.t = "text" -> <<Tok("str", v.b)>>
      [] v.t \in {"timestamp", "blob"} -> <<Word(v.t)>>
      [] v.t = "scoped" -> <<Word("scoped"), LP, Tok("@", v.ctx), Word(","), RP>>

RECURSIVE render(_)
render(q) ==
    CASE q.q \in {"tag", "isa"} -> <<LP, Word(q.q), name_or_id(q.tag), RP>>
      [] q.q = "attr" -> <<LP, Word("attr"), name_or_id(q.key), Word(q.op)>>
                             \o push_value(q.val) \o <<RP>>
      [] q.q = "related" -> <<LP, Word("related"), name_or_id(q.rel[1]),
                              Tok("obj", q.rel[2]), RP>>
      [] q.q \in {"and", "or"} -> <<LP, Word(q.q)>>
              \o FlattenSeq([i \in DOMAIN q.qs |-> render(q.qs[i])]) \o <<RP>>
      [] q.q = "not" -> <<LP, Word("not")>> \o render(q.inner) \o <<RP>>

to_sexpr(q) == render(q)

-----------------------------------------------------------------------------
(* The parser.  A result is [q, pos]: the query, or NoQuery, and the       *)
(* position of the next token.                                             *)

At(toks, i) == IF i <= Len(toks) THEN toks[i] ELSE [k |-> "eof"]

\* The word as text: some bytes of ASCII.
Spelling(w) == <<1>>

\* The tokeniser takes a quoted string byte by byte, so a byte beyond ASCII
\* becomes two; integers are tried before floats.
parse_value(tok) ==
    CASE tok.k = "str" ->
            Text(FlattenSeq([i \in DOMAIN tok.x |->
                    IF tok.x[i] < Repl THEN <<tok.x[i]>> ELSE <<Repl, tok.x[i]>>]))
      [] tok.k = "num" -> IntV(tok.x)
      [] tok.k = "float" -> tok.x
      [] tok.k = "word" -> Text(Spelling(tok.w))
      [] OTHER -> NoValue

NoTag == 0
parse_name_as_tag(tok) ==
    CASE tok.k = "word" -> IF Resolves(tok.w) THEN resolve_tag(tok.w) ELSE NoTag
      [] tok.k = "@" -> tok.x
      [] OTHER -> NoTag

\* The closing parenthesis after a form that ends before position i.
Close(toks, i, q) ==
    IF q # NoQuery /\ At(toks, i) = RP THEN [q |-> q, pos |-> i + 1]
                                       ELSE [q |-> NoQuery, pos |-> i]

Guarded(ok, q) == IF ok THEN q ELSE NoQuery

RECURSIVE parse_atom(_, _), parse_children(_, _)
parse_atom(toks, i) ==
    LET head == At(toks, i + 1)
        tag == parse_name_as_tag(At(toks, i + 2))
    IN  IF At(toks, i) # LP \/ head.k # "word" THEN [q |-> NoQuery, pos |-> i]
        ELSE CASE head.w \in {"tag", "isa"} ->
                    Close(toks, i + 3, Guarded(tag # NoTag, IF head.w = "tag" THEN HasTag(tag) ELSE IsA(tag)))
               [] head.w = "attr" ->
                    LET op == At(toks, i + 3)
                        val == parse_value(At(toks, i + 4))
                    IN  Close(toks, i + 5,
                              Guarded(tag # NoTag /\ op.k = "word" /\ op.w \in CmpWords /\ val # NoValue,
                                      HasAttr(tag, op.w, val)))
               [] head.w = "related" ->
                    LET target == At(toks, i + 3) IN
                    Close(toks, i + 4,
                          Guarded(tag # NoTag /\ target.k = "obj",
                                  Related(<<tag, target.x>>)))
               [] head.w \in {"and", "or"} ->
                    LET r == parse_children(toks, i + 2) IN
                    Close(toks, r.pos, Guarded(r.ok, [q |-> head.w, qs |-> r.qs]))
               [] head.w = "not" ->
                    LET r == parse_atom(toks, i + 2) IN
                    Close(toks, r.pos, Guarded(r.q # NoQuery, Not(r.q)))
               [] OTHER -> [q |-> NoQuery, pos |-> i]

parse_children(toks, i) ==
    IF At(toks, i) = RP \/ i > Len(toks) THEN [ok |-> TRUE, qs |-> <<>>, pos |-> i]
    ELSE LET first == parse_atom(toks, i)
             rest == parse_children(toks, first.pos)
         IN  IF first.q = NoQuery \/ ~rest.ok
             THEN [ok |-> FALSE, qs |-> <<>>, pos |-> i]
             ELSE [ok |-> TRUE, qs |-> <<first.q>> \o rest.qs, pos |-> rest.pos]

parse(toks) ==
    LET r == parse_atom(toks, 1) IN
    IF r.q # NoQuery /\ r.pos = Len(toks) + 1 THEN r.q ELSE NoQuery

-----------------------------------------------------------------------------
\* mimir query and mimir explore.
run_query_sexpr(e, toks) ==
    LET q == parse(toks) IN
    IF q = NoQuery THEN Fail("error") ELSE evaluate(e, q)

run_explore(e, name, max) ==
    IF Resolves(name) THEN explore(e, HasTag(resolve_tag(name)), max) ELSE <<>>
=============================================================================
