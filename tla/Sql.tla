--------------------------------- MODULE Sql ---------------------------------
(***************************************************************************)
(* crates/sql: SqlParser admits one SELECT, SqlPlanner turns it over the   *)
(* virtual relation `objects` into a query, SqlEngine::run evaluates and   *)
(* pages it.  The syntax tree is the one sqlparser hands over.             *)
(*                                                                         *)
(* A statement: [stmt |-> "query", clauses (the unsupported ones written), *)
(* from, items, where, limit, offset].  A literal: [l |-> "str", s],       *)
(* [l |-> "num", int, float] (its two readings), [l |-> "bool", b],        *)
(* [l |-> "neg", e], [l |-> "null"].  A column is the parts of its name,   *)
(* <<>> when it is no identifier.                                          *)
(* A WHERE expression: [x |-> "cmp", col, op, lit], [x |-> "in", col,      *)
(* list, neg], [x |-> "like", col, lead, trail, inner, needle, neg],       *)
(* [x |-> "call", name, args], [x |-> "and"/"or", l, r], [x |-> "not", e], *)
(* [x |-> "none"] for a missing clause and [x |-> "other"] for the rest.   *)
(***************************************************************************)
EXTENDS Query

CONSTANT Names   \* OntologyState::names: tag or key of a name, a partial function

Unplanned == [q |-> "unplanned"]
Planned(q) == q # Unplanned

\* eq_ignore_ascii_case, on the words the planner knows.
Upper == [tag |-> "TAG", objects |-> "OBJECTS", count |-> "COUNT", isa |-> "ISA",
          related |-> "RELATED"]
Is(name, word) == name \in {word, Upper[word]}

-----------------------------------------------------------------------------
(* Literals and names. *)

NoText == [s |-> "none", ok |-> FALSE]
literal_text(lit) == IF lit.l = "str" THEN [s |-> lit.s, ok |-> TRUE] ELSE NoText

NoValue == [t |-> "no value"]

negate(v) ==
    CASE v.t = "int" -> IntV(-v.n)
      [] v.t = "float" -> FloatV(1 - v.s, v.m)
      [] OTHER -> NoValue

\* A number that is no i64 is read as a float.
RECURSIVE expr_to_value(_)
expr_to_value(lit) ==
    CASE lit.l = "str" -> Text(lit.s)
      [] lit.l = "num" -> IF lit.int \in IntMin .. IntMax THEN IntV(lit.int) ELSE lit.float
      [] lit.l = "bool" -> IntV(IF lit.b THEN 1 ELSE 0)
      [] lit.l = "neg" -> negate(expr_to_value(lit.e))
      [] lit.l = "null" -> NoValue

NoNumber == -1
expr_to_usize(lit) ==
    LET v == expr_to_value(lit) IN
    IF v.t = "int" /\ v.n >= 0 THEN v.n ELSE NoNumber

identifier_name(col) == IF col = <<>> THEN "" ELSE col[Len(col)]

Resolves(name) == name \in DOMAIN Names
resolve_tag(name) == Names[name]

\* A function argument is an unnamed expression or something else.
arg_as_text(a) == IF a.a = "expr" THEN literal_text(a.e) ELSE NoText
arg_as_int(a) ==
    LET v == IF a.a = "expr" THEN expr_to_value(a.e) ELSE NoValue IN
    IF v.t = "int" THEN v ELSE NoValue

-----------------------------------------------------------------------------
(* The WHERE clause.  An error anywhere in it refuses the statement. *)

Both(l, r, q) == IF Planned(l) /\ Planned(r) THEN q ELSE Unplanned
Flatten(op, q) == IF q.q = op THEN q.qs ELSE <<q>>
Negated(neg, q) == IF neg /\ Planned(q) THEN Not(q) ELSE q

TagNamed(lit) ==
    LET name == literal_text(lit) IN
    IF name.ok /\ Resolves(name.s) THEN HasTag(resolve_tag(name.s)) ELSE Unplanned

AttrNamed(col, op, v) ==
    IF v # NoValue /\ Resolves(col) THEN HasAttr(resolve_tag(col), op, v) ELSE Unplanned

plan_like(col, x) ==
    CASE x.inner \/ (x.lead /\ x.trail) -> Unplanned
      [] ~x.inner /\ ~x.lead /\ x.trail -> AttrNamed(col, "prefix", Text(x.needle))
      [] ~x.inner /\ x.lead /\ ~x.trail -> AttrNamed(col, "contains", Text(x.needle))
      [] ~x.inner /\ ~x.lead /\ ~x.trail -> AttrNamed(col, "=", Text(x.needle))

plan_in_list(col, list) ==
    LET term(lit) == IF Is(col, "tag") THEN TagNamed(lit) ELSE AttrNamed(col, "=", expr_to_value(lit))
    IN  IF \A i \in DOMAIN list : Planned(term(list[i]))
        THEN Or([i \in DOMAIN list |-> term(list[i])]) ELSE Unplanned

\* The tag column takes = only; any other column is an attribute key.
plan_cmp(col, op, lit) ==
    CASE col = "" -> Unplanned
      [] Is(col, "tag") -> IF op = "=" THEN TagNamed(lit) ELSE Unplanned
      [] OTHER -> AttrNamed(col, op, expr_to_value(lit))

plan_function(x) ==
    LET name == IF x.args = <<>> THEN NoText ELSE arg_as_text(x.args[1])
        target == IF Len(x.args) < 2 THEN NoValue ELSE arg_as_int(x.args[2])
    IN  CASE ~(name.ok /\ Resolves(name.s)) -> Unplanned
          [] Is(x.name, "isa") /\ Len(x.args) = 1 -> IsA(resolve_tag(name.s))
          [] Is(x.name, "related") /\ Len(x.args) = 2 /\ target # NoValue ->
                Related(<<resolve_tag(name.s), target.n>>)
          [] OTHER -> Unplanned

\* Mutant of plan_binary_op: an OR on the right is flattened into the AND.
plan_flat(op, l, r) ==
    Both(l, r, [q |-> op, qs |-> Flatten(op, l) \o Flatten("or", r)])

plan_binary_op(op, l, r) ==
    Both(l, r, [q |-> op, qs |-> Flatten(op, l) \o Flatten(op, r)])

RECURSIVE plan_expr(_)
plan_expr(x) ==
    CASE x.x = "none" -> Not(Or(<<>>))
      [] x.x = "cmp" -> plan_cmp(identifier_name(x.col), x.op, x.lit)
      [] x.x = "in" -> Negated(x.neg, plan_in_list(identifier_name(x.col), x.list))
      [] x.x = "like" -> Negated(x.neg, plan_like(identifier_name(x.col), x))
      [] x.x = "call" -> plan_function(x)
      [] x.x \in {"and", "or"} -> plan_binary_op(x.x, plan_expr(x.l), plan_expr(x.r))
      [] x.x = "not" -> Negated(TRUE, plan_expr(x.e))
      [] x.x = "other" -> Unplanned

-----------------------------------------------------------------------------
(* The statement. *)

\* One table, without joins, called objects.
validate_from(from) ==
    /\ Len(from) = 1
    /\ from[1].joins = 0
    /\ from[1].table
    /\ Is(from[1].name, "objects")

is_count_star(item) ==
    /\ item.i = "call"
    /\ Is(item.name, "count")
    /\ Len(item.args) = 1
    /\ item.args[1].a = "star"

plan_projection(items) ==
    CASE Len(items) # 1 -> "refused"
      [] Len(items) = 1 /\ items[1].i = "wildcard" -> "star"
      [] Len(items) = 1 /\ items[1].i # "wildcard" ->
            IF is_count_star(items[1]) THEN "count" ELSE "refused"

\* LIMIT n OFFSET m and LIMIT m, n carry the same two expressions; <<>> is a
\* clause that is not written.
NoClause == <<>>
Amount(clause) == IF clause = NoClause THEN 0 ELSE expr_to_usize(clause[1])
plan_limit_offset(s) ==
    /\ Amount(s.limit) # NoNumber
    /\ Amount(s.offset) # NoNumber

\* WITH, FETCH, ORDER BY, a set expression, GROUP BY (ALL), HAVING, DISTINCT
\* are refused as they come.
plan_query(s) ==
    IF /\ s.clauses = {}
       /\ validate_from(s.from)
       /\ plan_projection(s.items) # "refused"
       /\ plan_limit_offset(s)
    THEN plan_expr(s.where) ELSE Unplanned

\* The input holds exactly one statement, a SELECT.
parse_sql(stmts) == Len(stmts) = 1 /\ stmts[1].stmt = "query"

\* Rows in ascending id order after OFFSET and LIMIT, or their number.
run(e, s, q) ==
    LET a == evaluate(e, q)
        ids == SetToSortSeq(a.set, <)
        off == Amount(s.offset)
        rest == IF Len(ids) > off THEN Len(ids) - off ELSE 0
        n == IF s.limit # NoClause /\ Amount(s.limit) < rest THEN Amount(s.limit) ELSE rest
    IN  CASE a.res # "ok" -> [out |-> a.res]
          [] a.res = "ok" /\ plan_projection(s.items) = "count" -> [out |-> "count", n |-> n]
          [] a.res = "ok" /\ plan_projection(s.items) = "star" ->
                 [out |-> "rows", ids |-> SubSeq(ids, off + 1, off + n)]

execute(e, stmts) ==
    IF parse_sql(stmts) /\ Planned(plan_query(stmts[1]))
    THEN run(e, stmts[1], plan_query(stmts[1])) ELSE [out |-> "refused"]

-----------------------------------------------------------------------------
(* mimir sql.  The REPL reads lines: [dot, parts, end], the dot-command the *)
(* line is or "none", the parts of a statement on it, and whether it ends  *)
(* in a semicolon.  A part: [of, i, n], the i-th of the n parts the input  *)
(* `of` was cut into.                                                      *)

run_query_sql(e, stmts) == execute(e, stmts)

\* sqlparser: the parts of one input, all and in order, are that input.
\* Anything else is no SQL.
parts_to_ast(text) ==
    IF \A i \in DOMAIN text : text[i] = [of |-> text[1].of, i |-> i, n |-> Len(text)]
    THEN text[1].of ELSE <<>>

Printed(session, out) == [session EXCEPT !.out = Append(@, out)]

\* Mutant of repl_line: what is left of a failed statement stays.
repl_line_keeps(e, session, line) ==
    LET text == session.statement \o line.parts
        fresh == session.statement = <<>>
        answer == run_query_sql(e, parts_to_ast(text))
    IN  CASE session.quit -> session
          [] ~session.quit /\ fresh /\ line.dot = "quit" -> [session EXCEPT !.quit = TRUE]
          [] ~session.quit /\ fresh /\ line.dot \notin {"none", "quit"} ->
                Printed(session, [out |-> line.dot])
          [] ~session.quit /\ (fresh => line.dot = "none") ->
                IF ~line.end THEN [session EXCEPT !.statement = text]
                ELSE IF text = <<>> THEN session
                ELSE Printed([session EXCEPT
                                !.statement = IF answer.out = "refused" THEN text ELSE <<>>], answer)

\* A dot-command counts between statements only; inside one it is text.
repl_line(e, session, line) ==
    LET text == session.statement \o line.parts
        fresh == session.statement = <<>>
    IN  CASE session.quit -> session
          [] ~session.quit /\ fresh /\ line.dot = "quit" -> [session EXCEPT !.quit = TRUE]
          [] ~session.quit /\ fresh /\ line.dot \notin {"none", "quit"} ->
                Printed(session, [out |-> line.dot])
          [] ~session.quit /\ (fresh => line.dot = "none") ->
                IF ~line.end THEN [session EXCEPT !.statement = text]
                ELSE IF text = <<>> THEN session
                ELSE Printed([session EXCEPT !.statement = <<>>],
                             run_query_sql(e, parts_to_ast(text)))

\* What the lines print; a statement the input ends in is dropped.
run_sql_repl(e, lines) ==
    FoldLeft(LAMBDA session, line : repl_line(e, session, line),
             [statement |-> <<>>, quit |-> FALSE, out |-> <<>>], lines).out
=============================================================================
