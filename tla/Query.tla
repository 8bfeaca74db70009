-------------------------------- MODULE Query --------------------------------
(***************************************************************************)
(* crates/query: the query algebra (mimisbrunnr_types::Query), the         *)
(* executor that answers it from the indexes, and the facets.              *)
(*                                                                         *)
(* Queries are records: tag, isa, attr, related, and, or, not.  An answer  *)
(* is [res |-> "ok", set |-> ...], or "error" (UnsupportedCmpOp), or       *)
(* "panic" (BTreeMap::range with its start above its end).                 *)
(***************************************************************************)
EXTENDS EngineOps, NormalisedKey, SequencesExt

HasTag(t) == [q |-> "tag", tag |-> t]
IsA(t) == [q |-> "isa", tag |-> t]
HasAttr(k, op, v) == [q |-> "attr", key |-> k, op |-> op, val |-> v]
Related(r) == [q |-> "related", rel |-> r]
And(qs) == [q |-> "and", qs |-> qs]
Or(qs) == [q |-> "or", qs |-> qs]
Not(q) == [q |-> "not", inner |-> q]

Ok(S) == [res |-> "ok", set |-> S]
Fail(why) == [res |-> why, set |-> {}]

-----------------------------------------------------------------------------
(* QueryExecutor.                                                          *)

eval_has_tag(e, t) == e.tagidx[t]

\* The members of every tag with a store whose closure has the tag.
eval_isa(e, t) == UNION {e.tagidx[s] : s \in {x \in e.stores : t \in Closure(e, x)}}

range_lookup(e, k, v) ==
    UNION {e.range[n] : n \in {x \in NormKeys : x = <<k, from_value(v)>>}}

range_scan(e, k, low, high) ==
    IF from_value(low) > from_value(high) THEN Fail("panic")
    ELSE Ok(UNION {e.range[n] : n \in {x \in NormKeys :
                /\ x[1] = k
                /\ from_value(low) <= x[2] /\ x[2] < from_value(high)}})

\* Mutant of eval_range: > keeps the equal values.
eval_range_loose(e, k, op, v) ==
    IF op \in {"<", "<="} THEN range_scan(e, k, type_min(v), v)
    ELSE range_scan(e, k, v, type_max(v))

eval_range(e, k, op, v) ==
    LET eq == range_lookup(e, k, v)
        scan == IF op \in {"<", "<="} THEN range_scan(e, k, type_min(v), v)
                                      ELSE range_scan(e, k, v, type_max(v))
    IN  [scan EXCEPT !.set = CASE op = "<" -> @
                               [] op \in {"<=", ">="} -> @ \cup eq
                               [] op = ">" -> @ \ eq]

Holds(e, k) == {o \in Oids : \E v \in Vals : e.attrs[o][<<k, v>>] > 0}
StartsWith(v, w) == v.t = "text" /\ w.t = "text" /\ IsPrefix(w.b, v.b)

eval_has_attr(e, k, op, v) ==
    CASE op = "=" -> Ok(IF v \in Vals THEN e.kv[<<k, v>>] ELSE {})
      [] op = "!=" -> Ok(Holds(e, k) \ (IF v \in Vals THEN e.kv[<<k, v>>] ELSE {}))
      [] op \in {"<", "<=", ">", ">="} -> eval_range(e, k, op, v)
      [] op = "prefix" -> Ok({o \in Oids : \E w \in Vals :
                                  e.attrs[o][<<k, w>>] > 0 /\ StartsWith(w, v)})
      [] op = "contains" -> Fail("error")

eval_related(e, r) == {o \in Oids : r \in Rels /\ e.rels[o][r] > 0}

universe(e) == UNION {e.tagidx[t] : t \in Tags}

\* The first child that fails decides; the intersection of no sets is empty.
Combine(answers, S) ==
    LET bad == SelectSeq(answers, LAMBDA a : a.res # "ok") IN
    IF bad # <<>> THEN bad[1] ELSE Ok(S)

eval_and(answers) ==
    Combine(answers, {o \in Oids : answers # <<>>
                         /\ \A i \in DOMAIN answers : o \in answers[i].set})
eval_or(answers) == Combine(answers, UNION {answers[i].set : i \in DOMAIN answers})
eval_not(e, answer) == Combine(<<answer>>, universe(e) \ answer.set)

RECURSIVE evaluate(_, _)
evaluate(e, q) ==
    CASE q.q = "tag" -> Ok(eval_has_tag(e, q.tag))
      [] q.q = "isa" -> Ok(eval_isa(e, q.tag))
      [] q.q = "attr" -> eval_has_attr(e, q.key, q.op, q.val)
      [] q.q = "related" -> Ok(eval_related(e, q.rel))
      [] q.q = "and" -> eval_and([i \in DOMAIN q.qs |-> evaluate(e, q.qs[i])])
      [] q.q = "or" -> eval_or([i \in DOMAIN q.qs |-> evaluate(e, q.qs[i])])
      [] q.q = "not" -> eval_not(e, evaluate(e, q.inner))

\* FacetedExplorer: tags by overlap with the selection, then by id.
facets_for(e, selection) ==
    LET overlap(t) == Cardinality(e.tagidx[t] \cap selection)
        hit == {t \in e.stores : overlap(t) > 0}
    IN  SetToSortSeq(hit, LAMBDA t, u : \/ overlap(t) > overlap(u)
                                        \/ overlap(t) = overlap(u) /\ t < u)

explore(e, base, max) ==
    LET a == evaluate(e, base) IN
    IF a.res # "ok" THEN <<>> ELSE
    LET rows == facets_for(e, a.set) IN
    SubSeq(rows, 1, IF Len(rows) < max THEN Len(rows) ELSE max)
=============================================================================
