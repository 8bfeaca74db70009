---------------------------- MODULE Subscriptions ----------------------------
(***************************************************************************)
(* crates/watch: SubscriptionEngine, and the hooks through which Engine    *)
(* drives it (crates/engine/src/engine.rs).  A subscription caches the     *)
(* objects its query matched; a mutation of the engine reaches it through  *)
(* tag_to_subs or, for create, delete and content, through a walk over all *)
(* subscriptions, and queues events a consumer drains.                     *)
(*                                                                         *)
(* subs is the SubscriptionEngine: subscriptions (by id), tag_to_subs,     *)
(* pending_events and next_id; saved is the last commit and whether        *)
(* operations were logged since.  view, lossy and stale are history: what  *)
(* a consumer makes of the events it drained, the subscriptions that lost  *)
(* events, and whether operations were replayed without their hooks.       *)
(***************************************************************************)
EXTENDS Query

CONSTANTS
    Known, Impl,     \* the ontology at the start
    LaterImpl,       \* implications a module installed later adds
    Watched,         \* the queries clients subscribe to
    Interests,       \* sets of event kinds
    Retentions,      \* bounds on a queue; Unlimited for none
    Unlimited,
    MaxSubs,         \* bound: subscription ids handed out
    MaxPending       \* bound: events waiting before the consumer drains

VARIABLES e, subs, saved, view, lossy, stale
vars == <<e, subs, saved, view, lossy, stale>>

Ids == 1 .. MaxSubs

RECURSIVE walk(_)
walk(q) ==
    CASE q.q \in {"tag", "isa"} -> {q.tag}
      [] q.q = "attr" -> {q.key}
      [] q.q = "related" -> {q.rel[1]}
      [] q.q \in {"and", "or"} -> UNION {walk(q.qs[i]) : i \in DOMAIN q.qs}
      [] q.q = "not" -> walk(q.inner)

extract_tags(q) == walk(q)

\* With the ontology at hand an IsA clause is also filed under the tags that
\* imply its tag.
RECURSIVE walk_with_ontology(_, _)
walk_with_ontology(en, q) ==
    CASE q.q = "isa" -> {q.tag} \cup {t \in en.known : q.tag \in Closure(en, t)}
      [] q.q \in {"and", "or"} ->
             UNION {walk_with_ontology(en, q.qs[i]) : i \in DOMAIN q.qs}
      [] q.q = "not" -> walk_with_ontology(en, q.inner)
      [] OTHER -> walk(q)

tags_for_indexing(en, q) == walk_with_ontology(en, q)

Live_ids(s) == DOMAIN s.subscriptions
Listed(s, t) == IF t \in DOMAIN s.tag_to_subs THEN s.tag_to_subs[t] ELSE {}
File(map, tags, id) ==
    [t \in DOMAIN map \cup tags |->
        (IF t \in DOMAIN map THEN map[t] ELSE {}) \cup (IF t \in tags THEN {id} ELSE {})]

NewSubs == [subscriptions |-> <<>>, tag_to_subs |-> <<>>, pending |-> <<>>, next_id |-> 0]

register(s, q, interest, retention, initial) ==
    LET id == s.next_id + 1 IN
    [subscriptions |-> s.subscriptions @@ (id :> [query |-> q, interest |-> interest,
                           retention |-> retention, active |-> TRUE, cached |-> initial]),
     tag_to_subs |-> File(s.tag_to_subs, extract_tags(q), id),
     pending |-> s.pending @@ (id :> <<>>),
     next_id |-> id]

Without(f, x) == [i \in DOMAIN f \ {x} |-> f[i]]

\* Only the tags of the query are looked through: a link made by
\* refresh_ontology_links stays, and dispatch skips an id that is gone.
unregister(s, id) ==
    LET tags == extract_tags(s.subscriptions[id].query)
        left == [t \in DOMAIN s.tag_to_subs |->
                    IF t \in tags THEN s.tag_to_subs[t] \ {id} ELSE s.tag_to_subs[t]]
    IN  [s EXCEPT !.subscriptions = Without(@, id),
                  !.tag_to_subs = [t \in {x \in DOMAIN left : x \notin tags \/ left[x] # {}}
                                      |-> left[t]],
                  !.pending = Without(@, id)]

refresh_ontology_links(s, en) ==
    LET filed(id) == tags_for_indexing(en, s.subscriptions[id].query) IN
    [s EXCEPT !.tag_to_subs =
        [t \in UNION {filed(id) : id \in Live_ids(s)} |->
            {id \in Live_ids(s) : t \in filed(id)}]]

-----------------------------------------------------------------------------
(* Events.  emit queues an event of a kind the subscriber asked for and    *)
(* then drops the oldest beyond the retention.                             *)

\* Mutant of apply_retention: the newest event is dropped instead.
apply_retention_newest(sub, queue) ==
    IF sub.retention # Unlimited /\ Len(queue) > sub.retention
    THEN SubSeq(queue, 1, sub.retention) ELSE queue

apply_retention(sub, queue) ==
    IF sub.retention # Unlimited /\ Len(queue) > sub.retention
    THEN SubSeq(queue, Len(queue) - sub.retention + 1, Len(queue)) ELSE queue

emit(sub, queue, kind, o) ==
    IF kind \in sub.interest
    THEN apply_retention(sub, Append(queue, [kind |-> kind, oid |-> o])) ELSE queue

Member(s, id, o) == o \in s.subscriptions[id].cached
Active(s, id) == s.subscriptions[id].active

\* Every subscription of ids that is live and active takes the events kinds
\* about object o, and its cached result becomes cache(id).
Deliver(s, ids, o, kinds(_), cache(_)) ==
    LET hit == {id \in ids \cap Live_ids(s) : Active(s, id)} IN
    [s EXCEPT
        !.subscriptions = [id \in Live_ids(s) |->
            IF id \in hit THEN [@[id] EXCEPT !.cached = cache(id)] ELSE @[id]],
        !.pending = [id \in Live_ids(s) |->
            IF id \in hit
            THEN FoldLeft(LAMBDA queue, k : emit(s.subscriptions[id], queue, k, o),
                          @[id], kinds(id))
            ELSE @[id]]]

on_tag_added(s, o, t) ==
    Deliver(s, Listed(s, t), o,
            LAMBDA id : IF Member(s, id, o) THEN <<"tag_added">> ELSE <<"entered">>,
            LAMBDA id : s.subscriptions[id].cached \cup {o})

\* Mutant of on_tag_removed: the object stays in the cached result.
on_tag_removed_keeps(s, o, t) ==
    Deliver(s, Listed(s, t), o,
            LAMBDA id : IF Member(s, id, o) THEN <<"tag_removed", "exited">> ELSE <<>>,
            LAMBDA id : s.subscriptions[id].cached)

on_tag_removed(s, o, t) ==
    Deliver(s, Listed(s, t), o,
            LAMBDA id : IF Member(s, id, o) THEN <<"tag_removed", "exited">> ELSE <<>>,
            LAMBDA id : s.subscriptions[id].cached \ {o})

on_object_created(s, o) ==
    Deliver(s, Live_ids(s), o, LAMBDA id : <<"created">>,
            LAMBDA id : s.subscriptions[id].cached)

on_object_deleted(s, o) ==
    Deliver(s, Live_ids(s), o,
            LAMBDA id : IF Member(s, id, o) THEN <<"deleted">> ELSE <<>>,
            LAMBDA id : s.subscriptions[id].cached \ {o})

on_content_changed(s, o) ==
    Deliver(s, Live_ids(s), o,
            LAMBDA id : IF Member(s, id, o) THEN <<"content">> ELSE <<>>,
            LAMBDA id : s.subscriptions[id].cached)

\* The hook each engine operation calls, with the tag the caller named.
Hook(s, op) ==
    CASE op.kind = "create" -> on_object_created(s, op.oid)
      [] op.kind = "delete" -> on_object_deleted(s, op.oid)
      [] op.kind = "add_tag" -> on_tag_added(s, op.oid, op.arg)
      [] op.kind = "remove_tag" -> on_tag_removed(s, op.oid, op.arg)
      [] op.kind \in {"set_attr", "remove_attr", "write_blob"} -> on_content_changed(s, op.oid)
      [] op.kind \in {"add_relation", "remove_relation"} -> s

-----------------------------------------------------------------------------
(* Persistence: id, query, interest, state, retention and cached result.   *)

snapshot_records(s) == s.subscriptions

\* Queues start empty, links are the query's own tags, and the counter is
\* the highest id that was saved.
from_records(records) ==
    LET filed(id) == extract_tags(records[id].query)
        ids == DOMAIN records
    IN  [subscriptions |-> records,
         tag_to_subs |-> [t \in UNION {filed(id) : id \in ids} |->
                             {id \in ids : t \in filed(id)}],
         pending |-> [id \in ids |-> <<>>],
         next_id |-> IF ids = {} THEN 0 ELSE CHOOSE m \in ids : \A i \in ids : i <= m]

Init ==
    /\ e = NewEngine(Known, Impl)
    /\ subs = NewSubs
    /\ saved = [impl |-> Impl, records |-> <<>>, dirty |-> FALSE]
    /\ view = <<>>
    /\ lossy = {}
    /\ stale = FALSE

\* An event is lost when the retention drops it.
Dropped(before, after, id) ==
    /\ id \in Live_ids(before)
    /\ Len(before.pending[id]) > 0
    /\ ~IsPrefix(before.pending[id], after.pending[id])

Operate(op) ==
    /\ Accepts(e, op)
    /\ op.kind = "create" => e.next_oid <= MaxOid
    /\ op.kind # "create" => e.obj[op.oid] = "active"
    /\ op.kind \in {"add_tag", "remove_tag"} => op.arg \in e.known
    /\ \A id \in Live_ids(subs) : Len(subs.pending[id]) < MaxPending
    /\ e' = Live(e, op)
    /\ subs' = Hook(subs, op)
    /\ lossy' = lossy \cup {id \in Live_ids(subs) : Dropped(subs, subs', id)}
    /\ saved' = [saved EXCEPT !.dirty = TRUE]
    /\ UNCHANGED <<view, stale>>

Subscribe(q, interest, retention) ==
    LET a == evaluate(e, q) IN
    /\ a.res = "ok"
    /\ subs.next_id < MaxSubs
    /\ subs' = register(subs, q, interest, retention, a.set)
    /\ view' = (subs'.next_id :> a.set) @@ view
    /\ lossy' = lossy \ {subs'.next_id}
    /\ UNCHANGED <<e, saved, stale>>

Unregister(id) ==
    /\ id \in Live_ids(subs)
    /\ subs' = unregister(subs, id)
    /\ UNCHANGED <<e, saved, view, lossy, stale>>

Pause(id) ==
    /\ id \in Live_ids(subs) /\ Active(subs, id)
    /\ subs' = [subs EXCEPT !.subscriptions[id].active = FALSE]
    /\ lossy' = lossy \cup {id}
    /\ UNCHANGED <<e, saved, view, stale>>

Resume(id) ==
    /\ id \in Live_ids(subs) /\ ~Active(subs, id)
    /\ subs' = [subs EXCEPT !.subscriptions[id].active = TRUE]
    /\ UNCHANGED <<e, saved, view, lossy, stale>>

\* What a consumer knows after an event.
After(S, ev) ==
    CASE ev.kind = "entered" -> S \cup {ev.oid}
      [] ev.kind \in {"exited", "deleted"} -> S \ {ev.oid}
      [] OTHER -> S
Followed(S, queue) == FoldLeft(After, S, queue)

Drain(id) ==
    /\ id \in Live_ids(subs) /\ subs.pending[id] # <<>>
    /\ view' = [view EXCEPT ![id] = Followed(@, subs.pending[id])]
    /\ subs' = [subs EXCEPT !.pending[id] = <<>>]
    /\ UNCHANGED <<e, saved, lossy, stale>>

\* install_ontology_module: the objects keep the tags they have.
InstallModule ==
    /\ e.impl = Impl
    /\ e' = [e EXCEPT !.impl = @ \cup LaterImpl]
    /\ subs' = refresh_ontology_links(subs, e')
    /\ UNCHANGED <<saved, view, lossy, stale>>

Commit ==
    /\ saved' = [impl |-> e.impl, records |-> snapshot_records(subs), dirty |-> FALSE]
    /\ UNCHANGED <<e, subs, view, lossy, stale>>

\* The process ends and the pool is opened again: the engine is recovered
\* from the log, the subscriptions are the ones saved.  An ontology change
\* is not in the log, so it is committed first (module DiskEngine has the
\* other case).
Reopen ==
    /\ e.impl = saved.impl
    /\ subs' = from_records(saved.records)
    /\ stale' = (stale \/ saved.dirty)
    /\ saved' = [saved EXCEPT !.dirty = FALSE]
    /\ lossy' = {id \in Live_ids(subs') : \/ id \in lossy
                                          \/ id \notin Live_ids(subs)
                                          \/ subs.pending[id] # <<>>
                                          \/ subs'.subscriptions[id] # subs.subscriptions[id]}
    /\ UNCHANGED <<e, view>>

Next ==
    \/ \E op \in Ops : Operate(op)
    \/ \E q \in Watched, i \in Interests, r \in Retentions : Subscribe(q, i, r)
    \/ \E id \in Ids : Unregister(id) \/ Pause(id) \/ Resume(id) \/ Drain(id)
    \/ InstallModule \/ Commit \/ Reopen

Spec == Init /\ [][Next]_vars

-----------------------------------------------------------------------------
\* A consumer that asked for entries, exits and deletions and lost no event
\* knows the cached result: draining and applying the queue gives exactly
\* the objects the engine believes match, through pauses of other
\* subscriptions, module installs, commits and reopens.
ConsumerFollows ==
    \A id \in Live_ids(subs) \ lossy :
        {"entered", "exited", "deleted"} \subseteq subs.subscriptions[id].interest
            => Followed(view[id], subs.pending[id]) = subs.subscriptions[id].cached

\* A subscription to a tag no other tag implies that was never paused caches
\* the members of the tag, as long as nothing was replayed from the log
\* without its hooks.
TagFollowed ==
    \A id \in Live_ids(subs) :
        LET q == subs.subscriptions[id].query IN
        (/\ q.q = "tag" /\ ~stale /\ id \notin lossy
         /\ \A t \in Tags \ {q.tag} : q.tag \notin Closure(e, t))
            => subs.subscriptions[id].cached = e.tagidx[q.tag]

=============================================================================
