----------------------------- MODULE MountProofs -----------------------------
(***************************************************************************)
(* InodesCoherent of TagVfs, for any number of threads and calls and any   *)
(* indices whose listings agree with what a lookup derives.  The inductive *)
(* invariant adds, for a call under way, that its directory has an inode,  *)
(* that the names it goes through are children of it, and that the inode   *)
(* it has read from the cache is still the one of its name.  None of it    *)
(* rests on who holds a mutex: the second look of allocate_inode and the   *)
(* insertion are one step.                                                 *)
(***************************************************************************)
EXTENDS TagVfs, TLAPS

(* A call as a record of its fields.                                       *)

Fields(pc, op, ino, arg, todo, cur, out) ==
    [pc |-> pc, op |-> op, ino |-> ino, arg |-> arg, todo |-> todo, cur |-> cur, out |-> out]
IsCall(p) == p = Fields(p.pc, p.op, p.ino, p.arg, p.todo, p.cur, p.out)

\* The answers the names of a directory have: <<name, inode>>.
Answers(index, ino) ==
    {<<k[2], index[k]>> : k \in {j \in DOMAIN index : j = <<ino, j[2]>>}}

\* The children a call may still give an inode to: <<name, kind>>.
Offered(kinds, inodes, ino) ==
    {c \in (STRING \cup Asked) \X Children(kinds) :
        ListingsResolve(kinds) => c[2] = derive_child_kind(inodes[ino].kind, c[1])}

\* Where a call that gives inodes to names may be.
Allocating == {"fast", "counter", "table", "index", "fetch"}

\* The table is the one of new or has grown from it by one child at a time.
TableInv(kinds, inodes, index, next) ==
    /\ next \in Nat /\ next >= 4
    /\ DOMAIN inodes = 1 .. next - 1
    /\ \A i \in DOMAIN inodes : /\ inodes[i].kind \in kinds
                                /\ inodes[i].kind.is = "Root" => i = 1
    /\ \A k \in DOMAIN index : /\ k = <<k[1], k[2]>>
                               /\ k[1] \in DOMAIN inodes
                               /\ index[k] \in DOMAIN inodes
    /\ \A i \in DOMAIN inodes \ {1} :
          \E k \in DOMAIN index : index[k] = i /\ k[1] = inodes[i].parent
    /\ \A k, j \in DOMAIN index : index[k] = index[j] => k = j
    /\ ListingsResolve(kinds) => \A k \in DOMAIN index :
          inodes[index[k]].kind = derive_child_kind(inodes[k[1]].kind, k[2])
    /\ <<"tags", 2>> \in Answers(index, 1) /\ <<"ctx", 3>> \in Answers(index, 1)

\* A call under way is about an inode; it goes through children of it and has
\* collected what their names resolve to.
CallInv(kinds, inodes, index, p) ==
    /\ IsCall(p)
    /\ p.pc # "idle" => p.ino \in DOMAIN inodes
    /\ p.op \in {"lookup", "readdir"} => p.out \in Seq(Answers(index, p.ino))
    /\ p.op = "lookup" => p.arg[1] \in Asked
    /\ p.op = "readdir" => p.arg[1] \in Nat
    /\ p.pc \in {"cached", "hit"} => p.op = "lookup"
    /\ p.pc \in Allocating => /\ p.op \in {"lookup", "readdir"}
                              /\ p.todo \in Seq(Offered(kinds, inodes, p.ino))
                              /\ p.todo # <<>>
    /\ p.pc \in {"hit", "fetch"} => <<p.todo[1][1], p.cur>> \in Answers(index, p.ino)

\* The inductive invariant of the mount.
MountInv(kinds) ==
    /\ TableInv(kinds, entries, lookup_index, next_ino)
    /\ root_inode \in DOMAIN entries /\ known \subseteq DOMAIN entries
    /\ proc = [u \in Threads |-> proc[u]]
    /\ \A u \in Threads : CallInv(kinds, entries, lookup_index, proc[u])

-----------------------------------------------------------------------------
(* Records and maps.                                                       *)

\* The fields of a call.
LEMMA FieldsOf ==
    ASSUME NEW a, NEW b, NEW c, NEW d, NEW e, NEW f, NEW g
    PROVE  LET p == Fields(a, b, c, d, e, f, g)
           IN  /\ p.pc = a /\ p.op = b /\ p.ino = c /\ p.arg = d /\ p.todo = e
               /\ p.cur = f /\ p.out = g
               /\ IsCall(p)
  BY Zenon DEF Fields, IsCall

\* The updates of a call that the steps make.
SetPc(p, x) == [p EXCEPT !.pc = x]
SetTodo(p, x) == [p EXCEPT !.todo = x]
SetCur(p, x) == [p EXCEPT !.cur = x]
SetOut(p, x) == [p EXCEPT !.out = x]
SetOp(p, x) == [p EXCEPT !.op = x]
SetIno(p, x) == [p EXCEPT !.ino = x]
SetArg(p, x) == [p EXCEPT !.arg = x]

\* Each update changes its field.
LEMMA FieldsSet ==
    ASSUME NEW a, NEW b, NEW c, NEW d, NEW e, NEW f, NEW g, NEW x
    PROVE  /\ SetPc(Fields(a, b, c, d, e, f, g), x) = Fields(x, b, c, d, e, f, g)
           /\ SetTodo(Fields(a, b, c, d, e, f, g), x) = Fields(a, b, c, d, x, f, g)
           /\ SetCur(Fields(a, b, c, d, e, f, g), x) = Fields(a, b, c, d, e, x, g)
           /\ SetOut(Fields(a, b, c, d, e, f, g), x) = Fields(a, b, c, d, e, f, x)
           /\ SetOp(Fields(a, b, c, d, e, f, g), x) = Fields(a, x, c, d, e, f, g)
           /\ SetIno(Fields(a, b, c, d, e, f, g), x) = Fields(a, b, x, d, e, f, g)
           /\ SetArg(Fields(a, b, c, d, e, f, g), x) = Fields(a, b, c, x, e, f, g)
  BY DEF Fields, SetPc, SetTodo, SetCur, SetOut, SetOp, SetIno, SetArg

\* The updates, as the steps combine them.
LEMMA CallSet ==
    ASSUME NEW p, IsCall(p), NEW pc, NEW todo, NEW cur, NEW out
    PROVE  /\ SetPc(p, pc) = Fields(pc, p.op, p.ino, p.arg, p.todo, p.cur, p.out)
           /\ SetCur(SetPc(p, pc), cur)
                = Fields(pc, p.op, p.ino, p.arg, p.todo, cur, p.out)
           /\ SetTodo(SetPc(p, pc), todo)
                = Fields(pc, p.op, p.ino, p.arg, todo, p.cur, p.out)
           /\ SetOut(SetTodo(SetPc(p, pc), todo), out)
                = Fields(pc, p.op, p.ino, p.arg, todo, p.cur, out)
           /\ SetTodo(SetOut(SetPc(p, pc), out), todo)
                = Fields(pc, p.op, p.ino, p.arg, todo, p.cur, out)
<1>1. p = Fields(p.pc, p.op, p.ino, p.arg, p.todo, p.cur, p.out)
  BY Zenon DEF IsCall
<1>2. SetPc(p, pc) = Fields(pc, p.op, p.ino, p.arg, p.todo, p.cur, p.out)
  BY <1>1, FieldsSet
<1>3. SetTodo(SetPc(p, pc), todo) = Fields(pc, p.op, p.ino, p.arg, todo, p.cur, p.out)
  BY <1>2, FieldsSet
<1>4. SetOut(SetPc(p, pc), out) = Fields(pc, p.op, p.ino, p.arg, p.todo, p.cur, out)
  BY <1>2, FieldsSet
<1>. QED BY <1>2, <1>3, <1>4, FieldsSet

\* A map with a key added: its domain and its values.
Grows(f, k, v, g) == /\ DOMAIN g = DOMAIN f \cup {k} /\ g[k] = v
                     /\ \A x \in DOMAIN f : g[x] = f[x]

\* insert adds a new key.
LEMMA Inserted ==
    ASSUME NEW f, NEW k, NEW v, k \notin DOMAIN f
    PROVE  Grows(f, k, v, insert(f, k, v))
  BY Zenon DEF insert, Grows

\* An answer is an entry of the cache.
LEMMA AnswersFound ==
    ASSUME NEW index, NEW ino, NEW n, NEW i
    PROVE  <<n, i>> \in Answers(index, ino)
              <=> <<ino, n>> \in DOMAIN index /\ index[<<ino, n>>] = i
<1>1. ASSUME <<n, i>> \in Answers(index, ino)
      PROVE  <<ino, n>> \in DOMAIN index /\ index[<<ino, n>>] = i
  <2>1. PICK k \in DOMAIN index : k = <<ino, k[2]>> /\ <<n, i>> = <<k[2], index[k]>>
    BY <1>1, Zenon DEF Answers
  <2>2. k[2] = n /\ index[k] = i
    BY <2>1, Zenon
  <2>. QED BY <2>1, <2>2, Zenon
<1>2. ASSUME <<ino, n>> \in DOMAIN index, index[<<ino, n>>] = i
      PROVE  <<n, i>> \in Answers(index, ino)
  <2>. DEFINE k == <<ino, n>>
  <2>1. k[2] = n
    BY Zenon
  <2>2. k = <<ino, k[2]>>
    BY <2>1, Zenon
  <2>. HIDE DEF k
  <2>3. k \in DOMAIN index /\ index[k] = i
    BY <1>2, Zenon DEF k
  <2>. QED BY <2>1, <2>2, <2>3, Zenon DEF Answers
<1>. QED BY <1>1, <1>2, Zenon

\* What a name resolves to stays when the cache grows.
LEMMA AnswersGrow ==
    ASSUME NEW index, NEW index2, DOMAIN index \subseteq DOMAIN index2,
           \A k \in DOMAIN index : index2[k] = index[k]
    PROVE  \A i : Answers(index, i) \subseteq Answers(index2, i)
<1>. SUFFICES ASSUME NEW i, NEW a \in Answers(index, i) PROVE a \in Answers(index2, i)
  BY Zenon
<1>1. PICK k \in DOMAIN index : k = <<i, k[2]>> /\ a = <<k[2], index[k]>>
  BY Zenon DEF Answers
<1>2. k \in DOMAIN index2 /\ a = <<k[2], index2[k]>>
  BY <1>1, Zenon
<1>. QED BY <1>1, <1>2, Zenon DEF Answers

\* A sequence of elements of a set is one of any larger set.
LEMMA SeqGrows ==
    ASSUME NEW S, NEW T, S \subseteq T
    PROVE  Seq(S) \subseteq Seq(T)
  OBVIOUS

\* A sequence of several elements has a tail that is not empty.
LEMMA TailOf ==
    ASSUME NEW S, NEW s \in Seq(S), Len(s) > 1
    PROVE  Tail(s) \in Seq(S) /\ Tail(s) # <<>>
<1>1. s # <<>>
  OBVIOUS
<1>2. Tail(s) \in Seq(S) /\ Len(Tail(s)) = Len(s) - 1 /\ Len(s) \in Nat
  BY <1>1
<1>3. Len(Tail(s)) # 0
  BY <1>2
<1>4. Len(<<>>) = 0
  BY Zenon
<1>. QED BY <1>2, <1>3, <1>4, Zenon

\* Part of a sequence is a sequence of the same elements.
LEMMA PageOf ==
    ASSUME NEW S, NEW s \in Seq(S), NEW offset \in Nat
    PROVE  Page(s, offset) \in Seq(S)
<1>. DEFINE m == offset + 1
            n == Least(offset + PageSize, Len(s))
<1>1. m \in Int /\ n \in Int /\ n <= Len(s) /\ m >= 1 /\ Len(s) \in Nat
  BY MountAssumption DEF Least
<1>. HIDE DEF m, n
<1>2. \A i \in m .. n : s[i] \in S
  BY <1>1
<1>3. SubSeq(s, m, n) \in Seq(S)
  BY <1>1, <1>2
<1>. QED BY <1>3, Zenon DEF Page, m, n

-----------------------------------------------------------------------------
(* Steps that leave the table alone.                                       *)

\* A thread's call goes on as q, and the calls of the others stay.
LEMMA Others ==
    ASSUME NEW kinds, NEW t \in Threads, NEW q, NEW inodes, NEW index,
           proc = [u \in Threads |-> proc[u]],
           proc' = [proc EXCEPT ![t] = q],
           \A u \in Threads : CallInv(kinds, inodes, index, proc[u]),
           CallInv(kinds, inodes, index, q)
    PROVE  /\ proc' = [u \in Threads |-> proc'[u]]
           /\ \A u \in Threads : CallInv(kinds, inodes, index, proc'[u])
<1>1. proc' = [u \in Threads |-> IF u = t THEN q ELSE proc[u]]
  BY Zenon
<1>2. \A u \in Threads : proc'[u] = IF u = t THEN q ELSE proc[u]
  BY <1>1, Zenon
<1>. QED BY <1>1, <1>2, Zenon

\* The invariant is kept when only a call moves.
LEMMA TableStays ==
    ASSUME NEW kinds, NEW t \in Threads, NEW q, MountInv(kinds),
           proc' = [proc EXCEPT ![t] = q],
           CallInv(kinds, entries, lookup_index, q),
           UNCHANGED Table, known' \subseteq DOMAIN entries
    PROVE  MountInv(kinds)'
<1>1. /\ entries' = entries /\ lookup_index' = lookup_index
      /\ next_ino' = next_ino /\ root_inode' = root_inode
  BY Zenon DEF Table
<1>2. /\ proc' = [u \in Threads |-> proc'[u]]
      /\ \A u \in Threads : CallInv(kinds, entries, lookup_index, proc'[u])
  BY Others, Zenon DEF MountInv
<1>3. /\ TableInv(kinds, entries', lookup_index', next_ino')
      /\ root_inode' \in DOMAIN entries' /\ known' \subseteq DOMAIN entries'
      /\ \A u \in Threads : CallInv(kinds, entries', lookup_index', proc'[u])
  BY <1>1, <1>2, Zenon DEF MountInv
<1>. QED BY <1>2, <1>3, Zenon DEF MountInv

\* An answer is an inode of the table.
LEMMA AnswerIsInode ==
    ASSUME NEW kinds, NEW inodes, NEW index, NEW next, TableInv(kinds, inodes, index, next),
           NEW ino, NEW a \in Answers(index, ino)
    PROVE  /\ a = <<a[1], a[2]>>
           /\ a[2] \in DOMAIN inodes
           /\ <<ino, a[1]>> \in DOMAIN index
           /\ index[<<ino, a[1]>>] = a[2]
<1>1. PICK k \in DOMAIN index : k = <<ino, k[2]>> /\ a = <<k[2], index[k]>>
  BY Zenon DEF Answers
<1>2. a[1] = k[2] /\ a[2] = index[k]
  BY <1>1, Zenon
<1>3. index[k] \in DOMAIN inodes
  BY Zenon DEF TableInv
<1>. QED BY <1>1, <1>2, <1>3, Zenon

\* The reply of a handler keeps the invariant when what it lists are answers.
LEMMA Replied ==
    ASSUME NEW kinds, NEW t \in Threads, NEW out, MountInv(kinds),
           proc[t].pc # "idle", Reply(t, out),
           proc[t].op \in {"lookup", "readdir"} =>
               out \in Seq(Answers(lookup_index, proc[t].ino))
    PROVE  MountInv(kinds)'
<1>. DEFINE p == proc[t]
            q == Fields("idle", p.op, p.ino, p.arg, <<>>, p.cur, out)
<1>1. CallInv(kinds, entries, lookup_index, p)
  BY Zenon DEF MountInv
<1>2. SetOut(SetTodo(SetPc(p, "idle"), <<>>), out) = q
  <2>1. IsCall(p)
    BY <1>1, Zenon DEF CallInv
  <2>. QED BY <2>1, CallSet
<1>3. proc' = [proc EXCEPT ![t] = q]
  <2>1. proc' = [proc EXCEPT ![t] = SetOut(SetTodo(SetPc(p, "idle"), <<>>), out)]
    BY Zenon DEF Reply, SetOut, SetTodo, SetPc
  <2>. QED BY <2>1, <1>2, Zenon
<1>4. CallInv(kinds, entries, lookup_index, q)
  <2>1. /\ q.pc = "idle" /\ q.op = p.op /\ q.ino = p.ino /\ q.arg = p.arg /\ q.out = out
        /\ IsCall(q)
    BY FieldsOf
  <2>2. q.pc \notin {"cached", "hit"} /\ q.pc \notin Allocating /\ q.pc \notin {"hit", "fetch"}
    BY <2>1, Zenon DEF Allocating
  <2>. HIDE DEF q
  <2>. QED BY <1>1, <2>1, <2>2, Zenon DEF CallInv
<1>5. known' \subseteq DOMAIN entries
  <2>1. CASE p.op = "lookup"
    <3>1. out \in Seq(Answers(lookup_index, p.ino))
      BY <2>1, Zenon
    <3>2. Range(out) \subseteq Answers(lookup_index, p.ino)
      BY <3>1 DEF Range
    <3>3. TableInv(kinds, entries, lookup_index, next_ino)
      BY Zenon DEF MountInv
    <3>4. \A o \in Range(out) : o[2] \in DOMAIN entries
      BY <3>2, <3>3, AnswerIsInode, Zenon
    <3>5. known' = known \cup {o[2] : o \in Range(out)}
      BY <2>1, Zenon DEF Reply
    <3>6. known \subseteq DOMAIN entries
      BY Zenon DEF MountInv
    <3>. QED BY <3>4, <3>5, <3>6, Zenon
  <2>2. CASE p.op # "lookup"
    <3>1. known' = known \cup {}
      BY <2>2, Zenon DEF Reply
    <3>2. known \subseteq DOMAIN entries
      BY Zenon DEF MountInv
    <3>. QED BY <3>1, <3>2, Zenon
  <2>. QED BY <2>1, <2>2, Zenon
<1>6. UNCHANGED Table
  BY Zenon DEF Reply
<1>. QED BY <1>3, <1>4, <1>5, <1>6, TableStays, Zenon

\* A call goes on to another step without a new answer.
LEMMA GoesOn ==
    ASSUME NEW kinds, NEW t \in Threads, NEW q, MountInv(kinds),
           proc' = [proc EXCEPT ![t] = q],
           CallInv(kinds, entries, lookup_index, q),
           UNCHANGED <<Table, known>>
    PROVE  MountInv(kinds)'
<1>1. UNCHANGED Table /\ known' = known
  BY Zenon
<1>2. known \subseteq DOMAIN entries
  BY Zenon DEF MountInv
<1>. QED BY <1>1, <1>2, TableStays, Zenon

-----------------------------------------------------------------------------
(* The handlers.                                                           *)

\* A step of a call that ends with the program counter pc and the inode cur.
LEMMA Moves ==
    ASSUME NEW kinds, NEW t \in Threads, MountInv(kinds), NEW pc, NEW cur,
           \/ proc' = [proc EXCEPT ![t].pc = pc] /\ cur = proc[t].cur
           \/ proc' = [proc EXCEPT ![t].pc = pc, ![t].cur = cur],
           UNCHANGED <<Table, known>>,
           proc[t].pc # "idle",
           pc \in {"cached", "hit"} => proc[t].op = "lookup",
           pc \in Allocating => /\ proc[t].op \in {"lookup", "readdir"}
                                /\ proc[t].todo \in Seq(Offered(kinds, entries, proc[t].ino))
                                /\ proc[t].todo # <<>>,
           pc \in {"hit", "fetch"} =>
               <<proc[t].todo[1][1], cur>> \in Answers(lookup_index, proc[t].ino)
    PROVE  MountInv(kinds)'
<1>. DEFINE p == proc[t]
            q == Fields(pc, p.op, p.ino, p.arg, p.todo, cur, p.out)
<1>1. CallInv(kinds, entries, lookup_index, p) /\ proc = [u \in Threads |-> proc[u]]
  BY Zenon DEF MountInv
<1>2. IsCall(p)
  BY <1>1, Zenon DEF CallInv
<1>3. proc' = [proc EXCEPT ![t] = q]
  <2>1. CASE proc' = [proc EXCEPT ![t].pc = pc] /\ cur = proc[t].cur
    <3>1. [proc EXCEPT ![t].pc = pc] = [proc EXCEPT ![t] = SetPc(p, pc)]
      BY <1>1, Zenon DEF SetPc
    <3>2. SetPc(p, pc) = q
      BY <1>2, <2>1, CallSet, Zenon
    <3>. QED BY <2>1, <3>1, <3>2, Zenon
  <2>2. CASE proc' = [proc EXCEPT ![t].pc = pc, ![t].cur = cur]
    <3>1. [proc EXCEPT ![t].pc = pc, ![t].cur = cur]
             = [proc EXCEPT ![t] = SetCur(SetPc(p, pc), cur)]
      BY <1>1, Zenon DEF SetPc, SetCur
    <3>2. SetCur(SetPc(p, pc), cur) = q
      BY <1>2, CallSet, Zenon
    <3>. QED BY <2>2, <3>1, <3>2, Zenon
  <2>. QED BY <2>1, <2>2, Zenon
<1>4. /\ q.pc = pc /\ q.op = p.op /\ q.ino = p.ino /\ q.arg = p.arg /\ q.todo = p.todo
      /\ q.cur = cur /\ q.out = p.out
      /\ IsCall(q)
  BY FieldsOf, ZenonT(60)
<1>. HIDE DEF q
<1>5. CallInv(kinds, entries, lookup_index, q)
  BY <1>1, <1>4, Zenon DEF CallInv
<1>. QED BY <1>3, <1>5, GoesOn, Zenon

\* The cache answers for a name of the call's directory.
LEMMA FoundAnswer ==
    ASSUME NEW t, Found(t)
    PROVE  <<proc[t].todo[1][1], lookup_index[Key(t)]>> \in Answers(lookup_index, proc[t].ino)
  BY AnswersFound DEF Found, Key

\* A lookup that hits has the inode of its name; one that misses goes on.
LEMMA LookupPreserves ==
    ASSUME NEW kinds, NEW t \in Threads, MountInv(kinds), lookup(t)
    PROVE  MountInv(kinds)'
<1>1. proc[t].pc = "cached" /\ UNCHANGED <<Table, known>>
  BY Zenon DEF lookup, At
<1>2. proc[t].op = "lookup"
  BY <1>1, Zenon DEF MountInv, CallInv
<1>3. CASE Found(t)
  <2>1. proc' = [proc EXCEPT ![t].pc = "hit", ![t].cur = lookup_index[Key(t)]]
    BY <1>3, Zenon DEF lookup
  <2>2. "hit" \notin Allocating /\ proc[t].pc # "idle"
    BY <1>1, Zenon DEF Allocating
  <2>. QED BY <1>1, <1>2, <1>3, <2>1, <2>2, FoundAnswer, Moves, Zenon
<1>4. CASE ~Found(t)
  <2>1. proc' = [proc EXCEPT ![t].pc = "entry"]
    BY <1>4, Zenon DEF lookup
  <2>2. /\ "entry" \notin Allocating /\ "entry" \notin {"hit", "fetch"}
        /\ proc[t].pc # "idle"
    BY <1>1, Zenon DEF Allocating
  <2>. QED BY <1>1, <1>2, <2>1, <2>2, Moves, Zenon
<1>. QED BY <1>3, <1>4, Zenon

\* The fast path reads the inode of the name or goes on to the locks.
LEMMA FastPreserves ==
    ASSUME NEW kinds, NEW t \in Threads, MountInv(kinds), allocate_fast(t)
    PROVE  MountInv(kinds)'
<1>1. /\ proc[t].pc = "fast" /\ UNCHANGED <<Table, known>>
      /\ proc[t].pc \in Allocating /\ proc[t].pc # "idle"
  BY Zenon DEF allocate_fast, At, Allocating
<1>2. /\ proc[t].op \in {"lookup", "readdir"}
      /\ proc[t].todo \in Seq(Offered(kinds, entries, proc[t].ino))
      /\ proc[t].todo # <<>>
  BY <1>1, Zenon DEF MountInv, CallInv
<1>3. CASE Found(t)
  <2>1. proc' = [proc EXCEPT ![t].pc = "fetch", ![t].cur = lookup_index[Key(t)]]
    BY <1>3, Zenon DEF allocate_fast
  <2>2. "fetch" \notin {"cached", "hit"}
    BY Zenon
  <2>. QED BY <1>1, <1>2, <1>3, <2>1, <2>2, FoundAnswer, Moves, Zenon
<1>4. CASE ~Found(t)
  <2>1. proc' = [proc EXCEPT ![t].pc = "counter", ![t].cur = 0]
    BY <1>4, Zenon DEF allocate_fast
  <2>2. "counter" \notin {"cached", "hit"} /\ "counter" \notin {"hit", "fetch"}
    BY Zenon
  <2>. QED BY <1>1, <1>2, <2>1, <2>2, Moves, Zenon
<1>. QED BY <1>3, <1>4, Zenon

\* Taking the counter, then the table, moves nothing.
LEMMA LockPreserves ==
    ASSUME NEW kinds, NEW t \in Threads, MountInv(kinds), lock_next_ino(t) \/ lock_entries(t)
    PROVE  MountInv(kinds)'
<1>1. PICK pc \in {"table", "index"} :
          /\ proc[t].pc \in {"counter", "table"} /\ UNCHANGED <<Table, known>>
          /\ proc' = [proc EXCEPT ![t].pc = pc]
  BY Zenon DEF lock_next_ino, lock_entries, At
<1>2. /\ proc[t].pc \in Allocating /\ proc[t].pc # "idle"
      /\ pc \notin {"cached", "hit"} /\ pc \notin {"hit", "fetch"}
  BY <1>1, Zenon DEF Allocating
<1>3. /\ proc[t].op \in {"lookup", "readdir"}
      /\ proc[t].todo \in Seq(Offered(kinds, entries, proc[t].ino))
      /\ proc[t].todo # <<>>
  BY <1>2, Zenon DEF MountInv, CallInv
<1>. QED BY <1>1, <1>2, <1>3, Moves, Zenon

\* The reply of a lookup that hit is what the name resolves to.
LEMMA HitPreserves ==
    ASSUME NEW kinds, NEW t \in Threads, MountInv(kinds), lookup_hit(t)
    PROVE  MountInv(kinds)'
<1>. DEFINE a == <<Key(t)[2], proc[t].cur>>
<1>1. proc[t].pc = "hit" /\ Reply(t, <<a>>)
  BY Zenon DEF lookup_hit, At
<1>2. CallInv(kinds, entries, lookup_index, proc[t])
  BY Zenon DEF MountInv
<1>3. <<proc[t].todo[1][1], proc[t].cur>> \in Answers(lookup_index, proc[t].ino)
  BY <1>1, <1>2, Zenon DEF CallInv
<1>4. Key(t)[2] = proc[t].todo[1][1]
  BY Zenon DEF Key
<1>5. a \in Answers(lookup_index, proc[t].ino)
  BY <1>3, <1>4, Zenon
<1>. HIDE DEF a
<1>6. <<a>> \in Seq(Answers(lookup_index, proc[t].ino)) /\ proc[t].pc # "idle"
  BY <1>1, <1>5
<1>. QED BY <1>1, <1>6, Replied, Zenon

\* What lookup derives or readdir lists is offered for the call's directory.
LEMMA OfferedByLookup ==
    ASSUME NEW kinds, ListingsTyped(kinds), NEW inodes, NEW ino,
           inodes[ino].kind \in kinds, NEW name \in Asked,
           derive_child_kind(inodes[ino].kind, name) # NoKind
    PROVE  <<<<name, derive_child_kind(inodes[ino].kind, name)>>>>
              \in Seq(Offered(kinds, inodes, ino))
<1>. DEFINE child == derive_child_kind(inodes[ino].kind, name)
            c == <<name, child>>
<1>1. child \in Children(kinds)
  BY Zenon DEF ListingsTyped
<1>. HIDE DEF child
<1>2. c \in (STRING \cup Asked) \X Children(kinds) /\ c[1] = name /\ c[2] = child
  BY <1>1, Zenon
<1>. HIDE DEF c
<1>3. c \in Offered(kinds, inodes, ino)
  BY <1>2, Zenon DEF Offered, child
<1>4. <<c>> \in Seq(Offered(kinds, inodes, ino))
  BY <1>3
<1>. QED BY <1>4, Zenon DEF c, child

\* Every child readdir lists is offered.
LEMMA OfferedByReaddir ==
    ASSUME NEW kinds, ListingsTyped(kinds), NEW inodes, NEW ino, inodes[ino].kind \in kinds
    PROVE  readdir(inodes[ino].kind) \in Seq(Offered(kinds, inodes, ino))
<1>. DEFINE kind == inodes[ino].kind
            s == readdir(kind)
<1>1. s \in Seq(STRING \X Children(kinds))
  BY Zenon DEF ListingsTyped
<1>2. ListingsResolve(kinds) => \A c \in Range(s) : c[2] = derive_child_kind(kind, c[1])
  BY Zenon DEF ListingsResolve
<1>. HIDE DEF s
<1>3. \A i \in DOMAIN s : s[i] \in STRING \X Children(kinds) /\ s[i] \in Range(s)
  BY <1>1 DEF Range
<1>4. \A x \in STRING \X Children(kinds) : x \in (STRING \cup Asked) \X Children(kinds)
  BY Zenon
<1>5. \A i \in DOMAIN s : s[i] \in Offered(kinds, inodes, ino)
  BY <1>2, <1>3, <1>4, Zenon DEF Offered
<1>6. s \in Seq(Offered(kinds, inodes, ino))
  BY <1>1, <1>5
<1>. QED BY <1>6, Zenon DEF s

\* entry offers the children of the inode, or replies with the root's listing,
\* with nothing, or with something that is no listing.
LEMMA EntryPreserves ==
    ASSUME NEW kinds, ListingsTyped(kinds), NEW t \in Threads, MountInv(kinds), entry(t)
    PROVE  MountInv(kinds)'
<1>. DEFINE p == proc[t]
            kind == IF p.ino \in DOMAIN entries THEN entries[p.ino].kind ELSE NoKind
            child == derive_child_kind(kind, p.arg[1])
            todo == CASE p.op = "lookup" -> IF child = NoKind THEN <<>> ELSE <<<<p.arg[1], child>>>>
                      [] p.op = "readdir" -> readdir(kind)
                      [] OTHER -> <<>>
            out == CASE p.op = "readdir" /\ kind.is = "Root" -> Page(readdir_root, p.arg[1])
                     [] p.op = "getattr" /\ kind # NoKind -> <<make_file_attr(kind)>>
                     [] p.op = "read" -> read(kind, p.arg)
                     [] OTHER -> <<>>
<1>1. p.pc = "entry" /\ p.pc # "idle"
  BY Zenon DEF entry, At
<1>2. CallInv(kinds, entries, lookup_index, p) /\ proc = [u \in Threads |-> proc[u]]
  BY Zenon DEF MountInv
<1>3. TableInv(kinds, entries, lookup_index, next_ino)
  BY Zenon DEF MountInv
<1>4. /\ kind = entries[p.ino].kind /\ p.ino \in DOMAIN entries
      /\ kind \in kinds /\ (kind.is = "Root" => p.ino = 1)
  <2>1. p.ino \in DOMAIN entries
    BY <1>1, <1>2, Zenon DEF CallInv
  <2>2. \A i \in DOMAIN entries : /\ entries[i].kind \in kinds
                                  /\ entries[i].kind.is = "Root" => i = 1
    BY <1>3, Zenon DEF TableInv
  <2>3. kind = entries[p.ino].kind
    BY <2>1, Zenon
  <2>4. entries[p.ino].kind \in kinds /\ (entries[p.ino].kind.is = "Root" => p.ino = 1)
    BY <2>1, <2>2, Zenon
  <2>. HIDE DEF kind
  <2>. QED BY <2>1, <2>3, <2>4, Zenon
<1>5. IF todo # <<>>
      THEN /\ proc' = [proc EXCEPT ![t].pc = "fast", ![t].todo = todo]
           /\ UNCHANGED <<Table, known, calls>>
      ELSE Reply(t, out)
  BY Zenon DEF entry
<1>. HIDE DEF kind
<1>6. CASE todo # <<>>
  <2>1. p.op \in {"lookup", "readdir"}
    BY <1>6, Zenon
  <2>2. todo \in Seq(Offered(kinds, entries, p.ino))
    <3>1. CASE p.op = "lookup"
      <4>1. todo = <<<<p.arg[1], child>>>> /\ child # NoKind
        BY <1>6, <3>1, Zenon
      <4>2. p.arg[1] \in Asked
        BY <1>2, <3>1, Zenon DEF CallInv
      <4>. QED BY <1>4, <4>1, <4>2, OfferedByLookup, Zenon
    <3>2. CASE p.op = "readdir"
      <4>1. todo = readdir(kind)
        BY <3>2, Zenon
      <4>. QED BY <1>4, <4>1, OfferedByReaddir, Zenon
    <3>. QED BY <2>1, <3>1, <3>2, Zenon
  <2>. HIDE DEF todo
  <2>. DEFINE q == Fields("fast", p.op, p.ino, p.arg, todo, p.cur, p.out)
  <2>3. proc' = [proc EXCEPT ![t] = q]
    <3>1. proc' = [proc EXCEPT ![t].pc = "fast", ![t].todo = todo]
      BY <1>5, <1>6, Zenon
    <3>2. [proc EXCEPT ![t].pc = "fast", ![t].todo = todo]
             = [proc EXCEPT ![t] = SetTodo(SetPc(p, "fast"), todo)]
      BY <1>2, Zenon DEF SetPc, SetTodo
    <3>3. IsCall(p)
      BY <1>2, Zenon DEF CallInv
    <3>4. SetTodo(SetPc(p, "fast"), todo) = q
      BY <3>3, CallSet, Zenon
    <3>. QED BY <3>1, <3>2, <3>4, Zenon
  <2>4. /\ q.pc = "fast" /\ q.op = p.op /\ q.ino = p.ino /\ q.arg = p.arg /\ q.todo = todo
        /\ q.out = p.out
        /\ IsCall(q)
    BY FieldsOf, SMTT(60)
  <2>. HIDE DEF q
  <2>5. q.pc \notin {"cached", "hit"} /\ q.pc \notin {"hit", "fetch"}
    BY <2>4, Zenon
  <2>6. CallInv(kinds, entries, lookup_index, q)
    BY <1>2, <1>4, <1>6, <2>1, <2>2, <2>4, <2>5, Zenon DEF CallInv
  <2>7. UNCHANGED <<Table, known>>
    BY <1>5, <1>6, Zenon
  <2>. QED BY <2>3, <2>6, <2>7, GoesOn, Zenon
<1>7. CASE todo = <<>>
  <2>1. ASSUME p.op \in {"lookup", "readdir"}
        PROVE  out \in Seq(Answers(lookup_index, p.ino))
    <3>1. CASE p.op = "readdir" /\ kind.is = "Root"
      <4>1. out = Page(readdir_root, p.arg[1])
        BY <3>1, Zenon
      <4>2. p.ino = 1 /\ p.arg[1] \in Nat
        BY <1>2, <1>4, <3>1, Zenon DEF CallInv
      <4>3. <<"tags", 2>> \in Answers(lookup_index, 1) /\ <<"ctx", 3>> \in Answers(lookup_index, 1)
        BY <1>3, Zenon DEF TableInv
      <4>4. readdir_root \in Seq(Answers(lookup_index, 1))
        BY <4>3 DEF readdir_root, INODE_TAGS_ROOT, INODE_CTX_ROOT
      <4>. QED BY <4>1, <4>2, <4>4, PageOf, Zenon
    <3>2. CASE ~(p.op = "readdir" /\ kind.is = "Root")
      <4>1. out = <<>>
        BY <2>1, <3>2, Zenon
      <4>2. <<>> \in Seq(Answers(lookup_index, p.ino))
        OBVIOUS
      <4>. QED BY <4>1, <4>2, Zenon
    <3>. QED BY <3>1, <3>2, Zenon
  <2>2. Reply(t, out)
    BY <1>5, <1>7, Zenon
  <2>. HIDE DEF out
  <2>. QED BY <1>1, <2>1, <2>2, Replied, Zenon
<1>. QED BY <1>6, <1>7, Zenon

-----------------------------------------------------------------------------
(* A new inode.                                                            *)

\* inodes2 and index2 have the child c of ino, under the number next, besides.
Adds(kinds, inodes, index, next, ino, c, inodes2, index2) ==
    /\ TableInv(kinds, inodes, index, next)
    /\ ino \in DOMAIN inodes
    /\ c[2] \in Children(kinds)
    /\ ListingsResolve(kinds) => c[2] = derive_child_kind(inodes[ino].kind, c[1])
    /\ <<ino, c[1]>> \notin DOMAIN index
    /\ \E r : /\ r.kind = c[2] /\ r.parent = ino
              /\ Grows(inodes, next, r, inodes2)
    /\ Grows(index, <<ino, c[1]>>, next, index2)

\* The table with one more child of an inode is such a table, and every answer
\* stands.
LEMMA TableGrows ==
    ASSUME NEW kinds, NEW inodes, NEW index, NEW next, NEW ino, NEW c, NEW inodes2, NEW index2,
           Adds(kinds, inodes, index, next, ino, c, inodes2, index2)
    PROVE  /\ TableInv(kinds, inodes2, index2, next + 1)
           /\ DOMAIN inodes \subseteq DOMAIN inodes2
           /\ \A i \in DOMAIN inodes : inodes2[i] = inodes[i]
           /\ \A i : Answers(index, i) \subseteq Answers(index2, i)
           /\ <<c[1], next>> \in Answers(index2, ino)
<1>. DEFINE key == <<ino, c[1]>>
<1>01. PICK r : r.kind = c[2] /\ r.parent = ino /\ Grows(inodes, next, r, inodes2)
  BY Zenon DEF Adds
<1>02. /\ TableInv(kinds, inodes, index, next) /\ ino \in DOMAIN inodes
       /\ key \notin DOMAIN index /\ Grows(index, key, next, index2)
  BY Zenon DEF Adds
<1>1. /\ next \in Nat /\ next >= 4 /\ DOMAIN inodes = 1 .. next - 1
      /\ next \notin DOMAIN inodes /\ next # 1 /\ 1 \in DOMAIN inodes
      /\ (1 .. next - 1) \cup {next} = 1 .. (next + 1) - 1
  BY <1>02 DEF TableInv
<1>2. /\ c[2] \in kinds /\ c[2].is # "Root"
      /\ ListingsResolve(kinds) => c[2] = derive_child_kind(inodes[ino].kind, c[1])
  BY Zenon DEF Adds, Children
<1>3. r.kind = c[2] /\ r.parent = ino
  BY <1>01, Zenon
<1>4. key[1] = ino /\ key[2] = c[1] /\ key = <<key[1], key[2]>> /\ key \notin DOMAIN index
  BY <1>02, Zenon
<1>. HIDE DEF key
<1>5. /\ DOMAIN inodes2 = DOMAIN inodes \cup {next} /\ inodes2[next] = r
      /\ \A i \in DOMAIN inodes : inodes2[i] = inodes[i]
  BY <1>01, Zenon DEF Grows
<1>6. /\ DOMAIN index2 = DOMAIN index \cup {key} /\ index2[key] = next
      /\ \A k \in DOMAIN index : index2[k] = index[k]
  BY <1>02, Zenon DEF Grows
<1>7. \A k \in DOMAIN index : /\ k = <<k[1], k[2]>>
                              /\ k[1] \in DOMAIN inodes /\ index[k] \in DOMAIN inodes
                              /\ index[k] # next
  <2>1. \A k \in DOMAIN index : /\ k = <<k[1], k[2]>>
                                /\ k[1] \in DOMAIN inodes /\ index[k] \in DOMAIN inodes
    BY <1>02, Zenon DEF TableInv
  <2>2. next \notin DOMAIN inodes
    BY <1>1, Zenon
  <2>. QED BY <2>1, <2>2, Zenon
<1>8. DOMAIN inodes2 = 1 .. (next + 1) - 1 /\ next + 1 \in Nat /\ next + 1 >= 4
  BY <1>1, <1>5
<1>9. \A i \in DOMAIN inodes2 : /\ inodes2[i].kind \in kinds
                                /\ inodes2[i].kind.is = "Root" => i = 1
  BY <1>02, <1>2, <1>3, <1>5, ZenonT(60) DEF TableInv
<1>10. \A k \in DOMAIN index2 : /\ k = <<k[1], k[2]>>
                                /\ k[1] \in DOMAIN inodes2
                                /\ index2[k] \in DOMAIN inodes2
  BY <1>02, <1>4, <1>5, <1>6, <1>7, Zenon
<1>11. \A i \in DOMAIN inodes2 \ {1} :
          \E k \in DOMAIN index2 : index2[k] = i /\ k[1] = inodes2[i].parent
  <2>. SUFFICES ASSUME NEW i \in DOMAIN inodes2 \ {1}
                PROVE  \E k \in DOMAIN index2 : index2[k] = i /\ k[1] = inodes2[i].parent
    BY Zenon
  <2>1. CASE i = next
    BY <2>1, <1>3, <1>4, <1>5, <1>6, Zenon
  <2>2. CASE i \in DOMAIN inodes
    <3>1. PICK k \in DOMAIN index : index[k] = i /\ k[1] = inodes[i].parent
      BY <1>02, <2>2, Zenon DEF TableInv
    <3>. QED BY <2>2, <3>1, <1>5, <1>6, Zenon
  <2>. QED BY <2>1, <2>2, <1>5, Zenon
<1>12. \A k, j \in DOMAIN index2 : index2[k] = index2[j] => k = j
  <2>1. \A k, j \in DOMAIN index : index[k] = index[j] => k = j
    BY <1>02, Zenon DEF TableInv
  <2>. QED BY <2>1, <1>6, <1>7, Zenon
<1>13. ASSUME ListingsResolve(kinds), NEW k \in DOMAIN index2
       PROVE  inodes2[index2[k]].kind = derive_child_kind(inodes2[k[1]].kind, k[2])
  <2>1. CASE k = key
    BY <2>1, <1>02, <1>2, <1>3, <1>4, <1>5, <1>6, <1>13, Zenon
  <2>2. CASE k \in DOMAIN index
    <3>1. inodes[index[k]].kind = derive_child_kind(inodes[k[1]].kind, k[2])
      BY <1>02, <1>13, <2>2, Zenon DEF TableInv
    <3>. QED BY <2>2, <3>1, <1>5, <1>6, <1>7, Zenon
  <2>. QED BY <2>1, <2>2, <1>6, Zenon
<1>14. \A i : Answers(index, i) \subseteq Answers(index2, i)
  BY <1>6, AnswersGrow, Zenon
<1>15. <<c[1], next>> \in Answers(index2, ino)
  <2>1. <<ino, c[1]>> \in DOMAIN index2 /\ index2[<<ino, c[1]>>] = next
    BY <1>6, Zenon DEF key
  <2>. QED BY <2>1, AnswersFound
<1>16. TableInv(kinds, inodes2, index2, next + 1)
  <2>1. <<"tags", 2>> \in Answers(index2, 1) /\ <<"ctx", 3>> \in Answers(index2, 1)
    BY <1>02, <1>14, Zenon DEF TableInv
  <2>. QED BY <1>8, <1>9, <1>10, <1>11, <1>12, <1>13, <2>1, Zenon DEF TableInv
<1>17. /\ DOMAIN inodes \subseteq DOMAIN inodes2
       /\ \A i \in DOMAIN inodes : inodes2[i] = inodes[i]
  BY <1>5, Zenon
<1>. QED BY <1>14, <1>15, <1>16, <1>17, Zenon

\* The calls under way are not disturbed by the growth of the table.
LEMMA CallStands ==
    ASSUME NEW kinds, NEW inodes, NEW index, NEW p, CallInv(kinds, inodes, index, p),
           NEW inodes2, NEW index2, DOMAIN inodes \subseteq DOMAIN inodes2,
           \A i \in DOMAIN inodes : inodes2[i] = inodes[i],
           \A i : Answers(index, i) \subseteq Answers(index2, i)
    PROVE  CallInv(kinds, inodes2, index2, p)
<1>1. \A i : Seq(Answers(index, i)) \subseteq Seq(Answers(index2, i))
  BY SeqGrows, Zenon
<1>2. \A i \in DOMAIN inodes : Offered(kinds, inodes2, i) = Offered(kinds, inodes, i)
  BY Zenon DEF Offered
<1>3. p.pc \in Allocating => p.pc # "idle"
  BY Zenon DEF Allocating
<1>4. p.pc # "idle" => p.ino \in DOMAIN inodes2
  BY Zenon DEF CallInv
<1>5. p.op \in {"lookup", "readdir"} => p.out \in Seq(Answers(index2, p.ino))
  BY <1>1, Zenon DEF CallInv
<1>6. p.pc \in Allocating => p.todo \in Seq(Offered(kinds, inodes2, p.ino))
  BY <1>2, <1>3, Zenon DEF CallInv
<1>7. p.pc \in {"hit", "fetch"} => <<p.todo[1][1], p.cur>> \in Answers(index2, p.ino)
  BY Zenon DEF CallInv
<1>. QED BY <1>4, <1>5, <1>6, <1>7, Zenon DEF CallInv

\* allocate_inode looks again before it inserts, so the name is new.
LEMMA AllocateInodePreserves ==
    ASSUME NEW kinds, NEW t \in Threads, MountInv(kinds), allocate_inode(t)
    PROVE  MountInv(kinds)'
<1>. DEFINE p == proc[t]
<1>1. p.pc = "index" /\ p.pc \in Allocating /\ p.pc # "idle" /\ known' = known
  BY Zenon DEF allocate_inode, Release, At, Allocating
<1>2. CallInv(kinds, entries, lookup_index, p) /\ proc = [u \in Threads |-> proc[u]]
  BY Zenon DEF MountInv
<1>3. /\ p.op \in {"lookup", "readdir"} /\ p.ino \in DOMAIN entries
      /\ p.todo \in Seq(Offered(kinds, entries, p.ino))
      /\ p.todo # <<>>
  BY <1>1, <1>2, Zenon DEF CallInv
<1>4. "fetch" \notin {"cached", "hit"} /\ "fetch" # "idle" /\ "fetch" \in Allocating
  BY Zenon DEF Allocating
<1>5. CASE Found(t)
  <2>1. /\ proc' = [proc EXCEPT ![t].pc = "fetch", ![t].cur = lookup_index[Key(t)]]
        /\ UNCHANGED Table
    BY <1>5, Zenon DEF allocate_inode
  <2>2. UNCHANGED <<Table, known>>
    BY <1>1, <2>1, Zenon
  <2>. QED BY <1>1, <1>3, <1>4, <1>5, <2>1, <2>2, FoundAnswer, Moves, Zenon
<1>6. CASE ~Found(t)
  <2>. DEFINE c == p.todo[1]
              q == Fields("fetch", p.op, p.ino, p.arg, p.todo, next_ino, p.out)
  <2>1. /\ entries' = insert(entries, next_ino, [kind |-> c[2], parent |-> p.ino])
        /\ lookup_index' = insert(lookup_index, <<p.ino, c[1]>>, next_ino)
        /\ next_ino' = next_ino + 1 /\ root_inode' = root_inode
        /\ proc' = [proc EXCEPT ![t].pc = "fetch", ![t].cur = next_ino]
    BY <1>6, Zenon DEF allocate_inode, Insert, Key
  <2>2. c \in Offered(kinds, entries, p.ino)
    BY <1>3
  <2>3. <<p.ino, c[1]>> \notin DOMAIN lookup_index
    BY <1>6, Zenon DEF Found, Key
  <2>4. TableInv(kinds, entries, lookup_index, next_ino)
    BY Zenon DEF MountInv
  <2>5. /\ TableInv(kinds, entries', lookup_index', next_ino')
        /\ DOMAIN entries \subseteq DOMAIN entries'
        /\ \A i \in DOMAIN entries : entries'[i] = entries[i]
        /\ \A i : Answers(lookup_index, i) \subseteq Answers(lookup_index', i)
        /\ <<c[1], next_ino>> \in Answers(lookup_index', p.ino)
    <3>. DEFINE r == [kind |-> c[2], parent |-> p.ino]
                key == <<p.ino, c[1]>>
    <3>1. r.kind = c[2] /\ r.parent = p.ino
      BY Zenon
    <3>2. next_ino \notin DOMAIN entries
      BY <2>4 DEF TableInv
    <3>. HIDE DEF r
    <3>3. Grows(entries, next_ino, r, entries')
      <4>1. entries' = insert(entries, next_ino, r)
        BY <2>1, Zenon DEF r
      <4>. QED BY <4>1, <3>2, Inserted, Zenon
    <3>4. Grows(lookup_index, key, next_ino, lookup_index')
      BY <2>1, <2>3, Inserted, Zenon
    <3>5. /\ c[2] \in Children(kinds)
          /\ ListingsResolve(kinds) => c[2] = derive_child_kind(entries[p.ino].kind, c[1])
      BY <2>2, Zenon DEF Offered
    <3>6. Adds(kinds, entries, lookup_index, next_ino, p.ino, c, entries', lookup_index')
      BY <1>3, <2>3, <2>4, <3>1, <3>3, <3>4, <3>5, Zenon DEF Adds
    <3>. HIDE DEF c, p, key
    <3>7. /\ TableInv(kinds, entries', lookup_index', next_ino + 1)
          /\ DOMAIN entries \subseteq DOMAIN entries'
          /\ \A i \in DOMAIN entries : entries'[i] = entries[i]
          /\ \A i : Answers(lookup_index, i) \subseteq Answers(lookup_index', i)
          /\ <<c[1], next_ino>> \in Answers(lookup_index', p.ino)
      BY <3>6, TableGrows, Zenon
    <3>. QED BY <2>1, <3>7, Zenon
  <2>6. \A u \in Threads : CallInv(kinds, entries', lookup_index', proc[u])
    BY <2>5, CallStands, Zenon DEF MountInv
  <2>7. proc' = [proc EXCEPT ![t] = q]
    <3>1. [proc EXCEPT ![t].pc = "fetch", ![t].cur = next_ino]
             = [proc EXCEPT ![t] = SetCur(SetPc(p, "fetch"), next_ino)]
      BY <1>2, Zenon DEF SetPc, SetCur
    <3>2. IsCall(p)
      BY <1>2, Zenon DEF CallInv
    <3>3. SetCur(SetPc(p, "fetch"), next_ino) = q
      BY <3>2, CallSet, ZenonT(60)
    <3>. QED BY <2>1, <3>1, <3>3, Zenon
  <2>8. CallInv(kinds, entries', lookup_index', q)
    <3>1. /\ q.pc = "fetch" /\ q.op = p.op /\ q.ino = p.ino /\ q.arg = p.arg
          /\ q.todo = p.todo /\ q.cur = next_ino /\ q.out = p.out
          /\ IsCall(q)
      BY FieldsOf, SMTT(60)
    <3>. HIDE DEF q
    <3>2. CallInv(kinds, entries', lookup_index', p)
      BY <2>6, Zenon
    <3>. QED BY <1>1, <1>3, <1>4, <2>5, <3>1, <3>2, Zenon DEF CallInv
  <2>. HIDE DEF q
  <2>9. /\ proc' = [u \in Threads |-> proc'[u]]
        /\ \A u \in Threads : CallInv(kinds, entries', lookup_index', proc'[u])
    BY <1>2, <2>6, <2>7, <2>8, Others, Zenon
  <2>10. root_inode' \in DOMAIN entries' /\ known' \subseteq DOMAIN entries'
    BY <1>1, <2>1, <2>5, Zenon DEF MountInv
  <2>. QED BY <2>5, <2>9, <2>10, Zenon DEF MountInv
<1>. QED BY <1>5, <1>6, Zenon

\* The inode of a name is an answer; the names left are still to be given one.
LEMMA FetchPreserves ==
    ASSUME NEW kinds, NEW t \in Threads, MountInv(kinds), fetch(t)
    PROVE  MountInv(kinds)'
<1>. DEFINE p == proc[t]
            a == <<p.todo[1][1], p.cur>>
            out == Append(p.out, a)
            rest == Tail(p.todo)
<1>1. p.pc = "fetch" /\ p.pc \in Allocating /\ p.pc # "idle"
  BY Zenon DEF fetch, At, Allocating
<1>2. CallInv(kinds, entries, lookup_index, p)
  BY Zenon DEF MountInv
<1>3. /\ p.op \in {"lookup", "readdir"} /\ p.ino \in DOMAIN entries /\ IsCall(p)
      /\ p.todo \in Seq(Offered(kinds, entries, p.ino)) /\ p.todo # <<>>
      /\ a \in Answers(lookup_index, p.ino)
      /\ p.out \in Seq(Answers(lookup_index, p.ino))
      /\ p.op = "readdir" => p.arg[1] \in Nat
  BY <1>1, <1>2, Zenon DEF CallInv
<1>. HIDE DEF a
<1>4. out \in Seq(Answers(lookup_index, p.ino))
  BY <1>3
<1>5. CASE Len(p.todo) > 1
  <2>. DEFINE q == Fields("fast", p.op, p.ino, p.arg, rest, p.cur, out)
  <2>1. /\ proc' = [proc EXCEPT ![t] = [proc[t] EXCEPT !.pc = "fast", !.out = out,
                                                       !.todo = Tail(@)]]
        /\ UNCHANGED <<Table, known>>
    <3>1. /\ proc' = [proc EXCEPT ![t] = [proc[t] EXCEPT !.pc = "fast", !.out = out,
                                                         !.todo = Tail(@)]]
          /\ UNCHANGED <<Table, known, calls>>
      BY <1>5, Zenon DEF fetch, a
    <3>. HIDE DEF out
    <3>. QED BY <3>1, Zenon
  <2>2. rest \in Seq(Offered(kinds, entries, p.ino)) /\ rest # <<>>
    BY <1>3, <1>5, TailOf, Zenon
  <2>. HIDE DEF out
  <2>3. proc' = [proc EXCEPT ![t] = q]
    <3>1. [proc[t] EXCEPT !.pc = "fast", !.out = out, !.todo = Tail(@)]
            = SetTodo(SetOut(SetPc(p, "fast"), out), Tail(SetOut(SetPc(p, "fast"), out).todo))
      BY Zenon DEF SetTodo, SetOut, SetPc
    <3>2. SetPc(p, "fast") = Fields("fast", p.op, p.ino, p.arg, p.todo, p.cur, p.out)
      BY <1>3, CallSet, Zenon
    <3>3. SetOut(SetPc(p, "fast"), out) = Fields("fast", p.op, p.ino, p.arg, p.todo, p.cur, out)
      BY <3>2, FieldsSet
    <3>4. SetOut(SetPc(p, "fast"), out).todo = p.todo
      BY <3>3, FieldsOf
    <3>5. SetTodo(SetOut(SetPc(p, "fast"), out), rest) = q
      BY <3>3, FieldsSet
    <3>. QED BY <2>1, <3>1, <3>4, <3>5, Zenon
  <2>. HIDE DEF rest
  <2>4. /\ q.pc = "fast" /\ q.op = p.op /\ q.ino = p.ino /\ q.arg = p.arg
        /\ q.todo = rest /\ q.out = out
        /\ IsCall(q)
    BY FieldsOf, SMTT(60)
  <2>. HIDE DEF q
  <2>5. q.pc \notin {"cached", "hit"} /\ q.pc \notin {"hit", "fetch"}
    BY <2>4, Zenon
  <2>6. CallInv(kinds, entries, lookup_index, q)
    BY <1>2, <1>3, <1>4, <2>2, <2>4, <2>5, Zenon DEF CallInv
  <2>. QED BY <2>1, <2>3, <2>6, GoesOn, Zenon
<1>6. CASE ~(Len(p.todo) > 1)
  <2>. DEFINE reply == IF p.op = "readdir" THEN Page(out, p.arg[1]) ELSE out
  <2>1. Reply(t, reply)
    BY <1>6, Zenon DEF fetch, a
  <2>. HIDE DEF out
  <2>2. reply \in Seq(Answers(lookup_index, p.ino))
    BY <1>3, <1>4, PageOf, Zenon
  <2>. HIDE DEF reply
  <2>. QED BY <1>1, <2>1, <2>2, Replied, Zenon
<1>. QED BY <1>5, <1>6, Zenon

-----------------------------------------------------------------------------
(* The calls, and the mount.                                               *)

\* A call that has just begun.
Begins(op, ino, arg, pc, todo) ==
    [Idle EXCEPT !.op = op, !.ino = ino, !.arg = arg, !.pc = pc, !.todo = todo]

\* Its fields.
LEMMA Begun ==
    ASSUME NEW op, NEW ino, NEW arg, NEW pc, NEW todo
    PROVE  /\ Begins(op, ino, arg, pc, todo) = Fields(pc, op, ino, arg, todo, 0, <<>>)
           /\ [Idle EXCEPT !.op = op] = Fields("idle", op, 0, <<>>, <<>>, 0, <<>>)
           /\ Idle = Fields("idle", None, 0, <<>>, <<>>, 0, <<>>)
<1>0. Idle = Fields("idle", None, 0, <<>>, <<>>, 0, <<>>)
  BY Zenon DEF Idle, Fields
<1>1. SetOp(Idle, op) = Fields("idle", op, 0, <<>>, <<>>, 0, <<>>)
  BY <1>0, FieldsSet
<1>2. SetIno(SetOp(Idle, op), ino) = Fields("idle", op, ino, <<>>, <<>>, 0, <<>>)
  BY <1>1, FieldsSet
<1>3. SetArg(SetIno(SetOp(Idle, op), ino), arg) = Fields("idle", op, ino, arg, <<>>, 0, <<>>)
  BY <1>2, FieldsSet
<1>4. SetPc(SetArg(SetIno(SetOp(Idle, op), ino), arg), pc)
          = Fields(pc, op, ino, arg, <<>>, 0, <<>>)
  BY <1>3, FieldsSet
<1>5. SetTodo(SetPc(SetArg(SetIno(SetOp(Idle, op), ino), arg), pc), todo)
          = Fields(pc, op, ino, arg, todo, 0, <<>>)
  BY <1>4, FieldsSet
<1>6. Begins(op, ino, arg, pc, todo)
          = SetTodo(SetPc(SetArg(SetIno(SetOp(Idle, op), ino), arg), pc), todo)
  BY Zenon DEF Begins, SetOp, SetIno, SetArg, SetPc, SetTodo
<1>7. [Idle EXCEPT !.op = op] = SetOp(Idle, op)
  BY Zenon DEF SetOp
<1>. QED BY <1>0, <1>1, <1>5, <1>6, <1>7, Zenon

\* A new call is about an inode the kernel knows.
LEMMA CallPreserves ==
    ASSUME NEW kinds, NEW t \in Threads, MountInv(kinds), NEW op, NEW ino \in known, NEW arg,
           Call(t, op, ino, arg),
           op = "lookup" => arg[1] \in Asked, op = "readdir" => arg[1] \in Nat
    PROVE  MountInv(kinds)'
<1>. DEFINE pc == IF op = "lookup" THEN "cached" ELSE "entry"
            todo == IF op = "lookup" THEN <<<<arg[1], NoKind>>>> ELSE <<>>
            q == Fields(pc, op, translate(ino), arg, todo, 0, <<>>)
<1>1. /\ proc' = [proc EXCEPT ![t] = Begins(op, translate(ino), arg, pc, todo)]
      /\ UNCHANGED <<Table, holder, known>>
  BY Zenon DEF Call, Begins
<1>2. /\ pc \notin Allocating /\ pc \notin {"hit", "fetch"}
      /\ pc \in {"cached", "hit"} => op = "lookup"
  BY Zenon DEF Allocating
<1>. HIDE DEF pc, todo
<1>3. proc' = [proc EXCEPT ![t] = q]
  <2>1. Begins(op, translate(ino), arg, pc, todo) = q
    BY Begun
  <2>. QED BY <1>1, <2>1, Zenon
<1>4. translate(ino) \in DOMAIN entries
  BY Zenon DEF MountInv, translate
<1>5. /\ q.pc = pc /\ q.op = op /\ q.ino = translate(ino) /\ q.arg = arg /\ q.out = <<>>
      /\ IsCall(q)
  BY FieldsOf
<1>6. <<>> \in Seq(Answers(lookup_index, q.ino))
  OBVIOUS
<1>. HIDE DEF q
<1>7. CallInv(kinds, entries, lookup_index, q)
  BY <1>2, <1>4, <1>5, <1>6, Zenon DEF CallInv
<1>8. UNCHANGED <<Table, known>>
  BY <1>1, Zenon
<1>. QED BY <1>3, <1>7, <1>8, GoesOn, Zenon

\* A handler that would write touches nothing.
LEMMA RefusePreserves ==
    ASSUME NEW kinds, NEW t \in Threads, MountInv(kinds), refuse(t)
    PROVE  MountInv(kinds)'
<1>. DEFINE q == Fields("idle", "EROFS", 0, <<>>, <<>>, 0, <<>>)
<1>1. proc' = [proc EXCEPT ![t] = [Idle EXCEPT !.op = "EROFS"]] /\ UNCHANGED <<Table, known>>
  BY Zenon DEF refuse
<1>2. proc' = [proc EXCEPT ![t] = q]
  BY <1>1, Begun, Zenon
<1>3. q.pc = "idle" /\ q.op = "EROFS" /\ IsCall(q)
  BY FieldsOf
<1>. HIDE DEF q
<1>4. CallInv(kinds, entries, lookup_index, q)
  BY <1>3, Zenon DEF CallInv, Allocating
<1>. QED BY <1>1, <1>2, <1>4, GoesOn, Zenon

\* So every call keeps the invariant.
LEMMA AskPreserves ==
    ASSUME NEW kinds, NEW t \in Threads, MountInv(kinds), Ask(t)
    PROVE  MountInv(kinds)'
<1>1. PICK ino \in known :
          \/ \E n \in Asked : Call(t, "lookup", ino, <<n>>)
          \/ \E i \in {0, PageSize} : Call(t, "readdir", ino, <<i>>)
          \/ Call(t, "getattr", ino, <<>>)
          \/ \E s \in Spans : Call(t, "read", ino, s)
          \/ refuse(t)
  BY Zenon DEF Ask
<1>2. ASSUME NEW n \in Asked, Call(t, "lookup", ino, <<n>>) PROVE MountInv(kinds)'
  <2>1. <<n>>[1] \in Asked /\ "lookup" # "readdir"
    BY Zenon
  <2>. QED BY <1>2, <2>1, CallPreserves, Zenon
<1>3. ASSUME NEW i \in {0, PageSize}, Call(t, "readdir", ino, <<i>>) PROVE MountInv(kinds)'
  <2>1. <<i>>[1] \in Nat /\ "readdir" # "lookup"
    BY MountAssumption
  <2>. QED BY <1>3, <2>1, CallPreserves, Zenon
<1>4. ASSUME Call(t, "getattr", ino, <<>>) PROVE MountInv(kinds)'
  BY <1>4, CallPreserves, Zenon
<1>5. ASSUME NEW s \in Spans, Call(t, "read", ino, s) PROVE MountInv(kinds)'
  BY <1>5, CallPreserves, Zenon
<1>. QED BY <1>1, <1>2, <1>3, <1>4, <1>5, RefusePreserves, Zenon

\* The three roots, and what each name of the first resolves to.
LEMMA NewTable ==
    ASSUME NEW kinds, ListingsTyped(kinds)
    PROVE  /\ TableInv(kinds, new.table, new.index, new.next)
           /\ new.next = 4
           /\ new.table[3].kind = Plain("CtxRoot")
           /\ DOMAIN new.index = {<<1, "tags">>, <<1, "ctx">>}
<1>. DEFINE R(is, parent) == [kind |-> Plain(is), parent |-> parent]
            tags == <<1, "tags">>
            ctx == <<1, "ctx">>
            none == <<>>
            first == insert(none, tags, 2)
            inodes == <<R("Root", 0), R("TagsRoot", 1), R("CtxRoot", 1)>>
            index == insert(first, ctx, 3)
<1>1. new.table = inodes /\ new.index = index /\ new.next = 4
  BY Zenon DEF new, INODE_ROOT, INODE_TAGS_ROOT, INODE_CTX_ROOT, INODE_FIRST_DYNAMIC
<1>2. \A is, parent : R(is, parent).kind = Plain(is) /\ R(is, parent).parent = parent
  BY Zenon
<1>3. tags[1] = 1 /\ tags[2] = "tags" /\ ctx[1] = 1 /\ ctx[2] = "ctx" /\ tags # ctx
      /\ tags = <<tags[1], tags[2]>> /\ ctx = <<ctx[1], ctx[2]>>
  BY Zenon
<1>. HIDE DEF R
<1>4. DOMAIN inodes = 1 .. 3 /\ inodes[1] = R("Root", 0) /\ inodes[2] = R("TagsRoot", 1)
      /\ inodes[3] = R("CtxRoot", 1)
  OBVIOUS
<1>. HIDE DEF inodes
<1>41. /\ inodes[1].kind = Plain("Root") /\ inodes[2].kind = Plain("TagsRoot")
       /\ inodes[3].kind = Plain("CtxRoot")
       /\ inodes[2].parent = 1 /\ inodes[3].parent = 1
  BY <1>2, <1>4
<1>5. DOMAIN none = {}
  OBVIOUS
<1>. HIDE DEF tags, ctx, none
<1>6. Grows(none, tags, 2, first)
  BY <1>5, Inserted, Zenon
<1>. HIDE DEF first
<1>7. DOMAIN first = {tags} /\ first[tags] = 2
  BY <1>5, <1>6, Zenon DEF Grows
<1>8. Grows(first, ctx, 3, index)
  BY <1>3, <1>7, Inserted, Zenon
<1>. HIDE DEF index
<1>9. DOMAIN index = {tags, ctx} /\ index[tags] = 2 /\ index[ctx] = 3
  BY <1>7, <1>8, Zenon DEF Grows
<1>10. /\ Plain("Root") \in kinds /\ Plain("TagsRoot") \in kinds /\ Plain("CtxRoot") \in kinds
  BY Zenon DEF ListingsTyped
<1>11. \A is : Plain(is).is = is
  BY Zenon DEF Plain, Kind
<1>12. \A i \in DOMAIN inodes : /\ inodes[i].kind \in kinds
                                /\ inodes[i].kind.is = "Root" => i = 1
  <2>1. \A i \in 1 .. 3 : i = 1 \/ i = 2 \/ i = 3
    OBVIOUS
  <2>2. "TagsRoot" # "Root" /\ "CtxRoot" # "Root"
    BY Zenon
  <2>3. /\ inodes[2].kind.is # "Root" /\ inodes[3].kind.is # "Root"
        /\ inodes[1].kind \in kinds /\ inodes[2].kind \in kinds /\ inodes[3].kind \in kinds
    BY <2>2, <1>41, <1>10, <1>11, Zenon
  <2>. QED BY <2>1, <2>3, <1>4, Zenon
<1>13. \A k \in DOMAIN index : /\ k = <<k[1], k[2]>>
                               /\ k[1] \in DOMAIN inodes /\ index[k] \in DOMAIN inodes
  <2>1. 1 \in 1 .. 3 /\ 2 \in 1 .. 3 /\ 3 \in 1 .. 3
    OBVIOUS
  <2>. QED BY <2>1, <1>3, <1>4, <1>9, Zenon
<1>14. \A i \in DOMAIN inodes \ {1} :
          \E k \in DOMAIN index : index[k] = i /\ k[1] = inodes[i].parent
  <2>1. \A i \in (1 .. 3) \ {1} : i = 2 \/ i = 3
    OBVIOUS
  <2>2. \A i \in {2, 3} :
            \E k \in DOMAIN index : index[k] = i /\ k[1] = inodes[i].parent
    BY <1>41, <1>3, <1>9, Zenon
  <2>. QED BY <2>1, <2>2, <1>4, Zenon
<1>15. \A k, j \in DOMAIN index : index[k] = index[j] => k = j
  <2>1. 2 # 3
    OBVIOUS
  <2>. QED BY <2>1, <1>9, Zenon
<1>16. \A k \in DOMAIN index :
          inodes[index[k]].kind = derive_child_kind(inodes[k[1]].kind, k[2])
  <2>1. derive_child_kind(Plain("Root"), "tags") = Plain("TagsRoot")
    BY <1>11 DEF derive_child_kind
  <2>2. derive_child_kind(Plain("Root"), "ctx") = Plain("CtxRoot")
    BY <1>11 DEF derive_child_kind
  <2>3. inodes[index[tags]].kind = derive_child_kind(inodes[tags[1]].kind, tags[2])
    BY <2>1, <1>41, <1>3, <1>9, Zenon
  <2>4. inodes[index[ctx]].kind = derive_child_kind(inodes[ctx[1]].kind, ctx[2])
    BY <2>2, <1>41, <1>3, <1>9, Zenon
  <2>. QED BY <2>3, <2>4, <1>9, Zenon
<1>17. <<"tags", 2>> \in Answers(index, 1) /\ <<"ctx", 3>> \in Answers(index, 1)
  BY <1>9, AnswersFound DEF tags, ctx
<1>18. 4 \in Nat /\ 4 >= 4 /\ 4 - 1 = 3
  OBVIOUS
<1>19. TableInv(kinds, inodes, index, 4)
  BY <1>4, <1>12, <1>13, <1>14, <1>15, <1>16, <1>17, <1>18, Zenon DEF TableInv
<1>20. /\ TableInv(kinds, new.table, new.index, new.next)
       /\ new.next = 4 /\ new.table[3].kind = Plain("CtxRoot")
  BY <1>1, <1>2, <1>4, <1>19, ZenonT(60)
<1>. QED BY <1>1, <1>9, <1>20, Zenon DEF tags, ctx

\* A mount of one context adds that context's directory.
LEMMA MountedTable ==
    ASSUME NEW kinds, ListingsTyped(kinds), NEW mount, NEW vfs, vfs = ctx_root_inode(new, mount)
    PROVE  /\ TableInv(kinds, vfs.table, vfs.index, vfs.next)
           /\ new_with_root(mount) \in DOMAIN vfs.table
<1>1. /\ TableInv(kinds, new.table, new.index, new.next)
      /\ new.next = 4 /\ new.table[3].kind = Plain("CtxRoot")
      /\ DOMAIN new.index = {<<1, "tags">>, <<1, "ctx">>}
  BY NewTable, Zenon
<1>2. DOMAIN new.table = 1 .. 3
  <2>1. DOMAIN new.table = 1 .. 4 - 1
    BY <1>1, Zenon DEF TableInv
  <2>. QED BY <2>1
<1>3. new_with_root(mount) \in 1 .. 3 \/ (new_with_root(mount) = 4 /\ mount \in DOMAIN Projections)
  BY <1>1 DEF new_with_root, INODE_ROOT, INODE_TAGS_ROOT, INODE_CTX_ROOT
<1>4. CASE mount \notin DOMAIN Projections
  <2>1. vfs = new
    BY <1>4, Zenon DEF ctx_root_inode
  <2>. QED BY <1>1, <1>2, <1>3, <1>4, <2>1, Zenon
<1>5. CASE mount \in DOMAIN Projections
  <2>. DEFINE kind == CtxDir(mount, <<>>)
              c == <<mount, kind>>
              key == <<3, mount>>
              r == [kind |-> kind, parent |-> 3]
  <2>1. /\ vfs.table = insert(new.table, new.next, r)
        /\ vfs.index = insert(new.index, key, new.next)
        /\ vfs.next = new.next + 1
    <3>1. vfs = [table |-> insert(new.table, new.next, r),
                 index |-> insert(new.index, key, new.next),
                 next |-> new.next + 1]
      BY <1>5, Zenon DEF ctx_root_inode, INODE_CTX_ROOT
    <3>. HIDE DEF r, key
    <3>. QED BY <3>1
  <2>2. kind \in Children(kinds)
    <3>1. kind \in kinds
      BY <1>5, Zenon DEF ListingsTyped
    <3>2. kind.is # "Root"
      BY Zenon DEF CtxDir, Kind
    <3>. QED BY <3>1, <3>2, Zenon DEF Children
  <2>3. kind = derive_child_kind(new.table[3].kind, mount)
    <3>1. Plain("CtxRoot").is = "CtxRoot"
      BY Zenon DEF Plain, Kind
    <3>2. derive_child_kind(Plain("CtxRoot"), mount) = derive_child_under_ctx_root(mount)
      BY <3>1, Zenon DEF derive_child_kind
    <3>. QED BY <1>1, <1>5, <3>2, Zenon DEF derive_child_under_ctx_root
  <2>. HIDE DEF kind
  <2>4. c[1] = mount /\ c[2] = kind /\ r.kind = kind /\ r.parent = 3
    BY Zenon
  <2>5. key # <<1, "tags">> /\ key # <<1, "ctx">>
    OBVIOUS
  <2>6. 4 \notin 1 .. 3 /\ 3 \in 1 .. 3
    OBVIOUS
  <2>. HIDE DEF r
  <2>7. Grows(new.table, new.next, r, vfs.table)
    BY <1>1, <1>2, <2>1, <2>6, Inserted, ZenonT(60)
  <2>8. key \notin DOMAIN new.index
    BY <1>1, <2>5, Zenon
  <2>9. Grows(new.index, key, new.next, vfs.index)
    BY <2>1, <2>8, Inserted, Zenon
  <2>10. /\ c[2] \in Children(kinds) /\ c[2] = derive_child_kind(new.table[3].kind, c[1])
         /\ key = <<3, c[1]>> /\ r.kind = c[2] /\ 3 \in DOMAIN new.table
         /\ TableInv(kinds, new.table, new.index, new.next)
    BY <1>1, <1>2, <2>2, <2>3, <2>4, <2>6, Zenon
  <2>. HIDE DEF c, key
  <2>11. TableInv(kinds, vfs.table, vfs.index, new.next + 1)
    <3>1. <<3, c[1]>> \notin DOMAIN new.index /\ Grows(new.index, <<3, c[1]>>, new.next, vfs.index)
      BY <2>8, <2>9, <2>10, Zenon
    <3>2. Adds(kinds, new.table, new.index, new.next, 3, c, vfs.table, vfs.index)
      BY <2>4, <2>7, <2>10, <3>1, Zenon DEF Adds
    <3>. DEFINE inodes == new.table
                index == new.index
                next == new.next
                inodes2 == vfs.table
                index2 == vfs.index
                ino == 3
    <3>3. Adds(kinds, inodes, index, next, ino, c, inodes2, index2)
      BY <3>2, Zenon
    <3>. HIDE DEF inodes, index, next, inodes2, index2, ino
    <3>4. /\ TableInv(kinds, inodes2, index2, next + 1)
          /\ DOMAIN inodes \subseteq DOMAIN inodes2
          /\ \A i \in DOMAIN inodes : inodes2[i] = inodes[i]
          /\ \A i : Answers(index, i) \subseteq Answers(index2, i)
          /\ <<c[1], next>> \in Answers(index2, ino)
      BY <3>3, TableGrows, Zenon
    <3>. QED BY <3>4, Zenon DEF inodes2, index2, next
  <2>12. DOMAIN vfs.table = 1 .. 3 \cup {4}
    BY <1>1, <1>2, <2>7, Zenon DEF Grows
  <2>. QED BY <1>3, <2>1, <2>11, <2>12, Zenon
<1>. QED BY <1>4, <1>5, Zenon

\* The invariant holds of a mount that has served no call.
LEMMA MountStarts ==
    ASSUME NEW kinds, ListingsTyped(kinds), MountInit
    PROVE  MountInv(kinds)
<1>1. PICK mount \in Mounts :
          /\ entries = ctx_root_inode(new, mount).table
          /\ lookup_index = ctx_root_inode(new, mount).index
          /\ next_ino = ctx_root_inode(new, mount).next
          /\ root_inode = new_with_root(mount)
  BY Zenon DEF MountInit
<1>2. /\ TableInv(kinds, entries, lookup_index, next_ino)
      /\ root_inode \in DOMAIN entries
  BY <1>1, MountedTable, Zenon
<1>3. known \subseteq DOMAIN entries
  <2>1. known = {1}
    BY Zenon DEF MountInit, INODE_ROOT
  <2>2. 1 \in DOMAIN entries
    BY <1>2 DEF TableInv
  <2>. QED BY <2>1, <2>2, Zenon
<1>4. proc = [t \in Threads |-> Idle]
  BY Zenon DEF MountInit
<1>5. CallInv(kinds, entries, lookup_index, Idle)
  <2>1. IsCall(Idle) /\ Idle.pc = "idle" /\ Idle.op = None
    BY Zenon DEF Idle, IsCall, Fields
  <2>. QED BY <2>1, Zenon DEF CallInv, Allocating, None
<1>6. proc = [u \in Threads |-> proc[u]] /\ \A u \in Threads : proc[u] = Idle
  BY <1>4, Zenon
<1>. QED BY <1>2, <1>3, <1>5, <1>6, Zenon DEF MountInv

\* Every step of every thread keeps it.
LEMMA MountSteps ==
    ASSUME NEW kinds, ListingsTyped(kinds), MountInv(kinds), [MountNext]_mvars
    PROVE  MountInv(kinds)'
<1>1. ASSUME NEW t \in Threads, Ask(t) PROVE MountInv(kinds)'
  BY <1>1, AskPreserves, Zenon
<1>2. ASSUME NEW t \in Threads, Step(t) PROVE MountInv(kinds)'
  BY <1>2, LookupPreserves, HitPreserves, EntryPreserves, FastPreserves, LockPreserves,
     AllocateInodePreserves, FetchPreserves, Zenon DEF Step
<1>3. CASE UNCHANGED mvars
  <2>1. /\ entries' = entries /\ lookup_index' = lookup_index /\ next_ino' = next_ino
        /\ root_inode' = root_inode /\ proc' = proc /\ known' = known
    BY <1>3, Zenon DEF mvars
  <2>. QED BY <2>1, Zenon DEF MountInv
<1>. QED BY <1>1, <1>2, <1>3, Zenon DEF MountNext

\* What the invariant says of the table and of the answers.
LEMMA MountCoherent ==
    ASSUME NEW kinds, MountInv(kinds)
    PROVE  /\ NamesTree /\ AnswersStand
           /\ ListingsResolve(kinds) => KindsResolve
<1>1. TableInv(kinds, entries, lookup_index, next_ino)
  BY Zenon DEF MountInv
<1>2. NamesTree
  BY <1>1, Zenon DEF TableInv, NamesTree, INODE_ROOT
<1>3. ListingsResolve(kinds) => KindsResolve
  BY <1>1, Zenon DEF TableInv, KindsResolve
<1>4. AnswersStand
  <2>. SUFFICES ASSUME NEW t \in Threads, proc[t].op \in {"lookup", "readdir"},
                       NEW o \in Range(proc[t].out)
                PROVE  lookup_index[<<proc[t].ino, o[1]>>] = o[2]
    BY Zenon DEF AnswersStand
  <2>1. proc[t].out \in Seq(Answers(lookup_index, proc[t].ino))
    BY Zenon DEF MountInv, CallInv
  <2>2. o \in Answers(lookup_index, proc[t].ino)
    BY <2>1 DEF Range
  <2>. QED BY <1>1, <2>2, AnswerIsInode
<1>. QED BY <1>2, <1>3, <1>4, Zenon

\* Whatever the threads interleave, the inodes in use are the numbers given
\* out, every inode but the root is the child of one name of one directory,
\* and every answer of a lookup or a listing is what the name still resolves
\* to (allocate_inode).  It needs no agreement between readdir and lookup.
THEOREM NamesStayATree ==
    ASSUME NEW kinds, ListingsTyped(kinds)
    PROVE  MountSpec => [](NamesTree /\ AnswersStand)
<1>1. MountInit => MountInv(kinds)
  BY MountStarts, Zenon
<1>2. MountInv(kinds) /\ [MountNext]_mvars => MountInv(kinds)'
  BY MountSteps, Zenon
<1>3. MountInv(kinds) => NamesTree /\ AnswersStand
  BY MountCoherent, Zenon
<1>. QED BY <1>1, <1>2, <1>3, PTL DEF MountSpec

\* When every name is listed as the kind a lookup derives for it, every inode
\* is also the kind lookup derives for its name (TagVfs::readdir against
\* derive_child_kind): the whole of InodesCoherent.
THEOREM InodesStayCoherent ==
    ASSUME NEW kinds, ListingsTyped(kinds), ListingsResolve(kinds)
    PROVE  MountSpec => []InodesCoherent
<1>1. MountInit => MountInv(kinds)
  BY MountStarts, Zenon
<1>2. MountInv(kinds) /\ [MountNext]_mvars => MountInv(kinds)'
  BY MountSteps, Zenon
<1>3. MountInv(kinds) => InodesCoherent
  BY MountCoherent, Zenon DEF InodesCoherent
<1>. QED BY <1>1, <1>2, <1>3, PTL DEF MountSpec
=============================================================================
