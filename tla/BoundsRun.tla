----------------------------- MODULE BoundsRun -----------------------------
(***************************************************************************)
(* A body with its verdicts, executed: every index expression applies its  *)
(* failure policy unless the prover elided it (emit_index_policy and the   *)
(* policies of core/core.arche), then reads the element.                   *)
(***************************************************************************)
EXTENDS BoundsProver

CONSTANTS Bodies,   \* the bodies to compile
          Inputs,   \* values the caller may pass
          Lengths,  \* lengths the caller's slice may have
          MaxTurns  \* bound: turns of a loop

VARIABLES body, infunc, phase, todo, val, slen, live, acc

vars == <<body, infunc, phase, todo, val, slen, live, acc>>

Names == {"i", "j", "o"}

\* The policy an index is compiled with, by the kind of the declaration: a
\* func is total by default, a proc aborts; --unchecked and @default are not
\* among the builds looked at.
cg_policy_for(pol) == IF pol # "none" THEN pol ELSE IF infunc THEN "clamp" ELSE "abort"

\* The operands of the policy are i32: length and index.
Srem(x, n) == IF x >= 0 THEN x % n ELSE -((-x) % n)
clamp_past_the_end(len, i) == IF i < 0 THEN 0 ELSE IF i > len THEN len - 1 ELSE i
clamp(len, i) == LET lo == IF i < 0 THEN 0 ELSE i IN IF lo >= len THEN len - 1 ELSE lo
\* `%` in the body of wrap has the divide policy of its surroundings.
wrap(len, i) == IF len = 0 THEN 0 ELSE Srem(Srem(i, len) + len, len)
Aborts(pol, len, i) ==
    \/ pol = "abort" /\ (i < 0 \/ i >= len)
    \/ pol = "wrap" /\ len = 0 /\ ~infunc
emit_policy_inline(pol, len, i) ==
    CASE pol = "clamp" -> clamp(len, i)
      [] pol = "wrap" -> wrap(len, i)
      [] OTHER -> i

\* A sized array parameter arrives as a bare pointer: no length, no check.
Length(b) == CASE b \in {"a", "p"} -> SizeA [] b = "s" -> slen [] b = "t" -> val.t [] b = "P" -> live

\* The elements its storage has.
Storage(b) == IF b = "P" THEN Capacity ELSE Length(b)

RECURSIVE Value(_)
Value(x) ==
    CASE x.t = "lit" -> x.n
      [] x.t = "name" -> val[x.v]
      [] x.t = "add" -> Value(x.l) + Value(x.r)
      [] x.t = "sub" -> Value(x.l) - Value(x.r)
      [] x.t = "len" -> Length(x.b)
      [] x.t = "cap" -> Capacity
      [] x.t = "at" -> 0

\* The outcomes of a condition; one about an element can go either way.
RECURSIVE Truth(_)
Truth(c) ==
    CASE c.op = "&&" -> UNION {IF b THEN Truth(c.r) ELSE {FALSE} : b \in Truth(c.l)}
      [] c.op = "||" -> UNION {IF b THEN {TRUE} ELSE Truth(c.r) : b \in Truth(c.l)}
      [] c.op = "<" -> {Value(c.l) < Value(c.r)}
      [] c.op = "<=" -> {Value(c.l) <= Value(c.r)}
      [] c.op = ">" -> {Value(c.l) > Value(c.r)}
      [] c.op = ">=" -> {Value(c.l) >= Value(c.r)}
      [] c.op = "==" -> BOOLEAN

\* The index expressions evaluated in an expression or a condition.
RECURSIVE Reached(_)
Reached(x) ==
    IF "op" \in DOMAIN x
    THEN Reached(x.l) \cup
         (IF (x.op = "&&" => TRUE \in Truth(x.l)) /\ (x.op = "||" => FALSE \in Truth(x.l))
          THEN Reached(x.r) ELSE {})
    ELSE CASE x.t = "at" -> {x}
           [] x.t \in {"add", "sub"} -> Reached(x.l) \cup Reached(x.r)
           [] OTHER -> {}

Policy(x) == IF x.verdict = "safe" \/ x.b = "p" THEN "undefined" ELSE cg_policy_for(x.pol)
Stops(x) == \E r \in Reached(x) : Aborts(Policy(r), Length(r.b), Value(r.i))
Accesses(x) ==
    {[b |-> r.b, verdict |-> r.verdict, pol |-> r.pol, len |-> Length(r.b),
      size |-> Storage(r.b), want |-> Value(r.i),
      got |-> emit_policy_inline(Policy(r), Length(r.b), Value(r.i))] : r \in Reached(x)}

\* A handler is inlined before every insert into its pool, full or not.
Handler == body[1].k = "params"

Init ==
    /\ body \in Bodies /\ infunc \in BOOLEAN
    /\ phase = "source" /\ todo = <<>> /\ acc = {}
    /\ \E k \in Inputs : val = [i |-> k, j |-> k, o |-> 0, t |-> 0, count |-> 0, cap |-> 0]
    /\ slen \in Lengths
    /\ live \in (IF Handler THEN 0 ELSE InitCount)..Capacity

Compile ==
    /\ phase = "source"
    /\ phase' = "running" /\ todo' = sem_check_policies(body)
    /\ UNCHANGED <<body, infunc, val, slen, live, acc>>

S == Head(todo)
Rest == Tail(todo)
Step(kinds) == phase = "running" /\ todo # <<>> /\ S.k \in kinds /\ UNCHANGED <<body, infunc, slen>>
Quit == phase' = "aborted" /\ todo' = <<>> /\ acc' = {} /\ UNCHANGED <<val, live>>

\* v op e
Set ==
    /\ Step({"set"})
    /\ IF Stops(S.e) THEN Quit
       ELSE /\ todo' = Rest /\ acc' = Accesses(S.e)
            /\ val' = [val EXCEPT ![S.v] = CASE S.op = "+=" -> @ + Value(S.e)
                                             [] S.op = "-=" -> @ - Value(S.e)
                                             [] OTHER -> Value(S.e)]
            /\ UNCHANGED <<phase, live>>

Declare ==
    /\ Step({"view", "array", "params"})
    /\ val' = CASE S.k = "view" -> [val EXCEPT !.t = S.hi - S.lo]
                [] S.k = "params" -> [val EXCEPT !.count = live, !.cap = Capacity]
                [] OTHER -> val
    /\ todo' = Rest /\ acc' = {} /\ UNCHANGED <<phase, live>>

If ==
    /\ Step({"if"})
    /\ IF Stops(S.c) THEN Quit
       ELSE /\ \E b \in Truth(S.c) : todo' = (IF b THEN S.a ELSE S.b) \o Rest
            /\ acc' = Accesses(S.c) /\ UNCHANGED <<phase, val, live>>

Match ==
    /\ Step({"match"})
    /\ todo' \in {S.a \o Rest, S.b \o Rest}
    /\ acc' = {} /\ UNCHANGED <<phase, val, live>>

Block ==
    /\ Step({"block"})
    /\ todo' = S.a \o Rest /\ acc' = {} /\ UNCHANGED <<phase, val, live>>

\* A loop in progress stays in todo behind its body: "next" steps the
\* variable, "turn" tests the condition.
Turn(s, n) == [k |-> "turn", v |-> s.v, c |-> s.c, step |-> s.step, a |-> s.a, n |-> n]
For ==
    /\ Step({"for"})
    /\ val' = [val EXCEPT ![S.v] = Value(S.e)]
    /\ todo' = <<Turn(S, 0)>> \o Rest
    /\ acc' = {} /\ UNCHANGED <<phase, live>>

LoopTurn ==
    /\ Step({"turn"})
    /\ \E b \in Truth(S.c) :
          todo' = IF b /\ S.n < MaxTurns THEN S.a \o <<[S EXCEPT !.k = "next"]>> \o Rest ELSE Rest
    /\ acc' = {} /\ UNCHANGED <<phase, val, live>>

LoopNext ==
    /\ Step({"next"})
    /\ val' = [val EXCEPT ![S.v] = @ + S.step]
    /\ todo' = <<[S EXCEPT !.k = "turn", !.n = @ + 1]>> \o Rest
    /\ acc' = {} /\ UNCHANGED <<phase, live>>

Loops == {n \in DOMAIN todo : todo[n].k = "next"}
Leave ==
    /\ Step({"exit", "break", "continue"})
    /\ todo' = IF S.k = "exit" \/ Loops = {} THEN <<>>
               ELSE LET n == CHOOSE m \in Loops : \A l \in Loops : m <= l
                    IN  SubSeq(todo, IF S.k = "break" THEN n + 1 ELSE n, Len(todo))
    /\ acc' = {} /\ UNCHANGED <<phase, val, live>>

\* A pool that refuses the row keeps its rows.
Pool ==
    /\ Step({"insert", "delete"})
    /\ live' = IF S.k = "insert" THEN IF live < Capacity THEN live + 1 ELSE live
               ELSE IF live > 0 THEN live - 1 ELSE live
    /\ todo' = Rest /\ acc' = {} /\ UNCHANGED <<phase, val>>

Next == Compile \/ Set \/ Declare \/ If \/ Match \/ Block \/ For \/ LoopTurn \/ LoopNext \/ Leave \/ Pool

Spec == Init /\ [][Next]_vars
----------------------------------------------------------------------------
\* Bodies in which a pool's capacity stands for its rows.
RECURSIVE NamesCapacity(_)
NamesCapacity(x) ==
    IF "op" \in DOMAIN x THEN NamesCapacity(x.l) \/ NamesCapacity(x.r) ELSE x.t = "cap"
RECURSIVE TestsCapacity(_)
TestsCapacity(ss) ==
    \E n \in DOMAIN ss :
        \/ ss[n].k \in {"if", "for"} /\ NamesCapacity(ss[n].c)
        \/ ss[n].k \in {"if", "match"} /\ (TestsCapacity(ss[n].a) \/ TestsCapacity(ss[n].b))
        \/ ss[n].k \in {"for", "block"} /\ TestsCapacity(ss[n].a)

\* An index the prover calls safe keeps no check at run time. It lies in the
\* storage of its base whatever the inputs, the path and the pool's population
\* are, and it is a row the pool has, or an element of the array or slice,
\* except where bnd_extent_base takes `P.capacity` for a number of rows and
\* in a @policy(pool) handler, which may run before the pool has any row:
\* there the elided check would have stopped an index at or past `P.count`.
ElidedIndexInRange ==
    \A x \in acc : x.verdict = "safe" =>
        /\ x.want >= 0 /\ x.want < x.size
        /\ x.want < x.len \/ TestsCapacity(body) \/ Handler

\* An index the prover rejects at compile time would fail on every execution
\* that reaches it.
RejectedIndexAlwaysFails == \A x \in acc : x.verdict = "oob" => x.want < 0 \/ x.want >= x.len

\* An element read under a policy other than !undefined, with its check kept,
\* lies in its base, unless the base is empty.
PolicyKeepsIndexInRange ==
    \A x \in acc : x.verdict # "safe" /\ x.pol # "undefined" /\ x.len > 0 => x.got >= 0 /\ x.got < x.len

-----------------------------------------------------------------------------
(* The instance: the bodies, and what a caller passes.                     *)
Lit(n) == [t |-> "lit", n |-> n]
V(v) == [t |-> "name", v |-> v]
LenOf(b) == [t |-> "len", b |-> b]
Cap == [t |-> "cap", b |-> "P"]
Add(l, r) == [t |-> "add", l |-> l, r |-> r]
At(b, i, pol) == [t |-> "at", b |-> b, i |-> i, pol |-> pol]
C(op, l, r) == [op |-> op, l |-> l, r |-> r]
Assign(op, v, e) == [k |-> "set", op |-> op, v |-> v, e |-> e]
Guard(c, jump) == [k |-> "if", c |-> c, a |-> <<[k |-> jump]>>, b |-> <<>>]
Cond(c, a, b) == [k |-> "if", c |-> c, a |-> a, b |-> b]
Loop(e, c, step, a) == [k |-> "for", v |-> "j", e |-> e, c |-> c, step |-> step, a |-> a]
Nest(a) == [k |-> "block", a |-> a]
Fork(a, b) == [k |-> "match", a |-> a, b |-> b]
Ctl(k) == [k |-> k]
View == [k |-> "view", v |-> "t", lo |-> 0, hi |-> 1]
Read(b, i) == Assign("=", "o", At(b, i, "none"))
Upto1(A) == {<<>>} \cup {<<x>> : x \in A}

\* Conditions that bound i from below, from above, or a length.
Below == {C(">=", V("i"), Lit(0)), C(">", V("i"), Lit(0))}
Above == {C("<", V("i"), Lit(SizeA)), C("<", V("i"), Lit(1)), C("<", V("i"), LenOf("s")), C("<", V("i"), LenOf("P")), C("<", V("i"), Cap)}
Lengthy == {C("<", Lit(1), LenOf("s")), C(">", LenOf("s"), Lit(0)), C(">=", LenOf("s"), Lit(2)), C(">", LenOf("P"), Lit(0)),
            C("<", Lit(1), Cap)}
Elem == C("==", At("s", Lit(0), "none"), Lit(1))
Conds == Below \cup Above \cup Lengthy \cup {C("&&", l, r) : l \in Below, r \in Above}
    \cup {C("&&", l, Elem) : l \in Lengthy} \cup {C("||", l, r) : l \in Below, r \in Above}

GuardsBelow == {C("<", V("i"), Lit(0))}
GuardsAbove == {C(">=", V("i"), Lit(SizeA)), C(">", V("i"), Lit(1)), C(">=", V("i"), LenOf("s")), C(">=", V("i"), LenOf("P")),
                C(">=", V("i"), Cap)}
WideGuard == C(">", V("i"), LenOf("s"))
GuardsLen == {C("<", LenOf("s"), Lit(1)), C("<=", LenOf("s"), Lit(1)), C("<", LenOf("P"), Lit(2))}
Guards == GuardsBelow \cup GuardsAbove \cup GuardsLen
    \cup {C("||", l, r) : l \in GuardsBelow, r \in GuardsAbove} \cup {C("&&", l, r) : l \in GuardsBelow, r \in GuardsAbove}

Reads == {Read(b, V("i")) : b \in {"a", "s", "P"}}
    \cup {Read("a", Lit(SizeA)), Read("a", Lit(SizeA - 1)), Read("s", Lit(0)), Read("s", Lit(1)),
          Read("t", Lit(1)), Read("t", Lit(0)), Read("P", Lit(0)), Read("P", Lit(1)), Read("a", Lit(-1))}
    \cup {Assign("=", "o", At(b, V("i"), pol)) : b \in {"a", "s"}, pol \in {"clamp", "wrap"}}
LoopReads == {Read(b, V("j")) : b \in {"a", "s", "P"}}
Sets == {Assign("=", "i", Lit(0)), Assign("=", "i", V("j")), Assign("=", "i", Add(V("i"), Lit(1))),
         Assign("=", "i", Lit(SizeA))}
Stepping == {Assign("+=", "i", Lit(1)), Assign("-=", "i", Lit(1))}
Pooling == {Ctl("insert"), Ctl("delete")}

LoopConds == {C("<", V("j"), Cap), C("<", V("j"), Lit(SizeA)), C("<", V("j"), LenOf("s")), C("<", V("j"), LenOf("P")), C("<=", V("j"), Lit(1))}
LoopsOf(inits, steps, bodies) == {Loop(e, c, n, a) : e \in inits, c \in LoopConds, n \in steps, a \in bodies}

Some == {Read("a", V("i")), Read("s", V("i")), Read("P", V("i")), Read("s", Lit(0)), Read("P", Lit(1))}

\* Start, one statement or none, a statement, one or none. The bodies keep to
\* what the prover is sound for: an index variable changes only on the level
\* of the function and by plain assignment, a loop counts upwards, a guard is
\* an `if` without else that ends in its jump, tests a length with >= and
\* not >, no access sits in an else part, and no row is deleted.
Heads == Upto1({Guard(c, "exit") : c \in Guards} \cup {Assign("=", "i", Lit(0)), Ctl("insert")})
Middles == {Guard(c, "exit") : c \in GuardsAbove} \cup Sets \cup Reads
    \cup {Cond(c, <<r>>, <<>>) : c \in Conds, r \in Some}
    \cup LoopsOf({Lit(0), V("i")}, {1}, {<<r>> : r \in LoopReads}
            \cup {<<Guard(C(">=", V("j"), LenOf("s")), x), Read("s", V("j"))>> : x \in {"break", "continue"}})
    \cup {Nest(<<Guard(c, "exit"), r>>) : c \in GuardsAbove, r \in {Read("a", V("i")), Read("s", V("i"))}}
    \cup {Fork(<<r>>, <<Ctl("insert"), Read("P", Lit(1))>>) : r \in Some}
    \cup {Ctl("insert")}
Tails == Upto1({Read("a", V("i")), Read("s", V("i")), Read("P", Lit(1))})

MCInputs == {-1, SizeA - 1, SizeA}
Start == <<[k |-> "array"], View>>
\* Handlers that look for a victim, the way evict_oldest of the tests does.
Victim == Cond(C("==", At("P", V("j"), "none"), At("P", V("i"), "none")), <<Assign("=", "i", V("j"))>>, <<>>)
Extents == {V("count"), V("cap"), LenOf("P"), Lit(SizeA)}
Handlers == {<<Ctl("params")>> \o h \o <<Loop(e, C("<", V("j"), n), 1, <<a>>)>> \o t :
    h \in Upto1({Assign(op, "i", Lit(n)) : op \in {":=", "="}, n \in 0..1}),
    e \in {Lit(0), Lit(1), V("i")}, n \in Extents, a \in {Victim, Read("P", V("j"))},
    t \in Upto1({Read("P", V("i")), Read("P", Lit(0))})}
MCBodies == {Start \o h \o <<m>> \o t : h \in Heads, m \in Middles, t \in Tails} \cup Handlers

\* Bodies the prover is not sound for.
MCDelete == {Start \o h \o <<m>> \o t : h \in {<<Ctl("delete")>>}, m \in Middles, t \in Tails}

MCLoose == {Start \o h \o <<m>> \o t :
    h \in {<<Guard(C("<", V("i"), Lit(0)), "exit")>>},
    m \in {Guard(WideGuard, "exit"), Cond(C(">=", V("i"), LenOf("s")), <<Ctl("insert")>>, <<Ctl("exit")>>)}
          \cup {Cond(c, <<x>>, <<>>) : c \in Above, x \in Sets \cup Stepping}
          \cup {Cond(c, <<Ctl("insert")>>, <<r>>) : c \in Above, r \in Reads}
          \cup Stepping
          \cup LoopsOf({Lit(0)}, {1, -1}, {<<r, Assign("=", "i", Add(V("i"), Lit(1)))>> : r \in Reads \cup LoopReads}),
    t \in {<<r>> : r \in Reads} \cup {<<Cond(c, <<r>>, <<>>)>> : c \in Above, r \in Reads}}
=============================================================================
