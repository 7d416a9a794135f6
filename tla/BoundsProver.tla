---------------------------- MODULE BoundsProver ----------------------------
(***************************************************************************)
(* The static bounds prover of semantic/semantic.c: a walk over a body     *)
(* that carries facts about index variables and decides for every index    *)
(* expression whether it is in range, out of range or undecided.           *)
(* Only an undecided one keeps its run-time failure policy.                *)
(*                                                                         *)
(* Expressions (field t): lit n, name v, add l r, sub l r, len b           *)
(* (`b.length`, or `P.count`), cap b (`P.capacity`), at b i pol (an index  *)
(* with its explicit policy or "none"). Conditions (field op): < <= > >=   *)
(* == && || over l, r.                                                     *)
(* Statements (field k): set op v e (op one of := = += -=), view t b lo hi *)
(* (`t := b[lo:hi]`), if c a b, for v e c step a (`for (v := e; c; v +=    *)
(* step)`), block a, match a b, exit, break, continue, insert, delete. The *)
(* body of a @policy(pool) handler of P starts with params, which binds    *)
(* its parameters count and cap.                                           *)
(***************************************************************************)
EXTENDS Integers, Sequences

CONSTANTS MaxFacts,  \* BND_MAX_FACTS
          SizeA,     \* length of the local array a (and of the parameter p)
          InitCount, \* rows the pool P starts with
          Capacity   \* rows the pool P can hold

\* kind and static length of a base: 1 sized array, 2 slice, 3 pool column,
\* 0 not tracked. A slice parameter has no static length.
bnd_base_kind(e, b) ==
    LET views == {n \in DOMAIN e.locals : e.locals[n].name = b}
        last == e.locals[CHOOSE n \in views : \A m \in views : m <= n]
    IN  CASE b = "p" -> [kind |-> 1, n |-> SizeA]
          [] b = "s" -> [kind |-> 2, n |-> -1]
          [] b = "P" -> [kind |-> 3, n |-> InitCount]
          [] views # {} -> [kind |-> last.kind, n |-> last.size]
          [] OTHER -> [kind |-> 0, n |-> -1]

Upper(v, b) == [t |-> "upper", v |-> v, b |-> b]
Nonneg(v) == [t |-> "nonneg", v |-> v]
LitUb(v, n) == [t |-> "litub", v |-> v, n |-> n]
MinLen(b, n) == [t |-> "min", b |-> b, n |-> n]
Poolbound(v) == [t |-> "pool", v |-> v]

\* A fact that finds the table full is dropped; a literal bound of 0 is none.
bnd_env_add(e, f) ==
    IF Len(e.facts) >= MaxFacts \/ (f.t \in {"litub", "min"} /\ f.n <= 0) THEN e
    ELSE [e EXCEPT !.facts = Append(@, f)]
bnd_env_kill(e, v) ==
    [e EXCEPT !.facts = SelectSeq(@, LAMBDA f : f.t = "min" \/ f.v # v)]
one_element_short(e, t, kind, n) ==
    [e EXCEPT !.locals = Append(@, [name |-> t, kind |-> kind, size |-> n - 1])]
bnd_local_add(e, t, kind, n) ==
    IF Len(e.locals) >= MaxFacts THEN e
    ELSE [e EXCEPT !.locals = Append(@, [name |-> t, kind |-> kind, size |-> n])]

Knows(e, f) == \E n \in DOMAIN e.facts : e.facts[n] = f
bnd_is_nonneg(e, v) == Knows(e, Nonneg(v))
bnd_is_poolbound(e, v) == Knows(e, Poolbound(v))
bnd_proven(e, v, b) == bnd_is_nonneg(e, v) /\ Knows(e, Upper(v, b))
within_or_at(e, v, n) ==
    \E m \in DOMAIN e.facts : e.facts[m].t = "litub" /\ e.facts[m].v = v /\ e.facts[m].n <= n + 1
bnd_litub_within(e, v, n) ==
    \E m \in DOMAIN e.facts : e.facts[m].t = "litub" /\ e.facts[m].v = v /\ e.facts[m].n <= n
bnd_minlen_ok(e, b, k) ==
    \E m \in DOMAIN e.facts : e.facts[m].t = "min" /\ e.facts[m].b = b /\ e.facts[m].n > k
bnd_pool_minlive(e) ==
    LET known == {0} \cup {e.facts[m].n : m \in {n \in DOMAIN e.facts : e.facts[n].t = "min" /\ e.facts[n].b = "P"}}
    IN  CHOOSE n \in known : \A m \in known : m <= n

RECURSIVE bnd_expr_nonneg(_, _)
bnd_expr_nonneg(e, x) ==
    CASE x.t = "lit"  -> x.n >= 0
      [] x.t = "name" -> bnd_is_nonneg(e, x.v)
      [] x.t = "add"  -> bnd_expr_nonneg(e, x.l) /\ bnd_expr_nonneg(e, x.r)
      [] OTHER -> FALSE

IsName(x) == x.t = "name"
IsLit(x) == x.t = "lit" /\ x.n >= 0
\* An extent: `.length`, `.count` or `.capacity`, all three taken for a length.
IsLen(x) == x.t \in {"len", "cap"}
bnd_is_pool_extent_param(e, x) == e.handler /\ IsName(x) /\ x.v \in {"count", "cap"}
AddIf(e, p, f) == IF p THEN bnd_env_add(e, f) ELSE e

\* What holds where a condition is true.
RECURSIVE bnd_collect_facts(_, _)
bnd_collect_facts(e, c) ==
    CASE c.op = "&&" -> bnd_collect_facts(bnd_collect_facts(e, c.l), c.r)
      [] c.op = "<" /\ IsName(c.l) /\ IsLen(c.r) -> bnd_env_add(e, Upper(c.l.v, c.r.b))
      [] c.op = "<" /\ IsName(c.l) /\ IsLit(c.r) -> bnd_env_add(e, LitUb(c.l.v, c.r.n))
      [] c.op = "<" /\ IsName(c.l) /\ bnd_is_pool_extent_param(e, c.r) -> bnd_env_add(e, Poolbound(c.l.v))
      [] c.op = "<" /\ IsLit(c.l) /\ IsLen(c.r) -> bnd_env_add(e, MinLen(c.r.b, c.l.n + 1))
      [] c.op = ">" /\ IsLen(c.l) /\ IsLit(c.r) -> bnd_env_add(e, MinLen(c.l.b, c.r.n + 1))
      [] c.op = ">=" /\ IsLen(c.l) /\ IsLit(c.r) -> bnd_env_add(e, MinLen(c.l.b, c.r.n))
      [] c.op \in {">", ">="} /\ IsName(c.l) /\ IsLit(c.r) -> bnd_env_add(e, Nonneg(c.l.v))
      [] OTHER -> e

\* What holds behind `if (c) { exit }`, where c was false: the facts added,
\* or <<>> when the form is not recognised.
RECURSIVE GuardFacts(_)
GuardFacts(c) ==
    CASE c.op = "||" -> GuardFacts(c.l) \o GuardFacts(c.r)
      [] c.op \in {"<", "<="} /\ IsLen(c.l) /\ IsLit(c.r) ->
            <<MinLen(c.l.b, IF c.op = "<=" THEN c.r.n + 1 ELSE c.r.n)>>
      [] c.op = "<" /\ IsName(c.l) /\ c.r = [t |-> "lit", n |-> 0] -> <<Nonneg(c.l.v)>>
      [] c.op \in {">", ">="} /\ IsName(c.l) /\ IsLen(c.r) -> <<Upper(c.l.v, c.r.b)>>
      [] c.op \in {">", ">="} /\ IsName(c.l) /\ IsLit(c.r) ->
            <<LitUb(c.l.v, IF c.op = ">" THEN c.r.n + 1 ELSE c.r.n)>>
      [] OTHER -> <<>>
RECURSIVE AddAll(_, _)
AddAll(e, fs) == IF fs = <<>> THEN e ELSE AddAll(bnd_env_add(e, Head(fs)), Tail(fs))
bnd_guard_neg(e, c) == AddAll(e, GuardFacts(c))

Exits(ss) == \E n \in DOMAIN ss : ss[n].k \in {"exit", "break", "continue"}
\* A jump anywhere among the statements of the `if`, its else part included.
bnd_body_exits(s) == Exits(s.a) \/ Exits(s.b)

\* The verdict on b[i].
bnd_policy_check(e, b, i) ==
    LET base == bnd_base_kind(e, b)
    IN  CASE base.kind = 0 -> "open"
          [] i.t = "lit" /\ i.n < 0 -> "oob"
          [] i.t = "lit" /\ i.n >= 0 /\ ((base.kind = 1 /\ base.n >= 0) \/ (base.kind = 2 /\ base.n > 0)) ->
                IF i.n >= base.n THEN "oob" ELSE "safe"
          [] i.t = "lit" /\ base.kind = 3 /\ base.n > 0 /\ i.n < base.n -> "safe"
          [] i.t = "lit" /\ bnd_minlen_ok(e, b, i.n) -> "safe"
          [] IsName(i) /\ bnd_proven(e, i.v, b) -> "safe"
          [] IsName(i) /\ base.kind = 1 /\ base.n >= 0 /\ bnd_is_nonneg(e, i.v)
                /\ bnd_litub_within(e, i.v, base.n) -> "safe"
          [] IsName(i) /\ base.kind = 3 /\ base.n > 0 /\ bnd_is_nonneg(e, i.v)
                /\ bnd_litub_within(e, i.v, base.n) -> "safe"
          [] IsName(i) /\ base.kind = 3 /\ bnd_is_nonneg(e, i.v) /\ bnd_is_poolbound(e, i.v) -> "safe"
          [] OTHER -> "open"

\* The expression with a verdict on every index in it. What the left side of
\* && establishes holds for its right side.
RECURSIVE bnd_check_expr(_, _)
bnd_check_expr(e, x) ==
    IF "op" \in DOMAIN x
    THEN LET l == bnd_check_expr(e, x.l)
             f == IF x.op = "&&" THEN bnd_collect_facts(e, x.l) ELSE e
         IN  [op |-> x.op, l |-> l, r |-> bnd_check_expr(f, x.r)]
    ELSE CASE x.t = "at" -> [t |-> "at", b |-> x.b, i |-> x.i, pol |-> x.pol,
                             verdict |-> bnd_policy_check(e, x.b, x.i)]
           [] x.t \in {"add", "sub"} -> [x EXCEPT !.l = bnd_check_expr(e, @), !.r = bnd_check_expr(e, @)]
           [] OTHER -> x

\* The walk gives the facts behind a statement and the annotated statement.
RECURSIVE bnd_check_stmt(_, _, _), bnd_check_block(_, _, _)
Outcome(e, s) == [e |-> e, s |-> s]
\* Facts of an inner body go back to what they were; the locals stay.
bnd_restore(after, e) == [after EXCEPT !.facts = e.facts]

bnd_check_block(e, ss, flow) ==
    IF ss = <<>> THEN Outcome(e, <<>>)
    ELSE LET h == bnd_check_stmt(e, Head(ss), flow)
             r == bnd_check_block(h.e, Tail(ss), flow)
         IN  Outcome(r.e, <<h.s>> \o r.s)

\* An assignment in any form: the right side decides what is known of the
\* target afterwards. A binding does not forget older facts. In a handler a
\* row number and slot 0 stay row numbers.
SetFacts(e, s) ==
    LET k == IF s.op = ":=" THEN e ELSE bnd_env_kill(e, s.v)
        nn == bnd_expr_nonneg(e, s.e)
        f == AddIf(k, nn, Nonneg(s.v))
        row == (IsName(s.e) /\ bnd_is_poolbound(f, s.e.v)) \/ (s.e.t = "lit" /\ s.e.n = 0)
    IN  AddIf(f, nn /\ e.handler /\ row, Poolbound(s.v))

\* The facts of the condition hold in the body, and the loop variable is
\* not negative there when its initial value is not.
ForStmt(e, s, flow) ==
    LET head == AddIf(bnd_collect_facts(e, s.c), bnd_expr_nonneg(e, s.e), Nonneg(s.v))
        body == bnd_check_block(head, s.a, flow)
    IN  Outcome(bnd_restore(body.e, e), [s EXCEPT !.a = body.s])

\* A guard is an `if` that leaves; the rest runs where its condition failed,
\* and its own body is not looked at. Any other `if` checks all its
\* statements with what the condition says.
IfStmt(e, s, flow) ==
    IF bnd_body_exits(s) /\ GuardFacts(s.c) # <<>>
    THEN LET f == bnd_guard_neg(e, s.c) IN Outcome(f, [s EXCEPT !.c = bnd_check_expr(f, @)])
    ELSE LET a == bnd_check_block(bnd_collect_facts(e, s.c), s.a, flow)
             b == bnd_check_block(a.e, s.b, flow)
         IN  Outcome(bnd_restore(b.e, e), [s EXCEPT !.c = bnd_check_expr(e, @), !.a = a.s, !.b = b.s])

\* With flow, every insert into P raises the number of rows known to live.
InsertStmt(e, s, flow) ==
    LET cur == IF InitCount > bnd_pool_minlive(e) THEN InitCount ELSE bnd_pool_minlive(e)
    IN  Outcome(AddIf(e, flow /\ cur < Capacity, MinLen("P", cur + 1)), s)

bnd_check_stmt(e, s, flow) ==
    CASE s.k = "set" -> Outcome(SetFacts(e, s), [s EXCEPT !.e = bnd_check_expr(e, @)])
      [] s.k = "params" -> Outcome([e EXCEPT !.handler = TRUE], s)
      [] s.k = "array" -> Outcome(bnd_local_add(e, "a", 1, SizeA), s)
      [] s.k = "view" -> Outcome(bnd_local_add(e, s.v, 2, s.hi - s.lo), s)
      [] s.k = "for" -> ForStmt(e, s, flow)
      [] s.k = "if" -> IfStmt(e, s, flow)
      [] s.k = "block" -> LET a == bnd_check_block(e, s.a, flow)
                          IN  Outcome(bnd_restore(a.e, e), [s EXCEPT !.a = a.s])
      [] s.k = "match" -> LET a == bnd_check_block(e, s.a, flow)
                              b == bnd_check_block(bnd_restore(a.e, e), s.b, flow)
                          IN  Outcome(bnd_restore(b.e, e), [s EXCEPT !.a = a.s, !.b = b.s])
      [] s.k = "insert" -> InsertStmt(e, s, flow)
      [] OTHER -> Outcome(e, s)

RECURSIVE bnd_body_has_delete(_)
bnd_body_has_delete(ss) ==
    \E n \in DOMAIN ss :
        \/ ss[n].k = "delete"
        \/ ss[n].k \in {"if", "match"} /\ (bnd_body_has_delete(ss[n].a) \/ bnd_body_has_delete(ss[n].b))
        \/ ss[n].k \in {"for", "block"} /\ bnd_body_has_delete(ss[n].a)

\* The body with its verdicts.
sem_check_policies(body) ==
    bnd_check_block([facts |-> <<>>, locals |-> <<>>, handler |-> FALSE], body, ~bnd_body_has_delete(body)).s
=============================================================================
