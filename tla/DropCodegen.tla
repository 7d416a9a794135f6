---------------------------- MODULE DropCodegen ----------------------------
(***************************************************************************)
(* What codegen/codegen.c emits for the bodies of module Ownership: a flat *)
(* list of instructions with labels, a stack slot for every local, and a   *)
(* destructor call for every tracked local that is not marked consumed     *)
(* when its value scope is popped or a `return` is emitted. An elided      *)
(* `move` arrives here as an explicit one (lower.c).                       *)
(***************************************************************************)
EXTENDS Ownership

\* The emission context: code, the next label, the next slot, the value
\* scopes (name and slot, oldest first), the tracked locals, whether the
\* current block has just been terminated by a return, and the label stacks
\* of break and continue.
Emitter == [code |-> <<>>, label |-> 1, slot |-> 1, scopes |-> <<>>, live |-> <<>>,
            terminated |-> FALSE, exits |-> <<>>, conts |-> <<>>]

Emit(c, i) == [c EXCEPT !.code = Append(@, i)]
Br(l) == [op |-> "br", l |-> l]
Branch(l, m) == [op |-> "brc", l |-> l, m |-> m]
Label(l) == [op |-> "label", l |-> l]
On(op, s) == [op |-> op, s |-> s]
Ret == [op |-> "ret"]
Unreachable == [op |-> "unreachable"]
Top(s) == s[Len(s)]

push_value_scope(c) == [c EXCEPT !.scopes = Append(@, <<>>)]

add_value(c, n, s) == [c EXCEPT !.scopes[Len(c.scopes)] = Append(@, [name |-> n, slot |-> s])]

\* find_value: innermost scope first, newest first.
find_value(c, n) ==
    LET named == {p \in (1..Len(c.scopes)) \X (1..8) :
                     p[2] <= Len(c.scopes[p[1]]) /\ c.scopes[p[1]][p[2]].name = n}
        p == CHOOSE q \in named : \A r \in named : r[1] < q[1] \/ (r[1] = q[1] /\ r[2] <= q[2])
    IN  c.scopes[p[1]][p[2]].slot

drop_track(c, n, s) ==
    [c EXCEPT !.live = Append(@, [name |-> n, slot |-> s, depth |-> Len(c.scopes), consumed |-> FALSE])]

forget_the_move(c, n) == c

\* The innermost entry of that name that is not consumed yet; nothing when
\* there is none.
drop_mark_consumed(c, n) ==
    LET open == {i \in DOMAIN c.live : ~c.live[i].consumed /\ c.live[i].name = n}
    IN  IF open = {} THEN c
        ELSE [c EXCEPT !.live[CHOOSE i \in open : \A j \in open : j <= i].consumed = TRUE]

\* Destructor calls of the entries from index i down that are not consumed,
\* newest first, as long as their scope is at least as deep as depth.
RECURSIVE drop_emit_down(_, _, _)
drop_emit_down(c, i, depth) ==
    IF i = 0 \/ (i > 0 /\ c.live[i].depth < depth) THEN c
    ELSE drop_emit_down(IF c.live[i].consumed THEN c ELSE Emit(c, On("drop", c.live[i].slot)),
                        i - 1, depth)

drop_pop_scope_only(c, depth) ==
    [c EXCEPT !.live = SelectSeq(@, LAMBDA e : e.depth < depth)]

drop_exit_scope(c, depth) == drop_pop_scope_only(drop_emit_down(c, Len(c.live), depth), depth)

return_without_drops(c) == [c EXCEPT !.terminated = TRUE]
drop_exit_all_for_return(c) == [drop_emit_down(c, Len(c.live), 0) EXCEPT !.terminated = TRUE]

pop_value_scope(c) ==
    LET d == IF c.terminated THEN drop_pop_scope_only(c, Len(c.scopes))
             ELSE drop_exit_scope(c, Len(c.scopes))
    IN  [d EXCEPT !.scopes = SubSeq(@, 1, Len(@) - 1)]

\* An out-list target `x:`: a fresh slot, tracked when its type has a
\* destructor. A target `x` is filled through the slot it has.
MultiBindCode(c, s) ==
    IF s.k = "reopen" THEN Emit(c, On("open", find_value(c, s.x)))
    ELSE LET sl == c.slot
             b == add_value([Emit(c, On("open", sl)) EXCEPT !.slot = @ + 1], s.x, sl)
         IN  IF HasDrop(s.kind) THEN drop_track(b, s.x, sl) ELSE b

\* `y := x` copies the cell to a fresh slot that is not tracked.
BindCode(c, y, x, op) ==
    add_value([Emit(c, [op |-> op, s |-> find_value(c, x), d |-> c.slot]) EXCEPT !.slot = @ + 1],
              y, c.slot)

CloseCode(c, x) == Emit(drop_mark_consumed(c, x), On("close", find_value(c, x)))
InsertCode(c, x) == Emit(drop_mark_consumed(c, x), On("insert", find_value(c, x)))

ReturnCode(c) == Emit(drop_exit_all_for_return(c), Ret)
\* The returned name is loaded after the destructors were called.
ReturnNameCode(c, x) ==
    Emit(Emit(drop_exit_all_for_return(drop_mark_consumed(c, x)), On("give", find_value(c, x))), Ret)

JumpCode(c, labels) == Emit(Emit(Emit(c, Br(Top(labels))), Label(c.label)), Unreachable)

RECURSIVE codegen_statement(_, _), codegen_body(_, _)

codegen_body(c, ss) ==
    IF ss = <<>> THEN c ELSE codegen_body(codegen_statement(c, Head(ss)), Tail(ss))

Enter(c, l) == [Emit(c, Label(l)) EXCEPT !.terminated = FALSE]

\* Branches of an `if` open no value scope.
IfCode(c, s) ==
    LET n == c.label
        head == [Emit(c, Branch(n, IF s.b = <<>> THEN n + 2 ELSE n + 1)) EXCEPT !.label = @ + 3]
        then == Emit(codegen_body(Enter(head, n), s.a), Br(n + 2))
        else == IF s.b = <<>> THEN then
                ELSE Emit(codegen_body(Enter(then, n + 1), s.b), Br(n + 2))
    IN  Enter(else, n + 2)

\* `for c { }`: the body has a value scope of its own, popped at its end.
LoopCode(c, s) ==
    LET n == c.label
        head == Emit(Emit(Emit(Emit(
                    [c EXCEPT !.label = @ + 3, !.exits = Append(@, n + 2), !.conts = Append(@, n)],
                    Br(n)), Label(n)), Branch(n + 1, n + 2)), Label(n + 1))
        body == pop_value_scope(codegen_body(push_value_scope(head), s.a))
    IN  [Emit(Emit(body, Br(n)), Label(n + 2))
            EXCEPT !.exits = SubSeq(@, 1, Len(@) - 1), !.conts = SubSeq(@, 1, Len(@) - 1)]

\* `for (init; c; incr) { }`: the value scope lies around the whole loop and
\* is popped behind its exit label.
CForCode(c, s) ==
    LET n == c.label
        head == Emit(Emit(Emit(Emit(push_value_scope(
                    [c EXCEPT !.label = @ + 4, !.exits = Append(@, n + 2), !.conts = Append(@, n + 3)]),
                    Br(n)), Label(n)), Branch(n + 1, n + 2)), Label(n + 1))
        body == Enter(Emit(codegen_body(head, s.a), Br(n + 3)), n + 3)
    IN  pop_value_scope([Emit(Emit(body, Br(n)), Label(n + 2))
            EXCEPT !.exits = SubSeq(@, 1, Len(@) - 1), !.conts = SubSeq(@, 1, Len(@) - 1)])

codegen_statement(c, s) ==
    CASE s.k \in {"open", "reopen"} -> MultiBindCode(c, s)
      [] s.k = "use"      -> Emit(c, On("use", find_value(c, s.x)))
      [] s.k = "close"    -> CloseCode(c, s.x)
      [] s.k = "insert"   -> InsertCode(c, s.x)
      [] s.k = "bind"     -> BindCode(c, s.y, s.x, "move")
      [] s.k = "copy"     -> BindCode(c, s.y, s.x, "clone")
      [] s.k = "ret"      -> ReturnCode(c)
      [] s.k = "give"     -> ReturnNameCode(c, s.x)
      [] s.k = "break"    -> [JumpCode(c, c.exits) EXCEPT !.label = @ + 1]
      [] s.k = "continue" -> [JumpCode(c, c.conts) EXCEPT !.label = @ + 1]
      [] s.k = "if"       -> IfCode(c, s)
      [] s.k = "match"    -> IfCode(c, s)
      [] s.k = "loop"     -> LoopCode(c, s)
      [] s.k = "cfor"     -> CForCode(c, s)
      [] s.k = "block"    -> codegen_body(c, s.a)

\* A procedure: parameters take the first slots, and no parameter is tracked.
RECURSIVE Params(_, _)
Params(c, ps) ==
    IF ps = <<>> THEN c
    ELSE Params(add_value([c EXCEPT !.slot = @ + 1], Head(ps).name, c.slot), Tail(ps))

codegen_proc_decl(params, body) ==
    Emit(pop_value_scope(codegen_body(Params(push_value_scope(Emitter), params), body)), Ret).code
=============================================================================
