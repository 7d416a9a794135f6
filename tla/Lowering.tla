------------------------------ MODULE Lowering ------------------------------
(***************************************************************************)
(* lower.c: the checked tree to HIR. Every expression carries the type the *)
(* analysis recorded, as far as HIR can say it; parentheses vanish, a      *)
(* match becomes a block of a temporary and a chain of ifs, constants are  *)
(* folded. HIR types: <<"INT", width, signed>>, <<"FLOAT">>, <<"CHAR">>,   *)
(* <<"SHAPED", n, elem>>, <<"ARRAY", elem>>, <<"UNKNOWN">>.                *)
(***************************************************************************)
EXTENDS Typing, TLC

HUnknown == <<"UNKNOWN">>
HInt == <<"INT", 32, TRUE>>
HFloat == <<"FLOAT">>
HChar == <<"CHAR">>

\* A type name; `int` is i32.
map_type_str(n) ==
    CASE n = "float" -> HFloat
      [] n = "char" -> HChar
      [] n = "int" -> HInt
      [] is_width_int_name(n) -> <<"INT", sem_int_width_of(n), n \notin {"u8", "u16", "u32", "u64"}>>
      [] OTHER -> HUnknown

\* The type of an expression: an alias is its backing, a slice is lost.
map_type_id(t) ==
    CASE t[1] = "arr" -> <<"SHAPED", t[2], map_type_str(resolve_type_alias(t[3]))>>
      [] t[1] = "slice" -> HUnknown
      [] OTHER -> map_type_str(resolve_type_alias(t[1]))

\* The type an annotation or a parameter is written with.
lower_type_cst(t) ==
    IF t[1] = "slice" THEN <<"ARRAY", map_type_str(resolve_type_alias(t[2]))>> ELSE map_type_id(t)

syntax_expr_type(e, env) == map_type_id(sem_expr_type_id(e, env))

\* An expression with its type and its parts lowered; parentheses vanish.
RECURSIVE lower_expr_cst(_, _)
lower_index(e, env) == [e EXCEPT !.i = lower_expr_cst(@, env)]
lower_slice(e, env) == [e EXCEPT !.lo = lower_expr_cst(@, env), !.hi = lower_expr_cst(@, env)]
lower_binary(e, env) == [e EXCEPT !.l = lower_expr_cst(@, env), !.r = lower_expr_cst(@, env)]
lower_unary(e, env) == [e EXCEPT !.e = lower_expr_cst(@, env)]
lower_call(e, env) == [e EXCEPT !.args = [i \in DOMAIN @ |-> lower_expr_cst(@[i], env)]]
lower_leaf(e) == e
lower_expr_cst(e, env) ==
    IF e.t = "par" THEN lower_expr_cst(e.e, env)
    ELSE [ty |-> syntax_expr_type(e, env)]
         @@ CASE e.t = "bin" -> lower_binary(e, env)
              [] e.t = "un" -> lower_unary(e, env)
              [] e.t = "idx" -> lower_index(e, env)
              [] e.t = "slice" -> lower_slice(e, env)
              [] e.t = "call" -> lower_call(e, env)
              [] OTHER -> lower_leaf(e)

\* A folded constant is a literal of 32 bits without a recorded type.
lower_const_or_expr(e) ==
    LET v == semantic_try_const_int(e, value_consts)
    IN  IF v # No THEN [t |-> "int", v |-> v[2], ty |-> HUnknown] ELSE lower_expr_cst(e, NoLocals)

-----------------------------------------------------------------------------
RECURSIVE syntax_lower_body(_, _)

\* The temporary and its comparisons carry no recorded type; the arms are
\* tested in order and the first wildcard is the final else. Of a chain that
\* is a wildcard alone only the first statement is kept.
RECURSIVE MatchChain(_, _, _, _)
MatchChain(arms, tmp, default, env) ==
    IF arms = <<>> THEN default
    ELSE IF Head(arms).p = <<"_">> THEN MatchChain(Tail(arms), tmp, default, env)
    ELSE <<[k |-> "if",
            c |-> [t |-> "bin", op |-> "==", ty |-> HUnknown,
                   l |-> [t |-> "name", x |-> tmp, ty |-> HUnknown],
                   r |-> [t |-> "int", v |-> Head(arms).p[2], ty |-> HUnknown]],
            a |-> syntax_lower_body(Head(arms).a, env),
            b |-> MatchChain(Tail(arms), tmp, default, env)]>>
Wildcard(arms) ==
    LET w == {i \in DOMAIN arms : arms[i].p = <<"_">>}
    IN  IF w = {} THEN <<>> ELSE arms[CHOOSE i \in w : \A j \in w : i <= j].a
KeptOf(chain) == IF chain = <<>> THEN <<>> ELSE <<Head(chain)>>
lower_match(s, env) ==
    LET chain == MatchChain(s.arms, s.tmp, syntax_lower_body(Wildcard(s.arms), env), env)
    IN  [k |-> "block",
         a |-> <<[k |-> "bind", x |-> s.tmp, ty |-> HUnknown, e |-> lower_expr_cst(s.e, env)]>> \o KeptOf(chain)]

lower_bind(s, env) == [s EXCEPT !.ty = lower_type_cst(@), !.e = lower_expr_cst(@, env)]
lower_array_literal(s, env) ==
    [s EXCEPT !.ty = map_type_str(resolve_type_alias(@)), !.es = [i \in DOMAIN @ |-> lower_expr_cst(@[i], env)]]
lower_assign(s, env) ==
    IF s.k = "set" THEN [ty |-> map_type_id(name_type_id(s.x, env))] @@ [s EXCEPT !.e = lower_expr_cst(@, env)]
    ELSE [s EXCEPT !.i = lower_expr_cst(@, env), !.e = lower_expr_cst(@, env)]
lower_if(s, env) == [s EXCEPT !.c = lower_expr_cst(@, env), !.a = syntax_lower_body(@, env), !.b = syntax_lower_body(@, env)]
lower_for(s, env) ==
    LET inner == IF s.k = "for" THEN add_variable(s.first, env) ELSE env
        test == [s EXCEPT !.c = lower_expr_cst(@, inner), !.a = syntax_lower_body(@, inner)]
    IN  IF s.k = "loop" THEN test
        ELSE [test EXCEPT !.first = syntax_lower_body(<<@>>, env)[1], !.step = syntax_lower_body(<<@>>, inner)[1]]
lower_stmt_cst(s, env) ==
    CASE s.k = "bind" -> lower_bind(s, env)
      [] s.k = "array" -> lower_array_literal(s, env)
      [] s.k \in {"set", "put"} -> lower_assign(s, env)
      [] s.k \in {"show", "return"} -> [s EXCEPT !.e = lower_expr_cst(@, env)]
      [] s.k = "if" -> lower_if(s, env)
      [] s.k \in {"for", "loop"} -> lower_for(s, env)
      [] s.k = "block" -> [s EXCEPT !.a = syntax_lower_body(@, env)]
      [] s.k = "match" -> lower_match(s, env)
      [] OTHER -> s
syntax_lower_body(ss, env) ==
    IF ss = <<>> THEN <<>>
    ELSE <<lower_stmt_cst(Head(ss), env)>> \o syntax_lower_body(Tail(ss), add_variable(Head(ss), env))

lower_param_cst(p) == <<p[1], lower_type_cst(p[2])>>
lower_func(f) ==
    LET fn == prog.funcs[f]
    IN  [params |-> [i \in DOMAIN fn.params |-> lower_param_cst(fn.params[i])],
         ret |-> lower_type_cst(fn.ret), body |-> syntax_lower_body(fn.body, Locals(f))]

\* The module codegen is given.
lower_program ==
    [consts |-> [x \in DOMAIN prog.consts |-> lower_const_or_expr(prog.consts[x])],
     funcs |-> [f \in DOMAIN prog.funcs |-> lower_func(f)],
     main |-> syntax_lower_body(prog.main, NoLocals)]
=============================================================================
