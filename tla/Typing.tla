------------------------------- MODULE Typing -------------------------------
(***************************************************************************)
(* The types of expressions. semantic.c records a type for every           *)
(* expression while it walks a body; tycheck.c walks it again, computes    *)
(* types by rules of its own and rejects what does not fit; a constant     *)
(* position is folded by an interpreter for pure functions (CTFE).         *)
(*                                                                         *)
(* A type is a tuple: <<n>> a primitive, a width integer or a distinct     *)
(* alias, <<"arr", n, elem>>, <<"slice", elem>> or <<"unknown">>. An       *)
(* expression is a record with its kind in t, a statement one with its     *)
(* kind in k.                                                              *)
(***************************************************************************)
EXTENDS Numbers, SequencesExt

CONSTANTS Backing,   \* alias name -> the name of the type it is declared as
          CtfeDepth, \* calls the folder follows (CTFE_MAX_DEPTH)
          prog       \* the program under compilation

\* prog is consts (name -> expression), order (their names as declared), funcs
\* (name -> [params, ret, body], a parameter being <<name, type>>) and the body
\* of the system run.

Unknown == <<"unknown">>
TInt == <<"int">>
TFloat == <<"float">>
Widths == {"i8", "u8", "i16", "u16", "i32", "u32", "i64", "u64"}
is_width_int_name(n) == n \in Widths
is_type_alias(n) == n \in DOMAIN Backing
Intish(n) == n \in {"int", "char"} \/ is_width_int_name(n)
IsAggregate(t) == t[1] \in {"arr", "slice"}
Elem(t) == IF t[1] = "arr" THEN <<t[3]>> ELSE IF t[1] = "slice" THEN <<t[2]>> ELSE Unknown
IsTypeName(n) == n \in {"int", "float", "char"} \/ is_width_int_name(n) \/ is_type_alias(n)
IsFunc(n) == n \in DOMAIN prog.funcs

RECURSIVE resolve_type_alias(_)
resolve_type_alias(n) == IF is_type_alias(n) THEN resolve_type_alias(Backing[n]) ELSE n
RECURSIVE BackingChain(_)
BackingChain(n) == IF is_type_alias(n) THEN {Backing[n]} \cup BackingChain(Backing[n]) ELSE {}

-----------------------------------------------------------------------------
(* CTFE: constants folded on 64-bit longs; "no" when it cannot be folded.  *)
(* known holds the constants registered so far, as literals.               *)

NoLocals == [x \in {} |-> Unknown]
No == <<"no">>
Yes(v) == <<"yes", v>>
\* scope is a function from names to values, depth the calls entered.
RECURSIVE ctfe_eval(_, _, _, _)
RECURSIVE ctfe_body(_, _, _, _)
ctfe_body(ss, known, scope, depth) ==
    IF ss = <<>> THEN No
    ELSE LET s == Head(ss)
         IN  CASE s.k = "bind" ->
                    LET v == ctfe_eval(s.e, known, scope, depth)
                    IN  IF v = No THEN No
                        ELSE ctfe_body(Tail(ss), known, [x \in DOMAIN scope \cup {s.x} |-> IF x = s.x THEN v[2] ELSE scope[x]], depth)
               [] s.k = "return" -> ctfe_eval(s.e, known, scope, depth)
               [] OTHER -> No
ctfe_bind_first(params, args) == [x \in {p[1] : p \in Range(params)} |-> args[1][2]]
\* The parameters of a call to their values, in order.
ctfe_bind(params, args) ==
    [x \in {p[1] : p \in Range(params)} |-> args[CHOOSE i \in 1..Len(args) : params[i][1] = x][2]]
ctfe_eval_call(e, known, scope, depth) ==
    IF depth = CtfeDepth \/ ~IsFunc(e.f) THEN No
    ELSE LET fn == prog.funcs[e.f]
             args == [i \in 1..Len(e.args) |-> ctfe_eval(e.args[i], known, scope, depth)]
         IN  IF Len(e.args) # Len(fn.params) \/ No \in Range(args) THEN No
             ELSE ctfe_body(fn.body, known, ctfe_bind(fn.params, args), depth + 1)
ctfe_eval(e, known, scope, depth) ==
    CASE e.t = "par" -> ctfe_eval(e.e, known, scope, depth)
      [] e.t = "int" -> Yes(e.v)
      [] e.t = "name" -> IF e.x \in DOMAIN scope THEN Yes(scope[e.x])
                         ELSE IF e.x \in DOMAIN known /\ known[e.x].t = "int" THEN Yes(known[e.x].v) ELSE No
      [] e.t = "un" -> LET v == ctfe_eval(e.e, known, scope, depth) IN IF v = No \/ e.op # "-" THEN No ELSE Yes(-v[2])
      [] e.t = "bin" ->
            LET l == ctfe_eval(e.l, known, scope, depth)
                r == ctfe_eval(e.r, known, scope, depth)
            IN  CASE No \in {l, r} -> No
                  [] No \notin {l, r} /\ e.op \in Comparing -> Yes(Compared(e.op, l[2], r[2]))
                  [] No \notin {l, r} /\ e.op \in Arithmetic ->
                        IF e.op \in {"/", "%"} /\ r[2] = 0 THEN No ELSE Yes(Calculated(e.op, l[2], r[2]))
                  [] OTHER -> No
      [] e.t = "call" -> ctfe_eval_call(e, known, scope, depth)
      [] OTHER -> No

\* The value a constant position gets: an int.
semantic_try_const_int(e, known) ==
    LET v == ctfe_eval(e, known, NoLocals, 0)
        m == v[2] % 2^Bits[32]
    IN  IF v = No THEN No ELSE Yes(IF 2 * m >= 2^Bits[32] THEN m - 2^Bits[32] ELSE m)

\* The constants after the first n declarations: literals, and expressions
\* over those before them. A name that stands for another waits.
RECURSIVE register_value_const(_)
register_value_const(n) ==
    IF n = 0 THEN NoLocals
    ELSE LET known == register_value_const(n - 1)
             c == prog.consts[prog.order[n]]
             v == IF c.t = "name" THEN No ELSE semantic_try_const_int(c, known)
         IN  CASE c.t \in {"int", "flt", "chr"} -> (prog.order[n] :> c) @@ known
               [] c.t \notin {"int", "flt", "chr"} /\ v # No -> (prog.order[n] :> [t |-> "int", v |-> v[2]]) @@ known
               [] OTHER -> known

\* The waiting names, as long as one of them names a constant.
RECURSIVE resolve_deferred(_)
resolve_deferred(known) ==
    LET ready == {x \in DOMAIN prog.consts \ DOMAIN known :
                    prog.consts[x].t = "name" /\ prog.consts[x].x \in DOMAIN known}
    IN  IF ready = {} THEN known
        ELSE resolve_deferred([x \in ready |-> known[prog.consts[x].x]] @@ known)
value_consts == resolve_deferred(register_value_const(Len(prog.order)))

\* What does not become a constant is rejected.
register_consts == DOMAIN prog.consts \subseteq DOMAIN value_consts

-----------------------------------------------------------------------------
(* semantic.c: the type recorded for an expression; env types the locals.  *)

sem_int_width_of(n) ==
    CASE n \in {"i8", "u8"} -> 8
      [] n \in {"i16", "u16"} -> 16
      [] n \in {"int", "i32", "u32"} -> 32
      [] n \in {"i64", "u64"} -> 64
      [] OTHER -> 0

sem_literal_type_id(e) == CASE e.t = "int" -> TInt [] e.t = "flt" -> TFloat [] e.t = "chr" -> <<"char">>

\* A value constant has the type of its literal; one that was folded is int,
\* and one that names another has the other's type.
value_const_type(x) == sem_literal_type_id(value_consts[x])

name_type_id(x, env) ==
    IF x \in DOMAIN env THEN env[x]
    ELSE IF x \in DOMAIN value_consts THEN value_const_type(x) ELSE Unknown

\* Arithmetic keeps a distinct alias, then float, then promotes to int or to
\* the wider operand.
binary_type_id(op, lt, rt) ==
    LET lw == sem_int_width_of(lt[1])
        rw == sem_int_width_of(rt[1])
    IN  CASE op \notin Arithmetic -> TInt
          [] op \in Arithmetic /\ is_type_alias(lt[1]) -> lt
          [] op \in Arithmetic /\ ~is_type_alias(lt[1]) /\ is_type_alias(rt[1]) -> rt
          [] OTHER -> IF TFloat \in {lt, rt} THEN TFloat
                      ELSE IF lw > 0 /\ rw > 0
                           THEN IF lw <= 32 /\ rw <= 32 THEN TInt ELSE IF lw >= rw THEN lt ELSE rt
                           ELSE lt

RECURSIVE sem_expr_type_id(_, _)
call_type_id(e, env) ==
    CASE IsTypeName(e.f) -> <<e.f>>
      [] e.f = "select" -> sem_expr_type_id(e.args[2], env)
      [] IsFunc(e.f) -> prog.funcs[e.f].ret
      [] OTHER -> Unknown
index_or_slice_type_id(e, env) ==
    LET elem == Elem(name_type_id(e.x, env))
    IN  IF e.t = "slice" /\ elem # Unknown THEN <<"slice", elem[1]>> ELSE elem
sem_expr_type_id(e, env) ==
    CASE e.t = "par" -> sem_expr_type_id(e.e, env)
      [] e.t \in {"int", "flt", "chr"} -> sem_literal_type_id(e)
      [] e.t = "name" -> name_type_id(e.x, env)
      [] e.t = "bin" -> binary_type_id(e.op, sem_expr_type_id(e.l, env), sem_expr_type_id(e.r, env))
      [] e.t = "un" -> IF e.op = "!" THEN TInt ELSE sem_expr_type_id(e.e, env)
      [] e.t = "len" -> TInt
      [] e.t \in {"idx", "slice"} -> index_or_slice_type_id(e, env)
      [] e.t = "call" -> call_type_id(e, env)

\* The locals after a statement: a bind declares its name, an annotation
\* having precedence over the value's type; a body's names end with the body.
Bound(s, env) ==
    CASE s.k = "bind" -> IF s.ty # Unknown THEN s.ty ELSE sem_expr_type_id(s.e, env)
      [] s.k = "array" -> <<"arr", s.n, s.ty>>
add_variable(s, env) ==
    IF s.k \in {"bind", "array"} THEN [x \in DOMAIN env \cup {s.x} |-> IF x = s.x THEN Bound(s, env) ELSE env[x]]
    ELSE env
Locals(f) == LET ps == prog.funcs[f].params IN [x \in {p[1] : p \in Range(ps)} |-> (CHOOSE p \in Range(ps) : p[1] = x)[2]]

-----------------------------------------------------------------------------
(* tycheck.c: what is rejected.                                            *)

check_literal_fits(e, want) ==
    LET b == resolve_type_alias(want)
    IN  \/ e.t = "int" /\ (b = "float" \/ Intish(b))
        \/ e.t = "chr" /\ Intish(b)
        \/ e.t = "flt" /\ b = "float"

\* The checker's own type of an expression: it does not promote.
RECURSIVE synth(_, _)
synth_call(e, env) ==
    IF IsFunc(e.f) THEN prog.funcs[e.f].ret ELSE IF IsTypeName(e.f) THEN <<e.f>> ELSE Unknown
synth(e, env) ==
    CASE e.t \in {"par", "un"} -> synth(e.e, env)
      [] e.t = "call" -> synth_call(e, env)
      [] e.t = "bin" ->
            LET lt == synth(e.l, env)
                rt == synth(e.r, env)
            IN  CASE e.op \notin Arithmetic -> TInt
                  [] e.op \in Arithmetic /\ is_type_alias(lt[1]) -> lt
                  [] e.op \in Arithmetic /\ ~is_type_alias(lt[1]) /\ is_type_alias(rt[1]) -> rt
                  [] OTHER -> IF TFloat \in {lt, rt} THEN TFloat ELSE lt
      [] OTHER -> sem_expr_type_id(e, env)

subtype_check(got, want) ==
    LET g == got[1]
        w == want[1]
    IN  CASE w \in BackingChain(g) -> "fits"
          [] w \notin BackingChain(g) /\ is_type_alias(w) -> "differs"
          [] OTHER -> IF is_type_alias(g) /\ (resolve_type_alias(g) = w \/ (Intish(resolve_type_alias(g)) /\ Intish(w)))
                      THEN "fits" ELSE "unsaid"

prim_silently_compatible(got, want) == Intish(got[1]) /\ Intish(want[1])

element_matches(got, want) ==
    \/ got = want
    \/ subtype_check(got, want) = "fits"
    \/ subtype_check(got, want) = "unsaid" /\ prim_silently_compatible(got, want)

check(e, env, want) ==
    \/ IsAggregate(want) \/ want = Unknown
    \/ check_literal_fits(e, want[1])
    \/ LET got == synth(e, env)
       IN  \/ got = Unknown
           \/ element_matches(got, want)
           \/ IsAggregate(got) /\ Intish(want[1])

\* What synth reports on its way: an aggregate operand, and the arguments.
RECURSIVE SynthOk(_, _)
SynthOk(e, env) ==
    CASE e.t \in {"par", "un"} -> SynthOk(e.e, env)
      [] e.t = "bin" ->
            /\ SynthOk(e.l, env) /\ SynthOk(e.r, env)
            /\ Unknown \in {synth(e.l, env), synth(e.r, env)} \/ ~\E o \in {e.l, e.r} : IsAggregate(synth(o, env))
      [] e.t = "call" /\ IsFunc(e.f) ->
            LET ps == prog.funcs[e.f].params
            IN  /\ Len(ps) = Len(e.args)
                /\ \A i \in 1..Len(ps) : check(e.args[i], env, ps[i][2]) /\ (IsAggregate(ps[i][2]) \/ SynthOk(e.args[i], env))
      [] OTHER -> TRUE

Children(e) ==
    CASE e.t \in {"par", "un"} -> {e.e}
      [] e.t = "bin" -> {e.l, e.r}
      [] e.t = "idx" -> {e.i}
      [] e.t = "slice" -> {e.lo, e.hi}
      [] OTHER -> {}
RECURSIVE visit_expr(_, _)
visit_expr(e, env) == SynthOk(e, env) /\ \A c \in Children(e) : visit_expr(c, env)

\* A body whose jumps are inside a loop, whose values fit; ret is the type a
\* function returns, Unknown in a system. The arms of a match are not visited.
RECURSIVE visit_stmts(_, _, _, _)
visit_stmt(s, env, ret, loops) ==
    CASE s.k = "bind" -> visit_expr(s.e, env) /\ (s.ty = Unknown \/ check(s.e, env, s.ty))
      [] s.k = "array" -> \A i \in 1..Len(s.es) :
                             visit_expr(s.es[i], env) /\ element_matches(synth(s.es[i], env), synth(s.es[1], env))
      [] s.k = "set" -> visit_expr(s.e, env) /\ check(s.e, env, name_type_id(s.x, env))
      [] s.k = "put" -> visit_expr(s.i, env) /\ visit_expr(s.e, env) /\ check(s.e, env, Elem(name_type_id(s.x, env)))
      [] s.k = "show" -> SynthOk(s.e, env) /\ check(s.e, env, TInt)
      [] s.k = "return" -> visit_expr(s.e, env) /\ (ret = Unknown \/ check(s.e, env, ret))
      [] s.k = "if" -> visit_expr(s.c, env) /\ visit_stmts(s.a, env, ret, loops) /\ visit_stmts(s.b, env, ret, loops)
      [] s.k = "for" -> LET inner == add_variable(s.first, env)
                        IN  /\ visit_stmts(<<s.first>>, env, ret, loops + 1) /\ visit_expr(s.c, inner)
                            /\ visit_stmts(s.a \o <<s.step>>, inner, ret, loops + 1)
      [] s.k = "loop" -> visit_expr(s.c, env) /\ visit_stmts(s.a, env, ret, loops + 1)
      [] s.k \in {"break", "continue"} -> loops > 0
      [] s.k = "block" -> visit_stmts(s.a, env, ret, loops)
      [] s.k = "match" -> TRUE
visit_stmts(ss, env, ret, loops) ==
    \/ ss = <<>>
    \/ visit_stmt(Head(ss), env, ret, loops) /\ visit_stmts(Tail(ss), add_variable(Head(ss), env), ret, loops)

\* An open match needs a wildcard arm.
RECURSIVE check_one_match(_)
check_one_match(ss) ==
    \A s \in Range(ss) :
       CASE s.k = "match" -> /\ \E a \in Range(s.arms) : a.p = <<"_">>
                             /\ \A a \in Range(s.arms) : check_one_match(a.a)
         [] s.k = "if" -> check_one_match(s.a) /\ check_one_match(s.b)
         [] s.k \in {"for", "loop", "block"} -> check_one_match(s.a)
         [] OTHER -> TRUE

tycheck_run ==
    /\ visit_stmts(prog.main, NoLocals, Unknown, 0) /\ check_one_match(prog.main)
    /\ \A f \in DOMAIN prog.funcs :
          visit_stmts(prog.funcs[f].body, Locals(f), prog.funcs[f].ret, 0) /\ check_one_match(prog.funcs[f].body)
=============================================================================
