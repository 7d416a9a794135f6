--------------------------- MODULE SourceMeaning ---------------------------
(***************************************************************************)
(* What a program says, by the rules of the language and without the       *)
(* compiler's types: a name is the innermost declaration of it, a variable *)
(* keeps its declared type, narrow integers are promoted to int, an int    *)
(* meeting a float becomes one, an argument, a result and an assigned      *)
(* value take the type of their place. A value is <<type name, v>>, v an   *)
(* integer or, for a float, a rational; <<"abort", 0>> is the failure of a *)
(* system's operation.                                                     *)
(***************************************************************************)
EXTENDS Typing

Abort == <<"abort", 0>>
Backed(n) == resolve_type_alias(n)
WidthIn(n) == IF Backed(n) = "char" THEN 8 ELSE sem_int_width_of(Backed(n))
IsUnsigned(n) == Backed(n) \in {"u8", "u16", "u32", "u64", "char"}
IsFloat(n) == Backed(n) = "float"
Modulus(n) == 2 ^ Bits[WidthIn(n)]
Wrapped(v, n) == LET m == v % Modulus(n) IN IF ~IsUnsigned(n) /\ m * 2 >= Modulus(n) THEN m - Modulus(n) ELSE m
Fraction(x) == IF IsFloat(x[1]) THEN x[2] ELSE <<x[2], 1>>
Lowest(n, d) == IF d < 0 THEN <<-n, -d>> ELSE <<n, d>>

\* A value at a type, wherever it is put.
As(x, n) ==
    CASE x = Abort -> Abort
      [] x # Abort /\ IsFloat(n) -> <<n, Fraction(x)>>
      [] OTHER -> <<n, Wrapped(IF IsFloat(x[1]) THEN Quot(x[2][1], x[2][2]) ELSE x[2], n)>>

Common(a, b) ==
    LET wa == WidthIn(a[1])
        wb == WidthIn(b[1])
    IN  CASE is_type_alias(a[1]) -> a[1]
          [] ~is_type_alias(a[1]) /\ is_type_alias(b[1]) -> b[1]
          [] OTHER -> IF IsFloat(a[1]) \/ IsFloat(b[1]) THEN "float"
                      ELSE IF wa <= 32 /\ wb <= 32 THEN "int" ELSE IF wa >= wb THEN a[1] ELSE b[1]
FloatMeaning(op, a, b) ==
    CASE op = "+" -> Lowest(a[1] * b[2] + b[1] * a[2], a[2] * b[2])
      [] op = "-" -> Lowest(a[1] * b[2] - b[1] * a[2], a[2] * b[2])
      [] op = "*" -> Lowest(a[1] * b[1], a[2] * b[2])
      [] op = "/" -> IF b[1] = 0 THEN <<0, 1>> ELSE Lowest(a[1] * b[2], a[2] * b[1])
Arith(op, a, b, total) ==
    LET n == Common(a, b)
        x == Fraction(a)
        y == Fraction(b)
    IN  CASE Abort \in {a, b} -> Abort
          [] Abort \notin {a, b} /\ op \in Comparing -> <<"int", Compared(op, x[1] * y[2], y[1] * x[2])>>
          [] Abort \notin {a, b} /\ op \notin Comparing /\ IsFloat(n) -> <<n, FloatMeaning(op, x, y)>>
          [] OTHER -> IF op \in {"/", "%"} /\ b[2] = 0 THEN (IF total THEN <<n, 0>> ELSE Abort)
                      ELSE <<n, Wrapped(Calculated(op, a[2], b[2]), n)>>

\* An index, by the policy of the declaration: clamped in a func.
InRange(i, len, total) ==
    IF i \in 0..len - 1 THEN i ELSE IF ~total THEN -1 ELSE IF i < 0 THEN 0 ELSE len - 1

-----------------------------------------------------------------------------
(* env: name -> [at, len, ty]: its first cell, how many (0: a scalar), the *)
(* type of each; s also holds the cells, what was shown, and how control   *)
(* left the statement.                                                     *)

RECURSIVE Means(_, _, _), Does(_, _, _)
Truth(x) == x[2] # 0
Located(x, at, len, ty, s) ==
    [s EXCEPT !.env = [y \in DOMAIN s.env \cup {x} |-> IF y = x THEN [at |-> at, len |-> len, ty |-> ty] ELSE s.env[y]]]
Declared(x, v, ty, s) == Located(x, Len(s.cells) + 1, 0, ty, [s EXCEPT !.cells = Append(@, As(v, ty))])

\* The part of y that y[lo:hi] stands for; -1 for its start when it aborts.
View(e, s, total) ==
    LET y == s.env[e.x]
        lo == InRange(Means(e.lo, s, total)[2], y.len + 1, total)
        hi == InRange(Means(e.hi, s, total)[2], y.len + 1, total)
        len == InRange(hi - lo, y.len + 1, total)
    IN  IF -1 \in {lo, hi, len} THEN [at |-> -1, len |-> 0, ty |-> y.ty] ELSE [at |-> y.at + lo, len |-> len, ty |-> y.ty]

Applied(fn, args, s) ==
    LET enter(ps, as, t) ==
          FoldLeft(LAMBDA u, i : IF "at" \in DOMAIN as[i] THEN Located(ps[i][1], as[i].at, as[i].len, as[i].ty, u)
                                 ELSE Declared(ps[i][1], as[i].v, ps[i][2][1], u), t, [i \in DOMAIN ps |-> i])
        end == Does(fn.body, enter(fn.params, args, [s EXCEPT !.env = [x \in {} |-> 0]]), TRUE)
    IN  As(end.val, fn.ret[1])

Argument(e, p, s, total) ==
    CASE IsAggregate(p) /\ e.t = "slice" -> View(e, s, total)
      [] IsAggregate(p) /\ e.t # "slice" -> s.env[e.x]
      [] OTHER -> [v |-> Means(e, s, total)]

Means(e, s, total) ==
    CASE e.t = "par" -> Means(e.e, s, total)
      [] e.t = "int" -> <<"int", e.v>>
      [] e.t = "chr" -> <<"char", e.v>>
      [] e.t = "flt" -> <<"float", e.q>>
      [] e.t = "name" -> IF e.x \in DOMAIN s.env THEN s.cells[s.env[e.x].at] ELSE Means(prog.consts[e.x], s, TRUE)
      [] e.t = "len" -> <<"int", s.env[e.x].len>>
      [] e.t = "un" -> LET v == Means(e.e, s, total)
                       IN  IF v = Abort THEN Abort
                           ELSE IF e.op = "!" THEN <<"int", Flag(v[2] = 0)>>
                           ELSE IF IsFloat(v[1]) THEN <<v[1], <<-v[2][1], v[2][2]>>>> ELSE <<v[1], Wrapped(-v[2], v[1])>>
      [] e.t = "bin" /\ e.op \in {"&&", "||"} ->
            LET l == Means(e.l, s, total)
                r == Means(e.r, s, total)
            IN  IF l = Abort THEN Abort
                ELSE IF Truth(l) = (e.op = "||") THEN <<"int", Flag(Truth(l))>>
                ELSE IF r = Abort THEN Abort ELSE <<"int", Flag(Truth(r))>>
      [] e.t = "bin" /\ e.op \notin {"&&", "||"} -> Arith(e.op, Means(e.l, s, total), Means(e.r, s, total), total)
      [] e.t = "idx" -> LET y == s.env[e.x]
                            v == Means(e.i, s, total)
                            i == InRange(v[2], y.len, total)
                        IN  IF v = Abort \/ i = -1 THEN Abort ELSE s.cells[y.at + i]
      [] e.t = "call" /\ e.f = "select" ->
            LET v == [i \in 1..3 |-> Means(e.args[i], s, total)]
            IN  IF Abort \in Range(v) THEN Abort ELSE IF Truth(v[1]) THEN v[2] ELSE v[3]
      [] e.t = "call" /\ IsTypeName(e.f) -> As(Means(e.args[1], s, total), e.f)
      [] e.t = "call" /\ IsFunc(e.f) ->
            LET fn == prog.funcs[e.f]
                args == [i \in DOMAIN e.args |-> Argument(e.args[i], fn.params[i][2], s, total)]
                bad == \E i \in DOMAIN args : args[i] = [v |-> Abort] \/ ("at" \in DOMAIN args[i] /\ args[i].at = -1)
            IN  IF bad THEN Abort ELSE Applied(fn, args, s)

-----------------------------------------------------------------------------
Failed(s) == [s EXCEPT !.jump = "abort"]
Put(s, at, v, ty) == IF v = Abort THEN Failed(s) ELSE [s EXCEPT !.cells[at] = As(v, ty)]
\* A nested body: its declarations end with it.
Nested(ss, s, total) == [Does(ss, s, total) EXCEPT !.env = s.env]
RECURSIVE Repeats(_, _, _)
Repeats(x, s, total) ==
    LET c == Means(x.c, s, total)
        t == Nested(x.a, s, total)
        go == [t EXCEPT !.jump = IF @ = "continue" THEN "" ELSE @]
        next == IF x.k = "for" /\ go.jump = "" THEN Does(<<x.step>>, go, total) ELSE go
    IN  IF c = Abort THEN Failed(s)
        ELSE IF ~Truth(c) THEN s
        ELSE IF next.jump = "" THEN Repeats(x, next, total)
        ELSE [next EXCEPT !.jump = IF @ = "break" THEN "" ELSE @]
ArmOf(x, v) ==
    x.arms[CHOOSE i \in DOMAIN x.arms : /\ x.arms[i].p = <<"_">> \/ x.arms[i].p = <<"lit", v[2]>>
                                        /\ \A j \in 1..i - 1 : x.arms[j].p \notin {<<"_">>, <<"lit", v[2]>>}]
Effect(x, s, total) ==
    CASE x.k = "bind" ->
            IF x.e.t = "slice"
            THEN LET v == View(x.e, s, total) IN IF v.at = -1 THEN Failed(s) ELSE Located(x.x, v.at, v.len, v.ty, s)
            ELSE LET v == Means(x.e, s, total)
                 IN  IF v = Abort THEN Failed(s) ELSE Declared(x.x, v, IF x.ty = Unknown THEN v[1] ELSE x.ty[1], s)
      [] x.k = "array" ->
            LET vs == [i \in 1..x.n |-> As(Means(x.es[i], s, total), x.ty)]
            IN  IF Abort \in Range(vs) THEN Failed(s)
                ELSE Located(x.x, Len(s.cells) + 1, x.n, x.ty, [s EXCEPT !.cells = @ \o vs])
      [] x.k = "set" ->
            LET y == s.env[x.x]
                v == Means(x.e, s, total)
            IN  Put(s, y.at, IF x.op = "" THEN v ELSE Arith(x.op, s.cells[y.at], v, total), y.ty)
      [] x.k = "put" ->
            LET y == s.env[x.x]
                i == Means(x.i, s, total)
                v == Means(x.e, s, total)
                at == InRange(i[2], y.len, total)
            IN  IF i = Abort \/ at = -1 THEN Failed(s)
                ELSE Put(s, y.at + at, IF x.op = "" THEN v ELSE Arith(x.op, s.cells[y.at + at], v, total), y.ty)
      [] x.k = "show" -> LET v == Means(x.e, s, total)
                         IN  IF v = Abort THEN Failed(s) ELSE [s EXCEPT !.out = Append(@, As(v, "int")[2])]
      [] x.k = "return" -> LET v == Means(x.e, s, total)
                           IN  IF v = Abort THEN Failed(s) ELSE [s EXCEPT !.jump = "return", !.val = v]
      [] x.k = "if" -> LET c == Means(x.c, s, total)
                       IN  IF c = Abort THEN Failed(s) ELSE Nested(IF Truth(c) THEN x.a ELSE x.b, s, total)
      [] x.k = "for" -> [Repeats(x, Does(<<x.first>>, s, total), total) EXCEPT !.env = s.env]
      [] x.k = "loop" -> Repeats(x, s, total)
      [] x.k \in {"break", "continue"} -> [s EXCEPT !.jump = x.k]
      [] x.k = "block" -> Nested(x.a, s, total)
      [] x.k = "match" -> LET v == Means(x.e, s, total)
                          IN  IF v = Abort THEN Failed(s) ELSE Nested(ArmOf(x, v).a, s, total)
Does(ss, s, total) ==
    IF ss = <<>> \/ s.jump # "" THEN s ELSE Does(Tail(ss), Effect(Head(ss), s, total), total)

Nothing == [env |-> [x \in {} |-> 0], cells |-> <<>>, out |-> <<>>, jump |-> "", val |-> <<"int", 0>>]
\* What the program shows, and whether it ends by an abort.
Said == LET s == Does(prog.main, Nothing, FALSE) IN [out |-> s.out, aborts |-> s.jump = "abort"]
=============================================================================
