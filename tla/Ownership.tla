----------------------------- MODULE Ownership -----------------------------
(***************************************************************************)
(* Ownership of locals as semantic/semantic.c checks it.                   *)
(*                                                                         *)
(* A function body is a sequence of statements, each a record whose field  *)
(* k says which construct it is:                                           *)
(*   open x      a call whose out-list declares x (`res_open()(x:)`), or,  *)
(*               for an array, its declaration                             *)
(*   reopen x    a call whose out-list fills the existing x                *)
(*   use x       a call that borrows x                                     *)
(*   close x     a call that takes x by an `own` parameter                 *)
(*   insert x    `insert(P{ c: x })`                                       *)
(*   bind y x    `y := x`               copy y x   `y := copy x`           *)
(*   give x      `return x`             ret        `return`                *)
(*   break, continue                                                       *)
(*   if a b, loop a (`for c { }`), cfor a (`for (i := 0; c; i += 1) { }`), *)
(*   block a, match a b (an arm and the wildcard arm)                      *)
(* Conditions are left open: either branch may be taken at run time.       *)
(***************************************************************************)
EXTENDS Integers, Sequences, FiniteSets

\* Kinds of a local: an opaque with a registered destructor, one without,
\* a sized array.
Opaque(kind) == kind \in {"res", "raw"}
HasDrop(kind) == kind = "res"

Var(n, kind) == [name |-> n, kind |-> kind, param |-> FALSE, own |-> FALSE, consumed |-> FALSE]
Param(n, kind, own) == [name |-> n, kind |-> kind, param |-> TRUE, own |-> own, consumed |-> FALSE]

\* The analysis context: the stack of scopes and the errors reported so far.
Context(params) == [scopes |-> <<params>>, errs |-> {}]

Report(a, e) == [a EXCEPT !.errs = @ \cup {e}]
Places(a) == {p \in (1..Len(a.scopes)) \X (1..8) : p[2] <= Len(a.scopes[p[1]])}
At(a, p) == a.scopes[p[1]][p[2]]

\* find_variable: innermost scope first, newest declaration first; {} when
\* the name is not declared.
find_variable(a, n) ==
    LET named == {p \in Places(a) : At(a, p).name = n}
    IN  {p \in named : \A q \in named : q[1] < p[1] \/ (q[1] = p[1] /\ q[2] <= p[2])}

push_scope(a) == [a EXCEPT !.scopes = Append(@, <<>>)]

add_variable(a, n, kind) ==
    [a EXCEPT !.scopes[Len(a.scopes)] = Append(@, Var(n, kind))]

\* pop_scope: a local opaque that nobody consumed and that has no destructor
\* is an error; one with a destructor is left to the code generator.
pop_scope(a) ==
    LET top == a.scopes[Len(a.scopes)]
        leaks == \E j \in 1..Len(top) :
                    /\ Opaque(top[j].kind) /\ ~HasDrop(top[j].kind)
                    /\ ~top[j].param /\ ~top[j].consumed
        b == [a EXCEPT !.scopes = SubSeq(@, 1, Len(@) - 1)]
    IN  IF leaks THEN Report(b, "opaque_not_consumed") ELSE b

Consume(a, p) == [a EXCEPT !.scopes[p[1]][p[2]].consumed = TRUE]
BorrowedArray(v) == v.kind = "arr" /\ v.param /\ ~v.own

\* A name in an expression.
NameExpr(a, n) ==
    LET f == find_variable(a, n)
    IN  IF f = {} THEN Report(a, "undefined_symbol")
        ELSE IF \E p \in f : At(a, p).consumed THEN Report(a, "use_after_consume")
        ELSE a

\* A bare name in a position that takes ownership.
implicit_move_consume(a, n) ==
    LET f == find_variable(a, n)
    IN  IF f = {} THEN a
        ELSE LET p == CHOOSE q \in f : TRUE
             IN  IF BorrowedArray(At(a, p)) THEN Report(a, "cannot_move_borrowed")
                 ELSE Consume(a, p)

ConsumeIfOpaque(a, n) ==
    LET f == {p \in find_variable(a, n) : Opaque(At(a, p).kind)}
    IN  IF f = {} THEN a ELSE Consume(a, CHOOSE p \in f : TRUE)

KindOfName(a, n) ==
    LET f == find_variable(a, n)
    IN  IF f = {} THEN "arr" ELSE At(a, CHOOSE p \in f : TRUE).kind

CopyExpr(a, n) ==
    LET b == NameExpr(a, n)
        p == CHOOSE q \in find_variable(b, n) : TRUE
    IN  IF find_variable(b, n) = {} THEN b
        ELSE IF Opaque(At(b, p).kind) THEN Report(b, "cannot_copy_opaque")
        ELSE IF At(b, p).param THEN Report(b, "copy_unsupported")
        ELSE b

\* An out-list target: `x:` declares, `x` needs a live variable.
MultiBind(a, s) ==
    IF s.k = "open" THEN add_variable(a, s.x, s.kind)
    ELSE LET f == find_variable(a, s.x)
         IN  IF f = {} THEN Report(a, "assign_to_undeclared")
             ELSE IF \E p \in f : At(a, p).consumed THEN Report(a, "assign_after_move")
             ELSE a

ReturnName(a, n) ==
    LET b == NameExpr(a, n)
        p == CHOOSE q \in find_variable(b, n) : TRUE
    IN  IF find_variable(b, n) = {} THEN b
        ELSE IF Opaque(At(b, p).kind) THEN Consume(b, p)
        ELSE IF At(b, p).param THEN b ELSE Report(b, "return_local_array")

RECURSIVE analyze_statement(_, _), analyze_body(_, _)

analyze_body(a, ss) ==
    IF ss = <<>> THEN a ELSE analyze_body(analyze_statement(a, Head(ss)), Tail(ss))

Scoped(a, ss) == pop_scope(analyze_body(push_scope(a), ss))

\* The flags of the opaque variables are taken before the first branch,
\* put back before the second one, and compared after it. Arrays are not
\* among them.
IfStmt(a, s) ==
    LET opaques == {p \in Places(a) : Opaque(At(a, p).kind)}
        then == Scoped(a, s.a)
        back == [then EXCEPT !.scopes = [i \in DOMAIN @ |-> [j \in DOMAIN @[i] |->
                    IF <<i, j>> \in opaques THEN [@[i][j] EXCEPT !.consumed = At(a, <<i, j>>).consumed]
                    ELSE @[i][j]]]]
        else == Scoped(back, s.b)
        differ == {p \in opaques : /\ ~At(a, p).consumed
                                   /\ At(then, p).consumed # At(else, p).consumed}
        joined == [else EXCEPT !.scopes = [i \in DOMAIN @ |-> [j \in DOMAIN @[i] |->
                    IF <<i, j>> \in differ THEN [@[i][j] EXCEPT !.consumed = TRUE] ELSE @[i][j]]]]
    IN  IF differ = {} THEN joined ELSE Report(joined, "drop_conditional")

analyze_statement(a, s) ==
    CASE s.k \in {"open", "reopen"} -> MultiBind(a, s)
      [] s.k = "use"    -> NameExpr(a, s.x)
      [] s.k = "close"  -> implicit_move_consume(NameExpr(a, s.x), s.x)
      [] s.k = "insert" -> ConsumeIfOpaque(NameExpr(a, s.x), s.x)
      [] s.k = "bind"   -> LET b == NameExpr(a, s.x)
                           IN  add_variable(implicit_move_consume(b, s.x), s.y, KindOfName(b, s.x))
      [] s.k = "copy"   -> LET b == CopyExpr(a, s.x) IN add_variable(b, s.y, KindOfName(b, s.x))
      [] s.k = "give"   -> ReturnName(a, s.x)
      [] s.k \in {"ret", "break", "continue"} -> a
      [] s.k = "if"     -> IfStmt(a, s)
      [] s.k \in {"loop", "cfor", "block"} -> Scoped(a, s.a)
      [] s.k = "match"  -> Scoped(Scoped(a, s.a), s.b)

\* The errors of a function body: its parameters and its body share a scope.
Errors(params, body) == pop_scope(analyze_body(Context(params), body)).errs
=============================================================================
