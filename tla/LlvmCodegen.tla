---------------------------- MODULE LlvmCodegen ----------------------------
(***************************************************************************)
(* codegen.c: HIR bodies to LLVM instructions, over the scalars, arrays    *)
(* and slices of a function. The state of a body under generation is st:   *)
(* code so far, slots hoisted to the entry block, the next register, the   *)
(* named values (innermost last), the open loops, and whether the body is  *)
(* a func. An expression yields [st, op, ty]: its operand and the HIR type *)
(* codegen leaves on the node, which is not always the one it arrived with.*)
(* Operands: <<"const", v>>, <<"fconst", q>>, <<"reg", n>>. LLVM types:    *)
(* <<"i", w>>, <<"float">>, <<"ptr">>. A statement takes the state of the  *)
(* body to the state after it. Locals live in slots of the entry block;    *)
(* only a function and a loop open a value scope, an if, a block and a     *)
(* match do not.                                                           *)
(***************************************************************************)
EXTENDS Lowering

CONSTANT hir   \* the lowered program

IsConst(op) == op[1] # "reg"
gen_value_name(st) == <<"reg", st.n>>
Emit(st, ins) == [st EXCEPT !.code = Append(@, ins)]
Define(st, ins) == [st EXCEPT !.n = @ + 1, !.code = Append(@, [r |-> st.n] @@ ins)]
emit_alloca(st, cells) == [st EXCEPT !.n = @ + 1, !.slots = Append(@, [r |-> st.n, cells |-> cells])]
Names(st, k) == [st EXCEPT !.n = @ + k]
Label(l) == [i |-> "label", l |-> l]
Jump(l) == [i |-> "jmp", l |-> l]
Branch(c, a, b) == [i |-> "br", c |-> c, a |-> a, b |-> b]
Result(st, op, ty) == [st |-> st, op |-> op, ty |-> ty]

llvm_type(h) == CASE h[1] = "INT" -> I(h[2]) [] h[1] = "FLOAT" -> F32 [] h[1] = "CHAR" -> I(8) [] OTHER -> I32
IntWidth(h) == IF h[1] = "INT" THEN h[2] ELSE 0
cond_i32(h) == I32
cond_int_type(h) == IF h[1] = "INT" THEN I(h[2]) ELSE IF h[1] = "CHAR" THEN I(8) ELSE I32

\* An integer of HIR type `from` at width w; a constant adopts any width.
emit_int_convert(st, op, from, w) ==
    LET fw == IF from[1] = "INT" THEN from[2] ELSE 32
        signed == from[1] = "INT" => from[3]
    IN  IF fw = w \/ IsConst(op) THEN Result(st, op, from)
        ELSE Result(Define(st, [i |-> "conv", how |-> IF w < fw THEN "trunc" ELSE IF signed THEN "sext" ELSE "zext",
                                from |-> I(fw), v |-> op, to |-> I(w)]), gen_value_name(st), from)

emit_index_i64(st, op, ty) ==
    LET w == IF ty[1] = "INT" THEN ty[2] ELSE 32
    IN  IF w = 64 THEN Result(st, op, ty)
        ELSE Result(Define(st, [i |-> "conv", how |-> IF ty[1] = "INT" => ty[3] THEN "sext" ELSE "zext",
                                from |-> I(w), v |-> op, to |-> I64]), gen_value_name(st), ty)

Trunc64(st, op) == Define(st, [i |-> "conv", how |-> "trunc", from |-> I64, v |-> op, to |-> I32])
Sext32(st, op) == Define(st, [i |-> "conv", how |-> "sext", from |-> I32, v |-> op, to |-> I64])
\* The policy is inlined over (length, index): a func clamps, a system aborts.
Guard(st, len, op) == Define(st, [i |-> "guard", len |-> len, v |-> op, total |-> st.infunc])

\* Length, index in and out of i32.
emit_index_policy(st, len, op) ==
    LET a == Trunc64(st, len)
        b == Trunc64(a, op)
        c == Guard(b, gen_value_name(st), gen_value_name(a))
        d == Sext32(c, gen_value_name(b))
    IN  Result(d, gen_value_name(c), HInt)

emit_int_divmod(st, op, ty, l, r) ==
    Define(st, IF ty = I32 THEN [i |-> "divmod", op |-> op, ty |-> ty, a |-> l, b |-> r, total |-> st.infunc]
               ELSE [i |-> "bin", op |-> op, ty |-> ty, a |-> l, b |-> r])

\* The value a name stands for: the latest registered in the open scopes.
find_value(st, x) ==
    LET is == {i \in DOMAIN st.vals : st.vals[i].x = x}
    IN  st.vals[CHOOSE i \in is : \A j \in is : j <= i]
HasValue(st, x) == \E i \in DOMAIN st.vals : st.vals[i].x = x
AddValue(st, v) == [st EXCEPT !.vals = Append(@, v)]
Slot(x, op, ty) == [x |-> x, kind |-> "slot", op |-> op, ty |-> ty, len |-> Const(0)]
Arg(x, op, ty) == [x |-> x, kind |-> "arg", op |-> op, ty |-> ty, len |-> Const(0)]
Elements(x, op, ty, len) == [x |-> x, kind |-> "array", op |-> op, ty |-> ty, len |-> len]

-----------------------------------------------------------------------------
(* Expressions *)

RECURSIVE codegen_expression(_, _)

\* A constant is inlined wherever its name is found first; a slot is loaded
\* at the type it was registered with, the node keeps its own.
codegen_name(e, st) ==
    IF e.x \in DOMAIN hir.consts
    THEN LET c == hir.consts[e.x] IN Result(st, IF c.t = "flt" THEN <<"fconst", c.q>> ELSE Const(c.v), e.ty)
    ELSE LET v == find_value(st, e.x)
         IN  IF v.kind = "slot"
             THEN Result(Define(st, [i |-> "load", ty |-> IF v.ty[1] \in {"INT", "FLOAT"} THEN llvm_type(v.ty) ELSE I32,
                                     p |-> v.op]), gen_value_name(st), e.ty)
             ELSE Result(st, v.op, e.ty)

\* && and || evaluate their right operand in a block of its own.
codegen_logical(e, st) ==
    LET and == e.op = "&&"
        l == codegen_expression(e.l, st)
        li == Define(l.st, [i |-> "icmp", op |-> <<"!=", "s">>, ty |-> cond_int_type(l.ty), a |-> l.op, b |-> Const(0)])
        slot == gen_value_name(li)
        s0 == emit_alloca(li, 1)
        rhs == s0.n
        short == s0.n + 1
        end == s0.n + 2
        s1 == Emit(Names(s0, 3), Branch(gen_value_name(l.st), IF and THEN rhs ELSE short, IF and THEN short ELSE rhs))
        s2 == Emit(Emit(Emit(s1, Label(short)), [i |-> "store", ty |-> I32, v |-> Const(IF and THEN 0 ELSE 1), p |-> slot]), Jump(end))
        r == codegen_expression(e.r, Emit(s2, Label(rhs)))
        ri == Define(r.st, [i |-> "icmp", op |-> <<"!=", "s">>, ty |-> cond_int_type(r.ty), a |-> r.op, b |-> Const(0)])
        rz == Define(ri, [i |-> "conv", how |-> "zext", from |-> I(1), v |-> gen_value_name(r.st), to |-> I32])
        s3 == Emit(Emit(rz, [i |-> "store", ty |-> I32, v |-> gen_value_name(ri), p |-> slot]), Jump(end))
        s4 == Emit(s3, Label(end))
    IN  Result(Define(s4, [i |-> "load", ty |-> I32, p |-> slot]), gen_value_name(s4), e.ty)

\* An operand of a float operation: an integer, or a bare integer constant,
\* is converted as an i32.
FloatOperand(st, x) ==
    IF x.ty[1] \in {"INT", "CHAR"} \/ (x.ty # HFloat /\ x.op[1] = "const")
    THEN Result(Define(st, [i |-> "conv", how |-> "sitofp", from |-> I32, v |-> x.op, to |-> F32]), gen_value_name(st), HFloat)
    ELSE Result(st, x.op, x.ty)

\* The wider operand's width, the first integer operand's sign.
ArithType(l, r) ==
    LET w == IF IntWidth(l) > IntWidth(r) THEN IntWidth(l) ELSE IntWidth(r)
    IN  <<"INT", IF w = 0 THEN 32 ELSE w, IF l[1] = "INT" THEN l[3] ELSE r[1] = "INT" => r[3]>>

codegen_binary(e, st) ==
    LET l == codegen_expression(e.l, st)
        r == codegen_expression(e.r, l.st)
        float == HFloat \in {e.ty, l.ty, r.ty} \/ "fconst" \in {l.op[1], r.op[1]}
        t == ArithType(l.ty, r.ty)
        a == IF float THEN FloatOperand(r.st, l) ELSE emit_int_convert(r.st, l.op, l.ty, t[2])
        b == IF float THEN FloatOperand(a.st, r) ELSE emit_int_convert(a.st, r.op, r.ty, t[2])
        ty == IF float THEN F32 ELSE I(t[2])
        sign == IF float \/ t[3] THEN "s" ELSE "u"
        i1 == Define(b.st, [i |-> IF float THEN "fcmp" ELSE "icmp", op |-> <<e.op, sign>>, ty |-> ty, a |-> a.op, b |-> b.op])
    IN  CASE e.op \in Comparing ->
               Result(Define(i1, [i |-> "conv", how |-> "zext", from |-> I(1), v |-> gen_value_name(b.st), to |-> I32]),
                      gen_value_name(i1), e.ty)
          [] e.op \in {"/", "%"} /\ ~float ->
               Result(emit_int_divmod(b.st, <<e.op, sign>>, ty, a.op, b.op), gen_value_name(b.st), t)
          [] OTHER ->
               Result(Define(b.st, [i |-> "bin", op |-> <<e.op, sign>>, ty |-> ty, a |-> a.op, b |-> b.op]),
                      gen_value_name(b.st), IF float THEN HFloat ELSE t)

\* Negation is of an i32 or a float; `!x` compares with zero.
codegen_unary(e, st) ==
    LET x == codegen_expression(e.e, st)
        i1 == Define(x.st, [i |-> "icmp", op |-> <<"==", "s">>, ty |-> cond_int_type(x.ty), a |-> x.op, b |-> Const(0)])
    IN  IF e.op = "!"
        THEN Result(Define(i1, [i |-> "conv", how |-> "zext", from |-> I(1), v |-> gen_value_name(x.st), to |-> I32]),
                    gen_value_name(i1), e.ty)
        ELSE IF HFloat \in {e.ty, x.ty}
        THEN Result(Define(x.st, [i |-> "bin", op |-> <<"-", "s">>, ty |-> F32, a |-> <<"fconst", <<0, 1>>>>, b |-> x.op]),
                    gen_value_name(x.st), e.ty)
        ELSE Result(Define(x.st, [i |-> "bin", op |-> <<"-", "s">>, ty |-> I32, a |-> Const(0), b |-> x.op]),
                    gen_value_name(x.st), e.ty)

codegen_length(e, st) ==
    LET v == find_value(st, e.x)
    IN  IF IsConst(v.len) THEN Result(st, v.len, e.ty) ELSE Result(Trunc64(st, v.len), gen_value_name(st), e.ty)

\* A narrow element is widened to i32 and the node says so; its sign stays.
codegen_index(e, st) ==
    LET v == find_value(st, e.x)
        i == codegen_expression(e.i, st)
        wide == emit_index_i64(i.st, i.op, i.ty)
        ix == emit_index_policy(wide.st, v.len, wide.op)
        at == Define(ix.st, [i |-> "gep", p |-> v.op, ix |-> ix.op])
        load == Define(at, [i |-> "load", ty |-> llvm_type(v.ty), p |-> gen_value_name(ix.st)])
        ext == Define(load, [i |-> "conv", how |-> IF e.ty[1] = "INT" /\ e.ty[3] THEN "sext" ELSE "zext",
                             from |-> llvm_type(v.ty), v |-> gen_value_name(at), to |-> I32])
    IN  IF llvm_type(v.ty) \in {I(8), I(16)}
        THEN Result(ext, gen_value_name(load), IF IntWidth(e.ty) \in 1..31 THEN <<"INT", 32, e.ty[3]>> ELSE e.ty)
        ELSE Result(load, gen_value_name(at), e.ty)

\* x[lo:hi]: the policy is applied to each bound over length + 1, then to the
\* length. Yields the element pointer in op and the i64 length in len.
codegen_slice(e, st) ==
    LET v == find_value(st, e.x)
        lo == codegen_expression(e.lo, st)
        lo64 == emit_index_i64(lo.st, lo.op, lo.ty)
        hi == codegen_expression(e.hi, lo64.st)
        hi64 == emit_index_i64(hi.st, hi.op, hi.ty)
        n == Define(hi64.st, [i |-> "bin", op |-> <<"+", "s">>, ty |-> I64, a |-> v.len, b |-> Const(1)])
        bound == gen_value_name(hi64.st)
        l == emit_index_policy(n, bound, lo64.op)
        h == emit_index_policy(l.st, bound, hi64.op)
        raw == Define(h.st, [i |-> "bin", op |-> <<"-", "s">>, ty |-> I64, a |-> h.op, b |-> l.op])
        len == emit_index_policy(raw, bound, gen_value_name(h.st))
    IN  [st |-> Define(len.st, [i |-> "gep", p |-> v.op, ix |-> l.op]),
         op |-> gen_value_name(len.st), len |-> len.op, elem |-> v.ty]

\* T(x): between the integer widths and float; a constant passes through.
codegen_cast(e, st) ==
    LET x == codegen_expression(e.args[1], st)
        def(how, from, to) == Result(Define(x.st, [i |-> "conv", how |-> how, from |-> from, v |-> x.op, to |-> to]),
                                     gen_value_name(x.st), e.ty)
    IN  CASE e.ty = HFloat /\ x.ty # HFloat -> def("sitofp", IF x.ty[1] = "INT" THEN I(x.ty[2]) ELSE I32, F32)
          [] e.ty[1] = "INT" /\ x.ty = HFloat -> def("fptosi", F32, I(e.ty[2]))
          [] e.ty[1] = "INT" /\ x.ty # HFloat /\ (is_width_int_name(e.f) \/ x.ty[1] = "INT") ->
                LET c == emit_int_convert(x.st, x.op, x.ty, e.ty[2]) IN Result(c.st, c.op, e.ty)
          [] OTHER -> Result(x.st, x.op, e.ty)

codegen_select(e, st) ==
    LET c == codegen_expression(e.args[1], st)
        a == codegen_expression(e.args[2], c.st)
        b == codegen_expression(e.args[3], a.st)
        ty == IF a.ty = HFloat \/ "fconst" \in {a.op[1], b.op[1]} THEN F32 ELSE I32
        i1 == Define(b.st, [i |-> "icmp", op |-> <<"!=", "s">>, ty |-> I32, a |-> c.op, b |-> Const(0)])
    IN  Result(Define(i1, [i |-> "select", c |-> gen_value_name(b.st), ty |-> ty, a |-> a.op, b |-> b.op]),
               gen_value_name(i1), e.ty)

\* One argument for a parameter of HIR type p: a slice takes pointer and
\* length, an integer is brought to the declared width.
PrepareArg(e, p, st) ==
    IF p[1] = "ARRAY"
    THEN IF e.t = "slice"
         THEN LET s == codegen_slice(e, st) IN [st |-> s.st, args |-> <<s.op, s.len>>, tys |-> <<Ptr, I64>>]
         ELSE LET v == find_value(st, e.x) IN [st |-> st, args |-> <<v.op, v.len>>, tys |-> <<Ptr, I64>>]
    ELSE LET x == codegen_expression(e, st)
             c == emit_int_convert(x.st, x.op, x.ty, IntWidth(p))
         IN  CASE x.ty = HFloat -> [st |-> x.st, args |-> <<x.op>>, tys |-> <<F32>>]
               [] x.ty # HFloat /\ p[1] = "INT" -> [st |-> c.st, args |-> <<c.op>>, tys |-> <<I(p[2])>>]
               [] OTHER -> [st |-> x.st, args |-> <<x.op>>, tys |-> <<IF IntWidth(x.ty) > 0 THEN I(IntWidth(x.ty)) ELSE I32>>]
RECURSIVE PrepareArgs(_, _, _)
PrepareArgs(es, ps, st) ==
    IF es = <<>> THEN [st |-> st, args |-> <<>>, tys |-> <<>>]
    ELSE LET a == PrepareArg(Head(es), Head(ps)[2], st)
             as == PrepareArgs(Tail(es), Tail(ps), a.st)
         IN  [st |-> as.st, args |-> a.args \o as.args, tys |-> a.tys \o as.tys]

return_member_llvm(h) == llvm_type(h)
codegen_call(e, st) ==
    LET fn == hir.funcs[e.f]
        as == PrepareArgs(e.args, fn.params, st)
    IN  Result(Define(as.st, [i |-> "call", f |-> e.f, args |-> as.args, tys |-> as.tys, ty |-> return_member_llvm(fn.ret)]),
               gen_value_name(as.st), e.ty)

codegen_expression(e, st) ==
    CASE e.t \in {"int", "chr"} -> Result(st, Const(e.v), e.ty)
      [] e.t = "flt" -> Result(st, <<"fconst", e.q>>, e.ty)
      [] e.t = "name" -> codegen_name(e, st)
      [] e.t = "bin" -> IF e.op \in {"&&", "||"} THEN codegen_logical(e, st) ELSE codegen_binary(e, st)
      [] e.t = "un" -> codegen_unary(e, st)
      [] e.t = "len" -> codegen_length(e, st)
      [] e.t = "idx" -> codegen_index(e, st)
      [] e.t = "call" -> IF e.f = "select" THEN codegen_select(e, st)
                         ELSE IF IsTypeName(e.f) THEN codegen_cast(e, st) ELSE codegen_call(e, st)

----------------------------------------------------------------------------
Store(st, ty, v, p) == Emit(st, [i |-> "store", ty |-> ty, v |-> v, p |-> p])

\* x := e. The slot has the type codegen left on the value; an annotation of
\* a width other than 32 bits converts the value and types the slot.
codegen_bind(s, st) ==
    LET v == codegen_expression(s.e, st)
        ann == s.ty[1] = "INT" /\ s.ty[2] # 32
        c == IF ann THEN emit_int_convert(v.st, v.op, v.ty, s.ty[2]) ELSE v
        ty == IF ann THEN s.ty ELSE IF v.ty = HUnknown THEN HInt ELSE v.ty
        cell == IF ty[1] \in {"INT", "FLOAT"} THEN llvm_type(ty) ELSE I32
        slot == gen_value_name(c.st)
    IN  AddValue(Store(emit_alloca(c.st, 1), cell, c.op, slot), Slot(s.x, slot, ty))

\* x := y[lo:hi] binds a view: a pointer and its length.
codegen_slice_bind(s, st) ==
    LET v == codegen_slice(s.e, st) IN AddValue(v.st, Elements(s.x, v.op, v.elem, v.len))

\* An element of a float array: a literal is respelled, an int converted.
float_promote_operand(st, x, literal) ==
    CASE x.ty[1] \in {"INT", "CHAR"} /\ literal -> Result(st, <<"fconst", <<x.op[2], 1>>>>, HFloat)
      [] x.ty[1] \in {"INT", "CHAR"} /\ ~literal ->
            Result(Define(st, [i |-> "conv", how |-> "sitofp", from |-> I32, v |-> x.op, to |-> F32]), gen_value_name(st), HFloat)
      [] OTHER -> Result(st, x.op, x.ty)

RECURSIVE Scatter(_, _, _, _, _)
Scatter(es, k, ty, p, st) ==
    IF es = <<>> THEN st
    ELSE LET x == codegen_expression(Head(es), st)
             v == IF ty = HFloat THEN float_promote_operand(x.st, x, Head(es).t \in {"int", "chr"}) ELSE x
             at == Define(v.st, [i |-> "gep", p |-> p, ix |-> Const(k)])
         IN  Scatter(Tail(es), k + 1, ty, p, Store(at, llvm_type(ty), v.op, gen_value_name(v.st)))
\* x : [n]T = {e, ...}: the elements are stored as T, as they come.
codegen_array_bind(s, st) ==
    LET a == emit_alloca(st, s.n)
        at == Define(a, [i |-> "gep", p |-> gen_value_name(st), ix |-> Const(0)])
        full == Scatter(SubSeq(s.es, 1, IF Len(s.es) < s.n THEN Len(s.es) ELSE s.n), 0, s.ty, gen_value_name(a), at)
    IN  AddValue(full, Elements(s.x, gen_value_name(a), s.ty, Const(s.n)))

\* x = e and x op= e over a slot. Plain assignment converts to the slot's
\* width, compound does not. A scalar parameter has no slot: its value is
\* computed and dropped.
codegen_assign_name(s, st) ==
    LET v == find_value(st, s.x)
        e == codegen_expression(s.e, st)
        ty == llvm_type(v.ty)
        plain == IF v.ty = HFloat THEN e ELSE emit_int_convert(e.st, e.op, e.ty, IF v.ty[1] = "INT" THEN v.ty[2] ELSE 32)
        old == Define(e.st, [i |-> "load", ty |-> ty, p |-> v.op])
        op == <<s.op, IF v.ty[1] = "INT" /\ ~v.ty[3] THEN "u" ELSE "s">>
        new == IF v.ty # HFloat /\ s.op \in {"/", "%"}
               THEN emit_int_divmod(old, op, ty, gen_value_name(e.st), e.op)
               ELSE Define(old, [i |-> "bin", op |-> op, ty |-> ty, a |-> gen_value_name(e.st), b |-> e.op])
    IN  CASE v.kind = "slot" /\ s.op = "" -> Store(plain.st, ty, plain.op, v.op)
          [] v.kind = "slot" /\ s.op # "" -> Store(new, ty, gen_value_name(old), v.op)
          [] OTHER -> e.st

\* x[i] = e; a compound operator is not looked at.
codegen_assign_element(s, st) ==
    LET v == find_value(st, s.x)
        e == codegen_expression(s.e, st)
        i == codegen_expression(s.i, e.st)
        wide == emit_index_i64(i.st, i.op, i.ty)
        ix == emit_index_policy(wide.st, v.len, wide.op)
        at == Define(ix.st, [i |-> "gep", p |-> v.op, ix |-> ix.op])
        byte == emit_int_convert(at, e.op, e.ty, 8)
    IN  IF llvm_type(v.ty) = I(8) THEN Store(byte.st, I(8), byte.op, gen_value_name(ix.st))
        ELSE Store(at, llvm_type(v.ty), e.op, gen_value_name(ix.st))

codegen_show(s, st) ==
    LET a == PrepareArg(s.e, HInt, st) IN Emit(a.st, [i |-> "show", ty |-> I32, v |-> a.args[1]])

\* ret is the LLVM type the function is defined with; no conversion.
codegen_return(s, st, ret) ==
    LET v == codegen_expression(s.e, st) IN Emit(v.st, [i |-> "ret", ty |-> ret, v |-> v.op])

-----------------------------------------------------------------------------
RECURSIVE codegen_body(_, _, _)

\* A condition that is a register is compared with zero at its width.
codegen_if(s, st, ret) ==
    LET c == codegen_expression(s.c, st)
        i1 == Define(c.st, [i |-> "icmp", op |-> <<"!=", "s">>, ty |-> cond_int_type(c.ty), a |-> c.op, b |-> Const(0)])
        cond == IF IsConst(c.op) THEN c ELSE Result(i1, gen_value_name(c.st), HInt)
        then == cond.st.n
        else == then + 1
        exit == IF s.b = <<>> THEN then + 1 ELSE then + 2
        s1 == Emit(Emit(Names(cond.st, exit - then + 1), Branch(cond.op, then, IF s.b = <<>> THEN exit ELSE else)), Label(then))
        s2 == Emit(codegen_body(s.a, s1, ret), Jump(exit))
        s3 == IF s.b = <<>> THEN s2 ELSE Emit(codegen_body(s.b, Emit(s2, Label(else)), ret), Jump(exit))
    IN  Emit(s3, Label(exit))

LoopTest(e, st, body, exit) ==
    LET c == codegen_expression(e, st)
        i1 == Define(c.st, [i |-> "icmp", op |-> <<"!=", "s">>, ty |-> cond_int_type(c.ty), a |-> c.op, b |-> Const(0)])
    IN  Emit(Emit(i1, Branch(gen_value_name(c.st), body, exit)), Label(body))
Enter(st, cont, exit) == [st EXCEPT !.loops = Append(@, [cont |-> cont, exit |-> exit])]
Leave(st, before) == [st EXCEPT !.loops = before.loops, !.vals = before.vals]

\* for (first; c; step): continue jumps to the latch.
codegen_for(s, st, ret) ==
    LET loop == st.n
        body == st.n + 1
        exit == st.n + 2
        cont == st.n + 3
        s1 == Enter(codegen_body(<<s.first>>, Names(st, 4), ret), cont, exit)
        s2 == LoopTest(s.c, Emit(Emit(s1, Jump(loop)), Label(loop)), body, exit)
        s3 == Emit(Emit(codegen_body(s.a, s2, ret), Jump(cont)), Label(cont))
        s4 == Emit(Emit(codegen_body(<<s.step>>, s3, ret), Jump(loop)), Label(exit))
    IN  Leave(s4, st)

\* for (c): continue tests again.
codegen_cond_loop(s, st, ret) ==
    LET loop == st.n
        exit == st.n + 2
        s1 == Emit(Emit(Enter(Names(st, 3), loop, exit), Jump(loop)), Label(loop))
        s2 == codegen_body(s.a, LoopTest(s.c, s1, st.n + 1, exit), ret)
    IN  Leave(Emit(Emit(s2, Jump(loop)), Label(exit)), st)

\* A jump is followed by a block nothing reaches; outside a loop there is
\* only a message.
codegen_jump(s, st) ==
    IF st.loops = <<>> THEN st
    ELSE LET to == IF s.k = "break" THEN Last(st.loops).exit ELSE Last(st.loops).cont
         IN  Emit(Emit(Emit(Names(st, 1), Jump(to)), Label(st.n)), [i |-> "unreachable"])

codegen_statement(s, st, ret) ==
    CASE s.k = "bind" -> IF s.e.t = "slice" THEN codegen_slice_bind(s, st) ELSE codegen_bind(s, st)
      [] s.k = "array" -> codegen_array_bind(s, st)
      [] s.k = "set" -> codegen_assign_name(s, st)
      [] s.k = "put" -> codegen_assign_element(s, st)
      [] s.k = "show" -> codegen_show(s, st)
      [] s.k = "return" -> codegen_return(s, st, ret)
      [] s.k = "if" -> codegen_if(s, st, ret)
      [] s.k = "for" -> codegen_for(s, st, ret)
      [] s.k = "loop" -> codegen_cond_loop(s, st, ret)
      [] s.k = "block" -> codegen_body(s.a, st, ret)
      [] s.k \in {"break", "continue"} -> codegen_jump(s, st)
\* (st.n is looked at so that TLC evaluates a statement before the next.)
codegen_body(ss, st, ret) ==
    IF ss # <<>> /\ st.n >= 0 THEN codegen_body(Tail(ss), codegen_statement(Head(ss), st, ret), ret) ELSE st

-----------------------------------------------------------------------------
(* Functions *)

begin_function_body(infunc) ==
    [code |-> <<>>, slots |-> <<>>, n |-> 0, vals |-> <<>>, loops |-> <<>>, infunc |-> infunc]

\* A slice parameter arrives as pointer and length, a scalar as a register.
RECURSIVE AddParams(_, _)
AddParams(ps, st) ==
    IF ps = <<>> THEN st
    ELSE LET x == Head(ps)[1]
             ty == Head(ps)[2]
         IN  AddParams(Tail(ps),
                IF ty[1] = "ARRAY" THEN AddValue(Names(st, 2), Elements(x, gen_value_name(st), ty[2], <<"reg", st.n + 1>>))
                ELSE AddValue(Names(st, 1), Arg(x, gen_value_name(st), ty)))
emit_func_params(ps) ==
    FlattenSeq([i \in DOMAIN ps |-> IF ps[i][2][1] = "ARRAY" THEN <<Ptr, I64>> ELSE <<llvm_type(ps[i][2])>>])

Zero(ty) == IF ty = F32 THEN <<"fconst", <<0, 1>>>> ELSE Const(0)
Defined(st, params, ret) ==
    [code |-> Append(st.code, [i |-> "ret", ty |-> ret, v |-> Zero(ret)]), slots |-> st.slots, n |-> st.n,
     params |-> params, ret |-> ret]
codegen_func_decl(fn) ==
    LET ret == return_member_llvm(fn.ret)
    IN  Defined(codegen_body(fn.body, AddParams(fn.params, begin_function_body(TRUE)), ret), emit_func_params(fn.params), ret)
\* The system `#run` names: a function without parameters or result.
codegen_system_decl(body) == Defined(codegen_body(body, begin_function_body(FALSE), I32), <<>>, I32)

\* The module: main first.
codegen_program ==
    [f \in DOMAIN hir.funcs \cup {"main"} |->
        IF f = "main" THEN codegen_system_decl(hir.main) ELSE codegen_func_decl(hir.funcs[f])]
=============================================================================
