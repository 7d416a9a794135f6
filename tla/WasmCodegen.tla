---------------------------- MODULE WasmCodegen ----------------------------
(***************************************************************************)
(* wasmgen.c: HIR straight to a wasm module, the systems run once in one   *)
(* function. g is the module under way: the body's bytes, the string pool, *)
(* the locals in the order they were first seen, the arrays placed in      *)
(* linear memory and the next free address. What the backend does not know *)
(* (calls, unary operators, slices, jumps, blocks) it replaces by 0 or     *)
(* leaves out without a word. wasm_encode.c is the binary writer below it: *)
(* a buffer is a sequence of bytes; a name is one byte here, and an 8-byte *)
(* double is its rational followed by seven zero bytes.                    *)
(***************************************************************************)
EXTENDS LlvmCodegen

CONSTANTS ArgsBase,     \* where printf arguments are put for the host
          StringsBase,  \* the string pool
          ArraysBase    \* the arrays

\* Unsigned LEB128.
RECURSIVE wb_u(_)
wb_u(v) == IF v < 128 THEN <<v>> ELSE <<(v % 128) + 128>> \o wb_u(v \div 128)

\* Signed LEB128: ends where the sign bit of the byte is the sign of the rest.
RECURSIVE wb_i(_)
wb_i(v) ==
    LET byte == v % 128
        rest == v \div 128
    IN  IF (rest = 0 /\ byte < 64) \/ (rest = -1 /\ byte >= 64) THEN <<byte>> ELSE <<byte + 128>> \o wb_i(rest)

wb_name(n) == wb_u(1) \o <<n>>

\* A module under construction: a buffer and a count per section.
Section == [bytes |-> <<>>, count |-> 0]
Adds(s, bytes) == [bytes |-> s.bytes \o bytes, count |-> s.count + 1]
wm_init == [types |-> Section, imports |-> Section, funcs |-> Section, exports |-> Section,
            code |-> Section, data |-> Section, pages |-> 0]
wm_type(m, params, results) ==
    [m EXCEPT !.types = Adds(@, <<\h60>> \o wb_u(Len(params)) \o params \o wb_u(Len(results)) \o results)]
wm_import_func(m, name, type) == [m EXCEPT !.imports = Adds(@, wb_name(0) \o wb_name(name) \o <<0>> \o wb_u(type))]
wm_memory(m, pages) == [m EXCEPT !.pages = pages]
wm_func(m, type) == [m EXCEPT !.funcs = Adds(@, wb_u(type))]
\* Functions are numbered from the imports on.
FuncIndex(m) == m.imports.count + m.funcs.count
wm_code(m, locals, body) ==
    LET groups == [i \in 1..2 * Len(locals) |-> IF i % 2 = 1 THEN 1 ELSE locals[i \div 2]]
        fb == wb_u(Len(locals)) \o groups \o body
    IN  [m EXCEPT !.code = Adds(@, wb_u(Len(fb)) \o fb)]
wm_export_func(m, name, index) == [m EXCEPT !.exports = Adds(@, wb_name(name) \o <<0>> \o wb_u(index))]
wm_export_mem(m, name) == [m EXCEPT !.exports = Adds(@, wb_name(name) \o <<2>> \o wb_u(0))]
wm_data(m, offset, bytes) ==
    [m EXCEPT !.data = Adds(@, <<0, \h41>> \o wb_i(offset) \o <<\h0b>> \o wb_u(Len(bytes)) \o bytes)]

\* A section: id, size, count, contents; an empty one is left out.
Sized(id, s) == <<id>> \o wb_u(Len(s)) \o s
emit_vec_section(id, s) == IF s.count = 0 THEN <<>> ELSE Sized(id, wb_u(s.count) \o s.bytes)
wm_finish(m) ==
    Header \o emit_vec_section(1, m.types) \o emit_vec_section(2, m.imports) \o emit_vec_section(3, m.funcs)
    \o (IF m.pages = 0 THEN <<>> ELSE Sized(5, wb_u(1) \o <<0>> \o wb_u(m.pages)))
    \o emit_vec_section(7, m.exports) \o emit_vec_section(10, m.code) \o emit_vec_section(11, m.data)

-----------------------------------------------------------------------------
wg_wtype(h) == IF h = HFloat THEN WT_F64 ELSE WT_I32
wg_scalar_size(h) == CASE h = HFloat -> 8 [] h = HChar -> 1 [] h[1] = "INT" -> h[2] \div 8 [] OTHER -> 4

Out(g, bytes) == [g EXCEPT !.body = @ \o bytes]
emit_const(g, v) == Out(g, <<\h41>> \o wb_i(v))
emit_fconst(g, q) == Out(g, <<\h44, q, 0, 0, 0, 0, 0, 0, 0>>)
emit_local_get(g, i) == Out(g, <<\h20>> \o wb_u(i))
emit_local_set(g, i) == Out(g, <<\h21>> \o wb_u(i))

\* The index of a local; the first use of a name fixes its type.
Known(g, x) == {i \in DOMAIN g.locals : g.locals[i].x = x}
wg_local(g, x, wt) ==
    IF Known(g, x) # {} THEN [g |-> g, i |-> (CHOOSE i \in Known(g, x) : TRUE) - 1]
    ELSE [g |-> [g EXCEPT !.locals = Append(@, [x |-> x, wt |-> wt])], i |-> Len(g.locals)]

binop_i(op) ==
    CASE op = "+" -> \h6a [] op = "-" -> \h6b [] op = "*" -> \h6c [] op = "/" -> \h6d [] op = "%" -> \h6f
      [] op = "==" -> \h46 [] op = "!=" -> \h47 [] op = "<" -> \h48 [] op = ">" -> \h4a [] op = "<=" -> \h4c
      [] op = ">=" -> \h4e [] op = "&&" -> \h71 [] op = "||" -> \h72 [] OTHER -> 0
binop_f(op) ==
    CASE op = "+" -> \ha0 [] op = "-" -> \ha1 [] op = "*" -> \ha2 [] op = "/" -> \ha3 [] op = "==" -> \h61
      [] op = "!=" -> \h62 [] op = "<" -> \h63 [] op = ">" -> \h64 [] op = "<=" -> \h65 [] op = ">=" -> \h66 [] OTHER -> 0

\* Arrays, found by name; each is placed behind the last.
IsArray(g, x) == \E i \in DOMAIN g.arrays : g.arrays[i].x = x
wg_array_find(g, x) ==
    g.arrays[CHOOSE i \in DOMAIN g.arrays : g.arrays[i].x = x /\ \A j \in 1..i - 1 : g.arrays[j].x # x]
wg_array_decl(g, x, n, ty) ==
    [g EXCEPT !.arrays = Append(@, [x |-> x, base |-> g.cursor, size |-> wg_scalar_size(ty), wt |-> wg_wtype(ty),
                                    signed |-> ty[1] = "INT" /\ ty[3], total |-> n]),
              !.cursor = @ + n * wg_scalar_size(ty)]
wg_emit_load(g, a) ==
    Out(g, CASE a.wt = WT_F64 -> <<\h2b, 3, 0>>
             [] a.wt # WT_F64 /\ a.size = 1 -> <<IF a.signed THEN \h2c ELSE \h2d, 0, 0>>
             [] a.wt # WT_F64 /\ a.size = 2 -> <<IF a.signed THEN \h2e ELSE \h2f, 1, 0>>
             [] OTHER -> <<\h28, 2, 0>>)
wg_emit_store(g, a) ==
    Out(g, CASE a.wt = WT_F64 -> <<\h39, 3, 0>>
             [] a.wt # WT_F64 /\ a.size = 1 -> <<\h3a, 0, 0>>
             [] a.wt # WT_F64 /\ a.size = 2 -> <<\h3b, 1, 0>>
             [] OTHER -> <<\h36, 2, 0>>)

RECURSIVE wg_emit_expr(_, _)
wg_emit_elem_addr(g, a, index) ==
    LET at == wg_emit_expr(index, emit_const(g, a.base))
    IN  Out(IF a.size # 1 THEN Out(emit_const(at, a.size), <<\h6c>>) ELSE at, <<\h6a>>)
wg_emit_as_float(g, e) == LET v == wg_emit_expr(e, g) IN IF wg_wtype(e.ty) # WT_F64 THEN Out(v, <<\hb7>>) ELSE v
wg_emit_as(g, e, wt) == IF wt = WT_F64 THEN wg_emit_as_float(g, e) ELSE wg_emit_expr(e, g)
wg_emit_binary(e, g) ==
    LET wt == IF WT_F64 \in {wg_wtype(e.l.ty), wg_wtype(e.r.ty)} THEN WT_F64 ELSE WT_I32
        op == IF wt = WT_F64 THEN binop_f(e.op) ELSE binop_i(e.op)
    IN  IF op = 0 THEN emit_const(g, 0) ELSE Out(wg_emit_as(wg_emit_as(g, e.l, wt), e.r, wt), <<op>>)
\* A constant's name is its value.
wg_emit_name(e, g) ==
    IF e.x \in DOMAIN hir.consts THEN wg_emit_expr(hir.consts[e.x], g)
    ELSE LET l == wg_local(g, e.x, wg_wtype(e.ty)) IN emit_local_get(l.g, l.i)
wg_emit_expr(e, g) ==
    CASE e.t \in {"int", "chr"} -> emit_const(g, e.v)
      [] e.t = "flt" -> emit_fconst(g, e.q)
      [] e.t = "name" -> wg_emit_name(e, g)
      [] e.t = "bin" -> wg_emit_binary(e, g)
      [] e.t = "idx" -> IF IsArray(g, e.x) THEN LET a == wg_array_find(g, e.x) IN wg_emit_load(wg_emit_elem_addr(g, a, e.i), a)
                        ELSE emit_const(g, 0)
      [] e.t = "len" -> emit_const(g, IF IsArray(g, e.x) THEN wg_array_find(g, e.x).total ELSE 0)
      [] OTHER -> emit_const(g, 0)

-----------------------------------------------------------------------------
(* Statements *)

\* A string literal, its escapes replaced, at the end of the pool.
RECURSIVE Unescaped(_)
Unescaped(raw) ==
    IF raw = <<>> THEN <<>>
    ELSE IF Head(raw) = 92 /\ Len(raw) > 1
    THEN <<CASE raw[2] = 110 -> 10 [] raw[2] = 116 -> 9 [] raw[2] = 114 -> 13 [] raw[2] = 48 -> 0 [] OTHER -> raw[2]>>
         \o Unescaped(SubSeq(raw, 3, Len(raw)))
    ELSE <<Head(raw)>> \o Unescaped(Tail(raw))
wg_intern_string(g, raw) ==
    [g |-> [g EXCEPT !.strings = @ \o Unescaped(raw)], off |-> StringsBase + Len(g.strings), len |-> Len(Unescaped(raw))]

\* fmt.printf("%d\n", e): the argument goes to its slot, then the host is called.
Format == <<37, 100, 92, 110>>
MarshalArg(g, e, slot) == Out(wg_emit_expr(e, emit_const(g, slot)), IF wg_wtype(e.ty) = WT_F64 THEN <<\h39, 3, 0>> ELSE <<\h36, 2, 0>>)
wg_emit_printf(g, e) ==
    LET s == wg_intern_string(g, Format)
        m == MarshalArg(s.g, e, ArgsBase)
    IN  Out(emit_const(emit_const(emit_const(emit_const(m, s.off), s.len), ArgsBase), 1), <<\h10>> \o wb_u(1))

RECURSIVE InitArray(_, _, _, _)
InitArray(es, k, a, g) ==
    IF es = <<>> \/ k = a.total THEN g
    ELSE InitArray(Tail(es), k + 1, a, wg_emit_store(wg_emit_as(emit_const(g, a.base + k * a.size), Head(es), a.wt), a))
wg_emit_array(s, g) ==
    LET h == wg_array_decl(g, s.x, s.n, s.ty) IN InitArray(s.es, 0, h.arrays[Len(h.arrays)], h)
wg_emit_bind(s, g) ==
    LET v == wg_emit_expr(s.e, g)
        l == wg_local(v, s.x, wg_wtype(s.e.ty))
    IN  emit_local_set(l.g, l.i)
Combined(g, op, wt) == LET b == IF wt = WT_F64 THEN binop_f(op) ELSE binop_i(op) IN IF op = "" \/ b = 0 THEN g ELSE Out(g, <<b>>)
\* The type of the target is the one recorded for its name.
wg_emit_assign(s, g) ==
    LET wt == wg_wtype(s.ty)
        l == wg_local(g, s.x, wt)
        v == IF s.op = "" THEN wg_emit_expr(s.e, l.g)
             ELSE Combined(wg_emit_as(emit_local_get(l.g, l.i), s.e, wt), s.op, wt)
    IN  emit_local_set(v, l.i)
wg_emit_put(s, g) ==
    LET a == wg_array_find(g, s.x)
        at == wg_emit_elem_addr(g, a, s.i)
        old == IF s.op = "" THEN at ELSE wg_emit_load(wg_emit_elem_addr(at, a, s.i), a)
    IN  IF ~IsArray(g, s.x) THEN g ELSE wg_emit_store(Combined(wg_emit_as(old, s.e, a.wt), s.op, a.wt), a)

RECURSIVE wg_emit_stmts(_, _)
\* A block around a loop: left by the first branch, repeated by the last.
wg_emit_for(s, g) ==
    LET first == IF s.k = "for" THEN wg_emit_stmts(<<s.first>>, g) ELSE g
        test == Out(wg_emit_expr(s.c, Out(first, <<2, \h40, 3, \h40>>)), <<\h45, \h0d>> \o wb_u(1))
        body == wg_emit_stmts(s.a, test)
        step == IF s.k = "for" THEN wg_emit_stmts(<<s.step>>, body) ELSE body
    IN  Out(step, <<\h0c>> \o wb_u(0) \o <<\h0b, \h0b>>)
wg_emit_if(s, g) ==
    LET then == wg_emit_stmts(s.a, Out(wg_emit_expr(s.c, g), <<4, \h40>>))
    IN  Out(IF s.b = <<>> THEN then ELSE wg_emit_stmts(s.b, Out(then, <<5>>)), <<\h0b>>)
wg_emit_stmt(s, g) ==
    CASE s.k = "bind" -> wg_emit_bind(s, g)
      [] s.k = "array" -> wg_emit_array(s, g)
      [] s.k = "set" -> wg_emit_assign(s, g)
      [] s.k = "put" -> wg_emit_put(s, g)
      [] s.k \in {"for", "loop"} -> wg_emit_for(s, g)
      [] s.k = "if" -> wg_emit_if(s, g)
      [] s.k = "show" -> wg_emit_printf(g, s.e)
      [] OTHER -> g
\* (g.cursor is looked at so that TLC evaluates a statement before the next.)
wg_emit_stmts(ss, g) == IF ss # <<>> /\ g.cursor >= 0 THEN wg_emit_stmts(Tail(ss), wg_emit_stmt(Head(ss), g)) ELSE g

Empty == [body |-> <<>>, strings |-> <<>>, locals |-> <<>>, arrays |-> <<>>, cursor |-> ArraysBase]
Imports ==
    LET m == wm_export_mem(wm_memory(wm_init, 4), 1)
        p2 == wm_import_func(wm_type(m, <<WT_I32, WT_I32>>, <<>>), 2, 0)
    IN  wm_import_func(wm_type(p2, <<WT_I32, WT_I32, WT_I32, WT_I32>>, <<>>), 3, 1)
wasmgen_generate ==
    LET g == Out(wg_emit_stmts(hir.main, Empty), <<\h0b>>)
        m == wm_type(Imports, <<>>, <<>>)
        coded == wm_code(wm_func(m, m.types.count - 1), [i \in DOMAIN g.locals |-> g.locals[i].wt], g.body)
        started == wm_export_func(coded, 4, FuncIndex(m))
    IN  wm_finish(IF g.strings = <<>> THEN started ELSE wm_data(started, StringsBase, g.strings))
=============================================================================
