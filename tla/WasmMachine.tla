---------------------------- MODULE WasmMachine ----------------------------
(***************************************************************************)
(* What a wasm engine makes of the module wasmgen writes: the bytes are    *)
(* decoded, validated and run. Values are LlvmMachine's. Linear memory     *)
(* maps an address to the value stored there and its size; a load that     *)
(* cuts through another store traps, which no address the backend computes *)
(* should do.                                                              *)
(***************************************************************************)
EXTENDS LlvmMachine

(* The decoder *)

RECURSIVE ReadU(_, _), ReadI(_, _)
ReadU(bs, i) ==
    IF bs[i] < 128 THEN [v |-> bs[i], at |-> i + 1]
    ELSE LET r == ReadU(bs, i + 1) IN [v |-> bs[i] - 128 + 128 * r.v, at |-> r.at]
ReadI(bs, i) ==
    IF bs[i] < 128 THEN [v |-> IF bs[i] >= 64 THEN bs[i] - 128 ELSE bs[i], at |-> i + 1]
    ELSE LET r == ReadI(bs, i + 1) IN [v |-> bs[i] - 128 + 128 * r.v, at |-> r.at]

Nested3 == {2, 3, 4}
RECURSIVE Decode(_, _, _)
Decoded(bs, i) == Decode(bs, i, Len(bs))
\* One instruction: opcode, immediate, and the bodies of a structured one.
Instruction(bs, i) ==
    LET op == bs[i]
        u == ReadU(bs, i + 1)
        c == ReadI(bs, i + 1)
        a == Decoded(bs, i + 2)
        b == Decoded(bs, a.at + 1)
        ins(arg, then, else) == [op |-> op, arg |-> arg, a |-> then, b |-> else]
    IN  CASE op = \h41 -> [v |-> ins(c.v, <<>>, <<>>), at |-> c.at]
          [] op = \h44 -> [v |-> ins(bs[i + 1], <<>>, <<>>), at |-> i + 9]
          [] op \in {\h20, \h21, \h10, \h0c, \h0d} -> [v |-> ins(u.v, <<>>, <<>>), at |-> u.at]
          [] op \in \h28..\h3b -> [v |-> ins(0, <<>>, <<>>), at |-> i + 3]
          [] op \in Nested3 -> IF bs[a.at] = 5 THEN [v |-> ins(0, a.v, b.v), at |-> b.at + 1]
                               ELSE [v |-> ins(0, a.v, <<>>), at |-> a.at + 1]
          [] OTHER -> [v |-> ins(0, <<>>, <<>>), at |-> i + 1]
\* At most n instructions, up to an `else` or `end`.
Decode(bs, i, n) ==
    IF bs[i] \in {5, \h0b} THEN [v |-> <<>>, at |-> i]
    ELSE IF n = 1 THEN LET one == Instruction(bs, i) IN [v |-> <<one.v>>, at |-> one.at]
    ELSE LET fst == Decode(bs, i, n \div 2)
             snd == Decode(bs, fst.at, n - n \div 2)
         IN  [v |-> fst.v \o snd.v, at |-> snd.at]

RECURSIVE Sections(_, _)
Sections(bs, i) ==
    IF i > Len(bs) THEN <<>>
    ELSE LET n == ReadU(bs, i + 1)
         IN  <<[id |-> bs[i], bytes |-> SubSeq(bs, n.at, n.at + n.v - 1)]>> \o Sections(bs, n.at + n.v)
SectionOf(bs, id) ==
    LET ss == SelectSeq(Sections(bs, 9), LAMBDA s : s.id = id) IN IF ss = <<>> THEN <<0>> ELSE ss[1].bytes

TypeEntry(bs, i) ==
    LET n == ReadU(bs, i + 1)
        r == ReadU(bs, n.at + n.v)
    IN  [v |-> SubSeq(bs, n.at, n.at + n.v - 1), at |-> r.at + r.v]
ImportEntry(bs, i) == LET t == ReadU(bs, i + 5) IN [v |-> t.v, at |-> t.at]
ExportEntry(bs, i) == LET n == ReadU(bs, i + 3) IN [v |-> <<bs[i + 1], bs[i + 2], n.v>>, at |-> n.at]
CodeEntry(bs, i) ==
    LET size == ReadU(bs, i)
        n == ReadU(bs, size.at)
        body == Decoded(bs, n.at + 2 * n.v)
    IN  [v |-> [locals |-> [k \in 1..n.v |-> bs[n.at + 2 * k - 1]], code |-> body.v, whole |-> body.at + 1 = size.at + size.v],
         at |-> size.at + size.v]
DataEntry(bs, i) ==
    LET o == ReadI(bs, i + 2)
        n == ReadU(bs, o.at + 1)
    IN  [v |-> [at |-> o.v, bytes |-> SubSeq(bs, n.at, n.at + n.v - 1)], at |-> n.at + n.v]
Entry(id, bs, i) ==
    CASE id = 1 -> TypeEntry(bs, i) [] id = 2 -> ImportEntry(bs, i) [] id = 3 -> ReadU(bs, i)
      [] id = 7 -> ExportEntry(bs, i) [] id = 10 -> CodeEntry(bs, i) [] id = 11 -> DataEntry(bs, i)
RECURSIVE Entries(_, _, _, _)
Entries(id, bs, i, n) ==
    IF n = 0 THEN <<>> ELSE LET e == Entry(id, bs, i) IN <<e.v>> \o Entries(id, bs, e.at, n - 1)
Vector(id, bs) == LET s == SectionOf(bs, id) IN Entries(id, s, ReadU(s, 1).at, ReadU(s, 1).v)
Module(bs) ==
    [types |-> Vector(1, bs), imports |-> Vector(2, bs), funcs |-> Vector(3, bs), exports |-> Vector(7, bs),
     func |-> Vector(10, bs)[1], data |-> Vector(11, bs)]

-----------------------------------------------------------------------------
(* Validation: every operand is on the stack with its type.                *)

T == WT_I32
D == WT_F64
Signature(ins, m) ==
    CASE ins.op = \h41 -> <<<<>>, <<T>>>>
      [] ins.op = \h44 -> <<<<>>, <<D>>>>
      [] ins.op = \h20 -> <<<<>>, <<m.func.locals[ins.arg + 1]>>>>
      [] ins.op = \h21 -> <<<<m.func.locals[ins.arg + 1]>>, <<>>>>
      [] ins.op \in \h46..\h4f \cup \h6a..\h72 -> <<<<T, T>>, <<T>>>>
      [] ins.op = \h45 -> <<<<T>>, <<T>>>>
      [] ins.op \in \h61..\h66 -> <<<<D, D>>, <<T>>>>
      [] ins.op \in \ha0..\ha3 -> <<<<D, D>>, <<D>>>>
      [] ins.op = \hb7 -> <<<<T>>, <<D>>>>
      [] ins.op \in {\h28, \h2c, \h2d, \h2e, \h2f} -> <<<<T>>, <<T>>>>
      [] ins.op = \h2b -> <<<<T>>, <<D>>>>
      [] ins.op \in {\h36, \h3a, \h3b} -> <<<<T, T>>, <<>>>>
      [] ins.op = \h39 -> <<<<T, D>>, <<>>>>
      [] ins.op = \h10 -> <<m.types[m.imports[ins.arg + 1] + 1], <<>>>>
      [] ins.op \in {4, \h0d} -> <<<<T>>, <<>>>>
      [] OTHER -> <<<<>>, <<>>>>
Bad == <<0>>
RECURSIVE StackAfter(_, _, _)
AfterOne(ins, stack, m) ==
    LET sig == Signature(ins, m)
        n == Len(stack) - Len(sig[1])
        inner == StackAfter(ins.a, <<>>, m) = <<>> /\ StackAfter(ins.b, <<>>, m) = <<>>
    IN  IF n >= 0 /\ SubSeq(stack, n + 1, Len(stack)) = sig[1] /\ inner THEN SubSeq(stack, 1, n) \o sig[2] ELSE Bad
StackAfter(code, stack, m) ==
    LET half == Len(code) \div 2
    IN  CASE code = <<>> \/ stack = Bad -> stack
          [] Len(code) = 1 /\ stack # Bad -> AfterOne(code[1], stack, m)
          [] OTHER -> StackAfter(SubSeq(code, half + 1, Len(code)), StackAfter(SubSeq(code, 1, half), stack, m), m)
WasmVerifies(bs) ==
    LET ids == [k \in DOMAIN Sections(bs, 9) |-> Sections(bs, 9)[k].id]
        m == Module(bs)
    IN  /\ SubSeq(bs, 1, 8) = Header
        /\ \A j, k \in DOMAIN ids : j < k => ids[j] < ids[k]
        /\ <<4, 0, Len(m.imports)>> \in Range(m.exports) /\ m.types[m.funcs[1] + 1] = <<>>
        /\ m.func.whole /\ StackAfter(m.func.code, <<>>, m) = <<>>

-----------------------------------------------------------------------------
(* The run *)

Nowhere == [x \in {} |-> 0]
SizeOf(op) == CASE op \in {\h2b, \h39} -> 8 [] op \in {\h2c, \h2d, \h3a} -> 1 [] op \in {\h2e, \h2f, \h3b} -> 2 [] OTHER -> 4
\* Stores that share bytes with [a, a + n) but are not exactly it.
Cut(memory, a, n) ==
    \E b \in DOMAIN memory : b < a + n /\ a < b + memory[b].n /\ ~(a = b /\ memory[b].n = n)
Peek(memory, a, op) ==
    LET n == SizeOf(op)
        raw == IF a \in DOMAIN memory THEN memory[a].v ELSE <<"b", 0>>
    IN  CASE op = \h2b -> IF a \in DOMAIN memory THEN raw ELSE <<"f", <<0, 1>>>>
          [] op \in {\h2c, \h2e} -> Pattern(AsSigned(raw, 8 * n), 32)
          [] OTHER -> raw
Poke(memory, a, op, v) ==
    [b \in DOMAIN memory \cup {a} |->
        IF b # a THEN memory[b] ELSE [n |-> SizeOf(op), v |-> IF op = \h39 THEN v ELSE Pattern(v[2], 8 * SizeOf(op))]]

I32Name(op) ==
    CASE op = \h6a -> "+" [] op = \h6b -> "-" [] op = \h6c -> "*" [] op = \h6d -> "/" [] op = \h6f -> "%"
      [] op = \h46 -> "==" [] op = \h47 -> "!=" [] op = \h48 -> "<" [] op = \h4a -> ">" [] op = \h4c -> "<=" [] op = \h4e -> ">="
F64Name(op) ==
    CASE op = \ha0 -> "+" [] op = \ha1 -> "-" [] op = \ha2 -> "*" [] op = \ha3 -> "/"
      [] op = \h61 -> "==" [] op = \h62 -> "!=" [] op = \h63 -> "<" [] op = \h64 -> ">" [] op = \h65 -> "<=" [] op = \h66 -> ">="
\* and, or of two patterns, bit by bit.
RECURSIVE Bitwise2(_, _, _)
Bitwise2(and, a, b) ==
    IF a = 0 /\ b = 0 THEN 0
    ELSE 2 * Bitwise2(and, a \div 2, b \div 2) + (IF and THEN (a % 2) * (b % 2) ELSE IF (a % 2) + (b % 2) > 0 THEN 1 ELSE 0)
I32Result(op, x, y) ==
    CASE op \in {\h71, \h72} -> <<"b", Bitwise2(op = \h71, x[2], y[2])>>
      [] op \in \h46..\h4e -> <<"b", Compared(I32Name(op), AsSigned(x, 32), AsSigned(y, 32))>>
      [] OTHER -> IntOp(<<I32Name(op), "s">>, x, y, 32)

Trap(s) == [s EXCEPT !.how = "trap"]
Pops(s, n) == [s EXCEPT !.stack = SubSeq(@, 1, Len(@) - n)]
Pushes(s, v) == [s EXCEPT !.stack = Append(@, v)]
\* The host's printf: the only format is %d with a newline.
HostPrintf(s, args) ==
    LET text == [k \in 1..args[2][2] |-> s.memory[args[1][2] + k - 1].v[2]]
    IN  IF text = <<37, 100, 10>> /\ args[4][2] = 1 THEN [s EXCEPT !.out = Append(@, AsSigned(Peek(s.memory, args[3][2], \h28), 32))]
        ELSE Trap(s)

RECURSIVE RunCode(_, _)
Left(s) == [s EXCEPT !.br = @ - 1]
RECURSIVE RunLoop(_, _)
RunLoop(code, s) ==
    LET t == RunCode(code, s)
    IN  IF t.how # "" THEN t ELSE IF t.br = 0 THEN RunLoop(code, Left(t)) ELSE IF t.br > 0 THEN Left(t) ELSE t
RunBlock(code, s) == LET t == RunCode(code, s) IN IF t.br >= 0 THEN Left(t) ELSE t
RunOne(ins, s) ==
    LET x == s.stack[Len(s.stack)]
        y == s.stack[Len(s.stack) - 1]
        one == Pops(s, 1)
        two == Pops(s, 2)
        n == SizeOf(ins.op)
    IN  CASE ins.op = \h41 -> Pushes(s, Pattern(ins.arg, 32))
          [] ins.op = \h44 -> Pushes(s, <<"f", ins.arg>>)
          [] ins.op = \h20 -> Pushes(s, s.locals[ins.arg + 1])
          [] ins.op = \h21 -> [one EXCEPT !.locals[ins.arg + 1] = x]
          [] ins.op = \h45 -> Pushes(one, <<"b", Flag(x[2] = 0)>>)
          [] ins.op \in {\h6d, \h6f} -> IF x[2] = 0 THEN Trap(s) ELSE Pushes(two, I32Result(ins.op, y, x))
          [] ins.op \in (\h46..\h4f \cup \h6a..\h72) \ {\h6d, \h6f} -> Pushes(two, I32Result(ins.op, y, x))
          [] ins.op \in \h61..\h66 -> Pushes(two, <<"b", FloatCmp(F64Name(ins.op), y[2], x[2])>>)
          [] ins.op \in \ha0..\ha3 -> Pushes(two, <<"f", FloatOp(F64Name(ins.op), y[2], x[2])>>)
          [] ins.op = \hb7 -> Pushes(one, <<"f", <<AsSigned(x, 32), 1>>>>)
          [] ins.op \in \h28..\h2f -> IF Cut(s.memory, x[2], n) THEN Trap(s) ELSE Pushes(one, Peek(s.memory, x[2], ins.op))
          [] ins.op \in \h36..\h3b -> IF Cut(s.memory, y[2], n) THEN Trap(s) ELSE [two EXCEPT !.memory = Poke(@, y[2], ins.op, x)]
          [] ins.op = \h10 -> HostPrintf(Pops(s, 4), SubSeq(s.stack, Len(s.stack) - 3, Len(s.stack)))
          [] ins.op = \h0c -> [s EXCEPT !.br = ins.arg]
          [] ins.op = \h0d -> IF x[2] # 0 THEN [one EXCEPT !.br = ins.arg] ELSE one
          [] ins.op = 2 -> RunBlock(ins.a, s)
          [] ins.op = 3 -> RunLoop(ins.a, s)
          [] ins.op = 4 -> RunBlock(IF x[2] # 0 THEN ins.a ELSE ins.b, one)
RunCode(code, s) ==
    LET half == Len(code) \div 2
    IN  CASE code = <<>> \/ s.br >= 0 \/ s.how # "" -> s
          [] Len(code) = 1 /\ s.br < 0 /\ s.how = "" -> RunOne(code[1], s)
          [] OTHER -> RunCode(SubSeq(code, half + 1, Len(code)), RunCode(SubSeq(code, 1, half), s))

\* Locals are zero, the string pool is in place.
Instantiated(m) ==
    LET d == m.data[1]
    IN  [stack |-> <<>>, br |-> -1, how |-> "", out |-> <<>>,
         locals |-> [k \in DOMAIN m.func.locals |-> IF m.func.locals[k] = D THEN <<"f", <<0, 1>>>> ELSE <<"b", 0>>],
         memory |-> IF m.data = <<>> THEN Nowhere
                    ELSE [a \in d.at..d.at + Len(d.bytes) - 1 |-> [n |-> 1, v |-> <<"b", d.bytes[a - d.at + 1]>>]]]
\* The engine runs _start to its end.
WasmRun(bs) == LET m == Module(bs) IN RunCode(m.func.code, Instantiated(m))
=============================================================================
