---------------------------- MODULE LlvmMachine ----------------------------
(***************************************************************************)
(* What LLVM makes of the module codegen writes: the verifier's typing     *)
(* rules, and the run of the program one instruction at a time. Integers   *)
(* are bit patterns, <<"b", 0..2^w - 1>>, with the widths 8, 16, 32 and 64 *)
(* scaled down by Bits; floats are rationals <<"f", <<n, d>>>>; a pointer  *)
(* is a cell number <<"p", a>>. A slot's cells hold whatever was there.    *)
(***************************************************************************)
EXTENDS Numbers, SequencesExt

CONSTANTS Garbage,  \* what an uninitialised cell may hold
          MaxCells  \* the stack

VARIABLES ir,      \* function name -> its code
          frames,  \* the calls under way: function, next instruction, registers, first cell
          mem,     \* the cells of the stack
          out,     \* what was shown
          status   \* "idle", "running", "done", "aborted" or "trap"
machine == <<frames, mem, out, status>>

-----------------------------------------------------------------------------
(* The verifier: every operand has the type its instruction writes.        *)

ResultType(ins) ==
    CASE ins.i \in {"load", "bin", "divmod", "select", "call"} -> ins.ty
      [] ins.i \in {"icmp", "fcmp"} -> I(1)
      [] ins.i = "conv" -> ins.to
      [] ins.i = "gep" -> Ptr
      [] ins.i = "guard" -> I32
Uses(ins) ==
    CASE ins.i = "load" -> <<<<ins.p, Ptr>>>>
      [] ins.i = "store" -> <<<<ins.v, ins.ty>>, <<ins.p, Ptr>>>>
      [] ins.i \in {"bin", "divmod", "icmp", "fcmp"} -> <<<<ins.a, ins.ty>>, <<ins.b, ins.ty>>>>
      [] ins.i = "conv" -> <<<<ins.v, ins.from>>>>
      [] ins.i = "gep" -> <<<<ins.p, Ptr>>, <<ins.ix, I64>>>>
      [] ins.i = "guard" -> <<<<ins.len, I32>>, <<ins.v, I32>>>>
      [] ins.i = "select" -> <<<<ins.c, I(1)>>, <<ins.a, ins.ty>>, <<ins.b, ins.ty>>>>
      [] ins.i = "call" -> [k \in DOMAIN ins.args |-> <<ins.args[k], ins.tys[k]>>]
      [] ins.i = "br" -> <<<<ins.c, I(1)>>>>
      [] ins.i \in {"show", "ret"} -> <<<<ins.v, ins.ty>>>>
      [] OTHER -> <<>>
Defines(ins) == "r" \in DOMAIN ins
\* The type of each register of a function, parameters and slots first.
RegisterTypes(fn) ==
    LET slots == {s.r : s \in Range(fn.slots)}
        defs == {k \in DOMAIN fn.code : Defines(fn.code[k])}
    IN  [r \in (0..Len(fn.params) - 1) \cup slots \cup {fn.code[k].r : k \in defs} |->
            IF r < Len(fn.params) THEN fn.params[r + 1]
            ELSE IF r \in slots THEN Ptr
            ELSE ResultType(fn.code[CHOOSE k \in defs : fn.code[k].r = r])]
OperandOk(op, ty, regs) ==
    CASE op[1] = "const" -> ty[1] = "i"
      [] op[1] = "fconst" -> ty = F32
      [] op[1] = "reg" -> op[2] \in DOMAIN regs /\ regs[op[2]] = ty
ConvOk(ins) ==
    CASE ins.how = "trunc" -> ins.from[2] > ins.to[2]
      [] ins.how \in {"sext", "zext"} -> ins.from[2] < ins.to[2]
      [] OTHER -> TRUE
Targets(ins) == CASE ins.i = "jmp" -> {ins.l} [] ins.i = "br" -> {ins.a, ins.b} [] OTHER -> {}
Labels(fn) == {fn.code[k].l : k \in {j \in DOMAIN fn.code : fn.code[j].i = "label"}}
FuncVerifies(fn, all) ==
    LET regs == RegisterTypes(fn)
    IN  \A k \in DOMAIN fn.code :
           LET ins == fn.code[k]
           IN  /\ \A j \in DOMAIN Uses(ins) : OperandOk(Uses(ins)[j][1], Uses(ins)[j][2], regs)
               /\ Targets(ins) \subseteq Labels(fn)
               /\ ins.i = "conv" => ConvOk(ins)
               /\ ins.i = "call" => ins.tys = all[ins.f].params /\ ins.ty = all[ins.f].ret
               /\ ins.i = "ret" => ins.ty = fn.ret

-----------------------------------------------------------------------------
(* Values *)

Mod(w) == 2 ^ Bits[w]
Pattern(v, w) == <<"b", v % Mod(w)>>
AsSigned(v, w) == IF v[2] * 2 >= Mod(w) THEN v[2] - Mod(w) ELSE v[2]
AsNumber(v, w, sign) == IF sign = "s" THEN AsSigned(v, w) ELSE v[2]
Rational(n, d) == IF d < 0 THEN <<-n, -d>> ELSE <<n, d>>

FloatOp(op, a, b) ==
    CASE op = "+" -> Rational(a[1] * b[2] + b[1] * a[2], a[2] * b[2])
      [] op = "-" -> Rational(a[1] * b[2] - b[1] * a[2], a[2] * b[2])
      [] op = "*" -> Rational(a[1] * b[1], a[2] * b[2])
      [] op = "/" -> IF b[1] = 0 THEN <<0, 1>> ELSE Rational(a[1] * b[2], a[2] * b[1])
FloatCmp(op, a, b) == Compared(op, a[1] * b[2], b[1] * a[2])

Value(op, ty, regs) ==
    CASE op[1] = "const" -> Pattern(op[2], ty[2])
      [] op[1] = "fconst" -> <<"f", op[2]>>
      [] op[1] = "reg" -> regs[op[2]]

IntOp(op, a, b, w) == Pattern(Calculated(op[1], AsNumber(a, w, op[2]), AsNumber(b, w, op[2])), w)

Converted(ins, v) ==
    CASE ins.how \in {"trunc", "zext"} -> Pattern(v[2], ins.to[2])
      [] ins.how = "sext" -> Pattern(AsSigned(v, ins.from[2]), ins.to[2])
      [] ins.how = "sitofp" -> <<"f", <<AsSigned(v, ins.from[2]), 1>>>>
      [] ins.how = "fptosi" -> Pattern(Quot(v[2][1], v[2][2]), ins.to[2])

\* A store of a narrow integer leaves the cell's other bits.
Stored(old, ty, v) ==
    IF ty[1] = "i" /\ old[1] = "b" THEN <<"b", old[2] - (old[2] % Mod(ty[2])) + v[2]>> ELSE v
Loaded(cell, ty) ==
    CASE ty = F32 -> IF cell[1] = "f" THEN cell ELSE <<"f", <<cell[2], 1>>>>
      [] ty = Ptr -> cell
      [] OTHER -> IF cell[1] = "b" THEN Pattern(cell[2], ty[2]) ELSE <<"b", 0>>

\* The core policies abort and clamp.
OutOfRange(len, v) == AsSigned(v, 32) < 0 \/ AsSigned(v, 32) >= AsSigned(len, 32)
Clamped(len, v) ==
    LET i == AsSigned(v, 32)
        n == AsSigned(len, 32)
        low == IF i < 0 THEN 0 ELSE i
    IN  Pattern(IF low >= n THEN n - 1 ELSE low, 32)

-----------------------------------------------------------------------------
(* One instruction *)

Top == Last(frames)
Code == ir[Top.f].code
Ins == Code[Top.pc]
At(op, ty) == Value(op, ty, Top.regs)
LabelAt(l) == CHOOSE k \in DOMAIN Code : Code[k].i = "label" /\ Code[k].l = l
Goto(pc) == frames' = [frames EXCEPT ![Len(frames)].pc = pc]
Yields(v) == frames' = [frames EXCEPT ![Len(frames)].pc = @ + 1, ![Len(frames)].regs[Ins.r] = v]
Stops(how) == status' = how /\ UNCHANGED <<frames, mem, out>>
Frame(f, args, base) ==
    LET fn == ir[f]
        before(k) == FoldLeft(LAMBDA n, s : n + s.cells, 0, SubSeq(fn.slots, 1, k - 1))
    IN  [f |-> f, pc |-> 1, base |-> base,
         regs |-> [r \in 0..fn.n |->
                     IF r < Len(args) THEN args[r + 1]
                     ELSE IF \E k \in DOMAIN fn.slots : fn.slots[k].r = r
                     THEN <<"p", base + before(CHOOSE k \in DOMAIN fn.slots : fn.slots[k].r = r)>>
                     ELSE <<"b", 0>>]]
Cells(f) == FoldLeft(LAMBDA n, s : n + s.cells, 0, ir[f].slots)
\* The frame's cells hold one leftover value each run.
Enlarged(f, g) == mem \o [k \in 1..Cells(f) |-> <<"b", g>>]

\* What ends the program at an instruction: an access outside the stack, a
\* division by zero no policy guards, a stack overflow, a block nothing
\* should reach; or the abort policy of a system.
Fault ==
    CASE Ins.i = "unreachable" -> "trap"
      [] Ins.i = "bin" /\ Ins.ty # F32 /\ Ins.op[1] \in {"/", "%"} -> IF At(Ins.b, Ins.ty)[2] = 0 THEN "trap" ELSE "none"
      [] Ins.i \in {"load", "store"} -> IF At(Ins.p, Ptr)[2] \in DOMAIN mem THEN "none" ELSE "trap"
      [] Ins.i = "call" -> IF Len(mem) + Cells(Ins.f) <= MaxCells THEN "none" ELSE "trap"
      [] Ins.i = "divmod" -> IF At(Ins.b, I32)[2] = 0 /\ ~Ins.total THEN "aborted" ELSE "none"
      [] Ins.i = "guard" -> IF OutOfRange(At(Ins.len, I32), At(Ins.v, I32)) /\ ~Ins.total THEN "aborted" ELSE "none"
      [] OTHER -> "none"

IntCompare ==
    <<"b", Compared(Ins.op[1], AsNumber(At(Ins.a, Ins.ty), Ins.ty[2], Ins.op[2]), AsNumber(At(Ins.b, Ins.ty), Ins.ty[2], Ins.op[2]))>>
\* The result of an instruction that only defines a register; divmod and
\* guard carry the policies zero and clamp that a func inlines.
Computed ==
    CASE Ins.i = "bin" -> IF Ins.ty = F32 THEN <<"f", FloatOp(Ins.op[1], At(Ins.a, F32)[2], At(Ins.b, F32)[2])>>
                          ELSE IntOp(Ins.op, At(Ins.a, Ins.ty), At(Ins.b, Ins.ty), Ins.ty[2])
      [] Ins.i = "divmod" -> IF At(Ins.b, I32)[2] = 0 THEN Pattern(0, 32)
                             ELSE IntOp(Ins.op, At(Ins.a, I32), At(Ins.b, I32), 32)
      [] Ins.i = "guard" -> LET len == At(Ins.len, I32)
                                v == At(Ins.v, I32)
                            IN  IF OutOfRange(len, v) THEN Clamped(len, v) ELSE v
      [] Ins.i = "icmp" -> IntCompare
      [] Ins.i = "fcmp" -> <<"b", FloatCmp(Ins.op[1], At(Ins.a, F32)[2], At(Ins.b, F32)[2])>>
      [] Ins.i = "conv" -> Converted(Ins, At(Ins.v, Ins.from))
      [] Ins.i = "gep" -> <<"p", At(Ins.p, Ptr)[2] + AsSigned(At(Ins.ix, I64), 64)>>
      [] Ins.i = "select" -> At(IF At(Ins.c, I(1))[2] # 0 THEN Ins.a ELSE Ins.b, Ins.ty)
      [] Ins.i = "load" -> Loaded(mem[At(Ins.p, Ptr)[2]], Ins.ty)

Compute == Defines(Ins) /\ Ins.i # "call" /\ Yields(Computed) /\ UNCHANGED <<mem, out, status>>
Jumps ==
    /\ Ins.i \in {"label", "jmp", "br"}
    /\ Goto(CASE Ins.i = "label" -> Top.pc + 1
              [] Ins.i = "jmp" -> LabelAt(Ins.l)
              [] Ins.i = "br" -> LabelAt(IF At(Ins.c, I(1))[2] # 0 THEN Ins.a ELSE Ins.b))
    /\ UNCHANGED <<mem, out, status>>
Stores ==
    /\ Ins.i = "store" /\ Goto(Top.pc + 1)
    /\ mem' = [mem EXCEPT ![At(Ins.p, Ptr)[2]] = Stored(@, Ins.ty, At(Ins.v, Ins.ty))]
    /\ UNCHANGED <<out, status>>
Shows ==
    /\ Ins.i = "show" /\ Goto(Top.pc + 1)
    /\ out' = Append(out, AsSigned(At(Ins.v, I32), 32)) /\ UNCHANGED <<mem, status>>
Calls ==
    /\ Ins.i = "call"
    /\ frames' = Append(frames, Frame(Ins.f, [k \in DOMAIN Ins.args |-> At(Ins.args[k], Ins.tys[k])], Len(mem) + 1))
    /\ \E g \in Garbage : mem' = Enlarged(Ins.f, g)
    /\ UNCHANGED <<out, status>>
Returns ==
    /\ Ins.i = "ret"
    /\ mem' = SubSeq(mem, 1, Top.base - 1)
    /\ IF Len(frames) = 1 THEN frames' = <<>> /\ status' = "done"
       ELSE LET n == Len(frames) - 1
                call == ir[frames[n].f].code[frames[n].pc]
            IN  /\ frames' = [SubSeq(frames, 1, n) EXCEPT ![n].pc = @ + 1, ![n].regs[call.r] = At(Ins.v, Ins.ty)]
                /\ UNCHANGED status
    /\ UNCHANGED out

Start ==
    /\ status = "idle" /\ status' = "running"
    /\ \E g \in Garbage : mem' = Enlarged("main", g)
    /\ frames' = <<Frame("main", <<>>, 1)>>
    /\ UNCHANGED out
Execute ==
    /\ status = "running"
    /\ IF Fault = "none" THEN Compute \/ Jumps \/ Stores \/ Shows \/ Calls \/ Returns ELSE Stops(Fault)
=============================================================================
