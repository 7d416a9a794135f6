----------------------------- MODULE CompileRun -----------------------------
(***************************************************************************)
(* A program through the compiler and to its end: checked (Typing),        *)
(* lowered (Lowering), generated (LlvmCodegen, WasmCodegen)                *)
(* and run (LlvmMachine; WasmMachine), compared with what its text says    *)
(* (SourceMeaning).                                                        *)
(***************************************************************************)
EXTENDS LlvmMachine

CONSTANTS
    Programs,
    \* The passes: whether the program may be compiled (Typing), its HIR
    \* (Lowering), the module of each backend (LlvmCodegen, WasmCodegen).
    Checks(_), Lowers(_), Emits(_, _), EmitsWasm(_, _),
    \* A wasm engine: whether it takes a module, and what its run shows
    \* (WasmMachine); what the program's text says (SourceMeaning).
    WasmValid(_), WasmRuns(_), Says(_)

VARIABLES
    prog,    \* the program
    hir,     \* the program lowered
    stage    \* "parsed", "rejected", "checked", "lowered", "generated"

vars == <<prog, hir, ir, stage, machine>>

Nil == "none"
Init ==
    /\ prog \in Programs /\ stage = "parsed"
    /\ hir = Nil /\ ir = Nil
    /\ frames = <<>> /\ mem = <<>> /\ out = <<>> /\ status = "idle"

Check ==
    /\ stage = "parsed" /\ stage' = IF Checks(prog) THEN "checked" ELSE "rejected"
    /\ UNCHANGED <<prog, hir, ir, machine>>
Lower ==
    /\ stage = "checked" /\ stage' = "lowered"
    /\ hir' = Lowers(prog)
    /\ UNCHANGED <<prog, ir, machine>>
Generate ==
    /\ stage = "lowered" /\ stage' = "generated"
    /\ ir' = IF prog.wasm THEN EmitsWasm(prog, hir) ELSE Emits(prog, hir)
    /\ UNCHANGED <<prog, hir, machine>>
Native == stage = "generated" /\ ~prog.wasm /\ UNCHANGED <<prog, hir, ir, stage>>
Started == Native /\ Start
Running == Native /\ Execute
\* The engine runs _start to its end.
RunsOnWasm ==
    /\ stage = "generated" /\ prog.wasm /\ status = "idle"
    /\ LET s == WasmRuns(ir) IN out' = s.out /\ status' = IF s.how = "" THEN "done" ELSE s.how
    /\ UNCHANGED <<prog, hir, ir, stage, frames, mem>>
Ended ==
    /\ stage = "rejected" \/ status \in {"done", "aborted", "trap"}
    /\ UNCHANGED vars

Next == Check \/ Lower \/ Generate \/ Started \/ Running \/ RunsOnWasm \/ Ended
Spec == Init /\ [][Next]_vars

-----------------------------------------------------------------------------
\* What is generated from a program that passed the checks is a module the
\* LLVM verifier or the wasm engine accepts: every operand has the type its
\* instruction names.
IrVerifies ==
    stage = "generated" /\ status = "idle" =>
        IF prog.wasm THEN WasmValid(ir) ELSE \A f \in DOMAIN ir : FuncVerifies(ir[f], ir)

\* The compiled program shows what its text says and ends as it says,
\* whatever its uninitialised slots held.
PrintsWhatItSays ==
    status \in {"done", "aborted", "trap"} => out = Says(prog).out /\ status = IF Says(prog).aborts THEN "aborted" ELSE "done"

-----------------------------------------------------------------------------
(***************************************************************************)
(* The instance: the passes, and the programs that are compiled.            *)
(***************************************************************************)
BackingDef == [Level |-> "u8", Meters |-> "float"]
BitsDef == [w \in {1, 8, 16, 32, 64} |-> CASE w = 1 -> 1 [] w = 8 -> 3 [] w = 16 -> 4 [] w = 32 -> 13 [] w = 64 -> 15]
\* The folder follows two calls; the wasm backend's memory has regions of a
\* few cells.
Passes(p) == INSTANCE Lowering WITH prog <- p, Backing <- BackingDef, CtfeDepth <- 2
Llvm(p, h) == INSTANCE LlvmCodegen WITH prog <- p, hir <- h, Backing <- BackingDef, CtfeDepth <- 2
Wasm(p, h) == INSTANCE WasmCodegen WITH prog <- p, hir <- h, Backing <- BackingDef, CtfeDepth <- 2,
                                        ArgsBase <- 64, StringsBase <- 80, ArraysBase <- 256
Engine == INSTANCE WasmMachine
Meaning(p) == INSTANCE SourceMeaning WITH prog <- p, Backing <- BackingDef, CtfeDepth <- 2
MCChecks(p) == LET ok == Passes(p)!register_consts /\ Passes(p)!tycheck_run IN ok
MCLowers(p) == LET h == Passes(p)!lower_program IN h
MCEmits(p, h) == LET module == Llvm(p, h)!codegen_program IN module
MCEmitsWasm(p, h) == LET module == Wasm(p, h)!wasmgen_generate IN module
MCWasmValid(bytes) == LET ok == Engine!WasmVerifies(bytes) IN ok
MCWasmRuns(bytes) == LET end == Engine!WasmRun(bytes) IN end
MCSays(p) == LET said == Meaning(p)!Said IN said

Unknown == <<"unknown">>

Lit(v) == [t |-> "int", v |-> v]
Flt(n, d) == [t |-> "flt", q |-> <<n, d>>]
Chr(v) == [t |-> "chr", v |-> v]
V(x) == [t |-> "name", x |-> x]
Op(op, l, r) == [t |-> "bin", op |-> op, l |-> l, r |-> r]
Un(op, e) == [t |-> "un", op |-> op, e |-> e]
Par(e) == [t |-> "par", e |-> e]
Idx(x, i) == [t |-> "idx", x |-> x, i |-> i]
Length(x) == [t |-> "len", x |-> x]
Sub(x, lo, hi) == [t |-> "slice", x |-> x, lo |-> lo, hi |-> hi]
CallOf(f, args) == [t |-> "call", f |-> f, args |-> args]
Bind(x, e) == [k |-> "bind", x |-> x, ty |-> Unknown, e |-> e]
Typed(x, ty, e) == [k |-> "bind", x |-> x, ty |-> <<ty>>, e |-> e]
Array(x, ty, es) == [k |-> "array", x |-> x, n |-> Len(es), ty |-> ty, es |-> es]
Set(x, op, e) == [k |-> "set", x |-> x, op |-> op, e |-> e]
PutAt(x, i, e) == [k |-> "put", x |-> x, i |-> i, op |-> "", e |-> e]
ShowIt(e) == [k |-> "show", e |-> e]
Ret(e) == [k |-> "return", e |-> e]
If(c, a, b) == [k |-> "if", c |-> c, a |-> a, b |-> b]
For(x, lo, c, a) == [k |-> "for", first |-> Bind(x, lo), c |-> c, step |-> Set(x, "+", Lit(1)), a |-> a]
Loop(c, a) == [k |-> "loop", c |-> c, a |-> a]
Block(a) == [k |-> "block", a |-> a]
Match(e, arms) == [k |-> "match", e |-> e, tmp |-> "tmp", arms |-> arms]
Arm(v, a) == [p |-> <<"lit", v>>, a |-> a]
Else(a) == [p |-> <<"_">>, a |-> a]
Ctl(k) == [k |-> k]
NoNames == [x \in {} |-> 0]
Func(ps, ret, body) == [params |-> ps, ret |-> ret, body |-> body]
Main(ss) == [wasm |-> FALSE, consts |-> NoNames, order |-> <<>>, funcs |-> NoNames, main |-> ss]
With(f, fn, ss) == [wasm |-> FALSE, consts |-> NoNames, order |-> <<>>, funcs |-> [g \in {f} |-> fn], main |-> ss]

-----------------------------------------------------------------------------
\* Expressions over one set of names: ints a and c (negative), a byte b, an
\* i64 w, a float q, an array arr, a byte array bytes, a slice s, a constant K.
Ints == {V("a"), V("c"), Lit(0), V("K"), Idx("s", V("a")), Length("s"), CallOf("f", <<V("c"), V("b")>>)}
Bytes == {V("b"), Idx("bytes", V("a"))}
\* Not among them, because codegen and the language part there (README): an
\* arithmetic of two narrow names, a sign-sensitive operator whose first
\* integer operand is unsigned and its other one negative, a division by
\* zero of another width than 32, an unsigned made a float, a float beside a narrow or wide integer.
Plain == {Op(op, l, r) : op \in Arithmetic \cup {"<", "==", "&&", "||"}, l \in Ints, r \in Ints}
    \cup {Op(op, l, r) : op \in {"+", "-", "*", "/", "<", "=="}, l \in Ints, r \in Bytes}
    \cup {Op(op, r, l) : op \in {"+", "*", "==", "&&"}, l \in Ints, r \in Bytes}
    \cup {Op(op, r, l) : op \in {"/", "%", "<", ">="}, l \in {V("a"), Length("s")}, r \in Bytes}
Wide == {Op(op, V("w"), x) : op \in {"+", "-", "*", "<", "=="}, x \in Ints \cup Bytes}
    \cup {Op(op, x, V("w")) : op \in {"+", "/", ">="}, x \in Ints}
Floating == {Op(op, V("q"), x) : op \in {"+", "-", "*", "/", "<", "=="}, x \in Ints \cup {V("q"), Flt(1, 2)}}
    \cup {Op(op, x, V("q")) : op \in {"+", "/", ">"}, x \in Ints}
Unary == {Un(op, x) : op \in {"-", "!"}, x \in Ints} \cup {Un("!", V("b")), Un("-", V("q")), Un("-", Par(Op("+", V("a"), V("c"))))}
Casts == {CallOf(t, <<x>>) : t \in {"u8", "i8", "i64", "int", "Level", "float"}, x \in (Ints \ {Lit(0), V("K")}) \cup {V("q"), V("w")}}
    \cup {CallOf(t, <<V("b")>>) : t \in {"i8", "i64", "int", "Level"}}
Selects == {CallOf("select", <<Op("<", x, V("a")), x, V("K")>>) : x \in Ints}
Deep == {Op("+", Op("*", V("a"), x), Par(Op("-", x, V("c")))) : x \in Ints \cup Bytes}
    \cup {Op("&&", Op("<", V("c"), x), Op("/", V("a"), x)) : x \in Ints}
Shown == Plain \cup Wide \cup Unary \cup Casts \cup Selects \cup Deep \cup Floating

F == Func(<<<<"m", <<"int">>>>, <<"k", <<"u8">>>>>>, <<"int">>, <<Ret(Op("%", V("m"), V("k")))>>)
Locals_(a) == <<Bind("a", Lit(a)), Bind("c", Un("-", Lit(2))), Typed("b", "u8", Lit(5)), Typed("w", "i64", Lit(20)),
             Bind("q", Flt(3, 2)), Array("arr", "int", <<Lit(4), Lit(9), Lit(7)>>), Array("bytes", "u8", <<Lit(6), Lit(1), Lit(3)>>),
             Bind("s", Sub("arr", Lit(1), Lit(3)))>>
Consts(e) == [x \in {"K"} |-> e]
InMain(e, a) == [wasm |-> FALSE, consts |-> Consts(Lit(3)), order |-> <<"K">>, funcs |-> [g \in {"f"} |-> F], main |-> Locals_(a) \o <<ShowIt(CallOf("int", <<e>>))>>]
\* The same in a func, over parameters: pointer and length, or a register.
G(e) == Func(<<<<"a", <<"int">>>>, <<"c", <<"int">>>>, <<"b", <<"u8">>>>, <<"w", <<"i64">>>>, <<"q", <<"float">>>>,
               <<"s", <<"slice", "int">>>>, <<"bytes", <<"slice", "u8">>>>>>, <<"int">>, <<Ret(CallOf("int", <<e>>))>>)
InFunc(e, a) ==
    [wasm |-> FALSE, consts |-> Consts(Op("+", Lit(1), Lit(2))), order |-> <<"K">>, funcs |-> [g \in {"f", "g"} |-> IF g = "f" THEN F ELSE G(e)],
     main |-> Locals_(a) \o <<ShowIt(CallOf("g", <<V("a"), V("c"), V("b"), V("w"), V("q"), Sub("arr", Lit(0), V("a")), V("bytes")>>))>>]
Expressions == {InMain(e, 1) : e \in Shown} \cup {InFunc(e, 2) : e \in Shown}

-----------------------------------------------------------------------------
\* Statements over an int x, a byte b, an array arr and a view s of it. A
\* body binds no name that is already bound, a compound assignment and an
\* element keep the width of their target.
Simple == {Set("x", "", Op("+", V("x"), Lit(3))), Set("x", "*", Lit(3)), Set("x", "/", V("n")), Set("x", "%", Lit(4)),
           Set("x", "", V("b")), Set("b", "", V("x")), Set("b", "-", Lit(6)), Set("x", "", Idx("s", V("n"))),
           PutAt("arr", V("n"), V("x")), PutAt("bytes", Lit(1), V("x")), Set("q", "", Op("*", V("q"), V("x"))), Set("w", "+", Lit(9)),
           Set("w", "", V("x")), Set("x", "", V("w")), Set("x", "", CallOf("int", <<V("q")>>))}
Nesting == {If(Op("<", V("x"), V("n")), <<t>>, <<u>>) : t \in Simple, u \in {Set("x", "-", Lit(1)), Bind("y", Lit(4))}}
    \cup {Block(<<Bind("y", V("x")), Set("y", "+", V("n")), Set("x", "", V("y"))>>)}
    \cup {Match(V("x"), <<Arm(2, <<Set("x", "", Lit(7))>>), Arm(v, <<t>>), Else(<<Set("x", "+", Lit(1))>>)>>) :
             v \in {2, 5}, t \in Simple}
    \cup {For("i", Lit(0), Op("<", V("i"), Lit(3)), body) :
             body \in {<<t>> : t \in Simple} \cup
                      {<<If(Op("==", V("i"), Lit(1)), <<Ctl(j)>>, <<>>), Set("x", "+", V("i"))>> : j \in {"break", "continue"}}}
    \cup {For("i", Lit(0), Op("<", V("i"), Lit(2)),
              <<For("j", V("i"), Op("<", V("j"), Lit(3)),
                    <<If(Op("==", V("j"), Lit(1)), <<Ctl(k)>>, <<Set("x", "+", Lit(1))>>)>>), Set("x", "+", V("i"))>>) :
             k \in {"break", "continue"}}
    \cup {Loop(Op(">", V("x"), Lit(0)), <<Set("x", "-", Lit(2)), If(Op("==", V("x"), Lit(1)), <<Ctl(j)>>, <<>>)>>) :
             j \in {"break", "continue"}}
    \cup {Loop(V("b"), <<Bind("x", V("b")), Set("b", "/", Lit(2)), Set("x", "+", Lit(1))>>)}
Ends == <<ShowIt(V("x")), ShowIt(V("b")), ShowIt(Idx("arr", Lit(1))), ShowIt(Idx("bytes", Lit(1))), ShowIt(CallOf("int", <<V("q")>>)), ShowIt(V("w"))>>
Starts(n) == <<Bind("x", Lit(4)), Bind("n", Lit(n)), Typed("b", "u8", Lit(5)), Typed("w", "i64", Lit(20)), Bind("q", Flt(3, 2)),
               Array("arr", "int", <<Lit(4), Lit(9), Lit(7)>>), Array("bytes", "u8", <<Lit(6), Lit(2)>>), Bind("s", Sub("arr", Lit(0), Lit(2)))>>
Bodies == {<<s>> : s \in Simple \cup Nesting} \cup {<<s, t>> : s \in {Set("b", "-", Lit(6)), Set("x", "", V("b"))}, t \in Nesting}
InSystem(b, n) == Main(Starts(n) \o b \o Ends)
InFunction(b, n) ==
    With("g", Func(<<<<"n", <<"int">>>>>>, <<"int">>,
                   Starts(n) \o b \o <<If(Op("<", V("x"), V("b")), <<Ret(Op("-", V("x"), V("b")))>>, <<>>), Ret(V("x"))>>),
         <<Bind("r", CallOf("g", <<Lit(n)>>)), ShowIt(V("r"))>>)
Statements == {InSystem(b, 1) : b \in Bodies} \cup {InFunction(b, 1) : b \in Bodies}
    \cup {InSystem(<<s>>, n) : s \in Simple \cup Nesting, n \in {0, 3}} \cup {InFunction(<<s>>, n) : s \in Simple \cup Nesting, n \in {0, 3}}

\* Constants folded over pure functions, shown beside their expressions.
Twice == Func(<<<<"n", <<"int">>>>>>, <<"int">>, <<Ret(Op("*", V("n"), Lit(2)))>>)
Next_ == Func(<<<<"n", <<"int">>>>>>, <<"int">>, <<Bind("m", Op("+", V("n"), Lit(1))), Ret(CallOf("twice", <<V("m")>>))>>)
Less == Func(<<<<"m", <<"int">>>>, <<"n", <<"int">>>>>>, <<"int">>, <<Ret(Op("-", V("n"), V("m")))>>)
FoldAtoms == {Lit(3), Un("-", Lit(2)), V("J"), CallOf("twice", <<V("J")>>), CallOf("next", <<Lit(1)>>)}
Folds_ == FoldAtoms \cup {Op(op, l, r) : op \in Arithmetic \cup {"<", "=="}, l \in FoldAtoms, r \in FoldAtoms \cup {Lit(0)}}
    \cup {Op("*", V("J"), Lit(1000)), CallOf("twice", <<Op("*", V("J"), Lit(1000))>>)}
    \cup {CallOf("twice", <<CallOf("twice", <<x>>)>>) : x \in FoldAtoms} \cup {CallOf("less", <<x, Lit(4)>>) : x \in FoldAtoms}
Folded(e, order) ==
    [wasm |-> FALSE, consts |-> [x \in {"J", "K"} |-> IF x = "J" THEN Lit(5) ELSE e], order |-> order,
     funcs |-> [f \in {"twice", "next", "less"} |-> CASE f = "twice" -> Twice [] f = "next" -> Next_ [] f = "less" -> Less],
     main |-> <<ShowIt(V("K")), ShowIt(e)>>]

\* Programs the checks turn away: values that do not fit, jumps outside a
\* loop, an open match, an aggregate operand, a wrong number of arguments.
Wrong == {InSystem(<<t>>, 1) : t \in
             {Set("x", "", V("q")), Typed("y", "int", V("q")), Typed("y", "Meters", V("x")), Ctl("break"), Ctl("continue"), Set("x", "", Op("+", V("arr"), Lit(1))),
              Match(V("x"), <<Arm(4, <<>>)>>), If(V("x"), <<Ctl("break")>>, <<>>), PutAt("arr", Lit(0), V("q"))}}
    \cup {With("g", F, <<ShowIt(CallOf("g", <<Lit(1)>>))>>)}

\* Programs for the wasm backend: it knows no calls, unary operators, slices,
\* blocks or jumps, has no policies, no narrow or wide locals, and takes the
\* operands of && and || to be comparisons (README).
WInts == {V("a"), V("c"), V("K"), Idx("arr", V("a")), Idx("bytes", V("a")), Length("bytes"), Lit(200), Chr(65)}
WTests == {Op("<", V("a"), x) : x \in WInts} \cup {Op("!=", V("q"), V("a")), Op(">=", Idx("fs", V("a")), V("q"))}
WShown == {Op(op, l, r) : op \in Arithmetic \cup Comparing, l \in WInts, r \in WInts}
    \cup {Op(op, l, r) : op \in {"&&", "||"}, l \in WTests, r \in WTests}
    \cup {Op(cmp, Op(op, V("q"), x), Idx("fs", V("a"))) : op \in {"+", "-", "*", "/"}, cmp \in Comparing, x \in WInts \cup {V("P"), Flt(1, 2)}}
    \cup {Op("*", V("c"), Op("-", x, Lit(1900))) : x \in WInts}
WSteps == {Set("x", op, y) : op \in {"", "+", "-", "*", "/", "%"}, y \in {V("a"), Idx("bytes", V("a")), Lit(4000)}}
    \cup {Set("q", op, y) : op \in {"+", "*", "/"}, y \in {V("a"), Flt(1, 2), Idx("fs", Lit(0))}}
    \cup {[PutAt(y, i, e) EXCEPT !.op = op] : op \in {"", "+", "*"}, y \in {"arr", "bytes", "small"}, i \in {V("a"), Lit(0)}, e \in {V("x"), Lit(5)}}
    \cup {[PutAt("fs", V("a"), e) EXCEPT !.op = op] : op \in {"", "-"}, e \in {V("x"), V("q")}}
WNests == {If(Op("<", V("x"), V("a")), <<s>>, <<t>>) : s \in {Set("x", "+", Lit(7))}, t \in WSteps}
    \cup {If(c, <<s>>, <<>>) : c \in WTests, s \in {Set("x", "*", Lit(7))}}
    \cup {For("i", Lit(0), Op("<", V("i"), Length("arr")), <<t, Set("x", "+", V("i"))>>) : t \in WSteps}
    \cup {For("i", Lit(0), Op("<", V("i"), Lit(2)), <<Array("in", "u8", <<V("i"), Lit(3)>>), PutAt("in", Lit(1), V("x")),
              For("j", V("i"), Op("<", V("j"), Lit(3)), <<Set("x", "+", Idx("in", Lit(1)))>>)>>)}
    \cup {Loop(Op(">", V("x"), Lit(0)), <<Set("x", "-", Lit(3)), t>>) : t \in {If(Op("==", V("x"), Lit(1)), <<Bind("y", V("x"))>>, <<>>)}}
WStarts == <<Bind("a", Lit(1)), Bind("c", Op("-", Lit(3), Lit(4))), Bind("x", Lit(6)), Bind("q", Flt(3, 2)),
             Array("bytes", "u8", <<Lit(6), Lit(2), Lit(3)>>), Array("arr", "int", <<Lit(4), Lit(9), V("c")>>),
             Array("small", "i16", <<Lit(3), V("c")>>), Array("fs", "float", <<Lit(2), Lit(5)>>)>>
WEnds == <<ShowIt(V("x"))>> \o [i \in 1..3 |-> ShowIt(Idx("arr", Lit(i - 1)))]
    \o <<ShowIt(Idx("bytes", Lit(0))), ShowIt(Idx("bytes", V("a"))), ShowIt(Idx("small", V("a"))),
         ShowIt(Op("<", V("q"), Lit(9))), ShowIt(Op("<", Idx("fs", Lit(1)), V("q")))>>
OnWasm(ss) == [wasm |-> TRUE, consts |-> [k \in {"K", "P"} |-> IF k = "K" THEN Op("+", Lit(1), Lit(2)) ELSE Flt(7, 4)], order |-> <<"P", "K">>, funcs |-> NoNames, main |-> ss]
Portable == {OnWasm(WStarts \o <<ShowIt(e)>>) : e \in WShown} \cup {OnWasm(WStarts \o <<s>> \o WEnds) : s \in WSteps \cup WNests}

Compiled == Portable \cup Expressions \cup Statements \cup {Folded(e, o) : e \in Folds_, o \in {<<"J", "K">>, <<"K", "J">>}} \cup Wrong

\* A function that assigns to its parameter.
Reassigned == {With("g", Func(<<<<"n", <<"int">>>>>>, <<"int">>, <<Set("n", op, Lit(5)), Ret(V("n"))>>), <<ShowIt(CallOf("g", <<Lit(2)>>))>>) :
                 op \in {"", "+"}}
=============================================================================
