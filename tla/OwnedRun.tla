------------------------------ MODULE OwnedRun ------------------------------
(***************************************************************************)
(* A function from source to execution: the ownership check, the emitted   *)
(* code, and a machine that runs the code on every path. A value is one    *)
(* resource, or the contents of one array; home says which slot owns it.   *)
(***************************************************************************)
EXTENDS DropCodegen

CONSTANTS Heads, Middles, Tails, \* the statements a body is put together from
          Admits(_),    \* the bodies to compile among them
          ParamLists,   \* their parameter lists
          MaxValues,    \* bound: values a run may create
          PoolMayRefuse \* whether an insert may meet a full pool

VARIABLES params, body, phase, code, pc, mem, made, home

vars == <<params, body, phase, code, pc, mem, made, home>>

NoValue == 0
\* Where a value can be once no slot owns it.
Released == 0
Stored == -1
Returned == -2
Lost == -3

Kind(v) == made[v]
Slots == 1..12
Resources == {v \in DOMAIN made : Opaque(made[v])}

Init ==
    /\ params \in ParamLists
    /\ \E h \in Heads, m \in Middles, t \in Tails : body = h \o <<m>> \o t /\ Admits(body)
    /\ phase = "source" /\ code = <<>> /\ pc = 0
    /\ mem = [s \in Slots |-> NoValue] /\ made = <<>> /\ home = <<>>

\* The caller passes a value for every parameter; what it lends stays its own.
Compile ==
    /\ phase = "source"
    /\ IF Errors(params, body) # {}
       THEN phase' = "rejected" /\ UNCHANGED <<code, pc, mem, made, home>>
       ELSE /\ phase' = "running"
            /\ code' = codegen_proc_decl(params, body)
            /\ pc' = 1
            /\ made' = [i \in DOMAIN params |-> params[i].kind]
            /\ home' = [i \in DOMAIN params |-> i]
            /\ mem' = [s \in Slots |-> IF s \in DOMAIN params THEN s ELSE NoValue]
    /\ UNCHANGED <<params, body>>

Instr == code[pc]
Target(l) == CHOOSE i \in DOMAIN code : code[i].op = "label" /\ code[i].l = l
At1 == phase = "running" /\ UNCHANGED <<params, body, phase, code>>
Next1 == pc' = pc + 1

\* The kind of the local a slot was made for: the first statement that opens it.
RECURSIVE Opened(_)
Opened(ss) ==
    IF ss = <<>> THEN <<>>
    ELSE LET s == Head(ss)
         IN  (CASE s.k = "open" -> <<s.kind>>
                [] s.k \in {"bind", "copy"} -> <<"alias">>
                [] s.k \in {"if", "match"} -> Opened(s.a) \o Opened(s.b)
                [] s.k \in {"loop", "cfor", "block"} -> Opened(s.a)
                [] OTHER -> <<>>) \o Opened(Tail(ss))
SlotKind(s) == ([i \in DOMAIN params |-> params[i].kind] \o Opened(body))[s]

Fresh(s, kind) ==
    /\ Len(made) < MaxValues
    /\ made' = Append(made, kind)
    /\ home' = Append(home, s)
    /\ mem' = [mem EXCEPT ![s] = Len(made) + 1]

Open == /\ At1 /\ Instr.op = "open" /\ Next1
        /\ Fresh(Instr.s, SlotKind(Instr.s))

Use == /\ At1 /\ Instr.op = "use" /\ Next1
       /\ UNCHANGED <<mem, made, home>>

\* A move to another slot hands the value over; a clone makes a new one.
MoveTo == /\ At1 /\ Instr.op = "move" /\ Next1
          /\ mem' = [mem EXCEPT ![Instr.d] = mem[Instr.s]]
          /\ home' = IF mem[Instr.s] = NoValue THEN home ELSE [home EXCEPT ![mem[Instr.s]] = Instr.d]
          /\ UNCHANGED made

Clone == /\ At1 /\ Instr.op = "clone" /\ Next1
         /\ Fresh(Instr.d, "arr")

Leave(to) ==
    /\ home' = IF mem[Instr.s] = NoValue THEN home ELSE [home EXCEPT ![mem[Instr.s]] = to]
    /\ UNCHANGED <<mem, made>>

\* A callee that takes a resource releases it; so does the destructor.
Close == At1 /\ Instr.op \in {"close", "drop"} /\ Next1 /\ Leave(Released)
Give == At1 /\ Instr.op = "give" /\ Next1 /\ Leave(Returned)
\* A full pool refuses the row; the local is consumed all the same.
Insert == /\ At1 /\ Instr.op = "insert" /\ Next1
          /\ \E to \in IF PoolMayRefuse THEN {Stored, Lost} ELSE {Stored} : Leave(to)

Jump == /\ At1 /\ Instr.op = "br" /\ pc' = Target(Instr.l)
        /\ UNCHANGED <<mem, made, home>>
Decide == /\ At1 /\ Instr.op = "brc" /\ pc' \in {Target(Instr.l), Target(Instr.m)}
          /\ UNCHANGED <<mem, made, home>>
Pass == At1 /\ Instr.op = "label" /\ Next1 /\ UNCHANGED <<mem, made, home>>
Return == /\ phase = "running" /\ Instr.op = "ret" /\ phase' = "done"
          /\ UNCHANGED <<params, body, code, pc, mem, made, home>>

Next == Compile \/ Open \/ Use \/ MoveTo \/ Clone \/ Close \/ Give \/ Insert
        \/ Jump \/ Decide \/ Pass \/ Return

Spec == Init /\ [][Next]_vars
----------------------------------------------------------------------------
\* No instruction of an accepted body touches a value through a slot that
\* does not own it: no use after a move, no second close, no destructor call
\* for a value that was moved on, closed or never made.
OnlyTheOwnerActs ==
    phase = "running" /\ Instr.op \in {"use", "close", "drop", "give", "insert", "move", "clone"}
        => LET v == mem[Instr.s] IN v # NoValue /\ home[v] = Instr.s

\* When the function returns, every resource it opened was closed, dropped,
\* stored in a pool or handed to the caller; with OnlyTheOwnerActs this is
\* "released exactly once on every path".
NothingLeaks ==
    phase = "done" =>
        \A v \in Resources : v > Len(params) => home[v] \in {Released, Stored, Returned}

-----------------------------------------------------------------------------
(* The instance: the statements the bodies are put together from.          *)
S(k, x) == [k |-> k, x |-> x]
O(x) == [k |-> "open", x |-> x, kind |-> CASE x \in {"x", "y"} -> "res" [] x = "w" -> "raw" [] OTHER -> "arr"]
Ctl(k) == [k |-> k]
B(k, y, x) == [k |-> k, y |-> y, x |-> x]
Nest(k, a) == [k |-> k, a |-> a]
Fork(k, a, b) == [k |-> k, a |-> a, b |-> b]
Upto1(A) == {<<>>} \cup {<<s>> : s \in A}
Pairs(A, C) == {<<s, t>> : s \in A, t \in C}

OnX == {S("use", "x"), S("close", "x"), S("insert", "x"), S("give", "x")}
OnW == {S("use", "w"), S("close", "w")}
OnA == {S("use", "a"), S("close", "a"), B("bind", "b", "a"), B("copy", "b", "a"), S("use", "b")}
Simple == OnX \cup OnW \cup OnA \cup {O("y"), Ctl("ret")}

Inner == Upto1(Simple) \cup Pairs({S("close", "x"), S("use", "x"), O("y")},
                                  {Ctl("ret"), S("use", "x"), S("close", "y"), S("use", "y")})
LoopBody == Inner \cup {<<O("y"), Fork("if", <<Ctl("ret")>>, <<>>), S("use", "y")>>}
                  \cup {<<Fork("if", i, j)>> : i \in {<<Ctl("break")>>, <<Ctl("continue")>>}, j \in {<<>>, <<S("use", "x")>>}}
                  \cup {<<O("y"), Fork("if", <<Ctl("break")>>, <<>>), S("use", "y")>>}
Closing == {<<>>, <<S("close", "x")>>, <<Ctl("ret")>>, <<S("close", "x"), Ctl("ret")>>, <<S("use", "x")>>}
Compound == {Fork("if", i, j) : i \in Inner, j \in Inner}
    \cup {Fork("if", <<Fork("if", i, j)>>, k) : i, j, k \in Closing}
    \cup {Nest(k, i) : k \in {"loop", "cfor"}, i \in LoopBody}
    \cup {Nest("block", i) : i \in Inner}
    \cup {Fork("match", i, j) : i, j \in Upto1(Simple)}
Pre == {<<O("x")>>, <<O("w")>>, <<O("a")>>, <<O("x"), O("w")>>, <<O("x"), O("a")>>, <<O("x"), O("x")>>, <<>>}
    \cup {<<O("x"), B("bind", "y", "x")>>, <<O("x"), S("reopen", "x")>>}
Post == Upto1({S("use", "x"), S("close", "x"), S("close", "y"), S("close", "w"), O("y"), Ctl("ret"), S("use", "b")})

MCMiddles == Simple \cup Compound
MCEvery(b) == TRUE

\* The names a body moves, and those it opens.
RECURSIVE Moved(_), OpenedNames(_)
Moved(ss) ==
    IF ss = <<>> THEN {}
    ELSE (CASE Head(ss).k \in {"close", "insert", "give", "bind"} -> {Head(ss).x}
            [] Head(ss).k \in {"if", "match"} -> Moved(Head(ss).a) \cup Moved(Head(ss).b)
            [] Head(ss).k \in {"loop", "cfor", "block"} -> Moved(Head(ss).a)
            [] OTHER -> {}) \cup Moved(Tail(ss))
OpenedNames(ss) ==
    IF ss = <<>> THEN <<>>
    ELSE (CASE Head(ss).k = "open" -> <<Head(ss).x>>
            [] Head(ss).k \in {"bind", "copy"} -> <<Head(ss).y>>
            [] Head(ss).k \in {"if", "match"} -> OpenedNames(Head(ss).a) \o OpenedNames(Head(ss).b)
            [] Head(ss).k \in {"loop", "cfor", "block"} -> OpenedNames(Head(ss).a)
            [] OTHER -> <<>>) \o OpenedNames(Tail(ss))
Names(ss) == {OpenedNames(ss)[i] : i \in DOMAIN OpenedNames(ss)}
RECURSIVE Has(_, _)
Has(ss, kinds) == \E i \in DOMAIN ss :
    \/ ss[i].k \in kinds
    \/ ss[i].k \in {"if", "match"} /\ (Has(ss[i].a, kinds) \/ Has(ss[i].b, kinds))
    \/ ss[i].k \in {"block", "loop", "cfor"} /\ Has(ss[i].a, kinds)
Jumps(ss) == Has(ss, {"break", "continue"})
Resource == {"x", "y", "w"}

\* The bodies in which automatic release is exact: a resource is opened at
\* the level of the function or directly in a `for c { }` body that is left
\* only at its end or by a return that is not its last statement; it keeps
\* the name it was opened with, which no other local has; a loop or a match
\* arm moves nothing that was declared outside it. A function that opens a
\* resource without destructor returns at its end only.
RECURSIVE Disciplined(_, _)
Disciplined(ss, mayOpen) ==
    \A i \in DOMAIN ss :
        LET s == ss[i]
        IN  CASE s.k = "open" -> s.x \in Resource => mayOpen
              [] s.k = "reopen" -> FALSE
              [] s.k = "bind" -> s.x \notin Resource
              [] s.k = "if" -> Disciplined(s.a, FALSE) /\ Disciplined(s.b, FALSE)
              [] s.k = "match" -> /\ Disciplined(s.a, FALSE) /\ Disciplined(s.b, FALSE)
                                  /\ Moved(s.a) \subseteq Names(s.a) /\ Moved(s.b) \subseteq Names(s.b)
              [] s.k = "block" -> Disciplined(s.a, FALSE)
              [] s.k = "cfor" -> Disciplined(s.a, FALSE) /\ Moved(s.a) \subseteq Names(s.a)
              [] s.k = "loop" -> /\ Disciplined(s.a, TRUE) /\ Moved(s.a) \subseteq Names(s.a)
                                 /\ (Jumps(s.a) => Names(s.a) \cap Resource = {})
                                 /\ s.a # <<>> => s.a[Len(s.a)].k \notin {"ret", "give"}
              [] OTHER -> TRUE

DistinctNames(ss) == Cardinality(Names(ss)) = Len(OpenedNames(ss))
MCDisciplined(b) ==
    /\ DistinctNames(b) /\ Disciplined(b, TRUE)
    /\ "w" \in Names(b) => ~Has(b, {"ret", "give"})

MCParams == {<<>>, <<Param("a", "arr", FALSE)>>, <<Param("a", "arr", TRUE)>>}
=============================================================================
