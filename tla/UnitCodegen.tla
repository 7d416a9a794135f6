---------------------------- MODULE UnitCodegen ----------------------------
(***************************************************************************)
(* What each compilation unit's LLVM module holds: the symbols, linkage    *)
(* and cross-unit references of codegen/codegen.c.                         *)
(*                                                                         *)
(* mode is [per_unit, shared, hot].  A module is [defs, declares]: a       *)
(* definition is [sym, link, tramp, val, calls], link strong, odr or       *)
(* internal, tramp the unit a hot trampoline asks the runtime for (-1 for  *)
(* a body), calls the symbols its body refers to in order.  A symbol is    *)
(* the sequence of the parts of its name.                                  *)
(***************************************************************************)
EXTENDS Integers, Sequences, FiniteSets, SequencesExt

\* Under per-unit code the program's own names get a prefix no C name has;
\* externs keep theirs, and "main" makes room for the C entry.
cg_fnsym(mode, id, is_extern) ==
    IF is_extern THEN id
    ELSE IF id = <<"main">> THEN <<"main_user">>
    ELSE IF mode.per_unit THEN <<"arche">> \o id ELSE id

cg_linkage(mode) == IF mode.per_unit \/ mode.shared THEN "strong" ELSE "internal"
cg_shared(mode)  == IF mode.per_unit THEN "odr" ELSE "strong"

Define(sym, link, val, calls) ==
    [sym |-> sym, link |-> link, tramp |-> -1, val |-> val, calls |-> calls]

IsShape(hir, id)  == \E i \in DOMAIN hir.decls : hir.decls[i].kind = "archetype" /\ hir.decls[i].name = id
IsExtern(hir, id) == \E i \in DOMAIN hir.decls : hir.decls[i].kind = "extern" /\ hir.decls[i].name = id

\* A reference of a body: the storage and helpers of a shape, or a callee.
RefSym(mode, hir, ref) ==
    IF IsShape(hir, ref.id) THEN <<"pool">> \o ref.id
    ELSE cg_fnsym(mode, ref.id, IsExtern(hir, ref.id))

----------------------------------------------------------------------------
\* A requirement of a datasheet is a minimum: only a pool of its own gives a
\* shape its rows.
get_arch_static_capacity(hir, id) ==
    LET pools == SelectSeq(hir.decls, LAMBDA d : d.kind = "pool" /\ ~d.req /\ d.name = id)
    IN  IF pools = <<>> THEN 0 ELSE Head(pools).rows

\* The storage and helpers of a shape, in every unit.
codegen_archetype_decl(mode, hir, d) ==
    <<Define(<<"pool">> \o d.name, cg_shared(mode),
             <<d.val, get_arch_static_capacity(hir, d.name)>>, <<>>)>>

\* The body of a func or system, in the unit that declares it.
codegen_system_decl(mode, hir, u, d) ==
    IF mode.per_unit /\ d.unit # u THEN <<>>
    ELSE <<Define(cg_fnsym(mode, d.name, FALSE), cg_linkage(mode), <<d.val, 0>>,
                  [k \in DOMAIN d.refs |-> RefSym(mode, hir, d.refs[k])])>>
codegen_func_decl(mode, hir, u, d) ==
    IF mode.per_unit /\ d.unit # u THEN <<>>
    ELSE <<Define(cg_fnsym(mode, d.name, FALSE), cg_linkage(mode), <<d.val, 0>>,
                  [k \in DOMAIN d.refs |-> RefSym(mode, hir, d.refs[k])])>>

\* In a hot build the stand-in for another unit's callee asks the reload
\* runtime for the symbol in that unit's library.
emit_hot_trampoline(mode, d) ==
    [sym |-> cg_fnsym(mode, d.name, FALSE), link |-> "strong", tramp |-> d.unit,
     val |-> <<"hot", d.unit>>, calls |-> <<>>]

CrossUnit(mode, hir, u) ==
    IF ~mode.per_unit THEN <<>>
    ELSE SelectSeq(hir.decls, LAMBDA d : d.kind \in {"func", "system"} /\ d.unit # u)

emit_cross_unit_declares(mode, hir, u) ==
    LET out == CrossUnit(mode, hir, u)
    IN  IF mode.hot
        THEN [defs |-> [i \in DOMAIN out |-> emit_hot_trampoline(mode, out[i])], declares |-> {}]
        ELSE [defs |-> <<>>, declares |-> {cg_fnsym(mode, out[i].name, FALSE) : i \in DOMAIN out}]

----------------------------------------------------------------------------
\* A leaf of #run is the first system whose name is the whole dotted name or
\* its last part; 0 when there is none.
cg_find_scheduled_decl(hir, leaf) ==
    SelectInSeq(hir.decls, LAMBDA d : /\ d.kind = "system"
                                      /\ d.name = leaf \/ d.name = <<Last(leaf)>>)

UnknownLeaf(hir) == \E i \in DOMAIN hir.run : cg_find_scheduled_decl(hir, hir.run[i]) = 0

\* @arche_run, the schedule, and @main, which calls it; in a hot build @main
\* first registers the library of every unit with the reload runtime.
codegen_run_decl(mode, hir) ==
    Define(<<"arche_run">>, "strong", <<"run", 0>>,
           [i \in DOMAIN hir.run |->
               cg_fnsym(mode, hir.decls[cg_find_scheduled_decl(hir, hir.run[i])].name, FALSE)])

EntryDefs(mode, hir, u) ==
    IF mode.per_unit /\ u >= 1 THEN <<>>
    ELSE <<codegen_run_decl(mode, hir),
           Define(<<"main">>, "strong", <<"main", 0>>,
                  (IF mode.hot THEN <<<<"arche_hot_register">>>> ELSE <<>>) \o <<<<"arche_run">>>>)>>

MaxUnit(hir) == LET us == {hir.decls[i].unit : i \in DOMAIN hir.decls}
                IN  CHOOSE u \in us \union {0} : \A v \in us : v <= u

\* The module of unit u; the whole program when the build is not per unit.
codegen_generate(mode, hir, u) ==
    LET cross == emit_cross_unit_declares(mode, hir, u)
        Emit(d) == CASE d.kind = "archetype" -> codegen_archetype_decl(mode, hir, d)
                     [] d.kind = "func"      -> codegen_func_decl(mode, hir, u, d)
                     [] d.kind = "system"    -> codegen_system_decl(mode, hir, u, d)
                     [] OTHER                -> <<>>
        externs == SelectSeq(hir.decls, LAMBDA d : d.kind = "extern")
        own == FlattenSeq([i \in DOMAIN hir.decls |-> Emit(hir.decls[i])])
    IN  [defs |-> cross.defs \o own \o EntryDefs(mode, hir, u),
         declares |-> cross.declares \union {externs[i].name : i \in DOMAIN externs}]

\* What opt accepts: every symbol once, and no reference without one.
WellFormed(m) ==
    /\ \A i, j \in DOMAIN m.defs : m.defs[i].sym = m.defs[j].sym => i = j
    /\ \A i \in DOMAIN m.defs : m.defs[i].sym \notin m.declares

\* The definitions linkers may merge must agree in every unit.
verify_odr(units) ==
    \A u, v \in DOMAIN units : \A i \in DOMAIN units[u].defs, j \in DOMAIN units[v].defs :
        /\ units[u].defs[i].link = "odr" /\ units[v].defs[j].link = "odr"
        /\ units[u].defs[i].sym = units[v].defs[j].sym
        => units[u].defs[i] = units[v].defs[j]

----------------------------------------------------------------------------
\* The process-wide mode: 0 leaves it to ARCHE_PER_UNIT, 1 forces per-unit
\* code, -1 the whole program, for the rest of the process unless set again.
codegen_set_per_unit(on)              == IF on THEN 1 ELSE 0
codegen_force_whole_program           == -1
codegen_per_unit_enabled(mode, env)   == mode >= 0 /\ (mode > 0 \/ env)
=============================================================================
