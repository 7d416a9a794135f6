---------------------------- MODULE ModuleScope ----------------------------
(***************************************************************************)
(* Scoping of modules: the semantic pass that inlines the registered files *)
(* and binds names (semantic/semantic.c), its checks, and its mirror in    *)
(* lowering (lower/lower.c).                                               *)
(*                                                                         *)
(* A text is [ok, items]; an item is an import, a banner or block region,  *)
(* a declaration or the #run schedule.  A declaration is [kind, name, refs,*)
(* val, line]: refs are the names its body uses, [base, name, type], with  *)
(* base "" for a bare one and type for the name of a shape; val stands for *)
(* the rest of its text.  kind is func, system, extern, archetype or pool  *)
(* ([N]Shape, with rows).  An identity is the sequence of the parts of a   *)
(* dotted name.                                                            *)
(***************************************************************************)
EXTENDS Integers, Sequences, FiniteSets, SequencesExt, TLC

CONSTANT MaxInlined     \* the 64 slots of lower_to_hir's module tables

FileTag(m) == "__f" \o ToString(m - 1)
Renamed(id, prefix, set) == IF Len(id) = 1 /\ id[1] \in set THEN prefix \o id ELSE id
DeclsOf(it) == CASE it.t = "block" -> it.decls [] it.t = "decl" -> <<it.d>> [] OTHER -> <<>>

----------------------------------------------------------------------------
\* Semantic analysis.  ctx.decls is the declaration table, ctx.ifaces the
\* registry of units: position n is unit n, [name, exports].

sem_iface_find(ctx, mod) == \E i \in DOMAIN ctx.ifaces : ctx.ifaces[i].name = mod
sem_iface_add(ctx, mod)  ==
    [ctx EXCEPT !.ifaces = Append(@, [name |-> mod, exports |-> <<>>])]

\* at: the band and the file a declaration stands in.  acc collects the
\* module's own names (full), its exports and the names private to the file.
sem_add_module_decl(acc, d, at) ==
    LET flat == d.kind = "extern" \/ at.ds \/ ~at.device \/ (d.kind = "archetype" /\ at.exported)
        md == [kind |-> d.kind, name |-> <<d.name>>, refs |-> d.refs, unit |-> at.unit,
               vis |-> IF at.file_local THEN "file" ELSE IF at.exported THEN "exported" ELSE "unit",
               ds |-> at.ds, impl |-> at.device /\ ~at.ds, origin |-> at.origin,
               rows |-> d.rows, rnops |-> <<>>, line |-> d.line, src |-> at.src]
        acc1 == [acc EXCEPT !.decls = Append(@, md)]
    IN  IF at.file_local THEN [acc1 EXCEPT !.fileset = @ \union {d.name}]
        ELSE [acc1 EXCEPT
                !.full = IF flat THEN @ ELSE @ \union {d.name},
                !.exports = IF at.exported
                            THEN Append(@, [member |-> d.name,
                                            id |-> IF flat THEN <<d.name>> ELSE <<at.mod, d.name>>])
                            ELSE @]

\* One item of a file: a banner narrows the rest of the file, a block only
\* its own declarations; neither hides anything from the editor's own unit.
SemItem(acc, it) ==
    LET at == [acc.at EXCEPT
                 !.exported = @ /\ (it.t = "block" /\ it.r # "foreign" => acc.at.self_unit),
                 !.file_local = @ \/ (it.t = "block" /\ it.r = "file")]
    IN  IF it.t = "banner"
        THEN IF it.r = "foreign" THEN acc
             ELSE [acc EXCEPT !.at.exported = @ /\ acc.at.self_unit,
                              !.at.file_local = @ \/ it.r = "file"]
        ELSE FoldLeft(LAMBDA a, d : sem_add_module_decl(a, d, at), acc, DeclsOf(it))

AddRnop(decls, first, prefix, set) ==
    [i \in DOMAIN decls |->
        IF i < first THEN decls[i]
        ELSE [decls[i] EXCEPT !.rnops = Append(@, [prefix |-> prefix, set |-> set])]]

\* A file of the module: its declarations, then the rename of its #file names.
SemFile(acc, m, file) ==
    LET first == Len(acc.decls) + 1
        got == FoldLeft(SemItem,
                  [acc EXCEPT !.fileset = {}, !.at.exported = TRUE, !.at.file_local = FALSE,
                              !.at.ds = file.ds, !.at.origin = file.origin, !.at.src = m],
                  file.text.items)
    IN  IF got.fileset = {} THEN got
        ELSE [got EXCEPT !.decls =
                 AddRnop(@, first, <<got.at.mod, FileTag(m)>>, got.fileset)]

UsesIn(file) == FlattenSeq([i \in DOMAIN file.text.items |->
                    IF file.text.items[i].t = "import" THEN file.text.items[i].uses ELSE <<>>])

FilesOf(modules, mod) ==
    SelectSeq([i \in DOMAIN modules |-> i], LAMBDA i : modules[i].name = mod)

\* self_unit: the module is the device of the file open in an editor; its
\* files then see each other's names bare, and nothing is renamed to the module.
RECURSIVE sem_inline_module(_, _, _, _)
sem_inline_module(ctx, modules, mod, self_unit) ==
    LET files  == FilesOf(modules, mod)
        reg    == sem_iface_add(ctx, mod)
        unit   == Len(reg.ifaces)
        device == \E i \in DOMAIN files : modules[files[i]].ds
        at     == [mod |-> mod, unit |-> unit, device |-> device, exported |-> TRUE,
                   file_local |-> FALSE, ds |-> FALSE, origin |-> "", src |-> 0,
                   self_unit |-> self_unit]
        got    == FoldLeft(LAMBDA a, m : SemFile(a, m, modules[m]),
                      [decls |-> ctx.decls, full |-> {}, exports |-> <<>>, fileset |-> {}, at |-> at],
                      files)
        done   == [reg EXCEPT
                     !.decls = IF self_unit THEN got.decls
                               ELSE AddRnop(got.decls, Len(ctx.decls) + 1, <<mod>>, got.full),
                     !.ifaces[unit].exports = got.exports]
        subs   == FlattenSeq([i \in DOMAIN files |-> UsesIn(modules[files[i]])])
    IN  IF sem_iface_find(ctx, mod) \/ files = <<>> THEN ctx
        ELSE FoldLeft(LAMBDA c, u : sem_inline_module(c, modules, u.name, FALSE), done, subs)

\* The file being compiled: imports are inlined where they stand.
SemRootDecl(d, vis) ==
    [kind |-> d.kind, name |-> <<d.name>>, refs |-> d.refs, unit |-> 0, vis |-> vis,
     ds |-> FALSE, impl |-> FALSE, origin |-> "entry", rows |-> d.rows, rnops |-> <<>>,
     line |-> d.line, src |-> 0]

SemRootItem(ctx, modules, it) ==
    LET vis == IF it.t = "block" /\ it.r = "file" THEN "file"
               ELSE IF it.t = "block" /\ it.r = "module" THEN "unit"
               ELSE ctx.band
    IN  CASE it.t = "import" ->
                 FoldLeft(LAMBDA c, u : sem_inline_module(c, modules, u.name, FALSE), ctx, it.uses)
          [] it.t = "banner" ->
                 [ctx EXCEPT !.band = CASE it.r = "file" -> "file"
                                        [] it.r = "module" /\ @ # "file" -> "unit"
                                        [] OTHER -> @]
          [] OTHER ->
                 [ctx EXCEPT !.decls = @ \o [i \in DOMAIN DeclsOf(it) |->
                                                SemRootDecl(DeclsOf(it)[i], vis)]]

\* The name of the declaration, and every name its body uses, under the
\* rename operations recorded for it.
sem_apply_rnops(id, decl) ==
    FoldLeft(LAMBDA n, op : Renamed(n, op.prefix, op.set), id, decl.rnops)

\* extra is the module of the open file's own device, "" for a compile.
sem_collect(root, modules, extra) ==
    LET own == FoldLeft(LAMBDA c, it : SemRootItem(c, modules, it),
                        [decls |-> <<>>, ifaces |-> <<>>, band |-> "exported"], root.items)
        ctx == IF extra = "" THEN own ELSE sem_inline_module(own, modules, extra, TRUE)
    IN  [ctx EXCEPT !.decls = [i \in DOMAIN @ |->
                                  [@[i] EXCEPT !.name = sem_apply_rnops(@, ctx.decls[i])]]]

----------------------------------------------------------------------------
\* The identity a reference is bound to; NoName where a module has no such
\* member, or the base is not a module.
NoName == <<"?">>

sem_qual_lookup(ifaces, base, member) ==
    LET hits == FlattenSeq([m \in DOMAIN ifaces |->
                    IF ifaces[m].name = base
                    THEN SelectSeq(ifaces[m].exports, LAMBDA e : e.member = member)
                    ELSE <<>>])
    IN  IF hits = <<>> THEN NoName ELSE Head(hits).id

sem_tree_qualify_node(ctx, ref, decl) ==
    IF ref.base # "" THEN sem_qual_lookup(ctx.ifaces, ref.base, ref.name)
    ELSE sem_apply_rnops(<<ref.name>>, decl)

Callable(d) == d.kind \in {"func", "extern"}

\* 1 visible from the unit, 0 only hidden ones of other units, -1 none.
sem_callable_visible(ctx, id, unit) ==
    LET named == {i \in DOMAIN ctx.decls : Callable(ctx.decls[i]) /\ ctx.decls[i].name = id}
    IN  IF named = {} THEN -1
        ELSE IF \E i \in named : ctx.decls[i].unit = unit \/ ctx.decls[i].vis = "exported" THEN 1
        ELSE 0

UndefinedRef(ctx, decl, ref) ==
    LET id == sem_tree_qualify_node(ctx, ref, decl)
    IN  \/ id = NoName
        \/ /\ sem_callable_visible(ctx, id, decl.unit) # 1
           /\ ~ \E i \in DOMAIN ctx.decls :
                   ctx.decls[i].kind = "archetype" /\ ctx.decls[i].name = id

\* The unique-name rule over funcs and procs; stdlib declarations are exempt.
DuplicateDecl(ctx) ==
    \E i, j \in DOMAIN ctx.decls :
        /\ i < j
        /\ Callable(ctx.decls[i]) /\ Callable(ctx.decls[j])
        /\ ctx.decls[i].name = ctx.decls[j].name
        /\ "stdlib" \notin {ctx.decls[i].origin, ctx.decls[j].origin}

\* At most one region of each kind, and one #import, per file.
RegionKind(it) == CASE it.t = "import" -> "import" [] it.t \in {"banner", "block"} -> it.r
                    [] OTHER -> ""
sem_check_one_region_per_file(items) ==
    \A i, j \in DOMAIN items : i # j /\ RegionKind(items[i]) # ""
                                  => RegionKind(items[i]) # RegionKind(items[j])

sem_check_device_impl_decls(ctx) ==
    \A i \in DOMAIN ctx.decls : ctx.decls[i].impl => ctx.decls[i].kind # "pool"
sem_check_datasheet_decls(ctx) ==
    \A i \in DOMAIN ctx.decls : ctx.decls[i].ds => ctx.decls[i].kind # "archetype"

\* A pool in a datasheet requires that many rows of a public shape.
semantic_check_storage_requirements(ctx) ==
    \A i \in DOMAIN ctx.decls :
        LET req == ctx.decls[i]
        IN  req.kind = "pool" /\ req.ds =>
              /\ \E a \in DOMAIN ctx.decls :
                    /\ ctx.decls[a].kind = "archetype" /\ ctx.decls[a].name = req.name
                    /\ ctx.decls[a].vis = "exported"
              /\ \E p \in DOMAIN ctx.decls :
                    /\ ctx.decls[p].kind = "pool" /\ ~ctx.decls[p].ds
                    /\ ctx.decls[p].name = req.name /\ ctx.decls[p].rows >= req.rows

SemanticOK(core, user, modules) ==
    LET ctx == sem_collect([items |-> core.items \o user.items], modules, "")
    IN  /\ sem_check_one_region_per_file(user.items)
        /\ \A m \in DOMAIN modules : sem_iface_find(ctx, modules[m].name)
                => sem_check_one_region_per_file(modules[m].text.items)
        /\ \A i \in DOMAIN ctx.decls : \A k \in DOMAIN ctx.decls[i].refs :
              ~UndefinedRef(ctx, ctx.decls[i], ctx.decls[i].refs[k])
        /\ ~DuplicateDecl(ctx)
        /\ sem_check_device_impl_decls(ctx)
        /\ sem_check_datasheet_decls(ctx)
        /\ semantic_check_storage_requirements(ctx)

----------------------------------------------------------------------------
\* Lowering.  A reference of HIR is NAME(id) - base <<>> - or FIELD(NAME(base),
\* id); the renames are carried out on the declarations in place.

lower_decl_cst(d, unit) ==
    [kind |-> d.kind, name |-> <<d.name>>, unit |-> unit, rows |-> d.rows, val |-> d.val,
     req |-> FALSE,
     refs |-> [i \in DOMAIN d.refs |->
                 [base |-> IF d.refs[i].base = "" THEN <<>> ELSE <<d.refs[i].base>>,
                  id |-> <<d.refs[i].name>>]]]

hir_rn_expr(e, prefix, set) ==
    IF e.base = <<>> THEN [e EXCEPT !.id = Renamed(@, prefix, set)]
    ELSE [e EXCEPT !.base = Renamed(@, prefix, set)]
hir_rn_decl(d, prefix, set) ==
    [d EXCEPT !.name = Renamed(@, prefix, set),
              !.refs = [i \in DOMAIN @ |-> hir_rn_expr(@[i], prefix, set)]]
RenameFrom(decls, first, prefix, set) ==
    [i \in DOMAIN decls |-> IF i < first THEN decls[i] ELSE hir_rn_decl(decls[i], prefix, set)]

hir_add_module_decl(acc, d, at) ==
    LET md   == [lower_decl_cst(d, at.unit) EXCEPT !.req = at.ds /\ d.kind = "pool"]
        flat == d.kind = "extern" \/ at.ds \/ ~at.device \/ (d.kind = "archetype" /\ at.exported)
        acc1 == [acc EXCEPT !.decls = Append(@, md)]
    IN  IF at.file_local THEN [acc1 EXCEPT !.fileset = @ \union {d.name}]
        ELSE [acc1 EXCEPT
                !.full = IF flat THEN @ ELSE @ \union {d.name},
                !.exports = IF at.exported
                            THEN Append(@, [member |-> d.name,
                                            id |-> IF flat THEN <<d.name>> ELSE <<at.mod, d.name>>])
                            ELSE @]

HirItem(acc, it) ==
    LET block == it.t = "block"
        at == [acc.at EXCEPT !.exported = @ /\ ~(block /\ it.r # "foreign"),
                             !.file_local = @ \/ (block /\ it.r = "file")]
    IN  IF it.t # "banner"
        THEN FoldLeft(LAMBDA a, d : hir_add_module_decl(a, d, at), acc, DeclsOf(it))
        ELSE IF it.r = "foreign" THEN acc
        ELSE [acc EXCEPT !.at.exported = FALSE, !.at.file_local = @ \/ it.r = "file"]

HirFile(acc, m, file) ==
    LET got == FoldLeft(HirItem,
                  [acc EXCEPT !.fileset = {}, !.at.exported = TRUE, !.at.file_local = FALSE,
                              !.at.ds = file.ds],
                  file.text.items)
    IN  [got EXCEPT !.decls = RenameFrom(@, Len(acc.decls) + 1, <<got.at.mod, FileTag(m)>>, got.fileset)]

\* The tables of exports hold 64 modules: those past it are inlined under one
\* unit number and cannot be qualified.
RECURSIVE hir_inline_module(_, _, _)
hir_inline_module(ast, modules, mod) ==
    LET files == FilesOf(modules, mod)
        at    == [mod |-> mod, unit |-> Len(ast.inlined) + 1, exported |-> TRUE, file_local |-> FALSE,
                  device |-> \E i \in DOMAIN files : modules[files[i]].ds, ds |-> FALSE]
        got   == FoldLeft(LAMBDA a, m : HirFile(a, m, modules[m]),
                     [decls |-> ast.decls, full |-> {}, exports |-> <<>>, fileset |-> {}, at |-> at],
                     files)
        done  == [ast EXCEPT
                    !.decls = RenameFrom(got.decls, Len(ast.decls) + 1, <<mod>>, got.full),
                    !.inlined = IF Len(@) < MaxInlined
                                THEN Append(@, [name |-> mod, exports |-> got.exports]) ELSE @]
        subs  == FlattenSeq([i \in DOMAIN files |-> UsesIn(modules[files[i]])])
    IN  IF (\E i \in DOMAIN ast.inlined : ast.inlined[i].name = mod) \/ files = <<>> THEN ast
        ELSE FoldLeft(LAMBDA a, u : hir_inline_module(a, modules, u.name), done, subs)

\* The leaves of #run are the dotted names as they are written.
fold_sched(leaf) == IF leaf.base = "" THEN <<leaf.name>> ELSE <<leaf.base, leaf.name>>

HirRootItem(ast, modules, it) ==
    CASE it.t = "import" -> FoldLeft(LAMBDA a, u : hir_inline_module(a, modules, u.name), ast, it.uses)
      [] it.t = "run" -> [ast EXCEPT !.run = [i \in DOMAIN it.leaves |-> fold_sched(it.leaves[i])]]
      [] OTHER -> [ast EXCEPT !.decls = @ \o [i \in DOMAIN DeclsOf(it) |->
                                                 lower_decl_cst(DeclsOf(it)[i], 0)]]

qual_lookup(inlined, base, member) ==
    LET hits == FlattenSeq([m \in DOMAIN inlined |->
                    IF <<inlined[m].name>> = base
                    THEN SelectSeq(inlined[m].exports, LAMBDA e : <<e.member>> = member)
                    ELSE <<>>])
    IN  IF hits = <<>> THEN NoName ELSE Head(hits).id

hir_q_expr(e, inlined) ==
    LET id == qual_lookup(inlined, e.base, e.id)
    IN  IF e.base = <<>> \/ id = NoName THEN e ELSE [base |-> <<>>, id |-> id]
hir_q_decl(d, inlined) == [d EXCEPT !.refs = [i \in DOMAIN @ |-> hir_q_expr(@[i], inlined)]]

\* One declaration per named shape: the first stays.
CollapseShapes(decls) ==
    SelectSeq([i \in DOMAIN decls |->
                 [d |-> decls[i],
                  dup |-> \E e \in 1 .. (i - 1) : /\ decls[i].kind = "archetype"
                                                  /\ decls[e].kind = "archetype"
                                                  /\ decls[e].name = decls[i].name]],
              LAMBDA x : ~x.dup)

lower_to_hir(core, user, modules) ==
    LET raw == FoldLeft(LAMBDA a, it : HirRootItem(a, modules, it),
                        [decls |-> <<>>, inlined |-> <<>>, run |-> <<>>], core.items \o user.items)
        qualified == [i \in DOMAIN raw.decls |-> hir_q_decl(raw.decls[i], raw.inlined)]
        kept == CollapseShapes(qualified)
    IN  [decls |-> [i \in DOMAIN kept |-> kept[i].d], run |-> raw.run]
=============================================================================
