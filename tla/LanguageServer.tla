--------------------------- MODULE LanguageServer ---------------------------
(***************************************************************************)
(* The language server: arche_analyzer.c --serve.                          *)
(*                                                                         *)
(* The server keeps a warm analysis of every open document and answers     *)
(* requests from it.  An analysis is of the core prelude followed by the   *)
(* buffer, so its lines are those of the two together; the offset between  *)
(* the two kinds of lines, and the registry of modules in which the files  *)
(* of declarations are looked up, belong to the process and are those of   *)
(* the analysis made last.                                                 *)
(*                                                                         *)
(* A declaration takes one line and one more for each name its body uses;  *)
(* any other item one line.                                                *)
(***************************************************************************)
EXTENDS ModuleResolve, ModuleScope, BuildMeaning

CONSTANTS
    Buffers,                \* Buffers[p]: the versions of file p that the editor sends
    MaxDocs,                \* how many of them at a time
    Env,                    \* the environment the server was started in
    Analyze(_, _, _, _),    \* analyze
    Reply(_, _, _),         \* Answer
    Stand(_, _)             \* Standing of a document and its analysis

VARIABLE server

NoReply == [to |-> <<>>, ask |-> <<>>, lines |-> {}]

\* core is the version of the prelude that was read, 0 before; owner the
\* document analysed last, whose buffers the registry points into.
ServerInit == server = [docs |-> <<>>, core |-> 0, g_core_lines |-> 0, modules |-> <<>>,
                        owner |-> <<>>, reply |-> NoReply]

----------------------------------------------------------------------------
\* The lines of a text: every declaration, import and region gets its own.
Place(acc, it) ==
    LET PlaceDecl(a, d) == [at |-> a.at + 1 + Len(d.refs),
                            decls |-> Append(a.decls, [d EXCEPT !.line = a.at])]
        inner == FoldLeft(PlaceDecl, [at |-> acc.at + 1, decls |-> <<>>], DeclsOf(it))
    IN  CASE it.t = "decl"  -> [at |-> acc.at + 1 + Len(it.d.refs),
                                items |-> Append(acc.items, [it EXCEPT !.d.line = acc.at])]
          [] it.t = "block" -> [at |-> inner.at,
                                items |-> Append(acc.items, [it EXCEPT !.decls = inner.decls])]
          [] OTHER          -> [at |-> acc.at + 1,
                                items |-> Append(acc.items, [line |-> acc.at] @@ it)]
Laid(items) == FoldLeft(Place, [at |-> 1, items |-> <<>>], items)
parse_source(text)   == [text EXCEPT !.items = Laid(@).items]
count_newlines(text) == Laid(text.items).at - 1

source_dir_of(path) == SubSeq(path, 1, Len(path) - 2)

----------------------------------------------------------------------------
\* Loading.  The search is the compiler's; a file is registered for analysis
\* only, and without the rule that a bare name must be a device.
RECURSIVE LoadFiles(_, _)
LoadFiles(tree, r) ==
    LET s == Advance(Disk, Env, r)
    IN  IF s.todo = <<>> THEN s
        ELSE LoadFiles(tree, register_module_file(s, parse_source(TextAt(tree, Head(s.todo).path))))

folder_has_datasheet(folder) ==
    DirExists(Disk, folder) /\ \E i \in DOMAIN Disk.entries[folder] : Disk.entries[folder][i].kind = "ds"

register_dir_arche(tree, r, folder, mod, skip) ==
    LET sources == IF ~DirExists(Disk, folder) THEN <<>>
                   ELSE SelectSeq(Disk.entries[folder],
                                  LAMBDA e : e.kind \in {"arche", "ds"} /\ Path(folder, e) # skip)
    IN  FoldLeft(LAMBDA a, e : LoadFiles(tree, Push(a, [f |-> "file", mod |-> mod, path |-> Path(folder, e),
                                                        src |-> folder, origin |-> "user"])),
                 r, sources)

\* A document in a device's folder, or in the folder of one of its variants,
\* is analysed with the other files of its device.
register_self_device(tree, r, path) ==
    LET src  == source_dir_of(path)
        home == IF folder_has_datasheet(src) THEN src ELSE Front(src)
        name == Last(home)
        top  == register_dir_arche(tree, r, home, name, path)
        sel  == variant_map_lookup(r.variants, name)
        over == IF home # src THEN register_dir_arche(tree, top, src, name, path)
                ELSE IF sel = "" THEN top
                ELSE register_dir_arche(tree, top, Append(home, sel), name, path)
    IN  IF ~folder_has_datasheet(home) THEN [reg |-> r, extra |-> ""]
        ELSE [reg |-> over, extra |-> IF Len(over.modules) > Len(r.modules) THEN name ELSE ""]

\* Mutant: the modules of the last analysis stay registered.
KeepModules(sv) == [FreshRegistries EXCEPT !.modules = sv.modules]
semantic_reset_modules(sv) == FreshRegistries

\* An import that was not met before and registers nothing is reported.
resolve_uses_sem(tree, sv, items, path) ==
    LET src == source_dir_of(path)
        start == [semantic_reset_modules(sv) EXCEPT !.variants = variant_map_load_resolved(Disk, Env, src)]
        LoadUse(acc, use) ==
            LET r == LoadFiles(tree, Push(acc.reg, [f |-> "uses", uses |-> <<use.u>>, src |-> src]))
            IN  [reg |-> r,
                 missing |-> acc.missing \union
                     IF Len(r.loaded) > Len(acc.reg.loaded)
                        /\ ~ \E m \in DOMAIN r.modules : r.modules[m].name = use.u.name
                     THEN {use.line} ELSE {}]
        uses == FlattenSeq([i \in DOMAIN items |->
                    IF items[i].t # "import" THEN <<>>
                    ELSE [k \in DOMAIN items[i].uses |-> [u |-> items[i].uses[k], line |-> items[i].line]]])
        got == FoldLeft(LoadUse, [reg |-> start, missing |-> {}], uses)
    IN  register_self_device(tree, got.reg, path) @@ [missing |-> got.missing]

\* The prelude is read once in the life of the process, and not put in front
\* of itself.
ensure_core(tree, sv) == IF sv.core = 0 THEN tree[Core] ELSE sv.core
path_is_core(path) == path = Core

UndefinedLines(ctx) ==
    UNION {{ctx.decls[i].line + k : k \in {j \in DOMAIN ctx.decls[i].refs :
                                              UndefinedRef(ctx, ctx.decls[i], ctx.decls[i].refs[j])}} :
              i \in DOMAIN ctx.decls}

\* An analysis: the version of the buffer, the files as they were, and the
\* declarations, units and diagnostics, all in combined lines.
analyze(tree, sv, path, v) ==
    LET user  == TextOf[path][v]
        core  == IF path_is_core(path) THEN [ok |-> TRUE, items |-> <<>>] ELSE TextOf[Core][ensure_core(tree, sv)]
        root  == parse_source([user EXCEPT !.items = core.items \o @])
        uses  == resolve_uses_sem(tree, sv, root.items, path)
        ctx   == sem_collect(root, uses.reg.modules, uses.extra)
        lines == count_newlines(core)
    IN  [core_lines |-> lines,
         modules |-> uses.reg.modules,
         a |-> [ver |-> v, seen |-> [tree EXCEPT ![Core] = ensure_core(tree, sv)],
                decls |-> ctx.decls, ifaces |-> ctx.ifaces,
                diags |-> UndefinedLines(ctx) \union uses.missing
                          \union IF user.ok THEN {} ELSE {lines + 1}]]

----------------------------------------------------------------------------
\* Requests.  Every position is shifted by the process's offset; one that is
\* not past it lies in the prelude and is left out.
Shown(sv, line, text) ==
    IF line > sv.g_core_lines THEN {<<line - sv.g_core_lines, text>>} ELSE {}
EntryDecls(a) == {i \in DOMAIN a.decls : a.decls[i].src = 0}

\* A pool's implicit policy, and the type of every definition, which is
\* redundant for the forms of this fragment and shown on request.
emit_pool_policy_hint(sv, d) == IF d.kind = "pool" THEN Shown(sv, d.line, "?reject") ELSE {}
binding_is_redundant_form(d) == d.kind # "pool"
emit_type_hint(sv, d, full) == IF full /\ binding_is_redundant_form(d) THEN Shown(sv, d.line, "type") ELSE {}
emit_hints(sv, a, full) ==
    UNION {emit_type_hint(sv, a.decls[i], full) \union emit_pool_policy_hint(sv, a.decls[i]) : i \in EntryDecls(a)}

emit_diags(sv, a) == UNION {Shown(sv, l, "error") : l \in a.diags}

\* The declaration a use is bound to, 0 when there is none.
sem_bind_defs(a, d, ref) ==
    LET id == sem_tree_qualify_node(a, ref, d)
    IN  SelectInSeq(a.decls, LAMBDA e : Callable(e) /\ e.name = id)

resolved_name_category(a, d, ref) ==
    IF ref.type THEN "type" ELSE IF sem_bind_defs(a, d, ref) # 0 THEN "function" ELSE "variable"

walk_tokens(sv, a) ==
    UNION {LET d == a.decls[i]
           IN  Shown(sv, d.line, "name")
               \union UNION {Shown(sv, d.line + k, resolved_name_category(a, d, d.refs[k])) : k \in DOMAIN d.refs} :
             i \in EntryDecls(a)}

\* The file of a declaration: its buffer is looked for in the registry.
semantic_decl_src_file(sv, a, path, i) ==
    IF a.decls[i].src # 0 /\ sv.owner = path THEN sv.modules[a.decls[i].src].path ELSE <<>>
semantic_module_file(sv, name) ==
    LET at == SelectInSeq(sv.modules, LAMBDA m : m.name = name)
    IN  IF at = 0 THEN <<>> ELSE sv.modules[at].path

goto_emit_decl(sv, a, path, i) ==
    LET line == a.decls[i].line
        file == semantic_decl_src_file(sv, a, path, i)
    IN  IF file # <<>> THEN {<<line, file>>}
        ELSE IF line <= sv.g_core_lines THEN {<<line, Core>>}
        ELSE {<<line - sv.g_core_lines, path>>}

\* The name at the cursor: the deepest node there that is a reference.
pick_ref_node(a, line) ==
    UNION {{[d |-> a.decls[i], ref |-> a.decls[i].refs[k]] :
               k \in {j \in DOMAIN a.decls[i].refs : a.decls[i].line + j = line}} : i \in EntryDecls(a)}

semantic_find_type_decl_index(a, name) ==
    SelectInSeq(a.decls, LAMBDA d : d.kind = "archetype" /\ d.name = <<name>>)
datasheet_decl_named(a, name) == SelectInSeq(a.decls, LAMBDA d : d.ds /\ d.name = name)

\* A datasheet's declaration of the name is preferred when kind is decl.
GotoDecl(sv, a, path, kind, i) ==
    LET ds == datasheet_decl_named(a, a.decls[i].name)
    IN  IF i = 0 THEN {}
        ELSE goto_emit_decl(sv, a, path, IF kind = "decl" /\ ds # 0 THEN ds ELSE i)

\* on tells whether the cursor is on the base of a dotted name.  Values of
\* this fragment have no nominal type, and shapes no destructor.
emit_goto(sv, a, path, q) ==
    UNION {LET mf == semantic_module_file(sv, x.ref.base)
           IN  IF x.ref.type
               THEN GotoDecl(sv, a, path, q.kind, semantic_find_type_decl_index(a, x.ref.name))
               ELSE IF q.kind \in {"type", "impl"} THEN {}
               ELSE IF x.ref.base # "" /\ q.on = "base"
               THEN IF mf = <<>> THEN {} ELSE {<<1, mf>>}
               ELSE GotoDecl(sv, a, path, q.kind, sem_bind_defs(a, x.d, x.ref)) :
             x \in pick_ref_node(a, q.line + sv.g_core_lines)}

Answer(sv, path, q) ==
    LET a == sv.docs[path]
    IN  CASE q.t = "HINTS"  -> emit_hints(sv, a, q.full)
          [] q.t = "TOKENS" -> walk_tokens(sv, a)
          [] q.t = "DIAG"   -> emit_diags(sv, a)
          [] q.t = "GOTO"   -> emit_goto(sv, a, path, q)

\* The cursor of a GOTO is on a name of the buffer.
RefsOf(path) ==
    LET items == parse_source(TextOf[path][server.docs[path].ver]).items
        decls == ToSet(FlattenSeq([i \in DOMAIN items |-> DeclsOf(items[i])]))
    IN  UNION {{[line |-> d.line + k, ref |-> d.refs[k]] : k \in DOMAIN d.refs} : d \in decls}
Requests(path) ==
    {[t |-> "HINTS", full |-> f] : f \in BOOLEAN} \union {[t |-> "TOKENS"], [t |-> "DIAG"]}
    \union UNION {{[t |-> "GOTO", kind |-> kind, line |-> x.line, on |-> on] :
                      kind \in IF x.ref.type THEN {"def", "decl", "type", "impl"} ELSE {"def", "decl"},
                      on \in IF x.ref.base = "" THEN {"tail"} ELSE {"base", "tail"}} : x \in RefsOf(path)}

----------------------------------------------------------------------------
\* run_serve: the editor sends a request and reads the reply to its end
\* before it sends the next.
Idle == server.reply = NoReply

Update(path) ==
    /\ Idle /\ (path \in DOMAIN server.docs \/ Cardinality(DOMAIN server.docs) < MaxDocs)
    /\ \E v \in Buffers[path] :
          LET done == Analyze(disk, server, path, v)
          IN  server' = [server EXCEPT !.docs = (path :> done.a) @@ @, !.core = ensure_core(disk, server),
                                       !.g_core_lines = done.core_lines,
                                       !.modules = done.modules, !.owner = path]

Query(path) ==
    /\ Idle /\ path \in DOMAIN server.docs
    /\ \E q \in Requests(path) :
          server' = [server EXCEPT !.reply = [to |-> path, ask |-> q, lines |-> Reply(server, path, q)]]

ReadReply == ~Idle /\ server' = [server EXCEPT !.reply = NoReply]

\* The registry is left as it is: it then points into freed buffers, which no
\* open document owns.
Close(path) ==
    /\ Idle /\ path \in DOMAIN server.docs
    /\ server' = [server EXCEPT !.docs = [p \in DOMAIN @ \ {path} |-> @[p]]]

ServerNext ==
    /\ \/ \E path \in DOMAIN Buffers : Update(path) \/ Query(path) \/ Close(path)
       \/ ReadReply
    /\ UNCHANGED <<disk, saves>>

----------------------------------------------------------------------------
\* What a document says, in its own lines and from the files as they were
\* when it was last sent: the declarations a name in it can stand for.
Sheets(dir) == InDir(Disk, dir, {"ds"})
Standing(path, a) ==
    LET got  == [f \in DOMAIN TextOf |-> parse_source(TextOf[f][IF f = path THEN a.ver ELSE a.seen[f]])]
        src  == source_dir_of(path)
        home == IF Sheets(src) # {} THEN src ELSE Front(src)
        mine == Sheets(home) # {}
        mod  == IF mine THEN Last(home) ELSE ""
        over == IF home # src THEN src ELSE Append(home, Variant(Disk, Env, mod))
        kin  == IF mine THEN {p \in InDir(Disk, home, {"arche", "ds"}) \union InDir(Disk, over, {"arche", "ds"}) :
                                 got[p].ok} \ {path} ELSE {}
        used == {ModuleOf(Disk, Env, got, u, src) : u \in Imports(got[path])}
        mods == Reached(Disk, Env, got, {},
                        used \union UNION {{ModuleOf(Disk, Env, got, u, source_dir_of(p)) : u \in Imports(got[p])} : p \in kin})
        mine_decls == FileDecls(got[path], path, mod, mine)
        all  == mine_decls \union UNION {FileDecls(got[p], p, mod, TRUE) : p \in kin}
                \union UNION {UNION {FileDecls(got[p], p, m.name, Device(Disk, Env, got, m)) :
                                        p \in FilesOfModule(Disk, Env, got, m)} : m \in mods}
                \union (IF path = Core THEN {} ELSE FileDecls(got[Core], Core, "", FALSE))
        lost == {u \in Imports(got[path]) :
                    FilesOfModule(Disk, Env, got, ModuleOf(Disk, Env, got, u, src)) = {}}
    IN  [decls |-> mine_decls,
         refs |-> UNION {{[line |-> x.d.line + k, ref |-> x.d.refs[k], is |-> StandsFor(all, x, x.d.refs[k]),
                           sheet |-> {y \in all : Last(y.path) = "ds" /\ y.d.name = x.d.refs[k].name},
                           home |-> UNION {FilesOfModule(Disk, Env, got, m) : m \in {n \in mods : n.name = x.d.refs[k].base}}] :
                             k \in DOMAIN x.d.refs} : x \in mine_decls},
         wrong |-> {got[path].items[i].line : i \in {j \in DOMAIN got[path].items :
                        got[path].items[j].t = "import" /\ ToSet(got[path].items[j].uses) \intersect lost # {}}}
                   \union IF got[path].ok THEN {} ELSE {1},
         elsewhere |-> UNION {y.d.line .. (y.d.line + Len(y.d.refs)) : y \in {z \in all : z.path # path}}]

At(y) == <<y.d.line, y.path>>
Targets(r, q) ==
    IF q.kind = "decl" /\ r.ref.type /\ r.sheet # {} THEN {At(y) : y \in r.sheet} ELSE {At(y) : y \in r.is}
RightPlace(s, q, lines) ==
    \A r \in s.refs : r.line = q.line /\ r.is # {} =>
        IF q.on = "base" THEN \E f \in r.home : lines = {<<1, f>>}
        ELSE lines = Targets(r, q)
InReach(s, path, q) ==
    \A r \in s.refs : r.line = q.line => q.on # "base" /\ \A t \in Targets(r, q) : t[2] \in {path, Core}

\* Every reply is about the document that was asked for, as it was last sent
\* and with the files as they then were, in its own lines: hints and tokens
\* stand on the lines of its declarations and names and are coloured by what
\* a name stands for, each of its errors is reported and any other report
\* is one on a line of another file of the program, and GOTO finds the
\* declaration that scoping gives the name - whichever documents were
\* sent, closed or asked about before (run_serve; "testing parity with
\* --serve", run_tokens).  The state of the process that the last analysis
\* leaves behind makes two exceptions: after core.arche was sent, replies
\* about other documents, and the other way round; and a GOTO out of a
\* document other than the one sent last into a module.
RepliesFitTheDocument ==
    LET path  == server.reply.to
        q     == server.reply.ask
        lines == server.reply.lines
        s     == Stand(path, server.docs[path])
        Own(x, text) == <<x, text>>
    IN  server.reply # NoReply /\ ((path = Core) = (server.owner = Core)) =>
        CASE q.t = "HINTS" ->
                 lines = {Own(x.d.line, "?reject") : x \in {y \in s.decls : y.d.kind = "pool"}}
                         \union {Own(x.d.line, "type") : x \in {y \in s.decls : q.full /\ y.d.kind # "pool"}}
          [] q.t = "TOKENS" ->
                 LET sure == {Own(x.d.line, "name") : x \in s.decls}
                             \union {Own(r.line, IF r.ref.type THEN "type" ELSE "function") :
                                        r \in {x \in s.refs : x.is # {}}}
                 IN  /\ sure \subseteq lines
                     /\ {e[1] : e \in lines \ sure} = {r.line : r \in {x \in s.refs : x.is = {}}}
          [] q.t = "DIAG" ->
                 LET errors == {Own(l, "error") : l \in s.wrong \union {r.line : r \in {x \in s.refs : x.is = {}}}}
                 IN  /\ errors \subseteq lines
                     /\ \A e \in lines \ errors : e[1] + server.g_core_lines \in s.elsewhere
          [] q.t = "GOTO" ->
                 server.owner = path \/ InReach(s, path, q) => RightPlace(s, q, lines)
=============================================================================
