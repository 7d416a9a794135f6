--------------------------- MODULE ModuleResolve ---------------------------
(***************************************************************************)
(* The source tree and how modules are found in it: the selection of       *)
(* backends and library roots of compile/variant_select.c, the search      *)
(* policy of compile/module_resolve.c, and the callbacks and registries of *)
(* compile/compile.c.                                                      *)
(*                                                                         *)
(* A directory is a sequence of names; dirs.entries gives the entries of   *)
(* every existing directory in the order readdir returns them, each        *)
(* [base, kind] with kind "arche", "ds" (.ds.arche), "c" or "js".  The     *)
(* directories do not change, the files are saved by an editor.  Loading   *)
(* is a depth-first walk that reads one file after another; the program's  *)
(* call stack is the sequence r.todo, and the walk stops before every file *)
(* read, so that a file may be saved between two of them.                  *)
(*                                                                         *)
(* A manifest is the sequence of lines of the nearest arche.toml: section  *)
(* headers [sec |-> <<s>>] or [sec |-> <<"target", t>>], key lines         *)
(* [key |-> k, val |-> v] and the array [paths |-> <<dirs>>].  A variant   *)
(* map is a sequence of (device, variant) entries, as the code keeps it; a *)
(* variant of "" is the NULL of a device whose selection was taken back.   *)
(***************************************************************************)
EXTENDS Integers, Sequences, FiniteSets, SequencesExt

CONSTANTS
    Disk,           \* entries, parents and manifests of the source tree
    TextOf,         \* TextOf[p] is the sequence of the versions of file p
    Shim,           \* what a .c file defines: Shim[p][v] is a set of [sym, val]
    Core,           \* the path of core.arche
    MaxSaves,
    MaxTargets,     \* MANIFEST_MAX_TARGETS
    MaxLibRoots,    \* ARCHE_LIB_MAX_ROOTS
    MaxLoaded       \* MAX_LOADED_MODS

ASSUME MaxTargets \in Nat /\ MaxLibRoots \in Nat /\ MaxLoaded \in Nat

VARIABLES
    disk,           \* the version of every file
    saves

TreeInit ==
    /\ disk = [p \in DOMAIN TextOf \union DOMAIN Shim |-> 1]
    /\ saves = 0

TextAt(tree, path) == TextOf[path][tree[path]]
ReadText(path) == TextAt(disk, path)

VersionsOf(path) == IF path \in DOMAIN TextOf THEN DOMAIN TextOf[path] ELSE DOMAIN Shim[path]
Save(path) ==
    /\ saves < MaxSaves /\ saves' = saves + 1
    /\ \E v \in VersionsOf(path) \ {disk[path]} : disk' = [disk EXCEPT ![path] = v]

----------------------------------------------------------------------------
Entry(d, v) == [device |-> d, variant |-> v]

\* Override the device's entry in place, or append it; an empty variant is
\* stored only over an existing entry.
variant_map_set(m, d, v) ==
    LET at == SelectInSeq(m, LAMBDA e : e.device = d)
    IN  IF d = "" THEN m
        ELSE IF at # 0 THEN [m EXCEPT ![at].variant = v]
        ELSE IF v = "" THEN m
        ELSE Append(m, Entry(d, v))

variant_map_merge(dst, src) ==
    FoldLeft(LAMBDA m, e : variant_map_set(m, e.device, e.variant), dst, src)

\* A "dev=var,dev=var" spec, its entries already split at the commas: entries
\* without "=" (no variant field) are passed over.
variant_map_parse(m, spec) ==
    variant_map_merge(m, SelectSeq(spec, LAMBDA e : "variant" \in DOMAIN e))

variant_map_lookup(m, d) ==
    LET at == SelectInSeq(m, LAMBDA e : e.device = d)
    IN  IF at = 0 THEN "" ELSE m[at].variant

----------------------------------------------------------------------------
\* The nearest directory, going up from dir, that holds an arche.toml; dirs
\* gives every directory its parent chain and every manifest its lines.
find_manifest(dirs, dir) ==
    LET up == SelectSeq(dirs.parents[dir], LAMBDA p : p \in DOMAIN dirs.manifests)
    IN  IF up = <<>> THEN <<>> ELSE Head(up)

NoManifest == [target |-> "", select |-> <<>>, targets |-> <<>>, section |-> <<>>]

\* The map of [target.name], created on first use unless the table is full.
manifest_target_map(mf, name) ==
    IF \E i \in DOMAIN mf.targets : mf.targets[i].name = name
       \/ Len(mf.targets) >= MaxTargets
    THEN mf
    ELSE [mf EXCEPT !.targets = Append(@, [name |-> name, map |-> <<>>])]

ManifestLine(mf, ln) ==
    IF "sec" \in DOMAIN ln
    THEN [mf EXCEPT !.section = ln.sec]
    ELSE IF "key" \notin DOMAIN ln THEN mf
    ELSE IF mf.section = <<>>
    THEN IF ln.key = "target" THEN [mf EXCEPT !.target = ln.val] ELSE mf
    ELSE IF mf.section = <<"select">>
    THEN [mf EXCEPT !.select = variant_map_set(@, ln.key, ln.val)]
    ELSE IF mf.section[1] = "target"
    THEN LET t == manifest_target_map(mf, mf.section[2])
         IN  [t EXCEPT !.targets =
                 [i \in DOMAIN @ |->
                     IF @[i].name = mf.section[2]
                     THEN [@[i] EXCEPT !.map = variant_map_set(@, ln.key, ln.val)]
                     ELSE @[i]]]
    ELSE mf

manifest_parse(dirs, dir) ==
    LET home == find_manifest(dirs, dir)
    IN  IF home = <<>> THEN NoManifest
        ELSE FoldLeft(ManifestLine, NoManifest, dirs.manifests[home])

\* select, then the active target's table, then ARCHE_SELECT, then --select;
\* a target without a table is only warned about.
variant_map_load_resolved(dirs, opts, dir) ==
    LET mf     == manifest_parse(dirs, dir)
        active == IF opts.target # "" THEN opts.target
                  ELSE IF opts.env_target # "" THEN opts.env_target
                  ELSE mf.target
        table  == SelectSeq(mf.targets, LAMBDA t : t.name = active)
        base   == variant_map_merge(<<>>, mf.select)
        aimed  == IF active = "" \/ table = <<>> THEN base
                  ELSE variant_map_merge(base, Head(table).map)
    IN  variant_map_merge(variant_map_parse(aimed, opts.env_select),
                          variant_map_parse(<<>>, opts.select))

----------------------------------------------------------------------------
lib_roots_add(roots, dir) ==
    IF dir = <<>> \/ Len(roots) >= MaxLibRoots \/ Contains(roots, dir)
    THEN roots
    ELSE Append(roots, dir)

\* The entries of [lib] paths, whatever lines they are spread over.
lib_roots_from_manifest(roots, lines) ==
    FoldLeft(LAMBDA acc, ln :
                IF "sec" \in DOMAIN ln THEN [acc EXCEPT !.sec = ln.sec]
                ELSE IF acc.sec = <<"lib">> /\ "paths" \in DOMAIN ln
                THEN [acc EXCEPT !.roots = FoldLeft(lib_roots_add, @, ln.paths)]
                ELSE acc,
             [sec |-> <<>>, roots |-> roots], lines).roots

\* ARCHE_PATH, then the manifest's [lib] paths, then the project root.
arche_lib_roots(dirs, opts, dir) ==
    LET env  == FoldLeft(lib_roots_add, <<>>, opts.env_path)
        home == find_manifest(dirs, dir)
    IN  IF home = <<>> THEN env
        ELSE lib_roots_add(lib_roots_from_manifest(env, dirs.manifests[home]), home)

----------------------------------------------------------------------------
Path(dir, e) == dir \o <<e.base, e.kind>>
DirExists(dirs, dir) == dir \in DOMAIN dirs.entries

\* The registries of a process that has compiled nothing yet.
FreshRegistries ==
    [loaded |-> <<>>, devices |-> {}, shims |-> <<>>, hosts |-> <<>>, errors |-> 0,
     modules |-> <<>>, variants |-> <<>>, todo |-> <<>>, ret |-> 0]

Push(r, f)    == [r EXCEPT !.todo = <<f>> \o @]
Replace(r, f) == [r EXCEPT !.todo = <<f>> \o Tail(@)]
Return(r, n)  == [r EXCEPT !.todo = Tail(@), !.ret = n]

compile_add_c_shim(r, p) ==
    IF Contains(r.shims, p) \/ Len(r.shims) >= MaxLoaded
    THEN r ELSE [r EXCEPT !.shims = Append(@, p)]
compile_add_js_host(r, p) ==
    IF Contains(r.hosts, p) \/ Len(r.hosts) >= MaxLoaded
    THEN r ELSE [r EXCEPT !.hosts = Append(@, p)]
mark_device_module(r, name) ==
    IF Cardinality(r.devices) < MaxLoaded
    THEN [r EXCEPT !.devices = @ \union {name}] ELSE r
\* Marking before the load makes import cycles end.
compile_mark_seen(r, name) ==
    IF Len(r.loaded) < MaxLoaded THEN [r EXCEPT !.loaded = Append(@, name)] ELSE r

----------------------------------------------------------------------------
\* The roots a bare name is searched in: stdlib, the importing file's
\* directory, the library roots (each its own source directory), core.
SearchRoots(dirs, opts, src) ==
    LET libs == arche_lib_roots(dirs, opts, src)
    IN  <<[dir |-> <<"std">>, src |-> src, origin |-> "stdlib"],
          [dir |-> src, src |-> src, origin |-> "user"]>>
        \o [i \in DOMAIN libs |-> [dir |-> libs[i], src |-> libs[i], origin |-> "user"]]
        \o <<[dir |-> <<"core">>, src |-> src, origin |-> "core"]>>

arche_module_load_by_name(dirs, opts, r, name, src) ==
    IF Contains(r.loaded, name) THEN r
    ELSE Push([compile_mark_seen(r, name) EXCEPT !.ret = 0],
              [f |-> "search", mod |-> name, roots |-> SearchRoots(dirs, opts, src), apply |-> TRUE])

\* The name of the module is the last part of the path: two files of one
\* name in two directories are one module.
arche_module_load_by_path(r, u, src) ==
    LET dir == src \o u.sub
    IN  IF Contains(r.loaded, u.name) THEN r
        ELSE Push([compile_mark_seen(r, u.name) EXCEPT !.ret = 0],
                  [f |-> "search", mod |-> u.name, apply |-> FALSE,
                   roots |-> <<[dir |-> dir, src |-> dir, origin |-> "user"]>>])

\* The next import of an #import; a bare name is checked to be a device once
\* it is loaded.
load_uses_of(dirs, opts, r) ==
    LET fr == Head(r.todo)
        u  == Head(fr.uses)
        r1 == Replace(r, [fr EXCEPT !.uses = Tail(@)])
    IN  IF fr.uses = <<>> THEN Return(r, 1)
        ELSE IF u.by = "path" THEN arche_module_load_by_path(r1, u, fr.src)
        ELSE arche_module_load_by_name(dirs, opts,
                 Push(r1, [f |-> "rule1", mod |-> u.name]), u.name, fr.src)

\* Try the next root until one registered a file.
SearchNext(r) ==
    LET fr == Head(r.todo)
        t  == Head(fr.roots)
    IN  IF r.ret > 0 \/ fr.roots = <<>> THEN Return(r, r.ret)
        ELSE Push(Replace(r, [fr EXCEPT !.roots = Tail(@)]),
                  [f |-> "folder", mod |-> fr.mod, dir |-> t.dir, src |-> t.src,
                   origin |-> t.origin, apply |-> fr.apply, n |-> 0])

MergeFrame(dirs, fr, folder) ==
    [f |-> "merge", mod |-> fr.mod, src |-> fr.src, origin |-> fr.origin, dir |-> folder,
     n |-> 0,
     left |-> IF DirExists(dirs, folder) THEN dirs.entries[folder] ELSE <<>>]

\* A folder's files, then those of its selected variant; without a folder the
\* single file of that name.
try_load_dir(dirs, r) ==
    LET fr      == Head(r.todo)
        folder  == Append(fr.dir, fr.mod)
        variant == IF fr.apply THEN variant_map_lookup(r.variants, fr.mod) ELSE ""
        single  == [base |-> fr.mod, kind |-> "arche"]
    IN  CASE fr.f = "folder" ->
                 Push(Replace(r, [fr EXCEPT !.f = "merged"]), MergeFrame(dirs, fr, folder))
          [] fr.f = "merged" /\ r.ret > 0 ->
                 LET back == Replace(r, [f |-> "result", n |-> r.ret])
                 IN  IF variant = "" THEN back
                     ELSE Push(back, MergeFrame(dirs, fr, Append(folder, variant)))
          [] fr.f = "merged" /\ r.ret = 0 ->
                 IF DirExists(dirs, fr.dir) /\ Contains(dirs.entries[fr.dir], single)
                 THEN Replace(r, [f |-> "file", mod |-> fr.mod, path |-> Path(fr.dir, single),
                                  src |-> fr.src, origin |-> fr.origin])
                 ELSE Return(r, 0)

\* The next entry of a directory: a shim and a host are collected, a source
\* is read; a datasheet marks the device whether or not it parsed.
merge_arche_dir(r) ==
    LET fr == Head(r.todo)
        e  == Head(fr.left)
        p  == Path(fr.dir, e)
        r1 == Replace(r, [fr EXCEPT !.left = Tail(@)])
    IN  IF fr.left = <<>> THEN Return(r, fr.n)
        ELSE CASE e.kind = "c"  -> compile_add_c_shim(r1, p)
               [] e.kind = "js" -> compile_add_js_host(r1, p)
               [] OTHER ->
                    Push(Push(r1, [f |-> "added", ds |-> e.kind = "ds", mod |-> fr.mod]),
                         [f |-> "file", mod |-> fr.mod, path |-> p, src |-> fr.src,
                          origin |-> fr.origin])

\* Back from a file of a folder: count it.
FileAdded(r) ==
    LET fr == Head(r.todo)
        r1 == [r EXCEPT !.todo = [Tail(@) EXCEPT ![1].n = @ + r.ret]]
    IN  IF fr.ds THEN mark_device_module(r1, fr.mod) ELSE r1

Rule1(r) ==
    LET fr == Head(r.todo)
        r1 == Return(r, 1)
    IN  IF fr.mod = "core" \/ fr.mod \in r.devices THEN r1
        ELSE [r1 EXCEPT !.errors = @ + 1]

\* The file at the top of the stack has been read as text: register it with
\* both back ends and load its own imports; a file that does not parse is
\* reported and left out.
UsesOf(text) == FlattenSeq([i \in DOMAIN text.items |->
                    IF text.items[i].t = "import" THEN text.items[i].uses ELSE <<>>])

register_module_file(r, text) ==
    LET fr == Head(r.todo)
        r1 == [r EXCEPT !.modules = Append(@, [name |-> fr.mod, path |-> fr.path, text |-> text,
                                               ds |-> Last(fr.path) = "ds",
                                               origin |-> fr.origin])]
    IN  IF text.ok THEN Replace(r1, [f |-> "uses", uses |-> UsesOf(text), src |-> fr.src])
        ELSE Return(r, 0)

ResolveStep(dirs, opts, r) ==
    CASE Head(r.todo).f = "uses"                 -> load_uses_of(dirs, opts, r)
      [] Head(r.todo).f = "search"               -> SearchNext(r)
      [] Head(r.todo).f \in {"folder", "merged"} -> try_load_dir(dirs, r)
      [] Head(r.todo).f = "merge"                -> merge_arche_dir(r)
      [] Head(r.todo).f = "added"                -> FileAdded(r)
      [] Head(r.todo).f = "result"               -> Return(r, Head(r.todo).n)
      [] Head(r.todo).f = "rule1"                -> Rule1(r)

\* Go on until the next file has to be read.
RECURSIVE Advance(_, _, _)
Advance(dirs, opts, r) ==
    IF r.todo = <<>> \/ Head(r.todo).f = "file" THEN r
    ELSE Advance(dirs, opts, ResolveStep(dirs, opts, r))

\* Every registry of the process is cleared first: the documentation tests
\* compile many programs in one process.
resolve_uses(dirs, opts, old, text, src) ==
    Push([old EXCEPT !.loaded = <<>>, !.devices = {}, !.shims = <<>>, !.hosts = <<>>,
                     !.errors = 0, !.modules = <<>>, !.todo = <<>>, !.ret = 0,
                     !.variants = variant_map_load_resolved(dirs, opts, src)],
         [f |-> "uses", uses |-> UsesOf(text), src |-> src])
=============================================================================
