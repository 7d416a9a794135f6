---------------------------- MODULE BuildMeaning ----------------------------
(***************************************************************************)
(* What a program of several files means, stated without the compiler's    *)
(* walk: which files belong to it, which declaration a name stands for,    *)
(* and from that the bindings a run of the program can meet.  got maps the *)
(* path of every file that was read to its text.                           *)
(***************************************************************************)
EXTENDS Integers, Sequences, FiniteSets, SequencesExt

\* The first nonempty choice in order of precedence.
FirstOf(choices) ==
    LET real == SelectSeq(choices, LAMBDA c : c # "")
    IN  IF real = <<>> THEN "" ELSE Head(real)

\* The value the last line for a key gives it, in a table of a manifest.
TableValue(lines, sec, key) ==
    LET at == {i \in DOMAIN lines :
                  /\ "key" \in DOMAIN lines[i] /\ lines[i].key = key
                  /\ LET heads == {j \in 1 .. i : "sec" \in DOMAIN lines[j]}
                     IN  sec = IF heads = {} THEN <<>>
                               ELSE lines[CHOOSE j \in heads : \A k \in heads : k <= j].sec}
    IN  IF at = {} THEN "" ELSE lines[CHOOSE i \in at : \A k \in at : k <= i].val
SpecValue(spec, dev) ==
    LET at == {i \in DOMAIN spec : spec[i].device = dev}
    IN  IF at = {} THEN "" ELSE spec[CHOOSE i \in at : \A k \in at : k <= i].variant

Manifest(disk, src) ==
    LET near == SelectSeq(disk.parents[src], LAMBDA d : d \in DOMAIN disk.manifests)
    IN  IF near = <<>> THEN <<>> ELSE disk.manifests[Head(near)]

\* A --select beats ARCHE_SELECT, which beats the table of the target, which
\* beats [select].
Variant(disk, opts, dev) ==
    LET lines  == Manifest(disk, <<"app">>)
        target == FirstOf(<<opts.target, opts.env_target, TableValue(lines, <<>>, "target")>>)
    IN  FirstOf(<<SpecValue(opts.select, dev), SpecValue(opts.env_select, dev),
                  TableValue(lines, <<"target", target>>, dev), TableValue(lines, <<"select">>, dev)>>)

----------------------------------------------------------------------------
\* The files of a module.  A module is [name, home, alone, src]: home is the
\* directory it was found in, alone a single file.
InDir(disk, dir, kinds) ==
    IF dir \notin DOMAIN disk.entries THEN {}
    ELSE {dir \o <<disk.entries[dir][i].base, disk.entries[dir][i].kind>> :
             i \in {j \in DOMAIN disk.entries[dir] : disk.entries[dir][j].kind \in kinds}}

Parses(got, path) == path \in DOMAIN got /\ got[path].ok

Dirs(disk, opts, m) ==
    LET folder == Append(m.home, m.name)
    IN  {folder} \union (IF m.byname /\ Variant(disk, opts, m.name) # ""
                         THEN {Append(folder, Variant(disk, opts, m.name))} ELSE {})
FilesOfModule(disk, opts, got, m) ==
    LET folder == UNION {InDir(disk, d, {"arche", "ds"}) : d \in Dirs(disk, opts, m)}
        single == Append(Append(m.home, m.name), "arche")
    IN  {p \in IF InDir(disk, Append(m.home, m.name), {"arche", "ds"}) # {} THEN folder ELSE {single} :
            Parses(got, p)}
ShimsOfModule(disk, opts, m) == UNION {InDir(disk, d, {"c"}) : d \in Dirs(disk, opts, m)}

\* Where a bare name is looked for; a library is its own importing directory.
Roots(disk, opts, src) ==
    LET lines == Manifest(disk, src)
        libs  == opts.env_path
                 \o FlattenSeq([i \in DOMAIN lines |-> IF "paths" \in DOMAIN lines[i]
                                                       THEN lines[i].paths ELSE <<>>])
    IN  <<[home |-> <<"std">>, src |-> src], [home |-> src, src |-> src]>>
        \o [i \in DOMAIN libs |-> [home |-> libs[i], src |-> libs[i]]]
        \o <<[home |-> <<"core">>, src |-> src]>>

ModuleOf(disk, opts, got, u, src) ==
    IF u.by = "path"
    THEN [name |-> u.name, home |-> src \o u.sub, src |-> src \o u.sub, byname |-> FALSE]
    ELSE LET At(root) == [name |-> u.name, home |-> root.home, src |-> root.src, byname |-> TRUE]
             found == SelectSeq(Roots(disk, opts, src),
                                LAMBDA root : FilesOfModule(disk, opts, got, At(root)) # {})
         IN  At(Head(found \o <<[home |-> <<"nowhere">>, src |-> src]>>))

Imports(text) == UNION {ToSet(text.items[i].uses) : i \in {j \in DOMAIN text.items : text.items[j].t = "import"}}

\* Every module the program reaches through its imports.
RECURSIVE Reached(_, _, _, _, _)
Reached(disk, opts, got, done, new) ==
    IF new = {} THEN done
    ELSE LET next == UNION {UNION {{ModuleOf(disk, opts, got, u, m.src) : u \in Imports(got[p])} :
                                      p \in FilesOfModule(disk, opts, got, m)} : m \in new}
         IN  Reached(disk, opts, got, done \union new, next \ (done \union new))

----------------------------------------------------------------------------
\* The declarations of a file: [d, path, mod, region], region of the file
\* where it stands.
RegionAt(items, i) ==
    IF items[i].t = "block" THEN items[i].r
    ELSE LET banners == {items[j].r : j \in {k \in 1 .. i : items[k].t = "banner"}}
         IN  IF "file" \in banners THEN "file" ELSE IF "module" \in banners THEN "module" ELSE "open"
FileDecls(text, path, mod, device) ==
    UNION {{[d |-> ds[k], path |-> path, mod |-> mod, device |-> device, region |-> RegionAt(text.items, i)] :
               k \in DOMAIN ds} :
             <<i, ds>> \in {<<j, IF text.items[j].t = "block" THEN text.items[j].decls ELSE <<text.items[j].d>>>> :
                              j \in {k \in DOMAIN text.items : text.items[k].t \in {"block", "decl"}}}}

Device(disk, opts, got, m) == \E p \in FilesOfModule(disk, opts, got, m) : Last(p) = "ds"

\* Names of the root, of core, and the flat names of modules are seen
\* everywhere; a device's other names only through it.
Open(x) == x.region \in {"open", "foreign"}
Flat(x) == ~x.device \/ x.d.kind = "extern" \/ (x.d.kind = "archetype" /\ Open(x))

\* The declaration a name in the body of x stands for: a #file name of the
\* same file, else a name of the same module, else a flat name that is open
\* (of shapes, one of a #module region too).
StandsFor(all, x, ref) ==
    LET named == {y \in all : y.d.name = ref.name /\ y.d.kind \in {"func", "extern", "archetype"}}
        pick == IF ref.base # "" THEN {y \in named : y.mod = ref.base /\ Open(y)}
                ELSE LET own   == {y \in named : y.region = "file" /\ y.path = x.path}
                         inner == {y \in named : y.region # "file" /\ y.mod = x.mod}
                     IN  IF own # {} THEN own ELSE IF inner # {} THEN inner
                         ELSE {y \in named : Flat(y) /\ (Open(y) \/ (y.d.kind = "archetype" /\ y.region = "module"))}
    IN  pick

\* What a declaration amounts to in the image: a shape has the rows of the
\* program's pool, an extern what the shims define.
Amounts(all, shims, y) ==
    CASE y.d.kind = "archetype" ->
             LET pools == {z \in all : z.d.kind = "pool" /\ z.d.name = y.d.name /\ Last(z.path) # "ds"}
             IN  <<y.d.val, IF pools = {} THEN 0 ELSE (CHOOSE z \in pools : TRUE).d.rows>>
      [] y.d.kind = "extern" ->
             IF \E s \in shims : s.sym = y.d.name
             THEN <<(CHOOSE s \in shims : s.sym = y.d.name).val, 0>> ELSE <<"missing", 0>>
      [] OTHER -> <<y.d.val, 0>>

RECURSIVE Bindings(_, _, _, _)
Bindings(all, shims, done, new) ==
    IF new = {} THEN done
    ELSE LET From(x) == {<<Amounts(all, shims, x), k, Amounts(all, shims, y)>> : <<k, y>> \in
                            UNION {{<<j, z>> : z \in StandsFor(all, x, x.d.refs[j])} : j \in DOMAIN x.d.refs}}
             Next(x) == UNION {StandsFor(all, x, x.d.refs[k]) : k \in DOMAIN x.d.refs}
         IN  Bindings(all, shims, done \union UNION {From(x) : x \in new},
                      {y \in UNION {Next(x) : x \in new} : y.d.kind = "func"})

\* The meaning of the program: whether it has one (every name stands for one
\* declaration, every bare import is a device, storage suffices, and with
\* linked every extern it can reach is defined), its schedule, and every
\* binding of a name that the schedule can reach.
Meaning(disk, opts, got, root, core, shimtext, linked) ==
    LET src   == <<"app">>
        mods  == Reached(disk, opts, got, {},
                         {ModuleOf(disk, opts, got, u, src) : u \in Imports(got[root])})
        all   == FileDecls(got[root], root, "", FALSE) \union FileDecls(got[core], core, "", FALSE)
                 \union UNION {UNION {FileDecls(got[p], p, m.name, Device(disk, opts, got, m)) :
                                         p \in FilesOfModule(disk, opts, got, m)} : m \in mods}
        paths == UNION {ShimsOfModule(disk, opts, m) : m \in mods}
        shims == UNION {shimtext[p] : p \in paths \intersect DOMAIN shimtext}
        runs  == {i \in DOMAIN got[root].items : got[root].items[i].t = "run"}
        leaves == IF runs = {} THEN <<>> ELSE got[root].items[CHOOSE i \in runs : TRUE].leaves
        Named(l) == {y \in all : y.d.kind = "system" /\ y.d.name = l.name /\ y.mod = l.base}
        bound == Bindings(all, shims, {}, UNION {Named(leaves[i]) : i \in DOMAIN leaves})
        Rows(name, ds) == {z.d.rows : z \in {y \in all : y.d.kind = "pool" /\ y.d.name = name
                                                        /\ (Last(y.path) = "ds") = ds}}
    IN  [sound |->
            /\ \A x \in all : \A k \in DOMAIN x.d.refs : Cardinality(StandsFor(all, x, x.d.refs[k])) = 1
            /\ \A i \in DOMAIN leaves : Cardinality(Named(leaves[i])) = 1
            /\ \A m \in mods : m.byname => Device(disk, opts, got, m)
            /\ \A x \in all : \A need \in Rows(x.d.name, TRUE) : \E has \in Rows(x.d.name, FALSE) : has >= need
            /\ linked => \A e \in bound : e[3] # <<"missing", 0>>,
         run |-> [i \in DOMAIN leaves |-> {Amounts(all, shims, y) : y \in Named(leaves[i])}],
         bindings |-> bound]
=============================================================================
