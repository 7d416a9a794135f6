------------------------------ MODULE BuildRun ------------------------------
(***************************************************************************)
(* Builds: compile_source of compile/compile.c from the command line to    *)
(* the linked image, several of them at once on one source tree and one    *)
(* object cache, while files are saved, tools fail and builds are killed.  *)
(*                                                                         *)
(* Everything in a build's mkdtemp work directory is its own, so the steps *)
(* of a build are its accesses to what others change or read: each source  *)
(* file, each object of the cache, the shims at the link.  The cache maps  *)
(* a module of IR (an object's name is a hash of it) to "whole", or to     *)
(* "cut" while only a part of the object is there.                         *)
(***************************************************************************)
EXTENDS ModuleResolve, ModuleScope, UnitCodegen, BuildMeaning

CONSTANTS
    Builds,         \* the processes
    Jobs,           \* Jobs[b] is the set of b's invocations: [root, emit, flags, opts]
    MaxFaults, MaxJobs,
    Accepted(_, _, _),      \* SemanticOK of core, user and module texts
    Lowered(_, _, _),       \* lower_to_hir of them
    Means(_, _, _)          \* Meaning of an invocation, the files read and the shims linked

VARIABLES
    cache,          \* the object cache
    procs,          \* the state of every build
    exdev,          \* the work directories are on another file system
    faults          \* tools that failed and builds that were killed

vars == <<disk, cache, procs, exdev, saves, faults>>

NoImage == [exe |-> <<>>, libs |-> <<>>, shims |-> <<>>, hosts |-> <<>>, rt |-> {}]

\* A process before its first invocation; permode is g_per_unit_mode.
Started == [pc |-> "idle", job |-> CHOOSE j \in UNION {Jobs[b] : b \in Builds} : TRUE, jobs |-> 0, permode |-> 0,
            reg |-> FreshRegistries, got |-> <<>>,
            mode |-> [per_unit |-> FALSE, shared |-> FALSE, hot |-> FALSE],
            units |-> <<>>, objs |-> <<>>, image |-> NoImage, rc |-> 1]

Init ==
    /\ TreeInit
    /\ cache = <<>>
    /\ procs = [b \in Builds |-> Started]
    /\ exdev \in BOOLEAN
    /\ faults = 0

Set(b, p)  == procs' = [procs EXCEPT ![b] = p]
\* Every exit past the front end goes through cleanup.
Fail(p)    == [p EXCEPT !.pc = "done", !.rc = 1, !.units = <<>>, !.objs = <<>>, !.image = NoImage]
Ok(p, img) == [p EXCEPT !.pc = "done", !.rc = 0, !.units = <<>>, !.objs = <<>>, !.image = img]
\* got holds the versions of the files this build has read.
Read(p, path)  == TextOf[path][p.got[path]]

----------------------------------------------------------------------------
\* The command line sets the process-wide mode.  The documentation tests and
\* the development loop compile again in the same process, which leaves the
\* mode and the registries as the last compile left them.
Again(j, last) == ("doctest" \in j.flags /\ "doctest" \in last.flags)
                  \/ ("ARCHE_HOT_DIR" \in j.flags /\ j = last)

build_run(b) ==
    \E j \in Jobs[b] :
        LET p == procs[b]
        IN  /\ p.pc \in {"idle", "done"} /\ p.jobs < MaxJobs
            /\ p.jobs > 0 => Again(j, p.job)
            /\ Set(b, [Started EXCEPT
                         !.pc = "source", !.job = j, !.jobs = p.jobs + 1, !.reg = p.reg,
                         !.permode = IF p.jobs > 0 \/ "doctest" \in j.flags THEN p.permode
                                     ELSE IF "--whole-program" \in j.flags
                                     THEN codegen_force_whole_program
                                     ELSE codegen_set_per_unit("--incremental" \in j.flags)])
            /\ UNCHANGED <<disk, cache, exdev, saves, faults>>

\* The order decides: hot reload asks for per-unit code after --emit=shared
\* and wasm have forced the whole program, and the GPU forces it after that.
compile_modes(p) ==
    LET j      == p.job
        forced == j.emit \in {"shared", "wasm"}
        m1     == IF forced THEN codegen_force_whole_program ELSE p.permode
        m2     == IF "ARCHE_HOT_DIR" \in j.flags THEN codegen_set_per_unit(TRUE) ELSE m1
        m3     == IF "--gpu" \in j.flags /\ j.emit = "link" THEN codegen_force_whole_program ELSE m2
    IN  [p EXCEPT !.permode = m3,
                  !.mode = [per_unit |-> codegen_per_unit_enabled(m3, "ARCHE_PER_UNIT" \in j.flags),
                            shared |-> j.emit = "shared",
                            hot |-> "ARCHE_HOT_DIR" \in j.flags]]

\* The driver's file is read before compile_source is called.
ReadSource(b) ==
    LET p == procs[b]
    IN  /\ p.pc = "source"
        /\ Set(b, [compile_modes(p) EXCEPT !.pc = "core", !.got = (p.job.root :> disk[p.job.root])])
        /\ UNCHANGED <<disk, cache, exdev, saves, faults>>

ToLoad(r) == IF r.todo = <<>> THEN "analyze" ELSE "load"
SrcDir == <<"app">>

\* The prelude is read and put in front; an error in either fails the build,
\* and the imports of the driver are loaded.
ReadCore(b) ==
    LET p    == procs[b]
        core == ReadText(Core)
        user == Read(p, p.job.root)
        reg  == Advance(Disk, p.job.opts, resolve_uses(Disk, p.job.opts, p.reg, user, SrcDir))
    IN  /\ p.pc = "core"
        /\ Set(b, IF ~(core.ok /\ user.ok) THEN Fail(p)
                  ELSE [p EXCEPT !.pc = ToLoad(reg), !.reg = reg, !.got = @ @@ (Core :> disk[Core])])
        /\ UNCHANGED <<disk, cache, exdev, saves, faults>>

ReadModule(b) ==
    LET p    == procs[b]
        path == Head(p.reg.todo).path
        text == ReadText(path)
        reg  == Advance(Disk, p.job.opts, register_module_file(p.reg, text))
    IN  /\ p.pc = "load"
        /\ Set(b, [p EXCEPT !.pc = ToLoad(reg), !.reg = reg, !.got = (path :> disk[path]) @@ @])
        /\ UNCHANGED <<disk, cache, exdev, saves, faults>>

\* Analysis and code generation work on what was read: the modules of all
\* units, or why the build fails.
compile_frontend(p) ==
    /\ p.reg.errors = 0
    /\ Accepted(Read(p, Core), Read(p, p.job.root), p.reg.modules)

EmitUnits(p, hir) ==
    IF p.mode.per_unit
    THEN [i \in 1 .. (MaxUnit(hir) + 1) |-> codegen_generate(p.mode, hir, i - 1)]
    ELSE <<codegen_generate(p.mode, hir, 0)>>

AfterEmit(p) ==
    IF p.mode.per_unit /\ p.job.emit = "link"
    THEN IF p.mode.hot THEN "libs" ELSE "unit"
    ELSE "tools"

Generate(b) ==
    LET p     == procs[b]
        hir   == Lowered(Read(p, Core), Read(p, p.job.root), p.reg.modules)
        units == EmitUnits(p, hir)
    IN  /\ p.pc = "analyze"
        /\ Set(b, IF ~compile_frontend(p) THEN Fail(p)
                  ELSE IF UnknownLeaf(hir) \/ ~verify_odr(units) THEN Fail(p)
                  ELSE [p EXCEPT !.pc = AfterEmit(p), !.units = units])
        /\ UNCHANGED <<disk, cache, exdev, saves, faults>>

----------------------------------------------------------------------------
\* A hot build makes a library of every device first, then the host object.
BuildLibs(b) ==
    LET p == procs[b]
    IN  /\ p.pc = "libs"
        /\ Set(b, IF \A i \in 2 .. Len(p.units) : WellFormed(p.units[i])
                  THEN [p EXCEPT !.pc = "unit"] ELSE Fail(p))
        /\ UNCHANGED <<disk, cache, exdev, saves, faults>>

UnitsToBuild(p) == IF p.mode.hot THEN 1 ELSE Len(p.units)
Taken(p, m) ==
    LET objs == Append(p.objs, m)
    IN  [p EXCEPT !.objs = objs, !.pc = IF Len(objs) = UnitsToBuild(p) THEN "link" ELSE "unit"]
NextUnit(p) == p.units[Len(p.objs) + 1]

\* build_unit_object_cached: an object of that name is taken as it is;
\* otherwise the tools make one, and it is published under the name.
LookUp(b) ==
    LET p == procs[b]
    IN  /\ p.pc = "unit"
        /\ Set(b, IF NextUnit(p) \in DOMAIN cache THEN Taken(p, NextUnit(p))
                  ELSE [p EXCEPT !.pc = "opt"])
        /\ UNCHANGED <<disk, cache, exdev, saves, faults>>

CompileUnit(b) ==
    LET p == procs[b]
    IN  /\ p.pc = "opt"
        /\ Set(b, IF WellFormed(NextUnit(p)) THEN [p EXCEPT !.pc = "publish"] ELSE Fail(p))
        /\ UNCHANGED <<disk, cache, exdev, saves, faults>>

\* Mutant: the object is copied straight to its name in the cache.
PublishInPlace(b) ==
    LET p == procs[b]
    IN  /\ p.pc = "publish"
        /\ IF exdev
           THEN Set(b, [p EXCEPT !.pc = "copied"]) /\ cache' = (NextUnit(p) :> "cut") @@ cache
           ELSE Set(b, Taken(p, NextUnit(p))) /\ cache' = (NextUnit(p) :> "whole") @@ cache
        /\ UNCHANGED <<disk, exdev, saves, faults>>

\* A rename within a file system is atomic; across two the object is copied
\* to a temporary of this process in the cache, which is then renamed.
Publish(b) ==
    LET p == procs[b]
    IN  /\ p.pc = "publish"
        /\ IF exdev
           THEN Set(b, [p EXCEPT !.pc = "copied"]) /\ UNCHANGED cache
           ELSE Set(b, Taken(p, NextUnit(p))) /\ cache' = (NextUnit(p) :> "whole") @@ cache
        /\ UNCHANGED <<disk, exdev, saves, faults>>

RenameCopy(b) ==
    LET p == procs[b]
    IN  /\ p.pc = "copied"
        /\ Set(b, Taken(p, NextUnit(p)))
        /\ cache' = (NextUnit(p) :> "whole") @@ cache
        /\ UNCHANGED <<disk, exdev, saves, faults>>

\* llvm-link refuses two definitions of a name.
StrongSyms(m) == {m.defs[i].sym : i \in {j \in DOMAIN m.defs : m.defs[j].link = "strong"}}
Mergeable(mods) == \A i, j \in DOMAIN mods : i # j => StrongSyms(mods[i]) \intersect StrongSyms(mods[j]) = {}
AllWellFormed(p) == \A i \in DOMAIN p.units : WellFormed(p.units[i])

\* The IR itself is asked for: the module as it was generated, or the units
\* after llvm-link has merged them.
EmitIr(b) ==
    LET p == procs[b]
    IN  /\ p.pc = "tools" /\ p.job.emit = "llvm-ir"
        /\ Set(b, IF p.mode.per_unit => AllWellFormed(p) /\ Mergeable(p.units)
                  THEN Ok(p, [NoImage EXCEPT !.exe = p.units]) ELSE Fail(p))
        /\ UNCHANGED <<disk, cache, exdev, saves, faults>>

\* opt and llc (clang for wasm) over the whole program; assembly and an
\* object are not linked.
RunTools(b) ==
    LET p == procs[b]
    IN  /\ p.pc = "tools" /\ p.job.emit # "llvm-ir"
        /\ Set(b, IF ~(AllWellFormed(p) /\ Mergeable(p.units)) THEN Fail(p)
                  ELSE IF p.job.emit \in {"asm", "obj"}
                  THEN Ok(p, [NoImage EXCEPT !.exe = p.units])
                  ELSE [p EXCEPT !.pc = "link", !.objs = p.units])
        /\ UNCHANGED <<disk, cache, exdev, saves, faults>>

----------------------------------------------------------------------------
\* The linker.  An object that was cut short defines its names and nothing
\* else; the program's own definition of a name comes first, merged ones
\* after it, then the shims and the runtime.
ObjectAt(p, m) ==
    IF p.mode.per_unit /\ cache[m] = "cut"
    THEN [m EXCEPT !.defs = [i \in DOMAIN @ |-> [@[i] EXCEPT !.val = <<"cut", 0>>, !.calls = <<>>]]]
    ELSE m

Hits(mods, sym) ==
    LET all == FlattenSeq([i \in DOMAIN mods |-> mods[i].defs])
    IN  SelectSeq(all, LAMBDA d : d.sym = sym /\ d.link # "odr")
        \o SelectSeq(all, LAMBDA d : d.sym = sym /\ d.link = "odr")

\* What a reference meets at run time; a trampoline goes on to the library of
\* its unit.
Bound(img, sym) ==
    LET hits  == Hits(img.exe, sym)
        shims == SelectSeq(img.shims, LAMBDA s : <<s.sym>> = sym)
    IN  IF hits # <<>>
        THEN IF Head(hits).tramp < 0 THEN Head(hits)
             ELSE Head(Hits(<<img.libs[Head(hits).tramp + 1]>>, sym))
        ELSE IF shims # <<>> THEN Define(sym, "strong", <<Head(shims).val, 0>>, <<>>)
        ELSE Define(sym, "none", IF sym \in img.rt THEN <<"runtime", 0>> ELSE <<"missing", 0>>, <<>>)

RECURSIVE ReachedSyms(_, _, _)
ReachedSyms(img, done, new) ==
    IF new = {} THEN done
    ELSE ReachedSyms(img, done \union new,
                     UNION {ToSet(Bound(img, s).calls) : s \in new} \ (done \union new))

\* The names that must be defined: what the entry reaches (the rest is
\* stripped), all of the host of a hot build.
Needed(img, hot) ==
    IF hot THEN UNION {UNION {ToSet(img.exe[i].defs[k].calls) : k \in DOMAIN img.exe[i].defs} :
                          i \in DOMAIN img.exe}
    ELSE ReachedSyms(img, {}, {<<"main">>})

LinkSucceeds(img, job, hot) ==
    /\ Mergeable(img.exe)
    /\ \A i, k \in DOMAIN img.shims : i # k => img.shims[i].sym # img.shims[k].sym
    /\ \A i \in DOMAIN img.exe, k \in DOMAIN img.shims : <<img.shims[k].sym>> \notin StrongSyms(img.exe[i])
    /\ job.emit = "link" =>
          \A s \in Needed(img, hot) : Hits(img.exe, s) # <<>> \/ Bound(img, s).val # <<"missing", 0>>

\* The shims collected while loading are compiled by the link command.
append_link_extras(p) ==
    FlattenSeq([i \in DOMAIN p.reg.shims |->
        SetToSeq(Shim[p.reg.shims[i]][disk[p.reg.shims[i]]])])

LinkStep(b, img) ==
    LET p == procs[b]
    IN  /\ p.pc = "link"
        /\ Set(b, IF LinkSucceeds(img, p.job, p.mode.hot) THEN Ok(p, img) ELSE Fail(p))
        /\ UNCHANGED <<disk, cache, exdev, saves, faults>>
FromUnits(p) == p.mode.per_unit /\ p.job.emit = "link"

\* The host of a hot build: the driver's object with the reload runtime; the
\* devices are the libraries.
LinkHost(b) ==
    LET p == procs[b]
    IN  /\ FromUnits(p) /\ p.mode.hot
        /\ LinkStep(b, [exe |-> [i \in DOMAIN p.objs |-> ObjectAt(p, p.objs[i])], libs |-> p.units,
                        shims |-> append_link_extras(p), hosts |-> <<>>, rt |-> {<<"arche_hot_register">>}])

LinkUnits(b) ==
    LET p == procs[b]
    IN  /\ FromUnits(p) /\ ~p.mode.hot
        /\ LinkStep(b, [NoImage EXCEPT !.exe = [i \in DOMAIN p.objs |-> ObjectAt(p, p.objs[i])],
                                        !.shims = append_link_extras(p)])

\* A wasm module takes no shims: the JavaScript hosts of the devices are put
\* beside it.
LinkWasm(b) ==
    LET p == procs[b]
    IN  /\ p.job.emit = "wasm"
        /\ LinkStep(b, [NoImage EXCEPT !.exe = p.objs, !.hosts = p.reg.hosts])

LinkShared(b) ==
    LET p == procs[b]
    IN  /\ p.job.emit = "shared"
        /\ LinkStep(b, [NoImage EXCEPT !.exe = p.objs, !.shims = append_link_extras(p)])

LinkExecutable(b) ==
    LET p == procs[b]
    IN  /\ p.job.emit = "link" /\ ~FromUnits(p)
        /\ LinkStep(b, [NoImage EXCEPT !.exe = p.objs, !.shims = append_link_extras(p)])

----------------------------------------------------------------------------
\* A tool that fails, or a build that is killed, leaves the cache as it is.
ToolFails(b) ==
    /\ procs[b].pc \in {"opt", "publish", "copied", "libs", "tools", "link"}
    /\ faults < MaxFaults /\ faults' = faults + 1
    /\ Set(b, Fail(procs[b]))
    /\ UNCHANGED <<disk, cache, exdev, saves>>

Killed(b) ==
    /\ procs[b].pc \notin {"idle", "done", "dead"}
    /\ faults < MaxFaults /\ faults' = faults + 1
    /\ Set(b, [Started EXCEPT !.pc = "dead"])
    /\ UNCHANGED <<disk, cache, exdev, saves>>

Saved == (\E path \in DOMAIN disk : Save(path)) /\ UNCHANGED <<cache, procs, exdev, faults>>

Next ==
    \/ \E b \in Builds :
          \/ build_run(b) \/ ReadSource(b) \/ ReadCore(b) \/ ReadModule(b) \/ Generate(b)
          \/ BuildLibs(b) \/ LookUp(b) \/ CompileUnit(b) \/ Publish(b) \/ RenameCopy(b)
          \/ EmitIr(b) \/ RunTools(b)
          \/ LinkHost(b) \/ LinkUnits(b) \/ LinkWasm(b) \/ LinkShared(b) \/ LinkExecutable(b)
          \/ ToolFails(b) \/ Killed(b)
    \/ Saved

Spec == Init /\ [][Next]_vars

----------------------------------------------------------------------------
\* What the image does: its schedule and the bindings the schedule reaches.
ImageMeaning(img) ==
    LET run  == Bound(img, <<"arche_run">>)
        syms == ReachedSyms(img, {}, ToSet(run.calls))
    IN  [run |-> [i \in DOMAIN run.calls |-> {Bound(img, run.calls[i]).val}],
         bindings |-> UNION {{<<Bound(img, s).val, k, Bound(img, Bound(img, s).calls[k]).val>> :
                                 k \in DOMAIN Bound(img, s).calls} : s \in syms}]

\* A build that no tool fails and nobody kills succeeds exactly when the
\* sources, as they were when each was read, make a program, and has then
\* produced that program: every name of the image is bound to the
\* declaration, the variant and the shim that scoping gives it, whatever mode
\* built it, whichever objects came from the cache, whatever the process
\* compiled before, and whatever other builds, saves, failing tools and kills
\* happened meanwhile (compile_source, build_unit_object_cached).  The one
\* exception is a hot build with the GPU on, which has no runtime to link.
BuildsWhatItReads ==
    [][\A b \in Builds :
          LET p == procs[b]
              q == procs'[b]
              m == Means(p.job, q.got, disk)
          IN  /\ p.pc \notin {"done", "dead"} /\ q.pc = "done" /\ faults' = faults
              /\ ~({"ARCHE_HOT_DIR", "--gpu"} \subseteq p.job.flags)
              => /\ q.rc = 0 <=> Read(q, p.job.root).ok /\ ReadText(Core).ok /\ m.sound
                 /\ q.rc = 0 => ImageMeaning(q.image) = [run |-> m.run, bindings |-> m.bindings]]_vars
=============================================================================
