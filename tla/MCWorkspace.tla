---------------------------- MODULE MCWorkspace ----------------------------
(***************************************************************************)
(* One source tree with the processes that read it, builds and the         *)
(* language server of an editor, and an instance of it: a driver with two  *)
(* devices, one of them with two variants and in two places, and a file    *)
(* imported by its path.                                                   *)
(***************************************************************************)
EXTENDS BuildRun, LanguageServer

workspaceVars == <<vars, server>>

WorkspaceInit == Init /\ ServerInit

BuildSide  == Next /\ UNCHANGED server
EditorSide == \/ ServerNext /\ UNCHANGED <<cache, procs, exdev, faults>>
              \/ Saved /\ UNCHANGED server

WorkspaceNext == BuildSide \/ EditorSide

WorkspaceSpec == WorkspaceInit /\ [][WorkspaceNext]_workspaceVars

----------------------------------------------------------------------------

Bare(n) == [base |-> "", name |-> n, type |-> FALSE]
Of(b, n) == [base |-> b, name |-> n, type |-> FALSE]
Shape(n) == [base |-> "", name |-> n, type |-> TRUE]
D(kind, name, refs, val) ==
    [kind |-> kind, name |-> name, refs |-> refs, val |-> val, rows |-> 0, line |-> 0]
P(name, rows) == [D("pool", name, <<>>, name) EXCEPT !.rows = rows]
Item(d) == [t |-> "decl", d |-> d]
Block(r, ds) == [t |-> "block", r |-> r, decls |-> ds]
Banner(r) == [t |-> "banner", r |-> r]
Text(items) == [ok |-> TRUE, items |-> items]
Broken == [ok |-> FALSE, items |-> <<>>]
Use(n) == [by |-> "name", name |-> n, sub |-> <<>>]
UsePath(n) == [by |-> "path", name |-> n, sub |-> <<>>]

MainText(v, refs) == Text(<<
    [t |-> "import", uses |-> <<Use("dev"), Use("dev2"), UsePath("util")>>],
    Item(P("Q", 4)),
    Item(D("func", "helper", <<Bare("core_fn")>>, "helper" \o v)),
    Item(D("system", "step", <<Of("dev", "read"), Bare("helper"), Bare("tool"), Of("dev2", "read"), Shape("Q")>>
                             \o refs, "step")),
    [t |-> "run", leaves |-> <<Bare("step"), Of("dev2", "tick")>>]>>)
OtherText == Text(<<
    [t |-> "import", uses |-> <<Use("dev2")>>],
    Item(D("func", "read", <<Bare("helper")>>, "other_read")),
    Banner("file"),
    Item(D("func", "helper", <<>>, "other_helper")),
    Item(D("system", "go", <<Bare("read"), Of("dev2", "read")>>, "go")),
    [t |-> "run", leaves |-> <<Bare("go")>>]>>)
CoreText == Text(<<Item(D("func", "core_fn", <<>>, "core_fn"))>>)
UtilText == Text(<<Item(D("func", "tool", <<Bare("inner")>>, "tool")), Banner("module"),
                   Item(D("func", "inner", <<>>, "inner"))>>)
Sheet == Text(<<Item(P("Q", 2))>>)
DevText(v) == Text(<<
    Item(D("archetype", "Q", <<>>, "Q")),
    Item(D("func", "read", <<Bare("tag"), Bare("hidden"), Shape("Q")>>, "read" \o v)),
    Block("module", <<D("func", "hidden", <<Bare("be")>>, "hidden" \o v)>>),
    Block("file", <<D("func", "tag", <<>>, "tag")>>)>>)
ImplText(v) == Text(<<
    Block("module", <<D("func", "be", <<Bare("tag"), Bare("dev_c")>>, "be_" \o v)>>),
    Block("file", <<D("func", "tag", <<>>, "tag_" \o v)>>),
    Block("foreign", <<D("extern", "dev_c", <<>>, "dev_c")>>)>>)
Dev2Text(v) == Text(<<
    Item(D("system", "tick", <<Bare("read"), Bare("t_out")>>, "tick")),
    Item(D("func", "read", <<>>, "dev2_read" \o v)),
    Block("foreign", <<D("extern", "t_out", <<>>, "t_out")>>)>>)

App == <<"app">>
Dev == <<"app", "dev">>
Lib == <<"lib">>
E(base, kind) == [base |-> base, kind |-> kind]
MCDisk ==
    [entries |->
        (App :> <<E("main", "arche"), E("other", "arche"), E("util", "arche")>>)
        @@ (Dev :> <<E("dev", "ds"), E("dev", "arche")>>)
        @@ (Append(Dev, "fast") :> <<E("impl", "arche"), E("dev", "c")>>)
        @@ (Append(Dev, "slow") :> <<E("dev", "c"), E("impl", "arche")>>)
        @@ (<<"lib", "dev">> :> <<E("dev", "arche"), E("dev", "ds")>>)
        @@ (<<"lib", "dev2">> :> <<E("dev2", "c"), E("dev2", "arche"), E("dev2", "ds"), E("dev2", "js")>>)
        @@ (<<"core">> :> <<E("core", "arche")>>),
     parents |-> (App :> <<App>>) @@ (Lib :> <<Lib>>) @@ (Dev :> <<Dev, App>>)
                 @@ (Append(Dev, "fast") :> <<Append(Dev, "fast"), Dev, App>>)
                 @@ (<<"core">> :> <<<<"core">>>>),
     manifests |-> App :> <<[key |-> "target", val |-> "web"],
                            [sec |-> <<"select">>], [key |-> "dev", val |-> "fast"],
                            [sec |-> <<"target", "web">>], [key |-> "dev", val |-> "slow"],
                            [sec |-> <<"lib">>], [paths |-> <<Lib>>]>>]

MCCore == <<"core", "core", "arche">>
Main == <<"app", "main", "arche">>
Other == <<"app", "other", "arche">>
MCTextOf ==
    (Main :> <<MainText("1", <<>>), MainText("2", <<>>), MainText("1", <<Of("dev", "hidden"), Bare("inner")>>), Broken>>)
    @@ (Other :> <<OtherText>>)
    @@ (<<"app", "util", "arche">> :> <<UtilText, Broken>>)
    @@ (MCCore :> <<CoreText>>)
    @@ (<<"app", "dev", "dev", "ds">> :> <<Sheet>>)
    @@ (<<"app", "dev", "dev", "arche">> :> <<DevText("1"), DevText("2")>>)
    @@ (<<"app", "dev", "fast", "impl", "arche">> :> <<ImplText("fast")>>)
    @@ (<<"app", "dev", "slow", "impl", "arche">> :> <<ImplText("slow")>>)
    @@ (<<"lib", "dev", "dev", "ds">> :> <<Sheet>>)
    @@ (<<"lib", "dev", "dev", "arche">> :> <<DevText("lib")>>)
    @@ (<<"lib", "dev2", "dev2", "ds">> :> <<Text(<<>>)>>)
    @@ (<<"lib", "dev2", "dev2", "arche">> :> <<Dev2Text("1"), Dev2Text("2")>>)
S(sym, val) == [sym |-> sym, val |-> val]
MCShim ==
    (<<"app", "dev", "fast", "dev", "c">> :> <<{S("dev_c", "c_fast")}>>)
    @@ (<<"app", "dev", "slow", "dev", "c">> :> <<{S("dev_c", "c_slow1")}, {S("dev_c", "c_slow2")}>>)
    @@ (<<"lib", "dev2", "dev2", "c">> :> <<{S("t_out", "c_out")}>>)

Opts == [target |-> "", env_target |-> "", env_select |-> <<>>, select |-> <<>>, env_path |-> <<>>]
Fast == [Opts EXCEPT !.select = <<Entry("dev", "fast")>>]
Desk == [Opts EXCEPT !.env_target = "desk", !.env_select = <<[device |-> "junk"], Entry("dev", "fast")>>]
Job(root, emit, flags, opts) == [root |-> root, emit |-> emit, flags |-> flags, opts |-> opts]

MCJobs ==
    (1 :> {Job(Main, "link", {"--whole-program"}, [Opts EXCEPT !.target = "desk"]),
           Job(Main, "link", {"ARCHE_HOT_DIR"}, Opts),
           Job(Main, "link", {"ARCHE_HOT_DIR", "--gpu"}, Opts),
           Job(Main, "link", {"--incremental"}, Fast),
           Job(Other, "link", {"--incremental"}, Opts),
           Job(Main, "link", {"doctest"}, Opts),
           Job(Other, "link", {"doctest"}, Opts),
           Job(Main, "llvm-ir", {"ARCHE_PER_UNIT"}, Desk),
           Job(Main, "shared", {"--incremental"}, Opts),
           Job(Other, "obj", {}, Opts),
           Job(Other, "wasm", {}, Opts)})
    @@ (2 :> {Job(Other, "link", {"--incremental"}, Opts)})

MCAccepted(core, user, modules) == LET ok == SemanticOK(core, user, modules) IN ok
MCLowered(core, user, modules) == LET hir == lower_to_hir(core, user, modules) IN hir
MCMeans(job, got, now) ==
    LET texts == [f \in DOMAIN MCTextOf |-> MCTextOf[f][IF f \in DOMAIN got THEN got[f] ELSE now[f]]]
        shims == [f \in IF job.emit \in {"link", "shared"} THEN DOMAIN MCShim ELSE {}
                     |-> MCShim[f][now[f]]]
        all == Meaning(MCDisk, job.opts, texts, job.root, MCCore, shims, job.emit = "link")
    IN  all

----------------------------------------------------------------------------
DevFile == <<"app", "dev", "dev", "arche">>
FastFile == <<"app", "dev", "fast", "impl", "arche">>
MCBuffers == (Main :> {1, 3, 4}) @@ (DevFile :> {1, 2}) @@ (FastFile :> {1}) @@ (MCCore :> {1})
MCAnalyze(tree, sv, path, v) == LET done == analyze(tree, sv, path, v) IN done
MCReply(sv, path, q) == LET lines == Answer(sv, path, q) IN lines
MCStand(path, a) == LET s == Standing(path, a) IN s

\* Either the project is built, or it is edited with the server running.
Building == \E b \in Builds : procs[b].pc # "idle"
Edited == {p \in DOMAIN disk : disk[p] # 1}
ReadByServer == {<<"app", "util", "arche">>, DevFile}
MCNext ==
    \/ server.core = 0 /\ BuildSide
    \/ ~Building /\ ~exdev /\ Edited \subseteq ReadByServer /\ EditorSide
MCSpec == WorkspaceInit /\ [][MCNext]_workspaceVars
=============================================================================
