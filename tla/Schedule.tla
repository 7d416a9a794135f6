------------------------------ MODULE Schedule ------------------------------
(***************************************************************************)
(* The schedule of a program built with --gpu: codegen.c places the maps on *)
(* the host or on the device, its coherence pass decides where columns move *)
(* between the two and which pools stay on the device, and the emitted      *)
(* schedule runs with module GpuRuntime.  The tree is kept flat: a step     *)
(* with `when` "new" opens a conditional body, one with "same" belongs to   *)
(* the body before it, and the loop, which only `halt` leaves, runs from    *)
(* loopFrom to the last step; a body of one step is that step, a longer one *)
(* a `seq`.  Placement and coherence treat pools one by one, so there is    *)
(* one.                                                                     *)
(***************************************************************************)
EXTENDS GpuRuntime, SequencesExt

CONSTANTS
    Kernels,    \* the steps: [name, eligible, forced, work, reads, writes, hidden, grows]
    Builds,     \* what placement goes by: the machine's profile and the overrides
    UserSync,   \* the step `gpu.sync(Pool)`
    MaxSteps    \* bound on the length of a schedule

ASSUME ScheduleAssumption ==
    /\ MaxSteps \in Nat
    /\ \A k \in Kernels :
          /\ k.eligible \in BOOLEAN /\ k.forced \in BOOLEAN /\ k.work \in Nat /\ k.grows \in {0, 1}
          /\ k.reads \subseteq Cols /\ k.writes \subseteq Cols /\ k.hidden \subseteq {"reads", "writes"}
          /\ k.eligible => k.reads # {} /\ k.writes # {} /\ k.hidden = {} /\ k.grows = 0
    /\ \A b \in Builds : {b.launch, b.half, b.up, b.down, b.cpu, b.gpu} \subseteq Nat

VARIABLES
    steps,      \* the schedule: [k, when], k a kernel (a placed one from Place on) or UserSync
    build,      \* the build that places it, until it has
    loopFrom,   \* where the loop starts, 0 without one
    coh,        \* CgCoh: what the pass knows before each step it has come to
    pc          \* <<place, step>>

schedVars == <<steps, build, loopFrom, coh, pc>>
allVars == <<gpuVars, schedVars>>

(* The kernels of the instance: a host read, a partial write, the           *)
(* overwriting of a column or of both, an insert, a scan of a column and a  *)
(* sort through a query, and maps over one and two columns of which one is  *)
(* marked @gpu.                                                             *)
Host(r, w) ==
    [name |-> "host", eligible |-> FALSE, forced |-> FALSE, work |-> 0, reads |-> r, writes |-> w, hidden |-> {},
     grows |-> 0]
Map(n, f, r) ==
    [name |-> n, eligible |-> TRUE, forced |-> n = "marked", work |-> f, reads |-> r, writes |-> {1}, hidden |-> {},
     grows |-> 0]
SomeKernels ==
    {Host({1}, {}), Host({1}, {1}), Host({}, {2}), Host({}, Cols), [Host(Cols, Cols) EXCEPT !.grows = 1],
     [Host({1}, {1}) EXCEPT !.hidden = {"writes"}], [Host(Cols, Cols) EXCEPT !.hidden = {"reads", "writes"}],
     Map("light", 1, {1}), Map("mid", 6, {1}), Map("heavy", 8, {1, 2}), Map("marked", 1, {1})}

(* The builds of the instance: without a device, a device far away, one     *)
(* whose transfers cost by the column, and the three ways to override.      *)
NoBuild == [present |-> FALSE, launch |-> 0, half |-> 0, up |-> 0, down |-> 0, cpu |-> 1, gpu |-> 1,
            pin |-> "no", only |-> "", measured |-> {}]
Far == [NoBuild EXCEPT !.present = TRUE, !.cpu = 2, !.launch = 3, !.half = 2]
SomeBuilds ==
    {NoBuild, Far, [Far EXCEPT !.half = 1, !.up = 1, !.down = 2], [Far EXCEPT !.pin = "all"],
     [Far EXCEPT !.pin = "only", !.only = "mid"], [Far EXCEPT !.measured = {<<"heavy", FALSE>>, <<"light", TRUE>>}]}

Whens == {"no", "new", "same"}
NSteps == Len(steps)

(***************************************************************************)
(* The shape of the tree.                                                   *)
(***************************************************************************)
IsRun(i) == steps[i].k # UserSync
LoopBody == loopFrom..NSteps
InLoop(i) == loopFrom # 0 /\ i >= loopFrom
InBody(i, j) == \A x \in (i + 1)..j : steps[x].when = "same"
WhenBody(i) == {j \in i..NSteps : InBody(i, j)}
BodyAround(i) == {j \in 1..NSteps : \E x \in 1..i : steps[x].when = "new" /\ {i, j} \subseteq WhenBody(x)}
EndsWhen(i) == steps[i].when # "no" /\ (i = NSteps \/ steps[i + 1].when # "same")

(* Whether step i is an entry of a `seq`, or a body by itself.              *)
InSeq(i) ==
    IF steps[i].when # "no" THEN Cardinality(BodyAround(i)) > 1
    ELSE IF InLoop(i) THEN NSteps > loopFrom ELSE NSteps > 1

(* cg_kernel_footprint: one read and one write bit for the whole pool.  An  *)
(* access that cg_fp_expr does not see is hidden: it takes the arguments of *)
(* a call for reads, also where a scan or a sort changes the column in      *)
(* place, sees no pool in a column named through a query, and records no    *)
(* pool beyond the 64th of a step.                                          *)
FpRead(k) == k.reads # {} /\ "reads" \notin k.hidden
FpWrite(k) == k.writes # {} /\ "writes" \notin k.hidden

(***************************************************************************)
(* Placement.  Costs are in one unit: launch, half a round trip, a column   *)
(* up and down, a unit of work on the host and on the device.               *)
(***************************************************************************)
Eligible(i) == IsRun(i) /\ steps[i].k.eligible

(* cg_joint_walk_seq: step i extends the cluster that step i - 1 is in.     *)
Extends(i) ==
    /\ i > 1 /\ i # loopFrom /\ Eligible(i - 1) /\ Eligible(i)
    /\ steps[i].when = IF steps[i - 1].when = "no" THEN "no" ELSE "same"
Heads == {i \in 1..NSteps : Eligible(i) /\ InSeq(i) /\ ~Extends(i)}
ClusterAt(h) == SelectSeq([i \in 1..NSteps |-> i], LAMBDA i : i >= h /\ \A x \in (h + 1)..i : Extends(x))

(* cg_joint_collect_host_pools over the loop.                               *)
HostUses(I) == \E i \in I : IsRun(i) /\ ~steps[i].k.eligible /\ (FpRead(steps[i].k) \/ FpWrite(steps[i].k))
ResidentAt(h) == InLoop(h) /\ ~HostUses(LoopBody)

NColsOf(k) == Cardinality(k.reads \cup k.writes)
OneWay(cl) == build.half + build.up * Max({NColsOf(steps[i].k) : i \in ToSet(cl)})
CpuCost(k) == k.work * build.cpu
GpuCost(k) == build.launch + k.work * build.gpu

(* cg_joint_flush: the cheapest way to have run the cluster so far and to   *)
(* end on the host or on the device, and where the step before then ran.    *)
Inf == 1000000
Cheaper(a, b) == IF a <= b THEN a ELSE b
Advance(st, k, xf) ==
    [host |-> CpuCost(k) + Cheaper(st.host, st.dev + xf),
     dev |-> GpuCost(k) + Cheaper(st.dev, st.host + xf),
     came |-> Append(st.came, [host |-> st.host > st.dev + xf, dev |-> st.dev <= st.host + xf])]

LastOnGpuFreeExit(st, xf, home) == st.dev < st.host
LastOnGpu(st, xf, home) ==
    st.dev + (IF home THEN 0 ELSE xf) < st.host + (IF home THEN xf ELSE 0)

(* gpu_of, as the steps of the cluster that go to the device.               *)
JointFlush(h) ==
    LET cl == ClusterAt(h)
        xf == OneWay(cl)
        home == ResidentAt(h)
        st == FoldLeft(LAMBDA s, i : Advance(s, steps[i].k, xf),
                       [host |-> IF home THEN Inf ELSE 0, dev |-> IF home THEN 0 ELSE Inf, came |-> <<>>], cl)
        Back(b, n) == [on |-> IF b.on THEN st.came[n].dev ELSE st.came[n].host,
                       gpu |-> IF b.on THEN b.gpu \cup {cl[n]} ELSE b.gpu]
    IN  IF ~build.present THEN {}
        ELSE FoldLeft(Back, [on |-> LastOnGpu(st, xf, home), gpu |-> {}],
                      Reverse([n \in 1..Len(cl) |-> n])).gpu

(* cg_joint_decision: what was recorded first under the name.               *)
Recorded(k) == {i \in 1..NSteps : Eligible(i) /\ InSeq(i) /\ steps[i].k.name = k.name}
Joint(k) == LET i == Min(Recorded(k)) IN \E h \in Heads : i \in JointFlush(h)

(* cg_placement_prefer_gpu: a dispatch by itself.                           *)
Greedy(k) ==
    /\ build.present
    /\ GpuCost(k) + 2 * build.half + (build.up + build.down) * NColsOf(k) < CpuCost(k)

(* cg_placement_decide: @gpu, ARCHE_FORCE_PLACE, ARCHE_FORCE_PLACE_ONLY, a  *)
(* measurement, the cluster's decision, the estimate.                       *)
Decide(k) ==
    IF k.forced THEN TRUE
    ELSE IF build.pin # "no" THEN build.pin = "all" \/ build.only = k.name
    ELSE IF \E m \in build.measured : m[1] = k.name THEN <<k.name, TRUE>> \in build.measured
    ELSE IF Recorded(k) # {} THEN Joint(k) ELSE Greedy(k)

(* cg_map_placed_gpu.                                                       *)
Placed(k) == [gpu |-> k.eligible /\ Decide(k), reads |-> k.reads, writes |-> k.writes,
              hidden |-> k.hidden, grows |-> k.grows]

(***************************************************************************)
(* The coherence pass.                                                      *)
(***************************************************************************)

(* cg_coh_collect_loop_sets over the steps in I.                            *)
GWrite(I) == \E i \in I : IsRun(i) /\ steps[i].k.gpu /\ FpWrite(steps[i].k)
HWrite(I) == \E i \in I : IsRun(i) /\ ~steps[i].k.gpu /\ FpWrite(steps[i].k)
GTouch(I) == \E i \in I : IsRun(i) /\ steps[i].k.gpu

(* dg, dh: dirty_gpu, dirty_host; flush, sync, upload: the steps a transfer *)
(* is put before; dhIn: dh at the start of the conditional body.  doubts is *)
(* history: data was moved while both copies counted as the newer one       *)
(* ("both"), a download was asked for while the host's did ("asked"), an    *)
(* upload was dropped that a conditional body may not have made ("when"),   *)
(* the overwriting of a column was taken for that of the pool ("column"),   *)
(* a host step that may come after a dispatch has an access that its        *)
(* footprint lacks ("hidden").                                              *)
Unvisited(declared) ==
    [dg |-> FALSE, dh |-> FALSE, seen |-> FALSE, run |-> 0, resident |-> declared,
     flush |-> {}, sync |-> {}, upload |-> {}, dhIn |-> FALSE, doubts |-> {}]
plan == coh[Len(coh)]

Doubt(c, cond, why) == IF cond THEN c.doubts \cup {why} ELSE c.doubts

Seed(c, I) == [c EXCEPT !.dg = @ \/ GWrite(I), !.dh = @ \/ HWrite(I)]

EnterLoop(c) ==
    [Seed(c, LoopBody) EXCEPT !.seen = @ \/ GTouch(LoopBody),
                              !.resident = @ \/ GTouch(LoopBody),
                              !.run = 0]

EnterWhen(c, i) ==
    LET flushed == [c EXCEPT !.flush = IF c.dg THEN @ \cup {i} ELSE @, !.dg = FALSE,
                             !.doubts = Doubt(c, c.dg /\ c.dh, "both")]
    IN  [Seed(flushed, WhenBody(i)) EXCEPT !.run = 0, !.dhIn = c.dh]

(* The transfer a step's reads require.                                     *)
NeedsSync(c, k) == FpRead(k) /\ ~k.gpu /\ c.dg
NeedsUploadUnseen(c, k) == FpRead(k) /\ k.gpu /\ c.dh /\ ~c.seen
NeedsUpload(c, k) == FpRead(k) /\ k.gpu /\ c.dh /\ c.seen

Transfers(c, i) ==
    LET k == steps[i].k
    IN  [c EXCEPT !.sync = IF NeedsSync(c, k) THEN @ \cup {i} ELSE @,
                  !.upload = IF NeedsUpload(c, k) THEN @ \cup {i} ELSE @,
                  !.dg = @ /\ ~NeedsSync(c, k),
                  !.dh = @ /\ ~NeedsUpload(c, k),
                  !.run = IF NeedsSync(c, k) THEN 0 ELSE @,
                  !.doubts = Doubt(c, (NeedsSync(c, k) \/ NeedsUpload(c, k)) /\ c.dg /\ c.dh, "both")]

(* What the step leaves dirty, and the signal for residency.                *)
Effect(c, k) ==
    IF k.gpu
    THEN [c EXCEPT !.seen = TRUE, !.run = @ + 1, !.resident = @ \/ c.run >= 1,
                   !.dg = @ \/ FpWrite(k), !.dh = @ /\ ~FpWrite(k)]
    ELSE [c EXCEPT !.run = 0,
                   !.dh = @ \/ FpWrite(k), !.dg = @ /\ ~FpWrite(k),
                   !.doubts = Doubt(c, c.dg /\ FpWrite(k) /\ k.writes # Cols, "column")
                              \cup Doubt(c, c.seen /\ k.hidden # {}, "hidden")]

(* A `gpu.sync` in the source.                                              *)
Asked(c) == [c EXCEPT !.dg = FALSE, !.run = 0, !.doubts = Doubt(c, c.dh, "asked")]

LeaveWhen(c, i) ==
    LET left == Seed(c, BodyAround(i))
    IN  [left EXCEPT !.doubts = Doubt(c, c.dhIn /\ ~left.dh, "when")]

(* cg_coh_process_child.                                                    *)
Entered(c, i) == IF i = loopFrom THEN EnterLoop(c) ELSE c
Opened(c, i) == IF steps[i].when = "new" THEN EnterWhen(Entered(c, i), i) ELSE Entered(c, i)
Done(c, i) ==
    IF IsRun(i) THEN Effect(Transfers(Opened(c, i), i), steps[i].k) ELSE Asked(Opened(c, i))
Visit(c, i) == IF EndsWhen(i) THEN LeaveWhen(Done(c, i), i) ELSE Done(c, i)

(***************************************************************************)
(* Writing the schedule, and compiling it.                                  *)
(***************************************************************************)
Init ==
    /\ GpuInit
    /\ steps = <<>> /\ build = NoBuild /\ loopFrom = 0
    /\ coh = <<Unvisited(FALSE)>>
    /\ pc = <<"write", 0>>

Write(k, w) ==
    /\ pc[1] = "write" /\ NSteps < MaxSteps
    /\ w = "same" => NSteps > 0 /\ steps[NSteps].when # "no"
    /\ steps' = Append(steps, [k |-> k, when |-> w])
    /\ UNCHANGED <<gpuVars, build, loopFrom, coh, pc>>

(* The loop does not start inside a conditional body.                       *)
Compile ==
    /\ pc[1] = "write" /\ NSteps > 0
    /\ loopFrom' \in {0} \cup {i \in 1..NSteps : steps[i].when # "same"}
    /\ build' \in Builds
    /\ pc' = <<"place", 1>>
    /\ UNCHANGED <<gpuVars, steps, coh>>

(* cg_joint_placement; from here on it matters whether the pool was         *)
(* declared @resident, so that is chosen here.                              *)
Place ==
    /\ pc[1] = "place"
    /\ steps' = [i \in 1..NSteps |-> IF IsRun(i) THEN [steps[i] EXCEPT !.k = Placed(@)] ELSE steps[i]]
    /\ build' = NoBuild
    /\ \E declared \in BOOLEAN : coh' = <<Unvisited(declared)>>
    /\ pc' = <<"pass", 1>>
    /\ UNCHANGED <<gpuVars, loopFrom>>

(* cg_coh_process_seq: one child after the other.                           *)
Pass ==
    /\ pc[1] = "pass"
    /\ coh' = Append(coh, Visit(plan, pc[2]))
    /\ pc' = IF pc[2] < NSteps THEN <<"pass", pc[2] + 1>> ELSE <<"guard", 1>>
    /\ UNCHANGED <<gpuVars, steps, build, loopFrom>>

(***************************************************************************)
(* emit_sched: what the emitted code does at step i.                        *)
(***************************************************************************)
Step == pc[2]
K == steps[Step].k
Goto(place, i) == pc' = <<place, i>>

Continue(i) ==
    IF i <= NSteps THEN Goto("guard", i)
    ELSE IF loopFrom # 0 THEN Goto("guard", loopFrom) ELSE Goto("done", 0)

(* The step after the conditional body.                                     *)
PastWhen(j) == j - 1 \in WhenBody(Step) /\ j \notin WhenBody(Step)

(* The transfers put before a conditional body run before its predicate,    *)
(* which is a call that may read the pool.                                  *)
Flush ==
    /\ pc[1] = "guard" /\ steps[Step].when = "new" /\ Step \in plan.flush
    /\ Goto("test", Step)
    /\ Sync
    /\ UNCHANGED <<steps, build, loopFrom, coh>>

Predicate ==
    /\ pc[1] = "test" \/ (pc[1] = "guard" /\ steps[Step].when = "new" /\ Step \notin plan.flush)
    /\ stale' = (stale \/ \E c \in Cols : ~hostOk[c])
    /\ Goto("move", Step) \/ \E j \in 2..(NSteps + 1) : PastWhen(j) /\ Continue(j)
    /\ UNCHANGED <<hostOk, cache, count, rows, faults, events, steps, build, loopFrom, coh>>

Enter == pc[1] = "move" \/ (pc[1] = "guard" /\ steps[Step].when # "new")

Download ==
    /\ Enter /\ Step \in plan.sync
    /\ Goto("run", Step)
    /\ Sync
    /\ UNCHANGED <<steps, build, loopFrom, coh>>

Refresh ==
    /\ Enter /\ Step \in plan.upload
    /\ Goto("run", Step)
    /\ Upload
    /\ UNCHANGED <<steps, build, loopFrom, coh>>

(* A `gpu.sync` in the source.                                              *)
Obey ==
    /\ Enter /\ ~IsRun(Step)
    /\ Continue(Step + 1)
    /\ Sync
    /\ UNCHANGED <<steps, build, loopFrom, coh>>

Ready == pc[1] = "run" \/ (Enter /\ IsRun(Step) /\ Step \notin plan.sync \cup plan.upload)

RunHost ==
    /\ Ready /\ ~K.gpu
    /\ HostStep(K)
    /\ Continue(Step + 1)
    /\ UNCHANGED <<steps, build, loopFrom, coh>>

RunGpu ==
    /\ Ready /\ K.gpu
    /\ Dispatch(K, plan.resident)
    /\ Continue(Step + 1)
    /\ UNCHANGED <<steps, build, loopFrom, coh>>

FallBack ==
    /\ Ready /\ K.gpu
    /\ DispatchFails(K, plan.resident)
    /\ Continue(Step + 1)
    /\ UNCHANGED <<steps, build, loopFrom, coh>>

Next ==
    \/ \E k \in Kernels \cup {UserSync}, w \in Whens : Write(k, w)
    \/ Compile \/ Place \/ Pass
    \/ Flush \/ Predicate \/ Download \/ Refresh \/ Obey
    \/ RunHost \/ RunGpu \/ FallBack

Spec == Init /\ [][Next]_allVars
-----------------------------------------------------------------------------
(* Where the pass knew which copy is the newer one, which takes that no     *)
(* step after the first dispatch scans, sorts or otherwise touches the pool *)
(* unrecorded, and as long as the pool keeps the size it had when it went   *)
(* resident, the cache has room and no device call fails: no step and no    *)
(* predicate reads a stale copy of a column, on the host or on the device,  *)
(* on any path through the schedule, and no transfer overwrites the only    *)
(* current copy of a column with an older one.                              *)
Orderly == plan.doubts = {} /\ events = {}
SomeCopyCurrent == \A c \in Cols : hostOk[c] \/ (Exists(c) /\ cache[c][1].ok)
CoherentReads == Orderly => ~stale /\ SomeCopyCurrent

(* What a cluster costs when the steps in G go to the device: the work, and *)
(* one way for every two neighbours that differ, the pool's home being the  *)
(* neighbour on both ends.                                                  *)
CostOf(cl, G, home) ==
    LET on == <<home>> \o [n \in 1..Len(cl) |-> cl[n] \in G] \o <<home>>
        work == [n \in 1..Len(cl) |-> IF cl[n] \in G THEN GpuCost(steps[cl[n]].k) ELSE CpuCost(steps[cl[n]].k)]
    IN  FoldLeft(+, 0, work) + OneWay(cl) * Cardinality({n \in 1..(Len(cl) + 1) : on[n] # on[n + 1]})

(* Where nothing overrides it, and no map is scheduled twice, the placement *)
(* of a chain of maps is the cheapest of all there are: splitting it        *)
(* between host and device anywhere else costs at least as much.            *)
ScheduledOnce(cl) ==
    \A i \in ToSet(cl) : \A j \in 1..NSteps : IsRun(j) /\ steps[j].k.name = steps[i].k.name => i = j
LeftToTheModel(cl) == build.present /\ build.pin = "no" /\ build.measured = {} /\ \A i \in ToSet(cl) : ~steps[i].k.forced
PlacementIsCheapest ==
    [][pc[1] = "place" =>
        \A h \in Heads :
            LET cl == ClusterAt(h)
                chosen == {i \in ToSet(cl) : steps'[i].k.gpu}
            IN  ScheduledOnce(cl) /\ LeftToTheModel(cl) =>
                    \A G \in SUBSET ToSet(cl) : CostOf(cl, chosen, ResidentAt(h)) <= CostOf(cl, G, ResidentAt(h))]_allVars
=============================================================================
