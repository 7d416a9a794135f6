--------------------------- MODULE DevLoopProofs ---------------------------
(***************************************************************************)
(* Proofs about the development loop, for every set of sessions, number of  *)
(* devices and source texts, and without a bound on saves and failures.     *)
(***************************************************************************)
EXTENDS DevLoop, TLAPS

Images == Libs \cup {NoLib}
Files == [lib : Images, mtime : Nat]
Hosts == [alive : BOOLEAN, dir : Dirs, loading : 0..NUnits, seen : Nat,
          image : [Units -> Images], mtime : [Units -> Nat], gen : [Units -> Nat]]
Places == {"off", "read", "publish", "hash", "fork", "baseline", "poll"}
Watchers == [pc : Places, dir : Dirs, first : BOOLEAN, unit : 1..(NUnits + 1),
             ir : [Units -> Texts], built : [Units -> Texts], m : Nat, watch : Nat,
             skipped : BOOLEAN]

HotTypes == so \in [Dirs -> [Units -> Files]] /\ host \in [Sessions -> Hosts]
DevTypes ==
    /\ src \in [Sessions -> [Units -> Texts]] /\ newest \in Nat
    /\ hash \in [Dirs -> [Units -> Images]]
    /\ ses \in [Sessions -> Watchers]
    /\ torn \in BOOLEAN

TypeInv == HotTypes /\ DevTypes

(* Where a session can be: it works in the shared directory or in its own,  *)
(* with its host if it has one, and it has none during its first build.     *)
PlaceInv(s) ==
    /\ ses[s].dir \in {"shared", s} /\ host[s].dir \in {"shared", s}
    /\ At(s, "hash") => ses[s].unit \in Units
    /\ At(s, "fork") => ses[s].first
    /\ At(s, "baseline") \/ At(s, "poll") => ~ses[s].first
    /\ ~At(s, "off") /\ ses[s].first => ~host[s].alive
    /\ ~At(s, "off") /\ host[s].alive => ses[s].dir = host[s].dir

(* A session uses a directory while it or the host it left behind lives.    *)
Uses(s, d) ==
    \/ ~At(s, "off") /\ ses[s].dir = d
    \/ host[s].alive /\ host[s].dir = d

(* flock works: at most one session uses the shared directory.              *)
Exclusive == \A s, t \in Sessions : Uses(s, "shared") /\ Uses(t, "shared") => s = t

BaseInv == TypeInv /\ (\A s \in Sessions : PlaceInv(s)) /\ Exclusive

-----------------------------------------------------------------------------
LEMMA Constants ==
    /\ NUnits \in Nat \ {0} /\ "shared" \in Dirs /\ "shared" \notin Sessions
    /\ Sessions \subseteq Dirs
    /\ NoFiles \in [Units -> Files] /\ NoHashes \in [Units -> Images]
    /\ Units = 1..NUnits /\ Units \subseteq Nat /\ 0 \notin Units
  <1>1. NUnits \in Nat \ {0} /\ "shared" \in Dirs /\ "shared" \notin Sessions /\ Sessions \subseteq Dirs
    BY HotAssumption DEF Dirs
  <1>2. NoFile \in Files
    BY DEF NoFile, Files, Images
  <1>3. NoFiles \in [Units -> Files] /\ NoHashes \in [Units -> Images]
    BY <1>2 DEF NoFiles, NoHashes, Images
  <1> QED
    BY <1>1, <1>3 DEF Units

LEMMA FreshType ==
    ASSUME NEW d \in Dirs
    PROVE  Fresh(d) \in Hosts /\ NoHost(d) \in Hosts
  <1>1. Fresh(d) \in Hosts
    BY HotAssumption DEF Fresh, Hosts, Images
  <1>2. NoHost(d) = [Fresh(d) EXCEPT !.alive = FALSE]
    BY DEF NoHost
  <1> QED
    BY <1>1, <1>2 DEF Hosts

LEMMA OffType == Off \in Watchers /\ Sources \in [Units -> Texts]
  <1>1. Sources \in [Units -> Texts]
    BY DevAssumption DEF Sources
  <1> QED
    BY <1>1, HotAssumption DEF Off, Watchers, Places, Dirs

(* The watcher of session s as a record of its own, and no other changed.   *)
Moves(s, pc, dir, first, unit, ir, built, m, watch, skipped) ==
    /\ ses' \in [Sessions -> Watchers]
    /\ ses'[s].pc = pc /\ ses'[s].dir = dir /\ ses'[s].first = first /\ ses'[s].unit = unit
    /\ ses'[s].ir = ir /\ ses'[s].built = built /\ ses'[s].m = m /\ ses'[s].watch = watch
    /\ ses'[s].skipped = skipped
    /\ \A t \in Sessions : t # s => ses'[t] = ses[t]

(* How each step of the watcher moves it.                                   *)
LEMMA WatcherMoves ==
    ASSUME TypeInv, NEW s \in Sessions
    PROVE  LET w == ses[s]
               P(pc) == Moves(s, pc, w.dir, w.first, w.unit, w.ir, w.built, w.m, w.watch, w.skipped)
           IN  /\ \A d \in Dirs : Becomes(s, [Off EXCEPT !.pc = "read", !.dir = d]) =>
                     Moves(s, "read", d, TRUE, 1, Sources, Sources, 0, 0, FALSE)
               /\ \A p \in Places : Goto(s, p) => P(p)
               /\ Rejected(s) \/ ToolFails(s) => P(IF w.first THEN "off" ELSE "poll")
               /\ ReadUnit(s) => Moves(s, "read", w.dir, w.first, w.unit + 1,
                                       [w.ir EXCEPT ![w.unit] = src[s][w.unit]],
                                       w.built, w.m, w.watch, w.skipped)
               /\ Accepted(s) => Moves(s, "publish", w.dir, w.first, 1, w.ir, w.built, w.m, w.watch, w.skipped)
               /\ Reuse(s) => Moves(s, "publish", w.dir, w.first, w.unit + 1, w.ir, w.built, w.m, w.watch, w.skipped)
               /\ w.unit \in Units /\ NextUnit(s) =>
                     Moves(s, "publish", w.dir, w.first, w.unit + 1, w.ir, w.built, w.m, w.watch, w.skipped)
               /\ Linked(s) => Moves(s, IF w.first THEN "fork" ELSE "poll", w.dir, w.first, w.unit, w.ir, w.ir,
                                     w.m, WatchAfter(s), FALSE)
               /\ Fork(s) => Moves(s, "baseline", w.dir, FALSE, w.unit, w.ir, w.built, w.m, w.watch, w.skipped)
               /\ Baseline(s) => Moves(s, "poll", w.dir, w.first, w.unit, w.ir, w.built, w.m, newest, w.built # src[s])
               /\ Rebuild(s) => Moves(s, "read", w.dir, w.first, 1, w.ir, w.built, newest, w.watch, w.skipped)
               /\ EntryUnreadable(s) =>
                     Moves(s, w.pc, w.dir, w.first, w.unit, w.ir, w.built, w.m, newest, w.built # src[s])
  <1> DEFINE w == ses[s]
             P(pc) == Moves(s, pc, w.dir, w.first, w.unit, w.ir, w.built, w.m, w.watch, w.skipped)
  <1>1. ses \in [Sessions -> Watchers] /\ w \in Watchers /\ newest \in Nat /\ NUnits \in Nat
        /\ src[s] \in [Units -> Texts]
    BY Constants DEF TypeInv, DevTypes
  <1>2. Places = {"off", "read", "publish", "hash", "fork", "baseline", "poll"} /\ 1 \in 1..(NUnits + 1)
    BY <1>1 DEF Places
  <1>3. ASSUME NEW d \in Dirs, Becomes(s, [Off EXCEPT !.pc = "read", !.dir = d])
        PROVE  Moves(s, "read", d, TRUE, 1, Sources, Sources, 0, 0, FALSE)
    BY <1>1, <1>2, <1>3, OffType DEF Moves, Becomes, Off, Watchers
  <1>4. ASSUME NEW p \in Places, Goto(s, p) PROVE P(p)
    BY <1>1, <1>4 DEF Goto, Becomes, Moves, Watchers
  <1>5. ASSUME Rejected(s) \/ ToolFails(s) PROVE P(IF w.first THEN "off" ELSE "poll")
    <2>1. (IF w.first THEN "off" ELSE "poll") \in Places
      BY <1>2
    <2>2. Goto(s, IF w.first THEN "off" ELSE "poll")
      BY <1>5 DEF Rejected, ToolFails, AfterFailure, Goto
    <2> QED
      BY <1>4, <2>1, <2>2
  <1>6. ASSUME ReadUnit(s)
        PROVE  Moves(s, "read", w.dir, w.first, w.unit + 1, [w.ir EXCEPT ![w.unit] = src[s][w.unit]],
                     w.built, w.m, w.watch, w.skipped)
    <2>1. w.unit \in Units /\ w.unit + 1 \in 1..(NUnits + 1) /\ w.pc = "read"
      BY <1>1, <1>6 DEF ReadUnit, Watchers, Units, At
    <2> DEFINE i == [w.ir EXCEPT ![w.unit] = src[s][w.unit]]
    <2>2. i \in [Units -> Texts]
      BY <1>1, <2>1 DEF Watchers
    <2>3. ses' = [ses EXCEPT ![s] = [w EXCEPT !.ir = i, !.unit = w.unit + 1]]
      BY <1>1, <1>6 DEF ReadUnit, Becomes
    <2>4. Moves(s, "read", w.dir, w.first, w.unit + 1, i, w.built, w.m, w.watch, w.skipped)
      <3> HIDE DEF i
      <3> QED
        BY <1>1, <2>1, <2>2, <2>3 DEF Moves, Watchers
    <2> QED
      BY <2>4
  <1>7. ASSUME Accepted(s)
        PROVE  Moves(s, "publish", w.dir, w.first, 1, w.ir, w.built, w.m, w.watch, w.skipped)
    BY <1>1, <1>2, <1>7 DEF Accepted, Becomes, Moves, Watchers
  <1>8. ASSUME Reuse(s)
        PROVE  Moves(s, "publish", w.dir, w.first, w.unit + 1, w.ir, w.built, w.m, w.watch, w.skipped)
    <2>1. w.unit + 1 \in 1..(NUnits + 1) /\ w.pc = "publish"
      BY <1>1, <1>8 DEF Reuse, Publishing, Watchers, At
    <2> QED
      BY <1>1, <1>8, <2>1 DEF Reuse, Becomes, Moves, Watchers
  <1>9. ASSUME w.unit \in Units, NextUnit(s)
        PROVE  Moves(s, "publish", w.dir, w.first, w.unit + 1, w.ir, w.built, w.m, w.watch, w.skipped)
    <2>1. w.unit + 1 \in 1..(NUnits + 1)
      BY <1>1, <1>9 DEF Units
    <2> QED
      BY <1>1, <1>2, <1>9, <2>1 DEF NextUnit, Becomes, Moves, Watchers
  <1>10. ASSUME Linked(s)
         PROVE  Moves(s, IF w.first THEN "fork" ELSE "poll", w.dir, w.first, w.unit, w.ir, w.ir,
                      w.m, WatchAfter(s), FALSE)
    <2> DEFINE a == WatchAfter(s)
               p == IF w.first THEN "fork" ELSE "poll"
    <2>1. a \in Nat /\ p \in Places
      BY <1>1, <1>2 DEF WatchAfter, Watchers
    <2>2. ses' = [ses EXCEPT ![s] = [w EXCEPT !.built = w.ir, !.pc = p, !.watch = a, !.skipped = FALSE]]
      BY <1>10 DEF Linked, Becomes
    <2>3. Moves(s, p, w.dir, w.first, w.unit, w.ir, w.ir, w.m, a, FALSE)
      <3> HIDE DEF a, p
      <3> QED
        BY <1>1, <2>1, <2>2 DEF Moves, Watchers
    <2> QED
      BY <2>3
  <1>11. ASSUME Fork(s)
         PROVE  Moves(s, "baseline", w.dir, FALSE, w.unit, w.ir, w.built, w.m, w.watch, w.skipped)
    BY <1>1, <1>2, <1>11 DEF Fork, Becomes, Moves, Watchers
  <1>12. ASSUME Baseline(s)
         PROVE  Moves(s, "poll", w.dir, w.first, w.unit, w.ir, w.built, w.m, newest, w.built # src[s])
    BY <1>1, <1>2, <1>12 DEF Baseline, Becomes, Moves, Watchers
  <1>13. ASSUME Rebuild(s)
         PROVE  Moves(s, "read", w.dir, w.first, 1, w.ir, w.built, newest, w.watch, w.skipped)
    BY <1>1, <1>2, <1>13 DEF Rebuild, Becomes, Moves, Watchers
  <1>14. ASSUME EntryUnreadable(s)
         PROVE  Moves(s, w.pc, w.dir, w.first, w.unit, w.ir, w.built, w.m, newest, w.built # src[s])
    BY <1>1, <1>2, <1>14 DEF EntryUnreadable, Becomes, Moves, Watchers
  <1> QED
    BY <1>3, <1>4, <1>5, <1>6, <1>7, <1>8, <1>9, <1>10, <1>11, <1>12, <1>13, <1>14

(* The host of session s as its fields, and no other changed.               *)
HostMoves(s, alive, dir, loading, seen, image, mtime) ==
    /\ host' \in [Sessions -> Hosts]
    /\ host'[s].alive = alive /\ host'[s].dir = dir /\ host'[s].loading = loading
    /\ host'[s].seen = seen /\ host'[s].image = image /\ host'[s].mtime = mtime
    /\ \A t \in Sessions : t # s => host'[t] = host[t]

LEMMA FileType ==
    ASSUME TypeInv, NEW s \in Sessions, NEW u \in Units
    PROVE  File(s, u) \in Files /\ File(s, u).lib \in Images /\ File(s, u).mtime \in Nat
  <1>1. so \in [Dirs -> [Units -> Files]] /\ host[s].dir \in Dirs
    BY DEF TypeInv, HotTypes, Hosts
  <1> QED
    BY <1>1 DEF File, Files

(* How each step moves the host.                                            *)
LEMMA HostSteps ==
    ASSUME TypeInv, NEW s \in Sessions
    PROVE  LET h == host[s]
           IN  /\ \A u \in Units : HostStat(s, u) =>
                     HostMoves(s, h.alive, h.dir, u, File(s, u).mtime, h.image, h.mtime)
               /\ HostCopyFails(s) => HostMoves(s, h.alive, h.dir, 0, h.seen, h.image, h.mtime)
               /\ HostExit(s) => HostMoves(s, FALSE, h.dir, 0, 0, [u \in Units |-> NoLib], [u \in Units |-> 0])
               /\ Fork(s) => HostMoves(s, TRUE, ses[s].dir, 0, 0, [u \in Units |-> NoLib], [u \in Units |-> 0])
               /\ HostLoad(s) => \E u \in Units :
                     /\ u = h.loading /\ h.alive
                     /\ \/ HostMoves(s, h.alive, h.dir, 0, h.seen, h.image, h.mtime)
                        \/ HostMoves(s, h.alive, h.dir, 0, h.seen,
                                     [h.image EXCEPT ![u] = File(s, u).lib],
                                     [h.mtime EXCEPT ![u] = h.seen])
  <1> DEFINE h == host[s]
  <1>0. 0 \in 0..NUnits
    BY Constants
  <1>1. so \in [Dirs -> [Units -> Files]] /\ host \in [Sessions -> Hosts] /\ h \in Hosts
    BY DEF TypeInv, HotTypes
  <1>2. ASSUME NEW u \in Units, HostStat(s, u)
        PROVE  HostMoves(s, h.alive, h.dir, u, File(s, u).mtime, h.image, h.mtime)
    <2> DEFINE f == File(s, u).mtime
    <2>1. u \in 0..NUnits /\ f \in Nat
      BY Constants, FileType
    <2>2. host' = [host EXCEPT ![s] = [h EXCEPT !.loading = u, !.seen = f]]
      BY <1>2 DEF HostStat, HostBecomes
    <2>3. HostMoves(s, h.alive, h.dir, u, f, h.image, h.mtime)
      <3> HIDE DEF f
      <3> QED
        BY <1>1, <2>1, <2>2 DEF HostMoves, Hosts
    <2> QED
      BY <2>3
  <1>3. ASSUME HostCopyFails(s) PROVE HostMoves(s, h.alive, h.dir, 0, h.seen, h.image, h.mtime)
    BY <1>0, <1>1, <1>3 DEF HostCopyFails, HostBecomes, HostMoves, Hosts
  <1>4. ASSUME HostExit(s)
        PROVE  HostMoves(s, FALSE, h.dir, 0, 0, [u \in Units |-> NoLib], [u \in Units |-> 0])
    <2>1. h.dir \in Dirs
      BY <1>1 DEF Hosts
    <2>2. NoHost(h.dir) \in Hosts /\ NoHost(h.dir).alive = FALSE /\ NoHost(h.dir).dir = h.dir
          /\ NoHost(h.dir).loading = 0 /\ NoHost(h.dir).seen = 0
          /\ NoHost(h.dir).image = [u \in Units |-> NoLib] /\ NoHost(h.dir).mtime = [u \in Units |-> 0]
      BY <2>1, FreshType DEF NoHost, Fresh
    <2>3. host' = [host EXCEPT ![s] = NoHost(h.dir)]
      BY <1>4 DEF HostExit, HostBecomes
    <2> QED
      BY <1>1, <2>2, <2>3 DEF HostMoves
  <1>5. ASSUME Fork(s)
        PROVE  HostMoves(s, TRUE, ses[s].dir, 0, 0, [u \in Units |-> NoLib], [u \in Units |-> 0])
    <2> DEFINE d == ses[s].dir
    <2>1. d \in Dirs
      BY DEF TypeInv, DevTypes, Watchers
    <2>2. Fresh(d) \in Hosts /\ Fresh(d).alive = TRUE /\ Fresh(d).dir = d
          /\ Fresh(d).loading = 0 /\ Fresh(d).seen = 0
          /\ Fresh(d).image = [u \in Units |-> NoLib] /\ Fresh(d).mtime = [u \in Units |-> 0]
      BY <2>1, FreshType DEF Fresh
    <2>3. host' = [host EXCEPT ![s] = Fresh(d)]
      BY <1>5 DEF Fork, HostBecomes
    <2> QED
      BY <1>1, <2>2, <2>3 DEF HostMoves
  <1>6. ASSUME HostLoad(s)
        PROVE  \E u \in Units :
                  /\ u = h.loading /\ h.alive
                  /\ \/ HostMoves(s, h.alive, h.dir, 0, h.seen, h.image, h.mtime)
                     \/ HostMoves(s, h.alive, h.dir, 0, h.seen,
                                  [h.image EXCEPT ![u] = File(s, u).lib],
                                  [h.mtime EXCEPT ![u] = h.seen])
    <2>1. PICK u \in Units : u = h.loading
      <3>1. h.loading \in 0..NUnits /\ h.loading # 0
        BY <1>1, <1>6 DEF Hosts, HostLoad
      <3> QED
        BY <3>1, Constants
    <2>2. CASE host' = [host EXCEPT ![s] = [h EXCEPT !.loading = 0, !.image = Kept(s, u)]]
      <3>1. host' = [host EXCEPT ![s] = [h EXCEPT !.loading = 0, !.image = h.image]]
        BY <2>2 DEF Kept
      <3>2. HostMoves(s, h.alive, h.dir, 0, h.seen, h.image, h.mtime)
        BY <1>0, <1>1, <3>1 DEF HostMoves, Hosts
      <3> QED
        BY <1>6, <2>1, <3>2 DEF HostLoad
    <2> DEFINE im == [h.image EXCEPT ![u] = Opened(s, u)]
               mt == [h.mtime EXCEPT ![u] = h.seen]
               ge == [h.gen EXCEPT ![u] = h.gen[u] + 1]
    <2>3. CASE host' = [host EXCEPT ![s] = [h EXCEPT !.loading = 0, !.image = im, !.mtime = mt, !.gen = ge]]
      <3>1. h.image \in [Units -> Images] /\ h.mtime \in [Units -> Nat] /\ h.gen \in [Units -> Nat]
            /\ h.seen \in Nat /\ h.gen[u] \in Nat
        BY <1>1 DEF Hosts
      <3>2. Opened(s, u) = File(s, u).lib
        BY <3>1 DEF Opened, CopyGen
      <3>3. File(s, u).lib \in Images
        BY FileType
      <3>4. im \in [Units -> Images] /\ mt \in [Units -> Nat] /\ ge \in [Units -> Nat]
        <4>1. Opened(s, u) \in Images
          BY <3>2, <3>3
        <4> HIDE DEF h
        <4>2. im \in [Units -> Images]
          BY <3>1, <4>1
        <4>3. mt \in [Units -> Nat]
          BY <3>1
        <4>4. ge \in [Units -> Nat]
          BY <3>1
        <4> QED
          BY <4>2, <4>3, <4>4
      <3>5. HostMoves(s, h.alive, h.dir, 0, h.seen, im, mt)
        <4> HIDE DEF im, mt, ge
        <4> QED
          BY <1>0, <1>1, <2>3, <3>4 DEF HostMoves, Hosts
      <3>6. im = [h.image EXCEPT ![u] = File(s, u).lib]
        BY <3>2
      <3> QED
        BY <1>6, <2>1, <3>5, <3>6 DEF HostLoad
    <2>4. host' = [host EXCEPT ![s] = NotReloaded(s, u)] \/ host' = [host EXCEPT ![s] = Reloaded(s, u)]
      BY <1>6, <2>1 DEF HostLoad, HostBecomes
    <2> QED
      BY <2>2, <2>3, <2>4 DEF NotReloaded, Reloaded
  <1> QED
    BY <1>2, <1>3, <1>4, <1>5, <1>6

-----------------------------------------------------------------------------
LEMMA BaseInvInit == Init => BaseInv
  <1> SUFFICES ASSUME Init PROVE BaseInv
    OBVIOUS
  <1>1. HotTypes
    BY Constants, FreshType DEF Init, HotTypes
  <1>2. DevTypes
    BY Constants, OffType DEF Init, DevTypes
  <1>3. \A s \in Sessions : ses[s].pc = "off" /\ ses[s].dir = "shared" /\ ~host[s].alive /\ host[s].dir = "shared"
    BY DEF Init, Off, NoHost, Fresh
  <1> QED
    BY <1>1, <1>2, <1>3 DEF BaseInv, TypeInv, PlaceInv, Exclusive, Uses, At

(* A step of one session leaves the others where they are, and takes the    *)
(* shared directory only when nobody uses it.                               *)
LEMMA BaseKept ==
    ASSUME BaseInv, NEW s \in Sessions, TypeInv', PlaceInv(s)',
           \A t \in Sessions : t # s => ses'[t] = ses[t] /\ host'[t] = host[t],
           Uses(s, "shared")' => Uses(s, "shared") \/ \A t \in Sessions : ~Uses(t, "shared")
    PROVE  BaseInv'
  <1>1. \A t \in Sessions : t # s => PlaceInv(t)' /\ (Uses(t, "shared")' <=> Uses(t, "shared"))
    BY DEF BaseInv, PlaceInv, Uses, At
  <1>2. Exclusive'
    BY <1>1 DEF BaseInv, Exclusive
  <1> QED
    BY <1>1, <1>2 DEF BaseInv

(* A step of the host alone.                                                *)
LEMMA HostKeepsBase ==
    ASSUME BaseInv, NEW s \in Sessions, UNCHANGED <<so, src, newest, hash, ses, torn>>,
           NEW alive \in BOOLEAN, NEW loading, NEW seen, NEW image, NEW mtime,
           HostMoves(s, alive, host[s].dir, loading, seen, image, mtime), alive => host[s].alive
    PROVE  BaseInv'
  <1>1. host' \in [Sessions -> Hosts] /\ host'[s].alive = alive /\ host'[s].dir = host[s].dir
        /\ \A t \in Sessions : t # s => host'[t] = host[t]
    BY DEF HostMoves
  <1>2. TypeInv'
    BY <1>1 DEF BaseInv, TypeInv, HotTypes, DevTypes
  <1>3. PlaceInv(s)'
    BY <1>1 DEF BaseInv, PlaceInv, At
  <1>4. Uses(s, "shared")' => Uses(s, "shared")
    BY <1>1 DEF Uses, At
  <1> QED
    BY <1>1, <1>2, <1>3, <1>4, BaseKept

(* A step of the watcher that starts no session and no host.                *)
LEMMA WatcherKeepsBase ==
    ASSUME BaseInv, NEW s \in Sessions, UNCHANGED <<host, src, newest>>,
           so' \in [Dirs -> [Units -> Files]], hash' \in [Dirs -> [Units -> Images]], torn' \in BOOLEAN,
           NEW pc \in Places, NEW unit, NEW ir, NEW built, NEW m, NEW watch, NEW skipped,
           Moves(s, pc, ses[s].dir, ses[s].first, unit, ir, built, m, watch, skipped),
           pc # "off" => ~At(s, "off"),
           pc = "hash" => unit \in Units,
           pc = "fork" => ses[s].first,
           pc \in {"baseline", "poll"} => ~ses[s].first
    PROVE  BaseInv'
  <1>1. /\ ses' \in [Sessions -> Watchers]
        /\ ses'[s].pc = pc /\ ses'[s].dir = ses[s].dir /\ ses'[s].first = ses[s].first /\ ses'[s].unit = unit
        /\ \A t \in Sessions : t # s => ses'[t] = ses[t]
    BY DEF Moves
  <1>2. TypeInv'
    BY <1>1 DEF BaseInv, TypeInv, HotTypes, DevTypes
  <1>3. PlaceInv(s)'
    BY <1>1 DEF BaseInv, PlaceInv, At
  <1>4. Uses(s, "shared")' => Uses(s, "shared")
    BY <1>1 DEF Uses, At
  <1> QED
    BY <1>1, <1>2, <1>3, <1>4, BaseKept

(* The files and sidecars stay well formed when they are written.           *)
LEMMA FileWrites ==
    ASSUME BaseInv, NEW s \in Sessions
    PROVE  /\ Rename(s) => so' \in [Dirs -> [Units -> Files]]
           /\ WriteHash(s) => hash' \in [Dirs -> [Units -> Images]]
           /\ Start(s) \/ SessionEnd(s) => /\ so' \in [Dirs -> [Units -> Files]]
                                          /\ hash' \in [Dirs -> [Units -> Images]]
           /\ Rename(s) \/ At(s, "hash") => ses[s].unit \in Units /\ Lib(s) \in Libs
  <1>1. so \in [Dirs -> [Units -> Files]] /\ hash \in [Dirs -> [Units -> Images]] /\ ses[s] \in Watchers
    BY DEF BaseInv, TypeInv, HotTypes, DevTypes
  <1>2. ASSUME Rename(s) \/ At(s, "hash") PROVE ses[s].unit \in Units /\ Lib(s) \in Libs
    <2>1. ses[s].unit \in Units
      <3>1. CASE Rename(s)
        BY <1>1, <3>1, Constants DEF Rename, Publishing, Watchers
      <3>2. CASE At(s, "hash")
        BY <3>2 DEF BaseInv, PlaceInv
      <3> QED
        BY <1>2, <3>1, <3>2
    <2>2. ses[s].ir[ses[s].unit] \in Texts
      BY <1>1, <2>1 DEF Watchers
    <2> QED
      BY <2>1, <2>2 DEF Lib, Libs
  <1>3. ASSUME Rename(s) PROVE so' \in [Dirs -> [Units -> Files]]
    <2> DEFINE d == ses[s].dir
               u == ses[s].unit
               f == Published(s)
    <2>1. d \in Dirs /\ u \in Units
      BY <1>1, <1>2, <1>3 DEF Watchers
    <2>2. f \in Files
      <3>1. so[d][u].mtime \in Nat
        BY <1>1, <2>1 DEF Files
      <3> QED
        BY <1>2, <1>3, <3>1 DEF Published, Files, Images
    <2>3. so' = [so EXCEPT ![d][u] = f]
      BY <1>3 DEF Rename
    <2> HIDE DEF d, u, f
    <2> QED
      BY <1>1, <2>1, <2>2, <2>3
  <1>4. ASSUME WriteHash(s) PROVE hash' \in [Dirs -> [Units -> Images]]
    <2> DEFINE d == ses[s].dir
               u == ses[s].unit
               l == Lib(s)
    <2>1. d \in Dirs /\ u \in Units /\ l \in Images
      BY <1>1, <1>2, <1>4 DEF Watchers, WriteHash, Images
    <2>2. hash' = [hash EXCEPT ![d][u] = l]
      BY <1>4 DEF WriteHash
    <2> HIDE DEF d, u, l
    <2> QED
      BY <1>1, <2>1, <2>2
  <1>5. ASSUME Start(s) \/ SessionEnd(s)
        PROVE  so' \in [Dirs -> [Units -> Files]] /\ hash' \in [Dirs -> [Units -> Images]]
    <2>1. /\ so' = so \/ so' = [so EXCEPT ![s] = NoFiles]
          /\ hash' = hash \/ hash' = [hash EXCEPT ![s] = NoHashes]
      BY <1>5 DEF Start, SessionEnd
    <2>2. s \in Dirs /\ NoFiles \in [Units -> Files] /\ NoHashes \in [Units -> Images]
      BY Constants
    <2> QED
      BY <1>1, <2>1, <2>2
  <1> QED
    BY <1>2, <1>3, <1>4, <1>5

LEMMA WatcherBase ==
    ASSUME BaseInv, NEW s \in Sessions, Session(s) \/ Failure(s) \/ Kill(s), ~Fork(s)
    PROVE  BaseInv'
  <1>1. TypeInv /\ ses[s] \in Watchers /\ torn \in BOOLEAN /\ PlaceInv(s)
        /\ so \in [Dirs -> [Units -> Files]] /\ hash \in [Dirs -> [Units -> Images]]
    BY DEF BaseInv, TypeInv, HotTypes, DevTypes
  <1>2. Places = {"off", "read", "publish", "hash", "fork", "baseline", "poll"} /\ ses[s].pc \in Places
    BY <1>1 DEF Places, Watchers
  <1>3. ASSUME NEW p \in {"off", "hash"}, Goto(s, p), p = "hash" => ses[s].unit \in Units /\ ~At(s, "off"),
               UNCHANGED <<host, src, newest>>, torn' \in BOOLEAN,
               so' \in [Dirs -> [Units -> Files]], hash' \in [Dirs -> [Units -> Images]]
        PROVE  BaseInv'
    <2>1. Moves(s, p, ses[s].dir, ses[s].first, ses[s].unit, ses[s].ir, ses[s].built, ses[s].m,
                ses[s].watch, ses[s].skipped)
      BY <1>1, <1>2, <1>3, WatcherMoves
    <2>2. /\ p \in Places /\ p \notin {"baseline", "poll"} /\ p # "fork"
          /\ p # "off" => ~At(s, "off")
          /\ p = "hash" => ses[s].unit \in Units
      BY <1>2, <1>3
    <2> QED
      BY <1>3, <2>1, <2>2, WatcherKeepsBase
  <1>4. CASE Kill(s) \/ ForkFails(s)
    BY <1>1, <1>3, <1>4 DEF Kill, ForkFails, hotVars
  <1>5. CASE SessionEnd(s)
    BY <1>1, <1>3, <1>5, FileWrites DEF SessionEnd
  <1>6. CASE Rename(s)
    BY <1>1, <1>3, <1>6, FileWrites DEF Rename, Publishing, At
  <1>7. CASE Rejected(s) \/ ToolFails(s)
    <2>1. PICK p \in Places : p = IF ses[s].first THEN "off" ELSE "poll"
      BY <1>2
    <2>2. Moves(s, p, ses[s].dir, ses[s].first, ses[s].unit, ses[s].ir, ses[s].built, ses[s].m,
                ses[s].watch, ses[s].skipped)
      BY <1>1, <1>7, <2>1, WatcherMoves
    <2>3. UNCHANGED <<host, src, newest, so, hash, torn>> /\ ~At(s, "off")
      BY <1>7 DEF Rejected, ToolFails, hotVars, At
    <2>4. p \in {"off", "poll"} /\ (p = "poll" => ~ses[s].first)
      BY <2>1
    <2> QED
      BY <1>1, <2>2, <2>3, <2>4, WatcherKeepsBase
  <1>8. CASE ReadUnit(s)
    <2>1. Moves(s, "read", ses[s].dir, ses[s].first, ses[s].unit + 1,
                [ses[s].ir EXCEPT ![ses[s].unit] = src[s][ses[s].unit]],
                ses[s].built, ses[s].m, ses[s].watch, ses[s].skipped)
      BY <1>1, <1>8, WatcherMoves
    <2>2. UNCHANGED <<host, src, newest, so, hash, torn>> /\ ~At(s, "off")
      BY <1>8 DEF ReadUnit, hotVars, At
    <2> QED
      BY <1>1, <1>2, <2>1, <2>2, WatcherKeepsBase
  <1>9. CASE Accepted(s)
    <2>1. Moves(s, "publish", ses[s].dir, ses[s].first, 1, ses[s].ir,
                ses[s].built, ses[s].m, ses[s].watch, ses[s].skipped)
      BY <1>1, <1>9, WatcherMoves
    <2>2. UNCHANGED <<host, src, newest, so, hash, torn>> /\ ~At(s, "off")
      BY <1>9 DEF Accepted, hotVars, At
    <2> QED
      BY <1>1, <1>2, <2>1, <2>2, WatcherKeepsBase
  <1>10. CASE Reuse(s) \/ WriteHash(s) \/ HashNotWritten(s)
    <2>1. Moves(s, "publish", ses[s].dir, ses[s].first, ses[s].unit + 1, ses[s].ir,
                ses[s].built, ses[s].m, ses[s].watch, ses[s].skipped)
      <3>1. WriteHash(s) \/ HashNotWritten(s) => NextUnit(s) /\ ses[s].unit \in Units
        BY <1>1 DEF WriteHash, HashNotWritten, PlaceInv
      <3> QED
        BY <1>1, <1>10, <3>1, WatcherMoves
    <2>2. UNCHANGED <<host, src, newest, so>> /\ ~At(s, "off") /\ torn' \in BOOLEAN
      BY <1>1, <1>10 DEF Reuse, WriteHash, HashNotWritten, Publishing, hotVars, At
    <2>3. hash' \in [Dirs -> [Units -> Images]]
      BY <1>1, <1>10, FileWrites DEF Reuse, HashNotWritten
    <2> QED
      BY <1>1, <1>2, <2>1, <2>2, <2>3, WatcherKeepsBase
  <1>11. CASE Linked(s)
    <2>1. PICK p \in Places : p = IF ses[s].first THEN "fork" ELSE "poll"
      BY <1>2
    <2>2. Moves(s, p, ses[s].dir, ses[s].first, ses[s].unit, ses[s].ir, ses[s].ir, ses[s].m,
                WatchAfter(s), FALSE)
      BY <1>1, <1>11, <2>1, WatcherMoves
    <2>3. UNCHANGED <<host, src, newest, so, hash, torn>> /\ ~At(s, "off")
      BY <1>11 DEF Linked, hotVars, At
    <2>4. p \in {"fork", "poll"} /\ (p = "poll" => ~ses[s].first) /\ (p = "fork" => ses[s].first)
      BY <2>1
    <2> QED
      BY <1>1, <2>2, <2>3, <2>4, WatcherKeepsBase
  <1>12. CASE Baseline(s)
    <2>1. Moves(s, "poll", ses[s].dir, ses[s].first, ses[s].unit, ses[s].ir, ses[s].built, ses[s].m,
                newest, ses[s].built # src[s])
      BY <1>1, <1>12, WatcherMoves
    <2>2. UNCHANGED <<host, src, newest, so, hash, torn>> /\ ~At(s, "off") /\ ~ses[s].first
      BY <1>1, <1>12 DEF Baseline, hotVars, At, PlaceInv
    <2> QED
      BY <1>1, <1>2, <2>1, <2>2, WatcherKeepsBase
  <1>13. CASE Rebuild(s)
    <2>1. Moves(s, "read", ses[s].dir, ses[s].first, 1, ses[s].ir, ses[s].built, newest,
                ses[s].watch, ses[s].skipped)
      BY <1>1, <1>13, WatcherMoves
    <2>2. UNCHANGED <<host, src, newest, so, hash, torn>> /\ ~At(s, "off")
      BY <1>13 DEF Rebuild, Changed, hotVars, At
    <2> QED
      BY <1>1, <1>2, <2>1, <2>2, WatcherKeepsBase
  <1>14. CASE EntryUnreadable(s)
    <2>1. Moves(s, ses[s].pc, ses[s].dir, ses[s].first, ses[s].unit, ses[s].ir, ses[s].built, ses[s].m,
                newest, ses[s].built # src[s])
      BY <1>1, <1>14, WatcherMoves
    <2>2. UNCHANGED <<host, src, newest, so, hash, torn>> /\ ses[s].pc = "poll"
      BY <1>14 DEF EntryUnreadable, Changed, At
    <2>3. ~ses[s].first /\ ~At(s, "off")
      BY <1>1, <2>2 DEF PlaceInv, At
    <2> QED
      BY <1>1, <1>2, <2>1, <2>2, <2>3, WatcherKeepsBase
  <1> QED
    BY <1>4, <1>5, <1>6, <1>7, <1>8, <1>9, <1>10, <1>11, <1>12, <1>13, <1>14
    DEF Session, Compile, Failure

LEMMA BaseInvStep == BaseInv /\ [Next]_devVars => BaseInv'
  <1> SUFFICES ASSUME BaseInv, [Next]_devVars PROVE BaseInv'
    OBVIOUS
  <1>1. TypeInv
    BY DEF BaseInv
  <1>2. ASSUME NEW s \in Sessions, Start(s) PROVE BaseInv'
    <2>1. PICK d \in Dirs :
             /\ d = IF LockFree THEN "shared" ELSE s
             /\ Becomes(s, [Off EXCEPT !.pc = "read", !.dir = d])
      BY <1>2, Constants DEF Start
    <2>2. Moves(s, "read", d, TRUE, 1, Sources, Sources, 0, 0, FALSE)
      BY <1>1, <2>1, WatcherMoves
    <2>3. ~host[s].alive /\ UNCHANGED <<host, src, newest, torn>>
      BY <1>2 DEF Start
    <2>4. so' \in [Dirs -> [Units -> Files]] /\ hash' \in [Dirs -> [Units -> Images]]
      BY <1>2, FileWrites
    <2>5. /\ ses' \in [Sessions -> Watchers] /\ ses'[s].pc = "read" /\ ses'[s].dir = d
          /\ \A t \in Sessions : t # s => ses'[t] = ses[t]
      BY <2>2 DEF Moves
    <2>6. TypeInv'
      BY <1>1, <2>3, <2>4, <2>5 DEF TypeInv, HotTypes, DevTypes
    <2>7. PlaceInv(s)'
      BY <2>1, <2>3, <2>5 DEF BaseInv, PlaceInv, At
    <2>8. Uses(s, "shared")' => \A t \in Sessions : ~Uses(t, "shared")
      BY <2>1, <2>3, <2>5, Constants DEF Uses, LockFree, At
    <2> QED
      BY <2>3, <2>5, <2>6, <2>7, <2>8, BaseKept
  <1>3. ASSUME NEW s \in Sessions, Fork(s) PROVE BaseInv'
    <2>1. Moves(s, "baseline", ses[s].dir, FALSE, ses[s].unit, ses[s].ir, ses[s].built, ses[s].m,
                ses[s].watch, ses[s].skipped)
      BY <1>1, <1>3, WatcherMoves
    <2>2. HostMoves(s, TRUE, ses[s].dir, 0, 0, [u \in Units |-> NoLib], [u \in Units |-> 0])
      BY <1>1, <1>3, HostSteps
    <2>3. UNCHANGED <<so, src, newest, hash, torn>> /\ At(s, "fork")
      BY <1>3 DEF Fork
    <2>4. /\ ses' \in [Sessions -> Watchers] /\ ses'[s].pc = "baseline" /\ ses'[s].dir = ses[s].dir
          /\ ses'[s].first = FALSE /\ \A t \in Sessions : t # s => ses'[t] = ses[t]
      BY <2>1 DEF Moves
    <2>5. /\ host' \in [Sessions -> Hosts] /\ host'[s].dir = ses[s].dir
          /\ \A t \in Sessions : t # s => host'[t] = host[t]
      BY <2>2 DEF HostMoves
    <2>6. TypeInv'
      BY <1>1, <2>3, <2>4, <2>5 DEF TypeInv, HotTypes, DevTypes
    <2>7. PlaceInv(s)'
      BY <2>4, <2>5 DEF BaseInv, PlaceInv, At
    <2>8. Uses(s, "shared")' => Uses(s, "shared")
      BY <2>3, <2>4, <2>5 DEF Uses, At
    <2> QED
      BY <2>4, <2>5, <2>6, <2>7, <2>8, BaseKept
  <1>4. ASSUME NEW s \in Sessions, LoadUnit(s) \/ CopyFails(s) \/ \E u \in Units : StatUnit(s, u)
        PROVE  BaseInv'
    <2>1. UNCHANGED <<so, src, newest, hash, ses, torn>>
      BY <1>4 DEF LoadUnit, CopyFails, StatUnit, HostLoad, HostCopyFails, HostStat, devOnly
    <2>2. \E loading, seen, image, mtime : HostMoves(s, host[s].alive, host[s].dir, loading, seen, image, mtime)
      BY <1>1, <1>4, HostSteps DEF LoadUnit, CopyFails, StatUnit
    <2>3. host[s].alive \in BOOLEAN
      BY <1>1 DEF TypeInv, HotTypes, Hosts
    <2> QED
      BY <2>1, <2>2, <2>3, HostKeepsBase
  <1>5. ASSUME NEW s \in Sessions, HostExit(s) PROVE BaseInv'
    <2>1. UNCHANGED <<so, src, newest, hash, ses, torn>>
      BY <1>5 DEF HostExit
    <2>2. HostMoves(s, FALSE, host[s].dir, 0, 0, [u \in Units |-> NoLib], [u \in Units |-> 0])
      BY <1>1, <1>5, HostSteps
    <2> QED
      BY <2>1, <2>2, HostKeepsBase
  <1>6. ASSUME NEW s \in Sessions, NEW u \in Units, NEW text \in Texts, Save(s, u, text) PROVE BaseInv'
    <2>1. src' = [src EXCEPT ![s][u] = text] /\ newest' = newest + 1
          /\ UNCHANGED <<so, host, hash, ses, torn>>
      BY <1>6 DEF Save, hotVars
    <2>2. src' \in [Sessions -> [Units -> Texts]] /\ newest' \in Nat
      BY <1>1, <2>1 DEF TypeInv, DevTypes
    <2>3. TypeInv'
      BY <1>1, <2>1, <2>2 DEF TypeInv, HotTypes, DevTypes
    <2> QED
      BY <2>1, <2>3 DEF BaseInv, PlaceInv, Exclusive, Uses, At
  <1>7. CASE UNCHANGED devVars
    <2>1. UNCHANGED <<so, host, src, newest, hash, ses, torn>>
      BY <1>7 DEF devVars
    <2> QED
      BY <2>1 DEF BaseInv, TypeInv, HotTypes, DevTypes, PlaceInv, Exclusive, Uses, At
  <1> QED
    BY <1>2, <1>3, <1>4, <1>5, <1>6, <1>7, WatcherBase DEF Next

LEMMA BaseInvHolds == Spec => []BaseInv
  BY BaseInvInit, BaseInvStep, PTL DEF Spec

-----------------------------------------------------------------------------
(* A library is told from none.                                             *)
LEMMA LibIsNotNone == NoLib \notin Libs
  BY DEF NoLib, Libs

(* What one step does to the files and the hosts.                           *)
HotStep(s) ==
    \/ UNCHANGED so /\ \E u \in Units : HostStat(s, u)
    \/ UNCHANGED so /\ (HostLoad(s) \/ HostCopyFails(s) \/ HostExit(s))
    \/ UNCHANGED so /\ Fork(s) /\ ~host[s].alive
    \/ UNCHANGED host /\ Rename(s)
    \/ UNCHANGED host /\ so' = [so EXCEPT ![s] = NoFiles] /\ ~host[s].alive

LEMMA HotSteps ==
    ASSUME BaseInv, [Next]_devVars
    PROVE  UNCHANGED <<so, host>> \/ \E s \in Sessions : HotStep(s)
  <1>1. ASSUME NEW s \in Sessions, Fork(s) PROVE UNCHANGED so /\ ~host[s].alive
    BY <1>1 DEF Fork, BaseInv, PlaceInv, At
  <1>2. ASSUME NEW s \in Sessions, Start(s) \/ SessionEnd(s) PROVE UNCHANGED <<so, host>> \/ HotStep(s)
    BY <1>2 DEF Start, SessionEnd, HotStep
  <1>3. ASSUME NEW s \in Sessions, Rename(s) PROVE HotStep(s)
    BY <1>3 DEF Rename, HotStep
  <1>4. ASSUME NEW s \in Sessions,
               LoadUnit(s) \/ CopyFails(s) \/ HostExit(s) \/ \E u \in Units : StatUnit(s, u)
        PROVE  HotStep(s)
    BY <1>4 DEF LoadUnit, CopyFails, StatUnit, HostLoad, HostCopyFails, HostExit, HostStat, HotStep
  <1>5. ASSUME NEW s \in Sessions,
               \/ ReadUnit(s) \/ Rejected(s) \/ Accepted(s) \/ Reuse(s) \/ WriteHash(s) \/ Linked(s)
               \/ Baseline(s) \/ Rebuild(s) \/ Failure(s) \/ Kill(s)
               \/ \E u \in Units, text \in Texts : Save(s, u, text)
        PROVE  UNCHANGED <<so, host>>
    BY <1>5 DEF ReadUnit, Rejected, Accepted, Reuse, WriteHash, Linked, Baseline, Rebuild, Failure, Kill,
                HashNotWritten, ToolFails, ForkFails, EntryUnreadable, Save, hotVars
  <1>6. CASE UNCHANGED devVars
    BY <1>6 DEF devVars
  <1> QED
    BY <1>1, <1>2, <1>3, <1>4, <1>5, <1>6 DEF Next, Session, Compile, HotStep

(* A running host: what it recorded of a library is never ahead of the file *)
(* and, where it equals the file's, the mapping is the file's.  A load that *)
(* is under way was started for a file that is still there.                 *)
LoadInv(s) ==
    host[s].alive =>
        \A u \in Units :
            /\ host[s].image[u] # NoLib =>
                  /\ host[s].mtime[u] <= File(s, u).mtime
                  /\ host[s].mtime[u] = File(s, u).mtime => host[s].image[u] = File(s, u).lib
            /\ host[s].loading = u => host[s].seen <= File(s, u).mtime /\ File(s, u).lib # NoLib

ReloadInv == BaseInv /\ \A s \in Sessions : LoadInv(s)

(* A step of the host of s.                                                 *)
LEMMA LoadStep ==
    ASSUME ReloadInv, NEW s \in Sessions, UNCHANGED so,
           (\E u \in Units : HostStat(s, u)) \/ HostLoad(s) \/ HostCopyFails(s) \/ HostExit(s) \/ Fork(s)
    PROVE  \A t \in Sessions : LoadInv(t)'
  <1>1. TypeInv /\ LoadInv(s) /\ host[s] \in Hosts
    BY DEF ReloadInv, BaseInv, TypeInv, HotTypes
  <1>2. ASSUME NEW alive, NEW dir, NEW loading, NEW seen, NEW image, NEW mtime,
               HostMoves(s, alive, dir, loading, seen, image, mtime), LoadInv(s)'
        PROVE  \A t \in Sessions : LoadInv(t)'
    BY <1>2 DEF HostMoves, ReloadInv, LoadInv, File
  <1>3. \A u \in Units : host[s].image[u] \in Images /\ host[s].mtime[u] \in Nat
        /\ File(s, u).mtime \in Nat /\ host[s].seen \in Nat
    BY <1>1, FileType DEF Hosts
  <1>4. ASSUME NEW v \in Units, HostStat(s, v) PROVE LoadInv(s)'
    <2>1. HostMoves(s, host[s].alive, host[s].dir, v, File(s, v).mtime, host[s].image, host[s].mtime)
      BY <1>1, <1>4, HostSteps
    <2>2. File(s, v).lib # NoLib
      BY <1>4 DEF HostStat
    <2>3. \A u \in Units : File(s, u)' = File(s, u)
      BY <2>1 DEF HostMoves, File
    <2> QED
      BY <1>1, <1>3, <2>1, <2>2, <2>3 DEF HostMoves, LoadInv
  <1>5. ASSUME HostMoves(s, host[s].alive, host[s].dir, 0, host[s].seen, host[s].image, host[s].mtime)
        PROVE  LoadInv(s)'
    <2>1. \A u \in Units : File(s, u)' = File(s, u) /\ u # 0
      BY <1>5, Constants DEF HostMoves, File
    <2> QED
      BY <1>1, <1>5, <2>1 DEF HostMoves, LoadInv
  <1>6. ASSUME NEW v \in Units, v = host[s].loading, host[s].alive,
               HostMoves(s, host[s].alive, host[s].dir, 0, host[s].seen,
                         [host[s].image EXCEPT ![v] = File(s, v).lib],
                         [host[s].mtime EXCEPT ![v] = host[s].seen])
        PROVE  LoadInv(s)'
    <2>1. \A u \in Units : File(s, u)' = File(s, u) /\ u # 0
      BY <1>6, Constants DEF HostMoves, File
    <2>2. host'[s].loading = 0 /\ host'[s].image = [host[s].image EXCEPT ![v] = File(s, v).lib]
          /\ host'[s].mtime = [host[s].mtime EXCEPT ![v] = host[s].seen]
      BY <1>6 DEF HostMoves
    <2>3. host[s].image \in [Units -> Images] /\ host[s].mtime \in [Units -> Nat]
      BY <1>1 DEF Hosts
    <2>4. host'[s].image[v] = File(s, v).lib /\ host'[s].mtime[v] = host[s].seen
      BY <2>2, <2>3
    <2>5. \A u \in Units : u # v => host'[s].image[u] = host[s].image[u] /\ host'[s].mtime[u] = host[s].mtime[u]
      BY <2>2, <2>3
    <2>6. host[s].seen <= File(s, v).mtime
      BY <1>1, <1>6 DEF LoadInv
    <2> QED
      BY <1>1, <1>6, <2>1, <2>2, <2>4, <2>5, <2>6 DEF LoadInv
  <1>7. CASE HostLoad(s)
    <2>1. PICK v \in Units :
             /\ v = host[s].loading /\ host[s].alive
             /\ \/ HostMoves(s, host[s].alive, host[s].dir, 0, host[s].seen, host[s].image, host[s].mtime)
                \/ HostMoves(s, host[s].alive, host[s].dir, 0, host[s].seen,
                             [host[s].image EXCEPT ![v] = File(s, v).lib],
                             [host[s].mtime EXCEPT ![v] = host[s].seen])
      BY <1>1, <1>7, HostSteps
    <2> QED
      BY <1>2, <1>5, <1>6, <2>1
  <1>8. CASE HostCopyFails(s)
    BY <1>1, <1>2, <1>5, <1>8, HostSteps
  <1>9. CASE HostExit(s)
    <2>1. HostMoves(s, FALSE, host[s].dir, 0, 0, [u \in Units |-> NoLib], [u \in Units |-> 0])
      BY <1>1, <1>9, HostSteps
    <2>2. LoadInv(s)'
      BY <2>1 DEF HostMoves, LoadInv
    <2> QED
      BY <1>2, <2>1, <2>2
  <1>10. CASE Fork(s)
    <2>1. HostMoves(s, TRUE, ses[s].dir, 0, 0, [u \in Units |-> NoLib], [u \in Units |-> 0])
      BY <1>1, <1>10, HostSteps
    <2>2. LoadInv(s)'
      <3>1. host'[s].loading = 0 /\ host'[s].image = [u \in Units |-> NoLib]
        BY <2>1 DEF HostMoves
      <3>2. \A u \in Units : host'[s].image[u] = NoLib /\ u # 0
        BY <3>1, Constants
      <3> QED
        BY <3>1, <3>2 DEF LoadInv
    <2> QED
      BY <1>2, <2>1, <2>2
  <1>11. ASSUME NEW v \in Units, HostStat(s, v) PROVE \A t \in Sessions : LoadInv(t)'
    <2>1. HostMoves(s, host[s].alive, host[s].dir, v, File(s, v).mtime, host[s].image, host[s].mtime)
      BY <1>1, <1>11, HostSteps
    <2> QED
      BY <1>2, <1>4, <1>11, <2>1
  <1> QED
    BY <1>7, <1>8, <1>9, <1>10, <1>11

(* A published library is newer than every record of the file it replaces.  *)
LEMMA RenameFile ==
    ASSUME BaseInv, NEW s \in Sessions, Rename(s)
    PROVE  /\ ses[s].dir \in Dirs /\ ses[s].unit \in Units
           /\ so'[ses[s].dir][ses[s].unit].lib = Lib(s)
           /\ so'[ses[s].dir][ses[s].unit].mtime = so[ses[s].dir][ses[s].unit].mtime + 1
           /\ \A d \in Dirs, u \in Units :
                 d # ses[s].dir \/ u # ses[s].unit => so'[d][u] = so[d][u]
           /\ Lib(s) \in Libs /\ Lib(s) # NoLib
  <1>1. ses[s].unit \in Units /\ Lib(s) \in Libs
    BY FileWrites
  <1>2. so \in [Dirs -> [Units -> Files]] /\ ses[s].dir \in Dirs
    BY DEF BaseInv, TypeInv, HotTypes, DevTypes, Watchers
  <1>3. so' = [so EXCEPT ![ses[s].dir][ses[s].unit] = Published(s)]
    BY DEF Rename
  <1>4. Published(s).lib = Lib(s) /\ Published(s).mtime = so[ses[s].dir][ses[s].unit].mtime + 1
    BY DEF Published
  <1> DEFINE e == ses[s].dir
             v == ses[s].unit
             f == Published(s)
  <1>5. so'[e][v] = f /\ \A d \in Dirs, u \in Units : d # e \/ u # v => so'[d][u] = so[d][u]
    <2>1. e \in Dirs /\ v \in Units /\ so' = [so EXCEPT ![e][v] = f]
      BY <1>1, <1>2, <1>3
    <2> HIDE DEF e, v, f
    <2> QED
      BY <1>2, <2>1
  <1> QED
    BY <1>1, <1>2, <1>4, <1>5, LibIsNotNone

LEMMA ReloadInvInit == Init => ReloadInv
  <1> SUFFICES ASSUME Init PROVE ReloadInv
    OBVIOUS
  <1>1. \A s \in Sessions : ~host[s].alive
    BY DEF Init, NoHost, Fresh
  <1> QED
    BY <1>1, BaseInvInit DEF ReloadInv, LoadInv

LEMMA ReloadInvStep == ReloadInv /\ [Next]_devVars => ReloadInv'
  <1> SUFFICES ASSUME ReloadInv, [Next]_devVars PROVE \A t \in Sessions : LoadInv(t)'
    BY BaseInvStep DEF ReloadInv
  <1>1. BaseInv /\ TypeInv
    BY DEF ReloadInv, BaseInv
  <1>2. CASE UNCHANGED <<so, host>>
    BY <1>2 DEF ReloadInv, LoadInv, File
  <1>3. ASSUME NEW s \in Sessions, UNCHANGED host, Rename(s) PROVE \A t \in Sessions : LoadInv(t)'
    <2> SUFFICES ASSUME NEW t \in Sessions, host[t].alive, NEW u \in Units
                 PROVE  /\ host[t].image[u] # NoLib =>
                              /\ host[t].mtime[u] <= File(t, u)'.mtime
                              /\ host[t].mtime[u] = File(t, u)'.mtime => host[t].image[u] = File(t, u)'.lib
                        /\ host[t].loading = u => host[t].seen <= File(t, u)'.mtime /\ File(t, u)'.lib # NoLib
      BY <1>3 DEF LoadInv
    <2>1. host[t].dir \in Dirs /\ host[t].mtime[u] \in Nat /\ host[t].seen \in Nat /\ File(t, u).mtime \in Nat
      BY <1>1, FileType DEF TypeInv, HotTypes, Hosts
    <2>2. LoadInv(t)
      BY DEF ReloadInv
    <2>3. File(t, u)' = so'[host[t].dir][u] /\ File(t, u) = so[host[t].dir][u]
      BY <1>3 DEF File
    <2>4. CASE host[t].dir = ses[s].dir /\ u = ses[s].unit
      <3>1. File(t, u)'.lib # NoLib /\ File(t, u)'.mtime = File(t, u).mtime + 1
        BY <1>1, <1>3, <2>3, <2>4, RenameFile
      <3>2. host[t].image[u] # NoLib => host[t].mtime[u] <= File(t, u).mtime
        BY <2>2 DEF LoadInv
      <3>3. host[t].loading = u => host[t].seen <= File(t, u).mtime
        BY <2>2 DEF LoadInv
      <3> QED
        BY <2>1, <3>1, <3>2, <3>3
    <2>5. CASE ~(host[t].dir = ses[s].dir /\ u = ses[s].unit)
      <3>1. File(t, u)' = File(t, u)
        BY <1>1, <1>3, <2>1, <2>3, <2>5, RenameFile
      <3> QED
        BY <2>2, <3>1 DEF LoadInv
    <2> QED
      BY <2>4, <2>5
  <1>4. ASSUME NEW s \in Sessions, UNCHANGED host, so' = [so EXCEPT ![s] = NoFiles], ~host[s].alive
        PROVE  \A t \in Sessions : LoadInv(t)'
    <2> SUFFICES ASSUME NEW t \in Sessions, host[t].alive PROVE LoadInv(t)'
      BY <1>4 DEF LoadInv
    <2>1. host[t].dir # s /\ host[t].dir \in Dirs
      BY <1>1, <1>4, Constants DEF BaseInv, PlaceInv, TypeInv, HotTypes, Hosts
    <2>2. so'[host[t].dir] = so[host[t].dir]
      BY <1>1, <1>4, <2>1 DEF TypeInv, HotTypes
    <2>3. \A u \in Units : File(t, u)' = File(t, u)
      BY <1>4, <2>2 DEF File
    <2> QED
      BY <1>4, <2>3 DEF ReloadInv, LoadInv
  <1> QED
    BY <1>1, <1>2, <1>3, <1>4, HotSteps, LoadStep DEF HotStep

LEMMA ReloadInvHolds == Spec => []ReloadInv
  BY ReloadInvInit, ReloadInvStep, PTL DEF Spec

(* A host never runs an old library believing it is the current one: a      *)
(* library that is replaced between the stat and the copy of a reload is    *)
(* loaded again at the next call.                                           *)
THEOREM ReloadsAreNotMissed == Spec => []NoReloadMissed
  <1>1. ReloadInv => NoReloadMissed
    BY DEF ReloadInv, LoadInv, NoReloadMissed
  <1> QED
    BY <1>1, ReloadInvHolds, PTL

(* A running host keeps a library for each unit it has one for: no reload   *)
(* that fails, and no restart of its session, takes it away.                *)
THEOREM LastGoodIsKept == Spec => KeepsLastGood
  <1> DEFINE Keeps == \A s \in Sessions : \A u \in Units :
                        host[s].alive /\ host'[s].alive /\ host[s].image[u] # NoLib
                            => host'[s].image[u] # NoLib
  <1>1. ReloadInv /\ [Next]_devVars => [Keeps]_<<so, host, faults>>
    <2> SUFFICES ASSUME ReloadInv, [Next]_devVars, NEW t \in Sessions, NEW u \in Units,
                        host[t].alive, host'[t].alive, host[t].image[u] # NoLib
                 PROVE  host'[t].image[u] # NoLib
      OBVIOUS
    <2>1. BaseInv /\ TypeInv /\ LoadInv(t)
      BY DEF ReloadInv, BaseInv
    <2>2. CASE UNCHANGED host
      BY <2>2
    <2>3. ASSUME NEW s \in Sessions, HotStep(s), host' # host PROVE host'[t].image[u] # NoLib
      <3>1. CASE t # s
        <4>1. host'[t] = host[t]
          BY <2>1, <2>3, <3>1, HostSteps DEF HotStep, HostMoves
        <4> QED
          BY <4>1
      <3>2. CASE t = s
        <4>1. CASE host'[s].image = host[s].image
          BY <3>2, <4>1
        <4>2. CASE HostLoad(s)
          <5>1. PICK v \in Units :
                   /\ v = host[s].loading
                   /\ host'[s].image = host[s].image \/ host'[s].image = [host[s].image EXCEPT ![v] = File(s, v).lib]
            BY <2>1, <4>2, HostSteps DEF HostMoves
          <5>2. File(s, v).lib # NoLib
            BY <2>1, <3>2, <5>1 DEF LoadInv
          <5>3. host[s].image \in [Units -> Images]
            BY <2>1 DEF TypeInv, HotTypes, Hosts
          <5> QED
            BY <3>2, <5>1, <5>2, <5>3
        <4>3. ~HostExit(s)
          <5>1. HostExit(s) => host'[s].alive = FALSE
            BY <2>1, HostSteps DEF HostMoves
          <5> QED
            BY <3>2, <5>1
        <4>4. (\E w \in Units : HostStat(s, w)) \/ HostCopyFails(s) => host'[s].image = host[s].image
          BY <2>1, HostSteps DEF HostMoves
        <4> QED
          BY <2>3, <3>2, <4>1, <4>2, <4>3, <4>4 DEF HotStep
      <3> QED
        BY <3>1, <3>2
    <2> QED
      BY <2>1, <2>2, <2>3, HotSteps
  <1> QED
    BY <1>1, ReloadInvHolds, PTL DEF Spec, KeepsLastGood

-----------------------------------------------------------------------------
Rebuilding(s) == ses[s].pc \in {"read", "publish", "hash"} /\ ~ses[s].first

(* The watcher's samples are never ahead of the files.  As long as nothing  *)
(* was saved since the sample a rebuild was started for, what it has read   *)
(* so far is what the files say; and as long as nothing was saved since     *)
(* watch_mtime, the last build is of what they say, also while a rebuild    *)
(* that may fail is under way.                                              *)
SaveInv(s) ==
    /\ ses[s].watch <= newest /\ ses[s].m <= newest
    /\ Rebuilding(s) /\ newest <= ses[s].m =>
          \A u \in Units : ~At(s, "read") \/ u < ses[s].unit => ses[s].ir[u] = src[s][u]
    /\ (At(s, "poll") \/ Rebuilding(s)) /\ newest <= ses[s].watch /\ ~ses[s].skipped => ses[s].built = src[s]

WatchInv == BaseInv /\ \A s \in Sessions : SaveInv(s)

LEMMA WatchInvInit == Init => WatchInv
  <1> SUFFICES ASSUME Init PROVE WatchInv
    OBVIOUS
  <1>1. \A s \in Sessions : ses[s].pc = "off" /\ ses[s].watch = 0 /\ ses[s].m = 0
    BY DEF Init, Off
  <1>2. newest = 0
    BY DEF Init
  <1> QED
    BY <1>1, <1>2, BaseInvInit DEF WatchInv, SaveInv, Rebuilding, At

(* A session's own steps.                                                   *)
LEMMA SaveStep ==
    ASSUME WatchInv, NEW s \in Sessions, Start(s) \/ Session(s) \/ Failure(s) \/ Kill(s)
    PROVE  SaveInv(s)'
  <1>1. BaseInv /\ TypeInv /\ SaveInv(s) /\ PlaceInv(s)
    BY DEF WatchInv, BaseInv
  <1>2. /\ newest \in Nat /\ src[s] \in [Units -> Texts] /\ ses[s] \in Watchers
        /\ NUnits \in Nat /\ Units = 1..NUnits
    BY <1>1, Constants DEF TypeInv, DevTypes
  <1>3. /\ ses[s].pc \in Places /\ ses[s].unit \in 1..(NUnits + 1) /\ ses[s].ir \in [Units -> Texts]
        /\ ses[s].m \in Nat /\ ses[s].watch \in Nat /\ ses[s].built \in [Units -> Texts]
    BY <1>2 DEF Watchers
  <1>4. src' = src /\ newest' = newest
    BY DEF Start, Session, Compile, Failure, Kill, ReadUnit, Rejected, Accepted, Reuse, Rename, WriteHash,
           Linked, Fork, Baseline, Rebuild, SessionEnd, HashNotWritten, ToolFails, ForkFails, EntryUnreadable
  <1>5. ASSUME NEW p \in {"off", "hash"}, Goto(s, p), p = "hash" => At(s, "publish") PROVE SaveInv(s)'
    <2>1. Moves(s, p, ses[s].dir, ses[s].first, ses[s].unit, ses[s].ir, ses[s].built, ses[s].m,
                ses[s].watch, ses[s].skipped)
      BY <1>1, <1>5, WatcherMoves DEF Places
    <2>2. p # "poll" /\ (p \in {"read", "publish", "hash"} => ses[s].pc = "publish")
      BY <1>5 DEF At
    <2> QED
      BY <1>1, <1>4, <2>1, <2>2 DEF Moves, SaveInv, Rebuilding, At
  <1>6. CASE Start(s)
    <2>1. PICK d \in Dirs : Becomes(s, [Off EXCEPT !.pc = "read", !.dir = d])
      BY <1>6, Constants DEF Start
    <2>2. Moves(s, "read", d, TRUE, 1, Sources, Sources, 0, 0, FALSE)
      BY <1>1, <2>1, WatcherMoves
    <2> QED
      BY <1>2, <1>4, <2>2 DEF Moves, SaveInv, Rebuilding, At
  <1>7. CASE Kill(s) \/ ForkFails(s) \/ SessionEnd(s) \/ Rename(s)
    BY <1>5, <1>7 DEF Kill, ForkFails, SessionEnd, Rename, Publishing
  <1>8. CASE Rejected(s) \/ ToolFails(s)
    <2>1. Moves(s, IF ses[s].first THEN "off" ELSE "poll", ses[s].dir, ses[s].first, ses[s].unit, ses[s].ir,
                ses[s].built, ses[s].m, ses[s].watch, ses[s].skipped)
      BY <1>1, <1>8, WatcherMoves
    <2>2. ses[s].pc \in {"read", "publish"}
      BY <1>8 DEF Rejected, ToolFails, At
    <2> QED
      BY <1>1, <1>4, <2>1, <2>2 DEF Moves, SaveInv, Rebuilding, At
  <1>9. CASE ReadUnit(s)
    <2> DEFINE i == [ses[s].ir EXCEPT ![ses[s].unit] = src[s][ses[s].unit]]
    <2>1. Moves(s, "read", ses[s].dir, ses[s].first, ses[s].unit + 1, i,
                ses[s].built, ses[s].m, ses[s].watch, ses[s].skipped)
      BY <1>1, <1>9, WatcherMoves
    <2>2. ses[s].pc = "read"
      BY <1>9 DEF ReadUnit, At
    <2>3. \A u \in Units : u < ses[s].unit + 1 => (u < ses[s].unit /\ i[u] = ses[s].ir[u]) \/ i[u] = src[s][u]
      BY <1>2, <1>3
    <2> HIDE DEF i
    <2> QED
      BY <1>1, <1>4, <2>1, <2>2, <2>3 DEF Moves, SaveInv, Rebuilding, At
  <1>10. CASE Accepted(s)
    <2>1. Moves(s, "publish", ses[s].dir, ses[s].first, 1, ses[s].ir,
                ses[s].built, ses[s].m, ses[s].watch, ses[s].skipped)
      BY <1>1, <1>10, WatcherMoves
    <2>2. ses[s].pc = "read" /\ ses[s].unit > NUnits
      BY <1>10 DEF Accepted, At
    <2>3. \A u \in Units : u < ses[s].unit
      BY <1>2, <1>3, <2>2
    <2> QED
      BY <1>1, <1>4, <2>1, <2>2, <2>3 DEF Moves, SaveInv, Rebuilding, At
  <1>11. CASE Reuse(s) \/ WriteHash(s) \/ HashNotWritten(s)
    <2>1. Moves(s, "publish", ses[s].dir, ses[s].first, ses[s].unit + 1, ses[s].ir,
                ses[s].built, ses[s].m, ses[s].watch, ses[s].skipped)
      <3>1. WriteHash(s) \/ HashNotWritten(s) => NextUnit(s) /\ ses[s].unit \in Units
        BY <1>1 DEF WriteHash, HashNotWritten, PlaceInv
      <3> QED
        BY <1>1, <1>11, <3>1, WatcherMoves
    <2>2. ses[s].pc \in {"publish", "hash"}
      BY <1>11 DEF Reuse, WriteHash, HashNotWritten, Publishing, At
    <2> QED
      BY <1>1, <1>4, <2>1, <2>2 DEF Moves, SaveInv, Rebuilding, At
  <1>12. CASE Linked(s)
    <2>1. Moves(s, IF ses[s].first THEN "fork" ELSE "poll", ses[s].dir, ses[s].first, ses[s].unit, ses[s].ir,
                ses[s].ir, ses[s].m, WatchAfter(s), FALSE)
      BY <1>1, <1>12, WatcherMoves
    <2>2. ses[s].pc = "publish"
      BY <1>12 DEF Linked, At
    <2>3. WatchAfter(s) = IF ses[s].first THEN ses[s].watch ELSE ses[s].m
      BY DEF WatchAfter
    <2>4. ASSUME ~ses[s].first, newest <= ses[s].m PROVE ses[s].ir = src[s]
      <3>1. \A u \in Units : ses[s].ir[u] = src[s][u]
        BY <1>1, <2>2, <2>4 DEF SaveInv, Rebuilding, At
      <3> QED
        BY <1>2, <1>3, <3>1
    <2> QED
      BY <1>1, <1>4, <2>1, <2>2, <2>3, <2>4 DEF Moves, SaveInv, Rebuilding, At
  <1>13. CASE Fork(s)
    <2>1. Moves(s, "baseline", ses[s].dir, FALSE, ses[s].unit, ses[s].ir, ses[s].built, ses[s].m,
                ses[s].watch, ses[s].skipped)
      BY <1>1, <1>13, WatcherMoves
    <2> QED
      BY <1>1, <1>4, <2>1 DEF Moves, SaveInv, Rebuilding, At
  <1>14. CASE Baseline(s) \/ EntryUnreadable(s)
    <2>1. Moves(s, "poll", ses[s].dir, ses[s].first, ses[s].unit, ses[s].ir, ses[s].built, ses[s].m,
                newest, ses[s].built # src[s])
      BY <1>1, <1>14, WatcherMoves DEF EntryUnreadable, Changed, At
    <2>2. /\ ses'[s].pc = "poll" /\ ses'[s].watch = newest /\ ses'[s].m = ses[s].m
          /\ ses'[s].built = ses[s].built /\ ses'[s].skipped = (ses[s].built # src[s])
      BY <2>1 DEF Moves
    <2>3. ~ses'[s].skipped => ses'[s].built = src'[s]
      BY <1>4, <2>2, Zenon
    <2>4. ses'[s].watch <= newest' /\ ses'[s].m <= newest'
      BY <1>1, <1>2, <1>4, <2>2 DEF SaveInv
    <2> QED
      BY <2>2, <2>3, <2>4 DEF SaveInv, Rebuilding, At
  <1>15. CASE Rebuild(s)
    <2>1. Moves(s, "read", ses[s].dir, ses[s].first, 1, ses[s].ir, ses[s].built, newest,
                ses[s].watch, ses[s].skipped)
      BY <1>1, <1>15, WatcherMoves
    <2>2. ses[s].pc = "poll"
      BY <1>15 DEF Rebuild, Changed, At
    <2>3. \A u \in Units : ~(u < 1)
      BY <1>2
    <2> QED
      BY <1>1, <1>2, <1>4, <2>1, <2>2, <2>3 DEF Moves, SaveInv, Rebuilding, At
  <1> QED
    BY <1>6, <1>7, <1>8, <1>9, <1>10, <1>11, <1>12, <1>13, <1>14, <1>15 DEF Session, Compile, Failure

LEMMA WatchInvStep == WatchInv /\ [Next]_devVars => WatchInv'
  <1> SUFFICES ASSUME WatchInv, [Next]_devVars PROVE \A t \in Sessions : SaveInv(t)'
    BY BaseInvStep DEF WatchInv
  <1>1. BaseInv /\ TypeInv
    BY DEF WatchInv, BaseInv
  <1>2. CASE UNCHANGED <<src, newest, ses>>
    BY <1>2 DEF WatchInv, SaveInv, Rebuilding, At
  <1>3. ASSUME NEW s \in Sessions, Start(s) \/ Session(s) \/ Failure(s) \/ Kill(s)
        PROVE  \A t \in Sessions : SaveInv(t)'
    <2>1. SaveInv(s)'
      BY <1>3, SaveStep
    <2>2. src' = src /\ newest' = newest
      BY <1>3 DEF Start, Session, Compile, Failure, Kill, ReadUnit, Rejected, Accepted, Reuse, Rename, WriteHash,
                  Linked, Fork, Baseline, Rebuild, SessionEnd, HashNotWritten, ToolFails, ForkFails, EntryUnreadable
    <2>3. \E w : ses' = [ses EXCEPT ![s] = w]
      BY <1>3 DEF Start, Session, Compile, Failure, Kill, ReadUnit, Rejected, Accepted, Reuse, Rename, WriteHash,
                  Linked, Fork, Baseline, Rebuild, SessionEnd, HashNotWritten, ToolFails, ForkFails,
                  EntryUnreadable, Goto, NextUnit, Becomes
    <2>4. \A t \in Sessions : t # s => ses'[t] = ses[t]
      BY <1>1, <2>3 DEF TypeInv, DevTypes
    <2> QED
      BY <2>1, <2>2, <2>4 DEF WatchInv, SaveInv, Rebuilding, At
  <1>4. ASSUME NEW s \in Sessions, NEW u \in Units, NEW text \in Texts, Save(s, u, text)
        PROVE  \A t \in Sessions : SaveInv(t)'
    <2> SUFFICES ASSUME NEW t \in Sessions PROVE SaveInv(t)'
      OBVIOUS
    <2>1. newest' = newest + 1 /\ ses' = ses /\ newest \in Nat
      BY <1>1, <1>4 DEF Save, TypeInv, DevTypes
    <2>2. ses[t].watch \in Nat /\ ses[t].m \in Nat /\ ses[t].watch <= newest /\ ses[t].m <= newest
      BY <1>1 DEF WatchInv, SaveInv, TypeInv, DevTypes, Watchers
    <2>3. ~(newest' <= ses[t].watch) /\ ~(newest' <= ses[t].m) /\ ses[t].watch <= newest' /\ ses[t].m <= newest'
      BY <2>1, <2>2
    <2> QED
      BY <2>1, <2>3 DEF SaveInv
  <1>5. ASSUME NEW s \in Sessions,
               LoadUnit(s) \/ CopyFails(s) \/ HostExit(s) \/ \E u \in Units : StatUnit(s, u)
        PROVE  UNCHANGED <<src, newest, ses>>
    BY <1>5 DEF LoadUnit, CopyFails, StatUnit, HostExit, devOnly
  <1>6. CASE UNCHANGED devVars
    BY <1>2, <1>6 DEF devVars
  <1> QED
    BY <1>2, <1>3, <1>4, <1>5, <1>6 DEF Next

(* A save is never lost between two polls: when the watcher sees nothing    *)
(* new, the last build read what the files say now, whatever was saved      *)
(* during that build or during failed ones, except for a save that          *)
(* cmd_run.c passes over by setting watch_mtime without a build (skipped).  *)
THEOREM SavesAreNotPassedOver == Spec => []NoSavePassedOver
  <1>1. WatchInv => NoSavePassedOver
    BY DEF WatchInv, SaveInv, NoSavePassedOver
  <1> QED
    BY <1>1, WatchInvInit, WatchInvStep, PTL DEF Spec

-----------------------------------------------------------------------------
(* unit_u.so in directory d is a library of program s.                      *)
OwnFile(s, d, u) == so[d][u].lib # NoLib /\ so[d][u].lib[1] = s

(* Session s has published its library of unit u, in this build or before.  *)
Settled(s, u) ==
    /\ ~At(s, "off")
    /\ \/ ~ses[s].first \/ At(s, "fork")
       \/ At(s, "publish") /\ u < ses[s].unit
       \/ At(s, "hash") /\ u <= ses[s].unit

(* What a session published, and what its host can see or has, is its own.  *)
OwnInv(s) ==
    /\ At(s, "hash") => so[ses[s].dir][ses[s].unit].lib = Lib(s)
    /\ \A u \in Units : Settled(s, u) => OwnFile(s, ses[s].dir, u)
    /\ host[s].alive => \A u \in Units :
          /\ OwnFile(s, host[s].dir, u)
          /\ host[s].image[u] # NoLib => host[s].image[u][1] = s

(* A sidecar names the library it lies beside, except while the session     *)
(* that renamed the library has not yet written it: what makes a hit safe.  *)
Paired ==
    \A d \in Dirs, u \in Units :
        so[d][u].lib # NoLib =>
            \/ hash[d][u] = so[d][u].lib
            \/ \E s \in Sessions : At(s, "hash") /\ ses[s].dir = d /\ ses[s].unit = u

LibInv == BaseInv /\ (~torn => Paired /\ \A s \in Sessions : OwnInv(s))

LEMMA OneUser ==
    ASSUME BaseInv, NEW s \in Sessions, NEW t \in Sessions, NEW d, Uses(s, d), Uses(t, d)
    PROVE  s = t
  <1>1. d \in {"shared", s} /\ d \in {"shared", t}
    BY DEF BaseInv, PlaceInv, Uses
  <1> QED
    BY <1>1, Constants DEF BaseInv, Exclusive

(* Sessions whose directory a step does not write keep what they have.      *)
LEMMA OwnerKept ==
    ASSUME NEW t \in Sessions, OwnInv(t), ses'[t] = ses[t], host'[t] = host[t],
           \A d : Uses(t, d) => so'[d] = so[d]
    PROVE  OwnInv(t)'
  <1>1. CASE ~At(t, "off")
    <2>1. so'[ses[t].dir] = so[ses[t].dir]
      BY <1>1 DEF Uses
    <2>2. host[t].alive => so'[host[t].dir] = so[host[t].dir]
      BY DEF Uses
    <2> QED
      BY <2>1, <2>2 DEF OwnInv, Settled, OwnFile, Lib, At
  <1>2. CASE At(t, "off")
    <2>1. host[t].alive => so'[host[t].dir] = so[host[t].dir]
      BY DEF Uses
    <2> QED
      BY <1>2, <2>1 DEF OwnInv, Settled, OwnFile, Lib, At
  <1> QED
    BY <1>1, <1>2

(* A step of the watcher of s that writes no file.                          *)
LEMMA WatcherOwns ==
    ASSUME LibInv, ~torn, NEW s \in Sessions, UNCHANGED <<so, hash, host>>, ~At(s, "hash"), ~At(s, "hash")',
           \A t \in Sessions : t # s => ses'[t] = ses[t],
           \A u \in Units : Settled(s, u)' => OwnFile(s, ses'[s].dir, u)
    PROVE  Paired' /\ \A t \in Sessions : OwnInv(t)'
  <1>1. Paired /\ \A t \in Sessions : OwnInv(t)
    BY DEF LibInv
  <1>2. Paired'
    BY <1>1 DEF Paired, At
  <1>3. \A t \in Sessions : t # s => OwnInv(t)'
    BY <1>1, OwnerKept
  <1>4. OwnInv(s)'
    <2>1. OwnInv(s)
      BY <1>1
    <2> QED
      BY <2>1 DEF OwnInv, OwnFile
  <1> QED
    BY <1>2, <1>3, <1>4

(* The session resets its private directory, which only its host could use. *)
LEMMA ResetOwns ==
    ASSUME LibInv, ~torn, NEW s \in Sessions, Start(s) \/ SessionEnd(s)
    PROVE  Paired' /\ \A t \in Sessions : OwnInv(t)'
  <1>1. BaseInv /\ TypeInv /\ Paired /\ \A t \in Sessions : OwnInv(t)
    BY DEF LibInv, BaseInv
  <1>2. \/ so' = so /\ hash' = hash
        \/ so' = [so EXCEPT ![s] = NoFiles] /\ hash' = [hash EXCEPT ![s] = NoHashes]
    <2>1. CASE Start(s)
      <3>1. PICK d : /\ d = "shared" \/ d = s
                     /\ so' = IF d = "shared" THEN so ELSE [so EXCEPT ![d] = NoFiles]
                     /\ hash' = IF d = "shared" THEN hash ELSE [hash EXCEPT ![d] = NoHashes]
        BY <2>1 DEF Start
      <3> QED
        BY <3>1
    <2>2. CASE SessionEnd(s)
      BY <2>2 DEF SessionEnd
    <2> QED
      BY <2>1, <2>2
  <1>3. /\ ~host[s].alive /\ host' = host /\ ~At(s, "hash")
        /\ \A t \in Sessions : t # s => ses'[t] = ses[t]
        /\ ~At(s, "hash")' /\ \A u \in Units : ~Settled(s, u)'
    <2>1. CASE Start(s)
      <3>1. PICK d \in Dirs : Becomes(s, [Off EXCEPT !.pc = "read", !.dir = d])
        BY <2>1, Constants DEF Start
      <3>2. Moves(s, "read", d, TRUE, 1, Sources, Sources, 0, 0, FALSE)
        BY <1>1, <3>1, WatcherMoves
      <3> QED
        BY <2>1, <3>2 DEF Start, Moves, Settled, At
    <2>2. CASE SessionEnd(s)
      <3>1. Moves(s, "off", ses[s].dir, ses[s].first, ses[s].unit, ses[s].ir, ses[s].built, ses[s].m,
                  ses[s].watch, ses[s].skipped)
        BY <1>1, <2>2, WatcherMoves DEF SessionEnd, Places
      <3> QED
        BY <2>2, <3>1 DEF SessionEnd, Moves, Settled, At
    <2> QED
      BY <2>1, <2>2
  <1>4. \A d \in Dirs : d # s => so'[d] = so[d] /\ hash'[d] = hash[d]
    BY <1>1, <1>2 DEF TypeInv, HotTypes, DevTypes
  <1>5. ASSUME NEW t \in Sessions, t # s PROVE OwnInv(t)'
    <2>1. \A d : Uses(t, d) => d \in Dirs /\ d # s
      BY <1>1, <1>5, Constants DEF BaseInv, PlaceInv, Uses
    <2> QED
      BY <1>1, <1>3, <1>4, <1>5, <2>1, OwnerKept
  <1>6. OwnInv(s)'
    BY <1>3 DEF OwnInv
  <1>7. Paired'
    <2> SUFFICES ASSUME NEW d \in Dirs, NEW u \in Units, so'[d][u].lib # NoLib
                 PROVE  \/ hash'[d][u] = so'[d][u].lib
                        \/ \E t \in Sessions : At(t, "hash")' /\ ses'[t].dir = d /\ ses'[t].unit = u
      BY DEF Paired
    <2>1. so'[d] = so[d] /\ hash'[d] = hash[d]
      <3>1. CASE so' = so /\ hash' = hash
        BY <3>1
      <3>2. CASE so' = [so EXCEPT ![s] = NoFiles]
        <4>1. d = s => so'[d][u] = NoFile
          BY <1>1, <3>2 DEF TypeInv, HotTypes, NoFiles
        <4>2. d # s
          BY <4>1 DEF NoFile
        <4> QED
          BY <1>4, <4>2
      <3> QED
        BY <1>2, <3>1, <3>2
    <2>2. CASE hash[d][u] = so[d][u].lib
      BY <2>1, <2>2
    <2>3. CASE hash[d][u] # so[d][u].lib
      <3>1. PICK t \in Sessions : At(t, "hash") /\ ses[t].dir = d /\ ses[t].unit = u
        BY <1>1, <2>1, <2>3 DEF Paired
      <3>2. t # s
        BY <1>3, <3>1
      <3> QED
        BY <1>3, <3>1, <3>2 DEF At
    <2> QED
      BY <2>2, <2>3
  <1> QED
    BY <1>5, <1>6, <1>7

LEMMA RenameOwns ==
    ASSUME LibInv, ~torn, NEW s \in Sessions, Rename(s)
    PROVE  Paired' /\ \A t \in Sessions : OwnInv(t)'
  <1>1. BaseInv /\ TypeInv /\ Paired /\ (\A t \in Sessions : OwnInv(t)) /\ PlaceInv(s)
    BY DEF LibInv, BaseInv
  <1>2. Moves(s, "hash", ses[s].dir, ses[s].first, ses[s].unit, ses[s].ir, ses[s].built, ses[s].m,
              ses[s].watch, ses[s].skipped)
    BY <1>1, WatcherMoves DEF Rename, Places
  <1>3. At(s, "publish") /\ host' = host /\ hash' = hash
    BY DEF Rename, Publishing
  <1>4. /\ ses'[s].pc = "hash" /\ ses'[s].dir = ses[s].dir /\ ses'[s].unit = ses[s].unit
        /\ ses'[s].first = ses[s].first /\ ses'[s].ir = ses[s].ir
        /\ \A t \in Sessions : t # s => ses'[t] = ses[t]
    BY <1>2 DEF Moves
  <1>5. \A d \in Dirs : d # ses[s].dir => so'[d] = so[d]
    <2> DEFINE e == ses[s].dir
               v == ses[s].unit
               f == Published(s)
    <2>1. so' = [so EXCEPT ![e][v] = f] /\ so \in [Dirs -> [Units -> Files]]
      BY <1>1 DEF Rename, TypeInv, HotTypes
    <2> HIDE DEF e, v, f
    <2>2. \A d \in Dirs : d # e => so'[d] = so[d]
      BY <2>1
    <2> QED
      BY <2>2 DEF e
  <1>6. Uses(s, ses[s].dir)
    BY <1>3 DEF Uses, At
  <1>7. ASSUME NEW t \in Sessions, t # s PROVE OwnInv(t)'
    <2>1. \A d : Uses(t, d) => d \in Dirs /\ d # ses[s].dir
      <3>1. \A d : Uses(t, d) => d \in Dirs
        BY <1>1, Constants DEF BaseInv, PlaceInv, Uses
      <3>2. \A d : Uses(t, d) => d # ses[s].dir
        BY <1>1, <1>6, <1>7, OneUser
      <3> QED
        BY <3>1, <3>2
    <2> QED
      BY <1>1, <1>3, <1>4, <1>5, <1>7, <2>1, OwnerKept
  <1>8. OwnFile(s, ses[s].dir, ses[s].unit)'
    <2>1. so'[ses[s].dir][ses[s].unit].lib = Lib(s) /\ Lib(s) # NoLib
      BY <1>1, RenameFile
    <2>2. Lib(s)[1] = s
      BY DEF Lib
    <2> QED
      BY <1>4, <2>1, <2>2 DEF OwnFile
  <1>9. \A u \in Units : u # ses[s].unit => so'[ses[s].dir][u] = so[ses[s].dir][u]
    BY <1>1, RenameFile
  <1>10. OwnInv(s)'
    <2>1. Lib(s)' = Lib(s)
      BY <1>4 DEF Lib
    <2>2. so'[ses'[s].dir][ses'[s].unit].lib = Lib(s)'
      BY <1>1, <1>4, <2>1, RenameFile
    <2>3. ses[s].unit \in Nat /\ Units \subseteq Nat
      BY <1>1, RenameFile, Constants
    <2>4. ASSUME NEW u \in Units, u # ses[s].unit, Settled(s, u)' PROVE OwnFile(s, ses[s].dir, u)'
      <3>1. Settled(s, u)
        BY <1>3, <1>4, <2>3, <2>4 DEF Settled, At
      <3>2. OwnFile(s, ses[s].dir, u)
        BY <1>1, <3>1 DEF OwnInv
      <3> QED
        BY <1>4, <1>9, <2>4, <3>2 DEF OwnFile
    <2>5. ASSUME host[s].alive, NEW u \in Units PROVE OwnFile(s, host[s].dir, u)'
      <3>1. host[s].dir = ses[s].dir
        BY <1>1, <1>3, <2>5 DEF PlaceInv, At
      <3>2. OwnFile(s, host[s].dir, u)
        BY <1>1, <2>5 DEF OwnInv
      <3>3. CASE u = ses[s].unit
        BY <1>3, <1>4, <1>8, <3>1, <3>3 DEF OwnFile
      <3>4. CASE u # ses[s].unit
        BY <1>3, <1>9, <3>1, <3>2, <3>4 DEF OwnFile
      <3> QED
        BY <3>3, <3>4
    <2>6. ASSUME NEW u \in Units, Settled(s, u)' PROVE OwnFile(s, ses[s].dir, u)'
      <3>1. CASE u = ses[s].unit
        BY <1>4, <1>8, <3>1 DEF OwnFile
      <3> QED
        BY <2>4, <2>6, <3>1
    <2>7. \A u \in Units : host[s].alive => (host[s].image[u] # NoLib => host[s].image[u][1] = s)
      BY <1>1 DEF OwnInv
    <2> QED
      BY <1>3, <2>2, <2>5, <2>6, <2>7 DEF OwnInv
  <1>11. Paired'
    <2> SUFFICES ASSUME NEW d \in Dirs, NEW u \in Units, so'[d][u].lib # NoLib
                 PROVE  \/ hash'[d][u] = so'[d][u].lib
                        \/ \E t \in Sessions : At(t, "hash")' /\ ses'[t].dir = d /\ ses'[t].unit = u
      BY DEF Paired
    <2>1. CASE d = ses[s].dir /\ u = ses[s].unit
      BY <1>4, <2>1 DEF At
    <2>2. CASE ~(d = ses[s].dir /\ u = ses[s].unit)
      <3>1. so'[d][u] = so[d][u]
        BY <1>5, <1>9, <2>2
      <3>2. CASE hash[d][u] # so[d][u].lib
        <4>1. PICK t \in Sessions : At(t, "hash") /\ ses[t].dir = d /\ ses[t].unit = u
          BY <1>1, <3>1, <3>2 DEF Paired
        <4>2. t # s
          BY <1>3, <4>1 DEF At
        <4> QED
          BY <1>4, <4>1, <4>2 DEF At
      <3> QED
        BY <1>3, <3>1, <3>2
    <2> QED
      BY <2>1, <2>2
  <1> QED
    BY <1>7, <1>10, <1>11

LEMMA WriteHashOwns ==
    ASSUME LibInv, ~torn, NEW s \in Sessions, WriteHash(s)
    PROVE  Paired' /\ \A t \in Sessions : OwnInv(t)'
  <1>1. BaseInv /\ TypeInv /\ Paired /\ (\A t \in Sessions : OwnInv(t))
    BY DEF LibInv, BaseInv
  <1>2. At(s, "hash") /\ so' = so /\ host' = host /\ ses[s].unit \in Units
    BY <1>1, FileWrites DEF WriteHash, hotVars
  <1>3. Moves(s, "publish", ses[s].dir, ses[s].first, ses[s].unit + 1, ses[s].ir,
              ses[s].built, ses[s].m, ses[s].watch, ses[s].skipped)
    BY <1>1, <1>2, WatcherMoves DEF WriteHash
  <1>4. /\ ses'[s].pc = "publish" /\ ses'[s].dir = ses[s].dir /\ ses'[s].unit = ses[s].unit + 1
        /\ ses'[s].first = ses[s].first
        /\ \A t \in Sessions : t # s => ses'[t] = ses[t]
    BY <1>3 DEF Moves
  <1>5. so[ses[s].dir][ses[s].unit].lib = Lib(s)
    BY <1>1, <1>2 DEF OwnInv
  <1>6. \A d \in Dirs, u \in Units :
            hash'[d][u] = IF d = ses[s].dir /\ u = ses[s].unit THEN Lib(s) ELSE hash[d][u]
    <2> DEFINE e == ses[s].dir
               v == ses[s].unit
               l == Lib(s)
    <2>1. /\ hash' = [hash EXCEPT ![e][v] = l] /\ hash \in [Dirs -> [Units -> Images]]
          /\ e \in Dirs /\ v \in Units
      BY <1>1, <1>2 DEF WriteHash, TypeInv, DevTypes, Watchers
    <2>2. \A d \in Dirs, u \in Units : hash'[d][u] = IF d = e /\ u = v THEN l ELSE hash[d][u]
      <3> HIDE DEF e, v, l
      <3> QED
        BY <2>1
    <2> QED
      BY <2>2
  <1>7. \A t \in Sessions : t # s => OwnInv(t)'
    BY <1>1, <1>2, <1>4, OwnerKept
  <1>8. OwnInv(s)'
    <2>1. OwnInv(s) /\ ses[s].unit \in Nat /\ Units \subseteq Nat
      BY <1>1, <1>2, Constants
    <2>2. \A u \in Units : u < ses[s].unit + 1 => u <= ses[s].unit
      <3>1. PICK n \in Nat : n = ses[s].unit
        BY <2>1
      <3>2. \A u \in Nat : u < n + 1 => u <= n
        OBVIOUS
      <3> QED
        BY <2>1, <3>1, <3>2
    <2>3. \A u \in Units : Settled(s, u)' => Settled(s, u)
      <3>1. ses[s].pc = "hash"
        BY <1>2 DEF At
      <3> QED
        BY <1>4, <2>2, <3>1 DEF Settled, At
    <2> QED
      BY <1>2, <1>4, <2>1, <2>3 DEF OwnInv, OwnFile, At
  <1>9. Paired'
    <2> SUFFICES ASSUME NEW d \in Dirs, NEW u \in Units, so[d][u].lib # NoLib
                 PROVE  \/ hash'[d][u] = so[d][u].lib
                        \/ \E t \in Sessions : At(t, "hash")' /\ ses'[t].dir = d /\ ses'[t].unit = u
      BY <1>2 DEF Paired
    <2>1. CASE d = ses[s].dir /\ u = ses[s].unit
      BY <1>5, <1>6, <2>1
    <2>2. CASE ~(d = ses[s].dir /\ u = ses[s].unit)
      <3>1. hash'[d][u] = hash[d][u]
        BY <1>6, <2>2
      <3>2. CASE hash[d][u] # so[d][u].lib
        <4>1. PICK t \in Sessions : At(t, "hash") /\ ses[t].dir = d /\ ses[t].unit = u
          BY <1>1, <3>2 DEF Paired
        <4>2. t # s
          BY <2>2, <4>1
        <4> QED
          BY <1>4, <4>1, <4>2 DEF At
      <3> QED
        BY <3>1, <3>2
    <2> QED
      BY <2>1, <2>2
  <1> QED
    BY <1>7, <1>8, <1>9

(* The other steps of the watcher: none publishes a file, and the one that  *)
(* keeps a file checks its sidecar.                                         *)
LEMMA QuietOwns ==
    ASSUME LibInv, ~torn, NEW s \in Sessions,
           \/ (Kill(s) /\ ~At(s, "hash")) \/ ForkFails(s) \/ Rejected(s) \/ ToolFails(s) \/ ReadUnit(s) \/ Accepted(s)
           \/ Reuse(s) \/ Linked(s) \/ Baseline(s) \/ Rebuild(s) \/ EntryUnreadable(s)
    PROVE  Paired' /\ \A t \in Sessions : OwnInv(t)'
  <1>1. BaseInv /\ TypeInv /\ Paired /\ OwnInv(s) /\ PlaceInv(s) /\ ses[s] \in Watchers
    BY DEF LibInv, BaseInv, TypeInv, DevTypes
  <1>2. UNCHANGED <<so, hash, host>> /\ ~At(s, "hash")
    BY DEF Kill, ForkFails, Rejected, ToolFails, ReadUnit, Accepted, Reuse, Linked, Baseline, Rebuild,
           EntryUnreadable, Changed, Publishing, hotVars, At
  <1>3. NUnits \in Nat /\ Units = 1..NUnits /\ ses[s].unit \in Nat /\ ses[s].pc \in Places
    BY <1>1, Constants DEF Watchers
  <1>4. \A u \in Units : Settled(s, u) => OwnFile(s, ses[s].dir, u)
    BY <1>1 DEF OwnInv
  <1>5. ASSUME NEW pc, NEW unit, NEW ir, NEW built, NEW m, NEW watch, NEW skipped,
               Moves(s, pc, ses[s].dir, ses[s].first, unit, ir, built, m, watch, skipped), pc # "hash",
               ~At(s, "off"),
               \A u \in Units : pc = "fork" \/ (pc = "publish" /\ u < unit) => OwnFile(s, ses[s].dir, u)
        PROVE  Paired' /\ \A t \in Sessions : OwnInv(t)'
    <2>1. /\ ses'[s].pc = pc /\ ses'[s].dir = ses[s].dir /\ ses'[s].first = ses[s].first /\ ses'[s].unit = unit
          /\ \A t \in Sessions : t # s => ses'[t] = ses[t]
      BY <1>5 DEF Moves
    <2>2. \A u \in Units : Settled(s, u)' => OwnFile(s, ses[s].dir, u)
      BY <1>4, <1>5, <2>1 DEF Settled, At
    <2>3. ~At(s, "hash")' /\ \A u \in Units : Settled(s, u)' => OwnFile(s, ses'[s].dir, u)
      BY <1>5, <2>1, <2>2 DEF At
    <2> QED
      BY <1>2, <2>1, <2>3, WatcherOwns
  <1>6. CASE Kill(s) \/ ForkFails(s)
    <2>1. Goto(s, "off") /\ ~At(s, "off") /\ "off" \in Places
      BY <1>6 DEF Kill, ForkFails, At, Places
    <2>2. Moves(s, "off", ses[s].dir, ses[s].first, ses[s].unit, ses[s].ir, ses[s].built, ses[s].m,
                ses[s].watch, ses[s].skipped)
      BY <1>1, <2>1, WatcherMoves
    <2> QED
      BY <1>5, <2>1, <2>2
  <1>7. CASE Rejected(s) \/ ToolFails(s)
    <2>1. PICK p : p = (IF ses[s].first THEN "off" ELSE "poll") /\ p \in {"off", "poll"}
      OBVIOUS
    <2>2. Moves(s, p, ses[s].dir, ses[s].first, ses[s].unit, ses[s].ir,
                ses[s].built, ses[s].m, ses[s].watch, ses[s].skipped)
      BY <1>1, <1>7, <2>1, WatcherMoves
    <2>3. ~At(s, "off")
      BY <1>7 DEF Rejected, ToolFails, At
    <2> QED
      BY <1>5, <2>1, <2>2, <2>3
  <1>8. CASE ReadUnit(s)
    <2>1. Moves(s, "read", ses[s].dir, ses[s].first, ses[s].unit + 1,
                [ses[s].ir EXCEPT ![ses[s].unit] = src[s][ses[s].unit]],
                ses[s].built, ses[s].m, ses[s].watch, ses[s].skipped)
      BY <1>1, <1>8, WatcherMoves
    <2>2. ~At(s, "off")
      BY <1>8 DEF ReadUnit, At
    <2> QED
      BY <1>5, <2>1, <2>2
  <1>9. CASE Accepted(s)
    <2>1. Moves(s, "publish", ses[s].dir, ses[s].first, 1, ses[s].ir,
                ses[s].built, ses[s].m, ses[s].watch, ses[s].skipped)
      BY <1>1, <1>9, WatcherMoves
    <2>2. ~At(s, "off") /\ \A u \in Units : ~(u < 1)
      BY <1>3, <1>9 DEF Accepted, At
    <2> QED
      BY <1>5, <2>1, <2>2
  <1>10. CASE Reuse(s)
    <2>1. Moves(s, "publish", ses[s].dir, ses[s].first, ses[s].unit + 1, ses[s].ir,
                ses[s].built, ses[s].m, ses[s].watch, ses[s].skipped)
      BY <1>1, <1>10, WatcherMoves
    <2>2. At(s, "publish") /\ ses[s].unit <= NUnits /\ ses[s].unit \in 1..(NUnits + 1)
      BY <1>1, <1>10 DEF Reuse, Publishing, Watchers
    <2>3. ses[s].unit \in Units /\ ses[s].dir \in Dirs
      BY <1>1, <1>3, <2>2 DEF Watchers
    <2>4. OwnFile(s, ses[s].dir, ses[s].unit)
      <3>1. ~\E t \in Sessions : At(t, "hash") /\ ses[t].dir = ses[s].dir
        <4> SUFFICES ASSUME NEW t \in Sessions, At(t, "hash"), ses[t].dir = ses[s].dir PROVE FALSE
          OBVIOUS
        <4>1. Uses(s, ses[s].dir) /\ Uses(t, ses[s].dir)
          BY <2>2 DEF Uses, At
        <4>2. s = t
          BY <1>1, <4>1, OneUser
        <4> QED
          BY <2>2, <4>2 DEF At
      <3>2. so[ses[s].dir][ses[s].unit].lib # NoLib /\ hash[ses[s].dir][ses[s].unit] = Lib(s)
        BY <1>10 DEF Reuse, Hit
      <3>3. so[ses[s].dir][ses[s].unit].lib = Lib(s)
        BY <1>1, <2>3, <3>1, <3>2 DEF Paired
      <3>4. Lib(s)[1] = s
        BY DEF Lib
      <3> QED
        BY <3>2, <3>3, <3>4 DEF OwnFile
    <2>5. \A u \in Units : u < ses[s].unit + 1 => u < ses[s].unit \/ u = ses[s].unit
      BY <1>3, <2>3
    <2>6. \A u \in Units : u < ses[s].unit => OwnFile(s, ses[s].dir, u)
      BY <1>4, <2>2 DEF Settled, At
    <2>7. ~At(s, "off")
      BY <2>2 DEF At
    <2>8. \A u \in Units : u < ses[s].unit + 1 => OwnFile(s, ses[s].dir, u)
      BY <2>4, <2>5, <2>6
    <2> QED
      BY <1>5, <2>1, <2>7, <2>8
  <1>11. CASE Linked(s)
    <2>1. PICK p : p = (IF ses[s].first THEN "fork" ELSE "poll") /\ p \in {"fork", "poll"}
      OBVIOUS
    <2>2. Moves(s, p, ses[s].dir, ses[s].first, ses[s].unit, ses[s].ir,
                ses[s].ir, ses[s].m, WatchAfter(s), FALSE)
      BY <1>1, <1>11, <2>1, WatcherMoves
    <2>3. At(s, "publish") /\ ses[s].unit > NUnits
      BY <1>11 DEF Linked
    <2>4. \A u \in Units : OwnFile(s, ses[s].dir, u)
      <3>1. \A u \in Units : u < ses[s].unit
        BY <1>3, <2>3
      <3> QED
        BY <1>4, <2>3, <3>1 DEF Settled, At
    <2>5. ~At(s, "off")
      BY <2>3 DEF At
    <2> QED
      BY <1>5, <2>1, <2>2, <2>4, <2>5
  <1>12. CASE Baseline(s) \/ EntryUnreadable(s)
    <2>1. Moves(s, "poll", ses[s].dir, ses[s].first, ses[s].unit, ses[s].ir, ses[s].built, ses[s].m,
                newest, ses[s].built # src[s])
      BY <1>1, <1>12, WatcherMoves DEF EntryUnreadable, Changed, At
    <2>2. ~At(s, "off")
      BY <1>12 DEF Baseline, EntryUnreadable, Changed, At
    <2> QED
      BY <1>5, <2>1, <2>2
  <1>13. CASE Rebuild(s)
    <2>1. Moves(s, "read", ses[s].dir, ses[s].first, 1, ses[s].ir, ses[s].built, newest,
                ses[s].watch, ses[s].skipped)
      BY <1>1, <1>13, WatcherMoves
    <2>2. ~At(s, "off")
      BY <1>13 DEF Rebuild, Changed, At
    <2> QED
      BY <1>5, <2>1, <2>2
  <1> QED
    BY <1>6, <1>7, <1>8, <1>9, <1>10, <1>11, <1>12, <1>13

(* A step of the host of s, or its start.                                   *)
LEMMA HostOwns ==
    ASSUME LibInv, ~torn, NEW s \in Sessions, UNCHANGED <<so, hash>>,
           \/ UNCHANGED ses /\ ((\E u \in Units : HostStat(s, u)) \/ HostLoad(s) \/ HostCopyFails(s) \/ HostExit(s))
           \/ Fork(s)
    PROVE  Paired' /\ \A t \in Sessions : OwnInv(t)'
  <1>1. BaseInv /\ TypeInv /\ Paired /\ (\A t \in Sessions : OwnInv(t)) /\ PlaceInv(s)
    BY DEF LibInv, BaseInv
  <1>2. ASSUME ses' = ses, NEW alive, NEW loading, NEW seen, NEW image, NEW mtime,
               HostMoves(s, alive, host[s].dir, loading, seen, image, mtime), alive => host[s].alive,
               \A u \in Units : alive /\ image[u] # NoLib => image[u][1] = s
        PROVE  Paired' /\ \A t \in Sessions : OwnInv(t)'
    <2>1. /\ host'[s].alive = alive /\ host'[s].dir = host[s].dir /\ host'[s].image = image
          /\ \A t \in Sessions : t # s => host'[t] = host[t]
      BY <1>2 DEF HostMoves
    <2>2. \A t \in Sessions : t # s => OwnInv(t)'
      BY <1>1, <1>2, <2>1, OwnerKept
    <2>3. OwnInv(s)'
      <3>1. OwnInv(s)
        BY <1>1
      <3> QED
        BY <1>2, <2>1, <3>1 DEF OwnInv, Settled, OwnFile, Lib, At
    <2>4. Paired'
      BY <1>1, <1>2 DEF Paired, At
    <2> QED
      BY <2>2, <2>3, <2>4
  <1>3. \A u \in Units : host[s].alive /\ host[s].image[u] # NoLib => host[s].image[u][1] = s
    BY <1>1 DEF OwnInv
  <1>4. CASE ses' = ses /\ ((\E u \in Units : HostStat(s, u)) \/ HostCopyFails(s))
    <2>1. \E loading, seen : HostMoves(s, host[s].alive, host[s].dir, loading, seen, host[s].image, host[s].mtime)
      BY <1>1, <1>4, HostSteps
    <2>2. PICK loading, seen : HostMoves(s, host[s].alive, host[s].dir, loading, seen, host[s].image, host[s].mtime)
      BY <2>1
    <2> QED
      BY <1>2, <1>3, <1>4, <2>2
  <1>5. CASE ses' = ses /\ HostExit(s)
    BY <1>1, <1>2, <1>5, HostSteps
  <1>6. CASE ses' = ses /\ HostLoad(s)
    <2>1. PICK v \in Units :
             /\ v = host[s].loading /\ host[s].alive
             /\ \/ HostMoves(s, host[s].alive, host[s].dir, 0, host[s].seen, host[s].image, host[s].mtime)
                \/ HostMoves(s, host[s].alive, host[s].dir, 0, host[s].seen,
                             [host[s].image EXCEPT ![v] = File(s, v).lib],
                             [host[s].mtime EXCEPT ![v] = host[s].seen])
      BY <1>1, <1>6, HostSteps
    <2>2. File(s, v).lib[1] = s
      BY <1>1, <2>1 DEF OwnInv, OwnFile, File
    <2>3. host[s].image \in [Units -> Images]
      BY <1>1 DEF TypeInv, HotTypes, Hosts
    <2> DEFINE im == [host[s].image EXCEPT ![v] = File(s, v).lib]
    <2>4. \A u \in Units : im[u] # NoLib => im[u][1] = s
      BY <1>3, <2>1, <2>2, <2>3
    <2>5. PICK image, mtime :
             /\ HostMoves(s, host[s].alive, host[s].dir, 0, host[s].seen, image, mtime)
             /\ image = host[s].image \/ image = im
      BY <2>1
    <2>6. \A u \in Units : host[s].alive /\ image[u] # NoLib => image[u][1] = s
      <3> HIDE DEF im
      <3> QED
        BY <1>3, <2>4, <2>5
    <2> QED
      BY <1>2, <1>6, <2>5, <2>6
  <1>7. CASE Fork(s)
    <2>1. HostMoves(s, TRUE, ses[s].dir, 0, 0, [u \in Units |-> NoLib], [u \in Units |-> 0])
      BY <1>1, <1>7, HostSteps
    <2>2. Moves(s, "baseline", ses[s].dir, FALSE, ses[s].unit, ses[s].ir, ses[s].built, ses[s].m,
                ses[s].watch, ses[s].skipped)
      BY <1>1, <1>7, WatcherMoves
    <2>3. At(s, "fork") /\ \A u \in Units : OwnFile(s, ses[s].dir, u)
      <3>1. At(s, "fork") /\ \A u \in Units : Settled(s, u)
        BY <1>7 DEF Fork, Settled, At
      <3> QED
        BY <1>1, <3>1 DEF OwnInv
    <2>4. /\ host'[s].dir = ses[s].dir /\ host'[s].image = [u \in Units |-> NoLib]
          /\ \A t \in Sessions : t # s => host'[t] = host[t]
      BY <2>1 DEF HostMoves
    <2>5. /\ ses'[s].pc = "baseline" /\ ses'[s].dir = ses[s].dir
          /\ \A t \in Sessions : t # s => ses'[t] = ses[t]
      BY <2>2 DEF Moves
    <2>6. \A t \in Sessions : t # s => OwnInv(t)'
      BY <1>1, <2>4, <2>5, OwnerKept
    <2>7. \A u \in Units : host'[s].image[u] = NoLib
      BY <2>4
    <2>8. OwnInv(s)'
      BY <2>3, <2>4, <2>5, <2>7 DEF OwnInv, OwnFile, At
    <2>9. Paired'
      BY <1>1, <2>3, <2>5 DEF Paired, At
    <2> QED
      BY <2>6, <2>8, <2>9
  <1> QED
    BY <1>4, <1>5, <1>6, <1>7

LEMMA LibInvInit == Init => LibInv
  <1> SUFFICES ASSUME Init PROVE LibInv
    OBVIOUS
  <1>1. \A s \in Sessions : ses[s].pc = "off" /\ ~host[s].alive
    BY DEF Init, Off, NoHost, Fresh
  <1>2. \A d \in Dirs, u \in Units : so[d][u].lib = NoLib
    BY DEF Init, NoFiles, NoFile
  <1> QED
    BY <1>1, <1>2, BaseInvInit DEF LibInv, Paired, OwnInv, Settled, At

LEMMA LibInvStep == LibInv /\ [Next]_devVars => LibInv'
  <1> SUFFICES ASSUME LibInv, [Next]_devVars, ~torn'
               PROVE  Paired' /\ \A t \in Sessions : OwnInv(t)'
    BY BaseInvStep DEF LibInv
  <1>1. BaseInv /\ TypeInv
    BY DEF LibInv, BaseInv
  <1>2. torn \in BOOLEAN /\ torn' \in BOOLEAN
    BY <1>1, BaseInvStep DEF BaseInv, TypeInv, DevTypes
  <1>3. torn' = TRUE \/ torn' = torn \/ \E s \in Sessions : Kill(s)
    BY DEF Next, Start, Session, Compile, Failure, Kill, HostExit, LoadUnit, CopyFails, StatUnit, Save,
           devVars, devOnly, ReadUnit, Rejected, Accepted, Reuse, Rename, WriteHash, Linked, Fork, Baseline, Rebuild,
           SessionEnd, HashNotWritten, ToolFails, ForkFails, EntryUnreadable
  <1>4. ~torn /\ \A s \in Sessions : Kill(s) => ~At(s, "hash")
    <2>1. ASSUME NEW s \in Sessions, Kill(s) PROVE ~torn /\ ~At(s, "hash")
      <3>1. torn' = (torn \/ At(s, "hash"))
        BY <2>1 DEF Kill
      <3> QED
        BY <3>1, Zenon
    <2>2. torn' = torn \/ \E s \in Sessions : Kill(s)
      BY <1>3
    <2>3. ~torn
      <3>1. CASE torn' = torn
        BY <3>1
      <3>2. CASE \E s \in Sessions : Kill(s)
        BY <2>1, <3>2
      <3> QED
        BY <2>2, <3>1, <3>2
    <2> QED
      BY <2>1, <2>3
  <1>5. \A s \in Sessions : ~HashNotWritten(s)
    BY <1>2 DEF HashNotWritten
  <1>6. CASE UNCHANGED <<so, hash, host, ses>>
    BY <1>4, <1>6 DEF LibInv, Paired, OwnInv, Settled, OwnFile, Lib, At
  <1>7. ASSUME NEW s \in Sessions,
               LoadUnit(s) \/ CopyFails(s) \/ HostExit(s) \/ Fork(s) \/ \E u \in Units : StatUnit(s, u)
        PROVE  Paired' /\ \A t \in Sessions : OwnInv(t)'
    <2>1. UNCHANGED <<so, hash>> /\ (UNCHANGED ses \/ Fork(s))
      BY <1>7 DEF LoadUnit, CopyFails, StatUnit, HostLoad, HostCopyFails, HostStat, HostExit, Fork, devOnly
    <2> QED
      BY <1>4, <1>7, <2>1, HostOwns DEF LoadUnit, CopyFails, StatUnit
  <1>8. ASSUME NEW s \in Sessions, NEW u \in Units, NEW text \in Texts, Save(s, u, text)
        PROVE  UNCHANGED <<so, hash, host, ses>>
    BY <1>8 DEF Save, hotVars
  <1>9. CASE UNCHANGED devVars
    BY <1>6, <1>9 DEF devVars
  <1>10. ASSUME NEW s \in Sessions, Start(s) \/ Session(s) \/ Failure(s) \/ Kill(s), ~Fork(s)
         PROVE  Paired' /\ \A t \in Sessions : OwnInv(t)'
    <2>1. CASE Start(s) \/ SessionEnd(s)
      BY <1>4, <2>1, ResetOwns
    <2>2. CASE Rename(s)
      BY <1>4, <2>2, RenameOwns
    <2>3. CASE WriteHash(s)
      BY <1>4, <2>3, WriteHashOwns
    <2> QED
      BY <1>4, <1>5, <1>10, <2>1, <2>2, <2>3, QuietOwns DEF Session, Compile, Failure
  <1> QED
    BY <1>6, <1>7, <1>8, <1>9, <1>10 DEF Next

(* A host never has a library of another program: not of a session that     *)
(* runs beside it, whatever directories the two were given, and not one     *)
(* that an earlier session left in the shared directory, as long as every   *)
(* library got its sidecar.                                                 *)
THEOREM LibrariesAreOwn == Spec => []OwnLibrary
  <1>1. LibInv => OwnLibrary
    BY DEF LibInv, OwnInv, OwnLibrary
  <1> QED
    BY <1>1, LibInvInit, LibInvStep, PTL DEF Spec
=============================================================================
