--------------------------- MODULE ScheduleProofs ---------------------------
(***************************************************************************)
(* On every path through every schedule, where the coherence pass had no    *)
(* doubt and the runtime no event, no step reads a stale copy of a column.  *)
(***************************************************************************)
EXTENDS Schedule, TLAPS, SequenceTheorems

Buffers == [rows : Nat, ok : BOOLEAN, dirty : BOOLEAN]
PlacedKernels == {k \in [gpu : BOOLEAN, reads : SUBSET Cols, writes : SUBSET Cols, hidden : SUBSET {"reads", "writes"},
                         grows : {0, 1}] :
                    k.gpu => k.reads # {} /\ k.writes # {} /\ k.hidden = {} /\ k.grows = 0}
Written == [k : Kernels \cup {UserSync}, when : Whens]
Scheduled == [k : PlacedKernels \cup {UserSync}, when : Whens]
AllDoubts == {"both", "asked", "when", "column", "hidden"}
Marks == [dg : BOOLEAN, dh : BOOLEAN, seen : BOOLEAN, run : Nat, resident : BOOLEAN,
          flush : SUBSET Nat, sync : SUBSET Nat, upload : SUBSET Nat, dhIn : BOOLEAN,
          doubts : SUBSET AllDoubts]

(***************************************************************************)
(* What was written, and what the pass makes of it.                         *)
(***************************************************************************)
Running == pc[1] \in {"guard", "test", "move", "run"}

GpuTypes ==
    /\ hostOk \in [Cols -> BOOLEAN] /\ cache \in [Cols -> Seq(Buffers)]
    /\ rows \in Nat /\ stale \in BOOLEAN

StepsInv ==
    /\ pc[1] \in {"write", "place"} => steps \in Seq(Written)
    /\ pc[1] \notin {"write", "place"} => steps \in Seq(Scheduled)
    /\ loopFrom \in 0..NSteps /\ (loopFrom # 0 => steps[loopFrom].when # "same")

PcInv ==
    /\ pc \in {"write", "place", "pass", "guard", "test", "move", "run", "done"} \X Nat
    /\ pc[1] = "place" => NSteps > 0
    /\ pc[1] = "pass" => Step \in 1..NSteps /\ Len(coh) = Step
    /\ Running => Step \in 1..NSteps /\ Len(coh) = NSteps + 1
    /\ pc[1] \in {"test", "move"} => steps[Step].when = "new"
    /\ pc[1] = "run" => IsRun(Step)

(* The pass: each of its states comes from the one before.                  *)
Chained(q) ==
    /\ q \in Seq(Marks) /\ Len(q) > 0
    /\ \A j \in 1..(Len(q) - 1) : j <= NSteps /\ q[j + 1] = Visit(q[j], j)

(* Doubts and the mark of a dispatch stay.                                  *)
Monotone(q) ==
    \A i, j \in 1..Len(q) : i <= j => q[i].doubts \subseteq q[j].doubts /\ (q[i].seen => q[j].seen)

(* A transfer is put where it was found needed, and stays.                  *)
NeededFlush(m, i) == steps[i].when = "new" /\ Entered(m, i).dg
NeededSync(m, i) == IsRun(i) /\ NeedsSync(Opened(m, i), steps[i].k)
NeededUpload(m, i) == IsRun(i) /\ NeedsUpload(Opened(m, i), steps[i].k)
Transferred(q) ==
    \A j \in 1..Len(q) : \A i \in Nat :
        /\ i \in q[j].flush <=> i \in 1..(j - 1) /\ NeededFlush(q[i], i)
        /\ i \in q[j].sync <=> i \in 1..(j - 1) /\ NeededSync(q[i], i)
        /\ i \in q[j].upload <=> i \in 1..(j - 1) /\ NeededUpload(q[i], i)

(* In a conditional body the mark of its start is kept.                     *)
KeepsMark(q) ==
    \A i, j \in 1..(Len(q) - 1) :
        i <= j /\ steps[i].when = "new" /\ InBody(i, j) => q[j + 1].dhIn = Entered(q[i], i).dh

(* The start of the loop knows what the end of its body leaves.             *)
Below(c, d) == (c.dg => d.dg) /\ (c.dh => d.dh) /\ (c.seen => d.seen)
LoopClosed(q) ==
    loopFrom # 0 =>
        \A j \in loopFrom..(Len(q) - 1) : Below(q[j + 1], EnterLoop(q[loopFrom]))

PassOk(q) == Chained(q) /\ Monotone(q) /\ Transferred(q) /\ KeepsMark(q) /\ LoopClosed(q)

(***************************************************************************)
(* What the marks promise of the two copies.                                *)
(***************************************************************************)
HostCurrent == \A c \in Cols : hostOk[c]
CacheCurrent == \A c \in Cols : Exists(c) => cache[c][1].ok

Fits(m) ==
    /\ ~m.dg => HostCurrent
    /\ ~m.dh => CacheCurrent
    /\ ~m.seen => NothingResident

Safe == \A c \in Cols : hostOk[c] \/ (Exists(c) /\ cache[c][1].ok /\ cache[c][1].dirty)
Single == \A c \in Cols : Len(cache[c]) <= 1 /\ (Exists(c) => cache[c][1].rows = rows)
Kept == ~stale /\ Safe /\ Single /\ (plan.resident \/ NothingResident)

At(place, m) == pc[1] = place => Fits(m)

RunInv ==
    Orderly =>
        /\ Kept
        /\ At("guard", Entered(coh[Step], Step))
        /\ At("test", [Entered(coh[Step], Step) EXCEPT !.dg = FALSE])
        /\ At("move", Opened(coh[Step], Step))
        /\ At("run", Transfers(Opened(coh[Step], Step), Step))

Untouched == hostOk = [c \in Cols |-> TRUE] /\ cache = [c \in Cols |-> <<>>] /\ stale = FALSE

CInv ==
    /\ GpuTypes /\ StepsInv /\ PcInv
    /\ PassOk(coh)
    /\ pc[1] \in {"write", "place", "pass"} => Untouched
    /\ pc[1] \in {"write", "place"} => coh = <<Unvisited(FALSE)>>
    /\ Running \/ pc[1] = "done" => RunInv
-----------------------------------------------------------------------------
(* The operators of the pass, field by field.                               *)
LEMMA LoopMarks ==
    ASSUME NEW m \in Marks
    PROVE  LET e == EnterLoop(m)
           IN  /\ e \in Marks
               /\ e.dg = (m.dg \/ GWrite(LoopBody)) /\ e.dh = (m.dh \/ HWrite(LoopBody))
               /\ e.seen = (m.seen \/ GTouch(LoopBody))
               /\ e.flush = m.flush /\ e.sync = m.sync /\ e.upload = m.upload
               /\ e.dhIn = m.dhIn /\ e.doubts = m.doubts
  BY DEF EnterLoop, Seed, Marks, GWrite, HWrite, GTouch

LEMMA DoubtType ==
    ASSUME NEW m \in Marks, NEW p, NEW w \in AllDoubts
    PROVE  /\ Doubt(m, p, w) \subseteq AllDoubts
           /\ m.doubts \subseteq Doubt(m, p, w)
           /\ p => w \in Doubt(m, p, w)
  BY DEF Doubt, Marks

LEMMA WhenMarks ==
    ASSUME NEW m \in Marks, NEW i \in Nat
    PROVE  LET e == EnterWhen(m, i)
           IN  /\ e \in Marks
               /\ e.dg = GWrite(WhenBody(i)) /\ e.dh = (m.dh \/ HWrite(WhenBody(i)))
               /\ e.seen = m.seen
               /\ e.flush = (IF m.dg THEN m.flush \cup {i} ELSE m.flush)
               /\ e.sync = m.sync /\ e.upload = m.upload
               /\ e.dhIn = m.dh
               /\ m.doubts \subseteq e.doubts
               /\ m.dg /\ m.dh => "both" \in e.doubts
  <1> DEFINE d == Doubt(m, m.dg /\ m.dh, "both")
  <1>1. d \subseteq AllDoubts /\ m.doubts \subseteq d /\ (m.dg /\ m.dh => "both" \in d)
    BY DoubtType DEF AllDoubts
  <1> HIDE DEF d
  <1> DEFINE f == [m EXCEPT !.flush = IF m.dg THEN @ \cup {i} ELSE @, !.dg = FALSE, !.doubts = d]
  <1>2. /\ f \in Marks /\ f.dg = FALSE /\ f.dh = m.dh /\ f.seen = m.seen
        /\ f.flush = (IF m.dg THEN m.flush \cup {i} ELSE m.flush)
        /\ f.sync = m.sync /\ f.upload = m.upload /\ f.doubts = d
    BY <1>1 DEF Marks
  <1>3. EnterWhen(m, i) = [Seed(f, WhenBody(i)) EXCEPT !.run = 0, !.dhIn = m.dh]
    BY DEF EnterWhen, d
  <1> HIDE DEF f
  <1> DEFINE s == Seed(f, WhenBody(i))
  <1>4. /\ s \in Marks /\ s.dg = GWrite(WhenBody(i)) /\ s.dh = (m.dh \/ HWrite(WhenBody(i))) /\ s.seen = m.seen
        /\ s.flush = f.flush /\ s.sync = f.sync /\ s.upload = f.upload /\ s.doubts = f.doubts
    BY <1>2 DEF Seed, Marks, GWrite, HWrite
  <1> HIDE DEF s
  <1>5. m.dh \in BOOLEAN
    BY DEF Marks
  <1> DEFINE e == [s EXCEPT !.run = 0, !.dhIn = m.dh]
  <1>6. /\ e \in Marks /\ e.dg = s.dg /\ e.dh = s.dh /\ e.seen = s.seen
        /\ e.flush = s.flush /\ e.sync = s.sync /\ e.upload = s.upload /\ e.doubts = s.doubts
        /\ e.dhIn = m.dh
    BY <1>4, <1>5 DEF Marks
  <1>7. EnterWhen(m, i) = e
    BY <1>3 DEF s
  <1> HIDE DEF e
  <1> QED
    BY <1>1, <1>2, <1>4, <1>6, <1>7

LEMMA TransferMarks ==
    ASSUME NEW m \in Marks, NEW i \in Nat
    PROVE  LET e == Transfers(m, i)
               k == steps[i].k
               sync == NeedsSync(m, k)
               upload == NeedsUpload(m, k)
           IN  /\ e \in Marks
               /\ e.dg = (m.dg /\ ~sync) /\ e.dh = (m.dh /\ ~upload) /\ e.seen = m.seen
               /\ e.flush = m.flush
               /\ e.sync = (IF sync THEN m.sync \cup {i} ELSE m.sync)
               /\ e.upload = (IF upload THEN m.upload \cup {i} ELSE m.upload)
               /\ e.dhIn = m.dhIn
               /\ m.doubts \subseteq e.doubts
               /\ (sync \/ upload) /\ m.dg /\ m.dh => "both" \in e.doubts
  <1> DEFINE k == steps[i].k
             sync == NeedsSync(m, k)
             upload == NeedsUpload(m, k)
             d == Doubt(m, (sync \/ upload) /\ m.dg /\ m.dh, "both")
  <1>1. /\ d \subseteq AllDoubts /\ m.doubts \subseteq d
        /\ (sync \/ upload) /\ m.dg /\ m.dh => "both" \in d
    BY DoubtType DEF AllDoubts
  <1> DEFINE s == IF sync THEN m.sync \cup {i} ELSE m.sync
             u == IF upload THEN m.upload \cup {i} ELSE m.upload
             g == m.dg /\ ~sync
             h == m.dh /\ ~upload
             n == IF sync THEN 0 ELSE m.run
             e == [m EXCEPT !.sync = s, !.upload = u, !.dg = g, !.dh = h, !.run = n, !.doubts = d]
  <1>2. Transfers(m, i) = e
    BY DEF Transfers
  <1>b. sync \in BOOLEAN /\ upload \in BOOLEAN
    BY DEF NeedsSync, NeedsUpload, FpRead
  <1> HIDE DEF d, sync, upload
  <1>c. s \in SUBSET Nat /\ u \in SUBSET Nat /\ g \in BOOLEAN /\ h \in BOOLEAN /\ n \in Nat
    BY <1>b DEF Marks
  <1> HIDE DEF s, u, g, h, n
  <1>3. /\ e \in Marks /\ e.dg = g /\ e.dh = h /\ e.seen = m.seen
        /\ e.flush = m.flush /\ e.dhIn = m.dhIn /\ e.doubts = d /\ e.sync = s /\ e.upload = u
    BY <1>1, <1>c DEF Marks
  <1> HIDE DEF e
  <1> QED
    BY <1>1, <1>2, <1>3 DEF sync, upload, k, s, u, g, h

LEMMA EffectMarks ==
    ASSUME NEW m \in Marks, NEW k \in PlacedKernels
    PROVE  LET e == Effect(m, k)
           IN  /\ e \in Marks
               /\ e.dg = (IF k.gpu THEN m.dg \/ FpWrite(k) ELSE m.dg /\ ~FpWrite(k))
               /\ e.dh = (IF k.gpu THEN m.dh /\ ~FpWrite(k) ELSE m.dh \/ FpWrite(k))
               /\ e.seen = (m.seen \/ k.gpu)
               /\ e.flush = m.flush /\ e.sync = m.sync /\ e.upload = m.upload
               /\ e.dhIn = m.dhIn
               /\ m.doubts \subseteq e.doubts
               /\ ~k.gpu /\ m.dg /\ FpWrite(k) /\ k.writes # Cols => "column" \in e.doubts
               /\ ~k.gpu /\ m.seen /\ k.hidden # {} => "hidden" \in e.doubts
  <1> DEFINE c == Doubt(m, m.dg /\ FpWrite(k) /\ k.writes # Cols, "column")
             x == Doubt(m, m.seen /\ k.hidden # {}, "hidden")
             d == c \cup x
  <1>1. /\ d \subseteq AllDoubts /\ m.doubts \subseteq d
        /\ m.dg /\ FpWrite(k) /\ k.writes # Cols => "column" \in d
        /\ m.seen /\ k.hidden # {} => "hidden" \in d
    <2>1. c \subseteq AllDoubts /\ m.doubts \subseteq c /\ (m.dg /\ FpWrite(k) /\ k.writes # Cols => "column" \in c)
      BY DoubtType DEF AllDoubts
    <2>2. x \subseteq AllDoubts /\ (m.seen /\ k.hidden # {} => "hidden" \in x)
      BY DoubtType DEF AllDoubts
    <2> QED
      BY <2>1, <2>2
  <1>2. k.gpu \in BOOLEAN /\ FpWrite(k) \in BOOLEAN
    BY DEF PlacedKernels, FpWrite
  <1>3. CASE k.gpu
    <2> DEFINE res == m.resident \/ m.run >= 1
               g == m.dg \/ FpWrite(k)
               h == m.dh /\ ~FpWrite(k)
               n == m.run + 1
               e == [m EXCEPT !.seen = TRUE, !.run = n, !.resident = res, !.dg = g, !.dh = h]
    <2>1. Effect(m, k) = e
      BY <1>3 DEF Effect
    <2>2. res \in BOOLEAN /\ g \in BOOLEAN /\ h \in BOOLEAN /\ n \in Nat
      BY <1>2 DEF Marks
    <2> HIDE DEF res, g, h, n
    <2>3. /\ e \in Marks /\ e.dg = g /\ e.dh = h /\ e.seen = TRUE
          /\ e.flush = m.flush /\ e.sync = m.sync /\ e.upload = m.upload /\ e.dhIn = m.dhIn /\ e.doubts = m.doubts
      BY <2>2 DEF Marks
    <2> HIDE DEF e
    <2> QED
      BY <1>2, <1>3, <2>1, <2>3 DEF g, h
  <1>4. CASE ~k.gpu
    <2> DEFINE e == [m EXCEPT !.run = 0, !.dh = @ \/ FpWrite(k), !.dg = @ /\ ~FpWrite(k), !.doubts = d]
    <2>1. Effect(m, k) = e
      BY <1>4 DEF Effect
    <2> HIDE DEF d
    <2>2. /\ e \in Marks /\ e.dg = (m.dg /\ ~FpWrite(k)) /\ e.dh = (m.dh \/ FpWrite(k)) /\ e.seen = m.seen
          /\ e.flush = m.flush /\ e.sync = m.sync /\ e.upload = m.upload /\ e.dhIn = m.dhIn /\ e.doubts = d
      BY <1>1, <1>2 DEF Marks
    <2> HIDE DEF e
    <2>3. m.seen \in BOOLEAN
      BY DEF Marks
    <2> QED
      BY <1>1, <1>2, <1>4, <2>1, <2>2, <2>3
  <1> QED
    BY <1>3, <1>4

LEMMA AskedMarks ==
    ASSUME NEW m \in Marks
    PROVE  LET e == Asked(m)
           IN  /\ e \in Marks
               /\ e.dg = FALSE /\ e.dh = m.dh /\ e.seen = m.seen
               /\ e.flush = m.flush /\ e.sync = m.sync /\ e.upload = m.upload
               /\ e.dhIn = m.dhIn
               /\ m.doubts \subseteq e.doubts
               /\ m.dh => "asked" \in e.doubts
  <1> DEFINE d == Doubt(m, m.dh, "asked")
  <1>1. d \subseteq AllDoubts /\ m.doubts \subseteq d /\ (m.dh => "asked" \in d)
    BY DoubtType DEF AllDoubts
  <1> DEFINE e == [m EXCEPT !.dg = FALSE, !.run = 0, !.doubts = d]
  <1>2. Asked(m) = e
    BY DEF Asked
  <1> HIDE DEF d
  <1>3. /\ e \in Marks /\ e.dg = FALSE /\ e.dh = m.dh /\ e.seen = m.seen
        /\ e.flush = m.flush /\ e.sync = m.sync /\ e.upload = m.upload /\ e.dhIn = m.dhIn /\ e.doubts = d
    BY <1>1 DEF Marks
  <1> HIDE DEF e
  <1> QED
    BY <1>1, <1>2, <1>3

LEMMA LeaveMarks ==
    ASSUME NEW m \in Marks, NEW i \in Nat
    PROVE  LET e == LeaveWhen(m, i)
               body == BodyAround(i)
           IN  /\ e \in Marks
               /\ e.dg = (m.dg \/ GWrite(body)) /\ e.dh = (m.dh \/ HWrite(body)) /\ e.seen = m.seen
               /\ e.flush = m.flush /\ e.sync = m.sync /\ e.upload = m.upload
               /\ e.dhIn = m.dhIn
               /\ m.doubts \subseteq e.doubts
               /\ m.dhIn /\ ~e.dh => "when" \in e.doubts
  <1> DEFINE body == BodyAround(i)
             s == Seed(m, body)
             d == Doubt(m, m.dhIn /\ ~s.dh, "when")
  <1>1. d \subseteq AllDoubts /\ m.doubts \subseteq d /\ (m.dhIn /\ ~s.dh => "when" \in d)
    BY DoubtType DEF AllDoubts
  <1>2. LeaveWhen(m, i) = [s EXCEPT !.doubts = d]
    BY DEF LeaveWhen
  <1> HIDE DEF d
  <1>3. /\ s \in Marks /\ s.dg = (m.dg \/ GWrite(body)) /\ s.dh = (m.dh \/ HWrite(body)) /\ s.seen = m.seen
        /\ s.flush = m.flush /\ s.sync = m.sync /\ s.upload = m.upload /\ s.dhIn = m.dhIn /\ s.doubts = m.doubts
    BY DEF Seed, Marks, GWrite, HWrite
  <1> HIDE DEF s
  <1>4. /\ [s EXCEPT !.doubts = d] \in Marks
        /\ [s EXCEPT !.doubts = d].dg = s.dg /\ [s EXCEPT !.doubts = d].dh = s.dh
        /\ [s EXCEPT !.doubts = d].seen = s.seen
        /\ [s EXCEPT !.doubts = d].flush = s.flush /\ [s EXCEPT !.doubts = d].sync = s.sync
        /\ [s EXCEPT !.doubts = d].upload = s.upload /\ [s EXCEPT !.doubts = d].dhIn = s.dhIn
        /\ [s EXCEPT !.doubts = d].doubts = d
    BY <1>1, <1>3 DEF Marks
  <1> QED
    BY <1>1, <1>2, <1>3, <1>4

LEMMA EnteredMarks ==
    ASSUME NEW m \in Marks, NEW i \in Nat
    PROVE  LET e == Entered(m, i)
           IN  /\ e \in Marks
               /\ Below(m, e)
               /\ e.flush = m.flush /\ e.sync = m.sync /\ e.upload = m.upload
               /\ e.dhIn = m.dhIn /\ e.doubts = m.doubts
  <1>1. CASE i = loopFrom
    <2>1. Entered(m, i) = EnterLoop(m)
      BY <1>1 DEF Entered
    <2> DEFINE e == EnterLoop(m)
    <2>2. /\ e \in Marks
          /\ e.dg = (m.dg \/ GWrite(LoopBody)) /\ e.dh = (m.dh \/ HWrite(LoopBody))
          /\ e.seen = (m.seen \/ GTouch(LoopBody))
          /\ e.flush = m.flush /\ e.sync = m.sync /\ e.upload = m.upload
          /\ e.dhIn = m.dhIn /\ e.doubts = m.doubts
      BY LoopMarks
    <2> HIDE DEF e
    <2>3. Below(m, e)
      BY <2>2 DEF Below
    <2> QED
      BY <2>1, <2>2, <2>3 DEF e
  <1>2. CASE i # loopFrom
    BY <1>2 DEF Entered, Below
  <1> QED
    BY <1>1, <1>2

LEMMA OpenedMarks ==
    ASSUME NEW m \in Marks, NEW i \in Nat
    PROVE  LET e == Entered(m, i)
               o == Opened(m, i)
               new == steps[i].when = "new"
           IN  /\ o \in Marks
               /\ o.seen = e.seen
               /\ o.dg = (IF new THEN GWrite(WhenBody(i)) ELSE e.dg)
               /\ o.dh = (IF new THEN e.dh \/ HWrite(WhenBody(i)) ELSE e.dh)
               /\ o.flush = (IF new /\ e.dg THEN m.flush \cup {i} ELSE m.flush)
               /\ o.sync = m.sync /\ o.upload = m.upload
               /\ o.dhIn = (IF new THEN e.dh ELSE m.dhIn)
               /\ m.doubts \subseteq o.doubts
               /\ new /\ e.dg /\ e.dh => "both" \in o.doubts
  <1> DEFINE e == Entered(m, i)
  <1>1. /\ e \in Marks /\ e.flush = m.flush /\ e.sync = m.sync /\ e.upload = m.upload
        /\ e.dhIn = m.dhIn /\ e.doubts = m.doubts
    BY EnteredMarks
  <1> HIDE DEF e
  <1>2. CASE steps[i].when = "new"
    <2>1. Opened(m, i) = EnterWhen(e, i)
      BY <1>2 DEF Opened, e
    <2> QED
      BY <1>1, <1>2, <2>1, WhenMarks DEF e
  <1>3. CASE steps[i].when # "new"
    <2>1. Opened(m, i) = e
      BY <1>3 DEF Opened, e
    <2> QED
      BY <1>1, <1>3, <2>1 DEF e
  <1> QED
    BY <1>2, <1>3

(* A step that runs is a placed kernel.                                     *)
LEMMA Placement ==
    ASSUME steps \in Seq(Scheduled), NEW i \in 1..NSteps
    PROVE  /\ steps[i] \in Scheduled /\ steps[i].when \in Whens
           /\ IsRun(i) => steps[i].k \in PlacedKernels
  <1>1. steps[i] \in Scheduled
    BY ElementOfSeq DEF NSteps
  <1> QED
    BY <1>1 DEF Scheduled, IsRun

LEMMA DoneMarks ==
    ASSUME steps \in Seq(Scheduled), NEW i \in 1..NSteps, NEW m \in Marks
    PROVE  LET o == Opened(m, i)
               d == Done(m, i)
               k == steps[i].k
           IN  /\ d \in Marks
               /\ d.flush = o.flush
               /\ d.sync = (IF IsRun(i) /\ NeedsSync(o, k) THEN m.sync \cup {i} ELSE m.sync)
               /\ d.upload = (IF IsRun(i) /\ NeedsUpload(o, k) THEN m.upload \cup {i} ELSE m.upload)
               /\ d.dhIn = o.dhIn
               /\ o.doubts \subseteq d.doubts
               /\ d.seen = (o.seen \/ (IsRun(i) /\ k.gpu))
               /\ d.dg => o.dg \/ (IsRun(i) /\ k.gpu /\ FpWrite(k))
               /\ d.dh => o.dh \/ (IsRun(i) /\ ~k.gpu /\ FpWrite(k))
  <1> DEFINE o == Opened(m, i)
             k == steps[i].k
  <1>1. i \in Nat
    BY DEF NSteps
  <1>2. o \in Marks /\ o.sync = m.sync /\ o.upload = m.upload
    BY <1>1, OpenedMarks
  <1> HIDE DEF o
  <1>3. CASE IsRun(i)
    <2> DEFINE f == Transfers(o, i)
    <2>1. k \in PlacedKernels
      BY <1>3, Placement
    <2>2. /\ f \in Marks /\ f.flush = o.flush /\ f.dhIn = o.dhIn /\ f.seen = o.seen
          /\ f.sync = (IF NeedsSync(o, k) THEN o.sync \cup {i} ELSE o.sync)
          /\ f.upload = (IF NeedsUpload(o, k) THEN o.upload \cup {i} ELSE o.upload)
          /\ o.doubts \subseteq f.doubts /\ (f.dg => o.dg) /\ (f.dh => o.dh)
      BY <1>1, <1>2, TransferMarks
    <2>3. Done(m, i) = Effect(f, k)
      BY <1>3 DEF Done, o
    <2> HIDE DEF f, k
    <2> DEFINE d == Effect(f, k)
    <2>4. /\ d \in Marks /\ d.flush = f.flush /\ d.sync = f.sync /\ d.upload = f.upload /\ d.dhIn = f.dhIn
          /\ f.doubts \subseteq d.doubts /\ d.seen = (f.seen \/ k.gpu)
          /\ (d.dg => f.dg \/ (k.gpu /\ FpWrite(k))) /\ (d.dh => f.dh \/ (~k.gpu /\ FpWrite(k)))
      BY <2>1, <2>2, EffectMarks
    <2> HIDE DEF d
    <2> QED
      BY <1>2, <1>3, <2>2, <2>3, <2>4 DEF d, o, k
  <1>4. CASE ~IsRun(i)
    <2>1. Done(m, i) = Asked(o)
      BY <1>4 DEF Done, o
    <2> DEFINE d == Asked(o)
    <2>2. /\ d \in Marks /\ d.dg = FALSE /\ d.dh = o.dh /\ d.seen = o.seen
          /\ d.flush = o.flush /\ d.sync = o.sync /\ d.upload = o.upload /\ d.dhIn = o.dhIn
          /\ o.doubts \subseteq d.doubts
      BY <1>2, AskedMarks
    <2>3. o.seen \in BOOLEAN
      BY <1>2 DEF Marks
    <2> HIDE DEF d
    <2> QED
      BY <1>2, <1>4, <2>1, <2>2, <2>3 DEF o, d
  <1> QED
    BY <1>3, <1>4

LEMMA VisitMarks ==
    ASSUME steps \in Seq(Scheduled), NEW i \in 1..NSteps, NEW m \in Marks
    PROVE  LET d == Done(m, i)
               v == Visit(m, i)
           IN  /\ v \in Marks
               /\ Below(d, v) /\ v.seen = d.seen
               /\ v.flush = d.flush /\ v.sync = d.sync /\ v.upload = d.upload /\ v.dhIn = d.dhIn
               /\ d.doubts \subseteq v.doubts
               /\ EndsWhen(i) /\ v.dhIn /\ ~v.dh => "when" \in v.doubts
  <1> DEFINE d == Done(m, i)
  <1>1. d \in Marks /\ i \in Nat
    <2>1. d \in Marks
      BY DoneMarks
    <2> QED
      BY <2>1 DEF NSteps
  <1> HIDE DEF d
  <1>2. CASE EndsWhen(i)
    <2>1. Visit(m, i) = LeaveWhen(d, i)
      BY <1>2 DEF Visit, d
    <2> DEFINE v == LeaveWhen(d, i)
    <2>2. /\ v \in Marks /\ (d.dg => v.dg) /\ (d.dh => v.dh) /\ v.seen = d.seen
          /\ v.flush = d.flush /\ v.sync = d.sync /\ v.upload = d.upload /\ v.dhIn = d.dhIn
          /\ d.doubts \subseteq v.doubts /\ (d.dhIn /\ ~v.dh => "when" \in v.doubts)
      BY <1>1, LeaveMarks
    <2> HIDE DEF v
    <2> QED
      BY <1>2, <2>1, <2>2 DEF Below, d, v
  <1>3. CASE ~EndsWhen(i)
    <2>1. Visit(m, i) = d
      BY <1>3 DEF Visit, d
    <2> QED
      BY <1>1, <1>3, <2>1 DEF Below, d
  <1> QED
    BY <1>2, <1>3

(* The steps of a conditional body in the loop are in the loop.             *)
LEMMA BodyInLoop ==
    ASSUME StepsInv, loopFrom # 0, NEW i \in LoopBody
    PROVE  WhenBody(i) \subseteq LoopBody /\ BodyAround(i) \subseteq LoopBody
  <1>1. loopFrom \in 1..NSteps /\ NSteps \in Nat /\ i \in 1..NSteps
    <2>1. NSteps \in Nat
      BY LenProperties DEF StepsInv, NSteps
    <2> QED
      BY <2>1 DEF StepsInv, LoopBody
  <1>2. WhenBody(i) \subseteq LoopBody
    BY <1>1 DEF WhenBody, LoopBody
  <1>3. ASSUME NEW x \in 1..i, i \in WhenBody(x)
        PROVE  WhenBody(x) \subseteq LoopBody
    <2>1. InBody(x, i)
      BY <1>3 DEF WhenBody
    <2>2. x >= loopFrom
      <3>1. SUFFICES ASSUME x < loopFrom PROVE FALSE
        BY <1>1
      <3>2. loopFrom \in (x + 1)..i
        BY <1>1, <3>1 DEF LoopBody
      <3> QED
        BY <2>1, <3>2 DEF InBody, StepsInv
    <2> QED
      BY <1>1, <2>2 DEF WhenBody, LoopBody
  <1>4. BodyAround(i) \subseteq LoopBody
    BY <1>3 DEF BodyAround
  <1> QED
    BY <1>2, <1>4

(* A step of the loop leaves no mark that the start of the loop lacks.      *)
LEMMA VisitBelow ==
    ASSUME StepsInv, steps \in Seq(Scheduled), loopFrom # 0, NEW i \in LoopBody,
           NEW m \in Marks, NEW e, Below(Entered(m, i), e),
           GWrite(LoopBody) => e.dg, HWrite(LoopBody) => e.dh, GTouch(LoopBody) => e.seen
    PROVE  Below(Visit(m, i), e)
  <1>1. i \in 1..NSteps /\ i \in Nat
    BY LenProperties DEF StepsInv, LoopBody, NSteps
  <1> DEFINE n == Entered(m, i)
             o == Opened(m, i)
             d == Done(m, i)
             v == Visit(m, i)
             k == steps[i].k
  <1>2. \A I : I \subseteq LoopBody => (GWrite(I) => GWrite(LoopBody)) /\ (HWrite(I) => HWrite(LoopBody))
    BY DEF GWrite, HWrite
  <1>3. IsRun(i) /\ k.gpu => GTouch(LoopBody)
    BY DEF GTouch
  <1>4. IsRun(i) /\ k.gpu /\ FpWrite(k) => GWrite(LoopBody)
    BY DEF GWrite
  <1>5. IsRun(i) /\ ~k.gpu /\ FpWrite(k) => HWrite(LoopBody)
    BY DEF HWrite
  <1>6. Below(o, e)
    <2>1. WhenBody(i) \subseteq LoopBody
      BY BodyInLoop
    <2>2. /\ o.seen = n.seen
          /\ o.dg = (IF steps[i].when = "new" THEN GWrite(WhenBody(i)) ELSE n.dg)
          /\ o.dh = (IF steps[i].when = "new" THEN n.dh \/ HWrite(WhenBody(i)) ELSE n.dh)
      BY <1>1, OpenedMarks
    <2> QED
      BY <1>2, <2>1, <2>2 DEF Below
  <1>7. Below(d, e)
    <2>1. /\ d.seen = (o.seen \/ (IsRun(i) /\ k.gpu))
          /\ d.dg => o.dg \/ (IsRun(i) /\ k.gpu /\ FpWrite(k))
          /\ d.dh => o.dh \/ (IsRun(i) /\ ~k.gpu /\ FpWrite(k))
      BY <1>1, DoneMarks
    <2> QED
      BY <1>3, <1>4, <1>5, <1>6, <2>1 DEF Below
  <1>8. CASE EndsWhen(i)
    <2>1. d \in Marks
      BY <1>1, DoneMarks
    <2>2. v = LeaveWhen(d, i)
      BY <1>8 DEF Visit
    <2> DEFINE body == BodyAround(i)
    <2>4. body \subseteq LoopBody
      BY BodyInLoop
    <2> HIDE DEF d, body
    <2>5. LET w == LeaveWhen(d, i)
          IN  w.dg = (d.dg \/ GWrite(body)) /\ w.dh = (d.dh \/ HWrite(body)) /\ w.seen = d.seen
      BY <1>1, <2>1, LeaveMarks DEF body
    <2> QED
      BY <1>2, <1>7, <2>2, <2>4, <2>5 DEF Below
  <1>9. CASE ~EndsWhen(i)
    BY <1>7, <1>9 DEF Visit
  <1> QED
    BY <1>8, <1>9

(* One more step of the pass.                                               *)
LEMMA PassStep ==
    ASSUME StepsInv, steps \in Seq(Scheduled), NEW q, PassOk(q), Len(q) \in 1..NSteps
    PROVE  PassOk(Append(q, Visit(q[Len(q)], Len(q))))
  <1> DEFINE n == Len(q)
             m == q[n]
             v == Visit(m, n)
             r == Append(q, v)
  <1>1. q \in Seq(Marks) /\ n \in Nat \ {0} /\ n \in 1..NSteps
    BY LenProperties DEF PassOk, Chained
  <1>2. \A j \in 1..n : q[j] \in Marks
    BY <1>1, ElementOfSeq
  <1>3. v \in Marks
    BY <1>1, <1>2, VisitMarks
  <1>4. r \in Seq(Marks) /\ Len(r) = n + 1 /\ (\A j \in 1..n : r[j] = q[j]) /\ r[n + 1] = v
    BY <1>1, <1>3, AppendProperties
  <1>5. m \in Marks
    BY <1>1, <1>2
  <1> HIDE DEF n, r
  <1>l. 1..(Len(r) - 1) = 1..n /\ Len(r) > 0
    BY <1>1, <1>4
  <1>6. Chained(r)
    <2>1. SUFFICES ASSUME NEW j \in 1..n
                   PROVE  j <= NSteps /\ r[j + 1] = Visit(r[j], j)
      BY <1>4, <1>l, Zenon DEF Chained
    <2>2. CASE j = n
      BY <1>1, <1>4, <2>2
    <2>3. CASE j # n
      <3>1. j \in 1..(n - 1) /\ j + 1 \in 1..n
        BY <1>1, <2>3
      <3> QED
        BY <1>4, <3>1 DEF PassOk, Chained, n
    <2> QED
      BY <2>2, <2>3
  <1>7. m.doubts \subseteq v.doubts /\ (m.seen => v.seen)
    <2>1. m.doubts \subseteq Opened(m, n).doubts /\ Opened(m, n).seen = Entered(m, n).seen
      BY <1>1, <1>5, OpenedMarks
    <2>2. m.seen => Entered(m, n).seen
      BY <1>1, <1>5, EnteredMarks DEF Below
    <2>3. /\ Opened(m, n).doubts \subseteq Done(m, n).doubts
          /\ Opened(m, n).seen => Done(m, n).seen
      BY <1>1, <1>5, DoneMarks
    <2>4. Done(m, n).doubts \subseteq v.doubts /\ v.seen = Done(m, n).seen
      BY <1>1, <1>5, VisitMarks
    <2> QED
      BY <2>1, <2>2, <2>3, <2>4
  <1>8. Monotone(r)
    <2>1. \A i \in 1..n : q[i].doubts \subseteq m.doubts /\ (q[i].seen => m.seen)
      BY <1>1 DEF PassOk, Monotone, n
    <2>2. SUFFICES ASSUME NEW i \in 1..(n + 1), NEW j \in 1..(n + 1), i <= j
                   PROVE  r[i].doubts \subseteq r[j].doubts /\ (r[i].seen => r[j].seen)
      BY <1>4 DEF Monotone
    <2>3. CASE j = n + 1 /\ i = n + 1
      BY <2>3
    <2>4. CASE j = n + 1 /\ i # n + 1
      <3>1. i \in 1..n
        BY <1>1, <2>4
      <3>2. r[i] = q[i] /\ r[j] = v
        BY <1>4, <2>4, <3>1
      <3> QED
        BY <1>7, <2>1, <3>1, <3>2
    <2>5. CASE j # n + 1
      <3>1. i \in 1..n /\ j \in 1..n
        BY <1>1, <2>2, <2>5
      <3> QED
        BY <1>4, <2>2, <3>1 DEF PassOk, Monotone, n
    <2> QED
      BY <2>3, <2>4, <2>5
  <1> HIDE DEF m, v
  <1>9. Transferred(r)
    <2>1. SUFFICES ASSUME NEW j \in 1..(n + 1), NEW i \in Nat
                   PROVE  /\ i \in r[j].flush <=> i \in 1..(j - 1) /\ NeededFlush(r[i], i)
                          /\ i \in r[j].sync <=> i \in 1..(j - 1) /\ NeededSync(r[i], i)
                          /\ i \in r[j].upload <=> i \in 1..(j - 1) /\ NeededUpload(r[i], i)
      BY <1>4 DEF Transferred
    <2>2. i \in 1..(j - 1) => r[i] = q[i]
      BY <1>1, <1>4
    <2>3. CASE j # n + 1
      <3>1. j \in 1..n
        BY <1>1, <2>3
      <3>2. /\ i \in q[j].flush <=> i \in 1..(j - 1) /\ NeededFlush(q[i], i)
            /\ i \in q[j].sync <=> i \in 1..(j - 1) /\ NeededSync(q[i], i)
            /\ i \in q[j].upload <=> i \in 1..(j - 1) /\ NeededUpload(q[i], i)
        BY <3>1 DEF PassOk, Transferred, n
      <3>3. r[j] = q[j]
        BY <1>4, <3>1
      <3> QED
        BY <2>2, <3>2, <3>3
    <2>4. CASE j = n + 1
      <3>1. /\ i \in m.flush <=> i \in 1..(n - 1) /\ NeededFlush(q[i], i)
            /\ i \in m.sync <=> i \in 1..(n - 1) /\ NeededSync(q[i], i)
            /\ i \in m.upload <=> i \in 1..(n - 1) /\ NeededUpload(q[i], i)
        <4>1. n \in 1..Len(q)
          BY <1>1 DEF n
        <4> QED
          BY <4>1 DEF PassOk, Transferred, m
      <3>2. /\ v.flush = (IF NeededFlush(m, n) THEN m.flush \cup {n} ELSE m.flush)
            /\ v.sync = (IF NeededSync(m, n) THEN m.sync \cup {n} ELSE m.sync)
            /\ v.upload = (IF NeededUpload(m, n) THEN m.upload \cup {n} ELSE m.upload)
        <4>1. Opened(m, n).flush = (IF NeededFlush(m, n) THEN m.flush \cup {n} ELSE m.flush)
          BY <1>1, <1>5, OpenedMarks DEF NeededFlush
        <4>2. /\ Done(m, n).flush = Opened(m, n).flush
              /\ Done(m, n).sync = (IF NeededSync(m, n) THEN m.sync \cup {n} ELSE m.sync)
              /\ Done(m, n).upload = (IF NeededUpload(m, n) THEN m.upload \cup {n} ELSE m.upload)
          BY <1>1, <1>5, DoneMarks DEF NeededSync, NeededUpload
        <4>3. v.flush = Done(m, n).flush /\ v.sync = Done(m, n).sync /\ v.upload = Done(m, n).upload
          BY <1>1, <1>5, VisitMarks DEF v
        <4> QED
          BY <4>1, <4>2, <4>3
      <3>3. r[j] = v /\ q[n] = m
        BY <1>4, <2>4 DEF m
      <3>4. i \in 1..(j - 1) <=> (i = n \/ i \in 1..(n - 1))
        BY <1>1, <2>4
      <3>5. i \in 1..(n - 1) => i # n
        BY <1>1
      <3> QED
        BY <2>2, <3>1, <3>2, <3>3, <3>4, <3>5
    <2> QED
      BY <2>3, <2>4
  <1>10. KeepsMark(r)
    <2>1. SUFFICES ASSUME NEW i \in 1..n, NEW j \in 1..n, i <= j, steps[i].when = "new", InBody(i, j)
                   PROVE  r[j + 1].dhIn = Entered(r[i], i).dh
      BY <1>l, Zenon DEF KeepsMark
    <2>2. r[i] = q[i]
      BY <1>4
    <2>3. CASE j # n
      <3>1. i \in 1..(n - 1) /\ j \in 1..(n - 1) /\ j + 1 \in 1..n
        BY <1>1, <2>1, <2>3
      <3>2. q[j + 1].dhIn = Entered(q[i], i).dh
        BY <2>1, <3>1 DEF PassOk, KeepsMark, n
      <3> QED
        BY <1>4, <2>2, <3>1, <3>2
    <2>4. CASE j = n
      <3>1. v.dhIn = (IF steps[n].when = "new" THEN Entered(m, n).dh ELSE m.dhIn)
        <4>1. Opened(m, n).dhIn = (IF steps[n].when = "new" THEN Entered(m, n).dh ELSE m.dhIn)
          BY <1>1, <1>5, OpenedMarks
        <4>2. Done(m, n).dhIn = Opened(m, n).dhIn
          BY <1>1, <1>5, DoneMarks
        <4>3. v.dhIn = Done(m, n).dhIn
          BY <1>1, <1>5, VisitMarks DEF v
        <4> QED
          BY <4>1, <4>2, <4>3
      <3>2. r[j + 1] = v
        BY <1>4, <2>4
      <3>3. CASE i = n
        BY <2>1, <2>2, <3>1, <3>2, <3>3 DEF m
      <3>4. CASE i # n
        <4>1. i \in 1..(n - 1) /\ n - 1 \in 1..(n - 1) /\ n \in (i + 1)..j /\ (i + 1)..(n - 1) \subseteq (i + 1)..j
          BY <1>1, <2>1, <2>4, <3>4
        <4>2. steps[n].when = "same" /\ InBody(i, n - 1)
          BY <2>1, <4>1 DEF InBody
        <4>3. i <= n - 1 /\ (n - 1) + 1 = n
          BY <1>1, <4>1
        <4>4. q[n].dhIn = Entered(q[i], i).dh
          BY <2>1, <4>1, <4>2, <4>3 DEF PassOk, KeepsMark, n
        <4> QED
          BY <2>2, <3>1, <3>2, <4>2, <4>4 DEF m
      <3> QED
        BY <3>3, <3>4
    <2> QED
      BY <2>3, <2>4
  <1>11. LoopClosed(r)
    <2>1. SUFFICES ASSUME loopFrom # 0, NEW j \in loopFrom..n
                   PROVE  Below(r[j + 1], EnterLoop(r[loopFrom]))
      BY <1>1, <1>4 DEF LoopClosed
    <2>2. loopFrom \in 1..NSteps /\ j \in Nat
      BY <2>1 DEF StepsInv
    <2>3. loopFrom \in 1..n /\ r[loopFrom] = q[loopFrom]
      BY <1>1, <1>4, <2>1, <2>2
    <2> DEFINE e == EnterLoop(q[loopFrom])
    <2>4. CASE j # n
      <3>1. j \in loopFrom..(n - 1) /\ j + 1 \in 1..n
        BY <1>1, <2>1, <2>2, <2>4
      <3>2. Below(q[j + 1], e)
        BY <2>1, <3>1 DEF PassOk, LoopClosed, n
      <3> QED
        BY <1>4, <2>3, <3>1, <3>2
    <2>5. CASE j = n
      <3>1. n \in LoopBody
        BY <1>1, <2>1, <2>2, <2>5 DEF LoopBody
      <3>2. (GWrite(LoopBody) => e.dg) /\ (HWrite(LoopBody) => e.dh) /\ (GTouch(LoopBody) => e.seen)
        BY <1>2, <2>3, LoopMarks
      <3>3. Below(Entered(m, n), e)
        <4>1. CASE n = loopFrom
          <5>1. Entered(m, n) = e
            BY <4>1 DEF Entered, m
          <5> QED
            BY <5>1 DEF Below
        <4>2. CASE n # loopFrom
          <5>1. Entered(m, n) = m
            BY <4>2 DEF Entered
          <5>2. n - 1 \in loopFrom..(n - 1) /\ (n - 1) + 1 = n
            BY <1>1, <2>2, <2>3, <4>2
          <5>3. Below(q[n], e)
            BY <2>1, <5>2 DEF PassOk, LoopClosed, n
          <5> QED
            BY <5>1, <5>3 DEF m
        <4> QED
          BY <4>1, <4>2
      <3> HIDE DEF e
      <3>4. Below(v, e)
        BY <1>5, <2>1, <3>1, <3>2, <3>3, VisitBelow DEF v
      <3> QED
        BY <1>4, <2>3, <2>5, <3>4 DEF e
    <2> QED
      BY <2>4, <2>5
  <1> QED
    BY <1>6, <1>8, <1>9, <1>10, <1>11 DEF PassOk, r, v, m, n

(* The pass depends on the schedule alone.                                  *)
LEMMA SameSchedule ==
    ASSUME steps' = steps, loopFrom' = loopFrom
    PROVE  /\ \A m, i : Entered(m, i)' = Entered(m, i) /\ Opened(m, i)' = Opened(m, i)
           /\ \A m, i : Transfers(m, i)' = Transfers(m, i)
           /\ \A q : PassOk(q)' <=> PassOk(q)
           /\ StepsInv /\ (pc'[1] \in {"write", "place"} <=> pc[1] \in {"write", "place"}) => StepsInv'
           /\ NSteps' = NSteps /\ \A i : IsRun(i)' <=> IsRun(i)
  <1>1. NSteps' = NSteps /\ \A i : IsRun(i)' <=> IsRun(i)
    BY DEF NSteps, IsRun
  <1>2. LoopBody' = LoopBody
    BY <1>1 DEF LoopBody
  <1>3. \A i, j : InBody(i, j)' <=> InBody(i, j)
    BY DEF InBody
  <1>4. \A i : WhenBody(i)' = WhenBody(i)
    BY <1>1, <1>3 DEF WhenBody
  <1>5. \A i : BodyAround(i)' = BodyAround(i)
    BY <1>1, <1>4 DEF BodyAround
  <1>6. \A i : EndsWhen(i)' <=> EndsWhen(i)
    BY <1>1 DEF EndsWhen
  <1>7. \A I : (GWrite(I)' <=> GWrite(I)) /\ (HWrite(I)' <=> HWrite(I)) /\ (GTouch(I)' <=> GTouch(I))
    BY <1>1 DEF GWrite, HWrite, GTouch
  <1>8. \A m, I : Seed(m, I)' = Seed(m, I)
    BY <1>7 DEF Seed
  <1>9. \A m : EnterLoop(m)' = EnterLoop(m)
    BY <1>2, <1>7, <1>8 DEF EnterLoop
  <1>10. \A m, i : EnterWhen(m, i)' = EnterWhen(m, i)
    BY <1>4, <1>8 DEF EnterWhen
  <1>11. \A m, i : Entered(m, i)' = Entered(m, i)
    BY <1>9 DEF Entered
  <1>12. \A m, i : Opened(m, i)' = Opened(m, i)
    BY <1>10, <1>11 DEF Opened
  <1>13. \A m, i : Transfers(m, i)' = Transfers(m, i)
    BY DEF Transfers
  <1>14. \A m, i : LeaveWhen(m, i)' = LeaveWhen(m, i)
    BY <1>5, <1>8 DEF LeaveWhen
  <1>15. \A m, i : Done(m, i)' = Done(m, i)
    BY <1>1, <1>12, <1>13 DEF Done
  <1>16. \A m, i : Visit(m, i)' = Visit(m, i)
    BY <1>6, <1>14, <1>15 DEF Visit
  <1>17. \A q : Chained(q)' <=> Chained(q)
    BY <1>1, <1>16 DEF Chained
  <1>18. \A m, i : /\ NeededFlush(m, i)' <=> NeededFlush(m, i)
                   /\ NeededSync(m, i)' <=> NeededSync(m, i)
                   /\ NeededUpload(m, i)' <=> NeededUpload(m, i)
    BY <1>1, <1>11, <1>12 DEF NeededFlush, NeededSync, NeededUpload
  <1>19. \A q : Transferred(q)' <=> Transferred(q)
    BY <1>18 DEF Transferred
  <1>20. \A q : KeepsMark(q)' <=> KeepsMark(q)
    BY <1>3, <1>11 DEF KeepsMark
  <1>21. \A q : LoopClosed(q)' <=> LoopClosed(q)
    BY <1>9 DEF LoopClosed
  <1>22. \A q : Monotone(q)' <=> Monotone(q)
    BY DEF Monotone
  <1>23. \A q : PassOk(q)' <=> PassOk(q)
    BY <1>17, <1>19, <1>20, <1>21, <1>22 DEF PassOk
  <1>24. StepsInv /\ (pc'[1] \in {"write", "place"} <=> pc[1] \in {"write", "place"}) => StepsInv'
    BY <1>1 DEF StepsInv
  <1> QED
    BY <1>1, <1>11, <1>12, <1>13, <1>23, <1>24
-----------------------------------------------------------------------------
(* The buffers of a column, changed one by one.                             *)
LEMMA Mapped ==
    ASSUME NEW s \in Seq(Buffers), NEW f \in [DOMAIN s -> Buffers]
    PROVE  /\ f \in Seq(Buffers) /\ Len(f) = Len(s)
           /\ f = <<>> <=> s = <<>>
           /\ s # <<>> => 1 \in DOMAIN s /\ s[1] \in Buffers
  <1>1. Len(s) \in Nat /\ DOMAIN s = 1..Len(s) /\ s \in [1..Len(s) -> Buffers]
    BY LenProperties
  <1>2. f \in Seq(Buffers) /\ Len(f) = Len(s)
    BY <1>1
  <1>3. s # <<>> <=> Len(s) # 0
    BY EmptySeq
  <1>4. f # <<>> <=> Len(f) # 0
    BY <1>2, EmptySeq
  <1> QED
    BY <1>1, <1>2, <1>3, <1>4

LEMMA Outdated ==
    ASSUME NEW b \in [Cols -> Seq(Buffers)], NEW w
    PROVE  LET o == Outdate(b, w)
           IN  /\ o \in [Cols -> Seq(Buffers)]
               /\ \A c \in Cols :
                    /\ Len(o[c]) = Len(b[c]) /\ (o[c] = <<>> <=> b[c] = <<>>)
                    /\ b[c] # <<>> => /\ o[c][1].rows = b[c][1].rows /\ o[c][1].dirty = b[c][1].dirty
                                      /\ o[c][1].ok = (b[c][1].ok /\ c \notin w)
  <1> DEFINE o == Outdate(b, w)
  <1>1. SUFFICES ASSUME NEW c \in Cols
                 PROVE  /\ o[c] \in Seq(Buffers)
                        /\ Len(o[c]) = Len(b[c]) /\ (o[c] = <<>> <=> b[c] = <<>>)
                        /\ b[c] # <<>> => /\ o[c][1].rows = b[c][1].rows /\ o[c][1].dirty = b[c][1].dirty
                                          /\ o[c][1].ok = (b[c][1].ok /\ c \notin w)
    BY DEF Outdate
  <1>2. b[c] \in Seq(Buffers)
    OBVIOUS
  <1> DEFINE s == b[c]
             f == [i \in DOMAIN s |-> [s[i] EXCEPT !.ok = FALSE]]
  <1>3. CASE c \in w
    <2>1. o[c] = f
      BY <1>3 DEF Outdate
    <2>2. \A i \in DOMAIN s : s[i] \in Buffers
      BY <1>2, LenProperties
    <2>3. f \in [DOMAIN s -> Buffers]
      BY <2>2 DEF Buffers
    <2>4. f \in Seq(Buffers) /\ Len(f) = Len(s) /\ (f = <<>> <=> s = <<>>)
          /\ (s # <<>> => 1 \in DOMAIN s /\ s[1] \in Buffers)
      BY <1>2, <2>3, Mapped
    <2>5. s # <<>> => f[1].rows = s[1].rows /\ f[1].dirty = s[1].dirty /\ f[1].ok = FALSE
      BY <2>4 DEF Buffers
    <2> QED
      BY <1>3, <2>1, <2>4, <2>5
  <1>4. CASE c \notin w
    <2>1. o[c] = s
      BY <1>4 DEF Outdate
    <2>2. s # <<>> => s[1] \in Buffers
      BY <1>2, EmptySeq, LenProperties
    <2> QED
      BY <1>2, <1>4, <2>1, <2>2 DEF Buffers
  <1> QED
    BY <1>3, <1>4

(* The first buffer of a column.                                            *)
LEMMA FirstBuffer ==
    ASSUME GpuTypes, NEW c \in Cols
    PROVE  /\ cache[c] \in Seq(Buffers) /\ hostOk[c] \in BOOLEAN
           /\ Exists(c) => /\ cache[c][1] \in Buffers /\ cache[c][1].ok \in BOOLEAN
                           /\ cache[c][1].dirty \in BOOLEAN /\ cache[c][1].rows \in Nat
  <1>1. cache[c] \in Seq(Buffers) /\ hostOk[c] \in BOOLEAN
    BY DEF GpuTypes
  <1>2. Exists(c) => cache[c][1] \in Buffers
    BY <1>1, EmptySeq, LenProperties DEF Exists
  <1> QED
    BY <1>1, <1>2 DEF Buffers

(* A transfer that does not fail: every column of the host, or the first    *)
(* buffer of every column.                                                  *)
LEMMA SyncTypes ==
    ASSUME GpuTypes, Sync
    PROVE  /\ GpuTypes'
           /\ \A c \in Cols : Len(cache'[c]) = Len(cache[c]) /\ (Exists(c)' <=> Exists(c))
           /\ \A c \in Cols : Exists(c) => /\ cache'[c][1].ok = cache[c][1].ok /\ cache'[c][1].rows = cache[c][1].rows
           /\ stale' = stale /\ rows' = rows
           /\ events' = {} => /\ events = {}
                              /\ \A c \in Cols : hostOk'[c] = IF Exists(c) /\ cache[c][1].dirty THEN cache[c][1].ok ELSE hostOk[c]
  <1>1. PICK failed \in SUBSET Cols :
          /\ Copying(failed)
          /\ hostOk' = [c \in Cols |-> IF c \notin failed /\ Exists(c) /\ cache[c][1].dirty
                                        THEN cache[c][1].ok ELSE hostOk[c]]
          /\ cache' = [c \in Cols |-> [i \in DOMAIN cache[c] |-> [cache[c][i] EXCEPT !.dirty = @ /\ i # 1]]]
    BY DEF Sync
  <1>2. stale' = stale /\ rows' = rows
    BY <1>1 DEF Copying
  <1>3. ASSUME NEW c \in Cols
        PROVE  /\ hostOk'[c] \in BOOLEAN
               /\ cache'[c] \in Seq(Buffers) /\ Len(cache'[c]) = Len(cache[c]) /\ (cache'[c] = <<>> <=> cache[c] = <<>>)
               /\ Exists(c) => /\ cache'[c][1].ok = cache[c][1].ok /\ cache'[c][1].rows = cache[c][1].rows
    <2> DEFINE s == cache[c]
               f == [i \in DOMAIN s |-> [s[i] EXCEPT !.dirty = @ /\ i # 1]]
    <2>1. s \in Seq(Buffers) /\ hostOk[c] \in BOOLEAN /\ (Exists(c) => cache[c][1].ok \in BOOLEAN)
      BY <1>3, FirstBuffer
    <2>2. \A i \in DOMAIN s : s[i] \in Buffers
      BY <2>1, LenProperties
    <2>3. f \in [DOMAIN s -> Buffers]
      BY <2>2 DEF Buffers
    <2>4. cache'[c] = f
      BY <1>1
    <2>5. f \in Seq(Buffers) /\ Len(f) = Len(s) /\ (f = <<>> <=> s = <<>>)
          /\ (s # <<>> => 1 \in DOMAIN s /\ s[1] \in Buffers)
      BY <2>1, <2>3, Mapped
    <2>6. s # <<>> => f[1].ok = s[1].ok /\ f[1].rows = s[1].rows
      BY <2>5 DEF Buffers
    <2>7. hostOk'[c] \in BOOLEAN
      BY <1>1, <2>1
    <2> QED
      BY <2>4, <2>5, <2>6, <2>7 DEF Exists
  <1>4. hostOk' \in [Cols -> BOOLEAN] /\ cache' \in [Cols -> Seq(Buffers)]
    <2>1. hostOk' = [c \in Cols |-> hostOk'[c]] /\ cache' = [c \in Cols |-> cache'[c]]
      BY <1>1
    <2> QED
      BY <1>3, <2>1
  <1>5. GpuTypes'
    BY <1>2, <1>4 DEF GpuTypes
  <1>6. ASSUME events' = {}
        PROVE  events = {} /\ failed = {}
    BY <1>1, <1>6 DEF Copying
  <1>7. \A c \in Cols : Exists(c)' <=> Exists(c)
    BY <1>3 DEF Exists
  <1>8. events' = {} => \A c \in Cols : hostOk'[c] = IF Exists(c) /\ cache[c][1].dirty THEN cache[c][1].ok ELSE hostOk[c]
    BY <1>1, <1>6
  <1> QED
    BY <1>2, <1>3, <1>5, <1>6, <1>7, <1>8

LEMMA SyncFacts ==
    ASSUME GpuTypes, Kept, CacheCurrent, Sync, events' = {}, coh' = coh
    PROVE  Kept' /\ HostCurrent' /\ CacheCurrent' /\ (NothingResident => NothingResident')
  <1>1. /\ \A c \in Cols : Len(cache'[c]) = Len(cache[c]) /\ (Exists(c)' <=> Exists(c))
        /\ \A c \in Cols : Exists(c) => /\ cache'[c][1].ok = cache[c][1].ok /\ cache'[c][1].rows = cache[c][1].rows
        /\ stale' = stale /\ rows' = rows
        /\ \A c \in Cols : hostOk'[c] = IF Exists(c) /\ cache[c][1].dirty THEN cache[c][1].ok ELSE hostOk[c]
    BY SyncTypes
  <1>2. HostCurrent'
    BY <1>1 DEF HostCurrent, Kept, Safe, CacheCurrent
  <1>3. CacheCurrent'
    BY <1>1 DEF CacheCurrent
  <1>4. NothingResident => NothingResident'
    BY <1>1 DEF NothingResident
  <1>5. Single'
    BY <1>1 DEF Single, Kept
  <1>6. Safe'
    BY <1>2 DEF Safe, HostCurrent
  <1>7. plan' = plan
    BY DEF plan
  <1> QED
    BY <1>1, <1>2, <1>3, <1>4, <1>5, <1>6, <1>7 DEF Kept

LEMMA UploadTypes ==
    ASSUME GpuTypes, Upload
    PROVE  /\ GpuTypes'
           /\ \A c \in Cols : Len(cache'[c]) = Len(cache[c]) /\ (Exists(c)' <=> Exists(c))
           /\ \A c \in Cols : Exists(c) => cache'[c][1].rows = cache[c][1].rows
           /\ stale' = stale /\ rows' = rows /\ hostOk' = hostOk
           /\ events' = {} => events = {} /\ \A c \in Cols : Exists(c) => cache'[c][1].ok = hostOk[c]
  <1>1. PICK failed \in SUBSET Cols :
          /\ Copying(failed)
          /\ cache' = [c \in Cols |-> [i \in DOMAIN cache[c] |->
                [cache[c][i] EXCEPT !.dirty = @ /\ i # 1, !.ok = IF i = 1 /\ c \notin failed THEN hostOk[c] ELSE @]]]
          /\ hostOk' = hostOk
    BY DEF Upload
  <1>2. stale' = stale /\ rows' = rows
    BY <1>1 DEF Copying
  <1>3. ASSUME NEW c \in Cols
        PROVE  /\ cache'[c] \in Seq(Buffers) /\ Len(cache'[c]) = Len(cache[c]) /\ (cache'[c] = <<>> <=> cache[c] = <<>>)
               /\ Exists(c) => /\ cache'[c][1].rows = cache[c][1].rows
                               /\ c \notin failed => cache'[c][1].ok = hostOk[c]
    <2> DEFINE s == cache[c]
               f == [i \in DOMAIN s |->
                       [s[i] EXCEPT !.dirty = @ /\ i # 1, !.ok = IF i = 1 /\ c \notin failed THEN hostOk[c] ELSE @]]
    <2>1. s \in Seq(Buffers) /\ hostOk[c] \in BOOLEAN
      BY <1>3, FirstBuffer
    <2>2. \A i \in DOMAIN s : s[i] \in Buffers
      BY <2>1, LenProperties
    <2>3. f \in [DOMAIN s -> Buffers]
      BY <2>1, <2>2 DEF Buffers
    <2>4. cache'[c] = f
      BY <1>1
    <2>5. f \in Seq(Buffers) /\ Len(f) = Len(s) /\ (f = <<>> <=> s = <<>>)
          /\ (s # <<>> => 1 \in DOMAIN s /\ s[1] \in Buffers)
      BY <2>1, <2>3, Mapped
    <2>6. s # <<>> => f[1].rows = s[1].rows /\ (c \notin failed => f[1].ok = hostOk[c])
      BY <2>1, <2>5 DEF Buffers
    <2> QED
      BY <2>4, <2>5, <2>6 DEF Exists
  <1>4. cache' \in [Cols -> Seq(Buffers)]
    <2>1. cache' = [c \in Cols |-> cache'[c]]
      BY <1>1
    <2> QED
      BY <1>3, <2>1
  <1>5. GpuTypes'
    BY <1>1, <1>2, <1>4 DEF GpuTypes
  <1>6. ASSUME events' = {}
        PROVE  events = {} /\ failed = {}
    BY <1>1, <1>6 DEF Copying
  <1>7. \A c \in Cols : Exists(c)' <=> Exists(c)
    BY <1>3 DEF Exists
  <1> QED
    BY <1>1, <1>2, <1>3, <1>5, <1>6, <1>7

LEMMA UploadFacts ==
    ASSUME GpuTypes, Kept, HostCurrent, Upload, events' = {}, coh' = coh
    PROVE  Kept' /\ HostCurrent' /\ CacheCurrent' /\ (NothingResident => NothingResident')
  <1>1. /\ \A c \in Cols : Len(cache'[c]) = Len(cache[c]) /\ (Exists(c)' <=> Exists(c))
        /\ \A c \in Cols : Exists(c) => cache'[c][1].rows = cache[c][1].rows /\ cache'[c][1].ok = hostOk[c]
        /\ stale' = stale /\ rows' = rows /\ hostOk' = hostOk
    BY UploadTypes
  <1>2. HostCurrent'
    BY <1>1 DEF HostCurrent
  <1>3. CacheCurrent'
    BY <1>1 DEF CacheCurrent, HostCurrent
  <1>4. NothingResident => NothingResident'
    BY <1>1 DEF NothingResident
  <1>5. Single'
    BY <1>1 DEF Single, Kept
  <1>6. Safe'
    BY <1>2 DEF Safe, HostCurrent
  <1>7. plan' = plan
    BY DEF plan
  <1> QED
    BY <1>1, <1>2, <1>3, <1>4, <1>5, <1>6, <1>7 DEF Kept

(* A step on the host.                                                      *)
LEMMA HostTypes ==
    ASSUME GpuTypes, NEW k \in PlacedKernels, HostStep(k)
    PROVE  /\ GpuTypes'
           /\ \A c \in Cols : Len(cache'[c]) = Len(cache[c]) /\ (Exists(c)' <=> Exists(c))
           /\ \A c \in Cols : Exists(c) =>
                /\ cache'[c][1].rows = cache[c][1].rows /\ cache'[c][1].dirty = cache[c][1].dirty
                /\ cache'[c][1].ok = (cache[c][1].ok /\ c \notin k.writes)
           /\ \A c \in Cols : hostOk'[c] = (hostOk[c] \/ c \in k.writes)
           /\ stale' = (stale \/ \E c \in k.reads : ~hostOk[c])
           /\ events' = {} => events = {} /\ (NothingResident \/ rows' = rows)
  <1>1. k.grows \in {0, 1} /\ rows \in Nat /\ cache \in [Cols -> Seq(Buffers)] /\ hostOk \in [Cols -> BOOLEAN]
    BY DEF PlacedKernels, GpuTypes
  <1>2. cache' = Outdate(cache, k.writes)
    BY DEF HostStep
  <1>3. /\ cache' \in [Cols -> Seq(Buffers)]
        /\ \A c \in Cols :
              /\ Len(cache'[c]) = Len(cache[c]) /\ (cache'[c] = <<>> <=> cache[c] = <<>>)
              /\ cache[c] # <<>> =>
                    /\ cache'[c][1].rows = cache[c][1].rows /\ cache'[c][1].dirty = cache[c][1].dirty
                    /\ cache'[c][1].ok = (cache[c][1].ok /\ c \notin k.writes)
    BY <1>1, <1>2, Outdated
  <1>4. \A c \in Cols : Exists(c)' <=> Exists(c)
    BY <1>3 DEF Exists
  <1>5. hostOk' \in [Cols -> BOOLEAN] /\ \A c \in Cols : hostOk'[c] = (hostOk[c] \/ c \in k.writes)
    BY <1>1 DEF HostStep
  <1>6. stale' \in BOOLEAN /\ stale' = (stale \/ \E c \in k.reads : ~hostOk[c])
    BY DEF HostStep, GpuTypes
  <1>7. rows' \in Nat
    BY <1>1 DEF HostStep
  <1>8. events' = {} => events = {} /\ (NothingResident \/ rows' = rows)
    <2>1. /\ rows' = rows + k.grows
          /\ events' = events \cup (IF k.grows > 0 /\ ~NothingResident THEN {"grown"} ELSE {})
      BY DEF HostStep
    <2>2. CASE k.grows = 0
      BY <1>1, <2>1, <2>2
    <2>3. CASE k.grows = 1
      <3>1. k.grows > 0
        BY <2>3
      <3> QED
        BY <2>1, <3>1
    <2> QED
      BY <1>1, <2>2, <2>3
  <1> QED
    BY <1>3, <1>4, <1>5, <1>6, <1>7, <1>8 DEF GpuTypes, Exists

LEMMA HostFacts ==
    ASSUME GpuTypes, Kept, NEW k \in PlacedKernels, HostStep(k), events' = {}, coh' = coh,
           k.reads # {} => HostCurrent,
           k.writes # {} => HostCurrent \/ k.writes = Cols
    PROVE  /\ Kept' /\ (k.writes # {} => HostCurrent')
           /\ HostCurrent => HostCurrent'
           /\ k.writes = {} /\ CacheCurrent => CacheCurrent'
           /\ NothingResident => NothingResident'
  <1>1. /\ \A c \in Cols : Len(cache'[c]) = Len(cache[c]) /\ (Exists(c)' <=> Exists(c))
        /\ \A c \in Cols : Exists(c) =>
             /\ cache'[c][1].rows = cache[c][1].rows /\ cache'[c][1].dirty = cache[c][1].dirty
             /\ cache'[c][1].ok = (cache[c][1].ok /\ c \notin k.writes)
        /\ \A c \in Cols : hostOk'[c] = (hostOk[c] \/ c \in k.writes)
        /\ stale' = (stale \/ \E c \in k.reads : ~hostOk[c])
        /\ NothingResident \/ rows' = rows
    BY HostTypes
  <1>2. k.reads \subseteq Cols /\ k.writes \subseteq Cols
    BY DEF PlacedKernels
  <1>3. HostCurrent => HostCurrent'
    BY <1>1 DEF HostCurrent
  <1>4. k.writes # {} => HostCurrent'
    BY <1>1 DEF HostCurrent
  <1>5. k.writes = {} /\ CacheCurrent => CacheCurrent'
    BY <1>1 DEF CacheCurrent
  <1>6. NothingResident => NothingResident'
    BY <1>1 DEF NothingResident
  <1>7. ~stale'
    BY <1>1, <1>2 DEF Kept, HostCurrent
  <1>8. Safe'
    BY <1>1 DEF Safe, Kept
  <1>9. Single'
    BY <1>1 DEF Single, Kept, NothingResident
  <1>10. plan' = plan
    BY DEF plan
  <1> QED
    BY <1>3, <1>4, <1>5, <1>6, <1>7, <1>8, <1>9, <1>10 DEF Kept

(* The buffers a dispatch makes.                                            *)
LEMMA Made ==
    ASSUME GpuTypes, NEW made \in SUBSET Cols
    PROVE  LET b == Acquired(made)
           IN  /\ b \in [Cols -> Seq(Buffers)]
               /\ \A c \in Cols : c \notin made => b[c] = cache[c]
               /\ \A c \in made :
                     /\ b[c] # <<>>
                     /\ Reusable(c) => b[c] = cache[c]
                     /\ ~Exists(c) => Len(b[c]) = 1 /\ b[c][1] = [rows |-> rows, ok |-> hostOk[c], dirty |-> FALSE]
  <1> DEFINE b == Acquired(made)
             new(c) == [rows |-> rows, ok |-> hostOk[c], dirty |-> FALSE]
  <1>1. ASSUME NEW c \in Cols
        PROVE  new(c) \in Buffers /\ cache[c] \in Seq(Buffers)
    BY <1>1 DEF GpuTypes, Buffers
  <1>2. ASSUME NEW c \in Cols, c \in Misses(made)
        PROVE  /\ b[c] \in Seq(Buffers) /\ b[c] # <<>>
               /\ ~Exists(c) => Len(b[c]) = 1 /\ b[c][1] = new(c)
    <2>1. b[c] = Append(cache[c], new(c))
      BY <1>2 DEF Acquired
    <2>2. Append(cache[c], new(c)) \in Seq(Buffers) /\ Len(Append(cache[c], new(c))) = Len(cache[c]) + 1
          /\ Len(cache[c]) \in Nat
      BY <1>1, <1>2, AppendProperties, LenProperties
    <2>3. Append(cache[c], new(c)) # <<>>
      BY <2>2, EmptySeq
    <2>4. ~Exists(c) => Len(cache[c]) = 0
      BY EmptySeq DEF Exists
    <2>5. Append(cache[c], new(c))[Len(cache[c]) + 1] = new(c)
      BY <1>1, <1>2, AppendProperties
    <2> QED
      BY <2>1, <2>2, <2>3, <2>4, <2>5
  <1>3. ASSUME NEW c \in Cols, c \notin Misses(made)
        PROVE  b[c] = cache[c] /\ b[c] \in Seq(Buffers) /\ (c \in made => Reusable(c))
    BY <1>1, <1>3 DEF Acquired, Misses
  <1>4. b \in [Cols -> Seq(Buffers)]
    <2>1. b = [c \in Cols |-> b[c]]
      BY DEF Acquired
    <2>2. \A c \in Cols : b[c] \in Seq(Buffers)
      BY <1>2, <1>3
    <2> QED
      BY <2>1, <2>2
  <1>5. \A c \in made : c \in Misses(made) <=> ~Reusable(c)
    BY DEF Misses
  <1>6. \A c \in Cols : c \notin made => c \notin Misses(made)
    BY DEF Misses
  <1>7. \A c \in made : Reusable(c) => b[c] # <<>>
    BY <1>3, <1>5 DEF Reusable, Exists
  <1>8. \A c \in made : ~Exists(c) => ~Reusable(c)
    BY DEF Reusable
  <1> QED
    BY <1>2, <1>3, <1>4, <1>5, <1>6, <1>7, <1>8

LEMMA DispatchTypes ==
    ASSUME GpuTypes, NEW k \in PlacedKernels, NEW resident \in BOOLEAN, Dispatch(k, resident)
    PROVE  GpuTypes'
  <1> DEFINE used == k.reads \cup k.writes
             cached == Cached(used, resident)
             b == Acquired(cached)
             o == Outdate(cache, k.writes)
  <1>1. k.reads \subseteq Cols /\ k.writes \subseteq Cols /\ cached \in SUBSET Cols
    BY DEF PlacedKernels, Cached
  <1>2. b \in [Cols -> Seq(Buffers)]
    BY <1>1, Made
  <1>3. o \in [Cols -> Seq(Buffers)]
    BY Outdated DEF GpuTypes
  <1>4. /\ cache' = [c \in Cols |-> IF c \in cached THEN [i \in DOMAIN b[c] |-> Ran(b, c, i, k.writes)] ELSE o[c]]
        /\ hostOk' = [c \in Cols |-> IF c \in k.writes THEN c \notin cached ELSE hostOk[c]]
        /\ stale' \in BOOLEAN /\ rows' = rows
    BY DEF Dispatch, GpuTypes
  <1>5. hostOk' \in [Cols -> BOOLEAN]
    BY <1>4 DEF GpuTypes
  <1> HIDE DEF b, o, cached
  <1>6. ASSUME NEW c \in Cols
        PROVE  [i \in DOMAIN b[c] |-> Ran(b, c, i, k.writes)] \in Seq(Buffers)
    <2> DEFINE s == b[c]
               f == [i \in DOMAIN s |-> Ran(b, c, i, k.writes)]
    <2>1. s \in Seq(Buffers)
      BY <1>2, <1>6
    <2>2. \A i \in DOMAIN s : s[i] \in Buffers
      BY <2>1, LenProperties
    <2>3. \A i \in DOMAIN s : Ran(b, c, i, k.writes) \in Buffers
      BY <2>2 DEF Ran, Buffers
    <2>4. f \in [DOMAIN s -> Buffers]
      BY <2>3
    <2> QED
      BY <2>1, <2>4, Mapped
  <1>7. cache' \in [Cols -> Seq(Buffers)]
    BY <1>3, <1>4, <1>6
  <1> QED
    BY <1>4, <1>5, <1>7 DEF GpuTypes

LEMMA DispatchFacts ==
    ASSUME GpuTypes, Kept, CacheCurrent, NEW k \in PlacedKernels, plan.resident \in BOOLEAN,
           Dispatch(k, plan.resident), events' = {}, coh' = coh
    PROVE  Kept' /\ CacheCurrent'
  <1> DEFINE resident == plan.resident
             used == k.reads \cup k.writes
             cached == Cached(used, resident)
             b == Acquired(cached)
             o == Outdate(cache, k.writes)
             InputOk(c) == IF c \in cached /\ Reusable(c) THEN cache[c][1].ok ELSE hostOk[c]
  <1>1. /\ k.reads \subseteq Cols /\ k.writes \subseteq Cols /\ used \subseteq Cols
        /\ cached \in SUBSET Cols /\ cached \subseteq used
    BY DEF PlacedKernels, Cached
  <1>2. /\ stale' = (stale \/ \E c \in k.reads : ~InputOk(c))
        /\ hostOk' = [c \in Cols |-> IF c \in k.writes THEN c \notin cached ELSE hostOk[c]]
        /\ cache' = [c \in Cols |-> IF c \in cached THEN [i \in DOMAIN b[c] |-> Ran(b, c, i, k.writes)] ELSE o[c]]
        /\ events' = events \cup (IF resident /\ cached # used THEN {"full"} ELSE {})
        /\ rows' = rows
    BY DEF Dispatch
  <1>3. /\ b \in [Cols -> Seq(Buffers)]
        /\ \A c \in cached : /\ b[c] # <<>>
                             /\ Reusable(c) => b[c] = cache[c]
                             /\ ~Exists(c) => Len(b[c]) = 1 /\ b[c][1] = [rows |-> rows, ok |-> hostOk[c], dirty |-> FALSE]
    BY <1>1, Made
  <1>4. \A c \in Cols :
          /\ Len(o[c]) = Len(cache[c]) /\ (o[c] = <<>> <=> cache[c] = <<>>)
          /\ cache[c] # <<>> => /\ o[c][1].rows = cache[c][1].rows /\ o[c][1].dirty = cache[c][1].dirty
                                /\ o[c][1].ok = (cache[c][1].ok /\ c \notin k.writes)
    BY Outdated DEF GpuTypes
  <1>5. ~resident => cached = {} /\ NothingResident
    BY DEF Cached, Kept
  <1>6. resident => cached = used
    BY <1>2
  <1>7. \A c \in Cols : Reusable(c) <=> Exists(c)
    BY DEF Reusable, Kept, Single
  <1>8. \A c \in Cols : ~Exists(c) => hostOk[c]
    BY DEF Kept, Safe
  <1>9. \A c \in used : c \notin cached => ~Exists(c)
    BY <1>1, <1>5, <1>6 DEF NothingResident
  <1> HIDE DEF b, o, cached, used, resident
  <1>10. \A c \in used : InputOk(c)
    BY <1>1, <1>7, <1>8, <1>9 DEF CacheCurrent
  <1>11. ~stale'
    BY <1>2, <1>10 DEF Kept, used
  <1> HIDE DEF InputOk
  <1>12. ASSUME NEW c \in cached
         PROVE  /\ Exists(c)' /\ Len(cache'[c]) = 1
                /\ cache'[c][1].rows = rows /\ cache'[c][1].dirty /\ cache'[c][1].ok
    <2>1. c \in Cols /\ cache[c] \in Seq(Buffers) /\ hostOk[c] \in BOOLEAN
      BY <1>1, <1>12, FirstBuffer
    <2> DEFINE s == b[c]
               f == [i \in DOMAIN s |-> Ran(b, c, i, k.writes)]
    <2>2. cache'[c] = f
      BY <1>2, <1>12, <2>1
    <2>3. s \in Seq(Buffers) /\ Len(s) = 1 /\ s[1].rows = rows /\ s[1].ok
      <3>1. CASE Exists(c)
        <4>1. s = cache[c] /\ Len(cache[c]) <= 1 /\ cache[c][1].rows = rows /\ cache[c][1].ok
          BY <1>3, <1>7, <1>12, <2>1, <3>1 DEF CacheCurrent, Kept, Single
        <4>2. Len(cache[c]) \in Nat \ {0}
          BY <2>1, <3>1, EmptySeq DEF Exists
        <4>3. \A n \in Nat \ {0} : n <= 1 => n = 1
          OBVIOUS
        <4> QED
          BY <2>1, <4>1, <4>2, <4>3, Zenon
      <3>2. CASE ~Exists(c)
        <4>1. s \in Seq(Buffers) /\ Len(s) = 1 /\ s[1] = [rows |-> rows, ok |-> hostOk[c], dirty |-> FALSE] /\ hostOk[c]
          BY <1>3, <1>8, <1>12, <2>1, <3>2
        <4> QED
          BY <4>1
      <3> QED
        BY <3>1, <3>2
    <2>4. DOMAIN s = 1..1 /\ s[1] \in Buffers
      BY <2>3, LenProperties
    <2>5. f[1] = Ran(b, c, 1, k.writes) /\ 1 \in DOMAIN s
      BY <2>4
    <2>6. (IF Reusable(c) THEN 1 ELSE Len(b[c])) = 1
      BY <2>3
    <2>7. Ran(b, c, 1, k.writes) = [s[1] EXCEPT !.ok = IF c \in k.writes THEN TRUE ELSE @, !.dirty = TRUE]
      BY <2>4, <2>6 DEF Ran, Buffers
    <2>8. f[1] \in Buffers /\ f[1].rows = rows /\ f[1].dirty /\ f[1].ok
      BY <2>3, <2>4, <2>5, <2>7 DEF Buffers
    <2>9. f \in [DOMAIN s -> Buffers]
      <3>1. \A i \in DOMAIN s : i = 1
        BY <2>4
      <3> QED
        BY <2>5, <2>8, <3>1
    <2>10. Len(f) = 1 /\ f # <<>>
      <3>1. Len(f) = Len(s) /\ (f = <<>> <=> s = <<>>)
        BY <2>3, <2>9, Mapped
      <3> QED
        BY <2>3, <3>1, EmptySeq
    <2> HIDE DEF f
    <2> QED
      BY <2>2, <2>8, <2>10 DEF Exists
  <1>13. ASSUME NEW c \in Cols, c \notin cached
         PROVE  /\ Len(cache'[c]) = Len(cache[c]) /\ (Exists(c)' <=> Exists(c))
                /\ Exists(c) => /\ c \notin k.writes /\ cache'[c][1].rows = cache[c][1].rows
                                /\ cache'[c][1].dirty = cache[c][1].dirty /\ cache'[c][1].ok = cache[c][1].ok
                /\ hostOk'[c] = (hostOk[c] \/ c \in k.writes)
    <2>1. cache'[c] = o[c] /\ hostOk'[c] = IF c \in k.writes THEN TRUE ELSE hostOk[c]
      BY <1>2, <1>13
    <2>2. Exists(c) => c \notin k.writes
      BY <1>9, <1>13 DEF used
    <2>3. hostOk[c] \in BOOLEAN /\ (Exists(c) => cache[c][1].ok \in BOOLEAN)
      BY <1>13, FirstBuffer
    <2> QED
      BY <1>4, <1>13, <2>1, <2>2, <2>3 DEF Exists
  <1>14. CacheCurrent'
    BY <1>12, <1>13 DEF CacheCurrent
  <1>15. Safe'
    BY <1>12, <1>13 DEF Safe, Kept
  <1>16. Single'
    <2>1. rows' = rows
      BY <1>2
    <2>2. SUFFICES ASSUME NEW c \in Cols
                   PROVE  Len(cache'[c]) <= 1 /\ (Exists(c)' => cache'[c][1].rows = rows)
      BY <2>1 DEF Single
    <2>3. CASE c \in cached
      <3>1. 1 <= 1
        OBVIOUS
      <3> QED
        BY <1>12, <2>3, <3>1, Zenon
    <2>4. CASE c \notin cached
      BY <1>13, <2>4 DEF Single, Kept
    <2> QED
      BY <2>3, <2>4
  <1>17. (plan.resident \/ NothingResident)'
    <2>1. plan' = plan
      BY DEF plan
    <2>2. ~resident => NothingResident'
      BY <1>5, <1>13 DEF NothingResident
    <2> QED
      BY <2>1, <2>2 DEF resident
  <1> QED
    BY <1>11, <1>14, <1>15, <1>16, <1>17 DEF Kept

(* A dispatch that fails, with nothing in the cache.                        *)
LEMMA FailTypes ==
    ASSUME GpuTypes, NEW k \in PlacedKernels, NEW resident \in BOOLEAN, DispatchFails(k, resident)
    PROVE  /\ GpuTypes'
           /\ events' = {} /\ Safe /\ ~stale => /\ events = {} /\ NothingResident /\ NothingResident'
                                                /\ HostCurrent' /\ ~stale'
           /\ rows' = rows
  <1>1. PICK last \in 0..NCols :
          LET made == Cached({c \in k.reads \cup k.writes : c <= last}, resident)
          IN  /\ cache' = Outdate(Acquired(made), k.writes)
              /\ events' = events \cup (IF NothingResident /\ Misses(made) = {} THEN {} ELSE {"failed"})
    BY DEF DispatchFails
  <1> DEFINE made == Cached({c \in k.reads \cup k.writes : c <= last}, resident)
             b == Acquired(made)
  <1>2. made \in SUBSET Cols /\ k.reads \subseteq Cols /\ k.writes \subseteq Cols
    BY DEF PlacedKernels, Cached
  <1>3. b \in [Cols -> Seq(Buffers)]
    BY <1>2, Made
  <1>4. /\ hostOk' = [c \in Cols |-> hostOk[c] \/ c \in k.writes] /\ rows' = rows
        /\ stale' = (stale \/ \E c \in k.reads : ~hostOk[c])
    BY DEF DispatchFails
  <1>5. cache' = Outdate(b, k.writes) /\ events' = events \cup (IF NothingResident /\ Misses(made) = {} THEN {} ELSE {"failed"})
    BY <1>1
  <1>6. b = [c \in Cols |-> IF c \in Misses(made) THEN Append(cache[c], [rows |-> rows, ok |-> hostOk[c], dirty |-> FALSE])
                            ELSE cache[c]]
    BY DEF Acquired
  <1> HIDE DEF b, made
  <1>7. cache' \in [Cols -> Seq(Buffers)] /\ \A c \in Cols : cache'[c] = <<>> <=> b[c] = <<>>
    BY <1>3, <1>5, Outdated
  <1>8. GpuTypes'
    BY <1>4, <1>7 DEF GpuTypes
  <1>9. ASSUME events' = {}, Safe, ~stale
        PROVE  events = {} /\ NothingResident /\ NothingResident' /\ HostCurrent' /\ ~stale'
    <2>1. events = {} /\ NothingResident /\ Misses(made) = {}
      BY <1>5, <1>9
    <2>2. \A c \in Cols : hostOk[c]
      BY <1>9, <2>1 DEF Safe, NothingResident
    <2>3. \A c \in Cols : b[c] = cache[c]
      BY <1>6, <2>1
    <2>4. NothingResident'
      BY <1>7, <2>1, <2>3 DEF NothingResident, Exists
    <2>5. HostCurrent' /\ ~stale'
      BY <1>2, <1>4, <1>9, <2>2 DEF HostCurrent
    <2> QED
      BY <2>1, <2>4, <2>5
  <1> QED
    BY <1>4, <1>8, <1>9

LEMMA FailFacts ==
    ASSUME GpuTypes, Kept, NEW k \in PlacedKernels, plan.resident \in BOOLEAN,
           DispatchFails(k, plan.resident), events' = {}, coh' = coh
    PROVE  Kept' /\ NothingResident' /\ HostCurrent' /\ CacheCurrent'
  <1>1. /\ NothingResident' /\ HostCurrent' /\ ~stale' /\ GpuTypes'
    BY FailTypes DEF Kept
  <1>2. CacheCurrent' /\ Safe'
    BY <1>1 DEF CacheCurrent, NothingResident, Safe, HostCurrent
  <1>3. Single'
    <2>1. \A c \in Cols : cache'[c] = <<>>
      BY <1>1 DEF NothingResident, Exists
    <2>2. Len(<<>>) <= 1
      OBVIOUS
    <2> QED
      BY <2>1, <2>2 DEF Single, Exists
  <1> QED
    BY <1>1, <1>2, <1>3 DEF Kept
-----------------------------------------------------------------------------
(* Marks that say less are fitted by more.                                  *)
LEMMA BelowFits ==
    ASSUME NEW m, NEW d, Below(m, d)
    PROVE  (Fits(m) => Fits(d)) /\ (Fits(m)' => Fits(d)')
  BY DEF Below, Fits

(* The plan at step i.                                                      *)
LEMMA PlanAt ==
    ASSUME PassOk(coh), NSteps \in Nat, Len(coh) = NSteps + 1, NEW i \in 1..NSteps
    PROVE  /\ coh[i] \in Marks /\ coh[i + 1] \in Marks /\ plan \in Marks
           /\ coh[i + 1] = Visit(coh[i], i)
           /\ coh[i + 1].doubts \subseteq plan.doubts
           /\ i \in plan.flush <=> NeededFlush(coh[i], i)
           /\ i \in plan.sync <=> NeededSync(coh[i], i)
           /\ i \in plan.upload <=> NeededUpload(coh[i], i)
  <1>1. /\ i \in Nat /\ i \in 1..Len(coh) /\ i + 1 \in 1..Len(coh) /\ Len(coh) \in 1..Len(coh)
        /\ i \in 1..(Len(coh) - 1) /\ i + 1 <= Len(coh)
    OBVIOUS
  <1>2. coh \in Seq(Marks) /\ coh[i + 1] = Visit(coh[i], i)
    BY <1>1 DEF PassOk, Chained
  <1>3. coh[i] \in Marks /\ coh[i + 1] \in Marks /\ plan \in Marks
    BY <1>1, <1>2, ElementOfSeq DEF plan
  <1>4. coh[i + 1].doubts \subseteq plan.doubts
    BY <1>1 DEF PassOk, Monotone, plan
  <1>5. /\ i \in plan.flush <=> NeededFlush(coh[i], i)
        /\ i \in plan.sync <=> NeededSync(coh[i], i)
        /\ i \in plan.upload <=> NeededUpload(coh[i], i)
    BY <1>1 DEF PassOk, Transferred, plan
  <1> QED
    BY <1>2, <1>3, <1>4, <1>5

(* What the absence of doubts says of step i.                               *)
LEMMA NoDoubt ==
    ASSUME steps \in Seq(Scheduled), NEW i \in 1..NSteps, NEW m \in Marks, Visit(m, i).doubts = {}
    PROVE  LET e == Entered(m, i)
               o == Opened(m, i)
               k == steps[i].k
           IN  /\ steps[i].when = "new" => ~(e.dg /\ e.dh)
               /\ IsRun(i) /\ (NeedsSync(o, k) \/ NeedsUpload(o, k)) => ~(o.dg /\ o.dh)
               /\ IsRun(i) /\ ~k.gpu /\ Transfers(o, i).dg /\ FpWrite(k) => k.writes = Cols
               /\ IsRun(i) /\ ~k.gpu /\ Transfers(o, i).seen => k.hidden = {}
               /\ ~IsRun(i) => ~o.dh
               /\ EndsWhen(i) /\ Visit(m, i).dhIn => Visit(m, i).dh
  <1> DEFINE e == Entered(m, i)
             o == Opened(m, i)
             k == steps[i].k
             t == Transfers(o, i)
             d == Done(m, i)
             v == Visit(m, i)
  <1>1. i \in Nat
    BY DEF NSteps
  <1>2. o \in Marks /\ (steps[i].when = "new" /\ e.dg /\ e.dh => "both" \in o.doubts)
    BY <1>1, OpenedMarks
  <1>3. o.doubts \subseteq d.doubts
    BY DoneMarks
  <1>4. d.doubts \subseteq v.doubts /\ (EndsWhen(i) /\ v.dhIn /\ ~v.dh => "when" \in v.doubts)
    BY VisitMarks
  <1>5. o.doubts = {} /\ d.doubts = {} /\ v.doubts = {}
    BY <1>3, <1>4
  <1>6. CASE IsRun(i)
    <2>1. k \in PlacedKernels
      BY <1>6, Placement
    <2>2. d = Effect(t, k)
      BY <1>6 DEF Done
    <2> HIDE DEF o
    <2>3. t \in Marks /\ ((NeedsSync(o, k) \/ NeedsUpload(o, k)) /\ o.dg /\ o.dh => "both" \in t.doubts)
      BY <1>1, <1>2, TransferMarks
    <2> HIDE DEF t, k
    <2>4. t.doubts \subseteq Effect(t, k).doubts
          /\ (~k.gpu /\ t.dg /\ FpWrite(k) /\ k.writes # Cols => "column" \in Effect(t, k).doubts)
          /\ (~k.gpu /\ t.seen /\ k.hidden # {} => "hidden" \in Effect(t, k).doubts)
      BY <2>1, <2>3, EffectMarks
    <2> QED
      BY <1>2, <1>4, <1>5, <1>6, <2>2, <2>3, <2>4 DEF t, k, o
  <1>7. CASE ~IsRun(i)
    <2>1. d = Asked(o)
      BY <1>7 DEF Done
    <2> HIDE DEF o
    <2>2. o.dh => "asked" \in Asked(o).doubts
      BY <1>2, AskedMarks
    <2> QED
      BY <1>2, <1>4, <1>5, <1>7, <2>1, <2>2 DEF o
  <1> QED
    BY <1>6, <1>7

(* From one place of a run to the next.                                     *)
LEMMA GoTo ==
    ASSUME CInv, Running, steps' = steps, loopFrom' = loopFrom, coh' = coh,
           NEW place, NEW i, pc' = <<place, i>>,
           \/ place \in {"guard", "test", "move", "run"} /\ i \in 1..NSteps
           \/ place = "done" /\ i = 0,
           place \in {"test", "move"} => steps[i].when = "new",
           place = "run" => IsRun(i),
           GpuTypes', RunInv'
    PROVE  CInv'
  <1>1. /\ NSteps' = NSteps /\ (\A x : IsRun(x)' <=> IsRun(x)) /\ (\A q : PassOk(q)' <=> PassOk(q))
        /\ StepsInv /\ (pc'[1] \in {"write", "place"} <=> pc[1] \in {"write", "place"}) => StepsInv'
    BY SameSchedule
  <1>2. pc[1] \notin {"write", "place", "pass"} /\ pc'[1] \notin {"write", "place", "pass"} /\ pc'[1] = place /\ pc'[2] = i
    BY DEF Running
  <1>3. StepsInv'
    BY <1>1, <1>2 DEF CInv
  <1>4. PassOk(coh)'
    BY <1>1 DEF CInv
  <1>5. NSteps \in Nat
    BY LenProperties DEF CInv, StepsInv, NSteps
  <1>6. PcInv'
    <2>1. i \in Nat
      BY <1>5
    <2>2. pc' \in {"write", "place", "pass", "guard", "test", "move", "run", "done"} \X Nat
      BY <2>1
    <2>3. Running' => i \in 1..NSteps /\ Len(coh') = NSteps + 1
      BY <1>2 DEF CInv, PcInv, Running
    <2> QED
      BY <1>1, <1>2, <2>2, <2>3 DEF PcInv, Step
  <1> QED
    BY <1>2, <1>3, <1>4, <1>6 DEF CInv

(* From the end of a step or of a conditional body, on.                     *)
LEMMA GoOn ==
    ASSUME CInv, Running, steps' = steps, loopFrom' = loopFrom, coh' = coh,
           NEW j \in 2..(NSteps + 1), Continue(j), GpuTypes',
           Orderly' => Kept' /\ Fits(coh[j])'
    PROVE  CInv'
  <1>1. /\ NSteps \in Nat /\ Len(coh) = NSteps + 1 /\ loopFrom \in 0..NSteps
        /\ \A x : x \in 1..Len(coh) => coh[x] \in Marks
    <2>1. NSteps \in Nat
      BY LenProperties DEF CInv, StepsInv, NSteps
    <2>2. coh \in Seq(Marks)
      BY DEF CInv, PassOk, Chained
    <2> QED
      BY <2>1, <2>2, ElementOfSeq DEF CInv, StepsInv, PcInv
  <1>2. /\ \A m, x : Entered(m, x)' = Entered(m, x)
        /\ NSteps' = NSteps
    BY SameSchedule
  <1>3. CASE j <= NSteps
    <2>1. pc' = <<"guard", j>> /\ j \in 1..NSteps
      BY <1>1, <1>3 DEF Continue, Goto
    <2>2. Below(coh[j], Entered(coh[j], j))
      BY <1>1, <2>1, EnteredMarks
    <2>3. Fits(coh[j])' => Fits(Entered(coh[j], j))'
      BY <1>2, <2>2, BelowFits
    <2>4. RunInv'
      BY <2>1, <2>3 DEF RunInv, At, Step
    <2> QED
      BY <2>1, <2>4, GoTo
  <1>4. CASE j > NSteps /\ loopFrom # 0
    <2>1. pc' = <<"guard", loopFrom>> /\ loopFrom \in 1..NSteps /\ j = NSteps + 1
      BY <1>1, <1>4 DEF Continue, Goto
    <2>2. Entered(coh[loopFrom], loopFrom) = EnterLoop(coh[loopFrom])
      BY DEF Entered
    <2>3. NSteps \in loopFrom..(Len(coh) - 1)
      BY <1>1, <2>1
    <2>4. Below(coh[j], EnterLoop(coh[loopFrom]))
      BY <1>4, <2>1, <2>3 DEF CInv, PassOk, LoopClosed
    <2>5. Fits(coh[j])' => Fits(Entered(coh[loopFrom], loopFrom))'
      BY <1>2, <2>2, <2>4, BelowFits
    <2>6. RunInv'
      BY <2>1, <2>5 DEF RunInv, At, Step
    <2> QED
      BY <2>1, <2>6, GoTo
  <1>5. CASE j > NSteps /\ loopFrom = 0
    <2>1. pc' = <<"done", 0>>
      BY <1>1, <1>5 DEF Continue, Goto
    <2>2. RunInv'
      BY <2>1 DEF RunInv, At
    <2> QED
      BY <2>1, <2>2, GoTo
  <1> QED
    BY <1>1, <1>3, <1>4, <1>5

(* The step a run is at.                                                    *)
LEMMA AtStep ==
    ASSUME CInv, Running
    PROVE  /\ NSteps \in Nat /\ Step \in 1..NSteps /\ Step \in Nat /\ steps \in Seq(Scheduled) /\ GpuTypes
           /\ Step + 1 \in 2..(NSteps + 1)
           /\ coh[Step] \in Marks /\ coh[Step + 1] \in Marks /\ plan \in Marks /\ plan.resident \in BOOLEAN
           /\ Entered(coh[Step], Step) \in Marks /\ Opened(coh[Step], Step) \in Marks
           /\ coh[Step + 1] = Visit(coh[Step], Step)
           /\ plan.doubts = {} => coh[Step + 1].doubts = {}
           /\ Step \in plan.flush <=> NeededFlush(coh[Step], Step)
           /\ Step \in plan.sync <=> NeededSync(coh[Step], Step)
           /\ Step \in plan.upload <=> NeededUpload(coh[Step], Step)
           /\ RunInv
  <1>1. /\ Step \in 1..NSteps /\ Len(coh) = NSteps + 1 /\ PassOk(coh) /\ RunInv /\ GpuTypes
        /\ pc[1] \notin {"write", "place"}
    BY DEF CInv, PcInv, Running
  <1>2. steps \in Seq(Scheduled)
    BY <1>1 DEF CInv, StepsInv
  <1>3. NSteps \in Nat
    BY <1>2, LenProperties DEF NSteps
  <1> DEFINE i == Step
  <1>4. /\ coh[i] \in Marks /\ coh[i + 1] \in Marks /\ plan \in Marks
        /\ coh[i + 1] = Visit(coh[i], i)
        /\ coh[i + 1].doubts \subseteq plan.doubts
        /\ i \in plan.flush <=> NeededFlush(coh[i], i)
        /\ i \in plan.sync <=> NeededSync(coh[i], i)
        /\ i \in plan.upload <=> NeededUpload(coh[i], i)
    BY <1>1, <1>3, PlanAt
  <1>5. i \in Nat /\ i + 1 \in 2..(NSteps + 1)
    BY <1>1, <1>3
  <1>6. Entered(coh[i], i) \in Marks /\ Opened(coh[i], i) \in Marks
    BY <1>4, <1>5, EnteredMarks, OpenedMarks
  <1>7. plan.resident \in BOOLEAN
    BY <1>4 DEF Marks
  <1> HIDE DEF i
  <1> QED
    BY <1>1, <1>2, <1>3, <1>4, <1>5, <1>6, <1>7 DEF i

LEMMA FlushStep ==
    ASSUME CInv, Flush
    PROVE  CInv'
  <1>0. PICK i, e, f : i = Step /\ e = Entered(coh[i], i) /\ f = [e EXCEPT !.dg = FALSE]
    OBVIOUS
  <1>1. /\ Running /\ pc[1] = "guard" /\ steps[i].when = "new" /\ i \in plan.flush /\ pc' = <<"test", i>>
        /\ Sync /\ steps' = steps /\ loopFrom' = loopFrom /\ coh' = coh
    BY <1>0 DEF Flush, Goto, Running
  <1>2. /\ i \in 1..NSteps /\ steps \in Seq(Scheduled) /\ GpuTypes /\ coh[i] \in Marks /\ e \in Marks
        /\ (plan.doubts = {} => Visit(coh[i], i).doubts = {}) /\ NeededFlush(coh[i], i) /\ RunInv
    BY <1>0, <1>1, AtStep
  <1>3. GpuTypes' /\ (events' = {} => events = {})
    BY <1>1, <1>2, SyncTypes
  <1>4. plan' = plan /\ [Entered(coh[Step], Step) EXCEPT !.dg = FALSE]' = f
    <2>1. \A m, x : Entered(m, x)' = Entered(m, x)
      BY <1>1, SameSchedule
    <2>2. coh'[pc'[2]] = coh[i] /\ pc'[2] = i
      BY <1>1
    <2> QED
      BY <1>0, <1>1, <2>1, <2>2 DEF plan, Step
  <1>5. ASSUME Orderly'
        PROVE  Kept' /\ Fits(f)'
    <2>1. events' = {} /\ plan.doubts = {} /\ Orderly
      BY <1>3, <1>4, <1>5 DEF Orderly
    <2>2. Kept /\ Fits(e)
      BY <1>0, <1>1, <1>2, <2>1 DEF RunInv, At
    <2>3. e.dg /\ ~e.dh
      <3>1. e.dg
        BY <1>0, <1>2 DEF NeededFlush
      <3>2. ~(e.dg /\ e.dh)
        BY <1>0, <1>1, <1>2, <2>1, NoDoubt
      <3> QED
        BY <3>1, <3>2
    <2>4. CacheCurrent /\ (~e.seen => NothingResident)
      BY <2>2, <2>3 DEF Fits
    <2>5. Kept' /\ HostCurrent' /\ CacheCurrent' /\ (NothingResident => NothingResident')
      BY <1>1, <1>2, <2>1, <2>2, <2>4, SyncFacts
    <2>6. f.seen = e.seen
      BY <1>0, <1>2 DEF Marks
    <2> QED
      BY <2>4, <2>5, <2>6 DEF Fits
  <1>6. RunInv'
    BY <1>1, <1>4, <1>5 DEF RunInv, At
  <1> QED
    BY <1>1, <1>2, <1>3, <1>6, GoTo

(* The marks after a conditional body hold where it was skipped.            *)
LEMMA Skipped ==
    ASSUME CInv, Running, steps[Step].when = "new", plan.doubts = {}, NEW j \in 2..(NSteps + 1), PastWhen(j),
           HostCurrent, Fits([Entered(coh[Step], Step) EXCEPT !.dg = FALSE])
    PROVE  Fits(coh[j])
  <1> DEFINE i == Step
             e == Entered(coh[i], i)
             n == j - 1
  <1>1. /\ NSteps \in Nat /\ i \in 1..NSteps /\ i \in Nat /\ steps \in Seq(Scheduled)
        /\ coh[i] \in Marks /\ e \in Marks /\ coh[i + 1] = Visit(coh[i], i)
    BY AtStep
  <1>2. Len(coh) = NSteps + 1 /\ PassOk(coh)
    BY DEF CInv, PcInv
  <1>3. n \in WhenBody(i) /\ j \notin WhenBody(i) /\ n \in Int /\ j = n + 1
    BY <1>1 DEF PastWhen
  <1> HIDE DEF i, n, e
  <1>4. n \in i..NSteps /\ n \in 1..NSteps /\ InBody(i, n)
    BY <1>1, <1>3 DEF WhenBody
  <1>5. EndsWhen(n)
    <2>1. steps[n].when # "no"
      <3>1. CASE n = i
        BY <3>1 DEF i
      <3>2. CASE n # i
        <4>1. n \in (i + 1)..n
          BY <1>1, <1>4, <3>2
        <4> QED
          BY <1>4, <4>1 DEF InBody
      <3> QED
        BY <3>1, <3>2
    <2>2. ASSUME n # NSteps, steps[n + 1].when = "same"
          PROVE  FALSE
      <3>1. j \in i..NSteps
        BY <1>1, <1>3, <1>4, <2>2
      <3>2. \A x \in (i + 1)..j : x = j \/ x \in (i + 1)..n
        BY <1>1, <1>3, <1>4
      <3>3. InBody(i, j)
        BY <1>3, <1>4, <2>2, <3>2 DEF InBody
      <3> QED
        BY <1>3, <3>1, <3>3 DEF WhenBody
    <2> QED
      BY <2>1, <2>2 DEF EndsWhen
  <1>6. /\ coh[n] \in Marks /\ coh[j] \in Marks /\ coh[j] = Visit(coh[n], n)
        /\ coh[j].doubts \subseteq plan.doubts
    BY <1>1, <1>2, <1>3, <1>4, PlanAt
  <1>7. coh[j].dhIn => coh[j].dh
    <2>1. Visit(coh[n], n).doubts = {}
      BY <1>6
    <2> QED
      BY <1>1, <1>4, <1>5, <1>6, <2>1, NoDoubt
  <1>8. coh[j].dhIn = e.dh
    <2>1. i \in 1..(Len(coh) - 1) /\ n \in 1..(Len(coh) - 1) /\ i <= n /\ steps[i].when = "new"
      BY <1>1, <1>2, <1>4 DEF i
    <2> QED
      BY <1>2, <1>3, <1>4, <2>1 DEF PassOk, KeepsMark, e
  <1>9. e.seen => coh[j].seen
    <2>1. Opened(coh[i], i).seen = e.seen
      BY <1>1, OpenedMarks DEF e
    <2>2. Opened(coh[i], i).seen => Done(coh[i], i).seen
      BY <1>1, DoneMarks
    <2>3. coh[i + 1].seen = Done(coh[i], i).seen
      BY <1>1, VisitMarks
    <2>4. coh[i + 1].seen => coh[j].seen
      <3>1. i + 1 \in 1..Len(coh) /\ j \in 1..Len(coh) /\ i + 1 <= j
        BY <1>1, <1>2, <1>3, <1>4
      <3> QED
        BY <1>2, <3>1 DEF PassOk, Monotone
    <2> QED
      BY <2>1, <2>2, <2>3, <2>4
  <1>10. (~e.dh => CacheCurrent) /\ (~e.seen => NothingResident)
    <2> DEFINE f == [e EXCEPT !.dg = FALSE]
    <2>1. f.dh = e.dh /\ f.seen = e.seen
      BY <1>1 DEF Marks
    <2>2. Fits(f)
      BY DEF e, i
    <2> HIDE DEF f
    <2> QED
      BY <2>1, <2>2 DEF Fits
  <1> QED
    BY <1>7, <1>8, <1>9, <1>10 DEF Fits

LEMMA PredicateStep ==
    ASSUME CInv, Predicate
    PROVE  CInv'
  <1>0. PICK i, e, f, o : i = Step /\ e = Entered(coh[i], i) /\ f = [e EXCEPT !.dg = FALSE] /\ o = Opened(coh[i], i)
    OBVIOUS
  <1>1. /\ pc[1] = "test" \/ (pc[1] = "guard" /\ steps[i].when = "new" /\ i \notin plan.flush)
        /\ stale' = (stale \/ \E c \in Cols : ~hostOk[c])
        /\ pc' = <<"move", i>> \/ \E j \in 2..(NSteps + 1) : PastWhen(j) /\ Continue(j)
        /\ hostOk' = hostOk /\ cache' = cache /\ rows' = rows /\ events' = events
        /\ steps' = steps /\ loopFrom' = loopFrom /\ coh' = coh
    BY <1>0 DEF Predicate, Goto
  <1>2. Running /\ steps[i].when = "new"
    BY <1>0, <1>1 DEF Running, CInv, PcInv
  <1>3. /\ i \in 1..NSteps /\ i \in Nat /\ steps \in Seq(Scheduled) /\ GpuTypes /\ coh[i] \in Marks /\ e \in Marks /\ o \in Marks
        /\ (i \in plan.flush <=> NeededFlush(coh[i], i)) /\ RunInv
    BY <1>0, <1>2, AtStep
  <1>4. GpuTypes'
    BY <1>1, <1>3 DEF GpuTypes
  <1>5. plan' = plan
    BY <1>1 DEF plan
  <1>6. f.dg = FALSE /\ f.dh = e.dh /\ f.seen = e.seen
    BY <1>0, <1>3 DEF Marks
  <1>7. ASSUME Orderly
        PROVE  Kept /\ Fits(f) /\ HostCurrent
    <2>1. CASE pc[1] = "test"
      BY <1>0, <1>3, <1>6, <1>7, <2>1 DEF RunInv, At, Fits
    <2>2. CASE pc[1] = "guard" /\ i \notin plan.flush
      <3>1. ~e.dg
        BY <1>0, <1>2, <1>3, <2>2 DEF NeededFlush
      <3>2. Kept /\ Fits(e)
        BY <1>0, <1>3, <1>7, <2>2 DEF RunInv, At
      <3> QED
        BY <1>6, <3>1, <3>2 DEF Fits
    <2> QED
      BY <1>1, <2>1, <2>2
  <1>8. ASSUME Orderly'
        PROVE  Orderly /\ Kept'
    <2>1. Orderly
      BY <1>1, <1>5, <1>8 DEF Orderly
    <2>2. ~stale'
      BY <1>1, <1>7, <2>1 DEF HostCurrent, Kept
    <2>3. Safe' /\ Single' /\ (NothingResident => NothingResident')
      BY <1>1, <1>7, <2>1 DEF Kept, Safe, Single, NothingResident, Exists
    <2> QED
      BY <1>5, <1>7, <2>1, <2>2, <2>3 DEF Kept
  <1>9. \A m : Fits(m)' <=> Fits(m)
    BY <1>1 DEF Fits, HostCurrent, CacheCurrent, NothingResident, Exists
  <1>10. CASE pc' = <<"move", i>>
    <2>1. Fits(f) => Fits(o)
      <3>1. o.seen = e.seen /\ o.dh = (e.dh \/ HWrite(WhenBody(i)))
        BY <1>0, <1>2, <1>3, OpenedMarks
      <3>2. Below(f, o)
        BY <1>6, <3>1 DEF Below
      <3> QED
        BY <3>2, BelowFits
    <2>2. Opened(coh[Step], Step)' = o
      <3>1. \A m, x : Opened(m, x)' = Opened(m, x)
        BY <1>1, SameSchedule
      <3>2. coh'[pc'[2]] = coh[i] /\ pc'[2] = i
        BY <1>1, <1>10
      <3> QED
        BY <1>0, <3>1, <3>2 DEF Step
    <2>3. Orderly' => Fits(o)'
      BY <1>7, <1>8, <1>9, <2>1
    <2>4. RunInv'
      BY <1>8, <1>10, <2>2, <2>3 DEF RunInv, At
    <2> QED
      BY <1>1, <1>2, <1>3, <1>4, <1>10, <2>4, GoTo
  <1>11. CASE \E j \in 2..(NSteps + 1) : PastWhen(j) /\ Continue(j)
    <2>1. PICK j \in 2..(NSteps + 1) : PastWhen(j) /\ Continue(j)
      BY <1>11
    <2>2. PICK m : m = coh[j]
      OBVIOUS
    <2>3. Orderly => Fits(m)
      BY <1>0, <1>2, <1>7, <2>1, <2>2, Skipped DEF Orderly
    <2>4. Orderly' => Fits(m)'
      BY <1>8, <1>9, <2>3
    <2>5. Orderly' => Kept' /\ Fits(coh[j])'
      BY <1>1, <1>8, <2>2, <2>4
    <2> QED
      BY <1>1, <1>2, <1>4, <2>1, <2>5, GoOn
  <1> QED
    BY <1>1, <1>10, <1>11

(* Past the predicate, if there is one.                                     *)
LEMMA EnterFits ==
    ASSUME CInv, Enter
    PROVE  Running /\ (Orderly => Kept /\ Fits(Opened(coh[Step], Step)))
  <1>1. Running
    BY DEF Enter, Running
  <1>2. RunInv
    BY <1>1, AtStep
  <1>3. CASE pc[1] = "move"
    BY <1>1, <1>2, <1>3 DEF RunInv, At
  <1>4. CASE pc[1] = "guard" /\ steps[Step].when # "new"
    <2>1. Opened(coh[Step], Step) = Entered(coh[Step], Step)
      BY <1>4 DEF Opened
    <2> QED
      BY <1>1, <1>2, <1>4, <2>1 DEF RunInv, At
  <1> QED
    BY <1>3, <1>4 DEF Enter

(* The transfers before a step.                                             *)
LEMMA TransferStep ==
    ASSUME CInv, Download \/ Refresh
    PROVE  CInv'
  <1>0. PICK i, o, t, k : i = Step /\ o = Opened(coh[i], i) /\ t = Transfers(o, i) /\ k = steps[i].k
    OBVIOUS
  <1>1. /\ Enter /\ pc' = <<"run", i>> /\ steps' = steps /\ loopFrom' = loopFrom /\ coh' = coh
        /\ (i \in plan.sync /\ Sync) \/ (i \in plan.upload /\ Upload)
    BY <1>0 DEF Download, Refresh, Goto
  <1>2. Running /\ (Orderly => Kept /\ Fits(o))
    BY <1>0, <1>1, EnterFits
  <1>3. /\ i \in 1..NSteps /\ i \in Nat /\ steps \in Seq(Scheduled) /\ GpuTypes /\ coh[i] \in Marks /\ o \in Marks
        /\ plan.doubts = {} => Visit(coh[i], i).doubts = {}
        /\ i \in plan.sync => IsRun(i) /\ NeedsSync(o, k)
        /\ i \in plan.upload => IsRun(i) /\ NeedsUpload(o, k)
    BY <1>0, <1>2, AtStep DEF NeededSync, NeededUpload
  <1>4. IsRun(i) /\ (NeedsSync(o, k) \/ NeedsUpload(o, k))
    BY <1>1, <1>3
  <1>5. GpuTypes' /\ (events' = {} => events = {})
    BY <1>1, <1>3, SyncTypes, UploadTypes
  <1>6. plan' = plan /\ Transfers(Opened(coh[Step], Step), Step)' = t
    <2>1. (\A m, x : Opened(m, x)' = Opened(m, x)) /\ (\A m, x : Transfers(m, x)' = Transfers(m, x))
      BY <1>1, SameSchedule
    <2>2. coh'[pc'[2]] = coh[i] /\ pc'[2] = i
      BY <1>1
    <2>3. Opened(coh[Step], Step)' = o /\ Step' = i
      BY <1>0, <2>1, <2>2 DEF Step
    <2>4. Transfers(Opened(coh[Step], Step), Step)' = Transfers(o, i)
      BY <2>1, <2>3
    <2> QED
      BY <1>0, <1>1, <2>4 DEF plan
  <1>7. t.seen = o.seen
    BY <1>0, <1>3, TransferMarks
  <1>8. ASSUME Orderly'
        PROVE  Kept' /\ Fits(t)'
    <2>1. events' = {} /\ plan.doubts = {} /\ Orderly
      BY <1>5, <1>6, <1>8 DEF Orderly
    <2>2. Kept /\ Fits(o)
      BY <1>2, <2>1
    <2>3. ~(o.dg /\ o.dh)
      BY <1>0, <1>3, <1>4, <2>1, NoDoubt
    <2>4. CASE i \in plan.sync /\ Sync
      <3>1. o.dg
        BY <1>3, <2>4 DEF NeedsSync
      <3>2. CacheCurrent
        BY <2>2, <2>3, <3>1 DEF Fits
      <3>3. Kept' /\ HostCurrent' /\ CacheCurrent' /\ (NothingResident => NothingResident')
        BY <1>1, <1>3, <2>1, <2>2, <2>4, <3>2, SyncFacts
      <3> QED
        BY <1>7, <2>2, <3>3 DEF Fits
    <2>5. CASE i \in plan.upload /\ Upload
      <3>1. o.dh
        BY <1>3, <2>5 DEF NeedsUpload
      <3>2. HostCurrent
        BY <2>2, <2>3, <3>1 DEF Fits
      <3>3. Kept' /\ HostCurrent' /\ CacheCurrent' /\ (NothingResident => NothingResident')
        BY <1>1, <1>3, <2>1, <2>2, <2>5, <3>2, UploadFacts
      <3> QED
        BY <1>7, <2>2, <3>3 DEF Fits
    <2> QED
      BY <1>1, <2>4, <2>5
  <1>9. RunInv'
    BY <1>1, <1>6, <1>8 DEF RunInv, At
  <1> QED
    BY <1>1, <1>2, <1>3, <1>4, <1>5, <1>9, GoTo

LEMMA ObeyStep ==
    ASSUME CInv, Obey
    PROVE  CInv'
  <1>0. PICK i, o, d, v : i = Step /\ o = Opened(coh[i], i) /\ d = Done(coh[i], i) /\ v = coh[i + 1]
    OBVIOUS
  <1>1. /\ Enter /\ ~IsRun(i) /\ Continue(i + 1) /\ Sync /\ steps' = steps /\ loopFrom' = loopFrom /\ coh' = coh
    BY <1>0 DEF Obey
  <1>2. Running /\ (Orderly => Kept /\ Fits(o))
    BY <1>0, <1>1, EnterFits
  <1>3. /\ i \in 1..NSteps /\ i + 1 \in 2..(NSteps + 1) /\ steps \in Seq(Scheduled) /\ GpuTypes /\ coh[i] \in Marks /\ o \in Marks
        /\ plan.doubts = {} => Visit(coh[i], i).doubts = {}
        /\ v = Visit(coh[i], i)
    BY <1>0, <1>2, AtStep
  <1>4. GpuTypes' /\ (events' = {} => events = {})
    BY <1>1, <1>3, SyncTypes
  <1>5. plan' = plan
    BY <1>1 DEF plan
  <1>6. d.seen = o.seen
    <2>1. d = Asked(o)
      BY <1>0, <1>1 DEF Done
    <2> QED
      BY <1>3, <2>1, AskedMarks
  <1>7. Below(d, v)
    BY <1>0, <1>3, VisitMarks
  <1>8. ASSUME Orderly'
        PROVE  Kept' /\ Fits(v)'
    <2>1. events' = {} /\ plan.doubts = {} /\ Orderly
      BY <1>4, <1>5, <1>8 DEF Orderly
    <2>2. Kept /\ Fits(o)
      BY <1>2, <2>1
    <2>3. ~o.dh
      BY <1>0, <1>1, <1>3, <2>1, NoDoubt
    <2>4. CacheCurrent
      BY <2>2, <2>3 DEF Fits
    <2>5. Kept' /\ HostCurrent' /\ CacheCurrent' /\ (NothingResident => NothingResident')
      BY <1>1, <1>3, <2>1, <2>2, <2>4, SyncFacts
    <2>6. Fits(d)'
      BY <1>6, <2>2, <2>5 DEF Fits
    <2> QED
      BY <1>7, <2>5, <2>6, BelowFits
  <1>9. Orderly' => Kept' /\ Fits(coh[i + 1])'
    BY <1>0, <1>1, <1>8
  <1> QED
    BY <1>1, <1>2, <1>3, <1>4, <1>9, GoOn

(* The transfers done, or none needed.                                      *)
LEMMA ReadyFits ==
    ASSUME CInv, Ready
    PROVE  /\ Running /\ IsRun(Step) /\ K \in PlacedKernels
           /\ Orderly => Kept /\ Fits(Transfers(Opened(coh[Step], Step), Step))
  <1>0. PICK i, o, t, k : i = Step /\ o = Opened(coh[i], i) /\ t = Transfers(o, i) /\ k = steps[i].k
    OBVIOUS
  <1>1. Running /\ IsRun(i)
    BY <1>0 DEF Ready, Enter, Running, CInv, PcInv
  <1>2. /\ i \in 1..NSteps /\ i \in Nat /\ steps \in Seq(Scheduled) /\ o \in Marks /\ RunInv
        /\ i \in plan.sync <=> NeededSync(coh[i], i)
        /\ i \in plan.upload <=> NeededUpload(coh[i], i)
    BY <1>0, <1>1, AtStep
  <1>3. K \in PlacedKernels
    BY <1>0, <1>1, <1>2, Placement DEF K
  <1>4. ASSUME Orderly
        PROVE  Kept /\ Fits(t)
    <2>1. CASE pc[1] = "run"
      BY <1>0, <1>2, <1>4, <2>1 DEF RunInv, At
    <2>2. CASE Enter /\ i \notin plan.sync \cup plan.upload
      <3>1. Kept /\ Fits(o)
        BY <1>0, <1>4, <2>2, EnterFits
      <3>2. ~NeedsSync(o, k) /\ ~NeedsUpload(o, k)
        BY <1>0, <1>1, <1>2, <2>2 DEF NeededSync, NeededUpload
      <3>3. t.dg = (o.dg /\ ~NeedsSync(o, k)) /\ t.dh = (o.dh /\ ~NeedsUpload(o, k)) /\ t.seen = o.seen
        BY <1>0, <1>2, TransferMarks
      <3>4. Below(o, t)
        BY <3>2, <3>3 DEF Below
      <3> QED
        BY <3>1, <3>4, BelowFits
    <2> QED
      BY <1>0, <2>1, <2>2 DEF Ready
  <1> QED
    BY <1>0, <1>1, <1>3, <1>4

LEMMA KernelStep ==
    ASSUME CInv, RunHost \/ RunGpu \/ FallBack
    PROVE  CInv'
  <1>0. PICK i, o, t, k, d, v : /\ i = Step /\ o = Opened(coh[i], i) /\ t = Transfers(o, i) /\ k = K
                                /\ d = Effect(t, k) /\ v = coh[i + 1]
    OBVIOUS
  <1>1. /\ Ready /\ Continue(i + 1) /\ steps' = steps /\ loopFrom' = loopFrom /\ coh' = coh /\ k = steps[i].k
        /\ \/ ~k.gpu /\ HostStep(k)
           \/ k.gpu /\ Dispatch(k, plan.resident)
           \/ k.gpu /\ DispatchFails(k, plan.resident)
    BY <1>0 DEF RunHost, RunGpu, FallBack, K
  <1>2. Running /\ IsRun(i) /\ k \in PlacedKernels /\ (Orderly => Kept /\ Fits(t))
    BY <1>0, <1>1, ReadyFits
  <1>3. /\ i \in 1..NSteps /\ i \in Nat /\ i + 1 \in 2..(NSteps + 1) /\ steps \in Seq(Scheduled) /\ GpuTypes
        /\ coh[i] \in Marks /\ o \in Marks /\ plan.resident \in BOOLEAN
        /\ plan.doubts = {} => Visit(coh[i], i).doubts = {}
        /\ v = Visit(coh[i], i)
    BY <1>0, <1>2, AtStep
  <1>4. plan' = plan
    BY <1>1 DEF plan
  <1>5. /\ t \in Marks
        /\ t.dg = (o.dg /\ ~NeedsSync(o, k)) /\ t.dh = (o.dh /\ ~NeedsUpload(o, k)) /\ t.seen = o.seen
    <2>1. LET u == Transfers(o, i)
          IN  /\ u \in Marks /\ u.seen = o.seen
              /\ u.dg = (o.dg /\ ~NeedsSync(o, steps[i].k)) /\ u.dh = (o.dh /\ ~NeedsUpload(o, steps[i].k))
      BY <1>3, TransferMarks
    <2>2. t = Transfers(o, i) /\ k = steps[i].k
      BY <1>0, <1>1
    <2> QED
      BY <2>1, <2>2, Zenon
  <1>6. /\ d.dg = (IF k.gpu THEN t.dg \/ FpWrite(k) ELSE t.dg /\ ~FpWrite(k))
        /\ d.dh = (IF k.gpu THEN t.dh /\ ~FpWrite(k) ELSE t.dh \/ FpWrite(k))
        /\ d.seen = (t.seen \/ k.gpu)
    BY <1>0, <1>2, <1>5, EffectMarks
  <1>7. Below(d, v)
    <2>1. Done(coh[i], i) = d
      BY <1>0, <1>1, <1>2 DEF Done
    <2> QED
      BY <1>3, <2>1, VisitMarks
  <1>8. GpuTypes'
    BY <1>1, <1>2, <1>3, HostTypes, DispatchTypes, FailTypes
  <1>9. events' = {} => events = {}
    <2>1. CASE HostStep(k)
      BY <2>1 DEF HostStep
    <2>2. CASE Dispatch(k, plan.resident)
      BY <2>2 DEF Dispatch
    <2>3. CASE DispatchFails(k, plan.resident)
      <3>1. \E x : events' = events \cup x
        BY <2>3 DEF DispatchFails
      <3> QED
        BY <3>1
    <2> QED
      BY <1>1, <2>1, <2>2, <2>3
  <1>10. ASSUME Orderly'
         PROVE  Kept' /\ Fits(d)'
    <2>1. events' = {} /\ plan.doubts = {} /\ Orderly
      BY <1>4, <1>9, <1>10 DEF Orderly
    <2>2. Kept /\ Fits(t)
      BY <1>2, <2>1
    <2>3. CASE ~k.gpu /\ HostStep(k)
      <3>a. (t.dg /\ FpWrite(k) => k.writes = Cols) /\ (t.seen => k.hidden = {})
        BY <1>0, <1>1, <1>2, <1>3, <2>1, <2>3, NoDoubt
      <3>b. k.hidden # {} => NothingResident /\ HostCurrent
        BY <2>2, <3>a DEF Fits, Kept, Safe, NothingResident, HostCurrent
      <3>1. k.reads # {} => HostCurrent
        BY <1>5, <2>2, <2>3, <3>b DEF Fits, NeedsSync, FpRead
      <3>2. k.writes # {} => HostCurrent \/ k.writes = Cols
        BY <2>2, <3>a, <3>b DEF Fits, FpWrite
      <3>3. /\ Kept' /\ (k.writes # {} => HostCurrent')
            /\ HostCurrent => HostCurrent'
            /\ k.writes = {} /\ CacheCurrent => CacheCurrent'
            /\ NothingResident => NothingResident'
        BY <1>1, <1>2, <1>3, <2>1, <2>2, <2>3, <3>1, <3>2, HostFacts
      <3>4. (~d.dg => HostCurrent') /\ (~d.dh => CacheCurrent') /\ (~d.seen => NothingResident')
        <4>1. CASE k.hidden = {}
          BY <1>6, <2>2, <2>3, <3>3, <4>1 DEF Fits, FpWrite
        <4>2. CASE k.hidden # {}
          BY <3>3, <3>b, <4>2 DEF NothingResident, CacheCurrent
        <4> QED
          BY <4>1, <4>2
      <3> QED
        BY <3>3, <3>4 DEF Fits
    <2>4. CASE k.gpu /\ Dispatch(k, plan.resident)
      <3>1. k.reads # {} /\ k.writes # {} /\ k.hidden = {}
        BY <1>2, <2>4 DEF PlacedKernels
      <3>2. CacheCurrent
        <4>1. ~t.dh \/ ~t.seen
          BY <1>5, <2>4, <3>1 DEF NeedsUpload, FpRead
        <4>2. NothingResident => CacheCurrent
          BY DEF NothingResident, CacheCurrent
        <4> QED
          BY <2>2, <4>1, <4>2 DEF Fits
      <3>3. Kept' /\ CacheCurrent'
        BY <1>1, <1>2, <1>3, <2>1, <2>2, <2>4, <3>2, DispatchFacts
      <3>4. d.dg /\ d.seen
        BY <1>6, <2>4, <3>1 DEF FpWrite
      <3> QED
        BY <3>3, <3>4 DEF Fits
    <2>5. CASE k.gpu /\ DispatchFails(k, plan.resident)
      <3>1. Kept' /\ NothingResident' /\ HostCurrent' /\ CacheCurrent'
        BY <1>1, <1>2, <1>3, <2>1, <2>2, <2>5, FailFacts
      <3> QED
        BY <3>1 DEF Fits
    <2> QED
      BY <1>1, <2>3, <2>4, <2>5
  <1>11. Orderly' => Kept' /\ Fits(coh[i + 1])'
    <2>1. Orderly' => Kept' /\ Fits(v)'
      BY <1>7, <1>10, BelowFits
    <2> QED
      BY <1>0, <1>1, <2>1
  <1> QED
    BY <1>1, <1>2, <1>3, <1>8, <1>11, GoOn
-----------------------------------------------------------------------------
(* Before the first step the pass knows nothing.                            *)
LEMMA PassStart ==
    ASSUME NEW d \in BOOLEAN, NEW q, q = <<Unvisited(d)>>
    PROVE  /\ loopFrom \in Nat => PassOk(q)
           /\ loopFrom' \in Nat => PassOk(q)'
  <1>1. /\ Unvisited(d) \in Marks
        /\ Unvisited(d).flush = {} /\ Unvisited(d).sync = {} /\ Unvisited(d).upload = {}
    BY DEF Unvisited, Marks
  <1>2. q \in Seq(Marks) /\ Len(q) = 1 /\ q[1] = Unvisited(d)
    BY <1>1
  <1>3. 1..(Len(q) - 1) = {} /\ Len(q) > 0 /\ 1..Len(q) = {1} /\ 1..(1 - 1) = {}
    BY <1>2
  <1>4. Chained(q) /\ Chained(q)'
    BY <1>2, <1>3 DEF Chained
  <1>5. Monotone(q) /\ Monotone(q)'
    BY <1>3 DEF Monotone
  <1>6. Transferred(q) /\ Transferred(q)'
    BY <1>1, <1>2, <1>3 DEF Transferred
  <1>7. KeepsMark(q) /\ KeepsMark(q)'
    BY <1>3 DEF KeepsMark
  <1>8. \A n \in Nat : n # 0 => n..(Len(q) - 1) = {}
    BY <1>2
  <1>9. (loopFrom \in Nat => LoopClosed(q)) /\ (loopFrom' \in Nat => LoopClosed(q)')
    BY <1>8 DEF LoopClosed
  <1> QED
    BY <1>4, <1>5, <1>6, <1>7, <1>9 DEF PassOk

LEMMA Started ==
    ASSUME Init
    PROVE  CInv
  <1>1. pc[1] = "write" /\ pc \in {"write", "place", "pass", "guard", "test", "move", "run", "done"} \X Nat
    BY DEF Init
  <1>2. steps \in Seq(Written) /\ NSteps = 0 /\ loopFrom = 0
    BY DEF Init, NSteps
  <1>3. coh = <<Unvisited(FALSE)>>
    BY DEF Init
  <1>4. PassOk(coh)
    <2>1. loopFrom \in Nat
      BY <1>2
    <2> QED
      BY <1>3, <2>1, PassStart
  <1>5. GpuTypes /\ Untouched
    <2>1. Untouched /\ rows = 0
      BY DEF Init, GpuInit, Untouched
    <2>2. <<>> \in Seq(Buffers)
      BY EmptySeq
    <2> QED
      BY <2>1, <2>2 DEF GpuTypes, Untouched
  <1>6. StepsInv /\ PcInv
    BY <1>1, <1>2 DEF StepsInv, PcInv, Running
  <1> QED
    BY <1>1, <1>3, <1>4, <1>5, <1>6 DEF CInv, Running

LEMMA WriteStep ==
    ASSUME CInv, NEW k \in Kernels \cup {UserSync}, NEW w \in Whens, Write(k, w)
    PROVE  CInv'
  <1>1. /\ pc[1] = "write" /\ steps' = Append(steps, [k |-> k, when |-> w])
        /\ loopFrom' = loopFrom /\ coh' = coh /\ pc' = pc
        /\ hostOk' = hostOk /\ cache' = cache /\ rows' = rows /\ stale' = stale
    BY DEF Write, gpuVars
  <1>2. steps \in Seq(Written) /\ NSteps \in Nat /\ loopFrom \in 0..NSteps /\ loopFrom \in Nat
        /\ (loopFrom # 0 => steps[loopFrom].when # "same") /\ coh = <<Unvisited(FALSE)>>
        /\ GpuTypes /\ Untouched /\ PcInv
    <2>1. steps \in Seq(Written)
      BY <1>1 DEF CInv, StepsInv
    <2>2. NSteps \in Nat
      BY <2>1, LenProperties DEF NSteps
    <2>3. loopFrom \in 0..NSteps /\ (loopFrom # 0 => steps[loopFrom].when # "same")
      BY DEF CInv, StepsInv
    <2>4. loopFrom \in Nat
      BY <2>2, <2>3
    <2>5. coh = <<Unvisited(FALSE)>> /\ GpuTypes /\ Untouched /\ PcInv
      BY <1>1 DEF CInv
    <2> QED
      BY <2>1, <2>2, <2>3, <2>4, <2>5
  <1>3. [k |-> k, when |-> w] \in Written
    BY DEF Written
  <1>4. steps' \in Seq(Written) /\ NSteps' = NSteps + 1 /\ \A x \in 1..NSteps : steps'[x] = steps[x]
    BY <1>1, <1>2, <1>3, AppendProperties DEF NSteps
  <1>5. StepsInv'
    <2>1. loopFrom \in 0..(NSteps + 1) /\ (loopFrom # 0 => loopFrom \in 1..NSteps)
      BY <1>2
    <2> QED
      BY <1>1, <1>2, <1>4, <2>1 DEF StepsInv
  <1>6. PcInv'
    BY <1>1, <1>2 DEF PcInv, Running
  <1>7. PassOk(coh)'
    <2>1. PICK q : q = coh
      OBVIOUS
    <2>2. PassOk(q)'
      BY <1>1, <1>2, <2>1, PassStart
    <2> QED
      BY <1>1, <2>1, <2>2
  <1>8. GpuTypes' /\ Untouched'
    BY <1>1, <1>2 DEF GpuTypes, Untouched
  <1> QED
    BY <1>1, <1>2, <1>5, <1>6, <1>7, <1>8 DEF CInv, Running

LEMMA CompileStep ==
    ASSUME CInv, Compile
    PROVE  CInv'
  <1>1. /\ pc[1] = "write" /\ NSteps > 0 /\ steps' = steps /\ coh' = coh /\ pc' = <<"place", 1>>
        /\ loopFrom' \in {0} \cup {x \in 1..NSteps : steps[x].when # "same"}
        /\ hostOk' = hostOk /\ cache' = cache /\ rows' = rows /\ stale' = stale
    BY DEF Compile, gpuVars
  <1>2. steps \in Seq(Written) /\ NSteps \in Nat /\ coh = <<Unvisited(FALSE)>> /\ GpuTypes /\ Untouched
    <2>1. steps \in Seq(Written)
      BY <1>1 DEF CInv, StepsInv
    <2> QED
      BY <1>1, <2>1, LenProperties DEF CInv, NSteps
  <1>3. loopFrom' \in 0..NSteps /\ loopFrom' \in Nat /\ (loopFrom' # 0 => steps[loopFrom'].when # "same") /\ NSteps' = NSteps
    BY <1>1, <1>2 DEF NSteps
  <1>4. StepsInv' /\ PcInv'
    BY <1>1, <1>2, <1>3 DEF StepsInv, PcInv, Running
  <1>5. PassOk(coh)'
    <2>1. PICK q : q = coh
      OBVIOUS
    <2>2. PassOk(q)'
      BY <1>2, <1>3, <2>1, PassStart
    <2> QED
      BY <1>1, <2>1, <2>2
  <1>6. GpuTypes' /\ Untouched'
    BY <1>1, <1>2 DEF GpuTypes, Untouched
  <1> QED
    BY <1>1, <1>2, <1>4, <1>5, <1>6 DEF CInv, Running

(* A placed kernel: only an eligible map goes to the device, and an         *)
(* eligible map reads and writes columns and does not insert.               *)
LEMMA PlacedKernel ==
    ASSUME NEW k \in Kernels
    PROVE  Placed(k) \in PlacedKernels
  <1>1. /\ k.eligible \in BOOLEAN /\ k.grows \in {0, 1} /\ k.reads \subseteq Cols /\ k.writes \subseteq Cols
        /\ k.hidden \subseteq {"reads", "writes"}
        /\ k.eligible => k.reads # {} /\ k.writes # {} /\ k.hidden = {} /\ k.grows = 0
    BY ScheduleAssumption
  <1>2. PICK g \in BOOLEAN : g = (k.eligible /\ Decide(k))
    OBVIOUS
  <1>3. g => k.eligible
    BY <1>2
  <1>4. Placed(k) = [gpu |-> g, reads |-> k.reads, writes |-> k.writes, hidden |-> k.hidden, grows |-> k.grows]
    BY <1>2 DEF Placed
  <1> QED
    BY <1>1, <1>3, <1>4 DEF PlacedKernels

LEMMA PlaceStep ==
    ASSUME CInv, Place
    PROVE  CInv'
  <1>1. /\ pc[1] = "place" /\ pc' = <<"pass", 1>> /\ loopFrom' = loopFrom
        /\ steps' = [i \in 1..NSteps |-> IF IsRun(i) THEN [steps[i] EXCEPT !.k = Placed(@)] ELSE steps[i]]
        /\ \E declared \in BOOLEAN : coh' = <<Unvisited(declared)>>
        /\ hostOk' = hostOk /\ cache' = cache /\ rows' = rows /\ stale' = stale
    BY DEF Place, gpuVars
  <1>2. steps \in Seq(Written) /\ NSteps \in Nat /\ NSteps > 0 /\ GpuTypes /\ Untouched
    <2>1. steps \in Seq(Written)
      BY <1>1 DEF CInv, StepsInv
    <2> QED
      BY <1>1, <2>1, LenProperties DEF CInv, PcInv, NSteps
  <1>3. loopFrom \in 0..NSteps /\ loopFrom \in Nat /\ (loopFrom # 0 => steps[loopFrom].when # "same")
    BY <1>2 DEF CInv, StepsInv
  <1>4. ASSUME NEW i \in 1..NSteps
        PROVE  steps'[i] \in Scheduled /\ steps'[i].when = steps[i].when
    <2>1. steps[i] \in Written
      BY <1>2, <1>4, ElementOfSeq DEF NSteps
    <2>2. steps'[i] = IF IsRun(i) THEN [steps[i] EXCEPT !.k = Placed(@)] ELSE steps[i]
      BY <1>1
    <2>3. CASE IsRun(i)
      <3>1. steps[i].k \in Kernels
        BY <2>1, <2>3 DEF Written, IsRun
      <3>2. Placed(steps[i].k) \in PlacedKernels
        BY <3>1, PlacedKernel
      <3>3. steps'[i] = [steps[i] EXCEPT !.k = Placed(steps[i].k)]
        BY <2>2, <2>3
      <3> QED
        BY <2>1, <3>2, <3>3 DEF Written, Scheduled
    <2>4. CASE ~IsRun(i)
      BY <2>1, <2>2, <2>4 DEF Written, Scheduled, IsRun
    <2> QED
      BY <2>3, <2>4
  <1>5. steps' \in Seq(Scheduled) /\ NSteps' = NSteps
    <2>1. steps' \in [1..NSteps -> Scheduled]
      BY <1>1, <1>4
    <2> QED
      BY <1>2, <2>1 DEF NSteps
  <1>6. StepsInv'
    <2>1. loopFrom # 0 => loopFrom \in 1..NSteps
      BY <1>2, <1>3
    <2>2. loopFrom # 0 => steps'[loopFrom].when # "same"
      BY <1>3, <1>4, <2>1
    <2> QED
      BY <1>1, <1>3, <1>5, <2>2 DEF StepsInv
  <1>d. PICK d \in BOOLEAN : coh' = <<Unvisited(d)>>
    BY <1>1
  <1>7. PICK q : q = <<Unvisited(d)>> /\ coh' = q
    BY <1>d
  <1>8. PassOk(coh)'
    <2>1. PassOk(q)'
      BY <1>1, <1>3, <1>7, PassStart
    <2> QED
      BY <1>7, <2>1
  <1>9. PcInv'
    <2>1. 1 \in 1..NSteps /\ Len(coh') = 1
      BY <1>2, <1>7
    <2> QED
      BY <1>1, <1>5, <2>1 DEF PcInv, Running, Step
  <1>10. GpuTypes' /\ Untouched'
    BY <1>1, <1>2 DEF GpuTypes, Untouched
  <1> QED
    BY <1>1, <1>6, <1>8, <1>9, <1>10 DEF CInv, Running

LEMMA VisitStep ==
    ASSUME CInv, Pass
    PROVE  CInv'
  <1>1. /\ pc[1] = "pass" /\ coh' = Append(coh, Visit(plan, pc[2])) /\ steps' = steps /\ loopFrom' = loopFrom
        /\ pc' = IF pc[2] < NSteps THEN <<"pass", pc[2] + 1>> ELSE <<"guard", 1>>
        /\ hostOk' = hostOk /\ cache' = cache /\ rows' = rows /\ stale' = stale
    BY DEF Pass, gpuVars
  <1>2. /\ steps \in Seq(Scheduled) /\ StepsInv /\ GpuTypes /\ Untouched /\ PassOk(coh)
        /\ pc[2] \in 1..NSteps /\ Len(coh) = pc[2]
    BY <1>1 DEF CInv, StepsInv, PcInv, Step
  <1>3. NSteps \in Nat /\ coh \in Seq(Marks)
    BY <1>2, LenProperties DEF NSteps, PassOk, Chained
  <1>4. PICK q : q = Append(coh, Visit(coh[Len(coh)], Len(coh)))
    OBVIOUS
  <1>5. coh' = q
    BY <1>1, <1>2, <1>4 DEF plan
  <1>6. PassOk(q)
    <2>1. Len(coh) \in 1..NSteps
      BY <1>2
    <2> QED
      BY <1>2, <1>4, <2>1, PassStep
  <1>7. /\ NSteps' = NSteps /\ (\A x : PassOk(x)' <=> PassOk(x))
        /\ StepsInv /\ (pc'[1] \in {"write", "place"} <=> pc[1] \in {"write", "place"}) => StepsInv'
    BY <1>1, SameSchedule
  <1>8. PassOk(coh)'
    BY <1>5, <1>6, <1>7
  <1>9. pc'[1] \in {"pass", "guard"}
    BY <1>1
  <1>10. StepsInv'
    BY <1>1, <1>2, <1>7, <1>9
  <1>11. Len(coh') = pc[2] + 1
    BY <1>2, <1>4, <1>5
  <1>12. PcInv'
    <2>1. CASE pc[2] < NSteps
      <3>1. pc' = <<"pass", pc[2] + 1>> /\ pc[2] + 1 \in 1..NSteps
        BY <1>1, <1>2, <1>3, <2>1
      <3> QED
        BY <1>7, <1>11, <3>1 DEF PcInv, Running, Step
    <2>2. CASE ~(pc[2] < NSteps)
      <3>1. pc' = <<"guard", 1>> /\ 1 \in 1..NSteps /\ Len(coh') = NSteps + 1
        BY <1>1, <1>2, <1>3, <1>11, <2>2
      <3> QED
        BY <1>7, <3>1 DEF PcInv, Running, Step
    <2> QED
      BY <2>1, <2>2
  <1>13. GpuTypes' /\ Untouched'
    BY <1>1, <1>2 DEF GpuTypes, Untouched
  <1>14. RunInv'
    <2>1. HostCurrent' /\ NothingResident' /\ CacheCurrent' /\ ~stale'
      BY <1>13 DEF Untouched, HostCurrent, NothingResident, CacheCurrent, Exists
    <2>2. Safe'
      BY <2>1 DEF Safe, HostCurrent
    <2>3. Single'
      <3>1. \A c \in Cols : cache'[c] = <<>>
        BY <1>13 DEF Untouched
      <3>2. Len(<<>>) <= 1
        OBVIOUS
      <3> QED
        BY <3>1, <3>2 DEF Single, Exists
    <2>4. Kept'
      BY <2>1, <2>2, <2>3 DEF Kept
    <2>5. \A m : Fits(m)'
      BY <2>1 DEF Fits
    <2> QED
      BY <2>4, <2>5 DEF RunInv, At
  <1> QED
    BY <1>8, <1>9, <1>10, <1>12, <1>13, <1>14 DEF CInv

LEMMA Stutter ==
    ASSUME CInv, UNCHANGED allVars
    PROVE  CInv'
  <1>1. /\ steps' = steps /\ loopFrom' = loopFrom /\ coh' = coh /\ pc' = pc
        /\ hostOk' = hostOk /\ cache' = cache /\ rows' = rows /\ stale' = stale /\ events' = events
    BY DEF allVars, schedVars, gpuVars
  <1>2. /\ NSteps' = NSteps /\ (\A x : IsRun(x)' <=> IsRun(x)) /\ (\A x : PassOk(x)' <=> PassOk(x))
        /\ StepsInv /\ (pc'[1] \in {"write", "place"} <=> pc[1] \in {"write", "place"}) => StepsInv'
        /\ (\A m, x : Entered(m, x)' = Entered(m, x) /\ Opened(m, x)' = Opened(m, x))
        /\ (\A m, x : Transfers(m, x)' = Transfers(m, x))
    BY <1>1, SameSchedule
  <1>3. StepsInv' /\ PassOk(coh)' /\ GpuTypes'
    BY <1>1, <1>2 DEF CInv, GpuTypes
  <1>4. PcInv'
    BY <1>1, <1>2 DEF CInv, PcInv, Running, Step
  <1>5. RunInv => RunInv'
    <2>1. (\A m : Fits(m)' <=> Fits(m)) /\ (Kept => Kept') /\ plan' = plan
      BY <1>1 DEF Fits, HostCurrent, CacheCurrent, NothingResident, Exists, Kept, Safe, Single, plan
    <2>2. Orderly' <=> Orderly
      BY <1>1, <2>1 DEF Orderly
    <2> QED
      BY <1>1, <1>2, <2>1, <2>2 DEF RunInv, At, Step
  <1> QED
    BY <1>1, <1>3, <1>4, <1>5 DEF CInv, Running, Untouched
-----------------------------------------------------------------------------
LEMMA Inductive ==
    ASSUME CInv, [Next]_allVars
    PROVE  CInv'
  BY WriteStep, CompileStep, PlaceStep, VisitStep, FlushStep, PredicateStep, TransferStep, ObeyStep, KernelStep, Stutter
     DEF Next

(* Whatever the schedule, the kernels, the placement and the size of the    *)
(* cache are: where the coherence pass of codegen.c had no doubt, which     *)
(* takes that cg_fp_expr saw every access of the steps behind a dispatch    *)
(* (no scan, no sort, no column named through a query), and the runtime no  *)
(* event (no growth, no full cache, no failed call), no step and no         *)
(* predicate reads a stale copy of a column, and every column has a current *)
(* copy.                                                                    *)
THEOREM ReadsAreCoherent == Spec => []CoherentReads
  <1>1. Init => CInv
    BY Started
  <1>2. CInv /\ [Next]_allVars => CInv'
    BY Inductive
  <1>3. CInv => CoherentReads
    <2>1. SUFFICES ASSUME CInv, Orderly
                   PROVE  ~stale /\ SomeCopyCurrent
      BY DEF CoherentReads
    <2>2. CASE pc[1] \in {"write", "place", "pass"}
      BY <2>1, <2>2 DEF CInv, Untouched, SomeCopyCurrent
    <2>3. CASE Running \/ pc[1] = "done"
      <3>1. Kept
        BY <2>1, <2>3 DEF CInv, RunInv
      <3> QED
        BY <3>1 DEF Kept, Safe, SomeCopyCurrent
    <2>4. pc[1] \in {"write", "place", "pass", "guard", "test", "move", "run", "done"}
      BY <2>1 DEF CInv, PcInv
    <2> QED
      BY <2>2, <2>3, <2>4 DEF Running
  <1> QED
    BY <1>1, <1>2, <1>3, PTL DEF Spec
=============================================================================
