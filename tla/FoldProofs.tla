----------------------------- MODULE FoldProofs -----------------------------
(***************************************************************************)
(* The folds are right for every column: the multicore reduce for every     *)
(* length, chunk size and number of threads, as long as no pthread_create   *)
(* fails before one that succeeds; the lanes, the one-row loop, scan and    *)
(* the folds of expressions for every number of rows, freed rows and pools. *)
(***************************************************************************)
EXTENDS ParReduce, ColumnFold, FiniteSetTheorems, SequenceTheorems, TLAPS

(* Multiplying by a natural number keeps the order.                         *)
LEMMA ProductMonotone ==
    ASSUME NEW a \in Nat, NEW b \in Nat, NEW c \in Nat, a <= b
    PROVE  a * c \in Nat /\ a * c <= b * c
  OBVIOUS

(* d chunks of m \div d rows fit into m rows.                               *)
LEMMA DivFacts ==
    ASSUME NEW m \in Nat, NEW d \in Nat \ {0}
    PROVE  m \div d \in Nat /\ d * (m \div d) <= m
  OBVIOUS

(* What a run of rows is, as a sequence.                                    *)
LEMMA RowsType ==
    ASSUME NEW a \in Nat, NEW b \in Nat, a <= b
    PROVE  Rows(a, b) \in Seq(Int) /\ Len(Rows(a, b)) = b - a
           /\ \A i \in 1..(b - a) : Rows(a, b)[i] = a + i - 1
  <1>1. b - a \in Nat /\ \A i \in 1..(b - a) : a + i - 1 \in Int
    OBVIOUS
  <1> QED
    BY <1>1 DEF Rows

(* Two adjacent runs of rows make one.                                      *)
LEMMA RowsConcat ==
    ASSUME NEW a \in Nat, NEW b \in Nat, a <= b
    PROVE  Rows(0, a) \o Rows(a, b) = Rows(0, b)
  <1> DEFINE l == Rows(0, a)
             r == Rows(a, b)
             w == Rows(0, b)
  <1>1. l \in Seq(Int) /\ Len(l) = a /\ \A i \in 1..a : l[i] = i - 1
    BY RowsType
  <1>2. r \in Seq(Int) /\ Len(r) = b - a /\ \A i \in 1..(b - a) : r[i] = a + i - 1
    BY RowsType
  <1>3. w \in Seq(Int) /\ Len(w) = b /\ \A i \in 1..b : w[i] = i - 1
    BY RowsType
  <1> HIDE DEF l, r, w
  <1>4. /\ l \o r \in Seq(Int)
        /\ Len(l \o r) = Len(l) + Len(r)
        /\ \A i \in 1..(Len(l) + Len(r)) :
               (l \o r)[i] = IF i <= Len(l) THEN l[i] ELSE r[i - Len(l)]
    BY <1>1, <1>2, ConcatProperties
  <1> DEFINE c == l \o r
  <1>5. /\ c \in Seq(Int)
        /\ Len(c) = Len(l) + Len(r)
        /\ \A i \in 1..(Len(l) + Len(r)) :
               c[i] = IF i <= Len(l) THEN l[i] ELSE r[i - Len(l)]
    BY <1>4
  <1> HIDE DEF c
  <1>6. Len(l) = a /\ Len(r) = b - a /\ Len(l) + Len(r) = b
    BY <1>1, <1>2
  <1>7. \A i \in 1..b : c[i] = w[i]
    <2> TAKE i \in 1..b
    <2>1. c[i] = IF i <= a THEN l[i] ELSE r[i - a]
      BY <1>5, <1>6
    <2>2. CASE i <= a
      BY <2>1, <2>2, <1>1, <1>3
    <2>3. CASE i > a
      <3>1. i - a \in 1..(b - a)
        BY <2>3
      <3> QED
        BY <2>1, <2>3, <3>1, <1>2, <1>3
    <2>4. i <= a \/ i > a
      OBVIOUS
    <2> QED
      BY <2>2, <2>3, <2>4
  <1>8. c = w
    BY <1>3, <1>5, <1>6, <1>7, SeqEqual
  <1> QED
    BY <1>8 DEF c, l, r, w

-----------------------------------------------------------------------------
(* How many chunks have been handed out while the call is under way.        *)
Sent == IF pc = "spawn" THEN t ELSE k

UnderWay == pc \in {"spawn", "join", "combine"}

(* The chunk before which the first u chunks end.                           *)
Upto(u) == IF u = k THEN n ELSE u * (n \div k)

CallerInv ==
    /\ pc = "call" => t = 0 /\ spawned = 0 /\ acc = <<>>
    /\ UnderWay => k >= 2 /\ t <= k /\ spawned <= k
    /\ pc = "spawn" => spawned <= t /\ acc = <<>>
    /\ pc = "join" => acc = <<>>

(* A thread runs or has run exactly where the array entry holds one.        *)
ThreadInv ==
    /\ \A w \in Workers : th[w] <=> worker[w] # "none"
    /\ \A w \in Workers : pc = "call" \/ (UnderWay /\ w >= Sent) => ~th[w]
    /\ FailuresLast => \A w \in Workers : w >= spawned => ~th[w]

ChunkInv ==
    /\ \A w \in Workers : args[w].lo \in Nat /\ args[w].hi \in Nat /\ args[w].lo <= args[w].hi
    /\ UnderWay => \A w \in Workers : w < Sent =>
           /\ args[w].lo = w * (n \div k)
           /\ args[w].hi = ChunkEnd(w)
           /\ worker[w] # "running" => args[w].out = Rows(args[w].lo, args[w].hi)

ResultInv ==
    FailuresLast =>
        /\ pc = "join" => \A w \in Workers : w < t => worker[w] # "running"
        /\ pc \in {"combine", "done"} => \A w \in Workers : worker[w] # "running"
        /\ pc = "combine" => acc = Rows(0, Upto(t))
        /\ pc = "done" => acc = Rows(0, n)

ParInv == TypeOK /\ CallerInv /\ ThreadInv /\ ChunkInv /\ ResultInv

(* The chunks are runs of rows, each starting where the one before ends.    *)
LEMMA ChunkFacts ==
    ASSUME n \in Nat, k \in Nat \ {0}, NEW u \in 0..(k - 1)
    PROVE  /\ u * (n \div k) \in Nat
           /\ ChunkEnd(u) \in Nat
           /\ u * (n \div k) <= ChunkEnd(u)
           /\ Upto(u) = u * (n \div k)
           /\ Upto(u + 1) = ChunkEnd(u)
  <1> DEFINE q == n \div k
  <1>1. q \in Nat /\ k * q <= n
    BY DivFacts
  <1> HIDE DEF q
  <1>2. u \in Nat /\ u + 1 \in Nat /\ u <= u + 1 /\ u <= k /\ k \in Nat
    OBVIOUS
  <1>3. u * q \in Nat /\ u * q <= (u + 1) * q
    BY <1>1, <1>2, ProductMonotone
  <1>4. u * q <= k * q /\ k * q \in Nat /\ (u + 1) * q \in Nat
    BY <1>1, <1>2, ProductMonotone
  <1>5. u * q <= n
    BY <1>1, <1>3, <1>4
  <1>6. u # k /\ (u = k - 1 <=> u + 1 = k)
    OBVIOUS
  <1> QED
    BY <1>1, <1>3, <1>4, <1>5, <1>6 DEF ChunkEnd, Upto, q

(* The ranges of the caller's variables while the call is under way.        *)
LEMMA CounterRanges ==
    ASSUME ParInv, UnderWay
    PROVE  /\ n \in Nat /\ k \in Nat \ {0} /\ t \in Nat /\ spawned \in Nat
           /\ k >= 2 /\ k <= MaxThreads /\ t <= k /\ spawned <= k
           /\ MaxThreads \in Nat /\ MaxRows \in Nat
           /\ t < k => t \in Workers /\ t \in 0..(k - 1)
  <1>1. n \in 0..MaxRows /\ k \in 0..MaxThreads /\ t \in 0..MaxThreads /\ spawned \in 0..MaxThreads
    BY DEF ParInv, TypeOK
  <1>2. k >= 2 /\ t <= k /\ spawned <= k
    BY DEF ParInv, CallerInv
  <1>3. MaxThreads \in Nat /\ MaxRows \in Nat
    BY ParAssumption
  <1> QED
    BY <1>1, <1>2, <1>3 DEF Workers

(* The invariant holds of a call about to be made.                          *)
LEMMA ParInvInit == Init => ParInv
  <1> SUFFICES ASSUME Init PROVE ParInv
    OBVIOUS
  <1>1. /\ n \in 0..MaxRows /\ k = 0 /\ pc = "call" /\ t = 0 /\ spawned = 0 /\ acc = <<>>
        /\ th = [w \in Workers |-> FALSE]
        /\ args = [w \in Workers |-> [lo |-> 0, hi |-> 0, out |-> <<Junk>>]]
        /\ worker = [w \in Workers |-> "none"]
    BY DEF Init
  <1>2. 0 \in 0..MaxThreads /\ <<Junk>> \in Seq(Int) /\ <<>> \in Seq(Int)
    BY ParAssumption DEF Junk
  <1>3. TypeOK
    BY <1>1, <1>2 DEF TypeOK
  <1>4. CallerInv /\ ResultInv
    BY <1>1 DEF CallerInv, ResultInv, UnderWay
  <1>5. ThreadInv
    BY <1>1 DEF ThreadInv, UnderWay
  <1>6. ChunkInv
    BY <1>1 DEF ChunkInv, UnderWay
  <1> QED
    BY <1>3, <1>4, <1>5, <1>6 DEF ParInv

(* A started worker.                                                        *)
LEMMA SpawnStep == ParInv /\ Spawn => ParInv'
  <1> SUFFICES ASSUME ParInv, Spawn PROVE ParInv'
    OBVIOUS
  <1>1. /\ pc = "spawn" /\ pc' = "spawn" /\ t < k /\ t' = t + 1 /\ spawned' = spawned + 1
        /\ n' = n /\ k' = k /\ acc' = acc
        /\ args' = [args EXCEPT ![t] = Chunk(t)]
        /\ th' = [th EXCEPT ![t] = TRUE]
        /\ worker' = [worker EXCEPT ![t] = "running"]
    BY DEF Spawn, Advance
  <1>2. UnderWay
    BY <1>1 DEF UnderWay
  <1>3. /\ n \in Nat /\ k \in Nat \ {0} /\ t \in Nat /\ spawned \in Nat
        /\ k >= 2 /\ k <= MaxThreads /\ MaxThreads \in Nat /\ MaxRows \in Nat
        /\ t \in Workers /\ t \in 0..(k - 1)
    BY <1>1, <1>2, CounterRanges
  <1>4. spawned <= t /\ acc = <<>>
    BY <1>1 DEF ParInv, CallerInv
  <1>5. t * (n \div k) \in Nat /\ ChunkEnd(t) \in Nat /\ t * (n \div k) <= ChunkEnd(t)
    BY <1>3, ChunkFacts
  <1>6. /\ th \in [Workers -> BOOLEAN]
        /\ args \in [Workers -> [lo : Int, hi : Int, out : Seq(Int)]]
        /\ worker \in [Workers -> {"none", "running", "exited"}]
        /\ n \in 0..MaxRows /\ k \in 0..MaxThreads /\ acc \in Seq(Int)
    BY DEF ParInv, TypeOK
  <1>7. <<Junk>> \in Seq(Int)
    BY DEF Junk
  <1>8. /\ \A w \in Workers : args'[w] = IF w = t THEN Chunk(t) ELSE args[w]
        /\ \A w \in Workers : th'[w] = IF w = t THEN TRUE ELSE th[w]
        /\ \A w \in Workers : worker'[w] = IF w = t THEN "running" ELSE worker[w]
    BY <1>1, <1>6
  <1>9. /\ Chunk(t).lo = t * (n \div k) /\ Chunk(t).hi = ChunkEnd(t)
        /\ Chunk(t) \in [lo : Int, hi : Int, out : Seq(Int)]
    BY <1>5, <1>7 DEF Chunk
  <1>10. t' \in 0..MaxThreads /\ spawned' \in 0..MaxThreads
    BY <1>1, <1>3, <1>4
  <1>11. TypeOK'
    BY <1>1, <1>6, <1>9, <1>10 DEF TypeOK
  <1>12. t' <= k' /\ spawned' <= t' /\ spawned' <= k' /\ k' >= 2
    BY <1>1, <1>3, <1>4
  <1>13. CallerInv'
    BY <1>1, <1>4, <1>12 DEF CallerInv
  <1>14. ThreadInv'
    <2>1. \A w \in Workers : th'[w] <=> worker'[w] # "none"
      BY <1>8 DEF ParInv, ThreadInv
    <2>2. \A w \in Workers : w >= t + 1 => w >= t /\ w # t
      BY <1>3 DEF Workers
    <2>3. \A w \in Workers : w >= t => ~th[w]
      BY <1>1, <1>2 DEF ParInv, ThreadInv, Sent
    <2>4. \A w \in Workers : (UnderWay /\ w >= Sent)' => ~th'[w]
      BY <1>1, <1>8, <2>2, <2>3 DEF Sent
    <2>5. ASSUME FailuresLast', NEW w \in Workers, w >= spawned'
          PROVE  ~th'[w]
      <3>1. \A v \in 0..spawned : th'[v]
        BY <2>5, <1>1, <1>3 DEF FailuresLast
      <3>2. \A v \in 0..spawned : v \in Workers /\ v <= t
        BY <1>3, <1>4 DEF Workers
      <3>3. spawned \in 0..spawned /\ \A v \in 0..(spawned - 1) : v \in 0..spawned /\ v # t
        BY <1>3, <1>4
      <3>4. \A v \in 0..(spawned - 1) : th[v]
        BY <3>1, <3>2, <3>3, <1>8
      <3>5. \A v \in Workers : v >= spawned => ~th[v]
        BY <3>4 DEF ParInv, ThreadInv, FailuresLast
      <3>6. spawned = t
        <4>1. spawned >= spawned
          BY <1>3
        <4>2. ~th[spawned] /\ th'[spawned] /\ spawned \in Workers
          BY <3>1, <3>2, <3>3, <3>5, <4>1
        <4> QED
          BY <4>2, <1>8
      <3>7. w # t /\ w >= spawned
        BY <2>5, <3>6, <1>1, <1>3 DEF Workers
      <3> QED
        BY <3>5, <3>7, <1>8
    <2> QED
      BY <2>1, <2>4, <2>5, <1>1 DEF ThreadInv
  <1>15. ChunkInv'
    <2>1. \A w \in Workers : args'[w].lo \in Nat /\ args'[w].hi \in Nat /\ args'[w].lo <= args'[w].hi
      BY <1>5, <1>8, <1>9 DEF ParInv, ChunkInv
    <2>2. \A w \in Workers : w < t + 1 => w = t \/ w < t
      BY <1>3 DEF Workers
    <2>3. \A w \in Workers : w < t =>
              /\ args[w].lo = w * (n \div k)
              /\ args[w].hi = ChunkEnd(w)
              /\ worker[w] # "running" => args[w].out = Rows(args[w].lo, args[w].hi)
      BY <1>1, <1>2 DEF ParInv, ChunkInv, Sent
    <2>4. \A w \in Workers : ChunkEnd(w)' = ChunkEnd(w)
      BY <1>1 DEF ChunkEnd
    <2>5. \A w \in Workers : w < t + 1 =>
              /\ args'[w].lo = w * (n \div k)
              /\ args'[w].hi = ChunkEnd(w)
              /\ worker'[w] # "running" => args'[w].out = Rows(args'[w].lo, args'[w].hi)
      BY <1>8, <1>9, <2>2, <2>3
    <2> QED
      BY <1>1, <2>1, <2>4, <2>5 DEF ChunkInv, Sent, Rows
  <1>16. ResultInv'
    BY <1>1 DEF ResultInv
  <1> QED
    BY <1>11, <1>13, <1>14, <1>15, <1>16 DEF ParInv

(* A chunk the caller folds itself.                                         *)
LEMMA SpawnFailsStep == ParInv /\ SpawnFails => ParInv'
  <1> SUFFICES ASSUME ParInv, SpawnFails PROVE ParInv'
    OBVIOUS
  <1> DEFINE c == [Chunk(t) EXCEPT !.out = Rows(Chunk(t).lo, Chunk(t).hi)]
  <1>1. /\ pc = "spawn" /\ pc' = "spawn" /\ t < k /\ t' = t + 1 /\ spawned' = spawned
        /\ n' = n /\ k' = k /\ acc' = acc /\ th' = th /\ worker' = worker
        /\ args' = [args EXCEPT ![t] = c]
    BY DEF SpawnFails, Advance
  <1>2. UnderWay
    BY <1>1 DEF UnderWay
  <1>3. /\ n \in Nat /\ k \in Nat \ {0} /\ t \in Nat /\ spawned \in Nat
        /\ k >= 2 /\ k <= MaxThreads /\ MaxThreads \in Nat /\ MaxRows \in Nat
        /\ t \in Workers /\ t \in 0..(k - 1)
    BY <1>1, <1>2, CounterRanges
  <1>4. spawned <= t /\ acc = <<>>
    BY <1>1 DEF ParInv, CallerInv
  <1>5. t * (n \div k) \in Nat /\ ChunkEnd(t) \in Nat /\ t * (n \div k) <= ChunkEnd(t)
    BY <1>3, ChunkFacts
  <1>6. /\ th \in [Workers -> BOOLEAN]
        /\ args \in [Workers -> [lo : Int, hi : Int, out : Seq(Int)]]
        /\ worker \in [Workers -> {"none", "running", "exited"}]
        /\ n \in 0..MaxRows /\ k \in 0..MaxThreads /\ spawned \in 0..MaxThreads /\ acc \in Seq(Int)
    BY DEF ParInv, TypeOK
  <1>7. Rows(t * (n \div k), ChunkEnd(t)) \in Seq(Int)
    BY <1>5, RowsType
  <1>8. /\ c.lo = t * (n \div k) /\ c.hi = ChunkEnd(t) /\ c.out = Rows(c.lo, c.hi)
        /\ c \in [lo : Int, hi : Int, out : Seq(Int)]
    BY <1>5, <1>7 DEF Chunk
  <1> HIDE DEF c
  <1>9. \A w \in Workers : args'[w] = IF w = t THEN c ELSE args[w]
    BY <1>1, <1>6
  <1>10. t' \in 0..MaxThreads
    BY <1>1, <1>3
  <1>11. TypeOK'
    BY <1>1, <1>6, <1>8, <1>10 DEF TypeOK
  <1>12. t' <= k' /\ spawned' <= t' /\ spawned' <= k' /\ k' >= 2
    BY <1>1, <1>3, <1>4
  <1>13. CallerInv'
    BY <1>1, <1>4, <1>12 DEF CallerInv
  <1>14. ThreadInv'
    <2>1. \A w \in Workers : w >= t + 1 => w >= t
      BY <1>3 DEF Workers
    <2>2. \A w \in Workers : w >= t => ~th[w]
      BY <1>1, <1>2 DEF ParInv, ThreadInv, Sent
    <2>3. FailuresLast' = FailuresLast
      BY <1>1 DEF FailuresLast
    <2> QED
      BY <1>1, <2>1, <2>2, <2>3 DEF ParInv, ThreadInv, Sent
  <1>15. ChunkInv'
    <2>1. \A w \in Workers : args'[w].lo \in Nat /\ args'[w].hi \in Nat /\ args'[w].lo <= args'[w].hi
      BY <1>5, <1>8, <1>9 DEF ParInv, ChunkInv
    <2>2. \A w \in Workers : w < t + 1 => w = t \/ w < t
      BY <1>3 DEF Workers
    <2>3. \A w \in Workers : w < t =>
              /\ args[w].lo = w * (n \div k)
              /\ args[w].hi = ChunkEnd(w)
              /\ worker[w] # "running" => args[w].out = Rows(args[w].lo, args[w].hi)
      BY <1>1, <1>2 DEF ParInv, ChunkInv, Sent
    <2>4. \A w \in Workers : ChunkEnd(w)' = ChunkEnd(w)
      BY <1>1 DEF ChunkEnd
    <2>5. \A w \in Workers : w < t + 1 =>
              /\ args'[w].lo = w * (n \div k)
              /\ args'[w].hi = ChunkEnd(w)
              /\ worker'[w] # "running" => args'[w].out = Rows(args'[w].lo, args'[w].hi)
      BY <1>1, <1>8, <1>9, <2>2, <2>3
    <2> QED
      BY <1>1, <2>1, <2>4, <2>5 DEF ChunkInv, Sent, Rows
  <1>16. ResultInv'
    BY <1>1 DEF ResultInv
  <1> QED
    BY <1>11, <1>13, <1>14, <1>15, <1>16 DEF ParInv

(* A worker that finishes, at any point of the call.                        *)
LEMMA WorkStep == ASSUME ParInv, NEW v \in Workers, Work(v) PROVE ParInv'
  <1> DEFINE r == Rows(args[v].lo, args[v].hi)
  <1>1. /\ worker[v] = "running" /\ worker' = [worker EXCEPT ![v] = "exited"]
        /\ args' = [args EXCEPT ![v].out = r]
        /\ n' = n /\ k' = k /\ pc' = pc /\ t' = t /\ spawned' = spawned /\ th' = th /\ acc' = acc
    BY DEF Work
  <1>2. args[v].lo \in Nat /\ args[v].hi \in Nat /\ args[v].lo <= args[v].hi
    BY DEF ParInv, ChunkInv
  <1>3. r \in Seq(Int)
    BY <1>2, RowsType
  <1>4. /\ th \in [Workers -> BOOLEAN]
        /\ args \in [Workers -> [lo : Int, hi : Int, out : Seq(Int)]]
        /\ worker \in [Workers -> {"none", "running", "exited"}]
    BY DEF ParInv, TypeOK
  <1>5. /\ \A w \in Workers : args'[w].lo = args[w].lo /\ args'[w].hi = args[w].hi
        /\ \A w \in Workers : args'[w].out = IF w = v THEN r ELSE args[w].out
        /\ \A w \in Workers : worker'[w] = IF w = v THEN "exited" ELSE worker[w]
    BY <1>1, <1>4
  <1>6. args' \in [Workers -> [lo : Int, hi : Int, out : Seq(Int)]]
    BY <1>1, <1>3, <1>4
  <1>7. worker' \in [Workers -> {"none", "running", "exited"}]
    BY <1>1, <1>4
  <1>8. TypeOK'
    BY <1>1, <1>6, <1>7 DEF ParInv, TypeOK
  <1>9. UnderWay' = UnderWay /\ Sent' = Sent /\ FailuresLast' = FailuresLast
    BY <1>1 DEF UnderWay, Sent, FailuresLast
  <1>10. CallerInv'
    BY <1>1, <1>9 DEF ParInv, CallerInv
  <1>11. ThreadInv'
    BY <1>1, <1>5, <1>9 DEF ParInv, ThreadInv
  <1>12. ChunkInv'
    <2>1. \A w \in Workers : ChunkEnd(w)' = ChunkEnd(w)
      BY <1>1 DEF ChunkEnd
    <2>2. \A w \in Workers : args'[w].lo \in Nat /\ args'[w].hi \in Nat /\ args'[w].lo <= args'[w].hi
      BY <1>5 DEF ParInv, ChunkInv
    <2>3. ASSUME UnderWay, NEW w \in Workers, w < Sent
          PROVE  /\ args'[w].lo = w * (n \div k)
                 /\ args'[w].hi = ChunkEnd(w)
                 /\ worker'[w] # "running" => args'[w].out = Rows(args'[w].lo, args'[w].hi)
      <3>1. /\ args[w].lo = w * (n \div k)
            /\ args[w].hi = ChunkEnd(w)
            /\ worker[w] # "running" => args[w].out = Rows(args[w].lo, args[w].hi)
        BY <2>3 DEF ParInv, ChunkInv
      <3> QED
        BY <1>5, <3>1
    <2> QED
      BY <1>1, <1>9, <2>1, <2>2, <2>3 DEF ChunkInv, Rows
  <1>13. ResultInv'
    <2>1. \A w \in Workers : worker[w] # "running" => worker'[w] # "running"
      BY <1>5
    <2>2. Rows(0, Upto(t))' = Rows(0, Upto(t)) /\ Rows(0, n)' = Rows(0, n)
      BY <1>1 DEF Rows, Upto
    <2> QED
      BY <1>1, <1>9, <2>1, <2>2 DEF ParInv, ResultInv
  <1> QED
    BY <1>8, <1>10, <1>11, <1>12, <1>13 DEF ParInv

(* The caller's steps that touch no chunk and no thread.                    *)
LEMMA CallerOnly ==
    ASSUME ParInv, UnderWay' => UnderWay /\ Sent' = Sent, pc' # "call",
           n' = n, k' = k, spawned' = spawned, th' = th, args' = args, worker' = worker
    PROVE  ThreadInv' /\ ChunkInv' /\ FailuresLast' = FailuresLast
  <1>1. FailuresLast' = FailuresLast
    BY DEF FailuresLast
  <1>2. ThreadInv'
    BY <1>1 DEF ParInv, ThreadInv
  <1>3. \A w \in Workers : ChunkEnd(w)' = ChunkEnd(w)
    BY DEF ChunkEnd
  <1>4. ChunkInv'
    BY <1>3 DEF ParInv, ChunkInv, Rows
  <1> QED
    BY <1>1, <1>2, <1>4

(* The rest of TypeOK when only the caller moves.                           *)
LEMMA CallerType ==
    ASSUME ParInv, n' = n, k' = k, spawned' = spawned, th' = th, args' = args, worker' = worker,
           pc' \in {"call", "spawn", "join", "combine", "done", "blocked", "crashed"},
           t' \in 0..MaxThreads, acc' \in Seq(Int)
    PROVE  TypeOK'
  BY DEF ParInv, TypeOK

(* The number of chunks is at least one and fits the two arrays.            *)
LEMMA NThreadsRange ==
    ASSUME NEW rows \in Nat, NEW cpus \in Nat
    PROVE  NThreads(rows, cpus) \in 1..MaxThreads
  <1>1. rows \div PerThread \in Nat /\ MaxThreads \in Nat \ {0}
    BY ParAssumption, DivFacts
  <1> DEFINE d == rows \div PerThread
  <1> HIDE DEF d
  <1>2. d \in Nat
    BY <1>1 DEF d
  <1>3. ByWork(rows) = IF d < 1 THEN 1 ELSE d
    BY DEF ByWork, d
  <1> QED
    BY <1>1, <1>2, <1>3 DEF NThreads, Smaller

(* The entry: no rows, a serial fold, or the start of the spawn loop.       *)
LEMMA CallStep == ASSUME ParInv, NEW cpus \in 0..(MaxThreads + 1), Call(cpus) PROVE ParInv'
  <1>1. /\ pc = "call" /\ k' = NThreads(n, cpus)
        /\ \/ n <= 0 /\ pc' = "done" /\ acc' = Rows(0, n)
           \/ k' <= 1 /\ pc' = "done" /\ acc' = Rows(0, n)
           \/ ~(k' <= 1) /\ pc' = "spawn" /\ acc' = acc
        /\ n' = n /\ t' = t /\ spawned' = spawned /\ th' = th /\ args' = args /\ worker' = worker
    BY DEF Call
  <1>2. /\ n \in 0..MaxRows /\ t = 0 /\ spawned = 0 /\ acc = <<>> /\ MaxRows \in Nat /\ MaxThreads \in Nat
        /\ th \in [Workers -> BOOLEAN]
        /\ args \in [Workers -> [lo : Int, hi : Int, out : Seq(Int)]]
        /\ worker \in [Workers -> {"none", "running", "exited"}]
    BY <1>1, ParAssumption DEF ParInv, TypeOK, CallerInv
  <1>3. n \in Nat /\ cpus \in Nat
    BY <1>2
  <1>4. k' \in 1..MaxThreads
    BY <1>1, <1>3, NThreadsRange
  <1>5. Rows(0, n) \in Seq(Int)
    BY <1>3, RowsType
  <1>6. k' \in 0..MaxThreads /\ t' \in 0..MaxThreads /\ spawned' \in 0..MaxThreads
    BY <1>1, <1>2, <1>4
  <1>7. acc' \in Seq(Int) /\ pc' \in {"done", "spawn"}
    <2>1. acc \in Seq(Int)
      BY DEF ParInv, TypeOK
    <2> QED
      BY <1>1, <1>5, <2>1
  <1>8. TypeOK'
    BY <1>1, <1>2, <1>6, <1>7 DEF TypeOK
  <1>9. pc' = "spawn" => acc' = <<>> /\ k' >= 2 /\ t' <= k' /\ spawned' <= k' /\ spawned' <= t'
    BY <1>1, <1>2, <1>4
  <1>10. CallerInv'
    BY <1>7, <1>9 DEF CallerInv, UnderWay
  <1>11. \A w \in Workers : ~th[w] /\ worker[w] = "none"
    BY <1>1 DEF ParInv, ThreadInv
  <1>12. ThreadInv'
    BY <1>1, <1>11 DEF ThreadInv
  <1>13. \A w \in Workers : ~(w < 0)
    BY <1>2 DEF Workers
  <1>14. UnderWay' => Sent' = 0
    BY <1>1, <1>2, <1>7 DEF Sent, UnderWay
  <1>15. ChunkInv'
    BY <1>1, <1>13, <1>14 DEF ParInv, ChunkInv
  <1>16. Rows(0, n)' = Rows(0, n)
    BY <1>1 DEF Rows
  <1>17. ResultInv'
    BY <1>1, <1>7, <1>11, <1>16 DEF ResultInv
  <1> QED
    BY <1>8, <1>10, <1>12, <1>15, <1>17 DEF ParInv

(* The spawn loop ends.                                                     *)
LEMMA SpawnEndStep == ParInv /\ SpawnEnd => ParInv'
  <1> SUFFICES ASSUME ParInv, SpawnEnd PROVE ParInv'
    OBVIOUS
  <1>1. /\ pc = "spawn" /\ pc' = "join" /\ t = k /\ t' = 0
        /\ n' = n /\ k' = k /\ spawned' = spawned /\ th' = th /\ args' = args
        /\ worker' = worker /\ acc' = acc
    BY DEF SpawnEnd
  <1>2. UnderWay /\ Sent' = Sent
    BY <1>1 DEF UnderWay, Sent
  <1>3. k \in Nat /\ k >= 2 /\ spawned <= k /\ 0 <= k /\ 0 \in 0..MaxThreads
    BY <1>2, CounterRanges
  <1>4. acc = <<>> /\ acc \in Seq(Int)
    BY <1>1 DEF ParInv, CallerInv, TypeOK
  <1>5. TypeOK'
    BY <1>1, <1>3, <1>4, CallerType
  <1>6. CallerInv'
    BY <1>1, <1>3, <1>4 DEF CallerInv
  <1>7. ThreadInv' /\ ChunkInv'
    BY <1>1, <1>2, CallerOnly
  <1>8. \A w \in Workers : ~(w < 0)
    BY ParAssumption DEF Workers
  <1>9. ResultInv'
    BY <1>1, <1>8 DEF ResultInv
  <1> QED
    BY <1>5, <1>6, <1>7, <1>9 DEF ParInv

(* A join, of a thread or of an array entry that holds none.                *)
LEMMA JoinStep == ParInv /\ (Join \/ JoinGarbage) => ParInv'
  <1> SUFFICES ASSUME ParInv, Join \/ JoinGarbage PROVE ParInv'
    OBVIOUS
  <1>1. /\ pc = "join" /\ t < spawned
        /\ n' = n /\ k' = k /\ spawned' = spawned /\ th' = th /\ args' = args
        /\ worker' = worker /\ acc' = acc
        /\ \/ t' = t + 1 /\ pc' = pc /\ th[t] /\ worker[t] = "exited"
           \/ ~th[t] /\ t' = t + 1 /\ pc' = pc
           \/ ~th[t] /\ t' = t /\ pc' \in {"blocked", "crashed"}
    BY DEF Join, JoinGarbage, Advance, Joins
  <1>2. UnderWay
    BY <1>1 DEF UnderWay
  <1>3. /\ k \in Nat /\ k >= 2 /\ spawned <= k /\ t \in Nat /\ spawned \in Nat
        /\ k <= MaxThreads /\ MaxThreads \in Nat /\ t <= k
    BY <1>2, CounterRanges
  <1>4. acc = <<>> /\ acc \in Seq(Int)
    BY <1>1 DEF ParInv, CallerInv, TypeOK
  <1>5. t' \in 0..MaxThreads /\ t' <= k
    BY <1>1, <1>3
  <1>6. TypeOK'
    BY <1>1, <1>4, <1>5, CallerType
  <1>7. CallerInv'
    BY <1>1, <1>3, <1>4, <1>5 DEF CallerInv, UnderWay
  <1>8. UnderWay' => Sent' = Sent
    BY <1>1 DEF UnderWay, Sent
  <1>9. ThreadInv' /\ ChunkInv' /\ FailuresLast' = FailuresLast
    BY <1>1, <1>2, <1>8, CallerOnly
  <1>10. ResultInv'
    <2>1. FailuresLast => th[t]
      BY <1>1, <1>3 DEF FailuresLast
    <2>2. \A w \in Workers : w < t + 1 => w < t \/ w = t
      BY <1>3 DEF Workers
    <2>3. FailuresLast => \A w \in Workers : w < t => worker[w] # "running"
      BY <1>1 DEF ParInv, ResultInv
    <2> QED
      BY <1>1, <1>9, <2>1, <2>2, <2>3 DEF ResultInv
  <1> QED
    BY <1>6, <1>7, <1>9, <1>10 DEF ParInv

(* All joins done: no worker is left running.                               *)
LEMMA JoinEndStep == ParInv /\ JoinEnd => ParInv'
  <1> SUFFICES ASSUME ParInv, JoinEnd PROVE ParInv'
    OBVIOUS
  <1>1. /\ pc = "join" /\ pc' = "combine" /\ t >= spawned /\ t' = 0
        /\ n' = n /\ k' = k /\ spawned' = spawned /\ th' = th /\ args' = args
        /\ worker' = worker /\ acc' = acc
    BY DEF JoinEnd, Joins
  <1>2. UnderWay /\ Sent' = Sent
    BY <1>1 DEF UnderWay, Sent
  <1>3. /\ k \in Nat \ {0} /\ n \in Nat /\ k >= 2 /\ spawned <= k /\ t \in Nat /\ spawned \in Nat
        /\ 0 <= k /\ 0 \in 0..(k - 1) /\ 0 \in 0..MaxThreads
    BY <1>2, CounterRanges
  <1>4. acc = <<>> /\ acc \in Seq(Int)
    BY <1>1 DEF ParInv, CallerInv, TypeOK
  <1>5. TypeOK'
    BY <1>1, <1>3, <1>4, CallerType
  <1>6. CallerInv'
    BY <1>1, <1>3 DEF CallerInv
  <1>7. ThreadInv' /\ ChunkInv' /\ FailuresLast' = FailuresLast
    BY <1>1, <1>2, CallerOnly
  <1>8. ASSUME FailuresLast, NEW w \in Workers PROVE worker[w] # "running"
    <2>1. w < t \/ w >= spawned
      BY <1>1, <1>3 DEF Workers
    <2>2. w < t => worker[w] # "running"
      BY <1>1, <1>8 DEF ParInv, ResultInv
    <2>3. w >= spawned => ~th[w]
      BY <1>8 DEF ParInv, ThreadInv
    <2>4. ~th[w] => worker[w] = "none"
      BY DEF ParInv, ThreadInv
    <2> QED
      BY <2>1, <2>2, <2>3, <2>4
  <1>9. Rows(0, Upto(0)) = <<>>
    <2>1. n \div k \in Nat
      BY <1>3, DivFacts
    <2>2. 0 * (n \div k) = 0 /\ 0 # k
      BY <2>1, <1>3
    <2>3. Upto(0) = 0
      BY <2>2 DEF Upto
    <2>4. Rows(0, 0) \in Seq(Int) /\ Len(Rows(0, 0)) = 0
      BY RowsType
    <2> QED
      BY <2>3, <2>4, EmptySeq
  <1>10. Rows(0, Upto(t))' = Rows(0, Upto(0))
    BY <1>1 DEF Upto, Rows
  <1>11. ResultInv'
    BY <1>1, <1>4, <1>7, <1>8, <1>9, <1>10 DEF ResultInv
  <1> QED
    BY <1>5, <1>6, <1>7, <1>11 DEF ParInv

(* One partial result appended: the rows folded reach the next chunk's end. *)
LEMMA CombineStep == ParInv /\ Combine => ParInv'
  <1> SUFFICES ASSUME ParInv, Combine PROVE ParInv'
    OBVIOUS
  <1>1. /\ pc = "combine" /\ pc' = "combine" /\ t < k /\ t' = t + 1
        /\ n' = n /\ k' = k /\ spawned' = spawned /\ th' = th /\ args' = args
        /\ worker' = worker /\ acc' = acc \o args[t].out
    BY DEF Combine, Advance
  <1>2. UnderWay /\ Sent' = Sent
    BY <1>1 DEF UnderWay, Sent
  <1>3. /\ k \in Nat \ {0} /\ n \in Nat /\ k >= 2 /\ spawned <= k /\ t \in Nat
        /\ k <= MaxThreads /\ MaxThreads \in Nat /\ t \in Workers /\ t \in 0..(k - 1)
    BY <1>1, <1>2, CounterRanges
  <1>4. acc \in Seq(Int) /\ args[t].out \in Seq(Int)
    BY <1>3 DEF ParInv, TypeOK
  <1>5. acc' \in Seq(Int)
    BY <1>1, <1>4, ConcatProperties
  <1>6. t' \in 0..MaxThreads /\ t' <= k
    BY <1>1, <1>3
  <1>7. TypeOK'
    BY <1>1, <1>5, <1>6, CallerType
  <1>8. CallerInv'
    BY <1>1, <1>3, <1>6 DEF CallerInv
  <1>9. ThreadInv' /\ ChunkInv' /\ FailuresLast' = FailuresLast
    BY <1>1, <1>2, CallerOnly
  <1>10. ASSUME FailuresLast PROVE acc' = Rows(0, Upto(t + 1)) /\ \A w \in Workers : worker[w] # "running"
    <2>1. acc = Rows(0, Upto(t)) /\ \A w \in Workers : worker[w] # "running"
      BY <1>1, <1>10 DEF ParInv, ResultInv
    <2>2. Upto(t) = t * (n \div k) /\ Upto(t + 1) = ChunkEnd(t)
          /\ Upto(t) \in Nat /\ Upto(t + 1) \in Nat /\ Upto(t) <= Upto(t + 1)
      BY <1>3, ChunkFacts
    <2>3. args[t].out = Rows(Upto(t), Upto(t + 1))
      BY <1>1, <1>2, <1>3, <2>1, <2>2 DEF ParInv, ChunkInv, Sent
    <2>4. Rows(0, Upto(t)) \o Rows(Upto(t), Upto(t + 1)) = Rows(0, Upto(t + 1))
      BY <2>2, RowsConcat
    <2> QED
      BY <1>1, <2>1, <2>3, <2>4
  <1>11. Rows(0, Upto(t))' = Rows(0, Upto(t + 1))
    BY <1>1 DEF Upto, Rows
  <1>12. ResultInv'
    BY <1>1, <1>9, <1>10, <1>11 DEF ResultInv
  <1> QED
    BY <1>7, <1>8, <1>9, <1>12 DEF ParInv

(* The answer is complete when the last chunk is combined.                  *)
LEMMA ReturnStep == ParInv /\ Return => ParInv'
  <1> SUFFICES ASSUME ParInv, Return PROVE ParInv'
    OBVIOUS
  <1>1. /\ pc = "combine" /\ pc' = "done" /\ t = k /\ t' = t
        /\ n' = n /\ k' = k /\ spawned' = spawned /\ th' = th /\ args' = args
        /\ worker' = worker /\ acc' = acc
    BY DEF Return
  <1>2. acc \in Seq(Int) /\ t \in 0..MaxThreads
    BY DEF ParInv, TypeOK
  <1>3. TypeOK'
    BY <1>1, <1>2, CallerType
  <1>4. CallerInv' /\ ~UnderWay'
    BY <1>1 DEF CallerInv, UnderWay
  <1>5. ThreadInv' /\ ChunkInv' /\ FailuresLast' = FailuresLast
    BY <1>1, <1>4, CallerOnly
  <1>6. Rows(0, n)' = Rows(0, n)
    BY <1>1 DEF Rows
  <1>7. ResultInv'
    BY <1>1, <1>5, <1>6 DEF ParInv, ResultInv, Upto
  <1> QED
    BY <1>3, <1>4, <1>5, <1>7 DEF ParInv

(* Every step keeps the invariant.                                          *)
LEMMA ParInvStep == ParInv /\ [Next]_parVars => ParInv'
  <1> SUFFICES ASSUME ParInv, [Next]_parVars PROVE ParInv'
    OBVIOUS
  <1>1. CASE UNCHANGED parVars
    <2>1. TypeOK' /\ CallerInv'
      BY <1>1 DEF parVars, ParInv, TypeOK, CallerInv, UnderWay, Sent
    <2>2. ThreadInv'
      BY <1>1 DEF parVars, ParInv, ThreadInv, UnderWay, Sent, FailuresLast
    <2>3. ChunkInv'
      BY <1>1 DEF parVars, ParInv, ChunkInv, UnderWay, Sent, ChunkEnd
    <2>4. ResultInv'
      BY <1>1 DEF parVars, ParInv, ResultInv, FailuresLast, Upto
    <2> QED
      BY <2>1, <2>2, <2>3, <2>4 DEF ParInv
  <1>2. CASE \E cpus \in 0..(MaxThreads + 1) : Call(cpus)
    BY <1>2, CallStep
  <1>3. CASE \E w \in Workers : Work(w)
    BY <1>3, WorkStep
  <1>4. CASE Spawn \/ SpawnFails \/ SpawnEnd
    BY <1>4, SpawnStep, SpawnFailsStep, SpawnEndStep
  <1>5. CASE Join \/ JoinGarbage \/ JoinEnd
    BY <1>5, JoinStep, JoinEndStep
  <1>6. CASE Combine \/ Return
    BY <1>6, CombineStep, ReturnStep
  <1> QED
    BY <1>1, <1>2, <1>3, <1>4, <1>5, <1>6 DEF Next, Caller

(* ParInv holds throughout the call.                                        *)
LEMMA ParInvHolds == Spec => []ParInv
  BY ParInvInit, ParInvStep, PTL DEF Spec

-----------------------------------------------------------------------------
(* arche_par_reduce_<T> never indexes outside th[] or args[], whatever the  *)
(* column's length and the machine's number of processors.                  *)
THEOREM ArraysInBounds == Spec => []TypeOK
  <1>1. ParInv => TypeOK
    BY DEF ParInv
  <1> QED
    BY <1>1, ParInvHolds, PTL

(* The caller reads partial results and returns only after every worker     *)
(* has exited and written its own, unless a pthread_create failed before    *)
(* one that succeeded.                                                      *)
THEOREM NoWorkerOutlivesTheCall == Spec => []JoinedBeforeRead
  <1>1. ParInv => JoinedBeforeRead
    <2> SUFFICES ASSUME ParInv, FailuresLast, pc \in {"combine", "done"}
                 PROVE  /\ \A w \in Workers : worker[w] # "running"
                        /\ \A w \in 0..(k - 1) : pc = "combine" => args[w].out = Rows(args[w].lo, args[w].hi)
      BY DEF JoinedBeforeRead
    <2>1. \A w \in Workers : worker[w] # "running"
      BY DEF ParInv, ResultInv
    <2>2. ASSUME pc = "combine", NEW w \in 0..(k - 1) PROVE args[w].out = Rows(args[w].lo, args[w].hi)
      <3>1. UnderWay /\ Sent = k
        BY <2>2 DEF UnderWay, Sent
      <3>2. k \in Nat /\ k <= MaxThreads /\ MaxThreads \in Nat
        BY <3>1, CounterRanges
      <3>3. w \in Workers /\ w < Sent
        BY <3>1, <3>2 DEF Workers
      <3> QED
        BY <2>1, <3>1, <3>3 DEF ParInv, ChunkInv
    <2> QED
      BY <2>1, <2>2
  <1> QED
    BY <1>1, ParInvHolds, PTL

(* The chunks tile the column: what is returned folds every row exactly     *)
(* once and in order, for every length, chunk size and schedule, unless a   *)
(* pthread_create failed before one that succeeded.                         *)
THEOREM ReduceIsExact == Spec => []FoldsEveryRowOnce
  <1>1. ParInv => FoldsEveryRowOnce
    BY DEF ParInv, ResultInv, FoldsEveryRowOnce, FoldsEveryRow
  <1> QED
    BY <1>1, ParInvHolds, PTL

-----------------------------------------------------------------------------
(* No column is wider than the constants monoid_identity emits.             *)
Fits == \A v \in Vals : Lowest <= v /\ v <= Highest

(***************************************************************************)
(* The invariant.  What the call was given and where its loop is.           *)
(***************************************************************************)
GivenOk ==
    /\ op \in Ops
    /\ Count \in Nat /\ DOMAIN cells = 1..Count
    /\ \A r \in 1..Count : IF Free(op) THEN cells[r] = <<<<"own", r>>>> ELSE cells[r] \in Vals
    /\ dead \subseteq 1..Count
    /\ holes \in BOOLEAN /\ (dead # {} => holes)

StageOk ==
    /\ row \in Nat
    /\ call = "none" <=> stage = "idle"
    /\ stage = "lanes" => call = "reduce"
    /\ stage = "rows" => call \in {"reduce", "scan"} /\ row <= Count
    /\ stage = "cores" => call = "cores" /\ row <= Count
    /\ stage \in {"match", "pools"} => call = "expr"
    /\ stage = "done" /\ call # "expr" => row = Count

(* A scan has put the folds into the rows behind it.                        *)
ColumnOk ==
    /\ DOMAIN col = 1..Count
    /\ \A r \in 1..Count :
          IF call = "scan" /\ r <= row /\ r \notin dead THEN IsFoldOfRows(col[r], 1..r \ dead)
          ELSE col[r] = cells[r]

(* Lane l has folded every fourth row from l on.                            *)
LaneRows(l, m) == {r \in 1..m : r % 4 = l % 4}

LanesOk ==
    stage = "lanes" =>
        /\ sum = Identity(op)
        /\ row % 4 = 0 /\ row <= VectorRows
        /\ \A l \in 1..4 : IsFoldOfRows(lane[l], LaneRows(l, row))

RowsOk ==
    /\ stage = "rows" \/ (stage = "done" /\ call \in {"reduce", "scan"}) => IsFoldOfRows(sum, 1..row \ dead)
    /\ stage = "cores" \/ (stage = "done" /\ call = "cores") => IsFoldOfRows(sum, 1..row)

(* The domain lists pools the query matches, each once, and if there is     *)
(* room all the allocated ones met so far.                                  *)
Listed == {archs[i] : i \in DOMAIN archs}

InputOk ==
    call = "expr" => raw \in Matches /\ self \in Vals

DomainOk ==
    call = "expr" =>
        /\ DOMAIN archs = 1..Len(archs) /\ Len(archs) \in Nat
        /\ \A i, j \in DOMAIN archs : archs[i].pool = archs[j].pool => i = j
        /\ stage = "match" =>
              /\ sum = Identity(op) /\ turn = 1
              /\ archs \in Seq(Matched)
              /\ IsFiniteSet(Listed) /\ Cardinality(Listed) = Len(archs)
              /\ archs = <<>> => \A i \in DOMAIN raw : i <= row => ~(raw[i].cap > 0)
              /\ Cardinality(Matched) <= MaxDomain =>
                    \A i \in DOMAIN raw : i <= row /\ raw[i].cap > 0 => raw[i] \in Listed
        /\ stage \in {"pools", "done"} =>
              /\ archs \in Seq(Ranges)
              /\ Cardinality(Matched) <= MaxDomain => Listed = Ranges

(* The rows folded so far: all live ones of the pools before this turn's.   *)
PastRows(ps, d, m, j) == {r \in LiveRows(ps[j]) : j < d \/ (j = d /\ r <= m)}
PastCells(ps, d, m) == UNION {{<<ps[j].pool, r>> : r \in PastRows(ps, d, m, j)} : j \in DOMAIN ps}
PastVals(o, s, ps, d, m) ==
    UNION {{Expr[s][ps[j].col[r]] : r \in IF Free(o) THEN {} ELSE PastRows(ps, d, m, j)} : j \in DOMAIN ps}
PoolsFolded == IsFold(op, sum, PastCells(archs, turn, row), PastVals(op, self, archs, turn, row))

PoolsOk ==
    /\ stage = "pools" => turn \in Nat \ {0} /\ PoolsFolded
    /\ stage = "done" /\ call = "expr" => turn \in Nat /\ turn > Len(archs) /\ PoolsFolded

FoldInv ==
    /\ GivenOk /\ StageOk /\ ColumnOk /\ LanesOk /\ RowsOk /\ InputOk /\ DomainOk /\ PoolsOk

-----------------------------------------------------------------------------
(* Lists of disjoint sets, one behind the other, list their union.          *)
LEMMA ListsJoin ==
    ASSUME NEW S, NEW T, S \cap T = {}, NEW a, NEW b, Lists(a, S), Lists(b, T)
    PROVE  Lists(a \o b, S \cup T)
  <1> DEFINE w == a \o b
             m == Len(a)
             h == Len(b)
  <1>1. a \in Seq(S) /\ b \in Seq(T)
    BY DEF Lists
  <1>2. m \in Nat /\ h \in Nat /\ DOMAIN a = 1..m /\ DOMAIN b = 1..h
    BY <1>1
  <1>3. w \in Seq(S \cup T) /\ Len(w) = m + h
    BY <1>1
  <1>4. /\ DOMAIN w = 1..(m + h)
        /\ \A i \in 1..m : w[i] = a[i] /\ a[i] \in S
        /\ \A i \in 1..h : w[m + i] = b[i] /\ b[i] \in T
    BY <1>1, <1>2, <1>3
  <1> HIDE DEF w, m, h
  <1>5. \A i \in (m + 1)..(m + h) : i - m \in 1..h /\ w[i] = b[i - m] /\ w[i] \in T
    <2> TAKE i \in (m + 1)..(m + h)
    <2>1. i - m \in 1..h /\ m + (i - m) = i
      BY <1>2
    <2> QED
      BY <1>4, <2>1
  <1>6. \A c \in S \cup T : \E i \in 1..(m + h) : w[i] = c
    <2> TAKE c \in S \cup T
    <2>1. CASE c \in S
      <3>1. PICK i \in 1..m : a[i] = c
        BY <1>2, <2>1 DEF Lists
      <3>2. i \in 1..(m + h) /\ w[i] = c
        BY <1>2, <1>4, <3>1
      <3> QED
        BY <3>2
    <2>2. CASE c \in T
      <3>1. PICK i \in 1..h : b[i] = c
        BY <1>2, <2>2 DEF Lists
      <3>2. m + i \in 1..(m + h) /\ w[m + i] = c
        BY <1>2, <1>4, <3>1
      <3> QED
        BY <3>2
    <2> QED
      BY <2>1, <2>2
  <1>7. ASSUME NEW i \in 1..(m + h), NEW j \in 1..(m + h), w[i] = w[j]
        PROVE  i = j
    <2>1. \A x \in 1..(m + h) : x \in 1..m \/ x \in (m + 1)..(m + h)
      BY <1>2
    <2>2. CASE i \in 1..m /\ j \in 1..m
      BY <1>2, <1>4, <1>7, <2>2 DEF Lists
    <2>3. CASE i \in (m + 1)..(m + h) /\ j \in (m + 1)..(m + h)
      <3>1. \A x, y \in 1..h : b[x] = b[y] => x = y
        BY <1>2 DEF Lists
      <3>2. i - m \in 1..h /\ j - m \in 1..h /\ b[i - m] = b[j - m]
        BY <1>5, <1>7, <2>3
      <3>3. i - m = j - m
        BY <3>1, <3>2
      <3> QED
        BY <1>2, <2>3, <3>3
    <2>4. ~(i \in 1..m /\ j \in (m + 1)..(m + h)) /\ ~(j \in 1..m /\ i \in (m + 1)..(m + h))
      BY <1>4, <1>5, <1>7
    <2> QED
      BY <2>1, <2>2, <2>3, <2>4
  <1>8. Lists(w, S \cup T)
    BY <1>3, <1>4, <1>6, <1>7 DEF Lists
  <1> QED
    BY <1>8 DEF w

(* The extremes of two sets give that of their union; the identity is no    *)
(* better than any value.                                                   *)
LEMMA ExtremeJoin ==
    ASSUME Fits, NEW o \in {"min", "max"}, NEW V \in SUBSET Vals, NEW U \in SUBSET Vals,
           NEW a, NEW b, Extreme(o, a, V), Extreme(o, b, U)
    PROVE  Extreme(o, Merge(o, a, b), V \cup U)
  <1> DEFINE z == Merge(o, a, b)
  <1>1. ~Free(o) /\ Vals \subseteq Int /\ Lowest \in Int /\ Highest \in Int
    BY FoldAssumption DEF Free
  <1>2. /\ a \in Int /\ b \in Int
        /\ V # {} => a \in V
        /\ U # {} => b \in U
    BY <1>1 DEF Extreme, Identity
  <1>3. CASE o = "min"
    <2>1. z = IF b < a THEN b ELSE a
      BY <1>1, <1>3 DEF Merge
    <2>2. /\ V = {} => a = Highest
          /\ U = {} => b = Highest
          /\ \A x \in V : a <= x
          /\ \A x \in U : b <= x
          /\ a <= Highest /\ b <= Highest
      BY <1>1, <1>2, <1>3 DEF Extreme, Identity, Fits
    <2>3. CASE V \cup U = {}
      BY <1>1, <1>2, <1>3, <2>1, <2>2, <2>3 DEF Extreme, Identity
    <2>4. CASE V \cup U # {}
      <3>1. z \in V \cup U
        BY <1>1, <1>2, <2>1, <2>2, <2>4
      <3>2. \A x \in V \cup U : z <= x
        BY <1>1, <1>2, <2>1, <2>2
      <3> QED
        BY <1>3, <2>4, <3>1, <3>2 DEF Extreme
    <2> QED
      BY <2>3, <2>4
  <1>4. CASE o = "max"
    <2>1. z = IF b > a THEN b ELSE a
      BY <1>1, <1>4 DEF Merge
    <2>2. /\ V = {} => a = Lowest
          /\ U = {} => b = Lowest
          /\ \A x \in V : a >= x
          /\ \A x \in U : b >= x
          /\ a >= Lowest /\ b >= Lowest
      BY <1>1, <1>2, <1>4 DEF Extreme, Identity, Fits
    <2>3. CASE V \cup U = {}
      BY <1>1, <1>2, <1>4, <2>1, <2>2, <2>3 DEF Extreme, Identity
    <2>4. CASE V \cup U # {}
      <3>1. z \in V \cup U
        BY <1>1, <1>2, <2>1, <2>2, <2>4
      <3>2. \A x \in V \cup U : z >= x
        BY <1>1, <1>2, <2>1, <2>2
      <3> QED
        BY <1>4, <2>4, <3>1, <3>2 DEF Extreme
    <2> QED
      BY <2>3, <2>4
  <1> QED
    BY <1>3, <1>4

(* Combining the folds of disjoint sets of cells gives that of their union. *)
LEMMA FoldJoin ==
    ASSUME Fits, NEW o \in Ops, NEW S, NEW T, S \cap T = {}, NEW V, NEW U,
           ~Free(o) => V \subseteq Vals /\ U \subseteq Vals,
           NEW a, NEW b, IsFold(o, a, S, V), IsFold(o, b, T, U)
    PROVE  IsFold(o, Merge(o, a, b), S \cup T, V \cup U)
  <1>1. CASE Free(o)
    BY <1>1, ListsJoin DEF IsFold, Merge
  <1>2. CASE ~Free(o)
    <2>1. o \in {"min", "max"}
      BY <1>2 DEF Free, Ops
    <2>2. Extreme(o, a, V) /\ Extreme(o, b, U)
      BY <1>2 DEF IsFold
    <2>3. Extreme(o, Merge(o, a, b), V \cup U)
      BY <1>2, <2>1, <2>2, ExtremeJoin
    <2> QED
      BY <1>2, <2>3 DEF IsFold
  <1> QED
    BY <1>1, <1>2

(* The identity is the fold of nothing.                                     *)
LEMMA FoldNothing ==
    ASSUME NEW o
    PROVE  IsFold(o, Identity(o), {}, {})
  BY DEF IsFold, Identity, Lists, Extreme

(* A cell is the fold of itself.                                            *)
LEMMA FoldOne ==
    ASSUME NEW o \in Ops, NEW c, NEW v, NEW x, Free(o) => x = <<c>>, ~Free(o) => x = v,
           ~Free(o) => v \in Vals
    PROVE  IsFold(o, x, {c}, {v})
  <1>1. CASE Free(o)
    <2>1. Lists(<<c>>, {c})
      BY DEF Lists
    <2> QED
      BY <1>1, <2>1 DEF IsFold
  <1>2. CASE ~Free(o)
    <2>1. v \in Int
      BY <1>2, FoldAssumption
    <2> QED
      BY <1>2, <2>1 DEF IsFold, Extreme
  <1> QED
    BY <1>1, <1>2

(* The same for rows of the pool.                                           *)
LEMMA RowsJoin ==
    ASSUME Fits, GivenOk, NEW R \in SUBSET (1..Count), NEW Q \in SUBSET (1..Count), R \cap Q = {},
           NEW a, NEW b, IsFoldOfRows(a, R), IsFoldOfRows(b, Q)
    PROVE  IsFoldOfRows(Merge(op, a, b), R \cup Q)
  <1> DEFINE S == {<<"own", r>> : r \in R}
             T == {<<"own", r>> : r \in Q}
             V == {cells[r] : r \in R}
             U == {cells[r] : r \in Q}
             X == {<<"own", r>> : r \in R \cup Q}
             Y == {cells[r] : r \in R \cup Q}
  <1>1. S \cap T = {}
    OBVIOUS
  <1>2. X = S \cup T /\ Y = V \cup U
    OBVIOUS
  <1>3. op \in Ops /\ (~Free(op) => V \subseteq Vals /\ U \subseteq Vals)
    BY DEF GivenOk
  <1>4. IsFold(op, a, S, V) /\ IsFold(op, b, T, U)
    BY DEF IsFoldOfRows, RowsFold
  <1> HIDE DEF S, T, V, U, X, Y
  <1>5. IsFold(op, Merge(op, a, b), X, Y)
    BY <1>1, <1>2, <1>3, <1>4, FoldJoin
  <1> QED
    BY <1>5 DEF IsFoldOfRows, RowsFold, X, Y

(* A row is the fold of itself, and the identity that of no rows.           *)
LEMMA RowsOne ==
    ASSUME GivenOk, NEW r \in 1..Count
    PROVE  IsFoldOfRows(cells[r], {r})
  <1>1. op \in Ops /\ (Free(op) => cells[r] = <<<<"own", r>>>>) /\ (~Free(op) => cells[r] \in Vals)
    BY DEF GivenOk
  <1>2. IsFold(op, cells[r], {<<"own", r>>}, {cells[r]})
    BY <1>1, FoldOne
  <1>3. {<<"own", q>> : q \in {r}} = {<<"own", r>>} /\ {cells[q] : q \in {r}} = {cells[r]}
    OBVIOUS
  <1> QED
    BY <1>2, <1>3 DEF IsFoldOfRows, RowsFold

LEMMA RowsNothing == IsFoldOfRows(Identity(op), {})
  <1>1. {<<"own", q>> : q \in {}} = {} /\ {cells[q] : q \in {}} = {}
    OBVIOUS
  <1> QED
    BY <1>1, FoldNothing DEF IsFoldOfRows, RowsFold


-----------------------------------------------------------------------------
(* How many rows go through the lanes: a multiple of four, none if a row is *)
(* freed.                                                                   *)
LEMMA VectorFacts ==
    ASSUME GivenOk
    PROVE  /\ VectorRows \in Nat /\ VectorRows <= Count /\ VectorRows % 4 = 0
           /\ VectorRows > 0 => dead = {}
  <1>1. Count \in Nat /\ holes \in BOOLEAN /\ (dead # {} => holes)
    BY DEF GivenOk
  <1>2. (Count \div 4) * 4 \in Nat /\ (Count \div 4) * 4 <= Count /\ ((Count \div 4) * 4) % 4 = 0
    BY <1>1
  <1> QED
    BY <1>1, <1>2 DEF VectorRows, W

(* No loop changes what the call was given.                                 *)
LEMMA GivenKept ==
    ASSUME GivenOk, UNCHANGED given
    PROVE  GivenOk' /\ op' = op /\ cells' = cells /\ dead' = dead /\ holes' = holes /\ Count' = Count
           /\ VectorRows' = VectorRows
  BY DEF GivenOk, given, Count, VectorRows

(* Before the call nothing is folded.                                       *)
LEMMA InitEstablishes ==
    ASSUME FoldInit
    PROVE  FoldInv
  <1>1. op \in Ops /\ dead \subseteq DOMAIN cells /\ holes \in BOOLEAN /\ (dead # {} => holes)
    BY DEF FoldInit
  <1>2. Count \in Nat /\ DOMAIN cells = 1..Count
        /\ \A r \in 1..Count : IF Free(op) THEN cells[r] = <<<<"own", r>>>> ELSE cells[r] \in Vals
    <2>1. cells \in Columns(op)
      BY DEF FoldInit
    <2>2. CASE Free(op)
      <3>1. PICK m \in 0..FoldRows : cells = [r \in 1..m |-> <<<<"own", r>>>>]
        BY <2>1, <2>2 DEF Columns
      <3>2. m \in Nat /\ Len(cells) = m
        BY <3>1, FoldAssumption
      <3> QED
        BY <2>2, <3>1, <3>2 DEF Count
    <2>3. CASE ~Free(op)
      <3>1. PICK m \in 0..ValueRows : cells \in [1..m -> Vals]
        BY <2>1, <2>3 DEF Columns
      <3>2. m \in Nat /\ Len(cells) = m
        BY <3>1, FoldAssumption
      <3> QED
        BY <2>3, <3>1, <3>2 DEF Count
    <2> QED
      BY <2>2, <2>3
  <1>3. GivenOk
    BY <1>1, <1>2 DEF GivenOk
  <1>4. call = "none" /\ stage = "idle" /\ row = 0 /\ col = cells
    BY DEF FoldInit
  <1>5. StageOk /\ LanesOk /\ RowsOk /\ InputOk /\ DomainOk /\ PoolsOk
    BY <1>4 DEF StageOk, LanesOk, RowsOk, InputOk, DomainOk, PoolsOk
  <1>6. ColumnOk
    BY <1>2, <1>4 DEF ColumnOk
  <1> QED
    BY <1>3, <1>5, <1>6 DEF FoldInv

(* A call starts from the folds of nothing.                                 *)
LEMMA EnterKeeps ==
    ASSUME FoldInv, EnterReduce \/ EnterScan \/ EnterCores \/ EnterExpr
    PROVE  FoldInv'
  <1>1. /\ call = "none" /\ row' = 0 /\ UNCHANGED given /\ col' = col
        /\ lane' = [l \in 1..4 |-> Identity(op)] /\ sum' = Identity(op)
        /\ archs' = <<>> /\ turn' = 1
        /\ <<call', stage'>> \in
              {<<"reduce", "lanes">>, <<"scan", "rows">>, <<"cores", "cores">>, <<"expr", "match">>}
        /\ call' = "expr" => raw' \in Matches /\ self' \in Vals
    BY DEF EnterReduce, EnterScan, EnterCores, EnterExpr, Enter, W
  <1>2. GivenOk' /\ op' = op /\ cells' = cells /\ dead' = dead /\ Count' = Count /\ VectorRows' = VectorRows
    BY <1>1, GivenKept DEF FoldInv
  <1>3. Count \in Nat /\ VectorRows \in Nat
    BY VectorFacts DEF FoldInv, GivenOk
  <1>4. StageOk'
    BY <1>1, <1>2, <1>3 DEF StageOk
  <1>5. ColumnOk'
    BY <1>1, <1>2, <1>3 DEF FoldInv, ColumnOk
  <1>6. IsFoldOfRows(Identity(op), {})
    BY RowsNothing
  <1>7. LanesOk'
    <2>1. \A l \in 1..4 : lane'[l] = Identity(op) /\ LaneRows(l, 0) = {}
      BY <1>1 DEF LaneRows
    <2>2. \A l \in 1..4 : RowsFold(op', cells', lane'[l], LaneRows(l, row'))
      BY <1>1, <1>2, <1>6, <2>1 DEF IsFoldOfRows
    <2>3. 0 % 4 = 0
      OBVIOUS
    <2> QED
      BY <1>1, <1>2, <1>3, <2>2, <2>3 DEF LanesOk, IsFoldOfRows
  <1>8. RowsOk'
    <2>1. 1..0 = {} /\ 1..0 \ dead = {}
      OBVIOUS
    <2>2. stage' # "done"
      BY <1>1
    <2> QED
      BY <1>1, <1>2, <1>6, <2>1, <2>2 DEF RowsOk, IsFoldOfRows
  <1>9. InputOk' /\ PoolsOk'
    BY <1>1 DEF InputOk, PoolsOk
  <1>10. DomainOk'
    <2>1. Len(archs') = 0 /\ DOMAIN archs' = {} /\ 1..0 = {} /\ archs' \in Seq(Matched')
      BY <1>1
    <2>2. Listed' = {}
      BY <2>1 DEF Listed
    <2>3. IsFiniteSet({}) /\ Cardinality({}) = 0
      BY FS_EmptySet
    <2>4. raw' \in Matches => \A i \in DOMAIN raw' : ~(i <= 0)
      BY FoldAssumption
    <2> QED
      BY <1>1, <1>2, <2>1, <2>2, <2>3, <2>4 DEF DomainOk
  <1> QED
    BY <1>2, <1>4, <1>5, <1>7, <1>8, <1>9, <1>10 DEF FoldInv

(* Four more rows, one into each lane.                                      *)
LEMMA ChunkKeeps ==
    ASSUME Fits, FoldInv, ChunkTurn
    PROVE  FoldInv'
  <1>1. /\ stage = "lanes" /\ row < VectorRows /\ row' = row + 4
        /\ lane' = [l \in 1..4 |-> Merge(op, lane[l], col[row + l])]
        /\ UNCHANGED given /\ UNCHANGED <<col, call, stage, sum>>
    BY DEF ChunkTurn, W
  <1>2. GivenOk' /\ op' = op /\ cells' = cells /\ dead' = dead /\ Count' = Count /\ VectorRows' = VectorRows
    BY <1>1, GivenKept DEF FoldInv
  <1>3. /\ GivenOk /\ call = "reduce" /\ sum = Identity(op) /\ row \in Nat /\ row % 4 = 0
        /\ \A l \in 1..4 : IsFoldOfRows(lane[l], LaneRows(l, row))
    BY <1>1 DEF FoldInv, StageOk, LanesOk
  <1>4. VectorRows \in Nat /\ VectorRows <= Count /\ VectorRows % 4 = 0 /\ Count \in Nat
    BY <1>3, VectorFacts DEF GivenOk
  <1>5. row + 4 <= VectorRows /\ (row + 4) % 4 = 0 /\ row + 4 \in Nat
    BY <1>1, <1>3, <1>4
  <1>6. StageOk'
    BY <1>1, <1>3, <1>5 DEF StageOk
  <1>7. ColumnOk'
    BY <1>1, <1>2, <1>3 DEF FoldInv, ColumnOk
  <1>8. ASSUME NEW l \in 1..4
        PROVE  IsFoldOfRows(lane'[l], LaneRows(l, row + 4))
    <2>1. row + l \in 1..Count /\ l \in Nat
      BY <1>3, <1>4, <1>5
    <2>2. col[row + l] = cells[row + l]
      BY <1>3, <2>1 DEF FoldInv, ColumnOk
    <2>3. IsFoldOfRows(cells[row + l], {row + l})
      BY <1>3, <2>1, RowsOne
    <2>4. LaneRows(l, row + 4) = LaneRows(l, row) \cup {row + l}
      BY <1>3 DEF LaneRows
    <2>5. LaneRows(l, row) \cap {row + l} = {} /\ LaneRows(l, row) \subseteq 1..Count
      BY <1>3, <1>4, <1>5, <2>1 DEF LaneRows
    <2>6. IsFoldOfRows(Merge(op, lane[l], cells[row + l]), LaneRows(l, row) \cup {row + l})
      BY <1>3, <2>1, <2>3, <2>5, RowsJoin
    <2> QED
      BY <1>1, <2>2, <2>4, <2>6
  <1>9. LanesOk'
    BY <1>1, <1>2, <1>3, <1>5, <1>8 DEF LanesOk, IsFoldOfRows
  <1>10. RowsOk' /\ InputOk' /\ DomainOk' /\ PoolsOk'
    BY <1>1, <1>3 DEF RowsOk, InputOk, DomainOk, PoolsOk
  <1> QED
    BY <1>2, <1>6, <1>7, <1>9, <1>10 DEF FoldInv

(* The four lanes together are the rows before the tail.                    *)
LEMMA HorizontalKeeps ==
    ASSUME Fits, FoldInv, Horizontal
    PROVE  FoldInv'
  <1>1. /\ stage = "lanes" /\ row >= VectorRows /\ row' = VectorRows /\ stage' = "rows"
        /\ sum' = Merge(op, sum, Merge(op, Merge(op, lane[1], lane[2]), Merge(op, lane[3], lane[4])))
        /\ UNCHANGED given /\ UNCHANGED <<col, call>>
    BY DEF Horizontal
  <1>2. GivenOk' /\ op' = op /\ cells' = cells /\ dead' = dead /\ Count' = Count /\ VectorRows' = VectorRows
    BY <1>1, GivenKept DEF FoldInv
  <1>3. VectorRows \in Nat /\ VectorRows <= Count /\ Count \in Nat /\ (VectorRows > 0 => dead = {}) /\ GivenOk
    BY VectorFacts DEF FoldInv, GivenOk
  <1>4. /\ call = "reduce" /\ sum = Identity(op) /\ row = VectorRows
        /\ \A l \in 1..4 : IsFoldOfRows(lane[l], LaneRows(l, row))
    BY <1>1, <1>3 DEF FoldInv, StageOk, LanesOk
  <1> DEFINE L(l) == LaneRows(l, row)
  <1>5. /\ L(1) \in SUBSET (1..Count) /\ L(2) \in SUBSET (1..Count)
        /\ L(3) \in SUBSET (1..Count) /\ L(4) \in SUBSET (1..Count)
    BY <1>3, <1>4 DEF LaneRows
  <1>6. L(1) \cap L(2) = {} /\ L(3) \cap L(4) = {} /\ (L(1) \cup L(2)) \cap (L(3) \cup L(4)) = {}
    BY <1>3, <1>4 DEF LaneRows
  <1>7. (L(1) \cup L(2)) \cup (L(3) \cup L(4)) = 1..row
    BY <1>3, <1>4 DEF LaneRows
  <1>8. IsFoldOfRows(lane[1], L(1)) /\ IsFoldOfRows(lane[2], L(2))
        /\ IsFoldOfRows(lane[3], L(3)) /\ IsFoldOfRows(lane[4], L(4))
    BY <1>4
  <1> HIDE DEF L
  <1>9. IsFoldOfRows(Merge(op, lane[1], lane[2]), L(1) \cup L(2))
    BY <1>3, <1>5, <1>6, <1>8, RowsJoin
  <1>10. IsFoldOfRows(Merge(op, lane[3], lane[4]), L(3) \cup L(4))
    BY <1>3, <1>5, <1>6, <1>8, RowsJoin
  <1>11. L(1) \cup L(2) \in SUBSET (1..Count) /\ L(3) \cup L(4) \in SUBSET (1..Count)
    BY <1>5
  <1> DEFINE P == L(1) \cup L(2)
             Q == L(3) \cup L(4)
             p == Merge(op, lane[1], lane[2])
             q == Merge(op, lane[3], lane[4])
  <1>12. IsFoldOfRows(Merge(op, p, q), 1..row)
    <2>1. /\ P \in SUBSET (1..Count) /\ Q \in SUBSET (1..Count) /\ P \cap Q = {} /\ P \cup Q = 1..row
          /\ IsFoldOfRows(p, P) /\ IsFoldOfRows(q, Q)
      BY <1>6, <1>7, <1>9, <1>10, <1>11
    <2> HIDE DEF P, Q, p, q
    <2>2. IsFoldOfRows(Merge(op, p, q), P \cup Q)
      BY <1>3, <2>1, RowsJoin
    <2> QED
      BY <2>1, <2>2
  <1>13. {} \in SUBSET (1..Count) /\ 1..row \in SUBSET (1..Count) /\ {} \cap 1..row = {} /\ {} \cup 1..row = 1..row
    BY <1>3, <1>4
  <1>14. IsFoldOfRows(sum', 1..row)
    BY <1>1, <1>3, <1>4, <1>12, <1>13, RowsNothing, RowsJoin
  <1>15. 1..row = 1..row \ dead
    BY <1>3, <1>4
  <1>16. RowsOk'
    BY <1>1, <1>2, <1>4, <1>14, <1>15 DEF RowsOk, IsFoldOfRows
  <1>17. StageOk'
    BY <1>1, <1>2, <1>3, <1>4 DEF StageOk
  <1>18. ColumnOk'
    BY <1>1, <1>2, <1>4 DEF FoldInv, ColumnOk
  <1>19. LanesOk' /\ InputOk' /\ DomainOk' /\ PoolsOk'
    BY <1>1, <1>4 DEF LanesOk, InputOk, DomainOk, PoolsOk
  <1> QED
    BY <1>2, <1>16, <1>17, <1>18, <1>19 DEF FoldInv


(* One more row: folded in, unless it is freed.                             *)
LEMMA RowKeeps ==
    ASSUME Fits, FoldInv, RowTurn
    PROVE  FoldInv'
  <1> DEFINE r == row + 1
  <1>1. /\ stage = "rows" /\ row < Count /\ row' = r
        /\ sum' = IF Skip(r) THEN sum ELSE Merge(op, sum, col[r])
        /\ col' = IF call = "scan" /\ ~Skip(r) THEN [col EXCEPT ![r] = sum'] ELSE col
        /\ UNCHANGED given /\ UNCHANGED <<call, stage>>
    BY DEF RowTurn
  <1>2. GivenOk' /\ op' = op /\ cells' = cells /\ dead' = dead /\ Count' = Count
    BY <1>1, GivenKept DEF FoldInv
  <1>3. /\ GivenOk /\ Count \in Nat /\ row \in Nat /\ call \in {"reduce", "scan"}
        /\ IsFoldOfRows(sum, 1..row \ dead)
    BY <1>1 DEF FoldInv, StageOk, RowsOk, GivenOk
  <1>4. r \in 1..Count /\ r \in Nat /\ col[r] = cells[r] /\ DOMAIN col = 1..Count
    <2>1. r \in 1..Count /\ r \in Nat /\ ~(r <= row)
      BY <1>1, <1>3
    <2> QED
      BY <2>1 DEF FoldInv, ColumnOk
  <1>5. Skip(r) <=> r \in dead
    BY <1>3 DEF Skip, GivenOk
  <1>6. IsFoldOfRows(sum', 1..r \ dead)
    <2>1. CASE r \in dead
      <3>1. 1..r \ dead = 1..row \ dead
        BY <1>3, <2>1
      <3> QED
        BY <1>1, <1>3, <1>5, <2>1, <3>1
    <2>2. CASE r \notin dead
      <3> DEFINE R == 1..row \ dead
      <3>1. 1..r \ dead = R \cup {r} /\ R \cap {r} = {} /\ R \in SUBSET (1..Count) /\ {r} \in SUBSET (1..Count)
        BY <1>3, <1>4, <2>2
      <3>2. IsFoldOfRows(cells[r], {r})
        BY <1>3, <1>4, RowsOne
      <3> HIDE DEF r, R
      <3>3. IsFoldOfRows(Merge(op, sum, cells[r]), R \cup {r})
        BY <1>3, <3>1, <3>2, RowsJoin DEF R
      <3> QED
        BY <1>1, <1>4, <1>5, <2>2, <3>1, <3>3
    <2> QED
      BY <2>1, <2>2
  <1>7. RowsOk'
    BY <1>1, <1>2, <1>3, <1>6 DEF RowsOk, IsFoldOfRows
  <1>8. StageOk'
    BY <1>1, <1>2, <1>3 DEF StageOk
  <1>9. ColumnOk'
    <2>1. DOMAIN col' = 1..Count
      BY <1>1, <1>4
    <2>2. ASSUME NEW q \in 1..Count
          PROVE  IF call = "scan" /\ q <= r /\ q \notin dead THEN RowsFold(op, cells, col'[q], 1..q \ dead)
                 ELSE col'[q] = cells[q]
      <3>1. CASE q = r
        <4>1. CASE call = "scan" /\ r \notin dead
          <5>1. col'[r] = sum'
            BY <1>1, <1>4, <1>5, <4>1
          <5> QED
            BY <1>6, <3>1, <4>1, <5>1 DEF IsFoldOfRows
        <4>2. CASE ~(call = "scan" /\ r \notin dead)
          BY <1>1, <1>4, <1>5, <3>1, <4>2
        <4> QED
          BY <4>1, <4>2
      <3>2. CASE q # r
        <4>1. col'[q] = col[q]
          BY <1>1, <1>4, <3>2
        <4>2. q <= r <=> q <= row
          BY <1>3, <3>2
        <4> QED
          BY <4>1, <4>2 DEF FoldInv, ColumnOk, IsFoldOfRows
      <3> QED
        BY <3>1, <3>2
    <2> QED
      BY <1>1, <1>2, <2>1, <2>2 DEF ColumnOk, IsFoldOfRows
  <1>10. LanesOk' /\ InputOk' /\ DomainOk' /\ PoolsOk'
    BY <1>1, <1>3 DEF LanesOk, InputOk, DomainOk, PoolsOk
  <1> QED
    BY <1>2, <1>7, <1>8, <1>9, <1>10 DEF FoldInv

(* The cores fold every row.                                                *)
LEMMA CoresKeeps ==
    ASSUME Fits, FoldInv, CoresTurn
    PROVE  FoldInv'
  <1> DEFINE r == row + 1
  <1>1. /\ stage = "cores" /\ row < Count /\ row' = r
        /\ sum' = Merge(op, sum, col[r])
        /\ UNCHANGED given /\ UNCHANGED <<call, stage, col>>
    BY DEF CoresTurn
  <1>2. GivenOk' /\ op' = op /\ cells' = cells /\ dead' = dead /\ Count' = Count
    BY <1>1, GivenKept DEF FoldInv
  <1>3. /\ GivenOk /\ Count \in Nat /\ row \in Nat /\ call = "cores"
        /\ IsFoldOfRows(sum, 1..row)
    BY <1>1 DEF FoldInv, StageOk, RowsOk, GivenOk
  <1>4. r \in 1..Count /\ r \in Nat /\ col[r] = cells[r] /\ DOMAIN col = 1..Count
    <2>1. r \in 1..Count /\ r \in Nat /\ ~(r <= row)
      BY <1>1, <1>3
    <2> QED
      BY <2>1 DEF FoldInv, ColumnOk
  <1>5. 1..r = 1..row \cup {r} /\ 1..row \cap {r} = {} /\ 1..row \in SUBSET (1..Count) /\ {r} \in SUBSET (1..Count)
    BY <1>3, <1>4
  <1>6. IsFoldOfRows(cells[r], {r})
    BY <1>3, <1>4, RowsOne
  <1>7. IsFoldOfRows(Merge(op, sum, cells[r]), 1..row \cup {r})
    <2> HIDE DEF r
    <2> QED
      BY <1>3, <1>5, <1>6, RowsJoin
  <1>8. RowsOk'
    BY <1>1, <1>2, <1>3, <1>4, <1>5, <1>7 DEF RowsOk, IsFoldOfRows
  <1>9. StageOk'
    BY <1>1, <1>2, <1>3 DEF StageOk
  <1>10. ColumnOk'
    BY <1>1, <1>2, <1>3 DEF FoldInv, ColumnOk
  <1>11. LanesOk' /\ InputOk' /\ DomainOk' /\ PoolsOk'
    BY <1>1, <1>3 DEF LanesOk, InputOk, DomainOk, PoolsOk
  <1> QED
    BY <1>2, <1>8, <1>9, <1>10, <1>11 DEF FoldInv

(* A column fold ends behind the last row.                                  *)
LEMMA LeaveKeeps ==
    ASSUME FoldInv, Leave
    PROVE  FoldInv'
  <1>1. /\ stage \in {"rows", "cores"} /\ row >= Count /\ stage' = "done"
        /\ UNCHANGED given /\ UNCHANGED <<call, col, row, sum>>
    BY DEF Leave
  <1>2. GivenOk' /\ op' = op /\ cells' = cells /\ dead' = dead /\ Count' = Count
    BY <1>1, GivenKept DEF FoldInv
  <1>3. call \in {"reduce", "scan", "cores"} /\ row = Count /\ Count \in Nat
    BY <1>1 DEF FoldInv, StageOk, GivenOk
  <1>4. StageOk' /\ LanesOk' /\ InputOk' /\ DomainOk' /\ PoolsOk'
    BY <1>1, <1>2, <1>3 DEF StageOk, LanesOk, InputOk, DomainOk, PoolsOk
  <1>5. ColumnOk'
    BY <1>1, <1>2 DEF FoldInv, ColumnOk, IsFoldOfRows
  <1>6. RowsOk'
    BY <1>1, <1>2, <1>3 DEF FoldInv, StageOk, RowsOk, IsFoldOfRows
  <1> QED
    BY <1>2, <1>4, <1>5, <1>6 DEF FoldInv


(* What is known of a query's matches.                                      *)
LEMMA MatchFacts ==
    ASSUME NEW m \in Matches
    PROVE  /\ DOMAIN m = 1..Len(m) /\ Len(m) \in Nat
           /\ \A i \in DOMAIN m : m[i] \in FoldPools
           /\ \A i, j \in DOMAIN m : m[i].pool = m[j].pool => m[i] = m[j]
  BY FoldAssumption

(* What is known of the pools folded over: rows, freed rows and values.     *)
LEMMA PoolFacts ==
    ASSUME GivenOk, raw \in Matches, self \in Vals, NEW p \in Ranges
    PROVE  /\ Len(p.col) \in Nat /\ DOMAIN p.col = 1..Len(p.col)
           /\ p.dead \subseteq 1..Len(p.col)
           /\ p.dead # {} => p.holes
           /\ p.holes \in BOOLEAN
           /\ ~Free(op) => \A r \in 1..Len(p.col) : Expr[self][p.col[r]] \in Vals
  <1>1. ~Free(op) => \A v \in Vals : Expr[self][v] \in Vals
    BY FoldAssumption
  <1>2. CASE p = Own
    <2>1. p.col = cells /\ p.dead = dead /\ p.holes = holes
      BY <1>2 DEF Own
    <2> QED
      BY <1>1, <2>1 DEF GivenOk, Count
  <1>3. CASE p \in Matched
    <2>1. p \in FoldPools
      BY <1>3, MatchFacts DEF Matched
    <2>2. p.col \in Seq(Vals) /\ p.dead \subseteq DOMAIN p.col /\ (p.dead # {} => p.holes) /\ p.holes \in BOOLEAN
      BY <2>1 DEF FoldPools
    <2>3. Len(p.col) \in Nat /\ DOMAIN p.col = 1..Len(p.col) /\ \A r \in 1..Len(p.col) : p.col[r] \in Vals
      BY <2>2
    <2> QED
      BY <1>1, <2>2, <2>3
  <1> QED
    BY <1>2, <1>3 DEF Ranges

(* A query matches finitely many pools.                                     *)
LEMMA MatchedFinite ==
    ASSUME raw \in Matches
    PROVE  IsFiniteSet(Matched)
  <1> DEFINE D == {j \in DOMAIN raw : raw[j].cap > 0}
             f == [j \in D |-> raw[j]]
  <1>0. Len(raw) \in Int /\ DOMAIN raw = 1..Len(raw)
    BY MatchFacts
  <1>1. IsFiniteSet(1..Len(raw)) /\ D \in SUBSET (1..Len(raw))
    BY <1>0, FS_Interval
  <1>2. IsFiniteSet(D)
    BY <1>1, FS_Subset
  <1>3. f \in Surjection(D, Matched)
    BY DEF Matched, Surjection
  <1> HIDE DEF D, f
  <1> QED
    BY <1>2, <1>3, FS_Surjection

(* The next match joins the domain unless it is there, is not allocated, or *)
(* there is no room.                                                        *)
LEMMA MatchKeeps ==
    ASSUME FoldInv, MatchTurn
    PROVE  FoldInv'
  <1> DEFINE a == raw[row + 1]
  <1>1. /\ stage = "match" /\ row < Len(raw) /\ row' = row + 1 /\ archs' = NextMatch(a)
        /\ UNCHANGED given /\ UNCHANGED <<col, call, raw, self, stage, sum, turn>>
    BY DEF MatchTurn
  <1>2. GivenOk' /\ op' = op /\ cells' = cells /\ dead' = dead /\ Count' = Count
    BY <1>1, GivenKept DEF FoldInv
  <1>3. call = "expr" /\ raw \in Matches /\ self \in Vals /\ row \in Nat
    BY <1>1 DEF FoldInv, StageOk, InputOk
  <1>4. /\ \A i, j \in DOMAIN archs : archs[i].pool = archs[j].pool => i = j
        /\ sum = Identity(op) /\ turn = 1
        /\ archs \in Seq(Matched)
        /\ IsFiniteSet(Listed) /\ Cardinality(Listed) = Len(archs)
        /\ archs = <<>> => \A i \in DOMAIN raw : i <= row => ~(raw[i].cap > 0)
        /\ Cardinality(Matched) <= MaxDomain =>
              \A i \in DOMAIN raw : i <= row /\ raw[i].cap > 0 => raw[i] \in Listed
    BY <1>1, <1>3 DEF FoldInv, DomainOk
  <1>5. Len(archs) \in Nat /\ DOMAIN archs = 1..Len(archs) /\ Listed \subseteq Matched
    BY <1>4 DEF Listed
  <1>6. DOMAIN raw = 1..Len(raw) /\ Len(raw) \in Nat /\ row + 1 \in DOMAIN raw
    BY <1>1, <1>3, MatchFacts
  <1>7. Matched' = Matched
    BY <1>1 DEF Matched
  <1>8. MaxDomain \in Nat
    BY FoldAssumption
  <1> DEFINE add == a.cap > 0 /\ Len(archs) < MaxDomain /\ \A i \in DOMAIN archs : archs[i].pool # a.pool
  <1>9. a.cap > 0 => a \in Matched
    BY <1>6 DEF Matched
  <1>10. StageOk' /\ LanesOk' /\ RowsOk' /\ InputOk' /\ PoolsOk'
    BY <1>1, <1>3 DEF StageOk, LanesOk, RowsOk, InputOk, PoolsOk
  <1>11. ColumnOk'
    BY <1>1, <1>2, <1>3 DEF FoldInv, ColumnOk
  <1>12. CASE add
    <2>1. archs' = Append(archs, a) /\ a \in Matched
      BY <1>1, <1>9, <1>12 DEF NextMatch
    <2> HIDE DEF a
    <2>2. /\ archs' \in Seq(Matched) /\ Len(archs') = Len(archs) + 1
          /\ DOMAIN archs' = 1..(Len(archs) + 1)
          /\ \A i \in 1..Len(archs) : archs'[i] = archs[i]
          /\ archs'[Len(archs) + 1] = a
      BY <1>4, <1>5, <2>1
    <2>3. \A i \in DOMAIN archs' : i \in 1..Len(archs) \/ i = Len(archs) + 1
      BY <1>5, <2>2
    <2>4. \A i \in 1..Len(archs) : archs[i].pool # a.pool
      BY <1>5, <1>12
    <2>5. \A i, j \in DOMAIN archs' : archs'[i].pool = archs'[j].pool => i = j
      BY <1>4, <1>5, <2>2, <2>3, <2>4
    <2>6. Listed' = Listed \cup {a} /\ a \notin Listed
      BY <1>5, <2>2, <2>3, <2>4 DEF Listed
    <2>7. IsFiniteSet(Listed') /\ Cardinality(Listed') = Len(archs')
      BY <1>4, <2>2, <2>6, FS_AddElement
    <2>8. Cardinality(Matched) <= MaxDomain =>
              \A i \in DOMAIN raw : i <= row + 1 /\ raw[i].cap > 0 => raw[i] \in Listed'
      BY <1>3, <1>4, <1>6, <2>6 DEF a
    <2>9. archs' # <<>>
      BY <1>5, <2>2
    <2>10. DomainOk'
      BY <1>1, <1>2, <1>3, <1>4, <1>5, <1>7, <2>2, <2>5, <2>7, <2>8, <2>9 DEF DomainOk
    <2> QED
      BY <1>2, <1>10, <1>11, <2>10 DEF FoldInv
  <1>13. CASE ~add
    <2>1. archs' = archs
      BY <1>1, <1>13 DEF NextMatch
    <2>2. Listed' = Listed
      BY <2>1 DEF Listed
    <2>3. ASSUME Cardinality(Matched) <= MaxDomain, a.cap > 0
          PROVE  a \in Listed
      <3>1. CASE \E i \in DOMAIN archs : archs[i].pool = a.pool
        <4>1. PICK i \in DOMAIN archs : archs[i].pool = a.pool
          BY <3>1
        <4>2. archs[i] \in Matched
          BY <1>4, <1>5
        <4>3. PICK j \in DOMAIN raw : archs[i] = raw[j]
          BY <4>2 DEF Matched
        <4>4. raw[j] = a
          BY <1>3, <1>6, <4>1, <4>3, MatchFacts
        <4> QED
          BY <4>3, <4>4 DEF Listed
      <3>2. CASE \A i \in DOMAIN archs : archs[i].pool # a.pool
        <4>1. Len(archs) >= MaxDomain
          BY <1>5, <1>8, <1>13, <2>3, <3>2
        <4>2. a \in Matched /\ Listed \in SUBSET Matched
          BY <1>5, <1>9, <2>3
        <4>3. IsFiniteSet(Matched) /\ Cardinality(Matched) \in Nat
          BY <1>3, MatchedFinite, FS_CardinalityType
        <4>4. /\ Cardinality(Listed) <= Cardinality(Matched)
              /\ Cardinality(Matched) = Cardinality(Listed) => Matched = Listed
          BY <4>2, <4>3, FS_Subset
        <4>5. Cardinality(Matched) = Cardinality(Listed)
          BY <1>4, <1>5, <1>8, <2>3, <4>1, <4>3, <4>4
        <4> QED
          BY <4>2, <4>4, <4>5
      <3> QED
        BY <3>1, <3>2
    <2>4. Cardinality(Matched) <= MaxDomain =>
              \A i \in DOMAIN raw : i <= row + 1 /\ raw[i].cap > 0 => raw[i] \in Listed
      <3> SUFFICES ASSUME Cardinality(Matched) <= MaxDomain,
                          NEW i \in DOMAIN raw, i <= row + 1, raw[i].cap > 0
                   PROVE  raw[i] \in Listed
        OBVIOUS
      <3>1. i <= row \/ i = row + 1
        BY <1>3, <1>6
      <3> QED
        BY <1>4, <2>3, <3>1
    <2>5. archs = <<>> => \A i \in DOMAIN raw : i <= row + 1 => ~(raw[i].cap > 0)
      <3> SUFFICES ASSUME archs = <<>>, NEW i \in DOMAIN raw, i <= row + 1
                   PROVE  ~(raw[i].cap > 0)
        OBVIOUS
      <3>1. ~(a.cap > 0)
        BY <1>13, FoldAssumption
      <3>2. i <= row \/ i = row + 1
        BY <1>3, <1>6
      <3> QED
        BY <1>4, <3>1, <3>2
    <2>6. DomainOk'
      BY <1>1, <1>2, <1>3, <1>4, <1>5, <1>7, <2>1, <2>2, <2>4, <2>5 DEF DomainOk
    <2> QED
      BY <1>2, <1>10, <1>11, <2>6 DEF FoldInv
  <1> QED
    BY <1>12, <1>13


-----------------------------------------------------------------------------
(* The cells folded so far, as the loops over pools and rows go on.  ps is  *)
(* the domain: pools of distinct names, their rows numbered from 1.         *)
DomainOf(ps) ==
    /\ Len(ps) \in Nat /\ DOMAIN ps = 1..Len(ps)
    /\ \A i, j \in DOMAIN ps : ps[i].pool = ps[j].pool => i = j
    /\ \A j \in DOMAIN ps : Len(ps[j].col) \in Nat /\ LiveRows(ps[j]) \subseteq 1..Len(ps[j].col)

(* What one row adds.                                                       *)
NewCell(ps, d, r) == <<ps[d].pool, r>>
NewVals(o, s, ps, d, r) == IF Free(o) THEN {} ELSE {Expr[s][ps[d].col[r]]}

(* Membership in the cells and in the values folded so far.                 *)
LEMMA PastCellsOf ==
    ASSUME NEW ps, NEW d, NEW m, NEW c
    PROVE  c \in PastCells(ps, d, m) <=> \E j \in DOMAIN ps : \E r \in PastRows(ps, d, m, j) : c = <<ps[j].pool, r>>
  BY DEF PastCells

LEMMA PastValsOf ==
    ASSUME NEW o, NEW s, NEW ps, NEW d, NEW m, NEW v
    PROVE  v \in PastVals(o, s, ps, d, m)
              <=> ~Free(o) /\ \E j \in DOMAIN ps : \E r \in PastRows(ps, d, m, j) : v = Expr[s][ps[j].col[r]]
  BY DEF PastVals

(* The same rows give the same cells and values.                            *)
LEMMA PastSame ==
    ASSUME NEW o, NEW s, NEW ps, NEW d, NEW m, NEW u, NEW e,
           \A j \in DOMAIN ps : PastRows(ps, d, m, j) = PastRows(ps, u, e, j)
    PROVE  PastCells(ps, d, m) = PastCells(ps, u, e) /\ PastVals(o, s, ps, d, m) = PastVals(o, s, ps, u, e)
  <1>1. \A c : c \in PastCells(ps, d, m) <=> c \in PastCells(ps, u, e)
    BY PastCellsOf
  <1>2. \A v : v \in PastVals(o, s, ps, d, m) <=> v \in PastVals(o, s, ps, u, e)
    BY PastValsOf
  <1> QED
    BY <1>1, <1>2

(* At the first row of the first pool nothing is folded yet.                *)
LEMMA PastStart ==
    ASSUME NEW o, NEW s, NEW ps, DomainOf(ps)
    PROVE  PastCells(ps, 1, 0) = {} /\ PastVals(o, s, ps, 1, 0) = {}
  <1>1. \A j \in DOMAIN ps : PastRows(ps, 1, 0, j) = {}
    BY DEF PastRows, DomainOf
  <1>2. (\A c : c \notin PastCells(ps, 1, 0)) /\ (\A v : v \notin PastVals(o, s, ps, 1, 0))
    BY <1>1, PastCellsOf, PastValsOf
  <1> QED
    BY <1>2

(* Going on to the next pool folds nothing.                                 *)
LEMMA PastPool ==
    ASSUME NEW o, NEW s, NEW ps, DomainOf(ps), NEW d \in 1..Len(ps), NEW m \in Nat, m >= Len(ps[d].col)
    PROVE  PastCells(ps, d + 1, 0) = PastCells(ps, d, m) /\ PastVals(o, s, ps, d + 1, 0) = PastVals(o, s, ps, d, m)
  <1>1. ASSUME NEW j \in DOMAIN ps
        PROVE  PastRows(ps, d + 1, 0, j) = PastRows(ps, d, m, j)
    <2>1. j \in Nat /\ d \in Nat /\ d \in DOMAIN ps /\ Len(ps[d].col) \in Nat
      BY DEF DomainOf
    <2>2. \A r \in LiveRows(ps[j]) : r \in Nat /\ r > 0 /\ r <= Len(ps[j].col) /\ Len(ps[j].col) \in Nat
      BY DEF DomainOf
    <2>3. \A r \in LiveRows(ps[j]) : (j < d + 1 \/ (j = d + 1 /\ r <= 0)) <=> (j < d \/ (j = d /\ r <= m))
      BY <2>1, <2>2
    <2> QED
      BY <2>3 DEF PastRows
  <1> QED
    BY <1>1, PastSame

(* Nor does passing over a freed row.                                       *)
LEMMA PastSkip ==
    ASSUME NEW o, NEW s, NEW ps, DomainOf(ps), NEW d \in 1..Len(ps), NEW m \in Nat, m + 1 \notin LiveRows(ps[d])
    PROVE  PastCells(ps, d, m + 1) = PastCells(ps, d, m) /\ PastVals(o, s, ps, d, m + 1) = PastVals(o, s, ps, d, m)
  <1>1. ASSUME NEW j \in DOMAIN ps
        PROVE  PastRows(ps, d, m + 1, j) = PastRows(ps, d, m, j)
    <2>1. \A r \in LiveRows(ps[j]) : r \in Nat
      BY DEF DomainOf
    <2>2. \A r \in LiveRows(ps[j]) : (j = d /\ r <= m + 1) <=> (j = d /\ r <= m)
      BY <2>1
    <2> QED
      BY <2>2 DEF PastRows
  <1> QED
    BY <1>1, PastSame

(* A live row adds its cell, which was not there, and its value.            *)
LEMMA PastLive ==
    ASSUME NEW o, NEW s, NEW ps, DomainOf(ps), NEW d \in 1..Len(ps), NEW m \in Nat,
           NEW q \in LiveRows(ps[d]), q = m + 1
    PROVE  /\ PastCells(ps, d, q) = PastCells(ps, d, m) \cup {NewCell(ps, d, q)}
           /\ NewCell(ps, d, q) \notin PastCells(ps, d, m)
           /\ PastVals(o, s, ps, d, q) = PastVals(o, s, ps, d, m) \cup NewVals(o, s, ps, d, q)
  <1> DEFINE c == <<ps[d].pool, q>>
             v == Expr[s][ps[d].col[q]]
  <1>1. d \in DOMAIN ps /\ DOMAIN ps = 1..Len(ps)
    BY DEF DomainOf
  <1>2. ASSUME NEW j \in DOMAIN ps, NEW r
        PROVE  r \in PastRows(ps, d, q, j) <=> r \in PastRows(ps, d, m, j) \/ (j = d /\ r = q)
    <2>1. r \in LiveRows(ps[j]) => r \in Nat
      BY DEF DomainOf
    <2>2. r \in LiveRows(ps[j]) => (r <= q <=> r <= m \/ r = q)
      BY <2>1
    <2> QED
      BY <2>2 DEF PastRows
  <1>3. q \notin PastRows(ps, d, m, d)
    BY <1>1 DEF PastRows
  <1>4. \A x : x \in PastCells(ps, d, q) <=> x \in PastCells(ps, d, m) \/ x = c
    BY <1>1, <1>2, PastCellsOf
  <1>5. c \notin PastCells(ps, d, m)
    <2> SUFFICES ASSUME c \in PastCells(ps, d, m) PROVE FALSE
      OBVIOUS
    <2>1. PICK j \in DOMAIN ps : \E r \in PastRows(ps, d, m, j) : c = <<ps[j].pool, r>>
      BY PastCellsOf
    <2>2. PICK r \in PastRows(ps, d, m, j) : c = <<ps[j].pool, r>>
      BY <2>1
    <2>3. ps[j].pool = ps[d].pool /\ r = q
      BY <2>2
    <2>4. j = d
      BY <1>1, <2>3 DEF DomainOf
    <2> QED
      BY <1>3, <2>2, <2>3, <2>4
  <1>6. \A x : x \in PastVals(o, s, ps, d, q) <=> x \in PastVals(o, s, ps, d, m) \/ (~Free(o) /\ x = v)
    BY <1>1, <1>2, PastValsOf
  <1> QED
    BY <1>4, <1>5, <1>6 DEF NewCell, NewVals

(* The domain of a fold is one.                                             *)
LEMMA ArchsAreDomain ==
    ASSUME GivenOk, raw \in Matches, self \in Vals, archs \in Seq(Ranges),
           \A i, j \in DOMAIN archs : archs[i].pool = archs[j].pool => i = j
    PROVE  DomainOf(archs) /\ \A j \in DOMAIN archs : archs[j] \in Ranges
  <1>1. Len(archs) \in Nat /\ DOMAIN archs = 1..Len(archs) /\ \A j \in DOMAIN archs : archs[j] \in Ranges
    OBVIOUS
  <1>2. \A j \in DOMAIN archs : Len(archs[j].col) \in Nat /\ LiveRows(archs[j]) \subseteq 1..Len(archs[j].col)
    BY <1>1, PoolFacts DEF LiveRows
  <1> QED
    BY <1>1, <1>2 DEF DomainOf

(* The values folded are the column type's.                                 *)
LEMMA PastValsFit ==
    ASSUME GivenOk, raw \in Matches, self \in Vals, archs \in Seq(Ranges), NEW d, NEW m
    PROVE  ~Free(op) => PastVals(op, self, archs, d, m) \subseteq Vals
  <1> SUFFICES ASSUME ~Free(op), NEW v \in PastVals(op, self, archs, d, m)
               PROVE  v \in Vals
    OBVIOUS
  <1>1. PICK j \in DOMAIN archs : \E r \in PastRows(archs, d, m, j) : v = Expr[self][archs[j].col[r]]
    BY PastValsOf
  <1>2. PICK r \in PastRows(archs, d, m, j) : v = Expr[self][archs[j].col[r]]
    BY <1>1
  <1>3. archs[j] \in Ranges
    OBVIOUS
  <1>4. r \in DOMAIN archs[j].col
    BY DEF PastRows, LiveRows
  <1> QED
    BY <1>2, <1>3, <1>4, PoolFacts

(* What an expression ranges over does not change under way.                *)
LEMMA RangesKept ==
    ASSUME UNCHANGED given, raw' = raw
    PROVE  Matched' = Matched /\ Own' = Own /\ Ranges' = Ranges
  <1>1. Matched' = Matched
    BY DEF Matched
  <1>2. Own' = Own
    BY DEF Own, given
  <1> QED
    BY <1>1, <1>2 DEF Ranges


(* The domain is complete.                                                  *)
LEMMA DomainKeeps ==
    ASSUME FoldInv, FoldDomain
    PROVE  FoldInv'
  <1>1. /\ stage = "match" /\ row >= Len(raw) /\ row' = 0 /\ stage' = "pools"
        /\ archs' = IF archs = <<>> THEN <<Own>> ELSE archs
        /\ UNCHANGED given /\ UNCHANGED <<col, call, raw, self, sum, turn>>
    BY DEF FoldDomain
  <1>2. GivenOk' /\ op' = op /\ cells' = cells /\ dead' = dead /\ Count' = Count
    BY <1>1, GivenKept DEF FoldInv
  <1>3. call = "expr" /\ raw \in Matches /\ self \in Vals /\ row \in Nat /\ GivenOk
    BY <1>1 DEF FoldInv, StageOk, InputOk
  <1>4. /\ \A i, j \in DOMAIN archs : archs[i].pool = archs[j].pool => i = j
        /\ sum = Identity(op) /\ turn = 1
        /\ archs \in Seq(Matched)
        /\ archs = <<>> => \A i \in DOMAIN raw : i <= row => ~(raw[i].cap > 0)
        /\ Cardinality(Matched) <= MaxDomain =>
              \A i \in DOMAIN raw : i <= row /\ raw[i].cap > 0 => raw[i] \in Listed
    BY <1>1, <1>3 DEF FoldInv, DomainOk
  <1>5. DOMAIN raw = 1..Len(raw) /\ Len(raw) \in Nat
    BY <1>3, MatchFacts
  <1>6. Matched' = Matched /\ Own' = Own /\ Ranges' = Ranges
    BY <1>1, RangesKept
  <1>7. Cardinality(Matched) <= MaxDomain => Matched \subseteq Listed
    BY <1>1, <1>3, <1>4, <1>5 DEF Matched
  <1>8. /\ archs' \in Seq(Ranges)
        /\ \A i, j \in DOMAIN archs' : archs'[i].pool = archs'[j].pool => i = j
        /\ Cardinality(Matched) <= MaxDomain => Listed' = Ranges
    <2>1. CASE archs = <<>>
      <3>1. archs' = <<Own>> /\ DOMAIN archs' = {1} /\ archs'[1] = Own
        BY <1>1, <2>1
      <3>2. Listed' = {Own} /\ Listed = {}
        BY <2>1, <3>1 DEF Listed
      <3>3. Matched = {}
        BY <1>1, <1>3, <1>4, <1>5, <2>1 DEF Matched
      <3>4. Ranges = {Own}
        BY <3>3 DEF Ranges
      <3> QED
        BY <3>1, <3>2, <3>4
    <2>2. CASE archs # <<>>
      <3>1. archs' = archs
        BY <1>1, <2>2
      <3>2. Len(archs) \in Nat /\ DOMAIN archs = 1..Len(archs) /\ Len(archs) # 0
        BY <1>4, <2>2
      <3>3. Listed' = Listed /\ Listed \subseteq Matched /\ Matched # {}
        BY <1>4, <3>1, <3>2 DEF Listed
      <3>4. Ranges = Matched
        BY <3>3 DEF Ranges
      <3> QED
        BY <1>4, <1>7, <3>1, <3>3, <3>4
    <2> QED
      BY <2>1, <2>2
  <1>9. DomainOf(archs') /\ PastCells(archs', 1, 0) = {} /\ PastVals(op, self, archs', 1, 0) = {}
    <2>1. raw' \in Matches /\ self' \in Vals /\ archs' \in Seq(Ranges')
      BY <1>1, <1>3, <1>6, <1>8
    <2>2. DomainOf(archs')
      <3>1. Len(archs') \in Nat /\ DOMAIN archs' = 1..Len(archs') /\ \A j \in DOMAIN archs' : archs'[j] \in Ranges
        BY <1>8
      <3>2. \A j \in DOMAIN archs' :
                Len(archs'[j].col) \in Nat /\ LiveRows(archs'[j]) \subseteq 1..Len(archs'[j].col)
        BY <1>3, <3>1, PoolFacts DEF LiveRows
      <3> QED
        BY <1>8, <3>1, <3>2 DEF DomainOf
    <2> QED
      BY <2>2, PastStart
  <1>10. PoolsOk'
    <2>1. PoolsFolded'
      BY <1>1, <1>2, <1>4, <1>9, FoldNothing DEF PoolsFolded
    <2> QED
      BY <1>1, <1>4, <2>1 DEF PoolsOk
  <1>11. DomainOk'
    <2>1. DOMAIN archs' = 1..Len(archs') /\ Len(archs') \in Nat
      BY <1>8
    <2> QED
      BY <1>1, <1>2, <1>3, <1>6, <1>8, <2>1 DEF DomainOk
  <1>12. StageOk' /\ LanesOk' /\ RowsOk' /\ InputOk'
    BY <1>1, <1>3 DEF StageOk, LanesOk, RowsOk, InputOk
  <1>13. ColumnOk'
    BY <1>1, <1>2, <1>3 DEF FoldInv, ColumnOk
  <1> QED
    BY <1>2, <1>10, <1>11, <1>12, <1>13 DEF FoldInv

(* What every turn over the pools starts from.                              *)
LEMMA PoolsStage ==
    ASSUME FoldInv, stage = "pools", UNCHANGED given, UNCHANGED <<col, call, raw, self, archs>>
    PROVE  /\ GivenOk /\ GivenOk' /\ op' = op /\ self' = self /\ archs' = archs
           /\ call = "expr" /\ raw \in Matches /\ self \in Vals /\ row \in Nat
           /\ turn \in Nat \ {0} /\ PoolsFolded
           /\ archs \in Seq(Ranges) /\ DomainOf(archs) /\ \A j \in DOMAIN archs : archs[j] \in Ranges
           /\ ColumnOk' /\ InputOk' /\ (stage' \in {"pools", "done"} => DomainOk' /\ LanesOk' /\ RowsOk')
           /\ row' \in Nat /\ stage' \in {"pools", "done"} => StageOk'
  <1>1. GivenOk' /\ op' = op /\ cells' = cells /\ dead' = dead /\ Count' = Count
    BY GivenKept DEF FoldInv
  <1>2. /\ GivenOk /\ call = "expr" /\ raw \in Matches /\ self \in Vals /\ row \in Nat
        /\ turn \in Nat \ {0} /\ PoolsFolded
    BY DEF FoldInv, StageOk, InputOk, PoolsOk
  <1>3. /\ archs \in Seq(Ranges)
        /\ \A i, j \in DOMAIN archs : archs[i].pool = archs[j].pool => i = j
        /\ DOMAIN archs = 1..Len(archs) /\ Len(archs) \in Nat
        /\ Cardinality(Matched) <= MaxDomain => Listed = Ranges
    BY <1>2 DEF FoldInv, DomainOk
  <1>4. DomainOf(archs) /\ \A j \in DOMAIN archs : archs[j] \in Ranges
    BY <1>2, <1>3, ArchsAreDomain
  <1>5. Matched' = Matched /\ Own' = Own /\ Ranges' = Ranges
    BY RangesKept
  <1>6. Listed' = Listed
    BY DEF Listed
  <1>7. ColumnOk' /\ InputOk'
    BY <1>1, <1>2 DEF FoldInv, ColumnOk, InputOk
  <1>8. stage' \in {"pools", "done"} => DomainOk' /\ LanesOk' /\ RowsOk'
    BY <1>2, <1>3, <1>5, <1>6 DEF DomainOk, LanesOk, RowsOk
  <1>9. row' \in Nat /\ stage' \in {"pools", "done"} => StageOk'
    BY <1>2 DEF StageOk
  <1> QED
    BY <1>1, <1>2, <1>3, <1>4, <1>7, <1>8, <1>9

(* One more row of a pool: the expression at it is folded in, unless the    *)
(* row is freed.                                                            *)
LEMMA PoolRowKeeps ==
    ASSUME Fits, FoldInv, PoolTurn
    PROVE  FoldInv'
  <1> DEFINE p == archs[turn]
             r == row + 1
  <1>1. /\ stage = "pools" /\ turn <= Len(archs) /\ row < Len(p.col) /\ row' = r
        /\ sum' = IF p.holes /\ r \in p.dead THEN sum ELSE Merge(op, sum, Summand(p, r))
        /\ UNCHANGED given /\ UNCHANGED <<col, call, raw, self, stage, archs, turn>>
    BY DEF PoolTurn
  <1>2. /\ GivenOk /\ GivenOk' /\ op' = op /\ self' = self /\ archs' = archs
        /\ call = "expr" /\ raw \in Matches /\ self \in Vals /\ row \in Nat
        /\ turn \in Nat \ {0} /\ PoolsFolded
        /\ archs \in Seq(Ranges) /\ DomainOf(archs) /\ \A j \in DOMAIN archs : archs[j] \in Ranges
        /\ ColumnOk' /\ InputOk' /\ DomainOk' /\ LanesOk' /\ RowsOk'
        /\ row' \in Nat => StageOk'
    BY <1>1, PoolsStage
  <1>3. turn \in 1..Len(archs) /\ turn \in DOMAIN archs /\ p \in Ranges
    BY <1>1, <1>2 DEF DomainOf
  <1>4. /\ Len(p.col) \in Nat /\ DOMAIN p.col = 1..Len(p.col)
        /\ (p.dead # {} => p.holes) /\ p.holes \in BOOLEAN
        /\ ~Free(op) => \A q \in 1..Len(p.col) : Expr[self][p.col[q]] \in Vals
    BY <1>2, <1>3, PoolFacts
  <1>5. r \in Nat /\ r \in 1..Len(p.col)
    BY <1>1, <1>2, <1>4
  <1>6. r \in LiveRows(p) <=> ~(p.holes /\ r \in p.dead)
    BY <1>4, <1>5 DEF LiveRows
  <1> DEFINE S == PastCells(archs, turn, row)
             V == PastVals(op, self, archs, turn, row)
  <1>7. IsFold(op, sum, S, V)
    BY <1>2 DEF PoolsFolded
  <1>8. IsFold(op, sum', PastCells(archs, turn, r), PastVals(op, self, archs, turn, r))
    <2>1. CASE r \notin LiveRows(p)
      <3>1. PastCells(archs, turn, r) = S /\ PastVals(op, self, archs, turn, r) = V
        BY <1>2, <1>3, <2>1, PastSkip
      <3> QED
        BY <1>1, <1>6, <1>7, <2>1, <3>1
    <2>2. CASE r \in LiveRows(p)
      <3> DEFINE c == <<p.pool, r>>
                 v == Expr[self][p.col[r]]
                 U == IF Free(op) THEN {} ELSE {v}
                 x == Summand(p, r)
      <3>1. /\ PastCells(archs, turn, r) = S \cup {c} /\ c \notin S
            /\ PastVals(op, self, archs, turn, r) = V \cup U
        <4>1. DomainOf(archs) /\ turn \in 1..Len(archs) /\ row \in Nat /\ r \in LiveRows(archs[turn]) /\ r = row + 1
          BY <1>2, <1>3, <2>2
        <4> HIDE DEF r
        <4>2. /\ PastCells(archs, turn, r) = PastCells(archs, turn, row) \cup {NewCell(archs, turn, r)}
              /\ NewCell(archs, turn, r) \notin PastCells(archs, turn, row)
              /\ PastVals(op, self, archs, turn, r)
                    = PastVals(op, self, archs, turn, row) \cup NewVals(op, self, archs, turn, r)
          BY <4>1, PastLive
        <4> QED
          BY <4>2 DEF NewCell, NewVals
      <3>2. (Free(op) => x = <<c>>) /\ (~Free(op) => x = v /\ v \in Vals)
        BY <1>4, <1>5 DEF Summand
      <3>3. op \in Ops /\ (~Free(op) => V \subseteq Vals)
        BY <1>2, PastValsFit DEF GivenOk
      <3>4. sum' = Merge(op, sum, x)
        BY <1>1, <1>6, <2>2
      <3> HIDE DEF c, v, x, S, V, p, r
      <3>5. IsFold(op, x, {c}, {v})
        BY <3>2, <3>3, FoldOne
      <3>6. IsFold(op, x, {c}, U)
        BY <3>5 DEF IsFold
      <3>7. ~Free(op) => U \subseteq Vals
        BY <3>2
      <3>8. S \cap {c} = {}
        BY <3>1
      <3> HIDE DEF U
      <3>9. IsFold(op, Merge(op, sum, x), S \cup {c}, V \cup U)
        BY <1>7, <3>3, <3>6, <3>7, <3>8, FoldJoin
      <3> QED
        BY <3>1, <3>4, <3>9
    <2> QED
      BY <2>1, <2>2
  <1>9. PoolsOk'
    BY <1>1, <1>2, <1>8 DEF PoolsOk, PoolsFolded
  <1> QED
    BY <1>1, <1>2, <1>5, <1>9 DEF FoldInv

(* The last row of a pool is behind: the next pool starts from its first.   *)
LEMMA NextPoolKeeps ==
    ASSUME FoldInv, NextPool
    PROVE  FoldInv'
  <1>1. /\ stage = "pools" /\ turn <= Len(archs) /\ row >= Len(archs[turn].col) /\ row' = 0 /\ turn' = turn + 1
        /\ UNCHANGED given /\ UNCHANGED <<col, call, raw, self, stage, archs, sum>>
    BY DEF NextPool
  <1>2. /\ GivenOk' /\ op' = op /\ self' = self /\ archs' = archs /\ row \in Nat
        /\ turn \in Nat \ {0} /\ PoolsFolded /\ DomainOf(archs)
        /\ ColumnOk' /\ InputOk' /\ DomainOk' /\ LanesOk' /\ RowsOk' /\ StageOk'
    BY <1>1, PoolsStage
  <1>3. turn \in 1..Len(archs)
    BY <1>1, <1>2 DEF DomainOf
  <1>4. /\ PastCells(archs, turn + 1, 0) = PastCells(archs, turn, row)
        /\ PastVals(op, self, archs, turn + 1, 0) = PastVals(op, self, archs, turn, row)
    BY <1>1, <1>2, <1>3, PastPool
  <1>5. PoolsFolded'
    BY <1>1, <1>2, <1>4 DEF PoolsFolded
  <1>6. PoolsOk'
    BY <1>1, <1>2, <1>5 DEF PoolsOk
  <1> QED
    BY <1>2, <1>6 DEF FoldInv

(* An expression fold ends behind the last pool.                            *)
LEMMA LeaveExprKeeps ==
    ASSUME FoldInv, LeaveExpr
    PROVE  FoldInv'
  <1>1. /\ stage = "pools" /\ turn > Len(archs) /\ stage' = "done"
        /\ UNCHANGED given /\ UNCHANGED <<col, call, raw, self, row, turn, archs, sum>>
    BY DEF LeaveExpr
  <1>2. /\ GivenOk' /\ op' = op /\ self' = self /\ archs' = archs /\ row \in Nat
        /\ turn \in Nat \ {0} /\ PoolsFolded
        /\ ColumnOk' /\ InputOk' /\ DomainOk' /\ LanesOk' /\ RowsOk' /\ StageOk'
    BY <1>1, PoolsStage
  <1>3. PoolsFolded'
    BY <1>1, <1>2 DEF PoolsFolded
  <1>4. PoolsOk'
    BY <1>1, <1>2, <1>3 DEF PoolsOk
  <1> QED
    BY <1>2, <1>4 DEF FoldInv

(* A step that changes nothing.                                             *)
LEMMA FoldStutter ==
    ASSUME FoldInv, UNCHANGED foldVars
    PROVE  FoldInv'
  <1>1. GivenOk' /\ op' = op /\ cells' = cells /\ dead' = dead /\ Count' = Count /\ VectorRows' = VectorRows
    BY GivenKept DEF FoldInv, foldVars, given
  <1>2. UNCHANGED <<col, call, raw, self, stage, row, lane, sum, archs, turn>> /\ UNCHANGED given
    BY DEF foldVars, given
  <1>3. StageOk' /\ ColumnOk' /\ LanesOk' /\ RowsOk' /\ InputOk'
    BY <1>1, <1>2 DEF FoldInv, StageOk, ColumnOk, LanesOk, RowsOk, InputOk, IsFoldOfRows
  <1>4. Matched' = Matched /\ Ranges' = Ranges /\ Listed' = Listed
    BY <1>2, RangesKept DEF Listed
  <1>5. DomainOk'
    BY <1>1, <1>2, <1>4 DEF FoldInv, DomainOk
  <1>6. PoolsOk'
    BY <1>1, <1>2 DEF FoldInv, PoolsOk, PoolsFolded
  <1> QED
    BY <1>1, <1>3, <1>5, <1>6 DEF FoldInv

(* The invariant holds throughout.                                          *)
LEMMA FoldInvariant ==
    ASSUME Fits
    PROVE  FoldSpec => []FoldInv
  <1>1. FoldInit => FoldInv
    BY InitEstablishes
  <1>2. FoldInv /\ [FoldNext]_foldVars => FoldInv'
    BY EnterKeeps, ChunkKeeps, HorizontalKeeps, RowKeeps, CoresKeeps, LeaveKeeps, MatchKeeps, DomainKeeps,
       PoolRowKeeps, NextPoolKeeps, LeaveExprKeeps, FoldStutter DEF FoldNext
  <1> QED
    BY <1>1, <1>2, PTL DEF FoldSpec

(* In the end every row of every pool of the domain is behind.              *)
LEMMA FoldedPools ==
    ASSUME FoldInv, stage = "done", call = "expr", Cardinality(Matched) <= MaxDomain
    PROVE  IsFoldOfPools(sum, Ranges)
  <1>1. /\ GivenOk /\ raw \in Matches /\ self \in Vals
        /\ turn \in Nat /\ turn > Len(archs) /\ PoolsFolded
        /\ DOMAIN archs = 1..Len(archs) /\ Len(archs) \in Nat /\ Listed = Ranges
    BY DEF FoldInv, InputOk, PoolsOk, DomainOk
  <1>2. \A j \in DOMAIN archs : PastRows(archs, turn, row, j) = LiveRows(archs[j])
    BY <1>1 DEF PastRows
  <1> DEFINE S == UNION {{<<p.pool, r>> : r \in LiveRows(p)} : p \in Ranges}
             V == UNION {{Expr[self][p.col[r]] : r \in IF Free(op) THEN {} ELSE LiveRows(p)} : p \in Ranges}
  <1>3. \A c : c \in S <=> \E p \in Ranges : \E r \in LiveRows(p) : c = <<p.pool, r>>
    OBVIOUS
  <1>4. \A v : v \in V <=> ~Free(op) /\ \E p \in Ranges : \E r \in LiveRows(p) : v = Expr[self][p.col[r]]
    OBVIOUS
  <1> HIDE DEF S, V
  <1>5. \A p : p \in Ranges <=> \E j \in DOMAIN archs : p = archs[j]
    BY <1>1 DEF Listed
  <1>6. \A c : c \in PastCells(archs, turn, row) <=> c \in S
    BY <1>2, <1>3, <1>5, PastCellsOf
  <1>7. \A v : v \in PastVals(op, self, archs, turn, row) <=> v \in V
    BY <1>2, <1>4, <1>5, PastValsOf
  <1>8. PastCells(archs, turn, row) = S /\ PastVals(op, self, archs, turn, row) = V
    BY <1>6, <1>7
  <1> QED
    BY <1>1, <1>8 DEF IsFoldOfPools, PoolsFolded, S, V

(* Every reduce of a column that is no wider than 32 bits folds each live   *)
(* row once and no freed one, for every number of rows and freed rows, with *)
(* and without lanes (emit_fold), and over every list of pools an           *)
(* expression may range over, up to the room emit_fold_expr has for them.   *)
THEOREM ReduceIsRight ==
    ASSUME Fits
    PROVE  FoldSpec => []ReduceFoldsLiveRows
  <1>1. FoldInv => ReduceFoldsLiveRows
    <2> SUFFICES ASSUME FoldInv, stage = "done"
                 PROVE  /\ call = "reduce" \/ (call = "cores" /\ dead = {}) => IsFoldOfRows(sum, 1..Count \ dead)
                        /\ call = "expr" /\ Cardinality(Matched) <= MaxDomain => IsFoldOfPools(sum, Ranges)
      BY DEF ReduceFoldsLiveRows
    <2>1. call = "reduce" => IsFoldOfRows(sum, 1..Count \ dead)
      BY DEF FoldInv, StageOk, RowsOk
    <2>2. call = "cores" /\ dead = {} => IsFoldOfRows(sum, 1..Count \ dead)
      <3>1. dead = {} => 1..Count \ dead = 1..Count
        OBVIOUS
      <3> QED
        BY <3>1 DEF FoldInv, StageOk, RowsOk
    <2> QED
      BY <2>1, <2>2, FoldedPools
  <1> QED
    BY <1>1, FoldInvariant, PTL

(* Every scan leaves the running fold of the live rows in each live row and *)
(* does not touch a freed one: the loop of emit_fold reads a row before it  *)
(* writes there, whatever it wrote before.                                  *)
THEOREM ScanIsRight ==
    ASSUME Fits
    PROVE  FoldSpec => []ScanIsPrefixFold
  <1>1. FoldInv => ScanIsPrefixFold
    <2> SUFFICES ASSUME FoldInv, stage = "done", call = "scan", NEW r \in 1..Count
                 PROVE  IF r \in dead THEN col[r] = cells[r] ELSE IsFoldOfRows(col[r], 1..r \ dead)
      BY DEF ScanIsPrefixFold
    <2>1. row = Count /\ Count \in Nat /\ r <= row
      BY DEF FoldInv, StageOk, GivenOk
    <2> QED
      BY <2>1 DEF FoldInv, ColumnOk
  <1> QED
    BY <1>1, FoldInvariant, PTL
=============================================================================
