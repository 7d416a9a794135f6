----------------------------- MODULE ParReduce -----------------------------
(***************************************************************************)
(* arche_par_reduce_<T> of runtime/io.c: the column is cut into k chunks,   *)
(* one pthread folds each, the caller joins them and combines the partial   *)
(* results.  A fold is kept in the free monoid: its value is the sequence   *)
(* of the rows folded, so an answer is right for every associative          *)
(* operation exactly when it is 0, 1, .., n-1.                              *)
(***************************************************************************)
EXTENDS Integers, Sequences

CONSTANTS
    MaxRows,        \* bound on n
    MaxThreads,     \* PR_MAX_THREADS: 16
    PerThread       \* PR_MIN_PER_THREAD: 16384

ASSUME ParAssumption ==
    /\ MaxRows \in Nat
    /\ MaxThreads \in Nat \ {0}
    /\ PerThread \in Nat \ {0}

VARIABLES
    n,          \* rows of the column
    k,          \* number of chunks, once chosen
    pc,         \* where the calling thread is
    t,          \* its loop variable
    spawned,    \* how many pthread_create calls succeeded
    th,         \* th[t]: whether the array entry holds a thread
    args,       \* args[t]: the chunk and its partial fold
    worker,     \* worker[t]: "none", "running" or "exited"
    acc         \* the value returned

parVars == <<n, k, pc, t, spawned, th, args, worker, acc>>

Workers == 0..(MaxThreads - 1)
Junk == -1                                  \* an `out` nobody has written
Rows(lo, hi) == [i \in 1..(hi - lo) |-> lo + i - 1]      \* T_fold over [lo, hi)

(* pr_nthreads: one thread per PerThread rows, at most one per processor.   *)
Smaller(a, b) == IF a < b THEN a ELSE b
ByWork(rows) == IF rows \div PerThread < 1 THEN 1 ELSE rows \div PerThread
NThreads(rows, cpus) ==
    Smaller(ByWork(rows), Smaller(IF cpus < 1 THEN 1 ELSE cpus, MaxThreads))

Init ==
    /\ n \in 0..MaxRows
    /\ k = 0 /\ pc = "call" /\ t = 0 /\ spawned = 0
    /\ th = [w \in Workers |-> FALSE]
    /\ args = [w \in Workers |-> [lo |-> 0, hi |-> 0, out |-> <<Junk>>]]
    /\ worker = [w \in Workers |-> "none"]
    /\ acc = <<>>

(* No rows: the identity.  One chunk: fold in the calling thread.           *)
Call(cpus) ==
    /\ pc = "call"
    /\ k' = NThreads(n, cpus)
    /\ IF n <= 0 \/ k' <= 1
       THEN pc' = "done" /\ acc' = Rows(0, n)
       ELSE pc' = "spawn" /\ UNCHANGED acc
    /\ UNCHANGED <<n, t, spawned, th, args, worker>>

ChunkEndUneven(u) == (u + 1) * (n \div k)
ChunkEnd(u) == IF u = k - 1 THEN n ELSE (u + 1) * (n \div k)
Chunk(u) == [lo |-> u * (n \div k), hi |-> ChunkEnd(u), out |-> <<Junk>>]

Advance == t' = t + 1

Spawn ==
    /\ pc = "spawn" /\ t < k
    /\ args' = [args EXCEPT ![t] = Chunk(t)]
    /\ th' = [th EXCEPT ![t] = TRUE]
    /\ worker' = [worker EXCEPT ![t] = "running"]
    /\ spawned' = spawned + 1
    /\ Advance
    /\ UNCHANGED <<n, k, pc, acc>>

(* pthread_create failed: the caller folds this chunk itself.               *)
SpawnFails ==
    /\ pc = "spawn" /\ t < k
    /\ args' = [args EXCEPT ![t] = [Chunk(t) EXCEPT !.out = Rows(Chunk(t).lo, Chunk(t).hi)]]
    /\ Advance
    /\ UNCHANGED <<n, k, pc, spawned, th, worker, acc>>

SpawnEnd ==
    /\ pc = "spawn" /\ t = k
    /\ pc' = "join" /\ t' = 0
    /\ UNCHANGED <<n, k, spawned, th, args, worker, acc>>

(* T_worker                                                                 *)
Work(w) ==
    /\ worker[w] = "running"
    /\ worker' = [worker EXCEPT ![w] = "exited"]
    /\ args' = [args EXCEPT ![w].out = Rows(args[w].lo, args[w].hi)]
    /\ UNCHANGED <<n, k, pc, t, spawned, th, acc>>

(* The joins run over th[0 .. spawned).                                     *)
JoinsAllButLast == spawned - 1
JoinsEveryChunk == k
Joins == spawned

Join ==
    /\ pc = "join" /\ t < Joins
    /\ th[t] /\ worker[t] = "exited"
    /\ Advance
    /\ UNCHANGED <<n, k, pc, spawned, th, args, worker, acc>>

(* Joining an entry no pthread_create filled in is undefined: the call may  *)
(* return an error, block for ever or take the program down.                *)
JoinGarbage ==
    /\ pc = "join" /\ t < Joins
    /\ ~th[t]
    /\ \/ Advance /\ UNCHANGED pc
       \/ pc' \in {"blocked", "crashed"} /\ UNCHANGED t
    /\ UNCHANGED <<n, k, spawned, th, args, worker, acc>>

JoinEnd ==
    /\ pc = "join" /\ t >= Joins
    /\ pc' = "combine" /\ t' = 0
    /\ UNCHANGED <<n, k, spawned, th, args, worker, acc>>

Combine ==
    /\ pc = "combine" /\ t < k
    /\ acc' = acc \o args[t].out
    /\ Advance
    /\ UNCHANGED <<n, k, pc, spawned, th, args, worker>>

Return ==
    /\ pc = "combine" /\ t = k
    /\ pc' = "done"
    /\ UNCHANGED <<n, k, t, spawned, th, args, worker, acc>>

Caller ==
    \/ \E cpus \in 0..(MaxThreads + 1) : Call(cpus)
    \/ Spawn \/ SpawnFails \/ SpawnEnd
    \/ Join \/ JoinGarbage \/ JoinEnd
    \/ Combine \/ Return

Next == Caller \/ \E w \in Workers : Work(w)

(* A started pthread and the caller are both scheduled by the kernel.       *)
Fairness == WF_parVars(Caller) /\ \A w \in Workers : WF_parVars(Work(w))

Spec == Init /\ [][Next]_parVars /\ Fairness

-----------------------------------------------------------------------------
(* Every variable has its type; indexes stay inside the two arrays.         *)
TypeOK ==
    /\ n \in 0..MaxRows /\ k \in 0..MaxThreads
    /\ pc \in {"call", "spawn", "join", "combine", "done", "blocked", "crashed"}
    /\ t \in 0..MaxThreads /\ spawned \in 0..MaxThreads
    /\ th \in [Workers -> BOOLEAN]
    /\ args \in [Workers -> [lo : Int, hi : Int, out : Seq(Int)]]
    /\ worker \in [Workers -> {"none", "running", "exited"}]
    /\ acc \in Seq(Int)

(* Every pthread_create that failed came after all that succeeded: then the *)
(* entries the joins look at are the ones that were filled in.              *)
FailuresLast == \A w \in 0..(spawned - 1) : th[w]

(* The caller reads the partial results, and gives up the stack frame the   *)
(* workers write to, only when no worker is running and every partial       *)
(* result has been written.                                                 *)
JoinedBeforeRead ==
    FailuresLast /\ pc \in {"combine", "done"} =>
        /\ \A w \in Workers : worker[w] # "running"
        /\ \A w \in 0..(k - 1) : pc = "combine" => args[w].out = Rows(args[w].lo, args[w].hi)

(* The answer is the fold of all rows, each once and in order: the chunks   *)
(* tile the column and none is lost, whatever the schedule.                 *)
FoldsEveryRow == pc = "done" => acc = Rows(0, n)

FoldsEveryRowOnce == FailuresLast => FoldsEveryRow

(* The call returns.                                                        *)
Returns == <>(pc = "done" \/ ~FailuresLast)
=============================================================================
