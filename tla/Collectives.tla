---------------------------- MODULE Collectives ----------------------------
(***************************************************************************)
(* The collectives over a pool, as a program meets them: a behaviour is one *)
(* call of sort, of reduce or scan, or of a reduce on the multicore         *)
(* backend.  What IndexSort, ColumnFold and ParReduce say of each holds     *)
(* whichever of them is called.                                             *)
(***************************************************************************)
EXTENDS IndexSort, ColumnFold, ParReduce

(* The weights of binary digits, the column values, an expression over them *)
(* and the identity of max in the instance.                                 *)
SmallWeight == [p \in 0..Digits |-> Radix ^ p]
SmallVals == {-1, 2}
SmallExpr == [x \in SmallVals |-> [v \in SmallVals |-> IF v = x THEN 2 ELSE -1]]
SmallLowest == -9

(* What queries match in it: nothing, pools with and without freed rows,    *)
(* one of them under two names, a shape nobody allocated, and more pools    *)
(* than there is room for.                                                  *)
PoolOf(name, values, freedRows) ==
    [pool |-> name, cap |-> 3, col |-> values, dead |-> freedRows, holes |-> freedRows # {}]
PoolA == PoolOf("A", <<2, -1, 2>>, {2})
PoolB == PoolOf("B", <<-1, 2>>, {})
PoolC == PoolOf("C", <<2>>, {1})
SmallMatches ==
    {<<>>, <<PoolA>>, <<PoolA, PoolB>>, <<PoolB, PoolB, PoolA>>, <<[PoolC EXCEPT !.cap = 0], PoolB>>,
     <<PoolC, PoolA, PoolB>>}

collectiveVars == <<sortVars, foldVars, parVars>>

(* The two components that are not called, as they are between calls.       *)
NoSort ==
    /\ rows = 0 /\ kind = "signed" /\ desc = FALSE /\ freed = {} /\ phase = "done" /\ at = 0 /\ hole = 0
    /\ key = <<>> /\ idx = <<>> /\ moved = <<>> /\ temp = 0

NoFold ==
    /\ op = "+" /\ cells = <<>> /\ col = <<>> /\ dead = {} /\ holes = FALSE
    /\ call = "other" /\ raw = <<>> /\ self = 0 /\ stage = "done" /\ row = 0
    /\ lane = <<>> /\ sum = <<>> /\ archs = <<>> /\ turn = 1

NoThreads ==
    /\ n = 0 /\ k = 0 /\ pc = "done" /\ t = 0 /\ spawned = 0 /\ acc = <<>>
    /\ th = [w \in Workers |-> FALSE]
    /\ args = [w \in Workers |-> [lo |-> 0, hi |-> 0, out |-> <<Junk>>]]
    /\ worker = [w \in Workers |-> "none"]

CollectiveInit ==
    \/ SortInit /\ NoFold /\ NoThreads
    \/ FoldInit /\ NoSort /\ NoThreads
    \/ Init /\ NoSort /\ NoFold

CallSort == SortNext /\ UNCHANGED <<foldVars, parVars>>
CallFold == FoldNext /\ UNCHANGED <<sortVars, parVars>>
CallThreads == Next /\ UNCHANGED <<sortVars, foldVars>>

CollectiveNext == CallSort \/ CallFold \/ CallThreads

(* Fairness is that of the threads: the kernel runs them.                   *)
CollectiveSpec == CollectiveInit /\ [][CollectiveNext]_collectiveVars /\ Fairness
=============================================================================
