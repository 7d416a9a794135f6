----------------------------- MODULE ColumnFold -----------------------------
(***************************************************************************)
(* reduce(op, Pool.col) and scan(op, Pool.col): the loops emit_fold         *)
(* generates, and the call the cores backend makes instead.  A reduce over  *)
(* a pool without holes first folds the 4-aligned prefix into four lanes,   *)
(* combines the lanes, and finishes the tail one row at a time; a pool with *)
(* holes takes the one-row loop from row 0 and skips tombstoned rows.       *)
(* reduce(op, expr) evaluates expr for every row of every pool its columns  *)
(* may come from, beside values of the row the enclosing map is at.         *)
(*                                                                         *)
(* An action is one turn of a loop.  A behaviour picks one pool and one     *)
(* operation and runs it.  Sums and products are kept in the free monoid:   *)
(* their value is the sequence of the cells folded, so that it is right for *)
(* every associative and commutative operation exactly when it lists the    *)
(* right cells, each once.  min and max fold the values themselves.         *)
(***************************************************************************)
EXTENDS Integers, Sequences, FiniteSets

CONSTANTS
    FoldRows,   \* bound on the rows of the pool (its count)
    ValueRows,  \* the same where the column holds values
    Vals,       \* those values
    Lowest,     \* the integer constants monoid_identity emits for max ...
    Highest,    \* ... and for min: -2147483648 and 2147483647
    Matches,    \* what a query may match: sequences of [pool, cap, col, dead, holes]
    MaxDomain,  \* the entries of archs in emit_fold_expr: 16
    Expr,       \* a folded expression: Expr[self][v] of the enclosing map's row and the pool's
    ExprRows    \* bound on the rows of the pool itself when an expression is folded

(* A pool has one canonical name, and holes when a row of it is freed.      *)
FoldPools ==
    {p \in [pool : STRING, cap : Nat, col : Seq(Vals), dead : SUBSET Nat, holes : BOOLEAN] :
        p.dead \subseteq DOMAIN p.col /\ (p.dead # {} => p.holes)}

ASSUME FoldAssumption ==
    /\ FoldRows \in Nat /\ ValueRows \in Nat /\ ExprRows \in Nat
    /\ Vals \subseteq Int /\ Expr \in [Vals -> [Vals -> Vals]]
    /\ Lowest \in Int /\ Highest \in Int
    /\ MaxDomain \in Nat \ {0}
    /\ \A raw \in Matches :
          /\ \A i \in DOMAIN raw : raw[i] \in FoldPools
          /\ DOMAIN raw = 1..Len(raw) /\ Len(raw) \in Nat
          /\ \A i, j \in DOMAIN raw : raw[i].pool = raw[j].pool => raw[i] = raw[j]

VARIABLES
    op,         \* the operation
    cells,      \* the column as the call finds it, rows 1..Count
    col,        \* the column
    dead,       \* the tombstoned rows
    holes,      \* what emit_pool_has_holes answers
    call,       \* the collective: "none", "reduce", "scan", "cores" or "expr"
    raw,        \* an expression's matches ...
    self,       \* ... and its value of the enclosing map's row
    stage,      \* the loop it is in
    row,        \* the loop's counter
    lane,       \* the vector accumulator
    sum,        \* the accumulator, in the end the result
    archs,      \* the pools an expression ranges over
    turn        \* the one of them being folded

foldVars == <<op, cells, col, dead, holes, call, raw, self, stage, row, lane, sum, archs, turn>>
given == <<op, cells, dead, holes>>     \* no loop changes these

W == 4
Ops == {"+", "*", "min", "max"}
Free(o) == o \in {"+", "*"}
Count == Len(cells)

Identity(o) == IF Free(o) THEN <<>> ELSE IF o = "min" THEN Highest ELSE Lowest

Merge(o, a, b) ==
    IF Free(o) THEN a \o b
    ELSE IF o = "min" THEN (IF b < a THEN b ELSE a)
    ELSE (IF b > a THEN b ELSE a)

Columns(o) ==
    IF Free(o) THEN {[r \in 1..m |-> <<<<"own", r>>>>] : m \in 0..FoldRows}
    ELSE UNION {[1..m -> Vals] : m \in 0..ValueRows}

(* A static pool's free_count starts at 1, so a pool without holes may also *)
(* be said to have some; after a sort the answer is exact.                  *)
FoldInit ==
    /\ op \in Ops
    /\ cells \in Columns(op) /\ col = cells
    /\ dead \in SUBSET DOMAIN cells
    /\ holes \in BOOLEAN /\ (dead # {} => holes)
    /\ call = "none" /\ raw = <<>> /\ self = 0
    /\ stage = "idle" /\ row = 0
    /\ lane = [l \in 1..W |-> Identity(op)] /\ sum = Identity(op)
    /\ archs = <<>> /\ turn = 1

(* A call starts with the identity in every accumulator.                    *)
Enter(name, loop) ==
    /\ call = "none"
    /\ call' = name /\ stage' = loop /\ row' = 0
    /\ lane' = [l \in 1..W |-> Identity(op)] /\ sum' = Identity(op)
    /\ archs' = <<>> /\ turn' = 1
    /\ UNCHANGED <<given, col>>

EnterReduce == Enter("reduce", "lanes") /\ UNCHANGED <<raw, self>>
EnterScan == Enter("scan", "rows") /\ UNCHANGED <<raw, self>>

(* Rows 1..VectorRows are folded in lanes: none when a row may be dead.     *)
VectorRowsUnguarded == (Count \div W) * W
VectorRows == IF holes THEN 0 ELSE (Count \div W) * W

ChunkTurn ==
    /\ stage = "lanes" /\ row < VectorRows
    /\ lane' = [l \in 1..W |-> Merge(op, lane[l], col[row + l])]
    /\ row' = row + W
    /\ UNCHANGED <<given, col, call, raw, self, stage, sum, archs, turn>>

(* The lanes are combined; the tail starts at VectorRows.                   *)
Horizontal ==
    /\ stage = "lanes" /\ row >= VectorRows
    /\ sum' = Merge(op, sum, Merge(op, Merge(op, lane[1], lane[2]), Merge(op, lane[3], lane[4])))
    /\ stage' = "rows" /\ row' = VectorRows
    /\ UNCHANGED <<given, col, call, raw, self, lane, archs, turn>>

(* The one-row loop skips a row that is dead when holes are possible; a     *)
(* scan writes the running fold back.                                       *)
SkipNothing(r) == FALSE
Skip(r) == holes /\ r \in dead

RowTurn ==
    /\ stage = "rows" /\ row < Count
    /\ sum' = IF Skip(row + 1) THEN sum ELSE Merge(op, sum, col[row + 1])
    /\ col' = IF call = "scan" /\ ~Skip(row + 1) THEN [col EXCEPT ![row + 1] = sum'] ELSE col
    /\ row' = row + 1
    /\ UNCHANGED <<given, call, raw, self, stage, lane, archs, turn>>

(* ARCHE_REDUCE_CORES: arche_par_reduce over all of [0, count), which       *)
(* ParReduce shows to fold the rows in their order.                         *)
EnterCores == Enter("cores", "cores") /\ UNCHANGED <<raw, self>>

CoresTurn ==
    /\ stage = "cores" /\ row < Count
    /\ sum' = Merge(op, sum, col[row + 1])
    /\ row' = row + 1
    /\ UNCHANGED <<given, col, call, raw, self, stage, lane, archs, turn>>

Leave ==
    /\ stage \in {"rows", "cores"} /\ row >= Count
    /\ stage' = "done"
    /\ UNCHANGED <<given, col, call, raw, self, row, lane, sum, archs, turn>>

EnterExpr ==
    /\ Count <= ExprRows
    /\ raw' \in Matches /\ self' \in Vals
    /\ Enter("expr", "match")

(* The fold domain: the pools of the matching archetypes that are           *)
(* allocated, each once however many names it has, as far as there is room; *)
(* without any, the pool of the column itself.                              *)
Own == [pool |-> "own", cap |-> 1, col |-> cells, dead |-> dead, holes |-> holes]
NextMatch(a) ==
    IF a.cap > 0 /\ Len(archs) < MaxDomain /\ \A i \in DOMAIN archs : archs[i].pool # a.pool
    THEN Append(archs, a) ELSE archs

MatchTurn ==
    /\ stage = "match" /\ row < Len(raw)
    /\ archs' = NextMatch(raw[row + 1])
    /\ row' = row + 1
    /\ UNCHANGED <<given, col, call, raw, self, stage, lane, sum, turn>>

FoldDomain ==
    /\ stage = "match" /\ row >= Len(raw)
    /\ archs' = IF archs = <<>> THEN <<Own>> ELSE archs
    /\ stage' = "pools" /\ row' = 0
    /\ UNCHANGED <<given, col, call, raw, self, lane, sum, turn>>

(* The expression at row r of pool p.                                       *)
Summand(p, r) == IF Free(op) THEN <<<<p.pool, r>>>> ELSE Expr[self][p.col[r]]

PoolTurn ==
    /\ stage = "pools" /\ turn <= Len(archs)
    /\ LET p == archs[turn]
       IN  /\ row < Len(p.col)
           /\ sum' = IF p.holes /\ row + 1 \in p.dead THEN sum ELSE Merge(op, sum, Summand(p, row + 1))
    /\ row' = row + 1
    /\ UNCHANGED <<given, col, call, raw, self, stage, lane, archs, turn>>

NextPool ==
    /\ stage = "pools" /\ turn <= Len(archs)
    /\ row >= Len(archs[turn].col)
    /\ turn' = turn + 1 /\ row' = 0
    /\ UNCHANGED <<given, col, call, raw, self, stage, lane, sum, archs>>

LeaveExpr ==
    /\ stage = "pools" /\ turn > Len(archs)
    /\ stage' = "done"
    /\ UNCHANGED <<given, col, call, raw, self, row, lane, sum, archs, turn>>

FoldNext ==
    \/ EnterReduce \/ ChunkTurn \/ Horizontal
    \/ EnterScan \/ RowTurn
    \/ EnterCores \/ CoresTurn \/ Leave
    \/ EnterExpr \/ MatchTurn \/ FoldDomain \/ PoolTurn \/ NextPool \/ LeaveExpr
FoldSpec == FoldInit /\ [][FoldNext]_foldVars

-----------------------------------------------------------------------------
(* v lists the members of S, each once.                                     *)
Lists(v, S) ==
    /\ v \in Seq(S)
    /\ \A c \in S : \E i \in DOMAIN v : v[i] = c
    /\ \A i, j \in DOMAIN v : v[i] = v[j] => i = j

(* v is the least or the greatest value of V, and the identity of none.     *)
Extreme(o, v, V) ==
    IF V = {} THEN v = Identity(o)
    ELSE v \in V /\ \A x \in V : IF o = "min" THEN v <= x ELSE v >= x

(* v is the fold of the cells S, whose values are V.                        *)
IsFold(o, v, S, V) == IF Free(o) THEN Lists(v, S) ELSE Extreme(o, v, V)
RowsFold(o, column, v, R) == IsFold(o, v, {<<"own", r>> : r \in R}, {column[r] : r \in R})
IsFoldOfRows(v, R) == RowsFold(op, cells, v, R)

(* What an expression ranges over: the live rows of every allocated pool    *)
(* the query matches, or of the pool itself when it matches none.           *)
Matched == {raw[i] : i \in {j \in DOMAIN raw : raw[j].cap > 0}}
Ranges == IF Matched = {} THEN {Own} ELSE Matched
LiveRows(p) == DOMAIN p.col \ p.dead
IsFoldOfPools(v, P) ==
    IsFold(op, v, UNION {{<<p.pool, r>> : r \in LiveRows(p)} : p \in P},
                  UNION {{Expr[self][p.col[r]] : r \in IF Free(op) THEN {} ELSE LiveRows(p)} : p \in P})

(* reduce folds every live row once and no freed row, whichever way the     *)
(* column is split between the lanes and the tail, and for an expression    *)
(* whichever names the pools go by, as long as they are no more than        *)
(* emit_fold_expr has room for; the cores backend, which looks at no        *)
(* tombstone, agrees with it on a pool without holes.  min and max of a     *)
(* pool with a live row are the least and the greatest value of a live row: *)
(* the identity never shows.                                                *)
ReduceFoldsLiveRows ==
    stage = "done" =>
        /\ call = "reduce" \/ (call = "cores" /\ dead = {}) => IsFoldOfRows(sum, 1..Count \ dead)
        /\ call = "expr" /\ Cardinality(Matched) <= MaxDomain => IsFoldOfPools(sum, Ranges)

(* scan leaves in each live row the fold of the live rows up to it, and     *)
(* does not touch a freed row.                                              *)
ScanIsPrefixFold ==
    stage = "done" /\ call = "scan" =>
        \A r \in 1..Count :
            IF r \in dead THEN col[r] = cells[r] ELSE IsFoldOfRows(col[r], 1..r \ dead)
=============================================================================
