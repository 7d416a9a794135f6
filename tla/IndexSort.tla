----------------------------- MODULE IndexSort -----------------------------
(***************************************************************************)
(* The code emit_sort generates for sort(Pool.key[, desc]): build a         *)
(* live-first index array, sort its live prefix (insertion for few rows,    *)
(* LSD radix for integer keys, heapsort for float keys), then permute every *)
(* column in place by following cycles.  A behaviour picks one pool and one *)
(* key column and runs these three phases, an action being one turn of a    *)
(* loop.  Arrays start at 0.                                                *)
(* The reset of count, free_count and the generations that ends the emitted *)
(* code is part of the action Sort of module Pool.                          *)
(***************************************************************************)
EXTENDS Integers, FiniteSets

CONSTANTS
    SortRows,   \* rows of the pool (its count)
    Digits,     \* digits of a key: width / 8 in the code
    Radix,      \* values of a digit: 256 in the code
    Weight,     \* Weight[p]: what digit p counts, 2^(8p); Weight[Digits] is the number of key words
    NaN,        \* a float key that compares with nothing
    PerRow      \* elements per row of a column: 1 for a scalar column

ASSUME SortAssumption ==
    /\ SortRows \in Nat \ {0} /\ Digits \in Nat \ {0} /\ PerRow \in Nat \ {0}
    /\ Radix \in Nat \ {0} /\ Radix % 2 = 0
    /\ Weight \in [0..Digits -> Nat \ {0}]
    /\ Weight[0] = 1 /\ \A p \in 1..Digits : Weight[p] = Weight[p - 1] * Radix
    /\ NaN \notin Int

VARIABLES
    rows,       \* count
    key,        \* the key column
    kind,       \* "signed", "unsigned" or "float"
    desc,       \* descending order asked for
    freed,      \* the tombstoned rows
    phase,      \* the loop the sort is in
    at,         \* the counter of that loop
    hole,       \* the counter of the loop inside it
    idx,        \* the index array
    moved,      \* one column, element i holding i before the sort
    temp        \* the element taken out of it while a cycle is followed

input == <<rows, key, kind, desc, freed>>
loopVars == <<phase, at, hole>>
sortVars == <<input, loopVars, idx, moved, temp>>

Span == Weight[Digits]
Half == Span \div 2
IntKeys == 0..(Span - 1)                \* unsigned words
SignedKeys == (-Half)..(Half - 1)
FloatKeys == {-1, 0, 1, NaN}

Slots == 0..(rows - 1)

SortInit ==
    /\ rows \in 0..SortRows
    /\ kind \in {"signed", "unsigned", "float"}
    /\ key \in [Slots -> CASE kind = "signed" -> SignedKeys
                          [] kind = "unsigned" -> IntKeys
                          [] OTHER -> FloatKeys]
    /\ desc \in BOOLEAN
    /\ freed \in SUBSET Slots
    /\ phase = "start" /\ at = 0 /\ hole = 0
    /\ idx = [i \in Slots |-> i]
    /\ moved = [i \in 0..(rows * PerRow - 1) |-> i] /\ temp = 0

Goto(loop, i) == phase' = loop /\ at' = i /\ hole' = i

-----------------------------------------------------------------------------
(* emit_sort_before: strict order with the row index as the tie-break.      *)
(* Ordered float comparisons are false when a key is NaN.                   *)
BeforeUnstable(a, b) ==
    /\ key[a] # NaN /\ key[b] # NaN
    /\ IF desc THEN key[a] > key[b] ELSE key[a] < key[b]

Before(a, b) ==
    /\ key[a] # NaN /\ key[b] # NaN
    /\ \/ IF desc THEN key[a] > key[b] ELSE key[a] < key[b]
       \/ key[a] = key[b] /\ a < b

Swap(i, j) == idx' = [idx EXCEPT ![i] = idx[j], ![j] = idx[i]]

(* Two passes over [0, count): live slots first, tombstoned ones after.     *)
Nth(S, k) == CHOOSE s \in S : Cardinality({t \in S : t < s}) = k

LiveCount == Cardinality(Slots \ freed)

LiveFirst ==
    [i \in Slots |-> IF i < LiveCount THEN Nth(Slots \ freed, i)
                                     ELSE Nth(freed, i - LiveCount)]

Build == phase = "start" /\ Goto("built", 0) /\ idx' = LiveFirst /\ UNCHANGED <<input, moved, temp>>

(* Fewer than 32 live rows take the insertion sort, more the algorithm for  *)
(* the kind of the key; integers of 128 bits go the way of floats.  Row     *)
(* counts here are too small to tell: any of them may run, so that a pool   *)
(* must sort the same way on both sides of the limit.                       *)
SortFew == phase = "built" /\ Goto("insert", 1) /\ UNCHANGED <<input, idx, moved, temp>>
SortIntegers == phase = "built" /\ kind # "float" /\ Goto("radix", 0) /\ UNCHANGED <<input, idx, moved, temp>>
SortFloats == phase = "built" /\ Goto("heapify", (LiveCount \div 2) - 1) /\ UNCHANGED <<input, idx, moved, temp>>

(***************************************************************************)
(* emit_index_insertion: sink row i while it sorts before its neighbour.    *)
(***************************************************************************)
Sinks == hole > 0 /\ Before(idx[hole], idx[hole - 1])

Sink ==
    /\ phase = "insert" /\ at < LiveCount /\ Sinks
    /\ Swap(hole - 1, hole) /\ hole' = hole - 1
    /\ UNCHANGED <<input, phase, at, moved, temp>>

Sunk ==
    /\ phase = "insert" /\ at < LiveCount /\ ~Sinks
    /\ Goto("insert", at + 1)
    /\ UNCHANGED <<input, idx, moved, temp>>

Inserted == phase = "insert" /\ at >= LiveCount /\ Goto("sorted", 0) /\ UNCHANGED <<input, idx, moved, temp>>

(***************************************************************************)
(* emit_sift_down / emit_index_heapsort: max-heap by Before, root last.     *)
(***************************************************************************)
HeapSize == IF phase = "heapify" THEN LiveCount ELSE at
Larger(p, m) ==
    LET l == 2 * p + 1
        r == 2 * p + 2
        big == IF l < m /\ Before(idx[p], idx[l]) THEN l ELSE p
    IN  IF r < m /\ Before(idx[big], idx[r]) THEN r ELSE big
Sifting == (phase = "heapify" /\ at >= 0) \/ phase = "sift"

Sift ==
    /\ Sifting /\ Larger(hole, HeapSize) # hole
    /\ Swap(hole, Larger(hole, HeapSize)) /\ hole' = Larger(hole, HeapSize)
    /\ UNCHANGED <<input, phase, at, moved, temp>>

Settle ==
    /\ Sifting /\ Larger(hole, HeapSize) = hole
    /\ Goto(IF phase = "sift" THEN "extract" ELSE "heapify", at - 1)
    /\ UNCHANGED <<input, idx, moved, temp>>

Heapified == phase = "heapify" /\ at < 0 /\ Goto("extract", LiveCount - 1) /\ UNCHANGED <<input, idx, moved, temp>>

Extract ==
    /\ phase = "extract" /\ at > 0
    /\ Swap(0, at) /\ phase' = "sift" /\ hole' = 0
    /\ UNCHANGED <<input, at, moved, temp>>

Extracted == phase = "extract" /\ at <= 0 /\ Goto("sorted", 0) /\ UNCHANGED <<input, idx, moved, temp>>

(***************************************************************************)
(* emit_radix_transform: flip the sign bit, complement when descending.     *)
(***************************************************************************)
Transform(w) ==
    LET flipped == IF kind = "signed" THEN w + Half ELSE w
    IN  IF desc THEN Span - 1 - flipped ELSE flipped

Digit(w, pass) == (Transform(w) \div Weight[pass]) % Radix

(* One counting pass: histogram, exclusive prefix sums, stable scatter into *)
(* the other of two buffers, which idx stands for in turn; after an odd     *)
(* number of passes the live rows are copied back.                          *)
DigitAt(i) == Digit(key[idx[i]], at)
Start(b) == Cardinality({i \in 0..(LiveCount - 1) : DigitAt(i) < b})
PlaceOf(i) == Start(DigitAt(i)) + Cardinality({j \in 0..(i - 1) : DigitAt(j) = DigitAt(i)})

RadixPass ==
    /\ phase = "radix" /\ at < Digits
    /\ idx' = [i \in Slots |->
                  IF i < LiveCount THEN idx[CHOOSE j \in 0..(LiveCount - 1) : PlaceOf(j) = i] ELSE idx[i]]
    /\ Goto("radix", at + 1)
    /\ UNCHANGED <<input, moved, temp>>

Scattered == phase = "radix" /\ at = Digits /\ Goto("sorted", 0) /\ UNCHANGED <<input, idx, moved, temp>>

(***************************************************************************)
(* Permute a column in place by following the cycles of the index array;    *)
(* the sign bit of an entry marks it as done.  Element s of the column is   *)
(* moved for row s, whatever the number of elements a row has.              *)
(***************************************************************************)
MarkNothing(i) == idx' = idx
Mark(i) == idx' = [idx EXCEPT ![i] = -1 - idx[i]]

Permute == phase = "sorted" /\ Goto("apply", 0) /\ UNCHANGED <<input, idx, moved, temp>>

PassOver ==
    /\ phase = "apply" /\ at < rows /\ idx[at] < 0
    /\ Goto("apply", at + 1)
    /\ UNCHANGED <<input, idx, moved, temp>>

OpenCycle ==
    /\ phase = "apply" /\ at < rows /\ idx[at] >= 0
    /\ Goto("cycle", at) /\ temp' = moved[at]
    /\ UNCHANGED <<input, idx, moved>>

Follow ==
    /\ phase = "cycle" /\ idx[hole] # at
    /\ moved' = [moved EXCEPT ![hole] = moved[idx[hole]]]
    /\ Mark(hole) /\ hole' = idx[hole]
    /\ UNCHANGED <<input, phase, at, temp>>

CloseCycle ==
    /\ phase = "cycle" /\ idx[hole] = at
    /\ moved' = [moved EXCEPT ![hole] = temp]
    /\ Mark(hole) /\ Goto("apply", at + 1)
    /\ UNCHANGED <<input, temp>>

Permuted == phase = "apply" /\ at >= rows /\ Goto("done", 0) /\ UNCHANGED <<input, idx, moved, temp>>

SortNext ==
    \/ Build \/ SortFew \/ SortIntegers \/ SortFloats
    \/ Sink \/ Sunk \/ Inserted
    \/ Sift \/ Settle \/ Heapified \/ Extract \/ Extracted
    \/ RadixPass \/ Scattered
    \/ Permute \/ PassOver \/ OpenCycle \/ Follow \/ CloseCycle \/ Permuted

SortSpec == SortInit /\ [][SortNext]_sortVars

-----------------------------------------------------------------------------
(* Reference: the live rows in key order, equal keys in row order; then the *)
(* freed rows as they were.                                                  *)
Precedes(a, b) ==
    IF key[a] = key[b] THEN a < b
    ELSE IF desc THEN key[a] > key[b] ELSE key[a] < key[b]

StableOrder ==
    [i \in Slots |->
        IF i < LiveCount
        THEN CHOOSE r \in Slots \ freed :
                Cardinality({u \in Slots \ freed : Precedes(u, r)}) = i
        ELSE Nth(freed, i - LiveCount)]

Comparable == \A r \in Slots : key[r] # NaN

(* Every algorithm yields the stable order of the live rows and leaves the  *)
(* tombstoned ones behind them; no key, NaN included, makes a row appear    *)
(* twice or vanish at any step.                                             *)
SortedStable ==
    /\ phase \notin {"apply", "cycle", "done"} => {idx[i] : i \in Slots} = Slots
    /\ phase = "sorted" /\ Comparable => idx = StableOrder

(* Following the cycles brings to each row the elements of the row its      *)
(* index entry names: no column is left half moved.                         *)
Source(i) == IF idx[i] < 0 THEN -1 - idx[i] ELSE idx[i]

RowsStayAligned ==
    phase = "done" =>
        \A i \in Slots : \A j \in 0..(PerRow - 1) :
            moved[i * PerRow + j] = Source(i) * PerRow + j
=============================================================================
