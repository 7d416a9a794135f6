-------------------------- MODULE IndexSortProofs --------------------------
(***************************************************************************)
(* Every algorithm of the sort yields the stable order of the live rows,    *)
(* and following the cycles of the index array moves whole columns into it. *)
(***************************************************************************)
EXTENDS IndexSort, FiniteSetTheorems, TLAPS

Live == Slots \ freed

Phases == {"start", "built", "insert", "radix", "heapify", "extract", "sift", "sorted",
           "apply", "cycle", "done"}

InputOk ==
    /\ rows \in Nat /\ desc \in BOOLEAN /\ freed \subseteq Slots
    /\ kind \in {"signed", "unsigned", "float"}
    /\ key \in [Slots -> Int \cup {NaN}]
    /\ kind = "signed" => key \in [Slots -> SignedKeys]
    /\ kind = "unsigned" => key \in [Slots -> IntKeys]
    /\ LiveCount \in 0..rows

(***************************************************************************)
(* While the index array is sorted: it names every row once, the live ones  *)
(* first and the freed ones as they were.                                   *)
(***************************************************************************)
Sorting == phase \notin {"apply", "cycle", "done"}

NamesEachRow ==
    /\ idx \in [Slots -> Slots]
    /\ \A i, j \in Slots : idx[i] = idx[j] => i = j

LiveAhead ==
    /\ \A i \in Slots : i < LiveCount <=> idx[i] \in Live
    /\ \A i \in Slots : i >= LiveCount => idx[i] = Nth(freed, i - LiveCount)

(* Where the loops are: they stay inside the live rows.                     *)
LoopsInv ==
    /\ phase \in Phases /\ at \in Int
    /\ Sorting => hole \in Int
    /\ phase = "insert" => at >= 1 /\ hole \in 0..at /\ (at >= LiveCount => hole = at)
    /\ phase = "radix" => at \in 0..Digits /\ kind # "float"
    /\ phase = "heapify" => at >= -1 /\ (IF at >= 0 THEN hole \in at..(LiveCount - 1) ELSE hole < 0)
    /\ phase = "extract" => at \in (-1)..(LiveCount - 1)
    /\ phase = "sift" => at \in 1..(LiveCount - 1) /\ hole \in 0..(at - 1)

RowsInv == Sorting /\ phase # "start" => NamesEachRow /\ LiveAhead
BaseInv == InputOk /\ LoopsInv /\ RowsInv /\ (phase = "start" => idx = [i \in Slots |-> i])

(***************************************************************************)
(* What each algorithm has put in order so far, for keys that compare.      *)
(***************************************************************************)
Ordered(i, j) == Precedes(idx[i], idx[j])

(* Up to row i all but the row that is being sunk.                          *)
InsertOk == \A i, j \in Slots : i < j /\ j < LiveCount /\ j <= at /\ j # hole => Ordered(i, j)

(* A heap above row lo except at the row that is being sifted, whose        *)
(* children may stand below its parent.                                     *)
Edge(p, c, m) == c \in {2 * p + 1, 2 * p + 2} /\ c < m
HeapOk(f, lo, m, h) ==
    /\ \A p, c \in Slots : p >= lo /\ p # h /\ Edge(p, c, m) => Precedes(f[c], f[p])
    /\ \A p, c \in Slots : p >= lo /\ h \in Slots /\ Edge(p, h, m) /\ Edge(h, c, m) => Precedes(f[c], f[p])

(* The rows from k on are where they belong.                                *)
TailOk(f, k) == \A i, j \in Slots : i < j /\ j >= k /\ j < LiveCount => Precedes(f[i], f[j])

(* The digits done so far are sorted, rows that agree in them by number.    *)
Low(r, p) == Transform(key[r]) % Weight[p]
RadixOk(f, p) ==
    \A i, j \in Slots : i < j /\ j < LiveCount =>
        Low(f[i], p) < Low(f[j], p) \/ (Low(f[i], p) = Low(f[j], p) /\ f[i] < f[j])

OrderInv ==
    Comparable =>
        /\ phase = "built" => \A i, j \in Slots : i < j /\ j < LiveCount => idx[i] < idx[j]
        /\ phase = "insert" => InsertOk
        /\ phase = "heapify" => HeapOk(idx, at, LiveCount, hole)
        /\ phase = "extract" => HeapOk(idx, 0, at + 1, -1) /\ TailOk(idx, at + 1)
        /\ phase = "sift" => HeapOk(idx, 0, at, hole) /\ TailOk(idx, at)
        /\ phase = "radix" => RadixOk(idx, at)
        /\ phase = "sorted" => TailOk(idx, 0)

(***************************************************************************)
(* While the column is permuted: an entry that is marked is served, and the *)
(* element an open entry asks for is still in its place, or in temp.        *)
(***************************************************************************)
Open(f, i) == f[i] >= 0

Served ==
    /\ idx \in [Slots -> Int]
    /\ \A i \in Slots : Source(i) \in Slots
    /\ \A i, j \in Slots : Source(i) = Source(j) => i = j
    /\ \A i \in Slots : ~Open(idx, i) => moved[i] = Source(i)

(* Between two cycles, and inside one.                                      *)
Between ==
    /\ at >= 0
    /\ \A i \in Slots : i < at => ~Open(idx, i)
    /\ \A i \in Slots : Open(idx, i) => moved[i] = i /\ Open(idx, idx[i])

Inside ==
    /\ at \in Slots /\ hole \in Slots /\ Open(idx, hole) /\ temp = at
    /\ \A i \in Slots : i < at \/ (i = at /\ at # hole) => ~Open(idx, i)
    /\ \A i \in Slots : Open(idx, i) => i = hole \/ moved[i] = i
    /\ \A i \in Slots : Open(idx, i) => idx[i] = at \/ (Open(idx, idx[i]) /\ idx[i] # hole)

ServedInv ==
    /\ moved \in [Slots -> Int]
    /\ Sorting => moved = [i \in Slots |-> i]
    /\ ~Sorting => Served
    /\ phase = "apply" => Between
    /\ phase = "cycle" => Inside
    /\ phase = "done" => \A i \in Slots : ~Open(idx, i)
-----------------------------------------------------------------------------
(* The rank of an element among finitely many: below[x] is what comes       *)
(* before x.                                                                *)
StrictOrder(S, below) ==
    /\ below \in [S -> SUBSET S]
    /\ \A x \in S : x \notin below[x]
    /\ \A x, y \in S : x # y => x \in below[y] \/ y \in below[x]
    /\ \A x, y \in S : x \in below[y] => below[x] \subseteq below[y]
Ranked(S, below) ==
    /\ \A x \in S : Cardinality(below[x]) \in 0..(Cardinality(S) - 1)
    /\ \A x, y \in S : x \in below[y] => Cardinality(below[x]) < Cardinality(below[y])
    /\ \A x, y \in S : Cardinality(below[x]) = Cardinality(below[y]) => x = y
    /\ \A k \in 0..(Cardinality(S) - 1) : \E x \in S : Cardinality(below[x]) = k

LEMMA Ranks ==
    ASSUME NEW S, IsFiniteSet(S), NEW below, StrictOrder(S, below)
    PROVE  Ranked(S, below)
  <1> USE DEF StrictOrder
  <1>1. Cardinality(S) \in Nat
    BY FS_CardinalityType
  <1>2. \A x \in S : IsFiniteSet(below[x]) /\ Cardinality(below[x]) \in Nat
    <2> TAKE x \in S
    <2>1. IsFiniteSet(below[x])
      BY FS_Subset
    <2> QED
      BY <2>1, FS_CardinalityType
  <1>3. \A x \in S : Cardinality(below[x]) \in 0..(Cardinality(S) - 1)
    <2> TAKE x \in S
    <2>1. Cardinality(below[x]) <= Cardinality(S) /\ (Cardinality(S) = Cardinality(below[x]) => S = below[x])
      BY FS_Subset
    <2>2. S # below[x]
      OBVIOUS
    <2> QED
      BY <1>1, <1>2, <2>1, <2>2
  <1>4. \A x, y \in S : x \in below[y] => Cardinality(below[x]) < Cardinality(below[y])
    <2> SUFFICES ASSUME NEW x \in S, NEW y \in S, x \in below[y]
                 PROVE  Cardinality(below[x]) < Cardinality(below[y])
      OBVIOUS
    <2>1. below[x] \in SUBSET below[y] /\ below[x] # below[y]
      OBVIOUS
    <2>2. Cardinality(below[x]) <= Cardinality(below[y]) /\ Cardinality(below[y]) # Cardinality(below[x])
      BY <1>2, <2>1, FS_Subset
    <2> QED
      BY <1>2, <2>2
  <1>5. \A x, y \in S : Cardinality(below[x]) = Cardinality(below[y]) => x = y
    BY <1>2, <1>4
  <1> DEFINE T == 0..(Cardinality(S) - 1)
             f == [x \in S |-> Cardinality(below[x])]
  <1>6. f \in Injection(S, T)
    BY <1>3, <1>5 DEF Injection, IsInjective
  <1>7. IsFiniteSet(T) /\ Cardinality(T) = Cardinality(S)
    BY <1>1, FS_Interval
  <1> HIDE DEF T
  <1>8. f \in Surjection(S, T)
    BY <1>6, <1>7, FS_Injection
  <1>9. \A k \in T : \E x \in S : f[x] = k
    BY <1>8 DEF Surjection
  <1> QED
    BY <1>3, <1>4, <1>5, <1>9 DEF T, Ranked

(* The row that takes place k among the rows of S.                          *)
LEMMA NthRow ==
    ASSUME NEW S \in SUBSET Nat, IsFiniteSet(S)
    PROVE  /\ \A k \in 0..(Cardinality(S) - 1) : Nth(S, k) \in S /\ Cardinality({t \in S : t < Nth(S, k)}) = k
           /\ \A j, k \in 0..(Cardinality(S) - 1) : j < k => Nth(S, j) < Nth(S, k)
  <1> DEFINE below == [s \in S |-> {t \in S : t < s}]
  <1>1. /\ \A k \in 0..(Cardinality(S) - 1) : \E x \in S : Cardinality(below[x]) = k
        /\ \A x, y \in S : x \in below[y] => Cardinality(below[x]) < Cardinality(below[y])
    <2>1. below \in [S -> SUBSET S]
      OBVIOUS
    <2>2. \A x \in S : x \notin below[x]
      OBVIOUS
    <2>3. \A x, y \in S : x # y => x \in below[y] \/ y \in below[x]
      OBVIOUS
    <2>4. \A x, y \in S : x \in below[y] => below[x] \subseteq below[y]
      <3> SUFFICES ASSUME NEW x \in S, NEW y \in S, x < y, NEW t \in S, t < x
                   PROVE  t < y
        OBVIOUS
      <3>1. x \in Nat /\ y \in Nat /\ t \in Nat
        OBVIOUS
      <3> QED
        BY <3>1
    <2>5. StrictOrder(S, below)
      BY <2>1, <2>2, <2>3, <2>4 DEF StrictOrder
    <2> HIDE DEF below
    <2>6. Ranked(S, below)
      BY <2>5, Ranks
    <2> QED
      BY <2>6 DEF Ranked
  <1>2. \A k \in 0..(Cardinality(S) - 1) : Nth(S, k) \in S /\ Cardinality(below[Nth(S, k)]) = k
    <2> TAKE k \in 0..(Cardinality(S) - 1)
    <2>1. \E s \in S : Cardinality({t \in S : t < s}) = k
      BY <1>1
    <2>2. Nth(S, k) \in S /\ Cardinality({t \in S : t < Nth(S, k)}) = k
      BY <2>1 DEF Nth
    <2> QED
      BY <2>2
  <1>3. \A j, k \in 0..(Cardinality(S) - 1) : j < k => Nth(S, j) < Nth(S, k)
    <2> SUFFICES ASSUME NEW j \in 0..(Cardinality(S) - 1), NEW k \in 0..(Cardinality(S) - 1), j < k,
                        ~(Nth(S, j) < Nth(S, k))
                 PROVE  FALSE
      OBVIOUS
    <2>0. Cardinality(S) \in Nat
      BY FS_CardinalityType
    <2> DEFINE x == Nth(S, j)
               y == Nth(S, k)
    <2>1. x \in S /\ y \in S /\ Cardinality(below[x]) = j /\ Cardinality(below[y]) = k
      BY <1>2
    <2>2. x \in Nat /\ y \in Nat
      BY <2>1
    <2> HIDE DEF x, y
    <2>3. x = y \/ y < x
      BY <2>2 DEF x, y
    <2>4. CASE x = y
      BY <2>0, <2>1, <2>4
    <2>5. CASE y < x
      <3>1. y \in below[x]
        BY <2>1, <2>5
      <3>2. Cardinality(below[y]) < Cardinality(below[x])
        BY <1>1, <2>1, <3>1
      <3> QED
        BY <2>0, <2>1, <3>2
    <2> QED
      BY <2>3, <2>4, <2>5
  <1> QED
    BY <1>2, <1>3

(* A nonempty set of naturals that is finite has a least element.           *)
LEMMA Least ==
    ASSUME NEW S \in SUBSET Nat, IsFiniteSet(S), S # {}
    PROVE  \E x \in S : \A y \in S : x <= y
  <1>1. Cardinality(S) \in Nat /\ Cardinality(S) # 0
    BY FS_CardinalityType, FS_EmptySet
  <1> DEFINE x == Nth(S, 0)
  <1>2. x \in S /\ Cardinality({t \in S : t < x}) = 0
    BY <1>1, NthRow
  <1> HIDE DEF x
  <1>3. IsFiniteSet({t \in S : t < x})
    BY FS_Subset
  <1>4. {t \in S : t < x} = {}
    BY <1>2, <1>3, FS_EmptySet
  <1> QED
    BY <1>2, <1>4
-----------------------------------------------------------------------------
(* A step that leaves the pool alone.                                       *)
LEMMA SameInput ==
    ASSUME UNCHANGED input
    PROVE  /\ InputOk => InputOk'
           /\ Slots' = Slots /\ LiveCount' = LiveCount /\ Live' = Live /\ freed' = freed /\ kind' = kind
  BY DEF input, InputOk, Slots, LiveCount, Live

LEMMA SameRows ==
    ASSUME UNCHANGED <<input, idx>>
    PROVE  (NamesEachRow => NamesEachRow') /\ (LiveAhead => LiveAhead')
  BY SameInput DEF input, NamesEachRow, LiveAhead, Slots

LEMMA SwapRows ==
    ASSUME InputOk, NamesEachRow, LiveAhead, UNCHANGED input,
           NEW i \in 0..(LiveCount - 1), NEW j \in 0..(LiveCount - 1), Swap(i, j)
    PROVE  /\ NamesEachRow' /\ LiveAhead'
           /\ \A x \in Slots : idx'[x] = IF x = i THEN idx[j] ELSE IF x = j THEN idx[i] ELSE idx[x]
  <1>1. Slots' = Slots /\ LiveCount' = LiveCount /\ Live' = Live /\ freed' = freed
    BY SameInput
  <1>2. i \in Slots /\ j \in Slots /\ LiveCount \in 0..rows /\ rows \in Nat
    BY DEF Slots, InputOk
  <1>3. idx' \in [Slots -> Slots]
    BY <1>2 DEF Swap, NamesEachRow
  <1>4. \A x \in Slots : idx'[x] = IF x = i THEN idx[j] ELSE IF x = j THEN idx[i] ELSE idx[x]
    BY <1>2 DEF Swap, NamesEachRow
  <1>5. NamesEachRow'
    BY <1>1, <1>2, <1>3, <1>4 DEF NamesEachRow
  <1>6. idx[i] \in Live /\ idx[j] \in Live
    BY <1>2 DEF LiveAhead
  <1>7. \A x \in Slots : x >= LiveCount => idx'[x] = idx[x]
    BY <1>2, <1>4
  <1>8. \A x \in Slots : x < LiveCount <=> idx'[x] \in Live
    BY <1>2, <1>4, <1>6 DEF LiveAhead
  <1>9. LiveAhead'
    BY <1>1, <1>7, <1>8 DEF LiveAhead
  <1> QED
    BY <1>4, <1>5, <1>9

(* The index array after the first phase.                                   *)
LEMMA BuiltRows ==
    ASSUME InputOk, UNCHANGED input, idx' = LiveFirst
    PROVE  /\ NamesEachRow' /\ LiveAhead'
           /\ \A i, j \in Slots : i < j /\ j < LiveCount => idx'[i] < idx'[j]
  <1>1. Slots' = Slots /\ LiveCount' = LiveCount /\ Live' = Live /\ freed' = freed
    BY SameInput
  <1>2. /\ rows \in Nat /\ LiveCount \in 0..rows /\ freed \subseteq Slots /\ Slots \subseteq Nat
        /\ LiveCount = Cardinality(Live)
    BY DEF InputOk, Slots, LiveCount, Live
  <1>3. IsFiniteSet(Slots) /\ Cardinality(Slots) = rows
    <2>1. 0 \in Int /\ rows - 1 \in Int
      BY <1>2
    <2>2. IsFiniteSet(0..(rows - 1)) /\ Cardinality(0..(rows - 1)) = IF 0 > rows - 1 THEN 0 ELSE rows - 1 - 0 + 1
      BY ONLY <2>1, FS_Interval
    <2> QED
      BY <1>2, <2>2 DEF Slots
  <1>4. IsFiniteSet(Live) /\ IsFiniteSet(freed) /\ Live \in SUBSET Nat /\ freed \in SUBSET Nat
    BY <1>2, <1>3, FS_Subset DEF Live
  <1>5. Cardinality(freed) = rows - LiveCount
    <2>1. Slots \cap freed = freed
      BY <1>2
    <2>2. Cardinality(Slots \ freed) = Cardinality(Slots) - Cardinality(Slots \cap freed)
      BY <1>3, FS_Difference
    <2>3. Cardinality(freed) \in Nat
      BY <1>4, FS_CardinalityType
    <2> QED
      <3>1. LiveCount = Cardinality(Slots \ freed)
        BY DEF LiveCount
      <3>2. LiveCount = rows - Cardinality(freed)
        BY <1>3, <2>1, <2>2, <3>1
      <3>3. rows \in Nat /\ LiveCount \in Nat
        BY <1>2
      <3> QED
        BY <2>3, <3>2, <3>3
  <1>6. /\ \A i \in 0..(LiveCount - 1) : Nth(Live, i) \in Live
        /\ \A i, j \in 0..(LiveCount - 1) : i < j => Nth(Live, i) < Nth(Live, j)
    BY <1>2, <1>4, NthRow
  <1>7. /\ \A i \in 0..(rows - LiveCount - 1) : Nth(freed, i) \in freed
        /\ \A i, j \in 0..(rows - LiveCount - 1) : i < j => Nth(freed, i) < Nth(freed, j)
    BY <1>4, <1>5, NthRow
  <1>8. \A i \in Slots : idx'[i] = IF i < LiveCount THEN Nth(Live, i) ELSE Nth(freed, i - LiveCount)
    BY DEF LiveFirst, Live
  <1>9. \A i \in Slots : i < LiveCount => i \in 0..(LiveCount - 1)
    BY <1>2 DEF Slots
  <1>10. \A i \in Slots : i >= LiveCount => i - LiveCount \in 0..(rows - LiveCount - 1)
    BY <1>2 DEF Slots
  <1>11. \A i \in Slots : /\ i < LiveCount => idx'[i] \in Live
                          /\ i >= LiveCount => idx'[i] \in freed
    BY <1>6, <1>7, <1>8, <1>9, <1>10, <1>2
  <1>12. \A i, j \in Slots : i < j /\ j < LiveCount => idx'[i] < idx'[j]
    BY <1>2, <1>6, <1>8, <1>9
  <1>13. \A i, j \in Slots : i < j /\ i >= LiveCount => idx'[i] < idx'[j]
    <2> SUFFICES ASSUME NEW i \in Slots, NEW j \in Slots, i < j, i >= LiveCount
                 PROVE  Nth(freed, i - LiveCount) < Nth(freed, j - LiveCount)
      BY <1>2, <1>8
    <2>1. i \in Nat /\ j \in Nat /\ j >= LiveCount /\ i - LiveCount < j - LiveCount
      BY <1>2
    <2> QED
      BY <2>1, <1>10, <1>7
  <1>14. \A i \in Slots : idx'[i] \in Slots /\ idx'[i] \in Nat
    <2> TAKE i \in Slots
    <2>1. i < LiveCount \/ i >= LiveCount
      BY <1>2
    <2>2. idx'[i] \in Live \cup freed
      BY <1>11, <2>1
    <2> QED
      BY <1>2, <2>2 DEF Live
  <1>15. idx' \in [Slots -> Slots]
    BY <1>14 DEF LiveFirst
  <1>16. \A i, j \in Slots : i < j => idx'[i] # idx'[j]
    <2> SUFFICES ASSUME NEW i \in Slots, NEW j \in Slots, i < j
                 PROVE  idx'[i] # idx'[j]
      OBVIOUS
    <2>1. i \in Nat /\ j \in Nat /\ idx'[i] \in Nat /\ idx'[j] \in Nat
      BY <1>2, <1>14
    <2>2. CASE i >= LiveCount
      BY <2>1, <2>2, <1>13
    <2>3. CASE j < LiveCount
      BY <2>1, <2>3, <1>12
    <2>4. CASE i < LiveCount /\ j >= LiveCount
      BY <2>4, <1>11 DEF Live
    <2> QED
      BY <2>1, <2>2, <2>3, <2>4, <1>2
  <1>17. \A i, j \in Slots : idx'[i] = idx'[j] => i = j
    BY <1>2, <1>16
  <1>18. NamesEachRow'
    BY <1>1, <1>15, <1>17 DEF NamesEachRow
  <1>19. LiveAhead'
    BY <1>1, <1>2, <1>8, <1>11 DEF LiveAhead, Live
  <1> QED
    BY <1>12, <1>18, <1>19

-----------------------------------------------------------------------------
(* Keys as words.                                                           *)
LEMMA EvenProduct ==
    ASSUME NEW w \in Nat, NEW r \in Nat, r % 2 = 0
    PROVE  (w * r) % 2 = 0
  <1>1. PICK h \in Nat : r = 2 * h
    BY Z3
  <1> DEFINE x == w * h
             y == w * r
  <1>2. y = 2 * x /\ x \in Nat
    BY <1>1, Z3
  <1> HIDE DEF x, y
  <1>3. y % 2 = 0
    BY <1>2
  <1> QED
    BY <1>3 DEF y

LEMMA Halves == Span \in Nat /\ Half \in Nat /\ Span = 2 * Half /\ Span > 0
  <1>1. Digits \in 1..Digits /\ Digits - 1 \in 0..Digits /\ Digits \in 0..Digits
    BY SortAssumption
  <1>2. Span = Weight[Digits - 1] * Radix /\ Span \in Nat \ {0} /\ Weight[Digits - 1] \in Nat /\ Radix \in Nat
    BY <1>1, SortAssumption DEF Span
  <1>3. Span % 2 = 0
    BY <1>2, EvenProduct, SortAssumption
  <1> QED
    BY <1>2, <1>3 DEF Half

LEMMA WordType ==
    ASSUME InputOk, kind # "float", NEW r \in Slots
    PROVE  /\ key[r] \in Int /\ Transform(key[r]) \in 0..(Span - 1)
           /\ \A p \in 0..Digits : Digit(key[r], p) \in 0..(Radix - 1)
  <1>1. kind = "signed" \/ kind = "unsigned"
    BY DEF InputOk
  <1>2. key[r] \in Int /\ (kind = "signed" => key[r] + Half \in 0..(Span - 1))
                      /\ (kind # "signed" => key[r] \in 0..(Span - 1))
    BY <1>1, Halves DEF InputOk, SignedKeys, IntKeys
  <1>3. desc \in BOOLEAN
    BY DEF InputOk
  <1>4. Transform(key[r]) \in 0..(Span - 1)
    BY <1>2, <1>3, Halves DEF Transform
  <1>5. \A p \in 0..Digits : Digit(key[r], p) \in 0..(Radix - 1)
    <2> TAKE p \in 0..Digits
    <2>1. Weight[p] \in Nat \ {0} /\ Radix \in Nat \ {0}
      BY SortAssumption
    <2>2. Transform(key[r]) \in Int
      BY <1>4, Halves
    <2> DEFINE q == Transform(key[r]) \div Weight[p]
    <2>3. q \in Int
      BY <2>1, <2>2
    <2> HIDE DEF q
    <2>4. q % Radix \in 0..(Radix - 1)
      BY <2>1, <2>3
    <2> QED
      BY <2>4 DEF Digit, q
  <1> QED
    BY <1>2, <1>4, <1>5

(* One counting pass scatters the live rows by the digit, stably.           *)
LEMMA ScatteredRows ==
    ASSUME InputOk, LoopsInv, NamesEachRow, LiveAhead, RadixPass
    PROVE  /\ NamesEachRow' /\ LiveAhead'
           /\ \A i, j \in Slots : i < j /\ j < LiveCount =>
                 \E x, y \in 0..(LiveCount - 1) :
                     /\ idx'[i] = idx[x] /\ idx'[j] = idx[y]
                     /\ DigitAt(x) < DigitAt(y) \/ (DigitAt(x) = DigitAt(y) /\ x < y)
  <1> DEFINE P == 0..(LiveCount - 1)
             D == [i \in P |-> DigitAt(i)]
             below == [i \in P |-> {j \in P : D[j] < D[i] \/ (D[j] = D[i] /\ j < i)}]
  <1>1. rows \in Nat /\ LiveCount \in 0..rows /\ LiveCount \in Nat
    BY DEF InputOk
  <1>2. at \in 0..Digits /\ kind # "float" /\ UNCHANGED input
    BY DEF RadixPass, LoopsInv
  <1>3. P \subseteq Slots /\ P \subseteq Nat /\ (\A i \in Slots : i < LiveCount => i \in P)
    BY <1>1 DEF Slots
  <1>4. \A i \in P : D[i] \in Nat /\ D[i] = DigitAt(i)
    <2> TAKE i \in P
    <2>1. idx[i] \in Slots
      BY <1>3 DEF NamesEachRow
    <2>2. DigitAt(i) \in 0..(Radix - 1)
      BY <1>2, <2>1, WordType DEF DigitAt
    <2> QED
      BY <2>2, SortAssumption
  <1>5. IsFiniteSet(P) /\ Cardinality(P) = LiveCount
    <2>1. 0 \in Int /\ LiveCount - 1 \in Int
      BY <1>1
    <2>2. IsFiniteSet(0..(LiveCount - 1))
          /\ Cardinality(0..(LiveCount - 1)) = IF 0 > LiveCount - 1 THEN 0 ELSE LiveCount - 1 - 0 + 1
      BY ONLY <2>1, FS_Interval
    <2> QED
      BY <1>1, <2>2
  <1> HIDE DEF P, D
  <1>6. StrictOrder(P, below)
    <2>1. below \in [P -> SUBSET P] /\ (\A i \in P : i \notin below[i])
      BY <1>3, <1>4
    <2>2. \A x, y \in P : x # y => x \in below[y] \/ y \in below[x]
      BY <1>3, <1>4
    <2>3. \A x, y \in P : x \in below[y] => below[x] \subseteq below[y]
      <3> SUFFICES ASSUME NEW x \in P, NEW y \in P, x \in below[y], NEW z \in below[x]
                   PROVE  z \in below[y]
        OBVIOUS
      <3>1. z \in P /\ (D[z] < D[x] \/ (D[z] = D[x] /\ z < x)) /\ (D[x] < D[y] \/ (D[x] = D[y] /\ x < y))
        OBVIOUS
      <3>2. {D[x], D[y], D[z], x, y, z} \subseteq Nat
        BY <1>3, <1>4, <3>1
      <3>3. D[z] < D[y] \/ (D[z] = D[y] /\ z < y)
        BY <3>1, <3>2
      <3> QED
        BY <3>1, <3>3
    <2> QED
      BY <2>1, <2>2, <2>3 DEF StrictOrder
  <1>7. \A i \in P : PlaceOf(i) = Cardinality(below[i])
    <2> TAKE i \in P
    <2> DEFINE A == {j \in P : DigitAt(j) < DigitAt(i)}
               B == {j \in 0..(i - 1) : DigitAt(j) = DigitAt(i)}
    <2>1. \A j \in 0..(i - 1) : j \in P /\ j < i
      BY <1>1, <1>3 DEF P
    <2>2. \A j \in P : j < i => j \in 0..(i - 1)
      BY <1>3
    <2>3. below[i] = A \cup B
      BY <1>4, <2>1, <2>2
    <2>4. A \cap B = {}
      BY <1>4, <2>1
    <2>5. A \in SUBSET P /\ B \in SUBSET P
      BY <2>1
    <2>6. PlaceOf(i) = Cardinality(A) + Cardinality(B)
      BY DEF PlaceOf, Start, P
    <2> HIDE DEF A, B
    <2>7. IsFiniteSet(A) /\ IsFiniteSet(B)
      BY <1>5, <2>5, FS_Subset
    <2>8. Cardinality(A \cup B) = Cardinality(A) + Cardinality(B) - Cardinality(A \cap B)
      BY <2>7, FS_Union
    <2>9. Cardinality(A \cap B) = 0 /\ Cardinality(A) \in Nat /\ Cardinality(B) \in Nat
      BY <2>4, <2>7, FS_EmptySet, FS_CardinalityType
    <2>10. Cardinality(A \cup B) = Cardinality(A) + Cardinality(B)
      BY <2>8, <2>9
    <2> QED
      BY <2>3, <2>6, <2>10
  <1> HIDE DEF below
  <1>8. Ranked(P, below)
    BY <1>5, <1>6, Ranks
  <1> DEFINE back == [i \in P |-> CHOOSE j \in P : PlaceOf(j) = i]
  <1>9. \A i \in P : back[i] \in P /\ PlaceOf(back[i]) = i
    <2> TAKE i \in P
    <2>1. i \in 0..(Cardinality(P) - 1)
      BY <1>5 DEF P
    <2>2. \E j \in P : PlaceOf(j) = i
      BY <1>7, <1>8, <2>1 DEF Ranked
    <2> QED
      BY <2>2
  <1>10. \A i \in Slots : idx'[i] = IF i < LiveCount THEN idx[back[i]] ELSE idx[i]
    <2> TAKE i \in Slots
    <2>1. idx'[i] = IF i < LiveCount THEN idx[CHOOSE j \in P : PlaceOf(j) = i] ELSE idx[i]
      BY DEF RadixPass, P
    <2> QED
      BY <1>3, <2>1
  <1>11. idx' \in [Slots -> Slots]
    <2>1. \A i \in Slots : idx'[i] \in Slots
      BY <1>3, <1>9, <1>10 DEF NamesEachRow
    <2> QED
      BY <2>1 DEF RadixPass
  <1> HIDE DEF back
  <1>12. \A i, j \in Slots : idx'[i] = idx'[j] => i = j
    <2> SUFFICES ASSUME NEW i \in Slots, NEW j \in Slots, idx'[i] = idx'[j]
                 PROVE  i = j
      OBVIOUS
    <2>0. i \in Nat /\ j \in Nat
      BY <1>1 DEF Slots
    <2>1. CASE i < LiveCount /\ j < LiveCount
      <3>1. back[i] = back[j]
        BY <1>3, <1>9, <1>10, <2>1 DEF NamesEachRow
      <3> QED
        BY <1>3, <1>9, <2>1, <3>1
    <2>2. CASE i >= LiveCount /\ j >= LiveCount
      BY <1>1, <1>10, <2>0, <2>2 DEF NamesEachRow
    <2>3. CASE i < LiveCount /\ j >= LiveCount
      <3>1. back[i] \in Slots /\ back[i] < LiveCount /\ back[i] # j /\ idx[back[i]] = idx[j]
        BY <1>1, <1>3, <1>9, <1>10, <2>0, <2>3 DEF P
      <3> QED
        BY <3>1 DEF NamesEachRow
    <2>4. CASE j < LiveCount /\ i >= LiveCount
      <3>1. back[j] \in Slots /\ back[j] < LiveCount /\ back[j] # i /\ idx[back[j]] = idx[i]
        BY <1>1, <1>3, <1>9, <1>10, <2>0, <2>4 DEF P
      <3> QED
        BY <3>1 DEF NamesEachRow
    <2> QED
      BY <1>1, <2>0, <2>1, <2>2, <2>3, <2>4
  <1>13. Slots' = Slots /\ LiveCount' = LiveCount /\ Live' = Live /\ freed' = freed
    BY <1>2, SameInput
  <1>14. NamesEachRow'
    BY <1>11, <1>12, <1>13 DEF NamesEachRow
  <1>15. LiveAhead'
    <2>1. \A i \in Slots : i < LiveCount => idx'[i] \in Live
      <3> SUFFICES ASSUME NEW i \in Slots, i < LiveCount
                   PROVE  idx'[i] \in Live
        OBVIOUS
      <3>1. back[i] \in Slots /\ back[i] < LiveCount /\ idx'[i] = idx[back[i]]
        BY <1>1, <1>3, <1>9, <1>10 DEF P
      <3> QED
        BY <3>1 DEF LiveAhead
    <2>2. \A i \in Slots : ~(i < LiveCount) => idx'[i] = idx[i]
      BY <1>10
    <2>3. \A i \in Slots : i >= LiveCount => ~(i < LiveCount)
      BY <1>1 DEF Slots
    <2> QED
      BY <1>13, <2>1, <2>2, <2>3 DEF LiveAhead
  <1>16. ASSUME NEW i \in Slots, NEW j \in Slots, i < j, j < LiveCount
         PROVE  \E x, y \in P :
                   /\ idx'[i] = idx[x] /\ idx'[j] = idx[y]
                   /\ DigitAt(x) < DigitAt(y) \/ (DigitAt(x) = DigitAt(y) /\ x < y)
    <2>1. i \in P /\ j \in P /\ i < LiveCount /\ i \in Nat /\ j \in Nat
      BY <1>1, <1>3, <1>16 DEF Slots
    <2> DEFINE x == back[i]
               y == back[j]
    <2>2. x \in P /\ y \in P /\ Cardinality(below[x]) = i /\ Cardinality(below[y]) = j
      BY <1>7, <1>9, <2>1
    <2>3. idx'[i] = idx[x] /\ idx'[j] = idx[y]
      BY <1>10, <1>16, <2>1
    <2> HIDE DEF x, y
    <2>4. y \notin below[x] /\ x # y
      BY <1>8, <1>16, <2>1, <2>2 DEF Ranked
    <2>5. x \in below[y]
      BY <1>6, <2>2, <2>4 DEF StrictOrder
    <2>6. D[x] < D[y] \/ (D[x] = D[y] /\ x < y)
      BY <2>2, <2>5 DEF below
    <2> QED
      BY <1>4, <2>2, <2>3, <2>6
  <1> QED
    BY <1>14, <1>15, <1>16 DEF P
-----------------------------------------------------------------------------
(* The loops stay inside the live rows and the rows are only rearranged.    *)
LEMMA SlotsFinite ==
    ASSUME rows \in Nat
    PROVE  IsFiniteSet(Slots) /\ Cardinality(Slots) = rows /\ Slots \subseteq Nat
  <1>1. 0 \in Int /\ rows - 1 \in Int
    OBVIOUS
  <1>2. IsFiniteSet(0..(rows - 1)) /\ Cardinality(0..(rows - 1)) = IF 0 > rows - 1 THEN 0 ELSE rows - 1 - 0 + 1
    BY ONLY <1>1, FS_Interval
  <1> QED
    BY <1>2 DEF Slots

LEMMA BaseStart == SortInit => BaseInv
  <1> SUFFICES ASSUME SortInit PROVE BaseInv
    OBVIOUS
  <1>1. rows \in Nat /\ freed \subseteq Slots /\ desc \in BOOLEAN /\ kind \in {"signed", "unsigned", "float"}
    BY SortAssumption DEF SortInit
  <1>2. LiveCount \in 0..rows
    <2>1. IsFiniteSet(Slots) /\ Cardinality(Slots) = rows
      BY <1>1, SlotsFinite
    <2>2. IsFiniteSet(Slots \ freed) /\ Cardinality(Slots \ freed) <= Cardinality(Slots)
      BY <2>1, FS_Subset
    <2>3. Cardinality(Slots \ freed) \in Nat
      BY <2>2, FS_CardinalityType
    <2> QED
      BY <1>1, <2>1, <2>2, <2>3 DEF LiveCount
  <1>3. /\ kind = "signed" => key \in [Slots -> SignedKeys]
        /\ kind = "unsigned" => key \in [Slots -> IntKeys]
        /\ kind = "float" => key \in [Slots -> FloatKeys]
    BY DEF SortInit
  <1>4. SignedKeys \subseteq Int /\ IntKeys \subseteq Int /\ FloatKeys \subseteq Int \cup {NaN}
    BY Halves DEF SignedKeys, IntKeys, FloatKeys
  <1>5. key \in [Slots -> Int \cup {NaN}]
    BY <1>1, <1>3, <1>4
  <1>6. InputOk
    BY <1>1, <1>2, <1>3, <1>5 DEF InputOk
  <1>7. phase = "start" /\ at = 0 /\ hole = 0 /\ idx = [i \in Slots |-> i]
    BY DEF SortInit
  <1> QED
    BY <1>6, <1>7 DEF BaseInv, LoopsInv, RowsInv, Phases

(* Which child of a row is to take its place.                               *)
LEMMA LargerRow ==
    ASSUME NEW p \in Nat, NEW m \in Int
    PROVE  LET c == Larger(p, m)
           IN  /\ c # p => c \in Nat /\ Edge(p, c, m) /\ c > p /\ c < m
               /\ c = p => \A d : Edge(p, d, m) => ~Before(idx[p], idx[d])
  BY DEF Larger, Edge

LEMMA BaseStep == BaseInv /\ [SortNext]_sortVars => BaseInv'
  <1> SUFFICES ASSUME BaseInv, [SortNext]_sortVars PROVE BaseInv'
    OBVIOUS
  <1> USE DEF BaseInv
  <1>1. rows \in Nat /\ LiveCount \in 0..rows /\ LiveCount \in Nat /\ at \in Int /\ (Sorting => hole \in Int)
    BY DEF InputOk, LoopsInv
  <1>2. UNCHANGED input => InputOk' /\ Slots' = Slots /\ LiveCount' = LiveCount /\ Live' = Live /\ kind' = kind
    BY SameInput
  <1>3. CASE Build
    <2>1. NamesEachRow' /\ LiveAhead'
      BY <1>3, BuiltRows DEF Build
    <2> QED
      BY <1>2, <1>3, <2>1 DEF Build, Goto, LoopsInv, RowsInv, Phases
  <1>4. ASSUME UNCHANGED <<input, idx>>, Sorting => phase # "start", Sorting' => Sorting /\ phase' # "start"
        PROVE  InputOk' /\ RowsInv'
    BY <1>2, <1>4, SameRows DEF RowsInv
  <1>5. CASE SortFew
    <2>1. InputOk' /\ RowsInv'
      BY <1>4, <1>5 DEF SortFew, Goto, Sorting
    <2> QED
      BY <1>5, <2>1 DEF SortFew, Goto, LoopsInv, Phases
  <1>6. CASE SortIntegers
    <2>1. InputOk' /\ RowsInv'
      BY <1>4, <1>6 DEF SortIntegers, Goto, Sorting
    <2> QED
      BY <1>2, <1>6, <2>1, SortAssumption DEF SortIntegers, Goto, LoopsInv, Phases
  <1>7. CASE SortFloats
    <2>1. InputOk' /\ RowsInv'
      BY <1>4, <1>7 DEF SortFloats, Goto, Sorting
    <2> QED
      BY <1>1, <1>2, <1>7, <2>1 DEF SortFloats, Goto, LoopsInv, Phases
  <1>8. CASE Sink
    <2>1. /\ phase = "insert" /\ at < LiveCount /\ hole \in Int /\ hole > 0 /\ hole <= at /\ at >= 1
          /\ NamesEachRow /\ LiveAhead
      BY <1>8 DEF Sink, Sinks, LoopsInv, RowsInv, Sorting
    <2>2. hole - 1 \in 0..(LiveCount - 1) /\ hole \in 0..(LiveCount - 1)
      BY <1>1, <2>1
    <2>3. NamesEachRow' /\ LiveAhead'
      BY <1>8, <2>1, <2>2, SwapRows DEF Sink
    <2> QED
      BY <1>1, <1>2, <1>8, <2>1, <2>3 DEF Sink, LoopsInv, RowsInv, Phases
  <1>9. CASE Sunk
    <2>1. InputOk' /\ RowsInv'
      BY <1>4, <1>9 DEF Sunk, Goto, Sorting
    <2> QED
      BY <1>1, <1>9, <2>1 DEF Sunk, Goto, LoopsInv, Phases
  <1>10. CASE Inserted
    <2>1. InputOk' /\ RowsInv'
      BY <1>4, <1>10 DEF Inserted, Goto, Sorting
    <2> QED
      BY <1>10, <2>1 DEF Inserted, Goto, LoopsInv, Phases
  <1>11. CASE Sift
    <2> DEFINE c == Larger(hole, HeapSize)
    <2>1. Sifting /\ c # hole /\ Swap(hole, c) /\ hole' = c /\ UNCHANGED <<input, phase, at>>
      BY <1>11 DEF Sift
    <2>2. /\ phase \in {"heapify", "sift"} /\ NamesEachRow /\ LiveAhead
          /\ hole \in 0..(HeapSize - 1) /\ HeapSize \in Int /\ HeapSize <= LiveCount
          /\ phase = "heapify" => HeapSize = LiveCount /\ at >= 0 /\ hole >= at
          /\ phase = "sift" => HeapSize = at /\ at \in 1..(LiveCount - 1)
      BY <1>1, <2>1 DEF Sifting, LoopsInv, RowsInv, Sorting, HeapSize
    <2>3. hole \in Nat
      BY <2>2
    <2>4. c \in Nat /\ c > hole /\ c < HeapSize
      BY <2>1, <2>2, <2>3, LargerRow
    <2> HIDE DEF c
    <2>5. hole \in 0..(LiveCount - 1) /\ c \in 0..(LiveCount - 1)
      BY <1>1, <2>2, <2>4
    <2>6. NamesEachRow' /\ LiveAhead'
      BY <2>1, <2>2, <2>5, SwapRows
    <2> QED
      BY <1>1, <1>2, <2>1, <2>2, <2>4, <2>6 DEF LoopsInv, RowsInv, Phases
  <1>12. CASE Settle
    <2>1. InputOk' /\ RowsInv'
      BY <1>4, <1>12 DEF Settle, Sifting, Goto, Sorting
    <2> QED
      BY <1>1, <1>2, <1>12, <2>1 DEF Settle, Sifting, Goto, LoopsInv, Phases
  <1>13. CASE Heapified
    <2>1. InputOk' /\ RowsInv'
      BY <1>4, <1>13 DEF Heapified, Goto, Sorting
    <2> QED
      BY <1>1, <1>2, <1>13, <2>1 DEF Heapified, Goto, LoopsInv, Phases
  <1>14. CASE Extract
    <2>1. phase = "extract" /\ at > 0 /\ at \in 0..(LiveCount - 1) /\ NamesEachRow /\ LiveAhead
      BY <1>1, <1>14 DEF Extract, LoopsInv, RowsInv, Sorting
    <2>2. 0 \in 0..(LiveCount - 1)
      BY <1>1, <2>1
    <2>3. NamesEachRow' /\ LiveAhead'
      BY <1>14, <2>1, <2>2, SwapRows DEF Extract
    <2> QED
      BY <1>1, <1>2, <1>14, <2>1, <2>3 DEF Extract, LoopsInv, RowsInv, Phases
  <1>15. CASE Extracted
    <2>1. InputOk' /\ RowsInv'
      BY <1>4, <1>15 DEF Extracted, Goto, Sorting
    <2> QED
      BY <1>15, <2>1 DEF Extracted, Goto, LoopsInv, Phases
  <1>16. CASE RadixPass
    <2>1. phase = "radix" /\ at < Digits /\ NamesEachRow /\ LiveAhead /\ at \in 0..Digits
      BY <1>16 DEF RadixPass, RowsInv, Sorting, LoopsInv
    <2>2. NamesEachRow' /\ LiveAhead'
      BY <1>16, <2>1, ScatteredRows
    <2> QED
      BY <1>2, <1>16, <2>1, <2>2, SortAssumption DEF RadixPass, Goto, LoopsInv, RowsInv, Phases
  <1>17. CASE Scattered
    <2>1. InputOk' /\ RowsInv'
      BY <1>4, <1>17 DEF Scattered, Goto, Sorting
    <2> QED
      BY <1>17, <2>1 DEF Scattered, Goto, LoopsInv, Phases
  <1>18. CASE Permute \/ PassOver \/ OpenCycle \/ Permuted
    <2>1. UNCHANGED input /\ phase' \in {"apply", "cycle", "done"} /\ at' \in Int
      BY <1>1, <1>18 DEF Permute, PassOver, OpenCycle, Permuted, Goto
    <2> QED
      BY <1>2, <2>1 DEF LoopsInv, RowsInv, Sorting, Phases
  <1>19. CASE CloseCycle
    <2>1. UNCHANGED input /\ phase' \in {"apply", "cycle", "done"} /\ at' \in Int
      BY <1>1, <1>19 DEF CloseCycle, Goto
    <2> QED
      BY <1>2, <2>1 DEF LoopsInv, RowsInv, Sorting, Phases
  <1>20. CASE Follow
    <2>1. UNCHANGED input /\ phase' = "cycle" /\ at' \in Int
      BY <1>1, <1>20 DEF Follow
    <2> QED
      BY <1>2, <2>1 DEF LoopsInv, RowsInv, Sorting, Phases
  <1>21. CASE UNCHANGED sortVars
    <2>1. UNCHANGED <<input, idx>> /\ phase' = phase /\ at' = at /\ hole' = hole
      BY <1>21 DEF sortVars, loopVars
    <2>2. (NamesEachRow => NamesEachRow') /\ (LiveAhead => LiveAhead')
      BY <2>1, SameRows
    <2> QED
      BY <1>2, <2>1, <2>2 DEF LoopsInv, RowsInv, Sorting
  <1> QED
    BY <1>3, <1>5, <1>6, <1>7, <1>8, <1>9, <1>10, <1>11, <1>12, <1>13, <1>14, <1>15, <1>16,
       <1>17, <1>18, <1>19, <1>20, <1>21 DEF SortNext
-----------------------------------------------------------------------------
(* The order of the rows.                                                   *)
LEMMA PrecedesOrder ==
    ASSUME InputOk, Comparable
    PROVE  /\ \A a, b \in Slots : Before(a, b) <=> Precedes(a, b)
           /\ \A a \in Slots : ~Precedes(a, a)
           /\ \A a, b \in Slots : a # b => Precedes(a, b) \/ Precedes(b, a)
           /\ \A a, b \in Slots : ~(Precedes(a, b) /\ Precedes(b, a))
           /\ \A a, b, c \in Slots : Precedes(a, b) /\ Precedes(b, c) => Precedes(a, c)
  <1>1. \A a \in Slots : key[a] \in Int /\ key[a] # NaN /\ a \in Nat
    BY DEF InputOk, Comparable, Slots
  <1>2. desc \in BOOLEAN
    BY DEF InputOk
  <1>3. \A a, b \in Slots : Before(a, b) <=> Precedes(a, b)
    BY <1>1 DEF Before, Precedes
  <1>4. \A a \in Slots : ~Precedes(a, a)
    BY <1>1 DEF Precedes
  <1>5. \A a, b \in Slots : a # b => Precedes(a, b) \/ Precedes(b, a)
    BY <1>1 DEF Precedes
  <1>6. \A a, b, c \in Slots : Precedes(a, b) /\ Precedes(b, c) => Precedes(a, c)
    <2> SUFFICES ASSUME NEW a \in Slots, NEW b \in Slots, NEW c \in Slots, Precedes(a, b), Precedes(b, c)
                 PROVE  Precedes(a, c)
      OBVIOUS
    <2> DEFINE x == key[a]
               y == key[b]
               z == key[c]
    <2>1. x \in Int /\ y \in Int /\ z \in Int /\ a \in Nat /\ b \in Nat /\ c \in Nat
      BY <1>1
    <2>2. /\ IF x = y THEN a < b ELSE IF desc THEN x > y ELSE x < y
          /\ IF y = z THEN b < c ELSE IF desc THEN y > z ELSE y < z
      BY DEF Precedes
    <2>3. (IF x = z THEN a < c ELSE IF desc THEN x > z ELSE x < z) => Precedes(a, c)
      BY DEF Precedes
    <2> HIDE DEF x, y, z
    <2> QED
      BY <1>2, <2>1, <2>2, <2>3
  <1>7. \A a, b \in Slots : ~(Precedes(a, b) /\ Precedes(b, a))
    BY <1>4, <1>6
  <1> QED
    BY <1>3, <1>4, <1>5, <1>6, <1>7

LEMMA SameOrder ==
    ASSUME UNCHANGED input
    PROVE  /\ Comparable' <=> Comparable
           /\ \A a, b : Precedes(a, b)' <=> Precedes(a, b)
           /\ \A w : Transform(w)' = Transform(w)
  BY DEF input, Comparable, Precedes, Slots, Transform

LEMMA NextTail ==
    ASSUME UNCHANGED input
    PROVE  \A k : TailOk(idx', k) => TailOk(idx, k)'
  <1>1. Slots' = Slots /\ LiveCount' = LiveCount
    BY SameInput
  <1> QED
    BY <1>1 DEF TailOk, Precedes, input

LEMMA NextHeap ==
    ASSUME UNCHANGED input
    PROVE  \A lo, m, h : HeapOk(idx', lo, m, h) => HeapOk(idx, lo, m, h)'
  <1>1. Slots' = Slots
    BY SameInput
  <1> QED
    BY <1>1 DEF HeapOk, Edge, Precedes, input

LEMMA NextRadix ==
    ASSUME UNCHANGED input
    PROVE  \A p : RadixOk(idx', p) => RadixOk(idx, p)'
  <1>1. Slots' = Slots /\ LiveCount' = LiveCount
    BY SameInput
  <1> QED
    BY <1>1 DEF RadixOk, Low, Transform, input

(* An order of all pairs says which row is where.                           *)
LEMMA Surjective ==
    ASSUME InputOk, NamesEachRow
    PROVE  \A r \in Slots : \E i \in Slots : idx[i] = r
  <1>1. rows \in Nat
    BY DEF InputOk
  <1>2. IsFiniteSet(Slots)
    BY <1>1, SlotsFinite
  <1>3. idx \in Injection(Slots, Slots)
    BY DEF NamesEachRow, Injection, IsInjective
  <1>4. idx \in Surjection(Slots, Slots)
    BY <1>2, <1>3, FS_Injection
  <1> QED
    BY <1>4 DEF Surjection

LEMMA StableRows ==
    ASSUME InputOk, NamesEachRow, LiveAhead, Comparable, TailOk(idx, 0)
    PROVE  idx = StableOrder
  <1>1. rows \in Nat /\ LiveCount \in 0..rows /\ LiveCount \in Nat /\ Live \subseteq Slots /\ Slots \subseteq Nat
    BY SlotsFinite DEF InputOk, Live
  <1>2. IsFiniteSet(Live)
    BY <1>1, SlotsFinite, FS_Subset
  <1> DEFINE below == [r \in Live |-> {u \in Live : Precedes(u, r)}]
  <1>3. StrictOrder(Live, below)
    <2>1. below \in [Live -> SUBSET Live] /\ (\A r \in Live : r \notin below[r])
      BY <1>1, PrecedesOrder
    <2>2. \A x, y \in Live : x # y => x \in below[y] \/ y \in below[x]
      BY <1>1, PrecedesOrder
    <2>3. \A x, y \in Live : x \in below[y] => below[x] \subseteq below[y]
      <3> SUFFICES ASSUME NEW x \in Live, NEW y \in Live, Precedes(x, y), NEW u \in Live, Precedes(u, x)
                   PROVE  Precedes(u, y)
        OBVIOUS
      <3>1. x \in Slots /\ y \in Slots /\ u \in Slots
        BY <1>1
      <3> QED
        BY <3>1, PrecedesOrder
    <2> QED
      BY <2>1, <2>2, <2>3 DEF StrictOrder
  <1>4. Ranked(Live, below)
    <2> HIDE DEF below
    <2> QED
      BY <1>2, <1>3, Ranks
  <1>5. ASSUME NEW i \in Slots, i < LiveCount
        PROVE  idx[i] \in Live /\ Cardinality(below[idx[i]]) = i
    <2>1. idx[i] \in Live /\ i \in Nat
      BY <1>1, <1>5 DEF LiveAhead
    <2> DEFINE A == 0..(i - 1)
               f == [j \in A |-> idx[j]]
    <2>2. \A j \in A : j \in Slots /\ j < i /\ j < LiveCount
      BY <1>1, <1>5, <2>1 DEF Slots
    <2>3. \A j \in A : idx[j] \in below[idx[i]]
      BY <1>1, <1>5, <2>1, <2>2 DEF LiveAhead, TailOk
    <2>4. \A u \in below[idx[i]] : \E j \in A : idx[j] = u
      <3> SUFFICES ASSUME NEW u \in Live, Precedes(u, idx[i])
                   PROVE  \E j \in A : idx[j] = u
        BY <2>1
      <3>1. PICK j \in Slots : idx[j] = u
        BY <1>1, Surjective
      <3>2. j < LiveCount /\ j \in Nat
        BY <1>1, <3>1 DEF LiveAhead
      <3>3. u \in Slots /\ idx[i] \in Slots
        BY <1>1, <2>1
      <3>4. j # i
        BY <3>1, <3>3, PrecedesOrder
      <3>5. ~(i < j)
        <4>1. i < j => Precedes(idx[i], u)
          BY <1>5, <3>1, <3>2, <2>1 DEF TailOk
        <4> QED
          BY <4>1, <3>3, PrecedesOrder
      <3>6. j \in A
        BY <2>1, <3>2, <3>4, <3>5
      <3> QED
        BY <3>1, <3>6
    <2>5. \A j, k \in A : idx[j] = idx[k] => j = k
      BY <2>2 DEF NamesEachRow
    <2> DEFINE B == below[idx[i]]
    <2> HIDE DEF below, B
    <2>6. f \in Bijection(A, B)
      BY <2>3, <2>4, <2>5 DEF B, Bijection, Injection, Surjection, IsInjective
    <2>7. IsFiniteSet(A) /\ Cardinality(A) = i
      <3>1. 0 \in Int /\ i - 1 \in Int
        BY <2>1
      <3>2. IsFiniteSet(0..(i - 1)) /\ Cardinality(0..(i - 1)) = IF 0 > i - 1 THEN 0 ELSE i - 1 - 0 + 1
        BY ONLY <3>1, FS_Interval
      <3> QED
        BY <2>1, <3>2
    <2> HIDE DEF A, f
    <2>8. Cardinality(B) = Cardinality(A)
      BY <2>6, <2>7, FS_Bijection DEF ExistsBijection
    <2> QED
      BY <2>1, <2>7, <2>8 DEF B
  <1>6. \A i \in Slots : i < LiveCount =>
            idx[i] = CHOOSE r \in Slots \ freed : Cardinality({u \in Slots \ freed : Precedes(u, r)}) = i
    <2> SUFFICES ASSUME NEW i \in Slots, i < LiveCount
                 PROVE  idx[i] = CHOOSE r \in Live : Cardinality({u \in Live : Precedes(u, r)}) = i
      BY DEF Live
    <2>1. idx[i] \in Live /\ Cardinality({u \in Live : Precedes(u, idx[i])}) = i
      BY <1>5
    <2>2. \A r \in Live : Cardinality({u \in Live : Precedes(u, r)}) = i => r = idx[i]
      BY <1>4, <2>1 DEF Ranked
    <2> QED
      BY <2>1, <2>2
  <1>7. \A i \in Slots : ~(i < LiveCount) => idx[i] = Nth(freed, i - LiveCount)
    BY <1>1 DEF LiveAhead
  <1>8. \A i \in Slots : idx[i] = StableOrder[i]
    BY <1>6, <1>7 DEF StableOrder
  <1>9. idx \in [Slots -> Slots]
    BY DEF NamesEachRow
  <1> QED
    BY <1>8, <1>9 DEF StableOrder
-----------------------------------------------------------------------------
(* Insertion sort.                                                          *)
LEMMA NextOrder ==
    ASSUME UNCHANGED input
    PROVE  \A i, j : Ordered(i, j)' <=> Precedes(idx'[i], idx'[j])
  BY DEF Ordered, Precedes, input

LEMMA SinkOrder ==
    ASSUME BaseInv, Comparable, InsertOk, Sink
    PROVE  InsertOk'
  <1>1. /\ phase = "insert" /\ at \in Int /\ at < LiveCount /\ hole \in Int /\ hole > 0 /\ hole <= at
        /\ Before(idx[hole], idx[hole - 1]) /\ NamesEachRow /\ LiveAhead /\ UNCHANGED input /\ InputOk
        /\ at' = at /\ hole' = hole - 1 /\ Swap(hole - 1, hole)
    BY DEF Sink, Sinks, BaseInv, LoopsInv, RowsInv, Sorting
  <1>2. rows \in Nat /\ LiveCount \in 0..rows /\ Slots \subseteq Nat
    BY <1>1 DEF InputOk, Slots
  <1>3. hole - 1 \in 0..(LiveCount - 1) /\ hole \in 0..(LiveCount - 1) /\ hole \in Slots /\ hole - 1 \in Slots
    BY <1>1, <1>2 DEF Slots
  <1>4. \A x \in Slots : idx'[x] = IF x = hole - 1 THEN idx[hole] ELSE IF x = hole THEN idx[hole - 1] ELSE idx[x]
    BY <1>1, <1>3, SwapRows
  <1>5. \A x \in Slots : idx[x] \in Slots
    BY <1>1 DEF NamesEachRow
  <1>6. Precedes(idx[hole], idx[hole - 1])
    BY <1>1, <1>3, <1>5, PrecedesOrder
  <1>7. Slots' = Slots /\ LiveCount' = LiveCount
    BY <1>1, SameInput
  <1>8. SUFFICES ASSUME NEW i \in Slots, NEW j \in Slots, i < j, j < LiveCount, j <= at, j # hole - 1
                 PROVE  Precedes(idx'[i], idx'[j])
    BY <1>1, <1>7, NextOrder DEF InsertOk
  <1>9. \A x, y \in Slots : x < y /\ y < LiveCount /\ y <= at /\ y # hole => Precedes(idx[x], idx[y])
    BY DEF InsertOk, Ordered
  <1>10. CASE j = hole
    <2>1. CASE i = hole - 1
      BY <1>1, <1>3, <1>4, <1>6, <1>10, <2>1
    <2>2. CASE i # hole - 1
      <3>1. i < hole - 1 /\ hole - 1 < LiveCount /\ hole - 1 <= at /\ hole - 1 # hole
        BY <1>1, <1>2, <1>8, <1>10, <2>2
      <3>2. Precedes(idx[i], idx[hole - 1])
        BY <1>3, <1>9, <3>1
      <3>3. idx'[i] = idx[i] /\ idx'[j] = idx[hole - 1]
        BY <1>1, <1>2, <1>3, <1>4, <1>10, <3>1
      <3> QED
        BY <3>2, <3>3
    <2> QED
      BY <2>1, <2>2
  <1>11. CASE j # hole
    <2>1. idx'[j] = idx[j]
      BY <1>4, <1>8, <1>11
    <2>2. CASE i = hole - 1
      <3>1. idx'[i] = idx[hole] /\ hole < j
        BY <1>1, <1>2, <1>4, <1>8, <1>11, <2>2
      <3> QED
        BY <1>3, <1>8, <1>9, <1>11, <2>1, <3>1
    <2>3. CASE i = hole
      <3>1. idx'[i] = idx[hole - 1] /\ hole - 1 < j
        BY <1>1, <1>2, <1>3, <1>4, <1>8, <2>3
      <3> QED
        BY <1>3, <1>8, <1>9, <1>11, <2>1, <3>1
    <2>4. CASE i # hole - 1 /\ i # hole
      BY <1>4, <1>8, <1>9, <1>11, <2>1, <2>4
    <2> QED
      BY <2>2, <2>3, <2>4
  <1> QED
    BY <1>10, <1>11

LEMMA SunkOrder ==
    ASSUME BaseInv, Comparable, InsertOk, Sunk
    PROVE  InsertOk'
  <1>1. /\ phase = "insert" /\ at \in Int /\ at < LiveCount /\ hole \in Int /\ hole >= 0 /\ hole <= at
        /\ ~Sinks /\ NamesEachRow /\ UNCHANGED input /\ InputOk
        /\ at' = at + 1 /\ hole' = at + 1 /\ idx' = idx
    BY DEF Sunk, Goto, BaseInv, LoopsInv, RowsInv, Sorting
  <1>2. rows \in Nat /\ LiveCount \in 0..rows /\ Slots \subseteq Nat
    BY <1>1 DEF InputOk, Slots
  <1>3. \A x \in Slots : idx[x] \in Slots
    BY <1>1 DEF NamesEachRow
  <1>4. Slots' = Slots /\ LiveCount' = LiveCount
    BY <1>1, SameInput
  <1>5. SUFFICES ASSUME NEW i \in Slots, NEW j \in Slots, i < j, j < LiveCount, j <= at
                 PROVE  Precedes(idx[i], idx[j])
    BY <1>1, <1>2, <1>4, NextOrder DEF InsertOk
  <1>6. \A x, y \in Slots : x < y /\ y < LiveCount /\ y <= at /\ y # hole => Precedes(idx[x], idx[y])
    BY DEF InsertOk, Ordered
  <1>7. CASE j # hole
    BY <1>5, <1>6, <1>7
  <1>8. CASE j = hole
    <2>1. hole > 0 /\ hole - 1 \in Slots /\ hole \in Slots /\ hole - 1 # hole /\ hole - 1 < LiveCount /\ hole - 1 <= at
      BY <1>1, <1>2, <1>5, <1>8 DEF Slots
    <2>2. idx[hole - 1] # idx[hole]
      BY <1>1, <2>1 DEF NamesEachRow
    <2>3. Precedes(idx[hole - 1], idx[hole])
      BY <1>1, <1>3, <2>1, <2>2, PrecedesOrder DEF Sinks
    <2>4. i = hole - 1 \/ i < hole - 1
      BY <1>1, <1>2, <1>5, <1>8
    <2>5. i < hole - 1 => Precedes(idx[i], idx[hole - 1])
      BY <1>6, <2>1
    <2> QED
      BY <1>1, <1>3, <1>5, <1>8, <2>1, <2>3, <2>4, <2>5, PrecedesOrder
  <1> QED
    BY <1>7, <1>8

LEMMA InsertOrder ==
    ASSUME BaseInv, OrderInv, SortFew \/ Sink \/ Sunk \/ Inserted
    PROVE  OrderInv'
  <1>1. UNCHANGED input
    BY DEF SortFew, Sink, Sunk, Inserted
  <1>2. SUFFICES ASSUME Comparable PROVE OrderInv'
    BY <1>1, SameOrder DEF OrderInv
  <1>3. Slots' = Slots /\ LiveCount' = LiveCount /\ rows \in Nat /\ Slots \subseteq Nat /\ LiveCount \in Nat
    BY <1>1, SameInput, SlotsFinite DEF BaseInv, InputOk
  <1>4. CASE SortFew
    <2>1. phase' = "insert" /\ at' = 1 /\ hole' = 1
      BY <1>4 DEF SortFew, Goto
    <2>2. InsertOk'
      BY <1>3, <2>1 DEF InsertOk
    <2> QED
      BY <2>1, <2>2 DEF OrderInv
  <1>5. CASE Sink
    <2>1. phase = "insert" /\ phase' = "insert"
      BY <1>5 DEF Sink
    <2>2. InsertOk'
      BY <1>2, <1>5, <2>1, SinkOrder DEF OrderInv
    <2> QED
      BY <2>1, <2>2 DEF OrderInv
  <1>6. CASE Sunk
    <2>1. phase = "insert" /\ phase' = "insert"
      BY <1>6 DEF Sunk, Goto
    <2>2. InsertOk'
      BY <1>2, <1>6, <2>1, SunkOrder DEF OrderInv
    <2> QED
      BY <2>1, <2>2 DEF OrderInv
  <1>7. CASE Inserted
    <2>1. phase = "insert" /\ phase' = "sorted" /\ idx' = idx /\ at >= LiveCount /\ hole = at /\ at \in Int
      BY <1>7 DEF Inserted, Goto, BaseInv, LoopsInv
    <2>2. InsertOk
      BY <1>2, <2>1 DEF OrderInv
    <2>3. \A i, j \in Slots : i < j /\ j < LiveCount => Precedes(idx[i], idx[j])
      BY <1>3, <2>1, <2>2 DEF InsertOk, Ordered
    <2>4. TailOk(idx', 0)
      BY <2>1, <2>3 DEF TailOk
    <2>5. TailOk(idx, 0)'
      BY <1>1, <2>4, NextTail
    <2> QED
      BY <2>1, <2>5 DEF OrderInv
  <1> QED
    BY <1>4, <1>5, <1>6, <1>7
-----------------------------------------------------------------------------
(* Heapsort.                                                                *)
LEMMA LargerChild ==
    ASSUME InputOk, NamesEachRow, Comparable,
           NEW p \in Nat, NEW m \in Nat, p < m, m <= LiveCount
    PROVE  LET c == Larger(p, m)
           IN  /\ c # p => /\ Edge(p, c, m) /\ Precedes(idx[p], idx[c])
                           /\ \A d : Edge(p, d, m) /\ d # c => Precedes(idx[d], idx[c])
               /\ c = p => \A d : Edge(p, d, m) => Precedes(idx[d], idx[p])
  <1> DEFINE l == 2 * p + 1
             r == 2 * p + 2
  <1>1. l \in Nat /\ r \in Nat /\ l # r /\ l # p /\ r # p
    OBVIOUS
  <1>2. rows \in Nat /\ LiveCount \in 0..rows
    BY DEF InputOk
  <1>3. p \in Slots /\ (l < m => l \in Slots) /\ (r < m => r \in Slots)
    BY <1>1, <1>2 DEF Slots
  <1>4. \A d : Edge(p, d, m) <=> (d = l /\ l < m) \/ (d = r /\ r < m)
    BY DEF Edge
  <1>5. Larger(p, m) = LET big == IF l < m /\ Before(idx[p], idx[l]) THEN l ELSE p
                       IN  IF r < m /\ Before(idx[big], idx[r]) THEN r ELSE big
    BY DEF Larger
  <1> HIDE DEF l, r
  <1>6. \A x, y \in Slots : idx[x] \in Slots /\ (x # y => idx[x] # idx[y])
    BY DEF NamesEachRow
  <1>7. \A x, y \in Slots : /\ Before(idx[x], idx[y]) => Precedes(idx[x], idx[y])
                            /\ x # y /\ ~Before(idx[x], idx[y]) => Precedes(idx[y], idx[x])
    BY <1>6, PrecedesOrder
  <1>8. \A x, y, z \in Slots : Precedes(idx[x], idx[y]) /\ Precedes(idx[y], idx[z]) => Precedes(idx[x], idx[z])
    BY <1>6, PrecedesOrder
  <1>9. CASE l < m /\ Before(idx[p], idx[l])
    <2>1. Precedes(idx[p], idx[l])
      BY <1>3, <1>7, <1>9
    <2>2. CASE r < m /\ Before(idx[l], idx[r])
      <3>1. Larger(p, m) = r
        BY <1>5, <1>9, <2>2
      <3>2. Precedes(idx[l], idx[r]) /\ Precedes(idx[p], idx[r])
        BY <1>3, <1>7, <1>8, <1>9, <2>1, <2>2
      <3> QED
        BY <1>1, <1>4, <2>2, <3>1, <3>2
    <2>3. CASE ~(r < m /\ Before(idx[l], idx[r]))
      <3>1. Larger(p, m) = l
        BY <1>5, <1>9, <2>3
      <3>2. r < m => Precedes(idx[r], idx[l])
        BY <1>1, <1>3, <1>7, <1>9, <2>3
      <3> QED
        BY <1>1, <1>4, <1>9, <2>1, <3>1, <3>2
    <2> QED
      BY <2>2, <2>3
  <1>10. CASE ~(l < m /\ Before(idx[p], idx[l]))
    <2>1. l < m => Precedes(idx[l], idx[p])
      BY <1>1, <1>3, <1>7, <1>10
    <2>2. CASE r < m /\ Before(idx[p], idx[r])
      <3>1. Larger(p, m) = r
        BY <1>5, <1>10, <2>2
      <3>2. Precedes(idx[p], idx[r]) /\ (l < m => Precedes(idx[l], idx[r]))
        BY <1>3, <1>7, <1>8, <2>1, <2>2
      <3> QED
        BY <1>1, <1>4, <2>2, <3>1, <3>2
    <2>3. CASE ~(r < m /\ Before(idx[p], idx[r]))
      <3>1. Larger(p, m) = p
        BY <1>5, <1>10, <2>3
      <3>2. r < m => Precedes(idx[r], idx[p])
        BY <1>1, <1>3, <1>7, <2>3
      <3> QED
        BY <1>4, <2>1, <3>1, <3>2
    <2> QED
      BY <2>2, <2>3
  <1> QED
    BY <1>9, <1>10

(* A row has one parent.                                                    *)
LEMMA OneParent ==
    ASSUME NEW p \in Nat, NEW q \in Nat, NEW c, NEW m, Edge(p, c, m), Edge(q, c, m)
    PROVE  p = q /\ c \in Nat /\ c > p
  BY DEF Edge

LEMMA SiftHeap ==
    ASSUME InputOk, NamesEachRow, LiveAhead, Comparable, UNCHANGED input,
           NEW lo \in Nat, NEW m \in Nat, m <= LiveCount, NEW h \in Nat, lo <= h, h < m,
           HeapOk(idx, lo, m, h), NEW c, c = Larger(h, m), c # h, Swap(h, c)
    PROVE  HeapOk(idx', lo, m, c)
  <1>1. /\ Edge(h, c, m) /\ Precedes(idx[h], idx[c])
        /\ \A d : Edge(h, d, m) /\ d # c => Precedes(idx[d], idx[c])
    BY LargerChild
  <1>2. rows \in Nat /\ LiveCount \in 0..rows /\ c \in Nat /\ c > h /\ c < m
    BY <1>1 DEF InputOk, Edge
  <1>3. h \in 0..(LiveCount - 1) /\ c \in 0..(LiveCount - 1) /\ h \in Slots /\ c \in Slots /\ c >= lo
        /\ Slots \subseteq Nat
    BY <1>2 DEF Slots
  <1>4. \A x \in Slots : idx'[x] = IF x = h THEN idx[c] ELSE IF x = c THEN idx[h] ELSE idx[x]
    BY <1>3, SwapRows
  <1>5. \A p, d \in Slots : p >= lo /\ p # h /\ Edge(p, d, m) => Precedes(idx[d], idx[p])
    BY DEF HeapOk
  <1>6. \A p, d \in Slots : p >= lo /\ Edge(p, h, m) /\ Edge(h, d, m) => Precedes(idx[d], idx[p])
    BY <1>3 DEF HeapOk
  <1>7. ASSUME NEW p \in Slots, NEW d \in Slots, p >= lo, p # c, Edge(p, d, m)
        PROVE  Precedes(idx'[d], idx'[p])
    <2>1. p \in Nat /\ d \in Nat /\ d > p
      BY <1>3, <1>7, OneParent
    <2>2. CASE p = h /\ d = c
      BY <1>1, <1>2, <1>3, <1>4, <2>2
    <2>3. CASE p = h /\ d # c
      <3>1. idx'[d] = idx[d] /\ idx'[p] = idx[c]
        BY <1>4, <2>1, <2>3
      <3> QED
        BY <1>1, <1>7, <2>3, <3>1
    <2>4. CASE p # h /\ d = h
      <3>1. idx'[d] = idx[c] /\ idx'[p] = idx[p]
        BY <1>4, <1>7, <2>4
      <3> QED
        BY <1>1, <1>3, <1>6, <1>7, <2>4, <3>1
    <2>5. CASE p # h /\ d # h
      <3>1. d # c
        BY <1>1, <1>7, <2>1, <2>5, OneParent
      <3>2. idx'[d] = idx[d] /\ idx'[p] = idx[p]
        BY <1>4, <1>7, <2>5, <3>1
      <3> QED
        BY <1>5, <1>7, <2>5, <3>2
    <2> QED
      BY <2>2, <2>3, <2>4, <2>5
  <1>8. ASSUME NEW p \in Slots, NEW d \in Slots, p >= lo, Edge(p, c, m), Edge(c, d, m)
        PROVE  Precedes(idx'[d], idx'[p])
    <2>1. p = h
      BY <1>1, <1>3, <1>8, OneParent
    <2>2. d > c /\ d \in Nat
      BY <1>2, <1>8, OneParent
    <2>3. idx'[d] = idx[d] /\ idx'[p] = idx[c]
      BY <1>2, <1>4, <2>1, <2>2
    <2> QED
      BY <1>2, <1>3, <1>5, <1>8, <2>3
  <1> QED
    BY <1>7, <1>8 DEF HeapOk

LEMMA SettledHeap ==
    ASSUME InputOk, NamesEachRow, Comparable,
           NEW lo \in Nat, NEW m \in Nat, m <= LiveCount, NEW h \in Nat, h < m,
           HeapOk(idx, lo, m, h), Larger(h, m) = h
    PROVE  \A p, c \in Slots : p >= lo /\ Edge(p, c, m) => Precedes(idx[c], idx[p])
  <1>1. \A d : Edge(h, d, m) => Precedes(idx[d], idx[h])
    BY LargerChild
  <1> QED
    BY <1>1 DEF HeapOk

(* The root of a heap comes last of its rows.                               *)
LEMMA RootIsLast ==
    ASSUME InputOk, NamesEachRow, Comparable, NEW m \in Nat, m <= LiveCount, HeapOk(idx, 0, m, -1)
    PROVE  \A i \in 1..(m - 1) : Precedes(idx[i], idx[0])
  <1> DEFINE S == {i \in 1..(m - 1) : ~Precedes(idx[i], idx[0])}
  <1>1. SUFFICES ASSUME S # {} PROVE FALSE
    OBVIOUS
  <1>2. rows \in Nat /\ LiveCount \in 0..rows /\ Slots \subseteq Nat
    BY DEF InputOk, Slots
  <1>3. S \in SUBSET Nat /\ (\A i \in 0..(m - 1) : i \in Slots)
    BY <1>2 DEF Slots
  <1>4. IsFiniteSet(S)
    <2>1. 1 \in Int /\ m - 1 \in Int
      OBVIOUS
    <2>2. IsFiniteSet(1..(m - 1))
      BY ONLY <2>1, FS_Interval
    <2> QED
      BY <2>2, FS_Subset
  <1>5. PICK x \in S : \A y \in S : x <= y
    <2> HIDE DEF S
    <2> QED
      BY <1>1, <1>3, <1>4, Least
  <1> DEFINE p == (x - 1) \div 2
  <1>6. x \in 1..(m - 1) /\ ~Precedes(idx[x], idx[0])
    BY <1>5
  <1>7. p \in Nat /\ p < x /\ (x = 2 * p + 1 \/ x = 2 * p + 2)
    BY <1>6
  <1> HIDE DEF p
  <1>8. p \in 0..(m - 1) /\ x \in 0..(m - 1) /\ 0 \in 0..(m - 1)
    BY <1>6, <1>7
  <1>9. p \in Slots /\ x \in Slots /\ 0 \in Slots /\ Edge(p, x, m) /\ p >= 0 /\ p # -1
    BY <1>3, <1>6, <1>7, <1>8 DEF Edge
  <1>10. Precedes(idx[x], idx[p])
    BY <1>9 DEF HeapOk
  <1>11. p # 0
    BY <1>6, <1>10
  <1>12. p \in 1..(m - 1) /\ ~(x <= p)
    BY <1>6, <1>7, <1>8, <1>11
  <1>13. Precedes(idx[p], idx[0])
    BY <1>5, <1>12
  <1>14. {idx[p], idx[x], idx[0]} \subseteq Slots
    BY <1>9 DEF NamesEachRow
  <1> QED
    BY <1>6, <1>10, <1>13, <1>14, PrecedesOrder

LEMMA HeapOrder ==
    ASSUME BaseInv, OrderInv, SortFloats \/ Sift \/ Settle \/ Heapified \/ Extract \/ Extracted
    PROVE  OrderInv'
  <1>1. UNCHANGED input
    BY DEF SortFloats, Sift, Settle, Heapified, Extract, Extracted
  <1>2. SUFFICES ASSUME Comparable PROVE OrderInv'
    BY <1>1, SameOrder DEF OrderInv
  <1>3. /\ InputOk /\ LoopsInv /\ rows \in Nat /\ LiveCount \in 0..rows /\ LiveCount \in Nat /\ Slots \subseteq Nat
        /\ LiveCount' = LiveCount
    BY <1>1, SameInput DEF BaseInv, InputOk, Slots
  <1>4. CASE SortFloats
    <2>1. phase' = "heapify" /\ at' = (LiveCount \div 2) - 1 /\ hole' = (LiveCount \div 2) - 1
      BY <1>4 DEF SortFloats, Goto
    <2>2. HeapOk(idx', at', LiveCount, hole')
      <3>1. \A p, c \in Slots : p >= at' /\ p # hole' => ~Edge(p, c, LiveCount)
        BY <1>3, <2>1 DEF Edge
      <3>2. \A p \in Slots : hole' \in Slots /\ p >= at' => ~Edge(p, hole', LiveCount)
        BY <1>3, <2>1 DEF Edge
      <3> QED
        BY <3>1, <3>2 DEF HeapOk
    <2>3. HeapOk(idx, at, LiveCount, hole)'
      BY <1>1, <1>3, <2>2, NextHeap
    <2> QED
      BY <2>1, <2>3 DEF OrderInv
  <1>5. CASE Sift
    <2> DEFINE c == Larger(hole, HeapSize)
    <2>1. Sifting /\ c # hole /\ Swap(hole, c) /\ hole' = c /\ UNCHANGED <<phase, at>>
      BY <1>5 DEF Sift
    <2>2. phase \in {"heapify", "sift"} /\ NamesEachRow /\ LiveAhead /\ hole \in Nat
      BY <1>3, <2>1 DEF Sifting, BaseInv, LoopsInv, RowsInv, Sorting
    <2>3. CASE phase = "heapify"
      <3>1. HeapSize = LiveCount /\ at \in Nat /\ at <= hole /\ hole < LiveCount
        BY <1>3, <2>1, <2>3 DEF HeapSize, Sifting, LoopsInv
      <3>2. HeapOk(idx, at, LiveCount, hole)
        BY <1>2, <2>3 DEF OrderInv
      <3>3. HeapOk(idx', at, LiveCount, c)
        BY <1>1, <1>2, <1>3, <2>1, <2>2, <3>1, <3>2, SiftHeap
      <3>4. HeapOk(idx, at, LiveCount, hole)'
        BY <1>1, <1>3, <2>1, <3>3, NextHeap
      <3> QED
        BY <2>1, <2>3, <3>4 DEF OrderInv
    <2>4. CASE phase = "sift"
      <3>1. HeapSize = at /\ at \in Nat /\ at <= LiveCount /\ hole < at
        BY <1>3, <2>1, <2>4 DEF HeapSize, Sifting, LoopsInv
      <3>2. HeapOk(idx, 0, at, hole) /\ TailOk(idx, at)
        BY <1>2, <2>4 DEF OrderInv
      <3>3. HeapOk(idx', 0, at, c)
        BY <1>1, <1>2, <1>3, <2>1, <2>2, <3>1, <3>2, SiftHeap
      <3>4. HeapOk(idx, 0, at, hole)'
        BY <1>1, <2>1, <3>3, NextHeap
      <3>5. c \in Nat /\ c < at
        BY <2>1, <2>2, <3>1, LargerRow
      <3>6. hole \in Slots /\ c \in Slots
        BY <1>3, <2>2, <3>1, <3>5 DEF Slots
      <3>7. \A x \in Slots : idx'[x] = IF x = hole THEN idx[c] ELSE IF x = c THEN idx[hole] ELSE idx[x]
        <4> HIDE DEF c
        <4>1. hole \in 0..(LiveCount - 1) /\ c \in 0..(LiveCount - 1)
          BY <1>3, <2>2, <3>1, <3>5
        <4> QED
          BY <1>1, <1>3, <2>1, <2>2, <4>1, SwapRows
      <3> HIDE DEF c
      <3>8. ASSUME NEW i \in Slots, NEW j \in Slots, i < j, j >= at, j < LiveCount
            PROVE  Precedes(idx'[i], idx'[j])
        <4>1. hole < j /\ c < j /\ hole # j /\ c # j
          BY <1>3, <2>2, <3>1, <3>5, <3>8
        <4>2. idx'[j] = idx[j]
          BY <3>7, <4>1
        <4>3. \E x \in Slots : x < j /\ idx'[i] = idx[x]
          BY <3>6, <3>7, <3>8, <4>1
        <4> QED
          BY <3>2, <3>8, <4>2, <4>3 DEF TailOk
      <3>9. TailOk(idx', at)
        BY <3>8 DEF TailOk
      <3>10. TailOk(idx, at)'
        BY <1>1, <2>1, <3>9, NextTail
      <3> QED
        BY <2>1, <2>4, <3>4, <3>10 DEF OrderInv
    <2> QED
      BY <2>2, <2>3, <2>4
  <1>6. CASE Settle
    <2>1. /\ Sifting /\ Larger(hole, HeapSize) = hole /\ idx' = idx /\ at' = at - 1 /\ hole' = at - 1
          /\ phase' = IF phase = "sift" THEN "extract" ELSE "heapify"
      BY <1>6 DEF Settle, Goto
    <2>2. phase \in {"heapify", "sift"} /\ NamesEachRow /\ hole \in Nat
      BY <1>3, <2>1 DEF Sifting, BaseInv, LoopsInv, RowsInv, Sorting
    <2>3. CASE phase = "heapify"
      <3>1. HeapSize = LiveCount /\ at \in Nat /\ at <= hole /\ hole < LiveCount
        BY <1>3, <2>1, <2>3 DEF HeapSize, Sifting, LoopsInv
      <3>2. HeapOk(idx, at, LiveCount, hole)
        BY <1>2, <2>3 DEF OrderInv
      <3>3. \A p, c \in Slots : p >= at /\ Edge(p, c, LiveCount) => Precedes(idx[c], idx[p])
        BY <1>2, <1>3, <2>1, <2>2, <3>1, <3>2, SettledHeap
      <3>4. HeapOk(idx', at', LiveCount, hole')
        <4>1. \A p \in Slots : p >= at - 1 /\ p # at - 1 => p >= at
          BY <1>3, <3>1
        <4>2. \A p \in Slots : p >= at - 1 => ~Edge(p, at - 1, LiveCount)
          BY <1>3, <3>1 DEF Edge
        <4> QED
          BY <2>1, <3>3, <4>1, <4>2 DEF HeapOk
      <3>5. HeapOk(idx, at, LiveCount, hole)'
        BY <1>1, <1>3, <3>4, NextHeap
      <3> QED
        BY <2>1, <2>3, <3>5 DEF OrderInv
    <2>4. CASE phase = "sift"
      <3>1. HeapSize = at /\ at \in Nat /\ at <= LiveCount /\ hole < at
        BY <1>3, <2>1, <2>4 DEF HeapSize, Sifting, LoopsInv
      <3>2. HeapOk(idx, 0, at, hole) /\ TailOk(idx, at)
        BY <1>2, <2>4 DEF OrderInv
      <3>3. \A p, c \in Slots : p >= 0 /\ Edge(p, c, at) => Precedes(idx[c], idx[p])
        BY <1>2, <1>3, <2>1, <2>2, <3>1, <3>2, SettledHeap
      <3>4. at' + 1 = at
        BY <2>1, <3>1
      <3>5. HeapOk(idx', 0, at' + 1, -1) /\ TailOk(idx', at' + 1)
        <4>1. -1 \notin Slots
          BY <1>3
        <4> QED
          BY <2>1, <3>2, <3>3, <3>4, <4>1 DEF HeapOk
      <3>6. HeapOk(idx, 0, at + 1, -1)' /\ TailOk(idx, at + 1)'
        BY <1>1, <3>5, NextHeap, NextTail
      <3> QED
        BY <2>1, <2>4, <3>6 DEF OrderInv
    <2> QED
      BY <2>2, <2>3, <2>4
  <1>7. CASE Heapified
    <2>1. phase = "heapify" /\ at < 0 /\ at >= -1 /\ at \in Int /\ hole < 0 /\ hole \in Int /\ idx' = idx
          /\ phase' = "extract" /\ at' = LiveCount - 1
      BY <1>3, <1>7 DEF Heapified, Goto, LoopsInv, Sorting
    <2>2. HeapOk(idx, at, LiveCount, hole)
      BY <1>2, <2>1 DEF OrderInv
    <2>3. at' + 1 = LiveCount
      BY <1>3, <2>1
    <2>4. HeapOk(idx', 0, at' + 1, -1)
      <3>1. \A p \in Slots : p >= at /\ p # hole /\ p # -1
        BY <1>3, <2>1
      <3> QED
        BY <2>1, <2>2, <2>3, <3>1 DEF HeapOk
    <2>5. TailOk(idx', at' + 1)
      BY <1>3, <2>3 DEF TailOk
    <2>6. HeapOk(idx, 0, at + 1, -1)' /\ TailOk(idx, at + 1)'
      BY <1>1, <2>4, <2>5, NextHeap, NextTail
    <2> QED
      BY <2>1, <2>6 DEF OrderInv
  <1>8. CASE Extract
    <2>1. /\ phase = "extract" /\ at > 0 /\ at \in Nat /\ at < LiveCount /\ NamesEachRow /\ LiveAhead
          /\ Swap(0, at) /\ phase' = "sift" /\ hole' = 0 /\ at' = at
      BY <1>3, <1>8 DEF Extract, LoopsInv, BaseInv, RowsInv, Sorting
    <2>2. HeapOk(idx, 0, at + 1, -1) /\ TailOk(idx, at + 1)
      BY <1>2, <2>1 DEF OrderInv
    <2>3. 0 \in 0..(LiveCount - 1) /\ at \in 0..(LiveCount - 1) /\ 0 \in Slots /\ at \in Slots
      BY <1>3, <2>1 DEF Slots
    <2>4. \A x \in Slots : idx'[x] = IF x = 0 THEN idx[at] ELSE IF x = at THEN idx[0] ELSE idx[x]
      BY <1>1, <1>3, <2>1, <2>3, SwapRows
    <2>5. HeapOk(idx', 0, at, 0)
      <3>1. ASSUME NEW p \in Slots, NEW c \in Slots, p # 0, Edge(p, c, at)
            PROVE  Precedes(idx'[c], idx'[p])
        <4>1. p \in Nat /\ c \in Nat /\ c > p /\ c < at /\ Edge(p, c, at + 1)
          BY <1>3, <2>1, <3>1 DEF Edge
        <4>2. idx'[c] = idx[c] /\ idx'[p] = idx[p]
          BY <2>1, <2>4, <3>1, <4>1
        <4>3. p >= 0 /\ p # -1
          BY <4>1
        <4> QED
          BY <2>2, <4>1, <4>2, <4>3 DEF HeapOk
      <3>2. \A p \in Slots : ~Edge(p, 0, at)
        BY <1>3 DEF Edge
      <3> QED
        BY <3>1, <3>2 DEF HeapOk
    <2>6. \A i \in 1..at : Precedes(idx[i], idx[0])
      <3>1. at + 1 \in Nat /\ at + 1 <= LiveCount /\ (at + 1) - 1 = at
        BY <1>3, <2>1
      <3> QED
        BY <1>2, <1>3, <2>1, <2>2, <3>1, RootIsLast
    <2>7. TailOk(idx', at)
      <3> SUFFICES ASSUME NEW i \in Slots, NEW j \in Slots, i < j, j >= at, j < LiveCount
                   PROVE  Precedes(idx'[i], idx'[j])
        BY DEF TailOk
      <3>1. i \in Nat /\ j \in Nat
        BY <1>3
      <3>2. CASE j = at
        <4>1. idx'[j] = idx[0] /\ \E x \in 1..at : idx'[i] = idx[x]
          <5>1. i = 0 => idx'[i] = idx[at] /\ at \in 1..at
            BY <2>1, <2>4
          <5>2. i # 0 => idx'[i] = idx[i] /\ i \in 1..at
            BY <2>1, <2>4, <3>1, <3>2
          <5> QED
            BY <2>1, <2>4, <3>2, <5>1, <5>2
        <4> QED
          BY <2>6, <4>1
      <3>3. CASE j # at
        <4>1. j >= at + 1 /\ j # 0 /\ at < j
          BY <2>1, <3>1, <3>3
        <4>2. idx'[j] = idx[j]
          BY <2>4, <3>3, <4>1
        <4>3. \E x \in Slots : x < j /\ idx'[i] = idx[x]
          BY <2>1, <2>3, <2>4, <3>1, <4>1
        <4> QED
          BY <2>2, <4>1, <4>2, <4>3 DEF TailOk
      <3> QED
        BY <3>2, <3>3
    <2>8. HeapOk(idx, 0, at, hole)' /\ TailOk(idx, at)'
      BY <1>1, <2>1, <2>5, <2>7, NextHeap, NextTail
    <2> QED
      BY <2>1, <2>8 DEF OrderInv
  <1>9. CASE Extracted
    <2>1. phase = "extract" /\ at <= 0 /\ at \in Int /\ phase' = "sorted" /\ idx' = idx
      BY <1>3, <1>9 DEF Extracted, Goto, LoopsInv
    <2>2. TailOk(idx, at + 1)
      BY <1>2, <2>1 DEF OrderInv
    <2>3. TailOk(idx', 0)
      <3>1. \A i, j \in Slots : i < j => j >= at + 1
        BY <1>3, <2>1
      <3> QED
        BY <2>1, <2>2, <3>1 DEF TailOk
    <2>4. TailOk(idx, 0)'
      BY <1>1, <2>3, NextTail
    <2> QED
      BY <2>1, <2>4 DEF OrderInv
  <1> QED
    BY <1>4, <1>5, <1>6, <1>7, <1>8, <1>9
-----------------------------------------------------------------------------
(* Radix sort.  Division with remainder first.                              *)
LEMMA DivMod ==
    ASSUME NEW t \in Nat, NEW n \in Nat \ {0}
    PROVE  t = n * (t \div n) + (t % n) /\ t \div n \in Nat /\ t % n \in 0..(n - 1)
  <1>1. t % n \in 0..(n - 1)
    OBVIOUS
  <1>2. t \div n \in Nat
    BY Z3
  <1>3. t = n * (t \div n) + (t % n)
    BY Z3
  <1> QED
    BY <1>1, <1>2, <1>3

LEMMA Multiple ==
    ASSUME NEW n \in Nat \ {0}, NEW a \in Int, NEW b \in Int, a < b
    PROVE  n * a + n <= n * b /\ n * a \in Int /\ n * b \in Int
  <1>1. PICK d \in Nat : b = a + 1 + d
    <2>1. b - a - 1 \in Nat /\ b = a + 1 + (b - a - 1)
      OBVIOUS
    <2> QED
      BY <2>1
  <1>2. n * b = n * a + n + n * d /\ n * d >= 0 /\ n * d \in Int /\ n * a \in Int
    BY <1>1, Z3
  <1> QED
    BY <1>2

LEMMA ModIs ==
    ASSUME NEW n \in Nat \ {0}, NEW e \in Nat, NEW x \in 0..(n - 1), NEW t \in Nat, t = n * e + x
    PROVE  t % n = x
  <1> DEFINE f == t \div n
             y == t % n
  <1>1. t = n * f + y /\ f \in Nat /\ y \in 0..(n - 1)
    BY DivMod
  <1> HIDE DEF f, y
  <1>2. ~(e < f)
    <2> SUFFICES ASSUME e < f PROVE FALSE
      OBVIOUS
    <2>1. n * e + n <= n * f /\ n * e \in Int /\ n * f \in Int
      BY <1>1, Multiple
    <2> QED
      BY <1>1, <2>1
  <1>3. ~(f < e)
    <2> SUFFICES ASSUME f < e PROVE FALSE
      OBVIOUS
    <2>1. n * f + n <= n * e /\ n * e \in Int /\ n * f \in Int
      BY <1>1, Multiple
    <2> QED
      BY <1>1, <2>1
  <1>4. e = f
    BY <1>1, <1>2, <1>3
  <1>5. n * e \in Int
    BY Z3
  <1>6. x = y
    BY <1>1, <1>4, <1>5
  <1> QED
    BY <1>6 DEF y

(* The low digits of a number, one more than before.                        *)
LEMMA LowDigits ==
    ASSUME NEW t \in Nat, NEW w \in Nat \ {0}, NEW r \in Nat \ {0}
    PROVE  t % (w * r) = w * ((t \div w) % r) + (t % w)
  <1> DEFINE q == t \div w
             l == t % w
             e == q \div r
             d == q % r
  <1>1. t = w * q + l /\ q \in Nat /\ l \in 0..(w - 1)
    BY DivMod
  <1> HIDE DEF q, l
  <1>2. q = r * e + d /\ e \in Nat /\ d \in 0..(r - 1)
    BY <1>1, DivMod
  <1> HIDE DEF e, d
  <1> DEFINE n == w * r
             x == w * d + l
  <1>3. n \in Nat \ {0} /\ w * d \in Nat /\ x \in Nat
    <2>1. w * d \in Nat /\ w * r \in Nat /\ w * r # 0
      BY <1>2, Z3
    <2> QED
      BY <1>1, <2>1
  <1>4. x < n
    <2>1. d < r /\ d \in Int /\ r \in Int
      BY <1>2
    <2>2. w * d + w <= w * r /\ w * d \in Int /\ w * r \in Int
      BY <2>1, Multiple
    <2> QED
      BY <1>1, <2>2
  <1>5. t = n * e + x
    <2>1. w * (r * e + d) = (w * r) * e + w * d
      BY <1>2, Z3
    <2>2. (w * r) * e \in Nat
      BY <1>2, Z3
    <2> QED
      BY <1>1, <1>2, <1>3, <2>1, <2>2
  <1> HIDE DEF n, x
  <1>6. x \in 0..(n - 1)
    BY <1>3, <1>4
  <1>7. t % n = x
    BY <1>2, <1>3, <1>5, <1>6, ModIs
  <1> QED
    BY <1>7 DEF n, x, d, q, l

LEMMA Weights ==
    ASSUME NEW p \in 0..Digits
    PROVE  /\ Weight[p] \in Nat \ {0}
           /\ p < Digits => p + 1 \in 0..Digits /\ Weight[p + 1] = Weight[p] * Radix
  <1>1. Digits \in Nat /\ p \in Nat /\ p <= Digits
    BY SortAssumption
  <1>2. p < Digits => p + 1 \in 1..Digits /\ (p + 1) - 1 = p
    BY <1>1
  <1>3. \A q \in 1..Digits : Weight[q] = Weight[q - 1] * Radix
    BY SortAssumption
  <1>4. p < Digits => Weight[p + 1] = Weight[p] * Radix
    BY <1>2, <1>3
  <1> QED
    BY <1>1, <1>4, SortAssumption

LEMMA NextLow ==
    ASSUME InputOk, kind # "float", NEW r \in Slots, NEW p \in 0..Digits
    PROVE  /\ Low(r, p) \in 0..(Weight[p] - 1) /\ Digit(key[r], p) \in Nat
           /\ p < Digits => Low(r, p + 1) = Weight[p] * Digit(key[r], p) + Low(r, p)
  <1> DEFINE t == Transform(key[r])
  <1>1. t \in Nat
    BY WordType, Halves
  <1>2. Weight[p] \in Nat \ {0} /\ Radix \in Nat \ {0} /\ (p < Digits => Weight[p + 1] = Weight[p] * Radix)
    BY Weights, SortAssumption
  <1> HIDE DEF t
  <1>3. Low(r, p) \in 0..(Weight[p] - 1)
    BY <1>1, <1>2, DivMod DEF Low, t
  <1>4. t % (Weight[p] * Radix) = Weight[p] * ((t \div Weight[p]) % Radix) + (t % Weight[p])
    BY <1>1, <1>2, LowDigits
  <1>5. p < Digits => Low(r, p + 1) = Weight[p] * Digit(key[r], p) + Low(r, p)
    BY <1>2, <1>4 DEF Low, Digit, t
  <1>6. Digit(key[r], p) \in Nat
    BY <1>2, WordType
  <1> QED
    BY <1>3, <1>5, <1>6

LEMMA WordOrder ==
    ASSUME InputOk, kind # "float", NEW a \in Slots, NEW b \in Slots,
           Low(a, Digits) < Low(b, Digits) \/ (Low(a, Digits) = Low(b, Digits) /\ a < b)
    PROVE  Precedes(a, b)
  <1>1. \A r \in Slots : Low(r, Digits) = Transform(key[r]) /\ Transform(key[r]) \in Nat /\ key[r] \in Int
    <2> TAKE r \in Slots
    <2> DEFINE t == Transform(key[r])
    <2>1. t \in 0..(Span - 1) /\ Span \in Nat /\ Span > 0 /\ key[r] \in Int
      BY WordType, Halves
    <2> HIDE DEF t
    <2>2. t % Span = t /\ t \in Nat
      BY <2>1
    <2> QED
      BY <2>1, <2>2 DEF Low, t, Span
  <1>2. Span \in Nat /\ Half \in Nat /\ desc \in BOOLEAN /\ a \in Nat /\ b \in Nat
    BY Halves DEF InputOk, Slots
  <1> DEFINE x == key[a]
             y == key[b]
  <1>3. x \in Int /\ y \in Int
    BY <1>1
  <1>4. Transform(x) < Transform(y) \/ (Transform(x) = Transform(y) /\ a < b)
    BY <1>1
  <1>5. (IF x = y THEN a < b ELSE IF desc THEN x > y ELSE x < y) => Precedes(a, b)
    BY DEF Precedes
  <1> HIDE DEF x, y
  <1> QED
    BY <1>2, <1>3, <1>4, <1>5 DEF Transform

LEMMA RadixOrder ==
    ASSUME BaseInv, OrderInv, SortIntegers \/ RadixPass \/ Scattered
    PROVE  OrderInv'
  <1>1. UNCHANGED input
    BY DEF SortIntegers, RadixPass, Scattered
  <1>2. SUFFICES ASSUME Comparable PROVE OrderInv'
    BY <1>1, SameOrder DEF OrderInv
  <1>3. InputOk /\ LoopsInv /\ rows \in Nat /\ LiveCount \in 0..rows /\ LiveCount \in Nat /\ Slots \subseteq Nat
    BY DEF BaseInv, InputOk, Slots
  <1>4. CASE SortIntegers
    <2>1. phase = "built" /\ phase' = "radix" /\ at' = 0 /\ idx' = idx /\ kind # "float" /\ NamesEachRow
      BY <1>4 DEF SortIntegers, Goto, BaseInv, RowsInv, Sorting
    <2>2. \A r \in Slots : Low(r, 0) = 0
      <3> TAKE r \in Slots
      <3>1. 0 \in 0..Digits /\ Weight[0] = 1
        BY SortAssumption
      <3>2. Low(r, 0) \in 0..(1 - 1)
        BY <1>3, <2>1, <3>1, NextLow
      <3> QED
        BY <3>2
    <2>3. \A i, j \in Slots : i < j /\ j < LiveCount => idx[i] < idx[j]
      BY <1>2, <2>1 DEF OrderInv
    <2>4. RadixOk(idx', at')
      BY <2>1, <2>2, <2>3 DEF RadixOk, NamesEachRow
    <2>5. RadixOk(idx, at)'
      BY <1>1, <2>4, NextRadix
    <2> QED
      BY <2>1, <2>5 DEF OrderInv
  <1>5. CASE RadixPass
    <2>1. /\ phase = "radix" /\ phase' = "radix" /\ at' = at + 1 /\ at \in 0..Digits /\ at < Digits
          /\ kind # "float" /\ NamesEachRow /\ LiveAhead
      BY <1>3, <1>5 DEF RadixPass, Goto, BaseInv, LoopsInv, RowsInv, Sorting
    <2>2. RadixOk(idx, at)
      BY <1>2, <2>1 DEF OrderInv
    <2> DEFINE W == Weight[at]
               L(r) == Low(r, at)
               D(r) == Digit(key[r], at)
    <2>3. W \in Nat \ {0}
      BY <2>1, Weights
    <2>4. \A r \in Slots : L(r) \in 0..(W - 1) /\ D(r) \in Nat /\ Low(r, at + 1) = W * D(r) + L(r)
      BY <1>3, <2>1, NextLow
    <2>5. ASSUME NEW i \in Slots, NEW j \in Slots, i < j, j < LiveCount
          PROVE  \/ Low(idx'[i], at + 1) < Low(idx'[j], at + 1)
                 \/ Low(idx'[i], at + 1) = Low(idx'[j], at + 1) /\ idx'[i] < idx'[j]
      <3>1. PICK x, y \in 0..(LiveCount - 1) :
                /\ idx'[i] = idx[x] /\ idx'[j] = idx[y]
                /\ DigitAt(x) < DigitAt(y) \/ (DigitAt(x) = DigitAt(y) /\ x < y)
        BY <1>3, <1>5, <2>1, <2>5, ScatteredRows
      <3>2. x \in Slots /\ y \in Slots /\ y < LiveCount
        BY <1>3 DEF Slots
      <3> DEFINE a == idx[x]
                 b == idx[y]
      <3>3. a \in Slots /\ b \in Slots
        BY <2>1, <3>2 DEF NamesEachRow
      <3>4. D(a) < D(b) \/ (D(a) = D(b) /\ x < y)
        BY <3>1 DEF DigitAt
      <3>5. x < y => L(a) < L(b) \/ (L(a) = L(b) /\ a < b)
        BY <2>2, <3>2 DEF RadixOk
      <3>6. /\ L(a) \in 0..(W - 1) /\ D(a) \in Nat /\ Low(a, at + 1) = W * D(a) + L(a)
            /\ L(b) \in 0..(W - 1) /\ D(b) \in Nat /\ Low(b, at + 1) = W * D(b) + L(b)
        BY <2>4, <3>3
      <3> HIDE DEF W, L, D, a, b
      <3>7. W * D(a) \in Int /\ W * D(b) \in Int
        BY <2>3, <3>6, Z3
      <3>8. CASE D(a) < D(b)
        <4>1. W * D(a) + W <= W * D(b)
          BY <2>3, <3>6, <3>8, Multiple
        <4>2. Low(a, at + 1) < Low(b, at + 1)
          BY <2>3, <3>6, <3>7, <4>1
        <4> QED
          BY <3>1, <4>2 DEF a, b
      <3>9. CASE D(a) = D(b) /\ x < y
        <4>1. Low(a, at + 1) < Low(b, at + 1) \/ (Low(a, at + 1) = Low(b, at + 1) /\ a < b)
          BY <3>5, <3>6, <3>7, <3>9
        <4> QED
          BY <3>1, <4>1 DEF a, b
      <3> QED
        BY <3>4, <3>8, <3>9
    <2>6. RadixOk(idx', at')
      BY <2>1, <2>5 DEF RadixOk
    <2>7. RadixOk(idx, at)'
      BY <1>1, <2>6, NextRadix
    <2> QED
      BY <2>1, <2>7 DEF OrderInv
  <1>6. CASE Scattered
    <2>1. phase = "radix" /\ phase' = "sorted" /\ at = Digits /\ idx' = idx /\ kind # "float" /\ NamesEachRow
      BY <1>3, <1>6 DEF Scattered, Goto, BaseInv, LoopsInv, RowsInv, Sorting
    <2>2. RadixOk(idx, Digits)
      BY <1>2, <2>1 DEF OrderInv
    <2>3. ASSUME NEW i \in Slots, NEW j \in Slots, i < j, j < LiveCount
          PROVE  Precedes(idx[i], idx[j])
      <3>1. idx[i] \in Slots /\ idx[j] \in Slots
        BY <2>1 DEF NamesEachRow
      <3>2. \/ Low(idx[i], Digits) < Low(idx[j], Digits)
            \/ Low(idx[i], Digits) = Low(idx[j], Digits) /\ idx[i] < idx[j]
        BY <2>2, <2>3 DEF RadixOk
      <3> QED
        BY <1>3, <2>1, <3>1, <3>2, WordOrder
    <2>4. TailOk(idx', 0)
      BY <2>1, <2>3 DEF TailOk
    <2>5. TailOk(idx, 0)'
      BY <1>1, <2>4, NextTail
    <2> QED
      BY <2>1, <2>5 DEF OrderInv
  <1> QED
    BY <1>4, <1>5, <1>6
-----------------------------------------------------------------------------
(* All algorithms together.                                                 *)
LEMMA OrderStep == BaseInv /\ OrderInv /\ [SortNext]_sortVars => OrderInv'
  <1> SUFFICES ASSUME BaseInv, OrderInv, [SortNext]_sortVars PROVE OrderInv'
    OBVIOUS
  <1>1. CASE Build
    <2>1. UNCHANGED input /\ phase' = "built" /\ InputOk /\ idx' = LiveFirst
      BY <1>1 DEF Build, Goto, BaseInv
    <2>2. Slots' = Slots /\ LiveCount' = LiveCount
      BY <2>1, SameInput
    <2>3. \A i, j \in Slots : i < j /\ j < LiveCount => idx'[i] < idx'[j]
      BY <2>1, BuiltRows
    <2> QED
      BY <2>1, <2>2, <2>3 DEF OrderInv
  <1>2. CASE Permute \/ PassOver \/ OpenCycle \/ Follow \/ CloseCycle \/ Permuted
    <2>1. phase' \in {"apply", "cycle", "done"}
      BY <1>2 DEF Permute, PassOver, OpenCycle, Follow, CloseCycle, Permuted, Goto
    <2> QED
      BY <2>1 DEF OrderInv
  <1>3. CASE UNCHANGED sortVars
    <2>1. UNCHANGED input /\ idx' = idx /\ phase' = phase /\ at' = at /\ hole' = hole
      BY <1>3 DEF sortVars, loopVars
    <2>2. Slots' = Slots /\ LiveCount' = LiveCount /\ (Comparable' <=> Comparable)
      BY <2>1, SameInput, SameOrder
    <2>3. InsertOk => InsertOk'
      BY <2>1, <2>2, NextOrder DEF InsertOk, Ordered
    <2>4. /\ HeapOk(idx, at, LiveCount, hole) => HeapOk(idx, at, LiveCount, hole)'
          /\ HeapOk(idx, 0, at + 1, -1) => HeapOk(idx, 0, at + 1, -1)'
          /\ HeapOk(idx, 0, at, hole) => HeapOk(idx, 0, at, hole)'
      BY <2>1, <2>2, NextHeap
    <2>5. /\ TailOk(idx, at + 1) => TailOk(idx, at + 1)'
          /\ TailOk(idx, at) => TailOk(idx, at)'
          /\ TailOk(idx, 0) => TailOk(idx, 0)'
      BY <2>1, NextTail
    <2>6. RadixOk(idx, at) => RadixOk(idx, at)'
      BY <2>1, NextRadix
    <2> QED
      BY <2>1, <2>2, <2>3, <2>4, <2>5, <2>6 DEF OrderInv
  <1> QED
    BY <1>1, <1>2, <1>3, InsertOrder, HeapOrder, RadixOrder DEF SortNext

LEMMA OrderStart == SortInit => OrderInv
  BY DEF SortInit, OrderInv

LEMMA StableOrderHolds == BaseInv /\ OrderInv => SortedStable
  <1> SUFFICES ASSUME BaseInv, OrderInv PROVE SortedStable
    OBVIOUS
  <1>1. ASSUME Sorting PROVE {idx[i] : i \in Slots} = Slots
    <2>1. CASE phase = "start"
      BY <2>1 DEF BaseInv
    <2>2. CASE phase # "start"
      <3>1. NamesEachRow /\ InputOk
        BY <1>1, <2>2 DEF BaseInv, RowsInv
      <3>2. \A r \in Slots : \E i \in Slots : idx[i] = r
        BY <3>1, Surjective
      <3> QED
        BY <3>1, <3>2 DEF NamesEachRow
    <2> QED
      BY <2>1, <2>2
  <1>2. ASSUME phase = "sorted", Comparable PROVE idx = StableOrder
    <2>1. NamesEachRow /\ LiveAhead /\ InputOk /\ TailOk(idx, 0)
      BY <1>2 DEF BaseInv, RowsInv, Sorting, OrderInv
    <2> QED
      BY <1>2, <2>1, StableRows
  <1> QED
    BY <1>1, <1>2 DEF SortedStable, Sorting

(***************************************************************************)
(* sort puts the live rows into the stable order of their keys: whichever   *)
(* of the insertion sort, the radix sort and the heapsort emit_sort picked, *)
(* for every number of rows, every set of tombstoned rows, every key width  *)
(* and kind, ascending and descending; and at no step, NaN keys included,   *)
(* does the index array lose a row or name one twice.                       *)
(***************************************************************************)
THEOREM SortsAreStable == SortSpec => []SortedStable
  <1>1. SortInit => BaseInv /\ OrderInv
    BY BaseStart, OrderStart
  <1>2. BaseInv /\ OrderInv /\ [SortNext]_sortVars => (BaseInv /\ OrderInv)'
    BY BaseStep, OrderStep
  <1> QED
    BY <1>1, <1>2, StableOrderHolds, PTL DEF SortSpec
-----------------------------------------------------------------------------
(* Following the cycles.                                                    *)
LEMMA ServedStart ==
    ASSUME PerRow = 1, SortInit
    PROVE  ServedInv
  <1>1. rows \in Nat /\ phase = "start" /\ moved = [i \in 0..(rows * PerRow - 1) |-> i]
    BY SortAssumption DEF SortInit
  <1>2. 0..(rows * PerRow - 1) = Slots
    BY <1>1 DEF Slots
  <1>3. moved = [i \in Slots |-> i]
    BY <1>1, <1>2
  <1>4. moved \in [Slots -> Int]
    BY <1>1, <1>3 DEF Slots
  <1> QED
    BY <1>1, <1>3, <1>4 DEF ServedInv, Sorting

LEMMA ServedSteps ==
    ASSUME BaseInv, ServedInv, [SortNext]_sortVars
    PROVE  ServedInv'
  <1>1. rows \in Nat /\ at \in Int /\ Slots \subseteq Nat /\ InputOk
    BY DEF BaseInv, InputOk, LoopsInv, Slots
  <1>2. UNCHANGED input => Slots' = Slots
    BY SameInput
  <1>3. ASSUME UNCHANGED <<input, moved>>, Sorting, Sorting'
        PROVE  ServedInv'
    <2>1. phase' \notin {"apply", "cycle", "done"}
      BY <1>3 DEF Sorting
    <2> QED
      BY <1>2, <1>3, <2>1 DEF ServedInv
  <1>4. CASE Build \/ SortFew \/ SortIntegers \/ SortFloats \/ Inserted \/ Heapified \/ Extract \/ Extracted
    BY <1>3, <1>4 DEF Build, SortFew, SortIntegers, SortFloats, Inserted, Heapified, Extract, Extracted,
                      Goto, Sorting
  <1>5. CASE Sink \/ Sunk \/ Sift \/ Settle \/ RadixPass \/ Scattered
    BY <1>3, <1>5 DEF Sink, Sunk, Sift, Settle, Sifting, RadixPass, Scattered, Goto, Sorting
  <1>6. CASE Permute
    <2>1. phase = "sorted" /\ phase' = "apply" /\ at' = 0 /\ UNCHANGED <<input, idx, moved>>
      BY <1>6 DEF Permute, Goto
    <2>2. NamesEachRow /\ moved = [i \in Slots |-> i]
      BY <2>1 DEF BaseInv, RowsInv, ServedInv, Sorting
    <2>n. \A i \in Slots : idx[i] \in Slots /\ idx[i] \in Nat /\ i \in Nat
      BY <1>1, <2>2 DEF NamesEachRow
    <2>3. \A i \in Slots : Open(idx, i) /\ idx[i] \in Slots /\ Source(i) = idx[i] /\ ~(i < 0)
      BY <2>n DEF Open, Source
    <2>4. \A i : (Open(idx, i) <=> Open(idx', i)) /\ Source(i) = Source(i)'
      BY <2>1 DEF Open, Source
    <2>5. idx \in [Slots -> Int] /\ moved \in [Slots -> Int]
      BY <2>2, <2>n DEF NamesEachRow
    <2>6. \A i, j \in Slots : Source(i) = Source(j) => i = j
      BY <2>2, <2>3 DEF NamesEachRow
    <2>7. Served'
      BY <1>2, <2>1, <2>3, <2>4, <2>5, <2>6 DEF Served
    <2>8. Between'
      BY <1>2, <2>1, <2>2, <2>3 DEF Between
    <2> QED
      BY <1>2, <2>1, <2>5, <2>7, <2>8 DEF ServedInv, Sorting
  <1>7. CASE PassOver
    <2>1. phase = "apply" /\ phase' = "apply" /\ at' = at + 1 /\ UNCHANGED <<input, idx, moved>> /\ idx[at] < 0
      BY <1>7 DEF PassOver, Goto
    <2>2. \A i : (Open(idx, i) <=> Open(idx', i)) /\ Source(i) = Source(i)'
      BY <2>1 DEF Open, Source
    <2>3. \A i \in Slots : i < at + 1 => i < at \/ i = at
      BY <1>1
    <2>4. at \in Slots => ~Open(idx, at)
      BY <2>1 DEF ServedInv, Served, Sorting, Open
    <2>5. at + 1 >= 0
      BY <1>1, <2>1 DEF ServedInv, Between
    <2>6. Served /\ Between
      BY <2>1 DEF ServedInv, Sorting
    <2>7. Served'
      BY <1>2, <2>1, <2>2, <2>6 DEF Served
    <2>8. Between'
      BY <1>2, <2>1, <2>3, <2>4, <2>5, <2>6 DEF Between
    <2> QED
      BY <1>2, <2>1, <2>7, <2>8 DEF ServedInv, Sorting
  <1>8. CASE OpenCycle
    <2>1. /\ phase = "apply" /\ phase' = "cycle" /\ at' = at /\ hole' = at /\ UNCHANGED <<input, idx, moved>>
          /\ at < rows /\ idx[at] >= 0 /\ temp' = moved[at]
      BY <1>8 DEF OpenCycle, Goto
    <2>2. \A i : (Open(idx, i) <=> Open(idx', i)) /\ Source(i) = Source(i)'
      BY <2>1 DEF Open, Source
    <2>3. at \in Slots /\ Open(idx, at)
      BY <1>1, <2>1 DEF ServedInv, Between, Slots, Open
    <2>4. Served /\ Between
      BY <2>1 DEF ServedInv, Sorting
    <2>5. temp' = at
      BY <2>1, <2>3, <2>4 DEF Between
    <2>6. Served'
      BY <1>2, <2>1, <2>2, <2>4 DEF Served
    <2>7. Inside'
      BY <1>2, <2>1, <2>3, <2>4, <2>5 DEF Inside, Between
    <2> QED
      BY <1>2, <2>1, <2>6, <2>7 DEF ServedInv, Sorting
  <1>9. CASE Follow
    <2> DEFINE n == idx[hole]
    <2>1. /\ phase = "cycle" /\ phase' = "cycle" /\ at' = at /\ hole' = n /\ temp' = temp /\ UNCHANGED input
          /\ n # at /\ moved' = [moved EXCEPT ![hole] = moved[n]] /\ idx' = [idx EXCEPT ![hole] = -1 - n]
      BY <1>9 DEF Follow, Mark
    <2>2. /\ idx \in [Slots -> Int] /\ moved \in [Slots -> Int]
          /\ \A i \in Slots : Source(i) \in Slots
          /\ \A i, j \in Slots : Source(i) = Source(j) => i = j
          /\ \A i \in Slots : ~Open(idx, i) => moved[i] = Source(i)
          /\ at \in Slots /\ hole \in Slots /\ Open(idx, hole) /\ temp = at
          /\ \A i \in Slots : i < at \/ (i = at /\ at # hole) => ~Open(idx, i)
          /\ \A i \in Slots : Open(idx, i) => i = hole \/ moved[i] = i
          /\ \A i \in Slots : Open(idx, i) => idx[i] = at \/ (Open(idx, idx[i]) /\ idx[i] # hole)
      BY <2>1 DEF ServedInv, Served, Inside, Sorting
    <2>3. \A i \in Slots : Open(idx, i) => Source(i) = idx[i] /\ idx[i] \in Slots
      BY <2>2 DEF Open, Source
    <2>4. n \in Slots /\ Open(idx, n) /\ n # hole /\ moved[n] = n /\ n \in Nat
      BY <1>1, <2>1, <2>2, <2>3
    <2> HIDE DEF n
    <2>5. \A i \in Slots : /\ idx'[i] = IF i = hole THEN -1 - n ELSE idx[i]
                           /\ moved'[i] = IF i = hole THEN n ELSE moved[i]
      BY <2>1, <2>2, <2>4
    <2>6. \A i \in Slots : (Open(idx', i) <=> Open(idx, i) /\ i # hole) /\ Source(i)' = Source(i)
      <3> TAKE i \in Slots
      <3>1. CASE i = hole
        BY <2>2, <2>3, <2>4, <2>5, <3>1 DEF Open, Source, n
      <3>2. CASE i # hole
        BY <2>5, <3>2 DEF Open, Source
      <3> QED
        BY <3>1, <3>2
    <2>7. idx' \in [Slots -> Int] /\ moved' \in [Slots -> Int]
      BY <1>1, <2>1, <2>2, <2>4
    <2>8. \A i \in Slots : ~Open(idx', i) => moved'[i] = Source(i)
      BY <2>2, <2>3, <2>5, <2>6 DEF n
    <2>9. Open(idx', n)
      BY <2>4, <2>6
    <2>10. \A i \in Slots : i < at \/ (i = at /\ at # n) => ~Open(idx', i)
      BY <2>2, <2>6
    <2>11. \A i \in Slots : Open(idx', i) => i = n \/ moved'[i] = i
      BY <2>2, <2>5, <2>6
    <2>12. \A i \in Slots : Open(idx', i) => idx'[i] = at \/ (Open(idx', idx'[i]) /\ idx'[i] # n)
      <3> SUFFICES ASSUME NEW i \in Slots, Open(idx, i), i # hole, idx[i] # at
                   PROVE  Open(idx', idx[i]) /\ idx[i] # n
        BY <2>5, <2>6
      <3>1. Open(idx, idx[i]) /\ idx[i] # hole /\ idx[i] \in Slots
        BY <2>2, <2>3
      <3>2. idx[i] # n
        BY <2>2, <2>3 DEF n
      <3> QED
        BY <2>6, <3>1, <3>2
    <2>13. Served'
      <3>1. \A i \in Slots : Source(i)' \in Slots
        BY <2>2, <2>6
      <3>2. \A i, j \in Slots : Source(i)' = Source(j)' => i = j
        BY <2>2, <2>6
      <3>3. \A i \in Slots : ~Open(idx', i) => moved'[i] = Source(i)'
        BY <2>6, <2>8
      <3> QED
        BY <1>2, <2>1, <2>7, <3>1, <3>2, <3>3 DEF Served
    <2>14. Inside'
      BY <1>2, <2>1, <2>2, <2>4, <2>9, <2>10, <2>11, <2>12 DEF Inside
    <2> QED
      BY <1>2, <2>1, <2>7, <2>13, <2>14 DEF ServedInv, Sorting
  <1>10. CASE CloseCycle
    <2>1. /\ phase = "cycle" /\ phase' = "apply" /\ at' = at + 1 /\ UNCHANGED input
          /\ idx[hole] = at /\ moved' = [moved EXCEPT ![hole] = temp] /\ idx' = [idx EXCEPT ![hole] = -1 - at]
      BY <1>10 DEF CloseCycle, Mark, Goto
    <2>2. /\ idx \in [Slots -> Int] /\ moved \in [Slots -> Int]
          /\ \A i \in Slots : Source(i) \in Slots
          /\ \A i, j \in Slots : Source(i) = Source(j) => i = j
          /\ \A i \in Slots : ~Open(idx, i) => moved[i] = Source(i)
          /\ at \in Slots /\ hole \in Slots /\ Open(idx, hole) /\ temp = at
          /\ \A i \in Slots : i < at \/ (i = at /\ at # hole) => ~Open(idx, i)
          /\ \A i \in Slots : Open(idx, i) => i = hole \/ moved[i] = i
          /\ \A i \in Slots : Open(idx, i) => idx[i] = at \/ (Open(idx, idx[i]) /\ idx[i] # hole)
      BY <2>1 DEF ServedInv, Served, Inside, Sorting
    <2>3. \A i \in Slots : Open(idx, i) => Source(i) = idx[i] /\ idx[i] \in Slots
      BY <2>2 DEF Open, Source
    <2>4. at \in Nat
      BY <1>1, <2>2
    <2>5. \A i \in Slots : /\ idx'[i] = IF i = hole THEN -1 - at ELSE idx[i]
                           /\ moved'[i] = IF i = hole THEN at ELSE moved[i]
      BY <2>1, <2>2
    <2>6. \A i \in Slots : (Open(idx', i) <=> Open(idx, i) /\ i # hole) /\ Source(i)' = Source(i)
      <3> TAKE i \in Slots
      <3>1. CASE i = hole
        BY <2>1, <2>2, <2>3, <2>4, <2>5, <3>1 DEF Open, Source
      <3>2. CASE i # hole
        BY <2>5, <3>2 DEF Open, Source
      <3> QED
        BY <3>1, <3>2
    <2>7. idx' \in [Slots -> Int] /\ moved' \in [Slots -> Int]
      BY <1>1, <2>1, <2>2, <2>4
    <2>8. \A i \in Slots : ~Open(idx', i) => moved'[i] = Source(i)
      BY <2>1, <2>2, <2>3, <2>5, <2>6
    <2>9. \A i \in Slots : i < at + 1 => ~Open(idx', i)
      <3>1. \A i \in Slots : i < at + 1 => i < at \/ i = at
        BY <1>1
      <3> QED
        BY <2>2, <2>6, <3>1
    <2>10. \A i \in Slots : Open(idx', i) => moved'[i] = i /\ Open(idx', idx'[i])
      <3> SUFFICES ASSUME NEW i \in Slots, Open(idx, i), i # hole
                   PROVE  moved[i] = i /\ Open(idx', idx[i])
        BY <2>5, <2>6
      <3>1. idx[i] # at
        BY <2>1, <2>2, <2>3
      <3>2. Open(idx, idx[i]) /\ idx[i] # hole /\ idx[i] \in Slots
        BY <2>2, <2>3, <3>1
      <3> QED
        BY <2>2, <2>6, <3>2
    <2>11. at + 1 >= 0
      BY <2>4
    <2>12. Served'
      <3>1. \A i \in Slots : Source(i)' \in Slots
        BY <2>2, <2>6
      <3>2. \A i, j \in Slots : Source(i)' = Source(j)' => i = j
        BY <2>2, <2>6
      <3>3. \A i \in Slots : ~Open(idx', i) => moved'[i] = Source(i)'
        BY <2>6, <2>8
      <3> QED
        BY <1>2, <2>1, <2>7, <3>1, <3>2, <3>3 DEF Served
    <2>13. Between'
      BY <1>2, <2>1, <2>9, <2>10, <2>11 DEF Between
    <2> QED
      BY <1>2, <2>1, <2>7, <2>12, <2>13 DEF ServedInv, Sorting
  <1>11. CASE Permuted
    <2>1. phase = "apply" /\ phase' = "done" /\ UNCHANGED <<input, idx, moved>> /\ at >= rows
      BY <1>11 DEF Permuted, Goto
    <2>2. \A i : (Open(idx, i) <=> Open(idx', i)) /\ Source(i) = Source(i)'
      BY <2>1 DEF Open, Source
    <2>3. \A i \in Slots : i < at
      BY <1>1, <2>1 DEF Slots
    <2>4. Served /\ Between
      BY <2>1 DEF ServedInv, Sorting
    <2>5. Served'
      BY <1>2, <2>1, <2>2, <2>4 DEF Served
    <2>6. \A i \in Slots : ~Open(idx', i)
      BY <2>1, <2>3, <2>4 DEF Between
    <2> QED
      BY <1>2, <2>1, <2>5, <2>6 DEF ServedInv, Sorting
  <1>12. CASE UNCHANGED sortVars
    <2>1. UNCHANGED <<input, idx, moved, temp, phase, at, hole>>
      BY <1>12 DEF sortVars, loopVars
    <2>2. \A i : (Open(idx, i) <=> Open(idx', i)) /\ Source(i) = Source(i)'
      BY <2>1 DEF Open, Source
    <2>3. (Served => Served') /\ (Between => Between') /\ (Inside => Inside')
      BY <1>2, <2>1, <2>2 DEF Served, Between, Inside
    <2> QED
      BY <1>2, <2>1, <2>3 DEF ServedInv, Sorting
  <1> QED
    BY <1>4, <1>5, <1>6, <1>7, <1>8, <1>9, <1>10, <1>11, <1>12 DEF SortNext

(***************************************************************************)
(* Permuting a column in place by following the cycles of the index array,  *)
(* the sign bit marking what is done, brings to every row the element its   *)
(* index entry names, for every number of rows and every order: no column   *)
(* of one element per row is left half moved.  Columns of several elements  *)
(* per row are not moved whole by the code, so the theorem says which.      *)
(***************************************************************************)
THEOREM ColumnsAreMovedWhole == ASSUME PerRow = 1 PROVE SortSpec => []RowsStayAligned
  <1>1. SortInit => BaseInv /\ ServedInv
    BY BaseStart, ServedStart
  <1>2. BaseInv /\ ServedInv /\ [SortNext]_sortVars => (BaseInv /\ ServedInv)'
    BY BaseStep, ServedSteps
  <1>3. BaseInv /\ ServedInv => RowsStayAligned
    <2> SUFFICES ASSUME BaseInv, ServedInv, phase = "done", NEW i \in Slots, NEW j \in 0..(PerRow - 1)
                 PROVE  moved[i * PerRow + j] = Source(i) * PerRow + j
      BY DEF RowsStayAligned
    <2>1. j = 0 /\ i \in Nat /\ Slots \subseteq Nat
      BY DEF Slots, BaseInv, InputOk
    <2>2. moved[i] = Source(i) /\ Source(i) \in Nat
      BY <2>1 DEF ServedInv, Served, Sorting
    <2>3. i * PerRow + j = i /\ Source(i) * PerRow + j = Source(i)
      BY <2>1, <2>2
    <2> QED
      BY <2>2, <2>3
  <1> QED
    BY <1>1, <1>2, <1>3, PTL DEF SortSpec
=============================================================================
