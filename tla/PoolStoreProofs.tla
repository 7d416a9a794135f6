-------------------------- MODULE PoolStoreProofs --------------------------
(***************************************************************************)
(* Handles and the free list are sound, destructors run exactly once, the   *)
(* pool implements the abstract store, and sorts keep what the pool holds,  *)
(* for every capacity, generation width and policy.                         *)
(***************************************************************************)
EXTENDS PoolProofs

(* A slot that was never used has generation 0; used rows hold different    *)
(* entities; a tombstone carries a generation that was bumped.              *)
RowsInv ==
    /\ \A s \in Slots : s >= count => gen[s] = 0
    /\ \A s \in Slots : s < count => val[s] \in 1..next
    /\ \A s, u \in Slots : s < count /\ u < count /\ val[s] = val[u] => s = u
    /\ \A s \in Slots : gen[s] < 0 => Low(gen[s]) >= 1

FreeInv ==
    /\ freeCount \in 1..Cap
    /\ {freeList[i] : i \in 1..(freeCount - 1)} = DeadSlots
    /\ \A i, j \in 1..(freeCount - 1) : freeList[i] = freeList[j] => i = j

(* A handle's generation is never ahead of its slot's, is behind that of a  *)
(* tombstone, and is the slot's own exactly while its entity is in there.   *)
HandleInv(he) ==
    LET s == he[1].slot IN
    /\ s \in Slots /\ s < count /\ he[2] <= next
    /\ he[1].gen <= Low(gen[s])
    /\ gen[s] < 0 => he[1].gen < Low(gen[s])
    /\ gen[s] = he[1].gen => val[s] = he[2]
    /\ \A u \in Slots : LiveRow(u) /\ val[u] = he[2] => u = s /\ gen[s] = he[1].gen

HandlesInv ==
    \A he \in held :
        IF he[2] = NoEnt THEN he[1] = Zero /\ count = Cap ELSE HandleInv(he)

RegularInv == RowsInv /\ FreeInv /\ HandlesInv /\ RefusedOnlyWhenFullAlways

PoolInv == TypeInv /\ (Regular => RegularInv)

-----------------------------------------------------------------------------
(* The ranges the steps below need, taken from the type invariant.          *)
LEMMA Ranges ==
    ASSUME TypeOK
    PROVE  /\ Cap \in Nat \ {0} /\ MaxEnt \in Nat /\ InitLen \in Nat /\ GenMax \in Nat \ {0}
           /\ next \in Nat /\ count \in 0..Cap /\ freeCount \in 0..(Cap + 1) /\ sorts \in Nat
           /\ freeList \in [Slots -> Slots] /\ gen \in [Slots -> Words]
           /\ val \in [Slots -> 0..MaxEnt]
           /\ Slots \subseteq Nat /\ \A i \in Nat : i \in Slots <=> i < Cap
           /\ Words \subseteq Int
  <1>1. Cap \in Nat \ {0} /\ MaxEnt \in Nat /\ InitLen \in Nat /\ GenMax \in Nat \ {0} /\ MaxSorts \in Nat
    BY PoolAssumption
  <1>2. next \in InitLen..MaxEnt /\ count \in 0..Cap /\ freeCount \in 0..(Cap + 1) /\ sorts \in 0..MaxSorts
    BY DEF TypeOK
  <1>3. freeList \in [Slots -> Slots] /\ gen \in [Slots -> Words] /\ val \in [Slots -> 0..MaxEnt]
    BY DEF TypeOK
  <1>4. Slots \subseteq Nat /\ \A i \in Nat : i \in Slots <=> i < Cap
    BY <1>1 DEF Slots
  <1>5. Words \subseteq Int
    BY <1>1 DEF Words, Modulus
  <1> QED
    BY <1>1, <1>2, <1>3, <1>4, <1>5

(* A pair the program holds is a handle with an entity.                     *)
LEMMA HeldTypes ==
    ASSUME TypeOK, NEW he \in held
    PROVE  /\ he[1] \in Handles /\ he[1].slot \in Nat /\ he[1].gen \in 0..GenMax
           /\ he[2] \in 0..MaxEnt
  BY DEF TypeOK, Issues, Handles

(* A row stored under a generation newer than every handle of its slot      *)
(* keeps rows and handles apart.                                            *)
LEMMA WriteRowInv ==
    ASSUME TypeOK, Offer, NEW s \in Slots, NEW evict \in BOOLEAN, WriteRow(s, evict),
           RowsInv, HandlesInv,
           count' \in 0..Cap, count <= count', s < count',
           \A u \in Slots : u < count' => u < count \/ u = s,
           \A he \in held : he[2] # NoEnt /\ he[1].slot = s => he[1].gen < IssuedGen(s, evict)
    PROVE  RowsInv' /\ HandlesInv'
  <1> DEFINE g == IssuedGen(s, evict)
             h == [slot |-> s, gen |-> g]
  <1>1. /\ val' = [val EXCEPT ![s] = next + 1] /\ gen' = [gen EXCEPT ![s] = g]
        /\ held' = held \cup {<<h, next + 1>>}
        /\ next' = next + 1
    BY DEF WriteRow, Offer
  <1>2. g \in 1..GenMax
    BY IssuedFacts DEF TypeOK
  <1>3. /\ Cap \in Nat \ {0} /\ GenMax \in Nat \ {0} /\ next \in Nat /\ count \in 0..Cap
        /\ Slots \subseteq Nat /\ Words \subseteq Int
    BY Ranges
  <1>4. gen \in [Slots -> Words] /\ val \in [Slots -> 0..MaxEnt]
    BY Ranges
  <1> HIDE DEF g
  <1>5. /\ val'[s] = next + 1 /\ gen'[s] = g
        /\ \A u \in Slots : u # s => val'[u] = val[u] /\ gen'[u] = gen[u]
    BY <1>1, <1>4
  <1>6. Low(gen'[s]) = g
    <2>1. g \in Words /\ g >= 0
      BY <1>2, <1>3 DEF Words, Modulus
    <2> QED
      BY <1>5, <2>1, WordFacts
  <1>7. \A u \in Slots : u < count' /\ u # s => u < count /\ val'[u] \in 1..next
    BY <1>5 DEF RowsInv
  <1>8. RowsInv'
    <2>1. \A u \in Slots : u >= count' => gen'[u] = 0
      <3> SUFFICES ASSUME NEW u \in Slots, u >= count' PROVE gen'[u] = 0
        OBVIOUS
      <3>1. u # s /\ u >= count
        BY <1>3
      <3> QED
        BY <1>5, <3>1 DEF RowsInv
    <2>2. \A u \in Slots : u < count' => val'[u] \in 1..next'
      BY <1>1, <1>3, <1>5, <1>7
    <2>3. \A u, v \in Slots : u < count' /\ v < count' /\ val'[u] = val'[v] => u = v
      <3> SUFFICES ASSUME NEW u \in Slots, NEW v \in Slots, u < count', v < count', val'[u] = val'[v]
                   PROVE  u = v
        OBVIOUS
      <3>1. CASE u = s
        BY <1>3, <1>5, <1>7, <3>1
      <3>2. CASE v = s
        BY <1>3, <1>5, <1>7, <3>2
      <3>3. CASE u # s /\ v # s
        BY <1>5, <1>7, <3>3 DEF RowsInv
      <3> QED
        BY <3>1, <3>2, <3>3
    <2>4. \A u \in Slots : gen'[u] < 0 => Low(gen'[u]) >= 1
      <3>1. ~(gen'[s] < 0)
        BY <1>2, <1>3, <1>5
      <3> QED
        BY <1>5, <3>1 DEF RowsInv
    <2> QED
      BY <2>1, <2>2, <2>3, <2>4 DEF RowsInv
  <1>9. ASSUME NEW u \in Slots, u < count', gen'[u] >= 0, u # s PROVE LiveRow(u)
    BY <1>5, <1>7, <1>9 DEF LiveRow
  <1>10. ASSUME NEW he, he = <<h, next + 1>> PROVE HandleInv(he)'
    <2>1. \A u \in Slots : u < count' /\ val'[u] = next + 1 => u = s
      BY <1>3, <1>7
    <2>2. ~(g < 0) /\ g <= g /\ next + 1 <= next + 1
      BY <1>2, <1>3
    <2>3. he[1].slot = s /\ he[1].gen = g /\ he[2] = next + 1
      BY <1>10
    <2> QED
      BY <1>1, <1>5, <1>6, <2>1, <2>2, <2>3 DEF HandleInv, LiveRow
  <1>11. ASSUME NEW he \in held, he[2] # NoEnt PROVE HandleInv(he)'
    <2> DEFINE q == he[1].slot
    <2>1. HandleInv(he)
      BY <1>11 DEF HandlesInv
    <2>2. q \in Slots /\ q < count /\ he[2] <= next /\ he[1].gen \in 0..GenMax /\ he[2] \in 0..MaxEnt
      BY <2>1, HeldTypes DEF HandleInv
    <2>3. q < count' /\ he[2] <= next' /\ he[2] # next + 1
      BY <1>1, <1>3, <2>2
    <2>4. ASSUME NEW u \in Slots, u < count', gen'[u] >= 0, val'[u] = he[2]
          PROVE  u = q /\ gen[q] = he[1].gen /\ u # s
      <3>1. u # s
        BY <1>5, <2>3, <2>4
      <3>2. LiveRow(u) /\ val[u] = he[2]
        BY <1>5, <1>9, <2>4, <3>1
      <3> QED
        BY <2>1, <3>1, <3>2 DEF HandleInv
    <2>5. CASE q = s
      <3>1. he[1].gen < g
        BY <1>11, <2>5 DEF g
      <3>2. he[1].gen <= g /\ ~(g < 0) /\ g # he[1].gen
        BY <1>2, <1>3, <2>2, <3>1
      <3> QED
        BY <1>5, <1>6, <2>2, <2>3, <2>4, <2>5, <3>1, <3>2 DEF HandleInv, LiveRow
    <2>6. CASE q # s
      <3>1. gen'[q] = gen[q] /\ val'[q] = val[q]
        BY <1>5, <2>2, <2>6
      <3> QED
        BY <2>1, <2>2, <2>3, <2>4, <3>1 DEF HandleInv, LiveRow
    <2> QED
      BY <2>5, <2>6
  <1>12. ASSUME NEW he \in held, he[2] = NoEnt PROVE he[1] = Zero /\ count' = Cap
    <2>1. he[1] = Zero /\ count = Cap
      BY <1>12 DEF HandlesInv
    <2> QED
      BY <1>3, <2>1
  <1>13. HandlesInv'
    <2> SUFFICES ASSUME NEW he \in held'
                 PROVE  IF he[2] = NoEnt THEN he[1] = Zero /\ count' = Cap ELSE HandleInv(he)'
      BY DEF HandlesInv
    <2>1. CASE he \in held
      BY <1>11, <1>12, <2>1
    <2>2. CASE he = <<h, next + 1>>
      <3>1. he[2] # NoEnt
        BY <1>3, <2>2 DEF NoEnt
      <3> QED
        BY <1>10, <2>2, <3>1
    <2> QED
      BY <1>1, <2>1, <2>2
  <1> QED
    BY <1>8, <1>13

(* A step that leaves the struct alone: entities offered and handles issued *)
(* for nothing do not matter.                                               *)
LEMMA StructUnchanged ==
    ASSUME TypeOK, RowsInv, FreeInv, HandlesInv,
           UNCHANGED <<val, count, freeList, freeCount, gen, held>>,
           next' \in Nat, next <= next'
    PROVE  RowsInv' /\ FreeInv' /\ HandlesInv'
  <1>1. /\ val' = val /\ count' = count /\ freeList' = freeList /\ freeCount' = freeCount
        /\ gen' = gen /\ held' = held
    OBVIOUS
  <1>2. next \in Nat
    BY Ranges
  <1>3. RowsInv'
    BY <1>1, <1>2 DEF RowsInv
  <1>4. FreeInv'
    BY <1>1 DEF FreeInv, DeadSlots
  <1>5. \A he \in held : he[2] <= next => he[2] <= next'
    BY <1>2, HeldTypes, Ranges
  <1>6. HandlesInv'
    BY <1>1, <1>5 DEF HandlesInv, HandleInv, LiveRow
  <1> QED
    BY <1>3, <1>4, <1>6

(* With an empty free list and no room to append, every slot is live.       *)
LEMMA FullIsLive ==
    ASSUME TypeOK, FreeInv, ~HasFree, AtCapacity
    PROVE  LiveSlots = Slots /\ DeadSlots = {} /\ count = Cap
  <1>1. /\ Cap \in Nat \ {0} /\ count \in 0..Cap /\ freeCount \in 0..(Cap + 1)
        /\ Slots \subseteq Nat /\ \A i \in Nat : i \in Slots <=> i < Cap
    BY Ranges
  <1>2. gen \in [Slots -> Words] /\ Words \subseteq Int
    BY Ranges
  <1>3. count = Cap /\ freeCount = 1
    BY <1>1 DEF AtCapacity, HasFree, FreeInv
  <1>4. 1..(freeCount - 1) = {}
    BY <1>3
  <1>5. DeadSlots = {}
    BY <1>4 DEF FreeInv
  <1>6. \A s \in Slots : s < count /\ gen[s] \in Int
    BY <1>1, <1>2, <1>3
  <1> QED
    BY <1>3, <1>5, <1>6 DEF DeadSlots, LiveSlots, LiveRow

(* Regularity is never regained, so it held before any step after which it  *)
(* holds.                                                                   *)
LEMMA RegularBefore ==
    ASSUME TypeOK, [Next]_poolVars, Regular'
    PROVE  Regular /\ sorts' = sorts
  <1>1. (\E desc \in BOOLEAN : Sort(desc)) \/ UNCHANGED sorts
    BY DEF Next, Insert, Use, InsertAbort, InsertPopFree, InsertOutOfRange, InsertAppend, InsertEvict,
           InsertRefused, UseStale, Cell, DeleteExhausted, DeleteRow, Mint, poolVars
  <1>2. events \subseteq events'
    BY DEF Next, Insert, Use, InsertAbort, InsertPopFree, InsertOutOfRange, InsertAppend, InsertEvict,
           InsertRefused, UseStale, Cell, DeleteExhausted, DeleteRow, Mint, Sort, poolVars
  <1>3. ASSUME NEW desc \in BOOLEAN, Sort(desc) PROVE FALSE
    <2>1. sorts' = sorts + 1
      BY <1>3 DEF Sort
    <2>2. sorts \in Nat
      BY Ranges
    <2> QED
      BY <2>1, <2>2 DEF Regular
  <1>4. sorts' = sorts
    BY <1>1, <1>3
  <1> QED
    BY <1>2, <1>4 DEF Regular

-----------------------------------------------------------------------------
(* Reusing a freed slot: the popped row was dead, so no handle reaches it.  *)
LEMMA PopFreeStep ==
    ASSUME TypeInv, RegularInv, InsertPopFree
    PROVE  RegularInv'
  <1>1. PICK s \in Slots :
           /\ s = FreeListAt(freeCount - 1) /\ Offer /\ WriteRow(s, FALSE)
           /\ freeCount > 1 /\ freeCount' = freeCount - 1
           /\ UNCHANGED <<count, freeList>>
    BY DEF InsertPopFree, HasFree
  <1>2. TypeOK /\ RowsInv /\ FreeInv /\ HandlesInv
    BY DEF TypeInv, RegularInv
  <1>3. /\ Cap \in Nat \ {0} /\ count \in 0..Cap /\ freeCount \in 2..Cap
        /\ Slots \subseteq Nat /\ Words \subseteq Int
    BY <1>1, <1>2, Ranges DEF FreeInv
  <1>4. gen \in [Slots -> Words]
    BY <1>2, Ranges
  <1>5. s = freeList[freeCount - 1] /\ freeCount - 1 \in 1..(freeCount - 1)
    BY <1>1, <1>3 DEF FreeListAt
  <1>6. s \in DeadSlots
    BY <1>2, <1>5 DEF FreeInv
  <1>7. s < count /\ gen[s] < 0 /\ Low(gen[s]) >= 1
    BY <1>2, <1>6 DEF DeadSlots, RowsInv
  <1>8. IssuedGen(s, FALSE) = Low(gen[s])
    BY <1>4, <1>7, IssuedFacts
  <1>9. \A he \in held : he[2] # NoEnt /\ he[1].slot = s => he[1].gen < IssuedGen(s, FALSE)
    BY <1>2, <1>7, <1>8 DEF HandlesInv, HandleInv
  <1>10. count' = count /\ freeList' = freeList
    BY <1>1
  <1>11. RowsInv' /\ HandlesInv'
    <2>1. count' \in 0..Cap /\ count <= count' /\ s < count'
      BY <1>3, <1>7, <1>10
    <2>2. \A u \in Slots : u < count' => u < count \/ u = s
      BY <1>10
    <2> QED
      BY <1>1, <1>2, <1>9, <2>1, <2>2, WriteRowInv
  <1>12. gen' = [gen EXCEPT ![s] = IssuedGen(s, FALSE)] /\ gen'[s] \in 1..GenMax
    BY <1>1, <1>2, WriteRowFacts
  <1>13. DeadSlots' = DeadSlots \ {s}
    <2>1. ~(gen'[s] < 0)
      BY <1>1, <1>2, WriteRowFacts
    <2>2. \A u \in Slots : u # s => gen'[u] = gen[u]
      BY <1>4, <1>12
    <2> QED
      BY <1>10, <2>1, <2>2 DEF DeadSlots
  <1>14. FreeInv'
    <2>1. freeCount' \in 1..Cap /\ freeCount' - 1 = freeCount - 2
      BY <1>1, <1>3
    <2>2. 1..(freeCount - 1) = 1..(freeCount - 2) \cup {freeCount - 1}
      BY <1>3
    <2>3. freeCount - 1 \notin 1..(freeCount - 2)
      BY <1>3
    <2>4. {freeList[i] : i \in 1..(freeCount - 1)} = DeadSlots
          /\ \A i, j \in 1..(freeCount - 1) : freeList[i] = freeList[j] => i = j
      BY <1>2 DEF FreeInv
    <2>5. \A i \in 1..(freeCount - 2) : freeList[i] # s /\ freeList[i] \in DeadSlots
      BY <1>5, <2>2, <2>3, <2>4
    <2>6. \A u \in DeadSlots \ {s} : \E i \in 1..(freeCount - 2) : freeList[i] = u
      <3> SUFFICES ASSUME NEW u \in DeadSlots, u # s
                   PROVE  \E i \in 1..(freeCount - 2) : freeList[i] = u
        OBVIOUS
      <3>1. PICK i \in 1..(freeCount - 1) : freeList[i] = u
        BY <2>4
      <3>2. i \in 1..(freeCount - 2)
        BY <1>5, <2>2, <3>1
      <3> QED
        BY <3>1, <3>2
    <2>7. {freeList[i] : i \in 1..(freeCount - 2)} = DeadSlots \ {s}
      BY <2>5, <2>6
    <2>8. freeList' = freeList /\ 1..(freeCount' - 1) = 1..(freeCount - 2)
          /\ 1..(freeCount - 2) \subseteq 1..(freeCount - 1)
      BY <1>10, <2>1, <2>2
    <2>9. {freeList'[i] : i \in 1..(freeCount' - 1)} = DeadSlots'
      BY <1>13, <2>7, <2>8
    <2>10. \A i, j \in 1..(freeCount' - 1) : freeList'[i] = freeList'[j] => i = j
      BY <2>4, <2>8
    <2> QED
      BY <2>1, <2>9, <2>10 DEF FreeInv
  <1>15. RefusedOnlyWhenFullAlways'
    BY <1>1 DEF WriteRow, Answer, RefusedOnlyWhenFullAlways
  <1> QED
    BY <1>11, <1>14, <1>15 DEF RegularInv

(* Appending: the row above the high-water mark was never issued.           *)
LEMMA AppendStep ==
    ASSUME TypeInv, RegularInv, InsertAppend
    PROVE  RegularInv'
  <1>1. TypeOK /\ RowsInv /\ FreeInv /\ HandlesInv
    BY DEF TypeInv, RegularInv
  <1>2. /\ Cap \in Nat \ {0} /\ count \in 0..Cap
        /\ Slots \subseteq Nat /\ \A i \in Nat : i \in Slots <=> i < Cap
    BY <1>1, Ranges
  <1>3. gen \in [Slots -> Words]
    BY <1>1, Ranges
  <1>4. /\ Offer /\ ~(count >= Cap) /\ WriteRow(count, FALSE) /\ count' = count + 1
        /\ freeList' = freeList /\ freeCount' = freeCount
    BY DEF InsertAppend, AtCapacity
  <1>5. count \in Slots /\ count' \in 0..Cap /\ count <= count' /\ count < count'
    BY <1>2, <1>4
  <1>6. \A u \in Slots : u < count' => u < count \/ u = count
    BY <1>2, <1>4
  <1>7. \A he \in held : he[2] # NoEnt => he[1].slot # count
    <2>1. \A he \in held : he[2] # NoEnt => he[1].slot < count
      BY <1>1 DEF HandlesInv, HandleInv
    <2>2. ~(count < count)
      BY <1>2
    <2> QED
      BY <2>1, <2>2
  <1>8. RowsInv' /\ HandlesInv'
    BY <1>1, <1>4, <1>5, <1>6, <1>7, WriteRowInv
  <1>9. gen' = [gen EXCEPT ![count] = IssuedGen(count, FALSE)] /\ gen'[count] \in 1..GenMax
    BY <1>1, <1>4, <1>5, WriteRowFacts
  <1>10. DeadSlots' = DeadSlots
    <2>1. ~(gen'[count] < 0) /\ ~(count < count)
      <3>1. ~(gen'[count] < 0)
        BY <1>1, <1>4, <1>5, WriteRowFacts
      <3>2. ~(count < count)
        BY <1>2
      <3> QED
        BY <3>1, <3>2
    <2>2. \A u \in Slots : u # count => gen'[u] = gen[u] /\ (u < count' <=> u < count)
      BY <1>2, <1>3, <1>4, <1>9
    <2> QED
      BY <2>1, <2>2 DEF DeadSlots
  <1>11. FreeInv'
    BY <1>1, <1>4, <1>10 DEF FreeInv
  <1>12. RefusedOnlyWhenFullAlways'
    BY <1>4 DEF WriteRow, Answer, RefusedOnlyWhenFullAlways
  <1> QED
    BY <1>8, <1>11, <1>12 DEF RegularInv

(* Overwriting a live row: the bumped generation retires its handles.       *)
LEMMA EvictStep ==
    ASSUME TypeInv, RegularInv, NEW victim \in Slots, InsertEvict(victim), Regular'
    PROVE  RegularInv'
  <1>1. TypeOK /\ RowsInv /\ FreeInv /\ HandlesInv
    BY DEF TypeInv, RegularInv
  <1>2. /\ Offer /\ ~HasFree /\ AtCapacity /\ WriteRow(victim, TRUE)
        /\ (gen[victim] = GenMax => "wrap" \in events')
        /\ count' = count /\ freeList' = freeList /\ freeCount' = freeCount
    BY DEF InsertEvict, Overflow
  <1>3. gen[victim] # GenMax
    BY <1>2 DEF Regular
  <1>4. LiveSlots = Slots /\ DeadSlots = {} /\ count = Cap
    BY <1>1, <1>2, FullIsLive
  <1>5. victim < count /\ gen[victim] >= 0
    BY <1>4 DEF LiveSlots, LiveRow
  <1>6. gen \in [Slots -> Words] /\ Words \subseteq Int /\ count \in 0..Cap /\ Cap \in Nat \ {0}
    BY <1>1, Ranges
  <1>7. IssuedGen(victim, TRUE) = gen[victim] + 1
    BY <1>3, <1>5, <1>6, IssuedFacts
  <1>8. Low(gen[victim]) = gen[victim]
    BY <1>5, <1>6, WordFacts
  <1>9. \A he \in held : he[2] # NoEnt /\ he[1].slot = victim => he[1].gen < IssuedGen(victim, TRUE)
    <2> SUFFICES ASSUME NEW he \in held, he[2] # NoEnt, he[1].slot = victim
                 PROVE  he[1].gen < gen[victim] + 1
      BY <1>7
    <2>1. he[1].gen <= gen[victim]
      BY <1>1, <1>8 DEF HandlesInv, HandleInv
    <2>2. he[1].gen \in 0..GenMax /\ gen[victim] \in Int
      BY <1>1, <1>6, HeldTypes
    <2> QED
      BY <2>1, <2>2, PoolAssumption
  <1>10. RowsInv' /\ HandlesInv'
    <2>1. count' \in 0..Cap /\ count <= count' /\ victim < count'
      BY <1>2, <1>5, <1>6
    <2>2. \A u \in Slots : u < count' => u < count \/ u = victim
      BY <1>2
    <2> QED
      BY <1>1, <1>2, <1>9, <2>1, <2>2, WriteRowInv
  <1>11. gen' = [gen EXCEPT ![victim] = IssuedGen(victim, TRUE)] /\ gen'[victim] \in 1..GenMax
    BY <1>1, <1>2, WriteRowFacts
  <1>12. DeadSlots' = DeadSlots
    <2>1. ~(gen'[victim] < 0)
      BY <1>1, <1>2, WriteRowFacts
    <2>2. \A u \in Slots : u # victim => gen'[u] = gen[u]
      BY <1>6, <1>11
    <2> QED
      BY <1>2, <1>4, <2>1, <2>2 DEF DeadSlots
  <1>13. FreeInv'
    BY <1>1, <1>2, <1>12 DEF FreeInv
  <1>14. RefusedOnlyWhenFullAlways'
    BY <1>2 DEF WriteRow, Answer, RefusedOnlyWhenFullAlways
  <1> QED
    BY <1>10, <1>13, <1>14 DEF RegularInv

(* Deleting: the row moves from the live rows to the free list.             *)
LEMMA DeleteStep ==
    ASSUME TypeInv, RegularInv, NEW he \in held, DeleteRow(he), Regular'
    PROVE  RegularInv'
  <1>1. PICK s \in Slots :
           /\ s = he[1].slot /\ gen[s] = he[1].gen /\ gen[s] # GenMax
           /\ gen' = [gen EXCEPT ![s] = FreedGen(gen[s])]
           /\ freeList' = Push(s)
           /\ freeCount' = freeCount + 1
           /\ (~(freeCount < Cap) => "overrun" \in events')
           /\ out'.op = "delete"
           /\ UNCHANGED <<val, count, next, held>>
    BY DEF DeleteRow, Valid, Answer
  <1>2. TypeOK /\ RowsInv /\ FreeInv /\ HandlesInv
    BY DEF TypeInv, RegularInv
  <1>3. /\ Cap \in Nat \ {0} /\ GenMax \in Nat \ {0} /\ count \in 0..Cap /\ next \in Nat
        /\ Slots \subseteq Nat /\ Words \subseteq Int
    BY <1>2, Ranges
  <1>4. gen \in [Slots -> Words] /\ freeList \in [Slots -> Slots] /\ gen[s] \in Words
    BY <1>2, Ranges
  <1>5. freeCount < Cap /\ freeCount \in 1..Cap
    BY <1>1, <1>2 DEF Regular, FreeInv
  <1>6. gen[s] \in 0..GenMax
    BY <1>1, <1>2, HeldTypes
  <1>7. gen[s] >= 0 /\ ~(gen[s] < 0)
    BY <1>3, <1>6
  <1>8. s < count
    <2>1. CASE he[2] = NoEnt
      <3>1. he[1] = Zero /\ count = Cap
        BY <1>2, <2>1 DEF HandlesInv
      <3>2. s = 0
        BY <1>1, <3>1 DEF Zero
      <3> QED
        BY <1>3, <3>1, <3>2
    <2>2. CASE he[2] # NoEnt
      BY <1>1, <1>2, <2>2 DEF HandlesInv, HandleInv
    <2> QED
      BY <2>1, <2>2
  <1>9. FreedGen(gen[s]) < 0 /\ Low(FreedGen(gen[s])) = gen[s] + 1 /\ Low(gen[s]) = gen[s]
    BY <1>1, <1>4, <1>7, WordFacts
  <1>10. /\ gen'[s] < 0 /\ Low(gen'[s]) = gen[s] + 1
         /\ \A u \in Slots : u # s => gen'[u] = gen[u]
    BY <1>1, <1>4, <1>9
  <1>11. val' = val /\ count' = count /\ next' = next /\ held' = held
    BY <1>1
  <1>12. RowsInv'
    <2>1. \A u \in Slots : u >= count' => gen'[u] = 0
      <3> SUFFICES ASSUME NEW u \in Slots, u >= count PROVE gen'[u] = 0
        BY <1>11
      <3>1. u # s
        BY <1>3, <1>8
      <3> QED
        BY <1>2, <1>10, <3>1 DEF RowsInv
    <2>2. \A u \in Slots : gen'[u] < 0 => Low(gen'[u]) >= 1
      <3>1. gen[s] + 1 >= 1
        BY <1>3, <1>6
      <3> QED
        BY <1>2, <1>10, <3>1 DEF RowsInv
    <2> QED
      BY <1>2, <1>11, <2>1, <2>2 DEF RowsInv
  <1>13. HandlesInv'
    <2>1. ASSUME NEW hf \in held, hf[2] # NoEnt PROVE HandleInv(hf)'
      <3> DEFINE q == hf[1].slot
      <3>1. HandleInv(hf)
        BY <1>2, <2>1 DEF HandlesInv
      <3>2. q \in Slots /\ q < count /\ hf[1].gen \in 0..GenMax
        BY <1>2, <3>1, HeldTypes DEF HandleInv
      <3>3. ASSUME NEW u \in Slots, u < count, gen'[u] >= 0, val[u] = hf[2]
            PROVE  u = q /\ u # s /\ gen[q] = hf[1].gen
        <4>1. gen'[s] \in Int
          BY <1>1, <1>4, <1>3, WordFacts
        <4>2. u # s
          BY <1>10, <3>3, <4>1
        <4>3. LiveRow(u)
          BY <1>10, <3>3, <4>2 DEF LiveRow
        <4> QED
          BY <3>1, <3>3, <4>2, <4>3 DEF HandleInv
      <3>4. CASE q = s
        <4>1. hf[1].gen <= gen[s]
          BY <1>9, <3>1, <3>4 DEF HandleInv
        <4>2. hf[1].gen <= gen[s] + 1 /\ hf[1].gen < gen[s] + 1 /\ ~(hf[1].gen < 0)
          BY <1>3, <1>6, <3>2, <4>1
        <4>3. gen'[s] # hf[1].gen
          BY <1>10, <4>2
        <4>4. \A u \in Slots : ~(u < count /\ gen'[u] >= 0 /\ val[u] = hf[2])
          BY <3>3, <3>4
        <4> HIDE DEF q
        <4>5. /\ q \in Slots /\ q < count' /\ hf[2] <= next'
              /\ hf[1].gen <= Low(gen'[q])
              /\ gen'[q] < 0 => hf[1].gen < Low(gen'[q])
              /\ gen'[q] = hf[1].gen => val'[q] = hf[2]
              /\ \A u \in Slots : (u < count' /\ gen'[u] >= 0) /\ val'[u] = hf[2]
                                   => u = q /\ gen'[q] = hf[1].gen
          BY <1>10, <1>11, <3>1, <3>2, <3>4, <4>2, <4>3, <4>4 DEF HandleInv, q
        <4> QED
          BY <4>5 DEF HandleInv, LiveRow, q
      <3>5. CASE q # s
        <4>1. gen'[q] = gen[q]
          BY <1>10, <3>2, <3>5
        <4>2. /\ q \in Slots /\ q < count' /\ hf[2] <= next'
              /\ hf[1].gen <= Low(gen'[q])
              /\ gen'[q] < 0 => hf[1].gen < Low(gen'[q])
              /\ gen'[q] = hf[1].gen => val'[q] = hf[2]
          BY <1>11, <3>1, <4>1 DEF HandleInv
        <4>3. \A u \in Slots : (u < count' /\ gen'[u] >= 0) /\ val'[u] = hf[2]
                               => u = q /\ gen'[q] = hf[1].gen
          BY <1>11, <3>3, <4>1
        <4> QED
          BY <4>2, <4>3 DEF HandleInv, LiveRow
      <3> QED
        BY <3>4, <3>5
    <2> QED
      BY <1>2, <1>11, <2>1 DEF HandlesInv
  <1>14. FreeInv'
    <2>1. freeCount \in Slots /\ freeCount' - 1 = freeCount /\ freeCount' \in 1..Cap
      BY <1>1, <1>3, <1>5 DEF Slots
    <2>2. freeList' = [freeList EXCEPT ![freeCount] = s]
      BY <1>1, <1>5 DEF Push
    <2>3. {freeList[i] : i \in 1..(freeCount - 1)} = DeadSlots
          /\ \A i, j \in 1..(freeCount - 1) : freeList[i] = freeList[j] => i = j
      BY <1>2 DEF FreeInv
    <2>4. 1..freeCount = 1..(freeCount - 1) \cup {freeCount} /\ freeCount \notin 1..(freeCount - 1)
      BY <1>5
    <2>5. 1..(freeCount - 1) \subseteq Slots
      BY <1>3, <1>5 DEF Slots
    <2>6. freeList'[freeCount] = s /\ \A i \in 1..(freeCount - 1) : freeList'[i] = freeList[i]
      BY <1>4, <2>1, <2>2, <2>4, <2>5
    <2>7. s \notin DeadSlots
      BY <1>7 DEF DeadSlots
    <2>8. DeadSlots' = DeadSlots \cup {s}
      BY <1>8, <1>10, <1>11 DEF DeadSlots
    <2>9. {freeList'[i] : i \in 1..freeCount} = DeadSlots'
      <3>1. \A i \in 1..freeCount : freeList'[i] \in DeadSlots \cup {s}
        BY <2>3, <2>4, <2>6
      <3>2. \A u \in DeadSlots : \E i \in 1..(freeCount - 1) : freeList[i] = u
        BY <2>3
      <3>3. \A u \in DeadSlots : \E i \in 1..freeCount : freeList'[i] = u
        BY <2>4, <2>6, <3>2
      <3> QED
        BY <2>4, <2>6, <2>8, <3>1, <3>3
    <2>10. \A i, j \in 1..freeCount : freeList'[i] = freeList'[j] => i = j
      <3>1. \A i \in 1..(freeCount - 1) : freeList'[i] # s
        BY <2>3, <2>6, <2>7
      <3> QED
        BY <2>3, <2>4, <2>6, <3>1
    <2> QED
      BY <2>1, <2>9, <2>10 DEF FreeInv
  <1>15. RefusedOnlyWhenFullAlways'
    BY <1>1 DEF RefusedOnlyWhenFullAlways
  <1> QED
    BY <1>12, <1>13, <1>14, <1>15 DEF RegularInv

(* The handle of a live row names the entity in it.                         *)
LEMMA MintStep ==
    ASSUME TypeInv, RegularInv, NEW s \in Slots, Mint(s)
    PROVE  RegularInv'
  <1>1. /\ LiveRow(s)
        /\ held' = held \cup {<<[slot |-> s, gen |-> gen[s]], val[s]>>}
        /\ val' = val /\ count' = count /\ gen' = gen /\ next' = next /\ out' = out
        /\ freeList' = freeList /\ freeCount' = freeCount
    BY DEF Mint
  <1>2. TypeOK /\ RowsInv /\ FreeInv /\ HandlesInv /\ RefusedOnlyWhenFullAlways
    BY DEF TypeInv, RegularInv
  <1>3. /\ next \in Nat /\ count \in 0..Cap /\ Words \subseteq Int /\ gen[s] \in Words
        /\ Slots \subseteq Nat
    BY <1>2, Ranges
  <1>4. s < count /\ gen[s] >= 0 /\ gen[s] \in Int /\ val[s] \in 1..next
    BY <1>1, <1>2, <1>3 DEF LiveRow, RowsInv
  <1>5. Low(gen[s]) = gen[s] /\ ~(gen[s] < 0) /\ gen[s] <= gen[s] /\ val[s] <= next /\ val[s] # NoEnt
    BY <1>3, <1>4, WordFacts DEF NoEnt
  <1>6. \A u \in Slots : u < count /\ val[u] = val[s] => u = s
    BY <1>2, <1>4 DEF RowsInv
  <1>7. RowsInv' /\ FreeInv'
    BY <1>1, <1>2 DEF RowsInv, FreeInv, DeadSlots
  <1>8. ASSUME NEW he \in held' PROVE IF he[2] = NoEnt THEN he[1] = Zero /\ count' = Cap ELSE HandleInv(he)'
    <2>1. CASE he \in held
      BY <1>1, <1>2, <2>1 DEF HandlesInv, HandleInv, LiveRow
    <2>2. CASE he = <<[slot |-> s, gen |-> gen[s]], val[s]>>
      <3>1. he[1].slot = s /\ he[1].gen = gen[s] /\ he[2] = val[s]
        BY <2>2
      <3> QED
        BY <1>1, <1>4, <1>5, <1>6, <3>1 DEF HandleInv, LiveRow
    <2> QED
      BY <1>1, <2>1, <2>2
  <1>9. HandlesInv'
    BY <1>8 DEF HandlesInv
  <1>10. RefusedOnlyWhenFullAlways'
    BY <1>1, <1>2 DEF RefusedOnlyWhenFullAlways, LiveSlots, LiveRow
  <1> QED
    BY <1>7, <1>9, <1>10 DEF RegularInv

(* A refused insert changes nothing and finds every slot live.              *)
LEMMA RefusedStep ==
    ASSUME TypeInv, RegularInv, InsertRefused
    PROVE  RegularInv'
  <1>1. /\ Offer /\ ~HasFree /\ AtCapacity
        /\ held' = held \cup {<<Zero, NoEnt>>}
        /\ val' = val /\ count' = count /\ gen' = gen /\ freeList' = freeList /\ freeCount' = freeCount
    BY DEF InsertRefused, Overflow
  <1>2. TypeOK /\ RowsInv /\ FreeInv /\ HandlesInv
    BY DEF TypeInv, RegularInv
  <1>3. LiveSlots = Slots /\ count = Cap
    BY <1>1, <1>2, FullIsLive
  <1>4. next \in Nat /\ next' = next + 1
    BY <1>1, <1>2, Ranges DEF Offer
  <1>5. RowsInv' /\ FreeInv'
    <2>1. \A s \in Slots : val[s] \in 1..next => val[s] \in 1..next'
      BY <1>4
    <2>2. RowsInv'
      BY <1>1, <1>2, <2>1 DEF RowsInv
    <2>3. FreeInv'
      BY <1>1, <1>2 DEF FreeInv, DeadSlots
    <2> QED
      BY <2>2, <2>3
  <1>6. \A he \in held : he[2] <= next => he[2] <= next'
    BY <1>2, <1>4, HeldTypes, Ranges
  <1>7. ASSUME NEW he \in held' PROVE IF he[2] = NoEnt THEN he[1] = Zero /\ count' = Cap ELSE HandleInv(he)'
    <2>1. CASE he \in held
      BY <1>1, <1>2, <1>6, <2>1 DEF HandlesInv, HandleInv, LiveRow
    <2>2. CASE he = <<Zero, NoEnt>>
      BY <1>1, <1>3, <2>2
    <2> QED
      BY <1>1, <2>1, <2>2
  <1>8. HandlesInv'
    BY <1>7 DEF HandlesInv
  <1>9. RefusedOnlyWhenFullAlways'
    BY <1>1, <1>3 DEF RefusedOnlyWhenFullAlways, LiveSlots, LiveRow
  <1> QED
    BY <1>5, <1>8, <1>9 DEF RegularInv

(* The out-of-range pop needs an overrun of the free list first.            *)
LEMMA OutOfRangeStep ==
    ASSUME TypeInv, RegularInv, InsertOutOfRange
    PROVE  FALSE
  <1>1. freeCount > 1 /\ FreeListAt(freeCount - 1) \notin Slots
    BY DEF InsertOutOfRange, HasFree
  <1>2. freeCount \in 1..Cap /\ freeList \in [Slots -> Slots] /\ Cap \in Nat \ {0}
    BY Ranges DEF TypeInv, RegularInv, FreeInv
  <1>3. freeCount - 1 \in Slots /\ freeCount - 1 # Cap
    BY <1>1, <1>2 DEF Slots
  <1> QED
    BY <1>1, <1>2, <1>3 DEF FreeListAt

(* A freshly allocated pool satisfies the invariant.                        *)
LEMMA PoolInvInit == Init => PoolInv
  <1> SUFFICES ASSUME Init PROVE PoolInv
    OBVIOUS
  <1>1. TypeInv
    BY TypeInvInit
  <1>2. Cap \in Nat \ {0} /\ InitLen \in 0..Cap /\ Slots \subseteq Nat
    BY PoolAssumption DEF Slots
  <1>3. RowsInv
    BY <1>2 DEF Init, RowsInv
  <1>4. FreeInv
    <2>1. 1..(freeCount - 1) = {} /\ freeCount \in 1..Cap
      BY <1>2 DEF Init
    <2>2. DeadSlots = {}
      BY DEF Init, DeadSlots
    <2> QED
      BY <2>1, <2>2 DEF FreeInv
  <1>5. HandlesInv /\ RefusedOnlyWhenFullAlways
    BY DEF Init, HandlesInv, RefusedOnlyWhenFullAlways
  <1> QED
    BY <1>1, <1>3, <1>4, <1>5 DEF PoolInv, RegularInv

(* Every action preserves it, one case per action of Next.                  *)
LEMMA PoolInvStep == PoolInv /\ [Next]_poolVars => PoolInv'
  <1> SUFFICES ASSUME PoolInv, [Next]_poolVars PROVE PoolInv'
    OBVIOUS
  <1>1. TypeInv /\ TypeInv'
    BY TypeInvStep DEF PoolInv
  <1>2. SUFFICES ASSUME Regular' PROVE RegularInv'
    BY <1>1 DEF PoolInv
  <1>3. TypeOK
    BY <1>1 DEF TypeInv
  <1>4. Regular
    BY <1>2, <1>3, RegularBefore
  <1>5. RegularInv
    BY <1>4 DEF PoolInv
  <1>6. RowsInv /\ FreeInv /\ HandlesInv /\ RefusedOnlyWhenFullAlways /\ next \in Nat
    BY <1>3, <1>5, Ranges DEF RegularInv
  <1>7. ASSUME UNCHANGED <<val, count, freeList, freeCount, gen, held>>, next' \in {next, next + 1},
               out' = out \/ out'.op \in {"cell", "delete"}
        PROVE  RegularInv'
    <2>1. next' \in Nat /\ next <= next'
      BY <1>6, <1>7
    <2>2. RowsInv' /\ FreeInv' /\ HandlesInv'
      BY <1>3, <1>6, <1>7, <2>1, StructUnchanged
    <2>3. RefusedOnlyWhenFullAlways'
      BY <1>6, <1>7 DEF RefusedOnlyWhenFullAlways, LiveSlots, LiveRow
    <2> QED
      BY <2>2, <2>3 DEF RegularInv
  <1>8. CASE InsertAbort
    BY <1>7, <1>8 DEF InsertAbort, Offer
  <1>9. ASSUME NEW he \in held, UseStale(he) \/ Cell(he) \/ DeleteExhausted(he) PROVE RegularInv'
    <2>1. UNCHANGED <<val, count, freeList, freeCount, gen, held>> /\ next' = next
      BY <1>9 DEF UseStale, Cell, DeleteExhausted
    <2>2. out' = out \/ out'.op \in {"cell", "delete"}
      <3>1. UseStale(he) => out' = out
        BY DEF UseStale
      <3>2. Cell(he) => out'.op = "cell"
        BY DEF Cell, Answer
      <3>3. DeleteExhausted(he) => out'.op = "delete"
        BY DEF DeleteExhausted, Answer
      <3> QED
        BY <1>9, <3>1, <3>2, <3>3
    <2> QED
      BY <1>7, <2>1, <2>2
  <1>10. CASE UNCHANGED poolVars
    BY <1>7, <1>10 DEF poolVars
  <1>11. ASSUME NEW desc \in BOOLEAN, Sort(desc) PROVE FALSE
    <2>1. sorts' = sorts + 1 /\ sorts' = sorts /\ sorts \in Nat
      BY <1>2, <1>3, <1>11, RegularBefore, Ranges DEF Sort
    <2> QED
      BY <2>1
  <1>12. CASE InsertPopFree
    BY <1>1, <1>5, <1>12, PopFreeStep
  <1>13. CASE InsertOutOfRange
    BY <1>1, <1>5, <1>13, OutOfRangeStep
  <1>14. CASE InsertAppend
    BY <1>1, <1>5, <1>14, AppendStep
  <1>15. ASSUME NEW victim \in Slots, InsertEvict(victim) PROVE RegularInv'
    BY <1>1, <1>2, <1>5, <1>15, EvictStep
  <1>16. CASE InsertRefused
    BY <1>1, <1>5, <1>16, RefusedStep
  <1>17. ASSUME NEW he \in held, DeleteRow(he) PROVE RegularInv'
    BY <1>1, <1>2, <1>5, <1>17, DeleteStep
  <1>18. ASSUME NEW s \in Slots, Mint(s) PROVE RegularInv'
    BY <1>1, <1>5, <1>18, MintStep
  <1> QED
    BY <1>8, <1>9, <1>10, <1>11, <1>12, <1>13, <1>14, <1>15, <1>16, <1>17, <1>18 DEF Next, Insert, Use

(* Hence it holds in every reachable state.                                 *)
LEMMA PoolInvHolds == Spec => []PoolInv
  BY PoolInvInit, PoolInvStep, PTL DEF Spec

(* In a regular pool a handle reaches its own entity or nothing.            *)
LEMMA RegularHandles ==
    ASSUME TypeOK, RowsInv, HandlesInv
    PROVE  NoAlias /\ NoFalseStale
  <1>1. GenMax \in Nat \ {0}
    BY Ranges
  <1>2. ASSUME NEW he \in held, he[2] # NoEnt, Valid(he[1])
        PROVE  LiveRow(he[1].slot) /\ val[he[1].slot] = he[2]
    <2>1. HandleInv(he)
      BY <1>2 DEF HandlesInv
    <2>2. he[1].gen >= 0
      BY <1>1, HeldTypes
    <2> QED
      BY <1>2, <2>1, <2>2 DEF HandleInv, Valid, LiveRow
  <1>3. ASSUME NEW he \in held, he[2] \in LiveEnts PROVE Valid(he[1])
    <2>1. PICK u \in Slots : LiveRow(u) /\ val[u] = he[2]
      BY <1>3 DEF LiveEnts, LiveSlots
    <2>2. val[u] \in 1..next /\ next \in Nat
      BY <2>1, Ranges DEF LiveRow, RowsInv
    <2>3. he[2] # NoEnt
      BY <2>1, <2>2 DEF NoEnt
    <2>4. HandleInv(he)
      BY <2>3 DEF HandlesInv
    <2> QED
      BY <2>1, <2>4 DEF HandleInv, Valid
  <1> QED
    BY <1>2, <1>3 DEF NoAlias, NoFalseStale

(* A handle of the program is accepted exactly while the entity it was      *)
(* issued for is in the pool: delete and the cell helper neither reach a    *)
(* reused slot nor reject a live entity.                                    *)
THEOREM HandlesSound == Spec => []HandleSound
  <1>1. PoolInv => HandleSound
    BY RegularHandles DEF PoolInv, RegularInv, TypeInv, HandleSound
  <1> QED
    BY <1>1, PoolInvHolds, PTL

(* Delete and insert keep the free list equal to the set of tombstoned      *)
(* rows, without a duplicate, until a sort, a wrapped eviction or an overrun *)
(* of the list.                                                             *)
THEOREM FreeListIsExact == Spec => []FreeListExact
  <1>1. PoolInv => FreeListExact
    BY DEF PoolInv, RegularInv, FreeInv, FreeListExact
  <1> QED
    BY <1>1, PoolInvHolds, PTL

(* An insert that answers ok = 0 found every slot live, until a sort, a     *)
(* wrapped eviction or an overrun of the free list.                         *)
THEOREM RefusalsAreJustified == Spec => []RefusedOnlyWhenFull
  <1>1. PoolInv => RefusedOnlyWhenFull
    BY DEF PoolInv, RegularInv, RefusedOnlyWhenFull
  <1> QED
    BY <1>1, PoolInvHolds, PTL

-----------------------------------------------------------------------------
(***************************************************************************)
(* Destructors, and the abstract store.                                     *)
(***************************************************************************)
(* Every used row holds an entity that was placed, placed entities are old  *)
(* ones, and the destructor ran once for those that are gone.               *)
Quiet == Regular /\ "evict" \notin events

DropInv ==
    /\ \A s \in Slots : s < count => val[s] \in Placed
    /\ \A e \in Placed : e <= next
    /\ \A e \in Ents : drops[e] = IF e \in Placed \ LiveEnts THEN 1 ELSE 0

DropsInv == PoolInv /\ (Quiet => DropInv)

-----------------------------------------------------------------------------
(* The row of a handle the helpers accept is live.                          *)
LEMMA AcceptedIsLive ==
    ASSUME TypeOK, HandlesInv, NEW he \in held, Valid(he[1])
    PROVE  he[1].slot \in Slots /\ LiveRow(he[1].slot) /\ gen[he[1].slot] = he[1].gen
  <1>1. he[1].slot \in Slots /\ gen[he[1].slot] = he[1].gen
    BY DEF Valid
  <1>2. he[1].gen \in 0..GenMax /\ GenMax \in Nat \ {0} /\ Cap \in Nat \ {0}
    BY HeldTypes, Ranges
  <1>3. gen[he[1].slot] >= 0
    BY <1>1, <1>2
  <1>4. CASE he[2] = NoEnt
    <2>1. he[1] = Zero /\ count = Cap
      BY <1>4 DEF HandlesInv
    <2>2. he[1].slot < count
      BY <1>2, <2>1 DEF Zero
    <2> QED
      BY <1>1, <1>3, <2>2 DEF LiveRow
  <1>5. CASE he[2] # NoEnt
    <2>1. he[1].slot < count
      BY <1>5 DEF HandlesInv, HandleInv
    <2> QED
      BY <1>1, <1>3, <2>1 DEF LiveRow
  <1> QED
    BY <1>4, <1>5

(* Placed entities are never ahead of the ones that were offered.           *)
LEMMA PlacedAreOld ==
    ASSUME TypeOK, HandlesInv, NEW e \in Placed
    PROVE  e \in 1..next
  <1>1. next \in InitLen..MaxEnt /\ MaxEnt \in Nat /\ InitLen \in Nat
    BY Ranges DEF TypeOK
  <1>2. e \in 1..MaxEnt
    BY DEF Placed, Ents
  <1>3. CASE e <= InitLen
    BY <1>1, <1>2, <1>3
  <1>4. ASSUME NEW he \in held, he[2] = e PROVE e \in 1..next
    <2>1. he[2] # NoEnt
      BY <1>2, <1>4 DEF NoEnt
    <2>2. he[2] <= next
      BY <2>1 DEF HandlesInv, HandleInv
    <2> QED
      BY <1>1, <1>2, <1>4, <2>2
  <1> QED
    BY <1>3, <1>4 DEF Placed

(* A row stored in a slot that was not live adds one placed, live entity.   *)
LEMMA WriteRowSets ==
    ASSUME TypeOK, Offer, NEW s \in Slots, WriteRow(s, FALSE),
           ~LiveRow(s), count <= count', count' \in Nat, s < count',
           \A u \in Slots : u < count' => u < count \/ u = s
    PROVE  /\ Placed' = Placed \cup {next + 1}
           /\ LiveEnts' = LiveEnts \cup {next + 1}
           /\ LiveSlots' = LiveSlots \cup {s}
           /\ next + 1 \in Ents /\ next' = next + 1
           /\ val'[s] = next + 1
           /\ \A u \in Slots : u # s => val'[u] = val[u]
  <1> DEFINE g == IssuedGen(s, FALSE)
             h == [slot |-> s, gen |-> g]
  <1>1. /\ val' = [val EXCEPT ![s] = next + 1] /\ gen' = [gen EXCEPT ![s] = g]
        /\ held' = held \cup {<<h, next + 1>>}
        /\ next' = next + 1 /\ next < MaxEnt
    BY DEF WriteRow, Offer
  <1>2. /\ next \in Nat /\ count \in 0..Cap /\ MaxEnt \in Nat /\ Cap \in Nat /\ Slots \subseteq Nat
        /\ val \in [Slots -> 0..MaxEnt] /\ gen \in [Slots -> Words] /\ Words \subseteq Int
    BY Ranges
  <1>3. g >= 0
    <2>1. g \in 1..GenMax /\ GenMax \in Nat
      BY IssuedFacts, Ranges DEF TypeOK
    <2> HIDE DEF g
    <2> QED
      BY <2>1
  <1> HIDE DEF g
  <1>4. /\ val'[s] = next + 1 /\ gen'[s] >= 0
        /\ \A u \in Slots : u # s => val'[u] = val[u] /\ gen'[u] = gen[u]
    BY <1>1, <1>2, <1>3
  <1>5. next + 1 \in Ents
    BY <1>1, <1>2 DEF Ents
  <1>6. Placed' = Placed \cup {next + 1}
    <2> HIDE DEF h
    <2>1. \A he \in held' : he \in held \/ he[2] = next + 1
      BY <1>1
    <2>2. held \subseteq held' /\ <<h, next + 1>> \in held' /\ <<h, next + 1>>[2] = next + 1
      BY <1>1
    <2> QED
      BY <1>5, <2>1, <2>2 DEF Placed
  <1>7. \A u \in Slots : u < count => u < count'
    BY <1>2
  <1>8. LiveSlots' = LiveSlots \cup {s}
    BY <1>4, <1>7 DEF LiveSlots, LiveRow
  <1>9. LiveEnts' = LiveEnts \cup {next + 1}
    <2>1. s \notin LiveSlots
      BY DEF LiveSlots
    <2>2. \A u \in LiveSlots : u # s /\ val'[u] = val[u]
      BY <1>4, <2>1 DEF LiveSlots
    <2> QED
      BY <1>4, <1>8, <2>2 DEF LiveEnts
  <1> QED
    BY <1>1, <1>4, <1>5, <1>6, <1>8, <1>9

(* Deleting a row takes its entity, and no other, out of the pool.          *)
LEMMA DeleteSets ==
    ASSUME TypeOK, RowsInv, NEW s \in Slots, LiveRow(s),
           gen' = [gen EXCEPT ![s] = FreedGen(gen[s])], val' = val, count' = count
    PROVE  LiveSlots' = LiveSlots \ {s} /\ LiveEnts' = LiveEnts \ {val[s]}
  <1>1. gen \in [Slots -> Words] /\ Words \subseteq Int
    BY Ranges
  <1>2. gen[s] \in Words /\ FreedGen(gen[s]) < 0 /\ FreedGen(gen[s]) \in Words
    BY <1>1, WordFacts
  <1>3. gen'[s] < 0 /\ ~(gen'[s] >= 0) /\ \A u \in Slots : u # s => gen'[u] = gen[u]
    <2> DEFINE w == FreedGen(gen[s])
    <2>1. w \in Int /\ w < 0 /\ gen' = [gen EXCEPT ![s] = w]
      BY <1>1, <1>2
    <2> HIDE DEF w
    <2> QED
      BY <1>1, <2>1
  <1>4. LiveSlots' = LiveSlots \ {s}
    BY <1>3 DEF LiveSlots, LiveRow
  <1>5. \A u \in LiveSlots : val[u] = val[s] => u = s
    BY DEF LiveSlots, LiveRow, RowsInv
  <1> QED
    BY <1>4, <1>5 DEF LiveEnts

-----------------------------------------------------------------------------
(* A new pool has only its initial rows, all of them live.                  *)
LEMMA DropInvInit == Init => DropInv
  <1> SUFFICES ASSUME Init PROVE DropInv
    OBVIOUS
  <1>1. Cap \in Nat \ {0} /\ InitLen \in 0..Cap /\ MaxEnt \in Nat /\ InitLen <= MaxEnt /\ Slots = 0..(Cap - 1)
    BY PoolAssumption DEF Slots
  <1>2. Placed = 1..InitLen
    BY <1>1 DEF Placed, Ents, Init
  <1>3. \A s \in Slots : s < count => val[s] = s + 1 /\ gen[s] = 0
    BY <1>1 DEF Init
  <1>4. \A s \in Slots : s < count => val[s] \in Placed
    BY <1>1, <1>2, <1>3 DEF Init
  <1>5. Placed \subseteq LiveEnts
    <2> SUFFICES ASSUME NEW e \in 1..InitLen PROVE \E s \in LiveSlots : val[s] = e
      BY <1>2 DEF LiveEnts
    <2>1. e - 1 \in Slots /\ e - 1 < count
      BY <1>1 DEF Init
    <2>2. val[e - 1] = e /\ e - 1 \in LiveSlots
      BY <1>1, <1>3, <2>1 DEF LiveSlots, LiveRow
    <2> QED
      BY <2>2
  <1>6. \A e \in Placed : e <= next
    BY <1>1, <1>2 DEF Init
  <1> QED
    BY <1>4, <1>5, <1>6 DEF DropInv, Init

(* One case per action that the premise leaves.                             *)
LEMMA DropInvStep ==
    ASSUME PoolInv, Quiet, DropInv, [Next]_poolVars, Quiet'
    PROVE  DropInv'
  <1>1. TypeOK /\ TypeInv /\ RegularInv /\ RowsInv /\ FreeInv /\ HandlesInv
    BY DEF PoolInv, TypeInv, Quiet, RegularInv
  <1>2. /\ next \in Nat /\ Slots \subseteq Nat /\ MaxEnt \in Nat /\ count \in 0..Cap /\ Cap \in Nat \ {0}
        /\ drops \in [Ents -> Nat] /\ val \in [Slots -> 0..MaxEnt]
    BY <1>1, Ranges DEF TypeOK
  <1>3. ASSUME UNCHANGED <<val, count, gen, drops>>, Placed' = Placed, next' \in {next, next + 1}
        PROVE  DropInv'
    <2>1. LiveEnts' = LiveEnts
      BY <1>3 DEF LiveEnts, LiveSlots, LiveRow
    <2>2. \A e \in Placed : e <= next'
      <3> SUFFICES ASSUME NEW e \in Placed PROVE e <= next'
        OBVIOUS
      <3>1. e \in 1..next
        BY <1>1, PlacedAreOld
      <3> QED
        BY <1>2, <1>3, <3>1
    <2> QED
      BY <1>3, <2>1, <2>2 DEF DropInv
  <1>4. ASSUME NEW s \in Slots, Offer, WriteRow(s, FALSE), ~LiveRow(s), count <= count', count' \in Nat,
               s < count', \A u \in Slots : u < count' => u < count \/ u = s, drops' = drops
        PROVE  DropInv'
    <2>1. /\ Placed' = Placed \cup {next + 1} /\ LiveEnts' = LiveEnts \cup {next + 1}
          /\ next' = next + 1 /\ val'[s] = next + 1 /\ \A u \in Slots : u # s => val'[u] = val[u]
      BY <1>1, <1>4, WriteRowSets
    <2>2. \A e \in Placed : e \in 1..next
      BY <1>1, PlacedAreOld
    <2>3. next + 1 \notin Placed
      BY <1>2, <2>2
    <2>4. \A u \in Slots : u < count' => val'[u] \in Placed'
      BY <1>4, <2>1 DEF DropInv
    <2>5. \A e \in Placed' : e <= next'
      BY <1>2, <2>1, <2>2
    <2>6. Placed' \ LiveEnts' = Placed \ LiveEnts
      BY <2>1, <2>3
    <2> QED
      BY <1>4, <2>4, <2>5, <2>6 DEF DropInv
  <1>5. CASE InsertAbort
    BY <1>3, <1>5 DEF InsertAbort, Offer, Placed
  <1>6. CASE InsertPopFree
    <2>1. PICK s \in Slots : s = FreeListAt(freeCount - 1) /\ WriteRow(s, FALSE)
      BY <1>6 DEF InsertPopFree
    <2>2. freeCount \in 2..Cap /\ count' = count /\ drops' = drops /\ Offer
      BY <1>1, <1>2, <1>6 DEF InsertPopFree, HasFree, FreeInv
    <2>3. s = freeList[freeCount - 1] /\ freeCount - 1 \in 1..(freeCount - 1)
      BY <1>2, <2>1, <2>2 DEF FreeListAt
    <2>4. s \in DeadSlots
      BY <1>1, <2>3 DEF FreeInv
    <2>5. gen[s] \in Int
      BY <1>1, Ranges
    <2>6. s < count /\ ~LiveRow(s)
      BY <2>4, <2>5 DEF DeadSlots, LiveRow
    <2>7. count <= count' /\ count' \in Nat /\ s < count' /\ \A u \in Slots : u < count' => u < count \/ u = s
      BY <1>2, <2>2, <2>6
    <2> QED
      BY <1>4, <2>1, <2>2, <2>6, <2>7
  <1>7. CASE InsertOutOfRange
    BY <1>1, <1>7, OutOfRangeStep
  <1>8. CASE InsertAppend
    <2>1. /\ Offer /\ WriteRow(count, FALSE) /\ count' = count + 1 /\ drops' = drops /\ ~(count >= Cap)
      BY <1>8 DEF InsertAppend, AtCapacity
    <2>2. count \in Slots /\ ~LiveRow(count)
      BY <1>2, <2>1 DEF Slots, LiveRow
    <2>3. count <= count' /\ count' \in Nat /\ count < count' /\ \A u \in Slots : u < count' => u < count \/ u = count
      BY <1>2, <2>1
    <2> QED
      BY <1>4, <2>1, <2>2, <2>3
  <1>9. ASSUME NEW victim \in Slots, InsertEvict(victim) PROVE DropInv'
    BY <1>9 DEF InsertEvict, Quiet
  <1>10. CASE InsertRefused
    <2>1. held' = held \cup {<<Zero, NoEnt>>} /\ UNCHANGED <<val, count, gen, drops>> /\ next' = next + 1
      BY <1>10 DEF InsertRefused, Overflow, Offer
    <2>2. NoEnt \notin Ents
      BY <1>2 DEF Ents, NoEnt
    <2>3. \A he \in held' : he \in held \/ he[2] = NoEnt
      BY <2>1
    <2>4. Placed' = Placed
      BY <2>1, <2>2, <2>3 DEF Placed
    <2> QED
      BY <1>3, <2>1, <2>4
  <1>11. ASSUME NEW he \in held, UseStale(he) \/ Cell(he) \/ DeleteExhausted(he) PROVE DropInv'
    BY <1>3, <1>11 DEF UseStale, Cell, DeleteExhausted, Placed
  <1>12. ASSUME NEW he \in held, DeleteRow(he) PROVE DropInv'
    <2> DEFINE s == he[1].slot
    <2>1. /\ Valid(he[1]) /\ drops' = RowDrop(s) /\ gen' = [gen EXCEPT ![s] = FreedGen(gen[s])]
          /\ val' = val /\ count' = count /\ next' = next /\ held' = held
      BY <1>12 DEF DeleteRow
    <2>2. s \in Slots /\ LiveRow(s)
      BY <1>1, <2>1, AcceptedIsLive
    <2> HIDE DEF s
    <2>3. LiveEnts' = LiveEnts \ {val[s]}
      BY <1>1, <2>1, <2>2, DeleteSets
    <2>4. val[s] \in Placed /\ val[s] \in LiveEnts
      BY <2>2 DEF DropInv, LiveRow, LiveEnts, LiveSlots
    <2>5. val[s] \in Ents /\ val[s] # NoEnt
      BY <1>2, <2>4 DEF Placed, Ents, NoEnt
    <2>6. drops' = [drops EXCEPT ![val[s]] = @ + 1]
      BY <2>1, <2>5 DEF RowDrop
    <2>7. drops'[val[s]] = 1 /\ \A e \in Ents : e # val[s] => drops'[e] = drops[e]
      BY <1>2, <2>4, <2>5, <2>6 DEF DropInv
    <2>8. Placed' = Placed
      BY <2>1 DEF Placed
    <2>9. \A e \in Ents : drops'[e] = IF e \in Placed' \ LiveEnts' THEN 1 ELSE 0
      BY <2>3, <2>4, <2>7, <2>8 DEF DropInv
    <2> QED
      BY <2>1, <2>8, <2>9 DEF DropInv
  <1>13. ASSUME NEW s \in Slots, Mint(s) PROVE DropInv'
    <2>1. /\ LiveRow(s) /\ held' = held \cup {<<[slot |-> s, gen |-> gen[s]], val[s]>>}
          /\ UNCHANGED <<val, count, gen, drops>> /\ next' = next
      BY <1>13 DEF Mint
    <2>2. val[s] \in Placed
      BY <2>1 DEF DropInv, LiveRow
    <2>3. \A he \in held' : he \in held \/ he[2] = val[s]
      BY <2>1
    <2>4. Placed' = Placed
      BY <2>1, <2>2, <2>3 DEF Placed
    <2> QED
      BY <1>3, <2>1, <2>4
  <1>14. ASSUME NEW desc \in BOOLEAN, Sort(desc) PROVE FALSE
    <2>1. sorts' = sorts + 1 /\ sorts' = sorts /\ sorts \in Nat
      BY <1>1, <1>14, RegularBefore, Ranges DEF Sort, Quiet
    <2> QED
      BY <2>1
  <1>15. CASE UNCHANGED poolVars
    BY <1>3, <1>15 DEF poolVars, Placed
  <1> QED
    BY <1>5, <1>6, <1>7, <1>8, <1>9, <1>10, <1>11, <1>12, <1>13, <1>14, <1>15 DEF Next, Insert, Use

LEMMA DropsInvHolds == Spec => []DropsInv
  <1>1. Init => DropsInv
    BY PoolInvInit, DropInvInit DEF DropsInv
  <1>2. DropsInv /\ [Next]_poolVars => DropsInv'
    <2> SUFFICES ASSUME DropsInv, [Next]_poolVars PROVE DropsInv'
      OBVIOUS
    <2>1. PoolInv /\ PoolInv' /\ TypeOK
      BY PoolInvStep DEF DropsInv, PoolInv, TypeInv
    <2>2. ASSUME Quiet' PROVE Quiet
      <3>1. Regular
        BY <2>1, <2>2, RegularBefore DEF Quiet
      <3>2. events \subseteq events'
        BY DEF Next, Insert, Use, InsertAbort, InsertPopFree, InsertOutOfRange, InsertAppend, InsertEvict,
               InsertRefused, UseStale, Cell, DeleteExhausted, DeleteRow, Mint, Sort, poolVars
      <3> QED
        BY <2>2, <3>1, <3>2 DEF Quiet
    <2>3. Quiet' => DropInv'
      BY <2>1, <2>2, DropInvStep DEF DropsInv
    <2> QED
      BY <2>1, <2>3 DEF DropsInv
  <1> QED
    BY <1>1, <1>2, PTL DEF Spec

(* The destructor of a row runs once for every entity that has left the     *)
(* pool and not for one that is in it, whatever is inserted, refused and    *)
(* deleted in between.                                                      *)
THEOREM DropsAreExact == Spec => []DropsExact
  <1>1. DropsInv => DropsExact
    <2> SUFFICES ASSUME DropsInv, Quiet, NEW e \in Placed
                 PROVE  drops[e] = IF e \in LiveEnts THEN 0 ELSE 1
      BY DEF DropsExact, DropsExactAlways, Quiet
    <2>1. e \in Ents
      BY DEF Placed
    <2> QED
      BY <2>1 DEF DropsInv, DropInv
  <1> QED
    BY <1>1, DropsInvHolds, PTL

-----------------------------------------------------------------------------
(* A pool whose inserts are rejected when it is full, which is never sorted *)
(* and whose program tests ok: the only rule it can leave is the free list  *)
(* pushed past its end, and then every slot is freed and the next insert    *)
(* leaves the store undefined.                                              *)
Plain == MaxSorts = 0 /\ Policies = {"reject"} /\ HonoursOk = TRUE

StoreInv ==
    /\ PoolInv
    /\ sorts = 0 /\ events \subseteq {"overrun"}
    /\ "overrun" \in events => /\ \A s \in Slots : gen[s] < 0
                               /\ phase = "run" => freeCount = Cap + 1

(* Different live rows hold different entities, so there are as many of     *)
(* them.                                                                    *)
LEMMA LiveCardinality ==
    ASSUME TypeOK, RowsInv
    PROVE  /\ LiveSlots = Slots => Cardinality(LiveEnts) = Cap
           /\ LiveSlots # Slots => Cardinality(LiveEnts) < Cap
  <1> DEFINE f == [s \in LiveSlots |-> val[s]]
  <1>1. IsFiniteSet(Slots) /\ Cardinality(Slots) = Cap
    BY FS_Interval, PoolAssumption DEF Slots
  <1>2. LiveSlots \in SUBSET Slots
    BY DEF LiveSlots
  <1>3. /\ IsFiniteSet(LiveSlots) /\ Cardinality(LiveSlots) <= Cap
        /\ LiveSlots # Slots => Cardinality(LiveSlots) # Cap
    BY <1>1, <1>2, FS_Subset
  <1>4. f \in Surjection(LiveSlots, LiveEnts)
    BY DEF Surjection, LiveEnts
  <1>5. f \in Injection(LiveSlots, LiveEnts)
    <2>1. \A s, u \in LiveSlots : val[s] = val[u] => s = u
      BY DEF LiveSlots, LiveRow, RowsInv
    <2> QED
      BY <2>1 DEF Injection, IsInjective, LiveEnts
  <1>6. Cardinality(LiveEnts) = Cardinality(LiveSlots)
    BY <1>3, <1>4, <1>5, FS_Surjection
  <1>7. Cardinality(LiveSlots) \in Nat /\ Cap \in Nat
    BY <1>3, FS_CardinalityType, PoolAssumption
  <1> QED
    BY <1>1, <1>3, <1>6, <1>7

(* With every slot freed no handle is accepted, and only the insert that    *)
(* pops past the free list or the use of a stale handle is left.            *)
LEMMA AfterOverrun ==
    ASSUME Plain, StoreInv, "overrun" \in events, Next
    PROVE  InsertOutOfRange \/ \E he \in held : UseStale(he)
  <1>1. TypeOK /\ \A s \in Slots : gen[s] < 0
    BY DEF StoreInv, PoolInv, TypeInv
  <1>2. Cap \in Nat \ {0} /\ GenMax \in Nat \ {0} /\ MaxSorts = 0 /\ sorts \in Nat /\ Slots \subseteq Nat
        /\ gen \in [Slots -> Words] /\ Words \subseteq Int
    BY <1>1, Ranges DEF Plain
  <1>3. phase = "run" => freeCount = Cap + 1 /\ HasFree
    BY <1>2 DEF StoreInv, HasFree
  <1>4. ~InsertAbort /\ \A victim \in Slots : ~InsertEvict(victim)
    BY DEF Plain, InsertAbort, MayAbort, InsertEvict
  <1>5. ~InsertPopFree
    <2> SUFFICES ASSUME InsertPopFree PROVE FALSE
      OBVIOUS
    <2>1. freeCount = Cap + 1 /\ FreeListAt(freeCount - 1) \in Slots
      BY <1>3 DEF InsertPopFree, Offer
    <2>2. FreeListAt(Cap) = Cap + 1 /\ freeCount - 1 = Cap
      BY <1>2, <2>1 DEF FreeListAt
    <2> QED
      BY <1>2, <2>1, <2>2 DEF Slots
  <1>6. ~InsertAppend /\ ~InsertRefused
    BY <1>3 DEF InsertAppend, InsertRefused, Overflow, Offer
  <1>7. \A he \in held : ~Valid(he[1])
    <2> SUFFICES ASSUME NEW he \in held, Valid(he[1]) PROVE FALSE
      OBVIOUS
    <2>1. he[1].gen \in 0..GenMax /\ gen[he[1].slot] = he[1].gen /\ he[1].slot \in Slots
      BY <1>1, HeldTypes DEF Valid
    <2>2. gen[he[1].slot] < 0
      BY <1>1, <2>1
    <2> QED
      BY <1>2, <2>1, <2>2
  <1>8. \A he \in held : ~Cell(he) /\ ~DeleteExhausted(he) /\ ~DeleteRow(he)
    BY <1>7 DEF Cell, DeleteExhausted, DeleteRow
  <1>9. \A s \in Slots : ~Mint(s)
    <2>1. \A s \in Slots : gen[s] \in Int /\ gen[s] < 0
      BY <1>1, <1>2
    <2>2. \A s \in Slots : ~LiveRow(s)
      BY <2>1 DEF LiveRow
    <2> QED
      BY <2>2 DEF Mint
  <1>10. \A desc \in BOOLEAN : ~Sort(desc)
    BY <1>2 DEF Sort
  <1> QED
    BY <1>4, <1>5, <1>6, <1>8, <1>9, <1>10 DEF Next, Insert, Use

(* Without an overrun the pool is regular.                                  *)
LEMMA RegularUntilOverrun ==
    ASSUME StoreInv, "overrun" \notin events
    PROVE  Regular /\ RegularInv
  BY DEF StoreInv, Regular, PoolInv

LEMMA StoreInvStep ==
    ASSUME Plain, StoreInv, [Next]_poolVars
    PROVE  StoreInv'
  <1>1. PoolInv /\ PoolInv' /\ TypeOK /\ TypeInv' /\ TypeOK'
    BY PoolInvStep DEF StoreInv, PoolInv, TypeInv
  <1>2. Cap \in Nat \ {0} /\ freeCount \in 0..(Cap + 1)
    BY <1>1, Ranges
  <1>3. sorts' = 0
    <2>1. sorts' \in 0..MaxSorts /\ MaxSorts = 0
      BY <1>1 DEF TypeOK, Plain
    <2> QED
      BY <2>1
  <1>4. CASE UNCHANGED poolVars
    BY <1>1, <1>4 DEF StoreInv, poolVars
  <1>5. CASE Next /\ "overrun" \in events
    <2>1. gen' = gen /\ events' = events /\ phase' # "run"
      BY <1>5, AfterOverrun DEF InsertOutOfRange, UseStale
    <2> QED
      BY <1>1, <1>3, <2>1 DEF StoreInv
  <1>6. CASE Next /\ "overrun" \notin events
    <2>1. FreeInv
      BY <1>6, RegularUntilOverrun DEF RegularInv
    <2>2. ASSUME events' = events PROVE StoreInv'
      BY <1>1, <1>3, <1>6, <2>2 DEF StoreInv
    <2>3. ASSUME NEW he \in held, DeleteRow(he) PROVE StoreInv'
      <3>1. freeCount \in 1..Cap /\ freeCount' = freeCount + 1
            /\ events' = IF freeCount < Cap THEN events ELSE events \cup {"overrun"}
        BY <2>1, <2>3 DEF DeleteRow, FreeInv
      <3>2. CASE freeCount < Cap
        BY <2>2, <3>1, <3>2
      <3>3. CASE ~(freeCount < Cap)
        <4>1. freeCount' = Cap + 1 /\ events' = events \cup {"overrun"}
          BY <1>2, <3>1, <3>3
        <4>2. \A s \in Slots : gen'[s] < 0
          BY <1>1, <4>1 DEF TypeInv, FreeListInv
        <4> QED
          BY <1>1, <1>3, <4>1, <4>2 DEF StoreInv
      <3> QED
        BY <3>2, <3>3
    <2>4. ASSUME NEW victim \in Slots, InsertEvict(victim) PROVE FALSE
      BY <2>4 DEF InsertEvict, Plain
    <2> QED
      BY <1>6, <2>2, <2>3, <2>4 DEF Next, Insert, Use, InsertAbort, InsertPopFree, InsertOutOfRange, InsertAppend,
           InsertRefused, UseStale, Cell, DeleteExhausted, Mint, Sort
  <1> QED
    BY <1>4, <1>5, <1>6

LEMMA StoreInvHolds ==
    ASSUME Plain
    PROVE  Spec => []StoreInv
  <1>1. Init => StoreInv
    BY PoolInvInit DEF StoreInv, Init
  <1>2. StoreInv /\ [Next]_poolVars => StoreInv'
    BY StoreInvStep
  <1> QED
    BY <1>1, <1>2, PTL DEF Spec

-----------------------------------------------------------------------------
(* The store's own variables, seen in the pool.                             *)
Issued == {he \in held : he[2] # NoEnt}

(* The store counts its entities as the pool does.                          *)
LEMMA SameCardinality == \A S : Store!Cardinality(S) = Cardinality(S)
  BY DEF Cardinality, Store!Cardinality

(* A stored row is a Create of the store: a new entity, room for it, and a  *)
(* handle that was never issued.                                            *)
LEMMA CreateStep ==
    ASSUME TypeOK, RowsInv, HandlesInv, Offer, NEW s \in Slots, WriteRow(s, FALSE), ~LiveRow(s),
           count <= count', count' \in Nat, s < count',
           \A u \in Slots : u < count' => u < count \/ u = s,
           \A he \in held : he[2] # NoEnt /\ he[1].slot = s => he[1].gen < IssuedGen(s, FALSE),
           phase' = phase
    PROVE  Store!StoreNext
  <1> DEFINE g == IssuedGen(s, FALSE)
             h == [slot |-> s, gen |-> g]
  <1>0. PICK e \in Ents : e = next + 1
    BY WriteRowSets
  <1>1. LiveEnts' = LiveEnts \cup {e}
    BY <1>0, WriteRowSets
  <1>2. /\ held' = held \cup {<<h, e>>} /\ phase = "run"
        /\ out' = [op |-> "insert", ok |-> 1, h |-> h, e |-> e]
    BY <1>0 DEF WriteRow, Offer, Answer
  <1>3. next \in Nat /\ g \in 1..GenMax /\ GenMax \in Nat
    BY Ranges, IssuedFacts DEF TypeOK
  <1>4. e \notin LiveEnts
    <2>1. \A u \in LiveSlots : val[u] \in 1..next
      BY DEF LiveSlots, LiveRow, RowsInv
    <2> QED
      BY <1>0, <1>3, <2>1 DEF LiveEnts
  <1>5. Cardinality(LiveEnts) < Cap
    <2>1. LiveSlots # Slots
      BY DEF LiveSlots
    <2> QED
      BY <2>1, LiveCardinality
  <1>6. \A p \in Issued : p[1] # h
    <2> SUFFICES ASSUME NEW p \in Issued, p[1] = h PROVE FALSE
      OBVIOUS
    <2>1. p[1].slot = s /\ p[1].gen = g
      OBVIOUS
    <2>2. g < g
      BY <2>1 DEF Issued
    <2> HIDE DEF g
    <2> QED
      BY <1>3, <2>2
  <1> HIDE DEF g, h
  <1>7. Issued' = Issued \cup {<<h, e>>}
    <2>1. e # NoEnt
      BY <1>0, <1>3 DEF NoEnt
    <2> QED
      BY <1>2, <2>1 DEF Issued
  <1>8. Store!Names(h) = {}
    BY <1>6 DEF Store!Names, Issued
  <1>9. out'.op = "insert" /\ out'.ok = 1 /\ out'.e = e /\ out'.h = h
    BY <1>2
  <1>10. Store!Create(e)
    BY <1>1, <1>2, <1>4, <1>5, <1>7, <1>8, <1>9, SameCardinality DEF Store!Create, Issued
  <1> QED
    BY <1>10 DEF Store!StoreNext

(* Every step of a regular pool is a step of the store.                     *)
LEMMA RegularRefines ==
    ASSUME Plain, TypeInv, RegularInv, Regular, Next
    PROVE  Store!StoreNext \/ UNCHANGED Store!storeVars
  <1>1. TypeOK /\ RowsInv /\ FreeInv /\ HandlesInv
    BY DEF TypeInv, RegularInv
  <1>2. /\ next \in Nat /\ Slots \subseteq Nat /\ MaxEnt \in Nat /\ count \in 0..Cap /\ Cap \in Nat \ {0}
        /\ GenMax \in Nat \ {0} /\ gen \in [Slots -> Words] /\ val \in [Slots -> 0..MaxEnt] /\ Words \subseteq Int
    BY <1>1, Ranges
  <1>3. NoAlias /\ NoFalseStale
    BY <1>1, RegularHandles
  <1>4. ASSUME NEW he \in held PROVE he = <<he[1], he[2]>> /\ he[2] \in 0..MaxEnt
    <2>1. he \in Handles \X (0..MaxEnt)
      BY <1>1, <1>4 DEF TypeOK, Issues
    <2> QED
      BY <2>1
  <1>5. CASE InsertAbort
    BY <1>5 DEF InsertAbort, MayAbort, Plain
  <1>6. CASE InsertPopFree
    <2>1. PICK s \in Slots : s = FreeListAt(freeCount - 1) /\ WriteRow(s, FALSE)
      BY <1>6 DEF InsertPopFree
    <2>2. freeCount \in 2..Cap /\ count' = count /\ Offer /\ phase' = phase
      BY <1>1, <1>2, <1>6 DEF InsertPopFree, HasFree, FreeInv
    <2>3. s = freeList[freeCount - 1] /\ freeCount - 1 \in 1..(freeCount - 1)
      BY <1>2, <2>1, <2>2 DEF FreeListAt
    <2>4. s \in DeadSlots /\ gen[s] \in Int /\ gen[s] \in Words
      BY <1>1, <1>2, <2>3 DEF FreeInv
    <2>5. s < count /\ gen[s] < 0 /\ ~LiveRow(s) /\ Low(gen[s]) >= 1
      BY <1>1, <2>4 DEF DeadSlots, LiveRow, RowsInv
    <2>6. IssuedGen(s, FALSE) = Low(gen[s])
      BY <1>2, <2>5, IssuedFacts
    <2>7. \A he \in held : he[2] # NoEnt /\ he[1].slot = s => he[1].gen < IssuedGen(s, FALSE)
      BY <1>1, <2>5, <2>6 DEF HandlesInv, HandleInv
    <2>8. count <= count' /\ count' \in Nat /\ s < count' /\ \A u \in Slots : u < count' => u < count \/ u = s
      BY <1>2, <2>2, <2>5
    <2> QED
      BY <1>1, <2>1, <2>2, <2>5, <2>7, <2>8, CreateStep
  <1>7. CASE InsertOutOfRange
    BY <1>7, OutOfRangeStep
  <1>8. CASE InsertAppend
    <2>1. /\ Offer /\ WriteRow(count, FALSE) /\ count' = count + 1 /\ ~(count >= Cap) /\ phase' = phase
      BY <1>8 DEF InsertAppend, AtCapacity
    <2>2. count \in Slots /\ ~LiveRow(count)
      BY <1>2, <2>1 DEF Slots, LiveRow
    <2>3. count <= count' /\ count' \in Nat /\ count < count' /\ \A u \in Slots : u < count' => u < count \/ u = count
      BY <1>2, <2>1
    <2>4. \A he \in held : he[2] # NoEnt => he[1].slot # count
      <3>1. \A he \in held : he[2] # NoEnt => he[1].slot \in Slots /\ he[1].slot < count
        BY <1>1 DEF HandlesInv, HandleInv
      <3> QED
        BY <1>2, <3>1
    <2> QED
      BY <1>1, <2>1, <2>2, <2>3, <2>4, CreateStep
  <1>9. ASSUME NEW victim \in Slots, InsertEvict(victim) PROVE FALSE
    BY <1>9 DEF InsertEvict, Plain
  <1>10. CASE InsertRefused
    <2>1. /\ ~HasFree /\ AtCapacity /\ phase = "run" /\ phase' = phase
          /\ held' = held \cup {<<Zero, NoEnt>>} /\ val' = val /\ count' = count /\ gen' = gen
          /\ out' = [op |-> "insert", ok |-> 0, h |-> Zero, e |-> next + 1]
      BY <1>10 DEF InsertRefused, Overflow, Offer, Answer
    <2>2. Cardinality(LiveEnts) = Cap
      BY <1>1, <2>1, FullIsLive, LiveCardinality
    <2>3. LiveEnts' = LiveEnts
      BY <2>1 DEF LiveEnts, LiveSlots, LiveRow
    <2>4. Issued' = Issued
      BY <2>1 DEF Issued
    <2>5. out'.op = "insert" /\ out'.ok = 0
      BY <2>1
    <2>6. Store!Refuse
      BY <2>1, <2>2, <2>3, <2>4, <2>5, SameCardinality DEF Store!Refuse, Issued
    <2> QED
      BY <2>6 DEF Store!StoreNext
  <1>11. ASSUME NEW he \in held, UseStale(he) PROVE Store!StoreNext
    <2>1. /\ phase = "run" /\ phase' = "stale handle" /\ ~Valid(he[1]) /\ he[2] # NoEnt
          /\ val' = val /\ count' = count /\ gen' = gen /\ held' = held /\ out' = out
      BY <1>11 DEF UseStale, Usable, Plain
    <2>2. he \in Issued /\ he[2] \notin LiveEnts
      BY <1>3, <2>1 DEF Issued, NoFalseStale
    <2>3. LiveEnts' = LiveEnts /\ Issued' = Issued
      BY <2>1 DEF LiveEnts, LiveSlots, LiveRow, Issued
    <2>4. Store!Crash
      BY <2>1, <2>2, <2>3 DEF Store!Crash, Issued
    <2> QED
      BY <2>4 DEF Store!StoreNext
  <1>12. ASSUME NEW he \in held, Usable(he), Valid(he[1])
         PROVE  \E e \in Ents :
                   /\ e = he[2] /\ he \in Issued /\ he = <<he[1], e>> /\ he[1].slot \in Slots
                   /\ LiveRow(he[1].slot) /\ val[he[1].slot] = e /\ e \in LiveEnts
    <2>1. he[2] # NoEnt /\ he \in Issued
      BY <1>12 DEF Usable, Plain, Issued
    <2>2. LiveRow(he[1].slot) /\ val[he[1].slot] = he[2] /\ he[1].slot \in Slots
      BY <1>3, <1>12, <2>1 DEF NoAlias, Valid
    <2>3. he[2] \in LiveEnts
      BY <2>2 DEF LiveEnts, LiveSlots
    <2>4. he[2] \in Ents
      BY <1>2, <1>4, <2>1 DEF Ents, NoEnt
    <2> QED
      BY <1>4, <2>1, <2>2, <2>3, <2>4
  <1>13. ASSUME NEW he \in held, Cell(he) PROVE Store!StoreNext
    <2>1. /\ Usable(he) /\ Valid(he[1]) /\ phase = "run" /\ phase' = phase
          /\ out' = [op |-> "cell", ok |-> 1, h |-> he[1], e |-> val[he[1].slot]]
          /\ val' = val /\ count' = count /\ gen' = gen /\ held' = held
      BY <1>13 DEF Cell, Answer
    <2>2. PICK e \in Ents : e = he[2] /\ he \in Issued /\ he = <<he[1], e>> /\ val[he[1].slot] = e /\ e \in LiveEnts
      BY <1>12, <2>1
    <2>3. LiveEnts' = LiveEnts /\ Issued' = Issued
      BY <2>1 DEF LiveEnts, LiveSlots, LiveRow, Issued
    <2>4. out'.op = "cell" /\ out'.e = e /\ <<out'.h, e>> \in Issued
      BY <2>1, <2>2
    <2>5. Store!Read(e)
      BY <2>1, <2>2, <2>3, <2>4 DEF Store!Read, Issued
    <2> QED
      BY <2>5 DEF Store!StoreNext
  <1>14. ASSUME NEW he \in held, DeleteExhausted(he) PROVE Store!StoreNext
    <2>1. /\ Usable(he) /\ Valid(he[1]) /\ phase = "run" /\ phase' = phase
          /\ out' = [op |-> "delete", ok |-> 0, h |-> he[1], e |-> he[2]]
          /\ val' = val /\ count' = count /\ gen' = gen /\ held' = held
      BY <1>14 DEF DeleteExhausted, Answer
    <2>2. PICK e \in Ents : e = he[2] /\ he \in Issued /\ he = <<he[1], e>> /\ e \in LiveEnts
      BY <1>12, <2>1
    <2>3. LiveEnts' = LiveEnts /\ Issued' = Issued
      BY <2>1 DEF LiveEnts, LiveSlots, LiveRow, Issued
    <2>4. out'.op = "delete" /\ out'.ok = 0 /\ <<out'.h, e>> \in Issued
      BY <2>1, <2>2
    <2>5. Store!Destroy(e)
      BY <2>1, <2>2, <2>3, <2>4 DEF Store!Destroy, Issued
    <2> QED
      BY <2>5 DEF Store!StoreNext
  <1>15. ASSUME NEW he \in held, DeleteRow(he) PROVE Store!StoreNext
    <2>1. /\ Usable(he) /\ Valid(he[1]) /\ phase = "run" /\ phase' = phase
          /\ out' = [op |-> "delete", ok |-> 1, h |-> he[1], e |-> he[2]]
          /\ gen' = [gen EXCEPT ![he[1].slot] = FreedGen(gen[he[1].slot])]
          /\ val' = val /\ count' = count /\ held' = held
      BY <1>15 DEF DeleteRow, Answer
    <2>2. PICK e \in Ents :
             /\ e = he[2] /\ he \in Issued /\ he = <<he[1], e>> /\ e \in LiveEnts
             /\ he[1].slot \in Slots /\ LiveRow(he[1].slot) /\ val[he[1].slot] = e
      BY <1>12, <2>1
    <2>3. LiveEnts' = LiveEnts \ {e}
      BY <1>1, <2>1, <2>2, DeleteSets
    <2>4. Issued' = Issued
      BY <2>1 DEF Issued
    <2>5. out'.op = "delete" /\ out'.ok = 1 /\ <<out'.h, e>> \in Issued
      BY <2>1, <2>2
    <2>6. Store!Destroy(e)
      BY <2>1, <2>2, <2>3, <2>4, <2>5 DEF Store!Destroy, Issued
    <2> QED
      BY <2>6 DEF Store!StoreNext
  <1>16. ASSUME NEW s \in Slots, Mint(s) PROVE Store!StoreNext
    <2> DEFINE h == [slot |-> s, gen |-> gen[s]]
    <2>1. /\ phase = "run" /\ phase' = phase /\ LiveRow(s) /\ held' = held \cup {<<h, val[s]>>}
          /\ val' = val /\ count' = count /\ gen' = gen /\ out' = out
      BY <1>16 DEF Mint
    <2>2. PICK e \in Ents : e = val[s]
      BY <1>1, <1>2, <2>1 DEF LiveRow, RowsInv, Ents
    <2>3. e \in LiveEnts /\ LiveEnts' = LiveEnts
      BY <2>1, <2>2 DEF LiveEnts, LiveSlots, LiveRow
    <2>4. \A p \in Issued : p[1] = h => p[2] = e
      BY <1>1, <2>1, <2>2 DEF Issued, HandlesInv, HandleInv
    <2> HIDE DEF h
    <2>5. Issued' = Issued \cup {<<h, e>>}
      <3>1. e # NoEnt
        BY <1>2 DEF Ents, NoEnt
      <3> QED
        BY <2>1, <2>2, <3>1 DEF Issued
    <2>6. h \in {p[1] : p \in Issued'}
      <3>1. <<h, e>> \in Issued' /\ <<h, e>>[1] = h
        BY <2>5
      <3> QED
        BY <3>1
    <2>7. Store!Names(h) \subseteq {e}
      BY <2>4 DEF Store!Names, Issued
    <2>8. Store!Reveal(e)
      BY <2>1, <2>3, <2>5, <2>6, <2>7 DEF Store!Reveal, Issued
    <2> QED
      BY <2>8 DEF Store!StoreNext
  <1>17. ASSUME NEW desc \in BOOLEAN, Sort(desc) PROVE FALSE
    <2>1. sorts < 0 /\ sorts \in Nat
      BY <1>1, <1>17, Ranges DEF Sort, Plain
    <2> QED
      BY <2>1
  <1> QED
    BY <1>5, <1>6, <1>7, <1>8, <1>9, <1>10, <1>11, <1>13, <1>14, <1>15, <1>16, <1>17 DEF Next, Insert, Use

(* After an overrun the store is empty: the program stops on a stale handle *)
(* or the next insert leaves the store undefined.                           *)
LEMMA OverrunRefines ==
    ASSUME Plain, StoreInv, "overrun" \in events, Next
    PROVE  Store!StoreNext
  <1>1. LiveEnts = {}
    <2>1. TypeOK /\ \A s \in Slots : gen[s] < 0
      BY DEF StoreInv, PoolInv, TypeInv
    <2>2. \A s \in Slots : gen[s] \in Int
      BY <2>1, Ranges
    <2> QED
      BY <2>1, <2>2 DEF LiveEnts, LiveSlots, LiveRow
  <1>2. CASE InsertOutOfRange
    <2>1. /\ phase = "run" /\ phase' = "corrupted" /\ val' = val /\ count' = count /\ gen' = gen /\ held' = held
      BY <1>2 DEF InsertOutOfRange, Offer
    <2>2. LiveEnts' = LiveEnts /\ Issued' = Issued
      BY <2>1 DEF LiveEnts, LiveSlots, LiveRow, Issued
    <2>3. Store!Undefined
      BY <1>1, <2>1, <2>2 DEF Store!Undefined, Issued
    <2> QED
      BY <2>3 DEF Store!StoreNext
  <1>3. ASSUME NEW he \in held, UseStale(he) PROVE Store!StoreNext
    <2>1. /\ phase = "run" /\ phase' = "stale handle" /\ he[2] # NoEnt
          /\ val' = val /\ count' = count /\ gen' = gen /\ held' = held /\ out' = out
      BY <1>3 DEF UseStale, Usable, Plain
    <2>2. he \in Issued /\ he[2] \notin LiveEnts
      BY <1>1, <2>1 DEF Issued
    <2>3. LiveEnts' = LiveEnts /\ Issued' = Issued
      BY <2>1 DEF LiveEnts, LiveSlots, LiveRow, Issued
    <2>4. Store!Crash
      BY <2>1, <2>2, <2>3 DEF Store!Crash, Issued
    <2> QED
      BY <2>4 DEF Store!StoreNext
  <1> QED
    BY <1>2, <1>3, AfterOverrun

(* A pool that is created with its rows is a store with those entities.     *)
LEMMA InitRefines == Init => Store!StoreInit
  <1> SUFFICES ASSUME Init PROVE Store!StoreInit
    OBVIOUS
  <1>1. Cap \in Nat \ {0} /\ InitLen \in 0..Cap /\ Slots = 0..(Cap - 1)
    BY PoolAssumption DEF Slots
  <1>2. LiveSlots = 0..(InitLen - 1) /\ \A s \in LiveSlots : val[s] = s + 1
    BY <1>1 DEF Init, LiveSlots, LiveRow
  <1>3. LiveEnts = 1..InitLen
    <2>1. \A s \in LiveSlots : val[s] \in 1..InitLen
      BY <1>1, <1>2
    <2>2. ASSUME NEW e \in 1..InitLen PROVE \E s \in LiveSlots : val[s] = e
      <3>1. e - 1 \in LiveSlots /\ val[e - 1] = e
        BY <1>1, <1>2
      <3> QED
        BY <3>1
    <2> QED
      BY <2>1, <2>2 DEF LiveEnts
  <1> QED
    BY <1>3 DEF Init, Store!StoreInit

(* The emitted pool implements the abstract store: rows, generations and    *)
(* free list hide behind entities that come and go and handles that name    *)
(* one of them for ever, and the free list pushed past its end is the one   *)
(* hole in it.                                                              *)
THEOREM PoolImplementsStore ==
    ASSUME Plain
    PROVE  Spec => StoreSpec
  <1>1. StoreInv /\ [Next]_poolVars => [Store!StoreNext]_(Store!storeVars)
    <2> SUFFICES ASSUME StoreInv, [Next]_poolVars
                 PROVE  Store!StoreNext \/ UNCHANGED Store!storeVars
      OBVIOUS
    <2>1. CASE Next /\ "overrun" \in events
      BY <2>1, OverrunRefines
    <2>2. CASE Next /\ "overrun" \notin events
      BY <2>2, RegularUntilOverrun, RegularRefines DEF StoreInv, PoolInv
    <2>3. CASE UNCHANGED poolVars
      BY <2>3 DEF poolVars, Store!storeVars, LiveEnts, LiveSlots, LiveRow
    <2> QED
      BY <2>1, <2>2, <2>3
  <1> QED
    BY <1>1, InitRefines, StoreInvHolds, PTL DEF Spec, StoreSpec, Store!StoreSpec

-----------------------------------------------------------------------------
(***************************************************************************)
(* Sort and the collectives that read a pool, for every capacity, policy    *)
(* and number of sorts.  Nothing here is limited to a regular pool: the     *)
(* rows are packed whatever happened to the generations.                    *)
(***************************************************************************)

(* After a sort free_count is 0 and stays there until the next delete:      *)
(* meanwhile no row below the high-water mark is tombstoned.                *)
NoHoleInv == freeCount = 0 => \A s \in Slots : s < count => ~(gen[s] < 0)

(* Every row below the high-water mark has been written.                    *)
WrittenInv == \A s \in Slots : s < count => val[s] \in Ents

SortInv == TypeInv /\ NoHoleInv /\ WrittenInv

-----------------------------------------------------------------------------
(* The live rows are finitely many, and no more than the used ones.         *)
LEMMA LiveAtMostCount ==
    ASSUME TypeOK
    PROVE  /\ IsFiniteSet(LiveSlots)
           /\ Cardinality(LiveSlots) \in Nat
           /\ Cardinality(LiveSlots) <= count
           /\ IsFiniteSet(Used) /\ Cardinality(Used) = count
           /\ Used \subseteq Slots
           /\ \A s \in Slots : s < count <=> s \in Used
  <1>1. count \in 0..Cap /\ Cap \in Nat \ {0} /\ Slots \subseteq Nat /\ \A i \in Nat : i \in Slots <=> i < Cap
    BY Ranges
  <1>2. IsFiniteSet(Used) /\ Cardinality(Used) = count
    BY <1>1, FS_Interval DEF Used
  <1>3. Used \subseteq Slots /\ \A s \in Slots : s < count <=> s \in Used
    BY <1>1 DEF Used
  <1>4. LiveSlots \in SUBSET Used
    BY <1>3 DEF LiveSlots, LiveRow
  <1>5. IsFiniteSet(LiveSlots) /\ Cardinality(LiveSlots) <= count
    BY <1>2, <1>4, FS_Subset
  <1> QED
    BY <1>2, <1>3, <1>5, FS_CardinalityType

(* The comparison of the index sort never puts a row ahead of itself, so    *)
(* the order it leaves is a permutation of the used rows.                   *)
LEMMA OrderIsPermutation ==
    ASSUME TypeOK, NEW desc \in BOOLEAN, NEW order \in [Used -> Used], IsOrder(desc, order)
    PROVE  /\ \A s, t \in Used : order[s] = order[t] => s = t
           /\ \A u \in Used : \E s \in Used : order[s] = u
  <1>1. Used \subseteq Nat
    BY LiveAtMostCount, Ranges
  <1>2. \A s \in Used : KeyAt(s) \in Int
    <2> SUFFICES ASSUME NEW s \in Used PROVE KeyAt(s) \in Int
      OBVIOUS
    <2>1. val[s] \in 0..MaxEnt
      BY LiveAtMostCount, Ranges
    <2>2. val[s] # NoEnt => val[s] \in 1..MaxEnt
      BY <2>1, Ranges DEF NoEnt
    <2>3. Key \in [1..MaxEnt -> Int]
      BY PoolAssumption
    <2> QED
      BY <2>2, <2>3 DEF KeyAt
  <1>3. \A s \in Used : ~Ahead(desc, s, s)
    BY <1>1, <1>2 DEF Ahead, Before
  <1>4. \A s, t \in Used : order[s] = order[t] => s = t
    <2> SUFFICES ASSUME NEW s \in Used, NEW t \in Used, order[s] = order[t] PROVE s = t
      OBVIOUS
    <2>1. ~(s < t) /\ ~(t < s)
      BY <1>3 DEF IsOrder
    <2> QED
      BY <1>1, <2>1
  <1>5. order \in Injection(Used, Used)
    BY <1>4 DEF Injection, IsInjective
  <1>6. order \in Surjection(Used, Used)
    BY <1>5, LiveAtMostCount, FS_Injection
  <1> QED
    BY <1>4, <1>6 DEF Surjection

(* The first Cardinality(LiveSlots) positions of the order are exactly the  *)
(* live rows.                                                               *)
LEMMA LiveRowsFirst ==
    ASSUME TypeOK, NEW desc \in BOOLEAN, NEW order \in [Used -> Used], IsOrder(desc, order)
    PROVE  \A s \in Used : LiveRow(order[s]) <=> s \in 0..(Cardinality(LiveSlots) - 1)
  <1> DEFINE P == {s \in Used : LiveRow(order[s])}
             f == [s \in P |-> order[s]]
             n == Cardinality(LiveSlots)
  <1>1. count \in Nat /\ n \in Nat /\ n <= count /\ Used \subseteq Nat /\ Used = 0..(count - 1)
        /\ Used \subseteq Slots
    BY LiveAtMostCount, Ranges DEF Used
  <1>2. f \in Bijection(P, LiveSlots)
    <2>1. f \in [P -> LiveSlots]
      BY <1>1 DEF LiveSlots
    <2>2. IsInjective(f)
      BY OrderIsPermutation DEF IsInjective
    <2>3. \A u \in LiveSlots : \E s \in P : f[s] = u
      <3> SUFFICES ASSUME NEW u \in LiveSlots PROVE \E s \in P : f[s] = u
        OBVIOUS
      <3>1. u \in Used /\ LiveRow(u)
        BY LiveAtMostCount DEF LiveSlots, LiveRow
      <3>2. PICK s \in Used : order[s] = u
        BY <3>1, OrderIsPermutation
      <3>3. s \in P
        BY <3>1, <3>2
      <3> QED
        BY <3>2, <3>3
    <2> QED
      BY <2>1, <2>2, <2>3 DEF Bijection, Injection, Surjection
  <1>3. IsFiniteSet(P) /\ Cardinality(P) = n
    <2>1. P \in SUBSET Used
      OBVIOUS
    <2>2. IsFiniteSet(P)
      BY <2>1, LiveAtMostCount, FS_Subset
    <2>3. ExistsBijection(P, LiveSlots)
      BY <1>2 DEF ExistsBijection
    <2> HIDE DEF P
    <2> QED
      BY <2>2, <2>3, FS_Bijection
  <1>4. ASSUME NEW s \in Used, NEW t \in P, s < t PROVE s \in P
    BY <1>4 DEF IsOrder, Ahead
  <1>5. ASSUME NEW s \in 0..(n - 1) PROVE s \in P
    <2> SUFFICES ASSUME s \notin P PROVE FALSE
      OBVIOUS
    <2>1. s \in Used /\ s \in Nat /\ s < n
      BY <1>1
    <2>2. P \in SUBSET 0..(s - 1)
      <3> SUFFICES ASSUME NEW t \in P PROVE t \in 0..(s - 1)
        OBVIOUS
      <3>1. t \in Nat /\ t \in Used
        BY <1>1
      <3>2. ~(s < t) /\ s # t
        BY <1>4, <2>1
      <3> HIDE DEF P
      <3> QED
        BY <2>1, <3>1, <3>2
    <2>3. IsFiniteSet(0..(s - 1)) /\ Cardinality(0..(s - 1)) = s
      BY <2>1, FS_Interval
    <2>4. Cardinality(P) <= s
      <3> HIDE DEF P
      <3> QED
        BY <2>2, <2>3, FS_Subset
    <2> HIDE DEF P, n
    <2> QED
      BY <1>1, <1>3, <2>1, <2>4
  <1>6. 0..(n - 1) = P
    <2> DEFINE R == 0..(n - 1)
    <2>1. IsFiniteSet(R) /\ Cardinality(R) = n
      <3>1. n \in Nat
        BY <1>1
      <3> HIDE DEF n
      <3>2. n - 1 \in Int /\ 0 \in Int
        BY <3>1
      <3>3. IsFiniteSet(R) /\ Cardinality(R) = IF 0 > n - 1 THEN 0 ELSE (n - 1) - 0 + 1
        BY <3>2, FS_Interval
      <3> QED
        BY <3>1, <3>3
    <2>2. R \in SUBSET P
      BY <1>5
    <2>3. R = P
      <3> HIDE DEF P, R, n
      <3> QED
        BY <1>3, <2>1, <2>2, FS_Subset
    <2> QED
      BY <2>3
  <1> QED
    BY <1>6

-----------------------------------------------------------------------------
LEMMA SortInvInit == Init => SortInv
  <1> SUFFICES ASSUME Init PROVE SortInv
    OBVIOUS
  <1>1. TypeInv
    BY TypeInvInit
  <1>2. NoHoleInv
    BY DEF Init, NoHoleInv
  <1>3. WrittenInv
    <2>1. \A s \in Slots : s \in Nat
      BY PoolAssumption DEF Slots
    <2>2. \A s \in Slots : s < count => val[s] = s + 1 /\ s + 1 <= MaxEnt
      BY <2>1, PoolAssumption DEF Init
    <2> QED
      BY <2>1, <2>2, PoolAssumption DEF WrittenInv, Ents
  <1> QED
    BY <1>1, <1>2, <1>3 DEF SortInv

(* A stored row is written and alive.                                       *)
LEMMA StoreKeeps ==
    ASSUME TypeOK, NoHoleInv, WrittenInv, Offer, NEW s \in Slots, NEW evict \in BOOLEAN,
           WriteRow(s, evict),
           count' = count \/ (s = count /\ count' = count + 1),
           freeCount' = 0 => freeCount = 0
    PROVE  NoHoleInv' /\ WrittenInv'
  <1>1. gen' = [gen EXCEPT ![s] = IssuedGen(s, evict)] /\ ~(gen'[s] < 0)
    BY WriteRowFacts
  <1>2. val' = [val EXCEPT ![s] = next + 1]
    BY DEF WriteRow
  <1>3. next + 1 \in Ents
    BY Ranges DEF Offer, Ents
  <1>4. gen \in [Slots -> Words] /\ val \in [Slots -> 0..MaxEnt] /\ count \in Nat /\ Slots \subseteq Nat
    BY Ranges
  <1>5. \A u \in Slots : u < count' => u < count \/ u = s
    BY <1>4
  <1>6. \A u \in Slots : u # s => gen'[u] = gen[u] /\ val'[u] = val[u]
    BY <1>1, <1>2, <1>4
  <1>7. val'[s] \in Ents
    BY <1>2, <1>3, <1>4
  <1>8. NoHoleInv'
    BY <1>1, <1>5, <1>6 DEF NoHoleInv
  <1>9. WrittenInv'
    BY <1>5, <1>6, <1>7 DEF WrittenInv
  <1> QED
    BY <1>8, <1>9

LEMMA SortInvStep == SortInv /\ [Next]_poolVars => SortInv'
  <1> SUFFICES ASSUME SortInv, [Next]_poolVars PROVE SortInv'
    OBVIOUS
  <1>1. TypeOK /\ TypeInv /\ NoHoleInv /\ WrittenInv
    BY DEF SortInv, TypeInv
  <1>2. TypeInv'
    BY <1>1, TypeInvStep
  <1>3. /\ count \in 0..Cap /\ Cap \in Nat /\ freeCount \in 0..(Cap + 1) /\ Slots \subseteq Nat
        /\ \A i \in Nat : i \in Slots <=> i < Cap
    BY <1>1, Ranges
  <1>4. CASE InsertPopFree
    <2>1. PICK s \in Slots : WriteRow(s, FALSE)
      BY <1>4 DEF InsertPopFree
    <2>2. Offer /\ freeCount > 1 /\ freeCount' = freeCount - 1 /\ count' = count
      BY <1>4 DEF InsertPopFree, HasFree
    <2>3. freeCount' # 0
      BY <1>3, <2>2
    <2> QED
      BY <1>1, <1>2, <2>1, <2>2, <2>3, StoreKeeps DEF SortInv
  <1>5. CASE InsertAppend
    <2>1. Offer /\ ~(count >= Cap) /\ WriteRow(count, FALSE) /\ count' = count + 1 /\ freeCount' = freeCount
      BY <1>5 DEF InsertAppend, AtCapacity
    <2>2. count \in Slots
      BY <1>3, <2>1
    <2> QED
      BY <1>1, <1>2, <2>1, <2>2, StoreKeeps DEF SortInv
  <1>6. ASSUME NEW victim \in Slots, InsertEvict(victim) PROVE SortInv'
    <2>1. Offer /\ WriteRow(victim, TRUE) /\ count' = count /\ freeCount' = freeCount
      BY <1>6 DEF InsertEvict, Overflow
    <2> QED
      BY <1>1, <1>2, <2>1, StoreKeeps DEF SortInv
  <1>7. CASE InsertOutOfRange
    <2>1. freeCount > 1 /\ freeCount' = freeCount - 1 /\ UNCHANGED <<val, count, gen>>
      BY <1>7 DEF InsertOutOfRange, HasFree
    <2>2. freeCount' # 0
      BY <1>3, <2>1
    <2>3. NoHoleInv' /\ WrittenInv'
      BY <1>1, <2>1, <2>2 DEF NoHoleInv, WrittenInv
    <2> QED
      BY <1>2, <2>3 DEF SortInv
  <1>8. ASSUME NEW he \in held, DeleteRow(he) PROVE SortInv'
    <2>1. freeCount' = freeCount + 1 /\ UNCHANGED <<val, count>>
      BY <1>8 DEF DeleteRow
    <2>2. freeCount' # 0
      BY <1>3, <2>1
    <2>3. NoHoleInv' /\ WrittenInv'
      BY <1>1, <2>1, <2>2 DEF NoHoleInv, WrittenInv
    <2> QED
      BY <1>2, <2>3 DEF SortInv
  <1>9. CASE UNCHANGED <<val, count, gen, freeCount>>
    <2>1. NoHoleInv' /\ WrittenInv'
      BY <1>1, <1>9 DEF NoHoleInv, WrittenInv
    <2> QED
      BY <1>2, <2>1 DEF SortInv
  <1>10. ASSUME NEW desc \in BOOLEAN, Sort(desc) PROVE SortInv'
    <2>1. PICK order \in [Used -> Used] :
             val' = [s \in Slots |-> IF s < count THEN val[order[s]] ELSE val[s]]
      BY <1>10 DEF Sort
    <2>2. /\ count' = Cardinality(LiveSlots)
          /\ gen' = [s \in Slots |-> IF s < count THEN 0 ELSE gen[s]]
      BY <1>10 DEF Sort
    <2>3. count' \in Nat /\ count' <= count /\ Used \subseteq Slots
      BY <1>1, <2>2, LiveAtMostCount
    <2>4. \A s \in Slots : s < count' => s < count /\ s \in Used
      BY <1>1, <1>3, <2>3, LiveAtMostCount
    <2>5. NoHoleInv'
      BY <2>2, <2>4 DEF NoHoleInv
    <2>6. \A u \in Used : val[u] \in Ents
      BY <1>1, <2>3, LiveAtMostCount DEF WrittenInv
    <2>7. WrittenInv'
      BY <2>1, <2>4, <2>6 DEF WrittenInv
    <2> QED
      BY <1>2, <2>5, <2>7 DEF SortInv
  <1>11. CASE InsertAbort \/ InsertRefused
    BY <1>9, <1>11 DEF InsertAbort, InsertRefused
  <1>12. ASSUME NEW he \in held, UseStale(he) \/ Cell(he) \/ DeleteExhausted(he) PROVE SortInv'
    BY <1>9, <1>12 DEF UseStale, Cell, DeleteExhausted
  <1>13. ASSUME NEW s \in Slots, Mint(s) PROVE SortInv'
    BY <1>9, <1>13 DEF Mint
  <1>14. CASE UNCHANGED poolVars
    BY <1>9, <1>14 DEF poolVars
  <1> QED
    BY <1>4, <1>5, <1>6, <1>7, <1>8, <1>10, <1>11, <1>12, <1>13, <1>14 DEF Next, Insert, Use

LEMMA SortInvHolds == Spec => []SortInv
  BY SortInvInit, SortInvStep, PTL DEF Spec

-----------------------------------------------------------------------------
(* A reduce or scan over a column reads the live rows and no freed one,     *)
(* whatever inserts, deletes, evictions and sorts came before: skipping the *)
(* tombstone test when free_count is 0 is sound.                            *)
THEOREM FoldsReadLiveRows == Spec => []FoldReadsLiveRows
  <1>1. SortInv => FoldReadsLiveRows
    <2> SUFFICES ASSUME SortInv PROVE FoldRows = LiveSlots
      BY DEF FoldReadsLiveRows
    <2>1. TypeOK /\ NoHoleInv
      BY DEF SortInv, TypeInv
    <2>2. \A s \in Slots : gen[s] < 0 <=> ~(gen[s] >= 0)
      BY <2>1, Ranges
    <2> QED
      BY <2>1, <2>2 DEF FoldRows, LiveSlots, LiveRow, HasHoles, NoHoleInv
  <1> QED
    BY <1>1, SortInvHolds, PTL

(* One call of sort: the rows [0, count') are a rearrangement of the live   *)
(* entities, none is tombstoned, and their keys are in order.               *)
LEMMA SortSorts ==
    ASSUME SortInv, NEW desc \in BOOLEAN, Sort(desc)
    PROVE  SortStep
  <1>1. TypeOK /\ WrittenInv
    BY DEF SortInv, TypeInv
  <1>2. PICK order \in [Used -> Used] :
           /\ IsOrder(desc, order)
           /\ val' = [s \in Slots |-> IF s < count THEN val[order[s]] ELSE val[s]]
    BY DEF Sort
  <1>3. /\ count' = Cardinality(LiveSlots)
        /\ gen' = [s \in Slots |-> IF s < count THEN 0 ELSE gen[s]]
    BY DEF Sort
  <1>4. count' \in Nat /\ count \in Nat /\ count' <= count /\ Used \subseteq Slots /\ Used = 0..(count - 1)
    BY <1>1, <1>3, LiveAtMostCount, Ranges DEF Used
  <1>5. 0..(count' - 1) \subseteq Used /\ \A s \in Used : s \in Nat /\ s < count
    <2>1. PICK n \in Nat : n = count'
      BY <1>4
    <2>2. n <= count /\ count \in Nat
      BY <1>4, <2>1
    <2>3. \A s \in 0..(n - 1) : s \in 0..(count - 1)
      BY <2>2
    <2>4. \A s \in 0..(count - 1) : s \in Nat /\ s < count
      BY <2>2
    <2>5. 0..(n - 1) \subseteq Used
      BY <2>3 DEF Used
    <2> QED
      BY <2>1, <2>4, <2>5 DEF Used
  <1>6. \A s \in 0..(count' - 1) : val'[s] = val[order[s]] /\ gen'[s] = 0
    <2>1. \A s \in Used : s \in Slots /\ s < count
      BY <1>4, <1>5
    <2>2. \A s \in Used : val'[s] = val[order[s]] /\ gen'[s] = 0
      BY <1>2, <1>3, <2>1
    <2> QED
      BY <1>5, <2>2
  <1>7. \A s \in Used : LiveRow(order[s]) <=> s \in 0..(count' - 1)
    BY <1>1, <1>2, <1>3, LiveRowsFirst
  <1>8. {val'[s] : s \in 0..(count' - 1)} = LiveEnts
    <2>1. ASSUME NEW s \in 0..(count' - 1) PROVE val'[s] \in LiveEnts
      <3>1. order[s] \in LiveSlots
        BY <1>2, <1>4, <1>5, <1>7 DEF LiveSlots
      <3> QED
        BY <1>6, <3>1 DEF LiveEnts
    <2>2. ASSUME NEW u \in LiveSlots PROVE \E s \in 0..(count' - 1) : val'[s] = val[u]
      <3>1. u \in Used /\ LiveRow(u)
        BY <1>1, LiveAtMostCount DEF LiveSlots, LiveRow
      <3>2. PICK s \in Used : order[s] = u
        BY <1>1, <1>2, <3>1, OrderIsPermutation
      <3>3. s \in 0..(count' - 1)
        BY <1>7, <3>1, <3>2
      <3> QED
        BY <1>6, <3>2, <3>3
    <2> QED
      BY <2>1, <2>2 DEF LiveEnts
  <1>9. Ordered(val', count', desc)
    <2> SUFFICES ASSUME NEW s \in 0..(count' - 1), NEW t \in 0..(count' - 1), s < t
                 PROVE  IF desc THEN Key[val'[s]] >= Key[val'[t]] ELSE Key[val'[s]] <= Key[val'[t]]
      BY DEF Ordered
    <2> DEFINE a == order[s]
               b == order[t]
    <2>1. s \in Used /\ t \in Used /\ a \in Used /\ b \in Used
      BY <1>2, <1>5
    <2>2. LiveRow(a) /\ LiveRow(b) /\ Ahead(desc, a, b)
      BY <1>2, <1>7, <2>1 DEF IsOrder
    <2>3. val[a] \in Ents /\ val[b] \in Ents
      BY <1>1, <1>4, <1>5, <2>1 DEF WrittenInv
    <2>4. val'[s] = val[a] /\ val'[t] = val[b]
      BY <1>6
    <2> HIDE DEF a, b
    <2>5. Before(desc, a, b)
      BY <2>2 DEF Ahead
    <2>6. Key[val[a]] \in Int /\ Key[val[b]] \in Int
      BY <2>3, PoolAssumption DEF Ents
    <2>7. KeyAt(a) = Key[val[a]] /\ KeyAt(b) = Key[val[b]]
      BY <2>3, Ranges, <1>1 DEF KeyAt, NoEnt, Ents
    <2> QED
      BY <2>4, <2>5, <2>6, <2>7 DEF Before
  <1> QED
    BY <1>6, <1>8, <1>9 DEF SortStep

(* sort(Pool.key) loses no live entity, revives no deleted one, packs the   *)
(* rows and leaves them in key order; no other call counts as a sort.       *)
THEOREM SortsKeepEntities == Spec => SortKeepsEntities
  <1>1. SortInv /\ [Next]_poolVars => [SortStep]_poolVars
    <2> SUFFICES ASSUME SortInv, Next, sorts' # sorts PROVE SortStep
      BY DEF SortStep
    <2>1. PICK desc \in BOOLEAN : Sort(desc)
      BY DEF Next, Insert, InsertAbort, InsertPopFree, InsertOutOfRange, InsertAppend, InsertEvict,
             InsertRefused, Use, UseStale, Cell, DeleteExhausted, DeleteRow, Mint
    <2> QED
      BY <2>1, SortSorts
  <1> QED
    BY <1>1, SortInvHolds, PTL DEF Spec, SortKeepsEntities
=============================================================================
