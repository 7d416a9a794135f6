----------------------------- MODULE PoolProofs -----------------------------
(***************************************************************************)
(* Proofs about the pool, for every capacity, generation width and policy.  *)
(***************************************************************************)
EXTENDS Pool, TLAPS, FiniteSetTheorems

(* Whatever the program does, sorts included: the entries 1..free_count-1   *)
(* that lie inside free_list are different tombstoned slots, and free_count *)
(* passes the array only when every slot is tombstoned.                     *)
FreeListInv ==
    /\ \A i \in 1..(freeCount - 1) : i < Cap => gen[freeList[i]] < 0
    /\ \A i, j \in 1..(freeCount - 1) :
          i < Cap /\ j < Cap /\ freeList[i] = freeList[j] => i = j
    /\ freeCount = Cap + 1 => \A s \in Slots : gen[s] < 0

TypeInv == TypeOK /\ FreeListInv

-----------------------------------------------------------------------------
(* Generation words: the sign bit marks a tombstone, the rest counts up.    *)
LEMMA WordFacts ==
    ASSUME NEW w \in Words
    PROVE  /\ Low(w) \in 0..GenMax
           /\ w >= 0 => Low(w) = w
           /\ Inc(w) \in Words
           /\ w # GenMax => Inc(w) = w + 1
           /\ FreedGen(w) \in Words /\ FreedGen(w) < 0
           /\ w >= 0 /\ w # GenMax => Low(FreedGen(w)) = w + 1
  BY PoolAssumption DEF Words, Modulus, Low, Inc, FreedGen, Tombstone

(* The generation an insert issues is live, is at least 1, and is the one   *)
(* the slot's tombstone carries, or the next one for an evicted row.        *)
LEMMA IssuedFacts ==
    ASSUME gen \in [Slots -> Words], NEW s \in Slots
    PROVE  /\ IssuedGen(s, FALSE) \in 1..GenMax
           /\ IssuedGen(s, TRUE) \in 1..GenMax
           /\ IssuedGen(s, FALSE) >= Low(gen[s])
           /\ Low(gen[s]) >= 1 => IssuedGen(s, FALSE) = Low(gen[s])
           /\ gen[s] >= 0 /\ gen[s] # GenMax => IssuedGen(s, TRUE) = gen[s] + 1
  <1>1. gen[s] \in Words
    OBVIOUS
  <1>2. Low(gen[s]) \in 0..GenMax /\ Inc(gen[s]) \in Words
    BY <1>1, WordFacts
  <1>3. Low(Inc(gen[s])) \in 0..GenMax
    BY <1>2, WordFacts
  <1>4. gen[s] >= 0 /\ gen[s] # GenMax => Low(Inc(gen[s])) = gen[s] + 1
    BY <1>1, <1>2, WordFacts DEF Words, Modulus
  <1> QED
    BY <1>1, <1>2, <1>3, <1>4, PoolAssumption DEF IssuedGen, Words, Modulus

(* Cap - 1 different slots other than s are all slots but s.                *)
LEMMA AllOtherSlots ==
    ASSUME freeList \in [Slots -> Slots], NEW s \in Slots,
           \A i \in 1..(Cap - 1) : freeList[i] # s,
           \A i, j \in 1..(Cap - 1) : freeList[i] = freeList[j] => i = j
    PROVE  \A u \in Slots : u = s \/ \E i \in 1..(Cap - 1) : freeList[i] = u
  <1> DEFINE I == 1..(Cap - 1)
             O == Slots \ {s}
             f == [i \in I |-> freeList[i]]
  <1>1. IsFiniteSet(Slots) /\ Cardinality(Slots) = Cap
    BY FS_Interval, PoolAssumption DEF Slots
  <1>2. IsFiniteSet(O) /\ Cardinality(O) = Cap - 1
    BY <1>1, FS_RemoveElement
  <1>3. IsFiniteSet(I) /\ Cardinality(I) = Cap - 1
    BY FS_Interval, PoolAssumption
  <1>4. f \in Injection(I, O)
    <2>1. I \subseteq Slots
      BY PoolAssumption DEF Slots
    <2>2. f \in [I -> O]
      BY <2>1
    <2>3. IsInjective(f)
      BY DEF IsInjective
    <2> QED
      BY <2>2, <2>3 DEF Injection
  <1>5. f \in Surjection(I, O)
    BY <1>2, <1>3, <1>4, FS_Injection
  <1> QED
    BY <1>5 DEF Surjection

-----------------------------------------------------------------------------
(* Storing a row keeps the types and brings the slot to life.               *)
LEMMA WriteRowFacts ==
    ASSUME TypeOK, Offer, NEW s \in Slots, NEW evict \in BOOLEAN, WriteRow(s, evict)
    PROVE  /\ val' \in [Slots -> 0..MaxEnt]
           /\ gen' = [gen EXCEPT ![s] = IssuedGen(s, evict)]
           /\ gen' \in [Slots -> Words]
           /\ gen'[s] \in 1..GenMax /\ ~(gen'[s] < 0)
           /\ held' \subseteq Issues
           /\ out' \in Answers
           /\ next' \in InitLen..MaxEnt
           /\ next + 1 \in 0..MaxEnt
  <1> DEFINE h == [slot |-> s, gen |-> IssuedGen(s, evict)]
  <1>1. next + 1 \in 0..MaxEnt /\ next' \in InitLen..MaxEnt
    BY PoolAssumption DEF TypeOK, Offer
  <1>2. IssuedGen(s, evict) \in 1..GenMax
    BY IssuedFacts DEF TypeOK
  <1>3. s \in Nat
    BY PoolAssumption DEF Slots
  <1>4. h \in Handles
    BY <1>2, <1>3 DEF Handles
  <1>5. 1..GenMax \subseteq Words
    BY PoolAssumption DEF Words, Modulus
  <1>6. val' = [val EXCEPT ![s] = next + 1] /\ gen' = [gen EXCEPT ![s] = IssuedGen(s, evict)]
        /\ held' = held \cup {<<h, next + 1>>}
        /\ out' = [op |-> "insert", ok |-> 1, h |-> h, e |-> next + 1]
    BY DEF WriteRow, Answer
  <1>7. gen' \in [Slots -> Words] /\ gen'[s] \in 1..GenMax
    BY <1>2, <1>5, <1>6 DEF TypeOK
  <1>8. ASSUME NEW w \in 1..GenMax PROVE ~(w < 0)
    BY PoolAssumption
  <1>9. ~(gen'[s] < 0)
    BY <1>7, <1>8
  <1>10. val' \in [Slots -> 0..MaxEnt] /\ held' \subseteq Issues
    <2>1. <<h, next + 1>> \in Issues
      BY <1>1, <1>4 DEF Issues
    <2> HIDE DEF h
    <2> QED
      BY <1>1, <1>6, <2>1 DEF TypeOK
  <1>11. out' \in Answers
    BY <1>1, <1>4, <1>6 DEF Answers
  <1> QED
    BY <1>1, <1>6, <1>7, <1>10, <1>11, <1>9, Zenon

(* A freshly allocated pool satisfies the inductive invariant.              *)
LEMMA TypeInvInit == Init => TypeInv
  <1> SUFFICES ASSUME Init PROVE TypeInv
    OBVIOUS
  <1>1. Slots \subseteq Nat /\ 0 \in Slots /\ 0 \in Words
    BY PoolAssumption DEF Slots, Words, Modulus
  <1>2. TypeOK
    <2>1. val \in [Slots -> 0..MaxEnt]
      BY <1>1, PoolAssumption DEF Init, NoEnt
    <2>2. out \in Answers
      BY PoolAssumption DEF Init, Zero, Handles, NoEnt, Answers
    <2> QED
      BY <1>1, <2>1, <2>2, PoolAssumption DEF Init, TypeOK
  <1>3. FreeListInv
    BY PoolAssumption DEF Init, FreeListInv
  <1> QED
    BY <1>2, <1>3 DEF TypeInv

(* Every action preserves it, one case per action of Next.                  *)
LEMMA TypeInvStep == TypeInv /\ [Next]_poolVars => TypeInv'
  <1> SUFFICES ASSUME TypeOK, FreeListInv, [Next]_poolVars PROVE TypeOK' /\ FreeListInv'
    BY DEF TypeInv
  <1>a. Slots \subseteq Nat /\ \A i \in Nat : i \in Slots <=> i < Cap
    BY PoolAssumption DEF Slots
  <1>b. Cap \in Nat \ {0} /\ MaxEnt \in Nat /\ InitLen \in Nat
    BY PoolAssumption
  <1>c. next \in InitLen..MaxEnt /\ count \in 0..Cap /\ freeCount \in 0..(Cap + 1)
    BY DEF TypeOK
  <1>d. freeList \in [Slots -> Slots] /\ gen \in [Slots -> Words]
    BY DEF TypeOK
  <1>1. CASE InsertAbort
    <2>1. Offer /\ phase' = "pool full"
          /\ UNCHANGED <<val, count, freeList, freeCount, gen, held, drops, out, sorts, events>>
      BY <1>1 DEF InsertAbort
    <2>2. next' \in InitLen..MaxEnt
      <3>1. next < MaxEnt /\ next' = next + 1
        BY <2>1 DEF Offer
      <3> QED
        BY <1>b, <1>c, <3>1
    <2>3. TypeOK'
      BY <2>1, <2>2 DEF TypeOK
    <2>4. FreeListInv'
      BY <2>1 DEF FreeListInv
    <2> QED
      BY <2>3, <2>4
  <1>2. CASE InsertPopFree
    <2>1. PICK s \in Slots :
             /\ s = FreeListAt(freeCount - 1) /\ Offer /\ WriteRow(s, FALSE)
             /\ freeCount > 1 /\ freeCount' = freeCount - 1
             /\ UNCHANGED <<count, freeList, drops, phase, sorts, events>>
      BY <1>2 DEF InsertPopFree, HasFree
    <2>2. gen' = [gen EXCEPT ![s] = IssuedGen(s, FALSE)]
          /\ val' \in [Slots -> 0..MaxEnt] /\ gen' \in [Slots -> Words] /\ held' \subseteq Issues
          /\ out' \in Answers /\ next' \in InitLen..MaxEnt
      BY <2>1, WriteRowFacts
    <2>3. freeCount' \in 0..(Cap + 1)
      BY <1>b, <1>c, <2>1
    <2>4. TypeOK'
      BY <2>1, <2>2, <2>3 DEF TypeOK
    <2>5. freeCount \in 2..Cap
      BY <1>a, <1>b, <1>c, <2>1 DEF FreeListAt
    <2>6. s = freeList[freeCount - 1] /\ freeCount - 1 \in 1..(Cap - 1)
      BY <1>b, <2>1, <2>5 DEF FreeListAt
    <2>7. \A i \in 1..(freeCount - 2) : i < Cap /\ freeList[i] # s /\ freeList[i] \in Slots
      BY <1>a, <1>b, <1>d, <2>5, <2>6 DEF FreeListInv
    <2>8. FreeListInv'
      <3>1. freeList' = freeList /\ freeCount' = freeCount - 1
        BY <2>1
      <3>2. \A i \in 1..(freeCount - 2) : gen'[freeList[i]] = gen[freeList[i]]
        BY <1>d, <2>2, <2>7
      <3>3. 1..(freeCount' - 1) = 1..(freeCount - 2) /\ freeCount' # Cap + 1
        BY <1>b, <2>5, <3>1
      <3>4. 1..(freeCount - 2) \subseteq 1..(freeCount - 1)
        BY <2>5, <1>b
      <3> QED
        BY <3>1, <3>2, <3>3, <3>4 DEF FreeListInv
    <2> QED
      BY <2>4, <2>8
  <1>3. CASE InsertOutOfRange
    <2>1. Offer /\ freeCount > 1 /\ freeCount' = freeCount - 1 /\ phase' = "corrupted"
          /\ out' = [op |-> "insert", ok |-> 1,
                     h |-> [slot |-> FreeListAt(freeCount - 1), gen |-> 1], e |-> next + 1]
          /\ UNCHANGED <<val, count, freeList, gen, held, drops, sorts, events>>
      BY <1>3 DEF InsertOutOfRange, HasFree, Answer
    <2>2. FreeListAt(freeCount - 1) \in Nat
      <3>1. freeCount - 1 \in 1..Cap
        BY <1>b, <1>c, <2>1
      <3>2. freeCount - 1 # Cap => freeCount - 1 \in Slots
        BY <1>a, <1>b, <3>1
      <3>3. freeCount - 1 # Cap => freeList[freeCount - 1] \in Nat
        BY <1>a, <1>d, <3>2
      <3> QED
        BY <1>b, <1>c, <3>3 DEF FreeListAt
    <2>3. [slot |-> FreeListAt(freeCount - 1), gen |-> 1] \in Handles
      BY <2>2, PoolAssumption DEF Handles
    <2>4. next' \in InitLen..MaxEnt /\ next + 1 \in 0..MaxEnt /\ freeCount' \in 0..(Cap + 1)
      BY <1>b, <1>c, <2>1 DEF Offer
    <2>5. out' \in Answers
      BY <2>1, <2>3, <2>4 DEF Answers
    <2>6. TypeOK'
      BY <2>1, <2>4, <2>5 DEF TypeOK
    <2>7. freeCount' <= Cap /\ 1..(freeCount' - 1) \subseteq 1..(freeCount - 1)
      BY <1>b, <1>c, <2>1
    <2>8. FreeListInv'
      BY <1>b, <2>1, <2>7 DEF FreeListInv
    <2> QED
      BY <2>6, <2>8
  <1>4. CASE InsertAppend
    <2>1. Offer /\ freeCount <= 1 /\ count < Cap /\ WriteRow(count, FALSE) /\ count' = count + 1
          /\ UNCHANGED <<freeList, freeCount, drops, phase, sorts, events>>
      <3>1. ~(freeCount > 1) /\ ~(count >= Cap)
        BY <1>4 DEF InsertAppend, HasFree, AtCapacity
      <3>2. freeCount <= 1 /\ count < Cap
        BY <1>b, <1>c, <3>1
      <3> QED
        BY <1>4, <3>2 DEF InsertAppend
    <2>2. count \in Slots /\ count' \in 0..Cap
      BY <1>a, <1>b, <1>c, <2>1
    <2>3. val' \in [Slots -> 0..MaxEnt] /\ gen' \in [Slots -> Words] /\ held' \subseteq Issues
          /\ out' \in Answers /\ next' \in InitLen..MaxEnt
      BY <2>1, <2>2, WriteRowFacts
    <2>4. TypeOK'
      BY <2>1, <2>2, <2>3 DEF TypeOK
    <2>5. FreeListInv'
      BY <1>b, <1>c, <2>1 DEF FreeListInv
    <2> QED
      BY <2>4, <2>5
  <1>5. ASSUME NEW victim \in Slots, InsertEvict(victim) PROVE TypeOK' /\ FreeListInv'
    <2>1. Offer /\ ~HasFree /\ WriteRow(victim, TRUE)
          /\ events' = events \cup {"evict"} \cup (IF gen[victim] = GenMax THEN {"wrap"} ELSE {})
          /\ UNCHANGED <<count, freeList, freeCount, drops, phase, sorts>>
      BY <1>5 DEF InsertEvict, Overflow
    <2>2. events' \subseteq {"evict", "wrap", "overrun"}
      BY <2>1 DEF TypeOK
    <2>3. val' \in [Slots -> 0..MaxEnt] /\ gen' \in [Slots -> Words] /\ held' \subseteq Issues
          /\ out' \in Answers /\ next' \in InitLen..MaxEnt
      BY <2>1, WriteRowFacts
    <2>4. TypeOK'
      BY <2>1, <2>2, <2>3 DEF TypeOK
    <2>5. FreeListInv'
      BY <1>b, <1>c, <2>1 DEF HasFree, FreeListInv
    <2> QED
      BY <2>4, <2>5
  <1>6. CASE InsertRefused
    <2>1. Offer /\ held' = held \cup {<<Zero, NoEnt>>}
          /\ out' = [op |-> "insert", ok |-> 0, h |-> Zero, e |-> next + 1]
          /\ UNCHANGED <<val, count, freeList, freeCount, gen, drops, phase, sorts, events>>
      BY <1>6 DEF InsertRefused, Overflow, Answer
    <2>2. Zero \in Handles
      BY PoolAssumption DEF Zero, Handles
    <2>3. next' \in InitLen..MaxEnt /\ next + 1 \in 0..MaxEnt
      BY <1>b, <1>c, <2>1 DEF Offer
    <2>4. out' \in Answers
      BY <2>1, <2>2, <2>3 DEF Answers
    <2>5. <<Zero, NoEnt>> \in Issues
      BY <1>b, <2>2 DEF Issues, NoEnt
    <2>6. held' \subseteq Issues
      BY <2>1, <2>5 DEF TypeOK
    <2>7. TypeOK'
      BY <2>1, <2>3, <2>4, <2>6 DEF TypeOK
    <2>8. FreeListInv'
      BY <2>1 DEF FreeListInv
    <2> QED
      BY <2>7, <2>8
  <1>7. ASSUME NEW he \in held, UseStale(he) PROVE TypeOK' /\ FreeListInv'
    <2>1. phase' = "stale handle"
          /\ UNCHANGED <<val, count, freeList, freeCount, gen, next, held, drops, out, sorts, events>>
      BY <1>7 DEF UseStale
    <2>2. TypeOK'
      BY <2>1 DEF TypeOK
    <2>3. FreeListInv'
      BY <2>1 DEF FreeListInv
    <2> QED
      BY <2>2, <2>3
  <1>h. ASSUME NEW he \in held
        PROVE  he[1] \in Handles /\ he[2] \in 0..MaxEnt /\ he[1].gen \in 0..GenMax
    BY DEF TypeOK, Issues, Handles
  <1>8. ASSUME NEW he \in held, Cell(he) PROVE TypeOK' /\ FreeListInv'
    <2>1. /\ Valid(he[1])
          /\ out' = [op |-> "cell", ok |-> 1, h |-> he[1], e |-> val[he[1].slot]]
          /\ UNCHANGED <<val, count, freeList, freeCount, gen, next, held, drops, phase, sorts, events>>
      BY <1>8 DEF Cell, Answer
    <2>2. val[he[1].slot] \in 0..MaxEnt
      BY <2>1 DEF Valid, TypeOK
    <2>3. out' \in Answers
      BY <1>h, <2>1, <2>2 DEF Answers
    <2>4. TypeOK'
      BY <2>1, <2>3 DEF TypeOK
    <2>5. FreeListInv'
      BY <2>1 DEF FreeListInv
    <2> QED
      BY <2>4, <2>5
  <1>9. ASSUME NEW he \in held, DeleteExhausted(he) PROVE TypeOK' /\ FreeListInv'
    <2>1. /\ out' = [op |-> "delete", ok |-> 0, h |-> he[1], e |-> he[2]]
          /\ UNCHANGED <<val, count, freeList, freeCount, gen, next, held, drops, phase, sorts, events>>
      BY <1>9 DEF DeleteExhausted, Answer
    <2>2. out' \in Answers
      BY <1>h, <2>1 DEF Answers
    <2>3. TypeOK'
      BY <2>1, <2>2 DEF TypeOK
    <2>4. FreeListInv'
      BY <2>1 DEF FreeListInv
    <2> QED
      BY <2>3, <2>4
  <1>10. ASSUME NEW he \in held, DeleteRow(he) PROVE TypeOK' /\ FreeListInv'
    <2>1. PICK s \in Slots :
             /\ s = he[1].slot /\ gen[s] = he[1].gen /\ gen[s] # GenMax
             /\ drops' = RowDrop(s)
             /\ gen' = [gen EXCEPT ![s] = FreedGen(gen[s])]
             /\ freeList' = Push(s)
             /\ freeCount' = freeCount + 1
             /\ events' = (IF freeCount < Cap THEN events ELSE events \cup {"overrun"})
             /\ out' = [op |-> "delete", ok |-> 1, h |-> he[1], e |-> he[2]]
             /\ UNCHANGED <<val, count, next, held, phase, sorts>>
      BY <1>10 DEF DeleteRow, Valid, Answer
    <2>2. gen[s] \in Words /\ gen[s] >= 0
      BY <1>h, <1>d, <2>1, PoolAssumption
    <2>3. FreedGen(gen[s]) \in Words /\ FreedGen(gen[s]) < 0
      BY <2>2, WordFacts
    <2>4. gen' \in [Slots -> Words] /\ \A u \in Slots : gen[u] < 0 \/ u = s => gen'[u] < 0
      BY <1>d, <2>1, <2>3
    <2>5. freeCount <= Cap
      <3>1. ~(gen[s] < 0)
        BY <1>h, <2>1, PoolAssumption
      <3>2. freeCount # Cap + 1
        BY <3>1 DEF FreeListInv
      <3> QED
        BY <1>b, <1>c, <3>2
    <2>6. freeCount' \in 1..(Cap + 1)
      BY <1>b, <1>c, <2>1, <2>5
    <2>7. /\ freeList' \in [Slots -> Slots]
          /\ freeCount < Cap => freeList' = [freeList EXCEPT ![freeCount] = s]
          /\ freeCount >= Cap => freeList' = freeList
      <3>1. freeCount < Cap => freeCount \in Slots
        BY <1>a, <1>b, <1>c
      <3>2. ~(freeCount < Cap) <=> freeCount >= Cap
        BY <1>b, <1>c
      <3> QED
        BY <1>d, <2>1, <3>1, <3>2 DEF Push
    <2>8. drops' \in [Ents -> Nat]
      <3>1. val[s] \in 0..MaxEnt /\ drops \in [Ents -> Nat]
        BY DEF TypeOK
      <3>2. val[s] # NoEnt => val[s] \in Ents
        BY <1>b, <3>1 DEF NoEnt, Ents
      <3> QED
        BY <2>1, <3>1, <3>2 DEF RowDrop
    <2>9. out' \in Answers
      BY <1>h, <2>1 DEF Answers
    <2>10. events' \subseteq {"evict", "wrap", "overrun"}
      BY <2>1 DEF TypeOK
    <2>11. TypeOK'
      <3>1. freeCount' \in 0..(Cap + 1)
        BY <1>b, <2>6
      <3> QED
        BY <2>1, <2>4, <2>7, <2>8, <2>9, <2>10, <3>1 DEF TypeOK
    <2>12. \A i \in 1..(freeCount - 1) :
              i < Cap => /\ i \in Slots /\ i # freeCount
                         /\ freeList[i] \in Slots /\ freeList[i] # s
                         /\ freeList'[i] = freeList[i]
      <3> SUFFICES ASSUME NEW i \in 1..(freeCount - 1), i < Cap
                   PROVE  /\ i \in Slots /\ i # freeCount
                          /\ freeList[i] \in Slots /\ freeList[i] # s
                          /\ freeList'[i] = freeList[i]
        OBVIOUS
      <3>1. i \in Slots /\ i # freeCount
        BY <1>a, <1>b, <1>c
      <3>2. freeList[i] \in Slots /\ gen[freeList[i]] < 0
        BY <1>d, <3>1 DEF FreeListInv
      <3>3. freeList[i] # s
        BY <2>2, <3>2, PoolAssumption DEF Words, Modulus
      <3> QED
        BY <1>b, <1>c, <1>d, <2>7, <3>1, <3>2, <3>3
    <2>13. freeCount < Cap /\ freeCount >= 1 => freeList'[freeCount] = s
      <3>1. freeCount < Cap => freeCount \in Slots
        BY <1>a, <1>b, <1>c
      <3> QED
        BY <1>d, <2>7, <3>1
    <2>14. FreeListInv'
      <3>1. ASSUME NEW i \in 1..freeCount, i < Cap PROVE gen'[freeList'[i]] < 0
        <4>1. CASE i = freeCount
          <5>1. freeList'[i] = s
            BY <1>b, <1>c, <2>13, <3>1, <4>1
          <5> QED
            BY <2>4, <5>1
        <4>2. CASE i \in 1..(freeCount - 1)
          BY <2>4, <2>12, <3>1, <4>2 DEF FreeListInv
        <4> QED
          BY <1>b, <1>c, <4>1, <4>2
      <3>2. ASSUME NEW i \in 1..freeCount, NEW j \in 1..freeCount, i < Cap, j < Cap,
                   freeList'[i] = freeList'[j]
            PROVE  i = j
        <4>1. i = freeCount \/ i \in 1..(freeCount - 1)
          BY <1>c
        <4>2. j = freeCount \/ j \in 1..(freeCount - 1)
          BY <1>c
        <4>3. freeCount >= 1
          BY <1>c
        <4> QED
          BY <2>12, <2>13, <3>2, <4>1, <4>2, <4>3 DEF FreeListInv
      <3>3. freeCount + 1 = Cap + 1 => \A u \in Slots : gen'[u] < 0
        <4> SUFFICES ASSUME freeCount = Cap PROVE \A u \in Slots : gen'[u] < 0
          BY <1>b, <1>c
        <4>1. \A i \in 1..(Cap - 1) : i < Cap
          BY <1>b
        <4>2. \A i \in 1..(Cap - 1) : freeList[i] # s /\ gen[freeList[i]] < 0
          BY <2>12, <4>1 DEF FreeListInv
        <4>3. \A i, j \in 1..(Cap - 1) : freeList[i] = freeList[j] => i = j
          BY <4>1 DEF FreeListInv
        <4>4. \A u \in Slots : u = s \/ \E i \in 1..(Cap - 1) : freeList[i] = u
          BY <1>d, <4>2, <4>3, AllOtherSlots
        <4> QED
          BY <2>4, <4>2, <4>4
      <3>4. freeCount' - 1 = freeCount
        BY <1>c, <2>1
      <3> QED
        BY <2>1, <3>1, <3>2, <3>3, <3>4 DEF FreeListInv
    <2> QED
      BY <2>11, <2>14
  <1>11. ASSUME NEW s \in Slots, Mint(s) PROVE TypeOK' /\ FreeListInv'
    <2>1. /\ held' = held \cup {<<[slot |-> s, gen |-> gen[s]], val[s]>>}
          /\ UNCHANGED <<val, count, freeList, freeCount, gen, next, drops, out, phase, sorts, events>>
      BY <1>11 DEF Mint
    <2>2. gen[s] \in 0..GenMax /\ s \in Nat
      BY <1>11, <1>a, <1>d, PoolAssumption DEF Mint, LiveRow, Words, Modulus
    <2>3. <<[slot |-> s, gen |-> gen[s]], val[s]>> \in Issues
      BY <2>2 DEF Issues, Handles, TypeOK
    <2>4. held' \subseteq Issues
      BY <2>1, <2>3 DEF TypeOK
    <2>5. TypeOK'
      BY <2>1, <2>4 DEF TypeOK
    <2>6. FreeListInv'
      BY <2>1 DEF FreeListInv
    <2> QED
      BY <2>5, <2>6
  <1>12. ASSUME NEW desc \in BOOLEAN, Sort(desc) PROVE TypeOK' /\ FreeListInv'
    <2>1. PICK order \in [Used -> Used] :
             val' = [s \in Slots |-> IF s < count THEN val[order[s]] ELSE val[s]]
      BY <1>12 DEF Sort
    <2>2. /\ sorts < MaxSorts /\ sorts' = sorts + 1
          /\ count' = Cardinality(LiveSlots)
          /\ freeCount' = 0
          /\ gen' = [s \in Slots |-> IF s < count THEN 0 ELSE gen[s]]
          /\ out' = [op |-> "sort", ok |-> 1, h |-> Zero, e |-> NoEnt]
          /\ UNCHANGED <<freeList, next, held, drops, phase, events>>
      BY <1>12 DEF Sort, Answer
    <2>3. val' \in [Slots -> 0..MaxEnt]
      <3>1. \A s \in Slots : s < count => s \in Used
        BY <1>a, <1>c DEF Used
      <3>2. Used \subseteq Slots
        BY <1>b, <1>c DEF Used, Slots
      <3>3. val \in [Slots -> 0..MaxEnt]
        BY DEF TypeOK
      <3> QED
        BY <2>1, <3>1, <3>2, <3>3
    <2>4. count' \in 0..Cap
      <3>1. IsFiniteSet(Slots) /\ Cardinality(Slots) = Cap
        BY FS_Interval, <1>b DEF Slots
      <3>2. LiveSlots \in SUBSET Slots
        BY DEF LiveSlots
      <3>3. IsFiniteSet(LiveSlots) /\ Cardinality(LiveSlots) <= Cap
        BY <3>1, <3>2, FS_Subset
      <3>4. Cardinality(LiveSlots) \in Nat
        BY <3>3, FS_CardinalityType
      <3> QED
        BY <1>b, <2>2, <3>3, <3>4
    <2>5. gen' \in [Slots -> Words]
      <3>1. 0 \in Words
        BY PoolAssumption DEF Words, Modulus
      <3> QED
        BY <1>d, <2>2, <3>1
    <2>6. out' \in Answers
      BY <2>2, PoolAssumption DEF Answers, Zero, Handles, NoEnt
    <2>7. sorts' \in 0..MaxSorts
      <3>1. sorts \in 0..MaxSorts
        BY DEF TypeOK
      <3> QED
        BY <2>2, <3>1, PoolAssumption
    <2>8. freeCount' \in 0..(Cap + 1)
      BY <1>b, <2>2
    <2>9. TypeOK'
      BY <2>2, <2>3, <2>4, <2>5, <2>6, <2>7, <2>8 DEF TypeOK
    <2>10. FreeListInv'
      <3>1. freeCount' # Cap + 1 /\ 1..(freeCount' - 1) = {}
        BY <1>b, <2>2
      <3> QED
        BY <3>1 DEF FreeListInv
    <2> QED
      BY <2>9, <2>10
  <1>13. CASE UNCHANGED poolVars
    <2>1. UNCHANGED <<val, count, freeList, freeCount, gen, next, held, drops, out, phase, sorts, events>>
      BY <1>13 DEF poolVars
    <2>2. TypeOK'
      BY <2>1 DEF TypeOK
    <2>3. FreeListInv'
      BY <2>1 DEF FreeListInv
    <2> QED
      BY <2>2, <2>3
  <1> QED
    BY <1>1, <1>2, <1>3, <1>4, <1>5, <1>6, <1>7, <1>8, <1>9, <1>10, <1>11, <1>12, <1>13
    DEF Next, Insert, Use

(* The fields of the pool struct stay in range whatever the program does;   *)
(* free_count goes at most one past the free list, even across sorts.       *)
THEOREM TypeCorrect == Spec => []TypeOK
  <1>1. TypeInv => TypeOK
    BY DEF TypeInv
  <1> QED
    BY <1>1, TypeInvInit, TypeInvStep, PTL DEF Spec
=============================================================================
