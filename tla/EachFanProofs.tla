--------------------------- MODULE EachFanProofs ---------------------------
(***************************************************************************)
(* Proofs about the map fan over a pool, for every capacity, generation     *)
(* width and policy: a fan is only a program of the pool, it misses no      *)
(* entity, and it runs its body on no deleted one.                          *)
(***************************************************************************)
EXTENDS EachFan, PoolStoreProofs

FanTypes == fanRow \in Int /\ fanRow >= -1 /\ fanEnd \in Nat

(* While a fan runs: it stands below the count it read, entities that came  *)
(* later are not the ones it owes a body, and each of those is either on a  *)
(* row still ahead or has had its body.                                     *)
FanInv ==
    /\ fanRow < fanEnd /\ fanEnd <= count
    /\ \A e \in fanFrom : e \in Nat /\ e <= next
    /\ \A r \in Slots : LiveRow(r) /\ val[r] \in fanFrom =>
          r < fanEnd /\ (r <= fanRow => val[r] \in fanSeen)

EachInv == FanTypes /\ DropsInv /\ (Regular /\ ~Idle => FanInv)

-----------------------------------------------------------------------------
(* A step of the fan is a statement of a program that uses the pool: a row  *)
(* that is entered has its handle minted, and nothing else changes.         *)
LEMMA FanStepIsPoolStep ==
    ASSUME TypeOK, FanTypes, [EachNext]_eachVars
    PROVE  [Next]_poolVars /\ FanTypes'
  <1>1. count \in 0..Cap /\ Cap \in Nat /\ \A i \in Nat : i \in Slots <=> i < Cap
    BY Ranges
  <1>2. ASSUME NEW r \in Nat, NEW seen, Enter(r, seen) PROVE [Next]_poolVars
    <2>1. CASE UNCHANGED poolVars
      BY <2>1
    <2>2. CASE Mint(r)
      <3>1. r < count
        BY <2>2 DEF Mint, LiveRow
      <3>2. r \in Slots
        BY <1>1, <3>1
      <3> QED
        BY <2>2, <3>2 DEF Next
    <2> QED
      BY <1>2, <2>1, <2>2 DEF Enter
  <1>3. CASE Statement
    BY <1>3 DEF Statement, Next, fanVars, FanTypes
  <1>4. CASE FanStart
    BY <1>1, <1>2, <1>4 DEF FanStart, FanTypes
  <1>5. CASE FanAdvance
    <2>1. fanRow \in Int /\ fanRow >= -1 /\ fanRow' = fanRow + 1 /\ Enter(fanRow + 1, fanSeen) /\ fanEnd' = fanEnd
      BY <1>5 DEF FanAdvance, RowAfter, FanTypes
    <2>2. fanRow + 1 \in Nat
      BY <2>1
    <2> QED
      BY <1>2, <2>1, <2>2 DEF FanTypes
  <1>6. CASE FanFinish
    BY <1>6 DEF FanFinish, FanTypes
  <1>7. CASE UNCHANGED eachVars
    BY <1>7 DEF eachVars, fanVars, FanTypes
  <1> QED
    BY <1>3, <1>4, <1>5, <1>6, <1>7 DEF EachNext

(* A program that runs fans over the pool is a program of the pool: every   *)
(* theorem about Spec holds of it.                                          *)
THEOREM FanIsPoolProgram == EachSpec => Spec
  <1>1. EachInit => TypeInv /\ FanTypes
    BY TypeInvInit DEF EachInit, FanTypes
  <1>2. TypeInv /\ FanTypes /\ [EachNext]_eachVars => [Next]_poolVars /\ TypeInv' /\ FanTypes'
    BY FanStepIsPoolStep, TypeInvStep DEF TypeInv
  <1>3. EachInit => Init
    BY DEF EachInit
  <1> QED
    BY <1>1, <1>2, <1>3, PTL DEF EachSpec, Spec

-----------------------------------------------------------------------------
(* What a statement of a body does to the rows: whatever becomes live or    *)
(* is rewritten holds the entity just offered.                              *)
LEMMA StatementKeepsRows ==
    ASSUME TypeOK, Insert \/ Use
    PROVE  /\ count' >= count /\ count' \in Nat /\ next' >= next /\ next' \in Nat
           /\ \A r \in Slots : LiveRow(r)' =>
                 \/ LiveRow(r) /\ val'[r] = val[r]
                 \/ val'[r] = next + 1
  <1>1. /\ count \in 0..Cap /\ Cap \in Nat /\ next \in Nat /\ Slots \subseteq Nat
        /\ gen \in [Slots -> Words] /\ val \in [Slots -> 0..MaxEnt] /\ Words \subseteq Int
        /\ \A i \in Nat : i \in Slots <=> i < Cap
    BY Ranges
  <1>2. ASSUME NEW s \in Slots, NEW evict \in BOOLEAN, WriteRow(s, evict), Offer,
               count' = count \/ (s = count /\ count' = count + 1)
        PROVE  /\ count' >= count /\ count' \in Nat /\ next' >= next /\ next' \in Nat
               /\ \A r \in Slots : LiveRow(r)' =>
                     \/ LiveRow(r) /\ val'[r] = val[r]
                     \/ val'[r] = next + 1
    <2>1. /\ val' = [val EXCEPT ![s] = next + 1] /\ gen' = [gen EXCEPT ![s] = IssuedGen(s, evict)]
          /\ next' = next + 1
      BY <1>2 DEF WriteRow, Offer
    <2>2. \A r \in Slots : r < count' => r < count \/ r = s
      BY <1>1, <1>2
    <2>3. \A r \in Slots : r # s => val'[r] = val[r] /\ gen'[r] = gen[r]
      BY <1>1, <2>1
    <2>4. val'[s] = next + 1
      BY <1>1, <2>1
    <2>5. count' >= count /\ count' \in Nat /\ next' >= next /\ next' \in Nat
      BY <1>1, <1>2, <2>1
    <2> QED
      BY <2>2, <2>3, <2>4, <2>5 DEF LiveRow
  <1>3. CASE InsertPopFree
    <2>1. PICK s \in Slots : WriteRow(s, FALSE)
      BY <1>3 DEF InsertPopFree
    <2>2. Offer /\ count' = count
      BY <1>3 DEF InsertPopFree
    <2> QED
      BY <1>2, <2>1, <2>2
  <1>4. CASE InsertAppend
    <2>1. Offer /\ ~(count >= Cap) /\ WriteRow(count, FALSE) /\ count' = count + 1
      BY <1>4 DEF InsertAppend, AtCapacity
    <2>2. count \in Slots
      BY <1>1, <2>1
    <2> QED
      BY <1>2, <2>1, <2>2
  <1>5. ASSUME NEW victim \in Slots, InsertEvict(victim)
        PROVE  /\ count' >= count /\ count' \in Nat /\ next' >= next /\ next' \in Nat
               /\ \A r \in Slots : LiveRow(r)' =>
                     \/ LiveRow(r) /\ val'[r] = val[r]
                     \/ val'[r] = next + 1
    <2>1. Offer /\ WriteRow(victim, TRUE) /\ count' = count
      BY <1>5 DEF InsertEvict, Overflow
    <2> QED
      BY <1>2, <2>1
  <1>6. CASE UNCHANGED <<val, count, gen>> /\ (next' = next \/ next' = next + 1)
    <2>1. count' >= count /\ count' \in Nat /\ next' >= next /\ next' \in Nat
      BY <1>1, <1>6
    <2> QED
      BY <1>6, <2>1 DEF LiveRow
  <1>7. CASE InsertAbort \/ InsertOutOfRange \/ InsertRefused
    BY <1>6, <1>7 DEF InsertAbort, InsertOutOfRange, InsertRefused, Overflow, Offer
  <1>8. ASSUME NEW he \in held, UseStale(he) \/ Cell(he) \/ DeleteExhausted(he)
        PROVE  UNCHANGED <<val, count, gen, next>>
    BY <1>8 DEF UseStale, Cell, DeleteExhausted
  <1>9. ASSUME NEW he \in held, DeleteRow(he)
        PROVE  /\ count' >= count /\ count' \in Nat /\ next' >= next /\ next' \in Nat
               /\ \A r \in Slots : LiveRow(r)' =>
                     \/ LiveRow(r) /\ val'[r] = val[r]
                     \/ val'[r] = next + 1
    <2>1. PICK s \in Slots : gen' = [gen EXCEPT ![s] = FreedGen(gen[s])]
      BY <1>9 DEF DeleteRow, Valid
    <2>2. val' = val /\ count' = count /\ next' = next
      BY <1>9 DEF DeleteRow
    <2>3. gen[s] \in Words
      BY <1>1
    <2>4. FreedGen(gen[s]) < 0 /\ FreedGen(gen[s]) \in Int
      BY <1>1, <2>3, WordFacts
    <2>5. ~(gen'[s] >= 0) /\ \A r \in Slots : r # s => gen'[r] = gen[r]
      <3> DEFINE w == FreedGen(gen[s])
      <3>1. ~(w >= 0) /\ gen' = [gen EXCEPT ![s] = w]
        BY <2>1, <2>4
      <3> HIDE DEF w
      <3> QED
        BY <1>1, <3>1
    <2>6. count' >= count /\ count' \in Nat /\ next' >= next /\ next' \in Nat
      BY <1>1, <2>2
    <2> QED
      BY <2>2, <2>5, <2>6 DEF LiveRow
  <1> QED
    BY <1>3, <1>4, <1>5, <1>6, <1>7, <1>8, <1>9 DEF Insert, Use

(* Landing on a row keeps what the fan owes: a live row gets its body.      *)
LEMMA EnterKeeps ==
    ASSUME TypeOK, NEW r \in Slots, NEW seen, Enter(r, seen),
           fanRow' = r, r < fanEnd', fanEnd' <= count, fanEnd' \in Nat,
           \A e \in fanFrom' : e \in Nat /\ e <= next,
           \A u \in Slots : LiveRow(u) /\ val[u] \in fanFrom' => u < fanEnd' /\ (u < r => val[u] \in seen)
    PROVE  FanInv'
  <1>1. val' = val /\ count' = count /\ gen' = gen /\ next' = next
    BY DEF Enter, Mint, poolVars
  <1>2. Slots \subseteq Nat /\ gen \in [Slots -> Words] /\ Words \subseteq Int
    BY Ranges
  <1>3. seen \subseteq fanSeen'
    BY DEF Enter
  <1>4. LiveRow(r) => val[r] \in fanSeen'
    <2>0. gen[r] \in Int
      BY <1>2
    <2>1. LiveRow(r) => ~(gen[r] < 0)
      BY <2>0 DEF LiveRow
    <2>2. ~(gen[r] < 0) => fanSeen' = seen \cup {val[r]}
      BY DEF Enter
    <2> QED
      BY <2>1, <2>2
  <1>5. \A u \in Slots : u <= r => u < r \/ u = r
    BY <1>2
  <1>6. \A u \in Slots : LiveRow(u)' <=> LiveRow(u)
    BY <1>1 DEF LiveRow
  <1>7. ASSUME NEW u \in Slots, LiveRow(u), val[u] \in fanFrom'
        PROVE  u < fanEnd' /\ (u <= r => val[u] \in fanSeen')
    BY <1>3, <1>4, <1>5, <1>7
  <1> QED
    BY <1>1, <1>6, <1>7 DEF FanInv

LEMMA EachInvStep ==
    ASSUME FanTypes, DropsInv, Regular /\ ~Idle => FanInv, [EachNext]_eachVars, Regular', ~Idle'
    PROVE  FanInv'
  <1>1. TypeOK /\ PoolInv
    BY DEF DropsInv, PoolInv, TypeInv
  <1>2. [Next]_poolVars
    BY <1>1, FanStepIsPoolStep
  <1>3. Regular
    BY <1>1, <1>2, RegularBefore
  <1>4. RowsInv
    BY <1>1, <1>3 DEF PoolInv, RegularInv
  <1>5. count \in 0..Cap /\ Cap \in Nat \ {0} /\ next \in Nat /\ Slots \subseteq Nat /\ \A i \in Nat : i \in Slots <=> i < Cap
    BY <1>1, Ranges
  <1>6. fanRow \in Int /\ fanRow >= -1 /\ fanEnd \in Nat
    BY DEF FanTypes
  <1>7. CASE Statement
    <2>1. /\ count' >= count /\ count' \in Nat /\ next' >= next /\ next' \in Nat
          /\ \A r \in Slots : LiveRow(r)' => (LiveRow(r) /\ val'[r] = val[r]) \/ val'[r] = next + 1
      BY <1>1, <1>7, StatementKeepsRows DEF Statement
    <2>2. UNCHANGED <<fanRow, fanEnd, fanFrom, fanSeen>>
      BY <1>7 DEF Statement, fanVars
    <2>3. FanInv
      BY <1>3, <2>2 DEF Idle
    <2>4. fanRow < fanEnd /\ fanEnd <= count'
      BY <1>5, <1>6, <2>1, <2>3 DEF FanInv
    <2>5. next + 1 \notin fanFrom
      BY <1>5, <2>3 DEF FanInv
    <2>6. ASSUME NEW e \in fanFrom PROVE e \in Nat /\ e <= next'
      <3>1. e \in Nat /\ e <= next
        BY <2>3 DEF FanInv
      <3> QED
        BY <1>5, <2>1, <3>1
    <2>7. \A r \in Slots : LiveRow(r)' /\ val'[r] \in fanFrom =>
             r < fanEnd /\ (r <= fanRow => val'[r] \in fanSeen)
      BY <2>1, <2>3, <2>5 DEF FanInv
    <2> QED
      BY <2>2, <2>4, <2>6, <2>7 DEF FanInv
  <1>8. CASE FanStart
    <2>1. fanRow' = 0 /\ fanEnd' = count /\ fanFrom' = LiveEnts /\ Enter(0, {}) /\ count > 0
      BY <1>8 DEF FanStart
    <2>2. 0 \in Slots /\ 0 < count
      BY <1>5, <2>1
    <2>3. \A e \in LiveEnts : e \in Nat /\ e <= next
      <3>1. \A s \in LiveSlots : val[s] \in 1..next
        BY <1>4 DEF RowsInv, LiveSlots, LiveRow
      <3> QED
        BY <1>5, <3>1 DEF LiveEnts
    <2>4. \A u \in Slots : LiveRow(u) => u < count /\ ~(u < 0)
      BY <1>5 DEF LiveRow
    <2> QED
      BY <1>1, <1>5, <2>1, <2>2, <2>3, <2>4, EnterKeeps
  <1>9. CASE FanAdvance
    <2>1. /\ ~Idle /\ fanRow + 1 < fanEnd /\ fanRow' = fanRow + 1 /\ Enter(fanRow + 1, fanSeen)
          /\ fanEnd' = fanEnd /\ fanFrom' = fanFrom
      BY <1>9 DEF FanAdvance, RowAfter
    <2>2. FanInv
      BY <1>3, <2>1
    <2>3. PICK r \in Slots : r = fanRow + 1
      <3>1. fanRow + 1 \in Nat /\ fanRow + 1 < Cap
        BY <1>5, <1>6, <2>1, <2>2 DEF FanInv
      <3> QED
        BY <1>5, <3>1
    <2>4. \A u \in Slots : u < r => u <= fanRow
      BY <1>5, <1>6, <2>3
    <2>5. \A u \in Slots : LiveRow(u) /\ val[u] \in fanFrom => u < fanEnd /\ (u < r => val[u] \in fanSeen)
      BY <2>2, <2>4 DEF FanInv
    <2>6. r < fanEnd /\ fanEnd <= count /\ \A e \in fanFrom : e \in Nat /\ e <= next
      BY <2>1, <2>2, <2>3 DEF FanInv
    <2>7. Enter(r, fanSeen) /\ fanRow' = r
      BY <2>1, <2>3
    <2> QED
      BY <1>1, <1>6, <2>1, <2>5, <2>6, <2>7, EnterKeeps
  <1>10. CASE FanFinish
    BY <1>10 DEF FanFinish, Idle
  <1>11. CASE UNCHANGED eachVars
    BY <1>3, <1>11 DEF eachVars, fanVars, poolVars, FanInv, Idle, LiveRow
  <1> QED
    BY <1>7, <1>8, <1>9, <1>10, <1>11 DEF EachNext

LEMMA EachInvHolds == EachSpec => []EachInv
  <1>1. EachInit => FanTypes /\ TypeInv /\ (Regular /\ ~Idle => FanInv)
    BY TypeInvInit DEF EachInit, FanTypes, Idle
  <1>2. FanTypes /\ TypeInv /\ [EachNext]_eachVars => FanTypes' /\ TypeInv'
    BY FanStepIsPoolStep, TypeInvStep DEF TypeInv
  <1>3. FanTypes /\ DropsInv /\ (Regular /\ ~Idle => FanInv) /\ [EachNext]_eachVars
        => (Regular /\ ~Idle => FanInv)'
    BY EachInvStep
  <1>4. EachSpec => []DropsInv
    BY FanIsPoolProgram, DropsInvHolds, PTL
  <1> QED
    BY <1>1, <1>2, <1>3, <1>4, PTL DEF EachSpec, EachInv

-----------------------------------------------------------------------------
(* A fan that reaches its end has run its body on every entity that was in  *)
(* the pool when it started and still is, whatever its bodies inserted,     *)
(* deleted and evicted: the snapshot of count and the walk over rows that   *)
(* never move lose none, until a sort, a wrapped eviction or an overrun.    *)
THEOREM FansAreComplete == EachSpec => FanComplete
  <1>1. EachInv /\ [EachNext]_eachVars
        => [fanRow' = -1 /\ ~Idle /\ Regular => fanFrom \cap LiveEnts \subseteq fanSeen]_eachVars
    <2> SUFFICES ASSUME EachInv, EachNext, fanRow' = -1, ~Idle, Regular
                 PROVE  fanFrom \cap LiveEnts \subseteq fanSeen
      OBVIOUS
    <2>1. FanTypes /\ FanInv /\ TypeOK
      BY DEF EachInv, DropsInv, PoolInv, TypeInv
    <2>2. Slots \subseteq Nat
      BY <2>1, Ranges
    <2>3. FanFinish
      <3>1. ~FanStart
        BY DEF FanStart
      <3>2. ~Statement
        BY DEF Statement, fanVars, Idle
      <3>3. ~FanAdvance
        BY <2>1 DEF FanAdvance, RowAfter, FanTypes, Idle
      <3> QED
        BY <3>1, <3>2, <3>3 DEF EachNext
    <2>4. fanRow + 1 >= fanEnd /\ fanRow \in Int /\ fanEnd \in Nat
      BY <2>1, <2>3 DEF FanFinish, RowAfter, FanTypes
    <2>5. \A r \in Slots : r < fanEnd => r <= fanRow
      BY <2>2, <2>4
    <2> QED
      BY <2>1, <2>5 DEF FanInv, LiveEnts, LiveSlots
  <1> QED
    BY <1>1, EachInvHolds, PTL DEF EachSpec, FanComplete

(* The body of a fan is entered only for an entity whose destructor has not *)
(* run: testing the sign of the row's generation after the earlier bodies   *)
(* is enough, until a sort, an eviction or an overrun of the free list.     *)
THEOREM BodiesSeeLiveEntities == EachSpec => BodySeesLiveEntity
  <1>1. EachInv /\ [EachNext]_eachVars
        => [fanBody' /\ fanRow' # fanRow /\ Regular /\ "evict" \notin events
              => \A e \in fanSeen' \ fanSeen : drops[e] = 0]_eachVars
    <2> SUFFICES ASSUME EachInv, EachNext, fanBody', fanRow' # fanRow, Regular, "evict" \notin events,
                        NEW e \in fanSeen' \ fanSeen
                 PROVE  drops[e] = 0
      OBVIOUS
    <2>1. FanTypes /\ TypeOK /\ DropInv
      BY DEF EachInv, DropsInv, PoolInv, TypeInv, Quiet
    <2>2. /\ count \in 0..Cap /\ Cap \in Nat /\ Slots \subseteq Nat /\ \A i \in Nat : i \in Slots <=> i < Cap
          /\ gen \in [Slots -> Words] /\ Words \subseteq Int
      BY <2>1, Ranges
    <2>3. ASSUME NEW r \in Slots, ~(gen[r] < 0), fanSeen' \ fanSeen \subseteq {val[r]}, r < count
          PROVE  drops[e] = 0
      <3>1. gen[r] \in Int
        BY <2>2
      <3>2. gen[r] >= 0 /\ e = val[r]
        BY <2>3, <3>1
      <3>3. e \in LiveEnts
        BY <2>3, <3>2 DEF LiveEnts, LiveSlots, LiveRow
      <3>4. e \in Ents
        BY <2>1, <2>3, <3>2 DEF DropInv, Placed
      <3> QED
        BY <2>1, <3>3, <3>4 DEF DropInv
    <2>4. CASE FanStart
      <3>1. Enter(0, {}) /\ count > 0
        BY <2>4 DEF FanStart
      <3>2. 0 \in Slots /\ 0 < count
        BY <2>2, <3>1
      <3>3. ~(gen[0] < 0) /\ fanSeen' = {} \cup {val[0]}
        BY <3>1 DEF Enter
      <3> QED
        BY <2>3, <3>2, <3>3
    <2>5. CASE FanAdvance
      <3>1. ~Idle /\ fanRow + 1 < fanEnd /\ Enter(fanRow + 1, fanSeen)
        BY <2>5 DEF FanAdvance, RowAfter
      <3>2. fanEnd <= count
        BY <3>1 DEF EachInv, FanInv
      <3>3. fanRow + 1 \in Nat /\ fanRow + 1 < count /\ fanRow + 1 < Cap
        BY <2>1, <2>2, <3>1, <3>2 DEF FanTypes
      <3>4. fanRow + 1 \in Slots
        BY <2>2, <3>3
      <3>5. ~(gen[fanRow + 1] < 0) /\ fanSeen' = fanSeen \cup {val[fanRow + 1]}
        BY <3>1 DEF Enter
      <3> QED
        BY <2>3, <3>3, <3>4, <3>5
    <2>6. ~Statement /\ ~FanFinish
      BY DEF Statement, FanFinish, fanVars
    <2> QED
      BY <2>4, <2>5, <2>6 DEF EachNext
  <1> QED
    BY <1>1, EachInvHolds, PTL DEF EachSpec, BodySeesLiveEntity
=============================================================================
