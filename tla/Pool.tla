-------------------------------- MODULE Pool --------------------------------
(***************************************************************************)
(* The entity pool of one archetype: the struct, the insert / delete / cell *)
(* helpers and the sort builtin that codegen/codegen.c emits for a static   *)
(* `[Cap]Foo(InitLen) ?policy` declaration, seen from the program that      *)
(* calls them.  Slots are the rows of the column arrays; `val` stands for   *)
(* all columns of a row and holds the entity that was written there.        *)
(*                                                                          *)
(* A generation word is the i32 of the code with its width as a parameter:  *)
(* two's complement over -(GenMax + 1) .. GenMax, sign bit = tombstone.     *)
(* GenMax is 2^31 - 1 in the emitted code.                                  *)
(***************************************************************************)
EXTENDS Integers, FiniteSets

CONSTANTS
    Cap,        \* capacity of the pool: [Cap]Foo
    InitLen,    \* rows written by the pool's declaration: [Cap]Foo(InitLen)
    GenMax,     \* largest live generation, 2^(w-1) - 1 for a w-bit word
    MaxEnt,     \* bound on the entities a behaviour ever offers to insert
    Policies,   \* overflow handlers the insert sites resolve to
    MaxSorts,   \* bound on the program's calls of sort(Pool.key)
    HonoursOk,  \* whether the program tests `ok` before it uses a handle
    Key         \* the sort key column: entity -> number

ASSUME PoolAssumption ==
    /\ Cap \in Nat \ {0}
    /\ InitLen \in 0..Cap
    /\ GenMax \in Nat \ {0}
    /\ MaxEnt \in Nat /\ InitLen <= MaxEnt
    /\ Policies \subseteq {"reject", "abort", "evict"}
    /\ MaxSorts \in Nat /\ HonoursOk \in BOOLEAN
    /\ Key \in [1..MaxEnt -> Int]

VARIABLES
    val,        \* columns: the entity written at each slot, NoEnt if never written
    count,      \* high-water mark of used slots
    freeList,   \* free_list: [Cap x i64]
    freeCount,  \* free_count: the word that follows free_list in the struct
    gen,        \* gen_counters: [Cap x i32]
    next,       \* number of entities offered so far (the program's own data)
    held,       \* handles the program has been given: <<handle, entity>>
    drops,      \* how often the column destructor ran for each entity
    out,        \* what the last call returned
    phase,      \* "run", or why the program stopped
    sorts,      \* how often sort has been called
    events      \* history of the three steps that leave the allocator's own rules

poolVars == <<val, count, freeList, freeCount, gen, next, held, drops, out, phase, sorts, events>>

Slots == 0..(Cap - 1)
NoEnt == 0
Ents == 1..MaxEnt

(* Key columns of the instances: all keys different, and some equal.        *)
DistinctKeys == [e \in Ents |-> e]
TiedKeys == [e \in Ents |-> (e * 2) % 3]

(***************************************************************************)
(* i32 arithmetic on generation words.                                      *)
(***************************************************************************)
Modulus == GenMax + 1
Words == -Modulus..GenMax
LowKeepingSign(w) == w
Low(w) == IF w < 0 THEN w + Modulus ELSE w              \* and i32 w, 0x7fffffff
Inc(w) == IF w = GenMax THEN -Modulus ELSE w + 1        \* add i32 w, 1 (wraps)
Tombstone(w) == Low(w) - Modulus                        \* or i32 w, 0x80000000

Handles == [slot : Nat, gen : 0..GenMax]
Zero == [slot |-> 0, gen |-> 0]                         \* the i64 handle 0

LiveRow(s) == s < count /\ gen[s] >= 0
LiveSlots == {s \in Slots : LiveRow(s)}
DeadSlots == {s \in Slots : s < count /\ gen[s] < 0}
LiveEnts == {val[s] : s \in LiveSlots}

(* A handle the delete / cell helpers accept.                              *)
Valid(h) == h.slot \in Slots /\ gen[h.slot] = h.gen

(* What the program is given: a handle with the entity it was issued for,   *)
(* and the answer of a call.                                                *)
Issues == Handles \X (0..MaxEnt)
Answers == [op : {"init", "insert", "delete", "cell", "sort"}, ok : {0, 1},
            h : Handles, e : 0..MaxEnt]

Answer(op, ok, h, e) == out' = [op |-> op, ok |-> ok, h |-> h, e |-> e]

Init ==
    /\ val = [s \in Slots |-> IF s < InitLen THEN s + 1 ELSE NoEnt]
    /\ count = InitLen
    /\ freeList = [i \in Slots |-> 0]
    /\ freeCount = 1
    /\ gen = [s \in Slots |-> 0]
    /\ next = InitLen
    /\ held = {}
    /\ drops = [e \in Ents |-> 0]
    /\ out = [op |-> "init", ok |-> 1, h |-> Zero, e |-> NoEnt]
    /\ phase = "run"
    /\ sorts = 0
    /\ events = {}

(***************************************************************************)
(* insert(Foo{...})(h:, ok:)                                                *)
(***************************************************************************)

(* `write_fields` .. `done`: store the columns, bump an evicted row's       *)
(* generation, clear the sign bit, promote 0 to 1, issue the handle.        *)
IssuedGen(s, evict) ==
    LET bumped == IF evict THEN Inc(gen[s]) ELSE gen[s]
    IN  IF Low(bumped) = 0 THEN 1 ELSE Low(bumped)

WriteRow(s, evict) ==
    LET h == [slot |-> s, gen |-> IssuedGen(s, evict)]
    IN  /\ val' = [val EXCEPT ![s] = next + 1]
        /\ gen' = [gen EXCEPT ![s] = h.gen]
        /\ held' = held \cup {<<h, next + 1>>}
        /\ Answer("insert", 1, h, next + 1)

(* The load of free_list[i]: the word after the array is free_count.       *)
FreeListAt(i) == IF i = Cap THEN freeCount ELSE freeList[i]

HasFreeOffByOne == freeCount > 2
HasFree == freeCount > 1
AtCapacity == count >= Cap

(* Every insert offers a new entity, moved into the call whatever it       *)
(* returns.                                                                *)
Offer == phase = "run" /\ next < MaxEnt /\ next' = next + 1

(* The handler of the call site is inlined before the helper call: `?abort` *)
(* looks at count alone, the others let the helper run.                    *)
MayAbort == "abort" \in Policies /\ AtCapacity
MayProceed == AtCapacity => Policies # {"abort"}

InsertAbort ==
    /\ Offer
    /\ MayAbort
    /\ phase' = "pool full"
    /\ UNCHANGED <<val, count, freeList, freeCount, gen, held, drops, out, sorts, events>>

InsertPopFree ==
    /\ Offer
    /\ MayProceed
    /\ HasFree
    /\ LET s == FreeListAt(freeCount - 1)
       IN  /\ s \in Slots
           /\ WriteRow(s, FALSE)
    /\ freeCount' = freeCount - 1
    /\ UNCHANGED <<count, freeList, drops, phase, sorts, events>>

(* A popped index outside the columns: the writes land elsewhere in the    *)
(* struct, so nothing is claimed about the program from here on.           *)
InsertOutOfRange ==
    /\ Offer
    /\ MayProceed
    /\ HasFree
    /\ FreeListAt(freeCount - 1) \notin Slots
    /\ Answer("insert", 1, [slot |-> FreeListAt(freeCount - 1), gen |-> 1], next + 1)
    /\ freeCount' = freeCount - 1
    /\ phase' = "corrupted"
    /\ UNCHANGED <<val, count, freeList, gen, held, drops, sorts, events>>

InsertAppend ==
    /\ Offer
    /\ MayProceed
    /\ ~HasFree
    /\ ~AtCapacity
    /\ WriteRow(count, FALSE)
    /\ count' = count + 1
    /\ UNCHANGED <<freeList, freeCount, drops, phase, sorts, events>>

Overflow == Offer /\ MayProceed /\ ~HasFree /\ AtCapacity

(* A custom handler redirected `slot` to a victim row: overwrite it.       *)
InsertEvict(victim) ==
    /\ Overflow
    /\ "evict" \in Policies
    /\ WriteRow(victim, TRUE)
    /\ events' = events \cup {"evict"} \cup (IF gen[victim] = GenMax THEN {"wrap"} ELSE {})
    /\ UNCHANGED <<count, freeList, freeCount, drops, phase, sorts>>

(* `reject`, or a handler that declined: h = 0, ok = 0.                     *)
InsertRefused ==
    /\ Overflow
    /\ held' = held \cup {<<Zero, NoEnt>>}
    /\ Answer("insert", 0, Zero, next + 1)
    /\ UNCHANGED <<val, count, freeList, freeCount, gen, drops, phase, sorts, events>>

(***************************************************************************)
(* delete(h)(ok:), and the cell dereference of a foreign archetype.         *)
(***************************************************************************)

(* A handle the program may pass: one it was given, and not the failure    *)
(* sentinel unless it ignores `ok`.                                        *)
Usable(he) == he \in held /\ (he[2] # NoEnt \/ ~HonoursOk)

UseStale(he) ==
    /\ phase = "run"
    /\ Usable(he)
    /\ ~Valid(he[1])
    /\ phase' = "stale handle"
    /\ UNCHANGED <<val, count, freeList, freeCount, gen, next, held, drops, out, sorts, events>>

Cell(he) ==
    /\ phase = "run"
    /\ Usable(he)
    /\ Valid(he[1])
    /\ Answer("cell", 1, he[1], val[he[1].slot])
    /\ UNCHANGED <<val, count, freeList, freeCount, gen, next, held, drops, phase, sorts, events>>

DeleteExhausted(he) ==
    /\ phase = "run"
    /\ Usable(he)
    /\ Valid(he[1])
    /\ gen[he[1].slot] = GenMax
    /\ Answer("delete", 0, he[1], he[2])
    /\ UNCHANGED <<val, count, freeList, freeCount, gen, next, held, drops, phase, sorts, events>>

(* The dying row's generation: the next one, with the sign bit set.        *)
FreedGenNoBump(w) == Tombstone(w)
FreedGen(w) == Tombstone(Inc(w))

(* cg_emit_rowdrop: the destructor of the entity in the row runs once.      *)
RowDropForgotten(s) == drops
RowDrop(s) == IF val[s] = NoEnt THEN drops ELSE [drops EXCEPT ![val[s]] = @ + 1]

(* free_list[free_count] = slot, as far as it is inside the array.         *)
PushZeroBased(s) == IF freeCount <= Cap THEN [freeList EXCEPT ![freeCount - 1] = s] ELSE freeList
Push(s) == IF freeCount < Cap THEN [freeList EXCEPT ![freeCount] = s] ELSE freeList

(* Run the destructor of the row, tombstone it, push the slot.  When       *)
(* free_count = Cap the store goes to the free_count word itself, which    *)
(* the increment then overwrites.                                          *)
DeleteRow(he) ==
    LET s == he[1].slot
    IN  /\ phase = "run"
        /\ Usable(he)
        /\ Valid(he[1])
        /\ gen[s] # GenMax
        /\ drops' = RowDrop(s)
        /\ gen' = [gen EXCEPT ![s] = FreedGen(gen[s])]
        /\ freeList' = Push(s)
        /\ freeCount' = freeCount + 1
        /\ events' = IF freeCount < Cap THEN events ELSE events \cup {"overrun"}
        /\ Answer("delete", 1, he[1], he[2])
        /\ UNCHANGED <<val, count, next, held, phase, sorts>>

(***************************************************************************)
(* `map (query {...} as w)`: the fan binds w to the handle of a live row.   *)
(***************************************************************************)
Mint(s) ==
    /\ phase = "run"
    /\ LiveRow(s)
    /\ held' = held \cup {<<[slot |-> s, gen |-> gen[s]], val[s]>>}
    /\ UNCHANGED <<val, count, freeList, freeCount, gen, next, drops, out, phase, sorts, events>>

(***************************************************************************)
(* sort(Pool.key[, desc]): live rows first, in key order and stable; then   *)
(* the tombstoned rows; count, free_count and the generations are reset.    *)
(***************************************************************************)
KeyAt(s) == IF val[s] = NoEnt THEN 0 ELSE Key[val[s]]

Before(desc, s, t) ==
    \/ IF desc THEN KeyAt(s) > KeyAt(t) ELSE KeyAt(s) < KeyAt(t)
    \/ KeyAt(s) = KeyAt(t) /\ s < t

(* The order of the index array after the sort: live rows by key, then the  *)
(* dead ones as they were.                                                  *)
AheadIgnoringDead(desc, s, t) == Before(desc, s, t)

Ahead(desc, s, t) ==
    \/ LiveRow(s) /\ LiveRow(t) /\ Before(desc, s, t)
    \/ LiveRow(s) /\ ~LiveRow(t)
    \/ ~LiveRow(s) /\ ~LiveRow(t) /\ s < t

(* order[s] is the row whose columns move to row s.                         *)
Used == 0..(count - 1)
IsOrder(desc, order) == \A s, t \in Used : s < t => Ahead(desc, order[s], order[t])

Sort(desc) ==
    /\ phase = "run"
    /\ sorts < MaxSorts
    /\ sorts' = sorts + 1
    /\ \E order \in [Used -> Used] :
          /\ IsOrder(desc, order)
          /\ val' = [s \in Slots |-> IF s < count THEN val[order[s]] ELSE val[s]]
    /\ count' = Cardinality(LiveSlots)
    /\ freeCount' = 0
    /\ gen' = [s \in Slots |-> IF s < count THEN 0 ELSE gen[s]]
    /\ Answer("sort", 1, Zero, NoEnt)
    /\ UNCHANGED <<freeList, next, held, drops, phase, events>>

Insert ==
    \/ InsertAbort
    \/ InsertPopFree
    \/ InsertOutOfRange
    \/ InsertAppend
    \/ \E victim \in Slots : InsertEvict(victim)
    \/ InsertRefused

Use ==
    \E he \in held :
        \/ UseStale(he)
        \/ Cell(he)
        \/ DeleteExhausted(he)
        \/ DeleteRow(he)

Next ==
    \/ Insert
    \/ Use
    \/ \E s \in Slots : Mint(s)
    \/ \E desc \in BOOLEAN : Sort(desc)

Spec == Init /\ [][Next]_poolVars

(***************************************************************************)
(* Reading a pool column: reduce / scan visit [0, count) and skip the       *)
(* tombstoned rows only when the pool is known to have holes.               *)
(***************************************************************************)
HasHolesOffByOne == freeCount > 2
HasHoles == freeCount # 0

FoldRows == {s \in Slots : s < count /\ ~(HasHoles /\ gen[s] < 0)}

-----------------------------------------------------------------------------
(***************************************************************************)
(* Properties.                                                              *)
(***************************************************************************)

(* Every field of the pool struct stays in its declared range.  free_count  *)
(* may be one past the array, when every slot has been freed.               *)
TypeOK ==
    /\ val \in [Slots -> 0..MaxEnt]
    /\ count \in 0..Cap
    /\ freeList \in [Slots -> Slots]
    /\ freeCount \in 0..(Cap + 1)
    /\ gen \in [Slots -> Words]
    /\ next \in InitLen..MaxEnt
    /\ held \subseteq Issues
    /\ drops \in [Ents -> Nat]
    /\ out \in Answers
    /\ phase \in {"run", "pool full", "stale handle", "corrupted"}
    /\ sorts \in 0..MaxSorts
    /\ events \subseteq {"evict", "wrap", "overrun"}

(* No sort has reset the generations, no eviction has wrapped one, and the  *)
(* free list was never pushed past its end.                                 *)
Regular == sorts = 0 /\ events \cap {"wrap", "overrun"} = {}

(* As long as Regular, the free list holds exactly the tombstoned rows, each *)
(* once: delete never loses a slot and insert never takes one in use.       *)
FreeListExact ==
    Regular =>
        /\ freeCount \in 1..Cap
        /\ {freeList[i] : i \in 1..(freeCount - 1)} = DeadSlots
        /\ \A i, j \in 1..(freeCount - 1) : freeList[i] = freeList[j] => i = j

(* An accepted handle reaches the entity it was issued for: no use after    *)
(* free, no aliasing of a reused slot.                                      *)
NoAlias ==
    \A he \in held :
        he[2] # NoEnt /\ Valid(he[1]) =>
            LiveRow(he[1].slot) /\ val[he[1].slot] = he[2]

(* A handle stays accepted as long as its entity is in the pool.            *)
NoFalseStale ==
    \A he \in held : he[2] \in LiveEnts => Valid(he[1])

(* A handle is accepted exactly as long as the entity it was issued for is  *)
(* in the pool, and then its slot holds that entity.                        *)
HandleSound == Regular => NoAlias /\ NoFalseStale

(* `ok = 0` from insert means that every slot holds a live row, as long as  *)
(* Regular.                                                                 *)
RefusedOnlyWhenFullAlways ==
    out.op = "insert" /\ out.ok = 0 => LiveSlots = Slots

RefusedOnlyWhenFull == Regular => RefusedOnlyWhenFullAlways

(* Open = insert, close = delete: the destructor has run exactly once for   *)
(* an entity that left the pool and not at all for one that is in it.       *)
Placed == {e \in Ents : e <= InitLen \/ \E he \in held : he[2] = e}

DropsExactAlways ==
    \A e \in Placed : drops[e] = IF e \in LiveEnts THEN 0 ELSE 1

DropsExact == Regular /\ "evict" \notin events => DropsExactAlways

(* A collective over a column reads the live rows and no freed one.         *)
FoldReadsLiveRows == FoldRows = LiveSlots

(* sort keeps the live entities and only them, packs them into [0, count)   *)
(* without a tombstone between them, and leaves them in key order.          *)
Ordered(v, n, desc) ==
    \A s, t \in 0..(n - 1) :
        s < t => IF desc THEN Key[v[s]] >= Key[v[t]] ELSE Key[v[s]] <= Key[v[t]]

SortStep ==
    sorts' # sorts =>
        /\ {val'[s] : s \in 0..(count' - 1)} = LiveEnts
        /\ \A s \in 0..(count' - 1) : gen'[s] >= 0
        /\ \E desc \in BOOLEAN : Ordered(val', count', desc)

SortKeepsEntities == [][SortStep]_poolVars

(* The pool implements the abstract store.                                  *)
Store == INSTANCE EntityStore WITH
    Capacity <- Cap, Entities <- Ents, Start <- 1..InitLen,
    live <- LiveEnts,
    issued <- {he \in held : he[2] # NoEnt},
    last <- out,
    status <- CASE phase = "run" -> "run"
                [] phase = "corrupted" -> "undefined"
                [] OTHER -> "crashed"

StoreSpec == Store!StoreSpec
=============================================================================
