---------------------------- MODULE EntityStore ----------------------------
(***************************************************************************)
(* What a fixed-capacity pool promises its program, without slots,          *)
(* generations or a free list: entities come and go, a handle names one     *)
(* entity for ever, and an insert is refused only by a full store.          *)
(***************************************************************************)
EXTENDS Integers, FiniteSets

CONSTANTS Capacity, Entities, Start

VARIABLES
    live,       \* the entities in the store
    issued,     \* <<handle, entity>> pairs the program has been given
    last,       \* the last call's answer: [op, ok, h, e]
    status      \* "run", "crashed" or "undefined"

storeVars == <<live, issued, last, status>>

Names(h) == {p[2] : p \in {q \in issued : q[1] = h}}

StoreInit ==
    /\ live = Start
    /\ issued = {}
    /\ last.op = "init"
    /\ status = "run"

(* A handle is fresh: it was never issued, to this entity or any other.    *)
Create(e) ==
    /\ status = "run"
    /\ e \notin live
    /\ Cardinality(live) < Capacity
    /\ live' = live \cup {e}
    /\ last'.op = "insert" /\ last'.ok = 1 /\ last'.e = e
    /\ Names(last'.h) = {}
    /\ issued' = issued \cup {<<last'.h, e>>}
    /\ UNCHANGED status

Refuse ==
    /\ status = "run"
    /\ Cardinality(live) = Capacity
    /\ last'.op = "insert" /\ last'.ok = 0
    /\ UNCHANGED <<live, issued, status>>

(* A handle is handed out again for the entity it already names.           *)
Reveal(e) ==
    /\ status = "run"
    /\ e \in live
    /\ \E h \in {p[1] : p \in issued'} :
          /\ Names(h) \subseteq {e}
          /\ issued' = issued \cup {<<h, e>>}
    /\ UNCHANGED <<live, last, status>>

Read(e) ==
    /\ status = "run"
    /\ e \in live
    /\ last'.op = "cell" /\ last'.e = e /\ <<last'.h, e>> \in issued
    /\ UNCHANGED <<live, issued, status>>

Destroy(e) ==
    /\ status = "run"
    /\ e \in live
    /\ last'.op = "delete" /\ <<last'.h, e>> \in issued
    /\ live' = IF last'.ok = 1 THEN live \ {e} ELSE live
    /\ UNCHANGED <<issued, status>>

(* The program stops only for using the handle of an entity that is gone.  *)
Crash ==
    /\ status = "run"
    /\ \E p \in issued : p[2] \notin live
    /\ status' = "crashed"
    /\ UNCHANGED <<live, issued, last>>

(* The one hole in the promise: an insert into a store emptied of all its  *)
(* entities may leave the store undefined.                                 *)
Undefined ==
    /\ status = "run"
    /\ live = {}
    /\ status' = "undefined"
    /\ UNCHANGED <<live, issued>>

StoreNext ==
    \/ \E e \in Entities : Create(e) \/ Reveal(e) \/ Read(e) \/ Destroy(e)
    \/ Refuse
    \/ Crash
    \/ Undefined

StoreSpec == StoreInit /\ [][StoreNext]_storeVars
=============================================================================
