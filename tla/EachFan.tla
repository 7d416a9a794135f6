------------------------------ MODULE EachFan ------------------------------
(***************************************************************************)
(* `map (query {...} as w) eff { body }` over one pool: codegen_each_fan    *)
(* snapshots count, walks the rows, skips the tombstoned ones and runs the  *)
(* body with w bound to the row's handle.  The body may insert, delete this *)
(* row or any other, and use any handle the program holds; sort is rejected *)
(* inside a fan (E0047).                                                    *)
(***************************************************************************)
EXTENDS Pool

VARIABLES
    fanRow,     \* the row the fan stands on; -1 when no fan is running
    fanEnd,     \* count at the start of the fan
    fanBody,    \* whether the body of that row is running
    fanFrom,    \* history: the entities live when the fan started
    fanSeen     \* history: the entities whose body ran, in order of rows

fanVars == <<fanRow, fanEnd, fanBody, fanFrom, fanSeen>>
eachVars == <<poolVars, fanVars>>

Idle == fanRow = -1

EachInit ==
    /\ Init
    /\ fanRow = -1 /\ fanEnd = 0 /\ fanBody = FALSE
    /\ fanFrom = {} /\ fanSeen = {}

(* Land on row r: run its body unless the row is tombstoned.               *)
EnterUnchecked(r, seen) ==
    fanBody' = TRUE /\ fanSeen' = seen \cup {val[r]} /\ UNCHANGED poolVars

Enter(r, seen) ==
    IF gen[r] < 0
    THEN fanBody' = FALSE /\ fanSeen' = seen /\ UNCHANGED poolVars
    ELSE fanBody' = TRUE /\ fanSeen' = seen \cup {val[r]} /\ Mint(r)

FanStart ==
    /\ phase = "run" /\ Idle /\ count > 0
    /\ fanRow' = 0 /\ fanEnd' = count /\ fanFrom' = LiveEnts
    /\ Enter(0, {})

(* eachrow_cont: the next row, up to the count read at the start.          *)
RowAfterDelete(r) == IF gen[r] < 0 THEN r + 2 ELSE r + 1

RowAfter(r) == r + 1

FanAdvance ==
    /\ phase = "run" /\ ~Idle
    /\ RowAfter(fanRow) < fanEnd
    /\ fanRow' = RowAfter(fanRow)
    /\ Enter(RowAfter(fanRow), fanSeen)
    /\ UNCHANGED <<fanEnd, fanFrom>>

FanFinish ==
    /\ phase = "run" /\ ~Idle
    /\ RowAfter(fanRow) >= fanEnd
    /\ fanRow' = -1 /\ fanBody' = FALSE
    /\ UNCHANGED <<poolVars, fanEnd, fanFrom, fanSeen>>

(* A statement of the body, or of the program outside every fan.           *)
Statement == (Idle \/ fanBody) /\ (Insert \/ Use) /\ UNCHANGED fanVars

EachNext == Statement \/ FanStart \/ FanAdvance \/ FanFinish

EachSpec == EachInit /\ [][EachNext]_eachVars
-----------------------------------------------------------------------------
(* A fan that finishes has run its body on every entity that was in the     *)
(* pool when it started and still is, whatever the bodies inserted and      *)
(* deleted on the way, as long as the pool is Regular.                      *)
FanComplete ==
    [][fanRow' = -1 /\ ~Idle /\ Regular => fanFrom \cap LiveEnts \subseteq fanSeen]_eachVars

(* The body never runs on an entity that has been deleted: on entry the     *)
(* destructor of the entity it is given has not run, as long as the pool is *)
(* Regular and no row was evicted.                                          *)
BodySeesLiveEntity ==
    [][fanBody' /\ fanRow' # fanRow /\ Regular /\ "evict" \notin events
        => \A e \in fanSeen' \ fanSeen : drops[e] = 0]_eachVars
=============================================================================
