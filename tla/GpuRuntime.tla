----------------------------- MODULE GpuRuntime -----------------------------
(***************************************************************************)
(* runtime/gpu_runtime.c: the columns of one pool on the host and in the    *)
(* resident cache of the device.  A copy of a column is current or not,     *)
(* current meaning that it holds what running every step on the host would  *)
(* have left there; a step that reads a copy that is not has gone wrong.    *)
(***************************************************************************)
EXTENDS Integers, Sequences, FiniteSets

CONSTANTS
    NCols,          \* columns of the pool
    MaxResident,    \* ARCHE_GPU_MAX_RESIDENT: 256
    MaxGrowth,      \* bound on inserts
    MaxFaults       \* bound on failing device calls

ASSUME GpuAssumption ==
    /\ NCols \in Nat \ {0} /\ MaxResident \in Nat
    /\ MaxGrowth \in Nat /\ MaxFaults \in Nat

VARIABLES
    hostOk,     \* hostOk[c]: the host's copy of column c is current
    cache,      \* g_resident: the buffers of each column, in order of creation
    count,      \* g_resident_count
    rows,       \* inserts so far: they decide the count, and so the bytes of a column
    faults,     \* failures so far
    stale,      \* history: a step has read a copy that was not current
    events      \* history: what happened that the cache is not made for

gpuVars == <<hostOk, cache, count, rows, faults, stale, events>>

Cols == 1..NCols

GpuInit ==
    /\ hostOk = [c \in Cols |-> TRUE]
    /\ cache = [c \in Cols |-> <<>>]
    /\ count = 0 /\ rows = 0 /\ faults = 0 /\ stale = FALSE /\ events = {}

Fault == faults < MaxFaults /\ faults' = faults + 1

(* resident_find answers with the first buffer of a column, if there is one. *)
Exists(c) == cache[c] # <<>>
NothingResident == \A c \in Cols : ~Exists(c)

(* A write makes the written copy the only current one of its column.       *)
Outdate(buffers, written) ==
    [c \in Cols |-> IF c \in written THEN [i \in DOMAIN buffers[c] |-> [buffers[c][i] EXCEPT !.ok = FALSE]]
                    ELSE buffers[c]]

(***************************************************************************)
(* A step on the host: a system, an effectful map, a map placed there.      *)
(***************************************************************************)
HostStep(k) ==
    /\ rows + k.grows <= MaxGrowth
    /\ stale' = (stale \/ \E c \in k.reads : ~hostOk[c])
    /\ hostOk' = [c \in Cols |-> hostOk[c] \/ c \in k.writes]
    /\ cache' = Outdate(cache, k.writes)
    /\ rows' = rows + k.grows
    /\ events' = events \cup (IF k.grows > 0 /\ ~NothingResident THEN {"grown"} ELSE {})
    /\ UNCHANGED <<count, faults>>

(***************************************************************************)
(* arche_gpu_dispatch.  Columns in order: a buffer of the right size is     *)
(* reused, otherwise one is made and filled from the host; a full cache is  *)
(* not looked at.                                                           *)
(***************************************************************************)
Reusable(c) == Exists(c) /\ cache[c][1].rows = rows
Misses(used) == {c \in used : ~Reusable(c)}

(* The columns of a kernel that use a buffer of the cache; the others use   *)
(* one of this dispatch, which is read from the host and copied back.       *)
Cached(used, resident) ==
    {c \in used : resident /\ count + Cardinality(Misses({d \in used : d < c})) < MaxResident}

Acquired(cached) ==
    [c \in Cols |-> IF c \in Misses(cached) THEN Append(cache[c], [rows |-> rows, ok |-> hostOk[c], dirty |-> FALSE])
                    ELSE cache[c]]

(* The buffer of column c after a dispatch, which is buffer i of it.  The   *)
(* mark is set on the buffer that resident_find finds.                      *)
Ran(buffers, c, i, writes) ==
    LET used == IF Reusable(c) THEN 1 ELSE Len(buffers[c])
    IN  [buffers[c][i] EXCEPT !.ok = IF c \in writes THEN i = used ELSE @, !.dirty = @ \/ i = 1]

Dispatch(k, resident) ==
    LET used == k.reads \cup k.writes
        cached == Cached(used, resident)
        buffers == Acquired(cached)
        InputOk(c) == IF c \in cached /\ Reusable(c) THEN cache[c][1].ok ELSE hostOk[c]
    IN  /\ stale' = (stale \/ \E c \in k.reads : ~InputOk(c))
        /\ hostOk' = [c \in Cols |-> IF c \in k.writes THEN c \notin cached ELSE hostOk[c]]
        /\ cache' = [c \in Cols |-> IF c \in cached THEN [i \in DOMAIN buffers[c] |-> Ran(buffers, c, i, k.writes)]
                                    ELSE Outdate(cache, k.writes)[c]]
        /\ count' = count + Cardinality(Misses(cached))
        /\ events' = events \cup (IF resident /\ cached # used THEN {"full"} ELSE {})
        /\ UNCHANGED <<rows, faults>>

(* A nonzero return, after the buffers of its first few columns were made:  *)
(* the emitted code runs the map on the host.                               *)
DispatchFails(k, resident) ==
    /\ Fault
    /\ \E last \in 0..NCols :
          LET made == Cached({c \in k.reads \cup k.writes : c <= last}, resident)
          IN  /\ cache' = Outdate(Acquired(made), k.writes)
              /\ count' = count + Cardinality(Misses(made))
              /\ events' = events \cup (IF NothingResident /\ Misses(made) = {} THEN {} ELSE {"failed"})
    /\ stale' = (stale \/ \E c \in k.reads : ~hostOk[c])
    /\ hostOk' = [c \in Cols |-> hostOk[c] \/ c \in k.writes]
    /\ UNCHANGED rows

(***************************************************************************)
(* arche_gpu_sync and arche_gpu_upload, over every column of the pool.  A   *)
(* copy may fail, which neither reports: the buffer counts as transferred.  *)
(***************************************************************************)
Copying(failed) ==
    /\ NothingResident => failed = {}
    /\ IF failed = {} THEN UNCHANGED <<faults, events>>
       ELSE Fault /\ events' = events \cup {"failed"}
    /\ UNCHANGED <<count, rows, stale>>

Sync ==
    \E failed \in SUBSET Cols :
        /\ Copying(failed)
        /\ hostOk' = [c \in Cols |-> IF c \notin failed /\ Exists(c) /\ cache[c][1].dirty
                                      THEN cache[c][1].ok ELSE hostOk[c]]
        /\ cache' = [c \in Cols |-> [i \in DOMAIN cache[c] |-> [cache[c][i] EXCEPT !.dirty = @ /\ i # 1]]]

Upload ==
    \E failed \in SUBSET Cols :
        /\ Copying(failed)
        /\ cache' = [c \in Cols |-> [i \in DOMAIN cache[c] |->
                       [cache[c][i] EXCEPT !.dirty = @ /\ i # 1, !.ok = IF i = 1 /\ c \notin failed THEN hostOk[c] ELSE @]]]
        /\ UNCHANGED hostOk
=============================================================================
