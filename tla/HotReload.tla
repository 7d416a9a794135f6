----------------------------- MODULE HotReload -----------------------------
(***************************************************************************)
(* The reload runtime in a host started by `arche run`, runtime/hotreload.c: *)
(* before each call into a device the host stats the device's library and,   *)
(* when the mtime differs from the one it recorded, copies the file under a  *)
(* new name and opens the copy.  Libraries are replaced by rename, so an     *)
(* open file is complete; it may be newer than the stat that led to it.      *)
(***************************************************************************)
EXTENDS Integers, FiniteSets

CONSTANTS
    Sessions,   \* `arche run` invocations, each of a program of its own
    NUnits,     \* device units of a program; unit 0, the driver, is the host itself
    Texts,      \* what a device's source may say
    Unloadable, \* texts whose library the running host cannot open
    MaxFaults   \* bound on failures of the environment

ASSUME HotAssumption ==
    /\ Sessions # {} /\ "shared" \notin Sessions
    /\ NUnits \in Nat \ {0}
    /\ Unloadable \subseteq Texts
    /\ MaxFaults \in Nat

VARIABLES
    so,         \* so[d][u]: unit_u.so in hot directory d, its library and mtime
    host,       \* host[s]: the child process of session s
    faults      \* failures so far

Units == 1..NUnits
Dirs == {"shared"} \cup Sessions

(* A library is known by the program and the text it was compiled from.     *)
Libs == Sessions \X Texts
NoLib == <<>>
NoFile == [lib |-> NoLib, mtime |-> 0]

(* arche_hot_register, for each unit of a host that starts in directory d.  *)
Fresh(d) ==
    [alive |-> TRUE, dir |-> d, loading |-> 0, seen |-> 0,
     image |-> [u \in Units |-> NoLib],     \* what `handle` maps
     mtime |-> [u \in Units |-> 0],
     gen |-> [u \in Units |-> 0]]

NoHost(d) == [Fresh(d) EXCEPT !.alive = FALSE]

Fault == faults < MaxFaults /\ faults' = faults + 1

HostBecomes(s, process) == host' = [host EXCEPT ![s] = process]
File(s, u) == so[host[s].dir][u]

(* The first half of ensure_loaded: the stat finds another mtime.           *)
HostStat(s, u) ==
    /\ host[s].alive /\ host[s].loading = 0
    /\ File(s, u).lib # NoLib
    /\ host[s].image[u] = NoLib \/ File(s, u).mtime # host[s].mtime[u]
    /\ HostBecomes(s, [host[s] EXCEPT !.loading = u, !.seen = File(s, u).mtime])
    /\ UNCHANGED <<so, faults>>

(* The copy is named after the generation it will become; dlopen of a name  *)
(* that is already mapped answers with that mapping.                        *)
CopyGenOfMapped(s, u) == host[s].gen[u]
CopyGen(s, u) == host[s].gen[u] + 1

Opened(s, u) ==
    IF CopyGen(s, u) = host[s].gen[u] /\ host[s].image[u] # NoLib
    THEN host[s].image[u]
    ELSE File(s, u).lib

(* dlopen failed: the host stays on the library it has.                     *)
KeptAfterClose(s, u) == [host[s].image EXCEPT ![u] = NoLib]
Kept(s, u) == host[s].image

NotReloaded(s, u) == [host[s] EXCEPT !.loading = 0, !.image = Kept(s, u)]

Reloaded(s, u) ==
    LET h == host[s]
    IN  [h EXCEPT !.loading = 0,
                  !.image = [h.image EXCEPT ![u] = Opened(s, u)],
                  !.mtime = [h.mtime EXCEPT ![u] = h.seen],
                  !.gen = [h.gen EXCEPT ![u] = h.gen[u] + 1]]

(* The second half: copy, open, close the old mapping, record.              *)
HostLoad(s) ==
    LET u == host[s].loading
    IN  /\ host[s].alive /\ u # 0
        /\ HostBecomes(s, IF File(s, u).lib[2] \in Unloadable THEN NotReloaded(s, u) ELSE Reloaded(s, u))
        /\ UNCHANGED <<so, faults>>

(* The copy could not be written: nothing changes, the next call retries.   *)
HostCopyFails(s) ==
    /\ host[s].alive /\ host[s].loading # 0
    /\ Fault
    /\ HostBecomes(s, [host[s] EXCEPT !.loading = 0])
    /\ UNCHANGED so

-----------------------------------------------------------------------------
(* A recorded mtime is never that of a library the host does not have: a    *)
(* replacement between the stat and the copy leads to another reload.       *)
NoReloadMissed ==
    \A s \in Sessions : \A u \in Units :
        host[s].alive /\ host[s].image[u] # NoLib /\ host[s].mtime[u] = File(s, u).mtime
            => host[s].image[u] = File(s, u).lib

(* A running host that has a library for a unit never loses it, whatever    *)
(* fails in a reload.                                                       *)
KeepsLastGood ==
    [][\A s \in Sessions : \A u \in Units :
        host[s].alive /\ host'[s].alive /\ host[s].image[u] # NoLib
            => host'[s].image[u] # NoLib]_<<so, host, faults>>
=============================================================================
