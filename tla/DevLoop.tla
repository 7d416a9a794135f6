------------------------------ MODULE DevLoop ------------------------------
(***************************************************************************)
(* `arche run` as a development loop: cli/cmd_run.c builds the program,      *)
(* starts it and rebuilds it when a source file of the project changes;      *)
(* compile/compile.c publishes one library per device into the session's     *)
(* hot directory; the host (module HotReload) picks the libraries up.        *)
(* Sessions of one project run at the same time and one after the other, an  *)
(* editor saves files at any moment, and any process may be killed.          *)
(***************************************************************************)
EXTENDS HotReload

CONSTANTS
    Broken,     \* texts the front end rejects
    FirstText,  \* what every device says at the start
    MaxSaves,   \* bound on saves
    MaxRuns     \* bound on sessions started

ASSUME DevAssumption ==
    /\ Broken \subseteq Texts /\ FirstText \in Texts
    /\ MaxSaves \in Nat /\ MaxRuns \in Nat

VARIABLES
    src,        \* src[s][u]: text of the device that is unit u of program s
    newest,     \* newest mtime of a source file: latest_arche_mtime(proj)
    hash,       \* hash[d][u]: the sidecar unit_u.so.hash
    ses,        \* ses[s]: the `arche run` process
    runs,       \* sessions started
    torn        \* history: a library was published without its sidecar

hotVars == <<so, host, faults>>
devVars == <<so, host, faults, src, newest, hash, ses, runs, torn>>

Sources == [u \in Units |-> FirstText]
NoFiles == [u \in Units |-> NoFile]
NoHashes == [u \in Units |-> NoLib]

(* first: the initial build; ir: what this build has read; built: what the  *)
(* last successful one read; m: the sample that led to this build; watch:   *)
(* watch_mtime; skipped: history, the baseline or an unreadable entry file  *)
(* made watch_mtime cover a save that no build has read since.              *)
Off == [pc |-> "off", dir |-> "shared", first |-> TRUE, unit |-> 1, ir |-> Sources,
        built |-> Sources, m |-> 0, watch |-> 0, skipped |-> FALSE]

Init ==
    /\ so = [d \in Dirs |-> NoFiles]
    /\ hash = [d \in Dirs |-> NoHashes]
    /\ host = [s \in Sessions |-> NoHost("shared")]
    /\ ses = [s \in Sessions |-> Off]
    /\ src = [s \in Sessions |-> Sources]
    /\ newest = 0 /\ faults = 0 /\ runs = 0 /\ torn = FALSE

At(s, place) == ses[s].pc = place
Becomes(s, watcher) == ses' = [ses EXCEPT ![s] = watcher]
Goto(s, place) == Becomes(s, [ses[s] EXCEPT !.pc = place])

(***************************************************************************)
(* The editor, and the ends of processes.                                   *)
(***************************************************************************)
Save(s, u, text) ==
    /\ newest < MaxSaves
    /\ text # src[s][u]
    /\ src' = [src EXCEPT ![s][u] = text]
    /\ newest' = newest + 1
    /\ UNCHANGED <<hotVars, hash, ses, runs, torn>>

HostExit(s) ==
    /\ host[s].alive
    /\ HostBecomes(s, NoHost(host[s].dir))
    /\ UNCHANGED <<so, faults, src, newest, hash, ses, runs, torn>>

(* The watcher dies and leaves its host behind, with the lock it inherited. *)
Kill(s) ==
    /\ ~At(s, "off")
    /\ Goto(s, "off")
    /\ torn' = (torn \/ At(s, "hash"))
    /\ UNCHANGED <<hotVars, src, newest, hash, runs>>

(***************************************************************************)
(* Session start.  flock(<hotdir>/.lock) is held while the session or the   *)
(* host that inherited the descriptor lives.                                *)
(***************************************************************************)
LockFreeIgnored == TRUE
LockFree ==
    \A t \in Sessions :
        /\ ~(ses[t].dir = "shared" /\ ~At(t, "off"))
        /\ ~(host[t].dir = "shared" /\ host[t].alive)

Start(s) ==
    LET d == IF LockFree THEN "shared" ELSE s
    IN  /\ At(s, "off") /\ ~host[s].alive
        /\ runs < MaxRuns /\ runs' = runs + 1
        /\ Becomes(s, [Off EXCEPT !.pc = "read", !.dir = d])
        /\ so' = IF d = "shared" THEN so ELSE [so EXCEPT ![d] = NoFiles]
        /\ hash' = IF d = "shared" THEN hash ELSE [hash EXCEPT ![d] = NoHashes]
        /\ UNCHANGED <<host, faults, src, newest, torn>>

(***************************************************************************)
(* compile_source: read and analyse every unit, then publish each library   *)
(* whose sidecar does not name what was read, then link the host.           *)
(***************************************************************************)
ReadUnit(s) ==
    /\ At(s, "read") /\ ses[s].unit <= NUnits
    /\ Becomes(s, [ses[s] EXCEPT !.ir = [@ EXCEPT ![ses[s].unit] = src[s][ses[s].unit]],
                                 !.unit = @ + 1])
    /\ UNCHANGED <<hotVars, src, newest, hash, runs, torn>>

(* A failed first build ends the session; a failed rebuild is retried,      *)
(* since watch_mtime stays.                                                 *)
AfterFailureAdvanced(s) ==
    [ses[s] EXCEPT !.pc = IF ses[s].first THEN "off" ELSE "poll", !.watch = ses[s].m]
AfterFailure(s) == [ses[s] EXCEPT !.pc = IF ses[s].first THEN "off" ELSE "poll"]

Rejected(s) ==
    /\ At(s, "read") /\ ses[s].unit > NUnits
    /\ \E u \in Units : ses[s].ir[u] \in Broken
    /\ Becomes(s, AfterFailure(s))
    /\ UNCHANGED <<hotVars, src, newest, hash, runs, torn>>

Accepted(s) ==
    /\ At(s, "read") /\ ses[s].unit > NUnits
    /\ \A u \in Units : ses[s].ir[u] \notin Broken
    /\ Becomes(s, [ses[s] EXCEPT !.pc = "publish", !.unit = 1])
    /\ UNCHANGED <<hotVars, src, newest, hash, runs, torn>>

(* build_unit_so *)
Lib(s) == <<s, ses[s].ir[ses[s].unit]>>
Publishing(s) == At(s, "publish") /\ ses[s].unit <= NUnits

Hit(s) ==
    so[ses[s].dir][ses[s].unit].lib # NoLib /\ hash[ses[s].dir][ses[s].unit] = Lib(s)

Reuse(s) ==
    /\ Publishing(s) /\ Hit(s)
    /\ Becomes(s, [ses[s] EXCEPT !.unit = @ + 1])
    /\ UNCHANGED <<hotVars, src, newest, hash, runs, torn>>

Published(s) == [lib |-> Lib(s), mtime |-> so[ses[s].dir][ses[s].unit].mtime + 1]

Rename(s) ==
    /\ Publishing(s) /\ ~Hit(s)
    /\ so' = [so EXCEPT ![ses[s].dir][ses[s].unit] = Published(s)]
    /\ Goto(s, "hash")
    /\ UNCHANGED <<host, faults, src, newest, hash, runs, torn>>

NextUnit(s) == Becomes(s, [ses[s] EXCEPT !.pc = "publish", !.unit = @ + 1])

WriteHash(s) ==
    /\ At(s, "hash")
    /\ hash' = [hash EXCEPT ![ses[s].dir][ses[s].unit] = Lib(s)]
    /\ NextUnit(s)
    /\ UNCHANGED <<hotVars, src, newest, runs, torn>>

(* The sidecar could not be opened: the build goes on without it.           *)
HashNotWritten(s) ==
    /\ At(s, "hash")
    /\ Fault
    /\ torn' = TRUE
    /\ NextUnit(s)
    /\ UNCHANGED <<so, host, src, newest, hash, runs>>

(* A file could not be read or a tool failed: in the front end, on a unit,  *)
(* or on the link of the host.                                              *)
ToolFails(s) ==
    /\ At(s, "read") \/ (At(s, "publish") /\ ~(Publishing(s) /\ Hit(s)))
    /\ Fault
    /\ Becomes(s, AfterFailure(s))
    /\ UNCHANGED <<so, host, src, newest, hash, runs, torn>>

(* A rebuild that succeeds records the sample it was started for, not the   *)
(* mtime of the files as they are when it ends.                             *)
WatchAfterNow(s) == IF ses[s].first THEN ses[s].watch ELSE newest
WatchAfter(s) == IF ses[s].first THEN ses[s].watch ELSE ses[s].m

Linked(s) ==
    /\ At(s, "publish") /\ ses[s].unit > NUnits
    /\ Becomes(s, [ses[s] EXCEPT !.built = ses[s].ir,
                                 !.pc = IF ses[s].first THEN "fork" ELSE "poll",
                                 !.watch = WatchAfter(s),
                                 !.skipped = FALSE])
    /\ UNCHANGED <<hotVars, src, newest, hash, runs, torn>>

(***************************************************************************)
(* run_run: start the host, take the baseline, poll.                        *)
(***************************************************************************)
Fork(s) ==
    /\ At(s, "fork")
    /\ HostBecomes(s, Fresh(ses[s].dir))
    /\ Becomes(s, [ses[s] EXCEPT !.pc = "baseline", !.first = FALSE])
    /\ UNCHANGED <<so, faults, src, newest, hash, runs, torn>>

(* The run image could not be copied, or fork failed.                       *)
ForkFails(s) ==
    /\ At(s, "fork")
    /\ Fault
    /\ Goto(s, "off")
    /\ UNCHANGED <<so, host, src, newest, hash, runs, torn>>

Baseline(s) ==
    /\ At(s, "baseline")
    /\ Becomes(s, [ses[s] EXCEPT !.pc = "poll", !.watch = newest,
                                 !.skipped = (ses[s].built # src[s])])
    /\ UNCHANGED <<hotVars, src, newest, hash, runs, torn>>

Changed(s) == At(s, "poll") /\ host[s].alive /\ newest > ses[s].watch

Rebuild(s) ==
    /\ Changed(s)
    /\ Becomes(s, [ses[s] EXCEPT !.pc = "read", !.unit = 1, !.m = newest])
    /\ UNCHANGED <<hotVars, src, newest, hash, runs, torn>>

(* The entry file could not be read: watch_mtime advances all the same.     *)
EntryUnreadable(s) ==
    /\ Changed(s)
    /\ Fault
    /\ Becomes(s, [ses[s] EXCEPT !.watch = newest, !.skipped = (ses[s].built # src[s])])
    /\ UNCHANGED <<so, host, src, newest, hash, runs, torn>>

(* The host has ended: a private hot directory is removed, the shared one   *)
(* is kept.                                                                 *)
SessionEnd(s) ==
    /\ At(s, "poll") /\ ~host[s].alive
    /\ Goto(s, "off")
    /\ so' = IF ses[s].dir = "shared" THEN so ELSE [so EXCEPT ![s] = NoFiles]
    /\ hash' = IF ses[s].dir = "shared" THEN hash ELSE [hash EXCEPT ![s] = NoHashes]
    /\ UNCHANGED <<host, faults, src, newest, runs, torn>>

-----------------------------------------------------------------------------
Compile(s) ==
    ReadUnit(s) \/ Rejected(s) \/ Accepted(s) \/ Reuse(s) \/ Rename(s) \/ WriteHash(s) \/ Linked(s)

Session(s) == Compile(s) \/ Fork(s) \/ Baseline(s) \/ Rebuild(s) \/ SessionEnd(s)

Failure(s) ==
    HashNotWritten(s) \/ ToolFails(s) \/ ForkFails(s) \/ EntryUnreadable(s)

devOnly == <<src, newest, hash, ses, runs, torn>>

StatUnit(s, u) == HostStat(s, u) /\ UNCHANGED devOnly
LoadUnit(s) == HostLoad(s) /\ UNCHANGED devOnly
CopyFails(s) == HostCopyFails(s) /\ UNCHANGED devOnly

Next ==
    \E s \in Sessions :
        \/ Start(s) \/ Session(s) \/ Failure(s) \/ Kill(s) \/ HostExit(s)
        \/ LoadUnit(s) \/ CopyFails(s)
        \/ \E u \in Units : StatUnit(s, u)
        \/ \E u \in Units, text \in Texts : Save(s, u, text)

(* The kernel runs the session; the host's main loop calls every device     *)
(* again and again.  Saves, failures, kills and exits need not happen.      *)
Fairness ==
    \A s \in Sessions :
        /\ WF_devVars(Session(s))
        /\ WF_devVars(LoadUnit(s))
        /\ \A u \in Units : SF_devVars(StatUnit(s, u))

Spec == Init /\ [][Next]_devVars /\ Fairness
-----------------------------------------------------------------------------
(* A host never has a library that was built for another program: not from  *)
(* a session that runs at the same time, nor from one that used the shared  *)
(* directory before, unless a library was published without its hash.       *)
OwnLibrary ==
    \A s \in Sessions : \A u \in Units :
        ~torn /\ host[s].alive /\ host[s].image[u] # NoLib => host[s].image[u][1] = s

(* When the watcher sees nothing new, the last build is of what the files   *)
(* say: a save during a rebuild, or during a failed one, is not lost.  Left *)
(* out are the two places where watch_mtime is set without a build.         *)
NoSavePassedOver ==
    \A s \in Sessions :
        At(s, "poll") /\ newest <= ses[s].watch /\ ~ses[s].skipped => ses[s].built = src[s]

(* An edit of a running program's device shows up in it: once saves and     *)
(* failures have stopped, a host whose session lives, and whose sources     *)
(* compile and load, ends up with the libraries of those sources.  Left out *)
(* are the two ways the watcher skips a save and a library without sidecar. *)
Serving(s) ==
    /\ host[s].alive /\ ~At(s, "off") /\ ~torn /\ ~ses[s].skipped
    /\ \A u \in Units : src[s][u] \notin Broken \cup Unloadable

EditsShowUp ==
    \A s \in Sessions : \A u \in Units :
        <>[](Serving(s) => host[s].image[u] = <<s, src[s][u]>>)
=============================================================================
