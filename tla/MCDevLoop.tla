----------------------------- MODULE MCDevLoop -----------------------------
(* Two scenes of the development loop: one session whose two devices are    *)
(* edited while things fail, and two sessions of one project that come and  *)
(* go, one of them edited while both run.                                   *)
EXTENDS DevLoop

VARIABLE scene

EditOfS1 == [u \in Units |-> IF u = 1 THEN "b" ELSE FirstText]
BothRun == \A s \in Sessions : ses'[s].pc # "off"
InScene ==
    \/ scene = "edits" /\ runs' <= 1 /\ ses'["s2"] = ses["s2"] /\ src'["s2"] = src["s2"]
    \/ /\ scene = "sessions" /\ faults' = 0
       /\ newest' = 0 \/ (newest' = 1 /\ src'["s1"] = EditOfS1 /\ runs' = 2 /\ BothRun)

MCInit == Init /\ scene \in {"edits", "sessions"}
MCNext == Next /\ InScene /\ UNCHANGED scene
MCSpec == MCInit /\ [][MCNext]_<<devVars, scene>> /\ Fairness
=============================================================================
