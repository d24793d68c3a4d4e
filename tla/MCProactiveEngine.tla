------------------------- MODULE MCProactiveEngine --------------------------
(* Small instances of the proactive engine for TLC.                        *)
EXTENDS ProactiveEngine

CONSTANTS e1, e2, y1, y2, s1, s2, v1, v2, v3

OneType  == [e \in Events |-> y1]

\* The dashboard's scan and a background scan share the queue.
QueuedOrigin  == [s \in Scans |-> IF s = s1 THEN "background" ELSE "dashboard"]
\* A scan of the proactive routes beside a background scan.
DirectOrigin  == [s \in Scans |-> IF s = s1 THEN "background" ELSE "direct"]

\* A meeting's notice (v2) becomes urgent as it comes near; v3 is not urgent yet.
AllLoud == [i \in Times |-> Versions]
V1Loud  == [i \in Times |-> {v1}]
Rising  == [i \in Times |-> IF i = 1 THEN {v1} ELSE {v1, v2}]

OneDay == [i \in Times |-> 0]
NewDay == [i \in Times |-> IF i = MaxTime THEN 1 ELSE 0]
=============================================================================
