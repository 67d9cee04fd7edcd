---------------------------- MODULE MCExecServer ----------------------------
EXTENDS ExecServer

CONSTANTS r1, r2, r3, ann, bob, east, west

(* ann is on both clusters, bob shares one with her. *)
Owners == [r \in {r1, r2, r3} |-> IF r = r3 THEN bob ELSE ann]
Places == [r \in {r1, r2, r3} |-> IF r = r2 THEN west ELSE east]

(* One session per user on east, an override of two on west. *)
UserCaps == [c \in {east, west} |-> IF c = east THEN 1 ELSE 2]
TotalCaps == [c \in {east, west} |-> 1]
=============================================================================
