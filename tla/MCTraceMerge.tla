---------------------------- MODULE MCTraceMerge ----------------------------
(* Small instances of TraceMerge for TLC.  Traces that share one EDF file  *)
(* are of one process; here each is of a process of its own, in which the  *)
(* ids 1 and 2 stand for different names.                                  *)
EXTENDS TraceMerge

MCNameOf == [i \in Traces |-> [l \in Locals |->
                IF l = 9 THEN "WALL_CLOCK" ELSE IF (l + i) % 2 = 0 THEN "f" ELSE "g"]]

=============================================================================
