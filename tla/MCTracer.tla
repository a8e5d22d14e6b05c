------------------------------ MODULE MCTracer ------------------------------
(* Small instances of Tracer for TLC: functions are interchangeable.       *)
EXTENDS Tracer, TLC

CONSTANT c1      \* the event of a second metric

NoCounters == <<>>

NoNode == -1

OneCounter == <<c1>>

Symmetry == Permutations(Funcs)

=============================================================================
