---------------------------- MODULE MCTimerStack ----------------------------
(* Small instances of TimerStack for TLC.  The functions of the            *)
(* application are interchangeable; threads are not (thread 0 is main).    *)
EXTENDS TimerStack, TLC

Symmetry == Permutations(Funcs)

=============================================================================
