----------------------------- MODULE MCThreadIds -----------------------------
(* Small instances of ThreadIds for TLC.  Threads are interchangeable, and *)
(* so are streams; the symmetry is used in runs without temporal formulas. *)
EXTENDS ThreadIds, TLC

Symmetry == Permutations(Pthreads) \cup Permutations(Streams)

=============================================================================
