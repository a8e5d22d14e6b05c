-------------------------------- MODULE Sums --------------------------------
(* Sums of the values of a function with a finite domain.                  *)
EXTENDS FiniteSetsExt

SumOf(d) == MapThenSumSet(LAMBDA x : d[x], DOMAIN d)

=============================================================================
