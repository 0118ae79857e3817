-------------------------------- MODULE Sums --------------------------------
(***************************************************************************)
(* The sums of amounts of the domain, over the elements of a finite set.   *)
(***************************************************************************)
EXTENDS Integers, FiniteSetsExt

SumOver(f, S) == MapThenSumSet(LAMBDA x : f[x], S)

Total(f) == SumOver(f, DOMAIN f)
=============================================================================
