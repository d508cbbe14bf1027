--------------------------------- MODULE Totals ---------------------------------
(***************************************************************************)
(* What the members of a set amount to, each with an amount of its own.    *)
(***************************************************************************)
EXTENDS Naturals, FiniteSetsExt

Total(amount, S) == MapThenSumSet(LAMBDA x : amount[x], S)
=============================================================================
