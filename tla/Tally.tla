------------------------------- MODULE Tally -------------------------------
(***************************************************************************)
(* The sum of a quantity over a finite set of ids, as the code's reduce    *)
(* over a list of rows and the database's SUM compute it.                  *)
(***************************************************************************)
EXTENDS Integers, FiniteSets, FiniteSetsExt

SumOf(weight, ids) == MapThenSumSet(LAMBDA x : weight[x], ids)

=============================================================================
