---------------------------- MODULE Installments ----------------------------
(***************************************************************************)
(* The arithmetic of a payment schedule that the pages share               *)
(* (lib/installments.ts): lines are amounts in cents; when each is due is  *)
(* left out.                                                               *)
(***************************************************************************)
EXTENDS Integers, Sequences, FiniteSetsExt

(* Mutant: what rounding leaves is lost.                                   *)
SplitEvenly_Loses(cents, n) == [i \in 1 .. n |-> cents \div n]

(* n parts, the last of which takes what rounding leaves.                  *)
SplitEvenly(cents, n) ==
  [i \in 1 .. n |-> IF i = n THEN cents - (cents \div n) * (n - 1) ELSE cents \div n]

Scheduled(lines) == MapThenSumSet(LAMBDA i: lines[i], DOMAIN lines)
=============================================================================
