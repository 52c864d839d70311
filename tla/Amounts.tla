------------------------------ MODULE Amounts ------------------------------
(***************************************************************************)
(* Sums of token amounts.  A whole number of quanta is the set of its      *)
(* quanta, so a sum over a finite set is the cardinality of the disjoint   *)
(* union: a definition without recursion, about which the laws of a sum    *)
(* can be proved from those of finite sets (AmountsProofs).                *)
(***************************************************************************)
EXTENDS Integers, FiniteSets

\* The quanta of the amounts f[x], for x in S, each tagged with its owner.
Units(S, f) == UNION {{x} \X (1 .. f[x]) : x \in S}

\* The sum of f[x] over S.
Total(S, f) == Cardinality(Units(S, f))

Least(a, b) == IF a <= b THEN a ELSE b

\* Slip: a balance is not clamped.
AsItIs(n) == n

\* max(ZERO, n): the clamp the ledger code applies to every balance.
AtLeastZero(n) == IF n >= 0 THEN n ELSE 0
=============================================================================
