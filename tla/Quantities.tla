------------------------------ MODULE Quantities ------------------------------
(***************************************************************************)
(* Sums over finite sets, counted as sets of units so that they can be     *)
(* reasoned about without recursion: Quantity(S, q) is the sum of q[s] for *)
(* the members s of S.                                                     *)
(***************************************************************************)
EXTENDS Integers, FiniteSets

Group(s, n) == {s} \X (1 .. n)
Units(S, q) == UNION {Group(s, q[s]) : s \in S}
Quantity(S, q) == Cardinality(Units(S, q))
===============================================================================
