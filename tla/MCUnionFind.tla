---------------------------- MODULE MCUnionFind ----------------------------
EXTENDS UnionFind

Eq(x, y) == [lhs |-> x, rhs |-> y, negated |-> FALSE]
Neq(x, y) == [lhs |-> x, rhs |-> y, negated |-> TRUE]

(* A square of equalities, so that conflicts have two explanations, and a  *)
(* negated equality across it.                                             *)
MCVar == 1 .. 4
MCLiteral == {Eq(1, 2), Eq(3, 4), Eq(2, 3), Eq(1, 4), Neq(1, 3)}
=============================================================================
