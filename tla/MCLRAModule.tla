----------------------------- MODULE MCLRAModule -----------------------------
(* Three variables x, y, z (1, 2, 3) and their differences x - y, y - z    *)
(* and x - z (4, 5, 6).                                                    *)
EXTENDS LRAModule

MCSlackRow == 4 :> (1 :> 1 @@ 2 :> -1 @@ 3 :> 0) @@ 5 :> (1 :> 0 @@ 2 :> 1 @@ 3 :> -1)
                @@ 6 :> (1 :> 1 @@ 2 :> 0 @@ 3 :> -1)

Bounds(v, rel, limit) == [var |-> v, rel |-> rel, limit |-> limit]

(* x <= y, y <= z and x > z, which only together are a conflict, once with *)
(* x >= y and x # y, an inequation next to both, and once with a bound of  *)
(* x; strict and weak bounds of x; a strict bound of x that two sets of    *)
(* constraints support.                                                    *)
Family(C) == {Bounds(c[1], c[2], c[3]) : c \in C}
MCFamilies ==
    {Family({<<4, "<=", 0>>, <<4, ">=", 0>>, <<4, "!=", 0>>, <<5, "<=", 0>>, <<6, ">", 0>>}),
     Family({<<4, "<=", 0>>, <<5, "<=", 0>>, <<6, ">", 0>>, <<1, ">=", 1>>}),
     Family({<<1, "<", 1>>, <<1, ">=", 1>>, <<1, "!=", 1>>, <<6, "=", 1>>, <<3, ">", 0>>}),
     Family({<<1, "<", 1>>, <<1, "<=", 1>>, <<1, "!=", 1>>, <<1, ">=", 1>>})}
MCConstraint == UNION MCFamilies
=============================================================================
