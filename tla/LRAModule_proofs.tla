-------------------------- MODULE LRAModule_proofs --------------------------
(***************************************************************************)
(* The bounds of the LRAModule and the origins of its conflicts, for any   *)
(* variables, linear terms and constraints.                                *)
(***************************************************************************)
EXTENDS LRAModule, FiniteSetTheorems, SequenceTheorems, TLAPS

-----------------------------------------------------------------------------
(* Bounds and constraints.                                                 *)
Neq == {c \in Constraint : c.rel = "!="}
Limits == -99 .. 99
BoundLimit == Limits \X (-1 .. 1)
BoundShape == [var : Var, type : {"UPPER", "LOWER", "EQUAL"}, limit : BoundLimit]

(* The range is kept closed: the SMT backend lists the members of a range  *)
(* of literals one by one.                                                 *)
LEMMA LimitsRange == \A i \in Limits : i \in Int /\ -99 <= i /\ i <= 99
  <1>1. \A m, n \in Int : \A i \in m .. n : i \in Int /\ m <= i /\ i <= n
    OBVIOUS
  <1>2. -99 \in Int /\ 99 \in Int
    OBVIOUS
  <1> QED BY ONLY <1>1, <1>2, Zenon DEF Limits

LEMMA ConstraintShape ==
  \A c \in Constraint : /\ c.var \in Var /\ c.rel \in Relation /\ c.limit \in Limits
                        /\ c = [var |-> c.var, rel |-> c.rel, limit |-> c.limit]
  <1>1. Constraint \subseteq [var : Var, rel : Relation, limit : Limits]
    BY TableauAssumption DEF Limits
  <1> QED BY ONLY <1>1

LEMMA BoundsOfShape ==
  ASSUME NEW c \in [var : Var, rel : Relation, limit : Limits]
  PROVE  /\ BoundsOf(c) \in Seq(BoundShape) /\ Len(BoundsOf(c)) = IF c.rel = "!=" THEN 4 ELSE 1
         /\ \A b \in ToSet(BoundsOf(c)) : b \in BoundShape /\ b.var = c.var /\ b.limit[1] = c.limit
  <1>1. /\ c.var \in Var /\ c.rel \in Relation /\ c.limit \in Limits
        /\ <<c.limit, -1>> \in BoundLimit /\ <<c.limit, 0>> \in BoundLimit /\ <<c.limit, 1>> \in BoundLimit
    BY DEF BoundLimit
  <1>2. /\ \A l \in BoundLimit : /\ Upper(c.var, l) \in BoundShape /\ Lower(c.var, l) \in BoundShape
                                 /\ Equal(c.var, l) \in BoundShape
        /\ \A l : /\ Upper(c.var, l).var = c.var /\ Upper(c.var, l).limit = l
                  /\ Lower(c.var, l).var = c.var /\ Lower(c.var, l).limit = l
                  /\ Equal(c.var, l).var = c.var /\ Equal(c.var, l).limit = l
    BY <1>1 DEF Upper, Lower, Equal, BoundShape
  <1>3. CASE c.rel # "!="
    <2>1. \E b \in BoundShape : BoundsOf(c) = <<b>> /\ b.var = c.var /\ b.limit[1] = c.limit
      BY <1>1, <1>2, <1>3 DEF BoundsOf, Relation
    <2> QED BY <1>3, <2>1 DEF ToSet
  <1>4. CASE c.rel = "!="
    <2>1. BoundsOf(c) = <<Upper(c.var, <<c.limit, -1>>), Upper(c.var, <<c.limit, 0>>),
                          Lower(c.var, <<c.limit, 0>>), Lower(c.var, <<c.limit, 1>>)>>
      BY <1>4 DEF BoundsOf
    <2>2. \A i \in 1 .. 4 : /\ BoundsOf(c)[i] \in BoundShape /\ BoundsOf(c)[i].var = c.var
                            /\ BoundsOf(c)[i].limit[1] = c.limit
      BY <1>1, <1>2, <2>1
    <2>3. DOMAIN BoundsOf(c) = 1 .. 4 /\ Len(BoundsOf(c)) = 4 /\ BoundsOf(c) \in Seq(BoundShape)
      BY <1>1, <1>2, <2>1
    <2> QED BY <1>4, <2>2, <2>3 DEF ToSet
  <1> QED BY <1>3, <1>4

LEMMA BoundTyped == Bound \subseteq BoundShape
  <1> SUFFICES ASSUME NEW c \in Constraint, NEW b \in ToSet(BoundsOf(c)) \cup ToSet(BoundsOf(Complement(c)))
               PROVE b \in BoundShape
    BY DEF Bound
  <1>1. c \in [var : Var, rel : Relation, limit : Limits]
    BY ConstraintShape
  <1>2. Complement(c) \in [var : Var, rel : Relation, limit : Limits]
    BY <1>1 DEF Complement, Relation
  <1> QED BY <1>1, <1>2, BoundsOfShape

LEMMA BoundsOfConstraint ==
  ASSUME NEW c \in Constraint
  PROVE  /\ BoundsOf(c) \in Seq(Bound) /\ Len(BoundsOf(c)) = IF c.rel = "!=" THEN 4 ELSE 1
         /\ \A b \in ToSet(BoundsOf(c)) : b \in Bound /\ b.var = c.var /\ b.limit[1] = c.limit
         /\ \A i \in 1 .. Len(BoundsOf(c)) : BoundsOf(c)[i] \in ToSet(BoundsOf(c))
  <1>1. /\ BoundsOf(c) \in Seq(BoundShape) /\ Len(BoundsOf(c)) = IF c.rel = "!=" THEN 4 ELSE 1
        /\ \A b \in ToSet(BoundsOf(c)) : b.var = c.var /\ b.limit[1] = c.limit
    BY BoundsOfShape, ConstraintShape
  <1>2. ToSet(BoundsOf(c)) \subseteq Bound
    BY DEF Bound
  <1>3. \A i \in 1 .. Len(BoundsOf(c)) : BoundsOf(c)[i] \in ToSet(BoundsOf(c))
    BY <1>1, LenProperties DEF ToSet
  <1>4. BoundsOf(c) \in Seq(Bound)
    <2>1. \A i \in 1 .. Len(BoundsOf(c)) : BoundsOf(c)[i] \in Bound
      BY <1>2, <1>3
    <2>2. BoundsOf(c) = [i \in 1 .. Len(BoundsOf(c)) |-> BoundsOf(c)[i]] /\ Len(BoundsOf(c)) \in Nat
      BY <1>1, LenProperties
    <2> QED BY <2>1, <2>2, IsASeq
  <1> QED BY <1>1, <1>2, <1>3, <1>4

LEMMA OwnBound ==
  ASSUME NEW c \in Constraint, c \notin Neq
  PROVE  BoundsOf(c)[1] \in Bound /\ BoundsOf(c)[1] \in ToSet(BoundsOf(c)) /\ Len(BoundsOf(c)) = 1
  <1>1. c.rel # "!="
    BY DEF Neq
  <1>2. Len(BoundsOf(c)) = 1
    BY <1>1, BoundsOfConstraint
  <1>3. 1 \in 1 .. Len(BoundsOf(c))
    BY <1>2
  <1>4. BoundsOf(c)[1] \in ToSet(BoundsOf(c))
    BY <1>3, BoundsOfConstraint
  <1> QED BY <1>2, <1>4, BoundsOfConstraint

(* An inequation has four bounds, and no two inequations share one.        *)
LEMMA NeqBounds ==
  ASSUME NEW n \in Neq
  PROVE  /\ BoundsOf(n) = <<Upper(n.var, <<n.limit, -1>>), Upper(n.var, <<n.limit, 0>>),
                            Lower(n.var, <<n.limit, 0>>), Lower(n.var, <<n.limit, 1>>)>>
         /\ ToSet(BoundsOf(n)) = {BoundsOf(n)[i] : i \in 1 .. 4}
         /\ \A m \in Neq : ToSet(BoundsOf(n)) \cap ToSet(BoundsOf(m)) # {} => m = n
  <1>1. n \in Constraint /\ n.rel = "!="
    BY DEF Neq
  <1>2. BoundsOf(n) = <<Upper(n.var, <<n.limit, -1>>), Upper(n.var, <<n.limit, 0>>),
                        Lower(n.var, <<n.limit, 0>>), Lower(n.var, <<n.limit, 1>>)>>
    BY <1>1 DEF BoundsOf
  <1>3. ToSet(BoundsOf(n)) = {BoundsOf(n)[i] : i \in 1 .. 4}
    BY <1>2 DEF ToSet
  <1>4. ASSUME NEW m \in Neq, NEW b \in ToSet(BoundsOf(n)) \cap ToSet(BoundsOf(m)) PROVE m = n
    <2>1. m \in Constraint /\ m.rel = "!="
      BY DEF Neq
    <2>2. m.var = n.var /\ m.limit = n.limit
      BY <1>1, <2>1, BoundsOfConstraint
    <2> QED BY <1>1, <2>1, <2>2, ConstraintShape
  <1> QED BY <1>2, <1>3, <1>4

LEMMA NeqOfBound ==
  ASSUME NEW n \in Neq, NEW b \in ToSet(BoundsOf(n))
  PROVE  NeqOf(b) = {n}
  <1>1. \A m \in Neq : b \in ToSet(BoundsOf(m)) => m = n
    BY NeqBounds
  <1> QED BY <1>1 DEF NeqOf, Neq

-----------------------------------------------------------------------------
(* The order of bounds.                                                    *)
Side(b) == IF b.type = "EQUAL" THEN 0 ELSE IF b.type = "UPPER" THEN 1 ELSE -1
Key(b) == 6 * b.limit[1] + 2 * b.limit[2] + Side(b) + 700
WideShape == [type : {"UPPER", "LOWER", "EQUAL"}, limit : (-100 .. 100) \X (-1 .. 1)]

Small(n) == n \in Int /\ 0 <= n /\ n <= 1500

LEMMA KeyRange ==
  ASSUME NEW i \in Int, -100 <= i, i <= 100, NEW j \in -1 .. 1, NEW k \in -1 .. 1
  PROVE  Small(6 * i + 2 * j + k + 700)
  <1>1. j \in Int /\ -1 <= j /\ j <= 1 /\ k \in Int /\ -1 <= k /\ k <= 1
    OBVIOUS
  <1> QED BY <1>1 DEF Small

LEMMA BelowByKey ==
  ASSUME NEW v \in Var
  PROVE  /\ \A b \in UpperBounds[v] : Small(Key(b)) /\ Key(b) \in Int /\ b.var = v /\ b.type # "LOWER"
         /\ \A b, c \in UpperBounds[v] : Below(b, c) <=> Key(b) < Key(c)
         /\ \A b \in LowerBounds[v] : Small(Key(b)) /\ Key(b) \in Int /\ b.var = v /\ b.type # "UPPER"
         /\ \A b, c \in LowerBounds[v] : Below(b, c) <=> Key(b) < Key(c)
  <1> DEFINE Fine(b) == /\ b.type \in {"UPPER", "LOWER", "EQUAL"} /\ b.limit = <<b.limit[1], b.limit[2]>>
                        /\ b.limit[1] \in Int /\ -100 <= b.limit[1] /\ b.limit[1] <= 100 /\ b.limit[2] \in -1 .. 1
  <1>1. \A b \in Bound : Fine(b)
    BY BoundTyped, LimitsRange DEF BoundShape, BoundLimit
  <1>2. Fine(NoUpper(v)) /\ NoUpper(v).type = "UPPER" /\ NoUpper(v).var = v
    BY DEF NoUpper, Upper, Infinity
  <1>3. Fine(NoLower(v)) /\ NoLower(v).type = "LOWER" /\ NoLower(v).var = v
    BY DEF NoLower, Lower, Infinity
  <1>4. \A b \in UpperBounds[v] : Fine(b) /\ b.var = v /\ b.type # "LOWER"
    BY <1>1, <1>2 DEF UpperBounds
  <1>5. \A b \in LowerBounds[v] : Fine(b) /\ b.var = v /\ b.type # "UPPER"
    BY <1>1, <1>3 DEF LowerBounds
  <1>6. ASSUME NEW b, Fine(b) PROVE Small(Key(b)) /\ Key(b) \in Int
    <2>1. Side(b) \in -1 .. 1
      BY <1>6 DEF Side
    <2>2. Small(Key(b))
      BY ONLY <1>6, <2>1, KeyRange DEF Key
    <2> QED BY ONLY <2>2 DEF Small
  <1>7. ASSUME NEW b, NEW c, Fine(b), Fine(c), \/ b.type # "LOWER" /\ c.type # "LOWER"
                                               \/ b.type # "UPPER" /\ c.type # "UPPER"
        PROVE Below(b, c) <=> Key(b) < Key(c)
    <2>1. b.limit = c.limit <=> b.limit[1] = c.limit[1] /\ b.limit[2] = c.limit[2]
      BY <1>7
    <2>2. <<b.type, c.type>> \in {<<"LOWER", "EQUAL">>, <<"EQUAL", "UPPER">>} <=> Side(b) < Side(c)
      BY <1>7 DEF Side
    <2>3. Side(b) \in Int /\ Side(c) \in Int /\ Side(b) - Side(c) \in -1 .. 1
      BY <1>7 DEF Side
    <2>4. /\ b.limit[1] \in Int /\ c.limit[1] \in Int
          /\ b.limit[2] \in -1 .. 1 /\ c.limit[2] \in -1 .. 1
      BY <1>7
    <2>5. PICK i, j \in Int, d, e \in -1 .. 1, s, t \in Int :
             /\ i = b.limit[1] /\ j = c.limit[1] /\ d = b.limit[2] /\ e = c.limit[2]
             /\ s = Side(b) /\ t = Side(c)
      BY <2>3, <2>4
    <2>6. Key(b) = 6 * i + 2 * d + s + 700 /\ Key(c) = 6 * j + 2 * e + t + 700
      BY <2>5 DEF Key
    <2>7. 6 * i + 2 * d + s + 700 < 6 * j + 2 * e + t + 700
            <=> i < j \/ (i = j /\ (d < e \/ (d = e /\ s < t)))
      <3>1. s - t \in -1 .. 1
        BY <2>3, <2>5
      <3> QED BY ONLY <3>1, i \in Int, j \in Int, d \in -1 .. 1, e \in -1 .. 1, s \in Int, t \in Int
    <2>8. Key(b) < Key(c)
            <=> \/ b.limit[1] < c.limit[1]
                \/ b.limit[1] = c.limit[1] /\ (\/ b.limit[2] < c.limit[2]
                                               \/ b.limit[2] = c.limit[2] /\ Side(b) < Side(c))
      BY ONLY <2>5, <2>6, <2>7
    <2> QED BY <2>1, <2>2, <2>8 DEF Below, Less
  <1> QED BY <1>4, <1>5, <1>6, <1>7

(* Of bounds of one side there is a lowest and a highest.                  *)
LEMMA LeastNatural ==
  ASSUME NEW X, X \subseteq Nat, X # {}
  PROVE  \E m \in X : \A n \in X : m <= n
  <1> DEFINE T == {1 .. n : n \in X}
  <1>1. T \subseteq FiniteSubsetsOf(Nat) /\ T # {}
    <2>1. \A n \in X : IsFiniteSet(1 .. n) /\ 1 .. n \subseteq Nat
      BY FS_Interval
    <2> QED BY <2>1 DEF FiniteSubsetsOf
  <1>2. IsWellFoundedOn(StrictSubsetOrdering(Nat), FiniteSubsetsOf(Nat))
    BY FS_StrictSubsetOrderingWellFounded
  <1>3. PICK A \in T : \A B \in T : ~(<<B, A>> \in StrictSubsetOrdering(Nat))
    <2> HIDE DEF T
    <2> QED BY <1>1, <1>2, WFMin
  <1>4. PICK m \in X : A = 1 .. m
    OBVIOUS
  <1>5. ASSUME NEW n \in X, n < m PROVE FALSE
    <2>1. 1 .. n \in T /\ 1 .. n \subseteq 1 .. m /\ m \notin 1 .. n /\ m \in 1 .. m
      BY <1>5
    <2>2. 1 .. n # 1 .. m
      BY <2>1
    <2>3. 1 .. n \subseteq Nat /\ 1 .. m \subseteq Nat
      OBVIOUS
    <2>4. <<1 .. n, 1 .. m>> \in StrictSubsetOrdering(Nat)
      BY <2>1, <2>2, <2>3 DEF StrictSubsetOrdering
    <2> QED BY <1>3, <1>4, <2>1, <2>4
  <1>6. \A n \in X : m <= n
    BY <1>5
  <1> QED BY <1>6

LEMMA NumbersFrom0 ==
  ASSUME NEW S, 0 \in S, \A n \in Nat : n \in S => n + 1 \in S
  PROVE  Nat \subseteq S
  <1> SUFFICES ASSUME Nat \ S # {} PROVE FALSE
    OBVIOUS
  <1>1. PICK m \in Nat \ S : \A n \in Nat \ S : m <= n
    BY LeastNatural
  <1>2. m # 0
    OBVIOUS
  <1>3. m - 1 \in Nat /\ m - 1 \notin Nat \ S
    BY <1>1, <1>2
  <1>4. m \in S
    BY <1>3
  <1> QED BY <1>4

LEMMA LowestHighest ==
  ASSUME NEW v \in Var, NEW B, B # {}
  PROVE  /\ B \subseteq UpperBounds[v] => \E u \in B : \A c \in B : ~Below(c, u)
         /\ B \subseteq LowerBounds[v] => \E u \in B : \A c \in B : ~Below(u, c)
         /\ B \subseteq UpperBounds[v] => \E u \in B : \A c \in B : ~Below(u, c)
         /\ B \subseteq LowerBounds[v] => \E u \in B : \A c \in B : ~Below(c, u)
  <1> SUFFICES ASSUME B \subseteq UpperBounds[v] \/ B \subseteq LowerBounds[v]
               PROVE  /\ \E u \in B : \A c \in B : ~Below(c, u)
                      /\ \E u \in B : \A c \in B : ~Below(u, c)
    OBVIOUS
  <1>1. /\ \A b \in B : Small(Key(b))
        /\ \A b, c \in B : Below(b, c) <=> Key(b) < Key(c)
    <2>1. CASE B \subseteq UpperBounds[v]
      BY ONLY <2>1, v \in Var, BelowByKey
    <2>2. CASE B \subseteq LowerBounds[v]
      BY ONLY <2>2, v \in Var, BelowByKey
    <2> QED BY <2>1, <2>2
  <1>2. \E u \in B : \A c \in B : ~Below(c, u)
    <2> DEFINE X == {Key(b) : b \in B}
    <2>1. X \subseteq Nat /\ X # {}
      <3>1. \A b \in B : Key(b) \in Nat
        BY ONLY <1>1 DEF Small
      <3> QED BY ONLY <3>1, B # {}
    <2>2. PICK m \in X : \A n \in X : m <= n
      <3> HIDE DEF X
      <3> QED BY <2>1, LeastNatural
    <2>3. PICK u \in B : m = Key(u)
      OBVIOUS
    <2>4. ASSUME NEW c \in B PROVE ~Below(c, u)
      <3>1. Key(u) <= Key(c)
        BY <2>2, <2>3
      <3>2. Small(Key(u)) /\ Small(Key(c))
        BY ONLY u \in B, c \in B, <1>1
      <3>3. Key(u) \in Int /\ Key(c) \in Int
        BY ONLY <3>2 DEF Small
      <3>4. \A i, j \in Int : i <= j => ~(j < i)
        OBVIOUS
      <3>5. ~(Key(c) < Key(u))
        BY ONLY <3>1, <3>3, <3>4
      <3> QED BY <1>1, <3>5
    <2> QED BY <2>4
  <1>3. \E u \in B : \A c \in B : ~Below(u, c)
    <2> DEFINE X == {1500 - Key(b) : b \in B}
    <2>1. X \subseteq Nat /\ X # {}
      <3>1. \A b \in B : 1500 - Key(b) \in Nat
        BY ONLY <1>1 DEF Small
      <3> QED BY ONLY <3>1, B # {}
    <2>2. PICK m \in X : \A n \in X : m <= n
      <3> HIDE DEF X
      <3> QED BY <2>1, LeastNatural
    <2>3. PICK u \in B : m = 1500 - Key(u)
      OBVIOUS
    <2>4. ASSUME NEW c \in B PROVE ~Below(u, c)
      <3>0. Small(Key(u)) /\ Small(Key(c))
        BY ONLY u \in B, c \in B, <1>1
      <3>1. 1500 - Key(c) \in X
        OBVIOUS
      <3>2. 1500 - Key(u) <= 1500 - Key(c)
        <4> HIDE DEF X
        <4>1. m <= 1500 - Key(c)
          BY ONLY <2>2, <3>1
        <4> QED BY ONLY <2>3, <4>1
      <3>3. Key(u) \in Int /\ Key(c) \in Int
        BY ONLY <3>0 DEF Small
      <3>4. \A i, j \in Int : 1500 - i <= 1500 - j => ~(i < j)
        OBVIOUS
      <3>5. ~(Key(u) < Key(c))
        BY ONLY <3>2, <3>3, <3>4
      <3> QED BY <1>1, <3>5
    <2> QED BY <2>4
  <1> QED BY <1>2, <1>3

-----------------------------------------------------------------------------
(* Origins without those that contain a constraint.                        *)
LEMMA WithoutFunction ==
  ASSUME NEW S, NEW os \in Seq(S), NEW c
  PROVE  \E f : /\ f = [n \in 0 .. Len(os) |-> IF n = 0 THEN <<>>
                          ELSE IF c \in os[n] THEN f[n - 1] ELSE Append(f[n - 1], os[n])]
                /\ Without(os, c) = f[Len(os)]
  <1> DEFINE Step(f, n) == IF n = 0 THEN <<>>
                           ELSE IF c \in os[n] THEN f[n - 1] ELSE Append(f[n - 1], os[n])
             X == {n \in Nat : \E f : f = [m \in 0 .. n |-> Step(f, m)]}
  <1>1. 0 \in X
    <2> DEFINE f == [m \in 0 .. 0 |-> <<>>]
    <2>1. f = [m \in 0 .. 0 |-> Step(f, m)]
      OBVIOUS
    <2> QED BY <2>1
  <1>2. ASSUME NEW n \in Nat, n \in X PROVE n + 1 \in X
    <2>1. PICK f : f = [m \in 0 .. n |-> Step(f, m)]
      BY <1>2
    <2> DEFINE last == IF c \in os[n + 1] THEN f[n] ELSE Append(f[n], os[n + 1])
               g == [m \in 0 .. n + 1 |-> IF m = n + 1 THEN last ELSE f[m]]
    <2>2. \A m \in 0 .. n : f[m] = Step(f, m)
      <3> HIDE DEF Step
      <3> QED BY <2>1
    <2>3. ASSUME NEW m \in 0 .. n + 1 PROVE g[m] = Step(g, m)
      <3>1. CASE m = n + 1
        <4>1. g[m] = last /\ g[m - 1] = f[n] /\ m # 0
          BY <1>2, <3>1
        <4> QED BY <3>1, <4>1
      <3>2. CASE m \in 0 .. n /\ m # 0
        <4>1. m - 1 \in 0 .. n /\ m # n + 1 /\ m - 1 # n + 1 /\ m - 1 \in 0 .. n + 1
          BY <1>2, <3>2
        <4>2. g[m] = f[m] /\ g[m - 1] = f[m - 1]
          BY <4>1
        <4> QED BY <2>2, <3>2, <4>2
      <3>3. CASE m = 0
        BY <1>2, <2>2, <3>3
      <3> QED BY <1>2, <3>1, <3>2, <3>3
    <2>4. g = [m \in 0 .. n + 1 |-> g[m]]
      OBVIOUS
    <2> HIDE DEF g, Step
    <2>5. g = [m \in 0 .. n + 1 |-> Step(g, m)]
      BY <2>3, <2>4
    <2> QED BY <2>5
  <1>3. Len(os) \in X
    <2>1. Nat \subseteq X
      <3> HIDE DEF X
      <3> QED BY <1>1, <1>2, NumbersFrom0
    <2>2. Len(os) \in Nat
      BY LenProperties
    <2> HIDE DEF X
    <2> QED BY <2>1, <2>2
  <1> DEFINE Good(f) == f = [n \in 0 .. Len(os) |-> Step(f, n)]
             h == CHOOSE f : Good(f)
  <1>4. \E f : Good(f)
    BY <1>3
  <1>5. Good(h)
    <2> HIDE DEF Good
    <2> QED BY <1>4
  <1>6. Without(os, c) = h[Len(os)]
    BY DEF Without
  <1> HIDE DEF h
  <1> QED BY <1>5, <1>6

LEMMA WithoutRight ==
  ASSUME NEW S, NEW os \in Seq(S), NEW c
  PROVE  /\ Without(os, c) \in Seq(S)
         /\ ToSet(Without(os, c)) = {o \in ToSet(os) : c \notin o}
  <1>1. PICK f : /\ f = [n \in 0 .. Len(os) |-> IF n = 0 THEN <<>>
                           ELSE IF c \in os[n] THEN f[n - 1] ELSE Append(f[n - 1], os[n])]
                 /\ Without(os, c) = f[Len(os)]
    BY WithoutFunction
  <1>2. Len(os) \in Nat /\ DOMAIN os = 1 .. Len(os) /\ \A i \in 1 .. Len(os) : os[i] \in S
    BY LenProperties, ElementOfSeq
  <1>3. \A n \in 0 .. Len(os) : f[n] = IF n = 0 THEN <<>>
                           ELSE IF c \in os[n] THEN f[n - 1] ELSE Append(f[n - 1], os[n])
    BY <1>1
  <1> DEFINE X == {n \in Nat : n \in 0 .. Len(os) =>
                     f[n] \in Seq(S) /\ ToSet(f[n]) = {os[i] : i \in {j \in 1 .. n : c \notin os[j]}}}
  <1>4. 0 \in X
    <2>1. <<>> \in Seq(S) /\ ToSet(<<>>) = {}
      BY DEF ToSet
    <2>2. f[0] = <<>> /\ 1 .. 0 = {}
      BY <1>2, <1>3
    <2> QED BY <2>1, <2>2
  <1>5. ASSUME NEW n \in Nat, n \in X PROVE n + 1 \in X
    <2>1. SUFFICES ASSUME n + 1 \in 0 .. Len(os)
          PROVE /\ f[n + 1] \in Seq(S)
                /\ ToSet(f[n + 1]) = {os[i] : i \in {j \in 1 .. n + 1 : c \notin os[j]}}
      OBVIOUS
    <2>2. n \in 0 .. Len(os) /\ n + 1 # 0 /\ (n + 1) - 1 = n /\ n + 1 \in 1 .. Len(os)
          /\ 1 .. n + 1 = (1 .. n) \cup {n + 1}
      BY <1>2, <2>1
    <2>3. f[n] \in Seq(S) /\ ToSet(f[n]) = {os[i] : i \in {j \in 1 .. n : c \notin os[j]}}
      BY <1>5, <2>2
    <2>4. f[n + 1] = IF c \in os[n + 1] THEN f[n] ELSE Append(f[n], os[n + 1])
      BY <1>3, <2>1, <2>2
    <2>5. os[n + 1] \in S
      BY <1>2, <2>2
    <2>6. Append(f[n], os[n + 1]) \in Seq(S) /\ ToSet(Append(f[n], os[n + 1])) = ToSet(f[n]) \cup {os[n + 1]}
      <3>1. Append(f[n], os[n + 1]) \in Seq(S) /\ Len(Append(f[n], os[n + 1])) = Len(f[n]) + 1
        BY <2>3, <2>5, AppendProperties
      <3>2. \A i \in 1 .. Len(f[n]) : Append(f[n], os[n + 1])[i] = f[n][i]
        BY <2>3, <2>5, AppendProperties
      <3>3. Append(f[n], os[n + 1])[Len(f[n]) + 1] = os[n + 1]
        BY <2>3, <2>5, AppendProperties
      <3>4. Len(f[n]) \in Nat /\ DOMAIN f[n] = 1 .. Len(f[n])
            /\ DOMAIN Append(f[n], os[n + 1]) = 1 .. Len(f[n]) + 1
        BY <2>3, <3>1, LenProperties
      <3> DEFINE g == Append(f[n], os[n + 1])
                 k == Len(f[n])
      <3>5. k \in Nat /\ DOMAIN f[n] = 1 .. k /\ DOMAIN g = 1 .. k + 1 /\ g[k + 1] = os[n + 1]
            /\ \A i \in 1 .. k : g[i] = f[n][i]
        BY ONLY <3>2, <3>3, <3>4
      <3>6. ToSet(g) = ToSet(f[n]) \cup {os[n + 1]}
        <4> HIDE DEF g, k
        <4>1. 1 .. k + 1 = (1 .. k) \cup {k + 1}
          BY ONLY <3>5
        <4> QED BY ONLY <3>5, <4>1 DEF ToSet
      <3> QED BY ONLY <3>1, <3>6
    <2>7. CASE c \in os[n + 1]
      BY <2>2, <2>3, <2>4, <2>7
    <2>8. CASE c \notin os[n + 1]
      BY <2>2, <2>3, <2>4, <2>6, <2>8
    <2> QED BY <2>7, <2>8
  <1>6. Nat \subseteq X
    <2> HIDE DEF X
    <2> QED BY <1>4, <1>5, NumbersFrom0
  <1>7. f[Len(os)] \in Seq(S) /\ ToSet(f[Len(os)]) = {os[i] : i \in {j \in 1 .. Len(os) : c \notin os[j]}}
    <2>1. Len(os) \in X
      <3> HIDE DEF X
      <3> QED BY <1>2, <1>6
    <2>2. Len(os) \in 0 .. Len(os)
      BY <1>2
    <2> QED BY <2>1, <2>2
  <1>8. {os[i] : i \in {j \in 1 .. Len(os) : c \notin os[j]}} = {o \in ToSet(os) : c \notin o}
    BY <1>2 DEF ToSet
  <1> QED BY <1>1, <1>7, <1>8

-----------------------------------------------------------------------------
(* The tableau: its bounds and their origins, which pivoting leaves alone. *)
Members == {"row", "aside", "value", "sup", "inf", "origins", "conflicting", "steps"}
TableauTyped(t) ==
    /\ DOMAIN t = Members
    /\ t.origins \in [Bound -> Seq(SUBSET Constraint)]
    /\ DOMAIN t.sup = Var /\ DOMAIN t.inf = Var
    /\ Basic(t) \subseteq Var

SupRight(t, v) ==
    /\ t.sup[v] \in UpperBounds[v] /\ IsActive(t, t.sup[v])
    /\ \A b \in UpperBounds[v] : IsActive(t, b) => ~Below(b, t.sup[v])
InfRight(t, v) ==
    /\ t.inf[v] \in LowerBounds[v] /\ IsActive(t, t.inf[v])
    /\ \A b \in LowerBounds[v] : IsActive(t, b) => ~Below(t.inf[v], b)
Strongest(t) == \A v \in Var : SupRight(t, v) /\ InfRight(t, v)

SameBounds(t, u) == TableauTyped(u) /\ u.origins = t.origins /\ u.sup = t.sup /\ u.inf = t.inf

LEMMA SameStrongest ==
  ASSUME NEW t, NEW u, SameBounds(t, u)
  PROVE  /\ \A b : IsActive(u, b) <=> IsActive(t, b)
         /\ Strongest(t) => Strongest(u)
  BY DEF SameBounds, IsActive, Strongest, SupRight, InfRight

LEMMA BoundsKept ==
  ASSUME NEW t, TableauTyped(t), NEW v, NEW x
  PROVE  /\ SameBounds(t, MoveNonbasic(t, v, x)) /\ SameBounds(t, ActivateBasicVar(t, v))
         /\ SameBounds(t, DeactivateBasicVar(t, v)) /\ SameBounds(t, Chosen(t, v))
         /\ x \in Var => SameBounds(t, Pivot(t, v, x))
         /\ \A n, c : SameBounds(t, [t EXCEPT !.steps = n, !.conflicting = c])
         /\ \A n : SameBounds(t, [t EXCEPT !.steps = n])
  <1> DEFINE Frame(u) == /\ DOMAIN u = DOMAIN t /\ u.origins = t.origins /\ u.sup = t.sup /\ u.inf = t.inf
                         /\ DOMAIN u.row \subseteq Var
  <1>1. \A u : Frame(u) => SameBounds(t, u)
    BY DEF SameBounds, TableauTyped, Basic
  <1>2. /\ "sup" \in DOMAIN t /\ "inf" \in DOMAIN t /\ "origins" \in DOMAIN t /\ "row" \in DOMAIN t
        /\ DOMAIN t.row \subseteq Var
    BY DEF TableauTyped, Members, Basic
  <1>3. \A a : Frame([t EXCEPT !.value = a])
    BY <1>2
  <1>4. \A a, b, c : DOMAIN a \subseteq Var => Frame([t EXCEPT !.row = a, !.aside = b, !.value = c])
    BY <1>2
  <1>5. \A a, b : Frame([t EXCEPT !.aside = a, !.conflicting = b])
    BY <1>2
  <1>6. \A a, b, c, d : DOMAIN a \subseteq Var =>
          Frame([t EXCEPT !.row = a, !.value = b, !.steps = c, !.conflicting = d])
    BY <1>2
  <1>7. \A a, b : Frame([t EXCEPT !.steps = a, !.conflicting = b])
    BY <1>2
  <1>8. \A a : Frame([t EXCEPT !.conflicting = a])
    BY <1>2
  <1>9. SameBounds(t, MoveNonbasic(t, v, x))
    BY <1>1, <1>3 DEF MoveNonbasic
  <1>10. SameBounds(t, DeactivateBasicVar(t, v))
    BY <1>1, <1>5 DEF DeactivateBasicVar
  <1>11. SameBounds(t, Chosen(t, v))
    BY <1>1, <1>2, <1>8 DEF Chosen, Listed
  <1>12. SameBounds(t, ActivateBasicVar(t, v))
    <2>1. \E a, b, c : ActivateBasicVar(t, v) = [t EXCEPT !.row = [@ EXCEPT ![v] = a], !.aside = b, !.value = c]
      BY DEF ActivateBasicVar
    <2>2. PICK a, b, c : ActivateBasicVar(t, v) = [t EXCEPT !.row = [t.row EXCEPT ![v] = a], !.aside = b, !.value = c]
      BY <2>1
    <2>3. DOMAIN [t.row EXCEPT ![v] = a] \subseteq Var
      BY <1>2
    <2>4. Frame(ActivateBasicVar(t, v))
      BY <1>4, <2>2, <2>3
    <2> QED BY <1>1, <2>4
  <1>13. ASSUME x \in Var PROVE SameBounds(t, Pivot(t, v, x))
    <2> DEFINE p == t.row[v][x]
               theta == Times(p, Minus(Target(t, v), t.value[v]))
               new == [w \in Var |-> IF w = v THEN p ELSE IF w = x THEN 0 ELSE -p * t.row[v][w]]
               changed == ColumnRows(t, x) \ {v}
               value == [w \in Var |->
                           IF w = v THEN Target(t, v)
                           ELSE IF w = x THEN Plus(t.value[x], theta)
                           ELSE IF w \in changed THEN Plus(t.value[w], Times(t.row[w][x], theta))
                           ELSE t.value[w]]
               row == [w \in (Basic(t) \ {v}) \cup {x} |->
                           IF w = x THEN new
                           ELSE IF w \in changed
                             THEN [y \in Var |-> (IF y = x THEN 0 ELSE t.row[w][y]) + t.row[w][x] * new[y]]
                           ELSE t.row[w]]
               listed == {w \in changed : LessUpper(value[w], t.sup[w]) \/ GreaterLower(value[w], t.inf[w])}
               done == [t EXCEPT !.row = row, !.value = value, !.steps = NextStep(@),
                                 !.conflicting = @ (+) SetToBag(listed)]
    <2>1. Pivot(t, v, x) = done \/ Pivot(t, v, x) = DeactivateBasicVar(done, x)
      BY DEF Pivot
    <2>2. DOMAIN row \subseteq Var
      BY <1>2, <1>13 DEF Basic
    <2>3. Frame(done)
      <3> HIDE DEF row, value, listed
      <3> QED BY <1>2, <1>6, <2>2
    <2> HIDE DEF done
    <2>4. Frame(DeactivateBasicVar(done, x))
      BY <1>2, <2>3 DEF DeactivateBasicVar
    <2> QED BY <1>1, <2>1, <2>3, <2>4
  <1>14. \A n, c : SameBounds(t, [t EXCEPT !.steps = n, !.conflicting = c])
    BY <1>1, <1>7
  <1>15. \A n : SameBounds(t, [t EXCEPT !.steps = n])
    BY <1>1, <1>2
  <1> QED BY <1>9, <1>10, <1>11, <1>12, <1>13, <1>14, <1>15

(* A bound that a constraint stands for has a finite limit.                *)
LEMMA Finite ==
  /\ \A b \in Bound : b.var \in Var /\ ~IsInfinite(b) /\ b \in BoundShape
  /\ \A v \in Var : /\ \A b \in UpperBounds[v] : IsInfinite(b) \/ b \in Bound
                    /\ \A b \in LowerBounds[v] : IsInfinite(b) \/ b \in Bound
  /\ \A v \in Var : IsInfinite(NoUpper(v)) /\ IsInfinite(NoLower(v))
  <1>1. \A b \in Bound : b.var \in Var /\ ~IsInfinite(b) /\ b \in BoundShape
    <2> SUFFICES ASSUME NEW b \in Bound, b = NoUpper(b.var) \/ b = NoLower(b.var) PROVE FALSE
      BY BoundTyped DEF BoundShape, IsInfinite
    <2>1. b.limit[1] \in Int /\ -99 <= b.limit[1] /\ b.limit[1] <= 99
      BY BoundTyped, LimitsRange DEF BoundShape, BoundLimit
    <2>2. b.limit = <<100, 0>> \/ b.limit = <<-100, 0>>
      BY DEF NoUpper, NoLower, Upper, Lower, Infinity
    <2> QED BY <2>1, <2>2
  <1>2. \A v \in Var : IsInfinite(NoUpper(v)) /\ IsInfinite(NoLower(v))
    BY DEF IsInfinite, NoUpper, NoLower, Upper, Lower
  <1> QED BY <1>1, <1>2 DEF UpperBounds, LowerBounds

LEMMA ActiveOrigins ==
  ASSUME NEW t, TableauTyped(t), NEW b \in Bound
  PROVE  /\ IsActive(t, b) <=> t.origins[b] # <<>>
         /\ IsActive(t, b) => Origins(t, b) \in ToSet(t.origins[b])
         /\ t.origins[b] \in Seq(SUBSET Constraint)
         /\ ToSet(t.origins[b]) # {} => IsActive(t, b)
  <1>1. t.origins[b] \in Seq(SUBSET Constraint)
    BY DEF TableauTyped
  <1>2. IsActive(t, b) <=> t.origins[b] # <<>>
    BY Finite DEF IsActive
  <1>3. t.origins[b] # <<>> => 1 \in DOMAIN t.origins[b]
    BY <1>1, EmptySeq, LenProperties
  <1>4. ToSet(t.origins[b]) # {} => t.origins[b] # <<>>
    BY DEF ToSet
  <1> QED BY <1>1, <1>2, <1>3, <1>4 DEF Origins, ToSet

LEMMA AppendToSet ==
  ASSUME NEW S, NEW s \in Seq(S), NEW e \in S
  PROVE  Append(s, e) \in Seq(S) /\ Append(s, e) # <<>> /\ ToSet(Append(s, e)) = ToSet(s) \cup {e}
  <1>1. Append(s, e) \in Seq(S) /\ Len(Append(s, e)) = Len(s) + 1
    BY AppendProperties
  <1>2. \A i \in 1 .. Len(s) : Append(s, e)[i] = s[i]
    BY AppendProperties
  <1>3. Append(s, e)[Len(s) + 1] = e
    BY AppendProperties
  <1>4. Len(s) \in Nat /\ DOMAIN s = 1 .. Len(s) /\ DOMAIN Append(s, e) = 1 .. Len(s) + 1
    BY <1>1, LenProperties
  <1> QED BY <1>1, <1>2, <1>3, <1>4, EmptySeq DEF ToSet

(* activateBound notes the origin and keeps the bounds of the variable the *)
(* strongest active ones.                                                  *)
LEMMA WithOriginRight ==
  ASSUME NEW t, TableauTyped(t), NEW b \in Bound, NEW origin \in SUBSET Constraint
  PROVE  LET w == WithOrigin(t, b, origin)
         IN  /\ TableauTyped(w) /\ w.sup = t.sup /\ w.inf = t.inf
             /\ w.origins = [t.origins EXCEPT ![b] = Append(@, origin)]
  <1> DEFINE noted == [t EXCEPT !.origins[b] = Append(@, origin)]
  <1>1. /\ DOMAIN noted = Members /\ noted.sup = t.sup /\ noted.inf = t.inf /\ noted.row = t.row
        /\ noted.origins = [t.origins EXCEPT ![b] = Append(@, origin)]
    BY DEF TableauTyped, Members
  <1>2. TableauTyped(noted)
    <2>1. Append(t.origins[b], origin) \in Seq(SUBSET Constraint)
      BY AppendToSet DEF TableauTyped
    <2> QED BY <1>1, <2>1 DEF TableauTyped, Basic
  <1> HIDE DEF noted
  <1>3. SameBounds(noted, ActivateBasicVar(noted, b.var))
    BY <1>2, BoundsKept
  <1>4. WithOrigin(t, b, origin) = noted \/ WithOrigin(t, b, origin) = ActivateBasicVar(noted, b.var)
    BY DEF WithOrigin, noted
  <1> QED BY <1>1, <1>2, <1>3, <1>4 DEF SameBounds

LEMMA TightenRight ==
  ASSUME NEW t, TableauTyped(t), NEW b \in Bound
  PROVE  /\ TableauTyped(TightenSup(t, b)) /\ TableauTyped(TightenInf(t, b))
         /\ TightenSup(t, b).origins = t.origins /\ TightenInf(t, b).origins = t.origins
         /\ TightenSup(t, b).inf = t.inf /\ TightenInf(t, b).sup = t.sup
         /\ TightenSup(t, b).sup = IF b.type = "LOWER" \/ ~Below(b, t.sup[b.var]) THEN t.sup
                                   ELSE [t.sup EXCEPT ![b.var] = b]
         /\ TightenInf(t, b).inf = IF b.type = "UPPER" \/ ~Below(t.inf[b.var], b) THEN t.inf
                                   ELSE [t.inf EXCEPT ![b.var] = b]
  <1>1. /\ DOMAIN t = Members /\ DOMAIN t.sup = Var /\ DOMAIN t.inf = Var
        /\ t.origins \in [Bound -> Seq(SUBSET Constraint)] /\ Basic(t) \subseteq Var
    BY DEF TableauTyped
  <1> DEFINE sup == [t EXCEPT !.sup[b.var] = b]
             inf == [t EXCEPT !.inf[b.var] = b]
  <1>2. /\ TableauTyped(sup) /\ sup.sup = [t.sup EXCEPT ![b.var] = b] /\ sup.inf = t.inf
        /\ sup.origins = t.origins
    BY <1>1 DEF TableauTyped, Basic, Members
  <1>3. /\ TableauTyped(inf) /\ inf.inf = [t.inf EXCEPT ![b.var] = b] /\ inf.sup = t.sup
        /\ inf.origins = t.origins
    BY <1>1 DEF TableauTyped, Basic, Members
  <1> HIDE DEF sup, inf
  <1>4. SameBounds(sup, MoveNonbasic(sup, b.var, b.limit)) /\ SameBounds(inf, MoveNonbasic(inf, b.var, b.limit))
    BY <1>2, <1>3, BoundsKept
  <1>5. TightenSup(t, b) = IF b.type = "LOWER" \/ ~Below(b, t.sup[b.var]) THEN t
                           ELSE IF ~Less(b.limit, t.inf[b.var].limit) /\ b.var \in Columns(t) /\ TooHigh(sup, b.var)
                             THEN MoveNonbasic(sup, b.var, b.limit) ELSE sup
    BY DEF TightenSup, sup
  <1>6. TightenInf(t, b) = IF b.type = "UPPER" \/ ~Below(t.inf[b.var], b) THEN t
                           ELSE IF ~Less(t.sup[b.var].limit, b.limit) /\ b.var \in Columns(t) /\ TooLow(inf, b.var)
                             THEN MoveNonbasic(inf, b.var, b.limit) ELSE inf
    BY DEF TightenInf, inf
  <1> QED BY <1>2, <1>3, <1>4, <1>5, <1>6 DEF SameBounds

(* A nonbasic variable whose bounds do not conflict is within them.        *)
InsideAt(t, v) ==
    /\ t.value[v] \in Int \X Int
    /\ ~IsConflicting(t, v) => ~TooHigh(t, v) /\ ~TooLow(t, v)
Inside(t) == t.aside \subseteq Basic(t) /\ \A v \in Columns(t) : InsideAt(t, v)
OwnBounds(t) == \A v \in Var : t.sup[v] \in UpperBounds[v] /\ t.inf[v] \in LowerBounds[v]

LEMMA LimitTyped ==
  \A v \in Var : \A b \in UpperBounds[v] \cup LowerBounds[v] : b.limit \in Int \X Int
  <1>1. \A b \in Bound : b.limit \in Int \X Int
    BY BoundTyped, LimitsRange DEF BoundShape, BoundLimit
  <1>2. \A v : NoUpper(v).limit \in Int \X Int /\ NoLower(v).limit \in Int \X Int
    BY DEF NoUpper, NoLower, Upper, Lower, Infinity
  <1> QED BY <1>1, <1>2 DEF UpperBounds, LowerBounds

LEMMA LessOrder ==
  ASSUME NEW x \in Int \X Int, NEW y \in Int \X Int, NEW z \in Int \X Int
  PROVE  /\ ~Less(x, x) /\ (Less(x, y) => ~Less(y, x))
         /\ Less(x, y) /\ ~Less(z, y) => Less(x, z)
         /\ ~Less(y, x) /\ Less(y, z) => Less(x, z)
  BY DEF Less

LEMMA ConflictingLess ==
  ASSUME NEW t, OwnBounds(t), NEW v \in Var
  PROVE  IsConflicting(t, v) <=> Less(t.sup[v].limit, t.inf[v].limit)
  <1>1. t.sup[v].type # "LOWER" /\ t.inf[v].type # "UPPER"
    BY BelowByKey DEF OwnBounds
  <1> QED BY <1>1 DEF IsConflicting, Below

LEMMA SameInside ==
  ASSUME NEW t, Inside(t), NEW u, u.sup = t.sup, u.inf = t.inf, u.aside \subseteq Basic(u), Basic(u) = Basic(t),
         \A v \in Columns(t) : u.value[v] = t.value[v]
  PROVE  Inside(u)
  BY DEF Inside, InsideAt, Columns, IsConflicting, TooHigh, TooLow

(* A nonbasic variable moved to one of its bounds; the others stay.        *)
LEMMA MovedInside ==
  ASSUME NEW t, TableauTyped(t), OwnBounds(t), t.aside \subseteq Basic(t), NEW x \in Columns(t),
         \A v \in Columns(t) \ {x} : InsideAt(t, v),
         NEW limit, limit \in {t.sup[x].limit, t.inf[x].limit}
  PROVE  Inside(MoveNonbasic(t, x, limit))
  <1> DEFINE u == MoveNonbasic(t, x, limit)
             moved(v) == IF v = x THEN limit
                         ELSE IF v \in ColumnRows(t, x) THEN Plus(t.value[v], Times(t.row[v][x], Minus(limit, t.value[x])))
                         ELSE t.value[v]
  <1>1. u = [t EXCEPT !.value = [v \in Var |-> moved(v)]]
    BY DEF MoveNonbasic
  <1> HIDE DEF u
  <1>2. /\ u.sup = t.sup /\ u.inf = t.inf /\ u.aside = t.aside /\ u.row = t.row
        /\ u.value = [v \in Var |-> moved(v)]
    BY <1>1 DEF TableauTyped, Members
  <1>3. Columns(u) = Columns(t) /\ Basic(u) = Basic(t) /\ x \in Var
    BY <1>2 DEF Columns, Basic
  <1>4. \A v \in Columns(t) : v \in Var /\ v \notin ColumnRows(t, x)
    BY DEF Columns, ColumnRows, Rows
  <1>5. u.value[x] = limit /\ \A v \in Columns(t) \ {x} : u.value[v] = t.value[v]
    BY <1>2, <1>3, <1>4
  <1>6. \A v \in Columns(t) \ {x} : InsideAt(u, v)
    BY <1>2, <1>5 DEF InsideAt, IsConflicting, TooHigh, TooLow
  <1>7. InsideAt(u, x)
    <2>1. t.sup[x].limit \in Int \X Int /\ t.inf[x].limit \in Int \X Int
      BY <1>3, LimitTyped DEF OwnBounds
    <2>2. IsConflicting(u, x) <=> Less(t.sup[x].limit, t.inf[x].limit)
      BY <1>2, <1>3, ConflictingLess DEF OwnBounds
    <2>3. ~Less(t.sup[x].limit, t.sup[x].limit) /\ ~Less(t.inf[x].limit, t.inf[x].limit)
      BY <2>1, LessOrder
    <2> QED BY <1>2, <1>5, <2>1, <2>2, <2>3 DEF InsideAt, TooHigh, TooLow
  <1> QED BY <1>2, <1>3, <1>6, <1>7 DEF Inside, u

LEMMA WithOriginInside ==
  ASSUME NEW t, TableauTyped(t), Inside(t), NEW b \in Bound, NEW origin
  PROVE  Inside(WithOrigin(t, b, origin))
  <1> DEFINE noted == [t EXCEPT !.origins[b] = Append(@, origin)]
             s == b.var
  <1>1. /\ DOMAIN noted = Members /\ noted.sup = t.sup /\ noted.inf = t.inf /\ noted.row = t.row
        /\ noted.aside = t.aside /\ noted.value = t.value
    BY DEF TableauTyped, Members
  <1>2. WithOrigin(t, b, origin) = IF ~HasBound(t, s) /\ s \in t.aside THEN ActivateBasicVar(noted, s) ELSE noted
    BY DEF WithOrigin
  <1> HIDE DEF noted
  <1>3. Inside(noted)
    BY <1>1, SameInside DEF Inside, Basic
  <1>4. ASSUME s \in t.aside PROVE Inside(ActivateBasicVar(noted, s))
    <2> DEFINE u == ActivateBasicVar(noted, s)
    <2>1. \E a, c : u = [noted EXCEPT !.row[s] = a, !.aside = @ \ {s}, !.value[s] = c]
      BY DEF ActivateBasicVar
    <2>2. PICK a, c : u = [noted EXCEPT !.row[s] = a, !.aside = @ \ {s}, !.value[s] = c]
      BY <2>1
    <2> HIDE DEF u
    <2>3. /\ u.sup = noted.sup /\ u.inf = noted.inf /\ u.aside = noted.aside \ {s} /\ Basic(u) = Basic(noted)
          /\ u.value = [noted.value EXCEPT ![s] = c]
      BY <1>1, <2>2 DEF Members, Basic
    <2>4. s \notin Columns(noted)
      BY <1>1, <1>3, <1>4 DEF Inside, Columns
    <2>5. \A v \in Columns(noted) : u.value[v] = noted.value[v]
      BY <2>3, <2>4
    <2> QED BY <1>3, <2>3, <2>5, SameInside DEF Inside, u
  <1> QED BY <1>2, <1>3, <1>4

LEMMA TightenInside ==
  ASSUME NEW t, TableauTyped(t), OwnBounds(t), Inside(t), NEW b \in Bound
  PROVE  /\ Inside(TightenSup(t, b)) /\ Inside(TightenInf(t, b))
         /\ OwnBounds(TightenSup(t, b)) /\ OwnBounds(TightenInf(t, b))
  <1> DEFINE v == b.var
  <1>1. v \in Var /\ ~IsInfinite(b)
    BY Finite
  <1>2. /\ DOMAIN t = Members /\ DOMAIN t.sup = Var /\ DOMAIN t.inf = Var
        /\ t.origins \in [Bound -> Seq(SUBSET Constraint)] /\ Basic(t) \subseteq Var
    BY DEF TableauTyped
  <1>3. /\ t.sup[v] \in UpperBounds[v] /\ t.inf[v] \in LowerBounds[v]
        /\ t.sup[v].limit \in Int \X Int /\ t.inf[v].limit \in Int \X Int
    BY <1>1, LimitTyped DEF OwnBounds
  <1>4. ASSUME b.type # "LOWER", Below(b, t.sup[v])
        PROVE  Inside(TightenSup(t, b)) /\ OwnBounds(TightenSup(t, b))
    <2> DEFINE new == [t EXCEPT !.sup[v] = b]
               u == TightenSup(t, b)
    <2>1. /\ TableauTyped(new) /\ new.sup = [t.sup EXCEPT ![v] = b] /\ new.inf = t.inf /\ new.value = t.value
          /\ new.aside = t.aside /\ Basic(new) = Basic(t) /\ Columns(new) = Columns(t)
      BY <1>2 DEF TableauTyped, Basic, Columns, Members
    <2> HIDE DEF new
    <2>2. new.sup[v] = b /\ \A w \in Var \ {v} : new.sup[w] = t.sup[w]
      BY <1>1, <1>2, <2>1
    <2>3. b \in UpperBounds[v] /\ b.limit \in Int \X Int
      BY <1>1, <1>4, LimitTyped DEF UpperBounds
    <2>4. OwnBounds(new)
      BY <2>1, <2>2, <2>3 DEF OwnBounds
    <2>5. \A w \in Columns(t) \ {v} : w \in Var /\ InsideAt(new, w)
      BY <2>1, <2>2 DEF Inside, InsideAt, IsConflicting, TooHigh, TooLow, Columns
    <2>6. u = IF ~Less(b.limit, t.inf[v].limit) /\ v \in Columns(t) /\ TooHigh(new, v)
                THEN MoveNonbasic(new, v, b.limit) ELSE new
      BY <1>4 DEF TightenSup, new
    <2>7. CASE ~Less(b.limit, t.inf[v].limit) /\ v \in Columns(t) /\ TooHigh(new, v)
      <3>1. Inside(MoveNonbasic(new, v, b.limit))
        <4>1. new.aside \subseteq Basic(new) /\ v \in Columns(new) /\ \A w \in Columns(new) \ {v} : InsideAt(new, w)
          BY <2>1, <2>5, <2>7 DEF Inside
        <4>2. b.limit \in {new.sup[v].limit, new.inf[v].limit}
          BY ONLY <2>2
        <4>3. TableauTyped(new) /\ OwnBounds(new)
          BY ONLY <2>1, <2>4
        <4> QED BY ONLY <4>1, <4>2, <4>3, MovedInside
      <3>2. OwnBounds(MoveNonbasic(new, v, b.limit))
        <4>1. SameBounds(new, MoveNonbasic(new, v, b.limit))
          BY <2>1, BoundsKept
        <4> QED BY <2>4, <4>1 DEF SameBounds, OwnBounds
      <3> QED BY <2>6, <2>7, <3>1, <3>2
    <2>8. CASE ~(~Less(b.limit, t.inf[v].limit) /\ v \in Columns(t) /\ TooHigh(new, v))
      <3>1. ASSUME v \in Columns(t) PROVE InsideAt(new, v)
        <4>1. InsideAt(t, v)
          BY <3>1 DEF Inside
        <4>2. IsConflicting(new, v) <=> Less(b.limit, t.inf[v].limit)
          BY <1>1, <2>1, <2>2, <2>4, ConflictingLess
        <4>3. IsConflicting(t, v) <=> Less(t.sup[v].limit, t.inf[v].limit)
          BY <1>1, ConflictingLess
        <4>4. ~Less(t.sup[v].limit, b.limit)
          <5>1. Less(b.limit, t.sup[v].limit) \/ b.limit = t.sup[v].limit
            BY <1>4 DEF Below
          <5> QED BY <1>3, <2>3, <5>1, LessOrder
        <4>5. Less(t.sup[v].limit, t.inf[v].limit) => Less(b.limit, t.inf[v].limit)
          BY <1>3, <2>3, <4>4, LessOrder
        <4>6. TooLow(new, v) <=> TooLow(t, v)
          BY <2>1 DEF TooLow
        <4> QED BY <2>1, <2>8, <3>1, <4>1, <4>2, <4>3, <4>5, <4>6 DEF InsideAt
      <3>2. Inside(new)
        BY <2>1, <2>5, <3>1 DEF Inside
      <3> QED BY <2>4, <2>6, <2>8, <3>2
    <2> QED BY <2>7, <2>8
  <1>5. ASSUME b.type # "UPPER", Below(t.inf[v], b)
        PROVE  Inside(TightenInf(t, b)) /\ OwnBounds(TightenInf(t, b))
    <2> DEFINE new == [t EXCEPT !.inf[v] = b]
               u == TightenInf(t, b)
    <2>1. /\ TableauTyped(new) /\ new.inf = [t.inf EXCEPT ![v] = b] /\ new.sup = t.sup /\ new.value = t.value
          /\ new.aside = t.aside /\ Basic(new) = Basic(t) /\ Columns(new) = Columns(t)
      BY <1>2 DEF TableauTyped, Basic, Columns, Members
    <2> HIDE DEF new
    <2>2. new.inf[v] = b /\ \A w \in Var \ {v} : new.inf[w] = t.inf[w]
      BY <1>1, <1>2, <2>1
    <2>3. b \in LowerBounds[v] /\ b.limit \in Int \X Int
      BY <1>1, <1>5, LimitTyped DEF LowerBounds
    <2>4. OwnBounds(new)
      BY <2>1, <2>2, <2>3 DEF OwnBounds
    <2>5. \A w \in Columns(t) \ {v} : w \in Var /\ InsideAt(new, w)
      BY <2>1, <2>2 DEF Inside, InsideAt, IsConflicting, TooHigh, TooLow, Columns
    <2>6. u = IF ~Less(t.sup[v].limit, b.limit) /\ v \in Columns(t) /\ TooLow(new, v)
                THEN MoveNonbasic(new, v, b.limit) ELSE new
      BY <1>5 DEF TightenInf, new
    <2>7. CASE ~Less(t.sup[v].limit, b.limit) /\ v \in Columns(t) /\ TooLow(new, v)
      <3>1. Inside(MoveNonbasic(new, v, b.limit))
        <4>1. new.aside \subseteq Basic(new) /\ v \in Columns(new) /\ \A w \in Columns(new) \ {v} : InsideAt(new, w)
          BY <2>1, <2>5, <2>7 DEF Inside
        <4>2. b.limit \in {new.sup[v].limit, new.inf[v].limit}
          BY ONLY <2>2
        <4>3. TableauTyped(new) /\ OwnBounds(new)
          BY ONLY <2>1, <2>4
        <4> QED BY ONLY <4>1, <4>2, <4>3, MovedInside
      <3>2. OwnBounds(MoveNonbasic(new, v, b.limit))
        <4>1. SameBounds(new, MoveNonbasic(new, v, b.limit))
          BY <2>1, BoundsKept
        <4> QED BY <2>4, <4>1 DEF SameBounds, OwnBounds
      <3> QED BY <2>6, <2>7, <3>1, <3>2
    <2>8. CASE ~(~Less(t.sup[v].limit, b.limit) /\ v \in Columns(t) /\ TooLow(new, v))
      <3>1. ASSUME v \in Columns(t) PROVE InsideAt(new, v)
        <4>1. InsideAt(t, v)
          BY <3>1 DEF Inside
        <4>2. IsConflicting(new, v) <=> Less(t.sup[v].limit, b.limit)
          <5>1. IsConflicting(new, v) <=> Less(new.sup[v].limit, new.inf[v].limit)
            BY ONLY <1>1, <2>4, ConflictingLess
          <5> QED BY ONLY <2>1, <2>2, <5>1
        <4>3. IsConflicting(t, v) <=> Less(t.sup[v].limit, t.inf[v].limit)
          BY <1>1, ConflictingLess
        <4>4. ~Less(b.limit, t.inf[v].limit)
          <5>1. Less(t.inf[v].limit, b.limit) \/ b.limit = t.inf[v].limit
            BY <1>5 DEF Below
          <5> QED BY <1>3, <2>3, <5>1, LessOrder
        <4>5. Less(t.sup[v].limit, t.inf[v].limit) => Less(t.sup[v].limit, b.limit)
          BY <1>3, <2>3, <4>4, LessOrder
        <4>6. TooHigh(new, v) <=> TooHigh(t, v)
          BY <2>1 DEF TooHigh
        <4> QED BY <2>1, <2>8, <3>1, <4>1, <4>2, <4>3, <4>5, <4>6 DEF InsideAt
      <3>2. Inside(new)
        BY <2>1, <2>5, <3>1 DEF Inside
      <3> QED BY <2>4, <2>6, <2>8, <3>2
    <2> QED BY <2>7, <2>8
  <1>6. ASSUME b.type = "LOWER" \/ ~Below(b, t.sup[v]) PROVE TightenSup(t, b) = t
    BY <1>6 DEF TightenSup
  <1>7. ASSUME b.type = "UPPER" \/ ~Below(t.inf[v], b) PROVE TightenInf(t, b) = t
    BY <1>7 DEF TightenInf
  <1> QED BY <1>4, <1>5, <1>6, <1>7

LEMMA ActivateBoundInside ==
  ASSUME NEW t, TableauTyped(t), OwnBounds(t), Inside(t), NEW b \in Bound, NEW origin \in SUBSET Constraint
  PROVE  Inside(ActivateBound(t, b, origin))
  <1> DEFINE w == WithOrigin(t, b, origin)
             x == TightenSup(w, b)
  <1>1. TableauTyped(w) /\ Inside(w) /\ OwnBounds(w)
    <2>1. TableauTyped(w) /\ w.sup = t.sup /\ w.inf = t.inf
      BY WithOriginRight
    <2>2. Inside(w)
      BY WithOriginInside
    <2> HIDE DEF w
    <2> QED BY <2>1, <2>2 DEF OwnBounds
  <1>2. ActivateBound(t, b, origin) = TightenInf(x, b)
    BY DEF ActivateBound
  <1> HIDE DEF w
  <1>3. TableauTyped(x) /\ Inside(x) /\ OwnBounds(x)
    BY <1>1, TightenRight, TightenInside
  <1> HIDE DEF x
  <1> QED BY <1>2, <1>3, TightenInside

LEMMA ActivateBoundRight ==
  ASSUME NEW t, TableauTyped(t), Strongest(t), NEW b \in Bound, NEW origin \in SUBSET Constraint
  PROVE  LET u == ActivateBound(t, b, origin)
         IN  /\ TableauTyped(u) /\ Strongest(u)
             /\ u.origins = [t.origins EXCEPT ![b] = Append(@, origin)]
             /\ \A q : IsActive(u, q) <=> IsActive(t, q) \/ q = b
  <1> DEFINE w == WithOrigin(t, b, origin)
             x == TightenSup(w, b)
             u == TightenInf(x, b)
  <1>1. ActivateBound(t, b, origin) = u
    BY DEF ActivateBound
  <1>2. /\ TableauTyped(w) /\ w.sup = t.sup /\ w.inf = t.inf
        /\ w.origins = [t.origins EXCEPT ![b] = Append(@, origin)]
    BY WithOriginRight
  <1> HIDE DEF w
  <1>3. /\ TableauTyped(x) /\ x.origins = w.origins /\ x.inf = w.inf
        /\ x.sup = IF b.type = "LOWER" \/ ~Below(b, w.sup[b.var]) THEN w.sup ELSE [w.sup EXCEPT ![b.var] = b]
    BY <1>2, TightenRight
  <1> HIDE DEF x
  <1>4. /\ TableauTyped(u) /\ u.origins = x.origins /\ u.sup = x.sup
        /\ u.inf = IF b.type = "UPPER" \/ ~Below(x.inf[b.var], b) THEN x.inf ELSE [x.inf EXCEPT ![b.var] = b]
    BY <1>3, TightenRight
  <1> HIDE DEF u
  <1>5. u.origins = [t.origins EXCEPT ![b] = Append(@, origin)]
    BY <1>2, <1>3, <1>4
  <1>6. ASSUME NEW q PROVE IsActive(u, q) <=> IsActive(t, q) \/ q = b
    <2>1. CASE q = b
      <3>1. t.origins[b] \in Seq(SUBSET Constraint) /\ u.origins[b] = Append(t.origins[b], origin)
        BY <1>5 DEF TableauTyped
      <3>2. u.origins[b] # <<>>
        BY <3>1, AppendToSet
      <3> QED BY <2>1, <3>2 DEF IsActive
    <2>2. CASE q # b
      <3>1. u.origins[q] = t.origins[q]
        BY <1>5, <2>2
      <3> QED BY <2>2, <3>1 DEF IsActive
    <2> QED BY <2>1, <2>2
  <1>7. ASSUME NEW v \in Var PROVE SupRight(u, v)
    <2>1. /\ t.sup[v] \in UpperBounds[v] /\ IsActive(t, t.sup[v])
          /\ \A q \in UpperBounds[v] : IsActive(t, q) => ~Below(q, t.sup[v])
      BY DEF Strongest, SupRight
    <2>2. b \in UpperBounds[v] <=> v = b.var /\ b.type # "LOWER"
      BY BelowByKey DEF UpperBounds
    <2>3. CASE u.sup[v] = t.sup[v] /\ ~(b \in UpperBounds[v] /\ Below(b, t.sup[v]))
      BY <1>6, <2>1, <2>3 DEF SupRight
    <2>4. CASE u.sup[v] = b /\ b \in UpperBounds[v] /\ Below(b, t.sup[v])
      <3>1. ASSUME NEW q \in UpperBounds[v], IsActive(u, q) PROVE ~Below(q, b)
        <4>2. q = b \/ ~(Key(q) < Key(t.sup[v]))
          BY <1>6, <2>1, <3>1, BelowByKey
        <4>3. Key(b) < Key(t.sup[v])
          BY <2>1, <2>4, BelowByKey
        <4>4. ~(Key(q) < Key(b))
          <5>1. Key(q) \in Int /\ Key(b) \in Int /\ Key(t.sup[v]) \in Int
            BY <2>1, <2>4, BelowByKey
          <5>2. \A i, j, k \in Int : ~(i < k) /\ j < k => ~(i < j)
            OBVIOUS
          <5>3. \A i \in Int : ~(i < i)
            OBVIOUS
          <5> QED BY ONLY <4>2, <4>3, <5>1, <5>2, <5>3
        <4> QED BY <2>4, <4>4, BelowByKey
      <3> QED BY <1>6, <2>4, <3>1 DEF SupRight
    <2>5. \/ u.sup[v] = t.sup[v] /\ ~(b \in UpperBounds[v] /\ Below(b, t.sup[v]))
          \/ u.sup[v] = b /\ b \in UpperBounds[v] /\ Below(b, t.sup[v])
      BY <1>2, <1>3, <1>4, <2>2 DEF TableauTyped
    <2> QED BY <2>3, <2>4, <2>5
  <1>8. ASSUME NEW v \in Var PROVE InfRight(u, v)
    <2>1. /\ t.inf[v] \in LowerBounds[v] /\ IsActive(t, t.inf[v])
          /\ \A q \in LowerBounds[v] : IsActive(t, q) => ~Below(t.inf[v], q)
      BY DEF Strongest, InfRight
    <2>2. b \in LowerBounds[v] <=> v = b.var /\ b.type # "UPPER"
      BY BelowByKey DEF LowerBounds
    <2>3. CASE u.inf[v] = t.inf[v] /\ ~(b \in LowerBounds[v] /\ Below(t.inf[v], b))
      BY <1>6, <2>1, <2>3 DEF InfRight
    <2>4. CASE u.inf[v] = b /\ b \in LowerBounds[v] /\ Below(t.inf[v], b)
      <3>1. ASSUME NEW q \in LowerBounds[v], IsActive(u, q) PROVE ~Below(b, q)
        <4>2. q = b \/ ~(Key(t.inf[v]) < Key(q))
          BY <1>6, <2>1, <3>1, BelowByKey
        <4>3. Key(t.inf[v]) < Key(b)
          BY <2>1, <2>4, BelowByKey
        <4>4. ~(Key(b) < Key(q))
          <5>1. Key(q) \in Int /\ Key(b) \in Int /\ Key(t.inf[v]) \in Int
            BY <2>1, <2>4, BelowByKey
          <5>2. \A i, j, k \in Int : ~(k < i) /\ k < j => ~(j < i)
            OBVIOUS
          <5>3. \A i \in Int : ~(i < i)
            OBVIOUS
          <5> QED BY ONLY <4>2, <4>3, <5>1, <5>2, <5>3
        <4> QED BY <2>4, <4>4, BelowByKey
      <3> QED BY <1>6, <2>4, <3>1 DEF InfRight
    <2>5. \/ u.inf[v] = t.inf[v] /\ ~(b \in LowerBounds[v] /\ Below(t.inf[v], b))
          \/ u.inf[v] = b /\ b \in LowerBounds[v] /\ Below(t.inf[v], b)
      BY <1>2, <1>3, <1>4, <2>2 DEF TableauTyped
    <2> QED BY <2>3, <2>4, <2>5
  <1> QED BY <1>1, <1>4, <1>5, <1>6, <1>7, <1>8 DEF Strongest

-----------------------------------------------------------------------------
(* The state between two calls, or within one: R is what is received.      *)
Fields == {"t", "subsets", "strict", "resolved", "unresolved", "passed"}
Typed(s) ==
    /\ DOMAIN s = Fields /\ TableauTyped(s.t)
    /\ s.strict \in [Constraint -> SUBSET Bound] /\ \A c \in Constraint : IsFiniteSet(s.strict[c])
    /\ s.subsets \subseteq SUBSET Constraint

OriginsReceived(s, R) == \A b \in Bound : \A o \in ToSet(s.t.origins[b]) : o \subseteq R
OriginsTracked(s) ==
    \A b \in Bound : \A o \in ToSet(s.t.origins[b]) : \A d \in o : b \in ToSet(BoundsOf(d)) \cup s.strict[d]
OwnOrigin(s, R) == \A c \in R \ Neq : {c} \in ToSet(s.t.origins[BoundsOf(c)[1]])
SubsetsIn(s, R) == \A S \in s.subsets : S \subseteq R

Alone(s, n) == \A b \in ToSet(BoundsOf(n)) : ~IsActive(s.t, b)
NeqRight(s, n) == /\ n \in s.unresolved <=> Alone(s, n)
                  /\ n \in s.resolved <=> ~Alone(s, n)
NeqIn(s, R) == s.resolved \cup s.unresolved \subseteq R \cap Neq /\ s.passed = s.unresolved

Bounded(s, R) == /\ Typed(s) /\ Strongest(s.t) /\ OriginsReceived(s, R) /\ OriginsTracked(s)
                 /\ SubsetsIn(s, R) /\ NeqIn(s, R)

(* Two bounds in conflict are active and finite.                           *)
LEMMA OpposingFinite ==
  ASSUME NEW t, NEW b \in Bound, NEW sup, NEW inf, sup \in UpperBounds[b.var], inf \in LowerBounds[b.var],
         NEW o \in Opposing(t, b, sup, inf)
  PROVE  o \in Bound /\ IsActive(t, o)
  <1>1. b.var \in Var /\ b \in BoundShape /\ b.limit[1] \in Int /\ -99 <= b.limit[1] /\ b.limit[1] <= 99
    BY Finite, LimitsRange DEF BoundShape, BoundLimit
  <1>2. ASSUME o \in OpposingLower(t, b, inf) PROVE o \in LowerBounds[b.var] /\ IsActive(t, o) /\ Less(b.limit, o.limit)
    <2>1. o \in LowerBounds[b.var] /\ ~Below(inf, o)
      BY <1>2 DEF OpposingLower
    <2>2. ~Below(o, o)
      <3>1. Key(o) \in Int /\ (Below(o, o) <=> Key(o) < Key(o))
        BY <1>1, <2>1, BelowByKey
      <3>2. \A i \in Int : ~(i < i)
        OBVIOUS
      <3> QED BY <3>1, <3>2
    <2> QED BY <1>2, <2>1, <2>2 DEF OpposingLower
  <1>3. ASSUME o \in OpposingUpper(t, b, sup) PROVE o \in UpperBounds[b.var] /\ IsActive(t, o) /\ Less(o.limit, b.limit)
    <2>1. o \in UpperBounds[b.var] /\ ~Below(o, sup)
      BY <1>3 DEF OpposingUpper
    <2>2. ~Below(o, o)
      <3>1. Key(o) \in Int /\ (Below(o, o) <=> Key(o) < Key(o))
        BY <1>1, <2>1, BelowByKey
      <3>2. \A i \in Int : ~(i < i)
        OBVIOUS
      <3> QED BY <3>1, <3>2
    <2> QED BY <1>3, <2>1, <2>2 DEF OpposingUpper
  <1>4. ASSUME o \in LowerBounds[b.var], Less(b.limit, o.limit) PROVE o \in Bound
    <2>1. o # NoLower(b.var)
      BY <1>1, <1>4 DEF NoLower, Lower, Infinity, Less
    <2> QED BY <1>4, <2>1, <1>1 DEF LowerBounds
  <1>5. ASSUME o \in UpperBounds[b.var], Less(o.limit, b.limit) PROVE o \in Bound
    <2>1. o # NoUpper(b.var)
      BY <1>1, <1>5 DEF NoUpper, Upper, Infinity, Less
    <2> QED BY <1>5, <2>1, <1>1 DEF UpperBounds
  <1>6. o \in OpposingLower(t, b, inf) \/ o \in OpposingUpper(t, b, sup)
    BY DEF Opposing
  <1> QED BY <1>2, <1>3, <1>4, <1>5, <1>6

Activated(s, u, b, origin, R) ==
    /\ Typed(u) /\ Strongest(u.t) /\ OriginsReceived(u, R) /\ SubsetsIn(u, R) /\ NeqIn(u, R)
    /\ ToSet(u.t.origins[b]) = ToSet(s.t.origins[b]) \cup {origin}
    /\ \A q \in Bound \ {b} : u.t.origins[q] = s.t.origins[q]
    /\ \A q : IsActive(u.t, q) <=> IsActive(s.t, q) \/ q = b
    /\ u.strict = s.strict /\ u.resolved = s.resolved /\ u.unresolved = s.unresolved /\ u.passed = s.passed
    /\ Inside(s.t) => Inside(u.t)

LEMMA ActivateRight ==
  ASSUME NEW R \in SUBSET Constraint, NEW s, Bounded(s, R), NEW b \in Bound, NEW origin \in SUBSET R
  PROVE  Activated(s, Activate(s, b, origin), b, origin, R)
  <1> DEFINE t == ActivateBound(s.t, b, origin)
             opposing == Opposing(t, b, s.t.sup[b.var], s.t.inf[b.var])
             new == {Origins(t, b) \cup Origins(t, o) : o \in opposing}
             u == Activate(s, b, origin)
  <1>1. TableauTyped(s.t) /\ Strongest(s.t) /\ DOMAIN s = Fields /\ b.var \in Var
    BY Finite DEF Bounded, Typed
  <1>2. /\ TableauTyped(t) /\ Strongest(t) /\ t.origins = [s.t.origins EXCEPT ![b] = Append(@, origin)]
        /\ \A q : IsActive(t, q) <=> IsActive(s.t, q) \/ q = b
    BY <1>1, ActivateBoundRight
  <1>3. s.t.sup[b.var] \in UpperBounds[b.var] /\ s.t.inf[b.var] \in LowerBounds[b.var]
    BY <1>1 DEF Strongest, SupRight, InfRight
  <1>4. Inside(s.t) => Inside(t)
    <2>1. OwnBounds(s.t)
      BY <1>1 DEF OwnBounds, Strongest, SupRight, InfRight
    <2> QED BY <1>1, <2>1, ActivateBoundInside
  <1>5. u = [s EXCEPT !.t = t, !.subsets = @ \cup new]
    BY DEF Activate
  <1> HIDE DEF t
  <1>6. \A o \in opposing : o \in Bound /\ IsActive(t, o)
    BY <1>3, OpposingFinite
  <1>7. ToSet(t.origins[b]) = ToSet(s.t.origins[b]) \cup {origin} /\ \A q \in Bound \ {b} : t.origins[q] = s.t.origins[q]
    <2>1. s.t.origins \in [Bound -> Seq(SUBSET Constraint)]
      BY <1>1 DEF TableauTyped
    <2>2. t.origins[b] = Append(s.t.origins[b], origin)
      BY <1>2, <2>1
    <2>3. ToSet(Append(s.t.origins[b], origin)) = ToSet(s.t.origins[b]) \cup {origin}
      <3>1. s.t.origins[b] \in Seq(SUBSET Constraint) /\ origin \in SUBSET Constraint
        BY <2>1
      <3> QED BY <3>1, AppendToSet
    <2>4. \A q \in Bound \ {b} : t.origins[q] = s.t.origins[q]
      BY <1>2, <2>1
    <2> QED BY <2>2, <2>3, <2>4
  <1>8. \A q \in Bound : \A o \in ToSet(t.origins[q]) : o \subseteq R
    BY <1>7 DEF Bounded, OriginsReceived
  <1>9. \A o \in opposing : Origins(t, b) \cup Origins(t, o) \subseteq R
    <2>1. IsActive(t, b)
      BY <1>2
    <2>2. Origins(t, b) \in ToSet(t.origins[b])
      BY <1>2, <2>1, ActiveOrigins
    <2>3. \A o \in opposing : Origins(t, o) \in ToSet(t.origins[o])
      BY <1>2, <1>6, ActiveOrigins
    <2> HIDE DEF opposing
    <2> QED BY <1>6, <1>8, <2>2, <2>3
  <1> HIDE DEF opposing, u
  <1>10. /\ DOMAIN u = Fields /\ u.t = t /\ u.subsets = s.subsets \cup new
        /\ u.strict = s.strict /\ u.resolved = s.resolved /\ u.unresolved = s.unresolved /\ u.passed = s.passed
    BY <1>1, <1>5 DEF Fields
  <1>11. \A S \in new : S \subseteq R
    BY <1>9
  <1> HIDE DEF new
  <1>12. Typed(u) /\ SubsetsIn(u, R)
    BY <1>2, <1>10, <1>11 DEF Bounded, Typed, SubsetsIn
  <1>13. OriginsReceived(u, R) /\ NeqIn(u, R)
    BY <1>8, <1>10 DEF Bounded, OriginsReceived, NeqIn
  <1>14. Activated(s, u, b, origin, R)
    BY <1>2, <1>7, <1>10, <1>12, <1>13, <1>4 DEF Activated
  <1> QED BY <1>14 DEF u

Whole(s, R) == /\ Bounded(s, R) /\ OwnOrigin(s, R) /\ \A n \in R \cap Neq : NeqRight(s, n)
               /\ Inside(s.t)

LEMMA BoundedMore ==
  ASSUME NEW s, NEW R, NEW Q, Bounded(s, R), R \subseteq Q
  PROVE  Bounded(s, Q)
  BY DEF Bounded, OriginsReceived, SubsetsIn, NeqIn

(* activateStrictBound                                                     *)
MadeStrict(s, u, strict, R) ==
    /\ Bounded(u, R) /\ u.resolved = s.resolved /\ u.unresolved = s.unresolved
    /\ \A q \in Bound : ToSet(s.t.origins[q]) \subseteq ToSet(u.t.origins[q])
    /\ \A q : IsActive(u.t, q) <=> IsActive(s.t, q) \/ q = strict
    /\ Inside(s.t) => Inside(u.t)

LEMMA ActivateStrictRight ==
  ASSUME NEW R \in SUBSET Constraint, NEW s, Bounded(s, R), NEW n \in R \cap Neq,
         NEW weak \in ToSet(BoundsOf(n)), IsActive(s.t, weak), NEW strict \in ToSet(BoundsOf(n))
  PROVE  MadeStrict(s, ActivateStrict(s, n, weak, strict), strict, R)
  <1> DEFINE o == Origins(s.t, weak)
             a == Activate(s, strict, o \cup {n})
             u == ActivateStrict(s, n, weak, strict)
             more == [c \in Constraint |-> IF c \in o THEN s.strict[c] \cup {strict} ELSE s.strict[c]]
  <1>1. weak \in Bound /\ strict \in Bound /\ n \in Constraint
    BY BoundsOfConstraint DEF Neq
  <1>2. TableauTyped(s.t) /\ o \in ToSet(s.t.origins[weak])
    BY <1>1, ActiveOrigins DEF Bounded, Typed
  <1>3. o \subseteq R /\ o \cup {n} \in SUBSET R
    BY <1>1, <1>2 DEF Bounded, OriginsReceived
  <1>4. /\ Typed(a) /\ Strongest(a.t) /\ OriginsReceived(a, R) /\ SubsetsIn(a, R) /\ NeqIn(a, R)
        /\ ToSet(a.t.origins[strict]) = ToSet(s.t.origins[strict]) \cup {o \cup {n}}
        /\ \A q \in Bound \ {strict} : a.t.origins[q] = s.t.origins[q]
        /\ \A q : IsActive(a.t, q) <=> IsActive(s.t, q) \/ q = strict
        /\ a.strict = s.strict /\ a.resolved = s.resolved /\ a.unresolved = s.unresolved /\ a.passed = s.passed
        /\ Inside(s.t) => Inside(a.t)
    <2> HIDE DEF o
    <2>1. Activated(s, a, strict, o \cup {n}, R)
      BY <1>1, <1>3, ActivateRight
    <2> QED BY <2>1 DEF Activated
  <1>5. u = [a EXCEPT !.strict = [c \in Constraint |-> IF c \in o THEN @[c] \cup {strict} ELSE @[c]]]
    BY DEF ActivateStrict
  <1> HIDE DEF o, a, u
  <1>6. /\ DOMAIN u = Fields /\ u.strict = more /\ u.t = a.t /\ u.subsets = a.subsets /\ u.resolved = a.resolved
        /\ u.unresolved = a.unresolved /\ u.passed = a.passed
    BY <1>4, <1>5 DEF Typed, Fields
  <1>7. /\ more \in [Constraint -> SUBSET Bound] /\ \A c \in Constraint : IsFiniteSet(more[c])
        /\ \A c \in Constraint : s.strict[c] \subseteq more[c]
        /\ \A c \in o : strict \in more[c]
    <2>1. s.strict \in [Constraint -> SUBSET Bound] /\ \A c \in Constraint : IsFiniteSet(s.strict[c])
      BY DEF Bounded, Typed
    <2>2. \A c \in Constraint : IsFiniteSet(s.strict[c] \cup {strict})
      BY <2>1, FS_AddElement
    <2> QED BY <1>1, <1>3, <2>1, <2>2
  <1> HIDE DEF more
  <1>8. OriginsTracked(u)
    <2> SUFFICES ASSUME NEW q \in Bound, NEW p \in ToSet(a.t.origins[q]), NEW d \in p
                 PROVE q \in ToSet(BoundsOf(d)) \cup more[d]
      BY <1>6 DEF OriginsTracked
    <2>1. p \subseteq R /\ d \in Constraint
      BY <1>4 DEF OriginsReceived
    <2>2. CASE p \in ToSet(s.t.origins[q])
      BY <1>7, <2>1, <2>2 DEF Bounded, OriginsTracked
    <2>3. CASE q = strict /\ p = o \cup {n}
      BY <1>7, <2>3
    <2> QED BY <1>4, <2>2, <2>3
  <1>9. Bounded(u, R)
    <2>1. Typed(u)
      BY <1>4, <1>6, <1>7 DEF Typed
    <2>2. Strongest(u.t) /\ OriginsReceived(u, R) /\ SubsetsIn(u, R) /\ NeqIn(u, R)
      BY <1>4, <1>6 DEF OriginsReceived, SubsetsIn, NeqIn
    <2> QED BY <1>8, <2>1, <2>2 DEF Bounded
  <1>10. \A q \in Bound : ToSet(s.t.origins[q]) \subseteq ToSet(u.t.origins[q])
    BY <1>4, <1>6
  <1>11. MadeStrict(s, u, strict, R)
    BY <1>4, <1>6, <1>9, <1>10 DEF MadeStrict
  <1> QED BY <1>11 DEF u

Resolved(s, u, n, R) ==
    /\ Bounded(u, R) /\ u.resolved = s.resolved \cup {n} /\ u.unresolved = s.unresolved \ {n}
    /\ \A q \in Bound : ToSet(s.t.origins[q]) \subseteq ToSet(u.t.origins[q])
    /\ \A q : IsActive(s.t, q) => IsActive(u.t, q)
    /\ \A q : IsActive(u.t, q) => IsActive(s.t, q) \/ q \in ToSet(BoundsOf(n))
    /\ Inside(s.t) => Inside(u.t)

LEMMA ResolveRight ==
  ASSUME NEW R \in SUBSET Constraint, NEW s, Bounded(s, R), NEW n \in R \cap Neq, NEW b \in ToSet(BoundsOf(n)),
         b \in {BoundsOf(n)[2], BoundsOf(n)[3]} => IsActive(s.t, b)
  PROVE  Resolved(s, Resolve(s, n, b), n, R)
  <1> DEFINE moved == [s EXCEPT !.resolved = @ \cup {n}, !.unresolved = @ \ {n}, !.passed = @ \ {n}]
  <1>1. /\ DOMAIN moved = Fields /\ moved.t = s.t /\ moved.subsets = s.subsets /\ moved.strict = s.strict
        /\ moved.resolved = s.resolved \cup {n} /\ moved.unresolved = s.unresolved \ {n}
        /\ moved.passed = s.passed \ {n}
    BY DEF Bounded, Typed, Fields
  <1>2. Bounded(moved, R)
    BY <1>1 DEF Bounded, Typed, OriginsReceived, OriginsTracked, SubsetsIn, NeqIn
  <1>3. \A i \in 1 .. 4 : BoundsOf(n)[i] \in ToSet(BoundsOf(n))
    <2>1. n \in Neq
      OBVIOUS
    <2>2. ToSet(BoundsOf(n)) = {BoundsOf(n)[i] : i \in 1 .. 4}
      BY <2>1, NeqBounds
    <2> QED BY ONLY <2>2
  <1>4. \/ Resolve(s, n, b) = moved
        \/ \E strict \in ToSet(BoundsOf(n)) :
             IsActive(s.t, b) /\ Resolve(s, n, b) = ActivateStrict(moved, n, b, strict)
    BY <1>3 DEF Resolve
  <1> HIDE DEF moved
  <1>5. CASE Resolve(s, n, b) = moved
    BY <1>1, <1>2, <1>5 DEF Resolved
  <1>6. ASSUME NEW strict \in ToSet(BoundsOf(n)), IsActive(s.t, b),
               Resolve(s, n, b) = ActivateStrict(moved, n, b, strict)
        PROVE Resolved(s, Resolve(s, n, b), n, R)
    <2>1. IsActive(moved.t, b)
      BY <1>1, <1>6
    <2>2. MadeStrict(moved, ActivateStrict(moved, n, b, strict), strict, R)
      BY <1>2, <2>1, ActivateStrictRight
    <2> QED BY <1>1, <1>6, <2>2 DEF MadeStrict, Resolved
  <1> QED BY <1>4, <1>5, <1>6

(* addCore                                                                 *)
LEMMA AddBoundRight ==
  ASSUME NEW R \in SUBSET Constraint, NEW s, Whole(s, R), NEW c \in Constraint, c \notin Neq
  PROVE  Whole(AddBound(s, c), R \cup {c})
  <1> DEFINE Q == R \cup {c}
             b == BoundsOf(c)[1]
             a == Activate(s, b, {c})
             waiting == NeqOf(b) \cap s.unresolved
             u == AddBound(s, c)
  <1>1. Q \in SUBSET Constraint /\ Bounded(s, Q) /\ R \cap Neq = Q \cap Neq /\ c \in Q
    <2>1. Bounded(s, R) /\ R \subseteq Q
      BY DEF Whole
    <2>2. Bounded(s, Q)
      <3> HIDE DEF Q
      <3> QED BY <2>1, BoundedMore
    <2> QED BY <2>2
  <1>2. b \in Bound /\ b \in ToSet(BoundsOf(c))
    BY OwnBound
  <1> HIDE DEF Q, b
  <1>3. Activated(s, a, b, {c}, Q)
    BY <1>1, <1>2, ActivateRight
  <1>4. u = IF waiting = {} THEN a ELSE Resolve(a, CHOOSE n \in waiting : TRUE, b)
    BY DEF AddBound, b
  <1> HIDE DEF a, u
  <1>5. Bounded(a, Q)
    <2>1. OriginsTracked(a)
      <3> SUFFICES ASSUME NEW q \in Bound, NEW o \in ToSet(a.t.origins[q]), NEW d \in o
                   PROVE q \in ToSet(BoundsOf(d)) \cup s.strict[d]
        BY <1>3 DEF Activated, OriginsTracked
      <3>1. o \in ToSet(s.t.origins[q]) \/ (q = b /\ o = {c})
        BY <1>3 DEF Activated
      <3>2. CASE o \in ToSet(s.t.origins[q])
        BY <1>1, <3>2 DEF Bounded, OriginsTracked
      <3>3. CASE q = b /\ o = {c}
        BY <1>2, <3>3
      <3> QED BY <3>1, <3>2, <3>3
    <2> QED BY <1>3, <2>1 DEF Activated, Bounded
  <1>6. /\ \A q \in Bound : ToSet(s.t.origins[q]) \subseteq ToSet(a.t.origins[q])
        /\ {c} \in ToSet(a.t.origins[b]) /\ IsActive(a.t, b)
        /\ \A q : IsActive(a.t, q) <=> IsActive(s.t, q) \/ q = b
    BY <1>3 DEF Activated
  <1>7. OwnOrigin(a, Q)
    <2> SUFFICES ASSUME NEW d \in Q \ Neq PROVE {d} \in ToSet(a.t.origins[BoundsOf(d)[1]])
      BY DEF OwnOrigin
    <2>1. CASE d = c
      BY <1>6, <2>1 DEF b
    <2>2. CASE d # c
      <3>1. d \in R \ Neq /\ d \in Constraint
        BY <2>2 DEF Q
      <3>2. {d} \in ToSet(s.t.origins[BoundsOf(d)[1]])
        BY <3>1 DEF Whole, OwnOrigin
      <3>3. BoundsOf(d)[1] \in Bound
        BY <3>1, OwnBound
      <3> QED BY <1>6, <3>2, <3>3
    <2> QED BY <2>1, <2>2
  <1>8. \A n \in Q \cap Neq : NeqRight(s, n)
    BY <1>1 DEF Whole
  <1>9. \A n \in Q \cap Neq : b \in ToSet(BoundsOf(n)) => NeqOf(b) = {n}
    BY NeqOfBound
  <1>10. s.unresolved \subseteq Q \cap Neq /\ a.unresolved = s.unresolved /\ a.resolved = s.resolved
    BY <1>1, <1>3 DEF Bounded, NeqIn, Activated
  <1>11. Inside(a.t)
    BY <1>3 DEF Activated, Whole
  <1>12. ASSUME NEW n \in Q \cap Neq, b \notin ToSet(BoundsOf(n)) PROVE NeqRight(a, n)
    BY <1>6, <1>8, <1>10, <1>12 DEF NeqRight, Alone
  <1>13. CASE waiting = {}
    <2>1. ASSUME NEW n \in Q \cap Neq, b \in ToSet(BoundsOf(n)) PROVE NeqRight(a, n)
      <3>1. n \notin s.unresolved
        BY <1>9, <1>13, <2>1
      <3> QED BY <1>6, <1>8, <1>10, <2>1, <3>1 DEF NeqRight, Alone
    <2>2. u = a
      BY <1>4, <1>13
    <2> QED BY <1>5, <1>7, <1>12, <1>11, <2>1, <2>2 DEF Whole, Q, u
  <1>14. CASE waiting # {}
    <2> DEFINE n == CHOOSE m \in waiting : TRUE
    <2>1. n \in waiting
      BY <1>14
    <2>2. u = Resolve(a, n, b)
      BY <1>4, <1>14
    <2> HIDE DEF n
    <2>3. n \in Q \cap Neq /\ b \in ToSet(BoundsOf(n))
      BY <1>10, <2>1 DEF NeqOf
    <2>4. Resolved(a, u, n, Q)
      BY <1>1, <1>5, <1>6, <2>2, <2>3, ResolveRight
    <2>5. Bounded(u, Q)
      BY <2>4 DEF Resolved
    <2>6. OwnOrigin(u, Q)
      <3> SUFFICES ASSUME NEW d \in Q \ Neq PROVE {d} \in ToSet(u.t.origins[BoundsOf(d)[1]])
        BY DEF OwnOrigin
      <3>1. BoundsOf(d)[1] \in Bound
        BY <1>1, OwnBound
      <3> QED BY <1>7, <2>4, <3>1 DEF OwnOrigin, Resolved
    <2>7. ASSUME NEW m \in Q \cap Neq PROVE NeqRight(u, m)
      <3>1. CASE m = n
        <4>1. IsActive(u.t, b) /\ m \in u.resolved /\ m \notin u.unresolved
          BY <1>6, <2>4, <3>1 DEF Resolved
        <4> QED BY <2>3, <3>1, <4>1 DEF NeqRight, Alone
      <3>2. CASE m # n
        <4>1. \A q \in ToSet(BoundsOf(m)) : q \notin ToSet(BoundsOf(n))
          BY <2>3, <3>2, NeqBounds
        <4>2. NeqRight(a, m)
          BY <1>12, <2>3, <4>1
        <4>3. Alone(u, m) <=> Alone(a, m)
          BY <2>4, <4>1 DEF Resolved, Alone
        <4>4. (m \in u.resolved <=> m \in a.resolved) /\ (m \in u.unresolved <=> m \in a.unresolved)
          BY <2>4, <3>2 DEF Resolved
        <4> QED BY <4>2, <4>3, <4>4 DEF NeqRight
      <3> QED BY <3>1, <3>2
    <2>8. Inside(u.t)
      BY <1>11, <2>4 DEF Resolved
    <2> QED BY <2>5, <2>6, <2>7, <2>8 DEF Whole, Q, u
  <1> QED BY <1>13, <1>14

LEMMA AddInequationRight ==
  ASSUME NEW R \in SUBSET Constraint, NEW s, Whole(s, R), NEW c \in Neq \ R
  PROVE  Whole(AddInequation(s, c), R \cup {c})
  <1> DEFINE Q == R \cup {c}
             four == BoundsOf(c)
             u == AddInequation(s, c)
  <1>1. Q \in SUBSET Constraint /\ Bounded(s, Q) /\ c \in Q \cap Neq /\ R \ Neq = Q \ Neq
    <2>1. Bounded(s, R) /\ R \subseteq Q
      BY DEF Whole
    <2>2. Bounded(s, Q)
      <3> HIDE DEF Q
      <3> QED BY <2>1, BoundedMore
    <2> QED BY <2>2 DEF Neq
  <1>2. /\ ToSet(four) = {four[i] : i \in 1 .. 4}
        /\ \A m \in Neq \ {c} : \A q \in ToSet(BoundsOf(m)) : q \notin ToSet(four)
        /\ four[1] # four[2] /\ four[1] # four[3]
    <2>1. c \in Neq
      OBVIOUS
    <2>2. four[1] # four[2] /\ four[1] # four[3]
      <3>1. /\ four[1] = Upper(c.var, <<c.limit, -1>>) /\ four[2] = Upper(c.var, <<c.limit, 0>>)
            /\ four[3] = Lower(c.var, <<c.limit, 0>>)
        <4>1. BoundsOf(c) = <<Upper(c.var, <<c.limit, -1>>), Upper(c.var, <<c.limit, 0>>),
                              Lower(c.var, <<c.limit, 0>>), Lower(c.var, <<c.limit, 1>>)>>
          BY ONLY <2>1, NeqBounds
        <4> QED BY ONLY <4>1
      <3> QED BY <3>1 DEF Upper, Lower
    <2>3. ToSet(four) = {four[i] : i \in 1 .. 4}
      BY <2>1, NeqBounds
    <2>4. \A m \in Neq \ {c} : \A q \in ToSet(BoundsOf(m)) : q \notin ToSet(four)
      BY <2>1, NeqBounds
    <2> QED BY <2>2, <2>3, <2>4
  <1>3. \A m \in (Q \cap Neq) \ {c} : NeqRight(s, m)
    BY DEF Whole
  <1>4. c \notin s.unresolved /\ c \notin s.resolved
    BY DEF Whole, Bounded, NeqIn
  <1>5. CASE \E i \in 1 .. 4 : IsActive(s.t, four[i])
    <2> DEFINE b == IF IsActive(s.t, four[2]) THEN four[2] ELSE IF IsActive(s.t, four[3]) THEN four[3] ELSE four[1]
    <2>1. u = Resolve(s, c, b)
      BY <1>5 DEF AddInequation
    <2>2. b \in ToSet(four) /\ (b \in {four[2], four[3]} => IsActive(s.t, b))
      BY <1>2
    <2> HIDE DEF b, u, Q
    <2>3. Resolved(s, u, c, Q)
      BY <1>1, <2>1, <2>2, ResolveRight
    <2>4. Bounded(u, Q)
      BY <2>3 DEF Resolved
    <2>5. OwnOrigin(u, Q)
      <3> SUFFICES ASSUME NEW d \in Q \ Neq PROVE {d} \in ToSet(u.t.origins[BoundsOf(d)[1]])
        BY DEF OwnOrigin
      <3>1. BoundsOf(d)[1] \in Bound
        BY <1>1, OwnBound
      <3>2. {d} \in ToSet(s.t.origins[BoundsOf(d)[1]])
        BY <1>1 DEF Whole, OwnOrigin
      <3> QED BY <2>3, <3>1, <3>2 DEF Resolved
    <2>6. NeqRight(u, c)
      <3>1. PICK i \in 1 .. 4 : IsActive(s.t, four[i])
        BY <1>5
      <3>2. IsActive(u.t, four[i]) /\ four[i] \in ToSet(four) /\ c \in u.resolved /\ c \notin u.unresolved
        BY <1>2, <2>3, <3>1 DEF Resolved
      <3> QED BY <3>2 DEF NeqRight, Alone
    <2>7. ASSUME NEW m \in (Q \cap Neq) \ {c} PROVE NeqRight(u, m)
      <3>1. \A q \in ToSet(BoundsOf(m)) : q \notin ToSet(four)
        BY <1>2
      <3>2. Alone(u, m) <=> Alone(s, m)
        BY <2>3, <3>1 DEF Resolved, Alone
      <3>3. (m \in u.resolved <=> m \in s.resolved) /\ (m \in u.unresolved <=> m \in s.unresolved)
        BY <2>3 DEF Resolved
      <3> QED BY <1>3, <3>2, <3>3 DEF NeqRight
    <2>8. Inside(u.t)
      BY <2>3 DEF Resolved, Whole
    <2> QED BY <2>4, <2>5, <2>6, <2>7, <2>8 DEF Whole, u, Q
  <1>6. CASE ~\E i \in 1 .. 4 : IsActive(s.t, four[i])
    <2>1. u = [s EXCEPT !.unresolved = @ \cup {c}, !.passed = @ \cup {c}]
      BY <1>6 DEF AddInequation
    <2> HIDE DEF u
    <2>2. /\ DOMAIN u = Fields /\ u.t = s.t /\ u.subsets = s.subsets /\ u.strict = s.strict
          /\ u.resolved = s.resolved /\ u.unresolved = s.unresolved \cup {c} /\ u.passed = s.passed \cup {c}
      BY <1>1, <2>1 DEF Bounded, Typed, Fields
    <2>3. Bounded(u, Q)
      BY <1>1, <2>2 DEF Bounded, Typed, OriginsReceived, OriginsTracked, SubsetsIn, NeqIn
    <2>4. OwnOrigin(u, Q)
      BY <1>1, <2>2 DEF Whole, OwnOrigin
    <2>5. NeqRight(u, c)
      BY <1>2, <1>4, <1>6, <2>2 DEF NeqRight, Alone
    <2>6. \A m \in (Q \cap Neq) \ {c} : NeqRight(u, m)
      BY <1>3, <2>2 DEF NeqRight, Alone
    <2>7. Inside(u.t)
      BY <2>2 DEF Whole
    <2> QED BY <2>3, <2>4, <2>5, <2>6, <2>7 DEF Whole, u
  <1> QED BY <1>5, <1>6

-----------------------------------------------------------------------------
(* removeCore                                                              *)
SameState(s, u, R) ==
    /\ DOMAIN u = Fields /\ SameBounds(s.t, u.t) /\ u.strict = s.strict
    /\ u.resolved = s.resolved /\ u.unresolved = s.unresolved /\ u.passed = s.passed
    /\ \A S \in u.subsets : S \in s.subsets \/ S \subseteq R

LEMMA BoundedSame ==
  ASSUME NEW R \in SUBSET Constraint, NEW s, Bounded(s, R), NEW u, SameState(s, u, R)
  PROVE  Bounded(u, R)
  <1>1. TableauTyped(u.t) /\ u.t.origins = s.t.origins /\ Strongest(u.t)
    BY SameStrongest DEF SameState, SameBounds, Bounded
  <1>2. \A S \in u.subsets : S \subseteq R
    BY DEF SameState, Bounded, SubsetsIn
  <1>3. Typed(u)
    BY <1>1, <1>2 DEF Bounded, Typed, SameState
  <1>4. OriginsReceived(u, R) /\ OriginsTracked(u) /\ NeqIn(u, R)
    BY <1>1 DEF Bounded, SameState, OriginsReceived, OriginsTracked, NeqIn
  <1> QED BY <1>1, <1>2, <1>3, <1>4 DEF Bounded, SubsetsIn

LEMMA ConflictingFinite ==
  ASSUME NEW t, Strongest(t), NEW v \in Var, IsConflicting(t, v)
  PROVE  t.sup[v] \in Bound /\ t.inf[v] \in Bound /\ IsActive(t, t.sup[v]) /\ IsActive(t, t.inf[v])
  <1>1. /\ t.sup[v] \in UpperBounds[v] /\ IsActive(t, t.sup[v])
        /\ t.inf[v] \in LowerBounds[v] /\ IsActive(t, t.inf[v])
    BY DEF Strongest, SupRight, InfRight
  <1>2. /\ t.sup[v] = NoUpper(v) \/ t.sup[v] \in Bound
        /\ t.inf[v] = NoLower(v) \/ t.inf[v] \in Bound
    BY <1>1 DEF UpperBounds, LowerBounds
  <1>3. \A b \in Bound : b.limit[1] \in Int /\ -99 <= b.limit[1] /\ b.limit[1] <= 99
    BY Finite, LimitsRange DEF BoundShape, BoundLimit
  <1>4. NoUpper(v).limit[1] = 100 /\ NoLower(v).limit[1] = -100
    BY DEF NoUpper, NoLower, Upper, Lower, Infinity
  <1>5. ~(t.inf[v].limit[1] < t.sup[v].limit[1])
    <2>1. t.sup[v].limit[1] \in Int /\ t.inf[v].limit[1] \in Int
      BY <1>2, <1>3, <1>4
    <2>2. \A i, j \in Int : i < j => ~(j < i) /\ i # j
      OBVIOUS
    <2> QED BY <2>1, <2>2 DEF IsConflicting, Below, Less
  <1>6. t.sup[v] \in Bound
    <2> SUFFICES ASSUME t.sup[v] = NoUpper(v) PROVE FALSE
      BY <1>2
    <2> QED BY <1>2, <1>3, <1>4, <1>5
  <1>7. t.inf[v] \in Bound
    <2> SUFFICES ASSUME t.inf[v] = NoLower(v) PROVE FALSE
      BY <1>2
    <2> QED BY <1>2, <1>3, <1>4, <1>5
  <1> QED BY <1>1, <1>6, <1>7

LEMMA RestoreRight ==
  ASSUME NEW R \in SUBSET Constraint, NEW s, Bounded(s, R), NEW v \in Var
  PROVE  SameState(s, Restore(s, v), R)
  <1> DEFINE t == IF TooHigh(s.t, v) THEN MoveNonbasic(s.t, v, s.t.sup[v].limit)
                  ELSE IF TooLow(s.t, v) THEN MoveNonbasic(s.t, v, s.t.inf[v].limit) ELSE s.t
             conflict == IF IsConflicting(t, v) THEN {Origins(t, t.sup[v]) \cup Origins(t, t.inf[v])} ELSE {}
             u == Restore(s, v)
  <1>1. TableauTyped(s.t) /\ Strongest(s.t) /\ DOMAIN s = Fields
    BY DEF Bounded, Typed
  <1>2. SameBounds(s.t, t)
    <2>1. SameBounds(s.t, s.t)
      BY <1>1 DEF SameBounds
    <2> QED BY <1>1, <2>1, BoundsKept
  <1>3. u = [s EXCEPT !.t = t, !.subsets = @ \cup conflict]
    BY DEF Restore
  <1> HIDE DEF t, u
  <1>4. \A S \in conflict : S \subseteq R
    <2> SUFFICES ASSUME IsConflicting(t, v) PROVE Origins(t, t.sup[v]) \subseteq R /\ Origins(t, t.inf[v]) \subseteq R
      OBVIOUS
    <2>1. Strongest(t) /\ TableauTyped(t) /\ t.origins = s.t.origins
      BY <1>1, <1>2, SameStrongest DEF SameBounds
    <2>2. t.sup[v] \in Bound /\ t.inf[v] \in Bound /\ IsActive(t, t.sup[v]) /\ IsActive(t, t.inf[v])
      BY <2>1, ConflictingFinite
    <2>3. Origins(t, t.sup[v]) \in ToSet(t.origins[t.sup[v]]) /\ Origins(t, t.inf[v]) \in ToSet(t.origins[t.inf[v]])
      BY <2>1, <2>2, ActiveOrigins
    <2> QED BY <2>1, <2>2, <2>3 DEF Bounded, OriginsReceived
  <1> HIDE DEF conflict
  <1>5. /\ DOMAIN u = Fields /\ u.t = t /\ u.subsets = s.subsets \cup conflict /\ u.strict = s.strict
        /\ u.resolved = s.resolved /\ u.unresolved = s.unresolved /\ u.passed = s.passed
    BY <1>1, <1>3 DEF Fields
  <1> QED BY <1>2, <1>4, <1>5 DEF SameState, u

(* What a bound that is no longer active leaves as it was.                 *)
Loosened(t, u, b) ==
    /\ u.value = t.value /\ u.aside = t.aside /\ u.row = t.row
    /\ \A w \in Var : w # b.var \/ b \notin {t.sup[w], t.inf[w]} => u.sup[w] = t.sup[w] /\ u.inf[w] = t.inf[w]

(* Variable::deactivateBound finds the next strongest bound.               *)
LEMMA DeactivateBoundRight ==
  ASSUME NEW t, TableauTyped(t), NEW b \in Bound, ~IsActive(t, b),
         \A v \in Var : /\ SupRight(t, v) \/ (v = b.var /\ t.sup[v] = b)
                        /\ InfRight(t, v) \/ (v = b.var /\ t.inf[v] = b)
  PROVE  /\ TableauTyped(DeactivateBound(t, b)) /\ Strongest(DeactivateBound(t, b))
         /\ DeactivateBound(t, b).origins = t.origins /\ Loosened(t, DeactivateBound(t, b), b)
  <1> DEFINE v == b.var
             lowest(B) == CHOOSE u \in B : \A c \in B : ~Below(c, u)
             highest(B) == CHOOSE u \in B : \A c \in B : ~Below(u, c)
             uppers == {u \in UpperBounds[v] : IsActive(t, u)}
             lowers == {u \in LowerBounds[v] : IsActive(t, u)}
             sup == [t.sup EXCEPT ![v] = IF @ = b THEN lowest(uppers) ELSE @]
             inf == [t.inf EXCEPT ![v] = IF @ = b THEN highest(lowers) ELSE @]
             u == DeactivateBound(t, b)
  <1>1. u = [t EXCEPT !.sup[v] = IF @ = b THEN lowest(uppers) ELSE @,
                      !.inf[v] = IF @ = b THEN highest(lowers) ELSE @]
    BY DEF DeactivateBound
  <1>2. v \in Var
    BY Finite
  <1>3. uppers # {} /\ lowers # {}
    <2>1. NoUpper(v) \in UpperBounds[v] /\ NoLower(v) \in LowerBounds[v]
      BY <1>2 DEF UpperBounds, LowerBounds
    <2>2. IsActive(t, NoUpper(v)) /\ IsActive(t, NoLower(v))
      BY <1>2, Finite DEF IsActive
    <2> QED BY <2>1, <2>2
  <1> DEFINE up == lowest(uppers)
             low == highest(lowers)
  <1>4. up \in uppers /\ \A c \in uppers : ~Below(c, up)
    <2>1. uppers \subseteq UpperBounds[v]
      OBVIOUS
    <2> HIDE DEF uppers, v
    <2>2. \E x \in uppers : \A c \in uppers : ~Below(c, x)
      BY <1>2, <1>3, <2>1, LowestHighest
    <2> QED BY <2>2
  <1>5. low \in lowers /\ \A c \in lowers : ~Below(low, c)
    <2>1. lowers \subseteq LowerBounds[v]
      OBVIOUS
    <2> HIDE DEF lowers, v
    <2>2. \E x \in lowers : \A c \in lowers : ~Below(x, c)
      BY <1>2, <1>3, <2>1, LowestHighest
    <2> QED BY <2>2
  <1>6. /\ DOMAIN t = Members /\ DOMAIN t.sup = Var /\ DOMAIN t.inf = Var
    BY DEF TableauTyped
  <1>7. u = [t EXCEPT !.sup[v] = IF @ = b THEN up ELSE @, !.inf[v] = IF @ = b THEN low ELSE @]
    BY <1>1
  <1> HIDE DEF up, low, u, lowest, highest
  <1>8. /\ DOMAIN u = Members /\ u.origins = t.origins /\ u.row = t.row /\ u.value = t.value /\ u.aside = t.aside
        /\ u.sup = [t.sup EXCEPT ![v] = IF @ = b THEN up ELSE @]
        /\ u.inf = [t.inf EXCEPT ![v] = IF @ = b THEN low ELSE @]
    BY <1>6, <1>7 DEF Members
  <1>9. TableauTyped(u)
    BY <1>6, <1>8 DEF TableauTyped, Basic
  <1>10. \A q : IsActive(u, q) <=> IsActive(t, q)
    BY <1>8 DEF IsActive
  <1>11. ASSUME NEW w \in Var PROVE SupRight(u, w)
    <2>1. CASE u.sup[w] = t.sup[w] /\ SupRight(t, w)
      BY <1>10, <2>1 DEF SupRight
    <2>2. CASE w = v /\ u.sup[w] = up
      BY <1>4, <1>10, <2>2 DEF SupRight
    <2>3. (u.sup[w] = t.sup[w] /\ SupRight(t, w)) \/ (w = v /\ u.sup[w] = up)
      BY <1>2, <1>6, <1>8
    <2> QED BY <2>1, <2>2, <2>3
  <1>12. ASSUME NEW w \in Var PROVE InfRight(u, w)
    <2>1. CASE u.inf[w] = t.inf[w] /\ InfRight(t, w)
      BY <1>10, <2>1 DEF InfRight
    <2>2. CASE w = v /\ u.inf[w] = low
      BY <1>5, <1>10, <2>2 DEF InfRight
    <2>3. (u.inf[w] = t.inf[w] /\ InfRight(t, w)) \/ (w = v /\ u.inf[w] = low)
      BY <1>2, <1>6, <1>8
    <2> QED BY <2>1, <2>2, <2>3
  <1>13. Loosened(t, u, b)
    BY <1>2, <1>6, <1>8 DEF Loosened
  <1> QED BY <1>8, <1>9, <1>11, <1>12, <1>13 DEF Strongest, u

Neqs(s, R) == \A n \in R \cap Neq : NeqRight(s, n)

(* What a bound that loses an origin leaves.                               *)
Reduced(s, u, b, c, R) ==
    /\ Bounded(u, R) /\ Neqs(u, R) /\ u.strict = s.strict /\ (Inside(s.t) => Inside(u.t))
    /\ ToSet(u.t.origins[b]) = {o \in ToSet(s.t.origins[b]) : c \notin o}
    /\ \A q \in Bound \ {b} : u.t.origins[q] = s.t.origins[q]

LEMMA UnresolveRight ==
  ASSUME NEW R \in SUBSET Constraint, NEW s, Bounded(s, R), Neqs(s, R), NEW b \in Bound, IsActive(s.t, b),
         NEW new, DOMAIN new = Fields, new.resolved = s.resolved, new.unresolved = s.unresolved,
         new.passed = s.passed, \A q : IsActive(new.t, q) <=> IsActive(s.t, q) /\ q # b
  PROVE  LET u == Unresolve(new, b)
         IN  /\ DOMAIN u = Fields /\ u.t = new.t /\ u.subsets = new.subsets /\ u.strict = new.strict
             /\ Neqs(u, R) /\ NeqIn(u, R)
  <1> DEFINE left == {n \in NeqOf(b) \cap new.resolved : \A q \in ToSet(BoundsOf(n)) : ~IsActive(new.t, q)}
             u == Unresolve(new, b)
  <1>1. u = [new EXCEPT !.resolved = @ \ left, !.unresolved = @ \cup left, !.passed = @ \cup left]
    BY DEF Unresolve
  <1> HIDE DEF u
  <1>2. \A n \in left : n \in s.resolved /\ b \in ToSet(BoundsOf(n)) /\ Alone(new, n)
    BY DEF NeqOf, Alone
  <1>3. \A n \in Constraint : n.rel = "!=" /\ b \in ToSet(BoundsOf(n)) /\ n \in s.resolved /\ Alone(new, n) => n \in left
    BY DEF NeqOf, Alone
  <1> HIDE DEF left
  <1>4. /\ DOMAIN u = Fields /\ u.t = new.t /\ u.subsets = new.subsets /\ u.strict = new.strict
        /\ u.resolved = s.resolved \ left /\ u.unresolved = s.unresolved \cup left /\ u.passed = s.passed \cup left
    BY <1>1 DEF Fields
  <1>5. NeqIn(u, R)
    BY <1>2, <1>4 DEF Bounded, NeqIn
  <1>6. ASSUME NEW n \in R \cap Neq PROVE NeqRight(u, n)
    <2>1. NeqRight(s, n) /\ (Alone(u, n) <=> Alone(new, n)) /\ n \in Constraint /\ n.rel = "!="
      BY <1>4 DEF Neqs, Alone, Neq
    <2>2. CASE b \in ToSet(BoundsOf(n))
      <3>1. ~Alone(s, n)
        BY <2>2 DEF Alone
      <3>2. n \in s.resolved /\ n \notin s.unresolved
        BY <2>1, <3>1 DEF NeqRight
      <3>3. n \in left <=> Alone(new, n)
        BY <1>2, <1>3, <2>1, <2>2, <3>2
      <3> QED BY <1>4, <2>1, <3>2, <3>3 DEF NeqRight
    <2>3. CASE b \notin ToSet(BoundsOf(n))
      <3>1. Alone(new, n) <=> Alone(s, n)
        BY <2>3 DEF Alone
      <3>2. n \notin left
        BY <1>2, <2>3
      <3> QED BY <1>4, <2>1, <3>1, <3>2 DEF NeqRight
    <2> QED BY <2>2, <2>3
  <1> QED BY <1>4, <1>5, <1>6 DEF Neqs, u

Deactivated(s, u, origins, R) ==
    /\ Bounded(u, R) /\ Neqs(u, R) /\ u.strict = s.strict /\ u.t.origins = origins
    /\ Inside(s.t) => Inside(u.t)

LEMMA RestoreInside ==
  ASSUME NEW s, "t" \in DOMAIN s, "subsets" \in DOMAIN s, TableauTyped(s.t), OwnBounds(s.t), s.t.aside \subseteq Basic(s.t),
         NEW v \in Columns(s.t), \A w \in Columns(s.t) \ {v} : InsideAt(s.t, w), s.t.value[v] \in Int \X Int
  PROVE  Inside(Restore(s, v).t) /\ Restore(s, v).t.row = s.t.row
  <1> DEFINE t == IF TooHigh(s.t, v) THEN MoveNonbasic(s.t, v, s.t.sup[v].limit)
                  ELSE IF TooLow(s.t, v) THEN MoveNonbasic(s.t, v, s.t.inf[v].limit) ELSE s.t
  <1>1. Restore(s, v).t = t
    BY DEF Restore
  <1>2. CASE TooHigh(s.t, v) \/ TooLow(s.t, v)
    <2>1. /\ Inside(MoveNonbasic(s.t, v, s.t.sup[v].limit))
          /\ Inside(MoveNonbasic(s.t, v, s.t.inf[v].limit))
      BY MovedInside
    <2>2. \A x : MoveNonbasic(s.t, v, x).row = s.t.row
      BY DEF MoveNonbasic, TableauTyped, Members
    <2> QED BY <1>1, <1>2, <2>1, <2>2
  <1>3. CASE ~TooHigh(s.t, v) /\ ~TooLow(s.t, v)
    BY <1>1, <1>3 DEF Inside, InsideAt
  <1> QED BY <1>2, <1>3

LEMMA DeactivateRight ==
  ASSUME NEW R \in SUBSET Constraint, NEW s, Bounded(s, R), Neqs(s, R), NEW b \in Bound, IsActive(s.t, b),
         NEW new, DOMAIN new = Fields, TableauTyped(new.t), new.t.sup = s.t.sup, new.t.inf = s.t.inf,
         new.t.origins = [s.t.origins EXCEPT ![b] = <<>>], new.subsets = s.subsets, new.strict = s.strict,
         new.resolved = s.resolved, new.unresolved = s.unresolved, new.passed = s.passed,
         new.t.value = s.t.value, new.t.aside = s.t.aside, new.t.row = s.t.row
  PROVE  Deactivated(s, Deactivate(new, b), new.t.origins, R)
  <1> DEFINE v == b.var
             r == Unresolve(new, b)
             d == [r EXCEPT !.t = DeactivateBound(r.t, b)]
             u == Deactivate(new, b)
  <1>1. \A q : IsActive(new.t, q) <=> IsActive(s.t, q) /\ q # b
    <2>1. s.t.origins \in [Bound -> Seq(SUBSET Constraint)] /\ ~IsInfinite(b)
      BY Finite DEF Bounded, Typed, TableauTyped
    <2>2. new.t.origins[b] = <<>> /\ \A q : q # b => new.t.origins[q] = s.t.origins[q]
      BY <2>1
    <2> QED BY <2>1, <2>2 DEF IsActive
  <1>2. /\ DOMAIN r = Fields /\ r.t = new.t /\ r.subsets = new.subsets /\ r.strict = new.strict
        /\ Neqs(r, R) /\ NeqIn(r, R)
    BY <1>1, UnresolveRight
  <1> HIDE DEF r
  <1>3. v \in Var /\ ~IsActive(new.t, b)
    BY <1>1, Finite
  <1>4. ASSUME NEW w \in Var
        PROVE /\ SupRight(new.t, w) \/ (w = v /\ new.t.sup[w] = b)
              /\ InfRight(new.t, w) \/ (w = v /\ new.t.inf[w] = b)
    <2>1. SupRight(s.t, w) /\ InfRight(s.t, w)
      BY DEF Bounded, Strongest
    <2>2. b \in UpperBounds[w] \cup LowerBounds[w] => w = v
      BY BelowByKey
    <2> QED BY <1>1, <2>1, <2>2 DEF SupRight, InfRight
  <1>5. /\ TableauTyped(DeactivateBound(new.t, b)) /\ Strongest(DeactivateBound(new.t, b))
        /\ DeactivateBound(new.t, b).origins = new.t.origins /\ Loosened(new.t, DeactivateBound(new.t, b), b)
    BY <1>3, <1>4, DeactivateBoundRight
  <1>6. /\ DOMAIN d = Fields /\ d.t = DeactivateBound(new.t, b) /\ d.subsets = s.subsets /\ d.strict = s.strict
        /\ d.resolved = r.resolved /\ d.unresolved = r.unresolved /\ d.passed = r.passed
    BY <1>2 DEF Fields
  <1> HIDE DEF d
  <1>7. \A q : IsActive(d.t, q) <=> IsActive(new.t, q)
    BY <1>5, <1>6 DEF IsActive
  <1>8. Bounded(d, R) /\ Neqs(d, R)
    <2>1. Typed(d)
      BY <1>5, <1>6 DEF Bounded, Typed
    <2>2. \A q \in Bound : ToSet(d.t.origins[q]) \subseteq ToSet(s.t.origins[q])
      <3>1. s.t.origins \in [Bound -> Seq(SUBSET Constraint)] /\ ToSet(<<>>) = {}
        BY DEF Bounded, Typed, TableauTyped, ToSet
      <3>2. d.t.origins = new.t.origins
        BY ONLY <1>5, <1>6
      <3>3. new.t.origins = [s.t.origins EXCEPT ![b] = <<>>]
        OBVIOUS
      <3> QED BY ONLY <3>1, <3>2, <3>3
    <2>3. OriginsReceived(d, R) /\ OriginsTracked(d) /\ SubsetsIn(d, R)
      BY <1>6, <2>2 DEF Bounded, OriginsReceived, OriginsTracked, SubsetsIn
    <2>4. Neqs(d, R) /\ NeqIn(d, R)
      BY <1>2, <1>6, <1>7 DEF Neqs, NeqRight, NeqIn, Alone
    <2> QED BY <1>5, <1>6, <2>1, <2>3, <2>4 DEF Bounded
  <1> DEFINE changed == b \in {new.t.sup[v], new.t.inf[v]} /\ v \in Columns(new.t)
  <1>9. ASSUME Inside(s.t)
         PROVE  /\ d.t.aside \subseteq Basic(d.t) /\ OwnBounds(d.t) /\ Columns(d.t) = Columns(new.t)
                /\ \A w \in Columns(d.t) \ {v} : InsideAt(d.t, w)
                /\ v \in Columns(new.t) => d.t.value[v] \in Int \X Int
                /\ ~changed => Inside(d.t)
    <2>1. /\ d.t.value = s.t.value /\ d.t.aside = s.t.aside /\ d.t.row = s.t.row
          /\ \A w \in Var \ {v} : d.t.sup[w] = s.t.sup[w] /\ d.t.inf[w] = s.t.inf[w]
          /\ b \notin {s.t.sup[v], s.t.inf[v]} => d.t.sup[v] = s.t.sup[v] /\ d.t.inf[v] = s.t.inf[v]
      BY <1>3, <1>5, <1>6 DEF Loosened
    <2>2. Basic(d.t) = Basic(s.t) /\ Columns(d.t) = Columns(s.t) /\ Columns(new.t) = Columns(s.t)
      BY <2>1 DEF Basic, Columns
    <2>3. OwnBounds(d.t)
      BY <1>5, <1>6 DEF OwnBounds, Strongest, SupRight, InfRight
    <2>4. \A w \in Columns(s.t) : InsideAt(s.t, w) /\ w \in Var
      BY <1>9 DEF Inside, Columns
    <2>5. \A w \in Columns(d.t) \ {v} : InsideAt(d.t, w)
      BY <2>1, <2>2, <2>4 DEF InsideAt, IsConflicting, TooHigh, TooLow
    <2>6. b \notin {s.t.sup[v], s.t.inf[v]} /\ v \in Columns(d.t) => InsideAt(d.t, v)
      BY <2>1, <2>2, <2>4 DEF InsideAt, IsConflicting, TooHigh, TooLow
    <2>7. d.t.aside \subseteq Basic(d.t)
      BY <1>9, <2>1, <2>2 DEF Inside
    <2> QED BY <2>1, <2>2, <2>3, <2>4, <2>5, <2>6, <2>7 DEF Inside, InsideAt
  <1> DEFINE restored == IF b \in {new.t.sup[v], new.t.inf[v]} /\ v \in Columns(new.t) THEN Restore(d, v) ELSE d
  <1>10. u = IF v \in Basic(new.t) \cap SlackVar /\ ~HasBound(restored.t, v)
              THEN [restored EXCEPT !.t = DeactivateBasicVar(@, v)] ELSE restored
    <2>1. d = [r EXCEPT !.t = DeactivateBound(@, b)]
      BY <1>2 DEF d, Fields
    <2> QED BY <2>1 DEF Deactivate, r
  <1>11. SameState(d, restored, R)
    <2>1. SameState(d, d, R)
      BY <1>8 DEF Bounded, Typed, SameState, SameBounds
    <2> QED BY <1>3, <1>8, <2>1, RestoreRight
  <1>12. Inside(s.t) => Inside(restored.t) /\ Basic(restored.t) = Basic(new.t)
    <2> SUFFICES ASSUME Inside(s.t) PROVE Inside(restored.t) /\ Basic(restored.t) = Basic(new.t)
      OBVIOUS
    <2>1. d.t.row = new.t.row
      BY <1>5, <1>6 DEF Loosened
    <2>2. CASE changed
      <3>1. Inside(Restore(d, v).t) /\ Restore(d, v).t.row = d.t.row
        BY <1>5, <1>6, <1>9, <2>2, RestoreInside DEF Fields
      <3> QED BY <2>1, <2>2, <3>1 DEF Basic
    <2>3. CASE ~changed
      BY <1>9, <2>1, <2>3 DEF Basic
    <2> QED BY <2>2, <2>3
  <1> HIDE DEF restored, u
  <1>13. SameState(d, u, R)
    <2>1. CASE u = restored
      BY <1>11, <2>1
    <2>2. CASE u = [restored EXCEPT !.t = DeactivateBasicVar(@, v)]
      <3>1. SameBounds(restored.t, DeactivateBasicVar(restored.t, v))
        <4>1. TableauTyped(restored.t)
          BY <1>11 DEF SameState, SameBounds
        <4> QED BY <4>1, BoundsKept
      <3>2. /\ DOMAIN u = Fields /\ u.t = DeactivateBasicVar(restored.t, v) /\ u.subsets = restored.subsets
            /\ u.strict = restored.strict /\ u.resolved = restored.resolved
            /\ u.unresolved = restored.unresolved /\ u.passed = restored.passed
        BY <1>11, <2>2 DEF SameState, Fields
      <3> QED BY <1>11, <3>1, <3>2 DEF SameState, SameBounds
    <2> QED BY <1>10, <2>1, <2>2
  <1>14. Bounded(u, R)
    BY <1>8, <1>13, BoundedSame
  <1>15. Neqs(u, R) /\ u.strict = s.strict /\ u.t.origins = new.t.origins
    <2>1. \A q : IsActive(u.t, q) <=> IsActive(d.t, q)
      BY <1>13, SameStrongest DEF SameState
    <2> QED BY <1>5, <1>6, <1>8, <1>13, <2>1 DEF SameState, SameBounds, Neqs, NeqRight, Alone
  <1>16. Inside(s.t) => Inside(u.t)
    <2> SUFFICES ASSUME Inside(restored.t), v \in Basic(restored.t), u.t = DeactivateBasicVar(restored.t, v)
                 PROVE  Inside(u.t)
      BY <1>10, <1>11, <1>12 DEF SameState, Fields
    <2>1. DOMAIN restored.t = Members
      BY <1>11 DEF SameState, SameBounds, TableauTyped
    <2>2. /\ u.t.sup = restored.t.sup /\ u.t.inf = restored.t.inf /\ u.t.value = restored.t.value
          /\ u.t.row = restored.t.row /\ u.t.aside = restored.t.aside \cup {v}
      BY <2>1 DEF DeactivateBasicVar, Members
    <2> QED BY <2>2, SameInside DEF Inside, Basic
  <1> QED BY <1>14, <1>15, <1>16 DEF Deactivated, u

LEMMA WithoutOriginRight ==
  ASSUME NEW R \in SUBSET Constraint, NEW s, Bounded(s, R), Neqs(s, R), NEW b \in Bound, NEW c
  PROVE  Reduced(s, WithoutOrigin(s, b, c), b, c, R)
  <1> DEFINE kept == Without(s.t.origins[b], c)
             new == [s EXCEPT !.t.origins[b] = kept]
             u == WithoutOrigin(s, b, c)
  <1>1. /\ DOMAIN s = Fields /\ TableauTyped(s.t) /\ DOMAIN s.t = Members
        /\ s.t.origins \in [Bound -> Seq(SUBSET Constraint)]
    BY DEF Bounded, Typed, TableauTyped
  <1>2. /\ kept \in Seq(SUBSET Constraint)
        /\ ToSet(kept) = {o \in ToSet(s.t.origins[b]) : c \notin o}
    <2>1. s.t.origins[b] \in Seq(SUBSET Constraint)
      BY <1>1
    <2> QED BY <2>1, WithoutRight
  <1> HIDE DEF kept
  <1>3. /\ DOMAIN new = Fields /\ new.subsets = s.subsets /\ new.strict = s.strict
        /\ new.resolved = s.resolved /\ new.unresolved = s.unresolved /\ new.passed = s.passed
        /\ DOMAIN new.t = Members /\ new.t.sup = s.t.sup /\ new.t.inf = s.t.inf /\ new.t.row = s.t.row
        /\ new.t.value = s.t.value /\ new.t.aside = s.t.aside
        /\ new.t.origins = [s.t.origins EXCEPT ![b] = kept]
    BY <1>1 DEF Fields, Members
  <1> HIDE DEF new
  <1>4. TableauTyped(new.t)
    BY <1>1, <1>2, <1>3 DEF TableauTyped, Basic
  <1>5. u = IF s.t.origins[b] # <<>> /\ kept = <<>> THEN Deactivate(new, b) ELSE new
    BY DEF WithoutOrigin, new, kept
  <1> HIDE DEF u
  <1>6. CASE s.t.origins[b] # <<>> /\ kept = <<>>
    <2>1. IsActive(s.t, b)
      BY <1>1, <1>6, ActiveOrigins
    <2>2. new.t.origins = [s.t.origins EXCEPT ![b] = <<>>]
      BY <1>3, <1>6
    <2>3. /\ Bounded(u, R) /\ Neqs(u, R) /\ u.strict = s.strict /\ u.t.origins = new.t.origins
          /\ Inside(s.t) => Inside(u.t)
      <3>1. Deactivated(s, Deactivate(new, b), new.t.origins, R)
        BY <1>3, <1>4, <2>1, <2>2, DeactivateRight
      <3> QED BY <1>5, <1>6, <3>1 DEF Deactivated
    <2>4. u.t.origins[b] = kept /\ \A q \in Bound \ {b} : u.t.origins[q] = s.t.origins[q]
      BY <1>1, <1>3, <2>3
    <2> QED BY <1>2, <2>3, <2>4 DEF Reduced, u
  <1>7. CASE ~(s.t.origins[b] # <<>> /\ kept = <<>>)
    <2>1. u = new
      BY <1>5, <1>7
    <2>2. kept = <<>> <=> s.t.origins[b] = <<>>
      <3>1. ToSet(<<>>) = {}
        BY DEF ToSet
      <3>2. s.t.origins[b] = <<>> => kept = <<>>
        <4>1. ASSUME ToSet(kept) = {} PROVE kept = <<>>
          BY <1>2, <4>1, LenProperties, EmptySeq DEF ToSet
        <4> QED BY <1>2, <3>1, <4>1
      <3> QED BY <1>7, <3>2
    <2>3. \A q : IsActive(new.t, q) <=> IsActive(s.t, q)
      <3>1. new.t.origins[b] = kept /\ \A q : q # b => new.t.origins[q] = s.t.origins[q]
        BY <1>1, <1>3
      <3> QED BY <2>2, <3>1 DEF IsActive
    <2>4. new.t.origins[b] = kept /\ \A q \in Bound \ {b} : new.t.origins[q] = s.t.origins[q]
      BY <1>1, <1>3
    <2>5. \A q \in Bound : ToSet(new.t.origins[q]) \subseteq ToSet(s.t.origins[q])
      BY <1>2, <2>4
    <2>6. Typed(new)
      BY <1>3, <1>4 DEF Bounded, Typed
    <2>7. Strongest(new.t)
      BY <1>3, <2>3 DEF Bounded, Strongest, SupRight, InfRight
    <2>8. OriginsReceived(new, R) /\ OriginsTracked(new) /\ SubsetsIn(new, R) /\ NeqIn(new, R)
      BY <1>3, <2>5 DEF Bounded, OriginsReceived, OriginsTracked, SubsetsIn, NeqIn
    <2>9. Neqs(new, R)
      BY <1>3, <2>3 DEF Neqs, NeqRight, Alone
    <2>10. Bounded(new, R)
      BY <2>6, <2>7, <2>8 DEF Bounded
    <2>11. Inside(s.t) => Inside(new.t)
      <3>1. Inside(s.t) => new.t.aside \subseteq Basic(new.t) /\ Basic(new.t) = Basic(s.t)
        BY <1>3 DEF Inside, Basic
      <3> QED BY <1>3, <3>1, SameInside
    <2> QED BY <1>2, <1>3, <2>1, <2>4, <2>9, <2>10, <2>11 DEF Reduced, u
  <1> QED BY <1>6, <1>7

LEMMA WithdrawnFunction ==
  ASSUME NEW S, NEW bounds \in Seq(S), NEW s, NEW c
  PROVE  \E f : /\ f = [n \in 0 .. Len(bounds) |-> IF n = 0 THEN s ELSE WithoutOrigin(f[n - 1], bounds[n], c)]
                /\ Withdrawn(s, bounds, c) = f[Len(bounds)]
  <1> DEFINE Step(f, n) == IF n = 0 THEN s ELSE WithoutOrigin(f[n - 1], bounds[n], c)
             X == {n \in Nat : \E f : f = [m \in 0 .. n |-> Step(f, m)]}
  <1>1. 0 \in X
    <2> DEFINE f == [m \in 0 .. 0 |-> s]
    <2>1. f = [m \in 0 .. 0 |-> Step(f, m)]
      OBVIOUS
    <2> QED BY <2>1
  <1>2. ASSUME NEW n \in Nat, n \in X PROVE n + 1 \in X
    <2>1. PICK f : f = [m \in 0 .. n |-> Step(f, m)]
      BY <1>2
    <2> DEFINE last == WithoutOrigin(f[n], bounds[n + 1], c)
               g == [m \in 0 .. n + 1 |-> IF m = n + 1 THEN last ELSE f[m]]
    <2>2. \A m \in 0 .. n : f[m] = Step(f, m)
      <3> HIDE DEF Step
      <3> QED BY <2>1
    <2>3. ASSUME NEW m \in 0 .. n + 1 PROVE g[m] = Step(g, m)
      <3>1. CASE m = n + 1
        <4>1. g[m] = last /\ g[m - 1] = f[n] /\ m # 0
          BY <1>2, <3>1
        <4> QED BY <3>1, <4>1
      <3>2. CASE m \in 0 .. n /\ m # 0
        <4>1. m - 1 \in 0 .. n /\ m # n + 1 /\ m - 1 # n + 1 /\ m - 1 \in 0 .. n + 1
          BY <1>2, <3>2
        <4>2. g[m] = f[m] /\ g[m - 1] = f[m - 1]
          BY <4>1
        <4> QED BY <2>2, <3>2, <4>2
      <3>3. CASE m = 0
        BY <1>2, <2>2, <3>3
      <3> QED BY <1>2, <3>1, <3>2, <3>3
    <2>4. g = [m \in 0 .. n + 1 |-> g[m]]
      OBVIOUS
    <2> HIDE DEF g, Step
    <2>5. g = [m \in 0 .. n + 1 |-> Step(g, m)]
      BY <2>3, <2>4
    <2> QED BY <2>5
  <1>3. Len(bounds) \in X
    <2>1. Nat \subseteq X
      <3> HIDE DEF X
      <3> QED BY <1>1, <1>2, NumbersFrom0
    <2>2. Len(bounds) \in Nat
      BY LenProperties
    <2> HIDE DEF X
    <2> QED BY <2>1, <2>2
  <1> DEFINE Good(f) == f = [n \in 0 .. Len(bounds) |-> Step(f, n)]
             h == CHOOSE f : Good(f)
  <1>4. \E f : Good(f)
    BY <1>3
  <1>5. Good(h)
    <2> HIDE DEF Good
    <2> QED BY <1>4
  <1>6. Withdrawn(s, bounds, c) = h[Len(bounds)]
    BY DEF Withdrawn
  <1> HIDE DEF h
  <1> QED BY <1>5, <1>6

(* Once all bounds of a constraint, and the strict ones it answers for,    *)
(* are withdrawn, it is an origin of no bound.                             *)
Drained(s, u, c, R) ==
    /\ Bounded(u, R) /\ Neqs(u, R) /\ u.strict = s.strict /\ (Inside(s.t) => Inside(u.t))
    /\ \A q \in Bound : {o \in ToSet(s.t.origins[q]) : c \notin o} \subseteq ToSet(u.t.origins[q])

Clear(u, bounds, c) == \A q \in ToSet(bounds) : \A o \in ToSet(u.t.origins[q]) : c \notin o

LEMMA WithdrawnRight ==
  ASSUME NEW R \in SUBSET Constraint, NEW s, Bounded(s, R), Neqs(s, R), NEW bounds \in Seq(Bound), NEW c
  PROVE  Drained(s, Withdrawn(s, bounds, c), c, R) /\ Clear(Withdrawn(s, bounds, c), bounds, c)
  <1>1. PICK f : /\ f = [n \in 0 .. Len(bounds) |-> IF n = 0 THEN s ELSE WithoutOrigin(f[n - 1], bounds[n], c)]
                 /\ Withdrawn(s, bounds, c) = f[Len(bounds)]
    BY WithdrawnFunction
  <1>2. Len(bounds) \in Nat /\ DOMAIN bounds = 1 .. Len(bounds) /\ \A i \in 1 .. Len(bounds) : bounds[i] \in Bound
    BY LenProperties, ElementOfSeq
  <1>3. f[0] = s /\ \A n \in 1 .. Len(bounds) : f[n] = WithoutOrigin(f[n - 1], bounds[n], c)
    BY <1>1, <1>2
  <1> DEFINE Clean(n) == \A i \in 1 .. n : \A o \in ToSet(f[n].t.origins[bounds[i]]) : c \notin o
             X == {n \in Nat : n \in 0 .. Len(bounds) => Drained(s, f[n], c, R) /\ Clean(n)}
  <1>4. 0 \in X
    <2>1. Drained(s, s, c, R)
      BY DEF Drained
    <2> QED BY <1>3, <2>1
  <1>5. ASSUME NEW n \in Nat, n \in X PROVE n + 1 \in X
    <2>1. SUFFICES ASSUME n + 1 \in 0 .. Len(bounds) PROVE Drained(s, f[n + 1], c, R) /\ Clean(n + 1)
      OBVIOUS
    <2>2. n \in 0 .. Len(bounds) /\ (n + 1) - 1 = n /\ n + 1 \in 1 .. Len(bounds)
          /\ 1 .. n + 1 = (1 .. n) \cup {n + 1}
      BY <1>2, <2>1
    <2>3. Drained(s, f[n], c, R) /\ Clean(n)
      BY <1>5, <2>2
    <2> DEFINE b == bounds[n + 1]
    <2>4. b \in Bound /\ f[n + 1] = WithoutOrigin(f[n], b, c)
      BY <1>2, <1>3, <2>2
    <2> HIDE DEF b
    <2>5. Reduced(f[n], f[n + 1], b, c, R)
      BY <2>3, <2>4, WithoutOriginRight DEF Drained
    <2>6. \A q \in Bound : /\ ToSet(f[n + 1].t.origins[q]) \subseteq ToSet(f[n].t.origins[q])
                           /\ {o \in ToSet(f[n].t.origins[q]) : c \notin o} \subseteq ToSet(f[n + 1].t.origins[q])
      BY <2>5 DEF Reduced
    <2>7. Drained(s, f[n + 1], c, R)
      BY <2>3, <2>5, <2>6 DEF Drained, Reduced
    <2>8. Clean(n + 1)
      <3> SUFFICES ASSUME NEW i \in 1 .. n + 1, NEW o \in ToSet(f[n + 1].t.origins[bounds[i]]) PROVE c \notin o
        OBVIOUS
      <3>1. CASE i \in 1 .. n
        <4>1. bounds[i] \in Bound
          BY <1>2, <2>2, <3>1
        <4> QED BY <2>3, <2>6, <3>1, <4>1
      <3>2. CASE i = n + 1
        BY <2>5, <3>2 DEF Reduced, b
      <3> QED BY <2>2, <3>1, <3>2
    <2> HIDE DEF Clean
    <2> QED BY <2>7, <2>8
  <1>6. Nat \subseteq X
    <2> HIDE DEF X
    <2> QED BY <1>4, <1>5, NumbersFrom0
  <1>7. Drained(s, f[Len(bounds)], c, R) /\ Clean(Len(bounds))
    <2>1. Len(bounds) \in X
      <3> HIDE DEF X
      <3> QED BY <1>2, <1>6
    <2>2. Len(bounds) \in 0 .. Len(bounds)
      BY <1>2
    <2> HIDE DEF Clean
    <2> QED BY <2>1, <2>2
  <1>8. \A q \in ToSet(bounds) : \E i \in 1 .. Len(bounds) : q = bounds[i]
    BY <1>2 DEF ToSet
  <1> QED BY <1>1, <1>7, <1>8 DEF Clear

LEMMA ListOfSet ==
  ASSUME NEW S, IsFiniteSet(S)
  PROVE  SetToSeq(S) \in Seq(S) /\ ToSet(SetToSeq(S)) = S
  <1> DEFINE n == Cardinality(S)
             f == SetToSeq(S)
  <1>1. n \in Nat /\ ExistsBijection(1 .. n, S)
    BY FS_CardinalityType
  <1> HIDE DEF n
  <1>2. \E g \in [1 .. n -> S] : IsInjective(g)
    BY <1>1 DEF ExistsBijection, Bijection, Injection
  <1>3. f \in [1 .. n -> S] /\ IsInjective(f)
    BY <1>2 DEF SetToSeq, n
  <1> HIDE DEF f
  <1>4. f \in Injection(1 .. n, S)
    BY <1>3 DEF Injection
  <1>5. Cardinality(1 .. n) = n
    BY <1>1, FS_Interval
  <1>6. f \in Surjection(1 .. n, S)
    BY <1>4, <1>5, FS_Injection DEF n
  <1>7. f \in Seq(S) /\ DOMAIN f = 1 .. n
    BY <1>1, <1>3
  <1>8. ToSet(f) = S
    BY <1>3, <1>6, <1>7 DEF Surjection, ToSet
  <1> QED BY <1>7, <1>8 DEF f

LEMMA ListsTogether ==
  ASSUME NEW S, NEW x \in Seq(S), NEW y \in Seq(S)
  PROVE  x \o y \in Seq(S) /\ ToSet(x) \cup ToSet(y) \subseteq ToSet(x \o y)
  <1>1. x \o y \in Seq(S) /\ Len(x \o y) = Len(x) + Len(y)
    BY ConcatProperties
  <1>2. \A i \in 1 .. Len(x) + Len(y) : (x \o y)[i] = IF i <= Len(x) THEN x[i] ELSE y[i - Len(x)]
    BY ConcatProperties
  <1>3. Len(x) \in Nat /\ Len(y) \in Nat /\ DOMAIN x = 1 .. Len(x) /\ DOMAIN y = 1 .. Len(y)
        /\ DOMAIN (x \o y) = 1 .. Len(x) + Len(y)
    BY <1>1, LenProperties
  <1>4. ASSUME NEW i \in 1 .. Len(x) PROVE x[i] \in ToSet(x \o y)
    <2>1. i \in 1 .. Len(x) + Len(y) /\ i <= Len(x)
      BY <1>3
    <2>2. (x \o y)[i] = x[i]
      BY <1>2, <2>1
    <2> QED BY <1>3, <2>1, <2>2 DEF ToSet
  <1>5. ASSUME NEW i \in 1 .. Len(y) PROVE y[i] \in ToSet(x \o y)
    <2>1. i + Len(x) \in 1 .. Len(x) + Len(y) /\ ~(i + Len(x) <= Len(x)) /\ (i + Len(x)) - Len(x) = i
      BY <1>3
    <2>2. (x \o y)[i + Len(x)] = y[i]
      BY <1>2, <2>1
    <2> QED BY <1>3, <2>1, <2>2 DEF ToSet
  <1> QED BY <1>1, <1>3, <1>4, <1>5 DEF ToSet

LEMMA RemoveRight ==
  ASSUME NEW R \in SUBSET Constraint, NEW s, Whole(s, R), NEW c \in R,
         NEW u, u = Withdrawn(s, BoundsOf(c) \o SetToSeq(s.strict[c]), c),
         NEW w, DOMAIN w = Fields, w.t = u.t, w.strict = [s.strict EXCEPT ![c] = {b \in @ : IsActive(u.t, b)}],
         w.subsets = {S \in u.subsets : c \notin S}, w.resolved = u.resolved \ {c},
         w.unresolved = u.unresolved \ {c}, w.passed = u.passed \ ({c} \cap u.unresolved)
  PROVE  Whole(w, R \ {c})
  <1> DEFINE bounds == BoundsOf(c) \o SetToSeq(s.strict[c])
  <1>1. /\ Bounded(s, R) /\ Neqs(s, R) /\ OwnOrigin(s, R) /\ c \in Constraint
        /\ s.strict \in [Constraint -> SUBSET Bound] /\ \A d \in Constraint : IsFiniteSet(s.strict[d])
    BY DEF Whole, Neqs, Bounded, Typed
  <1>2. /\ bounds \in Seq(Bound)
        /\ ToSet(BoundsOf(c)) \cup s.strict[c] \subseteq ToSet(bounds)
    <2>1. BoundsOf(c) \in Seq(Bound)
      BY <1>1, BoundsOfConstraint
    <2>2. SetToSeq(s.strict[c]) \in Seq(s.strict[c]) /\ ToSet(SetToSeq(s.strict[c])) = s.strict[c]
      BY <1>1, ListOfSet
    <2>3. s.strict[c] \subseteq Bound
      BY <1>1
    <2>4. SetToSeq(s.strict[c]) \in Seq(Bound)
      BY <2>2, <2>3, SeqMonotonic
    <2> QED BY <2>1, <2>2, <2>4, ListsTogether
  <1> HIDE DEF bounds
  <1>3. Drained(s, u, c, R) /\ \A q \in ToSet(bounds) : \A o \in ToSet(u.t.origins[q]) : c \notin o
    <2>1. u = Withdrawn(s, bounds, c)
      BY DEF bounds
    <2>2. Drained(s, u, c, R) /\ Clear(u, bounds, c)
      BY <1>1, <1>2, <2>1, WithdrawnRight
    <2> QED BY <2>2 DEF Clear
  <1>4. Bounded(u, R) /\ Neqs(u, R) /\ u.strict = s.strict
    BY <1>3 DEF Drained
  <1>5. \A q \in Bound : \A o \in ToSet(u.t.origins[q]) : c \notin o
    <2> SUFFICES ASSUME NEW q \in Bound, NEW o \in ToSet(u.t.origins[q]), c \in o PROVE FALSE
      OBVIOUS
    <2>1. q \in ToSet(BoundsOf(c)) \cup s.strict[c]
      BY <1>4 DEF Bounded, OriginsTracked
    <2> QED BY <1>2, <1>3, <2>1
  <1>6. OriginsReceived(w, R \ {c}) /\ OriginsTracked(w)
    <2> SUFFICES ASSUME NEW q \in Bound, NEW o \in ToSet(u.t.origins[q])
                 PROVE  o \subseteq R \ {c} /\ \A d \in o : q \in ToSet(BoundsOf(d)) \cup w.strict[d]
      BY DEF OriginsReceived, OriginsTracked
    <2>1. o \subseteq R /\ c \notin o
      BY <1>4, <1>5 DEF Bounded, OriginsReceived
    <2>2. \A d \in o : q \in ToSet(BoundsOf(d)) \cup s.strict[d]
      BY <1>4 DEF Bounded, OriginsTracked
    <2>3. \A d \in o : w.strict[d] = s.strict[d]
      BY <1>1, <2>1
    <2> QED BY <2>1, <2>2, <2>3
  <1>7. Typed(w)
    <2>1. {b \in s.strict[c] : IsActive(u.t, b)} \subseteq s.strict[c]
      OBVIOUS
    <2>2. IsFiniteSet({b \in s.strict[c] : IsActive(u.t, b)})
      BY <1>1, <2>1, FS_Subset
    <2>3. w.strict \in [Constraint -> SUBSET Bound] /\ \A d \in Constraint : IsFiniteSet(w.strict[d])
      <3> DEFINE K == {b \in s.strict[c] : IsActive(u.t, b)}
      <3>1. w.strict = [s.strict EXCEPT ![c] = K]
        OBVIOUS
      <3>2. K \subseteq Bound /\ IsFiniteSet(K)
        BY ONLY <1>1, <2>1, <2>2
      <3> QED
        <4> HIDE DEF K
        <4> QED BY ONLY <1>1, <3>1, <3>2
    <2> QED BY <1>4, <2>3 DEF Bounded, Typed
  <1>8. SubsetsIn(w, R \ {c})
    BY <1>4 DEF Bounded, SubsetsIn
  <1>9. NeqIn(w, R \ {c})
    BY <1>4 DEF Bounded, NeqIn
  <1>10. OwnOrigin(w, R \ {c})
    <2> SUFFICES ASSUME NEW d \in R \ Neq, d # c PROVE {d} \in ToSet(u.t.origins[BoundsOf(d)[1]])
      BY DEF OwnOrigin
    <2>1. {d} \in ToSet(s.t.origins[BoundsOf(d)[1]]) /\ BoundsOf(d)[1] \in Bound
      BY <1>1, OwnBound DEF OwnOrigin
    <2> QED BY <1>3, <2>1 DEF Drained
  <1>11. \A n \in (R \ {c}) \cap Neq : NeqRight(w, n)
    BY <1>4 DEF Neqs, NeqRight, Alone
  <1>12. Strongest(w.t)
    BY <1>4 DEF Bounded
  <1>13. Inside(w.t)
    BY <1>3 DEF Whole, Drained
  <1> QED BY <1>6, <1>7, <1>8, <1>9, <1>10, <1>11, <1>12, <1>13 DEF Whole, Bounded

-----------------------------------------------------------------------------
(* getConflict: all bounds of a row in conflict are active.                *)
LEMMA RowConflict ==
  ASSUME NEW t, TableauTyped(t), Strongest(t), NEW v \in ToConsider(t), InConflict(t, v), NEW b \in GetConflict(t, v)
  PROVE  b \in Bound /\ IsActive(t, b)
  <1> DEFINE low == TooLow(t, v)
             broken == IF low THEN {q \in LowerBounds[v] \cap Bound : IsActive(t, q) /\ Less(t.value[v], q.limit)}
                              ELSE {q \in UpperBounds[v] \cap Bound : IsActive(t, q) /\ Less(q.limit, t.value[v])}
             weakest == CHOOSE q \in broken : \A c \in broken : IF low THEN ~Below(c, q) ELSE ~Below(q, c)
             reason(x) == IF (t.row[v][x] > 0) = low THEN t.sup[x] ELSE t.inf[x]
             reasons == {reason(x) : x \in Entries(t, v)}
  <1>1. \A x \in Var : /\ t.sup[x] \in UpperBounds[x] /\ IsActive(t, t.sup[x])
                       /\ t.inf[x] \in LowerBounds[x] /\ IsActive(t, t.inf[x])
    BY DEF Strongest, SupRight, InfRight
  <1>2. v \in Violated(t) /\ v \in Var
    <2>1. BagToSet(Listed(t).conflicting) \subseteq Violated(t)
      BY DEF TableauTyped, Members, Listed, BagToSet
    <2>2. v \in Violated(t)
      BY <2>1 DEF ToConsider
    <2> QED BY <2>2 DEF Violated, Rows, TableauTyped
  <1>3. broken # {} /\ broken \subseteq Bound
    <2>1. CASE low
      BY <1>1, <1>2, <2>1, Finite DEF TooLow
    <2>2. CASE ~low
      BY <1>1, <1>2, <2>2, Finite DEF Violated, TooHigh
    <2> QED BY <2>1, <2>2
  <1>4. weakest \in broken
    <2>1. (low => broken \subseteq LowerBounds[v]) /\ (~low => broken \subseteq UpperBounds[v])
      <3> HIDE DEF low
      <3> QED OBVIOUS
    <2> HIDE DEF broken, low
    <2>2. \E q \in broken : \A c \in broken : IF low THEN ~Below(c, q) ELSE ~Below(q, c)
      BY <1>2, <1>3, <2>1, LowestHighest
    <2> QED BY <2>2
  <1>5. \A q \in broken : IsActive(t, q)
    OBVIOUS
  <1>6. ASSUME NEW x \in Entries(t, v) PROVE reason(x) \in Bound /\ IsActive(t, reason(x))
    <2>1. x \in Var
      BY DEF Entries, Columns
    <2>2. x \notin Suitable(t, v, low)
      BY DEF InConflict
    <2>3. CASE (t.row[v][x] > 0) = low
      <3>1. ~IsInfinite(t.sup[x])
        BY <2>2, <2>3 DEF Suitable, LessUpper
      <3> QED BY <1>1, <2>1, <2>3, <3>1, Finite
    <2>4. CASE (t.row[v][x] > 0) # low
      <3>1. ~IsInfinite(t.inf[x])
        BY <2>2, <2>4 DEF Suitable, GreaterLower
      <3> QED BY <1>1, <2>1, <2>4, <3>1, Finite
    <2> QED BY <2>3, <2>4
  <1>7. GetConflict(t, v) = {weakest} \cup reasons
    BY DEF GetConflict
  <1>8. \A q \in reasons : q \in Bound /\ IsActive(t, q)
    <2> HIDE DEF reason
    <2> QED BY <1>6
  <1> HIDE DEF weakest, broken, reasons
  <1> QED BY <1>3, <1>4, <1>5, <1>7, <1>8

-----------------------------------------------------------------------------
(* Pivoting leaves the nonbasic variables within their bounds: the basic   *)
(* variable that becomes nonbasic is moved to the limit it violated.       *)
LEMMA CandidatesViolated ==
  ASSUME NEW t, TableauTyped(t), NEW v \in Candidates(t)
  PROVE  v \in Rows(t) /\ v \in Var
  <1>1. BagToSet(Listed(t).conflicting) \subseteq Violated(t)
    BY DEF TableauTyped, Members, Listed, BagToSet
  <1>2. v \in Violated(t)
    BY <1>1 DEF Candidates, ToConsider
  <1> QED BY <1>2 DEF Violated, Rows, TableauTyped

LEMMA PivotLeaves ==
  ASSUME NEW t, TableauTyped(t), NEW v \in Var, NEW x \in Var
  PROVE  /\ Pivot(t, v, x).aside \subseteq t.aside \cup {x}
         /\ Basic(Pivot(t, v, x)) = (Basic(t) \ {v}) \cup {x}
         /\ Pivot(t, v, x).value[v] = Target(t, v)
         /\ \A w \in Columns(t) \ {v, x} : Pivot(t, v, x).value[w] = t.value[w]
  <1> DEFINE p == t.row[v][x]
             theta == Times(p, Minus(Target(t, v), t.value[v]))
             new == [w \in Var |-> IF w = v THEN p ELSE IF w = x THEN 0 ELSE -p * t.row[v][w]]
             changed == ColumnRows(t, x) \ {v}
             value == [w \in Var |->
                         IF w = v THEN Target(t, v)
                         ELSE IF w = x THEN Plus(t.value[x], theta)
                         ELSE IF w \in changed THEN Plus(t.value[w], Times(t.row[w][x], theta))
                         ELSE t.value[w]]
             row == [w \in (Basic(t) \ {v}) \cup {x} |->
                         IF w = x THEN new
                         ELSE IF w \in changed
                           THEN [y \in Var |-> (IF y = x THEN 0 ELSE t.row[w][y]) + t.row[w][x] * new[y]]
                         ELSE t.row[w]]
             listed == {w \in changed : LessUpper(value[w], t.sup[w]) \/ GreaterLower(value[w], t.inf[w])}
             done == [t EXCEPT !.row = row, !.value = value, !.steps = NextStep(@),
                               !.conflicting = @ (+) SetToBag(listed)]
  <1>1. Pivot(t, v, x) = done \/ Pivot(t, v, x) = DeactivateBasicVar(done, x)
    BY DEF Pivot
  <1>2. value[v] = Target(t, v)
    BY DEF Target
  <1>3. \A w \in Columns(t) \ {v, x} : value[w] = t.value[w]
    <2>1. \A w \in Columns(t) : w \in Var /\ w \notin changed
      BY DEF Columns, ColumnRows, Rows
    <2> HIDE DEF changed, theta
    <2> QED BY <2>1
  <1>4. DOMAIN row = (Basic(t) \ {v}) \cup {x}
    OBVIOUS
  <1> HIDE DEF row, value, listed
  <1>5. DOMAIN done = Members /\ done.row = row /\ done.value = value /\ done.aside = t.aside
    BY DEF TableauTyped, Members
  <1> HIDE DEF done
  <1>6. LET u == DeactivateBasicVar(done, x)
        IN  u.row = row /\ u.value = value /\ u.aside = t.aside \cup {x}
    BY <1>5 DEF DeactivateBasicVar, Members
  <1> QED BY <1>1, <1>2, <1>3, <1>4, <1>5, <1>6 DEF Basic

LEMMA PivotInside ==
  ASSUME NEW t, TableauTyped(t), OwnBounds(t), Inside(t), NEW v \in Rows(t), NEW x \in Columns(t)
  PROVE  Inside(Pivot(t, v, x))
  <1> DEFINE u == Pivot(t, v, x)
  <1>1. v \in Var /\ x \in Var /\ v \notin t.aside /\ v \in Basic(t) /\ v # x
    BY DEF Rows, Columns, TableauTyped
  <1>2. /\ u.aside \subseteq t.aside \cup {x} /\ Basic(u) = (Basic(t) \ {v}) \cup {x}
        /\ u.value[v] = Target(t, v)
        /\ \A w \in Columns(t) \ {x} : u.value[w] = t.value[w]
    BY <1>1, PivotLeaves DEF Columns
  <1>3. u.sup = t.sup /\ u.inf = t.inf
    <2>1. SameBounds(t, Pivot(t, v, x))
      BY <1>1, BoundsKept
    <2> QED BY <2>1 DEF SameBounds
  <1> HIDE DEF u
  <1>4. u.aside \subseteq Basic(u)
    BY <1>1, <1>2 DEF Inside
  <1>5. \A w \in Columns(t) \ {x} : InsideAt(u, w)
    BY <1>2, <1>3 DEF Inside, InsideAt, IsConflicting, TooHigh, TooLow
  <1>6. InsideAt(u, v)
    <2>1. t.sup[v].limit \in Int \X Int /\ t.inf[v].limit \in Int \X Int
      BY <1>1, LimitTyped DEF OwnBounds
    <2>2. IsConflicting(u, v) <=> Less(t.sup[v].limit, t.inf[v].limit)
      BY <1>1, <1>3, ConflictingLess DEF OwnBounds
    <2>3. ~Less(t.sup[v].limit, t.sup[v].limit) /\ ~Less(t.inf[v].limit, t.inf[v].limit)
      BY <2>1, LessOrder
    <2>4. u.value[v] = t.sup[v].limit \/ u.value[v] = t.inf[v].limit
      BY <1>2 DEF Target
    <2> QED BY <1>3, <2>1, <2>2, <2>3, <2>4 DEF InsideAt, TooHigh, TooLow
  <1>7. Columns(u) = (Columns(t) \ {x}) \cup {v}
    BY <1>1, <1>2 DEF Columns
  <1> QED BY <1>4, <1>5, <1>6, <1>7 DEF Inside, u

LEMMA PivotStepInside ==
  ASSUME NEW t, TableauTyped(t), OwnBounds(t), Inside(t), NEW v \in Candidates(t), NEW x \in BestEntries(t, v)
  PROVE  Inside(Pivot(Chosen(t, v), v, x))
  <1> DEFINE u == Chosen(t, v)
  <1>1. u.row = t.row /\ u.aside = t.aside /\ u.value = t.value
    BY DEF Chosen, Listed, TableauTyped, Members
  <1>2. TableauTyped(u) /\ u.sup = t.sup /\ u.inf = t.inf
    BY BoundsKept DEF SameBounds
  <1> HIDE DEF u
  <1>3. Basic(u) = Basic(t) /\ u.aside \subseteq Basic(u)
    BY <1>1 DEF Basic, Inside
  <1>4. Inside(u) /\ OwnBounds(u)
    BY <1>1, <1>2, <1>3, SameInside DEF OwnBounds
  <1>5. v \in Rows(u)
    BY <1>1, <1>3, CandidatesViolated DEF Rows
  <1>6. x \in Columns(u)
    BY <1>3 DEF BestEntries, Suitable, Entries, Columns
  <1> QED BY <1>2, <1>4, <1>5, <1>6, PivotInside DEF u

-----------------------------------------------------------------------------
(* The inductive invariant: an active bound lists for every constraint     *)
(* that stands for it an origin of its own, every origin of a bound is     *)
(* received and can be found again from each of its constraints, and the   *)
(* bounds of each variable are its strongest active ones.                  *)
IInv == /\ TypeOK /\ Whole(State, received)
        /\ answer = "UNSAT" => mInfeasibleSubsets # {}

LEMMA WholeSame ==
  ASSUME NEW R, NEW s, Whole(s, R), NEW w, DOMAIN w = Fields, w.t = s.t, w.subsets = s.subsets, w.strict = s.strict,
         w.resolved = s.resolved, w.unresolved = s.unresolved, w.passed = s.passed
  PROVE  Whole(w, R)
  <1>1. Typed(w) /\ Strongest(w.t)
    BY DEF Whole, Bounded, Typed
  <1>2. OriginsReceived(w, R) /\ OriginsTracked(w) /\ SubsetsIn(w, R) /\ NeqIn(w, R)
    BY DEF Whole, Bounded, OriginsReceived, OriginsTracked, SubsetsIn, NeqIn
  <1>3. OwnOrigin(w, R) /\ \A n \in R \cap Neq : NeqRight(w, n)
    BY DEF Whole, OwnOrigin, NeqRight, Alone
  <1> QED BY <1>1, <1>2, <1>3 DEF Whole, Bounded

LEMMA StateFields ==
  /\ DOMAIN State = Fields /\ State.t = tableau /\ State.subsets = mInfeasibleSubsets /\ State.strict = strictOf
  /\ State.resolved = resolved /\ State.unresolved = unresolved /\ State.passed = passed
  BY DEF State, Fields

LEMMA InitRight == Init => IInv
  <1> SUFFICES ASSUME Init PROVE IInv
    OBVIOUS
  <1> DEFINE s == State
  <1>1. /\ DOMAIN s = Fields /\ s.t = NewTableau /\ s.subsets = {} /\ s.strict = [c \in Constraint |-> {}]
        /\ s.resolved = {} /\ s.unresolved = {} /\ s.passed = {} /\ received = {}
    BY StateFields DEF Init
  <1>2. /\ NewTableau.origins = [b \in Bound |-> <<>>] /\ DOMAIN NewTableau = Members
        /\ NewTableau.sup = [v \in Var |-> NoUpper(v)] /\ NewTableau.inf = [v \in Var |-> NoLower(v)]
        /\ Basic(NewTableau) = SlackVar
    BY DEF NewTableau, Members, Basic
  <1>3. TableauTyped(NewTableau)
    <2>1. <<>> \in Seq(SUBSET Constraint)
      OBVIOUS
    <2> QED BY <1>2, <2>1 DEF TableauTyped, Var
  <1>4. \A b \in Bound : ~IsActive(NewTableau, b) /\ ToSet(NewTableau.origins[b]) = {}
    BY <1>2, Finite DEF IsActive, ToSet
  <1>5. Strongest(NewTableau)
    <2> SUFFICES ASSUME NEW v \in Var PROVE SupRight(NewTableau, v) /\ InfRight(NewTableau, v)
      BY DEF Strongest
    <2>1. NoUpper(v) \in UpperBounds[v] /\ NoLower(v) \in LowerBounds[v]
      BY DEF UpperBounds, LowerBounds
    <2>2. IsActive(NewTableau, NoUpper(v)) /\ IsActive(NewTableau, NoLower(v))
      BY Finite DEF IsActive
    <2>3. \A b \in UpperBounds[v] : IsActive(NewTableau, b) => b = NoUpper(v)
      BY <1>4 DEF UpperBounds
    <2>4. \A b \in LowerBounds[v] : IsActive(NewTableau, b) => b = NoLower(v)
      BY <1>4 DEF LowerBounds
    <2>5. ~Below(NoUpper(v), NoUpper(v)) /\ ~Below(NoLower(v), NoLower(v))
      BY DEF Below, Less, NoUpper, NoLower, Upper, Lower, Infinity
    <2> QED BY <1>2, <2>1, <2>2, <2>3, <2>4, <2>5 DEF SupRight, InfRight
  <1>6. Bounded(s, {})
    <2>1. Typed(s)
      BY <1>1, <1>3, FS_EmptySet DEF Typed
    <2>2. OriginsReceived(s, {}) /\ OriginsTracked(s) /\ SubsetsIn(s, {}) /\ NeqIn(s, {})
      BY <1>1, <1>4 DEF OriginsReceived, OriginsTracked, SubsetsIn, NeqIn
    <2> QED BY <1>1, <1>5, <2>1, <2>2 DEF Bounded
  <1>7. Whole(s, received)
    <2>1. /\ NewTableau.aside = Basic(NewTableau)
          /\ \A v \in Var : NewTableau.value[v] \in Int \X Int
                            /\ ~TooHigh(NewTableau, v) /\ ~TooLow(NewTableau, v)
      BY <1>2, Finite DEF NewTableau, Zero, TooHigh, TooLow
    <2>2. Inside(NewTableau)
      BY <2>1 DEF Inside, InsideAt, Columns
    <2> QED BY <1>1, <1>6, <2>2 DEF Whole, OwnOrigin
  <1>8. TypeOK
    BY <1>1, LRAAssumption DEF Init, TypeOK
  <1> QED BY <1>7, <1>8 DEF IInv, Init

LEMMA AddRight ==
  ASSUME IInv, NEW c \in Constraint, AddCore(c)
  PROVE  IInv'
  <1> DEFINE s == IF c.rel = "!=" THEN AddInequation(State, c) ELSE AddBound(State, c)
  <1>1. /\ c \in mLinearConstraints \ received /\ received' = received \cup {c}
        /\ tableau' = s.t /\ strictOf' = s.strict /\ mInfeasibleSubsets' = s.subsets
        /\ resolved' = s.resolved /\ unresolved' = s.unresolved /\ passed' = s.passed
        /\ answer' = "none" /\ UNCHANGED <<mLinearConstraints, pc, aborts>>
    BY DEF AddCore
  <1>2. received \in SUBSET Constraint /\ Whole(State, received)
    BY LRAAssumption DEF IInv, TypeOK
  <1>3. Whole(s, received \cup {c})
    <2>1. CASE c.rel = "!="
      <3>1. c \in Neq \ received
        BY <1>1, <2>1 DEF Neq
      <3> QED BY <1>2, <2>1, <3>1, AddInequationRight
    <2>2. CASE c.rel # "!="
      <3>1. c \notin Neq
        BY <2>2 DEF Neq
      <3> QED BY <1>2, <2>2, <3>1, AddBoundRight
    <2> QED BY <2>1, <2>2
  <1> HIDE DEF s
  <1>4. Whole(State', received')
    <2>1. /\ DOMAIN State' = Fields /\ State'.t = s.t /\ State'.subsets = s.subsets /\ State'.strict = s.strict
          /\ State'.resolved = s.resolved /\ State'.unresolved = s.unresolved /\ State'.passed = s.passed
      BY <1>1 DEF State, Fields
    <2> QED BY <1>1, <1>3, <2>1, WholeSame
  <1>5. TypeOK'
    <2>1. Typed(s) /\ NeqIn(s, received \cup {c}) /\ received \cup {c} \subseteq Constraint
      BY <1>2, <1>3 DEF Whole, Bounded
    <2>2. s.subsets \subseteq SUBSET Constraint /\ s.strict \in [Constraint -> SUBSET Bound]
          /\ s.resolved \cup s.unresolved \cup s.passed \subseteq Constraint
      BY <2>1 DEF Typed, NeqIn
    <2> QED BY <1>1, <2>2 DEF IInv, TypeOK
  <1> QED BY <1>1, <1>4, <1>5 DEF IInv

LEMMA RemoveCoreRight ==
  ASSUME IInv, NEW c \in Constraint, RemoveCore(c)
  PROVE  IInv'
  <1> DEFINE s == Withdrawn(State, BoundsOf(c) \o SetToSeq(strictOf[c]), c)
  <1>1. /\ c \in received /\ received' = received \ {c}
        /\ tableau' = s.t /\ strictOf' = [strictOf EXCEPT ![c] = {b \in @ : IsActive(s.t, b)}]
        /\ mInfeasibleSubsets' = {S \in s.subsets : c \notin S}
        /\ resolved' = s.resolved \ {c} /\ unresolved' = s.unresolved \ {c}
        /\ passed' = s.passed \ ({c} \cap s.unresolved)
        /\ answer' = "none" /\ UNCHANGED <<mLinearConstraints, pc, aborts>>
    BY DEF RemoveCore
  <1>2. received \in SUBSET Constraint /\ Whole(State, received)
    BY LRAAssumption DEF IInv, TypeOK
  <1>3. s = Withdrawn(State, BoundsOf(c) \o SetToSeq(State.strict[c]), c)
    BY StateFields
  <1> HIDE DEF s
  <1>4. Whole(State', received')
    <2>1. /\ DOMAIN State' = Fields /\ State'.t = s.t /\ State'.subsets = {S \in s.subsets : c \notin S}
          /\ State'.strict = [State.strict EXCEPT ![c] = {b \in @ : IsActive(s.t, b)}]
          /\ State'.resolved = s.resolved \ {c} /\ State'.unresolved = s.unresolved \ {c}
          /\ State'.passed = s.passed \ ({c} \cap s.unresolved)
      BY <1>1, StateFields DEF State, Fields
    <2>2. Whole(State', received \ {c})
      BY <1>1, <1>2, <1>3, <2>1, RemoveRight
    <2> QED BY <1>1, <2>2
  <1>5. TypeOK'
    <2>1. Typed(State') /\ NeqIn(State', received') /\ received' \subseteq Constraint
      BY <1>1, <1>2, <1>4 DEF Whole, Bounded
    <2>2. /\ State'.subsets = mInfeasibleSubsets' /\ State'.strict = strictOf'
          /\ State'.resolved = resolved' /\ State'.unresolved = unresolved' /\ State'.passed = passed'
      BY DEF State
    <2>3. mInfeasibleSubsets' \subseteq SUBSET Constraint /\ strictOf' \in [Constraint -> SUBSET Bound]
          /\ resolved' \cup unresolved' \cup passed' \subseteq Constraint
      BY <2>1, <2>2 DEF Typed, NeqIn
    <2> QED BY <1>1, <2>3 DEF IInv, TypeOK
  <1> QED BY <1>1, <1>4, <1>5 DEF IInv

(* A check changes no bound.                                               *)
LEMMA SearchKeeps ==
  ASSUME IInv, SameBounds(tableau, tableau'), Inside(tableau'), UNCHANGED <<received, strictOf, neqVars>>,
         \A S \in mInfeasibleSubsets' : S \in mInfeasibleSubsets \/ S \subseteq received
  PROVE  Whole(State', received') /\ mInfeasibleSubsets' \subseteq SUBSET Constraint
  <1>1. received \in SUBSET Constraint /\ Bounded(State, received)
    BY LRAAssumption DEF IInv, TypeOK, Whole
  <1>2. SameState(State, State', received)
    BY StateFields DEF State, SameState, Fields, neqVars
  <1>3. Bounded(State', received)
    BY <1>1, <1>2, BoundedSame
  <1>4. OwnOrigin(State', received) /\ \A n \in received \cap Neq : NeqRight(State', n)
    <2>1. \A q : IsActive(State'.t, q) <=> IsActive(State.t, q)
      BY <1>2, SameStrongest DEF SameState
    <2>2. OwnOrigin(State, received) /\ \A n \in received \cap Neq : NeqRight(State, n)
      BY DEF IInv, Whole
    <2> QED BY <1>2, <2>1, <2>2 DEF SameState, SameBounds, OwnOrigin, NeqRight, Alone
  <1>5. mInfeasibleSubsets' \subseteq SUBSET Constraint
    BY <1>1 DEF IInv, TypeOK
  <1>6. Inside(State'.t)
    BY DEF State
  <1> QED BY <1>3, <1>4, <1>5, <1>6 DEF Whole

LEMMA TableauRight ==
  ASSUME IInv
  PROVE  /\ TableauTyped(tableau) /\ Strongest(tableau) /\ OriginsReceived(State, received)
         /\ Inside(tableau) /\ OwnBounds(tableau)
  BY StateFields DEF IInv, Whole, Bounded, Typed, OwnBounds, Strongest, SupRight, InfRight

(* The end of a search, and its start, change no variable.                 *)
LEMMA OnlyListsChange ==
  ASSUME NEW t, TableauTyped(t), Inside(t)
  PROVE  /\ \A n, c : Inside([t EXCEPT !.steps = n, !.conflicting = c])
         /\ \A n : Inside([t EXCEPT !.steps = n])
  <1> DEFINE Same(u) == u.row = t.row /\ u.aside = t.aside /\ u.value = t.value /\ u.sup = t.sup /\ u.inf = t.inf
  <1>1. ASSUME NEW u, Same(u) PROVE Inside(u)
    <2>1. u.aside \subseteq Basic(u) /\ Basic(u) = Basic(t)
      BY <1>1 DEF Inside, Basic
    <2> QED BY <1>1, <2>1, SameInside
  <1>2. \A n, c : Same([t EXCEPT !.steps = n, !.conflicting = c])
    BY DEF TableauTyped, Members
  <1>3. \A n : Same([t EXCEPT !.steps = n])
    BY DEF TableauTyped, Members
  <1> HIDE DEF Same
  <1> QED BY <1>1, <1>2, <1>3

LEMMA StepRight ==
  ASSUME IInv, [Next]_vars
  PROVE  IInv'
  <1>1. TableauTyped(tableau) /\ Strongest(tableau) /\ Inside(tableau) /\ OwnBounds(tableau)
    BY TableauRight
  <1>2. SameBounds(tableau, tableau)
    BY <1>1 DEF SameBounds
  <1> DEFINE Kept == /\ SameBounds(tableau, tableau') /\ Inside(tableau')
                     /\ UNCHANGED <<mLinearConstraints, received, strictOf, neqVars>>
                     /\ \A S \in mInfeasibleSubsets' : S \in mInfeasibleSubsets \/ S \subseteq received
  <1>3. ASSUME Kept, pc' \in {"idle", "search"}, answer' \in {"none", "SAT", "UNSAT", "UNKNOWN"}, aborts' \in 0 .. MaxAborts,
               answer' = "UNSAT" => mInfeasibleSubsets' # {}
        PROVE IInv'
    <2>1. Whole(State', received') /\ mInfeasibleSubsets' \subseteq SUBSET Constraint
      BY <1>3, SearchKeeps
    <2> QED BY <1>3, <2>1 DEF IInv, TypeOK, neqVars
  <1>4. ASSUME NEW c \in Constraint, AddCore(c) PROVE IInv'
    BY <1>4, AddRight
  <1>5. ASSUME NEW c \in Constraint, RemoveCore(c) PROVE IInv'
    BY <1>5, RemoveCoreRight
  <1>6. CASE Check
    <2>1. SameBounds(tableau, tableau') /\ Inside(tableau')
      <3>1. SameBounds(tableau, [tableau EXCEPT !.steps = 0]) /\ Inside([tableau EXCEPT !.steps = 0])
        BY <1>1, BoundsKept, OnlyListsChange
      <3> QED BY <1>1, <1>2, <1>6, <3>1 DEF Check
    <2>2. Kept
      BY <1>6, <2>1 DEF Check
    <2> QED BY <1>3, <1>6, <2>2 DEF Check, Finish, IInv, TypeOK
  <1>7. CASE Abort
    <2>1. Kept
      BY <1>1, <1>2, <1>7 DEF Abort
    <2>2. aborts' \in 0 .. MaxAborts
      BY <1>7, LRAAssumption DEF Abort, IInv, TypeOK
    <2> QED BY <1>3, <1>7, <2>1, <2>2 DEF Abort, Finish
  <1>8. CASE Conflict
    <2>1. SameBounds(tableau, tableau') /\ Inside(tableau')
      <3>1. \A c : /\ SameBounds(tableau, [tableau EXCEPT !.steps = 0, !.conflicting = c])
                   /\ Inside([tableau EXCEPT !.steps = 0, !.conflicting = c])
        BY <1>1, BoundsKept, OnlyListsChange
      <3>2. \E c : tableau' = [tableau EXCEPT !.steps = 0, !.conflicting = c]
        BY <1>8 DEF Conflict
      <3> QED BY <3>1, <3>2
    <2>2. PICK v \in ToConsider(tableau) :
            /\ InConflict(tableau, v)
            /\ mInfeasibleSubsets' = mInfeasibleSubsets
                 \cup {UNION {Origins(tableau, b) : b \in GetConflict(tableau, v)}}
      BY <1>8 DEF Conflict
    <2>3. ASSUME NEW b \in GetConflict(tableau, v) PROVE Origins(tableau, b) \subseteq received
      <3>1. b \in Bound /\ IsActive(tableau, b)
        BY <1>1, <2>2, RowConflict
      <3>2. Origins(tableau, b) \in ToSet(tableau.origins[b])
        BY <1>1, <3>1, ActiveOrigins
      <3> QED BY <3>1, <3>2, TableauRight, StateFields DEF OriginsReceived
    <2>4. Kept
      BY <1>8, <2>1, <2>2, <2>3 DEF Conflict
    <2> QED BY <1>3, <1>8, <2>2, <2>4 DEF Conflict, Finish, IInv, TypeOK
  <1>9. CASE PivotStep
    <2>1. SameBounds(tableau, tableau') /\ Inside(tableau')
      <3>1. PICK v \in Candidates(tableau) :
              \E x \in BestEntries(tableau, v) : tableau' = Pivot(Chosen(tableau, v), v, x)
        BY <1>9 DEF PivotStep
      <3> PICK x \in BestEntries(tableau, v) : tableau' = Pivot(Chosen(tableau, v), v, x)
        BY <3>1
      <3>2. x \in Var
        BY DEF BestEntries, Suitable, Entries, Columns
      <3>3. SameBounds(tableau, Chosen(tableau, v))
        BY <1>1, BoundsKept
      <3>4. TableauTyped(Chosen(tableau, v))
        BY <3>3 DEF SameBounds
      <3>5. SameBounds(Chosen(tableau, v), Pivot(Chosen(tableau, v), v, x))
        BY <3>2, <3>4, BoundsKept
      <3>6. Inside(tableau')
        BY <1>1, PivotStepInside
      <3> QED BY <3>1, <3>3, <3>5, <3>6 DEF SameBounds
    <2>2. Kept
      BY <1>9, <2>1 DEF PivotStep
    <2> QED BY <1>3, <1>9, <2>2 DEF PivotStep, IInv, TypeOK
  <1>10. CASE Consistent
    <2>1. SameBounds(tableau, tableau') /\ Inside(tableau')
      <3>1. \A c : /\ SameBounds(tableau, [tableau EXCEPT !.steps = 0, !.conflicting = c])
                   /\ Inside([tableau EXCEPT !.steps = 0, !.conflicting = c])
        BY <1>1, BoundsKept, OnlyListsChange
      <3>2. \E c : tableau' = [tableau EXCEPT !.steps = 0, !.conflicting = c]
        BY <1>10 DEF Consistent
      <3> QED BY <3>1, <3>2
    <2>2. Kept
      BY <1>10, <2>1 DEF Consistent
    <2>3. pc' = "idle" /\ answer' \in {"SAT", "UNKNOWN"} /\ aborts' = aborts
      BY <1>10 DEF Consistent, Finish
    <2> QED BY <1>3, <2>2, <2>3 DEF IInv, TypeOK
  <1>11. CASE UNCHANGED vars
    <2>1. Kept
      BY <1>1, <1>2, <1>11 DEF vars, neqVars
    <2>2. pc' = pc /\ answer' = answer /\ aborts' = aborts /\ mInfeasibleSubsets' = mInfeasibleSubsets
      BY <1>11 DEF vars
    <2> QED BY <1>3, <2>1, <2>2 DEF IInv, TypeOK
  <1> HIDE DEF Kept
  <1> QED BY <1>4, <1>5, <1>6, <1>7, <1>8, <1>9, <1>10, <1>11 DEF Next, Search

LEMMA Invariance == Spec => []IInv
  BY InitRight, StepRight, PTL DEF Spec

THEOREM TypeCorrect == Spec => []TypeOK
  BY Invariance, PTL DEF IInv

(* Every infeasible subset the module reports lies within what it has      *)
(* received (so that the user of the module may build a clause of it), and *)
(* an answer UNSAT has one, for any constraints.                           *)
THEOREM ConflictsAreReceived == Spec => []ConflictsReceived
  <1>1. IInv => ConflictsReceived
    BY StateFields DEF IInv, Whole, Bounded, SubsetsIn, ConflictsReceived
  <1> QED BY <1>1, Invariance, PTL

(* However constraints are added and removed: an active bound has only     *)
(* origins that are received, among them each constraint that stands for   *)
(* it; the bounds of a variable are its strongest active ones; and an      *)
(* inequation is passed on exactly while none of the bounds next to it is  *)
(* active.                                                                 *)
THEOREM BoundsCorrect == Spec => []BoundsRight
  <1>1. ASSUME IInv PROVE BoundsRight
    <2>1. /\ Bounded(State, received) /\ OwnOrigin(State, received) /\ received \subseteq Constraint
          /\ \A n \in received \cap Neq : NeqRight(State, n)
      BY <1>1, LRAAssumption DEF IInv, TypeOK, Whole
    <2>2. Strongest(tableau)
      BY <2>1, StateFields DEF Bounded
    <2>3. \A b \in Bound : \A o \in ToSet(tableau.origins[b]) : o \subseteq received
      BY <2>1, StateFields DEF Bounded, OriginsReceived
    <2>4. \A c \in received : c.rel # "!=" => {c} \in ToSet(tableau.origins[BoundsOf(c)[1]])
      BY <2>1, StateFields DEF OwnOrigin, Neq
    <2>5. ASSUME NEW b \in Bound, IsActive(tableau, b)
          PROVE /\ b.type # "LOWER" => ~Below(b, tableau.sup[b.var])
                /\ b.type # "UPPER" => ~Below(tableau.inf[b.var], b)
      <3>1. b.var \in Var
        BY Finite
      <3>2. (b.type # "LOWER" => b \in UpperBounds[b.var]) /\ (b.type # "UPPER" => b \in LowerBounds[b.var])
        BY <3>1 DEF UpperBounds, LowerBounds
      <3> QED BY <2>2, <2>5, <3>1, <3>2 DEF Strongest, SupRight, InfRight
    <2>6. \A v \in Var : IsActive(tableau, tableau.sup[v]) /\ IsActive(tableau, tableau.inf[v])
      BY <2>2 DEF Strongest, SupRight, InfRight
    <2>7. ASSUME NEW n \in received, n.rel = "!="
          PROVE LET alone == \A b \in ToSet(BoundsOf(n)) : ~IsActive(tableau, b)
                IN  (n \in unresolved <=> alone) /\ (n \in resolved <=> ~alone) /\ (n \in passed <=> alone)
      <3>1. NeqRight(State, n) /\ passed = unresolved
        BY <2>1, <2>7, StateFields DEF Neq, Bounded, NeqIn
      <3> QED BY <3>1, StateFields DEF NeqRight, Alone
    <2> QED BY <2>3, <2>4, <2>5, <2>6, <2>7 DEF BoundsRight
  <1> QED BY <1>1, Invariance, PTL

(* A nonbasic variable, which no search looks at, is within its bounds     *)
(* unless these conflict: however bounds come and go, rows are set aside   *)
(* and taken back, and whichever basic variable a pivot makes nonbasic, a  *)
(* search that was given up in between included.                           *)
THEOREM NonbasicsWithinBounds == Spec => []NonbasicWithin
  <1>1. IInv => NonbasicWithin
    BY TableauRight DEF Inside, InsideAt, NonbasicWithin
  <1> QED BY <1>1, Invariance, PTL
=============================================================================
