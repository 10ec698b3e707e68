-------------------------- MODULE SATModule_proofs --------------------------
(***************************************************************************)
(* Safety of the CDCL(T) search of SATModule for any formulas, any theory  *)
(* and any bounds: the trail, what is passed to the backends, where the    *)
(* explanations of theory propagations are, that propagation overlooks no  *)
(* clause, and that what is learnt and an answer of UNSAT are right.       *)
(***************************************************************************)
EXTENDS SATModule, FiniteSetTheorems, SequenceTheorems, TLAPS

-----------------------------------------------------------------------------
(* The inductive invariant.                                                *)

Entry == [lit : Lit, reason : SUBSET Lit, first : Int, level : Nat, pos : Nat]
Watching == UNION {[D -> SUBSET Lit] : D \in SUBSET SUBSET Lit}
Counting == UNION {[D -> {-1, 0, 1}] : D \in SUBSET Lit}
Propagation == [premise : SUBSET Lit, conclusion : Lit]
State == [trail : Seq(Entry), level : Nat, qhead : Nat, assumptions : Seq(Lit),
          watch : Watching, learnts : SUBSET SUBSET Lit, ok : BOOLEAN, known : SUBSET Var,
          relevant : SUBSET Lit, info : Counting, changed : SUBSET Var, passed : SUBSET Lit,
          changedPassed : BOOLEAN, consistent : {"SAT", "UNSAT", "UNKNOWN"}, excluded : BOOLEAN,
          props : Seq(Propagation), model : SUBSET Lit]

Within(C, V) == \A l \in C : VarOf(l) \in V
AssignedBefore(s, k, l) == \E j \in 1 .. k - 1 : VarOf(s.trail[j].lit) = VarOf(l)
Assigned(s, l) == \E j \in DOMAIN s.trail : VarOf(s.trail[j].lit) = VarOf(l)

(* A variable is on the trail once, in order of the levels; what gave rise *)
(* to an entry is earlier.                                                 *)
Once(s) == \A i, j \in DOMAIN s.trail : VarOf(s.trail[i].lit) = VarOf(s.trail[j].lit) => i = j
LevelsRise(s) ==
    /\ \A i, j \in DOMAIN s.trail : i <= j => s.trail[i].level <= s.trail[j].level
    /\ \A i \in DOMAIN s.trail : s.trail[i].level <= s.level
ReasonsEarlier(s) ==
    \A i \in DOMAIN s.trail : \A l \in s.trail[i].reason \ {s.trail[i].lit} : AssignedBefore(s, i, l)
Ordered(s) == Once(s) /\ LevelsRise(s) /\ ReasonsEarlier(s)

(* What is yet to be propagated is of the current level.                   *)
QueueFresh(s) ==
    /\ s.qhead <= Len(s.trail)
    /\ \A i \in DOMAIN s.trail : i > s.qhead => s.trail[i].level = s.level

(* Variables are known before they are used.                               *)
KnownFirst(s) ==
    /\ \A i \in DOMAIN s.trail : VarOf(s.trail[i].lit) \in s.known
    /\ \A i \in DOMAIN s.assumptions : VarOf(s.assumptions[i]) \in s.known
    /\ \A c \in DOMAIN s.watch : Within(c, s.known)
    /\ DOMAIN s.info = {l \in Lit : VarOf(l) \in s.known \cap TheoryVar}

(* Two literals of a clause are watched.                                   *)
WatchesTwo(s) ==
    /\ \A c \in DOMAIN s.watch : \E a, b \in c : a # b /\ s.watch[c] = {a, b}
    /\ s.learnts \subseteq DOMAIN s.watch

(* updateInfo is what adaptPassedFormula has yet to do about a literal.    *)
Due(s, l) == (IF l \in s.relevant /\ IsTrue(s, l) THEN 1 ELSE 0) - (IF l \in s.passed THEN 1 ELSE 0)
Counted(s) ==
    /\ s.relevant \subseteq DOMAIN s.info /\ s.passed \subseteq s.relevant
    /\ \A l \in DOMAIN s.info : s.info[l] = Due(s, l) /\ (s.info[l] # 0 => VarOf(l) \in s.changed)
    \* unless it is adapted, it is of literals that are never undone
    /\ s.changedPassed => \A l \in s.passed : FixedTrue(s, l)

(* A theory propagation is found where its literal says; all but the first *)
(* place belong to a literal.                                              *)
Placed(s) ==
    /\ \A i \in DOMAIN s.trail : s.trail[i].pos # 0 =>
         s.trail[i].pos \in DOMAIN s.props /\ s.props[s.trail[i].pos].conclusion = s.trail[i].lit
    /\ \A k \in DOMAIN s.props : k > 1 => \E i \in DOMAIN s.trail : s.trail[i].pos = k

Sound(s) ==
    /\ s \in State /\ Ordered(s) /\ QueueFresh(s) /\ KnownFirst(s)
    /\ WatchesTwo(s) /\ Counted(s) /\ Placed(s)

(* A conflict is of the current level.                                     *)
OfNow(s, C) == \E l \in C : \E i \in DOMAIN s.trail :
    VarOf(s.trail[i].lit) = VarOf(l) /\ s.trail[i].level = s.level
ConflictNow(s, c) ==
    c.clause \subseteq Lit /\ c.first \in Int /\ (\A l \in c.clause : Assigned(s, l)) /\ OfNow(s, c.clause)

Phase ==
    /\ pc \in {"idle", "propagate", "decide", "conflict"}
    /\ pc = "decide" => sat.qhead = Len(sat.trail)
    /\ pc = "conflict" => ConflictNow(sat, conflict)
    /\ todo # {} => /\ pc = "propagate" /\ sat.qhead \in DOMAIN sat.trail
                    /\ sat.trail[sat.qhead].level = sat.level
    /\ \A c \in todo : c \in DOMAIN sat.watch /\ -sat.trail[sat.qhead].lit \in sat.watch[c]

Requested ==
    /\ script \in Scripts /\ received \subseteq ToSet(script)
    /\ \A f \in received : IsLiteral(f) => TheLiteral(f) \in ToSet(sat.assumptions)
    /\ answer \in {"none", "SAT", "UNSAT", "UNKNOWN"}

IInv == NotYet({"dropped"}) => Sound(sat) /\ Phase /\ Requested

-----------------------------------------------------------------------------
(* Literals.                                                               *)

LEMMA Variables == Var \subseteq Nat \ {0}
  <1>1. ASSUME NEW s \in Scripts, NEW f \in ToSet(s), NEW l \in f PROVE l \in Int \ {0}
    BY SATAssumption
  <1>2. ASSUME NEW l \in UNION UNION {ToSet(s) : s \in Scripts} PROVE l \in Int \ {0}
    <2>1. PICK f : f \in UNION {ToSet(s) : s \in Scripts} /\ l \in f
      OBVIOUS
    <2>2. PICK s \in Scripts : f \in ToSet(s)
      BY <2>1
    <2> QED BY <1>1, <2>1, <2>2
  <1>3. ASSUME NEW l \in Int \ {0} PROVE (IF l > 0 THEN l ELSE -l) \in Nat \ {0}
    OBVIOUS
  <1>4. ASSUME NEW v \in Var PROVE v \in Nat \ {0}
    <2>1. CASE v \in TheoryVar
      BY <2>1, SATAssumption
    <2>2. CASE v \notin TheoryVar
      <3>1. PICK l \in UNION UNION {ToSet(s) : s \in Scripts} : v = IF l > 0 THEN l ELSE -l
        BY <2>2 DEF Var
      <3> QED BY <1>2, <1>3, <3>1
    <2> QED BY <2>1, <2>2
  <1> QED BY <1>4

LEMMA Literals ==
  /\ \A l \in Lit : /\ l \in Int /\ -l \in Lit /\ -(-l) = l /\ -l # l
                    /\ VarOf(l) \in Var /\ VarOf(-l) = VarOf(l)
  /\ \A k, l \in Lit : VarOf(k) = VarOf(l) <=> k = l \/ k = -l
  /\ \A v \in Var : v \in Lit /\ -v \in Lit /\ VarOf(v) = v
  BY Variables DEF Lit, VarOf

LEMMA ScriptLiterals ==
  ASSUME NEW s \in Scripts, NEW f \in ToSet(s)
  PROVE  f \subseteq Lit /\ f # {}
  <1>1. ASSUME NEW l \in f PROVE l \in Lit
    <2>1. l \in Int \ {0}
      BY SATAssumption
    <2>2. l \in UNION UNION {ToSet(t) : t \in Scripts}
      OBVIOUS
    <2>3. (IF l > 0 THEN l ELSE -l) \in Var
      BY <2>2 DEF Var
    <2> QED BY <2>1, <2>3 DEF Lit
  <1> QED BY <1>1, SATAssumption

LEMMA UnitLiteral ==
  ASSUME NEW C
  PROVE  /\ IsLiteral(C) => TheLiteral(C) \in C /\ C = {TheLiteral(C)}
         /\ C # {} /\ ~IsLiteral(C) => \E a, b \in C : a # b
         /\ \A a : IsLiteral({a}) /\ TheLiteral({a}) = a
  BY DEF IsLiteral, TheLiteral

-----------------------------------------------------------------------------
(* Induction over numbers.  The library's induction theorems take a        *)
(* predicate; that every nonempty set of numbers has a least one does      *)
(* without, and follows from the well-foundedness of finite sets.          *)
LEMMA LeastNatural ==
  ASSUME NEW X, X \subseteq Nat, X # {}
  PROVE  \E m \in X : \A n \in X : m <= n
  <1> DEFINE T == {1 .. n : n \in X}
  <1>1. T \subseteq FiniteSubsetsOf(Nat) /\ T # {}
    <2>1. \A n \in X : IsFiniteSet(1 .. n) /\ 1 .. n \subseteq Nat
      BY FS_Interval
    <2> QED BY <2>1 DEF FiniteSubsetsOf
  <1>2. IsWellFoundedOn(StrictSubsetOrdering(Nat), FiniteSubsetsOf(Nat))
    BY FS_StrictSubsetOrderingWellFounded
  <1>3. PICK A \in T : \A B \in T : ~(<<B, A>> \in StrictSubsetOrdering(Nat))
    <2> HIDE DEF T
    <2> QED BY <1>1, <1>2, WFMin
  <1>4. PICK m \in X : A = 1 .. m
    OBVIOUS
  <1>5. ASSUME NEW n \in X, n < m PROVE FALSE
    <2>1. 1 .. n \in T /\ 1 .. n \subseteq 1 .. m /\ m \notin 1 .. n /\ m \in 1 .. m
      BY <1>5
    <2>2. 1 .. n # 1 .. m
      BY <2>1
    <2>3. 1 .. n \subseteq Nat /\ 1 .. m \subseteq Nat
      OBVIOUS
    <2>4. <<1 .. n, 1 .. m>> \in StrictSubsetOrdering(Nat)
      BY <2>1, <2>2, <2>3 DEF StrictSubsetOrdering
    <2> QED BY <1>3, <1>4, <2>1, <2>4
  <1>6. \A n \in X : m <= n
    BY <1>5
  <1> QED BY <1>6

LEMMA NumbersTo ==
  ASSUME NEW n \in Nat, NEW T, 0 \in T, \A k \in 0 .. n - 1 : k \in T => k + 1 \in T
  PROVE  0 .. n \subseteq T
  <1> SUFFICES ASSUME (0 .. n) \ T # {} PROVE FALSE
    OBVIOUS
  <1>1. PICK m \in (0 .. n) \ T : \A k \in (0 .. n) \ T : m <= k
    <2>1. (0 .. n) \ T \subseteq Nat
      OBVIOUS
    <2> QED BY <2>1, LeastNatural
  <1>2. m # 0
    OBVIOUS
  <1>3. m - 1 \in 0 .. n - 1 /\ m - 1 \notin (0 .. n) \ T
    BY <1>1, <1>2
  <1> QED BY <1>3

(* A set of numbers with a bound has a greatest.                           *)
LEMMA GreatestNatural ==
  ASSUME NEW X, X # {}, NEW b \in Nat, X \subseteq 0 .. b
  PROVE  \E m \in X : \A n \in X : n <= m
  <1> DEFINE D == {b - n : n \in X}
  <1>1. D \subseteq Nat /\ D # {}
    <2>1. \A n \in X : b - n \in Nat
      OBVIOUS
    <2> QED BY <2>1
  <1>2. PICK d \in D : \A e \in D : d <= e
    <2> HIDE DEF D
    <2> QED BY <1>1, LeastNatural
  <1>3. PICK m \in X : d = b - m
    BY <1>1
  <1>4. ASSUME NEW n \in X PROVE n <= m
    <2>1. b - n \in D
      OBVIOUS
    <2>2. b - m <= b - n
      BY <1>2, <1>3, <2>1
    <2> QED BY <2>2
  <1> QED BY <1>4

(* Least and greatest, as the community modules choose them.               *)
LEMMA MinIs ==
  ASSUME NEW X, X \subseteq Nat, X # {}
  PROVE  Min(X) \in X /\ \A n \in X : Min(X) <= n
  BY LeastNatural DEF Min

LEMMA MaxIs ==
  ASSUME NEW X, X # {}, NEW b \in Nat, X \subseteq 0 .. b
  PROVE  Max(X) \in X /\ \A n \in X : n <= Max(X)
  BY GreatestNatural DEF Max

-----------------------------------------------------------------------------
(* Values of literals, and the order of lemma_lt.                          *)

LEMMA Values ==
  ASSUME NEW s, NEW l \in Lit, s.trail \in Seq(Entry)
  PROVE  /\ IsTrue(s, l) <=> \E i \in DOMAIN s.trail : s.trail[i].lit = l
         /\ IsFalse(s, l) <=> \E i \in DOMAIN s.trail : s.trail[i].lit = -l
         /\ Assigned(s, l) <=> IsTrue(s, l) \/ IsFalse(s, l)
         /\ Unassigned(s, l) <=> ~Assigned(s, l)
         /\ IsFalse(s, l) <=> IsTrue(s, -l)
         /\ \A i \in DOMAIN s.trail : s.trail[i].lit \in Lit
  <1>1. \A i \in DOMAIN s.trail : s.trail[i] \in Entry
    OBVIOUS
  <1>2. \A i \in DOMAIN s.trail : s.trail[i].lit \in Lit
    BY <1>1 DEF Entry
  <1>3. \A k : k \in TrueLits(s) <=> \E i \in DOMAIN s.trail : s.trail[i].lit = k
    BY DEF TrueLits, Entries
  <1>4. \A i \in DOMAIN s.trail : VarOf(s.trail[i].lit) = VarOf(l)
                                    <=> s.trail[i].lit = l \/ s.trail[i].lit = -l
    BY ONLY l \in Lit, <1>2, Literals
  <1> QED BY <1>2, <1>3, <1>4, Literals DEF IsTrue, IsFalse, Unassigned, Assigned

LEMMA IndexIs ==
  ASSUME NEW s, Once(s), NEW i \in DOMAIN s.trail, NEW l, VarOf(s.trail[i].lit) = VarOf(l)
  PROVE  Index(s, l) = i /\ Level(s, l) = s.trail[i].level
  BY DEF Index, Level, Once

LEMMA TrueIs ==
  ASSUME NEW s, NEW k
  PROVE  /\ IsTrue(s, k) <=> \E i \in DOMAIN s.trail : s.trail[i].lit = k
         /\ FixedTrue(s, k) <=> \E i \in DOMAIN s.trail : s.trail[i].lit = k /\ s.trail[i].level = 0
  BY DEF IsTrue, TrueLits, FixedTrue, Entries

LEMMA OneValue ==
  ASSUME NEW s, NEW l \in Lit, s.trail \in Seq(Entry), Once(s)
  PROVE  ~(IsTrue(s, l) /\ IsFalse(s, l))
  BY Values, Literals DEF Once

LEMMA FirstExists ==
  ASSUME NEW s, NEW C, s.trail \in Seq(Entry), Once(s), C \subseteq Lit, C # {}
  PROVE  First(s, C) \in C /\ \A y \in C \ {First(s, C)} : lemma_lt(s, First(s, C), y)
  <1> SUFFICES \E x \in C : \A y \in C \ {x} : lemma_lt(s, x, y)
    BY DEF First
  <1>1. PICK m \in {Rank(s, l) : l \in C} : \A n \in {Rank(s, l) : l \in C} : m <= n
    <2>1. {Rank(s, l) : l \in C} \subseteq Nat /\ {Rank(s, l) : l \in C} # {}
      BY DEF Rank
    <2> QED BY <2>1, LeastNatural
  <1> DEFINE D == {l \in C : Rank(s, l) = m}
  <1>2. D # {} /\ D \subseteq Lit
    OBVIOUS
  <1>3. ASSUME NEW x \in D, \A y \in D \ {x} : lemma_lt(s, x, y) PROVE \A y \in C \ {x} : lemma_lt(s, x, y)
    <2>1. ASSUME NEW y \in C, Rank(s, y) # m PROVE m < Rank(s, y)
      <3>1. m <= Rank(s, y) /\ m \in Int /\ Rank(s, y) \in Int
        BY <1>1 DEF Rank
      <3> QED BY <2>1, <3>1
    <2> QED BY <1>3, <2>1 DEF lemma_lt
  <1>4. CASE m = 0
    <2>1. PICK v \in {VarOf(l) : l \in D} : \A w \in {VarOf(l) : l \in D} : v <= w
      <3>1. \A l \in D : VarOf(l) \in Nat
        BY <1>2, Literals, Variables
      <3>2. {VarOf(l) : l \in D} \subseteq Nat /\ {VarOf(l) : l \in D} # {}
        BY <1>2, <3>1
      <3> QED BY <3>2, LeastNatural
    <2>2. PICK x \in D : VarOf(x) = v /\ (-x \in D => x > -x)
      <3>1. PICK z \in D : VarOf(z) = v
        OBVIOUS
      <3>2. z \in Int /\ VarOf(-z) = v /\ -(-z) = z /\ -z # z /\ -z \in Int
        BY <1>2, <3>1, Literals
      <3>3. z > -z \/ -z > z
        BY <3>2
      <3> QED BY <3>1, <3>2, <3>3
    <2>3. ASSUME NEW y \in D \ {x} PROVE lemma_lt(s, x, y)
      <3>1. v <= VarOf(y) /\ VarOf(y) \in Int /\ v \in Int
        BY <1>2, <2>1, <2>2, Literals, Variables
      <3>2. VarOf(y) = v => y = -x
        BY <1>2, <2>2, Literals
      <3>3. y = -x => x = -y
        BY <1>2, Literals
      <3> QED BY <1>4, <2>2, <3>1, <3>2, <3>3 DEF lemma_lt
    <2> QED BY <1>3, <2>3
  <1>5. CASE m # 0
    <2>1. ASSUME NEW l \in D PROVE \E i \in DOMAIN s.trail : VarOf(s.trail[i].lit) = VarOf(l) /\ Index(s, l) = i
      <3>1. Assigned(s, l)
        BY <1>5, <1>2, Values DEF Rank
      <3> QED BY <3>1, IndexIs DEF Assigned
    <2>2. PICK k \in {Index(s, l) : l \in D} : \A n \in {Index(s, l) : l \in D} : n <= k
      <3> DEFINE X == {Index(s, l) : l \in D}
      <3>1. X # {} /\ X \subseteq 0 .. Len(s.trail) /\ Len(s.trail) \in Nat
        BY <1>2, <2>1
      <3> HIDE DEF X
      <3>2. \E k \in X : \A n \in X : n <= k
        BY <3>1, GreatestNatural
      <3> QED BY <3>2 DEF X
    <2>3. PICK x \in D : Index(s, x) = k
      OBVIOUS
    <2>4. ASSUME NEW y \in D \ {x} PROVE lemma_lt(s, x, y)
      <3>1. Index(s, y) # k
        <4>1. SUFFICES ASSUME Index(s, y) = k PROVE FALSE
          OBVIOUS
        <4>2. y = -x
          <5>1. VarOf(y) = VarOf(x)
            BY <2>1, <2>3, <4>1
          <5> QED BY <1>2, <5>1, Literals
        <4>3. Assigned(s, x) /\ x \in Lit /\ -x \in Lit /\ -(-x) = x
          BY <1>2, <2>1, Literals DEF Assigned
        <4>4. IsTrue(s, x) <=> ~IsFalse(s, x)
          BY <4>3, Values, OneValue
        <4>5. Rank(s, x) # Rank(s, -x)
          <5>1. ~Unassigned(s, x) /\ ~Unassigned(s, -x) /\ (IsTrue(s, -x) <=> IsFalse(s, x))
            BY <4>3, Values DEF Unassigned, IsTrue, IsFalse
          <5>2. CASE IsTrue(s, x)
            BY <4>4, <5>1, <5>2 DEF Rank
          <5>3. CASE ~IsTrue(s, x)
            BY <4>4, <5>1, <5>3 DEF Rank
          <5> QED BY <5>2, <5>3
        <4> QED BY <4>2, <4>5
      <3>2. Index(s, y) <= k /\ Index(s, y) \in Int /\ k \in Int
        <4>1. Index(s, y) \in {Index(s, l) : l \in D}
          OBVIOUS
        <4> QED BY <2>1, <2>2, <2>3, <4>1
      <3>3. Index(s, x) > Index(s, y)
        BY <2>3, <3>1, <3>2
      <3> QED BY <1>5, <3>3 DEF lemma_lt
    <2> QED BY <1>3, <2>4
  <1> QED BY <1>4, <1>5

LEMMA FalseAfterFirst ==
  ASSUME NEW s, NEW C, s.trail \in Seq(Entry), Once(s), C \subseteq Lit, C # {}
  PROVE  /\ First(s, C) \in C
         /\ IsFalse(s, First(s, C)) =>
              \A l \in C : IsFalse(s, l) /\ (l # First(s, C) => Index(s, l) < Index(s, First(s, C)))
  <1> DEFINE x == First(s, C)
  <1>1. x \in C /\ \A y \in C \ {x} : lemma_lt(s, x, y)
    BY FirstExists
  <1>2. ASSUME IsFalse(s, x), NEW l \in C, l # x PROVE IsFalse(s, l) /\ Index(s, l) < Index(s, x)
    <2>1. lemma_lt(s, x, l) /\ x \in Lit /\ l \in Lit
      BY <1>1, <1>2
    <2>2. ~IsTrue(s, x)
      BY <1>2, <2>1, OneValue
    <2>3. Rank(s, x) = 2
      BY <1>2, <2>2 DEF Rank, Unassigned
    <2>4. Rank(s, l) = 2 /\ Index(s, x) > Index(s, l)
      BY <2>1, <2>3 DEF lemma_lt, Rank
    <2>5. ~Unassigned(s, l) /\ ~IsTrue(s, l)
      BY <2>4 DEF Rank
    <2>6. \E i \in DOMAIN s.trail : VarOf(s.trail[i].lit) = VarOf(x)
      BY <1>2, <2>1, Values DEF Assigned
    <2>7. \E i \in DOMAIN s.trail : VarOf(s.trail[i].lit) = VarOf(l)
      BY <2>1, <2>5, Values DEF Assigned
    <2>8. Index(s, x) \in Int /\ Index(s, l) \in Int
      BY <2>6, <2>7, IndexIs
    <2> QED BY <2>4, <2>5, <2>8 DEF Unassigned
  <1> QED BY <1>1, <1>2

LEMMA FirstAndSecond ==
  ASSUME NEW s, NEW C, s.trail \in Seq(Entry), Once(s), C \subseteq Lit, C # {}, ~IsLiteral(C)
  PROVE  /\ First(s, C) \in C /\ Second(s, C) \in C /\ First(s, C) # Second(s, C)
         /\ IsFalse(s, First(s, C)) => \A l \in C : IsFalse(s, l)
         /\ IsFalse(s, First(s, C)) => Index(s, Second(s, C)) < Index(s, First(s, C))
         /\ IsFalse(s, Second(s, C)) =>
              \A l \in C \ {First(s, C)} : IsFalse(s, l) /\ Index(s, l) <= Index(s, Second(s, C))
  <1> DEFINE x == First(s, C)
             y == Second(s, C)
  <1>1. x \in C
    BY FirstExists
  <1>2. C \ {x} # {} /\ C \ {x} \subseteq Lit
    BY UnitLiteral
  <1>3. y \in C \ {x}
    BY <1>2, FirstExists DEF Second
  <1>4. IsFalse(s, x) => \A l \in C : IsFalse(s, l) /\ (l # x => Index(s, l) < Index(s, x))
    BY FalseAfterFirst
  <1>5. IsFalse(s, y) => \A l \in C \ {x} : IsFalse(s, l) /\ (l # y => Index(s, l) < Index(s, y))
    BY <1>2, FalseAfterFirst DEF Second
  <1>6. ASSUME IsFalse(s, y), NEW l \in C \ {x} PROVE Index(s, l) <= Index(s, y)
    <2>1. IsFalse(s, l) /\ l \in Lit /\ y \in Lit
      BY <1>2, <1>3, <1>5, <1>6
    <2>2. Index(s, l) \in Int /\ Index(s, y) \in Int
      BY <1>6, <2>1, Values, IndexIs DEF Assigned
    <2> QED BY <1>5, <1>6, <2>2
  <1> QED BY <1>1, <1>3, <1>4, <1>5, <1>6

-----------------------------------------------------------------------------
(* The members, and operations on the trail.                               *)

LEMMA CountingIs ==
  /\ \A f \in Counting :
       f = [l \in DOMAIN f |-> f[l]] /\ DOMAIN f \subseteq Lit /\ \A l \in DOMAIN f : f[l] \in {-1, 0, 1}
  /\ \A D \in SUBSET Lit : \A f \in [D -> {-1, 0, 1}] : f \in Counting
  BY DEF Counting

LEMMA WatchingIs ==
  /\ \A f \in Watching :
       f = [c \in DOMAIN f |-> f[c]] /\ DOMAIN f \subseteq SUBSET Lit /\ \A c \in DOMAIN f : f[c] \subseteq Lit
  /\ \A D \in SUBSET SUBSET Lit : \A f \in [D -> SUBSET Lit] : f \in Watching
  BY DEF Watching

LEMMA Fields ==
  ASSUME NEW s \in State
  PROVE  /\ s.trail \in Seq(Entry) /\ s.level \in Nat /\ s.qhead \in Nat /\ s.assumptions \in Seq(Lit)
         /\ s.watch \in Watching /\ s.learnts \subseteq SUBSET Lit /\ s.known \subseteq Var
         /\ s.relevant \subseteq Lit /\ s.info \in Counting /\ s.changed \subseteq Var
         /\ s.passed \subseteq Lit /\ s.props \in Seq(Propagation) /\ Len(s.trail) \in Nat
         /\ DOMAIN s.trail = 1 .. Len(s.trail)
         /\ \A i \in DOMAIN s.trail :
              /\ s.trail[i] \in Entry
              /\ s.trail[i].lit \in Lit /\ s.trail[i].reason \subseteq Lit /\ s.trail[i].first \in Int
              /\ s.trail[i].level \in Nat /\ s.trail[i].pos \in Nat
  <1>1. s.trail \in Seq(Entry)
    BY DEF State
  <1>2. \A i \in DOMAIN s.trail : s.trail[i] \in Entry
    BY <1>1
  <1>3. \A e \in Entry : e.lit \in Lit /\ e.reason \subseteq Lit /\ e.first \in Int /\ e.level \in Nat /\ e.pos \in Nat
    BY DEF Entry
  <1> QED BY <1>1, <1>2, <1>3 DEF State

(* All that the search relies on, but for the places of propagations.      *)
Core(s) == s \in State /\ Ordered(s) /\ QueueFresh(s) /\ KnownFirst(s) /\ WatchesTwo(s) /\ Counted(s)

NewEntry(s, l, reason, first, pos) ==
    [lit |-> l, reason |-> reason, first |-> first, level |-> s.level, pos |-> pos]

InfoUp(s, l) == IF l \in s.relevant THEN [s.info EXCEPT ![l] = s.info[l] + 1] ELSE s.info
ChangedUp(s, l) ==
    IF l \in s.relevant /\ s.info[l] + 1 > 0 THEN s.changed \cup {VarOf(l)} ELSE s.changed

(* What uncheckedEnqueue changes.                                          *)
Enqueued(s, t, l, e) ==
    /\ t.trail = Append(s.trail, e)
    /\ t.level = s.level /\ t.qhead = s.qhead /\ t.assumptions = s.assumptions
    /\ t.watch = s.watch /\ t.learnts = s.learnts /\ t.ok = s.ok /\ t.known = s.known
    /\ t.relevant = s.relevant /\ t.passed = s.passed /\ t.changedPassed = s.changedPassed
    /\ t.props = s.props /\ t.model = s.model /\ t.excluded = s.excluded
    /\ t.info = InfoUp(s, l) /\ t.changed = ChangedUp(s, l)

LEMMA EnqueueIs ==
  ASSUME NEW s \in State, NEW l \in Lit, NEW reason, reason \subseteq Lit, NEW first \in Int, NEW pos \in Nat,
         s.relevant \subseteq DOMAIN s.info, l \in s.relevant => s.info[l] <= 0,
         NEW t, t = Enqueue(s, l, reason, first, pos)
  PROVE  t \in State /\ Enqueued(s, t, l, NewEntry(s, l, reason, first, pos))
  <1> DEFINE e == NewEntry(s, l, reason, first, pos)
             a == Append(s.trail, e)
             b == InfoUp(s, l)
             c == ChangedUp(s, l)
             d == IF l \in s.relevant /\ s.info[l] + 1 > 0 /\ ~SatisfiedByBackend(s, l)
                    THEN "UNKNOWN" ELSE s.consistent
  <1>1. a \in Seq(Entry)
    <2>1. e \in Entry
      BY Fields DEF NewEntry, Entry
    <2> HIDE DEF e
    <2> QED BY <2>1, Fields
  <1>2. b \in Counting
    <2>1. CASE l \in s.relevant
      <3>1. l \in DOMAIN s.info /\ s.info[l] \in {-1, 0, 1} /\ s.info[l] <= 0
        BY <2>1, Fields, CountingIs
      <3>2. s.info[l] + 1 \in {-1, 0, 1}
        BY <3>1
      <3>3. [s.info EXCEPT ![l] = s.info[l] + 1] \in [DOMAIN s.info -> {-1, 0, 1}]
        BY <3>2, Fields, CountingIs
      <3> QED BY <2>1, <3>3, Fields, CountingIs DEF InfoUp
    <2>2. CASE l \notin s.relevant
      BY <2>2, Fields DEF InfoUp
    <2> QED BY <2>1, <2>2
  <1>3. c \in SUBSET Var
    BY Fields, Literals DEF ChangedUp
  <1>4. d \in {"SAT", "UNSAT", "UNKNOWN"}
    BY DEF State
  <1>5. t = [s EXCEPT !.trail = a, !.info = b, !.changed = c, !.consistent = d]
    BY DEF Enqueue, NewEntry, InfoUp, ChangedUp
  <1> HIDE DEF a, b, c, d
  <1>6. /\ t \in State /\ t.trail = a /\ t.info = b /\ t.changed = c
        /\ t.level = s.level /\ t.qhead = s.qhead /\ t.assumptions = s.assumptions
        /\ t.watch = s.watch /\ t.learnts = s.learnts /\ t.ok = s.ok /\ t.known = s.known
        /\ t.relevant = s.relevant /\ t.passed = s.passed /\ t.changedPassed = s.changedPassed
        /\ t.props = s.props /\ t.model = s.model /\ t.excluded = s.excluded
    <2>1. s \in State
      OBVIOUS
    <2> QED BY ONLY <1>1, <1>2, <1>3, <1>4, <1>5, <2>1 DEF State
  <1> QED BY <1>6 DEF a, b, c, Enqueued

(* The entries of a trail that has grown by one.                           *)
GrownBy(s, t, e) ==
    /\ Len(t.trail) = Len(s.trail) + 1 /\ DOMAIN t.trail = DOMAIN s.trail \cup {Len(s.trail) + 1}
    /\ \A i \in DOMAIN s.trail : i < Len(s.trail) + 1 /\ t.trail[i] = s.trail[i]
    /\ t.trail[Len(s.trail) + 1] = e
    /\ \A k : Assigned(t, k) <=> Assigned(s, k) \/ VarOf(k) = VarOf(e.lit)
    /\ \A k : IsTrue(t, k) <=> IsTrue(s, k) \/ k = e.lit
    /\ \A k : FixedTrue(s, k) => FixedTrue(t, k)

LEMMA Grown ==
  ASSUME NEW s, NEW t, NEW e, s.trail \in Seq(Entry), t.trail = Append(s.trail, e), e \in Entry
  PROVE  GrownBy(s, t, e)
  <1>1. /\ Len(t.trail) = Len(s.trail) + 1 /\ DOMAIN t.trail = DOMAIN s.trail \cup {Len(s.trail) + 1}
        /\ \A i \in DOMAIN s.trail : i < Len(s.trail) + 1 /\ t.trail[i] = s.trail[i]
        /\ t.trail[Len(s.trail) + 1] = e
    OBVIOUS
  <1>2. Entries(t) = Entries(s) \cup {e}
    BY <1>1 DEF Entries
  <1> QED BY <1>1, <1>2 DEF Assigned, IsTrue, TrueLits, FixedTrue, GrownBy

LEMMA EnqueueSound ==
  ASSUME NEW s, Core(s), NEW l \in Lit, NEW reason, reason \subseteq Lit, NEW first \in Int, NEW pos \in Nat,
         Unassigned(s, l), VarOf(l) \in s.known, \A k \in reason \ {l} : Assigned(s, k),
         NEW t, t = Enqueue(s, l, reason, first, pos)
  PROVE  Core(t) /\ Enqueued(s, t, l, NewEntry(s, l, reason, first, pos))
  <1> DEFINE e == NewEntry(s, l, reason, first, pos)
             n == Len(s.trail)
  <1>1. s \in State /\ Ordered(s) /\ QueueFresh(s) /\ KnownFirst(s) /\ WatchesTwo(s) /\ Counted(s)
    BY DEF Core
  <1>2. s.relevant \subseteq DOMAIN s.info /\ (l \in s.relevant => s.info[l] <= 0)
    <2>1. ~IsTrue(s, l)
      BY DEF Unassigned
    <2>2. l \in s.relevant => s.info[l] = Due(s, l)
      BY <1>1 DEF Counted
    <2> QED BY <1>1, <2>1, <2>2 DEF Counted, Due
  <1>3. t \in State /\ Enqueued(s, t, l, e)
    <2>1. s \in State /\ s.relevant \subseteq DOMAIN s.info /\ (l \in s.relevant => s.info[l] <= 0)
      BY <1>1, <1>2
    <2> QED BY <2>1, EnqueueIs
  <1>4. e \in Entry /\ e.lit = l /\ e.reason = reason /\ e.level = s.level
    BY <1>1, Fields DEF NewEntry, Entry
  <1> HIDE DEF e
  <1>5. /\ Len(t.trail) = n + 1 /\ DOMAIN t.trail = DOMAIN s.trail \cup {n + 1}
        /\ \A i \in DOMAIN s.trail : i < n + 1 /\ t.trail[i] = s.trail[i]
        /\ t.trail[n + 1] = e
        /\ \A k : IsTrue(t, k) <=> IsTrue(s, k) \/ k = l
        /\ \A k : FixedTrue(s, k) => FixedTrue(t, k)
    <2>1. s.trail \in Seq(Entry) /\ t.trail = Append(s.trail, e)
      BY <1>1, <1>3, Fields DEF Enqueued
    <2>2. GrownBy(s, t, e)
      BY <1>4, <2>1, Grown
    <2> QED BY <1>4, <2>2 DEF GrownBy
  <1>6. n \in Nat /\ DOMAIN s.trail = 1 .. n
    BY <1>1, Fields
  <1>7. ~Assigned(s, l)
    BY <1>1, Values, Fields
  <1>8. Once(t)
    BY <1>1, <1>4, <1>5, <1>7 DEF Ordered, Once, Assigned
  <1>9. LevelsRise(t)
    <2>1. \A i, j \in DOMAIN s.trail : i <= j => s.trail[i].level <= s.trail[j].level
      BY <1>1 DEF Ordered, LevelsRise
    <2>2. \A i \in DOMAIN s.trail : s.trail[i].level <= s.level
      BY <1>1 DEF Ordered, LevelsRise
    <2>3. s.level <= s.level
      BY <1>1, Fields
    <2>4. ~(n + 1 <= n) /\ \A j \in DOMAIN s.trail : ~(n + 1 <= j)
      BY <1>6
    <2> QED BY <1>3, <1>4, <1>5, <2>1, <2>2, <2>3, <2>4 DEF LevelsRise, Enqueued
  <1>10. ReasonsEarlier(t)
    <2>1. \A i \in DOMAIN s.trail : \A k \in s.trail[i].reason \ {s.trail[i].lit} : AssignedBefore(s, i, k)
      BY <1>1 DEF Ordered, ReasonsEarlier
    <2>2. ASSUME NEW i \in DOMAIN s.trail, NEW k, AssignedBefore(s, i, k) PROVE AssignedBefore(t, i, k)
      <3>1. 1 .. i - 1 \subseteq DOMAIN s.trail
        BY <1>6
      <3> QED BY <1>5, <2>2, <3>1 DEF AssignedBefore
    <2>3. \A k : Assigned(s, k) => AssignedBefore(t, n + 1, k)
      BY <1>5, <1>6 DEF AssignedBefore, Assigned
    <2> QED BY <1>4, <1>5, <2>1, <2>2, <2>3 DEF ReasonsEarlier
  <1>11. QueueFresh(t)
    <2>1. s.qhead <= n /\ \A i \in DOMAIN s.trail : i > s.qhead => s.trail[i].level = s.level
      BY <1>1 DEF QueueFresh
    <2>2. s.qhead <= n + 1
      BY <1>1, <1>6, <2>1, Fields
    <2> QED BY <1>3, <1>4, <1>5, <2>1, <2>2 DEF QueueFresh, Enqueued
  <1>12. KnownFirst(t)
    <2>1. DOMAIN t.info = DOMAIN s.info
      BY <1>3 DEF InfoUp, Enqueued
    <2> QED BY <1>1, <1>3, <1>4, <1>5, <2>1 DEF KnownFirst, Enqueued
  <1>13. WatchesTwo(t)
    BY <1>1, <1>3 DEF WatchesTwo, Enqueued
  <1>14. Counted(t)
    <2>1. DOMAIN t.info = DOMAIN s.info /\ s.relevant \subseteq DOMAIN s.info /\ s.passed \subseteq s.relevant
      BY <1>1, <1>3 DEF Counted, InfoUp, Enqueued
    <2>2. ASSUME NEW k \in DOMAIN s.info PROVE t.info[k] = Due(t, k) /\ (t.info[k] # 0 => VarOf(k) \in t.changed)
      <3>1. s.info[k] = Due(s, k) /\ (s.info[k] # 0 => VarOf(k) \in s.changed) /\ s.info[k] \in {-1, 0, 1}
        BY <1>1, CountingIs, Fields DEF Counted
      <3>2. CASE k # l
        <4>1. t.info[k] = s.info[k]
          BY <1>3, <3>2 DEF InfoUp, Enqueued
        <4>2. Due(t, k) = Due(s, k)
          BY <1>3, <1>5, <3>2 DEF Due, Enqueued
        <4> QED BY <1>3, <3>1, <4>1, <4>2 DEF ChangedUp, Enqueued
      <3>3. CASE k = l /\ l \notin s.relevant
        BY <1>3, <3>1, <3>3 DEF Due, InfoUp, ChangedUp, Enqueued
      <3>4. CASE k = l /\ l \in s.relevant
        <4>1. t.info[k] = s.info[k] + 1
          BY <1>3, <3>4 DEF InfoUp, Enqueued
        <4>2. ~IsTrue(s, k) /\ IsTrue(t, k)
          BY <1>5, <3>4 DEF Unassigned
        <4>3. t.info[k] = Due(t, k)
          BY <1>3, <3>1, <3>4, <4>1, <4>2 DEF Due, Enqueued
        <4> QED BY <1>3, <3>1, <3>4, <4>1, <4>3 DEF ChangedUp, Enqueued
      <3> QED BY <3>2, <3>3, <3>4
    <2>3. t.changedPassed => \A k \in t.passed : FixedTrue(t, k)
      BY <1>1, <1>3, <1>5 DEF Counted, Enqueued
    <2> QED BY <1>3, <2>1, <2>2, <2>3 DEF Counted, Enqueued
  <1>15. Core(t)
    BY <1>3, <1>8, <1>9, <1>10, <1>11, <1>12, <1>13, <1>14 DEF Core, Ordered, Enqueued
  <1> QED BY <1>3, <1>15 DEF e

-----------------------------------------------------------------------------
(* Undoing.                                                                *)

(* Two entries may differ in where their explanation is.                   *)
Alike(d, e) == d.lit = e.lit /\ d.reason = e.reason /\ d.first = e.first /\ d.level = e.level
Same(d, e) ==
    /\ d.lit = e.lit /\ d.reason = e.reason /\ d.first = e.first /\ d.level = e.level
    /\ d.pos # 0 => e.pos # 0
Fixed(s, t) ==
    /\ t.assumptions = s.assumptions /\ t.watch = s.watch /\ t.learnts = s.learnts
    /\ t.known = s.known /\ t.relevant = s.relevant
    /\ t.passed = s.passed /\ t.changedPassed = s.changedPassed

LEMMA SubSeqIs ==
  ASSUME NEW S, NEW q \in Seq(S), NEW n \in Nat, n <= Len(q), NEW u, u = SubSeq(q, 1, n)
  PROVE  u \in Seq(S) /\ Len(u) = n /\ DOMAIN u = 1 .. n /\ \A k \in 1 .. n : u[k] = q[k]
  OBVIOUS

(* The places of the others when the explanation of entry i is removed.    *)
Removed(s, t, i) ==
    /\ t.level = s.level /\ t.qhead = s.qhead /\ t.info = s.info /\ t.changed = s.changed
    /\ t.excluded = s.excluded /\ t.model = s.model
    /\ DOMAIN t.trail = DOMAIN s.trail
    /\ \A j \in DOMAIN s.trail : Same(t.trail[j], s.trail[j])
    /\ \A j \in DOMAIN s.trail \ {i} : t.trail[j].pos # 0 =>
         t.trail[j].pos \in DOMAIN t.props /\ t.props[t.trail[j].pos].conclusion = t.trail[j].lit
    /\ \A k \in DOMAIN t.props : k > 1 => \E j \in DOMAIN s.trail \ {i} : t.trail[j].pos = k

LEMMA RemovePropagationIs ==
  ASSUME NEW s \in State, Once(s), Placed(s), NEW i \in DOMAIN s.trail, NEW p, p = s.trail[i].pos, p # 0,
         NEW t, t = RemovePropagation(s, p)
  PROVE  t \in State /\ Fixed(s, t) /\ Removed(s, t, i)
  <1> DEFINE last == Len(s.props)
             moved == s.props[last]
             q == IF p = last THEN s.props ELSE [s.props EXCEPT ![p] = moved]
             a == [j \in DOMAIN s.trail |-> IF p # last /\ s.trail[j].lit = moved.conclusion
                                              THEN [s.trail[j] EXCEPT !.pos = p] ELSE s.trail[j]]
             b == SubSeq(q, 1, last - 1)
  <1>1. /\ s.trail \in Seq(Entry) /\ s.props \in Seq(Propagation)
        /\ \A j \in DOMAIN s.trail : s.trail[j] \in Entry /\ s.trail[j].pos \in Nat
    BY Fields
  <1>2. \A j \in DOMAIN s.trail : s.trail[j].pos # 0 =>
           s.trail[j].pos \in DOMAIN s.props /\ s.props[s.trail[j].pos].conclusion = s.trail[j].lit
    BY DEF Placed
  <1>3. p \in 1 .. last /\ last \in Nat /\ DOMAIN s.props = 1 .. last /\ s.props[p].conclusion = s.trail[i].lit
    BY <1>1, <1>2
  <1>4. q \in Seq(Propagation) /\ Len(q) = last /\ \A k \in 1 .. last : q[k] = IF k = p THEN moved ELSE s.props[k]
    BY <1>1, <1>3
  <1> HIDE DEF q
  <1>5. b \in Seq(Propagation) /\ Len(b) = last - 1 /\ DOMAIN b = 1 .. last - 1 /\ \A k \in 1 .. last - 1 : b[k] = q[k]
    <2>1. last - 1 \in Nat /\ last - 1 <= Len(q)
      BY <1>3, <1>4
    <2> QED BY <1>4, <2>1, SubSeqIs
  <1>6. \A e \in Entry : [e EXCEPT !.pos = p] \in Entry /\ Alike([e EXCEPT !.pos = p], e) /\ [e EXCEPT !.pos = p].pos = p
    BY <1>1 DEF Entry, Alike
  <1>7. DOMAIN a = DOMAIN s.trail /\ \A j \in DOMAIN s.trail : a[j] \in Entry /\ Alike(a[j], s.trail[j])
    BY <1>1, <1>6 DEF Alike
  <1>8. \A j \in DOMAIN s.trail : a[j].pos = IF p # last /\ s.trail[j].lit = moved.conclusion THEN p ELSE s.trail[j].pos
    <2>1. ASSUME NEW j \in DOMAIN s.trail, p # last /\ s.trail[j].lit = moved.conclusion PROVE a[j].pos = p
      <3>1. a[j] = [s.trail[j] EXCEPT !.pos = p]
        BY <2>1
      <3> QED BY <1>1, <1>6, <3>1
    <2>2. ASSUME NEW j \in DOMAIN s.trail, ~(p # last /\ s.trail[j].lit = moved.conclusion)
          PROVE  a[j].pos = s.trail[j].pos
      BY <2>2
    <2> HIDE DEF a, moved, last
    <2> QED BY <2>1, <2>2
  <1>9. a \in Seq(Entry)
    <2>1. Len(s.trail) \in Nat /\ DOMAIN s.trail = 1 .. Len(s.trail)
      BY <1>1
    <2>2. a = [j \in DOMAIN s.trail |-> a[j]]
      OBVIOUS
    <2> HIDE DEF a
    <2> QED BY <1>7, <2>1, <2>2
  <1>10. t = [s EXCEPT !.trail = a, !.props = b]
    BY DEF RemovePropagation, q
  <1> HIDE DEF a, b
  <1>11. /\ t \in State /\ Fixed(s, t) /\ t.trail = a /\ t.props = b
         /\ t.level = s.level /\ t.qhead = s.qhead /\ t.info = s.info /\ t.changed = s.changed
         /\ t.excluded = s.excluded /\ t.model = s.model
    BY ONLY s \in State, <1>5, <1>9, <1>10 DEF State, Fixed
  (* Who has which literal is an entry of its own.                         *)
  <1>12. \A j, k \in DOMAIN s.trail : s.trail[j].lit = s.trail[k].lit => j = k
    BY DEF Once
  <1>13. ASSUME NEW j \in DOMAIN s.trail \ {i}, a[j].pos # 0
         PROVE  a[j].pos \in 1 .. last - 1 /\ b[a[j].pos].conclusion = s.trail[j].lit
    <2>1. CASE p # last /\ s.trail[j].lit = moved.conclusion
      <3>1. a[j].pos = p /\ p \in 1 .. last - 1
        BY <1>3, <1>8, <2>1
      <3> QED BY <1>3, <1>4, <1>5, <2>1, <3>1
    <2>2. CASE ~(p # last /\ s.trail[j].lit = moved.conclusion)
      <3>1. a[j].pos = s.trail[j].pos
        BY <1>8, <2>2
      <3>2. s.trail[j].pos \in 1 .. last /\ s.props[s.trail[j].pos].conclusion = s.trail[j].lit
        BY <1>2, <1>3, <1>13, <3>1
      <3>3. s.trail[j].pos # p
        BY <1>3, <1>12, <3>2
      <3>4. s.trail[j].pos # last
        BY <2>2, <3>2, <3>3
      <3>5. s.trail[j].pos \in 1 .. last - 1
        BY <1>3, <3>2, <3>4
      <3> QED BY <1>4, <1>5, <3>1, <3>2, <3>3, <3>5
    <2> QED BY <2>1, <2>2
  <1>14. ASSUME NEW k \in 1 .. last - 1, k > 1 PROVE \E j \in DOMAIN s.trail \ {i} : a[j].pos = k
    <2>0. k \in DOMAIN s.props /\ last \in DOMAIN s.props /\ last > 1 /\ k # last
      BY <1>3, <1>14
    <2>1. CASE k # p
      <3>1. PICK j \in DOMAIN s.trail : s.trail[j].pos = k
        BY <1>14, <2>0 DEF Placed
      <3>2. j # i
        BY <2>1, <3>1
      <3>3. s.props[k].conclusion = s.trail[j].lit
        BY <1>2, <1>14, <3>1
      <3>4. ~(p # last /\ s.trail[j].lit = moved.conclusion)
        <4>1. SUFFICES ASSUME p # last, s.trail[j].lit = moved.conclusion PROVE FALSE
          OBVIOUS
        <4>2. PICK m \in DOMAIN s.trail : s.trail[m].pos = last
          BY <2>0 DEF Placed
        <4>3. s.trail[m].lit = moved.conclusion
          BY <1>2, <2>0, <4>2
        <4>4. m = j
          BY <1>12, <4>1, <4>3
        <4> QED BY <2>0, <3>1, <4>2, <4>4
      <3> QED BY <1>8, <3>1, <3>2, <3>4
    <2>2. CASE k = p
      <3>1. PICK j \in DOMAIN s.trail : s.trail[j].pos = last
        BY <2>0 DEF Placed
      <3>2. s.trail[j].lit = moved.conclusion
        BY <1>2, <2>0, <3>1
      <3>3. j # i
        BY <2>0, <2>2, <3>1
      <3> QED BY <1>8, <2>0, <2>2, <3>2, <3>3
    <2> QED BY <2>1, <2>2
  (* Only what had a place gets one.                                       *)
  <1>15. ASSUME NEW j \in DOMAIN s.trail, a[j].pos # 0 PROVE s.trail[j].pos # 0
    <2>1. CASE p # last /\ s.trail[j].lit = moved.conclusion
      <3>1. last \in DOMAIN s.props /\ last > 1
        BY <1>3, <2>1
      <3>2. PICK m \in DOMAIN s.trail : s.trail[m].pos = last
        BY <3>1 DEF Placed
      <3>3. s.trail[m].lit = moved.conclusion
        BY <1>2, <3>1, <3>2
      <3> HIDE DEF last, moved
      <3>4. m = j
        BY ONLY <1>12, <2>1, <3>3
      <3> QED BY <3>1, <3>2, <3>4
    <2>2. CASE ~(p # last /\ s.trail[j].lit = moved.conclusion)
      BY <1>8, <1>15, <2>2
    <2> QED BY <2>1, <2>2
  <1>16. Removed(s, t, i)
    <2>1. \A j \in DOMAIN s.trail : Same(t.trail[j], s.trail[j]) /\ t.trail[j].lit = s.trail[j].lit
      BY <1>7, <1>11, <1>15 DEF Alike, Same
    <2> QED BY <1>5, <1>7, <1>11, <1>13, <1>14, <2>1 DEF Removed
  <1> QED BY <1>11, <1>16

(* What remains when the last k entries are undone.                        *)
UndoneBy(s, u, k) ==
    /\ u \in State /\ Fixed(s, u) /\ u.level = s.level /\ DOMAIN u.info = DOMAIN s.info
    /\ u.excluded = s.excluded /\ u.model = s.model
    /\ Len(u.trail) = Len(s.trail) - k
    /\ \A i \in DOMAIN u.trail : i \in DOMAIN s.trail /\ Same(u.trail[i], s.trail[i])
    /\ Counted(u) /\ Placed(u)

InfoDown(s, l) ==
    IF l \in s.passed /\ s.info[l] = 0 THEN [s.info EXCEPT ![l] = -1]
    ELSE IF l \in s.passed /\ s.info[l] > 0 THEN [s.info EXCEPT ![l] = s.info[l] - 1]
    ELSE IF l \notin s.passed /\ l \in s.relevant THEN [s.info EXCEPT ![l] = 0]
    ELSE s.info
ChangedDown(s, l) ==
    IF l \in s.passed /\ s.info[l] = 0 THEN s.changed \cup {VarOf(l)} ELSE s.changed

LEMMA InfoDownIs ==
  ASSUME NEW s \in State, Counted(s), NEW l \in Lit, IsTrue(s, l)
  PROVE  /\ InfoDown(s, l) \in Counting /\ DOMAIN InfoDown(s, l) = DOMAIN s.info
         /\ ChangedDown(s, l) \in SUBSET Var /\ s.changed \subseteq ChangedDown(s, l)
         /\ \A k \in DOMAIN s.info : k # l => InfoDown(s, l)[k] = s.info[k]
         /\ l \in DOMAIN s.info =>
              /\ InfoDown(s, l)[l] = IF l \in s.passed THEN -1 ELSE 0
              /\ InfoDown(s, l)[l] # 0 => VarOf(l) \in ChangedDown(s, l)
  <1>1. /\ s.info \in Counting /\ s.changed \subseteq Var /\ VarOf(l) \in Var
        /\ s.relevant \subseteq DOMAIN s.info /\ s.passed \subseteq s.relevant
        /\ DOMAIN s.info \subseteq Lit /\ \A k \in DOMAIN s.info : s.info[k] \in {-1, 0, 1}
    BY Fields, Literals, CountingIs DEF Counted
  <1>2. ASSUME NEW k \in DOMAIN s.info, NEW x \in {-1, 0, 1}, NEW f, f = [s.info EXCEPT ![k] = x]
        PROVE  f \in Counting /\ DOMAIN f = DOMAIN s.info /\ f[k] = x /\ \A m \in DOMAIN s.info \ {k} : f[m] = s.info[m]
    <2>1. s.info \in [DOMAIN s.info -> {-1, 0, 1}]
      BY <1>1, CountingIs
    <2>2. f \in [DOMAIN s.info -> {-1, 0, 1}] /\ f[k] = x /\ \A m \in DOMAIN s.info \ {k} : f[m] = s.info[m]
      BY <1>2, <2>1
    <2> QED BY <1>1, <2>2, CountingIs
  <1>3. l \in DOMAIN s.info =>
          s.info[l] = (IF l \in s.relevant THEN 1 ELSE 0) - (IF l \in s.passed THEN 1 ELSE 0)
    BY DEF Counted, Due
  <1>4. ChangedDown(s, l) \in SUBSET Var /\ s.changed \subseteq ChangedDown(s, l)
    BY <1>1 DEF ChangedDown
  <1>5. CASE l \in s.passed
    <2>1. l \in DOMAIN s.info /\ s.info[l] = 0
      BY <1>1, <1>3, <1>5
    <2>2. InfoDown(s, l) = [s.info EXCEPT ![l] = -1] /\ ChangedDown(s, l) = s.changed \cup {VarOf(l)}
      BY <1>5, <2>1 DEF InfoDown, ChangedDown
    <2> QED BY <1>2, <1>4, <1>5, <2>1, <2>2
  <1>6. CASE l \notin s.passed /\ l \in s.relevant
    <2>1. l \in DOMAIN s.info /\ InfoDown(s, l) = [s.info EXCEPT ![l] = 0]
      BY <1>1, <1>6 DEF InfoDown
    <2>2. /\ InfoDown(s, l) \in Counting /\ DOMAIN InfoDown(s, l) = DOMAIN s.info /\ InfoDown(s, l)[l] = 0
          /\ \A m \in DOMAIN s.info \ {l} : InfoDown(s, l)[m] = s.info[m]
      BY <1>2, <2>1
    <2> QED BY <1>4, <1>6, <2>2
  <1>7. CASE l \notin s.passed /\ l \notin s.relevant
    <2>1. InfoDown(s, l) = s.info
      BY <1>7 DEF InfoDown
    <2> QED BY <1>1, <1>3, <1>4, <1>7, <2>1
  <1> QED BY <1>5, <1>6, <1>7

(* The last entry is undone: it is not of level 0.                         *)
LEMMA UndoIs ==
  ASSUME NEW s \in State, Once(s), Counted(s), Placed(s), Len(s.trail) # 0,
         s.trail[Len(s.trail)].level # 0, NEW u, u = Undo(s)
  PROVE  UndoneBy(s, u, 1)
  <1> DEFINE n == Len(s.trail)
             e == s.trail[n]
             l == e.lit
             b == InfoDown(s, l)
             c == ChangedDown(s, l)
             undone == [s EXCEPT !.info = b, !.changed = c]
             removed == IF e.pos > 1 THEN RemovePropagation(undone, e.pos) ELSE undone
             a == Front(removed.trail)
  <1>1. n \in Nat /\ n \in DOMAIN s.trail /\ DOMAIN s.trail = 1 .. n /\ l \in Lit /\ e.pos \in Nat /\ IsTrue(s, l)
    <2>1. n \in Nat /\ DOMAIN s.trail = 1 .. n
      BY Fields
    <2>2. n \in DOMAIN s.trail
      BY <2>1
    <2>3. l \in Lit /\ e.pos \in Nat
      BY <2>2, Fields
    <2> QED BY <2>1, <2>2, <2>3, TrueIs
  <1>2. /\ b \in Counting /\ DOMAIN b = DOMAIN s.info /\ c \in SUBSET Var /\ s.changed \subseteq c
        /\ \A k \in DOMAIN s.info : k # l => b[k] = s.info[k]
        /\ l \in DOMAIN s.info => b[l] = (IF l \in s.passed THEN -1 ELSE 0) /\ (b[l] # 0 => VarOf(l) \in c)
    <2> HIDE DEF l
    <2> QED BY <1>1, InfoDownIs
  <1>3. u = [removed EXCEPT !.trail = a]
    <2>1. undone = ResetVariable(s, l)
      BY DEF ResetVariable, InfoDown, ChangedDown
    <2> HIDE DEF undone
    <2>2. u = [removed EXCEPT !.trail = Front(@)]
      BY <2>1 DEF Undo, Last
    <2> QED BY <2>2
  <1> HIDE DEF b, c
  <1>4. /\ undone \in State /\ Fixed(s, undone) /\ undone.trail = s.trail /\ undone.props = s.props
        /\ undone.level = s.level /\ undone.info = b /\ undone.changed = c
        /\ undone.excluded = s.excluded /\ undone.model = s.model
    BY <1>2 DEF State, Fixed
  <1> HIDE DEF undone
  <1>5. Once(undone) /\ Placed(undone)
    BY <1>4 DEF Once, Placed
  <1>6. /\ removed \in State /\ Fixed(s, removed) /\ Removed(undone, removed, n)
    <2>1. CASE e.pos > 1
      <3>1. removed = RemovePropagation(undone, e.pos) /\ n \in DOMAIN undone.trail /\ e.pos = undone.trail[n].pos /\ e.pos # 0
        BY <1>1, <1>4, <2>1
      <3> HIDE DEF removed
      <3>2. removed \in State /\ Fixed(undone, removed) /\ Removed(undone, removed, n)
        BY <1>4, <1>5, <3>1, RemovePropagationIs
      <3> QED BY <1>4, <3>2 DEF Fixed
    <2>2. CASE ~(e.pos > 1)
      <3>1. removed = undone
        BY <2>2
      <3>2. \A k \in DOMAIN undone.props : k > 1 => \E j \in DOMAIN undone.trail \ {n} : undone.trail[j].pos = k
        BY <1>4, <1>5, <2>2 DEF Placed
      <3>3. Removed(undone, undone, n)
        BY <1>5, <3>2 DEF Removed, Placed, Same
      <3> QED BY <1>4, <3>1, <3>3
    <2> QED BY <2>1, <2>2
  <1> HIDE DEF removed
  <1>7. /\ removed.trail \in Seq(Entry) /\ Len(removed.trail) = n
    <2>1. DOMAIN removed.trail = DOMAIN s.trail /\ removed.trail \in Seq(Entry)
      BY <1>4, <1>6, Fields DEF Removed
    <2> QED BY <1>1, <2>1
  <1>8. a \in Seq(Entry) /\ Len(a) = n - 1 /\ DOMAIN a = 1 .. n - 1 /\ \A i \in 1 .. n - 1 : a[i] = removed.trail[i]
    <2>1. n - 1 \in Nat /\ n - 1 <= Len(removed.trail)
      BY <1>1, <1>7
    <2> QED BY <1>7, <2>1, SubSeqIs DEF Front
  <1> HIDE DEF a
  <1>9. /\ u \in State /\ Fixed(s, u) /\ u.trail = a /\ u.level = s.level
        /\ u.info = b /\ u.changed = c /\ u.props = removed.props
        /\ u.excluded = s.excluded /\ u.model = s.model
    BY ONLY <1>3, <1>4, <1>6, <1>8 DEF State, Fixed, Removed
  <1>10. \A i \in 1 .. n - 1 : i \in DOMAIN s.trail /\ i # n /\ Same(a[i], s.trail[i])
    BY <1>1, <1>4, <1>6, <1>8 DEF Removed
  <1>11. \A k : IsTrue(u, k) <=> IsTrue(s, k) /\ k # l
    <2>1. \A i \in 1 .. n - 1 : a[i].lit = s.trail[i].lit
      BY <1>10 DEF Same
    <2>2. \A k : IsTrue(u, k) <=> \E i \in 1 .. n - 1 : s.trail[i].lit = k
      <3>1. \A k : IsTrue(u, k) <=> \E i \in DOMAIN a : a[i].lit = k
        BY <1>9, TrueIs
      <3> QED BY <1>8, <2>1, <3>1
    <2>3. \A k : IsTrue(s, k) <=> \E i \in DOMAIN s.trail : s.trail[i].lit = k
      BY TrueIs
    <2>4. \A i \in 1 .. n - 1 : s.trail[i].lit # l /\ i \in DOMAIN s.trail
      BY <1>1, <1>10 DEF Once
    <2>5. \A i \in DOMAIN s.trail : i = n \/ i \in 1 .. n - 1
      BY <1>1
    <2> QED BY <2>2, <2>3, <2>4, <2>5
  <1>12. Placed(u)
    <2>1. DOMAIN undone.trail \ {n} = 1 .. n - 1
      BY <1>1, <1>4
    <2>2. /\ \A j \in 1 .. n - 1 : removed.trail[j].pos # 0 =>
               removed.trail[j].pos \in DOMAIN removed.props
               /\ removed.props[removed.trail[j].pos].conclusion = removed.trail[j].lit
          /\ \A k \in DOMAIN removed.props : k > 1 => \E j \in 1 .. n - 1 : removed.trail[j].pos = k
      BY <1>6, <2>1 DEF Removed
    <2>3. \A j \in 1 .. n - 1 : a[j].pos # 0 =>
             a[j].pos \in DOMAIN removed.props /\ removed.props[a[j].pos].conclusion = a[j].lit
      BY <1>8, <2>2
    <2>4. \A k \in DOMAIN removed.props : k > 1 => \E j \in 1 .. n - 1 : a[j].pos = k
      BY <1>8, <2>2
    <2> QED BY ONLY <1>8, <1>9, <2>3, <2>4 DEF Placed
  <1>13. Counted(u)
    <2>1. s.relevant \subseteq DOMAIN s.info /\ s.passed \subseteq s.relevant
      BY DEF Counted
    <2>2. ASSUME NEW k \in DOMAIN s.info PROVE b[k] = Due(u, k) /\ (b[k] # 0 => VarOf(k) \in c)
      <3>1. s.info[k] = Due(s, k) /\ (s.info[k] # 0 => VarOf(k) \in s.changed)
        BY DEF Counted
      <3>2. CASE k # l
        <4>1. Due(u, k) = Due(s, k)
          BY <1>9, <1>11, <3>2 DEF Due, Fixed
        <4> QED BY <1>2, <3>1, <3>2, <4>1
      <3>3. CASE k = l
        <4>1. Due(u, k) = IF l \in s.passed THEN -1 ELSE 0
          BY <1>9, <1>11, <3>3 DEF Due, Fixed
        <4> QED BY <1>2, <3>3, <4>1
      <3> QED BY <3>2, <3>3
    <2>3. u.changedPassed => \A k \in u.passed : FixedTrue(u, k)
      <3>1. SUFFICES ASSUME s.changedPassed, NEW k \in s.passed PROVE FixedTrue(u, k)
        BY <1>9 DEF Fixed
      <3>2. PICK i \in DOMAIN s.trail : s.trail[i].lit = k /\ s.trail[i].level = 0
        BY <3>1 DEF Counted, FixedTrue, Entries
      <3>3. i \in 1 .. n - 1
        BY <1>1, <3>2
      <3> QED BY <1>8, <1>9, <1>10, <3>2, <3>3 DEF FixedTrue, Entries, Same
    <2> QED BY <1>2, <1>9, <2>1, <2>2, <2>3 DEF Counted, Fixed
  <1> QED BY <1>2, <1>8, <1>9, <1>10, <1>12, <1>13 DEF UndoneBy

(* The entries are undone one after another: the function that Undone      *)
(* chooses exists.                                                         *)
LEMMA UndoneSteps ==
  ASSUME NEW s, NEW n \in Nat, n = Len(s.trail)
  PROVE  /\ Undone(s)[0] = s
         /\ \A k \in 1 .. n : Undone(s)[k] = Undo(Undone(s)[k - 1])
  <1> DEFINE F(m, f) == f = [k \in 0 .. m |-> IF k = 0 THEN s ELSE Undo(f[k - 1])]
             T == {m \in 0 .. n : \E f : F(m, f)}
  <1>1. 0 \in T
    <2>1. F(0, [k \in 0 .. 0 |-> IF k = 0 THEN s ELSE s])
      OBVIOUS
    <2> HIDE DEF F
    <2> QED BY <2>1
  <1>2. ASSUME NEW m \in 0 .. n - 1, m \in T PROVE m + 1 \in T
    <2>1. PICK f : F(m, f)
      BY <1>2
    <2> DEFINE g == [i \in 0 .. m + 1 |-> IF i = m + 1 THEN Undo(f[m]) ELSE f[i]]
    <2>2. ASSUME NEW i \in 0 .. m + 1 PROVE g[i] = IF i = 0 THEN s ELSE Undo(g[i - 1])
      <3>1. CASE i = m + 1
        BY <3>1
      <3>2. CASE i # m + 1
        <4>1. i \in 0 .. m /\ (i # 0 => i - 1 \in 0 .. m)
          BY <3>2
        <4>2. f[i] = IF i = 0 THEN s ELSE Undo(f[i - 1])
          BY <2>1, <4>1
        <4> QED BY <3>2, <4>1, <4>2
      <3> QED BY <3>1, <3>2
    <2>3. F(m + 1, g)
      BY <2>2
    <2> HIDE DEF F, g
    <2> QED BY <2>3
  <1>3. n \in T
    <2> HIDE DEF T
    <2> QED BY ONLY n \in Nat, <1>1, <1>2, NumbersTo
  <1>4. F(n, Undone(s))
    BY <1>3 DEF Undone
  <1> QED BY <1>4
LEMMA SameTrail ==
  ASSUME NEW s, NEW t, t.trail = s.trail
  PROVE  /\ \A k : IsTrue(t, k) <=> IsTrue(s, k)
         /\ \A k : FixedTrue(t, k) <=> FixedTrue(s, k)
         /\ \A k : Assigned(t, k) <=> Assigned(s, k)
  BY DEF IsTrue, TrueLits, FixedTrue, Entries, Assigned

LEMMA CountedSame ==
  ASSUME NEW s, NEW t, Counted(s), t.trail = s.trail, t.info = s.info, t.changed = s.changed,
         t.relevant = s.relevant, t.passed = s.passed, t.changedPassed = s.changedPassed
  PROVE  Counted(t)
  <1>1. \A k : Due(t, k) = Due(s, k)
    BY SameTrail DEF Due
  <1>2. \A k : FixedTrue(s, k) => FixedTrue(t, k)
    BY SameTrail
  <1> QED BY <1>1, <1>2 DEF Counted

LEMMA SoundSame ==
  ASSUME NEW s, NEW t, Sound(s), t \in State, Fixed(s, t), t.trail = s.trail, t.level = s.level,
         t.qhead = s.qhead, t.info = s.info, t.changed = s.changed, t.props = s.props
  PROVE  Sound(t)
  <1>1. Counted(t)
    BY CountedSame DEF Sound, Fixed
  <1>2. Ordered(t)
    BY DEF Sound, Ordered, Once, LevelsRise, ReasonsEarlier, AssignedBefore
  <1>3. QueueFresh(t) /\ KnownFirst(t) /\ WatchesTwo(t) /\ Placed(t)
    BY DEF Sound, Fixed, QueueFresh, KnownFirst, WatchesTwo, Placed
  <1> QED BY <1>1, <1>2, <1>3 DEF Sound

LEMMA UndoneIs ==
  ASSUME NEW s \in State, Once(s), Counted(s), Placed(s), NEW m \in 0 .. Len(s.trail),
         \A i \in DOMAIN s.trail : i > Len(s.trail) - m => s.trail[i].level # 0
  PROVE  UndoneBy(s, Undone(s)[m], m)
  <1> DEFINE n == Len(s.trail)
             f == Undone(s)
             T == {k \in 0 .. m : UndoneBy(s, f[k], k)}
  <1>1. n \in Nat /\ DOMAIN s.trail = 1 .. n
    BY Fields
  <1>2. f[0] = s /\ \A k \in 1 .. n : f[k] = Undo(f[k - 1])
    BY <1>1, UndoneSteps
  <1>3. 0 \in T
    <2>1. UndoneBy(s, s, 0)
      BY <1>1 DEF UndoneBy, Fixed, Same
    <2> QED BY <1>2, <2>1
  <1>4. ASSUME NEW k \in 0 .. m - 1, k \in T PROVE k + 1 \in T
    <2> DEFINE u == f[k]
               v == f[k + 1]
    <2>1. UndoneBy(s, u, k) /\ v = Undo(u)
      BY <1>1, <1>2, <1>4
    <2> HIDE DEF f
    <2>2. /\ u \in State /\ Fixed(s, u) /\ u.level = s.level /\ DOMAIN u.info = DOMAIN s.info
          /\ u.excluded = s.excluded /\ u.model = s.model
          /\ Len(u.trail) = n - k
          /\ \A i \in DOMAIN u.trail : i \in DOMAIN s.trail /\ Same(u.trail[i], s.trail[i])
          /\ Counted(u) /\ Placed(u)
      BY <2>1 DEF UndoneBy
    <2>3. Once(u)
      BY <2>2 DEF Once, Same
    <2>4. Len(u.trail) # 0 /\ Len(u.trail) \in DOMAIN u.trail /\ Len(u.trail) > n - m
      <3>1. DOMAIN u.trail = 1 .. Len(u.trail)
        BY <2>2, Fields
      <3> QED BY <1>1, <2>2, <3>1
    <2>5. u.trail[Len(u.trail)].level # 0
      BY <2>2, <2>4 DEF Same
    <2>6. UndoneBy(u, v, 1)
      BY <2>1, <2>2, <2>3, <2>4, <2>5, UndoIs
    <2>7. UndoneBy(s, v, k + 1)
      <3>1. Len(v.trail) = n - (k + 1)
        <4>1. Len(v.trail) = Len(u.trail) - 1
          BY <2>6 DEF UndoneBy
        <4>2. Len(u.trail) = n - k
          BY <2>2 DEF UndoneBy
        <4> HIDE DEF u, v
        <4>3. n \in Nat /\ k \in Nat
          BY <1>1
        <4> HIDE DEF n
        <4> QED BY ONLY <4>1, <4>2, <4>3
      <3>2. \A i \in DOMAIN v.trail : i \in DOMAIN s.trail /\ Same(v.trail[i], s.trail[i])
        BY <2>2, <2>6 DEF UndoneBy, Same
      <3>3. /\ Fixed(s, v) /\ v.level = s.level /\ DOMAIN v.info = DOMAIN s.info
            /\ v.excluded = s.excluded /\ v.model = s.model
        BY <2>2, <2>6 DEF UndoneBy, Fixed
      <3> QED BY <2>6, <3>1, <3>2, <3>3 DEF UndoneBy
    <2> QED BY <2>7
  <1>5. m \in T
    <2>1. m \in Nat /\ m \in 0 .. m
      BY <1>1
    <2> HIDE DEF T
    <2> QED BY <1>3, <1>4, <2>1, NumbersTo
  <1> QED BY <1>5

LEMMA LimitIs ==
  ASSUME NEW s \in State, LevelsRise(s), NEW level \in Nat
  PROVE  /\ Limit(s, level) \in 0 .. Len(s.trail)
         /\ \A i \in DOMAIN s.trail : s.trail[i].level <= level <=> i <= Limit(s, level)
  <1> DEFINE n == Len(s.trail)
             X == {i \in 0 .. n : i # 0 => s.trail[i].level <= level}
  <1>1. n \in Nat /\ DOMAIN s.trail = 1 .. n /\ \A i \in DOMAIN s.trail : s.trail[i].level \in Nat
    BY Fields
  <1>2. PICK m \in X : \A i \in X : i <= m
    <2>1. 0 \in X /\ X \subseteq 0 .. n
      BY <1>1
    <2> HIDE DEF X
    <2> QED BY <1>1, <2>1, GreatestNatural
  <1>3. ASSUME NEW i \in DOMAIN s.trail PROVE s.trail[i].level <= level <=> i <= m
    <2>1. s.trail[i].level <= level => i \in X
      BY <1>1
    <2>2. ASSUME i <= m PROVE s.trail[i].level <= level
      <3>1. m \in DOMAIN s.trail /\ s.trail[m].level <= level
        BY <1>1, <1>2, <2>2
      <3>2. s.trail[i].level <= s.trail[m].level
        BY <2>2, <3>1 DEF LevelsRise
      <3>3. s.trail[i].level \in Nat /\ s.trail[m].level \in Nat
        BY <1>1, <3>1
      <3> QED BY <3>1, <3>2, <3>3
    <2> QED BY <1>2, <2>1, <2>2
  <1>4. \E k \in 0 .. n : \A i \in DOMAIN s.trail : s.trail[i].level <= level <=> i <= k
    BY <1>2, <1>3
  <1> QED BY <1>4 DEF Limit

(* What cancelUntil leaves: the entries up to the level it goes back to.   *)
Target(s, level, force) ==
    IF level < Len(s.assumptions) /\ ~force THEN Len(s.assumptions) ELSE level

Cancelled(s, t, to) ==
    /\ Fixed(s, t) /\ DOMAIN t.info = DOMAIN s.info
    /\ t.excluded = s.excluded /\ t.model = s.model
    /\ s.level <= to => t = s
    /\ s.level > to => t.level = to /\ t.qhead = Len(t.trail) /\ t.ok
    /\ \A i \in DOMAIN t.trail : i \in DOMAIN s.trail /\ Same(t.trail[i], s.trail[i])
    /\ \A i \in DOMAIN s.trail : i \in DOMAIN t.trail <=> s.trail[i].level <= t.level

LEMMA CancelUntilIs ==
  ASSUME NEW s, Sound(s), NEW level \in Nat, NEW force, NEW t, t = CancelUntil(s, level, force),
         NEW to, to = Target(s, level, force)
  PROVE  /\ Sound(t) /\ to \in Nat /\ Cancelled(s, t, to)
         /\ t.level = IF s.level <= to THEN s.level ELSE to
  <1> DEFINE n == Len(s.trail)
             lim == Limit(s, to)
             u == Undone(s)[n - lim]
  <1>1. /\ s \in State /\ Once(s) /\ LevelsRise(s) /\ ReasonsEarlier(s) /\ QueueFresh(s) /\ KnownFirst(s)
        /\ WatchesTwo(s) /\ Counted(s) /\ Placed(s)
    BY DEF Sound, Ordered
  <1>2. /\ n \in Nat /\ DOMAIN s.trail = 1 .. n /\ s.level \in Nat /\ Len(s.assumptions) \in Nat
        /\ \A i \in DOMAIN s.trail : s.trail[i].level \in Nat
    BY <1>1, Fields
  <1>3. to \in Nat
    BY <1>2 DEF Target
  <1>4. CASE s.level <= to
    <2>1. t = s
      BY <1>4 DEF CancelUntil, Target
    <2>2. \A i \in DOMAIN s.trail : s.trail[i].level <= s.level
      BY <1>1 DEF LevelsRise
    <2>3. ~(s.level > to)
      BY <1>2, <1>3, <1>4
    <2>4. Cancelled(s, t, to)
      BY <2>1, <2>2, <2>3 DEF Cancelled, Fixed, Same
    <2> QED BY <1>3, <1>4, <2>1, <2>4
  <1>5. CASE ~(s.level <= to)
    <2>1. lim \in 0 .. n /\ \A i \in DOMAIN s.trail : s.trail[i].level <= to <=> i <= lim
      BY <1>1, <1>3, LimitIs
    <2>2. n - lim \in 0 .. n /\ n - (n - lim) = lim
      BY <1>2, <2>1
    <2>3. \A i \in DOMAIN s.trail : i > lim => s.trail[i].level # 0
      BY <1>2, <1>3, <2>1
    <2> HIDE DEF lim
    <2>4. UndoneBy(s, u, n - lim)
      BY <1>1, <2>2, <2>3, UndoneIs
    <2>5. t = [u EXCEPT !.level = to, !.qhead = Len(u.trail), !.ok = TRUE]
      BY <1>5 DEF CancelUntil, Target, lim
    <2> HIDE DEF u
    <2>6. /\ u \in State /\ Fixed(s, u) /\ DOMAIN u.info = DOMAIN s.info /\ Len(u.trail) = lim
          /\ u.excluded = s.excluded /\ u.model = s.model
          /\ DOMAIN u.trail = 1 .. lim
          /\ \A i \in DOMAIN u.trail : i \in DOMAIN s.trail /\ Same(u.trail[i], s.trail[i])
          /\ Counted(u) /\ Placed(u)
      <3>1. u \in State /\ Len(u.trail) = lim
        BY <1>2, <2>1, <2>4 DEF UndoneBy
      <3> QED BY <2>4, <3>1, Fields DEF UndoneBy
    <2>7. /\ t \in State /\ Fixed(s, t) /\ t.trail = u.trail /\ t.level = to /\ t.qhead = lim /\ t.ok
          /\ t.info = u.info /\ t.changed = u.changed /\ t.props = u.props
          /\ t.excluded = s.excluded /\ t.model = s.model
      <3>1. t = [u EXCEPT !.level = to, !.qhead = lim, !.ok = TRUE] /\ lim \in Nat
        BY <1>2, <2>1, <2>5, <2>6
      <3>2. /\ t \in State /\ Fixed(u, t) /\ t.trail = u.trail /\ t.level = to /\ t.qhead = lim /\ t.ok
            /\ t.info = u.info /\ t.changed = u.changed /\ t.props = u.props
            /\ t.excluded = u.excluded /\ t.model = u.model
        BY ONLY <1>3, <2>6, <3>1 DEF State, Fixed
      <3> QED BY <2>6, <3>2 DEF Fixed
    <2>8. \A i \in DOMAIN t.trail : /\ i \in DOMAIN s.trail /\ Same(t.trail[i], s.trail[i])
                                    /\ t.trail[i].lit = s.trail[i].lit /\ t.trail[i].reason = s.trail[i].reason
                                    /\ t.trail[i].level = s.trail[i].level
      BY <2>6, <2>7 DEF Same
    <2>9. Cancelled(s, t, to)
      <3>1. \A i \in DOMAIN s.trail : i \in DOMAIN t.trail <=> s.trail[i].level <= t.level
        BY <1>2, <2>1, <2>6, <2>7
      <3> QED BY <1>5, <2>6, <2>7, <2>8, <3>1 DEF Cancelled
    <2>10. Ordered(t)
      <3>1. Once(t)
        BY <1>1, <2>8 DEF Once
      <3>2. LevelsRise(t)
        <4>1. \A i, j \in DOMAIN t.trail : i <= j => t.trail[i].level <= t.trail[j].level
          BY <1>1, <2>8 DEF LevelsRise
        <4>2. \A i \in DOMAIN t.trail : t.trail[i].level <= t.level
          BY <2>8, <2>9 DEF Cancelled
        <4> QED BY <4>1, <4>2 DEF LevelsRise
      <3>3. ReasonsEarlier(t)
        <4>1. ASSUME NEW i \in DOMAIN t.trail, NEW l \in t.trail[i].reason \ {t.trail[i].lit}
              PROVE  AssignedBefore(t, i, l)
          <5>1. AssignedBefore(s, i, l)
            BY <1>1, <2>8 DEF ReasonsEarlier
          <5>2. PICK j \in 1 .. i - 1 : VarOf(s.trail[j].lit) = VarOf(l)
            BY <5>1 DEF AssignedBefore
          <5>3. j \in DOMAIN t.trail
            BY <2>6, <2>7
          <5> QED BY <2>8, <5>2, <5>3 DEF AssignedBefore
        <4> QED BY <4>1 DEF ReasonsEarlier
      <3> QED BY <3>1, <3>2, <3>3 DEF Ordered
    <2>11. QueueFresh(t)
      BY <2>1, <2>6, <2>7 DEF QueueFresh
    <2>12. KnownFirst(t) /\ WatchesTwo(t)
      BY <1>1, <2>6, <2>7, <2>8 DEF KnownFirst, WatchesTwo, Fixed
    <2>13. Counted(t)
      BY <2>6, <2>7, CountedSame DEF Fixed
    <2>14. Placed(t)
      BY <2>6, <2>7 DEF Placed
    <2> QED BY <1>3, <1>5, <2>7, <2>9, <2>10, <2>11, <2>12, <2>13, <2>14 DEF Sound
  <1> QED BY <1>4, <1>5

-----------------------------------------------------------------------------
(* The passed formula, new variables and clauses.                          *)

Adapted(s, t) ==
    /\ t.trail = s.trail /\ t.level = s.level /\ t.qhead = s.qhead /\ t.assumptions = s.assumptions
    /\ t.watch = s.watch /\ t.learnts = s.learnts /\ t.known = s.known
    /\ t.relevant = s.relevant /\ t.props = s.props /\ t.excluded = s.excluded /\ t.model = s.model
    /\ t.passed = s.relevant \cap TrueLits(s)

(* The same, for a result that is named: what cancelUntil leaves is sound. *)
CancelsTo(s, level, force, t, to) == t = CancelUntil(s, level, force) /\ to = Target(s, level, force)
CancelRight(s, t, to) == /\ Sound(t) /\ to \in Nat /\ Cancelled(s, t, to)
                         /\ t.level = IF s.level <= to THEN s.level ELSE to

LEMMA CancelIs ==
  ASSUME NEW s, Sound(s), NEW level \in Nat, NEW force, NEW t, NEW to, CancelsTo(s, level, force, t, to)
  PROVE  CancelRight(s, t, to)
  <1>1. t = CancelUntil(s, level, force) /\ to = Target(s, level, force)
    BY DEF CancelsTo
  <1>2. /\ Sound(t) /\ to \in Nat /\ Cancelled(s, t, to)
        /\ t.level = IF s.level <= to THEN s.level ELSE to
    BY ONLY <1>1, Sound(s), level \in Nat, CancelUntilIs
  <1> QED BY ONLY <1>2 DEF CancelRight

(* Sound, but for changedPassed.                                           *)
Exact(s) ==
    /\ s.relevant \subseteq DOMAIN s.info /\ s.passed \subseteq s.relevant
    /\ \A l \in DOMAIN s.info : s.info[l] = Due(s, l) /\ (s.info[l] # 0 => VarOf(l) \in s.changed)
Ready(s) ==
    s \in State /\ Ordered(s) /\ QueueFresh(s) /\ KnownFirst(s) /\ WatchesTwo(s) /\ Exact(s) /\ Placed(s)

(* After adaptPassedFormula, what is passed are the relevant true literals. *)
LEMMA AdaptReady ==
  ASSUME NEW s, Sound(s), NEW t, t = Adapt(s)
  PROVE  Ready(t) /\ Adapted(s, t)
  <1> DEFINE leaving == {l \in s.passed : VarOf(l) \in s.changed /\ s.info[l] < 0}
             coming == {l \in DOMAIN s.info : VarOf(l) \in s.changed /\ s.info[l] > 0}
             news == s.changedPassed \/ leaving # {} \/ coming # {}
             a == (s.passed \ leaving) \cup coming
             b == [l \in DOMAIN s.info |-> IF VarOf(l) \in s.changed THEN 0 ELSE s.info[l]]
             c == IF news THEN "SAT" ELSE s.consistent
  <1>1. /\ s \in State /\ s.info \in Counting /\ s.relevant \subseteq DOMAIN s.info /\ s.passed \subseteq s.relevant
        /\ DOMAIN s.info \subseteq Lit /\ s.passed \subseteq Lit /\ s.changedPassed \in BOOLEAN
        /\ \A l \in DOMAIN s.info : /\ s.info[l] \in {-1, 0, 1}
                                    /\ s.info[l] = Due(s, l) /\ (s.info[l] # 0 => VarOf(l) \in s.changed)
    BY Fields, CountingIs DEF Sound, Counted, State
  <1>2. DOMAIN b = DOMAIN s.info /\ \A l \in DOMAIN s.info : b[l] = 0
    BY <1>1
  <1>3. b \in Counting
    <2>1. b \in [DOMAIN s.info -> {-1, 0, 1}]
      BY <1>2
    <2> HIDE DEF b
    <2> QED BY <1>1, <2>1, CountingIs
  <1>4. a \subseteq Lit
    BY <1>1
  <1>5. a = s.relevant \cap TrueLits(s)
    <2>1. ASSUME NEW l \in DOMAIN s.info PROVE l \in a <=> l \in s.relevant /\ IsTrue(s, l)
      <3>1. s.info[l] = Due(s, l) /\ (s.info[l] # 0 => VarOf(l) \in s.changed) /\ s.info[l] \in {-1, 0, 1}
        BY <1>1
      <3>2. CASE l \in s.passed
        BY <1>1, <3>1, <3>2 DEF Due
      <3>3. CASE l \notin s.passed
        BY <1>1, <3>1, <3>3 DEF Due
      <3> QED BY <3>2, <3>3
    <2>2. a \subseteq DOMAIN s.info
      BY <1>1
    <2> HIDE DEF a
    <2> QED BY <1>1, <2>1, <2>2 DEF IsTrue
  <1>6. c \in {"SAT", "UNSAT", "UNKNOWN"} /\ news \in BOOLEAN
    BY <1>1 DEF State
  <1>7. t = [s EXCEPT !.passed = a, !.info = b, !.changed = {}, !.changedPassed = news, !.consistent = c]
    BY DEF Adapt
  <1> HIDE DEF a, b, c, news
  <1>8. /\ t \in State /\ t.trail = s.trail /\ t.level = s.level /\ t.qhead = s.qhead
        /\ t.assumptions = s.assumptions /\ t.watch = s.watch /\ t.learnts = s.learnts /\ t.known = s.known
        /\ t.relevant = s.relevant /\ t.props = s.props /\ t.passed = a /\ t.info = b
        /\ t.excluded = s.excluded /\ t.model = s.model
    <2>1. s \in State /\ news \in BOOLEAN /\ c \in {"SAT", "UNSAT", "UNKNOWN"}
      BY <1>1, <1>6
    <2>2. ASSUME NEW x \in BOOLEAN, NEW y \in {"SAT", "UNSAT", "UNKNOWN"},
                 t = [s EXCEPT !.passed = a, !.info = b, !.changed = {}, !.changedPassed = x, !.consistent = y]
          PROVE  t \in State
      BY ONLY <1>3, <1>4, <2>1, <2>2 DEF State
    <2>3. t \in State
      BY <1>7, <2>1, <2>2
    <2> QED BY <1>7, <2>3 DEF State
  <1>9. Adapted(s, t)
    BY <1>5, <1>8 DEF Adapted
  <1>10. Exact(t)
    <2>1. \A l : IsTrue(t, l) <=> IsTrue(s, l)
      BY <1>8, SameTrail
    <2>2. \A l : l \in t.passed <=> l \in t.relevant /\ IsTrue(t, l)
      BY <1>5, <1>8, <2>1 DEF IsTrue
    <2>3. \A l : Due(t, l) = 0
      BY <2>2 DEF Due
    <2> QED BY <1>1, <1>2, <1>8, <2>2, <2>3 DEF Exact
  <1>11. Ordered(t) /\ QueueFresh(t) /\ WatchesTwo(t) /\ Placed(t)
    <2>1. Ordered(t)
      BY <1>8 DEF Sound, Ordered, Once, LevelsRise, ReasonsEarlier, AssignedBefore
    <2>2. QueueFresh(t)
      BY <1>8 DEF Sound, QueueFresh
    <2>3. WatchesTwo(t) /\ Placed(t)
      BY <1>8 DEF Sound, WatchesTwo, Placed
    <2> QED BY <2>1, <2>2, <2>3
  <1>12. KnownFirst(t)
    BY <1>2, <1>8 DEF Sound, KnownFirst
  <1> QED BY <1>8, <1>9, <1>10, <1>11, <1>12 DEF Ready

LEMMA AdaptIs ==
  ASSUME NEW s, Sound(s), NEW t, t = Adapt(s),
         t.changedPassed => \A i \in DOMAIN s.trail : s.trail[i].level = 0
  PROVE  Sound(t) /\ Adapted(s, t)
  <1>1. Ready(t) /\ Adapted(s, t)
    BY AdaptReady
  <1>2. ASSUME t.changedPassed, NEW l \in t.passed PROVE FixedTrue(t, l)
    <2>1. IsTrue(s, l) /\ t.trail = s.trail
      BY <1>1, <1>2 DEF Adapted, IsTrue
    <2> QED BY <1>2, <2>1, TrueIs
  <1>3. Counted(t)
    BY <1>1, <1>2 DEF Ready, Exact, Counted
  <1> QED BY <1>1, <1>3 DEF Ready, Sound

Created(s, t, C) ==
    /\ t.trail = s.trail /\ t.level = s.level /\ t.qhead = s.qhead /\ t.assumptions = s.assumptions
    /\ t.watch = s.watch /\ t.learnts = s.learnts /\ t.passed = s.passed /\ t.props = s.props
    /\ t.changedPassed = s.changedPassed /\ t.excluded = s.excluded /\ t.model = s.model
    /\ s.known \subseteq t.known /\ Within(C, t.known)

LEMMA CreateLiteralsIs ==
  ASSUME NEW s, Sound(s), NEW C, C \subseteq Lit, NEW isLemma \in BOOLEAN, NEW t, t = CreateLiterals(s, C, isLemma)
  PROVE  Sound(t) /\ Created(s, t, C)
  <1> DEFINE fresh == {VarOf(l) : l \in C} \ s.known
             both == {v \in fresh \cap TheoryVar : isLemma}
             relevant == {l \in C : IsTheory(l) /\ (~isLemma \/ l > 0)} \cup both \cup {-v : v \in both}
             late == {l \in relevant \ s.relevant : IsTrue(s, l)}
             new == {v \in fresh : v \in TheoryVar}
             D == DOMAIN s.info \cup new \cup {-v : v \in new}
             a == s.known \cup fresh
             b == s.relevant \cup relevant
             c == [l \in D |-> IF l \notin DOMAIN s.info THEN 0 ELSE IF l \in late THEN s.info[l] + 1 ELSE s.info[l]]
             d == s.changed \cup {VarOf(l) : l \in {k \in late : s.info[k] + 1 > 0}}
  <1>1. /\ s \in State /\ s.info \in Counting /\ s.relevant \subseteq DOMAIN s.info /\ s.passed \subseteq s.relevant
        /\ s.known \subseteq Var /\ s.changed \subseteq Var
        /\ \A i \in DOMAIN s.trail : VarOf(s.trail[i].lit) \in s.known
        /\ DOMAIN s.info = {l \in Lit : VarOf(l) \in s.known \cap TheoryVar}
        /\ \A l \in DOMAIN s.info : /\ s.info[l] \in {-1, 0, 1}
                                    /\ s.info[l] = Due(s, l) /\ (s.info[l] # 0 => VarOf(l) \in s.changed)
    BY Fields, CountingIs DEF Sound, Counted, KnownFirst
  <1>2. /\ \A v \in fresh : v \in Var /\ v \in Lit /\ -v \in Lit /\ VarOf(v) = v /\ VarOf(-v) = v
        /\ a \subseteq Var /\ Within(C, a)
    BY <1>1, Literals DEF Within
  <1>3. \A l \in relevant : l \in Lit /\ VarOf(l) \in a /\ VarOf(l) \in TheoryVar
    BY <1>2 DEF Within, IsTheory
  <1>4. D = {l \in Lit : VarOf(l) \in a \cap TheoryVar}
    <2>1. ASSUME NEW l \in Lit, VarOf(l) \in new PROVE l \in D
      <3>1. VarOf(l) = VarOf(VarOf(l)) /\ VarOf(l) \in Lit
        BY <1>2, <2>1
      <3>2. l = VarOf(l) \/ l = -VarOf(l)
        BY <3>1, Literals
      <3> QED BY <2>1, <3>2
    <2>2. \A l \in new \cup {-v : v \in new} : l \in Lit /\ VarOf(l) \in new
      BY <1>2
    <2> QED BY <1>1, <2>1, <2>2
  <1>5. \A l \in late : l \in DOMAIN s.info /\ s.info[l] = 0
    <2>1. ASSUME NEW l \in late PROVE l \in DOMAIN s.info /\ s.info[l] = 0
      <3>1. IsTrue(s, l) /\ l \in Lit /\ VarOf(l) \in TheoryVar /\ l \notin s.relevant
        BY <1>3
      <3>2. VarOf(l) \in s.known
        BY <1>1, <3>1, TrueIs
      <3>3. l \in DOMAIN s.info
        BY <1>1, <3>1, <3>2
      <3> QED BY <1>1, <3>1, <3>3 DEF Due
    <2> QED BY <2>1
  <1>6. t = [s EXCEPT !.known = a, !.relevant = b, !.info = c, !.changed = d]
    BY DEF CreateLiterals
  <1>7. b \subseteq Lit /\ b \subseteq D
    BY <1>1, <1>3, <1>4
  <1>8. DOMAIN c = D /\ D \subseteq Lit /\ \A l \in D : c[l] \in {-1, 0, 1}
    <2>1. DOMAIN c = D /\ D \subseteq Lit
      BY <1>4
    <2>2. ASSUME NEW l \in D PROVE c[l] \in {-1, 0, 1}
      BY <1>1, <1>5
    <2> QED BY <2>1, <2>2
  <1>9. c \in Counting
    <2>1. c = [l \in D |-> c[l]]
      OBVIOUS
    <2> HIDE DEF c, D
    <2>2. c \in [D -> {-1, 0, 1}]
      BY <1>8, <2>1
    <2> QED BY <1>8, <2>2, CountingIs
  <1>10. d \in SUBSET Var /\ s.changed \subseteq d /\ \A l \in late : VarOf(l) \in d
    BY <1>1, <1>3, <1>5, Literals
  <1>11. \A l \in D : c[l] = IF l \notin DOMAIN s.info THEN 0 ELSE IF l \in late THEN 1 ELSE s.info[l]
    BY <1>5
  <1>12. \A l : l \in late <=> l \in b /\ l \notin s.relevant /\ IsTrue(s, l)
    OBVIOUS
  <1>13. s.known \subseteq a /\ s.relevant \subseteq b /\ DOMAIN s.info \subseteq D
    OBVIOUS
  <1> HIDE DEF a, b, c, d, late, D
  <1>14. /\ t \in State /\ t.trail = s.trail /\ t.level = s.level /\ t.qhead = s.qhead
         /\ t.excluded = s.excluded /\ t.model = s.model
         /\ t.assumptions = s.assumptions /\ t.watch = s.watch /\ t.learnts = s.learnts
         /\ t.passed = s.passed /\ t.props = s.props /\ t.changedPassed = s.changedPassed
         /\ t.known = a /\ t.relevant = b /\ t.info = c /\ t.changed = d
    <2>1. s \in State /\ a \in SUBSET Var /\ b \in SUBSET Lit /\ d \in SUBSET Var
      BY <1>1, <1>2, <1>7, <1>10
    <2>2. t \in State
      BY ONLY <1>6, <1>9, <2>1 DEF State
    <2> QED BY ONLY <1>6, <2>1, <2>2 DEF State
  <1>15. Created(s, t, C)
    BY <1>2, <1>13, <1>14 DEF Created
  <1>16. Counted(t)
    <2>1. \A l : IsTrue(t, l) <=> IsTrue(s, l)
      BY <1>14, SameTrail
    <2>2. ASSUME NEW l \in D PROVE c[l] = Due(t, l) /\ (c[l] # 0 => VarOf(l) \in d)
      <3>1. CASE l \notin DOMAIN s.info
        <4>1. ~IsTrue(s, l)
          <5>1. SUFFICES ASSUME IsTrue(s, l) PROVE FALSE
            OBVIOUS
          <5>2. VarOf(l) \in s.known
            BY <1>1, <5>1, TrueIs
          <5> QED BY <1>1, <1>4, <3>1, <5>2
        <4> QED BY <1>1, <1>11, <1>14, <2>1, <3>1, <4>1 DEF Due
      <3>2. CASE l \in late
        <4>1. c[l] = 1 /\ l \notin s.passed
          BY <1>1, <1>5, <1>11, <1>12, <3>2
        <4>2. l \in t.relevant /\ IsTrue(t, l) /\ l \notin t.passed
          BY <1>12, <1>14, <2>1, <3>2, <4>1
        <4> QED BY <1>10, <3>2, <4>1, <4>2 DEF Due
      <3>3. CASE l \in DOMAIN s.info /\ l \notin late
        <4>1. l \in t.relevant /\ IsTrue(t, l) <=> l \in s.relevant /\ IsTrue(s, l)
          BY <1>12, <1>13, <1>14, <2>1, <3>3
        <4>2. Due(t, l) = Due(s, l)
          BY <1>14, <4>1 DEF Due
        <4> QED BY <1>1, <1>10, <1>11, <3>3, <4>2
      <3> QED BY <3>1, <3>2, <3>3
    <2>3. t.changedPassed => \A l \in t.passed : FixedTrue(t, l)
      BY <1>14, SameTrail DEF Sound, Counted
    <2> QED BY <1>1, <1>7, <1>8, <1>13, <1>14, <2>2, <2>3 DEF Counted
  <1>17. Ordered(t)
    BY <1>14 DEF Sound, Ordered, Once, LevelsRise, ReasonsEarlier, AssignedBefore
  <1>18. QueueFresh(t)
    BY <1>14 DEF Sound, QueueFresh
  <1>19. WatchesTwo(t) /\ Placed(t)
    BY <1>14 DEF Sound, WatchesTwo, Placed
  <1>20. KnownFirst(t)
    BY <1>4, <1>8, <1>13, <1>14 DEF Sound, KnownFirst, Within
  <1> QED BY <1>14, <1>15, <1>16, <1>17, <1>18, <1>19, <1>20 DEF Sound

Attached(s, t, C) ==
    /\ t.trail = s.trail /\ t.level = s.level /\ t.qhead = s.qhead /\ t.assumptions = s.assumptions
    /\ t.known = s.known /\ t.relevant = s.relevant /\ t.passed = s.passed /\ t.props = s.props
    /\ t.changedPassed = s.changedPassed /\ DOMAIN t.watch = DOMAIN s.watch \cup {C} /\ t.ok = s.ok
    /\ t.excluded = s.excluded /\ t.model = s.model

LEMMA AttachIs ==
  ASSUME NEW s, Sound(s), NEW C, C \subseteq Lit, Within(C, s.known), NEW x \in C, NEW y \in C, x # y,
         NEW L, L \subseteq s.learnts \cup {C}, NEW t, t = Attach([s EXCEPT !.learnts = L], C, {x, y})
  PROVE  Sound(t) /\ Attached(s, t, C)
  <1> DEFINE w == [c \in DOMAIN s.watch \cup {C} |-> IF c = C THEN {x, y} ELSE s.watch[c]]
             D == DOMAIN s.watch \cup {C}
  <1>1. /\ s \in State /\ s.watch \in Watching /\ DOMAIN s.watch \subseteq SUBSET Lit
        /\ \A c \in DOMAIN s.watch : s.watch[c] \subseteq Lit
        /\ s.learnts \subseteq DOMAIN s.watch /\ L \subseteq SUBSET Lit
        /\ \A c \in DOMAIN s.watch : \E a, b \in c : a # b /\ s.watch[c] = {a, b}
    BY Fields, WatchingIs DEF Sound, WatchesTwo
  <1>2. D \in SUBSET SUBSET Lit /\ DOMAIN w = D /\ \A c \in D : w[c] \subseteq Lit /\ \E a, b \in c : a # b /\ w[c] = {a, b}
    BY <1>1
  <1>3. w \in Watching
    <2>1. w = [c \in D |-> w[c]]
      OBVIOUS
    <2> HIDE DEF w, D
    <2>2. w \in [D -> SUBSET Lit]
      BY <1>2, <2>1
    <2> QED BY <1>2, <2>2, WatchingIs
  <1>4. t = [s EXCEPT !.learnts = L, !.watch = w]
    BY <1>1 DEF Attach, State
  <1> HIDE DEF w
  <1>5. /\ t \in State /\ t.trail = s.trail /\ t.level = s.level /\ t.qhead = s.qhead /\ t.assumptions = s.assumptions
        /\ t.known = s.known /\ t.relevant = s.relevant /\ t.passed = s.passed /\ t.props = s.props
        /\ t.changedPassed = s.changedPassed /\ t.info = s.info /\ t.changed = s.changed
        /\ t.learnts = L /\ t.watch = w /\ t.ok = s.ok /\ t.excluded = s.excluded /\ t.model = s.model
    <2>1. s \in State /\ L \in SUBSET SUBSET Lit
      BY <1>1
    <2> QED BY ONLY <1>3, <1>4, <2>1 DEF State
  <1>6. Attached(s, t, C)
    BY <1>2, <1>5 DEF Attached
  <1>7. Counted(t)
    BY <1>5, CountedSame DEF Sound
  <1>13. Sound(s)
    OBVIOUS
  <1>8. Ordered(t)
    BY ONLY <1>5, <1>13 DEF Sound, Ordered, Once, LevelsRise, ReasonsEarlier, AssignedBefore
  <1>9. QueueFresh(t)
    BY ONLY <1>5, <1>13 DEF Sound, QueueFresh
  <1>10. KnownFirst(t)
    BY <1>2, <1>5 DEF Sound, KnownFirst
  <1>11. WatchesTwo(t)
    <2>1. \A c \in DOMAIN w : \E a, b \in c : a # b /\ w[c] = {a, b}
      BY ONLY <1>2
    <2>2. L \subseteq DOMAIN w
      BY <1>1, <1>2
    <2> QED BY ONLY <1>5, <2>1, <2>2 DEF WatchesTwo
  <1>12. Placed(t)
    BY ONLY <1>5, <1>13 DEF Sound, Placed
  <1> QED BY <1>5, <1>6, <1>7, <1>8, <1>9, <1>10, <1>11, <1>12 DEF Sound

(* A literal without an explanation of its own is enqueued.                *)
Extends(s, t) ==
    /\ t.qhead = s.qhead /\ t.excluded = s.excluded /\ t.model = s.model
    /\ t.level = s.level /\ t.known = s.known /\ ToSet(s.assumptions) \subseteq ToSet(t.assumptions)
    /\ \A i \in DOMAIN s.trail : i \in DOMAIN t.trail /\ Same(t.trail[i], s.trail[i])
    /\ \A i \in DOMAIN t.trail \ DOMAIN s.trail : t.trail[i].level = t.level

LEMMA EnqueuePlain ==
  ASSUME NEW s, Sound(s), NEW l \in Lit, NEW reason, reason \subseteq Lit, NEW first \in Int,
         Unassigned(s, l), VarOf(l) \in s.known, \A k \in reason \ {l} : Assigned(s, k),
         NEW t, t = Enqueue(s, l, reason, first, 0)
  PROVE  /\ Sound(t) /\ Extends(s, t) /\ Enqueued(s, t, l, NewEntry(s, l, reason, first, 0))
  <1> DEFINE e == NewEntry(s, l, reason, first, 0)
  <1>1. Core(t) /\ Enqueued(s, t, l, e)
    <2>1. Core(s) /\ 0 \in Nat
      BY DEF Sound, Core
    <2> QED BY <2>1, EnqueueSound
  <1>2. e \in Entry /\ e.pos = 0 /\ e.level = s.level
    BY Fields DEF Sound, NewEntry, Entry
  <1> HIDE DEF e
  <1>3. s.trail \in Seq(Entry) /\ t.trail = Append(s.trail, e) /\ t.props = s.props
        /\ t.level = s.level /\ t.known = s.known /\ t.assumptions = s.assumptions
        /\ t.qhead = s.qhead /\ t.excluded = s.excluded /\ t.model = s.model
    <2>1. s \in State
      BY DEF Sound
    <2>2. s.trail \in Seq(Entry)
      BY <2>1, Fields
    <2> QED BY <1>1, <2>2 DEF Enqueued
  <1>4. GrownBy(s, t, e)
    <2>1. t.trail = Append(s.trail, e) /\ s.trail \in Seq(Entry) /\ e \in Entry
      BY <1>2, <1>3
    <2> QED BY <2>1, Grown
  <1>5. /\ DOMAIN t.trail = DOMAIN s.trail \cup {Len(s.trail) + 1}
        /\ \A i \in DOMAIN s.trail : t.trail[i] = s.trail[i]
        /\ t.trail[Len(s.trail) + 1] = e
    BY <1>4 DEF GrownBy
  <1>6. Extends(s, t)
    BY <1>2, <1>3, <1>5 DEF Extends, Same
  <1>7. Placed(t)
    <2>1. Placed(s)
      BY DEF Sound
    <2> QED BY <1>2, <1>3, <1>5, <2>1 DEF Placed
  <1>8. Sound(t)
    BY <1>1, <1>7 DEF Sound, Core
  <1> QED BY <1>1, <1>6, <1>8 DEF e

LEMMA ExtendsIs ==
  ASSUME NEW s, NEW t, Extends(s, t)
  PROVE  /\ \A l : Assigned(s, l) => Assigned(t, l)
         /\ \A c : ConflictNow(s, c) => ConflictNow(t, c)
         /\ \A u : Extends(t, u) => Extends(s, u)
  <1>1. \A l : Assigned(s, l) => Assigned(t, l)
    BY DEF Extends, Same, Assigned
  <1>2. ASSUME NEW c, ConflictNow(s, c) PROVE ConflictNow(t, c)
    BY <1>1, <1>2 DEF Extends, Same, ConflictNow, OfNow
  <1>3. ASSUME NEW u, Extends(t, u) PROVE Extends(s, u)
    BY <1>3 DEF Extends, Same
  <1> QED BY <1>1, <1>2, <1>3

(* A new assumption.                                                       *)
Assuming(s, t, x) == t = [s EXCEPT !.assumptions = Append(@, x)]

LEMMA AssumptionAdded ==
  ASSUME NEW s, Sound(s), NEW x \in Lit, VarOf(x) \in s.known, NEW t, Assuming(s, t, x)
  PROVE  Sound(t) /\ Extends(s, t) /\ t.assumptions = Append(s.assumptions, x) /\ t.trail = s.trail
  <1>1. s \in State /\ s.assumptions \in Seq(Lit)
    BY Fields DEF Sound
  <1> DEFINE a == Append(s.assumptions, x)
  <1>2. a \in Seq(Lit) /\ \A i \in DOMAIN a : VarOf(a[i]) \in s.known
    <2>1. \A i \in DOMAIN s.assumptions : VarOf(s.assumptions[i]) \in s.known
      BY DEF Sound, KnownFirst
    <2>2. DOMAIN a = DOMAIN s.assumptions \cup {Len(s.assumptions) + 1} /\ a[Len(s.assumptions) + 1] = x
          /\ \A i \in DOMAIN s.assumptions : a[i] = s.assumptions[i]
      BY <1>1
    <2> QED BY <1>1, <2>1, <2>2
  <1>3. t = [s EXCEPT !.assumptions = a]
    BY DEF Assuming
  <1> HIDE DEF a
  <1>4. /\ t \in State /\ t.trail = s.trail /\ t.level = s.level /\ t.qhead = s.qhead
        /\ t.known = s.known /\ t.relevant = s.relevant /\ t.passed = s.passed /\ t.props = s.props
        /\ t.changedPassed = s.changedPassed /\ t.info = s.info /\ t.changed = s.changed
        /\ t.learnts = s.learnts /\ t.watch = s.watch /\ t.assumptions = a
        /\ t.excluded = s.excluded /\ t.model = s.model
    <2>1. s \in State /\ a \in Seq(Lit)
      BY <1>1, <1>2
    <2> QED BY ONLY <1>3, <2>1 DEF State
  <1>5. Counted(t)
    BY <1>4, CountedSame DEF Sound
  <1>6. Ordered(t)
    BY <1>4 DEF Sound, Ordered, Once, LevelsRise, ReasonsEarlier, AssignedBefore
  <1>7. QueueFresh(t)
    BY <1>4 DEF Sound, QueueFresh
  <1>8. KnownFirst(t)
    BY <1>2, <1>4 DEF Sound, KnownFirst
  <1>9. WatchesTwo(t)
    BY <1>4 DEF Sound, WatchesTwo
  <1>10. Placed(t)
    BY <1>4 DEF Sound, Placed
  <1>11. Extends(s, t)
    <2>1. ToSet(s.assumptions) \subseteq ToSet(t.assumptions)
      <3>1. \A i \in DOMAIN s.assumptions : i \in DOMAIN a /\ a[i] = s.assumptions[i]
        BY <1>1 DEF a
      <3> QED BY <1>4, <3>1 DEF ToSet
    <2> QED BY <1>4, <2>1 DEF Extends, Same
  <1> QED BY <1>4, <1>5, <1>6, <1>7, <1>8, <1>9, <1>10, <1>11 DEF Sound, a

StoreOK(r) ==
    /\ r = [s |-> r.s, conflict |-> r.conflict] /\ Sound(r.s)
    /\ r.conflict = NoConflict \/ ConflictNow(r.s, r.conflict)

LEMMA StoreLemmaIs ==
  ASSUME NEW r, StoreOK(r), NEW C, C \subseteq Lit, Within(C, r.s.known),
         C # {} /\ ~IsLiteral(C) /\ (\A l \in C : IsFalse(r.s, l)) => OfNow(r.s, C),
         NEW t, t = StoreLemma(r, C)
  PROVE  StoreOK(t) /\ Extends(r.s, t.s)
  <1> DEFINE s == r.s
             x == First(s, C)
             y == Second(s, C)
             at == Attach([s EXCEPT !.learnts = @ \cup {C}], C, {x, y})
  <1>1. Sound(s) /\ s \in State /\ Extends(s, s) /\ Once(s) /\ s.trail \in Seq(Entry)
    BY Fields DEF StoreOK, Sound, Extends, Same, Ordered
  <1>2. r = [s |-> s, conflict |-> r.conflict]
    BY DEF StoreOK
  <1>3. CASE ~s.ok
    BY <1>1, <1>3 DEF StoreLemma
  <1>4. ASSUME t = [r EXCEPT !.s.ok = FALSE, !.conflict = NoConflict] PROVE StoreOK(t) /\ Extends(s, t.s)
    <2> DEFINE u == [s EXCEPT !.ok = FALSE]
    <2>1. t = [s |-> u, conflict |-> NoConflict]
      BY <1>2, <1>4
    <2>2. /\ u \in State /\ Fixed(s, u) /\ u.trail = s.trail /\ u.level = s.level
          /\ u.qhead = s.qhead /\ u.info = s.info /\ u.changed = s.changed /\ u.props = s.props
          /\ u.excluded = s.excluded /\ u.model = s.model
      BY <1>1 DEF State, Fixed
    <2> HIDE DEF u
    <2>3. Sound(u)
      BY <1>1, <2>2, SoundSame
    <2>4. Extends(s, u)
      BY <2>2 DEF Extends, Same, Fixed
    <2> QED BY <2>1, <2>3, <2>4 DEF StoreOK
  <1>5. CASE s.ok /\ C = {}
    BY <1>4, <1>5 DEF StoreLemma
  <1>6. CASE s.ok /\ IsLiteral(C)
    <2>1. C # {} /\ x \in Lit /\ VarOf(x) \in s.known
      <3>1. C # {}
        BY <1>6 DEF IsLiteral
      <3> QED BY <1>1, <3>1, FirstExists DEF Within
    <2>2. CASE IsFalse(s, x)
      BY <1>4, <1>6, <2>1, <2>2 DEF StoreLemma
    <2>3. CASE ~IsFalse(s, x) /\ IsTrue(s, x)
      BY <1>1, <1>6, <2>1, <2>3 DEF StoreLemma
    <2>4. CASE ~IsFalse(s, x) /\ ~IsTrue(s, x)
      <3> DEFINE u == [s EXCEPT !.assumptions = Append(@, x)]
      <3>1. t = [r EXCEPT !.s.assumptions = Append(@, x)]
        BY <1>6, <2>1, <2>4 DEF StoreLemma
      <3>2. t = [s |-> u, conflict |-> r.conflict]
        BY <1>2, <3>1
      <3> HIDE DEF x
      <3>3. Sound(u) /\ Extends(s, u)
        BY <1>1, <2>1, AssumptionAdded DEF Assuming
      <3> HIDE DEF u
      <3>4. ConflictNow(s, r.conflict) => ConflictNow(u, r.conflict)
        BY <3>3, ExtendsIs
      <3> QED BY <3>2, <3>3, <3>4 DEF StoreOK
    <2> QED BY <2>2, <2>3, <2>4
  <1>7. CASE s.ok /\ C # {} /\ ~IsLiteral(C)
    <2>1. /\ x \in C /\ y \in C /\ x # y
          /\ IsFalse(s, x) => \A l \in C : IsFalse(s, l)
          /\ IsFalse(s, y) => \A l \in C \ {x} : IsFalse(s, l)
      <3>1. C # {} /\ ~IsLiteral(C)
        BY <1>7
      <3> QED BY <1>1, <3>1, FirstAndSecond
    <2>2. t = IF Unassigned(s, x) /\ IsFalse(s, y) THEN [r EXCEPT !.s = Enqueue(at, x, C, x, 0)]
              ELSE IF IsFalse(s, x) THEN [s |-> at, conflict |-> NoteConflict(C, x)]
              ELSE [r EXCEPT !.s = at]
      BY <1>7 DEF StoreLemma
    <2>3. Sound(at) /\ Attached(s, at, C)
      <3>1. s.learnts \cup {C} \subseteq s.learnts \cup {C} /\ at = Attach([s EXCEPT !.learnts = s.learnts \cup {C}], C, {x, y})
        OBVIOUS
      <3> HIDE DEF x, y, at
      <3> QED BY <1>1, <2>1, <3>1, AttachIs
    <2> HIDE DEF x, y, at
    <2>4. Extends(s, at)
      BY <2>3 DEF Extends, Attached, Same
    <2>5. at.trail = s.trail /\ at.known = s.known /\ \A l \in Lit : (IsFalse(s, l) => Assigned(at, l))
      <3>1. at.trail = s.trail /\ at.known = s.known
        BY <2>3 DEF Attached
      <3>2. \A l \in Lit : IsFalse(s, l) => Assigned(s, l)
        BY <1>1, Values
      <3> QED BY <3>1, <3>2, SameTrail
    <2>6. ConflictNow(s, r.conflict) => ConflictNow(at, r.conflict)
      BY <2>4, ExtendsIs
    <2>7. CASE Unassigned(s, x) /\ IsFalse(s, y)
      <3> DEFINE u == Enqueue(at, x, C, x, 0)
      <3>1. t = [s |-> u, conflict |-> r.conflict]
        BY <1>2, <2>2, <2>7
      <3>2. Unassigned(at, x)
        BY <2>5, <2>7 DEF Unassigned, IsTrue, IsFalse, TrueLits, Entries
      <3>3. x \in Lit /\ x \in Int /\ VarOf(x) \in at.known /\ \A k \in C \ {x} : Assigned(at, k)
        BY <2>1, <2>5, <2>7, Literals DEF Within
      <3>4. Sound(u) /\ Extends(at, u)
        BY <2>3, <3>2, <3>3, EnqueuePlain
      <3> HIDE DEF u
      <3>5. Extends(s, u) /\ (ConflictNow(s, r.conflict) => ConflictNow(u, r.conflict))
        BY <2>4, <2>6, <3>4, ExtendsIs
      <3> QED BY <3>1, <3>4, <3>5 DEF StoreOK
    <2>8. CASE ~(Unassigned(s, x) /\ IsFalse(s, y)) /\ IsFalse(s, x)
      <3>1. t = [s |-> at, conflict |-> NoteConflict(C, x)]
        BY <2>2, <2>8
      <3>2. (\A l \in C : Assigned(at, l)) /\ OfNow(s, C) /\ x \in Int
        BY <1>7, <2>1, <2>5, <2>8, Literals
      <3>3. ConflictNow(at, NoteConflict(C, x))
        BY <2>3, <3>2 DEF ConflictNow, NoteConflict, OfNow, Attached
      <3> QED BY <2>3, <2>4, <3>1, <3>3 DEF StoreOK
    <2>9. CASE ~(Unassigned(s, x) /\ IsFalse(s, y)) /\ ~IsFalse(s, x)
      <3>1. t = [s |-> at, conflict |-> r.conflict]
        BY <1>2, <2>2, <2>9
      <3> QED BY <2>3, <2>4, <2>6, <3>1 DEF StoreOK
    <2> QED BY <2>7, <2>8, <2>9
  <1> QED BY <1>3, <1>5, <1>6, <1>7

-----------------------------------------------------------------------------
(* The watched literals.                                                   *)

(* A clause is overlooked at a place of the trail when its watches are     *)
(* false up to there, one of them by this very entry, and no literal of it *)
(* is true at that level or below.                                         *)
FalseUpTo(s, c, j) == \A w \in s.watch[c] : \E i \in 1 .. j : s.trail[i].lit = -w
Settled(s, c, j) == \E k \in DOMAIN s.trail : s.trail[k].lit \in c /\ s.trail[k].level <= s.trail[j].level
Overlooked(s, c, j) == -s.trail[j].lit \in s.watch[c] /\ FalseUpTo(s, c, j) /\ ~Settled(s, c, j)

(* None is below the current level, nor at a place that has been dealt     *)
(* with: before the last literal dequeued, and there if it is not in T.    *)
SettledBelow(s) ==
    \A c \in DOMAIN s.watch : \A j \in DOMAIN s.trail : s.trail[j].level < s.level => ~Overlooked(s, c, j)
Dealt(s, T, c, j) == j < s.qhead \/ (j = s.qhead /\ c \notin T)
SettledSeen(s, T) ==
    \A c \in DOMAIN s.watch : \A j \in DOMAIN s.trail : Dealt(s, T, c, j) => ~Overlooked(s, c, j)

(* When the latter is so: during the search, but for a conflict, and       *)
(* before a check that can go on from what is there.                       *)
Searching == pc \in {"propagate", "decide"} \/ (pc = "idle" /\ sat.ok /\ "excluded" \notin history)
Watched ==
    /\ SettledBelow(sat)
    /\ Searching => SettledSeen(sat, todo)
    /\ sat.excluded => "excluded" \in history
Quiet == NotYet({"fixed", "missed", "again", "dropped"})
WInv == Quiet => Watched

(* More entries, of the current level; the clauses as they were watched,   *)
(* or with a watch that is not false below this level, or that is not      *)
(* false up to what has been dequeued.                                     *)
Grows(s, t) ==
    /\ t.level = s.level /\ t.qhead = s.qhead /\ t.excluded = s.excluded /\ t.model = s.model
    /\ \A i \in DOMAIN s.trail : /\ i \in DOMAIN t.trail
                                 /\ t.trail[i].lit = s.trail[i].lit /\ t.trail[i].level = s.trail[i].level
    /\ \A i \in DOMAIN t.trail \ DOMAIN s.trail : t.trail[i].level = t.level
AsWatched(s, t, c) == c \in DOMAIN s.watch /\ t.watch[c] = s.watch[c]
NotBelow(t, c) == \E w \in t.watch[c] : \A k \in DOMAIN t.trail : t.trail[k].lit = -w => t.trail[k].level = t.level
NotYetFalse(t, c) == \E w \in t.watch[c] : \A k \in DOMAIN t.trail : t.trail[k].lit = -w => k > t.qhead
Follows(s, t) == Grows(s, t) /\ \A c \in DOMAIN t.watch : AsWatched(s, t, c) \/ NotBelow(t, c)
Onward(s, t) == Follows(s, t) /\ \A c \in DOMAIN t.watch : AsWatched(s, t, c) \/ NotYetFalse(t, c)

LEMMA Onwards ==
  ASSUME NEW s, NEW t, NEW u, Grows(s, t), Grows(t, u), QueueFresh(t), t \in State, u \in State
  PROVE  /\ Grows(s, u)
         /\ \A c : AsWatched(t, u, c) /\ NotBelow(t, c) => NotBelow(u, c)
         /\ \A c : AsWatched(t, u, c) /\ NotYetFalse(t, c) => NotYetFalse(u, c)
         /\ \A c : AsWatched(s, t, c) /\ AsWatched(t, u, c) => AsWatched(s, u, c)
  <1>1. Grows(s, u)
    BY DEF Grows
  <1>2. ASSUME NEW k \in DOMAIN u.trail
        PROVE  \/ k \in DOMAIN t.trail /\ u.trail[k].lit = t.trail[k].lit /\ u.trail[k].level = t.trail[k].level
               \/ u.trail[k].level = u.level /\ k > u.qhead
    <2>1. /\ DOMAIN t.trail = 1 .. Len(t.trail) /\ DOMAIN u.trail = 1 .. Len(u.trail)
          /\ Len(t.trail) \in Nat /\ t.qhead \in Nat /\ Len(u.trail) \in Nat
      BY Fields
    <2>2. CASE k \in DOMAIN t.trail
      BY <2>2 DEF Grows
    <2>3. CASE k \notin DOMAIN t.trail
      <3>1. u.trail[k].level = u.level /\ u.qhead = t.qhead
        BY <2>3 DEF Grows
      <3>2. k > Len(t.trail) /\ t.qhead <= Len(t.trail)
        BY <2>1, <2>3 DEF QueueFresh
      <3>3. k > t.qhead
        BY ONLY <2>1, <3>2, k \in DOMAIN u.trail
      <3> QED BY <3>1, <3>3
    <2> QED BY <2>2, <2>3
  <1>3. u.level = t.level /\ u.qhead = t.qhead
    BY DEF Grows
  <1>4. ASSUME NEW c, AsWatched(t, u, c), NotBelow(t, c) PROVE NotBelow(u, c)
    BY ONLY <1>2, <1>3, <1>4 DEF AsWatched, NotBelow
  <1>5. ASSUME NEW c, AsWatched(t, u, c), NotYetFalse(t, c) PROVE NotYetFalse(u, c)
    BY ONLY <1>2, <1>3, <1>5 DEF AsWatched, NotYetFalse
  <1>6. \A c : AsWatched(s, t, c) /\ AsWatched(t, u, c) => AsWatched(s, u, c)
    BY DEF AsWatched
  <1> QED BY ONLY <1>1, <1>4, <1>5, <1>6

LEMMA FollowsOn ==
  ASSUME NEW s, NEW t, NEW u, Sound(t), Sound(u), Follows(s, t), Follows(t, u)
  PROVE  Follows(s, u) /\ (Onward(s, t) /\ Onward(t, u) => Onward(s, u))
  <1>1. Grows(s, t) /\ Grows(t, u) /\ QueueFresh(t) /\ t \in State /\ u \in State
    BY DEF Sound, Follows
  <1>2. /\ Grows(s, u)
        /\ \A c : AsWatched(t, u, c) /\ NotBelow(t, c) => NotBelow(u, c)
        /\ \A c : AsWatched(t, u, c) /\ NotYetFalse(t, c) => NotYetFalse(u, c)
        /\ \A c : AsWatched(s, t, c) /\ AsWatched(t, u, c) => AsWatched(s, u, c)
    BY ONLY <1>1, Onwards
  <1>3. \A c : AsWatched(t, u, c) => c \in DOMAIN t.watch
    BY DEF AsWatched
  <1>4. Follows(s, u)
    BY <1>2, <1>3 DEF Follows
  <1> QED BY <1>2, <1>3, <1>4 DEF Onward

LEMMA OnwardOn ==
  ASSUME NEW s, NEW t, NEW u, Sound(t), Sound(u), Onward(s, t), Onward(t, u)
  PROVE  Onward(s, u)
  BY FollowsOn DEF Onward

LEMMA SettledOn ==
  ASSUME NEW s, NEW t, Sound(s), Sound(t), Follows(s, t)
  PROVE  /\ SettledBelow(s) => SettledBelow(t)
         /\ \A T : Onward(s, t) /\ SettledSeen(s, T) => SettledSeen(t, T)
  <1>1. /\ Grows(s, t) /\ LevelsRise(t) /\ t \in State /\ s \in State
        /\ DOMAIN t.trail = 1 .. Len(t.trail) /\ Len(t.trail) \in Nat /\ DOMAIN s.trail = 1 .. Len(s.trail) /\ Len(s.trail) \in Nat
        /\ s.qhead \in Nat /\ s.qhead <= Len(s.trail) /\ t.level \in Nat
        /\ \A i \in DOMAIN t.trail : t.trail[i].level \in Nat
    BY Fields DEF Follows, Sound, Ordered, QueueFresh
  <1>2. ASSUME NEW c, AsWatched(s, t, c), NEW j \in DOMAIN s.trail, Overlooked(t, c, j) PROVE Overlooked(s, c, j)
    <2>1. /\ t.watch[c] = s.watch[c] /\ t.trail[j].lit = s.trail[j].lit /\ t.trail[j].level = s.trail[j].level
          /\ j \in DOMAIN t.trail
      BY <1>1, <1>2 DEF AsWatched, Grows
    <2>2. FalseUpTo(s, c, j)
      <3>1. \A i \in 1 .. j : i \in DOMAIN s.trail
        BY <1>1
      <3>2. \A i \in 1 .. j : t.trail[i].lit = s.trail[i].lit
        BY <1>1, <3>1 DEF Grows
      <3>3. FalseUpTo(t, c, j)
        BY <1>2 DEF Overlooked
      <3> QED BY ONLY <2>1, <3>2, <3>3 DEF FalseUpTo
    <2>3. ~Settled(s, c, j)
      <3>1. ~Settled(t, c, j)
        BY <1>2 DEF Overlooked
      <3> QED BY <1>1, <2>1, <3>1 DEF Settled, Grows
    <2> QED BY <1>2, <2>1, <2>2, <2>3 DEF Overlooked
  <1>3. ASSUME SettledBelow(s), NEW c \in DOMAIN t.watch, NEW j \in DOMAIN t.trail, t.trail[j].level < t.level, Overlooked(t, c, j)
        PROVE  FALSE
    <2>1. j \in DOMAIN s.trail /\ s.trail[j].level < s.level
      BY <1>1, <1>3 DEF Grows
    <2>2. ~AsWatched(s, t, c)
      BY <1>2, <1>3, <2>1 DEF SettledBelow, AsWatched
    <2>3. PICK w \in t.watch[c] : \A k \in DOMAIN t.trail : t.trail[k].lit = -w => t.trail[k].level = t.level
      BY <1>3, <2>2 DEF Follows, NotBelow
    <2>4. PICK i \in 1 .. j : t.trail[i].lit = -w
      BY <1>3, <2>3 DEF Overlooked, FalseUpTo
    <2>5. i \in DOMAIN t.trail /\ i <= j
      BY ONLY <1>1, <2>4, j \in DOMAIN t.trail
    <2>6. t.trail[i].level = t.level /\ t.trail[i].level <= t.trail[j].level
      BY <1>1, <2>3, <2>4, <2>5 DEF LevelsRise
    <2> QED BY ONLY <1>1, <1>3, <2>5, <2>6
  <1>4. ASSUME NEW T, Onward(s, t), SettledSeen(s, T), NEW c \in DOMAIN t.watch, NEW j \in DOMAIN t.trail,
               Dealt(t, T, c, j), Overlooked(t, c, j)
        PROVE  FALSE
    <2>1. t.qhead = s.qhead /\ j <= s.qhead /\ j \in DOMAIN s.trail /\ Dealt(s, T, c, j)
      BY <1>1, <1>4 DEF Grows, Dealt
    <2>2. ~AsWatched(s, t, c)
      BY <1>2, <1>4, <2>1 DEF SettledSeen, AsWatched
    <2>3. PICK w \in t.watch[c] : \A k \in DOMAIN t.trail : t.trail[k].lit = -w => k > t.qhead
      BY <1>4, <2>2 DEF Onward, NotYetFalse
    <2>4. PICK i \in 1 .. j : t.trail[i].lit = -w
      BY <1>4, <2>3 DEF Overlooked, FalseUpTo
    <2>5. i \in DOMAIN t.trail /\ i <= j
      BY ONLY <1>1, <2>4, j \in DOMAIN t.trail
    <2> QED BY ONLY <1>1, <2>1, <2>3, <2>4, <2>5
  <1> QED BY <1>3, <1>4 DEF SettledBelow, SettledSeen

(* Undoing the current level leaves what is below it.                      *)
LEMMA SettledBack ==
  ASSUME NEW s, NEW t, NEW to \in Nat, Sound(s), Sound(t), Cancelled(s, t, to), SettledBelow(s)
  PROVE  SettledBelow(t) /\ (s.level > to => SettledSeen(t, {}))
  <1>1. CASE ~(s.level > to)
    <2>1. s.level <= to
      BY <1>1, Fields DEF Sound
    <2>2. t = s
      BY <2>1 DEF Cancelled
    <2> QED BY <1>1, <2>2
  <1>2. CASE s.level > to
    <2>1. /\ t.level = to /\ t.watch = s.watch
          /\ \A i \in DOMAIN t.trail : i \in DOMAIN s.trail /\ t.trail[i].lit = s.trail[i].lit /\ t.trail[i].level = s.trail[i].level
          /\ \A i \in DOMAIN s.trail : i \in DOMAIN t.trail <=> s.trail[i].level <= to
      BY <1>2 DEF Cancelled, Fixed, Same
    <2>2. /\ DOMAIN t.trail = 1 .. Len(t.trail) /\ Len(t.trail) \in Nat /\ s.level \in Nat
          /\ \A i \in DOMAIN s.trail : s.trail[i].level \in Nat
      BY Fields DEF Sound
    <2>3. ASSUME NEW c \in DOMAIN t.watch, NEW j \in DOMAIN t.trail, Overlooked(t, c, j) PROVE FALSE
      <3>1. j \in DOMAIN s.trail /\ s.trail[j].level <= to /\ t.trail[j].level = s.trail[j].level /\ t.trail[j].lit = s.trail[j].lit
        BY <2>1
      <3>2. s.trail[j].level < s.level
        BY <1>2, <2>2, <3>1
      <3>3. ~Overlooked(s, c, j)
        BY <2>1, <3>1, <3>2 DEF SettledBelow
      <3>4. FalseUpTo(s, c, j)
        <4>1. \A i \in 1 .. j : i \in DOMAIN t.trail
          BY <2>2
        <4>2. \A i \in 1 .. j : t.trail[i].lit = s.trail[i].lit
          BY <2>1, <4>1
        <4>3. FalseUpTo(t, c, j)
          BY <2>3 DEF Overlooked
        <4> QED BY ONLY <2>1, <4>2, <4>3 DEF FalseUpTo
      <3>5. Settled(s, c, j)
        BY <2>1, <2>3, <3>1, <3>3, <3>4 DEF Overlooked
      <3>6. PICK k \in DOMAIN s.trail : s.trail[k].lit \in c /\ s.trail[k].level <= s.trail[j].level
        BY <3>5 DEF Settled
      <3>7. s.trail[k].level <= to
        BY <2>2, <3>1, <3>6
      <3>8. k \in DOMAIN t.trail /\ t.trail[k].lit = s.trail[k].lit /\ t.trail[k].level = s.trail[k].level
        BY ONLY <2>1, <3>6, <3>7
      <3>9. ~Settled(t, c, j)
        BY <2>3 DEF Overlooked
      <3> QED BY ONLY <3>1, <3>6, <3>8, <3>9 DEF Settled
    <2> QED BY <2>3 DEF SettledBelow, SettledSeen
  <1> QED BY <1>1, <1>2

(* How the watches grow with the operations.                               *)
AlsoWatching(s, t, C, pair) ==
    t.watch = [c \in DOMAIN s.watch \cup {C} |-> IF c = C THEN pair ELSE s.watch[c]]

Unmoving(s, t) ==
    /\ t.trail = s.trail /\ t.level = s.level /\ t.qhead = s.qhead
    /\ t.excluded = s.excluded /\ t.model = s.model

LEMMA GrowsBy ==
  ASSUME NEW s, NEW t
  PROVE  /\ Extends(s, t) => Grows(s, t)
         /\ Unmoving(s, t) => Grows(s, t)
         /\ Grows(s, t) /\ t.watch = s.watch => Onward(s, t) /\ Follows(s, t)
  <1>1. Extends(s, t) => Grows(s, t)
    BY DEF Extends, Same, Grows
  <1>3. Unmoving(s, t) => Grows(s, t)
    BY DEF Unmoving, Grows
  <1>4. ASSUME Grows(s, t), t.watch = s.watch PROVE Onward(s, t) /\ Follows(s, t)
    BY ONLY <1>4 DEF Onward, Follows, AsWatched
  <1> QED BY ONLY <1>1, <1>3, <1>4

LEMMA AttachedOn ==
  ASSUME NEW s, NEW t, Grows(s, t), NEW C, NEW pair, AlsoWatching(s, t, C, pair), NEW w \in pair
  PROVE  /\ (\A k \in DOMAIN t.trail : t.trail[k].lit = -w => t.trail[k].level = t.level) => Follows(s, t)
         /\ ~IsFalse(t, w) => Onward(s, t) /\ Follows(s, t)
  <1>1. /\ DOMAIN t.watch = DOMAIN s.watch \cup {C} /\ t.watch[C] = pair
        /\ \A c \in DOMAIN t.watch : c # C => t.watch[c] = s.watch[c]
    BY ONLY AlsoWatching(s, t, C, pair) DEF AlsoWatching
  <1>2. \A c \in DOMAIN t.watch : c # C => AsWatched(s, t, c)
    BY ONLY <1>1 DEF AsWatched
  <1>3. (\A k \in DOMAIN t.trail : t.trail[k].lit = -w => t.trail[k].level = t.level) => NotBelow(t, C)
    BY <1>1 DEF NotBelow
  <1>4. ~IsFalse(t, w) => \A k \in DOMAIN t.trail : t.trail[k].lit # -w
    BY TrueIs DEF IsFalse, IsTrue
  <1>5. ~IsFalse(t, w) => NotBelow(t, C) /\ NotYetFalse(t, C)
    BY <1>1, <1>4 DEF NotBelow, NotYetFalse
  <1> QED BY <1>2, <1>3, <1>5 DEF Follows, Onward

Attaches(s, t, L, C, pair) == t = Attach([s EXCEPT !.learnts = L], C, pair)

LEMMA AttachWatches ==
  ASSUME NEW s \in State, NEW L, NEW C, NEW pair, NEW t, Attaches(s, t, L, C, pair)
  PROVE  AlsoWatching(s, t, C, pair) /\ Unmoving(s, t) /\ t.ok = s.ok
  BY DEF Attaches, Unmoving, Attach, AlsoWatching, State

LEMMA EnqueueKeeps ==
  ASSUME NEW s \in State, NEW l, NEW reason, NEW first, NEW pos, NEW t, t = Enqueue(s, l, reason, first, pos)
  PROVE  /\ t.watch = s.watch /\ t.qhead = s.qhead /\ t.ok = s.ok /\ t.level = s.level /\ t.excluded = s.excluded
         /\ t.learnts = s.learnts /\ IsTrue(t, l)
  <1>1. /\ t.watch = s.watch /\ t.qhead = s.qhead /\ t.ok = s.ok /\ t.level = s.level /\ t.excluded = s.excluded
        /\ t.learnts = s.learnts
        /\ t.trail = Append(s.trail, [lit |-> l, reason |-> reason, first |-> first, level |-> s.level, pos |-> pos])
    BY DEF Enqueue, State
  <1>2. s.trail \in Seq(Entry)
    BY Fields
  <1>3. Len(s.trail) + 1 \in DOMAIN t.trail /\ t.trail[Len(s.trail) + 1].lit = l
    BY <1>1, <1>2
  <1> QED BY <1>1, <1>3, TrueIs

(* A false clause of the current level starts with a literal of it.        *)
LEMMA FirstNow ==
  ASSUME NEW s, Sound(s), NEW C, C \subseteq Lit, C # {}, OfNow(s, C), IsFalse(s, First(s, C)),
         NEW k \in DOMAIN s.trail, s.trail[k].lit = -First(s, C)
  PROVE  s.trail[k].level = s.level
  <1> DEFINE x == First(s, C)
  <1>1. /\ s.trail \in Seq(Entry) /\ Once(s) /\ LevelsRise(s) /\ s.level \in Nat /\ DOMAIN s.trail \subseteq Int
        /\ \A i \in DOMAIN s.trail : s.trail[i].level \in Nat
    BY Fields DEF Sound, Ordered
  <1>2. x \in C /\ \A l \in C : l # x => Index(s, l) < Index(s, x)
    BY <1>1, FalseAfterFirst
  <1>3. PICK l \in C, i \in DOMAIN s.trail : VarOf(s.trail[i].lit) = VarOf(l) /\ s.trail[i].level = s.level
    BY DEF OfNow
  <1>4. x \in Lit /\ s.trail[k].lit = -x
    BY <1>2
  <1> HIDE DEF x
  <1>5. VarOf(s.trail[k].lit) = VarOf(x)
    BY <1>4, Literals
  <1>6. Index(s, x) = k /\ Index(s, l) = i
    BY <1>1, <1>3, <1>5, IndexIs
  <1>7. i <= k
    <2>1. i \in Int /\ k \in Int
      BY <1>1
    <2>2. CASE l = x
      BY <1>6, <2>1, <2>2
    <2>3. CASE l # x
      BY <1>2, <1>3, <1>6, <2>1, <2>3
    <2> QED BY <2>2, <2>3
  <1>8. s.trail[i].level <= s.trail[k].level /\ s.trail[k].level <= s.level
    BY <1>1, <1>3, <1>7 DEF LevelsRise
  <1> QED BY <1>1, <1>3, <1>8

Goes(r, t) ==
    /\ Follows(r.s, t.s)
    /\ t.s.ok /\ t.conflict = NoConflict => r.s.ok /\ r.conflict = NoConflict /\ Onward(r.s, t.s)

LEMMA StoreLemmaOn ==
  ASSUME NEW r, StoreOK(r), NEW C, C \subseteq Lit, Within(C, r.s.known),
         C # {} /\ ~IsLiteral(C) /\ (\A l \in C : IsFalse(r.s, l)) => OfNow(r.s, C),
         NEW t, t = StoreLemma(r, C)
  PROVE  StoreOK(t) /\ Extends(r.s, t.s) /\ Goes(r, t)
  <1> DEFINE s == r.s
             x == First(s, C)
             y == Second(s, C)
             L == s.learnts \cup {C}
             at == Attach([s EXCEPT !.learnts = L], C, {x, y})
  <1>1. /\ Sound(s) /\ s \in State /\ Once(s) /\ s.trail \in Seq(Entry)
        /\ Follows(s, s) /\ Onward(s, s)
    <2>1. Follows(s, s) /\ Onward(s, s)
      BY GrowsBy DEF Unmoving
    <2> QED BY <2>1, Fields DEF StoreOK, Sound, Ordered
  <1>2. r = [s |-> s, conflict |-> r.conflict]
    BY DEF StoreOK
  <1>3. StoreOK(t) /\ Extends(r.s, t.s) /\ Sound(t.s)
    <2>1. StoreOK(t) /\ Extends(r.s, t.s)
      BY StoreLemmaIs
    <2> QED BY <2>1 DEF StoreOK
  <1>4. ASSUME t = r PROVE Goes(r, t)
    BY <1>1, <1>4 DEF Goes
  <1>5. ASSUME t = [r EXCEPT !.s.ok = FALSE, !.conflict = NoConflict] PROVE Goes(r, t)
    <2> DEFINE u == [s EXCEPT !.ok = FALSE]
    <2>1. t = [s |-> u, conflict |-> NoConflict]
      BY <1>2, <1>5
    <2>2. /\ u.watch = s.watch /\ u.trail = s.trail /\ u.level = s.level /\ u.qhead = s.qhead /\ ~u.ok
          /\ u.excluded = s.excluded /\ u.model = s.model
      BY <1>1 DEF State
    <2> HIDE DEF u
    <2>3. Follows(s, u)
      BY <2>2, GrowsBy DEF Unmoving
    <2> QED BY <2>1, <2>2, <2>3 DEF Goes
  <1>6. CASE ~s.ok
    BY <1>3, <1>4, <1>6 DEF StoreLemma
  <1>7. CASE s.ok /\ C = {}
    BY <1>3, <1>5, <1>7 DEF StoreLemma
  <1>8. CASE s.ok /\ IsLiteral(C)
    <2>1. C # {}
      BY <1>8 DEF IsLiteral
    <2>2. CASE IsFalse(s, x)
      BY <1>3, <1>5, <1>8, <2>1, <2>2 DEF StoreLemma
    <2>3. CASE ~IsFalse(s, x) /\ IsTrue(s, x)
      BY <1>3, <1>4, <1>8, <2>1, <2>3 DEF StoreLemma
    <2>4. CASE ~IsFalse(s, x) /\ ~IsTrue(s, x)
      <3> DEFINE u == [s EXCEPT !.assumptions = Append(@, x)]
      <3>1. t = [r EXCEPT !.s.assumptions = Append(@, x)]
        BY <1>8, <2>1, <2>4 DEF StoreLemma
      <3>2. t = [s |-> u, conflict |-> r.conflict]
        BY <1>2, <3>1
      <3> HIDE DEF x
      <3>3. /\ u.watch = s.watch /\ u.trail = s.trail /\ u.level = s.level /\ u.qhead = s.qhead /\ u.ok = s.ok
            /\ u.excluded = s.excluded /\ u.model = s.model
        BY <1>1 DEF State
      <3> HIDE DEF u
      <3>4. Follows(s, u) /\ Onward(s, u)
        BY <3>3, GrowsBy DEF Unmoving
      <3> QED BY <1>3, <3>2, <3>3, <3>4 DEF Goes
    <2> QED BY <2>2, <2>3, <2>4
  <1>9. CASE s.ok /\ C # {} /\ ~IsLiteral(C)
    <2>1. /\ x \in C /\ y \in C /\ (IsFalse(s, x) => \A l \in C : IsFalse(s, l))
      <3>1. C # {} /\ ~IsLiteral(C)
        BY <1>9
      <3> QED BY <1>1, <3>1, FirstAndSecond
    <2>2. t = IF Unassigned(s, x) /\ IsFalse(s, y) THEN [r EXCEPT !.s = Enqueue(at, x, C, x, 0)]
              ELSE IF IsFalse(s, x) THEN [s |-> at, conflict |-> NoteConflict(C, x)]
              ELSE [r EXCEPT !.s = at]
      BY <1>9 DEF StoreLemma
    <2>3. AlsoWatching(s, at, C, {x, y}) /\ Unmoving(s, at) /\ at.ok = s.ok
      <3>1. Attaches(s, at, L, C, {x, y})
        BY DEF Attaches
      <3> HIDE DEF at, x, y, L
      <3>2. s \in State
        BY <1>1
      <3> QED BY ONLY <3>1, <3>2, AttachWatches
    <2>4. at \in State
      <3>1. CASE Unassigned(s, x) /\ IsFalse(s, y)
        <4>1. x # y /\ Within(C, s.known)
          BY <1>1, <1>9, FirstAndSecond
        <4>2. L \subseteq s.learnts \cup {C} /\ at = Attach([s EXCEPT !.learnts = L], C, {x, y})
          OBVIOUS
        <4> HIDE DEF x, y, at, L
        <4>3. Sound(at)
          BY <1>1, <2>1, <4>1, <4>2, AttachIs
        <4> QED BY <4>3 DEF Sound
      <3>2. CASE ~(Unassigned(s, x) /\ IsFalse(s, y))
        <4>1. t.s = at
          BY <1>2, <2>2, <3>2
        <4> QED BY <1>3, <4>1 DEF Sound
      <3> QED BY <3>1, <3>2
    <2> HIDE DEF x, y, at, L
    <2>5. CASE Unassigned(s, x) /\ IsFalse(s, y)
      <3> DEFINE u == Enqueue(at, x, C, x, 0)
      <3>1. t = [s |-> u, conflict |-> r.conflict]
        BY <1>2, <2>2, <2>5
      <3>2. u.watch = at.watch /\ u.qhead = at.qhead /\ u.ok = at.ok /\ IsTrue(u, x)
        BY <2>4, EnqueueKeeps
      <3> HIDE DEF u
      <3>3. Grows(s, u) /\ AlsoWatching(s, u, C, {x, y})
        <4>1. Extends(s, u)
          BY <1>3, <3>1
        <4>2. AlsoWatching(s, u, C, {x, y})
          BY <2>3, <3>2 DEF AlsoWatching
        <4> QED BY <4>1, <4>2, GrowsBy
      <3>4. ~IsFalse(u, x)
        <4>1. u.trail \in Seq(Entry) /\ Once(u) /\ x \in Lit
          BY <1>3, <2>1, <3>1, Fields DEF Sound, Ordered
        <4> QED BY <3>2, <4>1, OneValue
      <3>5. Onward(s, u) /\ Follows(s, u)
        BY ONLY <3>3, <3>4, AttachedOn
      <3> QED BY <1>3, <2>3, <3>1, <3>2, <3>5 DEF Goes
    <2>6. Grows(s, at)
      BY <2>3, GrowsBy
    <2>7. CASE ~(Unassigned(s, x) /\ IsFalse(s, y)) /\ IsFalse(s, x)
      <3>1. t = [s |-> at, conflict |-> NoteConflict(C, x)]
        BY <2>2, <2>7
      <3>2. \A k \in DOMAIN at.trail : at.trail[k].lit = -x => at.trail[k].level = at.level
        <4>1. OfNow(s, C) /\ C # {}
          BY <1>9, <2>1, <2>7
        <4>2. \A k \in DOMAIN s.trail : s.trail[k].lit = -x => s.trail[k].level = s.level
          BY <1>1, <2>7, <4>1, FirstNow DEF x
        <4>3. at.trail = s.trail /\ at.level = s.level
          BY <2>3 DEF Unmoving
        <4> QED BY ONLY <4>2, <4>3
      <3>3. Follows(s, at)
        BY ONLY <2>3, <2>6, <3>2, AttachedOn
      <3>4. t.conflict # NoConflict
        BY <1>9, <3>1 DEF NoteConflict, NoConflict, NoClause
      <3> QED BY <1>3, <3>1, <3>3, <3>4 DEF Goes
    <2>8. CASE ~(Unassigned(s, x) /\ IsFalse(s, y)) /\ ~IsFalse(s, x)
      <3>1. t = [s |-> at, conflict |-> r.conflict]
        BY <1>2, <2>2, <2>8
      <3>2. ~IsFalse(at, x)
        BY <2>3, <2>8 DEF Unmoving, IsFalse, IsTrue, TrueLits, Entries
      <3>3. Onward(s, at) /\ Follows(s, at)
        BY ONLY <2>3, <2>6, <3>2, AttachedOn
      <3> QED BY <1>3, <2>3, <3>1, <3>3 DEF Goes
    <2> QED BY <2>5, <2>7, <2>8
  <1> QED BY <1>3, <1>6, <1>7, <1>8, <1>9

(* The outcome of storing lemmas, and of what leads to it: neither         *)
(* overlooks anything, but for a conflict that is reported.                *)
StoredOn(b, q) == Follows(b, q.s) /\ (q.s.ok /\ q.conflict = NoConflict => Onward(b, q.s))
Carries(s, r) ==
    /\ r.s.excluded = s.excluded /\ r.s.model = s.model
    /\ SettledBelow(s) => SettledBelow(r.s)
    /\ SettledBelow(s) /\ SettledSeen(s, {}) /\ r.s.ok /\ r.conflict = NoConflict => SettledSeen(r.s, {})

LEMMA StoredOnIs ==
  ASSUME NEW b, NEW q, NEW t, Sound(b), StoreOK(q), StoreOK(t), StoredOn(b, q), Goes(q, t)
  PROVE  StoredOn(b, t)
  <1>1. Sound(q.s) /\ Sound(t.s) /\ Follows(b, q.s) /\ Follows(q.s, t.s)
    BY DEF StoreOK, StoredOn, Goes
  <1>2. Follows(b, t.s) /\ (Onward(b, q.s) /\ Onward(q.s, t.s) => Onward(b, t.s))
    BY ONLY <1>1, FollowsOn
  <1> QED BY <1>2 DEF StoredOn, Goes

LEMMA CarriesIs ==
  ASSUME NEW s, NEW b, NEW m \in Nat, NEW r, Sound(s), Sound(b), Sound(r.s), Cancelled(s, b, m), StoredOn(b, r)
  PROVE  Carries(s, r)
  <1>1. Follows(b, r.s)
    BY DEF StoredOn
  <1>2. /\ SettledBelow(b) => SettledBelow(r.s)
        /\ Onward(b, r.s) /\ SettledSeen(b, {}) => SettledSeen(r.s, {})
    BY ONLY <1>1, Sound(b), Sound(r.s), SettledOn
  <1>3. SettledBelow(s) => SettledBelow(b) /\ (s.level > m => SettledSeen(b, {}))
    BY SettledBack
  <1>4. s.level > m \/ b = s
    BY Fields DEF Cancelled, Sound
  <1>5. r.s.excluded = s.excluded /\ r.s.model = s.model
    BY <1>1 DEF Cancelled, Follows, Grows
  <1> QED BY <1>2, <1>3, <1>4, <1>5 DEF Carries, StoredOn

-----------------------------------------------------------------------------
(* Lemmas.                                                                 *)

(* Where a false clause takes storeLemmas back to.                         *)
LEMMA LevelForIs ==
  ASSUME NEW s, Sound(s), NEW C, C \subseteq Lit
  PROVE  /\ LevelFor(s, C) \in Nat
         /\ C # {} /\ ~IsLiteral(C) /\ (\A l \in C : IsFalse(s, l)) =>
              \E l \in C, j \in DOMAIN s.trail :
                 VarOf(s.trail[j].lit) = VarOf(l) /\ s.trail[j].level = LevelFor(s, C)
  <1> DEFINE x == First(s, C)
             y == Second(s, C)
  <1>1. /\ s \in State /\ Once(s) /\ s.trail \in Seq(Entry) /\ s.level \in Nat
        /\ \A i \in DOMAIN s.trail : s.trail[i].level \in Nat
    BY Fields DEF Sound, Ordered
  <1>2. CASE C = {} \/ IsLiteral(C)
    BY <1>1, <1>2 DEF LevelFor
  <1>3. CASE C # {} /\ ~IsLiteral(C)
    <2>1. x \in C /\ y \in C /\ (IsFalse(s, x) => \A l \in C : IsFalse(s, l))
      BY <1>1, <1>3, FirstAndSecond
    <2>2. LevelFor(s, C) = IF IsFalse(s, x) \/ (Unassigned(s, x) /\ IsFalse(s, y)) THEN Level(s, y) ELSE s.level
      BY <1>3 DEF LevelFor
    <2>3. ASSUME IsFalse(s, y)
          PROVE  \E j \in DOMAIN s.trail : VarOf(s.trail[j].lit) = VarOf(y) /\ s.trail[j].level = Level(s, y)
      <3>1. Assigned(s, y)
        BY <1>1, <2>1, <2>3, Values
      <3>2. PICK j \in DOMAIN s.trail : VarOf(s.trail[j].lit) = VarOf(y)
        BY <3>1 DEF Assigned
      <3> QED BY <1>1, <3>2, IndexIs
    <2> HIDE DEF x, y
    <2> QED BY <1>1, <2>1, <2>2, <2>3
  <1> QED BY <1>2, <1>3

(* A clause that is false after the backtracking is so at its level.       *)
LEMMA FalseNow ==
  ASSUME NEW s, Sound(s), NEW m \in Nat, NEW b, Sound(b), Cancelled(s, b, m), b.level = m,
         NEW u, Sound(u), Extends(b, u),
         NEW C, C \subseteq Lit, C # {}, ~IsLiteral(C), m <= LevelFor(s, C), \A l \in C : IsFalse(u, l)
  PROVE  OfNow(u, C)
  <1>1. /\ Once(s) /\ s.trail \in Seq(Entry) /\ Once(u) /\ u.trail \in Seq(Entry)
        /\ \A i \in DOMAIN s.trail : s.trail[i].lit \in Lit /\ s.trail[i].level \in Nat
        /\ \A i \in DOMAIN u.trail : u.trail[i].lit \in Lit
    BY Fields DEF Sound, Ordered
  <1>2. \A i \in DOMAIN b.trail : /\ i \in DOMAIN s.trail /\ i \in DOMAIN u.trail
                                  /\ b.trail[i].lit = s.trail[i].lit /\ b.trail[i].lit = u.trail[i].lit
                                  /\ b.trail[i].level = s.trail[i].level /\ b.trail[i].level = u.trail[i].level
    BY DEF Cancelled, Extends, Same
  <1>3. u.level = m /\ \A i \in DOMAIN u.trail \ DOMAIN b.trail : u.trail[i].level = m
    BY DEF Extends
  <1>4. \A l \in C : \E i \in DOMAIN u.trail : u.trail[i].lit = -l
    BY <1>1, Values
  <1>5. CASE \E l \in C : \E i \in DOMAIN u.trail \ DOMAIN b.trail : u.trail[i].lit = -l
    <2>1. PICK l \in C, i \in DOMAIN u.trail \ DOMAIN b.trail : u.trail[i].lit = -l
      BY <1>5
    <2>2. i \in DOMAIN u.trail /\ u.trail[i].level = u.level
      BY ONLY <1>3, <2>1
    <2>3. VarOf(u.trail[i].lit) = VarOf(l)
      BY <2>1, Literals
    <2> QED BY ONLY <2>1, <2>2, <2>3 DEF OfNow
  <1>6. CASE \A l \in C : \E i \in DOMAIN b.trail : u.trail[i].lit = -l
    <2>1. ASSUME NEW l \in C PROVE IsFalse(s, l)
      <3>1. PICK i \in DOMAIN b.trail : u.trail[i].lit = -l
        BY <1>6
      <3>2. i \in DOMAIN s.trail /\ s.trail[i].lit = -l
        BY ONLY <1>2, <3>1
      <3>3. l \in Lit /\ s.trail \in Seq(Entry)
        BY <1>1
      <3> QED BY ONLY <3>2, <3>3, Values
    <2>2. PICK l \in C, j \in DOMAIN s.trail : VarOf(s.trail[j].lit) = VarOf(l) /\ s.trail[j].level = LevelFor(s, C)
      BY <2>1, LevelForIs
    <2>3. PICK i \in DOMAIN b.trail : u.trail[i].lit = -l
      BY <1>6
    <2>4. i = j
      <3>1. s.trail[i].lit = -l /\ i \in DOMAIN s.trail /\ l \in Lit
        BY <1>2, <2>3
      <3>2. VarOf(s.trail[i].lit) = VarOf(s.trail[j].lit)
        BY <2>2, <3>1, Literals
      <3>3. Once(s) /\ j \in DOMAIN s.trail
        BY <1>1, <2>2
      <3> QED BY ONLY <3>1, <3>2, <3>3 DEF Once
    <2>5. s.trail[j].level <= m
      BY <2>2, <2>3, <2>4 DEF Cancelled
    <2>6. s.trail[j].level = m
      <3>1. s.trail[j].level \in Nat /\ LevelFor(s, C) = s.trail[j].level
        BY <1>1, <2>2
      <3> QED BY <2>5, <3>1
    <2>7. i \in DOMAIN u.trail /\ VarOf(u.trail[i].lit) = VarOf(l) /\ u.trail[i].level = u.level
      BY <1>2, <1>3, <2>3, <2>4, <2>6, Literals
    <2> QED BY <2>7 DEF OfNow
  <1> QED BY <1>4, <1>5, <1>6

(* The lemmas are stored one after another.                                *)
LEMMA StoredSteps ==
  ASSUME NEW s, NEW lemmas, NEW n \in Nat, n = Len(lemmas)
  PROVE  /\ StoredFrom(s, lemmas)[0] = [s |-> s, conflict |-> NoConflict]
         /\ \A k \in 1 .. n : StoredFrom(s, lemmas)[k] = StoreLemma(StoredFrom(s, lemmas)[k - 1], lemmas[n + 1 - k])
  <1> DEFINE F(m, f) == f = [k \in 0 .. m |-> IF k = 0 THEN [s |-> s, conflict |-> NoConflict] ELSE StoreLemma(f[k - 1], lemmas[n + 1 - k])]
             T == {m \in 0 .. n : \E f : F(m, f)}
  <1>1. 0 \in T
    <2>1. F(0, [k \in 0 .. 0 |-> IF k = 0 THEN [s |-> s, conflict |-> NoConflict] ELSE [s |-> s, conflict |-> NoConflict]])
      OBVIOUS
    <2> HIDE DEF F
    <2> QED BY <2>1
  <1>2. ASSUME NEW m \in 0 .. n - 1, m \in T PROVE m + 1 \in T
    <2>1. PICK f : F(m, f)
      BY <1>2
    <2> DEFINE g == [i \in 0 .. m + 1 |-> IF i = m + 1 THEN StoreLemma(f[m], lemmas[n + 1 - (m + 1)]) ELSE f[i]]
    <2>2. ASSUME NEW i \in 0 .. m + 1 PROVE g[i] = IF i = 0 THEN [s |-> s, conflict |-> NoConflict] ELSE StoreLemma(g[i - 1], lemmas[n + 1 - i])
      <3>1. CASE i = m + 1
        BY <3>1
      <3>2. CASE i # m + 1
        <4>1. i \in 0 .. m /\ (i # 0 => i - 1 \in 0 .. m)
          BY <3>2
        <4>2. f[i] = IF i = 0 THEN [s |-> s, conflict |-> NoConflict] ELSE StoreLemma(f[i - 1], lemmas[n + 1 - i])
          BY <2>1, <4>1
        <4> QED BY <3>2, <4>1, <4>2
      <3> QED BY <3>1, <3>2
    <2>3. F(m + 1, g)
      BY <2>2
    <2> HIDE DEF F, g
    <2> QED BY <2>3
  <1>3. n \in T
    <2> HIDE DEF T
    <2> QED BY <1>1, <1>2, NumbersTo
  <1> DEFINE g == StoredFrom(s, lemmas)
  <1>4. g = CHOOSE f : F(n, f)
    BY ONLY n = Len(lemmas) DEF StoredFrom
  <1>5. F(n, g)
    <2> HIDE DEF F, g
    <2> QED BY <1>3, <1>4
  <1>6. \A k \in 0 .. n : g[k] = IF k = 0 THEN [s |-> s, conflict |-> NoConflict] ELSE StoreLemma(g[k - 1], lemmas[n + 1 - k])
    <2> HIDE DEF g
    <2> QED BY <1>5
  <1> HIDE DEF F, T, g
  <1>7. /\ g[0] = [s |-> s, conflict |-> NoConflict]
        /\ \A k \in 1 .. n : g[k] = StoreLemma(g[k - 1], lemmas[n + 1 - k])
    BY ONLY <1>6, n \in Nat
  <1> QED BY <1>7 DEF g

(* The run from a state b of the level m, to which s has gone back.        *)
StoresFrom(s, lemmas, m, b) ==
    /\ m <= s.level /\ \A i \in DOMAIN lemmas : m <= LevelFor(s, lemmas[i])
    /\ Sound(b) /\ Cancelled(s, b, m) /\ b.level = m
    /\ \A k \in 0 .. Len(lemmas) : /\ StoreOK(StoredFrom(b, lemmas)[k]) /\ Extends(b, StoredFrom(b, lemmas)[k].s)
                                    /\ StoredOn(b, StoredFrom(b, lemmas)[k])
    /\ StoredFrom(b, lemmas)[0] = [s |-> b, conflict |-> NoConflict]
    /\ \A k \in 1 .. Len(lemmas) :
         StoredFrom(b, lemmas)[k] = StoreLemma(StoredFrom(b, lemmas)[k - 1], lemmas[Len(lemmas) + 1 - k])
    /\ StoreLemmas(s, lemmas) = StoredFrom(b, lemmas)[Len(lemmas)]

LEMMA StoredRun ==
  ASSUME NEW s, Sound(s), NEW lemmas \in Seq(SUBSET Lit), \A i \in DOMAIN lemmas : Within(lemmas[i], s.known)
  PROVE  \E m \in Nat : \E b : StoresFrom(s, lemmas, m, b)
  <1> DEFINE levels == {LevelFor(s, lemmas[i]) : i \in DOMAIN lemmas}
             m == Min(levels \cup {s.level})
             b == CancelUntil(s, m, TRUE)
             n == Len(lemmas)
             f == StoredFrom(b, lemmas)
             T == {k \in 0 .. n : StoreOK(f[k]) /\ Extends(b, f[k].s) /\ StoredOn(b, f[k])}
  <1>1. n \in Nat /\ DOMAIN lemmas = 1 .. n /\ \A i \in DOMAIN lemmas : lemmas[i] \subseteq Lit
    OBVIOUS
  <1>2. s.level \in Nat
    BY Fields DEF Sound
  <1>3. m \in Nat /\ m <= s.level /\ \A i \in DOMAIN lemmas : m <= LevelFor(s, lemmas[i])
    <2>1. levels \cup {s.level} \subseteq Nat
      BY <1>1, <1>2, LevelForIs
    <2>2. m \in levels \cup {s.level} /\ \A k \in levels \cup {s.level} : m <= k
      <3> HIDE DEF levels
      <3> QED BY <2>1, MinIs
    <2> QED BY <2>1, <2>2
  <1> HIDE DEF m
  <1>4. Sound(b) /\ Cancelled(s, b, m) /\ b.level = m
    <2>1. CancelsTo(s, m, TRUE, b, m)
      BY DEF Target, CancelsTo
    <2> HIDE DEF b
    <2>2. m \in Nat
      BY <1>3
    <2>3. CancelRight(s, b, m)
      BY ONLY <2>1, <2>2, Sound(s), CancelIs
    <2>4. Sound(b) /\ Cancelled(s, b, m) /\ b.level = IF s.level <= m THEN s.level ELSE m
      BY ONLY <2>3 DEF CancelRight
    <2> QED BY <1>2, <1>3, <2>4
  <1> HIDE DEF b
  <1>5. f[0] = [s |-> b, conflict |-> NoConflict] /\ \A k \in 1 .. n : f[k] = StoreLemma(f[k - 1], lemmas[n + 1 - k])
    BY <1>1, StoredSteps
  <1>6. StoreLemmas(s, lemmas) = f[n]
    BY DEF StoreLemmas, b, m
  <1> HIDE DEF f
  <1>7. 0 \in T
    <2>1. StoreOK(f[0]) /\ Extends(b, f[0].s)
      BY <1>4, <1>5 DEF StoreOK, Extends, Same
    <2>2. StoredOn(b, f[0])
      <3>1. Onward(b, b) /\ Follows(b, b)
        BY GrowsBy DEF Unmoving
      <3> QED BY <1>5, <3>1 DEF StoredOn
    <2> QED BY <1>1, <2>1, <2>2
  <1>8. ASSUME NEW k \in 0 .. n - 1, k \in T PROVE k + 1 \in T
    <2> DEFINE q == f[k]
               t == f[k + 1]
               C == lemmas[n - k]
    <2>1. StoreOK(q) /\ Extends(b, q.s) /\ StoredOn(b, q) /\ Sound(q.s)
      BY <1>8 DEF StoreOK
    <2>2. t = StoreLemma(q, C) /\ n - k \in DOMAIN lemmas
      <3>1. n \in Nat /\ k \in 0 .. n - 1
        BY <1>1
      <3> HIDE DEF n
      <3>2. k + 1 \in 1 .. n /\ k + 1 - 1 = k /\ n + 1 - (k + 1) = n - k /\ n - k \in 1 .. n
        BY ONLY <3>1
      <3> QED BY <1>1, <1>5, <3>2
    <2>3. C \subseteq Lit /\ Within(C, q.s.known) /\ m <= LevelFor(s, C)
      <3>1. q.s.known = s.known
        BY <1>4, <2>1 DEF Extends, Cancelled, Fixed
      <3> QED BY <1>1, <1>3, <2>2, <3>1
    <2> HIDE DEF q, t, C
    <2>4. C # {} /\ ~IsLiteral(C) /\ (\A l \in C : IsFalse(q.s, l)) => OfNow(q.s, C)
      BY <1>3, <1>4, <2>1, <2>3, FalseNow
    <2>5. StoreOK(t) /\ Extends(q.s, t.s) /\ Goes(q, t)
      BY <2>1, <2>2, <2>3, <2>4, StoreLemmaOn
    <2>6. Extends(b, t.s)
      BY <2>1, <2>5, ExtendsIs
    <2>7. StoredOn(b, t)
      BY <1>4, <2>1, <2>5, StoredOnIs
    <2> QED BY <1>1, <2>5, <2>6, <2>7 DEF t
  <1>9. \A k \in 0 .. n : k \in T
    <2> HIDE DEF T
    <2> QED BY <1>1, <1>7, <1>8, NumbersTo
  <1> QED BY <1>3, <1>4, <1>5, <1>6, <1>9 DEF StoresFrom, f

LEMMA StoreLemmasIs ==
  ASSUME NEW s, Sound(s), NEW lemmas \in Seq(SUBSET Lit), \A i \in DOMAIN lemmas : Within(lemmas[i], s.known),
         NEW r, r = StoreLemmas(s, lemmas)
  PROVE  StoreOK(r) /\ ToSet(s.assumptions) \subseteq ToSet(r.s.assumptions) /\ Carries(s, r)
  <1>1. PICK m \in Nat : \E b : StoresFrom(s, lemmas, m, b)
    BY StoredRun
  <1>6. PICK b : StoresFrom(s, lemmas, m, b)
    BY <1>1
  <1>2. Sound(b) /\ Cancelled(s, b, m) /\ StoreOK(r) /\ Extends(b, r.s) /\ StoredOn(b, r)
    <2>1. Len(lemmas) \in 0 .. Len(lemmas)
      OBVIOUS
    <2> QED BY <1>6, <2>1 DEF StoresFrom
  <1>3. Sound(r.s)
    BY <1>2 DEF StoreOK
  <1>4. ToSet(b.assumptions) = ToSet(s.assumptions)
    BY <1>2 DEF Cancelled, Fixed
  <1>5. Carries(s, r)
    BY ONLY <1>2, <1>3, Sound(s), CarriesIs
  <1> QED BY <1>2, <1>4, <1>5 DEF Extends

-----------------------------------------------------------------------------
(* What the theory hands over.                                             *)

LEMMA EnqueuePropagated ==
  ASSUME NEW s, Sound(s), NEW tp \in Propagation, NEW l, l = tp.conclusion, NEW reason, reason \subseteq Lit,
         Unassigned(s, l), VarOf(l) \in s.known, \A k \in reason \ {l} : Assigned(s, k),
         NEW t, t = Enqueue([s EXCEPT !.props = Append(@, tp)], l, reason, l, Len(s.props) + 1)
  PROVE  Sound(t) /\ Extends(s, t) /\ Onward(s, t)
  <1> DEFINE q == Append(s.props, tp)
             u == [s EXCEPT !.props = q]
             p == Len(s.props) + 1
             e == NewEntry(u, l, reason, l, p)
  <1>1. /\ s \in State /\ s.props \in Seq(Propagation) /\ s.trail \in Seq(Entry) /\ Len(s.props) \in Nat
        /\ l \in Lit /\ l \in Int
    <2>1. s \in State
      BY DEF Sound
    <2>2. s.props \in Seq(Propagation) /\ s.trail \in Seq(Entry)
      BY ONLY <2>1, Fields
    <2>3. l \in Lit
      BY DEF Propagation
    <2>4. l \in Int
      BY ONLY <2>3, Literals
    <2> QED BY ONLY <2>1, <2>2, <2>3, <2>4
  <1>2. /\ q \in Seq(Propagation) /\ DOMAIN q = DOMAIN s.props \cup {p} /\ q[p] = tp
        /\ (\A k \in DOMAIN s.props : k # p /\ q[k] = s.props[k]) /\ p \in Nat
    BY <1>1
  <1>3. t = Enqueue(u, l, reason, l, p)
    OBVIOUS
  <1> HIDE DEF q
  <1>4. /\ u \in State /\ u.trail = s.trail /\ u.props = q /\ u.level = s.level /\ u.qhead = s.qhead /\ Fixed(s, u)
        /\ u.info = s.info /\ u.changed = s.changed /\ u.excluded = s.excluded /\ u.model = s.model
    <2>1. s \in State
      BY <1>1
    <2> QED BY ONLY <1>2, <2>1 DEF State, Fixed
  <1> HIDE DEF u, p
  <1>5. Core(u)
    <2>1. Counted(u)
      BY <1>4, CountedSame DEF Sound, Fixed
    <2>2. Ordered(u)
      BY <1>4 DEF Sound, Ordered, Once, LevelsRise, ReasonsEarlier, AssignedBefore
    <2>3. QueueFresh(u) /\ KnownFirst(u) /\ WatchesTwo(u)
      BY <1>4 DEF Sound, Fixed, QueueFresh, KnownFirst, WatchesTwo
    <2> QED BY <1>4, <2>1, <2>2, <2>3 DEF Core
  <1>6. Core(t) /\ Enqueued(u, t, l, e)
    <2>1. Unassigned(u, l)
      BY <1>4 DEF Unassigned, IsTrue, IsFalse, TrueLits, Entries
    <2>2. VarOf(l) \in u.known
      BY <1>4 DEF Fixed
    <2>3. \A k \in reason \ {l} : Assigned(u, k)
      BY <1>4, SameTrail
    <2>4. l \in Lit /\ l \in Int /\ p \in Nat
      BY <1>1, <1>2
    <2> QED BY <1>3, <1>5, <2>1, <2>2, <2>3, <2>4, EnqueueSound
  <1>7. e \in Entry /\ e.pos = p /\ e.level = s.level /\ e.lit = l
    BY <1>1, <1>2, <1>4, Fields DEF NewEntry, Entry
  <1> HIDE DEF e
  <1>8. /\ t.trail = Append(u.trail, e) /\ u.trail \in Seq(Entry) /\ t.props = q /\ t.level = s.level /\ t.known = s.known
        /\ t.assumptions = s.assumptions /\ t.qhead = s.qhead /\ t.excluded = s.excluded /\ t.model = s.model
        /\ t.watch = s.watch
    BY <1>1, <1>4, <1>6 DEF Enqueued, Fixed
  <1>9. GrownBy(u, t, e)
    <2>1. t.trail = Append(u.trail, e) /\ u.trail \in Seq(Entry) /\ e \in Entry
      BY <1>7, <1>8
    <2> QED BY <2>1, Grown
  <1>10. /\ DOMAIN t.trail = DOMAIN s.trail \cup {Len(s.trail) + 1}
         /\ \A i \in DOMAIN s.trail : t.trail[i] = s.trail[i]
         /\ t.trail[Len(s.trail) + 1] = e
    BY <1>4, <1>9 DEF GrownBy
  <1>11. Extends(s, t)
    BY <1>7, <1>8, <1>10 DEF Extends, Same
  <1>12. Placed(t)
    <2>1. Placed(s) /\ e.lit = tp.conclusion
      BY <1>7 DEF Sound
    <2>2. ASSUME NEW i \in DOMAIN t.trail, t.trail[i].pos # 0
          PROVE  t.trail[i].pos \in DOMAIN q /\ q[t.trail[i].pos].conclusion = t.trail[i].lit
      <3>1. CASE i \in DOMAIN s.trail
        BY ONLY <1>2, <1>10, <2>1, <2>2, <3>1 DEF Placed
      <3>2. CASE i = Len(s.trail) + 1
        BY ONLY <1>2, <1>7, <1>10, <2>1, <3>2
      <3> QED BY ONLY <1>10, <2>2, <3>1, <3>2
    <2>3. ASSUME NEW k \in DOMAIN q, k > 1 PROVE \E i \in DOMAIN t.trail : t.trail[i].pos = k
      <3>1. CASE k \in DOMAIN s.props
        BY ONLY <1>10, <2>1, <2>3, <3>1 DEF Placed
      <3>2. CASE k = p
        BY ONLY <1>7, <1>10, <3>2
      <3> QED BY ONLY <1>2, <2>3, <3>1, <3>2
    <2> QED BY ONLY <1>8, <2>2, <2>3 DEF Placed
  <1>13. Onward(s, t)
    BY <1>8, <1>11, GrowsBy
  <1> QED BY <1>6, <1>11, <1>12, <1>13 DEF Sound, Core

(* The clauses for storeLemmas.                                            *)
ClausesOf(q, V) == q \in Seq(SUBSET Lit) /\ \A i \in DOMAIN q : Within(q[i], V)

Added(u, q, s, C) == u = q \o AddClause(s, C)

LEMMA AddClauseIs ==
  ASSUME NEW V, NEW W, V \subseteq W, NEW q, ClausesOf(q, V), NEW C, C \subseteq Lit, Within(C, W), NEW s,
         NEW u, Added(u, q, s, C)
  PROVE  ClausesOf(u, W)
  <1> USE DEF Added
  <1>1. q \in Seq(SUBSET Lit) /\ \A i \in DOMAIN q : Within(q[i], W)
    BY DEF ClausesOf, Within
  <1>2. CASE AddClause(s, C) = <<>>
    BY <1>1, <1>2 DEF ClausesOf
  <1>3. CASE AddClause(s, C) # <<>>
    <2> DEFINE D == {l \in C : ~FixedFalse(s, l)}
    <2>1. AddClause(s, C) = <<D>> /\ D \subseteq Lit /\ Within(D, W)
      BY <1>3 DEF AddClause, Within
    <2> HIDE DEF D
    <2>2. u = q \o <<D>>
      BY <2>1
    <2>3. u \in Seq(SUBSET Lit) /\ DOMAIN u = DOMAIN q \cup {Len(q) + 1} /\ u[Len(q) + 1] = D
          /\ \A i \in DOMAIN q : u[i] = q[i]
      BY <1>1, <2>1, <2>2
    <2> QED BY <1>1, <2>1, <2>3 DEF ClausesOf
  <1> QED BY <1>2, <1>3

LEMMA NegatedIs ==
  ASSUME NEW C, C \subseteq Lit
  PROVE  /\ Negated(C) \subseteq Lit
         /\ \A V : Within(C, V) => Within(Negated(C), V)
         /\ \A l \in Negated(C) : \E k \in C : VarOf(k) = VarOf(l)
  BY Literals DEF Negated, Within

(* What is passed, without the difference that changedPassed makes.        *)
Asked(s, t, a, M) == t = [s EXCEPT !.changedPassed = FALSE, !.consistent = a, !.model = M]

LEMMA AskedIs ==
  ASSUME NEW s, Ready(s), NEW a \in {"SAT", "UNSAT", "UNKNOWN"}, NEW M \in SUBSET Lit,
         NEW t, Asked(s, t, a, M)
  PROVE  /\ Sound(t) /\ t.trail = s.trail /\ t.level = s.level /\ t.assumptions = s.assumptions
         /\ t.known = s.known
  <1> USE DEF Asked
  <1>1. /\ t \in State /\ t.trail = s.trail /\ t.level = s.level /\ t.assumptions = s.assumptions /\ t.known = s.known
        /\ t.qhead = s.qhead /\ t.watch = s.watch /\ t.learnts = s.learnts /\ t.relevant = s.relevant
        /\ t.info = s.info /\ t.changed = s.changed /\ t.passed = s.passed /\ t.props = s.props /\ ~t.changedPassed
    <2>1. s \in State
      BY DEF Ready
    <2>2. ASSUME NEW m \in SUBSET Lit, NEW b \in {"SAT", "UNSAT", "UNKNOWN"},
                 t = [s EXCEPT !.changedPassed = FALSE, !.consistent = b, !.model = m]
          PROVE  t \in State
      BY ONLY <2>1, <2>2 DEF State
    <2>3. t \in State
      BY <2>2
    <2> QED BY <2>1, <2>3 DEF State
  <1>2. Ordered(t) /\ QueueFresh(t)
    BY <1>1 DEF Ready, Ordered, Once, LevelsRise, ReasonsEarlier, AssignedBefore, QueueFresh
  <1>3. KnownFirst(t) /\ WatchesTwo(t) /\ Placed(t)
    BY <1>1 DEF Ready, KnownFirst, WatchesTwo, Placed
  <1>4. Counted(t)
    <2>1. \A l : IsTrue(t, l) <=> IsTrue(s, l)
      BY ONLY <1>1, SameTrail
    <2>2. \A l : Due(t, l) = Due(s, l)
      BY <1>1, <2>1 DEF Due
    <2> QED BY <1>1, <2>2 DEF Ready, Exact, Counted
  <1> QED BY <1>1, <1>2, <1>3, <1>4 DEF Sound

(* Sets become sequences of their elements.                                *)
LEMMA SetToSeqIs ==
  ASSUME NEW S, IsFiniteSet(S), NEW q, q = SetToSeq(S)
  PROVE  q \in Seq(S)
  <1>1. Cardinality(S) \in Nat /\ ExistsBijection(1 .. Cardinality(S), S)
    BY FS_CardinalityType
  <1>2. PICK f : f \in [1 .. Cardinality(S) -> S] /\ IsInjective(f)
    BY <1>1 DEF ExistsBijection, Bijection, Injection
  <1>3. q \in [1 .. Cardinality(S) -> S]
    BY <1>2 DEF SetToSeq
  <1> QED BY <1>1, <1>3

LEMMA TheoryFinite ==
  /\ IsFiniteSet(Conflicts) /\ Conflicts \subseteq SUBSET Lit
  /\ \A P : IsFiniteSet(Propagable(P)) /\ Propagable(P) \subseteq Propagation
  <1> DEFINE N == {-v : v \in TheoryVar}
             T == {l \in Lit : IsTheory(l)}
  <1>1. IsFiniteSet(N)
    <2> DEFINE f == [x \in N |-> -x]
    <2>1. f \in Injection(N, TheoryVar)
      BY SATAssumption DEF Injection, IsInjective
    <2> HIDE DEF f
    <2> QED BY <2>1, FS_Injection, SATAssumption
  <1>2. IsFiniteSet(T)
    <2>1. T \subseteq TheoryVar \cup N
      <3>1. ASSUME NEW l \in T PROVE l \in TheoryVar \cup N
        <4>1. l \in Int /\ -(-l) = l /\ VarOf(l) \in TheoryVar
          BY <3>1, Literals DEF IsTheory
        <4>2. VarOf(l) = l \/ VarOf(l) = -l
          BY DEF VarOf
        <4> QED BY <4>1, <4>2
      <3> QED BY <3>1
    <2>2. IsFiniteSet(TheoryVar)
      BY SATAssumption
    <2>3. IsFiniteSet(TheoryVar \cup N)
      BY <1>1, <2>2, FS_Union
    <2> QED BY <2>1, <2>3, FS_Subset
  <1>3. Conflicts \subseteq SUBSET T
    BY SATAssumption
  <1>4. T \subseteq Lit /\ \A l \in T : -l \in T
    BY Literals DEF IsTheory
  <1> HIDE DEF T
  <1>5. IsFiniteSet(SUBSET T)
    BY <1>2, FS_SUBSET
  <1>6. ASSUME NEW P PROVE IsFiniteSet(Propagable(P)) /\ Propagable(P) \subseteq Propagation
    <2> DEFINE X == Propagable(P)
               Y == (SUBSET T) \X T
               f == [x \in X |-> <<x.premise, x.conclusion>>]
    <2>1. ASSUME NEW x \in X PROVE x = [premise |-> x.premise, conclusion |-> x.conclusion]
                                    /\ x.premise \subseteq T /\ x.conclusion \in T
      BY <1>3, <1>4 DEF Propagable
    <2> HIDE DEF X
    <2>2. f \in Injection(X, Y)
      <3>1. f \in [X -> Y]
        BY <2>1
      <3>2. ASSUME NEW x \in X, NEW y \in X, f[x] = f[y] PROVE x = y
        <4>1. x.premise = y.premise /\ x.conclusion = y.conclusion
          BY <3>2
        <4> QED BY <2>1, <4>1
      <3> QED BY <3>1, <3>2 DEF Injection, IsInjective
    <2>3. IsFiniteSet(Y)
      BY <1>2, <1>5, FS_Product
    <2>4. IsFiniteSet(X)
      <3> HIDE DEF f, Y
      <3> QED BY <2>2, <2>3, FS_Injection
    <2>5. X \subseteq Propagation
      BY <1>4, <2>1 DEF Propagation
    <2> QED BY <2>4, <2>5 DEF X
  <1>7. IsFiniteSet(Conflicts)
    BY <1>3, <1>5, FS_Subset
  <1> QED BY <1>3, <1>4, <1>6, <1>7

(* What is handed over is about what is passed, and about Conflicts.       *)
HandedOK(x, P, tps) ==
    \/ x.kind = "conflict" /\ x.given \subseteq P /\ x.given \in Conflicts
    \/ /\ x.kind = "propagation" /\ x.given \in Propagation /\ x.given.premise \subseteq P
       /\ x.given \in Propagable(P) /\ \E j \in DOMAIN tps : x.given = tps[j]
    \/ x.kind = "lemma" /\ x.given \subseteq Lit /\ \E C \in Conflicts : x.given = Negated(C)

LEMMA KindIs ==
  ASSUME NEW S, NEW q \in Seq(S), NEW kind
  PROVE  Kind(kind, q) \in Seq([kind : {kind}, given : S])
  <1>1. Len(q) \in Nat /\ DOMAIN q = 1 .. Len(q) /\ \A i \in 1 .. Len(q) : q[i] \in S
    OBVIOUS
  <1> DEFINE n == Len(q)
  <1> HIDE DEF n
  <1>2. n \in Nat /\ Kind(kind, q) = [i \in 1 .. n |-> [kind |-> kind, given |-> q[i]]] /\ \A i \in 1 .. n : q[i] \in S
    BY <1>1 DEF Kind, n
  <1>3. Kind(kind, q) \in [1 .. n -> [kind : {kind}, given : S]]
    BY ONLY <1>2
  <1> QED BY <1>2, <1>3

LEMMA HandedIs ==
  ASSUME NEW P, P \subseteq Lit, NEW a \in Answers(P), NEW n, NEW tps \in Propagations(P, n), NEW m,
         NEW Ls \in Lemmas(m), NEW h, h = Handed(a, tps, Ls)
  PROVE  Len(h) \in Nat /\ \A i \in 1 .. Len(h) : HandedOK(h[i], P, tps)
  <1> DEFINE Q == {C \in Conflicts : C \subseteq P}
             R == {x \in Propagation : /\ x.premise \subseteq P /\ x \in Propagable(P)
                                       /\ \E j \in DOMAIN tps : x = tps[j]}
             N == {Negated(C) : C \in Conflicts}
             X == [kind : {"conflict"}, given : Q]
             Y == [kind : {"propagation"}, given : R]
             Z == [kind : {"lemma"}, given : N]
             H == X \cup Y \cup Z
  <1>1. Kind("conflict", SetToSeq(a.subsets)) \in Seq(X)
    <2>1. a.subsets \subseteq SUBSET P /\ a.subsets \subseteq Conflicts
      BY DEF Answers
    <2>2. IsFiniteSet(a.subsets)
      BY <2>1, TheoryFinite, FS_Subset
    <2>3. SetToSeq(a.subsets) \in Seq(a.subsets)
      BY <2>2, SetToSeqIs
    <2> DEFINE q == SetToSeq(a.subsets)
    <2> HIDE DEF q
    <2>4. q \in Seq(Q)
      BY <2>1, <2>3 DEF q
    <2>5. Kind("conflict", q) \in Seq(X)
      BY <2>4, KindIs
    <2> QED BY <2>5 DEF q
  <1>2. Kind("propagation", tps) \in Seq(Y)
    <2>1. PICK S \in SUBSET Propagable(P) : tps \in SetToSeqs(S)
      BY DEF Propagations
    <2>2. Cardinality(S) \in Nat
      <3>1. IsFiniteSet(S)
        BY <2>1, TheoryFinite, FS_Subset
      <3> QED BY <3>1, FS_CardinalityType
    <2>3. \A x \in S : x \in Propagation /\ x \in Propagable(P) /\ x.premise \subseteq P
      <3>1. S \subseteq Propagation
        BY <2>1, TheoryFinite
      <3>2. \A x \in Propagable(P) : x.premise \subseteq P
        BY DEF Propagable
      <3> QED BY <2>1, <3>1, <3>2
    <2>4. tps \in Seq(S)
      BY <2>1, <2>2 DEF SetToSeqs
    <2>5. \A i \in DOMAIN tps : tps[i] \in R
      BY <2>3, <2>4
    <2>6. Len(tps) \in Nat /\ DOMAIN tps = 1 .. Len(tps) /\ tps = [i \in 1 .. Len(tps) |-> tps[i]]
      BY <2>4
    <2> HIDE DEF R
    <2>7. tps \in Seq(R)
      BY <2>5, <2>6
    <2> QED BY <2>7, KindIs
  <1>3. Kind("lemma", SetToSeq(Ls)) \in Seq(Z)
    <2> DEFINE q == SetToSeq(Ls)
    <2>1. Ls \subseteq N
      BY DEF Lemmas
    <2>3. IsFiniteSet(N)
      <3> DEFINE f == [C \in Conflicts |-> Negated(C)]
      <3>1. f \in Surjection(Conflicts, N)
        BY DEF Surjection
      <3> HIDE DEF f, N
      <3> QED BY <3>1, TheoryFinite, FS_Surjection
    <2> HIDE DEF N
    <2>4. IsFiniteSet(Ls)
      BY <2>1, <2>3, FS_Subset
    <2>5. q \in Seq(Ls)
      BY <2>4, SetToSeqIs
    <2> HIDE DEF q
    <2>6. q \in Seq(N)
      BY <2>1, <2>5
    <2>7. Kind("lemma", q) \in Seq(Z)
      BY <2>6, KindIs
    <2> QED BY <2>7 DEF q
  <1>4. \A x \in H : HandedOK(x, P, tps)
    <2>1. N \subseteq SUBSET Lit
      BY TheoryFinite, Literals DEF Negated
    <2> QED BY <2>1 DEF HandedOK
  <1>5. h \in Seq(H)
    <2> DEFINE x == Kind("conflict", SetToSeq(a.subsets))
               y == Kind("propagation", tps)
               z == Kind("lemma", SetToSeq(Ls))
    <2>1. h = x \o y \o z
      BY DEF Handed
    <2> HIDE DEF x, y, z, X, Y, Z
    <2>2. x \in Seq(X) /\ y \in Seq(Y) /\ z \in Seq(Z)
      BY <1>1, <1>2, <1>3 DEF x, y, z
    <2>3. x \in Seq(H) /\ y \in Seq(H) /\ z \in Seq(H)
      BY <2>2
    <2> HIDE DEF H
    <2> QED BY <2>1, <2>3
  <1> HIDE DEF H
  <1> QED BY <1>4, <1>5

(* They are taken one after another.                                       *)
LEMMA TakenSteps ==
  ASSUME NEW s, NEW handed, NEW n \in Nat, n = Len(handed)
  PROVE  /\ Taken(s, handed)[0] = [s |-> s, lemmas |-> <<>>]
         /\ \A k \in 1 .. n : Taken(s, handed)[k] = Take(Taken(s, handed)[k - 1], handed[k])
  <1> DEFINE F(m, f) == f = [k \in 0 .. m |-> IF k = 0 THEN [s |-> s, lemmas |-> <<>>] ELSE Take(f[k - 1], handed[k])]
             T == {m \in 0 .. n : \E f : F(m, f)}
  <1>1. 0 \in T
    <2>1. F(0, [k \in 0 .. 0 |-> IF k = 0 THEN [s |-> s, lemmas |-> <<>>] ELSE [s |-> s, lemmas |-> <<>>]])
      OBVIOUS
    <2> HIDE DEF F
    <2> QED BY <2>1
  <1>2. ASSUME NEW m \in 0 .. n - 1, m \in T PROVE m + 1 \in T
    <2>1. PICK f : F(m, f)
      BY <1>2
    <2> DEFINE g == [i \in 0 .. m + 1 |-> IF i = m + 1 THEN Take(f[m], handed[(m + 1)]) ELSE f[i]]
    <2>2. ASSUME NEW i \in 0 .. m + 1 PROVE g[i] = IF i = 0 THEN [s |-> s, lemmas |-> <<>>] ELSE Take(g[i - 1], handed[i])
      <3>1. CASE i = m + 1
        BY <3>1
      <3>2. CASE i # m + 1
        <4>1. i \in 0 .. m /\ (i # 0 => i - 1 \in 0 .. m)
          BY <3>2
        <4>2. f[i] = IF i = 0 THEN [s |-> s, lemmas |-> <<>>] ELSE Take(f[i - 1], handed[i])
          BY <2>1, <4>1
        <4> QED BY <3>2, <4>1, <4>2
      <3> QED BY <3>1, <3>2
    <2>3. F(m + 1, g)
      BY <2>2
    <2> HIDE DEF F, g
    <2> QED BY <2>3
  <1>3. n \in T
    <2> HIDE DEF T
    <2> QED BY <1>1, <1>2, NumbersTo
  <1>4. F(n, Taken(s, handed))
    BY <1>3 DEF Taken
  <1> QED BY <1>4

(* While they are taken: the clauses so far are of known variables, and    *)
(* what was passed stays assigned.                                         *)
TakeOK(r, P) ==
    /\ r = [s |-> r.s, lemmas |-> r.lemmas] /\ Sound(r.s) /\ ClausesOf(r.lemmas, r.s.known)
    /\ P \subseteq Lit /\ \A l \in P : Assigned(r.s, l) /\ VarOf(l) \in r.s.known

LEMMA TakeOKExtends ==
  ASSUME NEW r, NEW P, TakeOK(r, P), NEW s, Sound(s), r.s.known \subseteq s.known,
         \A l : Assigned(r.s, l) => Assigned(s, l), NEW q, ClausesOf(q, s.known)
  PROVE  TakeOK([s |-> s, lemmas |-> q], P) /\ TakeOK([s |-> s, lemmas |-> r.lemmas], P)
  <1>1. ClausesOf(r.lemmas, s.known)
    BY DEF TakeOK, ClausesOf, Within
  <1>2. \A l \in P : Assigned(s, l) /\ VarOf(l) \in s.known
    BY DEF TakeOK
  <1> QED BY <1>1, <1>2 DEF TakeOK

LEMMA PropagateTheoryIs ==
  ASSUME NEW r, NEW P, TakeOK(r, P), NEW tp \in Propagation, tp.premise \subseteq P,
         NEW t, t = PropagateTheory(r, tp)
  PROVE  TakeOK(t, P) /\ ToSet(r.s.assumptions) \subseteq ToSet(t.s.assumptions) /\ Onward(r.s, t.s)
  <1> DEFINE l == tp.conclusion
             s == CreateLiterals(r.s, {l}, TRUE)
             C == Negated(tp.premise) \cup {l}
             u == Enqueue([s EXCEPT !.props = Append(@, tp)], l, C, l, Len(s.props) + 1)
  <1>1. l \in Lit /\ tp.premise \subseteq Lit
    BY DEF Propagation
  <1>2. Sound(s) /\ Created(r.s, s, {l})
    <2>1. Sound(r.s) /\ {l} \subseteq Lit /\ TRUE \in BOOLEAN
      BY <1>1 DEF TakeOK
    <2> QED BY <2>1, CreateLiteralsIs
  <1>10. Onward(r.s, s)
    BY <1>2, GrowsBy DEF Created, Unmoving
  <1>3. /\ s.trail = r.s.trail /\ s.assumptions = r.s.assumptions /\ r.s.known \subseteq s.known
        /\ VarOf(l) \in s.known
    BY <1>2 DEF Created, Within
  <1>4. \A k : Assigned(r.s, k) => Assigned(s, k)
    BY <1>3, SameTrail
  <1>5. /\ C \subseteq Lit /\ Within(C, s.known)
        /\ \A k \in C \ {l} : Assigned(s, k)
    <2>1. Negated(tp.premise) \subseteq Lit
      BY <1>1, NegatedIs
    <2>2. \A k \in tp.premise : Assigned(s, k) /\ VarOf(k) \in s.known
      BY <1>3, <1>4 DEF TakeOK
    <2>3. \A k \in Negated(tp.premise) : Assigned(s, k) /\ VarOf(k) \in s.known
      <3>1. \A k \in Negated(tp.premise) : \E m \in tp.premise : VarOf(m) = VarOf(k)
        BY <1>1, NegatedIs
      <3> QED BY <2>2, <3>1 DEF Assigned
    <2> QED BY <1>1, <1>3, <2>1, <2>3 DEF Within
  <1>6. TakeOK([s |-> s, lemmas |-> r.lemmas], P)
    BY <1>2, <1>3, <1>4, TakeOKExtends DEF TakeOK, ClausesOf, Within
  <1> HIDE DEF s, C
  <1>7. CASE Unassigned(s, l)
    <2>1. t = [r EXCEPT !.s = u]
      BY <1>7 DEF PropagateTheory, s, C
    <2>2. t = [s |-> u, lemmas |-> r.lemmas]
      BY <2>1 DEF TakeOK
    <2>3. Sound(u) /\ Extends(s, u) /\ Onward(s, u)
      BY <1>2, <1>3, <1>5, <1>7, EnqueuePropagated
    <2> HIDE DEF u, l
    <2>4. /\ r.s.known \subseteq u.known /\ ToSet(r.s.assumptions) \subseteq ToSet(u.assumptions)
          /\ \A k : Assigned(r.s, k) => Assigned(u, k)
      BY <1>3, <1>4, <2>3, ExtendsIs DEF Extends
    <2>5. ClausesOf(r.lemmas, u.known)
      BY <2>4 DEF TakeOK, ClausesOf, Within
    <2>6. TakeOK(t, P)
      BY <2>2, <2>3, <2>4, <2>5, TakeOKExtends
    <2>7. Onward(r.s, u)
      BY <1>2, <1>10, <2>3, OnwardOn
    <2> QED BY <2>2, <2>4, <2>6, <2>7
  <1>8. CASE ~Unassigned(s, l) /\ IsFalse(s, l)
    <2> DEFINE q == r.lemmas \o AddClause(s, C)
    <2>1. t = [s |-> s, lemmas |-> q]
      BY <1>8 DEF PropagateTheory, s, C
    <2>2. ClausesOf(q, s.known)
      <3>1. ClausesOf(r.lemmas, r.s.known) /\ r.s.known \subseteq s.known /\ C \subseteq Lit /\ Within(C, s.known)
        BY <1>3, <1>5 DEF TakeOK
      <3>2. Added(q, r.lemmas, s, C)
        BY DEF Added
      <3> HIDE DEF q
      <3> QED BY ONLY <3>1, <3>2, AddClauseIs
    <2> HIDE DEF q, l
    <2>3. TakeOK(t, P)
      BY <1>2, <1>3, <1>4, <2>1, <2>2, TakeOKExtends
    <2> QED BY <1>3, <1>10, <2>1, <2>3
  <1>9. CASE ~Unassigned(s, l) /\ ~IsFalse(s, l)
    <2>1. t = [r EXCEPT !.s = s]
      BY <1>9 DEF PropagateTheory, s
    <2>2. t = [s |-> s, lemmas |-> r.lemmas]
      BY <2>1 DEF TakeOK
    <2> QED BY <1>3, <1>6, <1>10, <2>2
  <1> QED BY <1>7, <1>8, <1>9

LEMMA TakeIs ==
  ASSUME NEW r, NEW P, TakeOK(r, P), NEW tps, NEW x, HandedOK(x, P, tps), NEW t, t = Take(r, x)
  PROVE  TakeOK(t, P) /\ ToSet(r.s.assumptions) \subseteq ToSet(t.s.assumptions) /\ Onward(r.s, t.s)
  <1>1. /\ r = [s |-> r.s, lemmas |-> r.lemmas] /\ Sound(r.s) /\ ClausesOf(r.lemmas, r.s.known)
        /\ P \subseteq Lit /\ Within(P, r.s.known)
    BY DEF TakeOK, Within
  <1>2. CASE x.kind = "conflict"
    <2> DEFINE C == Negated(x.given)
               q == r.lemmas \o AddClause(r.s, C)
    <2>1. x.given \subseteq P
      BY <1>2 DEF HandedOK
    <2>2. x.given \subseteq Lit /\ Within(x.given, r.s.known)
      BY <1>1, <2>1 DEF Within
    <2>3. C \subseteq Lit /\ Within(C, r.s.known)
      BY <2>2, NegatedIs
    <2>4. t = [r EXCEPT !.lemmas = q]
      BY <1>2 DEF Take, LearnConflict
    <2>5. ClausesOf(q, r.s.known)
      <3>1. ClausesOf(r.lemmas, r.s.known) /\ r.s.known \subseteq r.s.known
        BY <1>1
      <3>2. Added(q, r.lemmas, r.s, C)
        BY DEF Added
      <3> HIDE DEF C, q
      <3> QED BY ONLY <2>3, <3>1, <3>2, AddClauseIs
    <2> HIDE DEF q
    <2>6. t = [s |-> r.s, lemmas |-> q]
      BY <1>1, <2>4
    <2>7. TakeOK(t, P)
      BY <1>1, <2>5, <2>6, TakeOKExtends
    <2>8. Onward(r.s, r.s)
      BY GrowsBy DEF Unmoving
    <2> QED BY <2>6, <2>7, <2>8
  <1>3. CASE x.kind = "propagation"
    <2>1. x.given \in Propagation /\ x.given.premise \subseteq P
      BY <1>3 DEF HandedOK
    <2>2. t = PropagateTheory(r, x.given)
      BY <1>3 DEF Take
    <2> QED BY <2>1, <2>2, PropagateTheoryIs
  <1>4. CASE x.kind = "lemma"
    <2> DEFINE C == x.given
               s == CreateLiterals(r.s, C, TRUE)
               q == r.lemmas \o AddClause(s, C)
    <2>1. C \subseteq Lit
      BY <1>4 DEF HandedOK
    <2>2. Sound(s) /\ Created(r.s, s, C)
      <3>1. TRUE \in BOOLEAN
        OBVIOUS
      <3> QED BY <1>1, <2>1, <3>1, CreateLiteralsIs
    <2>3. /\ s.trail = r.s.trail /\ s.assumptions = r.s.assumptions /\ r.s.known \subseteq s.known
          /\ Within(C, s.known)
      BY <2>2 DEF Created
    <2>4. t = r \/ t = [s |-> s, lemmas |-> q]
      BY <1>4 DEF Take, ProcessLemma
    <2> HIDE DEF C, s
    <2>5. ClausesOf(q, s.known)
      <3>1. ClausesOf(r.lemmas, r.s.known) /\ r.s.known \subseteq s.known
        BY <1>1, <2>3
      <3>2. Added(q, r.lemmas, s, C)
        BY DEF Added
      <3> HIDE DEF q
      <3> QED BY ONLY <2>1, <2>3, <3>1, <3>2, AddClauseIs
    <2>6. \A k : Assigned(r.s, k) => Assigned(s, k)
      BY <2>3, SameTrail
    <2> HIDE DEF q
    <2>7. TakeOK([s |-> s, lemmas |-> q], P)
      BY <2>2, <2>3, <2>5, <2>6, TakeOKExtends
    <2>8. Onward(r.s, r.s) /\ Onward(r.s, s)
      BY <2>2, GrowsBy DEF Created, Unmoving
    <2> QED BY <2>3, <2>4, <2>7, <2>8
  <1> QED BY <1>2, <1>3, <1>4 DEF HandedOK

(* What is handed over is taken, from the state u; then the lemmas are stored. *)
TakesFrom(s, P, a, tps, Ls, u) ==
    LET h == Handed(a, tps, Ls)
        k == Len(h)
        f == Taken(u, h)
    IN  /\ k \in Nat /\ \A i \in 1 .. k : HandedOK(h[i], P, tps)
        /\ f[0] = [s |-> u, lemmas |-> <<>>] /\ \A i \in 1 .. k : f[i] = Take(f[i - 1], h[i])
        /\ \A i \in 0 .. k : /\ TakeOK(f[i], P) /\ ToSet(u.assumptions) \subseteq ToSet(f[i].s.assumptions)
                             /\ Onward(u, f[i].s)
        /\ TheoryRound(s, a, tps, Ls) =
             IF f[k].lemmas = <<>> THEN [s |-> f[k].s, conflict |-> NoConflict] ELSE StoreLemmas(f[k].s, f[k].lemmas)

LEMMA TheoryRun ==
  ASSUME NEW s, NEW P, P \subseteq Lit, \A l \in P : Assigned(s, l) /\ VarOf(l) \in s.known,
         NEW a \in Answers(P), NEW n, NEW tps \in Propagations(P, n), NEW m, NEW Ls \in Lemmas(m),
         NEW u, Sound(u), Asked(s, u, a.answer, a.model),
         u.trail = s.trail, u.known = s.known, u.assumptions = s.assumptions
  PROVE  TakesFrom(s, P, a, tps, Ls, u)
  <1> USE DEF Asked
  <1> DEFINE h == Handed(a, tps, Ls)
             f == Taken(u, h)
             k == Len(h)
             T == {i \in 0 .. k : /\ TakeOK(f[i], P) /\ ToSet(u.assumptions) \subseteq ToSet(f[i].s.assumptions)
                                   /\ Onward(u, f[i].s)}
  <1>1. k \in Nat /\ \A i \in 1 .. k : HandedOK(h[i], P, tps)
    BY HandedIs
  <1>2. f[0] = [s |-> u, lemmas |-> <<>>] /\ \A i \in 1 .. k : f[i] = Take(f[i - 1], h[i])
    <2> HIDE DEF h
    <2> QED BY <1>1, TakenSteps
  <1>3. TheoryRound(s, a, tps, Ls) =
          IF f[k].lemmas = <<>> THEN [s |-> f[k].s, conflict |-> NoConflict] ELSE StoreLemmas(f[k].s, f[k].lemmas)
    BY DEF TheoryRound
  <1> HIDE DEF h, f, k
  <1>4. 0 \in T
    <2>1. ClausesOf(<<>>, u.known)
      BY DEF ClausesOf
    <2>2. \A l \in P : Assigned(u, l) /\ VarOf(l) \in u.known
      BY SameTrail
    <2>3. TakeOK([s |-> u, lemmas |-> <<>>], P)
      BY <2>1, <2>2 DEF TakeOK
    <2>4. f[0] = [s |-> u, lemmas |-> <<>>] /\ f[0].s = u
      BY <1>2
    <2>5. TakeOK(f[0], P) /\ ToSet(u.assumptions) \subseteq ToSet(f[0].s.assumptions)
      BY <2>3, <2>4
    <2>6. 0 \in 0 .. k
      BY <1>1
    <2>7. Onward(u, u)
      BY GrowsBy DEF Unmoving
    <2> QED BY <2>4, <2>5, <2>6, <2>7
  <1>5. \A i \in 0 .. k - 1 : i \in T => i + 1 \in T
    <2>1. SUFFICES ASSUME NEW i \in 0 .. k - 1, i \in T PROVE i + 1 \in T
      OBVIOUS
    <2>2. i + 1 \in 1 .. k /\ (i + 1) - 1 = i /\ i + 1 \in 0 .. k
      BY <1>1
    <2>3. f[i + 1] = Take(f[i], h[i + 1]) /\ HandedOK(h[i + 1], P, tps)
      BY <1>1, <1>2, <2>2
    <2>4. TakeOK(f[i], P) /\ ToSet(u.assumptions) \subseteq ToSet(f[i].s.assumptions) /\ Onward(u, f[i].s)
      BY <2>1
    <2>5. TakeOK(f[i + 1], P) /\ ToSet(f[i].s.assumptions) \subseteq ToSet(f[i + 1].s.assumptions)
          /\ Onward(f[i].s, f[i + 1].s)
      BY <2>3, <2>4, TakeIs
    <2>6. Onward(u, f[i + 1].s)
      <3>1. Sound(f[i].s) /\ Sound(f[i + 1].s)
        BY <2>4, <2>5 DEF TakeOK
      <3> QED BY <2>4, <2>5, <3>1, OnwardOn
    <2> QED BY <2>2, <2>4, <2>5, <2>6
  <1>6. \A i \in 0 .. k : i \in T
    <2> HIDE DEF T
    <2> QED BY <1>1, <1>4, <1>5, NumbersTo
  <1> QED BY <1>1, <1>2, <1>3, <1>6 DEF TakesFrom, f, k, h

LEMMA TheoryRoundIs ==
  ASSUME NEW s, NEW P, P \subseteq Lit, \A l \in P : Assigned(s, l) /\ VarOf(l) \in s.known,
         NEW a \in Answers(P), NEW n, NEW tps \in Propagations(P, n), NEW m, NEW Ls \in Lemmas(m),
         NEW u, Sound(u), Asked(s, u, a.answer, a.model),
         u.trail = s.trail, u.known = s.known, u.assumptions = s.assumptions,
         NEW t, t = TheoryRound(s, a, tps, Ls)
  PROVE  StoreOK(t) /\ ToSet(s.assumptions) \subseteq ToSet(t.s.assumptions) /\ Carries(u, t)
  <1> DEFINE h == Handed(a, tps, Ls)
             f == Taken(u, h)
             k == Len(h)
  <1>1. TakesFrom(s, P, a, tps, Ls, u)
    BY TheoryRun
  <1>2. k \in Nat /\ k \in 0 .. k
    BY <1>1 DEF TakesFrom
  <1>3. t = IF f[k].lemmas = <<>> THEN [s |-> f[k].s, conflict |-> NoConflict] ELSE StoreLemmas(f[k].s, f[k].lemmas)
    BY <1>1 DEF TakesFrom
  <1>6. TakeOK(f[k], P) /\ ToSet(u.assumptions) \subseteq ToSet(f[k].s.assumptions) /\ Onward(u, f[k].s)
    BY <1>1, <1>2 DEF TakesFrom
  <1> HIDE DEF h, f, k
  <1>7. Sound(f[k].s) /\ f[k].lemmas \in Seq(SUBSET Lit)
        /\ \A i \in DOMAIN f[k].lemmas : Within(f[k].lemmas[i], f[k].s.known)
    BY <1>6 DEF TakeOK, ClausesOf
  <1>10. /\ f[k].s.excluded = u.excluded /\ f[k].s.model = u.model
         /\ SettledBelow(u) => SettledBelow(f[k].s)
         /\ SettledSeen(u, {}) => SettledSeen(f[k].s, {})
    <2>1. Onward(u, f[k].s) /\ Follows(u, f[k].s)
      BY <1>6 DEF Onward
    <2>2. f[k].s.excluded = u.excluded /\ f[k].s.model = u.model
      BY ONLY <2>1 DEF Follows, Grows
    <2>3. Sound(f[k].s) /\ Sound(u)
      BY <1>7
    <2> QED BY ONLY <2>1, <2>2, <2>3, SettledOn
  <1>8. CASE f[k].lemmas = <<>>
    <2>1. StoreOK([s |-> f[k].s, conflict |-> NoConflict])
      BY <1>7 DEF StoreOK
    <2>2. Carries(u, [s |-> f[k].s, conflict |-> NoConflict])
      BY <1>10 DEF Carries
    <2> QED BY <1>3, <1>6, <1>8, <2>1, <2>2
  <1>9. CASE f[k].lemmas # <<>>
    <2>1. t = StoreLemmas(f[k].s, f[k].lemmas)
      BY <1>3, <1>9
    <2>2. StoreOK(t) /\ ToSet(f[k].s.assumptions) \subseteq ToSet(t.s.assumptions) /\ Carries(f[k].s, t)
      BY <1>7, <2>1, StoreLemmasIs
    <2>3. Carries(u, t)
      BY <1>10, <2>2 DEF Carries
    <2> QED BY <1>6, <2>2, <2>3
  <1> QED BY <1>8, <1>9

-----------------------------------------------------------------------------
(* Explanations.                                                           *)

(* Reasons may differ, and where explanations are.                         *)
AsBefore(s, t) ==
    /\ t.level = s.level /\ t.qhead = s.qhead /\ t.known = s.known /\ t.assumptions = s.assumptions
    /\ t.excluded = s.excluded /\ t.model = s.model
    /\ DOMAIN t.trail = DOMAIN s.trail
    /\ \A i \in DOMAIN s.trail : t.trail[i].lit = s.trail[i].lit /\ t.trail[i].level = s.trail[i].level

LEMMA AsBeforeIs ==
  ASSUME NEW s, NEW t, AsBefore(s, t)
  PROVE  /\ \A k : IsTrue(t, k) <=> IsTrue(s, k)
         /\ \A k : FixedTrue(t, k) <=> FixedTrue(s, k)
         /\ \A k : Assigned(t, k) <=> Assigned(s, k)
         /\ \A u : AsBefore(t, u) => AsBefore(s, u)
         /\ Grows(s, t)
  <1>1. \A k : (IsTrue(t, k) <=> IsTrue(s, k)) /\ (FixedTrue(t, k) <=> FixedTrue(s, k))
    BY TrueIs DEF AsBefore
  <1>2. \A k : Assigned(t, k) <=> Assigned(s, k)
    BY DEF AsBefore, Assigned
  <1>3. \A u : AsBefore(t, u) => AsBefore(s, u)
    BY DEF AsBefore
  <1>4. Grows(s, t)
    BY DEF AsBefore, Grows
  <1> QED BY <1>1, <1>2, <1>3, <1>4

(* A literal that was implied is the first of its explanation.             *)
LEMMA ImpliedFirst ==
  ASSUME NEW s, s \in State, Ordered(s), NEW i \in DOMAIN s.trail, NEW x, x = s.trail[i].lit,
         NEW C, C \subseteq s.trail[i].reason \cup {x}, x \in C
  PROVE  First(s, C) = x
  <1>1. /\ s.trail \in Seq(Entry) /\ DOMAIN s.trail \subseteq Int /\ x \in Lit /\ C \subseteq Lit
        /\ Once(s) /\ C # {}
    BY Fields DEF Ordered
  <1> DEFINE y == First(s, C)
  <1>2. y \in C /\ \A z \in C \ {y} : lemma_lt(s, y, z)
    BY <1>1, FirstExists
  <1> SUFFICES ASSUME y # x PROVE FALSE
    OBVIOUS
  <1>3. lemma_lt(s, y, x) /\ y \in s.trail[i].reason \ {x} /\ y \in Lit
    BY <1>1, <1>2
  <1> HIDE DEF y
  <1>4. PICK j \in 1 .. i - 1 : VarOf(s.trail[j].lit) = VarOf(y)
    BY <1>3 DEF Ordered, ReasonsEarlier, AssignedBefore
  <1>5. j \in DOMAIN s.trail /\ j < i
    BY <1>1, <1>4, Fields
  <1>6. Index(s, x) = i /\ Index(s, y) = j
    BY <1>1, <1>4, <1>5, IndexIs
  <1>7. IsTrue(s, x) /\ ~Unassigned(s, x) /\ ~Unassigned(s, y)
    <2>1. IsTrue(s, x)
      BY TrueIs
    <2>2. Assigned(s, y)
      BY <1>4, <1>5 DEF Assigned
    <2> QED BY <1>1, <1>3, <2>1, <2>2, Values DEF Unassigned
  <1>8. Rank(s, x) = 1 /\ Rank(s, y) \in {1, 2}
    BY <1>7 DEF Rank
  <1>9. Rank(s, y) = 1 /\ Index(s, y) > Index(s, x)
    BY <1>3, <1>8 DEF lemma_lt
  <1> QED BY <1>1, <1>5, <1>6, <1>9

(* Other members leave ok alone.                                           *)
LEMMA OkKept ==
  ASSUME NEW s \in State
  PROVE  /\ Adapt(s).ok = s.ok
         /\ \A C, isLemma : CreateLiterals(s, C, isLemma).ok = s.ok
         /\ \A p : RemovePropagation(s, p).ok = s.ok /\ RemovePropagation(s, p).watch = s.watch
  BY DEF State, Adapt, CreateLiterals, RemovePropagation

(* The explanation of entry i has become its reason.                       *)
NowExplained(s, t, i, C) ==
    /\ C = {s.trail[i].lit} \cup AboveZero(s, s.trail[i].reason \ {s.trail[i].lit})
    /\ s.trail[i].pos # 0 /\ t.ok = s.ok /\ DOMAIN t.watch \subseteq DOMAIN s.watch \cup {C}
    /\ t.trail[i].reason = C /\ t.trail[i].first = s.trail[i].first /\ t.trail[i].pos = 0
    /\ \A j \in DOMAIN s.trail \ {i} : Same(t.trail[j], s.trail[j])

LEMMA ExplainIs ==
  ASSUME NEW s, Sound(s), NEW i \in DOMAIN s.trail, NEW l, l = s.trail[i].lit, NEW t, t = Explain(s, l)
  PROVE  Sound(t) /\ AsBefore(s, t) /\ Onward(s, t) /\ (t = s \/ \E C : NowExplained(s, t, i, C))
  <1> DEFINE e == s.trail[i]
             C == {l} \cup AboveZero(s, e.reason \ {l})
             L == s.learnts \cup {C}
             y == Second(s, C)
             a == IF IsLiteral(C) THEN s ELSE Attach([s EXCEPT !.learnts = L], C, {l, y})
             r == RemovePropagation(a, e.pos)
  <1>1. Index(s, l) = i
    <2>1. s.trail \in Seq(Entry) /\ Once(s)
      BY Fields DEF Sound, Ordered
    <2>2. VarOf(s.trail[i].lit) = VarOf(l)
      BY ONLY l = s.trail[i].lit, Zenon
    <2> QED BY ONLY <2>1, <2>2, i \in DOMAIN s.trail, IndexIs, Zenon
  <1>2. t = IF e.pos = 0 THEN s ELSE [r EXCEPT !.trail[i].pos = 0, !.trail[i].reason = C]
    <2> DEFINE c(j, k) == {k} \cup AboveZero(s, s.trail[j].reason \ {k})
               b(j, k) == IF IsLiteral(c(j, k)) THEN s
                          ELSE Attach([s EXCEPT !.learnts = s.learnts \cup {c(j, k)}], c(j, k),
                                      {k, Second(s, c(j, k))})
               f(j, k) == IF s.trail[j].pos = 0 THEN s
                          ELSE [RemovePropagation(b(j, k), s.trail[j].pos) EXCEPT
                                   !.trail[j].pos = 0, !.trail[j].reason = c(j, k)]
    <2>1. t = f(Index(s, l), s.trail[Index(s, l)].lit)
      BY ONLY t = Explain(s, l), Zenon DEF Explain
    <2> HIDE DEF f
    <2>2. t = f(i, l)
      BY ONLY <1>1, <2>1, l = s.trail[i].lit, Zenon
    <2> QED BY ONLY <2>2, Zenon DEF f
  <1>3. e \in Entry /\ e.reason \subseteq Lit /\ l \in Lit /\ e.pos \in Nat /\ s \in State
    <2>1. s \in State
      BY DEF Sound
    <2> QED BY ONLY <2>1, l = s.trail[i].lit, i \in DOMAIN s.trail, Fields
  <1>4. C \subseteq Lit /\ C \subseteq e.reason \cup {l} /\ l \in C
    BY <1>3 DEF AboveZero
  <1>9. C = {s.trail[i].lit} \cup AboveZero(s, s.trail[i].reason \ {s.trail[i].lit})
    OBVIOUS
  <1> HIDE DEF C
  <1>5. Within(C, s.known)
    <2>1. \A k \in e.reason \ {l} : AssignedBefore(s, i, k)
      BY DEF Sound, Ordered, ReasonsEarlier
    <2>2. ASSUME NEW k \in C PROVE \E j \in DOMAIN s.trail : VarOf(s.trail[j].lit) = VarOf(k)
      <3>1. CASE k = l
        BY <3>1
      <3>2. CASE k # l
        BY <1>3, <1>4, <2>1, <3>2, Fields DEF AssignedBefore
      <3> QED BY <3>1, <3>2
    <2> QED BY <2>2 DEF Sound, KnownFirst, Within
  <1>6. /\ Sound(a) /\ a.trail = s.trail /\ a.level = s.level /\ a.qhead = s.qhead /\ a.known = s.known
        /\ a.assumptions = s.assumptions /\ a.excluded = s.excluded /\ a.model = s.model
        /\ a.ok = s.ok /\ DOMAIN a.watch \subseteq DOMAIN s.watch \cup {C}
        /\ a.watch = s.watch \/ AlsoWatching(s, a, C, {l, y})
    <2>1. CASE IsLiteral(C)
      BY <2>1
    <2>2. CASE ~IsLiteral(C)
      <3>1. First(s, C) = l
        BY <1>3, <1>4, ImpliedFirst DEF Sound
      <3>2. y \in C /\ y # l
        <4>1. s.trail \in Seq(Entry) /\ Once(s)
          BY Fields DEF Sound, Ordered
        <4> QED BY <1>3, <1>4, <2>2, <3>1, <4>1, FirstAndSecond
      <3>3. Sound(a) /\ Attached(s, a, C) /\ AlsoWatching(s, a, C, {l, y})
        <4>1. a = Attach([s EXCEPT !.learnts = L], C, {l, y}) /\ L \subseteq s.learnts \cup {C}
          BY <2>2
        <4> HIDE DEF a, L, y
        <4>2. Sound(a) /\ Attached(s, a, C)
          BY <1>4, <1>5, <3>2, <4>1, AttachIs
        <4>3. Attaches(s, a, L, C, {l, y})
          BY ONLY <4>1 DEF Attaches
        <4>4. AlsoWatching(s, a, C, {l, y})
          BY ONLY <1>3, <4>3, AttachWatches
        <4> QED BY <4>2, <4>4
      <3> HIDE DEF a, y
      <3> QED BY <3>3 DEF Attached
    <2> QED BY <2>1, <2>2
  <1> HIDE DEF a, y
  <1>7. CASE e.pos = 0
    <2>1. t = s /\ Unmoving(s, t)
      BY <1>2, <1>7 DEF Unmoving
    <2> QED BY <2>1, GrowsBy DEF AsBefore
  <1>8. CASE e.pos # 0
    <2>1. r \in State /\ Fixed(a, r) /\ Removed(a, r, i)
      <3>1. a \in State /\ Once(a) /\ Placed(a) /\ i \in DOMAIN a.trail /\ e.pos = a.trail[i].pos
        BY <1>6 DEF Sound, Ordered
      <3> HIDE DEF e
      <3> QED BY <1>8, <3>1, RemovePropagationIs
    <2> HIDE DEF r
    <2> DEFINE d == [r.trail[i] EXCEPT !.pos = 0, !.reason = C]
               q == [r.trail EXCEPT ![i] = d]
    <2>2. i \in DOMAIN r.trail /\ DOMAIN r.trail = DOMAIN s.trail /\ r.trail \in Seq(Entry) /\ r.trail[i] \in Entry
      BY <1>6, <2>1, Fields DEF Removed
    <2>3. d \in Entry /\ d.lit = l /\ d.level = e.level /\ d.pos = 0 /\ d.reason = C /\ d.first = e.first
      <3>1. r.trail[i].lit = l /\ r.trail[i].level = e.level /\ r.trail[i].first = e.first /\ C \subseteq Lit
        BY <1>4, <1>6, <2>1, <2>2 DEF Removed, Same
      <3> HIDE DEF e, C
      <3> QED BY ONLY <2>2, <3>1 DEF Entry
    <2>4. t = [r EXCEPT !.trail = q]
      <3>1. t = [r EXCEPT !.trail[i].pos = 0, !.trail[i].reason = C]
        BY <1>2, <1>8
      <3> QED BY ONLY <2>1, <2>2, <3>1 DEF State, Entry
    <2> HIDE DEF d
    <2>5. /\ q \in Seq(Entry) /\ DOMAIN q = DOMAIN s.trail /\ q[i] = d /\ Len(q) = Len(s.trail)
          /\ \A j \in DOMAIN s.trail \ {i} : q[j] = r.trail[j]
      <3>1. Len(r.trail) = Len(s.trail)
        BY <1>3, <2>1, <2>2, Fields
      <3> QED BY ONLY <2>2, <2>3, <3>1
    <2> HIDE DEF q
    <2>6. /\ t \in State /\ t.trail = q /\ t.level = r.level /\ t.qhead = r.qhead /\ t.info = r.info
          /\ t.changed = r.changed /\ t.props = r.props /\ Fixed(r, t)
          /\ t.excluded = r.excluded /\ t.model = r.model /\ t.ok = r.ok
      BY ONLY <2>1, <2>4, <2>5 DEF State, Fixed
    <2>7. \A j \in DOMAIN s.trail : q[j].lit = s.trail[j].lit /\ q[j].level = s.trail[j].level
      BY <1>6, <2>1, <2>3, <2>5 DEF Removed, Same
    <2>8. /\ t.level = s.level /\ t.qhead = s.qhead /\ t.known = s.known /\ t.assumptions = s.assumptions
          /\ t.info = a.info /\ t.changed = a.changed /\ t.watch = a.watch /\ t.learnts = a.learnts
          /\ t.relevant = a.relevant /\ t.passed = a.passed /\ t.changedPassed = a.changedPassed
          /\ t.excluded = s.excluded /\ t.model = s.model
      BY <1>6, <2>1, <2>6 DEF Removed, Fixed
    <2>9. AsBefore(s, t) /\ AsBefore(a, t)
      BY <1>6, <2>5, <2>6, <2>7, <2>8 DEF AsBefore
    <2>10. Ordered(t) /\ QueueFresh(t)
      <3>1. Once(t)
        BY <2>5, <2>6, <2>7 DEF Sound, Ordered, Once
      <3>2. LevelsRise(t)
        BY <2>5, <2>6, <2>7, <2>8 DEF Sound, Ordered, LevelsRise
      <3>3. ASSUME NEW j \in DOMAIN s.trail PROVE q[j].reason \subseteq s.trail[j].reason \cup {s.trail[j].lit}
        <4>1. CASE j = i
          BY <1>4, <2>3, <2>5, <4>1
        <4>2. CASE j # i
          BY <1>6, <2>1, <2>5, <4>2 DEF Removed, Same
        <4> QED BY <4>1, <4>2
      <3>4. ASSUME NEW j \in DOMAIN s.trail, NEW k, AssignedBefore(s, j, k) PROVE AssignedBefore(t, j, k)
        <4>1. PICK m \in 1 .. j - 1 : VarOf(s.trail[m].lit) = VarOf(k)
          BY <3>4 DEF AssignedBefore
        <4>2. m \in DOMAIN s.trail
          BY <1>3, <4>1, Fields
        <4> QED BY <2>6, <2>7, <4>1, <4>2 DEF AssignedBefore
      <3>5. ReasonsEarlier(t)
        BY <2>5, <2>6, <2>7, <3>3, <3>4 DEF Sound, Ordered, ReasonsEarlier
      <3>6. QueueFresh(t)
        BY <2>5, <2>6, <2>7, <2>8 DEF Sound, QueueFresh
      <3> QED BY <3>1, <3>2, <3>5, <3>6 DEF Ordered
    <2>11. KnownFirst(t) /\ WatchesTwo(t)
      <3>1. KnownFirst(a) /\ WatchesTwo(a)
        BY <1>6 DEF Sound
      <3>2. DOMAIN t.info = DOMAIN a.info /\ DOMAIN t.watch = DOMAIN a.watch /\ t.known = a.known
            /\ t.assumptions = a.assumptions
        BY <1>6, <2>8
      <3>3. WatchesTwo(t)
        BY <2>8, <3>1 DEF WatchesTwo
      <3>4. \A j \in DOMAIN t.trail : VarOf(t.trail[j].lit) \in t.known
        BY <2>9, <3>1, <3>2 DEF KnownFirst, AsBefore
      <3> QED BY ONLY <3>1, <3>2, <3>3, <3>4 DEF KnownFirst
    <2>12. Counted(t)
      <3>1. Counted(a)
        BY <1>6 DEF Sound
      <3>2. \A k : (IsTrue(t, k) <=> IsTrue(a, k)) /\ (FixedTrue(t, k) <=> FixedTrue(a, k))
        BY <2>9, AsBeforeIs
      <3>3. \A k : Due(t, k) = Due(a, k)
        BY <2>8, <3>2 DEF Due
      <3> QED BY <2>8, <3>1, <3>2, <3>3 DEF Counted
    <2>13. Placed(t)
      <3>1. /\ \A j \in DOMAIN s.trail \ {i} : r.trail[j].pos # 0 =>
                  r.trail[j].pos \in DOMAIN r.props /\ r.props[r.trail[j].pos].conclusion = r.trail[j].lit
            /\ \A k \in DOMAIN r.props : k > 1 => \E j \in DOMAIN s.trail \ {i} : r.trail[j].pos = k
        BY <1>6, <2>1 DEF Removed
      <3>2. q[i].pos = 0 /\ \A j \in DOMAIN s.trail \ {i} : q[j] = r.trail[j]
        BY <2>3, <2>5
      <3>3. t.trail = q /\ t.props = r.props /\ DOMAIN q = DOMAIN s.trail
        BY <2>5, <2>6
      <3> QED BY ONLY <3>1, <3>2, <3>3 DEF Placed
    <2>14. Onward(s, t)
      <3>1. Grows(s, t)
        BY <2>9, AsBeforeIs
      <3>2. CASE a.watch = s.watch
        BY <2>8, <3>1, <3>2, GrowsBy
      <3>3. CASE AlsoWatching(s, a, C, {l, y})
        <4>1. AlsoWatching(s, t, C, {l, y})
          BY ONLY <2>8, <3>3 DEF AlsoWatching
        <4>2. t.trail \in Seq(Entry) /\ Once(t)
          BY <2>6, <2>10, Fields DEF Ordered
        <4>3. IsTrue(t, l)
          BY <2>3, <2>5, <2>6, TrueIs
        <4>4. ~IsFalse(t, l)
          BY ONLY <1>3, <4>2, <4>3, OneValue
        <4>5. l \in {l, y}
          OBVIOUS
        <4> QED BY ONLY <3>1, <4>1, <4>4, <4>5, AttachedOn
      <3> QED BY <1>6, <3>2, <3>3
    <2>15. NowExplained(s, t, i, C)
      <3>1. t.ok = s.ok
        <4>1. a \in State /\ r.ok = a.ok
          <5>1. a \in State
            BY <1>6 DEF Sound
          <5> QED BY <5>1, OkKept DEF r
        <4> QED BY <1>6, <2>6, <4>1
      <3>2. DOMAIN t.watch \subseteq DOMAIN s.watch \cup {C}
        BY <1>6, <2>8
      <3>3. t.trail[i].reason = C /\ t.trail[i].first = s.trail[i].first /\ t.trail[i].pos = 0
        BY <2>3, <2>5, <2>6
      <3>4. \A j \in DOMAIN s.trail \ {i} : Same(t.trail[j], s.trail[j])
        BY <1>6, <2>1, <2>5, <2>6 DEF Removed
      <3> QED BY ONLY <1>8, <1>9, <3>1, <3>2, <3>3, <3>4 DEF NowExplained
    <2> QED BY <2>6, <2>9, <2>10, <2>11, <2>12, <2>13, <2>14, <2>15 DEF Sound
  <1> QED BY <1>7, <1>8

(* Down the trail, the literals asked for are explained.                   *)
ExplainStep(s, L, l) == IF l \in L THEN Explain(s, l) ELSE s

LEMMA ExplainedSteps ==
  ASSUME NEW s, NEW L, NEW n \in Nat, n = Len(s.trail)
  PROVE  /\ Explained(s, L)[0] = s
         /\ \A k \in 1 .. n : Explained(s, L)[k] = ExplainStep(Explained(s, L)[k - 1], L, s.trail[n + 1 - k].lit)
  <1> DEFINE F(m, f) == f = [k \in 0 .. m |-> IF k = 0 THEN s ELSE ExplainStep(f[k - 1], L, s.trail[n + 1 - k].lit)]
             T == {m \in 0 .. n : \E f : F(m, f)}
  <1>1. 0 \in T
    <2>1. F(0, [k \in 0 .. 0 |-> IF k = 0 THEN s ELSE s])
      OBVIOUS
    <2> HIDE DEF F
    <2> QED BY <2>1
  <1>2. ASSUME NEW m \in 0 .. n - 1, m \in T PROVE m + 1 \in T
    <2>1. PICK f : F(m, f)
      BY <1>2
    <2> DEFINE g == [i \in 0 .. m + 1 |-> IF i = m + 1 THEN ExplainStep(f[m], L, s.trail[n + 1 - (m + 1)].lit) ELSE f[i]]
    <2>2. ASSUME NEW i \in 0 .. m + 1 PROVE g[i] = IF i = 0 THEN s ELSE ExplainStep(g[i - 1], L, s.trail[n + 1 - i].lit)
      <3>1. CASE i = m + 1
        BY <3>1
      <3>2. CASE i # m + 1
        <4>1. i \in 0 .. m /\ (i # 0 => i - 1 \in 0 .. m)
          BY <3>2
        <4>2. f[i] = IF i = 0 THEN s ELSE ExplainStep(f[i - 1], L, s.trail[n + 1 - i].lit)
          BY <2>1, <4>1
        <4> QED BY <3>2, <4>1, <4>2
      <3> QED BY <3>1, <3>2
    <2>3. F(m + 1, g)
      BY <2>2
    <2> HIDE DEF F, g
    <2> QED BY <2>3
  <1>3. n \in T
    <2> HIDE DEF T
    <2> QED BY ONLY n \in Nat, <1>1, <1>2, NumbersTo
  <1> DEFINE g == Explained(s, L)
  <1>4. g = CHOOSE f : F(n, f)
    BY ONLY n = Len(s.trail) DEF Explained, ExplainStep
  <1>5. F(n, g)
    <2> HIDE DEF F, g
    <2> QED BY <1>3, <1>4
  <1>6. \A k \in 0 .. n : g[k] = IF k = 0 THEN s ELSE ExplainStep(g[k - 1], L, s.trail[n + 1 - k].lit)
    <2> HIDE DEF g
    <2> QED BY <1>5
  <1> HIDE DEF F, T, g
  <1>7. /\ g[0] = s
        /\ \A k \in 1 .. n : g[k] = ExplainStep(g[k - 1], L, s.trail[n + 1 - k].lit)
    BY ONLY <1>6, n \in Nat
  <1> QED BY <1>7 DEF g

LEMMA ExplainAllIs ==
  ASSUME NEW s, Sound(s), NEW L, NEW t, t = ExplainAll(s, L)
  PROVE  Sound(t) /\ AsBefore(s, t) /\ Onward(s, t)
  <1> DEFINE n == Len(s.trail)
             f == Explained(s, L)
             T == {k \in 0 .. n : Sound(f[k]) /\ AsBefore(s, f[k]) /\ Onward(s, f[k])}
  <1>1. n \in Nat /\ DOMAIN s.trail = 1 .. n
    BY Fields DEF Sound
  <1>2. /\ f[0] = s /\ t = f[n]
        /\ \A k \in 1 .. n : f[k] = ExplainStep(f[k - 1], L, s.trail[n + 1 - k].lit)
    BY <1>1, ExplainedSteps DEF ExplainAll
  <1> HIDE DEF n, f
  <1>3. 0 \in T
    <2>1. AsBefore(s, s) /\ Onward(s, s)
      BY GrowsBy DEF AsBefore, Unmoving
    <2> QED BY <1>1, <1>2, <2>1
  <1>4. \A k \in 0 .. n - 1 : k \in T => k + 1 \in T
    <2>1. SUFFICES ASSUME NEW k \in 0 .. n - 1, Sound(f[k]), AsBefore(s, f[k]), Onward(s, f[k])
                   PROVE  Sound(f[k + 1]) /\ AsBefore(s, f[k + 1]) /\ Onward(s, f[k + 1])
      BY <1>1
    <2> DEFINE i == n - k
               l == s.trail[i].lit
    <2>2. i \in DOMAIN s.trail /\ k + 1 \in 1 .. n /\ n + 1 - (k + 1) = i /\ (k + 1) - 1 = k
      BY <1>1
    <2>3. f[k + 1] = IF l \in L THEN Explain(f[k], l) ELSE f[k]
      BY <1>2, <2>2 DEF ExplainStep
    <2>4. i \in DOMAIN f[k].trail /\ l = f[k].trail[i].lit
      BY <2>1, <2>2 DEF AsBefore
    <2> HIDE DEF l, i
    <2>5. CASE l \in L
      <3>1. Sound(f[k + 1]) /\ AsBefore(f[k], f[k + 1]) /\ Onward(f[k], f[k + 1])
        BY <2>1, <2>3, <2>4, <2>5, ExplainIs
      <3>2. Onward(s, f[k + 1])
        BY <2>1, <3>1, OnwardOn
      <3> QED BY <2>1, <3>1, <3>2, AsBeforeIs
    <2>6. CASE l \notin L
      BY <2>1, <2>3, <2>6
    <2> QED BY <2>5, <2>6
  <1>5. n \in T
    <2> HIDE DEF T
    <2>1. 0 .. n \subseteq T
      BY <1>1, <1>3, <1>4, NumbersTo
    <2> QED BY <1>1, <2>1
  <1> QED BY <1>2, <1>5

-----------------------------------------------------------------------------
(* Conflicts.                                                              *)

(* Down the trail, variables of the current level are resolved.            *)
AnalyzeStep(s, r, e) ==
    IF VarOf(e.lit) \notin r.open \/ r.open = {VarOf(e.lit)} THEN r
    ELSE Look(s, [r EXCEPT !.open = @ \ {VarOf(e.lit)}, !.steps = @ + 1, !.seen = @ \cup {e.lit}],
              e.reason \ {e.lit})
NothingSeen == [open |-> {}, lower |-> {}, steps |-> 0, seen |-> {}]

LEMMA AnalyzedSteps ==
  ASSUME NEW s, NEW C, NEW n \in Nat, n = Len(s.trail)
  PROVE  /\ Analyzed(s, C)[0] = Look(s, NothingSeen, C)
         /\ \A k \in 1 .. n : Analyzed(s, C)[k] = AnalyzeStep(s, Analyzed(s, C)[k - 1], s.trail[n + 1 - k])
  <1> DEFINE F(m, f) == f = [k \in 0 .. m |-> IF k = 0 THEN Look(s, NothingSeen, C) ELSE AnalyzeStep(s, f[k - 1], s.trail[n + 1 - k])]
             T == {m \in 0 .. n : \E f : F(m, f)}
  <1>1. 0 \in T
    <2>1. F(0, [k \in 0 .. 0 |-> IF k = 0 THEN Look(s, NothingSeen, C) ELSE Look(s, NothingSeen, C)])
      OBVIOUS
    <2> HIDE DEF F
    <2> QED BY <2>1
  <1>2. ASSUME NEW m \in 0 .. n - 1, m \in T PROVE m + 1 \in T
    <2>1. PICK f : F(m, f)
      BY <1>2
    <2> DEFINE g == [i \in 0 .. m + 1 |-> IF i = m + 1 THEN AnalyzeStep(s, f[m], s.trail[n + 1 - (m + 1)]) ELSE f[i]]
    <2>2. ASSUME NEW i \in 0 .. m + 1 PROVE g[i] = IF i = 0 THEN Look(s, NothingSeen, C) ELSE AnalyzeStep(s, g[i - 1], s.trail[n + 1 - i])
      <3>1. CASE i = m + 1
        BY <3>1
      <3>2. CASE i # m + 1
        <4>1. i \in 0 .. m /\ (i # 0 => i - 1 \in 0 .. m)
          BY <3>2
        <4>2. f[i] = IF i = 0 THEN Look(s, NothingSeen, C) ELSE AnalyzeStep(s, f[i - 1], s.trail[n + 1 - i])
          BY <2>1, <4>1
        <4> QED BY <3>2, <4>1, <4>2
      <3> QED BY <3>1, <3>2
    <2>3. F(m + 1, g)
      BY <2>2
    <2> HIDE DEF F, g
    <2> QED BY <2>3
  <1>3. n \in T
    <2> HIDE DEF T
    <2> QED BY ONLY n \in Nat, <1>1, <1>2, NumbersTo
  <1> DEFINE g == Analyzed(s, C)
  <1>4. g = CHOOSE f : F(n, f)
    BY ONLY n = Len(s.trail) DEF Analyzed, AnalyzeStep, NothingSeen
  <1>5. F(n, g)
    <2> HIDE DEF F, g
    <2> QED BY <1>3, <1>4
  <1>6. \A k \in 0 .. n : g[k] = IF k = 0 THEN Look(s, NothingSeen, C) ELSE AnalyzeStep(s, g[k - 1], s.trail[n + 1 - k])
    <2> HIDE DEF g
    <2> QED BY <1>5
  <1> HIDE DEF F, T, g
  <1>7. /\ g[0] = Look(s, NothingSeen, C)
        /\ \A k \in 1 .. n : g[k] = AnalyzeStep(s, g[k - 1], s.trail[n + 1 - k])
    BY ONLY <1>6, n \in Nat
  <1> QED BY <1>7 DEF g

(* What is yet to be resolved is of the current level, what is to be       *)
(* learnt of lower ones.                                                   *)
OpenNow(s, v) == \E j \in DOMAIN s.trail : VarOf(s.trail[j].lit) = v /\ s.trail[j].level = s.level
Below(s, l) == \E j \in DOMAIN s.trail : VarOf(s.trail[j].lit) = VarOf(l) /\ s.trail[j].level < s.level
Resolvent == [open : SUBSET Var, lower : SUBSET Lit, steps : Nat, seen : SUBSET Lit]
Resolving(s, r) == r \in Resolvent /\ (\A v \in r.open : OpenNow(s, v)) /\ \A l \in r.lower : Below(s, l)

LEMMA LookIs ==
  ASSUME NEW s, Sound(s), NEW r, Resolving(s, r), NEW C, C \subseteq Lit, \A l \in C : Assigned(s, l),
         NEW t, t = Look(s, r, C)
  PROVE  /\ Resolving(s, t) /\ r.open \subseteq t.open
         /\ \A l \in C : Level(s, l) = s.level /\ Level(s, l) > 0 /\ r.lower = {} => VarOf(l) \in t.open
  <1> DEFINE new == {l \in AboveZero(s, C) : VarOf(l) \notin r.open /\ ~\E k \in r.lower : VarOf(k) = VarOf(l)}
             current == {l \in new : Level(s, l) = s.level}
             a == r.open \cup {VarOf(l) : l \in current}
             b == r.lower \cup (new \ current)
  <1>1. t = [r EXCEPT !.open = a, !.lower = b]
    BY DEF Look
  <1>2. ASSUME NEW l \in C
        PROVE  l \in Lit /\ VarOf(l) \in Var
               /\ \E j \in DOMAIN s.trail : /\ VarOf(s.trail[j].lit) = VarOf(l) /\ s.trail[j].level = Level(s, l)
                                            /\ s.trail[j].level <= s.level /\ s.trail[j].level \in Nat
    <2>1. PICK j \in DOMAIN s.trail : VarOf(s.trail[j].lit) = VarOf(l)
      BY DEF Assigned
    <2>2. Level(s, l) = s.trail[j].level
      BY <2>1, IndexIs DEF Sound, Ordered
    <2>3. s.trail[j].level <= s.level /\ s.trail[j].level \in Nat
      BY Fields DEF Sound, Ordered, LevelsRise
    <2> QED BY <2>1, <2>2, <2>3, Literals
  <1>3. new \subseteq C
    BY DEF AboveZero
  <1>4. ASSUME NEW l \in current PROVE VarOf(l) \in Var /\ OpenNow(s, VarOf(l))
    BY <1>2, <1>3 DEF OpenNow
  <1>5. ASSUME NEW l \in new \ current PROVE l \in Lit /\ Below(s, l)
    <2>1. s.level \in Nat
      BY Fields DEF Sound
    <2> QED BY <1>2, <1>3, <2>1 DEF Below
  <1>6. ASSUME NEW l \in C, Level(s, l) = s.level, Level(s, l) > 0, r.lower = {} PROVE VarOf(l) \in a
    BY <1>6 DEF AboveZero
  <1> HIDE DEF new, current
  <1>7. a \subseteq Var /\ \A v \in a : OpenNow(s, v)
    BY <1>4 DEF Resolving, Resolvent
  <1>8. b \subseteq Lit /\ \A l \in b : Below(s, l)
    BY <1>5 DEF Resolving, Resolvent
  <1>9. r \in Resolvent /\ r.open \subseteq a
    BY DEF Resolving
  <1> HIDE DEF a, b
  <1>10. t \in Resolvent /\ t.open = a /\ t.lower = b
    BY ONLY <1>1, <1>7, <1>8, <1>9 DEF Resolvent
  <1> QED BY <1>6, <1>7, <1>8, <1>9, <1>10 DEF Resolving

ResolvedOne(q, r, o, l) == q = [r EXCEPT !.open = o, !.steps = @ + 1, !.seen = @ \cup {l}]

LEMMA OneResolved ==
  ASSUME NEW r \in Resolvent, NEW o \in SUBSET Var, NEW l \in Lit, NEW q, ResolvedOne(q, r, o, l)
  PROVE  q \in Resolvent /\ q.open = o /\ q.lower = r.lower /\ q.steps = r.steps + 1
  <1>1. r.steps + 1 \in Nat /\ r.seen \cup {l} \in SUBSET Lit
    BY DEF Resolvent
  <1> DEFINE n == r.steps + 1
             m == r.seen \cup {l}
  <1>2. q = [r EXCEPT !.open = o, !.steps = n, !.seen = m]
    BY DEF ResolvedOne
  <1> HIDE DEF n, m
  <1> QED BY <1>1, <1>2 DEF Resolvent, n, m

LEMMA AnalyzedIs ==
  ASSUME NEW s, Sound(s), s.level > 0, NEW C, C \subseteq Lit, \A l \in C : Assigned(s, l), OfNow(s, C),
         NEW r, r = Analyzed(s, C)[Len(s.trail)]
  PROVE  Resolving(s, r) /\ r.open # {}
  <1> DEFINE n == Len(s.trail)
             f == Analyzed(s, C)
             T == {k \in 0 .. n : Resolving(s, f[k]) /\ f[k].open # {}}
  <1>1. n \in Nat /\ DOMAIN s.trail = 1 .. n
    BY Fields DEF Sound
  <1>2. f[0] = Look(s, NothingSeen, C) /\ r = f[n] /\ \A k \in 1 .. n : f[k] = AnalyzeStep(s, f[k - 1], s.trail[n + 1 - k])
    BY <1>1, AnalyzedSteps
  <1> HIDE DEF n, f
  <1>3. 0 \in T
    <2>1. Resolving(s, NothingSeen) /\ NothingSeen.lower = {}
      <3>1. NothingSeen \in Resolvent /\ NothingSeen.open = {} /\ NothingSeen.lower = {}
        BY DEF Resolvent, NothingSeen
      <3> QED BY ONLY <3>1 DEF Resolving
    <2>2. PICK l \in C : \E j \in DOMAIN s.trail : VarOf(s.trail[j].lit) = VarOf(l) /\ s.trail[j].level = s.level
      BY DEF OfNow
    <2>3. Level(s, l) = s.level
      BY <2>2, IndexIs DEF Sound, Ordered
    <2>4. Resolving(s, f[0]) /\ \A k \in C : Level(s, k) = s.level /\ Level(s, k) > 0 => VarOf(k) \in f[0].open
      BY <1>2, <2>1, LookIs
    <2>5. VarOf(l) \in f[0].open
      BY <2>3, <2>4
    <2> QED BY <1>1, <2>4, <2>5
  <1>4. \A k \in 0 .. n - 1 : k \in T => k + 1 \in T
    <2>1. SUFFICES ASSUME NEW k \in 0 .. n - 1, Resolving(s, f[k]), f[k].open # {}
                   PROVE  Resolving(s, f[k + 1]) /\ f[k + 1].open # {}
      BY <1>1
    <2> DEFINE i == n - k
               e == s.trail[i]
               D == e.reason \ {e.lit}
               v == VarOf(e.lit)
               o == f[k].open \ {v}
               q == [f[k] EXCEPT !.open = o, !.steps = @ + 1, !.seen = @ \cup {e.lit}]
    <2>2. i \in DOMAIN s.trail /\ k + 1 \in 1 .. n /\ n + 1 - (k + 1) = i /\ (k + 1) - 1 = k
      BY <1>1
    <2>3. f[k + 1] = AnalyzeStep(s, f[k], e)
      BY <1>2, <2>2
    <2>4. D \subseteq Lit /\ e.lit \in Lit
      BY <2>2, Fields DEF Sound
    <2>5. \A l \in D : Assigned(s, l)
      <3>1. \A l \in D : AssignedBefore(s, i, l)
        BY <2>2 DEF Sound, Ordered, ReasonsEarlier
      <3>2. \A l \in D : \E j \in DOMAIN s.trail : VarOf(s.trail[j].lit) = VarOf(l)
        BY <1>1, <2>2, <3>1 DEF AssignedBefore
      <3> QED BY <3>2 DEF Assigned
    <2>6. CASE v \notin f[k].open \/ f[k].open = {v}
      BY <2>1, <2>3, <2>6 DEF AnalyzeStep
    <2>7. CASE v \in f[k].open /\ f[k].open # {v}
      <3>1. f[k + 1] = Look(s, q, D)
        BY <2>3, <2>7 DEF AnalyzeStep
      <3>2. o # {} /\ o \subseteq f[k].open
        BY <2>7
      <3> HIDE DEF i, e, D, v, o
      <3>3. Resolving(s, q) /\ q.open = o
        <4>1. f[k] \in Resolvent /\ e.lit \in Lit /\ o \in SUBSET Var
          BY <2>1, <2>4, <3>2 DEF Resolving, Resolvent
        <4>2. q \in Resolvent /\ q.open = o /\ q.lower = f[k].lower
          <5>1. ResolvedOne(q, f[k], o, e.lit)
            BY DEF ResolvedOne
          <5> HIDE DEF q
          <5> QED BY ONLY <4>1, <5>1, OneResolved
        <4> QED BY <2>1, <3>2, <4>2 DEF Resolving
      <3> HIDE DEF q
      <3>4. Resolving(s, f[k + 1]) /\ q.open \subseteq f[k + 1].open
        BY <2>4, <2>5, <3>1, <3>3, LookIs
      <3> QED BY <3>2, <3>3, <3>4
    <2> QED BY <2>6, <2>7
  <1>5. n \in T
    <2> HIDE DEF T
    <2>1. 0 .. n \subseteq T
      BY <1>1, <1>3, <1>4, NumbersTo
    <2> QED BY <1>1, <2>1
  <1> QED BY <1>2, <1>5

(* The clause before minimisation: one literal of the current level, the   *)
(* others of lower ones.                                                   *)
LEMMA ResolveIs ==
  ASSUME NEW s, Sound(s), s.level > 0, NEW C, C \subseteq Lit, \A l \in C : Assigned(s, l), OfNow(s, C),
         NEW q, q = Resolve(s, C)
  PROVE  /\ q.uip \in Lit /\ OpenNow(s, VarOf(q.uip))
         /\ q.clause \subseteq Lit /\ \A l \in q.clause \ {q.uip} : Below(s, l)
  <1> DEFINE r == Analyzed(s, C)[Len(s.trail)]
             u == CHOOSE l \in Negated(TrueLits(s)) : VarOf(l) \in r.open
  <1>1. Resolving(s, r) /\ r.open # {}
    BY AnalyzedIs
  <1>2. q.uip = u /\ q.clause = r.lower \cup {u}
    BY DEF Resolve
  <1> HIDE DEF r
  <1>3. u \in Negated(TrueLits(s)) /\ VarOf(u) \in r.open
    <2>1. PICK v \in r.open : OpenNow(s, v)
      BY <1>1 DEF Resolving
    <2>2. PICK j \in DOMAIN s.trail : VarOf(s.trail[j].lit) = v
      BY <2>1 DEF OpenNow
    <2>3. -s.trail[j].lit \in Negated(TrueLits(s)) /\ VarOf(-s.trail[j].lit) = v
      <3>1. s.trail[j].lit \in Lit
        BY Fields DEF Sound
      <3> QED BY <2>2, <3>1, Literals DEF Negated, TrueLits, Entries
    <2> QED BY <2>1, <2>3
  <1>4. u \in Lit
    <2>1. TrueLits(s) \subseteq Lit
      BY Fields DEF Sound, TrueLits, Entries
    <2> QED BY <1>3, <2>1, NegatedIs
  <1> HIDE DEF u
  <1> QED BY <1>1, <1>2, <1>3, <1>4 DEF Resolving, Resolvent

LEMMA MinimizedIs ==
  ASSUME NEW s, NEW C, NEW u, NEW m, m = Minimized(s, C, u)
  PROVE  u \in m /\ m \ {u} \subseteq C \ {u}
  BY DEF Minimized

(* What handleConflict does with the clause that results, X being explained. *)
Learning(s, c, r, u, m, rest, to, z, X, t) ==
    LET b == CancelUntil(ExplainAll(s, X), to, FALSE)
    IN  t = IF rest = {} THEN Enqueue(b, u, NoClause, 0, 0)
            ELSE IF r.steps = 0 THEN Enqueue(b, u, c.clause, c.first, 0)
            ELSE Enqueue(Attach([b EXCEPT !.learnts = @ \cup {m}], m, {u, z}), u, m, u, 0)

(* The clause that results, without a literal dropped from a conflict.     *)
Concluded(s, c, r, u, m, rest, to, z) ==
    /\ r = Resolve(s, c.clause) /\ u = r.uip /\ m = Minimized(s, r.clause, u) /\ rest = m \ {u}
    /\ to = IF rest = {} THEN 0 ELSE Max({Level(s, l) : l \in rest})
    /\ z = CHOOSE l \in rest : Level(s, l) = to
    /\ r.steps = 0 /\ rest # {} => ~\E l \in c.clause \ {u} : Level(s, l) > Max({to, Len(s.assumptions)})

(* From s explained back to b, where what is learnt is enqueued.           *)
Jumps(s, c, r, u, m, rest, X, b, t) ==
    LET x == ExplainAll(s, X)
    IN  /\ Sound(x) /\ AsBefore(s, x) /\ Sound(b) /\ Cancelled(x, b, b.level)
        /\ u \in Lit /\ m = rest \cup {u} /\ m \subseteq Lit /\ \A l \in rest : Level(s, l) <= b.level
        /\ rest = {} => b.level = Len(s.assumptions) /\ Enqueued(b, t, u, NewEntry(b, u, NoClause, 0, 0))
        /\ rest # {} /\ r.steps = 0 => /\ Enqueued(b, t, u, NewEntry(b, u, c.clause, c.first, 0))
                                      /\ \A l \in c.clause \ {u} : Level(s, l) <= b.level
        /\ rest # {} /\ r.steps # 0 => \E a : /\ Sound(a) /\ Attached(b, a, m)
                                             /\ Enqueued(a, t, u, NewEntry(a, u, m, u, 0))

LEMMA LearntIs ==
  ASSUME NEW s, Sound(s), s.level > Len(s.assumptions), NEW c, ConflictNow(s, c),
         NEW r, NEW u, NEW m, NEW rest, NEW to, NEW z, Concluded(s, c, r, u, m, rest, to, z),
         NEW X, NEW t, Learning(s, c, r, u, m, rest, to, z, X, t)
  PROVE  /\ Sound(t) /\ t.assumptions = s.assumptions
         /\ t.excluded = s.excluded
         /\ SettledBelow(s) => SettledBelow(t) /\ SettledSeen(t, {})
         /\ \E b : Jumps(s, c, r, u, m, rest, X, b, t)
  <1> USE DEF Concluded
  <1> DEFINE k == Len(s.assumptions)
             x == ExplainAll(s, X)
             back == Target(x, to, FALSE)
             b == CancelUntil(x, to, FALSE)
  <1>17. t = IF rest = {} THEN Enqueue(b, u, NoClause, 0, 0)
             ELSE IF r.steps = 0 THEN Enqueue(b, u, c.clause, c.first, 0)
             ELSE Enqueue(Attach([b EXCEPT !.learnts = @ \cup {m}], m, {u, z}), u, m, u, 0)
    BY DEF Learning
  <1>18. b = CancelUntil(x, to, FALSE)
    OBVIOUS
  <1> HIDE DEF b
  <1>1. k \in Nat /\ s.level \in Nat /\ s.level > 0
    BY Fields DEF Sound
  <1>2. u \in Lit /\ OpenNow(s, VarOf(u)) /\ r.clause \subseteq Lit /\ \A l \in r.clause \ {u} : Below(s, l)
    <2>1. c.clause \subseteq Lit /\ (\A l \in c.clause : Assigned(s, l)) /\ OfNow(s, c.clause)
      BY DEF ConflictNow
    <2> QED BY <1>1, <2>1, ResolveIs
  <1>3. u \in m /\ rest \subseteq r.clause \ {u} /\ m \subseteq Lit /\ rest \subseteq Lit /\ u \notin rest /\ m = rest \cup {u}
    <2>1. u \in m /\ m \ {u} \subseteq r.clause \ {u}
      BY MinimizedIs
    <2> QED BY <1>2, <2>1
  <1>4. \A l : Assigned(s, l) => /\ Level(s, l) \in 0 .. s.level
                                 /\ \E j \in DOMAIN s.trail : VarOf(s.trail[j].lit) = VarOf(l) /\ s.trail[j].level = Level(s, l)
    <2>1. SUFFICES ASSUME NEW l, NEW j \in DOMAIN s.trail, VarOf(s.trail[j].lit) = VarOf(l)
                   PROVE  Level(s, l) \in 0 .. s.level /\ s.trail[j].level = Level(s, l)
      BY DEF Assigned
    <2>2. Level(s, l) = s.trail[j].level
      BY <2>1, IndexIs DEF Sound, Ordered
    <2>3. s.trail[j].level \in Nat /\ s.trail[j].level <= s.level
      BY Fields DEF Sound, Ordered, LevelsRise
    <2> QED BY <1>1, <2>2, <2>3
  <1>5. \A l \in rest : Assigned(s, l) /\ Level(s, l) < s.level
    <2>1. SUFFICES ASSUME NEW l \in rest PROVE Assigned(s, l) /\ Level(s, l) < s.level
      OBVIOUS
    <2>2. PICK j \in DOMAIN s.trail : VarOf(s.trail[j].lit) = VarOf(l) /\ s.trail[j].level < s.level
      BY <1>2, <1>3 DEF Below
    <2>3. Level(s, l) = s.trail[j].level
      BY <2>2, IndexIs DEF Sound, Ordered
    <2> QED BY <2>2, <2>3 DEF Assigned
  <1>6. /\ to \in Nat /\ to < s.level /\ \A l \in rest : Level(s, l) <= to
        /\ rest # {} => z \in rest
    <2>1. CASE rest = {}
      BY <1>1, <2>1
    <2>2. CASE rest # {}
      <3> DEFINE L == {Level(s, l) : l \in rest}
      <3>1. L # {} /\ L \subseteq 0 .. s.level
        BY <1>4, <1>5, <2>2
      <3>2. to = Max(L)
        BY <2>2
      <3> HIDE DEF L
      <3>3. to \in L /\ \A i \in L : i <= to
        BY ONLY <1>1, <3>1, <3>2, MaxIs
      <3>4. PICK d \in rest : Level(s, d) = to
        BY <3>3 DEF L
      <3>5. z \in rest
        BY <3>4
      <3>6. to \in 0 .. s.level
        BY <3>1, <3>3
      <3>7. \A l \in rest : Level(s, l) <= to
        BY ONLY <3>3 DEF L
      <3>8. to \in Nat /\ to < s.level
        BY ONLY <1>1, <1>5, <3>4, <3>6
      <3> QED BY ONLY <3>5, <3>7, <3>8
    <2> QED BY <2>1, <2>2
  <1>7. Sound(x) /\ AsBefore(s, x) /\ Onward(s, x)
    BY ExplainAllIs
  <1> HIDE DEF x
  <1>8. back = (IF to < k THEN k ELSE to) /\ back \in Nat /\ back < s.level /\ to <= back /\ k <= back
        /\ x.assumptions = s.assumptions
    BY <1>1, <1>6, <1>7 DEF Target, AsBefore
  <1>9. Sound(b) /\ Cancelled(x, b, back) /\ b.level = back
    <2>1. Sound(b) /\ Cancelled(x, b, back) /\ b.level = IF x.level <= back THEN x.level ELSE back
      <3> HIDE DEF back
      <3>1. CancelsTo(x, to, FALSE, b, back)
        BY <1>18 DEF back, CancelsTo
      <3>2. to \in Nat /\ Sound(x)
        BY ONLY <1>6, <1>7
      <3>3. CancelRight(x, b, back)
        BY ONLY <3>1, <3>2, CancelIs
      <3> QED BY ONLY <3>3 DEF CancelRight
    <2>2. x.level = s.level
      BY ONLY <1>7 DEF AsBefore
    <2> HIDE DEF back
    <2>3. ~(s.level <= back)
      BY ONLY <1>1, <1>8
    <2> QED BY ONLY <2>1, <2>2, <2>3
  <1> HIDE DEF back, k
  <1>10. /\ b.assumptions = s.assumptions /\ b.known = s.known
         /\ \A j \in DOMAIN b.trail : j \in DOMAIN s.trail /\ b.trail[j].lit = s.trail[j].lit
         /\ \A j \in DOMAIN s.trail : j \in DOMAIN b.trail <=> s.trail[j].level <= back
    <2>1. /\ x.assumptions = s.assumptions /\ x.known = s.known /\ DOMAIN x.trail = DOMAIN s.trail
          /\ \A j \in DOMAIN s.trail : x.trail[j].lit = s.trail[j].lit /\ x.trail[j].level = s.trail[j].level
      BY ONLY <1>7 DEF AsBefore
    <2>2. /\ b.assumptions = x.assumptions /\ b.known = x.known /\ b.level = back
          /\ \A j \in DOMAIN b.trail : j \in DOMAIN x.trail /\ b.trail[j].lit = x.trail[j].lit
          /\ \A j \in DOMAIN x.trail : j \in DOMAIN b.trail <=> x.trail[j].level <= b.level
      BY ONLY <1>9 DEF Cancelled, Fixed, Same
    <2> QED BY ONLY <2>1, <2>2
  <1>11. \A l : Assigned(s, l) /\ Level(s, l) <= back => Assigned(b, l)
    <2>1. SUFFICES ASSUME NEW l, Assigned(s, l), Level(s, l) <= back PROVE Assigned(b, l)
      OBVIOUS
    <2>2. PICK j \in DOMAIN s.trail : VarOf(s.trail[j].lit) = VarOf(l) /\ s.trail[j].level = Level(s, l)
      BY <1>4, <2>1
    <2>3. j \in DOMAIN b.trail
      BY <1>10, <2>1, <2>2
    <2> QED BY <1>10, <2>2, <2>3 DEF Assigned
  <1>12. Unassigned(b, u) /\ VarOf(u) \in b.known
    <2>1. PICK j \in DOMAIN s.trail : VarOf(s.trail[j].lit) = VarOf(u) /\ s.trail[j].level = s.level
      BY <1>2 DEF OpenNow
    <2>2. ASSUME NEW i \in DOMAIN b.trail, VarOf(b.trail[i].lit) = VarOf(u) PROVE FALSE
      <3>1. i \in DOMAIN s.trail /\ VarOf(s.trail[i].lit) = VarOf(u) /\ s.trail[i].level <= back
        BY <1>10, <2>2
      <3>2. i = j
        <4>1. Once(s)
          BY DEF Sound, Ordered
        <4> QED BY ONLY <2>1, <3>1, <4>1 DEF Once
      <3> QED BY ONLY <1>1, <1>8, <2>1, <3>1, <3>2
    <2>3. ~Assigned(b, u)
      BY <2>2 DEF Assigned
    <2>4. b.trail \in Seq(Entry)
      BY <1>9, Fields DEF Sound
    <2>5. Unassigned(b, u)
      BY <1>2, <2>3, <2>4, Values
    <2> QED BY <1>10, <2>1, <2>5 DEF Sound, KnownFirst
  <1>13. \A l \in rest : Assigned(b, l) /\ Level(s, l) <= back
    <2>1. SUFFICES ASSUME NEW l \in rest PROVE Level(s, l) <= back /\ Assigned(s, l)
      BY <1>11
    <2>2. Assigned(s, l) /\ Level(s, l) <= to /\ Level(s, l) \in 0 .. s.level
      BY ONLY <1>4, <1>5, <1>6, <2>1
    <2> QED BY ONLY <1>1, <1>6, <1>8, <2>2
  <1>14. ASSUME rest = {}
         PROVE  /\ Sound(t) /\ t.assumptions = s.assumptions /\ Onward(b, t)
                /\ back = k /\ Enqueued(b, t, u, NewEntry(b, u, NoClause, 0, 0))
    <2>1. t = Enqueue(b, u, NoClause, 0, 0)
      BY <1>14, <1>17
    <2>2. NoClause \subseteq Lit /\ 0 \in Int /\ \A l \in NoClause \ {u} : Assigned(b, l)
      BY DEF NoClause
    <2>3. Sound(t) /\ Extends(b, t) /\ Enqueued(b, t, u, NewEntry(b, u, NoClause, 0, 0))
      BY ONLY <1>2, <1>9, <1>12, <2>1, <2>2, EnqueuePlain
    <2>4. Onward(b, t)
      BY ONLY <2>3, GrowsBy DEF Enqueued
    <2>5. to = 0
      BY <1>14
    <2>6. back = k
      BY ONLY <1>1, <1>8, <2>5 DEF k
    <2> QED BY ONLY <1>10, <2>3, <2>4, <2>6 DEF Enqueued
  <1>15. ASSUME rest # {} /\ r.steps = 0
         PROVE  /\ Sound(t) /\ t.assumptions = s.assumptions /\ Onward(b, t)
                /\ Enqueued(b, t, u, NewEntry(b, u, c.clause, c.first, 0))
                /\ \A l \in c.clause \ {u} : Level(s, l) <= back
    <2>1. t = Enqueue(b, u, c.clause, c.first, 0)
      BY <1>15, <1>17
    <2>2. c.clause \subseteq Lit /\ c.first \in Int /\ \A l \in c.clause : Assigned(s, l)
      BY DEF ConflictNow
    <2>3. Max({to, k}) = back
      <3> DEFINE M == {to, k}
      <3>1. M \subseteq 0 .. s.level /\ M # {}
        BY ONLY <1>1, <1>6, <1>8 DEF k, M
      <3> HIDE DEF M
      <3>2. Max(M) \in M /\ \A n \in M : n <= Max(M)
        BY <1>1, <3>1, MaxIs
      <3> QED BY ONLY <1>1, <1>6, <1>8, <3>2 DEF M, k
    <2>4. \A l \in c.clause \ {u} : Assigned(b, l) /\ Level(s, l) <= back
      <3>1. SUFFICES ASSUME NEW l \in c.clause \ {u} PROVE Level(s, l) <= back /\ Assigned(s, l)
        BY <1>11
      <3>2. ~(Level(s, l) > back)
        BY <1>15, <2>3 DEF k
      <3>3. Assigned(s, l) /\ Level(s, l) \in Nat
        BY <1>4, <2>2
      <3> QED BY <1>8, <3>2, <3>3
    <2>5. Sound(t) /\ Extends(b, t) /\ Enqueued(b, t, u, NewEntry(b, u, c.clause, c.first, 0))
      BY ONLY <1>2, <1>9, <1>12, <2>1, <2>2, <2>4, EnqueuePlain
    <2>6. Onward(b, t)
      BY ONLY <2>5, GrowsBy DEF Enqueued
    <2> QED BY ONLY <1>10, <2>4, <2>5, <2>6 DEF Enqueued
  <1>16. ASSUME rest # {} /\ r.steps # 0
         PROVE  /\ Sound(t) /\ t.assumptions = s.assumptions /\ Onward(b, t)
                /\ \E a : Sound(a) /\ Attached(b, a, m) /\ Enqueued(a, t, u, NewEntry(a, u, m, u, 0))
    <2> DEFINE L == b.learnts \cup {m}
               a == Attach([b EXCEPT !.learnts = L], m, {u, z})
    <2>1. t = Enqueue(a, u, m, u, 0)
      BY <1>16, <1>17
    <2>2. z \in m /\ z # u /\ u \in m
      BY <1>3, <1>6, <1>16
    <2>3. Within(m, b.known)
      <3>1. \A l \in m : \E j \in DOMAIN s.trail : VarOf(s.trail[j].lit) = VarOf(l)
        BY <1>2, <1>3, <1>5 DEF OpenNow, Assigned
      <3> QED BY <1>10, <3>1 DEF Sound, KnownFirst, Within
    <2>4. Sound(a) /\ Attached(b, a, m) /\ AlsoWatching(b, a, m, {u, z}) /\ Unmoving(b, a)
      <3>1. a = Attach([b EXCEPT !.learnts = L], m, {u, z}) /\ L \subseteq b.learnts \cup {m}
        OBVIOUS
      <3> HIDE DEF a, L
      <3>2. Sound(a) /\ Attached(b, a, m)
        BY ONLY <1>3, <1>9, <2>2, <2>3, <3>1, AttachIs
      <3>3. Attaches(b, a, L, m, {u, z}) /\ b \in State
        BY ONLY <1>9, <3>1 DEF Attaches, Sound
      <3>4. AlsoWatching(b, a, m, {u, z}) /\ Unmoving(b, a)
        BY ONLY <3>3, AttachWatches
      <3> QED BY ONLY <3>2, <3>4
    <2> HIDE DEF a
    <2>5. a.trail = b.trail /\ a.known = b.known /\ a.assumptions = b.assumptions
      BY <2>4 DEF Attached
    <2>6. Unassigned(a, u) /\ VarOf(u) \in a.known /\ \A l \in m \ {u} : Assigned(a, l)
      BY <1>3, <1>12, <1>13, <2>5, SameTrail DEF Unassigned, IsFalse, IsTrue
    <2>7. u \in Int
      BY <1>2, Literals
    <2>8. Sound(t) /\ Extends(a, t) /\ Enqueued(a, t, u, NewEntry(a, u, m, u, 0))
      BY ONLY <1>2, <1>3, <2>1, <2>4, <2>6, <2>7, EnqueuePlain
    <2>9. Grows(b, t)
      BY ONLY <2>4, <2>8 DEF Unmoving, Extends, Same, Grows
    <2>10. AlsoWatching(b, t, m, {u, z})
      BY ONLY <2>4, <2>8 DEF Enqueued, AlsoWatching
    <2>11. ~IsFalse(t, u)
      <3>1. a \in State /\ t.trail \in Seq(Entry) /\ Once(t)
        BY ONLY <2>4, <2>8, Fields DEF Sound, Ordered
      <3>2. IsTrue(t, u)
        BY ONLY <2>1, <3>1, EnqueueKeeps
      <3> QED BY ONLY <1>2, <3>1, <3>2, OneValue
    <2>12. Onward(b, t)
      <3>1. u \in {u, z}
        OBVIOUS
      <3> QED BY ONLY <2>9, <2>10, <2>11, <3>1, AttachedOn
    <2>13. t.assumptions = s.assumptions
      BY ONLY <1>10, <2>5, <2>8 DEF Enqueued
    <2> QED BY ONLY <2>4, <2>8, <2>12, <2>13
  <1>19. Sound(t) /\ t.assumptions = s.assumptions /\ Onward(b, t)
    BY ONLY <1>14, <1>15, <1>16
  <1>20. t.excluded = s.excluded
    BY ONLY <1>7, <1>9, <1>19 DEF AsBefore, Cancelled, Onward, Follows, Grows
  <1>21. ASSUME SettledBelow(s) PROVE SettledBelow(t) /\ SettledSeen(t, {})
    <2>1. Follows(s, x) /\ Follows(b, t) /\ x.level = s.level
      BY ONLY <1>7, <1>19 DEF Onward, AsBefore
    <2>2. SettledBelow(x)
      BY ONLY <1>7, <1>21, <2>1, Sound(s), SettledOn
    <2>3. SettledBelow(b) /\ SettledSeen(b, {})
      <3>1. back \in Nat /\ x.level > back
        BY ONLY <1>1, <1>8, <2>1
      <3> QED BY ONLY <1>7, <1>9, <2>2, <3>1, SettledBack
    <2> QED BY ONLY <1>9, <1>19, <2>1, <2>3, SettledOn
  <1>22. Jumps(s, c, r, u, m, rest, X, b, t)
    <2>1. k = Len(s.assumptions) /\ x = ExplainAll(s, X)
      BY DEF k, x
    <2>2. \A l \in rest : Level(s, l) <= b.level
      BY ONLY <1>9, <1>13
    <2>3. rest = {} => b.level = Len(s.assumptions) /\ Enqueued(b, t, u, NewEntry(b, u, NoClause, 0, 0))
      BY ONLY <1>9, <1>14, <2>1
    <2>4. rest # {} /\ r.steps = 0 => /\ Enqueued(b, t, u, NewEntry(b, u, c.clause, c.first, 0))
                                     /\ \A l \in c.clause \ {u} : Level(s, l) <= b.level
      BY ONLY <1>9, <1>15
    <2>5. rest # {} /\ r.steps # 0 => \E a : /\ Sound(a) /\ Attached(b, a, m)
                                            /\ Enqueued(a, t, u, NewEntry(a, u, m, u, 0))
      BY ONLY <1>16
    <2>6. Cancelled(x, b, b.level)
      BY ONLY <1>9
    <2> QED BY ONLY <1>2, <1>3, <1>7, <1>9, <2>1, <2>2, <2>3, <2>4, <2>5, <2>6 DEF Jumps
  <1> QED BY ONLY <1>19, <1>20, <1>21, <1>22

-----------------------------------------------------------------------------
(* The steps of the search, for the members.                               *)

(* Members that the invariant does not speak of.                           *)
Marked(s, t) ==
    /\ t.trail = s.trail /\ t.level = s.level /\ t.qhead = s.qhead /\ t.assumptions = s.assumptions
    /\ t.watch = s.watch /\ t.known = s.known

(* The members of s that t keeps when it differs in excluded, ok and consistent only. *)
Unmoved(s, t) ==
    /\ Marked(s, t) /\ Fixed(s, t) /\ t.info = s.info /\ t.changed = s.changed /\ t.props = s.props

LEMMA MarkedIs ==
  ASSUME NEW s, Sound(s), NEW t \in State, Unmoved(s, t)
  PROVE  Sound(t) /\ Marked(s, t)
  <1>1. /\ Fixed(s, t) /\ t.trail = s.trail /\ t.level = s.level
        /\ t.qhead = s.qhead /\ t.info = s.info /\ t.changed = s.changed /\ t.props = s.props
    BY DEF Unmoved, Marked
  <1>2. Sound(t)
    BY ONLY <1>1, Sound(s), t \in State, SoundSame
  <1> QED BY <1>2 DEF Unmoved

LEMMA MarkedSome ==
  ASSUME NEW s, Sound(s)
  PROVE  /\ \A c \in {"SAT", "UNSAT", "UNKNOWN"} :
              Sound([s EXCEPT !.consistent = c]) /\ Marked(s, [s EXCEPT !.consistent = c])
         /\ \A x \in BOOLEAN : Sound([s EXCEPT !.excluded = x]) /\ Marked(s, [s EXCEPT !.excluded = x])
         /\ \A x \in BOOLEAN, o \in BOOLEAN :
              Sound([s EXCEPT !.excluded = x, !.ok = o]) /\ Marked(s, [s EXCEPT !.excluded = x, !.ok = o])
  <1>1. s \in State
    BY DEF Sound
  <1>2. ASSUME NEW c \in {"SAT", "UNSAT", "UNKNOWN"}
        PROVE  Sound([s EXCEPT !.consistent = c]) /\ Marked(s, [s EXCEPT !.consistent = c])
    <2> DEFINE t == [s EXCEPT !.consistent = c]
    <2>1. t \in State
      BY ONLY <1>1, c \in {"SAT", "UNSAT", "UNKNOWN"} DEF State
    <2>2. Unmoved(s, t)
      BY ONLY <1>1 DEF State, Fixed, Marked, Unmoved
    <2> HIDE DEF t
    <2>3. Sound(t) /\ Marked(s, t)
      BY <2>1, <2>2, MarkedIs
    <2> QED BY <2>3 DEF t
  <1>3. ASSUME NEW x \in BOOLEAN
        PROVE  Sound([s EXCEPT !.excluded = x]) /\ Marked(s, [s EXCEPT !.excluded = x])
    <2> DEFINE t == [s EXCEPT !.excluded = x]
    <2>1. t \in State
      BY ONLY <1>1, x \in BOOLEAN DEF State
    <2>2. Unmoved(s, t)
      BY ONLY <1>1 DEF State, Fixed, Marked, Unmoved
    <2> HIDE DEF t
    <2>3. Sound(t) /\ Marked(s, t)
      BY <2>1, <2>2, MarkedIs
    <2> QED BY <2>3 DEF t
  <1>4. ASSUME NEW x \in BOOLEAN, NEW o \in BOOLEAN
        PROVE  Sound([s EXCEPT !.excluded = x, !.ok = o]) /\ Marked(s, [s EXCEPT !.excluded = x, !.ok = o])
    <2> DEFINE t == [s EXCEPT !.excluded = x, !.ok = o]
    <2>1. t \in State
      BY ONLY <1>1, x \in BOOLEAN, o \in BOOLEAN DEF State
    <2>2. Unmoved(s, t)
      BY ONLY <1>1 DEF State, Fixed, Marked, Unmoved
    <2> HIDE DEF t
    <2>3. Sound(t) /\ Marked(s, t)
      BY <2>1, <2>2, MarkedIs
    <2> QED BY <2>3 DEF t
  <1> QED BY ONLY <1>2, <1>3, <1>4, Zenon

LEMMA QueueMoved ==
  ASSUME NEW s, Sound(s), NEW n \in Nat, s.qhead <= n, n <= Len(s.trail), NEW t, t = [s EXCEPT !.qhead = n]
  PROVE  /\ Sound(t) /\ t.trail = s.trail /\ t.qhead = n /\ t.level = s.level /\ t.watch = s.watch
         /\ t.assumptions = s.assumptions
  <1>1. s \in State /\ s.qhead \in Nat /\ DOMAIN s.trail \subseteq Nat
    BY Fields DEF Sound
  <1>2. t \in State
    BY ONLY <1>1, n \in Nat, t = [s EXCEPT !.qhead = n] DEF State
  <1>3. /\ Fixed(s, t) /\ t.trail = s.trail /\ t.qhead = n /\ t.level = s.level /\ t.info = s.info
        /\ t.changed = s.changed /\ t.props = s.props
    BY <1>1, <1>2 DEF State, Fixed
  <1>4. QueueFresh(t)
    BY <1>1, <1>3 DEF Sound, QueueFresh
  <1>5. Counted(t)
    BY <1>3, CountedSame DEF Sound, Fixed
  <1>6. Ordered(t)
    BY <1>3 DEF Sound, Ordered, Once, LevelsRise, ReasonsEarlier, AssignedBefore
  <1>7. KnownFirst(t) /\ WatchesTwo(t) /\ Placed(t)
    BY <1>3 DEF Sound, Fixed, KnownFirst, WatchesTwo, Placed
  <1> QED BY <1>2, <1>3, <1>4, <1>5, <1>6, <1>7 DEF Sound, Fixed

LEMMA LevelRaised ==
  ASSUME NEW s, Sound(s), s.qhead = Len(s.trail), NEW t, t = [s EXCEPT !.level = @ + 1]
  PROVE  /\ Sound(t) /\ t.trail = s.trail /\ t.qhead = s.qhead /\ t.known = s.known
         /\ t.assumptions = s.assumptions
  <1>1. s \in State /\ s.level \in Nat /\ s.level + 1 \in Nat /\ DOMAIN s.trail = 1 .. Len(s.trail)
        /\ \A i \in DOMAIN s.trail : s.trail[i].level \in Nat
    BY Fields DEF Sound
  <1> DEFINE n == s.level + 1
  <1>2. t = [s EXCEPT !.level = n]
    OBVIOUS
  <1>3. n \in Nat
    BY <1>1
  <1> HIDE DEF n
  <1>4. t \in State
    BY ONLY <1>1, <1>2, <1>3 DEF State
  <1>5. /\ Fixed(s, t) /\ t.trail = s.trail /\ t.qhead = s.qhead /\ t.level = n /\ t.info = s.info
        /\ t.changed = s.changed /\ t.props = s.props
    BY ONLY <1>1, <1>2, <1>4 DEF State, Fixed
  <1>6. QueueFresh(t)
    BY <1>1, <1>5 DEF QueueFresh
  <1>7. Counted(t)
    BY <1>5, CountedSame DEF Sound, Fixed
  <1>8. Ordered(t)
    <2>1. Once(t) /\ ReasonsEarlier(t)
      BY <1>5 DEF Sound, Ordered, Once, ReasonsEarlier, AssignedBefore
    <2>2. \A i \in DOMAIN s.trail : s.trail[i].level <= n
      BY <1>1 DEF Sound, Ordered, LevelsRise, n
    <2>3. LevelsRise(t)
      BY <1>5, <2>2 DEF Sound, Ordered, LevelsRise
    <2> QED BY <2>1, <2>3 DEF Ordered
  <1>9. KnownFirst(t) /\ WatchesTwo(t) /\ Placed(t)
    BY <1>5 DEF Sound, Fixed, KnownFirst, WatchesTwo, Placed
  <1> QED BY <1>4, <1>5, <1>6, <1>7, <1>8, <1>9 DEF Sound, Fixed

LEMMA WatchMoved ==
  ASSUME NEW s, Sound(s), NEW c \in DOMAIN s.watch, NEW a \in c, NEW b \in c, a # b,
         NEW t, t = [s EXCEPT !.watch[c] = {a, b}]
  PROVE  /\ Sound(t) /\ t.trail = s.trail /\ t.level = s.level /\ t.qhead = s.qhead
         /\ t.assumptions = s.assumptions /\ DOMAIN t.watch = DOMAIN s.watch
         /\ \A d \in DOMAIN s.watch \ {c} : t.watch[d] = s.watch[d]
  <1> DEFINE w == [s.watch EXCEPT ![c] = {a, b}]
  <1>1. s \in State /\ s.watch \in Watching /\ DOMAIN s.watch \subseteq SUBSET Lit
        /\ \A d \in DOMAIN s.watch : s.watch[d] \subseteq Lit
    BY Fields, WatchingIs DEF Sound
  <1>2. /\ w \in Watching /\ DOMAIN w = DOMAIN s.watch /\ w[c] = {a, b}
        /\ \A d \in DOMAIN s.watch \ {c} : w[d] = s.watch[d]
    <2>1. {a, b} \subseteq Lit
      BY <1>1
    <2>2. s.watch = [d \in DOMAIN s.watch |-> s.watch[d]]
      BY <1>1, WatchingIs
    <2>3. w \in [DOMAIN s.watch -> SUBSET Lit] /\ DOMAIN w = DOMAIN s.watch /\ w[c] = {a, b}
          /\ \A d \in DOMAIN s.watch \ {c} : w[d] = s.watch[d]
      BY <1>1, <2>1, <2>2
    <2> HIDE DEF w
    <2>4. w \in Watching
      BY <1>1, <2>3, WatchingIs
    <2> QED BY <2>3, <2>4
  <1>3. t = [s EXCEPT !.watch = w]
    BY <1>1 DEF State
  <1> HIDE DEF w
  <1>4. t \in State
    BY ONLY <1>1, <1>2, <1>3 DEF State
  <1>5. /\ t.trail = s.trail /\ t.qhead = s.qhead /\ t.level = s.level /\ t.info = s.info /\ t.assumptions = s.assumptions
        /\ t.changed = s.changed /\ t.props = s.props /\ t.watch = w /\ t.learnts = s.learnts /\ t.known = s.known
        /\ t.relevant = s.relevant /\ t.passed = s.passed /\ t.changedPassed = s.changedPassed
    BY ONLY <1>1, <1>3, <1>4 DEF State
  <1>6. Counted(t)
    BY <1>5, CountedSame DEF Sound
  <1>7. Ordered(t) /\ QueueFresh(t)
    BY <1>5 DEF Sound, Ordered, Once, LevelsRise, ReasonsEarlier, AssignedBefore, QueueFresh
  <1>8. KnownFirst(t) /\ Placed(t)
    BY <1>2, <1>5 DEF Sound, KnownFirst, Placed
  <1>9. WatchesTwo(t)
    <2>1. ASSUME NEW d \in DOMAIN w PROVE \E i, j \in d : i # j /\ w[d] = {i, j}
      <3>1. CASE d = c
        BY <1>2, <3>1
      <3>2. CASE d # c
        BY <1>2, <3>2 DEF Sound, WatchesTwo
      <3> QED BY <3>1, <3>2
    <2> QED BY <1>2, <1>5, <2>1 DEF Sound, WatchesTwo
  <1> QED BY <1>2, <1>4, <1>5, <1>6, <1>7, <1>8, <1>9 DEF Sound

(* Back to level 0, and all that is due is done.                           *)
LEMMA BackIs ==
  ASSUME NEW s, Sound(s), NEW t, t = Back(s)
  PROVE  Sound(t) /\ t.assumptions = s.assumptions /\ t.known = s.known /\ t.watch = s.watch
  <1> DEFINE c == CancelUntil(s, 0, TRUE)
  <1>1. Sound(c) /\ Cancelled(s, c, 0) /\ c.level = IF s.level <= 0 THEN s.level ELSE 0
    <2>1. CancelsTo(s, 0, TRUE, c, 0)
      BY DEF Target, CancelsTo
    <2> HIDE DEF c
    <2>2. CancelRight(s, c, 0)
      BY ONLY <2>1, 0 \in Nat, Sound(s), CancelIs
    <2> QED BY ONLY <2>2 DEF CancelRight
  <1>2. t = Adapt(c)
    BY DEF Back
  <1>3. c.assumptions = s.assumptions /\ c.known = s.known /\ c.watch = s.watch
    BY <1>1 DEF Cancelled, Fixed
  <1> HIDE DEF c
  <1>4. c.level = 0
    <2>1. s.level \in Nat
      BY Fields DEF Sound
    <2> QED BY <1>1, <2>1
  <1>5. \A i \in DOMAIN c.trail : c.trail[i].level = 0
    <2>1. \A i \in DOMAIN c.trail : c.trail[i].level \in Nat /\ c.trail[i].level <= 0
      BY <1>1, <1>4, Fields DEF Sound, Ordered, LevelsRise
    <2> QED BY <2>1
  <1>6. Sound(t) /\ Adapted(c, t)
    BY <1>1, <1>2, <1>5, AdaptIs
  <1> QED BY <1>3, <1>6 DEF Adapted

LEMMA SubSeqFrom ==
  ASSUME NEW S, NEW q \in Seq(S), NEW m \in 1 .. Len(q) + 1, NEW u, u = SubSeq(q, m, Len(q))
  PROVE  u \in Seq(S) /\ Len(u) = Len(q) + 1 - m /\ \A k \in 1 .. Len(q) + 1 - m : u[k] = q[m + k - 1]
  <1> DEFINE n == Len(q)
             v == [k \in 1 .. n + 1 - m |-> q[m + k - 1]]
  <1>1. n \in Nat /\ m \in Int /\ 1 <= m /\ m <= n + 1 /\ \A k \in 1 .. n : q[k] \in S
    OBVIOUS
  <1>2. u = v
    <2>1. CASE m <= n
      BY <1>1, <2>1
    <2>2. CASE m > n
      BY <1>1, <2>2
    <2> QED BY <1>1, <2>1, <2>2
  <1> HIDE DEF n
  <1>3. n + 1 - m \in Nat /\ \A k \in 1 .. n + 1 - m : v[k] \in S
    <2>1. \A k \in 1 .. n + 1 - m : m + k - 1 \in 1 .. n
      BY <1>1
    <2> QED BY <1>1, <2>1
  <1>4. v \in Seq(S) /\ Len(v) = n + 1 - m
    BY <1>3
  <1> QED BY <1>2, <1>4 DEF n

Without(q, x, u) ==
    \E i \in DOMAIN q :
      /\ q[i] = x /\ DOMAIN u = 1 .. Len(q) - 1
      /\ \A k \in 1 .. Len(q) - 1 : u[k] = IF k <= i - 1 THEN q[k] ELSE q[k + 1]

LEMMA WithoutFirstIs ==
  ASSUME NEW q \in Seq(Lit), NEW x \in ToSet(q), NEW u, u = WithoutFirst(q, x)
  PROVE  /\ u \in Seq(Lit) /\ ToSet(u) \subseteq ToSet(q) /\ \A y \in ToSet(q) \ {x} : y \in ToSet(u)
         /\ Without(q, x, u)
  <1> DEFINE i == CHOOSE k \in DOMAIN q : q[k] = x /\ \A m \in 1 .. k - 1 : q[m] # x
             n == Len(q)
  <1>1. n \in Nat /\ DOMAIN q = 1 .. n /\ \A k \in 1 .. n : q[k] \in Lit
    OBVIOUS
  <1>2. i \in 1 .. n /\ q[i] = x
    <2> DEFINE X == {k \in DOMAIN q : q[k] = x}
    <2>1. X # {} /\ X \subseteq Nat
      BY <1>1 DEF ToSet
    <2> HIDE DEF X
    <2>2. PICK m \in X : \A k \in X : m <= k
      BY <2>1, LeastNatural
    <2>3. m \in DOMAIN q /\ q[m] = x /\ \A k \in 1 .. m - 1 : q[k] # x
      <3>1. m \in 1 .. n /\ q[m] = x
        BY <1>1, <2>2 DEF X
      <3>2. ASSUME NEW k \in 1 .. m - 1 PROVE q[k] # x
        <4>1. k \in 1 .. n /\ ~(m <= k)
          BY ONLY <1>1, <3>1, <3>2
        <4>2. k \notin X
          BY <2>2, <4>1
        <4> QED BY <1>1, <4>1, <4>2 DEF X
      <3> QED BY <1>1, <3>1, <3>2
    <2> QED BY <1>1, <2>3
  <1> DEFINE a == SubSeq(q, 1, i - 1)
             b == SubSeq(q, i + 1, n)
  <1>3. u = a \o b
    BY DEF WithoutFirst, RemoveAt
  <1> HIDE DEF i, n
  <1>4. a \in Seq(Lit) /\ Len(a) = i - 1 /\ \A k \in 1 .. i - 1 : a[k] = q[k]
    BY <1>1, <1>2 DEF n
  <1>5. b \in Seq(Lit) /\ Len(b) = n - i /\ \A k \in 1 .. n - i : b[k] = q[i + k]
    <2>1. i + 1 \in 1 .. Len(q) + 1 /\ b = SubSeq(q, i + 1, Len(q))
      BY <1>1, <1>2 DEF n
    <2>2. b \in Seq(Lit) /\ Len(b) = n + 1 - (i + 1) /\ \A k \in 1 .. n + 1 - (i + 1) : b[k] = q[i + 1 + k - 1]
      <3> DEFINE m == i + 1
      <3> HIDE DEF m, b
      <3>1. m \in 1 .. Len(q) + 1 /\ b = SubSeq(q, m, Len(q))
        BY <2>1 DEF m
      <3>2. b \in Seq(Lit) /\ Len(b) = Len(q) + 1 - m /\ \A k \in 1 .. Len(q) + 1 - m : b[k] = q[m + k - 1]
        BY <3>1, SubSeqFrom
      <3> QED BY <3>2 DEF m, n
    <2>3. n + 1 - (i + 1) = n - i /\ \A k \in 1 .. n - i : i + 1 + k - 1 = i + k
      BY <1>1, <1>2
    <2> HIDE DEF b
    <2> QED BY <2>2, <2>3
  <1> HIDE DEF a, b
  <1>6. /\ u \in Seq(Lit) /\ DOMAIN u = 1 .. n - 1
        /\ \A k \in 1 .. n - 1 : u[k] = IF k <= i - 1 THEN q[k] ELSE q[k + 1]
    <2>1. /\ u \in Seq(Lit) /\ DOMAIN u = 1 .. (i - 1) + (n - i)
          /\ \A k \in 1 .. (i - 1) + (n - i) : u[k] = IF k <= i - 1 THEN a[k] ELSE b[k - (i - 1)]
      BY ONLY <1>2, <1>3, <1>4, <1>5, <1>1
    <2>2. (i - 1) + (n - i) = n - 1
      BY ONLY <1>1, <1>2
    <2>3. ASSUME NEW k \in 1 .. n - 1, ~(k <= i - 1) PROVE b[k - (i - 1)] = q[k + 1]
      <3>1. k - (i - 1) \in 1 .. n - i /\ i + (k - (i - 1)) = k + 1
        BY ONLY <1>1, <1>2, <2>3
      <3> QED BY <1>5, <3>1
    <2>4. ASSUME NEW k \in 1 .. n - 1, k <= i - 1 PROVE a[k] = q[k]
      <3>1. k \in 1 .. i - 1
        BY ONLY <1>1, <1>2, <2>4
      <3> QED BY <1>4, <3>1
    <2> QED BY <2>1, <2>2, <2>3, <2>4
  <1>7. ToSet(u) \subseteq ToSet(q)
    <2>1. ASSUME NEW k \in 1 .. n - 1 PROVE \E j \in 1 .. n : u[k] = q[j]
      <3>1. k \in 1 .. n /\ k + 1 \in 1 .. n
        BY ONLY <1>1, <2>1
      <3> QED BY <1>6, <3>1
    <2>2. DOMAIN u = 1 .. n - 1 /\ DOMAIN q = 1 .. n
      BY ONLY <1>1, <1>6
    <2> HIDE DEF n
    <2> QED BY ONLY <2>1, <2>2 DEF ToSet
  <1>8. ASSUME NEW y \in ToSet(q) \ {x} PROVE y \in ToSet(u)
    <2>1. PICK j \in 1 .. n : q[j] = y
      BY <1>1 DEF ToSet
    <2>2. j # i
      BY <1>2, <2>1
    <2>3. CASE j < i
      <3>1. j \in 1 .. n - 1 /\ j <= i - 1
        BY ONLY <1>1, <1>2, <2>1, <2>3
      <3> QED BY <1>6, <2>1, <3>1 DEF ToSet
    <2>4. CASE j > i
      <3>1. j - 1 \in 1 .. n - 1 /\ ~(j - 1 <= i - 1) /\ (j - 1) + 1 = j
        BY ONLY <1>1, <1>2, <2>1, <2>4
      <3>2. u[j - 1] = q[(j - 1) + 1]
        BY <1>6, <3>1
      <3> QED BY <1>6, <2>1, <3>1, <3>2 DEF ToSet
    <2> QED BY <1>1, <1>2, <2>2, <2>3, <2>4
  <1>9. Without(q, x, u)
    BY <1>1, <1>2, <1>6 DEF n, Without
  <1> QED BY <1>6, <1>7, <1>8, <1>9

(* What removeCore leaves.                                                 *)
LEMMA KeptIs ==
  ASSUME NEW s, Sound(s), NEW f, IsLiteral(f) => TheLiteral(f) \in ToSet(s.assumptions), NEW t, t = Kept(s, f)
  PROVE  Sound(t) /\ \A y \in ToSet(s.assumptions) : (IsLiteral(f) => y # TheLiteral(f)) => y \in ToSet(t.assumptions)
  <1> DEFINE kept == IF IsLiteral(f) THEN received ELSE received \ {f}
             w == [c \in DOMAIN s.watch \cap kept |-> s.watch[c]]
             q == [i \in DOMAIN s.trail |-> IF s.trail[i].reason \in kept THEN s.trail[i]
                                            ELSE [s.trail[i] EXCEPT !.reason = NoClause]]
             a == IF IsLiteral(f) THEN WithoutFirst(s.assumptions, TheLiteral(f)) ELSE s.assumptions
  <1>1. /\ s \in State /\ s.watch \in Watching /\ DOMAIN s.watch \subseteq SUBSET Lit /\ s.assumptions \in Seq(Lit)
        /\ (\A c \in DOMAIN s.watch : s.watch[c] \subseteq Lit)
        /\ DOMAIN s.trail = 1 .. Len(s.trail) /\ Len(s.trail) \in Nat /\ \A i \in DOMAIN s.trail : s.trail[i] \in Entry
    BY Fields, WatchingIs DEF Sound
  <1>2. t = [s EXCEPT !.learnts = {}, !.watch = w, !.trail = q, !.assumptions = a, !.ok = TRUE]
    BY DEF Kept
  <1>3. w \in Watching /\ DOMAIN w \subseteq DOMAIN s.watch /\ \A c \in DOMAIN w : w[c] = s.watch[c]
    <2>1. w \in [DOMAIN s.watch \cap kept -> SUBSET Lit]
      BY <1>1
    <2>2. DOMAIN s.watch \cap kept \in SUBSET SUBSET Lit
      BY <1>1
    <2>3. DOMAIN w \subseteq DOMAIN s.watch /\ \A c \in DOMAIN w : w[c] = s.watch[c]
      OBVIOUS
    <2> HIDE DEF w, kept
    <2> QED BY <2>1, <2>2, <2>3, WatchingIs
  <1>4. /\ q \in Seq(Entry) /\ Len(q) = Len(s.trail) /\ DOMAIN q = DOMAIN s.trail
        /\ \A i \in DOMAIN s.trail : /\ q[i].lit = s.trail[i].lit /\ q[i].level = s.trail[i].level
                                     /\ q[i].pos = s.trail[i].pos /\ q[i].reason \subseteq s.trail[i].reason
    <2>1. ASSUME NEW i \in DOMAIN s.trail
          PROVE  /\ q[i] \in Entry /\ q[i].lit = s.trail[i].lit /\ q[i].level = s.trail[i].level
                 /\ q[i].pos = s.trail[i].pos /\ q[i].reason \subseteq s.trail[i].reason
      <3> DEFINE e == s.trail[i]
      <3>1. e \in Entry
        BY <1>1
      <3>2. q[i] = e \/ q[i] = [e EXCEPT !.reason = {}]
        BY DEF NoClause
      <3> HIDE DEF e, q
      <3>3. /\ q[i] \in Entry /\ q[i].lit = e.lit /\ q[i].level = e.level
            /\ q[i].pos = e.pos /\ q[i].reason \subseteq e.reason
        BY ONLY <3>1, <3>2 DEF Entry
      <3> QED BY <3>3 DEF e
    <2>2. DOMAIN q = 1 .. Len(s.trail)
      BY <1>1
    <2>3. q = [i \in 1 .. Len(s.trail) |-> q[i]]
      BY <1>1
    <2> DEFINE n == Len(s.trail)
    <2> HIDE DEF q, n
    <2>4. q \in [1 .. n -> Entry] /\ n \in Nat
      BY <1>1, <2>1, <2>3 DEF n
    <2>5. q \in Seq(Entry) /\ Len(q) = n
      BY ONLY <2>4
    <2> QED BY <1>1, <2>1, <2>2, <2>5 DEF n
  <1>5. /\ a \in Seq(Lit) /\ ToSet(a) \subseteq ToSet(s.assumptions)
        /\ \A y \in ToSet(s.assumptions) : (IsLiteral(f) => y # TheLiteral(f)) => y \in ToSet(a)
    <2>1. CASE IsLiteral(f)
      <3> DEFINE x == TheLiteral(f)
      <3>1. x \in ToSet(s.assumptions) /\ a = WithoutFirst(s.assumptions, x)
        BY <2>1
      <3> HIDE DEF a, x
      <3>2. a \in Seq(Lit) /\ ToSet(a) \subseteq ToSet(s.assumptions) /\ \A y \in ToSet(s.assumptions) \ {x} : y \in ToSet(a)
        BY <1>1, <3>1, WithoutFirstIs
      <3> QED BY <2>1, <3>2 DEF x
    <2>2. CASE ~IsLiteral(f)
      BY <1>1, <2>2
    <2> QED BY <2>1, <2>2
  <1> HIDE DEF a, q, w, kept
  <1>6. t \in State
    BY ONLY <1>1, <1>2, <1>3, <1>4, <1>5 DEF State
  <1>7. /\ t.trail = q /\ t.qhead = s.qhead /\ t.level = s.level /\ t.info = s.info /\ t.assumptions = a
        /\ t.changed = s.changed /\ t.props = s.props /\ t.watch = w /\ t.learnts = {} /\ t.known = s.known
        /\ t.relevant = s.relevant /\ t.passed = s.passed /\ t.changedPassed = s.changedPassed
    BY ONLY <1>1, <1>2, <1>6 DEF State
  <1>8. Ordered(t) /\ QueueFresh(t)
    <2>1. Once(t) /\ LevelsRise(t)
      BY <1>4, <1>7 DEF Sound, Ordered, Once, LevelsRise
    <2>2. \A i \in DOMAIN s.trail : \A l : AssignedBefore(s, i, l) => AssignedBefore(t, i, l)
      BY <1>1, <1>4, <1>7 DEF AssignedBefore
    <2>3. ReasonsEarlier(t)
      BY <1>4, <1>7, <2>2 DEF Sound, Ordered, ReasonsEarlier
    <2>4. QueueFresh(t)
      BY <1>4, <1>7 DEF Sound, QueueFresh
    <2> QED BY <2>1, <2>3, <2>4 DEF Ordered
  <1>9. KnownFirst(t)
    <2>1. \A i \in DOMAIN a : VarOf(a[i]) \in s.known
      <3>1. \A y \in ToSet(s.assumptions) : VarOf(y) \in s.known
        BY DEF Sound, KnownFirst, ToSet
      <3>2. \A i \in DOMAIN a : a[i] \in ToSet(a)
        BY DEF ToSet
      <3> QED BY <1>5, <3>1, <3>2
    <2>2. \A i \in DOMAIN t.trail : VarOf(t.trail[i].lit) \in t.known
      BY <1>4, <1>7 DEF Sound, KnownFirst
    <2> QED BY <1>3, <1>7, <2>1, <2>2 DEF Sound, KnownFirst
  <1>10. WatchesTwo(t) /\ Placed(t)
    BY <1>3, <1>4, <1>7 DEF Sound, WatchesTwo, Placed
  <1>11. Counted(t)
    <2>1. \A k : (IsTrue(t, k) <=> IsTrue(s, k)) /\ (FixedTrue(t, k) <=> FixedTrue(s, k))
      BY <1>4, <1>7, TrueIs
    <2>2. \A k : Due(t, k) = Due(s, k)
      BY <1>7, <2>1 DEF Due
    <2> QED BY <1>7, <2>1, <2>2 DEF Sound, Counted
  <1> QED BY <1>5, <1>6, <1>7, <1>8, <1>9, <1>10, <1>11 DEF Sound

-----------------------------------------------------------------------------
(* The steps of the module.                                                *)

Good == Sound(sat) /\ Phase /\ Requested

LEMMA InitGood ==
  ASSUME Init
  PROVE  Good
  <1>1. /\ sat.trail = <<>> /\ sat.level = 0 /\ sat.qhead = 0 /\ sat.assumptions = <<>> /\ DOMAIN sat.watch = {}
        /\ sat.learnts = {} /\ sat.known = {} /\ sat.relevant = {} /\ DOMAIN sat.info = {} /\ sat.passed = {}
        /\ sat.props = <<>> /\ ~sat.changedPassed
    BY DEF Init
  <1>2. sat \in State
    <2> DEFINE w == [c \in {} |-> {}]
               i == [l \in {} |-> 0]
    <2>1. w \in Watching /\ i \in Counting
      <3>1. w \in [{} -> SUBSET Lit] /\ i \in [{} -> {-1, 0, 1}] /\ {} \in SUBSET SUBSET Lit /\ {} \in SUBSET Lit
        OBVIOUS
      <3> HIDE DEF w, i
      <3> QED BY <3>1, WatchingIs, CountingIs
    <2>2. sat = [trail |-> <<>>, level |-> 0, qhead |-> 0, assumptions |-> <<>>, watch |-> w, learnts |-> {},
                 ok |-> TRUE, known |-> {}, relevant |-> {}, info |-> i, changed |-> {}, passed |-> {},
                 changedPassed |-> FALSE, consistent |-> "SAT", excluded |-> FALSE, props |-> <<>>, model |-> {}]
      BY DEF Init, NoModel
    <2> HIDE DEF w, i
    <2> QED BY ONLY <2>1, <2>2 DEF State
  <1>3. Ordered(sat) /\ QueueFresh(sat)
    BY <1>1 DEF Ordered, Once, LevelsRise, ReasonsEarlier, QueueFresh
  <1>4. KnownFirst(sat) /\ WatchesTwo(sat)
    BY <1>1 DEF KnownFirst, WatchesTwo, Within
  <1>5. Counted(sat) /\ Placed(sat)
    BY <1>1 DEF Counted, Placed
  <1>6. Phase /\ Requested
    BY DEF Init, Phase, Requested
  <1> QED BY <1>2, <1>3, <1>4, <1>5, <1>6 DEF Good, Sound

(* Nothing is to propagate but while propagating.                          *)
LEMMA NothingToDo ==
  ASSUME Good, pc # "propagate"
  PROVE  todo = {}
  BY DEF Good, Phase

LEMMA FinishGood ==
  ASSUME Good, NEW s, Sound(s), ToSet(sat.assumptions) \subseteq ToSet(s.assumptions),
         NEW result \in {"SAT", "UNSAT", "UNKNOWN"}, Finish(s, result)
  PROVE  Good'
  <1> DEFINE o == IF result = "UNSAT" THEN FALSE ELSE s.ok
  <1>1. o \in BOOLEAN /\ sat' = [s EXCEPT !.excluded = FALSE, !.ok = o]
    BY DEF Finish, Sound, State
  <1> HIDE DEF o
  <1>2. Sound(sat') /\ sat'.assumptions = s.assumptions
    BY <1>1, MarkedSome DEF Marked
  <1>3. Phase'
    BY DEF Finish, Phase
  <1>4. Requested'
    <2>1. UNCHANGED <<script, received>> /\ answer' = result
      BY DEF Finish
    <2> QED BY <1>2, <2>1 DEF Good, Requested
  <1> QED BY <1>2, <1>3, <1>4 DEF Good

LEMMA ContinueGood ==
  ASSUME Good, todo = {}, NEW s, Sound(s), ToSet(sat.assumptions) \subseteq ToSet(s.assumptions), Continue(s)
  PROVE  Good'
  <1>1. sat' = s /\ UNCHANGED <<script, received, todo, conflict, answer>>
    BY DEF Continue
  <1>2. pc' \in {"propagate", "decide"} /\ (pc' = "decide" => ~(s.qhead < Len(s.trail)))
    BY DEF Continue
  <1>3. s.qhead <= Len(s.trail) /\ s.qhead \in Nat /\ Len(s.trail) \in Nat
    BY Fields DEF Sound, QueueFresh
  <1>4. Phase'
    BY <1>1, <1>2, <1>3 DEF Phase
  <1>5. Requested'
    BY <1>1 DEF Good, Requested
  <1> QED BY <1>1, <1>4, <1>5 DEF Good

LEMMA StoredGood ==
  ASSUME Good, todo = {}, NEW r, StoreOK(r), ToSet(sat.assumptions) \subseteq ToSet(r.s.assumptions), Stored(r)
  PROVE  Good'
  <1>1. Sound(r.s) /\ (r.conflict # NoConflict => ConflictNow(r.s, r.conflict))
    BY DEF StoreOK
  <1>2. CASE /\ r.conflict # NoConflict
             /\ sat' = r.s /\ conflict' = r.conflict /\ pc' = "conflict"
             /\ UNCHANGED <<script, received, todo, conflictC, answer>>
    <2>1. Phase'
      BY <1>1, <1>2 DEF Phase
    <2>2. Requested'
      BY <1>2 DEF Good, Requested
    <2> QED BY <1>1, <1>2, <2>1, <2>2 DEF Good
  <1>3. CASE Finish(r.s, Refuted(r.s))
    <2>1. Refuted(r.s) \in {"SAT", "UNSAT", "UNKNOWN"}
      BY DEF Refuted
    <2> QED BY <1>1, <1>3, <2>1, FinishGood
  <1>4. CASE Continue(r.s)
    BY <1>1, <1>4, ContinueGood
  <1> QED BY <1>2, <1>3, <1>4 DEF Stored

LEMMA AddCoreGood ==
  ASSUME Good, NEW f, AddCore(f)
  PROVE  Good'
  <1> DEFINE b == Back(sat)
             s == CreateLiterals(b, f, FALSE)
  <1>1. script \in Scripts /\ f \in ToSet(script) /\ pc = "idle" /\ Sound(sat)
    BY DEF AddCore, MayBeAdded, Good, Requested, ToSet
  <1>2. f \subseteq Lit /\ f # {}
    BY <1>1, ScriptLiterals
  <1>3. Sound(b) /\ b.assumptions = sat.assumptions
    BY <1>1, BackIs
  <1> HIDE DEF b
  <1>4. Sound(s) /\ Created(b, s, f)
    <2>1. FALSE \in BOOLEAN
      OBVIOUS
    <2> QED BY <1>2, <1>3, <2>1, CreateLiteralsIs
  <1>5. sat' = IF IsLiteral(f) THEN [s EXCEPT !.assumptions = Append(@, TheLiteral(f))]
               ELSE Attach(s, f, {First(s, f), Second(s, f)})
    BY DEF AddCore, b
  <1> HIDE DEF s
  <1>6. s.assumptions = sat.assumptions /\ Within(f, s.known)
    BY <1>3, <1>4 DEF Created
  <1>7. /\ Sound(sat') /\ ToSet(sat.assumptions) \subseteq ToSet(sat'.assumptions)
        /\ IsLiteral(f) => TheLiteral(f) \in ToSet(sat'.assumptions)
    <2>1. CASE IsLiteral(f)
      <3> DEFINE x == TheLiteral(f)
      <3>1. x \in Lit /\ VarOf(x) \in s.known
        BY <1>2, <1>6, <2>1, UnitLiteral DEF Within
      <3>2. Assuming(s, sat', x)
        BY <1>5, <2>1 DEF Assuming
      <3> HIDE DEF x
      <3>3. Sound(sat') /\ Extends(s, sat') /\ sat'.assumptions = Append(s.assumptions, x)
        BY ONLY <1>4, <3>1, <3>2, AssumptionAdded
      <3>4. x \in ToSet(Append(s.assumptions, x))
        <4>1. s.assumptions \in Seq(Lit)
          BY <1>4, Fields DEF Sound
        <4> DEFINE q == Append(s.assumptions, x)
                   n == Len(s.assumptions) + 1
        <4>2. n \in DOMAIN q /\ q[n] = x
          BY <3>1, <4>1
        <4> HIDE DEF q, n
        <4>3. x \in ToSet(q)
          BY <4>2 DEF ToSet
        <4> QED BY <4>3 DEF q
      <3> QED BY <1>6, <3>3, <3>4 DEF Extends, x
    <2>2. CASE ~IsLiteral(f)
      <3> DEFINE x == First(s, f)
                 y == Second(s, f)
                 L == s.learnts
      <3>1. x \in f /\ y \in f /\ x # y
        BY <1>2, <1>4, <2>2, FirstAndSecond, Fields DEF Sound, Ordered
      <3>2. [s EXCEPT !.learnts = L] = s
        BY <1>4 DEF Sound, State
      <3>3. sat' = Attach([s EXCEPT !.learnts = L], f, {x, y}) /\ L \subseteq s.learnts \cup {f}
        BY <1>5, <2>2, <3>2
      <3> HIDE DEF x, y, L
      <3>4. Sound(sat') /\ Attached(s, sat', f)
        BY ONLY <1>2, <1>4, <1>6, <3>1, <3>3, AttachIs
      <3> QED BY <1>6, <2>2, <3>4 DEF Attached
    <2> QED BY <2>1, <2>2
  <1>8. todo = {}
    BY <1>1, NothingToDo
  <1>9. UNCHANGED <<script, pc, todo, conflict>> /\ answer' = "none" /\ received' = received \cup {f}
    BY DEF AddCore
  <1>10. Phase'
    BY <1>1, <1>8, <1>9 DEF Phase
  <1>11. Requested'
    <2>1. \A g \in received' : IsLiteral(g) => TheLiteral(g) \in ToSet(sat'.assumptions)
      BY <1>7, <1>9 DEF Good, Requested
    <2> QED BY <1>1, <1>9, <2>1 DEF Good, Requested
  <1> QED BY <1>7, <1>10, <1>11 DEF Good

LEMMA RemoveCoreGood ==
  ASSUME Good, NEW f, RemoveCore(f)
  PROVE  Good'
  <1> DEFINE b == Back(sat)
  <1>1. f \in received /\ pc = "idle" /\ Sound(sat) /\ sat' = Kept(b, f)
    BY DEF RemoveCore, Good
  <1>2. Sound(b) /\ b.assumptions = sat.assumptions
    BY <1>1, BackIs
  <1> HIDE DEF b
  <1>3. IsLiteral(f) => TheLiteral(f) \in ToSet(b.assumptions)
    BY <1>1, <1>2 DEF Good, Requested
  <1>4. Sound(sat') /\ \A y \in ToSet(b.assumptions) : (IsLiteral(f) => y # TheLiteral(f)) => y \in ToSet(sat'.assumptions)
    BY ONLY <1>1, <1>2, <1>3, KeptIs
  <1>5. todo = {}
    BY <1>1, NothingToDo
  <1>6. UNCHANGED <<script, pc, todo, conflict>> /\ answer' = "none" /\ received' = received \ {f}
    BY DEF RemoveCore
  <1>7. Phase'
    BY <1>1, <1>5, <1>6 DEF Phase
  <1>8. Requested'
    <2>1. ASSUME NEW g \in received', IsLiteral(g) PROVE TheLiteral(g) \in ToSet(sat'.assumptions)
      <3>1. g \in received /\ g # f /\ TheLiteral(g) \in ToSet(b.assumptions)
        BY <1>2, <1>6, <2>1 DEF Good, Requested
      <3>2. IsLiteral(f) => TheLiteral(g) # TheLiteral(f)
        BY <2>1, <3>1, UnitLiteral
      <3> QED BY <1>4, <3>1, <3>2
    <2> QED BY <1>6, <2>1 DEF Good, Requested
  <1> QED BY <1>4, <1>7, <1>8 DEF Good

LEMMA CheckCoreGood ==
  ASSUME Good, CheckCore
  PROVE  Good'
  <1>1. pc = "idle" /\ Sound(sat) /\ todo = {}
    BY NothingToDo DEF CheckCore, Good
  <1>2. UNCHANGED <<script, received, todo, conflict>>
    BY DEF CheckCore
  <1>3. /\ \/ sat' = [sat EXCEPT !.consistent = "SAT"] /\ pc' = "propagate"
           \/ sat' = sat /\ pc' = pc
        /\ answer' \in {"none", "UNSAT"}
    <2>1. CASE sat.ok
      BY <2>1 DEF CheckCore
    <2>2. CASE ~sat.ok
      BY <2>2 DEF CheckCore
    <2> QED BY <2>1, <2>2
  <1>4. Sound(sat') /\ sat'.assumptions = sat.assumptions
    <2>1. CASE sat' = [sat EXCEPT !.consistent = "SAT"]
      <3>1. Sound(sat') /\ Marked(sat, sat')
        BY ONLY <1>1, <2>1, MarkedSome
      <3> QED BY <3>1 DEF Marked
    <2>2. CASE sat' = sat
      BY <1>1, <2>2
    <2> QED BY <1>3, <2>1, <2>2
  <1>5. Phase'
    BY <1>1, <1>2, <1>3 DEF Phase
  <1>6. Requested'
    BY <1>2, <1>3, <1>4 DEF Good, Requested
  <1> QED BY <1>4, <1>5, <1>6 DEF Good

LEMMA DequeueGood ==
  ASSUME Good, Dequeue
  PROVE  Good'
  <1> DEFINE n == sat.qhead + 1
             l == sat.trail[n].lit
  <1>1. /\ Sound(sat) /\ pc = "propagate" /\ sat.qhead < Len(sat.trail)
        /\ sat.qhead \in Nat /\ Len(sat.trail) \in Nat /\ DOMAIN sat.trail = 1 .. Len(sat.trail)
    BY Fields DEF Good, Dequeue, Sound
  <1>2. n \in Nat /\ sat.qhead <= n /\ n <= Len(sat.trail) /\ n \in DOMAIN sat.trail /\ n > sat.qhead
    BY <1>1
  <1>3. sat' = [sat EXCEPT !.qhead = n] /\ todo' = {c \in DOMAIN sat.watch : -l \in sat.watch[c]}
        /\ UNCHANGED <<script, received, pc, conflict, answer>>
    BY DEF Dequeue
  <1>4. sat.trail[n].level = sat.level
    BY <1>1, <1>2 DEF Sound, QueueFresh
  <1> HIDE DEF n
  <1>5. /\ Sound(sat') /\ sat'.trail = sat.trail /\ sat'.qhead = n /\ sat'.level = sat.level
        /\ sat'.watch = sat.watch /\ sat'.assumptions = sat.assumptions
    BY <1>1, <1>2, <1>3, QueueMoved
  <1>6. Phase'
    BY <1>1, <1>2, <1>3, <1>4, <1>5 DEF Phase
  <1>7. Requested'
    BY <1>3, <1>5 DEF Good, Requested
  <1> QED BY <1>5, <1>6, <1>7 DEF Good

LEMMA SkipGood ==
  ASSUME Good, NEW c \in todo, Skip(c)
  PROVE  Good'
  BY DEF Good, Skip, Phase, Requested

(* A visited clause watches two literals: the negative of the one dequeued *)
(* and another.                                                            *)
LEMMA OtherIs ==
  ASSUME Good, NEW c \in todo
  PROVE  LET l == -sat.trail[sat.qhead].lit
             o == Other(sat, c)
         IN  /\ c \in DOMAIN sat.watch /\ c \subseteq Lit /\ Within(c, sat.known) /\ l \in c /\ o \in c /\ o # l
             /\ sat.watch[c] = {l, o} /\ pc = "propagate" /\ Assigned(sat, l) /\ OfNow(sat, c)
  <1> DEFINE l == -sat.trail[sat.qhead].lit
             o == Other(sat, c)
  <1>1. /\ c \in DOMAIN sat.watch /\ l \in sat.watch[c] /\ pc = "propagate" /\ sat.qhead \in DOMAIN sat.trail
        /\ sat.trail[sat.qhead].level = sat.level /\ Sound(sat)
    BY DEF Good, Phase
  <1>2. PICK a, b \in c : a # b /\ sat.watch[c] = {a, b}
    BY <1>1 DEF Sound, WatchesTwo
  <1>3. \E k \in sat.watch[c] : k # l
    BY <1>2
  <1>4. o \in sat.watch[c] /\ o # l
    BY <1>3 DEF Other
  <1>5. c \subseteq Lit /\ Within(c, sat.known)
    BY <1>1, Fields, WatchingIs DEF Sound, KnownFirst
  <1>6. sat.trail[sat.qhead].lit \in Lit
    BY <1>1, Fields DEF Sound
  <1>7. VarOf(l) = VarOf(sat.trail[sat.qhead].lit)
    BY <1>6, Literals
  <1> HIDE DEF l, o
  <1>8. l \in c /\ o \in c /\ sat.watch[c] = {l, o}
    BY <1>1, <1>2, <1>4
  <1>9. Assigned(sat, l) /\ OfNow(sat, c)
    BY <1>1, <1>7, <1>8 DEF Assigned, OfNow
  <1> QED BY <1>1, <1>4, <1>5, <1>8, <1>9 DEF l, o

LEMMA RewatchGood ==
  ASSUME Good, NEW c \in todo, Rewatch(c)
  PROVE  Good'
  <1> DEFINE o == Other(sat, c)
  <1>1. c \in DOMAIN sat.watch /\ o \in c /\ o \in sat.watch[c] /\ pc = "propagate" /\ Sound(sat)
    BY OtherIs DEF Good
  <1>2. PICK l \in Candidates(sat, c) : sat' = [sat EXCEPT !.watch[c] = {o, l}]
    BY DEF Rewatch
  <1>3. todo' = todo \ {c} /\ UNCHANGED <<script, received, pc, conflict, answer>>
    BY DEF Rewatch
  <1> HIDE DEF o
  <1>4. l \in c /\ o # l
    BY <1>1 DEF Candidates
  <1>5. /\ Sound(sat') /\ sat'.trail = sat.trail /\ sat'.level = sat.level /\ sat'.qhead = sat.qhead
        /\ sat'.assumptions = sat.assumptions /\ DOMAIN sat'.watch = DOMAIN sat.watch
        /\ \A d \in DOMAIN sat.watch \ {c} : sat'.watch[d] = sat.watch[d]
    BY <1>1, <1>2, <1>4, WatchMoved
  <1>6. Phase'
    BY <1>1, <1>3, <1>5 DEF Good, Phase
  <1>7. Requested'
    BY <1>3, <1>5 DEF Good, Requested
  <1> QED BY <1>5, <1>6, <1>7 DEF Good

(* Without a candidate, all but the other watched literal is false.        *)
LEMMA OthersFalse ==
  ASSUME Good, NEW c \in todo, Candidates(sat, c) = {}
  PROVE  \A l \in c \ {Other(sat, c)} : Assigned(sat, l)
  <1>1. /\ c \subseteq Lit /\ sat.watch[c] = {-sat.trail[sat.qhead].lit, Other(sat, c)}
        /\ Assigned(sat, -sat.trail[sat.qhead].lit)
    BY OtherIs
  <1>2. sat.trail \in Seq(Entry)
    BY Fields DEF Good, Sound
  <1>3. ASSUME NEW l \in c \ sat.watch[c] PROVE Assigned(sat, l)
    <2>1. IsFalse(sat, l)
      BY DEF Candidates
    <2> QED BY <1>1, <1>2, <2>1, Values
  <1> QED BY <1>1, <1>3

LEMMA PropagateGood ==
  ASSUME Good, NEW c \in todo, Propagate(c)
  PROVE  Good'
  <1> DEFINE o == Other(sat, c)
  <1>1. Candidates(sat, c) = {} /\ Unassigned(sat, o) /\ sat' = Enqueue(sat, o, c, o, 0) /\ todo' = todo \ {c}
        /\ UNCHANGED <<script, received, pc, conflict, answer>>
    BY DEF Propagate
  <1>2. c \subseteq Lit /\ Within(c, sat.known) /\ o \in c /\ Sound(sat) /\ pc = "propagate"
    BY OtherIs DEF Good
  <1>3. \A l \in c \ {o} : Assigned(sat, l)
    BY <1>1, OthersFalse
  <1> HIDE DEF o
  <1>4. o \in Lit /\ o \in Int /\ VarOf(o) \in sat.known
    BY <1>2, Literals DEF Within
  <1>5. Sound(sat') /\ Extends(sat, sat') /\ Enqueued(sat, sat', o, NewEntry(sat, o, c, o, 0))
    BY ONLY <1>1, <1>2, <1>3, <1>4, EnqueuePlain
  <1>6. /\ sat'.level = sat.level /\ sat'.qhead = sat.qhead /\ sat'.watch = sat.watch
        /\ sat'.assumptions = sat.assumptions
        /\ \A i \in DOMAIN sat.trail : /\ i \in DOMAIN sat'.trail /\ sat'.trail[i].lit = sat.trail[i].lit
                                       /\ sat'.trail[i].level = sat.trail[i].level
    BY <1>5 DEF Extends, Enqueued, Same
  <1>7. Phase'
    <2>1. /\ sat.qhead \in DOMAIN sat.trail /\ sat.trail[sat.qhead].level = sat.level
          /\ \A d \in todo : d \in DOMAIN sat.watch /\ -sat.trail[sat.qhead].lit \in sat.watch[d]
      BY DEF Good, Phase
    <2> QED BY <1>1, <1>2, <1>6, <2>1 DEF Phase
  <1>8. Requested'
    BY <1>1, <1>6 DEF Good, Requested
  <1> QED BY <1>5, <1>7, <1>8 DEF Good

LEMMA FoundConflictGood ==
  ASSUME Good, NEW c \in todo, FoundConflict(c)
  PROVE  Good'
  <1> DEFINE o == Other(sat, c)
             n == Len(sat.trail)
  <1>1. /\ Candidates(sat, c) = {} /\ IsFalse(sat, o) /\ conflict' = [clause |-> c, first |-> o]
        /\ sat' = [sat EXCEPT !.qhead = n] /\ todo' = {} /\ pc' = "conflict"
        /\ UNCHANGED <<script, received, answer>>
    BY DEF FoundConflict, NoteConflict
  <1>2. c \subseteq Lit /\ o \in c /\ Sound(sat) /\ OfNow(sat, c)
    BY OtherIs DEF Good
  <1>3. \A l \in c \ {o} : Assigned(sat, l)
    BY <1>1, OthersFalse
  <1>4. n \in Nat /\ sat.qhead <= n /\ sat.trail \in Seq(Entry)
    BY <1>2, Fields DEF Sound, QueueFresh
  <1>5. Assigned(sat, o) /\ o \in Int
    BY <1>1, <1>2, <1>4, Values, Literals
  <1> HIDE DEF o
  <1>6. /\ Sound(sat') /\ sat'.trail = sat.trail /\ sat'.level = sat.level
        /\ sat'.assumptions = sat.assumptions
    <2>1. n <= Len(sat.trail)
      BY <1>4
    <2> HIDE DEF n
    <2> QED BY <1>1, <1>2, <1>4, <2>1, QueueMoved
  <1>7. ConflictNow(sat', conflict')
    <2>1. \A l \in c : Assigned(sat', l)
      BY <1>3, <1>5, <1>6 DEF Assigned
    <2>2. OfNow(sat', c)
      BY <1>2, <1>6 DEF OfNow
    <2> QED BY <1>1, <1>2, <1>5, <2>1, <2>2 DEF ConflictNow
  <1>8. Phase'
    BY <1>1, <1>7 DEF Phase
  <1>9. Requested'
    BY <1>1, <1>6 DEF Good, Requested
  <1> QED BY <1>6, <1>8, <1>9 DEF Good

LEMMA NoTheoryGood ==
  ASSUME Good, NoTheory
  PROVE  Good'
  <1> DEFINE s == IF TheoryCalled THEN BeforeCall ELSE sat
  <1>1. todo = {} /\ Sound(sat) /\ (TheoryCalled => ~s.changedPassed) /\ Continue(s)
    BY DEF NoTheory, Propagated, Good
  <1>2. Sound(s) /\ s.assumptions = sat.assumptions
    <2>1. CASE s = sat
      BY <1>1, <2>1
    <2>2. CASE s # sat
      <3>1. s = Adapt(sat) /\ ~s.changedPassed
        BY <1>1, <2>2 DEF BeforeCall
      <3> HIDE DEF s
      <3>2. Sound(s) /\ Adapted(sat, s)
        BY <1>1, <3>1, AdaptIs
      <3> QED BY <3>2 DEF Adapted
    <2> QED BY <2>1, <2>2
  <1> HIDE DEF s
  <1> QED BY <1>1, <1>2, ContinueGood

(* What is passed is assigned when the backends are called.                *)
LEMMA BeforeCallIs ==
  ASSUME Sound(sat), NEW s, s = BeforeCall, s.changedPassed \/ AllAssigned(s)
  PROVE  /\ Ready(s) /\ s.assumptions = sat.assumptions
         /\ s.passed \subseteq Lit /\ \A l \in s.passed : Assigned(s, l) /\ VarOf(l) \in s.known
  <1>1. Ready(s) /\ s.assumptions = sat.assumptions
    <2>1. CASE sat.consistent # "SAT"
      <3>1. s = Adapt(sat)
        BY <2>1 DEF BeforeCall
      <3>2. Ready(s) /\ Adapted(sat, s)
        BY <3>1, AdaptReady
      <3> QED BY <3>2 DEF Adapted
    <2>2. CASE sat.consistent = "SAT"
      <3>1. s = sat
        BY <2>2 DEF BeforeCall
      <3> QED BY <3>1 DEF Sound, Counted, Ready, Exact
    <2> QED BY <2>1, <2>2
  <1>2. /\ s.passed \subseteq Lit /\ s.trail \in Seq(Entry)
        /\ \A l \in s.passed : VarOf(l) \in s.known
    <2>1. s.passed \subseteq DOMAIN s.info /\ DOMAIN s.info = {l \in Lit : VarOf(l) \in s.known \cap TheoryVar}
      BY <1>1 DEF Ready, Exact, KnownFirst
    <2>2. s.trail \in Seq(Entry)
      BY <1>1, Fields DEF Ready
    <2> QED BY <2>1, <2>2
  <1>3. ASSUME NEW l \in s.passed PROVE Assigned(s, l)
    <2>1. l \in Lit /\ VarOf(l) \in s.known
      BY <1>2
    <2>2. CASE IsTrue(s, l)
      BY <1>2, <2>1, <2>2, Values
    <2>3. CASE AllAssigned(s)
      <3> DEFINE v == VarOf(l)
      <3>1. v \in Lit /\ VarOf(v) = VarOf(l) /\ ~Unassigned(s, v)
        BY <2>1, <2>3, Literals DEF AllAssigned
      <3> HIDE DEF v
      <3>2. Assigned(s, v)
        BY <1>2, <3>1, Values
      <3> QED BY <3>1, <3>2 DEF Assigned
    <2>4. CASE sat.consistent # "SAT"
      <3>1. s = Adapt(sat)
        BY <2>4 DEF BeforeCall
      <3>2. Adapted(sat, s)
        BY <3>1, AdaptReady
      <3>3. IsTrue(s, l)
        BY <3>2 DEF Adapted, IsTrue, TrueLits, Entries
      <3> QED BY <2>2, <3>3
    <2>5. CASE sat.consistent = "SAT" /\ s.changedPassed
      <3>1. s = sat
        BY <2>5 DEF BeforeCall
      <3>2. FixedTrue(s, l)
        BY <2>5, <3>1 DEF Sound, Counted
      <3> QED BY <2>2, <3>2, TrueIs
    <2> QED BY <2>3, <2>4, <2>5
  <1> QED BY <1>1, <1>2, <1>3

LEMMA AnswersIs ==
  ASSUME sat.model \subseteq Lit, NEW P, NEW a \in Answers(P)
  PROVE  a.answer \in {"SAT", "UNSAT", "UNKNOWN"} /\ a.model \in SUBSET Lit
  <1>1. TheoryModels \subseteq SUBSET Lit
    <2>1. TheoryVar \subseteq Lit /\ \A v \in TheoryVar : -v \in Lit
      BY DEF Lit, Var
    <2> QED BY <2>1 DEF TheoryModels, Valuations
  <1> QED BY <1>1 DEF Answers, NoModel

LEMMA TheoryGood ==
  ASSUME Good, Theory
  PROVE  Good'
  <1> DEFINE s == BeforeCall
             P == s.passed
  <1>1. todo = {} /\ Sound(sat) /\ (s.changedPassed \/ AllAssigned(s))
    BY DEF Theory, Propagated, Good
  <1>2. /\ Ready(s) /\ s.assumptions = sat.assumptions
        /\ P \subseteq Lit /\ \A l \in P : Assigned(s, l) /\ VarOf(l) \in s.known
    BY <1>1, BeforeCallIs
  <1>3. PICK a \in Answers(P) : \E tps \in Propagations(P, MaxPropagations - used.props) :
          \E Ls \in Lemmas(MaxLemmas - Cardinality(used.lemmas)) : Stored(TheoryRound(s, a, tps, Ls))
    BY DEF Theory
  <1> DEFINE n == MaxPropagations - used.props
             m == MaxLemmas - Cardinality(used.lemmas)
  <1>4. PICK tps \in Propagations(P, n) : \E Ls \in Lemmas(m) : Stored(TheoryRound(s, a, tps, Ls))
    BY <1>3
  <1>5. PICK Ls \in Lemmas(m) : Stored(TheoryRound(s, a, tps, Ls))
    BY <1>4
  <1> DEFINE u == [s EXCEPT !.changedPassed = FALSE, !.consistent = a.answer, !.model = a.model]
             r == TheoryRound(s, a, tps, Ls)
  <1>6. a.answer \in {"SAT", "UNSAT", "UNKNOWN"} /\ a.model \in SUBSET Lit
    <2>1. sat.model \subseteq Lit
      BY <1>1 DEF Sound, State
    <2> QED BY <2>1, AnswersIs
  <1> HIDE DEF s, P, n, m
  <1>7. Sound(u) /\ u.trail = s.trail /\ u.level = s.level /\ u.assumptions = s.assumptions /\ u.known = s.known
    <2>1. Asked(s, u, a.answer, a.model)
      BY DEF Asked
    <2> HIDE DEF u
    <2> QED BY ONLY <1>2, <1>6, <2>1, AskedIs
  <1>8. StoreOK(r) /\ ToSet(s.assumptions) \subseteq ToSet(r.s.assumptions)
    <2>1. Asked(s, u, a.answer, a.model)
      BY DEF Asked
    <2>2. r = TheoryRound(s, a, tps, Ls)
      OBVIOUS
    <2>3. a \in Answers(P) /\ tps \in Propagations(P, n) /\ Ls \in Lemmas(m)
      OBVIOUS
    <2> HIDE DEF r, u
    <2> QED BY ONLY <1>2, <1>7, <2>1, <2>2, <2>3, TheoryRoundIs
  <1> HIDE DEF r
  <1>9. Stored(r)
    BY <1>5 DEF r
  <1> QED BY ONLY Good, <1>1, <1>2, <1>8, <1>9, StoredGood

LEMMA DecidedIs ==
  ASSUME Sound(sat), sat.qhead = Len(sat.trail), NEW l \in Lit, Unassigned(sat, l), VarOf(l) \in sat.known,
         NEW t, t = Decided(sat, l)
  PROVE  Sound(t) /\ t.assumptions = sat.assumptions
  <1> DEFINE s == [sat EXCEPT !.level = @ + 1]
  <1>1. Sound(s) /\ s.trail = sat.trail /\ s.known = sat.known /\ s.assumptions = sat.assumptions
    BY LevelRaised
  <1>2. t = Enqueue(s, l, {}, 0, 0)
    BY DEF Decided, NoClause
  <1> HIDE DEF s
  <1>3. Unassigned(s, l) /\ VarOf(l) \in s.known
    BY <1>1, SameTrail DEF Unassigned, IsFalse, IsTrue
  <1>4. {} \subseteq Lit /\ 0 \in Int /\ \A k \in {} \ {l} : Assigned(s, k)
    OBVIOUS
  <1>5. Sound(t) /\ Enqueued(s, t, l, NewEntry(s, l, {}, 0, 0))
    BY ONLY l \in Lit, <1>1, <1>2, <1>3, <1>4, EnqueuePlain
  <1> QED BY <1>1, <1>5 DEF Enqueued

LEMMA AssumeGood ==
  ASSUME Good, Assume
  PROVE  Good'
  <1> DEFINE l == NextAssumption(sat)
  <1>1. Sound(sat) /\ pc = "decide" /\ todo = {} /\ sat.qhead = Len(sat.trail) /\ ~IsFalse(sat, l)
        /\ UNCHANGED <<script, received, todo, conflict, answer>>
    BY NothingToDo DEF Good, Assume, Phase
  <1>2. l \in Lit /\ VarOf(l) \in sat.known
    <2>1. sat.level + 1 \in DOMAIN sat.assumptions /\ sat.assumptions \in Seq(Lit)
      BY Fields DEF Assume, Pending, Good, Sound
    <2> QED BY <1>1, <2>1 DEF NextAssumption, Sound, KnownFirst
  <1>3. CASE IsTrue(sat, l)
    <2>1. sat' = [sat EXCEPT !.level = @ + 1] /\ UNCHANGED pc
      BY <1>3 DEF Assume
    <2>2. Sound(sat') /\ sat'.trail = sat.trail /\ sat'.qhead = sat.qhead /\ sat'.assumptions = sat.assumptions
      BY <1>1, <2>1, LevelRaised
    <2>3. Phase'
      BY <1>1, <2>1, <2>2 DEF Phase
    <2>4. Requested'
      BY <1>1, <2>2 DEF Good, Requested
    <2> QED BY <2>2, <2>3, <2>4 DEF Good
  <1>4. CASE ~IsTrue(sat, l)
    <2>1. sat' = Decided(sat, l) /\ pc' = "propagate"
      BY <1>4 DEF Assume
    <2>2. Unassigned(sat, l)
      BY <1>1, <1>4 DEF Unassigned
    <2> HIDE DEF l
    <2>3. Sound(sat') /\ sat'.assumptions = sat.assumptions
      BY <1>1, <1>2, <2>1, <2>2, DecidedIs
    <2>4. Phase'
      BY <1>1, <2>1 DEF Phase
    <2>5. Requested'
      BY <1>1, <2>3 DEF Good, Requested
    <2> QED BY <2>3, <2>4, <2>5 DEF Good
  <1> QED BY <1>3, <1>4

LEMMA DecideGood ==
  ASSUME Good, Decide
  PROVE  Good'
  <1>1. Sound(sat) /\ pc = "decide" /\ todo = {} /\ sat.qhead = Len(sat.trail) /\ pc' = "propagate"
        /\ UNCHANGED <<script, received, todo, conflict, answer>>
    BY NothingToDo DEF Good, Decide, Phase
  <1>a. PICK v \in sat.known : \E l \in {v, -v} : Unassigned(sat, v) /\ sat' = Decided(sat, l)
    BY DEF Decide
  <1>2. PICK l \in {v, -v} : Unassigned(sat, v) /\ sat' = Decided(sat, l)
    BY <1>a
  <1>3. v \in Lit /\ -v \in Lit /\ VarOf(l) = v /\ l \in Lit /\ -(-v) = v
    <2>1. v \in Var
      BY <1>1, Fields DEF Sound
    <2> QED BY <2>1, Literals
  <1>4. Unassigned(sat, l)
    BY <1>2, <1>3 DEF Unassigned, IsFalse, IsTrue
  <1>5. Sound(sat') /\ sat'.assumptions = sat.assumptions
    BY <1>1, <1>2, <1>3, <1>4, DecidedIs
  <1>6. Phase'
    BY <1>1 DEF Phase
  <1>7. Requested'
    BY <1>1, <1>5 DEF Good, Requested
  <1> QED BY <1>5, <1>6, <1>7 DEF Good

LEMMA FinishedGood ==
  ASSUME Good, AssumptionFails \/ AnswerSat \/ ConflictAtRoot
  PROVE  Good'
  <1>1. Sound(sat) /\ Refuted(sat) \in {"SAT", "UNSAT", "UNKNOWN"} /\ "SAT" \in {"SAT", "UNSAT", "UNKNOWN"}
    BY DEF Good, Refuted
  <1>2. Finish(sat, Refuted(sat)) \/ Finish(sat, "SAT")
    BY DEF AssumptionFails, AnswerSat, ConflictAtRoot
  <1>3. ToSet(sat.assumptions) \subseteq ToSet(sat.assumptions)
    OBVIOUS
  <1> QED BY ONLY Good, <1>1, <1>2, <1>3, FinishGood

(* The clause that excludes what is passed.                                *)
LEMMA ExcludingIs ==
  ASSUME Sound(sat)
  PROVE  ClausesOf(AddClause(sat, Negated(sat.passed)), sat.known)
  <1> DEFINE q == AddClause(sat, Negated(sat.passed))
             C == Negated(sat.passed)
             D == {l \in C : ~FixedFalse(sat, l)}
  <1>1. C \subseteq Lit /\ Within(C, sat.known)
    <2>1. sat.passed \subseteq DOMAIN sat.info /\ DOMAIN sat.info = {l \in Lit : VarOf(l) \in sat.known \cap TheoryVar}
      BY DEF Sound, Counted, KnownFirst
    <2>2. sat.passed \subseteq Lit /\ Within(sat.passed, sat.known)
      BY <2>1 DEF Within
    <2> QED BY <2>2, NegatedIs
  <1>2. D \subseteq Lit /\ Within(D, sat.known)
    BY <1>1 DEF Within
  <1>3. q = <<>> \/ q = <<D>>
    BY DEF AddClause
  <1> HIDE DEF D, q
  <1>4. CASE q = <<>>
    BY <1>4 DEF ClausesOf, q
  <1>5. CASE q = <<D>>
    <2>1. q \in Seq(SUBSET Lit) /\ DOMAIN q = {1} /\ q[1] = D
      BY ONLY <1>2, <1>5
    <2>2. \A i \in DOMAIN q : Within(q[i], sat.known)
      BY ONLY <1>2, <2>1
    <2> QED BY <2>1, <2>2 DEF ClausesOf, q
  <1> QED BY <1>3, <1>4, <1>5

LEMMA ExcludeGood ==
  ASSUME Good, Exclude
  PROVE  Good'
  <1> DEFINE s == [sat EXCEPT !.excluded = TRUE]
             q == AddClause(sat, Negated(sat.passed))
             r == StoreLemmas(s, q)
  <1>1. Sound(sat) /\ pc = "decide" /\ todo = {}
    BY NothingToDo DEF Good, Exclude, Excludable
  <1>2. Sound(s) /\ s.known = sat.known /\ s.assumptions = sat.assumptions
    BY <1>1, MarkedSome DEF Marked
  <1>4. ClausesOf(q, sat.known)
    BY <1>1, ExcludingIs
  <1> HIDE DEF s, q
  <1>5. StoreOK(r) /\ ToSet(sat.assumptions) \subseteq ToSet(r.s.assumptions)
    <2>1. q \in Seq(SUBSET Lit) /\ \A i \in DOMAIN q : Within(q[i], s.known)
      BY <1>2, <1>4 DEF ClausesOf
    <2>2. r = StoreLemmas(s, q)
      OBVIOUS
    <2> HIDE DEF r
    <2>3. StoreOK(r) /\ ToSet(s.assumptions) \subseteq ToSet(r.s.assumptions)
      BY ONLY <1>2, <2>1, <2>2, StoreLemmasIs
    <2> QED BY <1>2, <2>3
  <1>6. \/ sat' = r.s /\ pc' = "propagate" /\ UNCHANGED <<script, received, todo, conflict, conflictC, answer>>
        \/ Stored(r)
    BY DEF Exclude, s, q
  <1> HIDE DEF r
  <1>7. CASE sat' = r.s /\ pc' = "propagate" /\ UNCHANGED <<script, received, todo, conflict, conflictC, answer>>
    <2>1. Phase'
      BY <1>1, <1>7 DEF Phase
    <2>2. Requested'
      BY <1>5, <1>7 DEF Good, Requested
    <2> QED BY <1>5, <1>7, <2>1, <2>2 DEF Good, StoreOK
  <1>8. CASE Stored(r)
    BY ONLY Good, <1>1, <1>5, <1>8, StoredGood
  <1> QED BY <1>6, <1>7, <1>8

LEMMA RestartGood ==
  ASSUME Good, Restart
  PROVE  Good'
  <1> DEFINE c == CancelUntil(sat, 0, FALSE)
  <1>1. Sound(sat) /\ pc = "decide" /\ todo = {} /\ pc' = "propagate" /\ sat' = [c EXCEPT !.consistent = "SAT"]
        /\ UNCHANGED <<script, received, todo, conflict, answer>>
    BY NothingToDo DEF Good, Restart
  <1>2. Sound(c) /\ c.assumptions = sat.assumptions
    <2> DEFINE to == Target(sat, 0, FALSE)
    <2>1. CancelsTo(sat, 0, FALSE, c, to)
      BY DEF CancelsTo
    <2> HIDE DEF to, c
    <2>2. CancelRight(sat, c, to)
      BY ONLY <1>1, <2>1, 0 \in Nat, CancelIs
    <2> QED BY <2>2 DEF CancelRight, Cancelled, Fixed
  <1> HIDE DEF c
  <1>3. Sound(sat') /\ sat'.assumptions = sat.assumptions
    BY <1>1, <1>2, MarkedSome DEF Marked
  <1>4. Phase'
    BY <1>1 DEF Phase
  <1>5. Requested'
    BY <1>1, <1>3 DEF Good, Requested
  <1> QED BY <1>3, <1>4, <1>5 DEF Good

(* What handleConflict does, unless a literal was dropped.                 *)
LEMMA LearningIs ==
  ASSUME HandleConflict, "dropped" \notin history'
  PROVE  LET r == Resolve(sat, conflict.clause)
             u == r.uip
             m == Minimized(sat, r.clause, u)
             rest == m \ {u}
             to == IF rest = {} THEN 0 ELSE Max({Level(sat, l) : l \in rest})
             z == CHOOSE l \in rest : Level(sat, l) = to
         IN  Concluded(sat, conflict, r, u, m, rest, to, z) /\ \E X : Learning(sat, conflict, r, u, m, rest, to, z, X, sat')
  <1> DEFINE c == conflict
             r == Resolve(sat, c.clause)
             u == r.uip
             m == Minimized(sat, r.clause, u)
             rest == m \ {u}
             to == IF rest = {} THEN 0 ELSE Max({Level(sat, l) : l \in rest})
             z == CHOOSE l \in rest : Level(sat, l) = to
  <1>1. r.steps = 0 /\ rest # {} => ~\E l \in c.clause \ {u} : Level(sat, l) > Max({to, Len(sat.assumptions)})
    <2> DEFINE when == r.steps = 0 /\ rest # {} /\ \E l \in c.clause \ {u} : Level(sat, l) > Max({to, Len(sat.assumptions)})
    <2>1. \E tags : history' = history \cup (tags \cup Tag("dropped", when))
      BY DEF HandleConflict, Note
    <2> HIDE DEF when
    <2>2. ~when
      BY <2>1 DEF Tag
    <2> QED BY <2>2 DEF when
  <1>2. \E X : Learning(sat, c, r, u, m, rest, to, z, X, sat')
    BY DEF HandleConflict, Learning
  <1>3. Concluded(sat, c, r, u, m, rest, to, z)
    BY <1>1 DEF Concluded
  <1> QED BY ONLY <1>2, <1>3

LEMMA HandleConflictGood ==
  ASSUME Good, HandleConflict, NotYet({"dropped"})'
  PROVE  Good'
  <1> DEFINE c == conflict
             r == Resolve(sat, c.clause)
             u == r.uip
             m == Minimized(sat, r.clause, u)
             rest == m \ {u}
             to == IF rest = {} THEN 0 ELSE Max({Level(sat, l) : l \in rest})
             z == CHOOSE l \in rest : Level(sat, l) = to
  <1>1. Sound(sat) /\ pc = "conflict" /\ todo = {} /\ sat.level > Len(sat.assumptions) /\ ConflictNow(sat, c)
    BY NothingToDo DEF Good, HandleConflict, Phase
  <1>2. /\ conflict' = NoConflict /\ pc' = "propagate" /\ UNCHANGED <<script, received, todo, answer>>
    BY DEF HandleConflict
  <1>3. Concluded(sat, c, r, u, m, rest, to, z) /\ \E X : Learning(sat, c, r, u, m, rest, to, z, X, sat')
    BY LearningIs DEF NotYet
  <1>4. PICK X : Learning(sat, c, r, u, m, rest, to, z, X, sat')
    BY <1>3
  <1> HIDE DEF c, r, u, m, rest, to, z
  <1>6. Sound(sat') /\ sat'.assumptions = sat.assumptions
    BY ONLY <1>1, <1>3, <1>4, LearntIs
  <1>7. Phase'
    BY <1>1, <1>2 DEF Phase
  <1>8. Requested'
    BY <1>2, <1>6 DEF Good, Requested
  <1> QED BY <1>6, <1>7, <1>8 DEF Good

-----------------------------------------------------------------------------
(* No step overlooks a clause.                                             *)

(* The members that say so, and what a step may do to them.                *)
LEMMA SettledSame ==
  ASSUME NEW s, NEW t, t.trail = s.trail, t.level = s.level, t.qhead = s.qhead, t.watch = s.watch
  PROVE  /\ SettledBelow(s) => SettledBelow(t)
         /\ \A T : SettledSeen(s, T) => SettledSeen(t, T)
  BY DEF SettledBelow, SettledSeen, Dealt, Overlooked, FalseUpTo, Settled

LEMMA BackWatches ==
  ASSUME NEW s, Sound(s), NEW t, t = Back(s)
  PROVE  /\ Sound(t) /\ t.level = 0 /\ t.excluded = s.excluded /\ (s.level = 0 => t.ok = s.ok)
         /\ \A i \in DOMAIN t.trail : t.trail[i].level = 0 /\ i \in DOMAIN s.trail /\ s.trail[i].level = 0
         /\ SettledBelow(s) => SettledBelow(t)
         /\ SettledBelow(s) /\ (s.level = 0 => SettledSeen(s, {})) => SettledSeen(t, {})
  <1> DEFINE c == CancelUntil(s, 0, TRUE)
  <1>1. Sound(c) /\ Cancelled(s, c, 0) /\ c.level = IF s.level <= 0 THEN s.level ELSE 0
    <2>1. CancelsTo(s, 0, TRUE, c, 0)
      BY DEF Target, CancelsTo
    <2> HIDE DEF c
    <2>2. CancelRight(s, c, 0)
      BY ONLY <2>1, 0 \in Nat, Sound(s), CancelIs
    <2> QED BY ONLY <2>2 DEF CancelRight
  <1>2. t = Adapt(c)
    BY DEF Back
  <1> HIDE DEF c
  <1>3. /\ s.level \in Nat /\ c.level = 0 /\ (s.level = 0 => c = s) /\ c.excluded = s.excluded
        /\ \A i \in DOMAIN c.trail : i \in DOMAIN s.trail /\ c.trail[i].level = s.trail[i].level
    <2>1. s.level \in Nat
      BY Fields DEF Sound
    <2> QED BY <1>1, <2>1 DEF Cancelled, Same
  <1>4. \A i \in DOMAIN c.trail : c.trail[i].level = 0
    <2>1. \A i \in DOMAIN c.trail : c.trail[i].level \in Nat /\ c.trail[i].level <= 0
      BY <1>1, <1>3, Fields DEF Sound, Ordered, LevelsRise
    <2> QED BY <2>1
  <1>5. Sound(t) /\ Adapted(c, t)
    BY <1>1, <1>2, <1>4, AdaptIs
  <1>6. t.ok = c.ok
    <2>1. c \in State
      BY <1>1 DEF Sound
    <2> QED BY ONLY <1>2, <2>1 DEF Adapt, State
  <1>7. t.trail = c.trail /\ t.level = c.level /\ t.qhead = c.qhead /\ t.watch = c.watch /\ t.excluded = c.excluded
    BY <1>5 DEF Adapted
  <1>8. SettledBelow(s) => SettledBelow(c) /\ (s.level > 0 => SettledSeen(c, {}))
    <2>1. 0 \in Nat
      OBVIOUS
    <2> QED BY ONLY Sound(s), <1>1, <2>1, SettledBack
  <1>9. /\ SettledBelow(c) => SettledBelow(t)
        /\ SettledSeen(c, {}) => SettledSeen(t, {})
    BY ONLY <1>7, SettledSame
  <1>10. s.level = 0 \/ s.level > 0
    BY <1>3
  <1> QED BY <1>3, <1>4, <1>5, <1>6, <1>7, <1>8, <1>9, <1>10

LEMMA AddCoreWatches ==
  ASSUME Good, Watched, NEW f, AddCore(f), Good', Quiet'
  PROVE  Watched'
  <1> DEFINE b == Back(sat)
             s == CreateLiterals(b, f, FALSE)
  <1>1. /\ script \in Scripts /\ f \in ToSet(script) /\ pc = "idle" /\ Sound(sat) /\ todo = {} /\ Sound(sat')
        /\ UNCHANGED <<pc, todo>> /\ history \subseteq history'
    BY NothingToDo DEF AddCore, MayBeAdded, Good, Requested, ToSet, Note
  <1>2. f \subseteq Lit /\ f # {}
    BY <1>1, ScriptLiterals
  <1>3. /\ Sound(b) /\ b.level = 0 /\ b.excluded = sat.excluded /\ (sat.level = 0 => b.ok = sat.ok)
        /\ \A i \in DOMAIN b.trail : b.trail[i].level = 0
        /\ SettledBelow(b) /\ ((sat.level = 0 => SettledSeen(sat, {})) => SettledSeen(b, {}))
    <2>1. SettledBelow(sat) /\ b = Back(sat)
      BY DEF Watched
    <2> HIDE DEF b
    <2> QED BY <1>1, <2>1, BackWatches
  <1>4. ~IsLiteral(f) => ~Missed(b, f)
    <2>1. \E tags : history' = history \cup (Tag("missed", ~IsLiteral(f) /\ Missed(b, f)) \cup tags)
      BY DEF AddCore, Note
    <2> HIDE DEF b
    <2> QED BY <2>1 DEF Tag, Quiet, NotYet
  <1> HIDE DEF b
  <1>5. Sound(s) /\ Created(b, s, f)
    <2>1. FALSE \in BOOLEAN
      OBVIOUS
    <2> QED BY <1>2, <1>3, <2>1, CreateLiteralsIs
  <1>6. s.ok = b.ok
    <2>1. b \in State
      BY <1>3 DEF Sound
    <2> QED BY <2>1 DEF CreateLiterals, State
  <1>7. sat' = IF IsLiteral(f) THEN [s EXCEPT !.assumptions = Append(@, TheLiteral(f))]
               ELSE Attach(s, f, {First(s, f), Second(s, f)})
    BY DEF AddCore, b
  <1> HIDE DEF s
  <1>8. Onward(b, s)
    <2>1. Unmoving(b, s) /\ s.watch = b.watch
      BY <1>5 DEF Created, Unmoving
    <2> QED BY <2>1, GrowsBy
  <1>9. Onward(s, sat') /\ sat'.ok = s.ok
    <2>1. CASE IsLiteral(f)
      <3> DEFINE a == Append(s.assumptions, TheLiteral(f))
      <3>1. sat' = [s EXCEPT !.assumptions = a]
        BY <1>7, <2>1
      <3> HIDE DEF a
      <3>2. Unmoving(s, sat') /\ sat'.watch = s.watch /\ sat'.ok = s.ok
        BY <1>5, <3>1 DEF Sound, State, Unmoving
      <3> QED BY <3>2, GrowsBy
    <2>2. CASE ~IsLiteral(f)
      <3> DEFINE x == First(s, f)
                 y == Second(s, f)
                 L == s.learnts
      <3>1. /\ s.trail = b.trail /\ x \in f /\ (IsFalse(s, x) => \A l \in f : IsFalse(s, l))
            /\ s.trail \in Seq(Entry) /\ Once(s)
        <4>1. s.trail \in Seq(Entry) /\ Once(s)
          BY <1>5, Fields DEF Sound, Ordered
        <4>2. s.trail = b.trail
          BY <1>5 DEF Created
        <4> QED BY <1>2, <2>2, <4>1, <4>2, FirstAndSecond
      <3>2. [s EXCEPT !.learnts = L] = s
        BY <1>5 DEF Sound, State
      <3>3. Attaches(s, sat', L, f, {x, y})
        BY <1>7, <2>2, <3>2 DEF Attaches
      <3> HIDE DEF x, y, L
      <3>4. s \in State
        BY <1>5 DEF Sound
      <3>5. AlsoWatching(s, sat', f, {x, y}) /\ Unmoving(s, sat') /\ sat'.ok = s.ok
        BY ONLY <3>3, <3>4, AttachWatches
      <3>6. ~IsFalse(s, x)
        <4>1. SUFFICES ASSUME \A l \in f : IsFalse(s, l) PROVE FALSE
          BY <3>1
        <4>2. \A l \in f : FixedFalse(b, l)
          <5>1. SUFFICES ASSUME NEW l \in f PROVE FixedFalse(b, l)
            OBVIOUS
          <5>2. IsTrue(s, -l)
            BY <4>1 DEF IsFalse, IsTrue
          <5>3. PICK i \in DOMAIN s.trail : s.trail[i].lit = -l
            BY <5>2, TrueIs
          <5> QED BY <1>3, <3>1, <5>3 DEF FixedFalse, Entries
        <4>3. \A l \in f : ~FixedTrue(b, l)
          <5>1. SUFFICES ASSUME NEW l \in f, FixedTrue(b, l) PROVE FALSE
            OBVIOUS
          <5>2. IsTrue(s, l) /\ IsFalse(s, l) /\ l \in Lit
            BY <1>2, <3>1, <4>1, <5>1, TrueIs
          <5> QED BY ONLY <3>1, <5>2, OneValue
        <4>4. {l \in f : ~FixedFalse(b, l)} = {}
          BY <4>2
        <4>5. Cardinality({l \in f : ~FixedFalse(b, l)}) = 0
          BY <4>4, FS_EmptySet
        <4>6. Missed(b, f)
          BY <4>3, <4>5 DEF Missed
        <4> QED BY <1>4, <2>2, <4>6
      <3>7. ~IsFalse(sat', x)
        BY <3>5, <3>6 DEF IsFalse, IsTrue, TrueLits, Entries, Unmoving
      <3>8. Grows(s, sat') /\ x \in {x, y}
        BY <3>5, GrowsBy
      <3> QED BY ONLY <3>5, <3>7, <3>8, AttachedOn
    <2> QED BY <2>1, <2>2
  <1>10. Onward(b, sat')
    BY ONLY <1>1, <1>3, <1>5, <1>8, <1>9, OnwardOn
  <1>11. /\ SettledBelow(sat') /\ (SettledSeen(b, {}) => SettledSeen(sat', {}))
         /\ sat'.excluded = sat.excluded
    <2>1. Follows(b, sat')
      BY <1>10 DEF Onward
    <2>2. sat'.excluded = b.excluded
      BY <2>1 DEF Follows, Grows
    <2> QED BY <1>1, <1>3, <1>10, <2>1, <2>2, SettledOn
  <1>12. ASSUME Searching' PROVE SettledSeen(sat', todo')
    <2>1. sat'.ok /\ "excluded" \notin history
      BY <1>1, <1>12 DEF Searching
    <2>2. sat.level = 0 => SettledSeen(sat, {})
      <3>1. sat.level = 0 => sat.ok
        BY <1>3, <1>6, <1>9, <2>1
      <3> QED BY <1>1, <2>1, <3>1 DEF Watched, Searching
    <2> QED BY <1>1, <1>3, <1>11, <2>2
  <1>13. sat'.excluded => "excluded" \in history'
    BY <1>1, <1>11 DEF Watched
  <1> QED BY <1>11, <1>12, <1>13 DEF Watched

LEMMA RemoveCoreWatches ==
  ASSUME Good, Watched, NEW f, RemoveCore(f), Quiet'
  PROVE  Watched'
  <1> DEFINE b == Back(sat)
  <1>1. Sound(sat) /\ sat' = Kept(b, f) /\ history \subseteq history'
    BY DEF RemoveCore, Good, Note
  <1>2. Sound(b) /\ b.excluded = sat.excluded /\ \A i \in DOMAIN b.trail : i \in DOMAIN sat.trail /\ sat.trail[i].level = 0
    BY <1>1, BackWatches
  <1>3. ~\E e \in Entries(sat) : e.level = 0
    <2>1. history' = history \cup Tag("fixed", \E e \in Entries(sat) : e.level = 0)
      BY DEF RemoveCore, Note
    <2> QED BY <2>1 DEF Tag, Quiet, NotYet
  <1>4. DOMAIN b.trail = {}
    BY <1>2, <1>3 DEF Entries
  <1> HIDE DEF b
  <1>5. DOMAIN sat'.trail = {} /\ sat'.excluded = sat.excluded
    <2>1. b \in State
      BY <1>2 DEF Sound
    <2> QED BY <1>1, <1>2, <1>4, <2>1 DEF Kept, State
  <1> QED BY <1>1, <1>5 DEF Watched, SettledBelow, SettledSeen

LEMMA CheckCoreWatches ==
  ASSUME Good, Watched, CheckCore, Quiet'
  PROVE  Watched'
  <1>1. Sound(sat) /\ pc = "idle" /\ todo = {} /\ UNCHANGED todo /\ history \subseteq history'
    BY NothingToDo DEF CheckCore, Good, Note
  <1>2. "excluded" \notin history
    <2>1. \E tags : history' = history \cup (tags \cup Tag("again", "excluded" \in history))
      BY DEF CheckCore, Note
    <2> QED BY <2>1 DEF Tag, Quiet, NotYet
  <1>3. CASE sat.ok
    <2>1. sat' = [sat EXCEPT !.consistent = "SAT"] /\ sat \in State
      BY <1>1, <1>3 DEF CheckCore, Sound
    <2>2. /\ sat'.trail = sat.trail /\ sat'.level = sat.level /\ sat'.qhead = sat.qhead /\ sat'.watch = sat.watch
          /\ sat'.excluded = sat.excluded
      BY ONLY <2>1 DEF State
    <2>3. SettledBelow(sat) /\ SettledSeen(sat, todo)
      BY <1>1, <1>2, <1>3 DEF Watched, Searching
    <2>4. SettledBelow(sat') /\ SettledSeen(sat', todo')
      BY ONLY <1>1, <2>2, <2>3, SettledSame
    <2> QED BY <1>1, <2>2, <2>4 DEF Watched
  <1>4. CASE ~sat.ok
    <2>1. UNCHANGED <<sat, pc>>
      BY <1>4 DEF CheckCore
    <2> QED BY <1>1, <1>4, <2>1 DEF Watched, Searching
  <1> QED BY <1>3, <1>4

LEMMA DequeueWatches ==
  ASSUME Good, Watched, Dequeue
  PROVE  Watched'
  <1> DEFINE n == sat.qhead + 1
             l == sat.trail[n].lit
  <1>1. /\ Sound(sat) /\ pc = "propagate" /\ todo = {} /\ sat.qhead \in Nat /\ UNCHANGED <<pc, history>>
        /\ DOMAIN sat.trail \subseteq Nat
    BY Fields DEF Good, Dequeue, Sound
  <1>2. sat' = [sat EXCEPT !.qhead = n] /\ todo' = {c \in DOMAIN sat.watch : -l \in sat.watch[c]}
    BY DEF Dequeue
  <1> HIDE DEF l
  <1>3. /\ sat'.trail = sat.trail /\ sat'.level = sat.level /\ sat'.qhead = n /\ sat'.watch = sat.watch
        /\ sat'.excluded = sat.excluded
    BY <1>1, <1>2 DEF Sound, State
  <1>4. SettledBelow(sat) /\ SettledSeen(sat, {})
    BY <1>1 DEF Watched, Searching
  <1>5. \A c, j : Overlooked(sat', c, j) <=> Overlooked(sat, c, j)
    BY ONLY <1>3 DEF Overlooked, FalseUpTo, Settled
  <1>6. SettledBelow(sat')
    BY ONLY <1>3, <1>4, <1>5 DEF SettledBelow
  <1>7. ASSUME NEW c \in DOMAIN sat'.watch, NEW j \in DOMAIN sat'.trail, Dealt(sat', todo', c, j)
        PROVE  ~Overlooked(sat, c, j)
    <2>1. c \in DOMAIN sat.watch /\ j \in DOMAIN sat.trail /\ j \in Nat
      BY <1>1, <1>3
    <2>2. CASE j < n
      <3>1. Dealt(sat, {}, c, j)
        BY <1>1, <2>1, <2>2 DEF Dealt
      <3> QED BY <1>4, <2>1, <3>1 DEF SettledSeen
    <2>3. CASE j = n /\ c \notin todo'
      BY <1>2, <2>1, <2>3 DEF Overlooked, l
    <2> QED BY <1>3, <1>7, <2>2, <2>3 DEF Dealt
  <1>8. SettledSeen(sat', todo')
    BY ONLY <1>5, <1>7 DEF SettledSeen
  <1> QED BY <1>1, <1>3, <1>6, <1>8 DEF Watched

(* A visited clause with a true literal is settled.                        *)
LEMMA VisitedSettled ==
  ASSUME NEW s, Sound(s), NEW T, SettledSeen(s, T), NEW c, s.qhead \in DOMAIN s.trail, s.trail[s.qhead].level = s.level,
         Satisfied(s, c)
  PROVE  SettledSeen(s, T \ {c})
  <1>1. PICK l \in c : IsTrue(s, l)
    BY DEF Satisfied
  <1>2. PICK k \in DOMAIN s.trail : s.trail[k].lit = l
    BY <1>1, TrueIs
  <1>3. s.trail[k].level <= s.level
    BY <1>2 DEF Sound, Ordered, LevelsRise
  <1>4. ~Overlooked(s, c, s.qhead)
    BY <1>1, <1>2, <1>3 DEF Overlooked, Settled
  <1> QED BY <1>4 DEF SettledSeen, Dealt

LEMMA SkipWatches ==
  ASSUME Good, Watched, NEW c \in todo, Skip(c)
  PROVE  Watched'
  <1>1. /\ Sound(sat) /\ pc = "propagate" /\ Satisfied(sat, c) /\ todo' = todo \ {c} /\ UNCHANGED <<sat, pc, history>>
        /\ sat.qhead \in DOMAIN sat.trail /\ sat.trail[sat.qhead].level = sat.level
    BY DEF Skip, Good, Phase
  <1>2. SettledSeen(sat, todo)
    BY <1>1 DEF Watched, Searching
  <1>3. SettledSeen(sat, todo \ {c})
    BY ONLY <1>1, <1>2, VisitedSettled
  <1> QED BY <1>1, <1>3 DEF Watched

LEMMA RewatchWatches ==
  ASSUME Good, Watched, NEW c \in todo, Rewatch(c)
  PROVE  Watched'
  <1> DEFINE o == Other(sat, c)
  <1>1. c \in DOMAIN sat.watch /\ o \in c /\ o \in sat.watch[c] /\ pc = "propagate" /\ Sound(sat)
    BY OtherIs DEF Good
  <1>2. PICK l \in Candidates(sat, c) : sat' = [sat EXCEPT !.watch[c] = {o, l}]
    BY DEF Rewatch
  <1>3. todo' = todo \ {c} /\ UNCHANGED <<pc, history>>
    BY DEF Rewatch
  <1> HIDE DEF o
  <1>4. l \in c /\ o # l /\ ~IsFalse(sat, l)
    BY <1>1 DEF Candidates
  <1>5. /\ sat'.trail = sat.trail /\ sat'.level = sat.level /\ sat'.qhead = sat.qhead
        /\ DOMAIN sat'.watch = DOMAIN sat.watch /\ \A d \in DOMAIN sat.watch \ {c} : sat'.watch[d] = sat.watch[d]
        /\ sat'.watch[c] = {o, l} /\ sat'.excluded = sat.excluded
    <2>1. sat \in State
      BY <1>1 DEF Sound
    <2> QED BY <1>1, <1>2, <2>1 DEF State
  <1>6. SettledBelow(sat) /\ SettledSeen(sat, todo)
    BY <1>1 DEF Watched, Searching
  <1>7. \A d \in DOMAIN sat.watch \ {c} : \A j : Overlooked(sat', d, j) <=> Overlooked(sat, d, j)
    BY ONLY <1>5 DEF Overlooked, FalseUpTo, Settled
  <1>8. \A j \in DOMAIN sat.trail : ~Overlooked(sat', c, j)
    <2>1. SUFFICES ASSUME NEW j \in DOMAIN sat.trail, Overlooked(sat', c, j) PROVE FALSE
      OBVIOUS
    <2>2. PICK i \in 1 .. j : sat.trail[i].lit = -l
      BY <1>5, <2>1 DEF Overlooked, FalseUpTo
    <2>3. i \in DOMAIN sat.trail
      BY <1>1, <2>2, Fields DEF Sound
    <2> QED BY <1>4, <2>2, <2>3 DEF IsFalse, TrueLits, Entries
  <1>9. SettledBelow(sat')
    BY <1>5, <1>6, <1>7, <1>8 DEF SettledBelow
  <1>10. SettledSeen(sat', todo')
    <2>1. SUFFICES ASSUME NEW d \in DOMAIN sat.watch, NEW j \in DOMAIN sat.trail, Dealt(sat', todo', d, j)
                   PROVE  ~Overlooked(sat', d, j)
      BY <1>5 DEF SettledSeen
    <2>2. CASE d = c
      BY <1>8, <2>2
    <2>3. CASE d # c
      <3>1. Dealt(sat, todo, d, j)
        BY <1>3, <1>5, <2>1, <2>3 DEF Dealt
      <3> QED BY <1>6, <1>7, <2>3, <3>1 DEF SettledSeen
    <2> QED BY <2>2, <2>3
  <1> QED BY <1>1, <1>3, <1>5, <1>9, <1>10 DEF Watched

LEMMA PropagateWatches ==
  ASSUME Good, Watched, NEW c \in todo, Propagate(c), Good'
  PROVE  Watched'
  <1> DEFINE o == Other(sat, c)
  <1>1. Candidates(sat, c) = {} /\ Unassigned(sat, o) /\ sat' = Enqueue(sat, o, c, o, 0) /\ todo' = todo \ {c}
        /\ UNCHANGED <<pc, history>>
    BY DEF Propagate
  <1>2. /\ c \subseteq Lit /\ Within(c, sat.known) /\ o \in c /\ Sound(sat) /\ Sound(sat') /\ pc = "propagate"
        /\ sat.qhead \in DOMAIN sat.trail /\ sat.trail[sat.qhead].level = sat.level
    BY OtherIs DEF Good, Phase
  <1>3. \A l \in c \ {o} : Assigned(sat, l)
    BY <1>1, OthersFalse
  <1> HIDE DEF o
  <1>4. o \in Lit /\ o \in Int /\ VarOf(o) \in sat.known
    BY <1>2, Literals DEF Within
  <1>5. Extends(sat, sat') /\ Enqueued(sat, sat', o, NewEntry(sat, o, c, o, 0))
    BY ONLY <1>1, <1>2, <1>3, <1>4, EnqueuePlain
  <1>6. Onward(sat, sat') /\ Follows(sat, sat')
    BY ONLY <1>5, GrowsBy DEF Enqueued
  <1>7. SettledBelow(sat) /\ SettledSeen(sat, todo)
    BY <1>2 DEF Watched, Searching
  <1>8. SettledBelow(sat') /\ SettledSeen(sat', todo)
    BY ONLY <1>2, <1>6, <1>7, SettledOn
  <1>9. Satisfied(sat', c)
    <2>1. sat \in State
      BY <1>2 DEF Sound
    <2>2. IsTrue(sat', o)
      BY ONLY <1>1, <2>1, EnqueueKeeps
    <2> QED BY <1>2, <2>2 DEF Satisfied
  <1>10. sat'.qhead \in DOMAIN sat'.trail /\ sat'.trail[sat'.qhead].level = sat'.level
    BY ONLY <1>2, <1>5 DEF Extends, Same
  <1>11. SettledSeen(sat', todo \ {c})
    BY ONLY <1>2, <1>8, <1>9, <1>10, VisitedSettled
  <1>12. sat'.excluded = sat.excluded
    BY ONLY <1>5 DEF Extends
  <1> QED BY <1>1, <1>8, <1>11, <1>12 DEF Watched

LEMMA FoundConflictWatches ==
  ASSUME Good, Watched, NEW c \in todo, FoundConflict(c)
  PROVE  Watched'
  <1>1. Sound(sat) /\ sat' = [sat EXCEPT !.qhead = Len(sat.trail)] /\ pc' = "conflict" /\ UNCHANGED history
    BY DEF Good, FoundConflict
  <1>2. /\ sat'.trail = sat.trail /\ sat'.level = sat.level /\ sat'.watch = sat.watch
        /\ sat'.excluded = sat.excluded
    <2>1. sat \in State
      BY <1>1 DEF Sound
    <2> QED BY ONLY <1>1, <2>1 DEF State
  <1>3. SettledBelow(sat')
    BY <1>2 DEF Watched, SettledBelow, Overlooked, FalseUpTo, Settled
  <1> QED BY <1>1, <1>2, <1>3 DEF Watched, Searching

(* How a check goes on or ends.                                            *)
LEMMA ContinueWatches ==
  ASSUME NEW s, SettledBelow(s), SettledSeen(s, {}), s.excluded => "excluded" \in history', todo = {}, Continue(s)
  PROVE  Watched'
  BY DEF Continue, Watched

LEMMA FinishWatches ==
  ASSUME NEW s, s \in State, SettledBelow(s), NEW result, Finish(s, result),
         SettledSeen(s, {}) \/ result = "UNSAT" \/ ~s.ok \/ "excluded" \in history'
  PROVE  Watched'
  <1> DEFINE o == IF result = "UNSAT" THEN FALSE ELSE s.ok
  <1>1. sat' = [s EXCEPT !.excluded = FALSE, !.ok = o] /\ todo' = {} /\ pc' = "idle"
    BY DEF Finish
  <1> HIDE DEF o
  <1>2. /\ sat'.trail = s.trail /\ sat'.level = s.level /\ sat'.qhead = s.qhead /\ sat'.watch = s.watch
        /\ sat'.excluded = FALSE /\ sat'.ok = o
    BY ONLY s \in State, <1>1 DEF State
  <1>3. SettledBelow(sat') /\ (SettledSeen(s, {}) => SettledSeen(sat', {}))
    BY ONLY SettledBelow(s), <1>2, SettledSame
  <1>4. Searching' => SettledSeen(s, {})
    BY <1>1, <1>2 DEF Searching, o
  <1> QED BY <1>1, <1>2, <1>3, <1>4 DEF Watched

LEMMA StoredWatches ==
  ASSUME NEW s, SettledBelow(s), SettledSeen(s, {}), s.excluded => "excluded" \in history',
         NEW r, StoreOK(r), Carries(s, r), todo = {}, Stored(r)
  PROVE  Watched'
  <1>1. /\ SettledBelow(r.s) /\ (r.s.ok /\ r.conflict = NoConflict => SettledSeen(r.s, {}))
        /\ (r.s.excluded => "excluded" \in history') /\ r.s \in State
    BY DEF Carries, StoreOK, Sound
  <1>2. CASE sat' = r.s /\ pc' = "conflict"
    BY <1>1, <1>2 DEF Watched, Searching
  <1>3. CASE ~r.s.ok /\ Finish(r.s, Refuted(r.s))
    BY ONLY <1>1, <1>3, FinishWatches
  <1>4. CASE r.conflict = NoConflict /\ r.s.ok /\ Continue(r.s)
    <2>1. SettledSeen(r.s, {})
      BY <1>1, <1>4
    <2> QED BY ONLY <1>1, <1>4, <2>1, todo = {}, ContinueWatches
  <1> QED BY <1>2, <1>3, <1>4 DEF Stored

(* What adaptPassedFormula does to the watches: nothing.                   *)
LEMMA BeforeCallWatches ==
  ASSUME Sound(sat), NEW s, s = BeforeCall
  PROVE  /\ s.trail = sat.trail /\ s.level = sat.level /\ s.qhead = sat.qhead /\ s.watch = sat.watch
         /\ s.excluded = sat.excluded /\ s \in State
  <1>1. CASE sat.consistent # "SAT"
    <2>1. s = Adapt(sat)
      BY <1>1 DEF BeforeCall
    <2>2. Ready(s) /\ Adapted(sat, s)
      BY <2>1, AdaptReady
    <2> QED BY <2>2 DEF Adapted, Ready
  <1>2. CASE sat.consistent = "SAT"
    BY <1>2 DEF BeforeCall, Sound
  <1> QED BY <1>1, <1>2

LEMMA NoTheoryWatches ==
  ASSUME Good, Watched, NoTheory
  PROVE  Watched'
  <1> DEFINE s == IF TheoryCalled THEN BeforeCall ELSE sat
  <1>1. todo = {} /\ Sound(sat) /\ Continue(s) /\ pc = "propagate" /\ UNCHANGED history
    BY DEF NoTheory, Propagated, Good
  <1>2. /\ s.trail = sat.trail /\ s.level = sat.level /\ s.qhead = sat.qhead /\ s.watch = sat.watch
        /\ s.excluded = sat.excluded
    BY <1>1, BeforeCallWatches
  <1> HIDE DEF s
  <1>3. /\ SettledBelow(sat) /\ SettledSeen(sat, {}) /\ (s.excluded => "excluded" \in history')
    BY <1>1, <1>2 DEF Watched, Searching
  <1>4. SettledBelow(s) /\ SettledSeen(s, {})
    BY ONLY <1>2, <1>3, SettledSame
  <1> QED BY ONLY <1>1, <1>3, <1>4, ContinueWatches

LEMMA TheoryWatches ==
  ASSUME Good, Watched, Theory
  PROVE  Watched'
  <1> DEFINE s == BeforeCall
             P == s.passed
  <1>1. todo = {} /\ Sound(sat) /\ (s.changedPassed \/ AllAssigned(s)) /\ pc = "propagate" /\ history \subseteq history'
    BY DEF Theory, Propagated, Good, Note
  <1>2. /\ Ready(s) /\ P \subseteq Lit /\ \A l \in P : Assigned(s, l) /\ VarOf(l) \in s.known
    BY <1>1, BeforeCallIs
  <1>3. PICK a \in Answers(P) : \E tps \in Propagations(P, MaxPropagations - used.props) :
          \E Ls \in Lemmas(MaxLemmas - Cardinality(used.lemmas)) : Stored(TheoryRound(s, a, tps, Ls))
    BY DEF Theory
  <1> DEFINE n == MaxPropagations - used.props
             m == MaxLemmas - Cardinality(used.lemmas)
  <1>4. PICK tps \in Propagations(P, n) : \E Ls \in Lemmas(m) : Stored(TheoryRound(s, a, tps, Ls))
    BY <1>3
  <1>5. PICK Ls \in Lemmas(m) : Stored(TheoryRound(s, a, tps, Ls))
    BY <1>4
  <1> DEFINE u == [s EXCEPT !.changedPassed = FALSE, !.consistent = a.answer, !.model = a.model]
             r == TheoryRound(s, a, tps, Ls)
  <1>6. a.answer \in {"SAT", "UNSAT", "UNKNOWN"} /\ a.model \in SUBSET Lit
    <2>1. sat.model \subseteq Lit
      BY <1>1 DEF Sound, State
    <2> QED BY <2>1, AnswersIs
  <1>7. /\ s.trail = sat.trail /\ s.level = sat.level /\ s.qhead = sat.qhead /\ s.watch = sat.watch
        /\ s.excluded = sat.excluded /\ s \in State
    BY <1>1, BeforeCallWatches
  <1> HIDE DEF s, P, n, m
  <1>8. /\ Sound(u) /\ u.trail = s.trail /\ u.assumptions = s.assumptions /\ u.known = s.known
        /\ u.level = s.level /\ Asked(s, u, a.answer, a.model)
    <2>1. Asked(s, u, a.answer, a.model)
      BY DEF Asked
    <2> HIDE DEF u
    <2> QED BY ONLY <1>2, <1>6, <2>1, AskedIs
  <1>9. u.qhead = s.qhead /\ u.watch = s.watch /\ u.excluded = s.excluded
    BY ONLY <1>7, <1>8 DEF Asked, State
  <1> HIDE DEF u
  <1>10. StoreOK(r) /\ Carries(u, r)
    <2>1. r = TheoryRound(s, a, tps, Ls)
      OBVIOUS
    <2>2. a \in Answers(P) /\ tps \in Propagations(P, n) /\ Ls \in Lemmas(m)
      OBVIOUS
    <2> HIDE DEF r
    <2> QED BY ONLY <1>2, <1>8, <2>1, <2>2, TheoryRoundIs
  <1> HIDE DEF r
  <1>11. Stored(r)
    BY <1>5 DEF r
  <1>12. SettledBelow(u) /\ SettledSeen(u, {}) /\ (u.excluded => "excluded" \in history')
    <2>1. SettledBelow(sat) /\ SettledSeen(sat, {}) /\ (u.excluded => "excluded" \in history')
      BY <1>1, <1>7, <1>9 DEF Watched, Searching
    <2>2. u.trail = sat.trail /\ u.level = sat.level /\ u.qhead = sat.qhead /\ u.watch = sat.watch
      BY ONLY <1>7, <1>8, <1>9
    <2> QED BY ONLY <2>1, <2>2, SettledSame
  <1> QED BY ONLY <1>1, <1>10, <1>11, <1>12, StoredWatches

(* All that is on the trail when a level is begun has been dealt with.     *)
LEMMA RaisedWatches ==
  ASSUME NEW s, Sound(s), s.qhead = Len(s.trail), SettledSeen(s, {}), NEW t, t = [s EXCEPT !.level = @ + 1]
  PROVE  SettledBelow(t) /\ SettledSeen(t, {}) /\ t.excluded = s.excluded
  <1>1. s \in State /\ DOMAIN s.trail = 1 .. Len(s.trail)
    BY Fields DEF Sound
  <1>2. t.trail = s.trail /\ t.watch = s.watch /\ t.qhead = s.qhead /\ t.excluded = s.excluded
    BY ONLY <1>1, t = [s EXCEPT !.level = @ + 1] DEF State
  <1>3. \A c, j : Overlooked(t, c, j) <=> Overlooked(s, c, j)
    BY ONLY <1>2 DEF Overlooked, FalseUpTo, Settled
  <1>4. \A j \in DOMAIN s.trail : \A c : Dealt(s, {}, c, j)
    BY <1>1 DEF Dealt
  <1>5. \A c \in DOMAIN s.watch : \A j \in DOMAIN s.trail : ~Overlooked(s, c, j)
    BY <1>4 DEF SettledSeen
  <1> QED BY <1>2, <1>3, <1>5 DEF SettledBelow, SettledSeen

LEMMA DecidedWatches ==
  ASSUME Sound(sat), sat.qhead = Len(sat.trail), NEW l \in Lit, Unassigned(sat, l), VarOf(l) \in sat.known,
         SettledSeen(sat, {}), NEW t, t = Decided(sat, l)
  PROVE  SettledBelow(t) /\ SettledSeen(t, {}) /\ t.excluded = sat.excluded
  <1> DEFINE s == [sat EXCEPT !.level = @ + 1]
  <1>1. /\ Sound(s) /\ s.trail = sat.trail /\ s.known = sat.known
        /\ SettledBelow(s) /\ SettledSeen(s, {}) /\ s.excluded = sat.excluded
    BY LevelRaised, RaisedWatches
  <1>2. t = Enqueue(s, l, {}, 0, 0)
    BY DEF Decided, NoClause
  <1> HIDE DEF s
  <1>3. Unassigned(s, l) /\ VarOf(l) \in s.known
    BY <1>1, SameTrail DEF Unassigned, IsFalse, IsTrue
  <1>4. {} \subseteq Lit /\ 0 \in Int /\ \A k \in {} \ {l} : Assigned(s, k)
    OBVIOUS
  <1>5. Sound(t) /\ Extends(s, t) /\ Enqueued(s, t, l, NewEntry(s, l, {}, 0, 0))
    BY ONLY l \in Lit, <1>1, <1>2, <1>3, <1>4, EnqueuePlain
  <1>6. Onward(s, t) /\ Follows(s, t) /\ t.excluded = s.excluded
    BY ONLY <1>5, GrowsBy DEF Enqueued
  <1> QED BY ONLY <1>1, <1>5, <1>6, SettledOn

(* When search() decides, all that is on the trail has been dealt with.    *)
LEMMA AllSeen ==
  ASSUME Good, Watched, pc = "decide"
  PROVE  /\ Sound(sat) /\ todo = {} /\ sat.qhead = Len(sat.trail) /\ SettledBelow(sat) /\ SettledSeen(sat, {})
         /\ sat.excluded => "excluded" \in history
  BY NothingToDo DEF Good, Phase, Watched, Searching

LEMMA AssumeWatches ==
  ASSUME Good, Watched, Assume
  PROVE  Watched'
  <1> DEFINE l == NextAssumption(sat)
  <1>1. ~IsFalse(sat, l) /\ pc = "decide" /\ UNCHANGED <<todo, history>>
    BY DEF Assume
  <1>2. /\ Sound(sat) /\ todo = {} /\ sat.qhead = Len(sat.trail) /\ SettledSeen(sat, {})
        /\ sat.excluded => "excluded" \in history
    BY <1>1, AllSeen
  <1>3. SettledBelow(sat') /\ SettledSeen(sat', {}) /\ sat'.excluded = sat.excluded
    <2>1. CASE IsTrue(sat, l)
      <3>1. sat' = [sat EXCEPT !.level = @ + 1]
        BY <2>1 DEF Assume
      <3> QED BY ONLY <1>2, <3>1, RaisedWatches
    <2>2. CASE ~IsTrue(sat, l)
      <3>1. sat' = Decided(sat, l) /\ Unassigned(sat, l)
        BY <1>1, <2>2 DEF Assume, Unassigned
      <3>2. l \in Lit /\ VarOf(l) \in sat.known
        <4>1. sat.level + 1 \in DOMAIN sat.assumptions /\ sat.assumptions \in Seq(Lit)
          BY Fields DEF Assume, Pending, Good, Sound
        <4> QED BY <1>2, <4>1 DEF NextAssumption, Sound, KnownFirst
      <3> HIDE DEF l
      <3> QED BY ONLY <1>2, <3>1, <3>2, DecidedWatches
    <2> QED BY <2>1, <2>2
  <1> QED BY <1>1, <1>2, <1>3 DEF Watched

LEMMA DecideWatches ==
  ASSUME Good, Watched, Decide
  PROVE  Watched'
  <1>1. pc = "decide" /\ UNCHANGED <<todo, history>>
    BY DEF Decide
  <1>2. /\ Sound(sat) /\ todo = {} /\ sat.qhead = Len(sat.trail) /\ SettledSeen(sat, {})
        /\ sat.excluded => "excluded" \in history
    BY <1>1, AllSeen
  <1>a. PICK v \in sat.known : \E l \in {v, -v} : Unassigned(sat, v) /\ sat' = Decided(sat, l)
    BY DEF Decide
  <1>3. PICK l \in {v, -v} : Unassigned(sat, v) /\ sat' = Decided(sat, l)
    BY <1>a
  <1>4. v \in Lit /\ -v \in Lit /\ VarOf(l) = v /\ l \in Lit /\ -(-v) = v
    <2>1. v \in Var
      BY <1>2, Fields DEF Sound
    <2> QED BY <2>1, Literals
  <1>5. Unassigned(sat, l) /\ VarOf(l) \in sat.known
    BY <1>3, <1>4 DEF Unassigned, IsFalse, IsTrue
  <1>6. SettledBelow(sat') /\ SettledSeen(sat', {}) /\ sat'.excluded = sat.excluded
    BY ONLY <1>2, <1>3, <1>4, <1>5, DecidedWatches
  <1> QED BY <1>1, <1>2, <1>6 DEF Watched

LEMMA FinishedWatches ==
  ASSUME Good, Watched, AssumptionFails \/ AnswerSat \/ ConflictAtRoot
  PROVE  Watched'
  <1>1. sat \in State /\ SettledBelow(sat) /\ UNCHANGED history /\ (sat.excluded => "excluded" \in history)
    BY DEF Good, Sound, Watched, AssumptionFails, AnswerSat, ConflictAtRoot
  <1>2. PICK result : Finish(sat, result) /\ (pc = "decide" \/ result = Refuted(sat))
    BY DEF AssumptionFails, AnswerSat, ConflictAtRoot
  <1>3. SettledSeen(sat, {}) \/ result = "UNSAT" \/ ~sat.ok \/ "excluded" \in history'
    <2>1. CASE pc = "decide"
      BY <2>1, AllSeen
    <2>2. CASE result = Refuted(sat)
      BY <1>1, <2>2 DEF Refuted
    <2> QED BY <1>2, <2>1, <2>2
  <1> QED BY ONLY <1>1, <1>2, <1>3, FinishWatches

LEMMA ExcludeWatches ==
  ASSUME Good, Watched, Exclude
  PROVE  Watched'
  <1> DEFINE s == [sat EXCEPT !.excluded = TRUE]
             q == AddClause(sat, Negated(sat.passed))
             r == StoreLemmas(s, q)
  <1>1. pc = "decide" /\ "excluded" \in history'
    BY DEF Exclude, Excludable, Note
  <1>2. Sound(sat) /\ todo = {} /\ SettledBelow(sat) /\ SettledSeen(sat, {})
    BY <1>1, AllSeen
  <1>3. /\ Sound(s) /\ s.trail = sat.trail /\ s.level = sat.level /\ s.qhead = sat.qhead /\ s.watch = sat.watch
        /\ s.known = sat.known
    BY <1>2, MarkedSome DEF Marked
  <1>4. q \in Seq(SUBSET Lit) /\ \A i \in DOMAIN q : Within(q[i], s.known)
    BY <1>2, <1>3, ExcludingIs DEF ClausesOf
  <1> HIDE DEF s, q
  <1>5. StoreOK(r) /\ Carries(s, r)
    <2>1. r = StoreLemmas(s, q)
      OBVIOUS
    <2> HIDE DEF r
    <2> QED BY ONLY <1>3, <1>4, <2>1, StoreLemmasIs
  <1>6. SettledBelow(s) /\ SettledSeen(s, {})
    BY ONLY <1>2, <1>3, SettledSame
  <1>7. \/ /\ r.s.ok /\ r.conflict = NoConflict
           /\ sat' = r.s /\ pc' = "propagate" /\ UNCHANGED todo
        \/ Stored(r)
    BY DEF Exclude, s, q
  <1> HIDE DEF r
  <1>8. CASE r.s.ok /\ r.conflict = NoConflict /\ sat' = r.s /\ pc' = "propagate" /\ UNCHANGED todo
    BY <1>1, <1>2, <1>5, <1>6, <1>8 DEF Carries, Watched
  <1>9. CASE Stored(r)
    BY ONLY <1>1, <1>2, <1>5, <1>6, <1>9, StoredWatches
  <1> QED BY <1>7, <1>8, <1>9

LEMMA RestartWatches ==
  ASSUME Good, Watched, Restart
  PROVE  Watched'
  <1> DEFINE c == CancelUntil(sat, 0, FALSE)
             to == Target(sat, 0, FALSE)
  <1>1. /\ pc = "decide" /\ pc' = "propagate" /\ sat' = [c EXCEPT !.consistent = "SAT"]
        /\ UNCHANGED todo /\ history \subseteq history'
    BY DEF Restart, Note
  <1>2. /\ Sound(sat) /\ todo = {} /\ SettledBelow(sat) /\ SettledSeen(sat, {})
        /\ sat.excluded => "excluded" \in history
    BY <1>1, AllSeen
  <1>3. to \in Nat /\ Sound(c) /\ Cancelled(sat, c, to)
    <2>1. CancelsTo(sat, 0, FALSE, c, to)
      BY DEF CancelsTo
    <2> HIDE DEF to, c
    <2>2. CancelRight(sat, c, to)
      BY ONLY <1>2, <2>1, 0 \in Nat, CancelIs
    <2> QED BY <2>2 DEF CancelRight
  <1> HIDE DEF to, c
  <1>4. SettledBelow(c) /\ (sat.level > to => SettledSeen(c, {})) /\ c.excluded = sat.excluded
    <2>1. SettledBelow(c) /\ (sat.level > to => SettledSeen(c, {}))
      BY ONLY <1>2, <1>3, SettledBack
    <2> QED BY <1>3, <2>1 DEF Cancelled
  <1>5. SettledSeen(c, {})
    <2>1. sat.level > to \/ c = sat
      BY <1>2, <1>3, Fields DEF Sound, Cancelled
    <2> QED BY <1>2, <1>4, <2>1
  <1>6. /\ sat'.trail = c.trail /\ sat'.level = c.level /\ sat'.qhead = c.qhead /\ sat'.watch = c.watch
        /\ sat'.excluded = c.excluded
    BY <1>1, <1>3 DEF Sound, State
  <1>7. SettledBelow(sat') /\ SettledSeen(sat', {})
    BY ONLY <1>4, <1>5, <1>6, SettledSame
  <1> QED BY <1>1, <1>2, <1>4, <1>6, <1>7 DEF Watched

LEMMA HandleConflictWatches ==
  ASSUME Good, Watched, HandleConflict, Quiet'
  PROVE  Watched'
  <1> DEFINE c == conflict
             r == Resolve(sat, c.clause)
             u == r.uip
             m == Minimized(sat, r.clause, u)
             rest == m \ {u}
             to == IF rest = {} THEN 0 ELSE Max({Level(sat, l) : l \in rest})
             z == CHOOSE l \in rest : Level(sat, l) = to
  <1>1. /\ Sound(sat) /\ todo = {} /\ sat.level > Len(sat.assumptions) /\ ConflictNow(sat, c)
        /\ SettledBelow(sat) /\ (sat.excluded => "excluded" \in history)
    BY NothingToDo DEF Good, HandleConflict, Phase, Watched
  <1>2. pc' = "propagate" /\ UNCHANGED todo /\ history \subseteq history'
    BY DEF HandleConflict, Note
  <1>3. Concluded(sat, c, r, u, m, rest, to, z) /\ \E X : Learning(sat, c, r, u, m, rest, to, z, X, sat')
    BY LearningIs DEF Quiet, NotYet
  <1>4. PICK X : Learning(sat, c, r, u, m, rest, to, z, X, sat')
    BY <1>3
  <1> HIDE DEF c, r, u, m, rest, to, z
  <1>5. sat'.excluded = sat.excluded /\ SettledBelow(sat') /\ SettledSeen(sat', {})
    BY ONLY <1>1, <1>3, <1>4, LearntIs
  <1> QED BY <1>1, <1>2, <1>5 DEF Watched

-----------------------------------------------------------------------------
(* The theorems.                                                           *)

LEMMA VisitGood ==
  ASSUME Good, \E c \in todo : Visit(c)
  PROVE  Good'
  <1>1. PICK c \in todo : Visit(c)
    OBVIOUS
  <1> QED BY <1>1, SkipGood, RewatchGood, PropagateGood, FoundConflictGood DEF Visit

LEMMA UserGood ==
  ASSUME Good, User
  PROVE  Good'
  <1>1. CASE \E f \in ToSet(script) : AddCore(f) \/ RemoveCore(f)
    <2>1. PICK f \in ToSet(script) : AddCore(f) \/ RemoveCore(f)
      BY <1>1
    <2> QED BY <2>1, AddCoreGood, RemoveCoreGood
  <1>2. CASE CheckCore
    BY <1>2, CheckCoreGood
  <1> QED BY <1>1, <1>2 DEF User

LEMMA SearchGood ==
  ASSUME Good, Search, NotYet({"dropped"})'
  PROVE  Good'
  <1>1. CASE Dequeue
    BY <1>1, DequeueGood
  <1>2. CASE \E c \in todo : Visit(c)
    BY <1>2, VisitGood
  <1>3. CASE NoTheory
    BY <1>3, NoTheoryGood
  <1>4. CASE Theory
    BY <1>4, TheoryGood
  <1>5. CASE Assume
    BY <1>5, AssumeGood
  <1>6. CASE AssumptionFails \/ AnswerSat \/ ConflictAtRoot
    BY <1>6, FinishedGood
  <1>7. CASE Decide
    BY <1>7, DecideGood
  <1>8. CASE Exclude
    BY <1>8, ExcludeGood
  <1>9. CASE Restart
    BY <1>9, RestartGood
  <1>10. CASE HandleConflict
    BY <1>10, HandleConflictGood
  <1> QED BY <1>1, <1>2, <1>3, <1>4, <1>5, <1>6, <1>7, <1>8, <1>9, <1>10 DEF Search

(* What has happened in a run is never forgotten.                          *)
LEMMA HistoryGrows ==
  ASSUME [Next]_vars
  PROVE  history \subseteq history'
  <1>1. CASE User
    BY <1>1, Zenon DEF User, AddCore, RemoveCore, CheckCore, Note
  <1>2. CASE Search
    BY <1>2, Zenon DEF Search, Dequeue, Visit, Skip, Rewatch, Propagate, FoundConflict, NoTheory, Theory, Assume,
                AssumptionFails, Decide, AnswerSat, Exclude, Restart, ConflictAtRoot, HandleConflict, Note
  <1>3. CASE UNCHANGED vars
    BY <1>3 DEF vars
  <1> QED BY <1>1, <1>2, <1>3 DEF Next, Rest

(* The invariant is inductive: it holds of every state reached, whichever  *)
(* formulas are added, removed and checked, whatever the backends answer   *)
(* and in whichever order they hand over lemmas and propagations.          *)
THEOREM Invariance == Spec => []IInv
  <1>1. Init => IInv
    BY InitGood DEF IInv, Good
  <1>2. IInv /\ [Next]_vars => IInv'
    <2>1. SUFFICES ASSUME IInv, [Next]_vars, NotYet({"dropped"})' PROVE Good'
      BY DEF IInv, Good
    <2>2. NotYet({"dropped"})
      BY <2>1, HistoryGrows DEF NotYet
    <2>3. Good
      BY <2>1, <2>2 DEF IInv, Good
    <2>4. CASE User
      BY <2>3, <2>4, UserGood
    <2>5. CASE Search
      BY <2>1, <2>3, <2>5, SearchGood
    <2>6. CASE UNCHANGED vars
      BY <2>3, <2>6 DEF Good, Phase, Requested, vars
    <2> QED BY <2>1, <2>4, <2>5, <2>6 DEF Next, Rest
  <1> QED BY <1>1, <1>2, PTL DEF Spec

(* Members have their types: no step of the search puts a variable on the  *)
(* trail twice, leaves a clause without two watches, or has something to   *)
(* propagate that is not on the trail.                                     *)
THEOREM TypeCorrect == Spec => [](NotYet({"dropped"}) => TypeOK)
  <1>1. ASSUME Good PROVE TypeOK
    <2>1. Sound(sat)
      BY <1>1 DEF Good
    <2>2. received \subseteq ToSet(script) /\ answer \in {"none", "SAT", "UNSAT", "UNKNOWN"}
      BY <1>1 DEF Good, Requested
    <2>3. pc \in {"idle", "propagate", "decide", "conflict"} /\ todo \subseteq DOMAIN sat.watch
      BY <1>1 DEF Good, Phase
    <2>4. TrueLits(sat) \subseteq Lit /\ sat.level \in Nat /\ sat.qhead \in 0 .. Len(sat.trail)
      BY <2>1, Fields DEF Sound, TrueLits, Entries, QueueFresh
    <2>5. \A i, j \in DOMAIN sat.trail : i # j => VarOf(sat.trail[i].lit) # VarOf(sat.trail[j].lit)
      BY <2>1 DEF Sound, Ordered, Once
    <2>6. ToSet(sat.assumptions) \subseteq Lit
      BY <2>1, Fields DEF Sound, ToSet
    <2>7. WatchesTwo(sat)
      BY <2>1 DEF Sound
    <2> QED BY <2>2, <2>3, <2>4, <2>5, <2>6, <2>7 DEF TypeOK, WatchesTwo
  <1>2. IInv => (NotYet({"dropped"}) => TypeOK)
    BY <1>1 DEF IInv, Good
  <1> QED BY <1>2, Invariance, PTL

(* passedFormulaCorrect(): whenever adaptPassedFormula() runs, it leaves   *)
(* the relevant literals that are true in the passed formula and no other: *)
(* updateInfo, counted by uncheckedEnqueue, cancelAssignmentUntil and      *)
(* createLiteral, is right through all backtracking, however late a        *)
(* literal has become relevant.                                            *)
THEOREM PassedFormulaRight == Spec => []PassedFormulaCorrect
  <1>1. ASSUME Good PROVE Adapt(sat).passed = sat.relevant \cap TrueLits(sat)
    <2> DEFINE t == Adapt(sat)
    <2>1. t = Adapt(sat) /\ Sound(sat)
      BY <1>1 DEF Good
    <2> HIDE DEF t
    <2>2. Adapted(sat, t)
      BY <2>1, AdaptReady
    <2> QED BY <2>1, <2>2 DEF Adapted
  <1>2. IInv => PassedFormulaCorrect
    BY <1>1 DEF IInv, Good, PassedFormulaCorrect
  <1> QED BY <1>2, Invariance, PTL

(* expPositionsCorrect(): a literal that the theory has propagated finds   *)
(* its explanation among mTheoryPropagations, although removing one moves  *)
(* the last one into its place, and although the first is never removed.   *)
THEOREM ExplanationsFound == Spec => []ExpPositions
  <1>1. ASSUME Good, NEW e \in Entries(sat), e.pos # 0
        PROVE  e.pos \in DOMAIN sat.props /\ sat.props[e.pos].conclusion = e.lit
    BY <1>1 DEF Good, Sound, Placed, Entries
  <1>2. IInv => ExpPositions
    BY <1>1 DEF IInv, Good, ExpPositions
  <1> QED BY <1>2, Invariance, PTL

(* The steps of the user, and those of the search, with the watches.       *)
LEMMA UserWatches ==
  ASSUME Good, Watched, User, Good', Quiet'
  PROVE  Watched'
  <1>1. CASE \E f \in ToSet(script) : AddCore(f) \/ RemoveCore(f)
    <2>1. PICK f \in ToSet(script) : AddCore(f) \/ RemoveCore(f)
      BY <1>1
    <2> QED BY <2>1, AddCoreWatches, RemoveCoreWatches
  <1>2. CASE CheckCore
    BY <1>2, CheckCoreWatches
  <1> QED BY <1>1, <1>2 DEF User

LEMMA SearchWatches ==
  ASSUME Good, Watched, Search, Good', Quiet'
  PROVE  Watched'
  <1>1. CASE Dequeue
    BY <1>1, DequeueWatches
  <1>2. CASE \E c \in todo : Visit(c)
    <2>1. PICK c \in todo : Visit(c)
      BY <1>2
    <2> QED BY <2>1, SkipWatches, RewatchWatches, PropagateWatches, FoundConflictWatches DEF Visit
  <1>3. CASE NoTheory
    BY <1>3, NoTheoryWatches
  <1>4. CASE Theory
    BY <1>4, TheoryWatches
  <1>5. CASE Assume
    BY <1>5, AssumeWatches
  <1>6. CASE AssumptionFails \/ AnswerSat \/ ConflictAtRoot
    BY <1>6, FinishedWatches
  <1>7. CASE Decide
    BY <1>7, DecideWatches
  <1>8. CASE Exclude
    BY <1>8, ExcludeWatches
  <1>9. CASE Restart
    BY <1>9, RestartWatches
  <1>10. CASE HandleConflict
    BY <1>10, HandleConflictWatches
  <1> QED BY <1>1, <1>2, <1>3, <1>4, <1>5, <1>6, <1>7, <1>8, <1>9, <1>10 DEF Search

(* Two watched literals are enough: wherever a literal has been dequeued,  *)
(* a clause with both its watches false by then has a literal that was     *)
(* true at that level or below.  Backtracking, storeLemmas, the reasons    *)
(* attached late and the clauses learnt keep it so, and so do clauses that *)
(* are added between checks.                                               *)
THEOREM NothingOverlooked == Spec => []WInv
  <1>1. Init => WInv
    <2>1. Init => DOMAIN sat.watch = {} /\ ~sat.excluded
      BY DEF Init
    <2> QED BY <2>1 DEF WInv, Watched, SettledBelow, SettledSeen
  <1>2. IInv /\ IInv' /\ WInv /\ [Next]_vars => WInv'
    <2>1. SUFFICES ASSUME IInv, IInv', WInv, [Next]_vars, Quiet' PROVE Watched'
      BY DEF WInv
    <2>2. Quiet
      BY <2>1, HistoryGrows DEF Quiet, NotYet
    <2>3. Good /\ Watched
      BY <2>1, <2>2 DEF IInv, WInv, Good, Quiet, NotYet
    <2>4. Good'
      BY <2>1 DEF IInv, Good, Quiet, NotYet
    <2>5. CASE User
      BY <2>1, <2>3, <2>4, <2>5, UserWatches
    <2>6. CASE Search
      BY <2>1, <2>3, <2>4, <2>6, SearchWatches
    <2>7. CASE UNCHANGED vars
      BY <2>3, <2>7 DEF Watched, Searching, vars
    <2> QED BY <2>1, <2>5, <2>6, <2>7 DEF Next, Rest
  <1> QED BY <1>1, <1>2, Invariance, PTL DEF Spec

(* propagate() has not overlooked a clause when search() decides: none is  *)
(* false, however it came to be attached and whatever was watched.         *)
THEOREM NothingFalsified == Spec => [](NotYet({"dropped"}) => NoFalsified)
  <1>1. ASSUME Good, Watched, pc = "decide", NEW c \in DOMAIN sat.watch, c \subseteq Negated(TrueLits(sat)) PROVE FALSE
    <2>1. Sound(sat) /\ sat.qhead = Len(sat.trail) /\ SettledSeen(sat, {})
      BY <1>1, AllSeen
    <2>2. /\ sat.trail \in Seq(Entry) /\ DOMAIN sat.trail = 1 .. Len(sat.trail) /\ Len(sat.trail) \in Nat /\ Once(sat)
          /\ c \subseteq Lit /\ \A i \in DOMAIN sat.trail : sat.trail[i].lit \in Lit
      BY <1>1, <2>1, Fields, WatchingIs DEF Sound, Ordered
    <2>3. \A l \in c : IsFalse(sat, l) /\ ~IsTrue(sat, l) /\ \E i \in DOMAIN sat.trail : sat.trail[i].lit = -l /\ l = -sat.trail[i].lit
      <3>1. SUFFICES ASSUME NEW l \in c
                     PROVE  /\ IsFalse(sat, l) /\ ~IsTrue(sat, l)
                            /\ \E i \in DOMAIN sat.trail : sat.trail[i].lit = -l /\ l = -sat.trail[i].lit
        OBVIOUS
      <3>2. PICK k \in TrueLits(sat) : l = -k
        BY <1>1 DEF Negated
      <3>3. PICK i \in DOMAIN sat.trail : sat.trail[i].lit = k
        BY <3>2 DEF TrueLits, Entries
      <3>4. k \in Lit /\ k = -l
        BY <2>2, <3>2, <3>3, Literals
      <3>5. IsFalse(sat, l)
        BY <3>2, <3>4 DEF IsFalse
      <3>6. ~IsTrue(sat, l)
        BY <2>2, <3>5, OneValue
      <3> QED BY <3>2, <3>3, <3>4, <3>5, <3>6
    <2>4. PICK a, b \in c : sat.watch[c] = {a, b}
      BY <1>1, <2>1 DEF Sound, WatchesTwo
    <2>5. PICK i \in DOMAIN sat.trail : sat.trail[i].lit = -a /\ a = -sat.trail[i].lit
      BY <2>3
    <2>6. PICK k \in DOMAIN sat.trail : sat.trail[k].lit = -b /\ b = -sat.trail[k].lit
      BY <2>3
    <2>7. \E j \in {i, k} : i <= j /\ k <= j
      BY <2>2
    <2>8. PICK j \in {i, k} : i <= j /\ k <= j
      BY <2>7
    <2>9. FalseUpTo(sat, c, j) /\ -sat.trail[j].lit \in sat.watch[c]
      <3>1. i \in 1 .. j /\ k \in 1 .. j
        BY <2>2, <2>8
      <3> QED BY <2>4, <2>5, <2>6, <2>8, <3>1 DEF FalseUpTo
    <2>10. ~Settled(sat, c, j)
      BY <2>3, TrueIs DEF Settled
    <2>11. Dealt(sat, {}, c, j) /\ j \in DOMAIN sat.trail
      BY <2>1, <2>2, <2>8 DEF Dealt
    <2> QED BY <1>1, <2>1, <2>9, <2>10, <2>11 DEF Overlooked, SettledSeen
  <1>2. IInv /\ WInv => (NotYet({"dropped"}) => NoFalsified)
    BY <1>1 DEF IInv, Good, WInv, Quiet, NotYet, NoFalsified
  <1> QED BY <1>2, Invariance, NothingOverlooked, PTL

-----------------------------------------------------------------------------
(* What is learnt follows from what is received.  One model of the formulas *)
(* received is taken at a time: it satisfies every clause attached, every   *)
(* assumption and every literal no decision has a part in, and each reason  *)
(* has but its own literal to be satisfied by.  That there is a model at    *)
(* all excludes the answer UNSAT.                                           *)

Sense(M) ==
    /\ M \subseteq Lit /\ \A l \in Lit : l \in M <=> -l \notin M
    /\ \A C \in Conflicts : Negated(C) \cap M # {}

FalseBefore(s, i, l) == \E j \in 1 .. i - 1 : s.trail[j].lit = -l
FirstOfLevel(s, i) == \A j \in 1 .. i - 1 : s.trail[j].level < s.trail[i].level
ExplainedBy(M, s, i) ==
    /\ s.trail[i].reason \cap M # {}
    /\ s.trail[i].lit \in s.trail[i].reason /\ s.trail[i].first = s.trail[i].lit
    /\ \A l \in s.trail[i].reason \ {s.trail[i].lit} : FalseBefore(s, i, l)
EntryAgrees(M, s, i) ==
    /\ s.trail[i].level <= Len(s.assumptions) => s.trail[i].lit \in M
    /\ s.trail[i].reason = NoClause =>
         s.trail[i].pos = 0 /\ (s.trail[i].level <= Len(s.assumptions) \/ FirstOfLevel(s, i))
    /\ s.trail[i].reason # NoClause => ExplainedBy(M, s, i)
Agrees(M, s) ==
    /\ s.ok
    /\ \A c \in DOMAIN s.watch : c \cap M # {}
    /\ \A i \in DOMAIN s.assumptions : s.assumptions[i] \in M
    /\ \A i \in DOMAIN s.trail : EntryAgrees(M, s, i)

(* A model of some formulas gives each variable one value, and there is no *)
(* conflict of the theory in it.                                           *)
LEMMA ModelIs ==
  ASSUME NEW F, NEW M \in Models(F)
  PROVE  Sense(M) /\ \A f \in F : f \cap M # {}
  <1>1. M \in Valuations(Var) /\ Satisfies(M, F) /\ Consistent({l \in M : IsTheory(l)})
    BY DEF Models
  <1>2. PICK P \in SUBSET Var : M = P \cup {-v : v \in Var \ P}
    BY <1>1 DEF Valuations
  <1>3. \A v \in Var : v \in Int /\ v > 0 /\ v \in Lit /\ -v \in Lit
    BY Variables, Literals
  <1>4. M \subseteq Lit
    BY <1>2, <1>3
  <1>5. \A v \in Var : (v \in M <=> v \in P) /\ (-v \in M <=> v \notin P)
    <2>1. ASSUME NEW v \in Var PROVE (v \in M <=> v \in P) /\ (-v \in M <=> v \notin P)
      <3>1. \A w \in Var : -w # v /\ -v # w /\ (-w = -v => w = v)
        BY <1>3
      <3> QED BY <1>2, <3>1
    <2> QED BY <2>1
  <1>6. \A l \in Lit : l \in M <=> -l \notin M
    <2>1. ASSUME NEW v \in Var PROVE (v \in M <=> -v \notin M) /\ (-v \in M <=> -(-v) \notin M)
      <3>1. -(-v) = v
        BY <1>3
      <3> QED BY <1>5, <3>1
    <2>2. \A l \in Lit : l \in Var \/ \E v \in Var : l = -v
      BY DEF Lit
    <2> QED BY <2>1, <2>2
  <1>7. ASSUME NEW C \in Conflicts PROVE Negated(C) \cap M # {}
    <2>1. C \subseteq {l \in Lit : IsTheory(l)}
      BY SATAssumption
    <2>2. PICK l \in C : l \notin {k \in M : IsTheory(k)}
      BY <1>1 DEF Consistent
    <2>3. -l \in M
      BY <1>4, <1>6, <2>1, <2>2, Literals
    <2> QED BY <2>3 DEF Negated
  <1>8. \A f \in F : f \cap M # {}
    BY <1>1 DEF Satisfies
  <1> QED BY <1>4, <1>6, <1>7, <1>8 DEF Sense

(* What Agrees is about is left alone, or entries are undone.              *)
LEMMA AgreesStill ==
  ASSUME NEW M, NEW s \in State, NEW t \in State, Agrees(M, s), t.ok, t.assumptions = s.assumptions,
         DOMAIN t.watch \subseteq DOMAIN s.watch,
         \A i \in DOMAIN t.trail : i \in DOMAIN s.trail /\ Same(t.trail[i], s.trail[i])
  PROVE  Agrees(M, t)
  <1>1. ASSUME NEW i \in DOMAIN t.trail PROVE EntryAgrees(M, t, i)
    <2>1. /\ i \in DOMAIN s.trail /\ EntryAgrees(M, s, i)
          /\ t.trail[i].lit = s.trail[i].lit /\ t.trail[i].reason = s.trail[i].reason
          /\ t.trail[i].first = s.trail[i].first /\ t.trail[i].level = s.trail[i].level
          /\ t.trail[i].pos # 0 => s.trail[i].pos # 0
      BY DEF Agrees, Same
    <2>2. \A j \in 1 .. i - 1 : t.trail[j].lit = s.trail[j].lit /\ t.trail[j].level = s.trail[j].level
      <3>1. DOMAIN t.trail = 1 .. Len(t.trail) /\ Len(t.trail) \in Nat
        BY Fields
      <3>2. 1 .. i - 1 \subseteq DOMAIN t.trail
        BY <3>1
      <3> QED BY <3>2 DEF Same
    <2>3. FirstOfLevel(s, i) => FirstOfLevel(t, i)
      BY <2>1, <2>2 DEF FirstOfLevel
    <2>4. \A l : FalseBefore(s, i, l) => FalseBefore(t, i, l)
      BY <2>2 DEF FalseBefore
    <2>5. ExplainedBy(M, s, i) => ExplainedBy(M, t, i)
      BY <2>1, <2>4 DEF ExplainedBy
    <2> QED BY <2>1, <2>3, <2>5 DEF EntryAgrees
  <1> QED BY <1>1 DEF Agrees

(* The same with a new entry: decided, or explained by a clause.           *)
Fits(M, s, e) ==
    /\ e.reason = NoClause =>
         /\ e.pos = 0 /\ (s.level <= Len(s.assumptions) => e.lit \in M)
         /\ s.level <= Len(s.assumptions) \/ \A j \in DOMAIN s.trail : s.trail[j].level < s.level
    /\ e.reason # NoClause =>
         /\ e.reason \cap M # {} /\ e.lit \in e.reason /\ e.first = e.lit
         /\ \A k \in e.reason \ {e.lit} : IsFalse(s, k)

LEMMA AgreesGrown ==
  ASSUME NEW M, Sense(M), NEW s, Sound(s), Agrees(M, s), NEW e \in Entry, e.level = s.level, Fits(M, s, e),
         NEW t, GrownBy(s, t, e), t.ok, t.assumptions = s.assumptions, t.watch = s.watch
  PROVE  Agrees(M, t)
  <1> DEFINE n == Len(s.trail)
             k == Len(s.assumptions)
  <1>1. /\ n \in Nat /\ DOMAIN s.trail = 1 .. n /\ s.level \in Nat /\ k \in Nat
        /\ DOMAIN t.trail = 1 .. n + 1 /\ t.trail[n + 1] = e /\ \A i \in 1 .. n : t.trail[i] = s.trail[i]
    BY Fields DEF Sound, GrownBy
  <1>2. \A i \in DOMAIN s.trail : s.trail[i].level <= s.level /\ s.trail[i].level \in Nat /\ s.trail[i].lit \in Lit
    BY Fields DEF Sound, Ordered, LevelsRise
  <1>3. ASSUME NEW i \in 1 .. n PROVE EntryAgrees(M, t, i)
    <2>1. EntryAgrees(M, s, i) /\ t.trail[i] = s.trail[i]
      BY <1>1 DEF Agrees
    <2>2. \A j \in 1 .. i - 1 : t.trail[j] = s.trail[j]
      BY <1>1
    <2>3. FirstOfLevel(s, i) => FirstOfLevel(t, i)
      BY <2>1, <2>2 DEF FirstOfLevel
    <2>4. \A l : FalseBefore(s, i, l) => FalseBefore(t, i, l)
      BY <2>2 DEF FalseBefore
    <2>5. ExplainedBy(M, s, i) => ExplainedBy(M, t, i)
      BY <2>1, <2>4 DEF ExplainedBy
    <2> QED BY <2>1, <2>3, <2>5 DEF EntryAgrees
  (* A clause of which the others are false, none by decision: so is its   *)
  (* own literal true.                                                     *)
  <1>4. ASSUME e.reason # NoClause, s.level <= k PROVE e.lit \in M
    <2>1. PICK x \in e.reason : x \in M
      BY <1>4 DEF Fits
    <2>2. SUFFICES ASSUME x # e.lit PROVE FALSE
      BY <2>1
    <2>3. PICK j \in DOMAIN s.trail : s.trail[j].lit = -x
      <3>1. IsFalse(s, x)
        BY <1>4, <2>2 DEF Fits
      <3> QED BY <3>1, TrueIs DEF IsFalse, IsTrue
    <2>4. s.trail[j].level <= k
      BY <1>1, <1>2, <1>4
    <2>5. -x \in M
      BY <2>3, <2>4 DEF Agrees, EntryAgrees
    <2> QED BY <2>1, <2>5 DEF Sense
  <1>5. EntryAgrees(M, t, n + 1)
    <2>1. t.trail[n + 1] = e /\ \A j \in 1 .. n : t.trail[j] = s.trail[j]
      BY <1>1
    <2>2. (n + 1) - 1 = n
      BY <1>1
    <2>3. ASSUME e.reason # NoClause PROVE ExplainedBy(M, t, n + 1)
      <3>1. ASSUME NEW x \in e.reason \ {e.lit} PROVE FalseBefore(t, n + 1, x)
        <4>1. IsFalse(s, x)
          BY <2>3 DEF Fits
        <4>2. PICK j \in DOMAIN s.trail : s.trail[j].lit = -x
          BY <4>1, TrueIs DEF IsFalse, IsTrue
        <4> QED BY <1>1, <2>1, <2>2, <4>2 DEF FalseBefore
      <3> QED BY <2>1, <2>3, <3>1 DEF ExplainedBy, Fits
    <2>4. ASSUME e.reason = NoClause PROVE e.pos = 0 /\ (e.level <= k \/ FirstOfLevel(t, n + 1)) /\ (e.level <= k => e.lit \in M)
      BY <1>1, <2>1, <2>2, <2>4 DEF Fits, FirstOfLevel
    <2>5. e.level <= k => e.lit \in M
      BY <1>4, <2>4
    <2> QED BY <2>1, <2>3, <2>4, <2>5 DEF EntryAgrees
  <1> QED BY <1>1, <1>3, <1>5 DEF Agrees

LEMMA AgreesCancelled ==
  ASSUME NEW M, NEW s, NEW t, NEW to \in Nat, Sound(s), Sound(t), Cancelled(s, t, to), Agrees(M, s)
  PROVE  Agrees(M, t)
  <1>1. s \in State /\ t \in State /\ s.level \in Nat
    BY Fields DEF Sound
  <1>2. t.ok
    <2>1. s.level <= to \/ s.level > to
      BY <1>1
    <2> QED BY <2>1 DEF Cancelled, Agrees
  <1>3. /\ t.assumptions = s.assumptions /\ DOMAIN t.watch \subseteq DOMAIN s.watch
        /\ \A i \in DOMAIN t.trail : i \in DOMAIN s.trail /\ Same(t.trail[i], s.trail[i])
    BY DEF Cancelled, Fixed
  <1> QED BY <1>1, <1>2, <1>3, AgreesStill

(* The trail is as it was, and every new clause is satisfied.              *)
Resting(s, t) == t.trail = s.trail /\ t.assumptions = s.assumptions /\ t.ok = s.ok
LEMMA AgreesResting ==
  ASSUME NEW M, NEW s, NEW t, Resting(s, t), Agrees(M, s),
         \A c \in DOMAIN t.watch : c \in DOMAIN s.watch \/ c \cap M # {}
  PROVE  Agrees(M, t)
  <1>1. \A i \in DOMAIN t.trail : EntryAgrees(M, t, i)
    BY DEF Agrees, EntryAgrees, ExplainedBy, FalseBefore, FirstOfLevel, Resting
  <1> QED BY <1>1 DEF Agrees, Resting

LEMMA AgreesAttached ==
  ASSUME NEW M, NEW s, NEW t, NEW C, Attached(s, t, C), Agrees(M, s), C \cap M # {}
  PROVE  Agrees(M, t)
  <1>1. Resting(s, t) /\ DOMAIN t.watch = DOMAIN s.watch \cup {C}
    BY DEF Attached, Resting
  <1> QED BY <1>1, AgreesResting

(* A clause is enqueued as the reason of its one literal that is not false. *)
LEMMA AgreesEnqueued ==
  ASSUME NEW M, Sense(M), NEW s, Sound(s), Agrees(M, s), NEW l \in Lit, NEW C, C \subseteq Lit, C \cap M # {},
         l \in C, \A k \in C \ {l} : IsFalse(s, k), NEW pos \in Nat,
         NEW t, t.ok, t.assumptions = s.assumptions, t.watch = s.watch, t.trail = Append(s.trail, NewEntry(s, l, C, l, pos))
  PROVE  Agrees(M, t)
  <1> DEFINE e == NewEntry(s, l, C, l, pos)
  <1>1. e \in Entry /\ e.level = s.level /\ s.trail \in Seq(Entry)
    BY Fields, Literals DEF NewEntry, Entry, Sound
  <1>2. Fits(M, s, e)
    BY DEF Fits, NewEntry, NoClause
  <1>3. t.trail = Append(s.trail, e)
    OBVIOUS
  <1> HIDE DEF e
  <1>4. GrownBy(s, t, e)
    BY <1>1, <1>3, Grown
  <1> QED BY <1>1, <1>2, <1>4, AgreesGrown

(* A new assumption comes on level 0: entries of its level are yet to come. *)
LEMMA AgreesAssuming ==
  ASSUME NEW M, NEW s, Sound(s), Agrees(M, s), s.level = 0, NEW x \in M,
         NEW t, t.ok, t.trail = s.trail, t.watch = s.watch, t.assumptions = Append(s.assumptions, x)
  PROVE  Agrees(M, t)
  <1>1. s.assumptions \in Seq(Lit) /\ \A i \in DOMAIN s.trail : s.trail[i].level = 0
    BY Fields DEF Sound, Ordered, LevelsRise
  <1>2. Len(s.assumptions) \in Nat
    BY <1>1
  <1>3. \A i \in DOMAIN t.trail : EntryAgrees(M, t, i)
    <2>1. ASSUME NEW i \in DOMAIN t.trail PROVE EntryAgrees(M, t, i)
      <3>1. EntryAgrees(M, s, i) /\ s.trail[i].level = 0
        BY <1>1 DEF Agrees
      <3>2. s.trail[i].lit \in M
        BY <1>2, <3>1 DEF EntryAgrees
      <3>3. 0 <= Len(t.assumptions)
        BY <1>1
      <3>4. ExplainedBy(M, s, i) => ExplainedBy(M, t, i)
        BY DEF ExplainedBy, FalseBefore
      <3> QED BY <3>1, <3>2, <3>3, <3>4 DEF EntryAgrees
    <2> QED BY <2>1
  <1>4. \A i \in DOMAIN t.assumptions : t.assumptions[i] \in M
    <2>1. \A i \in DOMAIN t.assumptions : (i \in DOMAIN s.assumptions /\ t.assumptions[i] = s.assumptions[i]) \/ t.assumptions[i] = x
      BY <1>1
    <2> QED BY <2>1 DEF Agrees
  <1> QED BY <1>3, <1>4 DEF Agrees

(* A clause that is satisfied, all of whose literals are false on the trail. *)
Opposed(M, s, C) == C \cap M # {} /\ \A l \in C : IsFalse(s, l)
StoreAgrees(M, r) == Agrees(M, r.s) /\ (r.conflict # NoConflict => Opposed(M, r.s, r.conflict.clause))

(* One lemma is stored: when it is a literal, on level 0, or true already. *)
LEMMA StoreLemmaAgrees ==
  ASSUME NEW M, Sense(M), NEW r, StoreOK(r), StoreAgrees(M, r),
         NEW C, C \subseteq Lit, Within(C, r.s.known), C \cap M # {},
         IsLiteral(C) => r.s.level = 0 \/ \A l \in C : FixedTrue(r.s, l),
         NEW t, t = StoreLemma(r, C)
  PROVE  StoreAgrees(M, t)
  <1> DEFINE s == r.s
             x == First(s, C)
             y == Second(s, C)
             at == Attach([s EXCEPT !.learnts = @ \cup {C}], C, {x, y})
  <1>1. /\ Sound(s) /\ s \in State /\ Once(s) /\ s.trail \in Seq(Entry) /\ Agrees(M, s) /\ s.ok /\ C # {}
        /\ \A i \in DOMAIN s.trail : s.trail[i].level <= s.level /\ s.trail[i].level \in Nat
    BY Fields DEF StoreOK, StoreAgrees, Agrees, Sound, Ordered, LevelsRise
  <1>2. r = [s |-> s, conflict |-> r.conflict] /\ (r.conflict # NoConflict => Opposed(M, s, r.conflict.clause))
    BY DEF StoreOK, StoreAgrees
  <1>3. x \in C /\ x \in Lit /\ VarOf(x) \in s.known
    BY <1>1, FirstExists DEF Within
  <1>4. CASE IsLiteral(C)
    <2>1. C = {x} /\ x \in M
      BY <1>3, <1>4 DEF IsLiteral
    <2>2. ~IsFalse(s, x)
      <3>1. SUFFICES ASSUME IsFalse(s, x) PROVE FALSE
        OBVIOUS
      <3>2. ~IsTrue(s, x)
        BY <1>1, <1>3, <3>1, OneValue
      <3>3. s.level = 0
        BY <1>3, <1>4, <3>2, TrueIs
      <3>4. PICK j \in DOMAIN s.trail : s.trail[j].lit = -x
        BY <3>1, TrueIs DEF IsFalse, IsTrue
      <3>5. s.trail[j].level = 0 /\ Len(s.assumptions) \in Nat
        BY <1>1, <3>3, Fields
      <3>6. s.trail[j].lit \in M
        BY <1>1, <3>5 DEF Agrees, EntryAgrees
      <3> QED BY <1>3, <2>1, <3>4, <3>6 DEF Sense
    <2>3. CASE IsTrue(s, x)
      <3>1. t = r
        BY <1>1, <1>4, <2>2, <2>3 DEF StoreLemma
      <3> QED BY <3>1
    <2>4. CASE ~IsTrue(s, x)
      <3> DEFINE u == [s EXCEPT !.assumptions = Append(@, x)]
      <3>1. t = [r EXCEPT !.s.assumptions = Append(@, x)]
        BY <1>1, <1>4, <2>2, <2>4 DEF StoreLemma
      <3>2. t = [s |-> u, conflict |-> r.conflict]
        BY <1>2, <3>1
      <3>3. u.ok /\ u.trail = s.trail /\ u.watch = s.watch /\ u.assumptions = Append(s.assumptions, x)
        BY <1>1 DEF State
      <3>4. s.level = 0
        BY <1>3, <1>4, <2>4, TrueIs
      <3> HIDE DEF u, x
      <3>5. Agrees(M, u)
        BY <1>1, <2>1, <3>3, <3>4, AgreesAssuming
      <3>6. \A D : Opposed(M, s, D) => Opposed(M, u, D)
        BY <3>3 DEF Opposed, IsFalse, TrueLits, Entries
      <3> QED BY <1>2, <3>2, <3>5, <3>6 DEF StoreAgrees
    <2> QED BY <2>3, <2>4
  <1>5. CASE ~IsLiteral(C)
    <2>1. /\ x \in C /\ y \in C /\ x # y
          /\ IsFalse(s, x) => \A l \in C : IsFalse(s, l)
          /\ IsFalse(s, y) => \A l \in C \ {x} : IsFalse(s, l)
      BY <1>1, <1>5, FirstAndSecond
    <2>2. t = IF Unassigned(s, x) /\ IsFalse(s, y) THEN [r EXCEPT !.s = Enqueue(at, x, C, x, 0)]
              ELSE IF IsFalse(s, x) THEN [s |-> at, conflict |-> NoteConflict(C, x)]
              ELSE [r EXCEPT !.s = at]
      BY <1>1, <1>5 DEF StoreLemma
    <2>3. Sound(at) /\ Attached(s, at, C)
      <3>1. s.learnts \cup {C} \subseteq s.learnts \cup {C} /\ at = Attach([s EXCEPT !.learnts = s.learnts \cup {C}], C, {x, y})
        OBVIOUS
      <3> HIDE DEF x, y, at
      <3> QED BY <1>1, <2>1, <3>1, AttachIs DEF StoreOK
    <2> HIDE DEF x, y, at
    <2>4. Agrees(M, at)
      BY <1>1, <2>3, AgreesAttached
    <2>5. at.trail = s.trail /\ at.known = s.known /\ at.assumptions = s.assumptions /\ at \in State
      BY <2>3 DEF Attached, Sound
    <2>6. \A l : IsFalse(at, l) <=> IsFalse(s, l)
      BY <2>5 DEF IsFalse, TrueLits, Entries
    <2>7. CASE Unassigned(s, x) /\ IsFalse(s, y)
      <3> DEFINE u == Enqueue(at, x, C, x, 0)
      <3>1. t = [s |-> u, conflict |-> r.conflict]
        BY <1>2, <2>2, <2>7
      <3>2. Unassigned(at, x) /\ x \in Int
        BY <1>3, <2>5, <2>7, Literals DEF Unassigned, IsTrue, IsFalse, TrueLits, Entries
      <3>3. x \in Lit /\ VarOf(x) \in at.known /\ (\A k \in C \ {x} : IsFalse(at, k)) /\ \A k \in C \ {x} : Assigned(at, k)
        <4>1. \A k \in C \ {x} : IsFalse(at, k)
          BY <2>1, <2>6, <2>7
        <4>2. at.trail \in Seq(Entry)
          BY <1>1, <2>5
        <4> QED BY <1>3, <2>5, <4>1, <4>2, Values
      <3>4. Sound(u) /\ Enqueued(at, u, x, NewEntry(at, x, C, x, 0))
        BY <2>3, <3>2, <3>3, EnqueuePlain
      <3> HIDE DEF u
      <3>5. u.ok /\ u.assumptions = at.assumptions /\ u.watch = at.watch /\ u.trail = Append(at.trail, NewEntry(at, x, C, x, 0))
        BY <2>4, <3>4 DEF Enqueued, Agrees
      <3>6. Agrees(M, u)
        BY <2>1, <2>3, <2>4, <3>3, <3>5, AgreesEnqueued
      <3>7. \A D : Opposed(M, s, D) => Opposed(M, u, D)
        <4>1. at.trail \in Seq(Entry) /\ NewEntry(at, x, C, x, 0) \in Entry
          BY <1>1, <2>3, <2>5, <3>2, <3>3, Fields DEF NewEntry, Entry
        <4>2. \A l : IsFalse(at, l) => IsFalse(u, l)
          BY <3>5, <4>1, Grown DEF GrownBy, IsFalse, IsTrue
        <4> QED BY <2>6, <4>2 DEF Opposed
      <3> QED BY <1>2, <3>1, <3>6, <3>7 DEF StoreAgrees
    <2>8. CASE ~(Unassigned(s, x) /\ IsFalse(s, y)) /\ IsFalse(s, x)
      <3>1. t = [s |-> at, conflict |-> NoteConflict(C, x)]
        BY <2>2, <2>8
      <3>2. Opposed(M, at, C)
        BY <2>1, <2>6, <2>8 DEF Opposed
      <3> QED BY <2>4, <3>1, <3>2 DEF StoreAgrees, NoteConflict
    <2>9. CASE ~(Unassigned(s, x) /\ IsFalse(s, y)) /\ ~IsFalse(s, x)
      <3>1. t = [s |-> at, conflict |-> r.conflict]
        BY <1>2, <2>2, <2>9
      <3>2. \A D : Opposed(M, s, D) => Opposed(M, at, D)
        BY <2>6 DEF Opposed
      <3> QED BY <1>2, <2>4, <3>1, <3>2 DEF StoreAgrees
    <2> QED BY <2>7, <2>8, <2>9
  <1> QED BY <1>4, <1>5

LEMMA StoreLemmasAgrees ==
  ASSUME NEW M, Sense(M), NEW s, Sound(s), Agrees(M, s), NEW lemmas, lemmas \in Seq(SUBSET Lit),
         \A i \in DOMAIN lemmas : Within(lemmas[i], s.known) /\ lemmas[i] \cap M # {},
         NEW r, r = StoreLemmas(s, lemmas)
  PROVE  StoreAgrees(M, r)
  <1> DEFINE n == Len(lemmas)
  <1>1. n \in Nat /\ DOMAIN lemmas = 1 .. n /\ \A i \in DOMAIN lemmas : lemmas[i] \subseteq Lit
    OBVIOUS
  <1>2. PICK m \in Nat : \E b : StoresFrom(s, lemmas, m, b)
    BY StoredRun
  <1>8. PICK b : StoresFrom(s, lemmas, m, b)
    BY <1>2
  <1> DEFINE f == StoredFrom(b, lemmas)
             T == {k \in 0 .. n : StoreAgrees(M, f[k])}
  <1>3. f[0] = [s |-> b, conflict |-> NoConflict] /\ \A k \in 1 .. n : f[k] = StoreLemma(f[k - 1], lemmas[n + 1 - k])
    BY <1>8 DEF StoresFrom
  <1>4. /\ Sound(b) /\ Cancelled(s, b, m) /\ b.level = m /\ r = f[n]
        /\ \A i \in DOMAIN lemmas : m <= LevelFor(s, lemmas[i])
        /\ \A k \in 0 .. n : StoreOK(f[k]) /\ Extends(b, f[k].s)
    BY <1>8 DEF StoresFrom
  <1> HIDE DEF f, n
  <1>5. 0 \in T
    <2>1. Agrees(M, b)
      BY <1>4, AgreesCancelled
    <2> QED BY <1>1, <1>3, <2>1 DEF StoreAgrees
  <1>6. ASSUME NEW k \in 0 .. n - 1, k \in T PROVE k + 1 \in T
    <2> DEFINE q == f[k]
               t == f[k + 1]
               C == lemmas[n - k]
    <2>1. k \in 0 .. n /\ k + 1 \in 1 .. n /\ k + 1 - 1 = k /\ n + 1 - (k + 1) = n - k /\ n - k \in 1 .. n
      BY <1>1
    <2>2. StoreOK(q) /\ Extends(b, q.s) /\ StoreAgrees(M, q) /\ t = StoreLemma(q, C) /\ n - k \in DOMAIN lemmas
      BY <1>1, <1>3, <1>4, <1>6, <2>1
    <2>3. C \subseteq Lit /\ Within(C, q.s.known) /\ C \cap M # {} /\ m <= LevelFor(s, C)
      <3>1. q.s.known = s.known
        BY <1>4, <2>2 DEF Extends, Cancelled, Fixed
      <3> QED BY <1>1, <1>4, <2>2, <3>1
    <2> HIDE DEF q, t, C
    <2>4. ASSUME IsLiteral(C), q.s.level # 0, NEW l \in C PROVE FixedTrue(q.s, l)
      <3>1. q.s.level = m /\ m # 0
        BY <1>4, <2>2, <2>4 DEF Extends
      <3>2. LevelFor(s, C) # 0
        BY <2>3, <3>1
      <3>3. FixedTrue(s, l)
        BY <2>4, <3>2 DEF LevelFor, IsLiteral
      <3>4. PICK i \in DOMAIN s.trail : s.trail[i].lit = l /\ s.trail[i].level = 0
        BY <3>3 DEF FixedTrue, Entries
      <3>5. i \in DOMAIN b.trail /\ b.trail[i].lit = l /\ b.trail[i].level = 0
        BY <1>4, <3>4 DEF Cancelled, Same
      <3>6. i \in DOMAIN q.s.trail /\ q.s.trail[i].lit = l /\ q.s.trail[i].level = 0
        BY <2>2, <3>5 DEF Extends, Same
      <3> QED BY <3>6 DEF FixedTrue, Entries
    <2>5. StoreAgrees(M, t)
      BY <2>2, <2>3, <2>4, StoreLemmaAgrees
    <2> QED BY <2>1, <2>5 DEF t
  <1>7. n \in T
    <2>1. n \in 0 .. n
      BY <1>1
    <2> HIDE DEF T
    <2> QED BY <1>1, <1>5, <1>6, <2>1, NumbersTo
  <1> QED BY <1>4, <1>7

(* A clause for storeLemmas loses only literals that are not of the model. *)
Hit(M, q) == \A i \in DOMAIN q : q[i] \cap M # {}

LEMMA AddedHits ==
  ASSUME NEW M, NEW s, NEW V, NEW q, ClausesOf(q, V), Hit(M, q), NEW C, NEW x \in C, x \in M, ~FixedFalse(s, x),
         NEW u, Added(u, q, s, C)
  PROVE  Hit(M, u)
  <1> DEFINE D == {l \in C : ~FixedFalse(s, l)}
  <1>1. AddClause(s, C) = <<>> \/ AddClause(s, C) = <<D>>
    BY DEF AddClause
  <1>2. D \cap M # {}
    OBVIOUS
  <1> HIDE DEF D
  <1>3. q \in Seq(SUBSET Lit)
    BY DEF ClausesOf
  <1>4. u = q \o <<>> \/ u = q \o <<D>>
    BY <1>1 DEF Added
  <1>5. ASSUME NEW i \in DOMAIN u PROVE u[i] \cap M # {}
    <2>1. (i \in DOMAIN q /\ u[i] = q[i]) \/ u[i] = D
      BY <1>3, <1>4
    <2> QED BY <1>2, <2>1 DEF Hit
  <1> QED BY <1>5 DEF Hit

LEMMA AddClauseHits ==
  ASSUME NEW M, Sense(M), NEW s, Agrees(M, s), s \in State, NEW V, NEW q, ClausesOf(q, V), Hit(M, q),
         NEW C, C \subseteq Lit, C \cap M # {}, NEW u, Added(u, q, s, C)
  PROVE  Hit(M, u)
  <1>1. PICK x \in C : x \in M
    OBVIOUS
  <1>2. ~FixedFalse(s, x)
    <2>1. SUFFICES ASSUME FixedFalse(s, x) PROVE FALSE
      OBVIOUS
    <2>2. PICK i \in DOMAIN s.trail : s.trail[i].lit = -x /\ s.trail[i].level = 0
      BY <2>1 DEF FixedFalse, Entries
    <2>3. Len(s.assumptions) \in Nat
      BY Fields
    <2>4. -x \in M
      BY <2>2, <2>3 DEF Agrees, EntryAgrees
    <2> QED BY <1>1, <2>4 DEF Sense
  <1> QED BY <1>1, <1>2, AddedHits

(* What the theory hands over is satisfied by any model of it; a propagation *)
(* has its literals true when it is taken.                                   *)
TakeAgrees(M, r) == Agrees(M, r.s) /\ Hit(M, r.lemmas)

LEMMA PropagableIs ==
  ASSUME NEW M, Sense(M), NEW P, NEW tp \in Propagable(P)
  PROVE  (Negated(tp.premise) \cup {tp.conclusion}) \cap M # {}
  <1>1. PICK C \in Conflicts : \E l \in C : tp = [premise |-> C \ {l}, conclusion |-> -l]
    BY DEF Propagable
  <1>4. PICK l \in C : tp = [premise |-> C \ {l}, conclusion |-> -l]
    BY <1>1
  <1>2. Negated(C) \cap M # {}
    BY DEF Sense
  <1>3. Negated(C) \subseteq Negated(tp.premise) \cup {tp.conclusion}
    BY <1>4 DEF Negated
  <1> QED BY <1>2, <1>3

PropagationEnqueued(s, t, tp, l, C, pos) == t = Enqueue([s EXCEPT !.props = Append(@, tp)], l, C, l, pos)
LEMMA EnqueuedPropagation ==
  ASSUME NEW s \in State, NEW tp, NEW l, NEW C, NEW pos, NEW t, PropagationEnqueued(s, t, tp, l, C, pos)
  PROVE  /\ t.trail = Append(s.trail, NewEntry(s, l, C, l, pos))
         /\ t.ok = s.ok /\ t.assumptions = s.assumptions /\ t.watch = s.watch
  <1> DEFINE q == Append(s.props, tp)
             u == [s EXCEPT !.props = q]
  <1>1. t = Enqueue(u, l, C, l, pos)
    BY DEF PropagationEnqueued
  <1> HIDE DEF q
  <1>2. /\ u = [s EXCEPT !.props = q] /\ u.trail = s.trail /\ u.ok = s.ok /\ u.assumptions = s.assumptions /\ u.watch = s.watch
        /\ u.level = s.level
    BY DEF State
  <1>3. /\ DOMAIN u = {"trail", "level", "qhead", "assumptions", "watch", "learnts", "ok", "known", "relevant",
                       "info", "changed", "passed", "changedPassed", "consistent", "excluded", "props", "model"}
        /\ u = [k \in DOMAIN u |-> u[k]]
    BY DEF State
  <1> HIDE DEF u
  <1> DEFINE e == [lit |-> l, reason |-> C, first |-> l, level |-> u.level, pos |-> pos]
             a == Append(u.trail, e)
             i == IF l \in u.relevant THEN [u.info EXCEPT ![l] = u.info[l] + 1] ELSE u.info
             c == IF l \in u.relevant /\ u.info[l] + 1 > 0 THEN u.changed \cup {VarOf(l)} ELSE u.changed
             n == IF (l \in u.relevant /\ u.info[l] + 1 > 0) /\ ~SatisfiedByBackend(u, l) THEN "UNKNOWN" ELSE u.consistent
  <1>4. t = [u EXCEPT !.trail = a, !.info = i, !.changed = c, !.consistent = n]
    BY <1>1 DEF Enqueue
  <1>5. a = Append(s.trail, NewEntry(s, l, C, l, pos))
    BY <1>2 DEF NewEntry
  <1> HIDE DEF a, i, c, n
  <1>6. t.trail = a /\ t.ok = u.ok /\ t.assumptions = u.assumptions /\ t.watch = u.watch
    BY ONLY <1>3, <1>4
  <1> QED BY ONLY <1>2, <1>5, <1>6

LEMMA AgreesCreated ==
  ASSUME NEW M, NEW s, Sound(s), Agrees(M, s), NEW C, C \subseteq Lit, NEW isLemma \in BOOLEAN,
         NEW t, t = CreateLiterals(s, C, isLemma)
  PROVE  Sound(t) /\ t \in State /\ Created(s, t, C) /\ Agrees(M, t)
  <1>1. Sound(t) /\ Created(s, t, C)
    BY CreateLiteralsIs
  <1>2. s \in State /\ t \in State
    BY <1>1 DEF Sound
  <1>3. t.ok = s.ok
    BY ONLY <1>2, t = CreateLiterals(s, C, isLemma), OkKept
  <1>4. Resting(s, t) /\ t.watch = s.watch
    BY <1>1, <1>3 DEF Created, Resting
  <1> QED BY <1>1, <1>2, <1>4, AgreesResting

LEMMA PropagateTheoryAgrees ==
  ASSUME NEW M, Sense(M), NEW r, NEW P, TakeOK(r, P), TakeAgrees(M, r),
         NEW tp \in Propagation, tp \in Propagable(P), \A k \in tp.premise : IsTrue(r.s, k),
         NEW t, t = PropagateTheory(r, tp)
  PROVE  TakeAgrees(M, t)
  <1> DEFINE l == tp.conclusion
             s == CreateLiterals(r.s, {l}, TRUE)
             C == Negated(tp.premise) \cup {l}
             p == Len(s.props) + 1
             u == Enqueue([s EXCEPT !.props = Append(@, tp)], l, C, l, p)
  <1>1. l \in Lit /\ tp.premise \subseteq Lit
    BY DEF Propagation
  <1>6. t = (IF Unassigned(s, l) THEN [r EXCEPT !.s = u]
             ELSE IF IsFalse(s, l) THEN [s |-> s, lemmas |-> r.lemmas \o AddClause(s, C)]
             ELSE [r EXCEPT !.s = s])
    BY DEF PropagateTheory
  <1>2. Sound(s) /\ s \in State /\ Created(r.s, s, {l}) /\ Agrees(M, s)
    <2>1. Sound(r.s) /\ {l} \subseteq Lit /\ TRUE \in BOOLEAN /\ s = CreateLiterals(r.s, {l}, TRUE) /\ Agrees(M, r.s)
      BY <1>1 DEF TakeOK, TakeAgrees
    <2> HIDE DEF s, l
    <2> QED BY ONLY <2>1, AgreesCreated
  <1> HIDE DEF s
  <1>3. C \subseteq Lit /\ C \cap M # {} /\ l \in C
    <2>1. Negated(tp.premise) \subseteq Lit
      BY <1>1, NegatedIs
    <2> QED BY <1>1, <2>1, PropagableIs
  <1>4. p \in Nat
    <2>1. s.props \in Seq(Propagation)
      BY <1>2, Fields
    <2> QED BY <2>1
  <1>5. \A k \in C \ {l} : IsFalse(s, k)
    <2>1. ASSUME NEW k \in Negated(tp.premise) PROVE IsFalse(s, k)
      <3>1. PICK m \in tp.premise : k = -m
        BY DEF Negated
      <3>2. IsTrue(s, m)
        <4>1. IsTrue(r.s, m) /\ s.trail = r.s.trail
          BY <1>2, <3>1 DEF Created
        <4> QED BY ONLY <4>1 DEF IsTrue, TrueLits, Entries
      <3>3. -k = m
        BY <1>1, <3>1, Literals
      <3> QED BY <3>2, <3>3 DEF IsFalse, IsTrue
    <2> QED BY <2>1
  <1> HIDE DEF C, u, l, p
  <1>8. PropagationEnqueued(s, u, tp, l, C, p)
    BY ONLY Zenon DEF u, PropagationEnqueued
  <1>7. u.trail = Append(s.trail, NewEntry(s, l, C, l, p)) /\ u.ok = s.ok /\ u.assumptions = s.assumptions /\ u.watch = s.watch
    BY ONLY <1>2, <1>8, EnqueuedPropagation
  <1>9. Agrees(M, u)
    <2>1. u.ok
      BY <1>2, <1>7 DEF Agrees
    <2> QED BY ONLY Sense(M), <1>1, <1>2, <1>3, <1>4, <1>5, <1>7, <2>1, AgreesEnqueued
  <1>10. r = [s |-> r.s, lemmas |-> r.lemmas] /\ ClausesOf(r.lemmas, r.s.known) /\ Hit(M, r.lemmas)
    BY DEF TakeOK, TakeAgrees
  <1> DEFINE q == r.lemmas \o AddClause(s, C)
  <1>11. Hit(M, q)
    <2>1. Added(q, r.lemmas, s, C)
      BY DEF Added
    <2> HIDE DEF q
    <2> QED BY ONLY Sense(M), <1>2, <1>3, <1>10, <2>1, AddClauseHits
  <1> HIDE DEF q
  <1>12. t = [s |-> u, lemmas |-> r.lemmas] \/ t = [s |-> s, lemmas |-> q] \/ t = [s |-> s, lemmas |-> r.lemmas]
    BY <1>6, <1>10 DEF q
  <1> QED BY <1>2, <1>9, <1>10, <1>11, <1>12 DEF TakeAgrees

LEMMA TakeKeepsAgreement ==
  ASSUME NEW M, Sense(M), NEW r, NEW P, TakeOK(r, P), TakeAgrees(M, r), NEW tps, NEW x, HandedOK(x, P, tps),
         \A j \in DOMAIN tps : \A k \in tps[j].premise : IsTrue(r.s, k), NEW t, t = Take(r, x)
  PROVE  TakeAgrees(M, t)
  <1>1. /\ r = [s |-> r.s, lemmas |-> r.lemmas] /\ Sound(r.s) /\ r.s \in State /\ ClausesOf(r.lemmas, r.s.known)
        /\ Agrees(M, r.s) /\ Hit(M, r.lemmas)
    BY DEF TakeOK, TakeAgrees, Sound
  <1>2. CASE x.kind = "conflict"
    <2> DEFINE C == Negated(x.given)
               q == r.lemmas \o AddClause(r.s, C)
    <2>1. x.given \in Conflicts /\ x.given \subseteq Lit
      BY <1>2, TheoryFinite DEF HandedOK
    <2>2. C \subseteq Lit /\ C \cap M # {}
      BY <2>1, NegatedIs DEF Sense
    <2>3. t = [r EXCEPT !.lemmas = q]
      BY <1>2 DEF Take, LearnConflict
    <2>4. Hit(M, q)
      <3>1. Added(q, r.lemmas, r.s, C)
        BY DEF Added
      <3> HIDE DEF C, q
      <3> QED BY ONLY Sense(M), <1>1, <2>2, <3>1, AddClauseHits
    <2> HIDE DEF q
    <2>5. t = [s |-> r.s, lemmas |-> q]
      BY <1>1, <2>3
    <2> QED BY <1>1, <2>4, <2>5 DEF TakeAgrees
  <1>3. CASE x.kind = "propagation"
    <2>1. x.given \in Propagation /\ x.given \in Propagable(P) /\ \E j \in DOMAIN tps : x.given = tps[j]
      BY <1>3 DEF HandedOK
    <2>2. t = PropagateTheory(r, x.given)
      BY <1>3 DEF Take
    <2> QED BY <2>1, <2>2, PropagateTheoryAgrees
  <1>4. CASE x.kind = "lemma"
    <2> DEFINE C == x.given
               s == CreateLiterals(r.s, C, TRUE)
               q == r.lemmas \o AddClause(s, C)
    <2>1. C \subseteq Lit /\ C \cap M # {}
      BY <1>4 DEF HandedOK, Sense
    <2>2. Sound(s) /\ s \in State /\ Agrees(M, s)
      <3>1. TRUE \in BOOLEAN /\ s = CreateLiterals(r.s, C, TRUE)
        OBVIOUS
      <3> HIDE DEF C, s
      <3> QED BY ONLY <1>1, <2>1, <3>1, AgreesCreated
    <2>3. t = r \/ t = [s |-> s, lemmas |-> q]
      BY <1>4 DEF Take, ProcessLemma
    <2> HIDE DEF C, s
    <2>5. Hit(M, q)
      <3>1. Added(q, r.lemmas, s, C)
        BY DEF Added
      <3> HIDE DEF q
      <3> QED BY ONLY Sense(M), <1>1, <2>1, <2>2, <3>1, AddClauseHits
    <2> HIDE DEF q
    <2> QED BY <2>2, <2>3, <2>5 DEF TakeAgrees
  <1> QED BY <1>2, <1>3, <1>4 DEF HandedOK

LEMMA TheoryRoundAgrees ==
  ASSUME NEW M, Sense(M), NEW s, NEW P, NEW a, NEW tps, NEW Ls, NEW u, TakesFrom(s, P, a, tps, Ls, u), Agrees(M, u),
         \A j \in DOMAIN tps : \A k \in tps[j].premise : IsTrue(u, k),
         NEW t, t = TheoryRound(s, a, tps, Ls)
  PROVE  StoreAgrees(M, t)
  <1> DEFINE h == Handed(a, tps, Ls)
             f == Taken(u, h)
             k == Len(h)
             T == {i \in 0 .. k : TakeAgrees(M, f[i])}
  <1>1. /\ k \in Nat /\ \A i \in 1 .. k : HandedOK(h[i], P, tps)
        /\ f[0] = [s |-> u, lemmas |-> <<>>] /\ \A i \in 1 .. k : f[i] = Take(f[i - 1], h[i])
        /\ \A i \in 0 .. k : TakeOK(f[i], P) /\ Onward(u, f[i].s)
        /\ t = IF f[k].lemmas = <<>> THEN [s |-> f[k].s, conflict |-> NoConflict] ELSE StoreLemmas(f[k].s, f[k].lemmas)
    BY DEF TakesFrom
  <1> HIDE DEF h, f, k
  <1>2. 0 \in T
    BY <1>1 DEF TakeAgrees, Hit
  <1>3. ASSUME NEW i \in 0 .. k - 1, i \in T PROVE i + 1 \in T
    <2>1. i \in 0 .. k /\ i + 1 \in 0 .. k /\ i + 1 \in 1 .. k /\ (i + 1) - 1 = i
      BY <1>1
    <2>2. TakeAgrees(M, f[i]) /\ TakeOK(f[i], P) /\ HandedOK(h[i + 1], P, tps) /\ f[i + 1] = Take(f[i], h[i + 1]) /\ Onward(u, f[i].s)
      BY <1>1, <1>3, <2>1
    <2>3. \A l : IsTrue(u, l) => IsTrue(f[i].s, l)
      BY <2>2, TrueIs DEF Onward, Follows, Grows
    <2>4. TakeAgrees(M, f[i + 1])
      BY <2>2, <2>3, TakeKeepsAgreement
    <2> QED BY <2>1, <2>4
  <1>4. TakeAgrees(M, f[k]) /\ TakeOK(f[k], P)
    <2>1. k \in 0 .. k
      BY <1>1
    <2>2. k \in T
      <3> HIDE DEF T
      <3> QED BY <1>1, <1>2, <1>3, <2>1, NumbersTo
    <2> QED BY <1>1, <2>1, <2>2
  <1>5. CASE f[k].lemmas = <<>>
    BY <1>1, <1>4, <1>5 DEF StoreAgrees, TakeAgrees
  <1>6. CASE f[k].lemmas # <<>>
    <2>1. /\ t = StoreLemmas(f[k].s, f[k].lemmas) /\ Sound(f[k].s) /\ Agrees(M, f[k].s)
          /\ f[k].lemmas \in Seq(SUBSET Lit)
          /\ \A i \in DOMAIN f[k].lemmas : Within(f[k].lemmas[i], f[k].s.known) /\ f[k].lemmas[i] \cap M # {}
      BY <1>1, <1>4, <1>6 DEF TakeOK, TakeAgrees, ClausesOf, Hit
    <2> QED BY ONLY Sense(M), <2>1, StoreLemmasAgrees
  <1> QED BY <1>5, <1>6

(* An explanation loses only literals that no decision has made false.     *)
LEMMA ExplainAgrees ==
  ASSUME NEW M, Sense(M), NEW s, Sound(s), Agrees(M, s), NEW i \in DOMAIN s.trail, NEW l, l = s.trail[i].lit,
         NEW t, t = Explain(s, l)
  PROVE  Agrees(M, t)
  <1>1. Sound(t) /\ AsBefore(s, t) /\ (t = s \/ \E C : NowExplained(s, t, i, C))
    BY ExplainIs
  <1>2. SUFFICES ASSUME NEW C, NowExplained(s, t, i, C) PROVE Agrees(M, t)
    BY <1>1
  <1> DEFINE e == s.trail[i]
  <1>3. /\ s.trail \in Seq(Entry) /\ DOMAIN s.trail = 1 .. Len(s.trail) /\ Len(s.trail) \in Nat /\ Once(s)
        /\ e \in Entry /\ e.reason \subseteq Lit /\ e.lit \in Lit /\ Len(s.assumptions) \in Nat
        /\ \A j \in DOMAIN s.trail : s.trail[j].level \in Nat
    BY Fields DEF Sound, Ordered
  <1>4. EntryAgrees(M, s, i) /\ ExplainedBy(M, s, i)
    BY <1>2 DEF NowExplained, Agrees, EntryAgrees
  <1>5. /\ C = {e.lit} \cup AboveZero(s, e.reason \ {e.lit}) /\ t.ok = s.ok
        /\ DOMAIN t.watch \subseteq DOMAIN s.watch \cup {C}
        /\ t.trail[i].reason = C /\ t.trail[i].first = e.first /\ t.trail[i].pos = 0
        /\ \A j \in DOMAIN s.trail \ {i} : Same(t.trail[j], s.trail[j])
    BY <1>2 DEF NowExplained
  <1> HIDE DEF e
  <1>6. C \subseteq e.reason /\ e.lit \in C /\ e.first = e.lit
    BY <1>4, <1>5 DEF ExplainedBy, e, AboveZero
  <1>7. C \cap M # {}
    <2>1. PICK x \in e.reason : x \in M
      BY <1>4 DEF ExplainedBy, e
    <2>2. SUFFICES ASSUME x # e.lit PROVE x \in C
      BY <1>6, <2>1
    <2>3. PICK j \in 1 .. i - 1 : s.trail[j].lit = -x
      BY <1>4, <2>1, <2>2 DEF ExplainedBy, FalseBefore, e
    <2>4. j \in DOMAIN s.trail
      BY <1>3, <2>3
    <2>5. x \in Lit /\ VarOf(s.trail[j].lit) = VarOf(x)
      BY <1>3, <2>1, <2>3, Literals
    <2>6. Level(s, x) = s.trail[j].level
      BY <1>3, <2>4, <2>5, IndexIs
    <2>7. s.trail[j].level # 0
      <3>1. SUFFICES ASSUME s.trail[j].level = 0 PROVE FALSE
        OBVIOUS
      <3>2. s.trail[j].lit \in M
        BY <1>3, <2>4, <3>1 DEF Agrees, EntryAgrees
      <3> QED BY <2>1, <2>3, <2>5, <3>2 DEF Sense
    <2> QED BY <1>3, <1>5, <2>1, <2>2, <2>4, <2>6, <2>7 DEF AboveZero
  <1>8. /\ DOMAIN t.trail = DOMAIN s.trail /\ t.assumptions = s.assumptions
        /\ \A j \in DOMAIN s.trail : t.trail[j].lit = s.trail[j].lit /\ t.trail[j].level = s.trail[j].level
    BY <1>1 DEF AsBefore
  <1>9. ASSUME NEW j \in DOMAIN s.trail PROVE EntryAgrees(M, t, j)
    <2>1. \A m \in 1 .. j - 1 : t.trail[m].lit = s.trail[m].lit /\ t.trail[m].level = s.trail[m].level
      BY <1>3, <1>8
    <2>2. EntryAgrees(M, s, j) /\ t.trail[j].lit = s.trail[j].lit /\ t.trail[j].level = s.trail[j].level
      BY <1>8 DEF Agrees
    <2>3. (FirstOfLevel(s, j) => FirstOfLevel(t, j)) /\ \A k : FalseBefore(s, j, k) => FalseBefore(t, j, k)
      BY <2>1, <2>2 DEF FirstOfLevel, FalseBefore
    <2>4. CASE j = i
      <3>1. \A k \in C \ {e.lit} : FalseBefore(t, i, k)
        BY <1>4, <1>6, <2>3, <2>4 DEF ExplainedBy, e
      <3>2. ExplainedBy(M, t, i)
        BY <1>5, <1>6, <1>7, <2>2, <2>4, <3>1 DEF ExplainedBy, e
      <3> QED BY <1>5, <1>6, <1>8, <2>2, <2>4, <3>2 DEF EntryAgrees, NoClause
    <2>5. CASE j # i
      <3>1. /\ t.trail[j].reason = s.trail[j].reason /\ t.trail[j].first = s.trail[j].first
            /\ t.trail[j].pos # 0 => s.trail[j].pos # 0
        BY <1>5, <2>5 DEF Same
      <3>2. ExplainedBy(M, s, j) => ExplainedBy(M, t, j)
        BY <2>2, <2>3, <3>1 DEF ExplainedBy
      <3> QED BY <1>8, <2>2, <2>3, <3>1, <3>2 DEF EntryAgrees
    <2> QED BY <2>4, <2>5
  <1> QED BY <1>5, <1>7, <1>8, <1>9 DEF Agrees

LEMMA ExplainAllAgrees ==
  ASSUME NEW M, Sense(M), NEW s, Sound(s), Agrees(M, s), NEW L, NEW t, t = ExplainAll(s, L)
  PROVE  Agrees(M, t)
  <1> DEFINE n == Len(s.trail)
             f == Explained(s, L)
             T == {k \in 0 .. n : Sound(f[k]) /\ AsBefore(s, f[k]) /\ Agrees(M, f[k])}
  <1>1. n \in Nat /\ DOMAIN s.trail = 1 .. n
    BY Fields DEF Sound
  <1>2. /\ f[0] = s /\ t = f[n]
        /\ \A k \in 1 .. n : f[k] = ExplainStep(f[k - 1], L, s.trail[n + 1 - k].lit)
    BY <1>1, ExplainedSteps DEF ExplainAll
  <1> HIDE DEF n, f
  <1>3. 0 \in T
    BY <1>1, <1>2 DEF AsBefore
  <1>4. \A k \in 0 .. n - 1 : k \in T => k + 1 \in T
    <2>1. SUFFICES ASSUME NEW k \in 0 .. n - 1, Sound(f[k]), AsBefore(s, f[k]), Agrees(M, f[k])
                   PROVE  Sound(f[k + 1]) /\ AsBefore(s, f[k + 1]) /\ Agrees(M, f[k + 1])
      BY <1>1
    <2> DEFINE i == n - k
               l == s.trail[i].lit
    <2>2. i \in DOMAIN s.trail /\ k + 1 \in 1 .. n /\ n + 1 - (k + 1) = i /\ (k + 1) - 1 = k
      BY <1>1
    <2>3. f[k + 1] = IF l \in L THEN Explain(f[k], l) ELSE f[k]
      BY <1>2, <2>2 DEF ExplainStep
    <2>4. i \in DOMAIN f[k].trail /\ l = f[k].trail[i].lit
      BY <2>1, <2>2 DEF AsBefore
    <2> HIDE DEF l, i
    <2>5. CASE l \in L
      <3>1. f[k + 1] = Explain(f[k], l)
        BY <2>3, <2>5
      <3>2. Sound(f[k + 1]) /\ AsBefore(f[k], f[k + 1])
        BY <2>1, <2>4, <3>1, ExplainIs
      <3>3. Agrees(M, f[k + 1])
        BY <2>1, <2>4, <3>1, ExplainAgrees
      <3> QED BY <2>1, <3>2, <3>3, AsBeforeIs
    <2>6. CASE l \notin L
      BY <2>1, <2>3, <2>6
    <2> QED BY <2>5, <2>6
  <1>5. n \in T
    <2> HIDE DEF T
    <2>1. 0 .. n \subseteq T
      BY <1>1, <1>3, <1>4, NumbersTo
    <2> QED BY <1>1, <2>1
  <1> QED BY <1>2, <1>5

(* A literal of the model is false only by decision.                       *)
LEMMA FalseByDecision ==
  ASSUME NEW M, Sense(M), NEW s, Sound(s), Agrees(M, s), NEW x \in Lit, IsFalse(s, x)
  PROVE  /\ \E j \in DOMAIN s.trail : /\ s.trail[j].lit = -x /\ VarOf(s.trail[j].lit) = VarOf(x)
                                      /\ Level(s, x) = s.trail[j].level /\ Level(s, x) \in Nat
         /\ x \in M => Level(s, x) > Len(s.assumptions) /\ Level(s, x) > 0
  <1>1. PICK j \in DOMAIN s.trail : s.trail[j].lit = -x
    BY TrueIs DEF IsFalse, IsTrue
  <1>2. /\ s.trail \in Seq(Entry) /\ Once(s) /\ s.trail[j].level \in Nat /\ Len(s.assumptions) \in Nat
        /\ VarOf(s.trail[j].lit) = VarOf(x)
    BY <1>1, Fields, Literals DEF Sound, Ordered
  <1>3. Level(s, x) = s.trail[j].level
    BY <1>2, IndexIs
  <1>4. ASSUME x \in M PROVE ~(s.trail[j].level <= Len(s.assumptions))
    <2>1. SUFFICES ASSUME s.trail[j].level <= Len(s.assumptions) PROVE FALSE
      OBVIOUS
    <2>2. -x \in M
      BY <1>1, <2>1 DEF Agrees, EntryAgrees
    <2> QED BY <1>4, <2>2 DEF Sense
  <1> QED BY <1>1, <1>2, <1>3, <1>4

AllFalse(s, C) == \A l \in C : IsFalse(s, l)
LEMMA LookKeeps ==
  ASSUME NEW s, Sound(s), NEW r, Resolving(s, r), AllFalse(s, r.lower), NEW C, C \subseteq Lit, AllFalse(s, C),
         NEW t, t = Look(s, r, C)
  PROVE  /\ AllFalse(s, t.lower) /\ t.steps = r.steps /\ r.open \subseteq t.open /\ r.lower \subseteq t.lower
         /\ \A v \in t.open : v \in r.open \/ \E l \in C : VarOf(l) = v
         /\ \A x \in C : Level(s, x) > 0 => x \in t.lower \/ VarOf(x) \in t.open
  <1> DEFINE new == {l \in AboveZero(s, C) : VarOf(l) \notin r.open /\ ~\E k \in r.lower : VarOf(k) = VarOf(l)}
             current == {l \in new : Level(s, l) = s.level}
             a == r.open \cup {VarOf(l) : l \in current}
             b == r.lower \cup (new \ current)
  <1>1. t = [r EXCEPT !.open = a, !.lower = b]
    BY DEF Look
  <1>2. new \subseteq C /\ current \subseteq new
    BY DEF AboveZero
  <1>3. AllFalse(s, b)
    BY <1>2 DEF AllFalse
  <1>4. \A v \in a : v \in r.open \/ \E l \in C : VarOf(l) = v
    BY <1>2
  <1>5. ASSUME NEW x \in C, Level(s, x) > 0 PROVE x \in b \/ VarOf(x) \in a
    <2>1. CASE VarOf(x) \in r.open
      BY <2>1
    <2>2. CASE \E k \in r.lower : VarOf(k) = VarOf(x)
      <3>1. PICK k \in r.lower : VarOf(k) = VarOf(x)
        BY <2>2
      <3>2. IsFalse(s, k) /\ IsFalse(s, x) /\ k \in Lit /\ x \in Lit
        BY <3>1 DEF AllFalse, Resolving, Resolvent
      <3>3. k = x \/ k = -x
        BY <3>1, <3>2, Literals
      <3>4. k # -x
        <4>1. SUFFICES ASSUME k = -x PROVE FALSE
          OBVIOUS
        <4>2. IsTrue(s, x)
          BY <3>2, <4>1, Literals DEF IsTrue, IsFalse
        <4>3. s.trail \in Seq(Entry) /\ Once(s)
          BY Fields DEF Sound, Ordered
        <4> QED BY <3>2, <4>2, <4>3, OneValue
      <3> QED BY <3>1, <3>3, <3>4
    <2>3. CASE VarOf(x) \notin r.open /\ ~\E k \in r.lower : VarOf(k) = VarOf(x)
      <3>1. x \in new
        BY <1>5, <2>3 DEF AboveZero
      <3> QED BY <3>1
    <2> QED BY <2>1, <2>2, <2>3
  <1>6. r \in Resolvent /\ r.open \subseteq a /\ r.lower \subseteq b
    BY DEF Resolving
  <1> HIDE DEF a, b
  <1>7. t.open = a /\ t.lower = b /\ t.steps = r.steps
    BY ONLY <1>1, <1>6 DEF Resolvent
  <1> QED BY <1>3, <1>4, <1>5, <1>6, <1>7

(* While there is more to resolve, every open variable is on the trail up   *)
(* to p; a literal of the model stays among those that will be learnt.     *)
Meets(M, s, r) == \E x \in M : IsFalse(s, x) /\ (x \in r.lower \/ VarOf(x) \in r.open)
OpenUpTo(s, r, p) ==
    \A j \in DOMAIN s.trail : j > p /\ VarOf(s.trail[j].lit) \in r.open => r.open = {VarOf(s.trail[j].lit)}
AnalysisOK(M, s, C, r, p) ==
    /\ Resolving(s, r) /\ AllFalse(s, r.lower) /\ Meets(M, s, r) /\ OpenUpTo(s, r, p)
    /\ r.steps = 0 => \A v \in r.open : \E l \in C : VarOf(l) = v

LEMMA AnalyzeStepMeets ==
  ASSUME NEW M, Sense(M), NEW s, Sound(s), Agrees(M, s), s.level > Len(s.assumptions),
         NEW C, NEW p \in DOMAIN s.trail, NEW r, AnalysisOK(M, s, C, r, p), NEW e, e = s.trail[p],
         NEW t, t = AnalyzeStep(s, r, e)
  PROVE  AnalysisOK(M, s, C, t, p - 1)
  <1> DEFINE D == e.reason \ {e.lit}
             v == VarOf(e.lit)
             o == r.open \ {v}
             q == [r EXCEPT !.open = o, !.steps = @ + 1, !.seen = @ \cup {e.lit}]
  <1>1. /\ s.trail \in Seq(Entry) /\ DOMAIN s.trail = 1 .. Len(s.trail) /\ Len(s.trail) \in Nat /\ Once(s)
        /\ e \in Entry /\ e.reason \subseteq Lit /\ e.lit \in Lit /\ p \in Nat
        /\ s.level \in Nat /\ Len(s.assumptions) \in Nat
    BY Fields DEF Sound, Ordered
  <1>2. Resolving(s, r) /\ AllFalse(s, r.lower) /\ Meets(M, s, r) /\ OpenUpTo(s, r, p)
    BY DEF AnalysisOK
  <1>3. CASE v \notin r.open \/ r.open = {v}
    <2>1. t = r
      BY <1>3 DEF AnalyzeStep
    <2>2. OpenUpTo(s, r, p - 1)
      <3>1. \A j \in DOMAIN s.trail : j > p - 1 => j > p \/ j = p
        BY <1>1
      <3> QED BY <1>2, <1>3, <3>1 DEF OpenUpTo
    <2> QED BY <2>1, <2>2 DEF AnalysisOK
  <1>4. CASE v \in r.open /\ r.open # {v}
    <2>1. t = Look(s, q, D)
      BY <1>4 DEF AnalyzeStep
    <2>2. \A j \in DOMAIN s.trail : VarOf(s.trail[j].lit) \in r.open => j <= p /\ s.trail[j].level = s.level
      <3>1. SUFFICES ASSUME NEW j \in DOMAIN s.trail, VarOf(s.trail[j].lit) \in r.open
                     PROVE  j <= p /\ s.trail[j].level = s.level
        OBVIOUS
      <3>2. ~(j > p)
        <4>1. SUFFICES ASSUME j > p PROVE FALSE
          OBVIOUS
        <4>2. r.open = {VarOf(s.trail[j].lit)}
          BY <1>2, <3>1, <4>1 DEF OpenUpTo
        <4> QED BY <1>4, <4>2
      <3>3. OpenNow(s, VarOf(s.trail[j].lit))
        BY <1>2, <3>1 DEF Resolving
      <3>4. s.trail[j].level = s.level
        <4>1. PICK i \in DOMAIN s.trail : VarOf(s.trail[i].lit) = VarOf(s.trail[j].lit) /\ s.trail[i].level = s.level
          BY <3>3 DEF OpenNow
        <4>2. i = j
          BY ONLY <1>1, <3>1, <4>1 DEF Once
        <4> QED BY <4>1, <4>2
      <3>5. j \in Nat
        BY ONLY <1>1, <3>1
      <3> QED BY ONLY <1>1, <3>2, <3>4, <3>5
    <2>3. PICK w \in r.open : w # v
      BY <1>4
    <2>4. PICK j \in DOMAIN s.trail : VarOf(s.trail[j].lit) = w
      BY <1>2 DEF Resolving, OpenNow
    <2>5. j \in 1 .. p - 1 /\ s.trail[j].level = s.level /\ e.level = s.level
      <3>1. j <= p /\ j # p /\ s.trail[j].level = s.level
        BY <2>2, <2>3, <2>4
      <3>2. e.level = s.level
        BY <1>4, <2>2
      <3> QED BY <1>1, <3>1, <3>2
    <2>6. ExplainedBy(M, s, p)
      <3>1. EntryAgrees(M, s, p)
        BY DEF Agrees
      <3>2. ~FirstOfLevel(s, p)
        <4>1. ~(s.level < s.level)
          BY <1>1
        <4> QED BY <2>5, <4>1 DEF FirstOfLevel
      <3>3. ~(e.level <= Len(s.assumptions))
        BY <1>1, <2>5
      <3> QED BY <3>1, <3>2, <3>3 DEF EntryAgrees
    <2>7. \A l \in D : l \in Lit /\ IsFalse(s, l) /\ Assigned(s, l)
                       /\ \E i \in 1 .. p - 1 : i \in DOMAIN s.trail /\ s.trail[i].lit = -l /\ VarOf(s.trail[i].lit) = VarOf(l)
      <3>1. SUFFICES ASSUME NEW l \in D
                     PROVE  l \in Lit /\ IsFalse(s, l) /\ Assigned(s, l)
                            /\ \E i \in 1 .. p - 1 : i \in DOMAIN s.trail /\ s.trail[i].lit = -l /\ VarOf(s.trail[i].lit) = VarOf(l)
        OBVIOUS
      <3>2. PICK i \in 1 .. p - 1 : s.trail[i].lit = -l
        BY <2>6 DEF ExplainedBy, FalseBefore
      <3>3. i \in DOMAIN s.trail
        BY <1>1, <3>2
      <3>4. l \in Lit
        BY <1>1
      <3>5. VarOf(s.trail[i].lit) = VarOf(l)
        BY <3>2, <3>4, Literals
      <3>6. IsFalse(s, l) /\ Assigned(s, l)
        BY <1>1, <3>2, <3>3, <3>4, Values
      <3> QED BY <3>2, <3>3, <3>4, <3>5, <3>6
    <2>8. o # {} /\ o \subseteq r.open /\ v \notin o /\ D \subseteq Lit
      BY <1>1, <1>4
    <2>9. e.reason \cap M # {} /\ e.lit \in e.reason
      BY <2>6 DEF ExplainedBy
    <2>10. D = e.reason \ {e.lit} /\ o = r.open \ {v} /\ v = VarOf(e.lit)
      OBVIOUS
    <2> HIDE DEF D, v, o
    <2>11. Resolving(s, q) /\ q.open = o /\ q.lower = r.lower /\ q.steps = r.steps + 1
      <3>1. r \in Resolvent /\ o \in SUBSET Var
        BY <1>2, <2>8 DEF Resolving, Resolvent
      <3>2. q \in Resolvent /\ q.open = o /\ q.lower = r.lower /\ q.steps = r.steps + 1
        <4>1. ResolvedOne(q, r, o, e.lit)
          BY DEF ResolvedOne
        <4> HIDE DEF q
        <4> QED BY ONLY <1>1, <3>1, <4>1, OneResolved
      <3> HIDE DEF q
      <3> QED BY <1>2, <2>8, <3>2 DEF Resolving
    <2> HIDE DEF q
    <2>12. Resolving(s, t)
      BY <2>1, <2>7, <2>8, <2>11, LookIs
    <2>13. /\ AllFalse(s, t.lower) /\ t.steps = q.steps /\ q.open \subseteq t.open /\ q.lower \subseteq t.lower
           /\ \A y \in t.open : y \in q.open \/ \E l \in D : VarOf(l) = y
           /\ \A x \in D : Level(s, x) > 0 => x \in t.lower \/ VarOf(x) \in t.open
      <3>1. AllFalse(s, q.lower) /\ AllFalse(s, D)
        BY <1>2, <2>7, <2>11 DEF AllFalse
      <3> QED BY <2>1, <2>8, <2>11, <3>1, LookKeeps
    <2>14. Meets(M, s, t)
      <3>1. PICK x \in M : IsFalse(s, x) /\ (x \in r.lower \/ VarOf(x) \in r.open)
        BY <1>2 DEF Meets
      <3>2. CASE x \in r.lower \/ VarOf(x) \in o
        BY <2>11, <2>13, <3>1, <3>2 DEF Meets
      <3>3. CASE x \notin r.lower /\ VarOf(x) \notin o
        <4>1. VarOf(x) = v /\ x \in Lit
          BY <2>10, <3>1, <3>3 DEF Sense
        <4>2. x = e.lit \/ x = -e.lit
          BY <1>1, <2>10, <4>1, Literals
        <4>3. IsTrue(s, e.lit)
          BY TrueIs
        <4>4. x # e.lit
          BY <1>1, <3>1, <4>3, OneValue
        <4>5. e.lit \notin M
          BY <1>1, <3>1, <4>2, <4>4 DEF Sense
        <4>6. PICK y \in D : y \in M
          BY <2>9, <2>10, <4>5
        <4>7. IsFalse(s, y) /\ y \in Lit
          BY <2>7
        <4>8. Level(s, y) > 0
          BY <4>6, <4>7, FalseByDecision
        <4>9. y \in t.lower \/ VarOf(y) \in t.open
          BY <2>13, <4>8
        <4> QED BY <4>6, <4>7, <4>9 DEF Meets
      <3> QED BY <3>2, <3>3
    <2>15. OpenUpTo(s, t, p - 1)
      <3>1. SUFFICES ASSUME NEW i \in DOMAIN s.trail, VarOf(s.trail[i].lit) \in t.open PROVE ~(i > p - 1)
        BY DEF OpenUpTo
      <3>2. CASE VarOf(s.trail[i].lit) \in q.open
        <4>1. i <= p /\ i # p
          BY <2>2, <2>8, <2>10, <2>11, <3>2
        <4> QED BY <1>1, <4>1
      <3>3. CASE \E l \in D : VarOf(l) = VarOf(s.trail[i].lit)
        <4>1. PICK l \in D : VarOf(l) = VarOf(s.trail[i].lit)
          BY <3>3
        <4>2. PICK m \in 1 .. p - 1 : m \in DOMAIN s.trail /\ VarOf(s.trail[m].lit) = VarOf(l)
          BY <2>7
        <4>3. m = i
          BY <1>1, <4>1, <4>2 DEF Once
        <4> QED BY <1>1, <4>2, <4>3
      <3> QED BY <2>13, <3>1, <3>2, <3>3
    <2>16. t.steps # 0
      <3>1. r.steps \in Nat
        BY <1>2 DEF Resolving, Resolvent
      <3> QED BY <2>11, <2>13, <3>1
    <2> QED BY <2>12, <2>13, <2>14, <2>15, <2>16 DEF AnalysisOK
  <1> QED BY <1>3, <1>4

LEMMA AnalyzedMeets ==
  ASSUME NEW M, Sense(M), NEW s, Sound(s), Agrees(M, s), s.level > Len(s.assumptions),
         NEW C, C \subseteq Lit, Opposed(M, s, C), NEW r, r = Analyzed(s, C)[Len(s.trail)]
  PROVE  AnalysisOK(M, s, C, r, 0)
  <1> DEFINE n == Len(s.trail)
             f == Analyzed(s, C)
             T == {k \in 0 .. n : AnalysisOK(M, s, C, f[k], n - k)}
  <1>1. n \in Nat /\ DOMAIN s.trail = 1 .. n /\ s.trail \in Seq(Entry)
    BY Fields DEF Sound
  <1>2. f[0] = Look(s, NothingSeen, C) /\ r = f[n] /\ \A k \in 1 .. n : f[k] = AnalyzeStep(s, f[k - 1], s.trail[n + 1 - k])
    BY <1>1, AnalyzedSteps
  <1> HIDE DEF n, f
  <1>3. 0 \in T
    <2>1. NothingSeen \in Resolvent /\ NothingSeen.open = {} /\ NothingSeen.lower = {} /\ NothingSeen.steps = 0
      BY DEF Resolvent, NothingSeen
    <2>2. Resolving(s, NothingSeen) /\ AllFalse(s, NothingSeen.lower)
      BY ONLY <2>1 DEF Resolving, AllFalse
    <2>3. AllFalse(s, C) /\ \A l \in C : Assigned(s, l)
      BY <1>1, Values DEF Opposed, AllFalse
    <2>4. Resolving(s, f[0])
      BY <1>2, <2>2, <2>3, LookIs
    <2>5. /\ AllFalse(s, f[0].lower) /\ f[0].steps = 0
          /\ \A v \in f[0].open : \E l \in C : VarOf(l) = v
          /\ \A x \in C : Level(s, x) > 0 => x \in f[0].lower \/ VarOf(x) \in f[0].open
      <3> DEFINE a == NothingSeen
                 b == f[0]
      <3>1. b = Look(s, a, C) /\ Resolving(s, a) /\ AllFalse(s, a.lower) /\ AllFalse(s, C) /\ a.open = {} /\ a.steps = 0
        BY <1>2, <2>1, <2>2, <2>3
      <3> HIDE DEF a, b
      <3>2. /\ AllFalse(s, b.lower) /\ b.steps = a.steps
            /\ \A v \in b.open : v \in a.open \/ \E l \in C : VarOf(l) = v
            /\ \A x \in C : Level(s, x) > 0 => x \in b.lower \/ VarOf(x) \in b.open
        BY ONLY Sound(s), C \subseteq Lit, <3>1, LookKeeps
      <3> QED BY ONLY <3>1, <3>2 DEF b
    <2>6. Meets(M, s, f[0])
      <3>1. PICK x \in C : x \in M /\ IsFalse(s, x)
        BY DEF Opposed
      <3>2. Level(s, x) > 0
        BY <3>1, FalseByDecision
      <3> QED BY <2>5, <3>1, <3>2 DEF Meets
    <2>7. OpenUpTo(s, f[0], n - 0)
      <3>1. \A j \in DOMAIN s.trail : ~(j > n - 0)
        BY <1>1
      <3> QED BY <3>1 DEF OpenUpTo
    <2>8. 0 \in 0 .. n
      BY <1>1
    <2> QED BY <2>4, <2>5, <2>6, <2>7, <2>8 DEF AnalysisOK
  <1>4. \A k \in 0 .. n - 1 : k \in T => k + 1 \in T
    <2>1. SUFFICES ASSUME NEW k \in 0 .. n - 1, AnalysisOK(M, s, C, f[k], n - k)
                   PROVE  AnalysisOK(M, s, C, f[k + 1], n - (k + 1))
      BY <1>1
    <2>2. n - k \in DOMAIN s.trail /\ k + 1 \in 1 .. n /\ n + 1 - (k + 1) = n - k /\ (k + 1) - 1 = k /\ n - (k + 1) = (n - k) - 1
      BY <1>1
    <2>3. f[k + 1] = AnalyzeStep(s, f[k], s.trail[n - k])
      BY <1>2, <2>2
    <2>4. AnalysisOK(M, s, C, f[k + 1], (n - k) - 1)
      BY <2>1, <2>2, <2>3, AnalyzeStepMeets
    <2> QED BY ONLY <2>2, <2>4
  <1>5. n \in T
    <2> HIDE DEF T
    <2>1. 0 .. n \subseteq T
      BY <1>1, <1>3, <1>4, NumbersTo
    <2> QED BY <1>1, <2>1
  <1>6. n - n = 0
    BY <1>1
  <1> QED BY <1>2, <1>5, <1>6

LEMMA ResolveAgrees ==
  ASSUME NEW M, Sense(M), NEW s, Sound(s), Agrees(M, s), s.level > Len(s.assumptions),
         NEW C, C \subseteq Lit, Opposed(M, s, C), OfNow(s, C), NEW q, q = Resolve(s, C)
  PROVE  /\ q.clause \cap M # {} /\ AllFalse(s, q.clause) /\ q.clause \subseteq Lit /\ q.uip \in q.clause
         /\ q.steps = 0 => q.uip \in C
  <1> DEFINE r == Analyzed(s, C)[Len(s.trail)]
             u == CHOOSE l \in Negated(TrueLits(s)) : VarOf(l) \in r.open
  <1>1. s.trail \in Seq(Entry) /\ Once(s) /\ s.level > 0 /\ DOMAIN s.trail \subseteq Nat \ {0}
    BY Fields DEF Sound, Ordered
  <1>2. \A l \in C : Assigned(s, l) /\ IsFalse(s, l)
    BY <1>1, Values DEF Opposed
  <1>3. Resolving(s, r) /\ r.open # {}
    BY <1>1, <1>2, AnalyzedIs
  <1>4. AnalysisOK(M, s, C, r, 0)
    BY AnalyzedMeets
  <1>5. q.uip = u /\ q.clause = r.lower \cup {u} /\ q.steps = r.steps
    BY DEF Resolve
  <1> HIDE DEF r
  <1>6. u \in Negated(TrueLits(s)) /\ VarOf(u) \in r.open
    <2>1. PICK v \in r.open : OpenNow(s, v)
      BY <1>3 DEF Resolving
    <2>2. PICK j \in DOMAIN s.trail : VarOf(s.trail[j].lit) = v
      BY <2>1 DEF OpenNow
    <2>3. -s.trail[j].lit \in Negated(TrueLits(s)) /\ VarOf(-s.trail[j].lit) = v
      <3>1. s.trail[j].lit \in Lit
        BY Fields DEF Sound
      <3> QED BY <2>2, <3>1, Literals DEF Negated, TrueLits, Entries
    <2> QED BY <2>1, <2>3
  <1> HIDE DEF u
  <1>7. u \in Lit /\ IsFalse(s, u)
    <2>1. PICK k \in TrueLits(s) : u = -k
      BY <1>6 DEF Negated
    <2>2. k \in Lit
      BY <2>1, Fields DEF Sound, TrueLits, Entries
    <2> QED BY <2>1, <2>2, Literals DEF IsFalse
  <1>8. r.open = {VarOf(u)}
    <2>1. PICK j \in DOMAIN s.trail : VarOf(s.trail[j].lit) = VarOf(u)
      BY <1>3, <1>6 DEF Resolving, OpenNow
    <2>2. j > 0
      BY <1>1, <2>1
    <2> QED BY <1>4, <1>6, <2>1, <2>2 DEF AnalysisOK, OpenUpTo
  <1>9. \A x \in Lit : IsFalse(s, x) /\ VarOf(x) = VarOf(u) => x = u
    <2>1. SUFFICES ASSUME NEW x \in Lit, IsFalse(s, x), VarOf(x) = VarOf(u), x # u PROVE FALSE
      OBVIOUS
    <2>2. x = -u
      BY <1>7, <2>1, Literals
    <2>3. IsTrue(s, u)
      BY <1>7, <2>1, <2>2, Literals DEF IsTrue, IsFalse
    <2> QED BY <1>1, <1>7, <2>3, OneValue
  <1>10. (r.lower \cup {u}) \cap M # {}
    <2>1. PICK x \in M : IsFalse(s, x) /\ (x \in r.lower \/ VarOf(x) \in r.open)
      BY <1>4 DEF AnalysisOK, Meets
    <2>2. x \in Lit
      BY DEF Sense
    <2> QED BY <1>8, <1>9, <2>1, <2>2
  <1>11. AllFalse(s, r.lower \cup {u}) /\ r.lower \subseteq Lit
    BY <1>3, <1>4, <1>7 DEF AllFalse, AnalysisOK, Resolving, Resolvent
  <1>12. ASSUME r.steps = 0 PROVE u \in C
    <2>1. PICK l \in C : VarOf(l) = VarOf(u)
      BY <1>4, <1>6, <1>12 DEF AnalysisOK
    <2> QED BY <1>2, <1>9, <2>1
  <1> QED BY <1>5, <1>7, <1>10, <1>11, <1>12

(* Minimisation: up the trail, what follows from the clause.               *)
ImpliedStep(L, N, S, e) ==
    IF \/ e.level = 0 \/ VarOf(e.lit) \in L
       \/ e.reason # NoClause /\ e.level \in N /\ Premises(e) \subseteq S
    THEN S \cup {VarOf(e.lit)} ELSE S
ImpliedBy(s, L, N) ==
    LET f[k \in 0 .. Len(s.trail)] == IF k = 0 THEN {} ELSE ImpliedStep(L, N, f[k - 1], s.trail[k])
    IN  f
Redundant(s, S) == {VarOf(e.lit) : e \in {d \in Entries(s) : d.reason # NoClause /\ Premises(d) \subseteq S}}
LowerVars(C, u) == {VarOf(l) : l \in C \ {u}}
LowerLevels(s, C, u) == {Level(s, l) : l \in C \ {u}}

LEMMA MinimizedTo ==
  ASSUME NEW s, NEW C, NEW u
  PROVE  Minimized(s, C, u) =
           {u} \cup {l \in C \ {u} : VarOf(l) \notin
                       Redundant(s, ImpliedBy(s, LowerVars(C, u), LowerLevels(s, C, u))[Len(s.trail)])}
  BY DEF Minimized, Redundant, ImpliedBy, ImpliedStep, LowerVars, LowerLevels

LEMMA ImpliedSteps ==
  ASSUME NEW s, NEW L, NEW N, NEW n \in Nat, n = Len(s.trail)
  PROVE  /\ ImpliedBy(s, L, N)[0] = {}
         /\ \A k \in 1 .. n : ImpliedBy(s, L, N)[k] = ImpliedStep(L, N, ImpliedBy(s, L, N)[k - 1], s.trail[k])
  <1> DEFINE F(m, f) == f = [k \in 0 .. m |-> IF k = 0 THEN {} ELSE ImpliedStep(L, N, f[k - 1], s.trail[k])]
             T == {m \in 0 .. n : \E f : F(m, f)}
  <1>1. 0 \in T
    <2>1. F(0, [k \in 0 .. 0 |-> IF k = 0 THEN {} ELSE {}])
      OBVIOUS
    <2> HIDE DEF F
    <2> QED BY <2>1
  <1>2. ASSUME NEW m \in 0 .. n - 1, m \in T PROVE m + 1 \in T
    <2>1. PICK f : F(m, f)
      BY <1>2
    <2> DEFINE g == [i \in 0 .. m + 1 |-> IF i = m + 1 THEN ImpliedStep(L, N, f[m], s.trail[m + 1]) ELSE f[i]]
    <2>2. ASSUME NEW i \in 0 .. m + 1 PROVE g[i] = IF i = 0 THEN {} ELSE ImpliedStep(L, N, g[i - 1], s.trail[i])
      <3>1. CASE i = m + 1
        BY <3>1
      <3>2. CASE i # m + 1
        <4>1. i \in 0 .. m /\ (i # 0 => i - 1 \in 0 .. m)
          BY <3>2
        <4>2. f[i] = IF i = 0 THEN {} ELSE ImpliedStep(L, N, f[i - 1], s.trail[i])
          BY <2>1, <4>1
        <4> QED BY <3>2, <4>1, <4>2
      <3> QED BY <3>1, <3>2
    <2>3. F(m + 1, g)
      BY <2>2
    <2> HIDE DEF F, g
    <2> QED BY <2>3
  <1>3. n \in T
    <2> HIDE DEF T
    <2> QED BY ONLY n \in Nat, <1>1, <1>2, NumbersTo
  <1> DEFINE g == ImpliedBy(s, L, N)
  <1>4. g = CHOOSE f : F(n, f)
    BY ONLY n = Len(s.trail) DEF ImpliedBy
  <1>5. F(n, g)
    <2> HIDE DEF F, g
    <2> QED BY <1>3, <1>4
  <1>6. \A k \in 0 .. n : g[k] = IF k = 0 THEN {} ELSE ImpliedStep(L, N, g[k - 1], s.trail[k])
    <2> HIDE DEF g
    <2> QED BY <1>5
  <1> HIDE DEF F, T, g
  <1>7. g[0] = {} /\ \A k \in 1 .. n : g[k] = ImpliedStep(L, N, g[k - 1], s.trail[k])
    BY ONLY <1>6, n \in Nat
  <1> QED BY <1>7 DEF g

(* What follows is fixed, part of the clause, or explained by the like.    *)
Grounded(s, L, S, v) ==
    \E i \in DOMAIN s.trail :
      /\ VarOf(s.trail[i].lit) = v
      /\ s.trail[i].level = 0 \/ v \in L \/ (s.trail[i].reason # NoClause /\ Premises(s.trail[i]) \subseteq S)

LEMMA ImpliedGrounded ==
  ASSUME NEW s, NEW L, NEW N, NEW n \in Nat, n = Len(s.trail), DOMAIN s.trail = 1 .. n,
         NEW S, S = ImpliedBy(s, L, N)[n]
  PROVE  \A v \in S : Grounded(s, L, S, v)
  <1> DEFINE f == ImpliedBy(s, L, N)
             T == {k \in 0 .. n : \A v \in f[k] : Grounded(s, L, f[k], v)}
  <1>1. f[0] = {} /\ S = f[n] /\ \A k \in 1 .. n : f[k] = ImpliedStep(L, N, f[k - 1], s.trail[k])
    BY ImpliedSteps
  <1> HIDE DEF f
  <1>2. 0 \in T
    BY <1>1
  <1>3. \A k \in 0 .. n - 1 : k \in T => k + 1 \in T
    <2>1. SUFFICES ASSUME NEW k \in 0 .. n - 1, \A v \in f[k] : Grounded(s, L, f[k], v)
                   PROVE  \A v \in f[k + 1] : Grounded(s, L, f[k + 1], v)
      OBVIOUS
    <2> DEFINE e == s.trail[k + 1]
    <2>2. k + 1 \in 1 .. n /\ (k + 1) - 1 = k
      OBVIOUS
    <2>3. f[k + 1] = ImpliedStep(L, N, f[k], e) /\ k + 1 \in DOMAIN s.trail
      BY <1>1, <2>2
    <2>4. f[k] \subseteq f[k + 1]
      BY <2>3 DEF ImpliedStep
    <2>5. \A v \in f[k] : Grounded(s, L, f[k + 1], v)
      BY <2>1, <2>4 DEF Grounded
    <2>6. ASSUME NEW v \in f[k + 1], v \notin f[k] PROVE Grounded(s, L, f[k + 1], v)
      <3>1. v = VarOf(e.lit) /\ (e.level = 0 \/ VarOf(e.lit) \in L \/ (e.reason # NoClause /\ Premises(e) \subseteq f[k]))
        BY <2>3, <2>6 DEF ImpliedStep
      <3> HIDE DEF e
      <3>2. v = VarOf(e.lit) /\ (e.level = 0 \/ v \in L \/ (e.reason # NoClause /\ Premises(e) \subseteq f[k + 1]))
        BY ONLY <2>4, <3>1
      <3> QED BY <2>3, <3>2 DEF Grounded, e
    <2> QED BY <2>5, <2>6
  <1>4. n \in T
    <2> HIDE DEF T
    <2>1. 0 .. n \subseteq T
      BY <1>2, <1>3, NumbersTo
    <2> QED BY <2>1
  <1> QED BY <1>1, <1>4

LEMMA FollowsFromOthers ==
  ASSUME NEW M, Sense(M), NEW s, Sound(s), Agrees(M, s), NEW i \in DOMAIN s.trail, s.trail[i].reason # NoClause,
         NEW S, Premises(s.trail[i]) \subseteq S,
         \A j \in 1 .. i - 1 : VarOf(s.trail[j].lit) \in S => s.trail[j].lit \in M
  PROVE  s.trail[i].lit \in M
  <1> DEFINE e == s.trail[i]
  <1>1. /\ s.trail \in Seq(Entry) /\ DOMAIN s.trail = 1 .. Len(s.trail) /\ Len(s.trail) \in Nat /\ Once(s)
        /\ e.reason \subseteq Lit /\ e.lit \in Lit
    BY Fields DEF Sound, Ordered
  <1>2. ExplainedBy(M, s, i)
    BY DEF Agrees, EntryAgrees
  <1>3. PICK x \in e.reason : x \in M
    BY <1>2 DEF ExplainedBy
  <1>4. SUFFICES ASSUME x # e.lit PROVE FALSE
    BY <1>3
  <1>5. PICK j \in 1 .. i - 1 : s.trail[j].lit = -x
    BY <1>2, <1>3, <1>4 DEF ExplainedBy, FalseBefore
  <1>6. x \in Lit /\ VarOf(s.trail[j].lit) = VarOf(x)
    BY <1>1, <1>3, <1>5, Literals
  <1>7. VarOf(x) # VarOf(e.lit)
    <2>1. j \in DOMAIN s.trail /\ j # i
      BY <1>1, <1>5
    <2> QED BY <1>1, <1>6, <2>1 DEF Once
  <1>8. VarOf(x) \in S
    <2>1. e.first = e.lit
      BY <1>2 DEF ExplainedBy
    <2>2. VarOf(x) \in Premises(e)
      BY <1>3, <1>4, <1>7, <2>1 DEF Premises
    <2> QED BY <2>2
  <1>9. -x \in M
    BY <1>5, <1>6, <1>8
  <1> QED BY <1>3, <1>6, <1>9 DEF Sense

LEMMA MinimizedAgrees ==
  ASSUME NEW M, Sense(M), NEW s, Sound(s), Agrees(M, s), NEW C, C \subseteq Lit, AllFalse(s, C), C \cap M # {},
         NEW u, NEW m, m = Minimized(s, C, u)
  PROVE  m \cap M # {}
  <1> DEFINE n == Len(s.trail)
             L == LowerVars(C, u)
             S == ImpliedBy(s, L, LowerLevels(s, C, u))[n]
  <1>1. n \in Nat /\ DOMAIN s.trail = 1 .. n /\ s.trail \in Seq(Entry) /\ Once(s)
    BY Fields DEF Sound, Ordered
  <1>2. u \in m /\ \A l \in C \ {u} : VarOf(l) \notin Redundant(s, S) => l \in m
    BY MinimizedTo
  <1>3. \A v \in S : Grounded(s, L, S, v)
    BY <1>1, ImpliedGrounded
  <1> HIDE DEF S
  <1> SUFFICES ASSUME m \cap M = {} PROVE FALSE
    OBVIOUS
  <1>4. \A l \in C : \E i \in DOMAIN s.trail : s.trail[i].lit = -l
    BY TrueIs DEF AllFalse, IsFalse, IsTrue
  (* An entry that is redundant has an explanation by what follows.        *)
  <1>5. ASSUME NEW i \in DOMAIN s.trail, VarOf(s.trail[i].lit) \in Redundant(s, S)
        PROVE  s.trail[i].reason # NoClause /\ Premises(s.trail[i]) \subseteq S
    <2>1. PICK d \in Entries(s) : d.reason # NoClause /\ Premises(d) \subseteq S /\ VarOf(d.lit) = VarOf(s.trail[i].lit)
      BY <1>5 DEF Redundant
    <2>2. PICK j \in DOMAIN s.trail : s.trail[j] = d
      BY DEF Entries
    <2>3. j = i
      BY <1>1, <2>1, <2>2 DEF Once
    <2> QED BY <2>1, <2>2, <2>3
  <1> DEFINE Bad == {i \in 1 .. n : VarOf(s.trail[i].lit) \in S /\ s.trail[i].lit \notin M}
  <1>6. Bad = {}
    <2>1. SUFFICES ASSUME Bad # {} PROVE FALSE
      OBVIOUS
    <2>2. PICK i \in Bad : \A j \in Bad : i <= j
      <3>1. Bad \subseteq Nat
        BY <1>1
      <3> HIDE DEF Bad
      <3> QED BY <2>1, <3>1, LeastNatural
    <2> DEFINE e == s.trail[i]
    <2>3. i \in DOMAIN s.trail /\ VarOf(e.lit) \in S /\ e.lit \notin M /\ e.lit \in Lit /\ i \in Nat
      BY <1>1, Fields DEF Sound
    <2>4. \A j \in 1 .. i - 1 : VarOf(s.trail[j].lit) \in S => s.trail[j].lit \in M
      <3>1. \A j \in 1 .. i - 1 : j \in 1 .. n /\ ~(i <= j)
        BY <1>1, <2>3
      <3> QED BY <2>2, <3>1
    <2>5. ~(e.reason # NoClause /\ Premises(e) \subseteq S)
      BY <2>3, <2>4, FollowsFromOthers
    <2>6. PICK k \in DOMAIN s.trail :
            /\ VarOf(s.trail[k].lit) = VarOf(e.lit)
            /\ s.trail[k].level = 0 \/ VarOf(e.lit) \in L \/ (s.trail[k].reason # NoClause /\ Premises(s.trail[k]) \subseteq S)
      BY <1>3, <2>3 DEF Grounded
    <2>7. k = i
      BY <1>1, <2>3, <2>6 DEF Once
    <2>8. e.level # 0
      <3>1. Len(s.assumptions) \in Nat /\ EntryAgrees(M, s, i)
        BY <2>3, Fields DEF Sound, Agrees
      <3> QED BY <2>3, <3>1 DEF EntryAgrees
    <2>9. VarOf(e.lit) \in L
      BY <2>5, <2>6, <2>7, <2>8
    <2>10. PICK l \in C \ {u} : VarOf(l) = VarOf(e.lit)
      BY <2>9 DEF LowerVars
    <2>11. PICK j \in DOMAIN s.trail : s.trail[j].lit = -l
      BY <1>4
    <2>12. l \in Lit /\ VarOf(s.trail[j].lit) = VarOf(l)
      BY <2>11, Literals
    <2>13. e.lit = -l
      BY <1>1, <2>3, <2>10, <2>11, <2>12 DEF Once
    <2>14. l \in M
      BY <2>3, <2>12, <2>13 DEF Sense
    <2>15. VarOf(e.lit) \in Redundant(s, S)
      BY <1>2, <2>10, <2>14
    <2> QED BY <1>5, <2>3, <2>5, <2>15
  <1>7. PICK x \in C : x \in M
    OBVIOUS
  <1>8. x # u /\ VarOf(x) \in Redundant(s, S) /\ x \in Lit
    BY <1>2, <1>7
  <1>9. PICK i \in DOMAIN s.trail : s.trail[i].lit = -x
    BY <1>4
  <1>10. VarOf(s.trail[i].lit) = VarOf(x)
    BY <1>8, <1>9, Literals
  <1>11. s.trail[i].reason # NoClause /\ Premises(s.trail[i]) \subseteq S
    BY <1>5, <1>8, <1>10
  <1>12. \A j \in 1 .. i - 1 : VarOf(s.trail[j].lit) \in S => s.trail[j].lit \in M
    <2>1. \A j \in 1 .. i - 1 : j \in 1 .. n
      BY <1>1
    <2> QED BY <1>6, <2>1
  <1>13. s.trail[i].lit \in M
    BY <1>11, <1>12, FollowsFromOthers
  <1> QED BY <1>7, <1>8, <1>9, <1>13 DEF Sense

(* What handleConflict learns and enqueues; a conflict that becomes a      *)
(* reason starts with the literal enqueued.                                *)
LEMMA LearntAgrees ==
  ASSUME NEW M, Sense(M), NEW s, Sound(s), Agrees(M, s), s.level > Len(s.assumptions),
         NEW c, ConflictNow(s, c), Opposed(M, s, c.clause),
         NEW r, NEW u, NEW m, NEW rest, NEW to, NEW z, Concluded(s, c, r, u, m, rest, to, z),
         r.steps = 0 /\ rest # {} => c.first = u,
         NEW X, NEW t, Learning(s, c, r, u, m, rest, to, z, X, t)
  PROVE  Agrees(M, t)
  <1>1. c.clause \subseteq Lit /\ OfNow(s, c.clause)
    BY DEF ConflictNow
  <1>2. r = Resolve(s, c.clause) /\ u = r.uip /\ m = Minimized(s, r.clause, u) /\ rest = m \ {u}
    BY DEF Concluded
  <1>3. /\ r.clause \cap M # {} /\ AllFalse(s, r.clause) /\ r.clause \subseteq Lit /\ u \in r.clause
        /\ r.steps = 0 => u \in c.clause
    BY <1>1, <1>2, ResolveAgrees
  <1>4. m \cap M # {}
    BY <1>2, <1>3, MinimizedAgrees
  <1>5. m \subseteq r.clause /\ u \in m
    BY <1>2, <1>3, MinimizedIs
  <1>6. PICK b : Jumps(s, c, r, u, m, rest, X, b, t)
    BY LearntIs
  <1> DEFINE x == ExplainAll(s, X)
  <1>7. /\ Sound(x) /\ AsBefore(s, x) /\ Sound(b) /\ Cancelled(x, b, b.level)
        /\ u \in Lit /\ m = rest \cup {u} /\ m \subseteq Lit /\ \A l \in rest : Level(s, l) <= b.level
        /\ rest = {} => b.level = Len(s.assumptions) /\ Enqueued(b, t, u, NewEntry(b, u, NoClause, 0, 0))
        /\ rest # {} /\ r.steps = 0 => /\ Enqueued(b, t, u, NewEntry(b, u, c.clause, c.first, 0))
                                      /\ \A l \in c.clause \ {u} : Level(s, l) <= b.level
        /\ rest # {} /\ r.steps # 0 => \E a : /\ Sound(a) /\ Attached(b, a, m)
                                             /\ Enqueued(a, t, u, NewEntry(a, u, m, u, 0))
    BY <1>6 DEF Jumps
  <1>8. Agrees(M, x)
    BY ExplainAllAgrees
  <1> HIDE DEF x
  <1>9. b.level \in Nat /\ b.trail \in Seq(Entry) /\ b.assumptions = s.assumptions /\ Len(s.assumptions) \in Nat
    BY <1>7, Fields DEF Sound, AsBefore, Cancelled, Fixed
  <1>10. Agrees(M, b)
    BY <1>7, <1>8, <1>9, AgreesCancelled
  <1>11. ASSUME NEW l \in Lit, IsFalse(s, l), Level(s, l) <= b.level PROVE IsFalse(b, l)
    <2>1. PICK j \in DOMAIN s.trail : s.trail[j].lit = -l /\ Level(s, l) = s.trail[j].level
      BY <1>11, FalseByDecision
    <2>2. j \in DOMAIN x.trail /\ x.trail[j].lit = -l /\ x.trail[j].level <= b.level
      BY <1>7, <1>11, <2>1 DEF AsBefore
    <2>3. j \in DOMAIN b.trail /\ b.trail[j].lit = -l
      BY <1>7, <2>2 DEF Cancelled, Same
    <2> QED BY <2>3, TrueIs DEF IsFalse, IsTrue
  <1>12. CASE rest = {}
    <2> DEFINE e == NewEntry(b, u, NoClause, 0, 0)
    <2>1. b.level = Len(s.assumptions) /\ Enqueued(b, t, u, e) /\ u \in M
      BY <1>4, <1>7, <1>12
    <2>2. e \in Entry /\ e.level = b.level /\ e.reason = NoClause /\ e.pos = 0 /\ e.lit = u
      BY <1>7, <1>9 DEF NewEntry, Entry, NoClause
    <2> HIDE DEF e
    <2>3. Fits(M, b, e)
      BY <1>9, <2>1, <2>2 DEF Fits
    <2>4. GrownBy(b, t, e) /\ t.ok /\ t.assumptions = b.assumptions /\ t.watch = b.watch
      <3>1. t.trail = Append(b.trail, e) /\ t.ok /\ t.assumptions = b.assumptions /\ t.watch = b.watch
        BY <1>10, <2>1 DEF Enqueued, Agrees
      <3> QED BY <1>9, <2>2, <3>1, Grown
    <2> QED BY <1>7, <1>10, <2>2, <2>3, <2>4, AgreesGrown
  <1>13. CASE rest # {} /\ r.steps = 0
    <2> DEFINE C == c.clause
    <2>1. c.first = u /\ u \in C
      BY <1>3, <1>13
    <2>2. Enqueued(b, t, u, NewEntry(b, u, C, u, 0)) /\ \A l \in C \ {u} : Level(s, l) <= b.level
      BY <1>7, <1>13, <2>1
    <2>3. C \cap M # {} /\ C \subseteq Lit /\ \A k \in C \ {u} : IsFalse(b, k)
      BY <1>1, <1>11, <2>2 DEF Opposed
    <2> HIDE DEF C
    <2>4. t.ok /\ t.assumptions = b.assumptions /\ t.watch = b.watch /\ t.trail = Append(b.trail, NewEntry(b, u, C, u, 0))
      BY <1>10, <2>2 DEF Enqueued, Agrees
    <2>5. 0 \in Nat
      OBVIOUS
    <2> QED BY ONLY Sense(M), <1>7, <1>10, <2>1, <2>3, <2>4, <2>5, AgreesEnqueued
  <1>14. CASE rest # {} /\ r.steps # 0
    <2>1. PICK a : Sound(a) /\ Attached(b, a, m) /\ Enqueued(a, t, u, NewEntry(a, u, m, u, 0))
      BY <1>7, <1>14
    <2>2. Agrees(M, a)
      BY <1>4, <1>10, <2>1, AgreesAttached
    <2>3. \A k \in m \ {u} : IsFalse(a, k)
      <3>1. SUFFICES ASSUME NEW k \in m \ {u} PROVE IsFalse(a, k)
        OBVIOUS
      <3>2. k \in Lit /\ IsFalse(s, k) /\ Level(s, k) <= b.level
        BY <1>2, <1>3, <1>5, <1>7, <3>1 DEF AllFalse
      <3>3. IsFalse(b, k)
        BY <1>11, <3>2
      <3>4. a.trail = b.trail
        BY <2>1 DEF Attached
      <3> QED BY <3>3, <3>4 DEF IsFalse, TrueLits, Entries
    <2>4. t.ok /\ t.assumptions = a.assumptions /\ t.watch = a.watch /\ t.trail = Append(a.trail, NewEntry(a, u, m, u, 0))
      BY <2>1, <2>2 DEF Enqueued, Agrees
    <2>5. 0 \in Nat
      OBVIOUS
    <2> QED BY ONLY Sense(M), <1>4, <1>5, <1>7, <2>1, <2>2, <2>3, <2>4, <2>5, AgreesEnqueued
  <1> QED BY <1>12, <1>13, <1>14

-----------------------------------------------------------------------------
(* The steps, for one model of what is received.                           *)

Right(M) ==
    /\ Agrees(M, sat)
    /\ pc = "conflict" => Opposed(M, sat, conflict.clause)
    /\ pc = "idle" => answer # "UNSAT"

LEMMA ContinueRight ==
  ASSUME NEW M, NEW s, Agrees(M, s), Continue(s)
  PROVE  Right(M)'
  BY DEF Continue, Right

LEMMA FinishRight ==
  ASSUME NEW M, NEW s, s \in State, Agrees(M, s), NEW result, result # "UNSAT", Finish(s, result)
  PROVE  Right(M)'
  <1>1. sat' = [s EXCEPT !.excluded = FALSE, !.ok = s.ok] /\ answer' = result /\ pc' = "idle"
    BY DEF Finish
  <1>2. Resting(s, sat') /\ sat'.watch = s.watch
    BY ONLY <1>1, s \in State DEF State, Resting
  <1>3. Agrees(M, sat')
    BY <1>2, AgreesResting
  <1> QED BY <1>1, <1>3 DEF Right

LEMMA StoredRight ==
  ASSUME NEW M, NEW r, StoreAgrees(M, r), Stored(r)
  PROVE  Right(M)'
  <1>1. Agrees(M, r.s) /\ r.s.ok /\ (r.conflict # NoConflict => Opposed(M, r.s, r.conflict.clause))
    BY DEF StoreAgrees, Agrees
  <1>2. CASE r.conflict # NoConflict /\ sat' = r.s /\ conflict' = r.conflict /\ pc' = "conflict"
    BY <1>1, <1>2 DEF Right
  <1>3. CASE Continue(r.s)
    BY <1>1, <1>3, ContinueRight
  <1> QED BY <1>1, <1>2, <1>3 DEF Stored

LEMMA CheckCoreRight ==
  ASSUME Good, NEW M, Right(M), CheckCore
  PROVE  Right(M)'
  <1>1. sat \in State /\ sat.ok /\ Agrees(M, sat)
    BY DEF Good, Sound, Right, Agrees
  <1>2. sat' = [sat EXCEPT !.consistent = "SAT"] /\ pc' = "propagate"
    BY <1>1 DEF CheckCore
  <1>3. Resting(sat, sat') /\ sat'.watch = sat.watch
    BY ONLY <1>1, <1>2 DEF State, Resting
  <1> QED BY <1>1, <1>2, <1>3, AgreesResting DEF Right

LEMMA DequeueRight ==
  ASSUME Good, NEW M, Right(M), Dequeue
  PROVE  Right(M)'
  <1>1. sat \in State /\ sat' = [sat EXCEPT !.qhead = @ + 1] /\ pc' = "propagate" /\ Agrees(M, sat)
    BY DEF Good, Sound, Right, Dequeue
  <1>2. Resting(sat, sat') /\ sat'.watch = sat.watch
    BY ONLY <1>1 DEF State, Resting
  <1> QED BY <1>1, <1>2, AgreesResting DEF Right

LEMMA RewatchRight ==
  ASSUME Good, NEW M, Right(M), NEW c \in todo, Rewatch(c)
  PROVE  Right(M)'
  <1>1. PICK l \in Candidates(sat, c) : sat' = [sat EXCEPT !.watch[c] = {Other(sat, c), l}]
    BY DEF Rewatch
  <1>2. sat \in State /\ pc' = "propagate" /\ Agrees(M, sat)
    BY DEF Good, Sound, Right, Rewatch
  <1>3. Resting(sat, sat') /\ DOMAIN sat'.watch = DOMAIN sat.watch
    BY ONLY <1>1, <1>2 DEF State, Resting
  <1> QED BY <1>2, <1>3, AgreesResting DEF Right

(* Without a candidate, all but the other watched literal is false.        *)
LEMMA VisitedFalse ==
  ASSUME Good, NEW c \in todo, Candidates(sat, c) = {}
  PROVE  \A l \in c \ {Other(sat, c)} : IsFalse(sat, l)
  <1> DEFINE k == sat.trail[sat.qhead].lit
  <1>1. c \subseteq Lit /\ sat.watch[c] = {-k, Other(sat, c)}
    BY OtherIs
  <1>2. sat.qhead \in DOMAIN sat.trail /\ k \in Lit
    BY Fields DEF Good, Phase, Sound
  <1>3. IsFalse(sat, -k)
    BY <1>2, Literals, TrueIs DEF IsFalse, IsTrue
  <1>4. \A l \in c \ sat.watch[c] : IsFalse(sat, l)
    BY DEF Candidates
  <1> HIDE DEF k
  <1> QED BY <1>1, <1>3, <1>4

LEMMA PropagateRight ==
  ASSUME Good, NEW M, Sense(M), Right(M), NEW c \in todo, Propagate(c)
  PROVE  Right(M)'
  <1> DEFINE o == Other(sat, c)
  <1>1. Candidates(sat, c) = {} /\ sat' = Enqueue(sat, o, c, o, 0) /\ pc' = "propagate" /\ Unassigned(sat, o)
    BY DEF Propagate
  <1>2. /\ c \subseteq Lit /\ o \in c /\ o \in Lit /\ o \in Int /\ c \in DOMAIN sat.watch /\ Within(c, sat.known)
    BY OtherIs, Literals
  <1>3. Sound(sat) /\ Agrees(M, sat) /\ c \cap M # {}
    BY <1>2 DEF Good, Right, Agrees
  <1>4. \A k \in c \ {o} : IsFalse(sat, k)
    BY <1>1, VisitedFalse
  <1>5. /\ VarOf(o) \in sat.known /\ \A k \in c \ {o} : Assigned(sat, k)
    BY <1>1, <1>2, OthersFalse DEF Within
  <1> HIDE DEF o
  <1>6. Enqueued(sat, sat', o, NewEntry(sat, o, c, o, 0))
    BY ONLY <1>1, <1>2, <1>3, <1>5, EnqueuePlain
  <1>7. /\ sat'.ok /\ sat'.assumptions = sat.assumptions /\ sat'.watch = sat.watch
        /\ sat'.trail = Append(sat.trail, NewEntry(sat, o, c, o, 0))
    BY <1>3, <1>6 DEF Enqueued, Agrees
  <1>8. 0 \in Nat
    OBVIOUS
  <1>9. Agrees(M, sat')
    BY ONLY Sense(M), <1>2, <1>3, <1>4, <1>7, <1>8, AgreesEnqueued
  <1> QED BY <1>1, <1>9 DEF Right

LEMMA FoundConflictRight ==
  ASSUME Good, NEW M, Right(M), NEW c \in todo, FoundConflict(c)
  PROVE  Right(M)'
  <1>1. /\ Candidates(sat, c) = {} /\ IsFalse(sat, Other(sat, c)) /\ conflict'.clause = c
        /\ sat' = [sat EXCEPT !.qhead = Len(sat.trail)] /\ pc' = "conflict"
    BY DEF FoundConflict, NoteConflict
  <1>2. sat \in State /\ Agrees(M, sat) /\ c \in DOMAIN sat.watch
    BY OtherIs DEF Good, Sound, Right
  <1>3. c \cap M # {} /\ \A l \in c : IsFalse(sat, l)
    BY <1>1, <1>2, VisitedFalse DEF Agrees
  <1>4. Resting(sat, sat') /\ sat'.watch = sat.watch
    BY ONLY <1>1, <1>2 DEF State, Resting
  <1>5. Agrees(M, sat')
    BY <1>2, <1>4, AgreesResting
  <1>6. Opposed(M, sat', c)
    BY <1>3, <1>4 DEF Opposed, Resting, IsFalse, TrueLits, Entries
  <1> QED BY <1>1, <1>5, <1>6 DEF Right

LEMMA VisitRight ==
  ASSUME Good, NEW M, Sense(M), Right(M), \E c \in todo : Visit(c)
  PROVE  Right(M)'
  <1>1. PICK c \in todo : Visit(c)
    OBVIOUS
  <1>2. CASE Skip(c)
    BY <1>2 DEF Skip, Right
  <1> QED BY <1>1, <1>2, RewatchRight, PropagateRight, FoundConflictRight DEF Visit

(* What adaptPassedFormula does to the trail: nothing.                     *)
LEMMA BeforeCallRests ==
  ASSUME Sound(sat), NEW s, s = BeforeCall
  PROVE  Resting(sat, s) /\ s.watch = sat.watch /\ s \in State
  <1>1. s \in State /\ s.watch = sat.watch /\ sat \in State
    BY BeforeCallWatches DEF Sound
  <1>2. CASE s = Adapt(sat)
    BY ONLY <1>1, <1>2 DEF Adapt, State, Resting
  <1> QED BY <1>1, <1>2 DEF BeforeCall, Resting

LEMMA NoTheoryRight ==
  ASSUME Good, NEW M, Right(M), NoTheory
  PROVE  Right(M)'
  <1> DEFINE s == IF TheoryCalled THEN BeforeCall ELSE sat
  <1>1. Sound(sat) /\ Agrees(M, sat) /\ Continue(s)
    BY DEF NoTheory, Good, Right
  <1>2. Resting(sat, s) /\ s.watch = sat.watch
    BY <1>1, BeforeCallRests DEF Resting
  <1> HIDE DEF s
  <1>3. Agrees(M, s)
    BY <1>1, <1>2, AgreesResting
  <1> QED BY <1>1, <1>3, ContinueRight

(* One round of the theory takes what it hands over from u on.             *)
RoundFrom(s, P, a, tps, Ls, u) ==
    /\ TakesFrom(s, P, a, tps, Ls, u) /\ Sound(u) /\ Resting(sat, u) /\ u.watch = sat.watch /\ u.excluded = sat.excluded
    /\ StoreOK(TheoryRound(s, a, tps, Ls)) /\ Carries(u, TheoryRound(s, a, tps, Ls)) /\ Stored(TheoryRound(s, a, tps, Ls))
    /\ history' = history \cup Tag("stale", FromUndone(tps))

LEMMA TheoryTakes ==
  ASSUME Good, Theory
  PROVE  \E s, P, a, tps, Ls, u : RoundFrom(s, P, a, tps, Ls, u)
  <1> DEFINE s == BeforeCall
             P == s.passed
             n == MaxPropagations - used.props
             m == MaxLemmas - Cardinality(used.lemmas)
  <1>1. Sound(sat) /\ (s.changedPassed \/ AllAssigned(s))
    BY DEF Theory, Good
  <1>2. /\ Ready(s) /\ s.assumptions = sat.assumptions
        /\ P \subseteq Lit /\ \A l \in P : Assigned(s, l) /\ VarOf(l) \in s.known
    BY <1>1, BeforeCallIs
  <1>3. PICK a \in Answers(P) : \E tps \in Propagations(P, n) : \E Ls \in Lemmas(m) :
          Stored(TheoryRound(s, a, tps, Ls)) /\ history' = history \cup Tag("stale", FromUndone(tps))
    BY DEF Theory, Note
  <1>4. PICK tps \in Propagations(P, n) : \E Ls \in Lemmas(m) :
          Stored(TheoryRound(s, a, tps, Ls)) /\ history' = history \cup Tag("stale", FromUndone(tps))
    BY <1>3
  <1>5. PICK Ls \in Lemmas(m) :
          Stored(TheoryRound(s, a, tps, Ls)) /\ history' = history \cup Tag("stale", FromUndone(tps))
    BY <1>4
  <1> DEFINE u == [s EXCEPT !.changedPassed = FALSE, !.consistent = a.answer, !.model = a.model]
  <1>6. a.answer \in {"SAT", "UNSAT", "UNKNOWN"} /\ a.model \in SUBSET Lit
    <2>1. sat.model \subseteq Lit
      BY <1>1 DEF Sound, State
    <2> QED BY <2>1, AnswersIs
  <1>7. Resting(sat, s) /\ s.watch = sat.watch /\ s \in State /\ s.excluded = sat.excluded
    BY <1>1, BeforeCallRests, BeforeCallWatches
  <1> HIDE DEF s, P, n, m
  <1>8. Asked(s, u, a.answer, a.model)
    BY DEF Asked
  <1> HIDE DEF u
  <1>9. /\ Sound(u) /\ u.trail = s.trail /\ u.assumptions = s.assumptions /\ u.known = s.known
    BY ONLY <1>2, <1>6, <1>8, AskedIs
  <1>10. Resting(sat, u) /\ u.watch = sat.watch /\ u.excluded = sat.excluded
    BY ONLY <1>7, <1>8 DEF Asked, State, Resting
  <1>11. a \in Answers(P) /\ tps \in Propagations(P, n) /\ Ls \in Lemmas(m)
    OBVIOUS
  <1>12. TakesFrom(s, P, a, tps, Ls, u)
    BY ONLY <1>2, <1>8, <1>9, <1>11, TheoryRun
  <1>13. StoreOK(TheoryRound(s, a, tps, Ls)) /\ Carries(u, TheoryRound(s, a, tps, Ls))
    <2> DEFINE r == TheoryRound(s, a, tps, Ls)
    <2>1. r = TheoryRound(s, a, tps, Ls)
      OBVIOUS
    <2> HIDE DEF r
    <2>2. StoreOK(r) /\ Carries(u, r)
      BY ONLY <1>2, <1>8, <1>9, <1>11, <2>1, TheoryRoundIs
    <2> QED BY <2>1, <2>2
  <1>14. RoundFrom(s, P, a, tps, Ls, u)
    BY <1>5, <1>9, <1>10, <1>12, <1>13 DEF RoundFrom
  <1> QED BY <1>14

LEMMA TheoryRight ==
  ASSUME Good, NEW M, Sense(M), Right(M), Theory, "stale" \notin history'
  PROVE  Right(M)'
  <1>1. PICK s, P, a, tps, Ls, u : RoundFrom(s, P, a, tps, Ls, u)
    BY TheoryTakes
  <1> DEFINE r == TheoryRound(s, a, tps, Ls)
  <1>2. r = TheoryRound(s, a, tps, Ls)
    OBVIOUS
  <1> HIDE DEF r
  <1>3. TakesFrom(s, P, a, tps, Ls, u) /\ Resting(sat, u) /\ u.watch = sat.watch /\ Stored(r) /\ ~FromUndone(tps)
    BY <1>1, <1>2 DEF RoundFrom, Tag
  <1>4. Agrees(M, u)
    BY <1>3, AgreesResting DEF Right
  <1>5. \A j \in DOMAIN tps : \A k \in tps[j].premise : IsTrue(u, k)
    BY <1>3 DEF FromUndone, Resting, IsTrue, TrueLits, Entries
  <1>6. StoreAgrees(M, r)
    BY ONLY Sense(M), <1>2, <1>3, <1>4, <1>5, TheoryRoundAgrees
  <1> QED BY <1>3, <1>6, StoredRight

(* A decision; below the assumptions, one of them.                         *)
LEMMA DecidedRight ==
  ASSUME Good, NEW M, Sense(M), Right(M), pc = "decide", NEW l \in Lit, sat' = Decided(sat, l), pc' = "propagate",
         Unassigned(sat, l), VarOf(l) \in sat.known, Pending(sat) => l \in M
  PROVE  Right(M)'
  <1> DEFINE s == [sat EXCEPT !.level = @ + 1]
             e == NewEntry(s, l, NoClause, 0, 0)
  <1>1. Sound(sat) /\ sat.qhead = Len(sat.trail) /\ Agrees(M, sat)
    BY DEF Good, Phase, Right
  <1>2. Sound(s) /\ s.trail = sat.trail /\ s.known = sat.known /\ s.assumptions = sat.assumptions
    BY <1>1, LevelRaised
  <1>3. s.level = sat.level + 1 /\ s.watch = sat.watch /\ s.ok = sat.ok /\ sat.level \in Nat /\ Len(sat.assumptions) \in Nat
    BY <1>1, Fields DEF Sound, State
  <1>4. sat' = Enqueue(s, l, {}, 0, 0)
    BY DEF Decided, NoClause
  <1>5. e \in Entry /\ e.level = s.level /\ e.reason = NoClause /\ e.pos = 0 /\ e.lit = l
    BY <1>3 DEF NewEntry, Entry, NoClause
  <1> HIDE DEF s
  <1>6. Enqueued(s, sat', l, NewEntry(s, l, {}, 0, 0))
    <2>1. Unassigned(s, l) /\ VarOf(l) \in s.known
      BY <1>2, SameTrail DEF Unassigned, IsFalse, IsTrue
    <2>2. {} \subseteq Lit /\ 0 \in Int /\ \A k \in {} \ {l} : Assigned(s, k)
      OBVIOUS
    <2> QED BY ONLY l \in Lit, <1>2, <1>4, <2>1, <2>2, EnqueuePlain
  <1>7. sat'.trail = Append(s.trail, e) /\ sat'.ok = s.ok /\ sat'.assumptions = s.assumptions /\ sat'.watch = s.watch
    BY <1>6 DEF Enqueued, NoClause
  <1> HIDE DEF e
  <1>8. Agrees(M, s) /\ s.ok
    <2>1. Resting(sat, s)
      BY <1>2, <1>3 DEF Resting
    <2>2. Agrees(M, s)
      BY <1>1, <1>3, <2>1, AgreesResting
    <2> QED BY <2>2 DEF Agrees
  <1>9. \A j \in DOMAIN s.trail : s.trail[j].level < s.level
    <2>1. \A j \in DOMAIN sat.trail : sat.trail[j].level \in Nat /\ sat.trail[j].level <= sat.level
      BY <1>1, Fields DEF Sound, Ordered, LevelsRise
    <2> QED BY <1>2, <1>3, <2>1
  <1>10. s.level <= Len(s.assumptions) => l \in M
    BY <1>2, <1>3 DEF Pending
  <1>11. Fits(M, s, e)
    BY <1>5, <1>9, <1>10 DEF Fits
  <1>12. GrownBy(s, sat', e)
    BY <1>2, <1>5, <1>7, Fields, Grown DEF Sound
  <1>13. Agrees(M, sat')
    BY <1>2, <1>5, <1>7, <1>8, <1>11, <1>12, AgreesGrown
  <1> QED BY <1>13 DEF Right

LEMMA AssumeRight ==
  ASSUME Good, NEW M, Sense(M), Right(M), Assume
  PROVE  Right(M)'
  <1> DEFINE l == NextAssumption(sat)
  <1>1. Sound(sat) /\ sat \in State /\ Agrees(M, sat) /\ pc = "decide" /\ ~IsFalse(sat, l)
    BY DEF Good, Sound, Right, Assume
  <1>2. l \in Lit /\ VarOf(l) \in sat.known /\ l \in M
    <2>1. sat.level + 1 \in DOMAIN sat.assumptions /\ sat.assumptions \in Seq(Lit)
      BY Fields DEF Assume, Pending, Good, Sound
    <2> QED BY <1>1, <2>1 DEF NextAssumption, Sound, KnownFirst, Agrees
  <1>3. CASE IsTrue(sat, l)
    <2>1. sat' = [sat EXCEPT !.level = @ + 1] /\ pc' = pc
      BY <1>3 DEF Assume
    <2>2. Resting(sat, sat') /\ sat'.watch = sat.watch
      BY ONLY <1>1, <2>1 DEF State, Resting
    <2> QED BY <1>1, <2>1, <2>2, AgreesResting DEF Right
  <1>4. CASE ~IsTrue(sat, l)
    <2>1. sat' = Decided(sat, l) /\ pc' = "propagate"
      BY <1>4 DEF Assume
    <2>2. Unassigned(sat, l)
      BY <1>1, <1>4 DEF Unassigned
    <2> HIDE DEF l
    <2> QED BY <1>1, <1>2, <2>1, <2>2, DecidedRight
  <1> QED BY <1>3, <1>4

LEMMA DecideRight ==
  ASSUME Good, NEW M, Sense(M), Right(M), Decide
  PROVE  Right(M)'
  <1>1. Sound(sat) /\ pc = "decide" /\ pc' = "propagate" /\ ~Pending(sat)
    BY DEF Good, Decide
  <1>2. PICK v \in sat.known : \E l \in {v, -v} : Unassigned(sat, v) /\ sat' = Decided(sat, l)
    BY DEF Decide
  <1>3. PICK l \in {v, -v} : Unassigned(sat, v) /\ sat' = Decided(sat, l)
    BY <1>2
  <1>4. v \in Lit /\ -v \in Lit /\ VarOf(l) = v /\ l \in Lit /\ -(-v) = v
    <2>1. v \in Var
      BY <1>1, Fields DEF Sound
    <2> QED BY <2>1, Literals
  <1>5. Unassigned(sat, l)
    BY <1>3, <1>4 DEF Unassigned, IsFalse, IsTrue
  <1> QED BY <1>1, <1>3, <1>4, <1>5, DecidedRight

(* Nothing that a model satisfies is false without a decision: neither the *)
(* next assumption, nor a clause with no literal above the assumptions.    *)
LEMMA RefutedNever ==
  ASSUME Good, NEW M, Sense(M), Right(M)
  PROVE  ~AssumptionFails /\ ~ConflictAtRoot
  <1>1. Sound(sat) /\ Agrees(M, sat) /\ sat.level \in Nat /\ Len(sat.assumptions) \in Nat
    BY Fields DEF Good, Sound, Right
  <1>2. ASSUME NEW x \in M, IsFalse(sat, x) PROVE sat.level > Len(sat.assumptions)
    <2>1. x \in Lit
      BY DEF Sense
    <2>2. PICK j \in DOMAIN sat.trail : Level(sat, x) = sat.trail[j].level /\ Level(sat, x) > Len(sat.assumptions)
      BY <1>1, <1>2, <2>1, FalseByDecision
    <2>3. sat.trail[j].level <= sat.level /\ sat.trail[j].level \in Nat
      BY <1>1, Fields DEF Sound, Ordered, LevelsRise
    <2> QED BY <1>1, <2>2, <2>3
  <1>3. ~AssumptionFails
    <2>1. SUFFICES ASSUME AssumptionFails PROVE FALSE
      OBVIOUS
    <2>2. sat.level < Len(sat.assumptions) /\ IsFalse(sat, NextAssumption(sat)) /\ sat.level + 1 \in DOMAIN sat.assumptions
      BY <1>1, <2>1, Fields DEF AssumptionFails, Pending, Sound
    <2>3. NextAssumption(sat) \in M
      BY <1>1, <2>2 DEF NextAssumption, Agrees
    <2> QED BY <1>1, <1>2, <2>2, <2>3
  <1>4. ~ConflictAtRoot
    <2>1. SUFFICES ASSUME ConflictAtRoot PROVE FALSE
      OBVIOUS
    <2>2. sat.level <= Len(sat.assumptions) /\ Opposed(M, sat, conflict.clause)
      BY <2>1 DEF ConflictAtRoot, Right
    <2>3. PICK x \in M : IsFalse(sat, x)
      BY <2>2 DEF Opposed
    <2> QED BY <1>1, <1>2, <2>2, <2>3
  <1> QED BY <1>3, <1>4

LEMMA RestartRight ==
  ASSUME Good, NEW M, Right(M), Restart
  PROVE  Right(M)'
  <1> DEFINE c == CancelUntil(sat, 0, FALSE)
             to == Target(sat, 0, FALSE)
  <1>1. Sound(sat) /\ Agrees(M, sat) /\ pc' = "propagate" /\ sat' = [c EXCEPT !.consistent = "SAT"]
    BY DEF Good, Right, Restart
  <1>2. CancelsTo(sat, 0, FALSE, c, to)
    BY DEF CancelsTo
  <1> HIDE DEF c, to
  <1>3. CancelRight(sat, c, to)
    BY ONLY <1>1, <1>2, 0 \in Nat, CancelIs
  <1>4. Sound(c) /\ to \in Nat /\ Cancelled(sat, c, to) /\ c \in State
    BY <1>3 DEF CancelRight, Sound
  <1>5. Agrees(M, c)
    BY <1>1, <1>4, AgreesCancelled
  <1>6. Resting(c, sat') /\ sat'.watch = c.watch
    BY ONLY <1>1, <1>4 DEF State, Resting
  <1> QED BY <1>1, <1>5, <1>6, AgreesResting DEF Right

LEMMA HandleConflictRight ==
  ASSUME Good, NEW M, Sense(M), Right(M), HandleConflict, history' \cap {"dropped", "reason"} = {}
  PROVE  Right(M)'
  <1> DEFINE c == conflict
             r == Resolve(sat, c.clause)
             u == r.uip
             m == Minimized(sat, r.clause, u)
             rest == m \ {u}
             to == IF rest = {} THEN 0 ELSE Max({Level(sat, l) : l \in rest})
             z == CHOOSE l \in rest : Level(sat, l) = to
  <1>1. /\ Sound(sat) /\ pc = "conflict" /\ sat.level > Len(sat.assumptions) /\ ConflictNow(sat, c) /\ Agrees(M, sat)
        /\ Opposed(M, sat, c.clause) /\ pc' = "propagate"
    BY DEF Good, HandleConflict, Phase, Right
  <1>2. Concluded(sat, c, r, u, m, rest, to, z) /\ \E X : Learning(sat, c, r, u, m, rest, to, z, X, sat')
    BY LearningIs
  <1>3. PICK X : Learning(sat, c, r, u, m, rest, to, z, X, sat')
    BY <1>2
  <1>4. r.steps = 0 /\ rest # {} => c.first = u
    <2> DEFINE when == r.steps = 0 /\ rest # {} /\ c.first # u
    <2>1. \E tags : history' = history \cup (Tag("reason", when) \cup tags)
      BY DEF HandleConflict, Note
    <2> HIDE DEF when
    <2>2. ~when
      BY <2>1 DEF Tag
    <2> QED BY <2>2 DEF when
  <1> HIDE DEF c, r, u, m, rest, to, z
  <1>5. Agrees(M, sat')
    BY ONLY Sense(M), <1>1, <1>2, <1>3, <1>4, LearntAgrees
  <1> QED BY <1>1, <1>5 DEF Right

Sober == NotYet({"fixed", "reason", "excluded", "stale", "dropped"})

LEMMA SearchRight ==
  ASSUME Good, NEW M, Sense(M), Right(M), Search, Sober'
  PROVE  Right(M)'
  <1>1. ~Exclude
    BY DEF Exclude, Note, Sober, NotYet
  <1>2. "stale" \notin history' /\ history' \cap {"dropped", "reason"} = {}
    BY DEF Sober, NotYet
  <1>3. CASE AnswerSat
    <2>1. sat \in State /\ Agrees(M, sat) /\ Finish(sat, "SAT") /\ "SAT" # "UNSAT"
      BY <1>3 DEF AnswerSat, Good, Sound, Right
    <2> QED BY ONLY <2>1, FinishRight
  <1> QED BY <1>1, <1>2, <1>3, DequeueRight, VisitRight, NoTheoryRight, TheoryRight, AssumeRight, RefutedNever, DecideRight,
             RestartRight, HandleConflictRight DEF Search

-----------------------------------------------------------------------------
(* Where assumptions come from.  Until a literal is fixed on level 0, each  *)
(* is a literal received, assumed once, or follows from the theory alone:   *)
(* removing a literal removes it from the assumptions.                      *)

Rooted(s) == \E i \in DOMAIN s.trail : s.trail[i].level = 0
Alone(q, i) == \A j \in DOMAIN q : q[j] = q[i] => j = i
Founded(M, F, q) == \A i \in DOMAIN q : q[i] \in M \/ ({q[i]} \in F /\ Alone(q, i))
Lasts(M, F, s) == Rooted(s) \/ Founded(M, F, s.assumptions)

LEMMA FoundedAppend ==
  ASSUME NEW M, NEW F, NEW G, F \subseteq G, NEW q \in Seq(Lit), Founded(M, F, q), NEW x \in Lit,
         x \in M \/ ({x} \in G /\ {x} \notin F), NEW u, u = Append(q, x)
  PROVE  Founded(M, G, u)
  <1> DEFINE n == Len(q)
  <1>1. n \in Nat /\ DOMAIN q = 1 .. n /\ DOMAIN u = 1 .. n + 1 /\ u[n + 1] = x /\ \A i \in 1 .. n : u[i] = q[i]
    OBVIOUS
  <1> HIDE DEF n
  <1>2. \A i \in 1 .. n + 1 : i \in 1 .. n \/ i = n + 1
    BY <1>1
  <1>3. ASSUME NEW i \in 1 .. n, q[i] \notin M PROVE {q[i]} \in G /\ Alone(u, i)
    <2>1. {q[i]} \in F /\ Alone(q, i)
      BY <1>1, <1>3 DEF Founded
    <2>2. q[i] # x
      BY <1>3, <2>1
    <2> QED BY <1>1, <1>2, <2>1, <2>2 DEF Alone
  <1>4. ASSUME x \notin M PROVE {x} \in G /\ Alone(u, n + 1)
    <2>1. \A j \in 1 .. n : q[j] = x => FALSE
      BY <1>1, <1>4 DEF Founded
    <2> QED BY <1>1, <1>2, <1>4, <2>1 DEF Alone
  <1> QED BY <1>1, <1>2, <1>3, <1>4 DEF Founded

(* Assumptions and entries of level 0 stay when nothing is undone below it. *)
Stays(s, t) == t.assumptions = s.assumptions /\ t.excluded = s.excluded /\ (Rooted(s) => Rooted(t))

LEMMA AppendStays ==
  ASSUME NEW s \in State, NEW t, NEW e, t.trail = Append(s.trail, e),
         t.assumptions = s.assumptions, t.excluded = s.excluded
  PROVE  Stays(s, t)
  <1>1. s.trail \in Seq(Entry)
    BY Fields
  <1>2. \A i \in DOMAIN s.trail : i \in DOMAIN t.trail /\ t.trail[i] = s.trail[i]
    BY <1>1
  <1> QED BY <1>2 DEF Stays, Rooted

LEMMA EnqueueStays ==
  ASSUME NEW s \in State, NEW l, NEW C, NEW first, NEW pos, NEW t, t = Enqueue(s, l, C, first, pos)
  PROVE  Stays(s, t)
  <1>1. t.assumptions = s.assumptions /\ t.excluded = s.excluded /\ t.trail = Append(s.trail, NewEntry(s, l, C, first, pos))
    BY DEF State, Enqueue, NewEntry
  <1> QED BY <1>1, AppendStays

LEMMA RootedStays ==
  ASSUME NEW s, NEW t
  PROVE  /\ Extends(s, t) /\ Rooted(s) => Rooted(t)
         /\ Grows(s, t) /\ Rooted(s) => Rooted(t)
         /\ \A to : Cancelled(s, t, to) /\ t.level \in Nat /\ Rooted(s) => Rooted(t)
  BY DEF Extends, Grows, Cancelled, Rooted, Same

LEMMA StoreLemmaAssumes ==
  ASSUME NEW r, StoreOK(r), NEW C, C \subseteq Lit, Within(C, r.s.known), NEW t, t = StoreLemma(r, C)
  PROVE  t.s.assumptions = r.s.assumptions \/ \E x \in C : C = {x} /\ t.s.assumptions = Append(r.s.assumptions, x)
  <1> DEFINE s == r.s
             x == First(s, C)
             y == Second(s, C)
             at == Attach([s EXCEPT !.learnts = @ \cup {C}], C, {x, y})
             e == Enqueue(at, x, C, x, 0)
  <1>1. /\ Sound(s) /\ s \in State /\ Once(s) /\ s.trail \in Seq(Entry) /\ r = [s |-> s, conflict |-> r.conflict]
    BY Fields DEF StoreOK, Sound, Ordered
  <1>0. [s EXCEPT !.ok = FALSE].assumptions = s.assumptions /\ [s EXCEPT !.assumptions = Append(@, x)].assumptions = Append(s.assumptions, x)
    <2> HIDE DEF s, x
    <2> QED BY ONLY <1>1 DEF State
  <1>2. C # {} => x \in C
    BY <1>1, FirstExists
  <1>3. ASSUME t = [r EXCEPT !.s.ok = FALSE, !.conflict = NoConflict] PROVE t.s.assumptions = s.assumptions
    <2> DEFINE u == [s EXCEPT !.ok = FALSE]
    <2>1. t = [s |-> u, conflict |-> NoConflict]
      BY <1>1, <1>3
    <2>2. u.assumptions = s.assumptions
      BY <1>0
    <2> HIDE DEF u, s
    <2> QED BY ONLY <2>1, <2>2
  <1>4. ASSUME t = [r EXCEPT !.s.assumptions = Append(@, x)] PROVE t.s.assumptions = Append(s.assumptions, x)
    <2> DEFINE u == [s EXCEPT !.assumptions = Append(@, x)]
    <2>1. t = [s |-> u, conflict |-> r.conflict]
      BY <1>1, <1>4
    <2>2. u.assumptions = Append(s.assumptions, x)
      BY <1>0
    <2> HIDE DEF u, s, x
    <2> QED BY ONLY <2>1, <2>2
  <1>5. ASSUME C # {}, ~IsLiteral(C) PROVE at.assumptions = s.assumptions /\ e.assumptions = s.assumptions
    <2>1. x \in C /\ y \in C /\ x # y
      BY <1>1, <1>5, FirstAndSecond
    <2>2. s.learnts \cup {C} \subseteq s.learnts \cup {C} /\ at = Attach([s EXCEPT !.learnts = s.learnts \cup {C}], C, {x, y})
      OBVIOUS
    <2>3. e = Enqueue(at, x, C, x, 0)
      OBVIOUS
    <2> HIDE DEF x, y, at, e
    <2>4. Sound(at) /\ Attached(s, at, C)
      BY <1>1, <2>1, <2>2, AttachIs
    <2>5. at.assumptions = s.assumptions /\ at \in State
      BY <2>4 DEF Attached, Sound
    <2> QED BY <2>3, <2>5, EnqueueStays DEF Stays
  <1>6. \/ t = r \/ t = [r EXCEPT !.s.ok = FALSE, !.conflict = NoConflict]
        \/ IsLiteral(C) /\ C # {} /\ t = [r EXCEPT !.s.assumptions = Append(@, x)]
        \/ ~IsLiteral(C) /\ C # {} /\ (t = [r EXCEPT !.s = e] \/ t.s = at \/ t = [r EXCEPT !.s = at])
    BY DEF StoreLemma
  <1>7. IsLiteral(C) /\ C # {} => C = {x} /\ x \in C
    BY <1>2 DEF IsLiteral
  <1> HIDE DEF x, y, at, e
  <1>8. [r EXCEPT !.s = e].s = e /\ [r EXCEPT !.s = at].s = at
    BY <1>1
  <1> QED BY <1>3, <1>4, <1>5, <1>6, <1>7, <1>8

LEMMA StoreLemmasLasts ==
  ASSUME NEW M, NEW F, NEW s, Sound(s), NEW lemmas \in Seq(SUBSET Lit), \A i \in DOMAIN lemmas : Within(lemmas[i], s.known),
         Rooted(s) \/ Hit(M, lemmas), Lasts(M, F, s), NEW r, r = StoreLemmas(s, lemmas)
  PROVE  Lasts(M, F, r.s)
  <1> DEFINE n == Len(lemmas)
  <1>1. n \in Nat /\ DOMAIN lemmas = 1 .. n /\ \A i \in DOMAIN lemmas : lemmas[i] \subseteq Lit
    OBVIOUS
  <1>2. PICK m \in Nat : \E b : StoresFrom(s, lemmas, m, b)
    BY StoredRun
  <1>3. PICK b : StoresFrom(s, lemmas, m, b)
    BY <1>2
  <1> DEFINE f == StoredFrom(b, lemmas)
             T == {k \in 0 .. n : Founded(M, F, f[k].s.assumptions)}
  <1>4. f[0] = [s |-> b, conflict |-> NoConflict] /\ \A k \in 1 .. n : f[k] = StoreLemma(f[k - 1], lemmas[n + 1 - k])
    BY <1>3 DEF StoresFrom
  <1>5. /\ Sound(b) /\ Cancelled(s, b, m) /\ b.level = m /\ r = f[n]
        /\ \A k \in 0 .. n : StoreOK(f[k]) /\ Extends(b, f[k].s)
    BY <1>3 DEF StoresFrom
  <1> HIDE DEF f, n
  <1>6. n \in 0 .. n
    BY <1>1
  <1>7. CASE Rooted(s)
    <2>1. Rooted(b)
      BY <1>5, <1>7, RootedStays
    <2>2. Rooted(f[n].s)
      BY <1>5, <1>6, <2>1, RootedStays
    <2> QED BY <1>5, <2>2 DEF Lasts
  <1>8. CASE ~Rooted(s)
    <2>1. 0 \in T
      BY <1>1, <1>4, <1>5, <1>8 DEF Lasts, Cancelled, Fixed
    <2>2. ASSUME NEW k \in 0 .. n - 1, k \in T PROVE k + 1 \in T
      <3> DEFINE q == f[k]
                 t == f[k + 1]
                 C == lemmas[n - k]
      <3>1. k \in 0 .. n /\ k + 1 \in 0 .. n /\ k + 1 \in 1 .. n /\ k + 1 - 1 = k /\ n + 1 - (k + 1) = n - k /\ n - k \in 1 .. n
        BY <1>1
      <3>2. StoreOK(q) /\ Extends(b, q.s) /\ t = StoreLemma(q, C) /\ Founded(M, F, q.s.assumptions)
        BY <1>4, <1>5, <2>2, <3>1
      <3>3. C \subseteq Lit /\ Within(C, q.s.known) /\ C \cap M # {}
        BY <1>1, <1>5, <1>8, <3>1, <3>2 DEF Extends, Cancelled, Fixed, Hit
      <3> HIDE DEF q, t, C
      <3>4. t.s.assumptions = q.s.assumptions \/ \E x \in C : C = {x} /\ t.s.assumptions = Append(q.s.assumptions, x)
        BY <3>2, <3>3, StoreLemmaAssumes
      <3>5. q.s.assumptions \in Seq(Lit)
        BY <3>2, Fields DEF StoreOK, Sound
      <3>6. Founded(M, F, t.s.assumptions)
        BY <3>2, <3>3, <3>4, <3>5, FoundedAppend
      <3> QED BY <3>1, <3>6 DEF t
    <2>3. n \in T
      <3> HIDE DEF T
      <3> QED BY <1>1, <1>6, <2>1, <2>2, NumbersTo
    <2> QED BY <1>5, <2>3 DEF Lasts
  <1> QED BY <1>7, <1>8

LEMMA TakeLasts ==
  ASSUME NEW M, Sense(M), NEW r, NEW P, TakeOK(r, P), NEW tps, NEW x, HandedOK(x, P, tps), NEW t, t = Take(r, x)
  PROVE  /\ t.s.assumptions = r.s.assumptions
         /\ Rooted(r.s) \/ Hit(M, r.lemmas) => Rooted(t.s) \/ Hit(M, t.lemmas)
  <1> DEFINE Hits(q) == ~Rooted(r.s) /\ Hit(M, r.lemmas) => Hit(M, q)
  <1>1. /\ r = [s |-> r.s, lemmas |-> r.lemmas] /\ Sound(r.s) /\ r.s \in State /\ ClausesOf(r.lemmas, r.s.known)
    BY DEF TakeOK, Sound
  <1>2. Rooted(r.s) => Rooted(t.s)
    <2>1. Grows(r.s, t.s)
      BY TakeIs DEF Onward, Follows
    <2> QED BY <2>1, RootedStays
  <1>3. ASSUME NEW s, s.trail = r.s.trail, NEW C, C \cap M # {}, NEW q, q = r.lemmas \o AddClause(s, C) PROVE Hits(q)
    <2>1. SUFFICES ASSUME ~Rooted(r.s), Hit(M, r.lemmas) PROVE Hit(M, q)
      OBVIOUS
    <2>2. PICK y \in C : y \in M
      BY <1>3
    <2>3. ~FixedFalse(s, y) /\ Added(q, r.lemmas, s, C)
      BY <1>3, <2>1 DEF FixedFalse, Entries, Rooted, Added
    <2> QED BY ONLY <1>1, <2>1, <2>2, <2>3, AddedHits
  <1>4. ASSUME NEW C, C \subseteq Lit, NEW s, s = CreateLiterals(r.s, C, TRUE)
        PROVE  s.trail = r.s.trail /\ s.assumptions = r.s.assumptions /\ s \in State
    <2>1. TRUE \in BOOLEAN
      OBVIOUS
    <2>2. Sound(s) /\ Created(r.s, s, C)
      BY ONLY <1>1, <1>4, <2>1, CreateLiteralsIs
    <2> QED BY <2>2 DEF Created, Sound
  <1>5. CASE x.kind = "conflict"
    <2> DEFINE C == Negated(x.given)
               q == r.lemmas \o AddClause(r.s, C)
    <2>1. C \cap M # {}
      BY <1>5 DEF HandedOK, Sense
    <2>2. t = [r EXCEPT !.lemmas = q]
      BY <1>5 DEF Take, LearnConflict
    <2>3. Hits(q)
      BY <1>3, <2>1
    <2> HIDE DEF q
    <2>4. t = [s |-> r.s, lemmas |-> q]
      BY <1>1, <2>2
    <2> QED BY <1>2, <2>3, <2>4
  <1>6. CASE x.kind = "propagation"
    <2> DEFINE tp == x.given
               l == tp.conclusion
               s == CreateLiterals(r.s, {l}, TRUE)
               C == Negated(tp.premise) \cup {l}
               p == Len(s.props) + 1
               u == Enqueue([s EXCEPT !.props = Append(@, tp)], l, C, l, p)
               q == r.lemmas \o AddClause(s, C)
    <2>1. tp \in Propagation /\ tp \in Propagable(P) /\ l \in Lit
      BY <1>6 DEF HandedOK, Propagation
    <2>2. t = (IF Unassigned(s, l) THEN [r EXCEPT !.s = u]
               ELSE IF IsFalse(s, l) THEN [s |-> s, lemmas |-> q]
               ELSE [r EXCEPT !.s = s])
      BY <1>6 DEF Take, PropagateTheory
    <2>3. s.trail = r.s.trail /\ s.assumptions = r.s.assumptions /\ s \in State
      BY <1>4, <2>1
    <2>4. C \cap M # {}
      BY <2>1, PropagableIs
    <2>5. PropagationEnqueued(s, u, tp, l, C, p)
      BY ONLY Zenon DEF u, PropagationEnqueued
    <2>6. Hits(q)
      <3> HIDE DEF s, C
      <3> QED BY <1>3, <2>3, <2>4
    <2> HIDE DEF s, C, u, l, p, q, tp
    <2>7. u.assumptions = s.assumptions
      BY ONLY <2>3, <2>5, EnqueuedPropagation
    <2>8. t = [s |-> u, lemmas |-> r.lemmas] \/ t = [s |-> s, lemmas |-> q] \/ t = [s |-> s, lemmas |-> r.lemmas]
      BY <1>1, <2>2
    <2> QED BY <1>2, <2>3, <2>6, <2>7, <2>8
  <1>7. CASE x.kind = "lemma"
    <2> DEFINE C == x.given
               s == CreateLiterals(r.s, C, TRUE)
               q == r.lemmas \o AddClause(s, C)
    <2>1. C \subseteq Lit /\ C \cap M # {}
      BY <1>7 DEF HandedOK, Sense
    <2>2. s.trail = r.s.trail /\ s.assumptions = r.s.assumptions
      BY <1>4, <2>1
    <2>3. t = r \/ t = [s |-> s, lemmas |-> q]
      BY <1>7 DEF Take, ProcessLemma
    <2> HIDE DEF s, C
    <2>4. Hits(q)
      BY <1>3, <2>1, <2>2
    <2> HIDE DEF q
    <2> QED BY <1>2, <2>2, <2>3, <2>4
  <1> QED BY <1>5, <1>6, <1>7 DEF HandedOK

LEMMA TheoryRoundLasts ==
  ASSUME NEW M, Sense(M), NEW F, NEW s, NEW P, NEW a, NEW tps, NEW Ls, NEW u, TakesFrom(s, P, a, tps, Ls, u), Lasts(M, F, u)
  PROVE  Lasts(M, F, TheoryRound(s, a, tps, Ls).s)
  <1> DEFINE h == Handed(a, tps, Ls)
             f == Taken(u, h)
             k == Len(h)
             v == f[k]
             t == TheoryRound(s, a, tps, Ls)
             T == {i \in 0 .. k : f[i].s.assumptions = u.assumptions /\ (Rooted(f[i].s) \/ Hit(M, f[i].lemmas))}
  <1>1. /\ k \in Nat /\ \A i \in 1 .. k : HandedOK(h[i], P, tps)
        /\ f[0] = [s |-> u, lemmas |-> <<>>] /\ \A i \in 1 .. k : f[i] = Take(f[i - 1], h[i])
        /\ \A i \in 0 .. k : TakeOK(f[i], P) /\ Onward(u, f[i].s)
        /\ t = IF f[k].lemmas = <<>> THEN [s |-> f[k].s, conflict |-> NoConflict] ELSE StoreLemmas(f[k].s, f[k].lemmas)
    BY DEF TakesFrom
  <1> HIDE DEF h, f, k, t
  <1>2. 0 \in T
    BY <1>1 DEF Hit
  <1>3. ASSUME NEW i \in 0 .. k - 1, i \in T PROVE i + 1 \in T
    <2>1. i \in 0 .. k /\ i + 1 \in 0 .. k /\ i + 1 \in 1 .. k /\ (i + 1) - 1 = i
      BY <1>1
    <2>2. TakeOK(f[i], P) /\ HandedOK(h[i + 1], P, tps) /\ f[i + 1] = Take(f[i], h[i + 1])
      BY <1>1, <2>1
    <2> QED BY <1>3, <2>1, <2>2, TakeLasts
  <1>4. k \in 0 .. k
    BY <1>1
  <1>5. k \in T
    <2> HIDE DEF T
    <2> QED BY <1>1, <1>2, <1>3, <1>4, NumbersTo
  <1>6. TakeOK(v, P) /\ Grows(u, v.s) /\ v.s.assumptions = u.assumptions /\ (Rooted(v.s) \/ Hit(M, v.lemmas))
    BY <1>1, <1>4, <1>5 DEF Onward, Follows
  <1> HIDE DEF v
  <1>7. Lasts(M, F, v.s)
    BY <1>6, RootedStays DEF Lasts
  <1>8. t = IF v.lemmas = <<>> THEN [s |-> v.s, conflict |-> NoConflict] ELSE StoreLemmas(v.s, v.lemmas)
    BY <1>1 DEF v
  <1>9. Sound(v.s) /\ v.lemmas \in Seq(SUBSET Lit) /\ \A i \in DOMAIN v.lemmas : Within(v.lemmas[i], v.s.known)
    BY <1>6 DEF TakeOK, ClausesOf
  <1>10. Lasts(M, F, t.s)
    BY <1>6, <1>7, <1>8, <1>9, StoreLemmasLasts
  <1> QED BY <1>10 DEF t

(* What a step that ends in s, or goes on from it, leaves: the search       *)
(* neither adds an assumption nor forgets that it has excluded something,   *)
(* but for storeLemmas and the exclusion.                                  *)
Passes(s) ==
    /\ sat'.trail = s.trail /\ sat'.assumptions = s.assumptions
    /\ IF pc' = "idle" THEN answer' # "UNSAT" \/ ~s.excluded ELSE sat'.excluded = s.excluded

LEMMA FinishPasses ==
  ASSUME NEW s \in State, NEW result \in {"SAT", Refuted(s)}, Finish(s, result)
  PROVE  Passes(s)
  <1> DEFINE v == IF result = "UNSAT" THEN FALSE ELSE s.ok
  <1>1. sat' = [s EXCEPT !.excluded = FALSE, !.ok = v] /\ answer' = result /\ pc' = "idle"
    BY DEF Finish
  <1> HIDE DEF v
  <1>2. sat'.trail = s.trail /\ sat'.assumptions = s.assumptions
    BY ONLY <1>1, s \in State DEF State
  <1> QED BY <1>1, <1>2 DEF Passes, Refuted

LEMMA StoredPasses ==
  ASSUME NEW r, StoreOK(r), Stored(r)
  PROVE  Passes(r.s)
  <1>1. r.s \in State
    BY DEF StoreOK, Sound
  <1>2. Finish(r.s, Refuted(r.s)) => Passes(r.s)
    BY <1>1, FinishPasses
  <1>3. sat' = r.s /\ pc' # "idle" => Passes(r.s)
    BY DEF Passes
  <1> QED BY <1>2, <1>3 DEF Stored, Continue

LEMMA SearchPasses ==
  ASSUME Good, Search, ~Theory, ~Exclude, "dropped" \notin history'
  PROVE  \E s : Stays(sat, s) /\ Passes(s)
  <1>1. Sound(sat) /\ sat \in State /\ Stays(sat, sat)
    BY DEF Good, Sound, Stays
  <1>2. ASSUME NEW s \in State, Stays(sat, s), sat' = s, pc' # "idle" PROVE Stays(sat, s) /\ Passes(s)
    BY <1>2 DEF Passes
  <1>3. CASE Dequeue \/ \E c \in todo : Visit(c)
    <2>1. pc' # "idle" /\ (sat' = sat \/ sat' = [sat EXCEPT !.qhead = @ + 1] \/ sat' = [sat EXCEPT !.qhead = Len(sat.trail)]
            \/ (\E c, w : sat' = [sat EXCEPT !.watch[c] = w]) \/ \E l, c : sat' = Enqueue(sat, l, c, l, 0))
      BY <1>3, Zenon DEF Dequeue, Visit, Skip, Rewatch, Propagate, FoundConflict
    <2>2. (\E l, c : sat' = Enqueue(sat, l, c, l, 0)) => Stays(sat, sat')
      BY <1>1, EnqueueStays
    <2>3. ~(\E l, c : sat' = Enqueue(sat, l, c, l, 0)) =>
            sat'.trail = sat.trail /\ sat'.assumptions = sat.assumptions /\ sat'.excluded = sat.excluded
      BY ONLY <1>1, <2>1 DEF State
    <2> QED BY <1>1, <2>1, <2>2, <2>3 DEF Passes, Stays
  <1>4. CASE NoTheory
    <2>1. PICK s \in {sat, BeforeCall} : Continue(s)
      BY <1>4 DEF NoTheory
    <2>2. s.trail = sat.trail /\ s.assumptions = sat.assumptions /\ s.excluded = sat.excluded
      BY <1>1, <2>1, BeforeCallRests, BeforeCallWatches DEF Resting
    <2> QED BY <1>1, <2>1, <2>2 DEF Continue, Passes, Stays
  <1>5. CASE Assume \/ Decide
    <2> DEFINE s == [sat EXCEPT !.level = @ + 1]
    <2>1. pc' # "idle" /\ (sat' = s \/ \E l : sat' = Enqueue(s, l, NoClause, 0, 0))
      BY <1>5, Zenon DEF Assume, Decide, Decided
    <2>2. s \in State /\ s.trail = sat.trail /\ s.assumptions = sat.assumptions /\ s.excluded = sat.excluded
      <3>1. sat.level + 1 \in Nat
        BY <1>1, Fields DEF Sound
      <3> QED BY ONLY <1>1, <3>1 DEF State
    <2> HIDE DEF s
    <2>3. sat' = s \/ Stays(s, sat')
      BY <2>1, <2>2, EnqueueStays
    <2> QED BY <2>1, <2>2, <2>3 DEF Passes, Stays, Rooted
  <1>6. CASE AssumptionFails \/ AnswerSat \/ ConflictAtRoot
    <2>1. Finish(sat, "SAT") \/ Finish(sat, Refuted(sat))
      BY <1>6 DEF AssumptionFails, AnswerSat, ConflictAtRoot
    <2> QED BY <1>1, <2>1, FinishPasses
  <1>7. CASE Restart
    <2> DEFINE c == CancelUntil(sat, 0, FALSE)
               to == Target(sat, 0, FALSE)
    <2>1. sat' = [c EXCEPT !.consistent = "SAT"] /\ pc' # "idle" /\ CancelsTo(sat, 0, FALSE, c, to)
      BY <1>7 DEF Restart, CancelsTo
    <2> HIDE DEF c, to
    <2>2. CancelRight(sat, c, to)
      BY ONLY <1>1, <2>1, 0 \in Nat, CancelIs
    <2>3. c \in State /\ Cancelled(sat, c, to) /\ c.level \in Nat
      BY <2>2, Fields DEF CancelRight, Sound
    <2>4. Stays(sat, c)
      BY <2>3, RootedStays DEF Stays, Cancelled, Fixed
    <2>5. sat'.trail = c.trail /\ sat'.assumptions = c.assumptions /\ sat'.excluded = c.excluded
      BY ONLY <2>1, <2>3 DEF State
    <2> QED BY <2>1, <2>4, <2>5 DEF Passes
  <1>8. CASE HandleConflict
    <2> DEFINE c == conflict
               r == Resolve(sat, c.clause)
               u == r.uip
               m == Minimized(sat, r.clause, u)
               rest == m \ {u}
               to == IF rest = {} THEN 0 ELSE Max({Level(sat, l) : l \in rest})
               z == CHOOSE l \in rest : Level(sat, l) = to
    <2>1. sat.level > Len(sat.assumptions) /\ ConflictNow(sat, c) /\ pc' # "idle"
      BY <1>8 DEF Good, HandleConflict, Phase
    <2>2. Concluded(sat, c, r, u, m, rest, to, z) /\ \E X : Learning(sat, c, r, u, m, rest, to, z, X, sat')
      BY <1>8, LearningIs
    <2> HIDE DEF c, r, u, m, rest, to, z
    <2>3. sat'.assumptions = sat.assumptions /\ sat'.excluded = sat.excluded /\ \E X, b : Jumps(sat, c, r, u, m, rest, X, b, sat')
      BY ONLY <1>1, <2>1, <2>2, LearntIs
    <2>4. PICK X, b : Jumps(sat, c, r, u, m, rest, X, b, sat')
      BY <2>3
    <2>5. /\ AsBefore(sat, ExplainAll(sat, X)) /\ Cancelled(ExplainAll(sat, X), b, b.level) /\ b \in State
          /\ \/ \E e : Enqueued(b, sat', u, e)
             \/ \E a, e : a \in State /\ Attached(b, a, m) /\ Enqueued(a, sat', u, e)
      BY <2>4 DEF Jumps, Sound
    <2>6. Rooted(sat) => Rooted(b)
      <3>1. b.level \in Nat
        BY <2>5, Fields
      <3>2. Rooted(sat) => Rooted(ExplainAll(sat, X))
        BY <2>5 DEF AsBefore, Rooted
      <3> QED BY ONLY <2>5, <3>1, <3>2, RootedStays
    <2>7. Rooted(b) => Rooted(sat')
      BY <2>5, AppendStays DEF Enqueued, Attached, Stays, Rooted
    <2> QED BY <2>1, <2>3, <2>6, <2>7 DEF Passes, Stays
  <1> QED BY <1>3, <1>4, <1>5, <1>6, <1>7, <1>8 DEF Search

LEMMA SearchLasts ==
  ASSUME Good, Search, ~Exclude, "dropped" \notin history', NEW M, Sense(M), NEW F, Lasts(M, F, sat)
  PROVE  Lasts(M, F, sat')
  <1>1. CASE Theory
    <2>1. PICK s, P, a, tps, Ls, u : RoundFrom(s, P, a, tps, Ls, u)
      BY <1>1, TheoryTakes
    <2> DEFINE r == TheoryRound(s, a, tps, Ls)
    <2>2. Lasts(M, F, u)
      BY <2>1 DEF RoundFrom, Resting, Lasts, Rooted
    <2>3. Lasts(M, F, r.s) /\ Passes(r.s)
      BY <2>1, <2>2, TheoryRoundLasts, StoredPasses DEF RoundFrom
    <2> QED BY <2>3 DEF Lasts, Rooted, Passes
  <1>2. CASE ~Theory
    BY <1>2, SearchPasses DEF Lasts, Rooted, Passes, Stays
  <1> QED BY <1>1, <1>2

Warned == IF pc = "idle" THEN answer # "UNSAT" ELSE sat.excluded

LEMMA SearchWarned ==
  ASSUME Good, Search, Exclude \/ sat.excluded, "dropped" \notin history'
  PROVE  Warned'
  <1>1. CASE Exclude
    <2> DEFINE s == [sat EXCEPT !.excluded = TRUE]
               q == AddClause(sat, Negated(sat.passed))
               r == StoreLemmas(s, q)
    <2>1. Sound(sat)
      BY DEF Good
    <2>2. Sound(s) /\ s.known = sat.known /\ s.excluded
      <3>1. Sound(s) /\ Marked(sat, s)
        BY <2>1, MarkedSome
      <3>2. s.excluded
        BY <2>1 DEF Sound, State
      <3> QED BY <3>1, <3>2 DEF Marked
    <2>3. q \in Seq(SUBSET Lit) /\ \A i \in DOMAIN q : Within(q[i], s.known)
      BY <2>1, <2>2, ExcludingIs DEF ClausesOf
    <2>4. r = StoreLemmas(s, q) /\ ((sat' = r.s /\ pc' = "propagate") \/ Stored(r))
      BY <1>1 DEF Exclude
    <2> HIDE DEF s, q, r
    <2>5. StoreOK(r) /\ Carries(s, r)
      BY ONLY <2>2, <2>3, <2>4, StoreLemmasIs
    <2> QED BY <2>2, <2>4, <2>5, StoredPasses DEF Carries, Passes, Warned
  <1>2. CASE ~Exclude /\ Theory
    <2>1. PICK s, P, a, tps, Ls, u : RoundFrom(s, P, a, tps, Ls, u)
      BY <1>2, TheoryTakes
    <2>2. TheoryRound(s, a, tps, Ls).s.excluded = sat.excluded /\ Passes(TheoryRound(s, a, tps, Ls).s)
      BY <2>1, StoredPasses DEF RoundFrom, Carries
    <2> QED BY <1>2, <2>2 DEF Passes, Warned
  <1>3. CASE ~Exclude /\ ~Theory
    BY <1>3, SearchPasses DEF Passes, Stays, Warned
  <1> QED BY <1>1, <1>2, <1>3

-----------------------------------------------------------------------------
(* The calls of the user.                                                  *)

LEMMA BackAgrees ==
  ASSUME NEW s, Sound(s), NEW t, t = Back(s)
  PROVE  /\ Sound(t) /\ t.level = 0 /\ t.assumptions = s.assumptions /\ t.watch = s.watch
         /\ Rooted(s) => Rooted(t)
         /\ ~Rooted(s) => DOMAIN t.trail = {}
         /\ \A M : Agrees(M, s) => Agrees(M, t)
  <1> DEFINE c == CancelUntil(s, 0, TRUE)
  <1>1. CancelsTo(s, 0, TRUE, c, 0) /\ t = Adapt(c)
    BY DEF Target, CancelsTo, Back
  <1> HIDE DEF c
  <1>2. CancelRight(s, c, 0)
    BY ONLY <1>1, 0 \in Nat, Sound(s), CancelIs
  <1>3. Sound(c) /\ Cancelled(s, c, 0) /\ c \in State /\ c.level \in Nat
    BY <1>2, Fields DEF CancelRight, Sound
  <1>4. Resting(c, t) /\ t.watch = c.watch
    BY ONLY <1>1, <1>3 DEF Adapt, State, Resting
  <1>5. \A M : Agrees(M, s) => Agrees(M, t)
    BY <1>3, <1>4, AgreesCancelled, AgreesResting
  <1>6. Rooted(s) => Rooted(t)
    BY <1>3, <1>4, RootedStays DEF Resting, Rooted
  <1> QED BY <1>5, <1>6, BackIs, BackWatches DEF Rooted

LEMMA AddCoreKeeps ==
  ASSUME Good, NEW f, AddCore(f), NEW M, Sense(M)
  PROVE  /\ Lasts(M, received, sat) => Lasts(M, received', sat')
         /\ Right(M) /\ f \cap M # {} => Right(M)'
  <1> DEFINE b == Back(sat)
             s == CreateLiterals(b, f, FALSE)
  <1>1. script \in Scripts /\ f \in ToSet(script) /\ f \notin received /\ pc = "idle" /\ Sound(sat)
    BY DEF AddCore, MayBeAdded, Good, Requested, ToSet
  <1>2. f \subseteq Lit /\ f # {} /\ FALSE \in BOOLEAN
    BY <1>1, ScriptLiterals
  <1>3. /\ Sound(b) /\ b.level = 0 /\ b.assumptions = sat.assumptions /\ (Rooted(sat) => Rooted(b))
        /\ Agrees(M, sat) => Agrees(M, b)
    BY <1>1, BackAgrees
  <1>4. sat' = IF IsLiteral(f) THEN [s EXCEPT !.assumptions = Append(@, TheLiteral(f))]
               ELSE Attach(s, f, {First(s, f), Second(s, f)})
    BY DEF AddCore
  <1> HIDE DEF b
  <1>5. Sound(s) /\ s \in State /\ Created(b, s, f)
    BY <1>2, <1>3, CreateLiteralsIs DEF Sound
  <1>6. Agrees(M, sat) => Agrees(M, s)
    <2>1. s = CreateLiterals(b, f, FALSE)
      OBVIOUS
    <2> HIDE DEF s
    <2> QED BY ONLY <1>2, <1>3, <2>1, AgreesCreated
  <1> HIDE DEF s
  <1>7. /\ s.assumptions = sat.assumptions /\ Within(f, s.known) /\ (Rooted(sat) => Rooted(s)) /\ s.level = 0
        /\ s.assumptions \in Seq(Lit)
    BY <1>3, <1>5, Fields DEF Created, Rooted
  <1>8. pc' = "idle" /\ answer' = "none" /\ received' = received \cup {f}
    BY <1>1 DEF AddCore
  <1>9. CASE IsLiteral(f)
    <2> DEFINE x == TheLiteral(f)
               q == Append(s.assumptions, x)
    <2>1. x \in Lit /\ f = {x}
      BY <1>2, <1>9, UnitLiteral
    <2>2. sat' = [s EXCEPT !.assumptions = q]
      BY <1>4, <1>9
    <2>3. q = Append(s.assumptions, x)
      OBVIOUS
    <2> HIDE DEF x, q
    <2>4. sat'.trail = s.trail /\ sat'.watch = s.watch /\ sat'.ok = s.ok /\ sat'.assumptions = q
      BY ONLY <1>5, <2>2 DEF State
    <2>5. Founded(M, received, s.assumptions) => Founded(M, received', q)
      <3>1. received \subseteq received' /\ {x} \in received' /\ {x} \notin received
        BY <1>1, <1>8, <2>1
      <3> QED BY ONLY <1>7, <2>1, <2>3, <3>1, FoundedAppend
    <2>6. x \in M /\ Agrees(M, s) => Agrees(M, sat')
      BY <1>5, <1>7, <2>3, <2>4, AgreesAssuming DEF Agrees
    <2> QED BY <1>6, <1>7, <1>8, <2>1, <2>4, <2>5, <2>6 DEF Lasts, Rooted, Right
  <1>10. CASE ~IsLiteral(f)
    <2> DEFINE x == First(s, f)
               y == Second(s, f)
               L == s.learnts
    <2>1. x \in f /\ y \in f /\ x # y
      BY <1>2, <1>5, <1>10, FirstAndSecond, Fields DEF Sound, Ordered
    <2>2. [s EXCEPT !.learnts = L] = s
      BY <1>5 DEF State
    <2>3. sat' = Attach([s EXCEPT !.learnts = L], f, {x, y}) /\ L \subseteq s.learnts \cup {f}
      BY <1>4, <1>10, <2>2
    <2> HIDE DEF x, y, L
    <2>4. Attached(s, sat', f)
      BY ONLY <1>2, <1>5, <1>7, <2>1, <2>3, AttachIs
    <2>5. Founded(M, received, s.assumptions) => Founded(M, received', s.assumptions)
      BY <1>8 DEF Founded
    <2> QED BY <1>6, <1>7, <1>8, <2>4, <2>5, AgreesAttached DEF Attached, Lasts, Rooted, Right
  <1> QED BY <1>9, <1>10

LEMMA RemoveCoreKeeps ==
  ASSUME Good, NEW f, RemoveCore(f), "fixed" \notin history', NEW M, Sense(M), Lasts(M, received, sat)
  PROVE  /\ Lasts(M, received', sat')
         /\ (\A g \in received' : g \cap M # {}) => Right(M)'
  <1> DEFINE b == Back(sat)
             x == TheLiteral(f)
             kept == IF IsLiteral(f) THEN received ELSE received \ {f}
             w == [c \in DOMAIN b.watch \cap kept |-> b.watch[c]]
             q == [i \in DOMAIN b.trail |-> IF b.trail[i].reason \in kept THEN b.trail[i]
                                            ELSE [b.trail[i] EXCEPT !.reason = NoClause]]
             a == IF IsLiteral(f) THEN WithoutFirst(b.assumptions, x) ELSE b.assumptions
  <1>1. /\ pc' = "idle" /\ answer' = "none" /\ received' = received \ {f} /\ Sound(sat) /\ ~Rooted(sat)
        /\ sat' = [b EXCEPT !.learnts = {}, !.watch = w, !.trail = q, !.assumptions = a, !.ok = TRUE]
    BY DEF RemoveCore, Good, Note, Tag, Entries, Rooted, Kept
  <1>2. IsLiteral(f) => x \in ToSet(sat.assumptions) /\ f = {x}
    BY UnitLiteral DEF RemoveCore, Good, Requested
  <1>3. b \in State /\ DOMAIN b.trail = {} /\ b.watch = sat.watch /\ b.assumptions = sat.assumptions /\ sat.assumptions \in Seq(Lit)
    BY <1>1, BackAgrees, Fields DEF Sound
  <1>4. DOMAIN w \subseteq DOMAIN sat.watch \cap received' /\ DOMAIN q = {}
    BY <1>1, <1>2, <1>3 DEF Sound, WatchesTwo
  <1> HIDE DEF b, w, q
  <1>5. a = IF IsLiteral(f) THEN WithoutFirst(sat.assumptions, x) ELSE sat.assumptions
    BY <1>3
  <1> HIDE DEF a, x, kept
  <1>6. sat'.watch = w /\ sat'.trail = q /\ sat'.assumptions = a /\ sat'.ok
    BY ONLY <1>1, <1>3 DEF State
  <1>7. Founded(M, received, sat.assumptions)
    BY <1>1 DEF Lasts
  <1>8. Founded(M, received', a)
    <2>1. CASE ~IsLiteral(f)
      BY <1>1, <1>5, <1>7, <2>1 DEF Founded, IsLiteral
    <2>2. CASE IsLiteral(f)
      <3> DEFINE p == sat.assumptions
      <3>1. Without(p, x, a) /\ Len(p) \in Nat /\ DOMAIN p = 1 .. Len(p)
        BY <1>2, <1>3, <1>5, <2>2, WithoutFirstIs
      <3>2. PICK i \in DOMAIN p : /\ p[i] = x /\ DOMAIN a = 1 .. Len(p) - 1
                                  /\ \A k \in 1 .. Len(p) - 1 : a[k] = IF k <= i - 1 THEN p[k] ELSE p[k + 1]
        BY <3>1 DEF Without
      <3> DEFINE of(k) == IF k <= i - 1 THEN k ELSE k + 1
      <3>3. \A k \in DOMAIN a : of(k) \in DOMAIN p /\ of(k) # i /\ a[k] = p[of(k)] /\ \A m \in DOMAIN a : of(m) = of(k) => m = k
        BY <3>1, <3>2
      <3> HIDE DEF of, p
      <3>4. Founded(M, received, p)
        BY <1>7 DEF p
      <3>5. ASSUME NEW k \in DOMAIN a, a[k] \notin M PROVE {a[k]} \in received' /\ Alone(a, k)
        <4>1. {a[k]} \in received /\ Alone(p, of(k))
          BY <3>3, <3>4, <3>5 DEF Founded
        <4>2. p[of(k)] # x /\ Alone(a, k)
          BY <3>2, <3>3, <4>1 DEF Alone
        <4> QED BY <1>1, <1>2, <2>2, <3>3, <4>1, <4>2
      <3> QED BY <3>5 DEF Founded
    <2> QED BY <2>1, <2>2
  <1>9. ASSUME \A g \in received' : g \cap M # {} PROVE Right(M)'
    <2>1. \A i \in DOMAIN a : a[i] \in M
      BY <1>8, <1>9 DEF Founded
    <2> QED BY <1>1, <1>4, <1>6, <1>9, <2>1 DEF Right, Agrees
  <1> QED BY <1>6, <1>8, <1>9 DEF Lasts

-----------------------------------------------------------------------------
(* Whatever satisfies what is received and the theory satisfies all that    *)
(* the search has made of it; and which assumptions are there for what is   *)
(* received, so that this is still so when a formula is removed.            *)
Traced ==
    /\ \A M \in Models(received) : Right(M)
    /\ \A M : Sense(M) => Lasts(M, received, sat)
MInv == Sober => Traced
XInv == NotYet({"again", "dropped"}) /\ "excluded" \in history => Warned

LEMMA SearchOnly ==
  ASSUME Search
  PROVE  received' = received /\ pc # "idle"
  <1>1. /\ \A s, result : Finish(s, result) => received' = received
        /\ \A s : Continue(s) => received' = received
    BY DEF Finish, Continue
  <1>2. \A r : Stored(r) => received' = received
    BY <1>1 DEF Stored
  <1>3. CASE Theory \/ Exclude
    BY <1>2, <1>3, Zenon DEF Theory, Exclude, Excludable, Propagated
  <1>4. CASE ~(Theory \/ Exclude)
    BY <1>1, <1>4, Zenon DEF Search, Dequeue, Visit, Skip, Rewatch, Propagate, FoundConflict, NoTheory, Assume, AssumptionFails,
                             Decide, AnswerSat, Restart, ConflictAtRoot, HandleConflict, Propagated
  <1> QED BY <1>3, <1>4

(* At any time every model of what is received satisfies each clause and    *)
(* each entry of level 0, and the search has not answered UNSAT.            *)
THEOREM ModelsKept == Spec => []MInv
  <1>1. Init => MInv
    BY DEF Init, MInv, Traced, Right, Agrees, Lasts, Founded
  <1>2. IInv /\ IInv' /\ MInv /\ [Next]_vars => MInv'
    <2>1. SUFFICES ASSUME IInv, IInv', MInv, [Next]_vars, Sober' PROVE Traced'
      BY DEF MInv
    <2>2. Good /\ Traced /\ ~Exclude /\ "dropped" \notin history' /\ "fixed" \notin history'
      BY <2>1, HistoryGrows DEF IInv, MInv, Good, Sober, NotYet, Exclude, Note
    <2>3. ASSUME NEW f, AddCore(f) PROVE Traced'
      <3>1. received' = received \cup {f}
        BY <2>3 DEF AddCore
      <3>2. ASSUME NEW M \in Models(received') PROVE Sense(M) /\ f \cap M # {} /\ M \in Models(received)
        <4>1. Sense(M) /\ f \cap M # {}
          BY <3>1, ModelIs
        <4> QED BY <3>1, <4>1 DEF Models, Satisfies
      <3> QED BY <2>2, <2>3, <3>2, AddCoreKeeps DEF Traced
    <2>4. ASSUME NEW f, RemoveCore(f) PROVE Traced'
      BY <2>2, <2>4, ModelIs, RemoveCoreKeeps DEF Traced
    <2>5. CASE CheckCore
      <3>1. received' = received /\ (sat' = sat \/ sat' = [sat EXCEPT !.consistent = "SAT"]) /\ sat \in State
        BY <2>2, <2>5 DEF CheckCore, Good, Sound
      <3>2. sat'.trail = sat.trail /\ sat'.assumptions = sat.assumptions
        BY ONLY <3>1 DEF State
      <3> QED BY <2>2, <2>5, <3>1, <3>2, CheckCoreRight DEF Traced, Lasts, Rooted
    <2>6. CASE Search
      <3>1. ASSUME NEW M, Sense(M) PROVE Lasts(M, received', sat')
        BY <2>2, <2>6, <3>1, SearchOnly, SearchLasts DEF Traced
      <3>2. ASSUME NEW M \in Models(received') PROVE Right(M)'
        BY <2>1, <2>2, <2>6, <3>2, SearchOnly, SearchRight, ModelIs DEF Traced
      <3> QED BY <3>1, <3>2 DEF Traced
    <2>7. CASE UNCHANGED vars
      BY <2>2, <2>7 DEF Traced, Right, vars
    <2> QED BY <2>1, <2>3, <2>4, <2>5, <2>6, <2>7 DEF Next, Rest, User
  <1> QED BY <1>1, <1>2, Invariance, PTL DEF Spec

(* Until checkCore() is called again, an exclusion is remembered, and the   *)
(* answer is UNKNOWN where it would be UNSAT.                               *)
THEOREM ExclusionsRemembered == Spec => []XInv
  <1>1. Init => XInv
    BY DEF Init, XInv
  <1>2. IInv /\ XInv /\ [Next]_vars => XInv'
    <2>1. SUFFICES ASSUME IInv, XInv, [Next]_vars, NotYet({"again", "dropped"})', "excluded" \in history' PROVE Warned'
      BY DEF XInv
    <2>2. Good /\ "dropped" \notin history' /\ "again" \notin history' /\ (Exclude \/ "excluded" \notin history \/ Warned)
      BY <2>1, HistoryGrows DEF IInv, Good, NotYet, XInv
    <2>3. "excluded" \in history \/ Exclude
      <3>1. \A tag, when : tag # "excluded" => "excluded" \notin Tag(tag, when)
        BY DEF Tag
      <3>2. CASE User
        BY <2>1, <3>1, <3>2 DEF User, AddCore, RemoveCore, CheckCore, Note
      <3>3. CASE Search
        BY <2>1, <3>1, <3>3, Zenon DEF Search, Dequeue, Visit, Skip, Rewatch, Propagate, FoundConflict,
                  NoTheory, Theory, Assume, AssumptionFails, Decide, AnswerSat, Restart, ConflictAtRoot, HandleConflict, Note
      <3> QED BY <2>1, <3>2, <3>3 DEF Next, Rest, vars
    <2>4. CASE User
      BY <2>2, <2>3, <2>4 DEF User, AddCore, RemoveCore, CheckCore, Exclude, Excludable, Note, Tag, Warned
    <2>5. CASE Search
      BY <2>2, <2>3, <2>5, SearchOnly, SearchWarned DEF Warned
    <2>6. CASE UNCHANGED vars
      BY <2>2, <2>3, <2>6, <2>5 DEF Warned, vars, Search
    <2> QED BY <2>1, <2>4, <2>5, <2>6 DEF Next, Rest
  <1> QED BY <1>1, <1>2, Invariance, PTL DEF Spec

(* When checkCore() answers UNSAT, no valuation that the theory accepts     *)
(* satisfies every formula received.                                       *)
THEOREM UnsatCorrect == Spec => []UnsatRight
  <1>1. MInv /\ XInv => UnsatRight
    BY DEF MInv, XInv, Traced, Right, Sober, Warned, UnsatRight, NotYet
  <1> QED BY <1>1, ModelsKept, ExclusionsRemembered, PTL

(* analyze() and its minimisation learn consequences of what is received:   *)
(* learnt clauses, and literals fixed on level 0.                           *)
THEOREM LearntCorrect == Spec => []LearntImplied
  <1>1. ASSUME IInv, MInv, Sober, NEW M \in Models(received)
        PROVE  (\A C \in sat.learnts : C \cap M # {}) /\ \A e \in Entries(sat) : e.level = 0 => e.lit \in M
    <2>1. Sound(sat) /\ Agrees(M, sat) /\ Len(sat.assumptions) \in Nat
      BY <1>1, Fields DEF IInv, MInv, Traced, Right, Sober, NotYet, Sound
    <2> QED BY <2>1 DEF Sound, WatchesTwo, Agrees, EntryAgrees, Entries
  <1>2. IInv /\ MInv => LearntImplied
    BY <1>1 DEF LearntImplied, Implied, Sober
  <1> QED BY <1>2, Invariance, ModelsKept, PTL

====
