-------------------------- MODULE UnionFind_proofs --------------------------
(***************************************************************************)
(* Safety of UnionFindModule for any finite set of variables and any       *)
(* equalities over them, whatever was added, removed and compressed.       *)
(***************************************************************************)
EXTENDS UnionFind, FiniteSetTheorems, SequenceTheorems, TLAPS

-----------------------------------------------------------------------------
(* Induction over numbers and over parents.  The library's induction       *)
(* theorems take a predicate; that every nonempty set of numbers has a     *)
(* least one does without, and follows from the well-foundedness of        *)
(* finite sets.                                                            *)
LEMMA LeastNatural ==
  ASSUME NEW X, X \subseteq Nat, X # {}
  PROVE  \E m \in X : \A n \in X : m <= n
  <1> DEFINE T == {1 .. n : n \in X}
  <1>1. T \subseteq FiniteSubsetsOf(Nat) /\ T # {}
    <2>1. \A n \in X : IsFiniteSet(1 .. n) /\ 1 .. n \subseteq Nat
      BY FS_Interval
    <2> QED BY <2>1 DEF FiniteSubsetsOf
  <1>2. IsWellFoundedOn(StrictSubsetOrdering(Nat), FiniteSubsetsOf(Nat))
    BY FS_StrictSubsetOrderingWellFounded
  <1>3. PICK A \in T : \A B \in T : ~(<<B, A>> \in StrictSubsetOrdering(Nat))
    <2> HIDE DEF T
    <2> QED BY <1>1, <1>2, WFMin
  <1>4. PICK m \in X : A = 1 .. m
    OBVIOUS
  <1>5. ASSUME NEW n \in X, n < m PROVE FALSE
    <2>1. 1 .. n \in T /\ 1 .. n \subseteq 1 .. m /\ m \notin 1 .. n /\ m \in 1 .. m
      BY <1>5
    <2>2. 1 .. n # 1 .. m
      BY <2>1
    <2>3. 1 .. n \subseteq Nat /\ 1 .. m \subseteq Nat
      OBVIOUS
    <2>4. <<1 .. n, 1 .. m>> \in StrictSubsetOrdering(Nat)
      BY <2>1, <2>2, <2>3 DEF StrictSubsetOrdering
    <2> QED BY <1>3, <1>4, <2>1, <2>4
  <1>6. \A n \in X : m <= n
    BY <1>5
  <1> QED BY <1>6

LEMMA NumbersFrom0 ==
  ASSUME NEW S, 0 \in S, \A n \in Nat : n \in S => n + 1 \in S
  PROVE  Nat \subseteq S
  <1> SUFFICES ASSUME Nat \ S # {} PROVE FALSE
    OBVIOUS
  <1>1. PICK m \in Nat \ S : \A n \in Nat \ S : m <= n
    BY LeastNatural
  <1>2. m # 0
    OBVIOUS
  <1>3. m - 1 \in Nat /\ m - 1 \notin Nat \ S
    BY <1>1, <1>2
  <1>4. m \in S
    BY <1>3
  <1> QED BY <1>4

-----------------------------------------------------------------------------
(* find() in a forest.                                                     *)

(* Ranks grow along parents and are bounded.                               *)
Forest(p, r, D) ==
    /\ p \in [D -> D] /\ r \in [D -> Nat]
    /\ \A i \in D : p[i] # i => r[i] < r[p[i]]
    /\ \E b \in Nat : \A i \in D : r[i] <= b

(* What holds of an index if it holds of all indices of higher rank holds  *)
(* of all.                                                                 *)
LEMMA RankInduction ==
  ASSUME NEW D, NEW r \in [D -> Nat], \E b \in Nat : \A i \in D : r[i] <= b, NEW G,
         \A i \in D : (\A j \in D : r[j] > r[i] => j \in G) => i \in G
  PROVE  D \subseteq G
  <1> SUFFICES ASSUME D \ G # {} PROVE FALSE
    OBVIOUS
  <1>1. PICK b \in Nat : \A i \in D : r[i] <= b
    OBVIOUS
  <1> DEFINE X == {b - r[i] : i \in D \ G}
  <1>2. X \subseteq Nat /\ X # {}
    BY <1>1
  <1>3. PICK m \in X : \A n \in X : m <= n
    <2> HIDE DEF X
    <2> QED BY <1>2, LeastNatural
  <1>4. PICK i \in D \ G : m = b - r[i]
    OBVIOUS
  <1>5. ASSUME NEW j \in D, r[j] > r[i], j \notin G PROVE FALSE
    <2>1. b - r[j] \in X
      BY <1>5
    <2>2. b - r[i] <= b - r[j]
      BY <1>3, <1>4, <2>1
    <2> QED BY <1>5, <2>2
  <1> QED BY <1>5

(* The recursion of find() has a solution: the root among the indices that *)
(* every set closed under parents has if it has i.                         *)
LEMMA FindEquation ==
  ASSUME NEW D, NEW p \in [D -> D]
  PROVE  \A i \in D : Find(p, i) = IF p[i] = i THEN i ELSE Find(p, p[i])
  <1> DEFINE Closed(S) == \A j \in S : p[j] \in S
             Roots(i) == {v \in D : p[v] = v /\ \A S \in SUBSET D : i \in S /\ Closed(S) => v \in S}
             g == [i \in D |-> CHOOSE v : v \in Roots(i)]
             Eqn(f) == f = [j \in DOMAIN p |-> IF p[j] = j THEN j ELSE f[p[j]]]
  <1>1. ASSUME NEW i \in D, p[i] = i PROVE g[i] = i
    <2>1. Closed({i}) /\ {i} \in SUBSET D
      BY <1>1
    <2>2. \A v \in Roots(i) : v \in {i}
      BY <2>1
    <2>3. i \in Roots(i)
      BY <1>1
    <2>4. Roots(i) = {i}
      BY <2>2, <2>3
    <2> HIDE DEF Roots
    <2> QED BY <2>4
  <1>2. ASSUME NEW i \in D, p[i] # i PROVE g[i] = g[p[i]]
    <2>1. ASSUME NEW v \in Roots(i) PROVE v \in Roots(p[i])
      <3>1. SUFFICES ASSUME NEW S \in SUBSET D, p[i] \in S, Closed(S) PROVE v \in S
        OBVIOUS
      <3>2. Closed(S \cup {i}) /\ S \cup {i} \in SUBSET D
        BY <3>1
      <3>3. v \in S \cup {i} /\ p[v] = v
        BY <3>2
      <3> QED BY <1>2, <3>3
    <2>2. ASSUME NEW v \in Roots(p[i]) PROVE v \in Roots(i)
      OBVIOUS
    <2>3. Roots(i) = Roots(p[i])
      BY <2>1, <2>2
    <2>4. p[i] \in D
      OBVIOUS
    <2> HIDE DEF Roots
    <2> QED BY <2>3, <2>4
  <1>3. Eqn(g)
    <2>1. ASSUME NEW i \in D PROVE g[i] = IF p[i] = i THEN i ELSE g[p[i]]
      <3> HIDE DEF g
      <3> QED BY <1>1, <1>2
    <2>2. g = [i \in D |-> g[i]]
      OBVIOUS
    <2> HIDE DEF g
    <2> QED BY <2>1, <2>2
  <1> DEFINE f == CHOOSE h : Eqn(h)
  <1>4. Eqn(f)
    <2> HIDE DEF g, Eqn
    <2> QED BY <1>3
  <1>5. \A i : Find(p, i) = f[i]
    BY DEF Find
  <1>6. \A i \in D : f[i] = IF p[i] = i THEN i ELSE f[p[i]]
    <2>1. \A h : Eqn(h) => \A i \in D : h[i] = IF p[i] = i THEN i ELSE h[p[i]]
      OBVIOUS
    <2> HIDE DEF f, Eqn
    <2> QED BY <1>4, <2>1
  <1> HIDE DEF f
  <1> QED BY <1>5, <1>6

(* find() ends at a root, and only a root is its own root.                 *)
LEMMA FindRoot ==
  ASSUME NEW D, NEW p, NEW r, Forest(p, r, D)
  PROVE  \A i \in D : /\ Find(p, i) \in D /\ p[Find(p, i)] = Find(p, i)
                      /\ Find(p, Find(p, i)) = Find(p, i)
  <1> DEFINE G == {i \in D : Find(p, i) \in D /\ p[Find(p, i)] = Find(p, i)}
  <1>1. p \in [D -> D] /\ r \in [D -> Nat] /\ \E b \in Nat : \A i \in D : r[i] <= b
    BY DEF Forest
  <1>2. \A i \in D : Find(p, i) = IF p[i] = i THEN i ELSE Find(p, p[i])
    BY <1>1, FindEquation
  <1>3. ASSUME NEW i \in D, \A j \in D : r[j] > r[i] => j \in G PROVE i \in G
    <2>1. CASE p[i] = i
      BY <1>2, <2>1
    <2>2. CASE p[i] # i
      <3>1. p[i] \in D /\ r[p[i]] > r[i]
        BY <1>1, <2>2 DEF Forest
      <3>2. p[i] \in G
        BY <1>3, <3>1
      <3> QED BY <1>2, <2>2, <3>2
    <2> QED BY <2>1, <2>2
  <1>4. D \subseteq G
    <2> HIDE DEF G
    <2> QED BY <1>1, <1>3, RankInduction
  <1> QED BY <1>2, <1>4

(* Two functions of parents find the same roots if one shortcuts the other *)
(* (path compression).                                                     *)
LEMMA CompressedFinds ==
  ASSUME NEW D, NEW p, NEW r, Forest(p, r, D), NEW S
  PROVE  /\ Forest(Compressed(p, S), r, D)
         /\ \A i \in D : Find(Compressed(p, S), i) = Find(p, i)
  <1> DEFINE q == Compressed(p, S)
  <1>1. /\ p \in [D -> D] /\ r \in [D -> Nat] /\ \E b \in Nat : \A i \in D : r[i] <= b
        /\ \A i \in D : p[i] # i => r[i] < r[p[i]]
    BY DEF Forest
  <1>2. \A i \in D : Find(p, i) = IF p[i] = i THEN i ELSE Find(p, p[i])
    BY <1>1, FindEquation
  <1>3. \A i \in D : /\ Find(p, i) \in D /\ p[Find(p, i)] = Find(p, i)
                     /\ Find(p, Find(p, i)) = Find(p, i)
    BY FindRoot
  <1>4. q \in [D -> D] /\ \A i \in D : q[i] = p[i] \/ q[i] = Find(p, i)
    BY <1>1, <1>3 DEF Compressed
  <1> DEFINE H == {i \in D : r[i] <= r[Find(p, i)] /\ (p[i] # i => r[i] < r[Find(p, i)])}
  <1>5. D \subseteq H
    <2>1. ASSUME NEW i \in D, \A j \in D : r[j] > r[i] => j \in H PROVE i \in H
      <3>1. CASE p[i] = i
        BY <1>1, <1>2, <3>1
      <3>2. CASE p[i] # i
        <4>1. p[i] \in D /\ r[p[i]] > r[i] /\ Find(p, i) = Find(p, p[i])
          BY <1>1, <1>2, <3>2
        <4>2. p[i] \in H
          BY <2>1, <4>1
        <4>3. r[i] \in Nat /\ r[p[i]] \in Nat /\ r[Find(p, i)] \in Nat
          BY <1>1, <1>3, <4>1
        <4> QED BY <4>1, <4>2, <4>3
      <3> QED BY <3>1, <3>2
    <2> HIDE DEF H
    <2> QED BY <1>1, <2>1, RankInduction
  <1>6. \A i \in D : q[i] = i <=> p[i] = i
    BY <1>2, <1>3, <1>4
  <1>7. \A i \in D : q[i] # i => r[i] < r[q[i]]
    BY <1>1, <1>4, <1>5, <1>6
  <1>8. Forest(q, r, D)
    <2> HIDE DEF q
    <2> QED BY <1>1, <1>4, <1>7 DEF Forest
  <1>9. \A i \in D : Find(q, i) = IF q[i] = i THEN i ELSE Find(q, q[i])
    <2> HIDE DEF q
    <2> QED BY <1>4, FindEquation
  <1> DEFINE G == {i \in D : Find(q, i) = Find(p, i)}
  <1>10. D \subseteq G
    <2>1. ASSUME NEW i \in D, \A j \in D : r[j] > r[i] => j \in G PROVE i \in G
      <3> HIDE DEF q
      <3>1. CASE p[i] = i
        BY <1>2, <1>6, <1>9, <3>1
      <3>2. CASE p[i] # i
        <4>1. q[i] \in D /\ q[i] # i /\ r[q[i]] > r[i]
          BY <1>4, <1>6, <1>7, <3>2
        <4>2. Find(q, q[i]) = Find(p, q[i])
          BY <2>1, <4>1
        <4>3. Find(p, q[i]) = Find(p, i)
          BY <1>2, <1>3, <1>4, <3>2
        <4> QED BY <1>9, <4>1, <4>2, <4>3
      <3> QED BY <3>1, <3>2
    <2> HIDE DEF G, q
    <2> QED BY <1>1, <2>1, RankInduction
  <1> QED BY <1>8, <1>10

(* One root is hung under another, whose rank is or becomes higher.        *)
LEMMA Hung ==
  ASSUME NEW D, NEW p, NEW r, Forest(p, r, D), NEW o \in D, NEW w \in D, o # w,
         p[o] = o, p[w] = w, NEW s \in [D -> Nat], r[o] < s[w], r[w] <= s[w],
         \A i \in D : i # w => s[i] = r[i],
         NEW q \in [D -> D], q[o] = w, \A i \in D : i # o => q[i] = p[i]
  PROVE  /\ Forest(q, s, D)
         /\ \A i \in D : Find(q, i) = IF Find(p, i) = o THEN w ELSE Find(p, i)
  <1>1. /\ p \in [D -> D] /\ r \in [D -> Nat]
        /\ \A i \in D : p[i] # i => r[i] < r[p[i]]
    BY DEF Forest
  <1>2. \A i \in D : Find(p, i) = IF p[i] = i THEN i ELSE Find(p, p[i])
    BY <1>1, FindEquation
  <1>3. q[o] = w /\ \A i \in D \ {o} : q[i] = p[i]
    OBVIOUS
  <1>4. \E b \in Nat : \A i \in D : s[i] <= b
    <2>1. PICK b \in Nat : \A i \in D : r[i] <= b
      BY DEF Forest
    <2>2. \A i \in D : s[i] <= b + s[w]
      BY <1>1, <2>1
    <2>3. b + s[w] \in Nat
      OBVIOUS
    <2> QED BY <2>2, <2>3
  <1>5. ASSUME NEW i \in D, q[i] # i PROVE s[i] < s[q[i]]
    <2>1. CASE i = o
      BY <1>3, <2>1
    <2>2. CASE i # o
      <3>1. q[i] = p[i] /\ r[i] < r[p[i]] /\ i # w /\ s[i] = r[i] /\ p[i] \in D
        BY <1>1, <1>3, <1>5, <2>2
      <3>2. r[p[i]] <= s[p[i]]
        BY <1>1, <3>1
      <3>3. r[i] \in Nat /\ r[p[i]] \in Nat /\ s[p[i]] \in Nat
        BY <1>1, <3>1
      <3> QED BY <3>1, <3>2, <3>3
    <2> QED BY <2>1, <2>2
  <1>6. Forest(q, s, D)
    BY <1>3, <1>4, <1>5 DEF Forest
  <1>7. \A i \in D : Find(q, i) = IF q[i] = i THEN i ELSE Find(q, q[i])
    BY <1>3, FindEquation
  <1> DEFINE G == {i \in D : Find(q, i) = IF Find(p, i) = o THEN w ELSE Find(p, i)}
  <1>8. ASSUME NEW i \in D, \A j \in D : s[j] > s[i] => j \in G PROVE i \in G
    <2>1. CASE i = o
      BY <1>2, <1>3, <1>7, <2>1
    <2>2. CASE i # o /\ p[i] = i
      BY <1>2, <1>3, <1>7, <2>2
    <2>3. CASE i # o /\ p[i] # i
      <3>1. q[i] = p[i] /\ q[i] \in D
        BY <1>3, <2>3
      <3>2. s[i] < s[q[i]]
        BY <1>5, <2>3, <3>1
      <3>3. q[i] \in G
        BY <1>8, <3>1, <3>2
      <3>4. Find(q, i) = Find(q, q[i]) /\ Find(p, i) = Find(p, q[i])
        BY <1>2, <1>7, <2>3, <3>1
      <3> QED BY <3>3, <3>4
    <2> QED BY <2>1, <2>2, <2>3
  <1>9. D \subseteq G
    <2> HIDE DEF G
    <2> QED BY <1>4, <1>8, RankInduction
  <1> QED BY <1>6, <1>9

(* What merge() does to the classes: those of the two roots become one.    *)
LEMMA LinkedFinds ==
  ASSUME NEW D, NEW p, NEW r, Forest(p, r, D), NEW a \in D, NEW b \in D, p[a] = a, p[b] = b
  PROVE  LET new == Linked(p, r, a, b)
         IN  /\ Forest(new.parents, new.ranks, D)
             /\ \A i, j \in D :
                    Find(new.parents, i) = Find(new.parents, j) <=>
                      \/ Find(p, i) = Find(p, j)
                      \/ Find(p, i) = a /\ Find(p, j) = b
                      \/ Find(p, i) = b /\ Find(p, j) = a
  <1>1. p \in [D -> D] /\ r \in [D -> Nat]
    BY DEF Forest
  <1>2. CASE a = b
    BY <1>2 DEF Linked
  <1>3. CASE a # b /\ r[a] > r[b]
    <2> DEFINE q == [p EXCEPT ![b] = a]
    <2>1. Linked(p, r, a, b) = [parents |-> q, ranks |-> r]
      BY <1>1, <1>3 DEF Linked
    <2>2. r[b] < r[a] /\ r[a] <= r[a] /\ \A i \in D : i # a => r[i] = r[i]
      BY <1>1, <1>3
    <2>3. q \in [D -> D] /\ q[b] = a /\ \A i \in D : i # b => q[i] = p[i]
      BY <1>1
    <2>4. Forest(q, r, D) /\ \A i \in D : Find(q, i) = IF Find(p, i) = b THEN a ELSE Find(p, i)
      <3> HIDE DEF q
      <3> QED BY <1>1, <1>3, <2>2, <2>3, Hung
    <2> HIDE DEF q
    <2> QED BY <2>1, <2>4
  <1>4. CASE a # b /\ r[a] < r[b]
    <2> DEFINE q == [p EXCEPT ![a] = b]
    <2>1. Linked(p, r, a, b) = [parents |-> q, ranks |-> r]
      BY <1>1, <1>4 DEF Linked
    <2>2. r[a] < r[b] /\ r[b] <= r[b] /\ \A i \in D : i # b => r[i] = r[i]
      BY <1>1, <1>4
    <2>3. q \in [D -> D] /\ q[a] = b /\ \A i \in D : i # a => q[i] = p[i]
      BY <1>1
    <2>4. Forest(q, r, D) /\ \A i \in D : Find(q, i) = IF Find(p, i) = a THEN b ELSE Find(p, i)
      <3> HIDE DEF q
      <3> QED BY <1>1, <1>4, <2>2, <2>3, Hung
    <2> HIDE DEF q
    <2> QED BY <2>1, <2>4
  <1>5. CASE a # b /\ r[a] = r[b]
    <2> DEFINE q == [p EXCEPT ![b] = a]
               s == [r EXCEPT ![a] = @ + 1]
    <2>1. Linked(p, r, a, b) = [parents |-> q, ranks |-> s]
      BY <1>1, <1>5 DEF Linked
    <2>2. /\ s \in [D -> Nat] /\ r[b] < s[a] /\ r[a] <= s[a]
          /\ \A i \in D : i # a => s[i] = r[i]
      BY <1>1, <1>5
    <2>3. q \in [D -> D] /\ q[b] = a /\ \A i \in D : i # b => q[i] = p[i]
      BY <1>1
    <2>4. Forest(q, s, D) /\ \A i \in D : Find(q, i) = IF Find(p, i) = b THEN a ELSE Find(p, i)
      <3> HIDE DEF q, s
      <3> QED BY <1>1, <1>5, <2>2, <2>3, Hung
    <2> HIDE DEF q, s
    <2> QED BY <2>1, <2>4
  <1>6. r[a] > r[b] \/ r[a] < r[b] \/ r[a] = r[b]
    BY <1>1
  <1> QED BY <1>2, <1>3, <1>4, <1>5, <1>6

-----------------------------------------------------------------------------
(* What a version holds.                                                   *)

(* Indices are handed out from 0 on.                                       *)
Rooms == {D \in SUBSET Index : \A i \in D : 0 .. i \subseteq D}

Version ==
    UNION {[merged : Index \X Index, parents : [D -> D], ranks : [D -> Nat]] : D \in Rooms}

(* Connected, for elements of any set U.                                   *)
ConnectedIn(U, E, x, y) ==
    \A S \in SUBSET U : x \in S /\ (\A e \in E : e \cap S = {} \/ e \subseteq S) => y \in S

(* The classes of the version are those the edges E make.                  *)
Holds(v, E) ==
    LET D == DOMAIN v.parents
    IN  /\ Forest(v.parents, v.ranks, D) /\ E \subseteq SUBSET D
        /\ \A i, j \in D : Find(v.parents, i) = Find(v.parents, j) <=> ConnectedIn(Index, E, i, j)

LEMMA VersionType ==
  ASSUME NEW v
  PROVE  v \in Version <=> /\ v = [merged |-> v.merged, parents |-> v.parents, ranks |-> v.ranks]
                           /\ v.merged \in Index \X Index
                           /\ DOMAIN v.parents \in Rooms /\ DOMAIN v.parents \subseteq Index
                           /\ v.parents \in [DOMAIN v.parents -> DOMAIN v.parents]
                           /\ v.ranks \in [DOMAIN v.parents -> Nat]
  <1>1. ASSUME v \in Version
        PROVE  /\ v = [merged |-> v.merged, parents |-> v.parents, ranks |-> v.ranks]
               /\ v.merged \in Index \X Index
               /\ DOMAIN v.parents \in Rooms /\ DOMAIN v.parents \subseteq Index
               /\ v.parents \in [DOMAIN v.parents -> DOMAIN v.parents]
               /\ v.ranks \in [DOMAIN v.parents -> Nat]
    <2>1. PICK D \in Rooms :
              v \in [merged : Index \X Index, parents : [D -> D], ranks : [D -> Nat]]
      BY <1>1 DEF Version
    <2>2. DOMAIN v.parents = D /\ D \subseteq Index
      BY <2>1 DEF Rooms
    <2> QED BY <2>1, <2>2
  <1>2. ASSUME v = [merged |-> v.merged, parents |-> v.parents, ranks |-> v.ranks],
               v.merged \in Index \X Index, DOMAIN v.parents \in Rooms,
               v.parents \in [DOMAIN v.parents -> DOMAIN v.parents],
               v.ranks \in [DOMAIN v.parents -> Nat]
        PROVE  v \in Version
    <2> DEFINE D == DOMAIN v.parents
    <2>1. D \in Rooms /\ v \in [merged : Index \X Index, parents : [D -> D], ranks : [D -> Nat]]
      BY <1>2
    <2> HIDE DEF D
    <2> QED BY <2>1 DEF Version
  <1> QED BY <1>1, <1>2

-----------------------------------------------------------------------------
(* Connection is an equivalence, and what one more edge connects.          *)
LEMMA Equivalence ==
  ASSUME NEW U, NEW E \in SUBSET SUBSET U
  PROVE  /\ \A x \in U : ConnectedIn(U, E, x, x)
         /\ \A x, y \in U : ConnectedIn(U, E, x, y) => ConnectedIn(U, E, y, x)
         /\ \A x, y, z \in U :
               ConnectedIn(U, E, x, y) /\ ConnectedIn(U, E, y, z) => ConnectedIn(U, E, x, z)
  <1>1. ASSUME NEW x \in U, NEW y \in U, ConnectedIn(U, E, x, y) PROVE ConnectedIn(U, E, y, x)
    <2>1. SUFFICES ASSUME NEW S \in SUBSET U, y \in S, x \notin S,
                          \A e \in E : e \cap S = {} \/ e \subseteq S
                   PROVE  FALSE
      BY DEF ConnectedIn
    <2>2. \A e \in E : e \cap (U \ S) = {} \/ e \subseteq U \ S
      BY <2>1
    <2>3. y \in U \ S
      BY <1>1, <2>1, <2>2 DEF ConnectedIn
    <2> QED BY <2>1, <2>3
  <1> QED BY <1>1 DEF ConnectedIn

(* The elements connected to x are a set no edge leaves.                   *)
Component(U, E, x) == {y \in U : ConnectedIn(U, E, x, y)}

LEMMA ComponentClosed ==
  ASSUME NEW U, NEW E \in SUBSET SUBSET U, NEW x \in U
  PROVE  \A e \in E : e \cap Component(U, E, x) = {} \/ e \subseteq Component(U, E, x)
  <1>1. SUFFICES ASSUME NEW e \in E, NEW c \in e, c \in Component(U, E, x), NEW d \in e
                 PROVE  d \in Component(U, E, x)
    OBVIOUS
  <1>2. SUFFICES ASSUME NEW S \in SUBSET U, x \in S, \A h \in E : h \cap S = {} \/ h \subseteq S
                 PROVE  d \in S
    BY DEF Component, ConnectedIn
  <1>3. c \in S
    BY <1>1, <1>2 DEF Component, ConnectedIn
  <1> QED BY <1>1, <1>2, <1>3

LEMMA OneMoreEdge ==
  ASSUME NEW U, NEW E \in SUBSET SUBSET U, NEW a \in U, NEW b \in U, NEW x \in U, NEW y \in U
  PROVE  ConnectedIn(U, E \cup {{a, b}}, x, y) <=>
            \/ ConnectedIn(U, E, x, y)
            \/ ConnectedIn(U, E, x, a) /\ ConnectedIn(U, E, b, y)
            \/ ConnectedIn(U, E, x, b) /\ ConnectedIn(U, E, a, y)
  <1> DEFINE C(u, v) == ConnectedIn(U, E, u, v)
             K(u) == Component(U, E, u)
  <1>1. ASSUME C(x, y) \/ (C(x, a) /\ C(b, y)) \/ (C(x, b) /\ C(a, y))
        PROVE  ConnectedIn(U, E \cup {{a, b}}, x, y)
    <2>1. SUFFICES ASSUME NEW S \in SUBSET U, x \in S,
                          \A e \in E \cup {{a, b}} : e \cap S = {} \/ e \subseteq S
                   PROVE  y \in S
      BY DEF ConnectedIn
    <2>2. a \in S <=> b \in S
      <3>1. {a, b} \cap S = {} \/ {a, b} \subseteq S
        BY <2>1
      <3> QED BY <3>1
    <2>3. \A e \in E : e \cap S = {} \/ e \subseteq S
      BY <2>1
    <2>4. \A u, v \in U : u \in S /\ C(u, v) => v \in S
      BY <2>3 DEF ConnectedIn
    <2> QED BY <1>1, <2>1, <2>2, <2>4
  <1>2. ASSUME ConnectedIn(U, E \cup {{a, b}}, x, y)
        PROVE  C(x, y) \/ (C(x, a) /\ C(b, y)) \/ (C(x, b) /\ C(a, y))
    <2> DEFINE S == {v \in U : \/ C(x, v)
                               \/ C(x, a) /\ C(b, v)
                               \/ C(x, b) /\ C(a, v)}
    <2>1. \A u, v \in U : v \in K(u) <=> C(u, v)
      BY DEF Component
    <2>2. \A u \in U : \A e \in E : e \cap K(u) = {} \/ e \subseteq K(u)
      BY ComponentClosed
    <2>3. ASSUME NEW e \in E, NEW c \in e, c \in S, NEW d \in e PROVE d \in S
      <3>1. c \in U /\ d \in U
        OBVIOUS
      <3>2. \A u \in U : C(u, c) => C(u, d)
        <4> HIDE DEF C
        <4> QED BY <2>1, <2>2, <3>1
      <3> HIDE DEF C
      <3> QED BY <2>3, <3>1, <3>2
    <2>4. \A u \in U : C(u, u)
      BY Equivalence
    <2>5. a \in S <=> b \in S
      <3> HIDE DEF C
      <3>1. a \in S => C(x, a) \/ C(x, b)
        OBVIOUS
      <3>2. b \in S => C(x, a) \/ C(x, b)
        OBVIOUS
      <3>3. C(x, a) \/ C(x, b) => a \in S /\ b \in S
        BY <2>4
      <3> QED BY <3>1, <3>2, <3>3
    <2>6. \A e \in E \cup {{a, b}} : e \cap S = {} \/ e \subseteq S
      <3> HIDE DEF S
      <3> QED BY <2>3, <2>5
    <2>7. x \in S /\ S \in SUBSET U
      BY <2>4
    <2>8. y \in S
      <3> HIDE DEF S
      <3> QED BY <1>2, <2>6, <2>7 DEF ConnectedIn
    <2> QED BY <2>8
  <1> QED BY <1>1, <1>2

-----------------------------------------------------------------------------
(* How the operations on the newest version keep what it holds.            *)
LEMMA IndexType == Cardinality(Var) \in Nat /\ Index \subseteq Nat /\ 0 \in Index
  BY UnionFindAssumption, FS_CardinalityType DEF Index

(* New indices are classes of their own.                                   *)
LEMMA ResizedHolds ==
  ASSUME NEW v \in Version, NEW E, Holds(v, E), NEW size \in Index
  PROVE  /\ Resized(v, size) \in Version /\ Holds(Resized(v, size), E)
         /\ Resized(v, size).merged = v.merged
         /\ DOMAIN Resized(v, size).parents = DOMAIN v.parents \cup 0 .. size
  <1> DEFINE D == DOMAIN v.parents
             room == D \cup 0 .. size
             p == v.parents
             q == [i \in room |-> IF i \in D THEN p[i] ELSE i]
             r == v.ranks
             s == [i \in room |-> CASE i \in D -> r[i]
                                    [] D = {} /\ i = 0 -> size + 1
                                    [] OTHER -> 0]
  <1>1. /\ v = [merged |-> v.merged, parents |-> p, ranks |-> r]
        /\ v.merged \in Index \X Index /\ D \in Rooms /\ D \subseteq Index
        /\ p \in [D -> D] /\ r \in [D -> Nat]
    BY VersionType
  <1>2. size \in Nat /\ 0 .. size \subseteq Index /\ Index \subseteq Nat
    BY IndexType DEF Index
  <1>3. Resized(v, size) = [merged |-> v.merged, parents |-> q, ranks |-> s]
    <2>1. DOMAIN r = D
      BY <1>1
    <2>2. Resized(v, size) = [v EXCEPT !.parents = q, !.ranks = s]
      BY <2>1 DEF Resized, Grown
    <2> HIDE DEF p, q, r, s
    <2> QED BY <1>1, <2>2
  <1>4. q \in [room -> room] /\ (\A i \in D : q[i] = p[i]) /\ (\A i \in room \ D : q[i] = i)
    BY <1>1
  <1>5. s \in [room -> Nat] /\ \A i \in D : s[i] = r[i]
    <2>1. ASSUME NEW i \in room PROVE s[i] \in Nat
      BY <1>1, <1>2
    <2> QED BY <1>1, <2>1
  <1>6. Forest(p, r, D) /\ E \subseteq SUBSET D
        /\ \A i, j \in D : Find(p, i) = Find(p, j) <=> ConnectedIn(Index, E, i, j)
    BY DEF Holds
  <1>7. Forest(q, s, room)
    <2>1. ASSUME NEW i \in room, q[i] # i PROVE s[i] < s[q[i]]
      <3> HIDE DEF p, q, r, s
      <3>1. i \in D /\ q[i] = p[i] /\ p[i] \in D
        BY <1>1, <1>4, <2>1
      <3> QED BY <1>5, <1>6, <2>1, <3>1 DEF Forest
    <2>2. \E b \in Nat : \A i \in room : s[i] <= b
      <3>1. PICK b \in Nat : \A i \in D : r[i] <= b
        BY <1>6 DEF Forest
      <3>2. ASSUME NEW i \in room PROVE s[i] <= b + size + 1
        <4>1. CASE i \in D
          BY <1>1, <1>2, <1>5, <3>1, <4>1
        <4>2. CASE i \notin D
          BY <1>2, <4>2
        <4> QED BY <4>1, <4>2
      <3>3. b + size + 1 \in Nat
        BY <1>2
      <3> HIDE DEF s
      <3> QED BY <3>2, <3>3
    <2> HIDE DEF p, q, r, s
    <2> QED BY <1>4, <1>5, <2>1, <2>2 DEF Forest
  <1>8. \A i \in room : Find(q, i) = IF q[i] = i THEN i ELSE Find(q, q[i])
    <2> HIDE DEF q
    <2> QED BY <1>4, FindEquation
  <1>9. \A i \in D : Find(p, i) = IF p[i] = i THEN i ELSE Find(p, p[i])
    BY <1>1, FindEquation
  <1>10. \A i \in D : Find(p, i) \in D
    BY <1>6, FindRoot
  <1> DEFINE G == {i \in D : Find(q, i) = Find(p, i)}
  <1>11. D \subseteq G
    <2> HIDE DEF p, q, r, s
    <2>1. ASSUME NEW i \in D, \A j \in D : r[j] > r[i] => j \in G PROVE i \in G
      <3>1. CASE p[i] = i
        BY <1>4, <1>8, <1>9, <3>1
      <3>2. CASE p[i] # i
        <4>1. p[i] \in D /\ r[p[i]] > r[i]
          BY <1>1, <1>6, <3>2 DEF Forest
        <4>2. p[i] \in G
          BY <2>1, <4>1
        <4> QED BY <1>4, <1>8, <1>9, <3>2, <4>2
      <3> QED BY <3>1, <3>2
    <2>2. r \in [D -> Nat] /\ \E b \in Nat : \A i \in D : r[i] <= b
      BY <1>6 DEF Forest
    <2> HIDE DEF G
    <2> QED BY <2>1, <2>2, RankInduction
  <1>12. \A i \in room \ D : Find(q, i) = i
    <2> HIDE DEF q
    <2> QED BY <1>4, <1>8
  <1> HIDE DEF p, q, r, s
  <1>13. \A i \in room, j \in room \ D :
            i # j => ~ConnectedIn(Index, E, i, j) /\ ~ConnectedIn(Index, E, j, i)
    <2>1. SUFFICES ASSUME NEW i \in room, NEW j \in room \ D, i # j
                   PROVE ~ConnectedIn(Index, E, i, j) /\ ~ConnectedIn(Index, E, j, i)
      OBVIOUS
    <2>2. j \in Index /\ \A e \in E : j \notin e
      BY <1>1, <1>2, <1>6
    <2>3. \A e \in E : e \cap {j} = {}
      BY <2>2
    <2>4. i \in Index \ {j} /\ \A e \in E : e \subseteq Index \ {j}
      BY <1>1, <1>2, <1>6, <2>1, <2>2
    <2> QED BY <2>1, <2>2, <2>3, <2>4 DEF ConnectedIn
  <1>14. \A i \in room : ConnectedIn(Index, E, i, i)
    BY DEF ConnectedIn
  <1>15. \A i, j \in room : Find(q, i) = Find(q, j) <=> ConnectedIn(Index, E, i, j)
    <2>1. SUFFICES ASSUME NEW i \in room, NEW j \in room
                   PROVE  Find(q, i) = Find(q, j) <=> ConnectedIn(Index, E, i, j)
      OBVIOUS
    <2>a. \A k \in D : Find(q, k) = Find(p, k) /\ Find(q, k) \in D
      BY <1>10, <1>11
    <2> HIDE DEF D, room, G
    <2>2. CASE i \in D /\ j \in D
      BY <1>6, <2>a, <2>2
    <2>3. CASE i \in D /\ j \notin D
      <3>1. Find(q, i) \in D /\ Find(q, j) = j
        BY <1>12, <2>a, <2>3
      <3>2. ~ConnectedIn(Index, E, i, j)
        BY <1>13, <2>3
      <3> QED BY <2>3, <3>1, <3>2
    <2>4. CASE i \notin D /\ j \in D
      <3>1. Find(q, j) \in D /\ Find(q, i) = i
        BY <1>12, <2>a, <2>4
      <3>2. ~ConnectedIn(Index, E, i, j)
        BY <1>13, <2>4
      <3> QED BY <2>4, <3>1, <3>2
    <2>5. CASE i \notin D /\ j \notin D
      <3>1. Find(q, j) = j /\ Find(q, i) = i
        BY <1>12, <2>5
      <3>2. ConnectedIn(Index, E, i, j) <=> i = j
        BY <1>13, <1>14, <2>5
      <3> QED BY <3>1, <3>2
    <2> QED BY <2>2, <2>3, <2>4, <2>5
  <1>16. DOMAIN q = room /\ E \subseteq SUBSET room
    BY <1>4, <1>6
  <1> DEFINE w == [merged |-> v.merged, parents |-> q, ranks |-> s]
  <1>17. w.merged = v.merged /\ w.parents = q /\ w.ranks = s
    OBVIOUS
  <1>18. w \in Version
    <2> HIDE DEF D
    <2>1. room \in Rooms /\ room \subseteq Index
      <3>1. room \subseteq Index
        BY <1>1, <1>2
      <3>2. ASSUME NEW i \in room PROVE 0 .. i \subseteq room
        <4>1. CASE i \in D
          BY <1>1, <4>1 DEF Rooms
        <4>2. CASE i \in 0 .. size
          BY <1>2, <4>2
        <4> QED BY <4>1, <4>2
      <3> QED BY <3>1, <3>2 DEF Rooms
    <2> QED BY <1>1, <1>4, <1>5, <1>16, <1>17, <2>1, VersionType
  <1>19. Holds(w, E)
    <2> HIDE DEF w, room
    <2> QED BY <1>7, <1>15, <1>16, <1>17 DEF Holds
  <1> QED BY <1>3, <1>16, <1>17, <1>18, <1>19

(* Path compression.                                                       *)
LEMMA CompressedHolds ==
  ASSUME NEW v \in Version, NEW E, Holds(v, E), NEW S
  PROVE  LET w == [v EXCEPT !.parents = Compressed(@, S)]
         IN  /\ w \in Version /\ Holds(w, E) /\ w.merged = v.merged
             /\ DOMAIN w.parents = DOMAIN v.parents
             /\ \A i \in DOMAIN v.parents : Find(w.parents, i) = Find(v.parents, i)
  <1> DEFINE D == DOMAIN v.parents
             q == Compressed(v.parents, S)
             w == [merged |-> v.merged, parents |-> q, ranks |-> v.ranks]
  <1>1. /\ v = [merged |-> v.merged, parents |-> v.parents, ranks |-> v.ranks]
        /\ v.merged \in Index \X Index /\ D \in Rooms /\ D \subseteq Index
        /\ v.parents \in [D -> D] /\ v.ranks \in [D -> Nat]
    BY VersionType
  <1>2. [v EXCEPT !.parents = Compressed(@, S)] = w
    <2>1. [v EXCEPT !.parents = Compressed(@, S)] = [v EXCEPT !.parents = q]
      OBVIOUS
    <2> HIDE DEF q, D
    <2> QED BY <1>1, <2>1
  <1>3. /\ Forest(v.parents, v.ranks, D) /\ E \subseteq SUBSET D
        /\ \A i, j \in D : Find(v.parents, i) = Find(v.parents, j)
                             <=> ConnectedIn(Index, E, i, j)
    BY DEF Holds
  <1>4. Forest(q, v.ranks, D) /\ \A i \in D : Find(q, i) = Find(v.parents, i)
    <2> HIDE DEF D
    <2> QED BY <1>3, CompressedFinds
  <1>5. q \in [D -> D] /\ DOMAIN q = D
    BY <1>4 DEF Forest
  <1> HIDE DEF q, D
  <1>6. w \in Version
    BY <1>1, <1>5, VersionType
  <1>7. Holds(w, E)
    BY <1>3, <1>4, <1>5 DEF Holds
  <1> QED BY <1>2, <1>4, <1>5, <1>6, <1>7 DEF D

(* The version that merge() appends.                                       *)
Merged(v, pair) ==
    LET parents == Compressed(v.parents, {pair[1], pair[2]})
        linked == Linked(parents, v.ranks, Find(parents, pair[1]), Find(parents, pair[2]))
    IN  [merged |-> pair, parents |-> linked.parents, ranks |-> linked.ranks]

(* out is version v after the edge {a, b}, which merges this pair.         *)
MergedRight(v, E, pair, out) ==
    /\ out \in Version /\ Holds(out, E \cup {{pair[1], pair[2]}}) /\ out.merged = pair
    /\ DOMAIN out.parents = DOMAIN v.parents

LEMMA MergedHolds ==
  ASSUME NEW v \in Version, NEW E, Holds(v, E),
         NEW a \in DOMAIN v.parents, NEW b \in DOMAIN v.parents,
         NEW pair, pair = <<a, b>>, NEW out, out = Merged(v, pair)
  PROVE  MergedRight(v, E, pair, out)
  <1> DEFINE D == DOMAIN v.parents
             q == Compressed(v.parents, {a, b})
             new == Linked(q, v.ranks, Find(q, a), Find(q, b))
             w == [merged |-> <<a, b>>, parents |-> new.parents, ranks |-> new.ranks]
  <1>1. D \in Rooms /\ D \subseteq Index /\ v.parents \in [D -> D] /\ v.ranks \in [D -> Nat]
    BY VersionType
  <1>2. out = w
    BY DEF Merged
  <1>3. /\ Forest(v.parents, v.ranks, D) /\ E \subseteq SUBSET D
        /\ \A i, j \in D : Find(v.parents, i) = Find(v.parents, j)
                             <=> ConnectedIn(Index, E, i, j)
    BY DEF Holds
  <1>4. Forest(q, v.ranks, D) /\ \A i \in D : Find(q, i) = Find(v.parents, i)
    <2> HIDE DEF D
    <2> QED BY <1>3, CompressedFinds
  <1> HIDE DEF q
  <1>5. /\ Find(q, a) \in D /\ q[Find(q, a)] = Find(q, a)
        /\ Find(q, b) \in D /\ q[Find(q, b)] = Find(q, b)
    <2>1. a \in D /\ b \in D
      OBVIOUS
    <2> HIDE DEF D
    <2> QED BY <1>4, <2>1, FindRoot
  <1>6. /\ Forest(new.parents, new.ranks, D)
        /\ \A i, j \in D : Find(new.parents, i) = Find(new.parents, j) <=>
                             \/ Find(q, i) = Find(q, j)
                             \/ Find(q, i) = Find(q, a) /\ Find(q, j) = Find(q, b)
                             \/ Find(q, i) = Find(q, b) /\ Find(q, j) = Find(q, a)
    <2> HIDE DEF D
    <2> QED BY <1>4, <1>5, LinkedFinds
  <1> HIDE DEF new
  <1>7. new.parents \in [D -> D] /\ new.ranks \in [D -> Nat] /\ DOMAIN new.parents = D
    BY <1>6 DEF Forest
  <1>8. a \in D /\ b \in D /\ a \in Index /\ b \in Index /\ E \in SUBSET SUBSET Index
    BY <1>1, <1>3
  <1> HIDE DEF D
  <1>9. ASSUME NEW i \in D, NEW j \in D
        PROVE  Find(new.parents, i) = Find(new.parents, j)
                 <=> ConnectedIn(Index, E \cup {{a, b}}, i, j)
    <2>1. i \in Index /\ j \in Index
      BY <1>1
    <2>2. ConnectedIn(Index, E \cup {{a, b}}, i, j) <=>
            \/ ConnectedIn(Index, E, i, j)
            \/ ConnectedIn(Index, E, i, a) /\ ConnectedIn(Index, E, b, j)
            \/ ConnectedIn(Index, E, i, b) /\ ConnectedIn(Index, E, a, j)
      BY <1>8, <2>1, OneMoreEdge
    <2>3. \A k, l \in D : ConnectedIn(Index, E, k, l) <=> Find(q, k) = Find(q, l)
      BY <1>3, <1>4
    <2> QED BY <1>6, <1>8, <2>2, <2>3
  <1>10. w \in Version
    <2>1. w.merged = <<a, b>> /\ w.parents = new.parents /\ w.ranks = new.ranks
      OBVIOUS
    <2> HIDE DEF w
    <2> QED BY <1>1, <1>7, <1>8, <2>1, VersionType DEF w
  <1>11. E \cup {{a, b}} \subseteq SUBSET D
    BY <1>3, <1>8
  <1>12. Holds(w, E \cup {{a, b}})
    <2>1. w.parents = new.parents /\ w.ranks = new.ranks
      OBVIOUS
    <2> HIDE DEF w
    <2>2. DOMAIN w.parents = D /\ Forest(w.parents, w.ranks, D)
      BY <1>6, <1>7, <2>1
    <2>3. \A i, j \in D : Find(w.parents, i) = Find(w.parents, j)
                             <=> ConnectedIn(Index, E \cup {{a, b}}, i, j)
      BY <1>9, <2>1
    <2> QED BY <1>11, <2>2, <2>3 DEF Holds
  <1>13. w.merged = <<a, b>> /\ w.parents = new.parents
    BY DEF w
  <1>14. DOMAIN out.parents = DOMAIN v.parents
    BY ONLY <1>2, <1>7, <1>13 DEF D
  <1>15. pair = <<a, b>> /\ pair[1] = a /\ pair[2] = b
    OBVIOUS
  <1> HIDE DEF w
  <1>16. out \in Version /\ Holds(out, E \cup {{a, b}}) /\ out.merged = pair
    BY ONLY <1>2, <1>10, <1>12, <1>13, <1>15
  <1> QED BY ONLY <1>14, <1>15, <1>16 DEF MergedRight

-----------------------------------------------------------------------------
(* The history of versions ws for the equalities es merged in this order,  *)
(* when t is the translation to indices.                                   *)
Ends(t, l) == <<t[l.lhs], t[l.rhs]>>
EdgesBefore(t, es, k) == {{t[es[i].lhs], t[es[i].rhs]} : i \in 1 .. k - 1}

VersionsFor(ws, es, t) ==
    /\ ws \in Seq(Version) /\ Len(ws) = Len(es) + 1
    /\ ws[1].merged = <<0, 0>>
    /\ \A k \in 1 .. Len(es) : ws[k + 1].merged = Ends(t, es[k])
    /\ \A k \in 1 .. Len(ws) : Holds(ws[k], EdgesBefore(t, es, k))

LEMMA TopReplaced ==
  ASSUME NEW ws, NEW es \in Seq(Literal), NEW t, VersionsFor(ws, es, t),
         NEW w \in Version, Holds(w, EdgesBefore(t, es, Len(ws))), w.merged = Top(ws).merged
  PROVE  VersionsFor([ws EXCEPT ![Len(ws)] = w], es, t)
  <1> DEFINE xs == [ws EXCEPT ![Len(ws)] = w]
  <1>1. ws \in Seq(Version) /\ Len(ws) \in 1 .. Len(ws) /\ Len(ws) = Len(es) + 1 /\ Len(es) \in Nat
    BY LenProperties DEF VersionsFor
  <1>2. /\ xs \in Seq(Version) /\ Len(xs) = Len(ws)
        /\ \A k \in 1 .. Len(ws) : xs[k] = IF k = Len(ws) THEN w ELSE ws[k]
    BY <1>1, ExceptSeq
  <1> HIDE DEF xs
  <1>3. \A k \in 1 .. Len(ws) : xs[k].merged = ws[k].merged
    BY <1>2 DEF Top
  <1>4. \A k \in 1 .. Len(ws) : Holds(xs[k], EdgesBefore(t, es, k))
    BY <1>2 DEF VersionsFor
  <1>5. 1 \in 1 .. Len(ws) /\ \A k \in 1 .. Len(es) : k + 1 \in 1 .. Len(ws)
    BY <1>1
  <1>6. VersionsFor(xs, es, t)
    BY <1>1, <1>2, <1>3, <1>4, <1>5 DEF VersionsFor
  <1> QED BY <1>6 DEF xs

LEMMA TopVersion ==
  ASSUME NEW ws, NEW es \in Seq(Literal), NEW t, VersionsFor(ws, es, t)
  PROVE  /\ Top(ws) \in Version /\ Holds(Top(ws), EdgesBefore(t, es, Len(ws)))
         /\ ws \in Seq(Version) /\ Len(ws) \in Nat \ {0} /\ Len(ws) = Len(es) + 1
         /\ DOMAIN ws = 1 .. Len(ws) /\ Len(es) \in Nat
         /\ \A k \in 1 .. Len(ws) : ws[k] \in Version
  <1>1. ws \in Seq(Version) /\ Len(es) \in Nat /\ Len(ws) = Len(es) + 1
    BY LenProperties DEF VersionsFor
  <1>2. Len(ws) \in 1 .. Len(ws) /\ DOMAIN ws = 1 .. Len(ws)
    BY <1>1
  <1>3. \A k \in 1 .. Len(ws) : ws[k] \in Version
    BY <1>1, ElementOfSeq
  <1> QED BY <1>1, <1>2, <1>3 DEF VersionsFor, Top

(* init() of the newest version.                                           *)
LEMMA TopResized ==
  ASSUME NEW ws, NEW es \in Seq(Literal), NEW t, VersionsFor(ws, es, t), NEW size \in Index
  PROVE  LET xs == [ws EXCEPT ![Len(ws)] = Resized(@, size)]
         IN  /\ VersionsFor(xs, es, t) /\ Len(xs) = Len(ws)
             /\ \A k \in 1 .. Len(ws) - 1 : xs[k] = ws[k]
             /\ DOMAIN Top(xs).parents = DOMAIN Top(ws).parents \cup 0 .. size
  <1> DEFINE w == Resized(Top(ws), size)
             xs == [ws EXCEPT ![Len(ws)] = w]
  <1>1. /\ Top(ws) \in Version /\ Holds(Top(ws), EdgesBefore(t, es, Len(ws)))
        /\ ws \in Seq(Version) /\ Len(ws) \in 1 .. Len(ws)
    BY TopVersion
  <1>2. [ws EXCEPT ![Len(ws)] = Resized(@, size)] = xs
    BY <1>1 DEF Top
  <1>3. /\ w \in Version /\ Holds(w, EdgesBefore(t, es, Len(ws))) /\ w.merged = Top(ws).merged
        /\ DOMAIN w.parents = DOMAIN Top(ws).parents \cup 0 .. size
    BY <1>1, ResizedHolds
  <1> HIDE DEF w
  <1>4. VersionsFor(xs, es, t)
    BY <1>3, TopReplaced
  <1>5. Len(xs) = Len(ws) /\ xs[Len(ws)] = w /\ \A k \in 1 .. Len(ws) - 1 : xs[k] = ws[k]
    BY <1>1, <1>3, ExceptSeq
  <1>6. Top(xs) = w
    <2> HIDE DEF xs
    <2> QED BY <1>5 DEF Top
  <1> HIDE DEF xs
  <1> QED BY <1>2, <1>3, <1>4, <1>5, <1>6

(* A find in the newest version.                                           *)
Compress(ws, S) == [ws EXCEPT ![Len(ws)].parents = Compressed(@, S)]

(* xs is ws with shorter paths in its newest version.                      *)
CompressedRight(ws, es, t, xs) ==
    /\ VersionsFor(xs, es, t) /\ Len(xs) = Len(ws)
    /\ \A k \in 1 .. Len(ws) : DOMAIN xs[k].parents = DOMAIN ws[k].parents
    /\ DOMAIN Top(xs).parents = DOMAIN Top(ws).parents
    /\ \A i \in DOMAIN Top(ws).parents : Find(Top(xs).parents, i) = Find(Top(ws).parents, i)

LEMMA TopCompressed ==
  ASSUME NEW ws, NEW es \in Seq(Literal), NEW t, VersionsFor(ws, es, t), NEW S, NEW xs, xs = Compress(ws, S)
  PROVE  CompressedRight(ws, es, t, xs)
  <1> DEFINE w == [Top(ws) EXCEPT !.parents = Compressed(@, S)]
             ys == [ws EXCEPT ![Len(ws)] = w]
  <1>1. /\ Top(ws) \in Version /\ Holds(Top(ws), EdgesBefore(t, es, Len(ws)))
        /\ ws \in Seq(Version) /\ Len(ws) \in 1 .. Len(ws)
    BY TopVersion
  <1>2. xs = ys
    BY <1>1 DEF Top, Compress
  <1>3. /\ w \in Version /\ Holds(w, EdgesBefore(t, es, Len(ws))) /\ w.merged = Top(ws).merged
        /\ DOMAIN w.parents = DOMAIN Top(ws).parents
        /\ \A i \in DOMAIN Top(ws).parents : Find(w.parents, i) = Find(Top(ws).parents, i)
    BY <1>1, CompressedHolds
  <1> HIDE DEF w
  <1>4. VersionsFor(ys, es, t)
    BY <1>3, TopReplaced
  <1>5. Len(ys) = Len(ws) /\ ys[Len(ws)] = w /\ \A k \in 1 .. Len(ws) : k # Len(ws) => ys[k] = ws[k]
    BY <1>1, <1>3, ExceptSeq
  <1> HIDE DEF ys
  <1>6. Top(ys) = w
    BY <1>5 DEF Top
  <1>7. \A k \in 1 .. Len(ws) : DOMAIN ys[k].parents = DOMAIN ws[k].parents
    BY <1>3, <1>5 DEF Top
  <1> QED BY ONLY <1>2, <1>3, <1>4, <1>5, <1>6, <1>7 DEF CompressedRight

(* merge() of one more equality makes xs of ws.                            *)
OneMore(ws, fs, t, xs) ==
    /\ VersionsFor(xs, fs, t) /\ Len(xs) = Len(ws) + 1
    /\ \A k \in 1 .. Len(ws) : DOMAIN xs[k].parents = DOMAIN ws[k].parents
    /\ DOMAIN Top(xs).parents = DOMAIN Top(ws).parents

LEMMA OneMoreMerge ==
  ASSUME NEW ws, NEW es \in Seq(Literal), NEW t, VersionsFor(ws, es, t), NEW l \in Literal,
         t[l.lhs] \in DOMAIN Top(ws).parents, t[l.rhs] \in DOMAIN Top(ws).parents,
         NEW out, out = Merge(ws, Ends(t, l))
  PROVE  OneMore(ws, Append(es, l), t, out)
  <1> DEFINE S == {t[l.lhs], t[l.rhs]}
             ys == Compress(ws, S)
             w == Merged(Top(ws), Ends(t, l))
             xs == Append(ys, w)
             fs == Append(es, l)
  <1>1. /\ Top(ws) \in Version /\ Holds(Top(ws), EdgesBefore(t, es, Len(ws)))
        /\ ws \in Seq(Version) /\ Len(ws) \in 1 .. Len(ws) /\ DOMAIN ws = 1 .. Len(ws)
        /\ Len(ws) = Len(es) + 1 /\ Len(es) \in Nat
    BY TopVersion
  <1>2. out = xs
    <2>1. [ws EXCEPT ![Len(ws)].parents = Compressed(Top(ws).parents, S)] = ys
      BY <1>1 DEF Top, Compress
    <2>2. Ends(t, l)[1] = t[l.lhs] /\ Ends(t, l)[2] = t[l.rhs]
      BY DEF Ends
    <2> HIDE DEF ys
    <2> QED BY <2>1, <2>2 DEF Merge, Merged, Top
  <1>3. /\ VersionsFor(ys, es, t) /\ Len(ys) = Len(ws)
        /\ \A k \in 1 .. Len(ws) : DOMAIN ys[k].parents = DOMAIN ws[k].parents
    <2>1. ys = Compress(ws, S)
      OBVIOUS
    <2>2. VersionsFor(ws, es, t)
      OBVIOUS
    <2> HIDE DEF S, ys
    <2>3. CompressedRight(ws, es, t, ys)
      BY ONLY es \in Seq(Literal), <2>1, <2>2, TopCompressed
    <2> QED BY ONLY <2>3 DEF CompressedRight
  <1>4. /\ w \in Version /\ Holds(w, EdgesBefore(t, es, Len(ws)) \cup {S})
        /\ w.merged = Ends(t, l) /\ DOMAIN w.parents = DOMAIN Top(ws).parents
    <2>1. Ends(t, l) = <<t[l.lhs], t[l.rhs]>>
      BY DEF Ends
    <2>2. t[l.lhs] \in DOMAIN Top(ws).parents /\ t[l.rhs] \in DOMAIN Top(ws).parents
      OBVIOUS
    <2>3. w = Merged(Top(ws), Ends(t, l))
      OBVIOUS
    <2> HIDE DEF w
    <2>4. MergedRight(Top(ws), EdgesBefore(t, es, Len(ws)), Ends(t, l), w)
      BY ONLY <1>1, <2>1, <2>2, <2>3, MergedHolds
    <2>5. S = {Ends(t, l)[1], Ends(t, l)[2]}
      BY DEF Ends
    <2> HIDE DEF S
    <2> QED BY ONLY <2>4, <2>5 DEF MergedRight
  <1> HIDE DEF ys, w
  <1>5. ys \in Seq(Version)
    BY <1>3 DEF VersionsFor
  <1>6. /\ fs \in Seq(Literal) /\ Len(fs) = Len(es) + 1 /\ fs[Len(es) + 1] = l
        /\ \A i \in 1 .. Len(es) : fs[i] = es[i]
    BY AppendProperties
  <1>7. /\ xs \in Seq(Version) /\ Len(xs) = Len(ws) + 1 /\ xs[Len(ws) + 1] = w
        /\ \A k \in 1 .. Len(ws) : xs[k] = ys[k]
    BY <1>3, <1>4, <1>5, AppendProperties
  <1> HIDE DEF xs, fs
  <1>8. \A k \in 1 .. Len(ws) : EdgesBefore(t, fs, k) = EdgesBefore(t, es, k)
    <2> SUFFICES ASSUME NEW k \in 1 .. Len(ws) PROVE EdgesBefore(t, fs, k) = EdgesBefore(t, es, k)
      OBVIOUS
    <2>1. \A i \in 1 .. k - 1 : fs[i] = es[i]
      BY <1>1, <1>6
    <2> QED BY <2>1 DEF EdgesBefore
  <1>9. EdgesBefore(t, fs, Len(ws) + 1) = EdgesBefore(t, es, Len(ws)) \cup {S}
    <2>1. \A i : i \in 1 .. (Len(ws) + 1) - 1 <=> i \in 1 .. Len(ws) - 1 \/ i = Len(es) + 1
      BY <1>1
    <2>2. \A i \in 1 .. Len(ws) - 1 : fs[i] = es[i]
      BY <1>1, <1>6
    <2>3. fs[Len(es) + 1] = l
      BY ONLY <1>6
    <2> QED BY ONLY <2>1, <2>2, <2>3 DEF EdgesBefore
  <1>10. \A k \in 1 .. Len(xs) : Holds(xs[k], EdgesBefore(t, fs, k))
    <2>1. ASSUME NEW k \in 1 .. Len(ws) PROVE Holds(xs[k], EdgesBefore(t, fs, k))
      BY <1>3, <1>7, <1>8 DEF VersionsFor
    <2>2. Holds(xs[Len(ws) + 1], EdgesBefore(t, fs, Len(ws) + 1))
      BY <1>4, <1>7, <1>9
    <2>3. \A k \in 1 .. Len(xs) : k \in 1 .. Len(ws) \/ k = Len(ws) + 1
      BY <1>1, <1>7
    <2> QED BY <2>1, <2>2, <2>3
  <1>11. \A k \in 1 .. Len(fs) : xs[k + 1].merged = Ends(t, fs[k])
    <2>1. ASSUME NEW k \in 1 .. Len(es) PROVE xs[k + 1].merged = Ends(t, fs[k])
      <3>1. k + 1 \in 1 .. Len(ws)
        BY <1>1
      <3> QED BY <1>3, <1>6, <1>7, <3>1 DEF VersionsFor
    <2>2. \A k \in 1 .. Len(fs) : k \in 1 .. Len(es) \/ k = Len(ws)
      BY <1>1, <1>6
    <2> QED BY <1>1, <1>4, <1>6, <1>7, <2>1, <2>2
  <1>12. xs[1].merged = <<0, 0>>
    <2>1. 1 \in 1 .. Len(ws)
      BY <1>1
    <2> QED BY <1>3, <1>7, <2>1 DEF VersionsFor
  <1>13. VersionsFor(xs, fs, t)
    BY <1>1, <1>6, <1>7, <1>10, <1>11, <1>12 DEF VersionsFor
  <1>14. \A k \in 1 .. Len(ws) : DOMAIN xs[k].parents = DOMAIN ws[k].parents
    BY <1>3, <1>7
  <1>15. DOMAIN Top(xs).parents = DOMAIN Top(ws).parents
    BY <1>4, <1>7 DEF Top
  <1>16. OneMore(ws, fs, t, out)
    BY ONLY <1>2, <1>7, <1>13, <1>14, <1>15 DEF OneMore
  <1> QED BY <1>16 DEF fs

(* The history up to one of its versions.                                  *)
LEMMA VersionsCut ==
  ASSUME NEW ws, NEW es \in Seq(Literal), NEW t, VersionsFor(ws, es, t), NEW fs \in Seq(Literal),
         Len(fs) <= Len(es), \A i \in 1 .. Len(fs) : fs[i] = es[i]
  PROVE  VersionsFor(SubSeq(ws, 1, Len(fs) + 1), fs, t)
  <1> DEFINE xs == SubSeq(ws, 1, Len(fs) + 1)
  <1>1. /\ ws \in Seq(Version) /\ Len(ws) = Len(es) + 1 /\ Len(es) \in Nat /\ Len(fs) \in Nat
        /\ \A k \in 1 .. Len(ws) : ws[k] \in Version
    BY TopVersion, LenProperties
  <1>2. \A k \in 1 .. Len(fs) + 1 : k \in 1 .. Len(ws)
    BY <1>1
  <1>3. /\ xs \in Seq(Version) /\ Len(xs) = Len(fs) + 1
        /\ \A k \in 1 .. Len(fs) + 1 : xs[k] = ws[k]
    <2>1. \A i \in 1 .. Len(fs) + 1 : ws[i] \in Version
      BY <1>1, <1>2
    <2>2. /\ xs \in Seq(Version)
          /\ Len(xs) = IF 1 <= Len(fs) + 1 THEN (Len(fs) + 1) - 1 + 1 ELSE 0
          /\ \A i \in 1 .. (Len(fs) + 1) - 1 + 1 : xs[i] = ws[1 + i - 1]
      <3>1. 1 \in Int /\ Len(fs) + 1 \in Int
        BY <1>1
      <3> QED BY <2>1, <3>1, SubSeqProperties
    <2> HIDE DEF xs
    <2> QED BY <1>1, <2>2
  <1> HIDE DEF xs
  <1>4. \A k \in 1 .. Len(fs) + 1 : EdgesBefore(t, fs, k) = EdgesBefore(t, es, k)
    <2> SUFFICES ASSUME NEW k \in 1 .. Len(fs) + 1 PROVE EdgesBefore(t, fs, k) = EdgesBefore(t, es, k)
      OBVIOUS
    <2>1. \A i \in 1 .. k - 1 : fs[i] = es[i]
      BY <1>1
    <2> QED BY <2>1 DEF EdgesBefore
  <1>5. \A k \in 1 .. Len(fs) : k + 1 \in 1 .. Len(fs) + 1 /\ k \in 1 .. Len(es)
    BY <1>1
  <1>6. 1 \in 1 .. Len(fs) + 1
    BY <1>1
  <1>7. xs[1].merged = <<0, 0>> /\ \A k \in 1 .. Len(fs) : xs[k + 1].merged = Ends(t, fs[k])
    BY <1>3, <1>5, <1>6 DEF VersionsFor
  <1>8. \A k \in 1 .. Len(xs) : Holds(xs[k], EdgesBefore(t, fs, k))
    BY <1>2, <1>3, <1>4 DEF VersionsFor
  <1>9. VersionsFor(xs, fs, t)
    BY <1>3, <1>7, <1>8 DEF VersionsFor
  <1> QED BY <1>9 DEF xs

(* Variables that get an index later change nothing.                       *)
LEMMA Retranslated ==
  ASSUME NEW ws, NEW es \in Seq(Literal), NEW t, VersionsFor(ws, es, t), NEW u,
         \A i \in 1 .. Len(es) : u[es[i].lhs] = t[es[i].lhs] /\ u[es[i].rhs] = t[es[i].rhs]
  PROVE  VersionsFor(ws, es, u)
  <1>1. ws \in Seq(Version) /\ Len(ws) = Len(es) + 1 /\ Len(es) \in Nat
    BY TopVersion
  <1>2. \A k \in 1 .. Len(ws) : EdgesBefore(u, es, k) = EdgesBefore(t, es, k)
    <2> SUFFICES ASSUME NEW k \in 1 .. Len(ws) PROVE EdgesBefore(u, es, k) = EdgesBefore(t, es, k)
      OBVIOUS
    <2>1. \A i \in 1 .. k - 1 : i \in 1 .. Len(es)
      BY <1>1
    <2> QED BY <2>1 DEF EdgesBefore
  <1>3. \A k \in 1 .. Len(es) : Ends(u, es[k]) = Ends(t, es[k])
    BY DEF Ends
  <1> QED BY <1>2, <1>3 DEF VersionsFor

-----------------------------------------------------------------------------
(* The equalities of a sequence of literals.                               *)

SelectsStep(f, s, K) ==
    f = [n \in 0 .. Len(s) |->
            IF n = 0 THEN <<>>
            ELSE IF s[n] \in K THEN Append(f[n - 1], s[n]) ELSE f[n - 1]]

LEMMA SelectedFunction ==
  ASSUME NEW S, NEW s \in Seq(S), NEW K
  PROVE  \E f : /\ SelectsStep(f, s, K) /\ Selected(s, K) = f[Len(s)]
  <1> DEFINE Some(n) == \E f : f = [m \in 0 .. n |-> IF m = 0 THEN <<>>
                                     ELSE IF s[m] \in K THEN Append(f[m - 1], s[m]) ELSE f[m - 1]]
             X == {n \in Nat : Some(n)}
  <1>1. 0 \in X
    <2>1. [m \in 0 .. 0 |-> <<>>] = [m \in 0 .. 0 |-> IF m = 0 THEN <<>>
             ELSE IF s[m] \in K THEN Append([k \in 0 .. 0 |-> <<>>][m - 1], s[m])
                                ELSE [k \in 0 .. 0 |-> <<>>][m - 1]]
      OBVIOUS
    <2> QED BY <2>1
  <1>2. ASSUME NEW n \in Nat, n \in X PROVE n + 1 \in X
    <2>1. PICK f : f = [m \in 0 .. n |-> IF m = 0 THEN <<>>
                         ELSE IF s[m] \in K THEN Append(f[m - 1], s[m]) ELSE f[m - 1]]
      BY <1>2
    <2> DEFINE last == IF s[n + 1] \in K THEN Append(f[n], s[n + 1]) ELSE f[n]
               g == [m \in 0 .. n + 1 |-> IF m = n + 1 THEN last ELSE f[m]]
    <2>2. \A m \in 0 .. n : f[m] = IF m = 0 THEN <<>>
                         ELSE IF s[m] \in K THEN Append(f[m - 1], s[m]) ELSE f[m - 1]
      BY <2>1
    <2>3. ASSUME NEW m \in 0 .. n + 1
          PROVE  g[m] = IF m = 0 THEN <<>>
                         ELSE IF s[m] \in K THEN Append(g[m - 1], s[m]) ELSE g[m - 1]
      <3>1. CASE m = n + 1
        <4>1. g[m] = last /\ g[m - 1] = f[n] /\ m # 0
          BY <1>2, <3>1
        <4> QED BY <3>1, <4>1
      <3>2. CASE m \in 0 .. n /\ m # 0
        <4>1. m - 1 \in 0 .. n /\ m # n + 1 /\ m - 1 # n + 1 /\ m - 1 \in 0 .. n + 1
          BY <1>2, <3>2
        <4>2. g[m] = f[m] /\ g[m - 1] = f[m - 1]
          BY <4>1
        <4> QED BY <2>2, <3>2, <4>2
      <3>3. CASE m = 0
        BY <1>2, <2>2, <3>3
      <3> QED BY <1>2, <3>1, <3>2, <3>3
    <2>4. g = [m \in 0 .. n + 1 |-> g[m]]
      OBVIOUS
    <2> HIDE DEF g
    <2>5. Some(n + 1)
      BY <2>3, <2>4
    <2> HIDE DEF Some
    <2> QED BY ONLY n \in Nat, <2>5 DEF X
  <1>3. Len(s) \in X
    <2> HIDE DEF X
    <2>1. Nat \subseteq X
      BY <1>1, <1>2, NumbersFrom0
    <2> QED BY <2>1, LenProperties
  <1>4. \E f : SelectsStep(f, s, K)
    BY <1>3 DEF SelectsStep
  <1> DEFINE h == CHOOSE f : SelectsStep(f, s, K)
  <1>5. SelectsStep(h, s, K)
    BY <1>4
  <1>6. Selected(s, K) = h[Len(s)]
    BY DEF Selected, SelectsStep
  <1> QED BY <1>5, <1>6

(* One more element.                                                       *)
LEMMA SelectedAppend ==
  ASSUME NEW S, NEW s \in Seq(S), NEW x \in S, NEW K
  PROVE  Selected(Append(s, x), K)
           = IF x \in K THEN Append(Selected(s, K), x) ELSE Selected(s, K)
  <1> DEFINE u == Append(s, x)
  <1>1. /\ u \in Seq(S) /\ Len(u) = Len(s) + 1 /\ u[Len(s) + 1] = x /\ Len(s) \in Nat
        /\ \A i \in 1 .. Len(s) : u[i] = s[i]
    BY AppendProperties, LenProperties
  <1> HIDE DEF u
  <1>2. PICK f : SelectsStep(f, s, K) /\ Selected(s, K) = f[Len(s)]
    BY SelectedFunction
  <1>3. PICK g : SelectsStep(g, u, K) /\ Selected(u, K) = g[Len(u)]
    BY <1>1, SelectedFunction
  <1>4. \A n \in 0 .. Len(s) : f[n] = IF n = 0 THEN <<>>
                      ELSE IF s[n] \in K THEN Append(f[n - 1], s[n]) ELSE f[n - 1]
    BY <1>2 DEF SelectsStep
  <1>5. \A n \in 0 .. Len(s) + 1 : g[n] = IF n = 0 THEN <<>>
                      ELSE IF u[n] \in K THEN Append(g[n - 1], u[n]) ELSE g[n - 1]
    BY <1>1, <1>3 DEF SelectsStep
  <1> DEFINE X == {n \in Nat : n \in 0 .. Len(s) => f[n] = g[n]}
  <1>6. 0 \in X
    BY <1>1, <1>4, <1>5
  <1>7. ASSUME NEW n \in Nat, n \in X PROVE n + 1 \in X
    <2>1. SUFFICES ASSUME n + 1 \in 0 .. Len(s) PROVE f[n + 1] = g[n + 1]
      OBVIOUS
    <2>2. n \in 0 .. Len(s) /\ n + 1 # 0 /\ (n + 1) - 1 = n /\ n + 1 \in 0 .. Len(s) + 1
          /\ u[n + 1] = s[n + 1]
      BY <1>1, <1>7, <2>1
    <2>3. f[n] = g[n]
      BY <1>7, <2>2
    <2> QED BY <1>4, <1>5, <2>1, <2>2, <2>3
  <1>8. f[Len(s)] = g[Len(s)]
    <2> HIDE DEF X
    <2>1. Nat \subseteq X
      BY <1>6, <1>7, NumbersFrom0
    <2> QED BY <1>1, <2>1 DEF X
  <1>9. g[Len(s) + 1] = IF x \in K THEN Append(g[Len(s)], x) ELSE g[Len(s)]
    <2>1. Len(s) + 1 \in 0 .. Len(s) + 1 /\ Len(s) + 1 # 0 /\ (Len(s) + 1) - 1 = Len(s)
      BY <1>1
    <2> QED BY <1>1, <1>5, <2>1
  <1> QED BY <1>1, <1>2, <1>3, <1>8, <1>9 DEF u

LEMMA SequencesByAppend ==
  ASSUME NEW S, NEW G, <<>> \in G, \A s \in Seq(S), x \in S : s \in G => Append(s, x) \in G
  PROVE  Seq(S) \subseteq G
  <1> DEFINE X == {n \in Nat : \A s \in Seq(S) : Len(s) = n => s \in G}
  <1>1. 0 \in X
    BY EmptySeq
  <1>2. ASSUME NEW n \in Nat, n \in X PROVE n + 1 \in X
    <2>1. SUFFICES ASSUME NEW s \in Seq(S), Len(s) = n + 1 PROVE s \in G
      OBVIOUS
    <2>2. s # <<>>
      BY <2>1, EmptySeq
    <2>3. PICK u \in Seq(S), x \in S : s = Append(u, x)
      BY <2>2, SequenceEmptyOrAppend
    <2>4. Len(u) = n
      BY <2>1, <2>3, AppendProperties, LenProperties
    <2>5. u \in G
      BY <1>2, <2>4
    <2> QED BY <2>3, <2>5
  <1>3. Nat \subseteq X
    <2> HIDE DEF X
    <2> QED BY <1>1, <1>2, NumbersFrom0
  <1> QED BY <1>3, LenProperties

LEMMA AppendRange ==
  ASSUME NEW S, NEW s \in Seq(S), NEW x \in S
  PROVE  Range(Append(s, x)) = Range(s) \cup {x}
  <1>1. /\ Append(s, x) \in Seq(S) /\ Len(Append(s, x)) = Len(s) + 1 /\ Len(s) \in Nat
        /\ Append(s, x)[Len(s) + 1] = x /\ \A i \in 1 .. Len(s) : Append(s, x)[i] = s[i]
        /\ DOMAIN s = 1 .. Len(s) /\ DOMAIN Append(s, x) = 1 .. Len(Append(s, x))
    BY AppendProperties, LenProperties
  <1>2. \A i : i \in 1 .. Len(s) + 1 <=> i \in 1 .. Len(s) \/ i = Len(s) + 1
    BY <1>1
  <1> QED BY <1>1, <1>2 DEF Range

LEMMA SelectedEmpty == \A K : Selected(<<>>, K) = <<>>
  <1> SUFFICES ASSUME NEW K PROVE Selected(<<>>, K) = <<>>
    OBVIOUS
  <1>1. <<>> \in Seq({}) /\ Len(<<>>) = 0
    BY EmptySeq
  <1>2. PICK f : SelectsStep(f, <<>>, K) /\ Selected(<<>>, K) = f[Len(<<>>)]
    BY <1>1, SelectedFunction
  <1> QED BY <1>1, <1>2 DEF SelectsStep

LEMMA SelectedType ==
  ASSUME NEW S, NEW s \in Seq(S), NEW K
  PROVE  Selected(s, K) \in Seq(S) /\ Range(Selected(s, K)) = Range(s) \cap K
  <1> DEFINE G == {u \in Seq(S) : Selected(u, K) \in Seq(S) /\ Range(Selected(u, K)) = Range(u) \cap K}
  <1>1. <<>> \in G
    <2>1. <<>> \in Seq(S) /\ Selected(<<>>, K) = <<>> /\ Range(<<>>) = {}
      BY SelectedEmpty, EmptySeq DEF Range
    <2> QED BY <2>1
  <1>2. ASSUME NEW u \in Seq(S), NEW x \in S, u \in G PROVE Append(u, x) \in G
    <2>1. Append(u, x) \in Seq(S) /\ Range(Append(u, x)) = Range(u) \cup {x}
      BY AppendProperties, AppendRange
    <2>2. Selected(Append(u, x), K) = IF x \in K THEN Append(Selected(u, K), x) ELSE Selected(u, K)
      BY SelectedAppend
    <2>3. Selected(u, K) \in Seq(S) /\ Range(Selected(u, K)) = Range(u) \cap K
      BY <1>2
    <2>4. /\ Append(Selected(u, K), x) \in Seq(S)
          /\ Range(Append(Selected(u, K), x)) = Range(Selected(u, K)) \cup {x}
      BY <2>3, AppendProperties, AppendRange
    <2>5. CASE x \in K
      BY <2>1, <2>2, <2>3, <2>4, <2>5
    <2>6. CASE x \notin K
      BY <2>1, <2>2, <2>3, <2>6
    <2> QED BY <2>5, <2>6
  <1>3. Seq(S) \subseteq G
    <2> HIDE DEF G
    <2> QED BY <1>1, <1>2, SequencesByAppend
  <1> QED BY <1>3

LEMMA Associative == \A S : \A s, t, u \in Seq(S) : (s \o t) \o u = s \o (t \o u)
  BY ConcatAssociative, Zenon

LEMMA SelectedConcat ==
  ASSUME NEW S, NEW s \in Seq(S), NEW u \in Seq(S), NEW K
  PROVE  Selected(s \o u, K) = Selected(s, K) \o Selected(u, K)
  <1> DEFINE G == {v \in Seq(S) : Selected(s \o v, K) = Selected(s, K) \o Selected(v, K)}
  <1>1. <<>> \in G
    <2>1. Selected(s, K) \in Seq(S)
      BY SelectedType
    <2>2. s \o <<>> = s /\ Selected(s, K) \o <<>> = Selected(s, K) /\ <<>> \in Seq(S)
      BY <2>1, ConcatEmptySeq, EmptySeq
    <2> QED BY <2>2, SelectedEmpty
  <1>2. ASSUME NEW v \in Seq(S), NEW x \in S, v \in G PROVE Append(v, x) \in G
    <2>1. /\ s \o v \in Seq(S) /\ Selected(s, K) \in Seq(S) /\ Selected(v, K) \in Seq(S)
          /\ <<x>> \in Seq(S) /\ Append(v, x) \in Seq(S)
      BY ConcatProperties, SelectedType, AppendProperties
    <2>2. s \o Append(v, x) = Append(s \o v, x)
      <3>1. Append(v, x) = v \o <<x>> /\ Append(s \o v, x) = (s \o v) \o <<x>>
        BY <2>1, AppendIsConcat
      <3>2. (s \o v) \o <<x>> = s \o (v \o <<x>>)
        <4>1. \A w \in Seq(S) : (s \o v) \o w = s \o (v \o w)
          BY ONLY s \in Seq(S), v \in Seq(S), Associative, Z3
        <4>2. <<x>> \in Seq(S)
          BY <2>1
        <4> QED BY ONLY <4>1, <4>2, Zenon
      <3> QED BY ONLY <3>1, <3>2
    <2>3. Selected(s, K) \o Append(Selected(v, K), x) = Append(Selected(s, K) \o Selected(v, K), x)
      <3>1. Selected(s, K) \o Selected(v, K) \in Seq(S)
        BY <2>1, ConcatProperties
      <3>2. Append(Selected(v, K), x) = Selected(v, K) \o <<x>>
        BY <2>1, AppendIsConcat
      <3>3. Append(Selected(s, K) \o Selected(v, K), x) = (Selected(s, K) \o Selected(v, K)) \o <<x>>
        BY <3>1, AppendIsConcat
      <3> QED BY <2>1, <3>2, <3>3, Associative
    <2>4. Selected(Append(v, x), K) = IF x \in K THEN Append(Selected(v, K), x) ELSE Selected(v, K)
      BY SelectedAppend
    <2>5. Selected(Append(s \o v, x), K)
            = IF x \in K THEN Append(Selected(s \o v, K), x) ELSE Selected(s \o v, K)
      BY <2>1, SelectedAppend
    <2>6. Selected(s \o v, K) = Selected(s, K) \o Selected(v, K)
      BY <1>2
    <2> QED BY <2>1, <2>2, <2>3, <2>4, <2>5, <2>6
  <1>3. Seq(S) \subseteq G
    <2> HIDE DEF G
    <2> QED BY <1>1, <1>2, SequencesByAppend
  <1> QED BY <1>3

(* Merging equalities again is merging them one by one.                    *)
LEMMA RemergedFunction ==
  ASSUME NEW vs, NEW ks \in Seq(Literal)
  PROVE  \E f : /\ Remerged(vs, ks) = f[Len(ks)] /\ f[0] = vs
                /\ \A n \in 1 .. Len(ks) : f[n] = Merge(f[n - 1], Pair(ks[n]))
  <1> DEFINE Some(n) == \E f : f = [m \in 0 .. n |-> IF m = 0 THEN vs
                                                     ELSE Merge(f[m - 1], Pair(ks[m]))]
             X == {n \in Nat : Some(n)}
  <1>1. 0 \in X
    <2>1. [m \in 0 .. 0 |-> vs] = [m \in 0 .. 0 |-> IF m = 0 THEN vs
             ELSE Merge([k \in 0 .. 0 |-> vs][m - 1], Pair(ks[m]))]
      OBVIOUS
    <2> QED BY <2>1
  <1>2. ASSUME NEW n \in Nat, n \in X PROVE n + 1 \in X
    <2>1. PICK f : f = [m \in 0 .. n |-> IF m = 0 THEN vs ELSE Merge(f[m - 1], Pair(ks[m]))]
      BY <1>2
    <2> DEFINE last == Merge(f[n], Pair(ks[n + 1]))
               g == [m \in 0 .. n + 1 |-> IF m = n + 1 THEN last ELSE f[m]]
    <2>2. \A m \in 0 .. n : f[m] = IF m = 0 THEN vs ELSE Merge(f[m - 1], Pair(ks[m]))
      BY <2>1
    <2>3. ASSUME NEW m \in 0 .. n + 1
          PROVE  g[m] = IF m = 0 THEN vs ELSE Merge(g[m - 1], Pair(ks[m]))
      <3>1. CASE m = n + 1
        <4>1. g[m] = last /\ g[m - 1] = f[n] /\ m # 0
          BY <1>2, <3>1
        <4> QED BY <3>1, <4>1
      <3>2. CASE m \in 0 .. n /\ m # 0
        <4>1. m - 1 \in 0 .. n /\ m # n + 1 /\ m - 1 # n + 1 /\ m - 1 \in 0 .. n + 1
          BY <1>2, <3>2
        <4>2. g[m] = f[m] /\ g[m - 1] = f[m - 1]
          BY <4>1
        <4> QED BY <2>2, <3>2, <4>2
      <3>3. CASE m = 0
        BY <1>2, <2>2, <3>3
      <3> QED BY <1>2, <3>1, <3>2, <3>3
    <2>4. g = [m \in 0 .. n + 1 |-> g[m]]
      OBVIOUS
    <2> HIDE DEF g
    <2>5. Some(n + 1)
      BY <2>3, <2>4
    <2> HIDE DEF Some
    <2> QED BY ONLY n \in Nat, <2>5 DEF X
  <1>3. Len(ks) \in X
    <2> HIDE DEF X
    <2>1. Nat \subseteq X
      BY <1>1, <1>2, NumbersFrom0
    <2> QED BY <2>1, LenProperties
  <1> DEFINE Eqn(f) == f = [m \in 0 .. Len(ks) |-> IF m = 0 THEN vs ELSE Merge(f[m - 1], Pair(ks[m]))]
             h == CHOOSE f : Eqn(f)
  <1>4. Eqn(h)
    BY <1>3
  <1>5. Remerged(vs, ks) = h[Len(ks)]
    BY DEF Remerged
  <1>6. Len(ks) \in Nat
    BY LenProperties
  <1> HIDE DEF h
  <1> QED BY <1>4, <1>5, <1>6

(* Every version has room for the indices R.                               *)
Covers(ws, R) == \A k \in 1 .. Len(ws) : R \subseteq DOMAIN ws[k].parents

LEMMA RemergedHolds ==
  ASSUME NEW vs, NEW es \in Seq(Literal), VersionsFor(vs, es, translate), NEW ks \in Seq(Literal),
         \A i \in 1 .. Len(ks) : /\ translate[ks[i].lhs] \in DOMAIN Top(vs).parents
                                 /\ translate[ks[i].rhs] \in DOMAIN Top(vs).parents
  PROVE  /\ VersionsFor(Remerged(vs, ks), es \o ks, translate)
         /\ \A R : Covers(vs, R) => Covers(Remerged(vs, ks), R)
  <1>1. PICK f : /\ Remerged(vs, ks) = f[Len(ks)] /\ f[0] = vs
                 /\ \A n \in 1 .. Len(ks) : f[n] = Merge(f[n - 1], Pair(ks[n]))
    BY ONLY ks \in Seq(Literal), RemergedFunction
  <1> DEFINE D == DOMAIN Top(vs).parents
             Right(n) == LET fs == es \o SubSeq(ks, 1, n)
                         IN  /\ VersionsFor(f[n], fs, translate)
                             /\ DOMAIN Top(f[n]).parents = D
                             /\ \A R : Covers(vs, R) => Covers(f[n], R)
             X == {n \in Nat : n <= Len(ks) => Right(n)}
  <1>2. Len(ks) \in Nat
    BY LenProperties
  <1>3. 0 \in X
    <2>1. SubSeq(ks, 1, 0) = <<>> /\ es \o <<>> = es
      BY SubSeqEmpty, ConcatEmptySeq
    <2> QED BY <1>1, <2>1
  <1>4. ASSUME NEW n \in Nat, n \in X PROVE n + 1 \in X
    <2> SUFFICES ASSUME n + 1 <= Len(ks) PROVE Right(n + 1)
      OBVIOUS
    <2> DEFINE fs == es \o SubSeq(ks, 1, n)
               k == ks[n + 1]
    <2>1. n + 1 \in 1 .. Len(ks) /\ (n + 1) - 1 = n /\ n <= Len(ks)
      BY <1>2
    <2>2. /\ VersionsFor(f[n], fs, translate) /\ DOMAIN Top(f[n]).parents = D
          /\ \A R : Covers(vs, R) => Covers(f[n], R)
      BY <1>4, <2>1
    <2>3. SubSeq(ks, 1, n) \in Seq(Literal) /\ k \in Literal /\ <<k>> \in Seq(Literal)
      <3>1. \A i \in 1 .. n : ks[i] \in Literal
        BY <1>2, <2>1, ElementOfSeq
      <3>2. ks[n + 1] \in Literal
        BY <2>1, ElementOfSeq
      <3>3. 1 \in Int /\ n \in Int
        OBVIOUS
      <3> QED BY <3>1, <3>2, <3>3, SubSeqProperties, EmptySeq, AppendProperties
    <2>4. fs \in Seq(Literal)
      BY <2>3, ConcatProperties
    <2>5. es \o SubSeq(ks, 1, n + 1) = Append(fs, k)
      <3>1. SubSeq(ks, 1, n + 1) = SubSeq(ks, 1, n) \o <<k>>
        <4>1. 1 \in 1 .. Len(ks) /\ n + 1 \in 1 .. Len(ks)
          BY <1>2, <2>1
        <4> QED BY <2>1, <4>1, SubSeqRecursiveSecond
      <3>2. Append(fs, k) = fs \o <<k>>
        BY <2>3, <2>4, AppendIsConcat
      <3>3. fs \o <<k>> = es \o (SubSeq(ks, 1, n) \o <<k>>)
        <4> DEFINE head == SubSeq(ks, 1, n)
                   one == <<k>>
        <4>1. head \in Seq(Literal) /\ one \in Seq(Literal)
          BY <2>3
        <4> HIDE DEF head, one
        <4>2. (es \o head) \o one = es \o (head \o one)
          BY ONLY es \in Seq(Literal), <4>1, Associative, Z3
        <4> QED BY <4>2 DEF head, one
      <3> QED BY <3>1, <3>2, <3>3
    <2>6. f[n + 1] = Merge(f[n], Ends(translate, k))
      BY <1>1, <2>1 DEF Ends, Pair
    <2> HIDE DEF fs, k
    <2>7. translate[k.lhs] \in DOMAIN Top(f[n]).parents /\ translate[k.rhs] \in DOMAIN Top(f[n]).parents
      BY <2>1, <2>2 DEF k
    <2>8. /\ VersionsFor(f[n + 1], Append(fs, k), translate) /\ Len(f[n + 1]) = Len(f[n]) + 1
          /\ \A i \in 1 .. Len(f[n]) : DOMAIN f[n + 1][i].parents = DOMAIN f[n][i].parents
          /\ DOMAIN Top(f[n + 1]).parents = D
      <3>1. OneMore(f[n], Append(fs, k), translate, f[n + 1])
        BY ONLY <2>2, <2>3, <2>4, <2>6, <2>7, OneMoreMerge
      <3> QED BY ONLY <2>2, <3>1 DEF OneMore
    <2>9. ASSUME NEW R, Covers(f[n], R) PROVE Covers(f[n + 1], R)
      <3>1. Len(f[n]) \in Nat /\ Len(f[n]) # 0
        BY <2>2, <2>4, TopVersion
      <3>2. \A i \in 1 .. Len(f[n + 1]) : i \in 1 .. Len(f[n]) \/ i = Len(f[n + 1])
        BY <2>8, <3>1
      <3>3. R \subseteq D
        <4>1. DOMAIN f[n][Len(f[n])].parents = D
          BY ONLY <2>2 DEF Top
        <4>2. Len(f[n]) \in 1 .. Len(f[n])
          BY ONLY <3>1
        <4> HIDE DEF D
        <4> QED BY ONLY <2>9, <4>1, <4>2 DEF Covers
      <3> QED BY <2>8, <2>9, <3>2, <3>3 DEF Covers, Top
    <2> QED BY <2>2, <2>5, <2>8, <2>9
  <1>5. Right(Len(ks))
    <2> HIDE DEF X, Right
    <2>1. Nat \subseteq X
      BY <1>3, <1>4, NumbersFrom0
    <2> QED BY <1>2, <2>1 DEF X
  <1>6. SubSeq(ks, 1, Len(ks)) = ks
    BY SubSeqFull
  <1> QED BY <1>1, <1>5, <1>6

-----------------------------------------------------------------------------
(* The strengthening.                                                      *)

HistoryRight ==
    /\ history \in Seq(Literal) /\ Range(history) = received
    /\ \A i, j \in 1 .. Len(history) : history[i] = history[j] => i = j
    /\ edges = EdgesOf(received)

(* Variables have an index each, those of received literals among them.    *)
TranslationRight ==
    /\ variables \subseteq Var /\ DOMAIN translate \subseteq variables
    /\ translate \in [DOMAIN translate -> Index]
    /\ \A x \in DOMAIN translate : translate[x] < Cardinality(DOMAIN translate)
    /\ \A x, y \in DOMAIN translate : translate[x] = translate[y] => x = y
    /\ need_to_update = (DOMAIN translate # variables)
    /\ \A l \in received : l.lhs \in DOMAIN translate /\ l.rhs \in DOMAIN translate

(* There is a version for every equality received, of those before it.     *)
VersionsRight == VersionsFor(versions, Selected(history, Equalities), translate)

(* If all variables were known before the first add(), all versions have   *)
(* room for them.                                                          *)
RoomForAll ==
    /\ ~late /\ DOMAIN translate # {} =>
          /\ DOMAIN translate = variables
          /\ Covers(versions, {translate[x] : x \in variables})
    /\ failed = "beyond" => late

(* An infeasible subset keeps UNSAT true.                                  *)
AnswersRight ==
    /\ SubsetsMinimal /\ AnswerExact
    /\ mSolverState = "UNSAT" => mInfeasibleSubsets # {}

(* What TypeOK says of the variables that the parts above do not describe. *)
OthersTyped ==
    /\ mSolverState \in {"SAT", "UNSAT", "UNKNOWN"}
    /\ DOMAIN mModel \subseteq variables /\ Range(mModel) \subseteq Index
    /\ phase \in {"idle", "checked", "model"}
    /\ failed \in {"no", "beyond", "unindexed"} /\ late \in BOOLEAN

IInv == /\ HistoryRight /\ TranslationRight /\ VersionsRight /\ RoomForAll
        /\ AnswersRight /\ ModelRight /\ OthersTyped

(* The edges of the received equalities, between indices.                  *)
IndexEdges(t, ls) == {{t[l.lhs], t[l.rhs]} : l \in ls \cap Equalities}

LEMMA Translated ==
  ASSUME NEW t, NEW T, T \subseteq Var, \A x \in T : t[x] \in Index,
         \A x, y \in T : t[x] = t[y] => x = y,
         NEW ls, ls \subseteq Literal, \A l \in ls : l.lhs \in T /\ l.rhs \in T,
         NEW x \in T, NEW y \in T
  PROVE  ConnectedIn(Index, IndexEdges(t, ls), t[x], t[y]) <=> Connected(EdgesOf(ls), x, y)
  <1>1. ASSUME ConnectedIn(Index, IndexEdges(t, ls), t[x], t[y]), NEW S \in SUBSET Var, x \in S,
               \A e \in EdgesOf(ls) : e \cap S = {} \/ e \subseteq S
        PROVE  y \in S
    <2> DEFINE R == {t[z] : z \in S \cap T}
    <2>1. \A z \in T : t[z] \in R <=> z \in S
      OBVIOUS
    <2>2. R \in SUBSET Index /\ t[x] \in R
      BY <1>1
    <2> HIDE DEF R
    <2>3. ASSUME NEW l \in ls \cap Equalities
          PROVE  {t[l.lhs], t[l.rhs]} \cap R = {} \/ {t[l.lhs], t[l.rhs]} \subseteq R
      <3>1. {l.lhs, l.rhs} \in EdgesOf(ls)
        BY DEF EdgesOf, Equalities
      <3>2. {l.lhs, l.rhs} \cap S = {} \/ {l.lhs, l.rhs} \subseteq S
        BY <1>1, <3>1
      <3>3. l.lhs \in S <=> l.rhs \in S
        BY <3>2
      <3> QED BY <2>1, <3>3
    <2>4. \A e \in IndexEdges(t, ls) : e \cap R = {} \/ e \subseteq R
      BY <2>3 DEF IndexEdges
    <2>5. t[y] \in R
      BY <1>1, <2>2, <2>4 DEF ConnectedIn
    <2> QED BY <2>1, <2>5
  <1>2. ASSUME Connected(EdgesOf(ls), x, y), NEW R \in SUBSET Index, t[x] \in R,
               \A e \in IndexEdges(t, ls) : e \cap R = {} \/ e \subseteq R
        PROVE  t[y] \in R
    <2> DEFINE S == {z \in T : t[z] \in R}
    <2>1. S \in SUBSET Var /\ x \in S
      BY <1>2
    <2>2. ASSUME NEW l \in ls, ~l.negated
          PROVE  {l.lhs, l.rhs} \cap S = {} \/ {l.lhs, l.rhs} \subseteq S
      <3>1. {t[l.lhs], t[l.rhs]} \in IndexEdges(t, ls)
        BY <2>2 DEF IndexEdges, Equalities
      <3>2. {t[l.lhs], t[l.rhs]} \cap R = {} \/ {t[l.lhs], t[l.rhs]} \subseteq R
        BY <1>2, <3>1
      <3>3. t[l.lhs] \in R <=> t[l.rhs] \in R
        BY <3>2
      <3> QED BY <3>3
    <2>3. \A e \in EdgesOf(ls) : e \cap S = {} \/ e \subseteq S
      <3> HIDE DEF S
      <3> QED BY <2>2 DEF EdgesOf
    <2>4. y \in S
      <3> HIDE DEF S
      <3> QED BY <1>2, <2>1, <2>3 DEF Connected
    <2> QED BY <2>4
  <1>3. ASSUME ConnectedIn(Index, IndexEdges(t, ls), t[x], t[y])
        PROVE  Connected(EdgesOf(ls), x, y)
    BY <1>1, <1>3 DEF Connected
  <1>4. ASSUME Connected(EdgesOf(ls), x, y)
        PROVE  ConnectedIn(Index, IndexEdges(t, ls), t[x], t[y])
    BY <1>2, <1>4 DEF ConnectedIn
  <1> QED BY <1>3, <1>4

(* The equalities received, in order.                                      *)
LEMMA EqualitiesReceived ==
  ASSUME HistoryRight
  PROVE  LET es == Selected(history, Equalities)
         IN  /\ es \in Seq(Literal) /\ Range(es) = received \cap Equalities
             /\ Len(es) \in Nat /\ DOMAIN es = 1 .. Len(es)
             /\ \A i \in 1 .. Len(es) : es[i] \in received \cap Equalities
  <1> DEFINE es == Selected(history, Equalities)
  <1>1. es \in Seq(Literal) /\ Range(es) = received \cap Equalities
    BY SelectedType DEF HistoryRight
  <1> HIDE DEF es
  <1>2. Len(es) \in Nat /\ DOMAIN es = 1 .. Len(es)
    BY <1>1, LenProperties
  <1>3. \A i \in 1 .. Len(es) : es[i] \in Range(es)
    BY <1>2 DEF Range
  <1> QED BY <1>1, <1>2, <1>3 DEF es

(* Each version tells which variables the equalities before it connect.    *)
LEMMA VersionClasses ==
  ASSUME HistoryRight, TranslationRight, VersionsRight, NEW k \in DOMAIN versions,
         NEW x \in DOMAIN translate, NEW y \in DOMAIN translate,
         translate[x] \in DOMAIN versions[k].parents, translate[y] \in DOMAIN versions[k].parents
  PROVE  Find(versions[k].parents, translate[x]) = Find(versions[k].parents, translate[y])
           <=> Connected(EdgesOf(Range(SubSeq(Selected(history, Equalities), 1, k - 1))), x, y)
  <1> DEFINE es == Selected(history, Equalities)
             fs == SubSeq(es, 1, k - 1)
  <1>1. /\ es \in Seq(Literal) /\ Len(es) \in Nat /\ received \subseteq Literal
        /\ \A i \in 1 .. Len(es) : es[i] \in received \cap Equalities
    <2>1. received \subseteq Literal
      BY RangeOfSeq, LenProperties DEF HistoryRight, Range
    <2> QED BY <2>1, EqualitiesReceived
  <1> HIDE DEF es
  <1>2. VersionsFor(versions, es, translate)
    BY DEF VersionsRight, es
  <1>3. k \in 1 .. Len(versions) /\ Len(versions) = Len(es) + 1
    BY <1>1, <1>2, TopVersion
  <1>4. Holds(versions[k], EdgesBefore(translate, es, k))
    BY <1>2, <1>3 DEF VersionsFor
  <1>5. \A i \in 1 .. k - 1 : i \in 1 .. Len(es)
    BY <1>1, <1>3
  <1>6. /\ fs \in Seq(Literal) /\ Len(fs) = k - 1 /\ \A i \in 1 .. k - 1 : fs[i] = es[i]
    <2>1. \A i \in 1 .. k - 1 : es[i] \in Literal
      BY <1>1, <1>5
    <2>2. /\ fs \in Seq(Literal) /\ Len(fs) = IF 1 <= k - 1 THEN (k - 1) - 1 + 1 ELSE 0
          /\ \A i \in 1 .. (k - 1) - 1 + 1 : fs[i] = es[1 + i - 1]
      <3>1. 1 \in Int /\ k - 1 \in Int
        BY <1>3
      <3> QED BY <2>1, <3>1, SubSeqProperties
    <2> HIDE DEF fs
    <2> QED BY <1>1, <1>3, <2>2
  <1>7. Range(fs) = {es[i] : i \in 1 .. k - 1}
    <2> HIDE DEF fs
    <2> QED BY <1>6, LenProperties DEF Range
  <1>8. Range(fs) \subseteq received \cap Equalities
    BY <1>1, <1>5, <1>7
  <1> HIDE DEF fs
  <1>9. IndexEdges(translate, Range(fs)) = EdgesBefore(translate, es, k)
    BY <1>7, <1>8 DEF IndexEdges, EdgesBefore
  <1>10. ConnectedIn(Index, IndexEdges(translate, Range(fs)), translate[x], translate[y])
           <=> Connected(EdgesOf(Range(fs)), x, y)
    <2> DEFINE t == translate
               T == DOMAIN translate
    <2>1. /\ T \subseteq Var /\ (\A z \in T : t[z] \in Index)
          /\ (\A u, v \in T : t[u] = t[v] => u = v)
          /\ Range(fs) \subseteq Literal /\ \A l \in Range(fs) : l.lhs \in T /\ l.rhs \in T
      BY <1>1, <1>8 DEF TranslationRight
    <2> HIDE DEF t, T
    <2>2. \A u, v \in T : ConnectedIn(Index, IndexEdges(t, Range(fs)), t[u], t[v])
                           <=> Connected(EdgesOf(Range(fs)), u, v)
      BY <2>1, Translated
    <2> QED BY <2>2 DEF t, T
  <1> QED BY <1>4, <1>9, <1>10 DEF fs, es, Holds

LEMMA TopClasses ==
  ASSUME HistoryRight, TranslationRight, VersionsRight,
         NEW x \in DOMAIN translate, NEW y \in DOMAIN translate,
         translate[x] \in DOMAIN Top(versions).parents,
         translate[y] \in DOMAIN Top(versions).parents
  PROVE  Find(Top(versions).parents, translate[x]) = Find(Top(versions).parents, translate[y])
           <=> Connected(edges, x, y)
  <1> DEFINE es == Selected(history, Equalities)
             k == Len(versions)
  <1>1. es \in Seq(Literal) /\ Range(es) = received \cap Equalities /\ Len(es) \in Nat
    BY EqualitiesReceived
  <1>2. VersionsFor(versions, es, translate)
    BY DEF VersionsRight
  <1> HIDE DEF es
  <1>3. k \in DOMAIN versions /\ k - 1 = Len(es) /\ Top(versions) = versions[k]
    BY <1>1, <1>2, TopVersion DEF Top
  <1>4. SubSeq(es, 1, k - 1) = es
    BY <1>1, <1>3, SubSeqFull
  <1>5. edges = EdgesOf(Range(es))
    <2>1. {l \in received : ~l.negated} = {l \in Range(es) : ~l.negated}
      <3>1. received \subseteq Literal
        BY RangeOfSeq, LenProperties DEF HistoryRight, Range
      <3> QED BY <1>1, <3>1 DEF Equalities
    <2> QED BY <2>1 DEF HistoryRight, EdgesOf
  <1> HIDE DEF k
  <1> QED BY <1>3, <1>4, <1>5, VersionClasses DEF es

(* Where a received literal is in the history.                             *)
LEMMA HistorySplit ==
  ASSUME HistoryRight, NEW l \in received
  PROVE  \E a, b \in Seq(Literal) :
            /\ history = (a \o <<l>>) \o b /\ l \notin Range(a) /\ l \notin Range(b)
            /\ RemoveAt(history, PositionOf(l)) = a \o b
            /\ TailAfter(l) = b
            /\ Range(a \o b) = received \ {l}
            /\ \A i, j \in 1 .. Len(a \o b) : (a \o b)[i] = (a \o b)[j] => i = j
  <1>1. history \in Seq(Literal) /\ Len(history) \in Nat /\ DOMAIN history = 1 .. Len(history)
        /\ \A i \in 1 .. Len(history) : history[i] \in Literal
    BY LenProperties, ElementOfSeq DEF HistoryRight
  <1>2. PICK p \in 1 .. Len(history) : history[p] = l
    BY <1>1 DEF HistoryRight, Range
  <1>3. PositionOf(l) = p
    <2>1. \A j \in DOMAIN history : history[j] = l <=> j = p
      BY <1>1, <1>2 DEF HistoryRight
    <2> QED BY <1>1, <1>2, <2>1 DEF LastIndexIn, PositionOf
  <1> DEFINE a == SubSeq(history, 1, p - 1)
             b == SubSeq(history, p + 1, Len(history))
  <1>4. /\ a \in Seq(Literal) /\ Len(a) = p - 1 /\ \A i \in 1 .. p - 1 : a[i] = history[i]
    <2>1. \A i \in 1 .. p - 1 : history[i] \in Literal
      BY <1>1, <1>2
    <2>2. /\ a \in Seq(Literal) /\ Len(a) = IF 1 <= p - 1 THEN (p - 1) - 1 + 1 ELSE 0
          /\ \A i \in 1 .. (p - 1) - 1 + 1 : a[i] = history[1 + i - 1]
      <3>1. 1 \in Int /\ p - 1 \in Int
        BY <1>1
      <3> QED BY ONLY <2>1, <3>1, SubSeqProperties
    <2> HIDE DEF a
    <2>3. p \in Nat /\ p >= 1
      BY <1>1
    <2> QED BY ONLY <2>2, <2>3
  <1>5. /\ b \in Seq(Literal) /\ Len(b) = Len(history) - p
        /\ \A i \in 1 .. Len(history) - p : b[i] = history[p + i]
    <2>1. \A i \in p + 1 .. Len(history) : history[i] \in Literal
      BY <1>1, <1>2
    <2>2. /\ b \in Seq(Literal)
          /\ Len(b) = IF p + 1 <= Len(history) THEN Len(history) - (p + 1) + 1 ELSE 0
          /\ \A i \in 1 .. Len(history) - (p + 1) + 1 : b[i] = history[(p + 1) + i - 1]
      <3>1. p + 1 \in Int /\ Len(history) \in Int
        BY <1>1
      <3> QED BY ONLY <2>1, <3>1, SubSeqProperties
    <2> DEFINE n == Len(history)
    <2>3. n \in Nat /\ p \in 1 .. n
      BY <1>1
    <2>4. /\ b \in Seq(Literal) /\ Len(b) = IF p + 1 <= n THEN n - (p + 1) + 1 ELSE 0
          /\ \A i \in 1 .. n - (p + 1) + 1 : b[i] = history[(p + 1) + i - 1]
      BY ONLY <2>2
    <2> HIDE DEF b, n
    <2>5. n - (p + 1) + 1 = n - p /\ (IF p + 1 <= n THEN n - p ELSE 0) = n - p
      BY ONLY <2>3
    <2>6. \A i \in 1 .. n - p : (p + 1) + i - 1 = p + i
      BY ONLY <2>3
    <2>7. /\ b \in Seq(Literal) /\ Len(b) = n - p
          /\ \A i \in 1 .. n - p : b[i] = history[p + i]
      <3>1. n - (p + 1) + 1 = n - p /\ Len(b) = n - p
        BY ONLY <2>4, <2>5, Zenon
      <3>2. \A i \in 1 .. n - p : b[i] = history[(p + 1) + i - 1]
        BY ONLY <2>4, <3>1, Zenon
      <3>3. \A i \in 1 .. n - p : b[i] = history[p + i]
        BY ONLY <2>6, <3>2, Zenon
      <3> QED BY ONLY <2>4, <3>1, <3>3, Zenon
    <2> QED BY ONLY <2>7, Zenon DEF n
  <1>6. history = (a \o <<l>>) \o b
    <2>1. SubSeq(history, 1, p) = a \o <<l>>
      BY <1>1, <1>2, SubSeqRecursiveSecond
    <2>2. SubSeq(history, 1, p) \o b = SubSeq(history, 1, Len(history))
      <3>1. 1 \in 1 .. Len(history) + 1 /\ p \in 1 - 1 .. Len(history) /\ Len(history) \in p .. Len(history)
        BY <1>1
      <3>2. history \in Seq(Literal)
        BY <1>1
      <3> QED BY ONLY <3>1, <3>2, ConcatAdjacentSubSeq, Zenon
    <2>3. SubSeq(history, 1, Len(history)) = history
      BY <1>1, SubSeqFull
    <2> HIDE DEF a, b
    <2> QED BY ONLY <2>1, <2>2, <2>3, Zenon
  <1>7. RemoveAt(history, p) = a \o b /\ TailAfter(l) = b
    BY <1>3 DEF RemoveAt, TailAfter
  <1> HIDE DEF a, b
  <1>8. l \notin Range(a)
    <2>1. \A i \in 1 .. p - 1 : i \in 1 .. Len(history) /\ i # p
      BY ONLY <1>1, p \in 1 .. Len(history)
    <2> QED BY <1>2, <1>4, <2>1, LenProperties DEF HistoryRight, Range
  <1>9. l \notin Range(b)
    <2>1. \A i \in 1 .. Len(history) - p : p + i \in 1 .. Len(history) /\ p + i # p
      BY ONLY <1>1, p \in 1 .. Len(history)
    <2> QED BY <1>2, <1>5, <2>1, LenProperties DEF HistoryRight, Range
  <1> DEFINE n == Len(history)
             c == a \o b
  <1>10. n \in Nat /\ p \in 1 .. n
    BY <1>1
  <1>11. c \in Seq(Literal) /\ Len(c) = n - 1 /\ DOMAIN c = 1 .. n - 1
         /\ \A i \in 1 .. n - 1 : c[i] = history[IF i < p THEN i ELSE i + 1]
    <2>1. /\ c \in Seq(Literal) /\ Len(c) = (p - 1) + (n - p)
          /\ \A i \in 1 .. (p - 1) + (n - p) : c[i] = IF i <= p - 1 THEN a[i] ELSE b[i - (p - 1)]
      <3>1. /\ c \in Seq(Literal) /\ Len(c) = Len(a) + Len(b)
            /\ \A i \in 1 .. Len(a) + Len(b) : c[i] = IF i <= Len(a) THEN a[i] ELSE b[i - Len(a)]
        BY <1>4, <1>5, ConcatProperties
      <3>2. Len(a) = p - 1 /\ Len(b) = n - p
        BY <1>4, <1>5
      <3> HIDE DEF c, n
      <3> QED BY <3>1, <3>2
    <2> HIDE DEF n, c
    <2>2. (p - 1) + (n - p) = n - 1
      BY <1>10
    <2>3. ASSUME NEW i \in 1 .. n - 1 PROVE c[i] = history[IF i < p THEN i ELSE i + 1]
      <3>1. CASE i < p
        <4>1. i <= p - 1 /\ i \in 1 .. p - 1
          BY <1>10, <3>1
        <4> QED BY <1>4, <2>1, <2>2, <3>1, <4>1
      <3>2. CASE ~(i < p)
        <4>1. ~(i <= p - 1) /\ i - (p - 1) \in 1 .. n - p /\ p + (i - (p - 1)) = i + 1
          BY <1>10, <3>2
        <4>2. c[i] = b[i - (p - 1)]
          BY <2>1, <2>2, <4>1
        <4>3. b[i - (p - 1)] = history[i + 1]
          BY <1>5, <4>1 DEF n
        <4> QED BY <3>2, <4>2, <4>3
      <3> QED BY <3>1, <3>2
    <2>4. DOMAIN c = 1 .. n - 1
      BY <2>1, <2>2, LenProperties
    <2> QED BY <2>1, <2>2, <2>3, <2>4
  <1> HIDE DEF c
  <1>12. \A i, j \in 1 .. Len(c) : c[i] = c[j] => i = j
    <2> SUFFICES ASSUME NEW i \in 1 .. Len(c), NEW j \in 1 .. Len(c), c[i] = c[j] PROVE i = j
      OBVIOUS
    <2> DEFINE u == IF i < p THEN i ELSE i + 1
               v == IF j < p THEN j ELSE j + 1
    <2>1. u \in 1 .. n /\ v \in 1 .. n /\ (u = v => i = j)
      <3>1. /\ u = IF i < p THEN i ELSE i + 1
            /\ v = IF j < p THEN j ELSE j + 1
            /\ Len(c) = n - 1
        BY <1>11
      <3>2. i \in 1 .. n - 1 /\ j \in 1 .. n - 1
        BY <3>1
      <3> HIDE DEF n, u, v
      <3> QED BY ONLY <1>10, <3>1, <3>2
    <2>2. c[i] = history[u] /\ c[j] = history[v]
      BY <1>11
    <2> HIDE DEF u, v
    <2> QED BY <2>1, <2>2 DEF HistoryRight
  <1>13. Range(c) = received \ {l}
    <2>1. ASSUME NEW i \in 1 .. n - 1 PROVE c[i] \in received \ {l}
      <3> DEFINE u == IF i < p THEN i ELSE i + 1
      <3>1. u \in 1 .. n /\ u # p
        <4>1. u = IF i < p THEN i ELSE i + 1
          OBVIOUS
        <4> HIDE DEF n, u
        <4> QED BY ONLY <1>10, <4>1, i \in 1 .. n - 1
      <3>2. c[i] = history[u]
        BY <1>11
      <3> HIDE DEF u
      <3> QED BY <1>1, <1>2, <3>1, <3>2 DEF HistoryRight, Range
    <2>2. ASSUME NEW k \in received \ {l} PROVE \E i \in 1 .. n - 1 : c[i] = k
      <3>1. PICK u \in 1 .. n : history[u] = k
        BY <1>1 DEF HistoryRight, Range
      <3>2. u # p
        BY <1>2, <3>1
      <3> DEFINE i == IF u < p THEN u ELSE u - 1
      <3>3. i \in 1 .. n - 1 /\ u = IF i < p THEN i ELSE i + 1
        <4>1. i = IF u < p THEN u ELSE u - 1
          OBVIOUS
        <4> HIDE DEF n, i
        <4> QED BY ONLY <1>10, <3>2, <4>1, u \in 1 .. n
      <3> HIDE DEF i
      <3> QED BY <1>11, <3>1, <3>3
    <2>3. DOMAIN c = 1 .. n - 1
      BY <1>11
    <2> HIDE DEF n
    <2> DEFINE D == 1 .. n - 1
    <2> HIDE DEF D
    <2>4. \A i \in D : c[i] \in received \ {l}
      BY ONLY <2>1, Zenon DEF D
    <2>5. \A k \in received \ {l} : \E i \in D : c[i] = k
      BY ONLY <2>2, Zenon DEF D
    <2>6. DOMAIN c = D
      BY ONLY <2>3, Zenon DEF D
    <2> QED BY ONLY <2>4, <2>5, <2>6 DEF Range
  <1> QED BY <1>3, <1>4, <1>5, <1>6, <1>7, <1>8, <1>9, <1>12, <1>13 DEF c

-----------------------------------------------------------------------------
(* Each part of the strengthening, action by action.                       *)

(* An edge has one equality.                                               *)
LEMMA OneEqualityPerEdge ==
  ASSUME NEW k \in Literal, NEW l \in Literal, ~k.negated, ~l.negated,
         {k.lhs, k.rhs} = {l.lhs, l.rhs}
  PROVE  k = l
  <1>1. k \in [lhs : Var, rhs : Var, negated : BOOLEAN] /\ l \in [lhs : Var, rhs : Var, negated : BOOLEAN]
    BY UnionFindAssumption
  <1>2. k.lhs # k.rhs /\ l.lhs # l.rhs /\ (k.lhs = l.rhs => k.rhs # l.lhs)
    BY UnionFindAssumption
  <1>3. k.lhs = l.lhs /\ k.rhs = l.rhs
    BY <1>2
  <1> QED BY <1>1, <1>3

LEMMA EdgeRemoved ==
  ASSUME NEW ls, ls \subseteq Literal, NEW l \in ls
  PROVE  EdgesOf(ls \ {l}) = IF l.negated THEN EdgesOf(ls) ELSE EdgesOf(ls) \ {{l.lhs, l.rhs}}
  <1>1. CASE l.negated
    <2>1. {k \in ls : ~k.negated} = {k \in ls \ {l} : ~k.negated}
      BY <1>1
    <2> QED BY <1>1, <2>1 DEF EdgesOf
  <1>2. CASE ~l.negated
    <2>1. \A k \in ls : ~k.negated /\ k # l => {k.lhs, k.rhs} # {l.lhs, l.rhs}
      BY <1>2, OneEqualityPerEdge
    <2>2. \A e \in EdgesOf(ls \ {l}) : e \in EdgesOf(ls) /\ e # {l.lhs, l.rhs}
      BY <2>1 DEF EdgesOf
    <2>3. ASSUME NEW e \in EdgesOf(ls), e # {l.lhs, l.rhs} PROVE e \in EdgesOf(ls \ {l})
      <3>1. PICK k \in ls : ~k.negated /\ e = {k.lhs, k.rhs}
        BY <2>3 DEF EdgesOf
      <3>2. k # l
        BY <2>3, <3>1
      <3> QED BY <3>1, <3>2 DEF EdgesOf
    <2> QED BY <1>2, <2>2, <2>3
  <1> QED BY <1>1, <1>2

LEMMA ReceivedLiterals ==
  ASSUME HistoryRight PROVE received \subseteq Literal
  BY RangeOfSeq, LenProperties DEF HistoryRight, Range

LEMMA HistoryPreserved ==
  ASSUME IInv, [Next]_vars PROVE HistoryRight'
  <1>0. HistoryRight
    BY DEF IInv
  <1>1. ASSUME NEW l \in Literal, Inform(l) PROVE HistoryRight'
    BY <1>0, <1>1 DEF HistoryRight, Inform, literalVars
  <1>2. ASSUME NEW l \in Literal, Add(l) PROVE HistoryRight'
    <2>1. received' = received \cup {l} /\ history' = Append(history, l) /\ l \notin received
      BY <1>2 DEF Add, MayAdd
    <2>2. edges' = IF l.negated THEN edges ELSE edges \cup {{l.lhs, l.rhs}}
      BY <1>2 DEF Add
    <2>3. /\ history \in Seq(Literal) /\ Range(history) = received /\ edges = EdgesOf(received)
          /\ \A i, j \in 1 .. Len(history) : history[i] = history[j] => i = j
      BY <1>0 DEF HistoryRight
    <2>4. history' \in Seq(Literal) /\ Range(history') = received'
      BY <2>1, <2>3, AppendProperties, AppendRange
    <2>5. ASSUME NEW i \in 1 .. Len(history'), NEW j \in 1 .. Len(history'), history'[i] = history'[j]
          PROVE  i = j
      <3>1. /\ Len(history) \in Nat /\ Len(history') = Len(history) + 1
            /\ history'[Len(history) + 1] = l
            /\ \A k \in 1 .. Len(history) : history'[k] = history[k]
        BY <2>1, <2>3, AppendProperties, LenProperties
      <3>2. \A k \in 1 .. Len(history) : history[k] \in received
        BY <2>3, LenProperties DEF Range
      <3>3. \A k \in 1 .. Len(history') : k \in 1 .. Len(history) \/ k = Len(history) + 1
        BY <3>1
      <3> QED BY <2>1, <2>3, <2>5, <3>1, <3>2, <3>3
    <2>6. edges' = EdgesOf(received')
      <3>1. CASE l.negated
        <4>1. {k \in received : ~k.negated} = {k \in received \cup {l} : ~k.negated}
          BY <3>1
        <4> QED BY <2>1, <2>2, <2>3, <3>1, <4>1 DEF EdgesOf
      <3>2. CASE ~l.negated
        <4>1. {k \in received \cup {l} : ~k.negated} = {k \in received : ~k.negated} \cup {l}
          BY <3>2
        <4> QED BY <2>1, <2>2, <2>3, <3>2, <4>1 DEF EdgesOf
      <3> QED BY <3>1, <3>2
    <2> QED BY <2>4, <2>5, <2>6 DEF HistoryRight
  <1>3. ASSUME NEW l \in Literal, RemoveLiteral(l) PROVE HistoryRight'
    <2>1. /\ l \in received /\ received' = received \ {l}
          /\ history' = RemoveAt(history, PositionOf(l))
      BY <1>3 DEF RemoveLiteral
    <2>2. edges' = IF l.negated THEN edges ELSE edges \ {{l.lhs, l.rhs}}
      BY <1>3 DEF RemoveLiteral
    <2>3. PICK a \in Seq(Literal), b \in Seq(Literal) :
            /\ RemoveAt(history, PositionOf(l)) = a \o b
            /\ Range(a \o b) = received \ {l}
            /\ \A i, j \in 1 .. Len(a \o b) : (a \o b)[i] = (a \o b)[j] => i = j
      <3>1. l \in received
        BY <2>1
      <3> QED BY ONLY <1>0, <3>1, HistorySplit, ZenonT(30)
    <2>4. edges' = EdgesOf(received')
      BY <1>0, <2>1, <2>2, EdgeRemoved, ReceivedLiterals DEF HistoryRight
    <2>5. a \o b \in Seq(Literal)
      BY ConcatProperties
    <2> QED BY <2>1, <2>3, <2>4, <2>5 DEF HistoryRight
  <1>4. CASE CheckEmpty \/ Check \/ UpdateModel \/ Fail \/ UNCHANGED vars
    BY <1>0, <1>4 DEF HistoryRight, CheckEmpty, Check, UpdateModel, Fail, vars, literalVars
  <1> QED BY <1>1, <1>2, <1>3, <1>4 DEF Next

LEMMA TranslationPreserved ==
  ASSUME IInv, [Next]_vars PROVE TranslationRight'
  <1>0. TranslationRight /\ IsFiniteSet(Var)
    BY UnionFindAssumption DEF IInv
  <1>1. ASSUME NEW l \in Literal, Inform(l) PROVE TranslationRight'
    <2>1. /\ variables' = variables \cup {l.lhs, l.rhs} /\ translate' = translate
          /\ received' = received /\ need_to_update' = (need_to_update \/ variables' # variables)
      BY <1>1 DEF Inform, literalVars
    <2>2. l.lhs \in Var /\ l.rhs \in Var
      BY UnionFindAssumption
    <2>3. need_to_update' = (DOMAIN translate # variables')
      <3>1. need_to_update = (DOMAIN translate # variables) /\ DOMAIN translate \subseteq variables
        BY <1>0 DEF TranslationRight
      <3> QED BY <2>1, <3>1
    <2> QED BY <1>0, <2>1, <2>2, <2>3 DEF TranslationRight
  <1>2. ASSUME NEW l \in Literal, Add(l) PROVE TranslationRight'
    <2>1. /\ variables' = variables /\ received' = received \cup {l} /\ need_to_update' = FALSE
          /\ l.lhs \in variables /\ l.rhs \in variables
      BY <1>2 DEF Add, MayAdd
    <2>2. CASE need_to_update /\ translate' \in Translations
      <3>1. /\ translate' \in [variables -> 0 .. Cardinality(variables) - 1]
            /\ DOMAIN translate' = variables
            /\ \A x, y \in DOMAIN translate' : translate'[x] = translate'[y] => x = y
        BY <2>2 DEF Translations, IsInjective
      <3>2. variables \subseteq Var /\ Cardinality(variables) \in Nat
            /\ Cardinality(variables) <= Cardinality(Var)
        BY <1>0, FS_Subset, FS_CardinalityType DEF TranslationRight
      <3>3. \A x \in variables : translate'[x] \in Index /\ translate'[x] < Cardinality(variables)
        BY <3>1, <3>2, IndexType DEF Index
      <3>4. translate' \in [variables -> Index]
        BY <3>1, <3>3
      <3>5. \A k \in received : k.lhs \in variables /\ k.rhs \in variables
        BY <1>0 DEF TranslationRight
      <3> QED BY <2>1, <3>1, <3>2, <3>3, <3>4, <3>5 DEF TranslationRight
    <2>3. CASE ~need_to_update /\ UNCHANGED translate
      <3>1. DOMAIN translate = variables
        BY <1>0, <2>3 DEF TranslationRight
      <3> QED BY <1>0, <2>1, <2>3, <3>1 DEF TranslationRight
    <2> QED BY <1>2, <2>2, <2>3 DEF Add
  <1>3. ASSUME NEW l \in Literal, RemoveLiteral(l) PROVE TranslationRight'
    BY <1>0, <1>3 DEF TranslationRight, RemoveLiteral
  <1>4. CASE CheckEmpty \/ Check \/ UpdateModel \/ Fail \/ UNCHANGED vars
    BY <1>0, <1>4 DEF TranslationRight, CheckEmpty, Check, UpdateModel, Fail, vars, literalVars,
                      classVars
  <1> QED BY <1>1, <1>2, <1>3, <1>4 DEF Next

LEMMA CoversTop ==
  ASSUME NEW ws, NEW xs, NEW R, Len(ws) \in Nat \ {0}, Len(xs) \in Nat \ {0}, Covers(ws, R),
         Len(xs) = Len(ws) \/ Len(xs) = Len(ws) + 1,
         \A k \in 1 .. Len(xs) - 1 : DOMAIN xs[k].parents = DOMAIN ws[k].parents,
         R \subseteq DOMAIN Top(xs).parents
  PROVE  Covers(xs, R)
  <1> SUFFICES ASSUME NEW k \in 1 .. Len(xs) PROVE R \subseteq DOMAIN xs[k].parents
    BY DEF Covers
  <1>1. k = Len(xs) \/ (k \in 1 .. Len(xs) - 1 /\ k \in 1 .. Len(ws))
    OBVIOUS
  <1> QED BY <1>1 DEF Covers, Top

LEMMA AddedVersions ==
  ASSUME IInv, NEW l \in Literal, Add(l) PROVE VersionsRight' /\ RoomForAll'
  <1> DEFINE es == Selected(history, Equalities)
             t == translate
             u == translate'
             R == {u[x] : x \in variables}
             size == Cardinality(variables)
             vs == IF need_to_update THEN Initialised(versions) ELSE versions
  <1>1. HistoryRight /\ TranslationRight /\ VersionsRight /\ RoomForAll
    BY DEF IInv
  <1>2. /\ es \in Seq(Literal) /\ Len(es) \in Nat /\ Range(es) = received \cap Equalities
        /\ \A i \in 1 .. Len(es) : es[i] \in received
    BY <1>1, EqualitiesReceived
  <1>3. VersionsFor(versions, es, t)
    BY <1>1 DEF VersionsRight
  <1> HIDE DEF es
  <1>4. /\ l.lhs \in variables /\ l.rhs \in variables /\ variables' = variables
        /\ late' = late /\ failed' = failed /\ failed = "no" /\ history' = Append(history, l)
        /\ translate' \in Translations \/ (~need_to_update /\ translate' = translate)
    BY DEF Add, MayAdd
  <1>5. size \in Nat /\ size \in Index
    <2>1. variables \subseteq Var /\ IsFiniteSet(Var)
      BY <1>1, UnionFindAssumption DEF TranslationRight
    <2>2. size \in Nat /\ size <= Cardinality(Var) /\ Cardinality(Var) \in Nat
      BY <2>1, FS_Subset, FS_CardinalityType
    <2> HIDE DEF size
    <2> QED BY <2>2 DEF Index
  <1>6. (\A x \in DOMAIN t : u[x] = t[x]) /\ DOMAIN u = variables
        /\ (translate' \in Translations => \A x \in variables : u[x] \in 0 .. size - 1)
    <2>1. CASE translate' \in Translations
      BY <2>1 DEF Translations
    <2>2. CASE ~need_to_update /\ translate' = translate
      <3>1. DOMAIN t = variables
        BY <1>1, <2>2 DEF TranslationRight
      <3> QED BY <2>2, <3>1 DEF Translations
    <2> QED BY <1>4, <2>1, <2>2
  <1>7. VersionsFor(versions, es, u)
    <2>1. \A i \in 1 .. Len(es) : u[es[i].lhs] = t[es[i].lhs] /\ u[es[i].rhs] = t[es[i].rhs]
      BY <1>1, <1>2, <1>6 DEF TranslationRight
    <2> HIDE DEF t, u
    <2> QED BY <1>2, <1>3, <2>1, Retranslated
  <1>8. /\ VersionsFor(vs, es, u) /\ Len(vs) = Len(versions)
        /\ \A k \in 1 .. Len(versions) - 1 : vs[k] = versions[k]
        /\ need_to_update => 0 .. size \subseteq DOMAIN Top(vs).parents
    <2>1. CASE need_to_update
      <3>1. vs = [versions EXCEPT ![Len(versions)] = Resized(@, size)]
        BY <2>1 DEF Initialised
      <3> HIDE DEF vs, u, size
      <3>2. /\ VersionsFor(vs, es, u) /\ Len(vs) = Len(versions)
            /\ \A k \in 1 .. Len(versions) - 1 : vs[k] = versions[k]
            /\ DOMAIN Top(vs).parents = DOMAIN Top(versions).parents \cup 0 .. size
        <4> DEFINE xs == [versions EXCEPT ![Len(versions)] = Resized(@, size)]
        <4>1. /\ VersionsFor(xs, es, u) /\ Len(xs) = Len(versions)
              /\ \A k \in 1 .. Len(versions) - 1 : xs[k] = versions[k]
              /\ DOMAIN Top(xs).parents = DOMAIN Top(versions).parents \cup 0 .. size
          BY <1>2, <1>5, <1>7, TopResized
        <4> HIDE DEF xs
        <4>2. vs = xs
          BY <3>1 DEF xs
        <4> QED BY <4>1, <4>2
      <3> QED BY <3>2
    <2>2. CASE ~need_to_update
      BY <1>7, <2>2
    <2> QED BY <2>1, <2>2
  <1>9. Len(versions) = Len(es) + 1 /\ Len(versions) \in Nat \ {0}
    BY <1>2, <1>3, TopVersion
  <1>10. ASSUME ~late PROVE Covers(vs, R)
    <2>1. CASE DOMAIN t # {}
      <3>1. DOMAIN t = variables /\ Covers(versions, {t[x] : x \in variables}) /\ ~need_to_update
        BY <1>1, <1>10, <2>1 DEF RoomForAll, TranslationRight
      <3>2. {t[x] : x \in variables} = R
        BY <1>6, <3>1
      <3> QED BY <3>1, <3>2
    <2>2. CASE DOMAIN t = {}
      <3>1. received = {} /\ need_to_update
        BY <1>1, <1>4, <2>2 DEF TranslationRight
      <3>2. Len(es) = 0
        <4>1. ~(1 \in 1 .. Len(es))
          BY <1>2, <3>1
        <4> QED BY <1>2, <4>1
      <3>3. Len(vs) = 1
        BY <1>8, <1>9, <3>2
      <3>4. \A x \in variables : u[x] \in 0 .. size
        BY <1>4, <1>5, <1>6, <3>1
      <3>5. R \subseteq DOMAIN Top(vs).parents
        <4> HIDE DEF u, vs, size
        <4> QED BY <1>8, <3>1, <3>4
      <3> HIDE DEF vs, R
      <3> QED BY <3>3, <3>5 DEF Covers, Top
    <2> QED BY <2>1, <2>2
  <1> DEFINE fs == Selected(history', Equalities)
  <1>11. fs = IF l.negated THEN es ELSE Append(es, l)
    <2>1. history \in Seq(Literal)
      BY <1>1 DEF HistoryRight
    <2>2. Selected(Append(history, l), Equalities)
            = IF l \in Equalities THEN Append(Selected(history, Equalities), l)
                                  ELSE Selected(history, Equalities)
      BY <2>1, SelectedAppend
    <2> QED BY <1>4, <2>2 DEF Equalities, es
  <1> HIDE DEF fs
  <1>12. VersionsFor(versions', fs, u) /\ (~late => Covers(versions', R))
    <2>1. CASE l.negated
      <3>1. versions' = vs
        BY <2>1 DEF Add
      <3> HIDE DEF vs, u, R
      <3> QED BY <1>8, <1>10, <1>11, <2>1, <3>1
    <2>2. CASE ~l.negated
      <3>1. /\ versions' = Merge(vs, Ends(u, l))
            /\ u[l.lhs] \in DOMAIN Top(vs).parents /\ u[l.rhs] \in DOMAIN Top(vs).parents
        <4>1. /\ InRange(vs, {<<u[l.lhs], u[l.rhs]>>[1], <<u[l.lhs], u[l.rhs]>>[2]})
              /\ versions' = Merge(vs, <<u[l.lhs], u[l.rhs]>>)
          BY <2>2 DEF Add
        <4> HIDE DEF vs, u
        <4> QED BY <4>1 DEF InRange, Ends
      <3> HIDE DEF vs, u, R
      <3>2. /\ VersionsFor(versions', Append(es, l), u) /\ Len(versions') = Len(vs) + 1
            /\ \A k \in 1 .. Len(vs) : DOMAIN versions'[k].parents = DOMAIN vs[k].parents
            /\ DOMAIN Top(versions').parents = DOMAIN Top(vs).parents
        <4>1. OneMore(vs, Append(es, l), u, versions')
          BY <1>2, <1>8, <3>1, OneMoreMerge
        <4> QED BY ONLY <4>1 DEF OneMore
      <3>3. ASSUME ~late PROVE Covers(versions', R)
        <4>1. Len(vs) \in Nat \ {0} /\ Len(versions') \in Nat \ {0} /\ Covers(vs, R)
          BY <1>8, <1>9, <1>10, <3>2, <3>3
        <4>2. R \subseteq DOMAIN Top(versions').parents
          BY <3>2, <4>1 DEF Covers, Top
        <4>3. \A k \in 1 .. Len(versions') - 1 : DOMAIN versions'[k].parents = DOMAIN vs[k].parents
          BY <3>2, <4>1
        <4> QED BY <3>2, <4>1, <4>2, <4>3, CoversTop
      <3> QED BY <1>11, <2>2, <3>2, <3>3
    <2> QED BY <2>1, <2>2
  <1>13. VersionsRight'
    BY <1>12 DEF VersionsRight, fs
  <1>14. RoomForAll'
    <2>1. R = {translate'[x] : x \in variables'}
      BY <1>4
    <2> QED BY <1>4, <1>6, <1>12, <2>1 DEF RoomForAll
  <1> QED BY <1>13, <1>14

(* backtrack() goes back to the version before the equality.               *)
LEMMA BacktrackedTo ==
  ASSUME HistoryRight, TranslationRight, VersionsRight, NEW l \in received, ~l.negated,
         NEW A \in Seq(Literal), NEW B \in Seq(Literal),
         Selected(history, Equalities) = Append(A, l) \o B, l \notin Range(A), l \notin Range(B)
  PROVE  /\ Backtracked(versions, Pair(l)) = SubSeq(versions, 1, Len(A) + 1)
         /\ VersionsFor(SubSeq(versions, 1, Len(A) + 1), A, translate)
  <1> DEFINE es == Selected(history, Equalities)
             n == Len(A)
             t == translate
  <1>1. /\ es \in Seq(Literal) /\ received \subseteq Literal
        /\ \A i \in 1 .. Len(es) : es[i] \in received \cap Equalities
    BY EqualitiesReceived, ReceivedLiterals
  <1>2. VersionsFor(versions, es, t)
    BY DEF VersionsRight
  <1>3. es = Append(A, l) \o B
    OBVIOUS
  <1>4. /\ Append(A, l) \in Seq(Literal) /\ Len(Append(A, l)) = n + 1 /\ n \in Nat /\ Len(B) \in Nat
        /\ Append(A, l)[n + 1] = l /\ \A i \in 1 .. n : Append(A, l)[i] = A[i]
    BY <1>1, AppendProperties, LenProperties
  <1> HIDE DEF es
  <1>5. Len(es) = n + 1 + Len(B)
        /\ \A i \in 1 .. n + 1 + Len(B) : es[i] = IF i <= n + 1 THEN Append(A, l)[i] ELSE B[i - (n + 1)]
    BY <1>3, <1>4, ConcatProperties
  <1>6. ASSUME NEW i \in 1 .. Len(es), i # n + 1 PROVE es[i] # l
    <2>1. CASE i <= n
      <3>1. i \in 1 .. n /\ es[i] = A[i]
        BY <1>4, <1>5, <2>1
      <3> QED BY <3>1, LenProperties DEF Range
    <2>2. CASE i > n + 1
      <3>1. i - (n + 1) \in 1 .. Len(B) /\ es[i] = B[i - (n + 1)]
        BY <1>4, <1>5, <2>2
      <3> QED BY <3>1, LenProperties DEF Range
    <2> QED BY <1>4, <1>6, <2>1, <2>2
  <1>7. n + 1 \in 1 .. Len(es) /\ es[n + 1] = l
    BY <1>4, <1>5
  <1>8. /\ versions \in Seq(Version) /\ Len(versions) = Len(es) + 1 /\ Len(es) \in Nat
        /\ DOMAIN versions = 1 .. Len(versions)
    BY <1>1, <1>2, TopVersion
  <1>9. versions[n + 2].merged = Pair(l)
    <2>1. versions[(n + 1) + 1].merged = Ends(t, es[n + 1])
      BY <1>2, <1>7 DEF VersionsFor
    <2>2. (n + 1) + 1 = n + 2
      BY <1>4
    <2> QED BY <1>7, <2>1, <2>2 DEF Ends, Pair
  <1>10. l.lhs # l.rhs /\ l.lhs \in DOMAIN t /\ l.rhs \in DOMAIN t /\ l \in Literal
    BY <1>1, UnionFindAssumption DEF TranslationRight
  <1>11. ASSUME NEW j \in 1 .. Len(versions), j # n + 2 PROVE versions[j].merged # Pair(l)
    <2>1. CASE j = 1
      <3>1. versions[1].merged = <<0, 0>>
        BY <1>2 DEF VersionsFor
      <3>2. t[l.lhs] # t[l.rhs]
        BY <1>10 DEF TranslationRight
      <3> QED BY <2>1, <3>1, <3>2 DEF Pair
    <2>2. CASE j # 1
      <3> DEFINE i == j - 1
      <3>1. i \in 1 .. Len(es) /\ i # n + 1 /\ j = i + 1
        BY <1>4, <1>8, <1>11, <2>2
      <3> HIDE DEF i
      <3> DEFINE k == es[i]
      <3>2. versions[j].merged = Ends(t, k)
        BY <1>2, <3>1 DEF VersionsFor
      <3>3. k # l /\ k \in received /\ k \in Literal /\ ~k.negated
        BY <1>1, <1>6, <3>1 DEF Equalities
      <3>4. k.lhs \in DOMAIN t /\ k.rhs \in DOMAIN t
        BY <3>3 DEF TranslationRight
      <3> HIDE DEF k
      <3>5. SUFFICES ASSUME Ends(t, k) = Pair(l) PROVE FALSE
        BY <3>2
      <3>6. t[k.lhs] = t[l.lhs] /\ t[k.rhs] = t[l.rhs]
        BY <3>5 DEF Ends, Pair
      <3>7. k.lhs = l.lhs /\ k.rhs = l.rhs
        BY <1>10, <3>4, <3>6 DEF TranslationRight
      <3> QED BY <1>10, <3>3, <3>7, OneEqualityPerEdge
    <2> QED BY <2>1, <2>2
  <1>12. Backtracked(versions, Pair(l)) = SubSeq(versions, 1, n + 1)
    <2>1. \A j \in DOMAIN versions : versions[j].merged = Pair(l) <=> j = n + 2
      BY <1>8, <1>9, <1>11
    <2>2. n + 2 \in DOMAIN versions
      BY <1>4, <1>5, <1>8
    <2>3. LastIndexIn(versions, LAMBDA v : v.merged = Pair(l)) = n + 2
      BY <2>1, <2>2 DEF LastIndexIn
    <2>4. (n + 2) - 1 = n + 1
      BY <1>4
    <2> QED BY <2>3, <2>4 DEF Backtracked
  <1>13. Len(A) <= Len(es) /\ \A i \in 1 .. Len(A) : A[i] = es[i]
    BY <1>4, <1>5
  <1>14. VersionsFor(SubSeq(versions, 1, n + 1), A, t)
    BY <1>1, <1>2, <1>13, VersionsCut
  <1> QED BY <1>12, <1>14

LEMMA RemovedVersions ==
  ASSUME IInv, NEW l \in Literal, RemoveLiteral(l) PROVE VersionsRight' /\ RoomForAll'
  <1>1. HistoryRight /\ TranslationRight /\ VersionsRight /\ RoomForAll
    BY DEF IInv
  <1>2. /\ l \in received /\ RemoveInRange(l) /\ history' = RemoveAt(history, PositionOf(l))
        /\ variables' = variables /\ translate' = translate /\ late' = late /\ failed' = failed
        /\ versions' = IF l.negated THEN versions ELSE VersionsWithout(l)
    BY DEF RemoveLiteral
  <1>3. PICK a \in Seq(Literal), b \in Seq(Literal) :
            /\ history = (a \o <<l>>) \o b /\ l \notin Range(a) /\ l \notin Range(b)
            /\ RemoveAt(history, PositionOf(l)) = a \o b /\ TailAfter(l) = b
    BY <1>1, <1>2, HistorySplit
  <1> DEFINE A == Selected(a, Equalities)
             B == Selected(b, Equalities)
             es == Selected(history, Equalities)
             fs == Selected(history', Equalities)
  <1>4. /\ A \in Seq(Literal) /\ B \in Seq(Literal)
        /\ Range(A) = Range(a) \cap Equalities /\ Range(B) = Range(b) \cap Equalities
    BY SelectedType
  <1>5. fs = A \o B
    <2>1. Selected(a \o b, Equalities) = Selected(a, Equalities) \o Selected(b, Equalities)
      BY SelectedConcat
    <2> QED BY <1>2, <1>3, <2>1
  <1>6. es = (IF l.negated THEN A ELSE Append(A, l)) \o B
    <2>1. Append(a, l) = a \o <<l>> /\ Append(a, l) \in Seq(Literal)
      BY AppendIsConcat, AppendProperties
    <2>2. Selected(Append(a, l), Equalities) = IF l \in Equalities THEN Append(A, l) ELSE A
      BY SelectedAppend
    <2>3. Selected(Append(a, l) \o b, Equalities) = Selected(Append(a, l), Equalities) \o B
      <3> DEFINE c == Append(a, l)
      <3>1. c \in Seq(Literal)
        BY <2>1
      <3> HIDE DEF c
      <3>2. Selected(c \o b, Equalities) = Selected(c, Equalities) \o Selected(b, Equalities)
        BY <3>1, SelectedConcat
      <3> QED BY <3>2 DEF c
    <2>4. l \in Equalities <=> ~l.negated
      BY DEF Equalities
    <2> HIDE DEF A, B
    <2> QED BY <1>3, <2>1, <2>2, <2>3, <2>4
  <1> HIDE DEF A, es, fs
  <1>7. CASE l.negated
    <2>1. versions' = versions /\ fs = es
      BY <1>2, <1>5, <1>6, <1>7
    <2>2. VersionsRight'
      BY <1>1, <1>2, <2>1 DEF VersionsRight, es, fs
    <2> QED BY <1>1, <1>2, <2>1, <2>2 DEF RoomForAll
  <1>8. CASE ~l.negated
    <2> DEFINE ws == SubSeq(versions, 1, Len(A) + 1)
    <2>1. Backtracked(versions, Pair(l)) = ws /\ VersionsFor(ws, A, translate)
      BY <1>1, <1>2, <1>3, <1>4, <1>6, <1>8, BacktrackedTo DEF es
    <2>2. versions' = Remerged(ws, B)
      BY <1>2, <1>3, <1>8, <2>1 DEF VersionsWithout
    <2>3. \A k \in Range(b) \cap Equalities :
             translate[k.lhs] \in DOMAIN Top(ws).parents /\ translate[k.rhs] \in DOMAIN Top(ws).parents
      BY <1>2, <1>3, <1>8, <2>1 DEF RemoveInRange, InRange, IndicesOf
    <2> HIDE DEF B, ws
    <2>4. \A i \in 1 .. Len(B) : /\ translate[B[i].lhs] \in DOMAIN Top(ws).parents
                                 /\ translate[B[i].rhs] \in DOMAIN Top(ws).parents
      <3>1. \A i \in 1 .. Len(B) : B[i] \in Range(b) \cap Equalities
        BY <1>4, LenProperties DEF Range
      <3> QED BY <2>3, <3>1
    <2>5. /\ VersionsFor(versions', A \o B, translate)
          /\ \A R : Covers(ws, R) => Covers(versions', R)
      BY <1>4, <2>1, <2>2, <2>4, RemergedHolds
    <2>6. VersionsRight'
      BY <1>2, <1>5, <2>5 DEF VersionsRight, fs
    <2>7. ASSUME NEW R, Covers(versions, R) PROVE Covers(ws, R)
      <3>1. versions \in Seq(Version) /\ Len(versions) = Len(es) + 1 /\ Len(A) \in Nat
            /\ Len(es) = Len(A) + 1 + Len(B) /\ Len(B) \in Nat
        <4>1. es \in Seq(Literal) /\ VersionsFor(versions, es, translate)
          BY <1>1, EqualitiesReceived DEF VersionsRight, es
        <4>2. Append(A, l) \in Seq(Literal) /\ Len(Append(A, l)) = Len(A) + 1
          BY <1>4, AppendProperties
        <4>3. Len(es) = (Len(A) + 1) + Len(B)
          BY <1>4, <1>6, <1>8, <4>2, ConcatProperties
        <4> QED BY <1>4, <4>1, <4>3, TopVersion, LenProperties
      <3>2. \A k \in 1 .. Len(A) + 1 : k \in 1 .. Len(versions)
        BY <3>1
      <3>3. Len(ws) = Len(A) + 1 /\ \A k \in 1 .. Len(A) + 1 : ws[k] = versions[k]
        <4>1. \A k \in 1 .. Len(A) + 1 : versions[k] \in Version
          BY <3>1, <3>2, ElementOfSeq
        <4>2. /\ Len(ws) = IF 1 <= Len(A) + 1 THEN (Len(A) + 1) - 1 + 1 ELSE 0
              /\ \A i \in 1 .. (Len(A) + 1) - 1 + 1 : ws[i] = versions[1 + i - 1]
          <5>1. 1 \in Int /\ Len(A) + 1 \in Int
            BY <3>1
          <5> QED BY <4>1, <5>1, SubSeqProperties DEF ws
        <4> QED BY <3>1, <4>2
      <3> QED BY <2>7, <3>2, <3>3 DEF Covers
    <2>8. RoomForAll'
      BY <1>1, <1>2, <2>5, <2>7 DEF RoomForAll
    <2> QED BY <2>6, <2>8
  <1> QED BY <1>7, <1>8

(* What checkCore looks at: all negated equalities, unless one of them     *)
(* contradicts the classes.                                                *)
LEMMA LooksAt ==
  ASSUME HistoryRight
  PROVE  /\ Range(LookedAt) \subseteq received \cap Disequalities
         /\ \/ Range(LookedAt) = received \cap Disequalities
            \/ \E l \in Range(LookedAt) : SameClass(l)
         /\ LookedAt # <<>> => Last(LookedAt) \in Range(LookedAt)
  <1> DEFINE ds == Selected(history, Disequalities)
             known == {i \in DOMAIN ds : \A j \in 1 .. i : InRange(versions, IndicesOf({ds[j]}))}
             conflicts == {i \in known : SameClass(ds[i])}
             n == Len(ds)
             m == LastLookedAt(ds)
             looked == SubSeq(ds, 1, m)
  <1>1. ds \in Seq(Literal) /\ Range(ds) = received \cap Disequalities
    BY SelectedType DEF HistoryRight
  <1>2. LookedAt = looked
    BY DEF LookedAt
  <1>3. m = IF conflicts = {} THEN n ELSE Min(conflicts)
    BY DEF LastLookedAt
  <1> HIDE DEF ds
  <1>4. n \in Nat /\ DOMAIN ds = 1 .. n /\ \A i \in 1 .. n : ds[i] \in Literal
    BY <1>1, LenProperties, ElementOfSeq
  <1> HIDE DEF n
  <1>5. conflicts # {} => Min(conflicts) \in conflicts
    <2>1. conflicts \subseteq Nat
      BY <1>4
    <2> HIDE DEF conflicts
    <2> QED BY <2>1, LeastNatural DEF Min
  <1>6. m \in 0 .. n /\ (m = n \/ (m \in 1 .. n /\ SameClass(ds[m])))
    <2>1. CASE conflicts = {}
      BY <1>3, <1>4, <2>1
    <2>2. CASE conflicts # {}
      <3>1. m \in conflicts
        BY <1>3, <1>5, <2>2
      <3>2. m \in 1 .. n /\ SameClass(ds[m])
        <4> HIDE DEF m
        <4> QED BY <1>4, <3>1
      <3> HIDE DEF m
      <3> QED BY <1>4, <3>2
    <2> QED BY <2>1, <2>2
  <1> HIDE DEF m
  <1>7. /\ looked \in Seq(Literal) /\ Len(looked) = m /\ \A i \in 1 .. m : looked[i] = ds[i]
    <2>1. \A i \in 1 .. m : ds[i] \in Literal
      BY <1>4, <1>6
    <2>2. /\ looked \in Seq(Literal) /\ Len(looked) = IF 1 <= m THEN m - 1 + 1 ELSE 0
          /\ \A i \in 1 .. m - 1 + 1 : looked[i] = ds[1 + i - 1]
      <3>1. 1 \in Int /\ m \in Int
        BY <1>6
      <3> QED BY <2>1, <3>1, SubSeqProperties
    <2> HIDE DEF looked
    <2> QED BY <1>4, <1>6, <2>2
  <1> HIDE DEF looked
  <1>8. Range(looked) = {ds[i] : i \in 1 .. m}
    BY <1>7, LenProperties DEF Range
  <1>9. Range(looked) \subseteq received \cap Disequalities
    <2>1. \A i \in 1 .. n : ds[i] \in Range(ds)
      BY <1>4 DEF Range
    <2>2. \A i \in 1 .. m : i \in 1 .. n
      BY <1>4, <1>6
    <2> QED BY <1>1, <1>8, <2>1, <2>2
  <1>10. CASE m = n
    <2>1. Range(looked) = received \cap Disequalities
      BY <1>1, <1>4, <1>8, <1>10 DEF Range
    <2>2. looked # <<>> => Last(looked) \in Range(looked)
      <3>1. looked # <<>> => Len(looked) \in 1 .. Len(looked) /\ DOMAIN looked = 1 .. Len(looked)
        BY <1>7, EmptySeq, LenProperties
      <3> QED BY <3>1 DEF Last, Range
    <2> QED BY <1>2, <1>9, <2>1, <2>2
  <1>11. CASE m \in 1 .. n /\ SameClass(ds[m])
    <2>1. ds[m] \in Range(looked)
      BY <1>8, <1>11
    <2>2. Last(looked) \in Range(looked)
      BY <1>7, <1>11, <2>1 DEF Last
    <2> QED BY <1>2, <1>9, <1>11, <2>1, <2>2
  <1> QED BY <1>6, <1>10, <1>11

(* No find reads beyond the parents unless a variable came late.           *)
LEMMA NoReadBeyond ==
  ASSUME IInv, ~late PROVE ~ReadsBeyond
  <1> DEFINE R == {translate[x] : x \in variables}
  <1>1. HistoryRight /\ TranslationRight /\ VersionsRight /\ RoomForAll
    BY DEF IInv
  <1>2. Len(versions) \in Nat \ {0}
    <2>1. Selected(history, Equalities) \in Seq(Literal)
      BY <1>1, EqualitiesReceived
    <2> QED BY <1>1, <2>1, TopVersion DEF VersionsRight
  <1>3. DOMAIN translate # {} => DOMAIN translate = variables /\ Covers(versions, R)
    BY <1>1 DEF RoomForAll
  <1>4. ASSUME NEW ws, Len(ws) \in Nat \ {0}, DOMAIN translate # {} => Covers(ws, R),
               NEW ls, \A l \in ls : l.lhs \in DOMAIN translate /\ l.rhs \in DOMAIN translate
        PROVE  InRange(ws, IndicesOf(ls))
    <2>1. SUFFICES ASSUME NEW i \in IndicesOf(ls) PROVE i \in DOMAIN Top(ws).parents
      BY DEF InRange
    <2>2. PICK l \in ls : i = translate[l.lhs] \/ i = translate[l.rhs]
      BY <2>1 DEF IndicesOf
    <2>3. i \in R /\ DOMAIN translate # {}
      BY <1>3, <1>4, <2>2
    <2>4. R \subseteq DOMAIN Top(ws).parents
      <3> HIDE DEF R
      <3> QED BY <1>4, <2>3 DEF Covers, Top
    <2> QED BY <2>3, <2>4
  <1>5. \A ls : ls \subseteq received => InRange(versions, IndicesOf(ls))
    <2> SUFFICES ASSUME NEW ls, ls \subseteq received PROVE InRange(versions, IndicesOf(ls))
      OBVIOUS
    <2>1. \A l \in ls : l.lhs \in DOMAIN translate /\ l.rhs \in DOMAIN translate
      BY <1>1 DEF TranslationRight
    <2> HIDE DEF R
    <2> QED BY <1>2, <1>3, <1>4, <2>1
  <1>6. ASSUME NEW l \in Literal, MayAdd(l), ~need_to_update
        PROVE  InRange(versions, IndicesOf({l}))
    <2>1. \A k \in {l} : k.lhs \in DOMAIN translate /\ k.rhs \in DOMAIN translate
      BY <1>1, <1>6 DEF MayAdd, TranslationRight
    <2> HIDE DEF R
    <2> QED BY <1>2, <1>3, <1>4, <2>1
  <1>7. ASSUME NEW l \in received, ~l.negated PROVE RemoveInRange(l)
    <2>1. PICK a \in Seq(Literal), b \in Seq(Literal) :
            /\ history = (a \o <<l>>) \o b /\ l \notin Range(a) /\ l \notin Range(b)
            /\ Range(a \o b) = received \ {l} /\ TailAfter(l) = b
      BY <1>1, HistorySplit
    <2> DEFINE A == Selected(a, Equalities)
               B == Selected(b, Equalities)
               c == Append(a, l)
               ws == SubSeq(versions, 1, Len(A) + 1)
    <2>2. /\ A \in Seq(Literal) /\ B \in Seq(Literal)
          /\ Range(A) = Range(a) \cap Equalities /\ Range(B) = Range(b) \cap Equalities
      BY SelectedType
    <2>3. l \in Literal /\ l \in Equalities
      BY <1>1, <1>7, ReceivedLiterals DEF Equalities
    <2>4. Selected(history, Equalities) = Append(A, l) \o B
      <3>1. c = a \o <<l>> /\ c \in Seq(Literal)
        BY <2>3, AppendIsConcat, AppendProperties
      <3>2. Selected(c, Equalities) = Append(A, l)
        BY <2>3, SelectedAppend
      <3> HIDE DEF A, B, c
      <3>3. Selected(c \o b, Equalities) = Selected(c, Equalities) \o Selected(b, Equalities)
        <4>1. c \in Seq(Literal) /\ b \in Seq(Literal)
          BY <3>1
        <4> QED BY ONLY <4>1, SelectedConcat
      <3> QED BY <2>1, <3>1, <3>2, <3>3 DEF B
    <2> HIDE DEF A, B
    <2>5. Backtracked(versions, Pair(l)) = ws /\ VersionsFor(ws, A, translate)
      BY <1>1, <1>7, <2>1, <2>2, <2>4, BacktrackedTo
    <2>6. Range(b) \subseteq received
      BY <2>1, RangeConcatenation
    <2>7. VersionsFor(versions, Append(A, l) \o B, translate)
      BY <1>1, <2>4 DEF VersionsRight
    <2>8. Len(A) \in Nat /\ Len(A) + 1 <= Len(versions)
      <3>1. Append(A, l) \in Seq(Literal) /\ Len(Append(A, l)) = Len(A) + 1 /\ Len(A) \in Nat
        BY <2>2, <2>3, AppendProperties, LenProperties
      <3>2. Len(Append(A, l) \o B) = (Len(A) + 1) + Len(B) /\ Len(B) \in Nat
        BY <2>2, <3>1, ConcatProperties, LenProperties
      <3>3. Len(versions) = Len(Append(A, l) \o B) + 1
        BY <2>7 DEF VersionsFor
      <3> QED BY <3>1, <3>2, <3>3
    <2>9. Len(ws) = Len(A) + 1 /\ \A k \in 1 .. Len(A) + 1 : ws[k] = versions[k]
      <3>1. \A k \in 1 .. Len(A) + 1 : versions[k] \in {versions[i] : i \in 1 .. Len(versions)}
        BY <1>2, <2>8
      <3>2. /\ Len(ws) = IF 1 <= Len(A) + 1 THEN (Len(A) + 1) - 1 + 1 ELSE 0
            /\ \A i \in 1 .. (Len(A) + 1) - 1 + 1 : ws[i] = versions[1 + i - 1]
        <4>1. 1 \in Int /\ Len(A) + 1 \in Int
          BY <2>8
        <4> QED BY <3>1, <4>1, SubSeqProperties
      <3> HIDE DEF ws
      <3> QED BY <2>8, <3>2
    <2> HIDE DEF ws, R
    <2>10. DOMAIN translate # {} => Covers(ws, R)
      <3>1. \A k \in 1 .. Len(A) + 1 : k \in 1 .. Len(versions)
        BY <1>2, <2>8
      <3> QED BY <1>3, <2>9, <3>1 DEF Covers
    <2>11. \A k \in Range(b) \cap Equalities : k.lhs \in DOMAIN translate /\ k.rhs \in DOMAIN translate
      BY <1>1, <2>6 DEF TranslationRight
    <2>12. InRange(ws, IndicesOf(Range(b) \cap Equalities))
      BY <1>4, <2>8, <2>9, <2>10, <2>11
    <2> QED BY <2>1, <2>5, <2>12 DEF RemoveInRange
  <1>8. InRange(versions, IndicesOf(Range(LookedAt)))
    BY <1>1, <1>5, LooksAt
  <1>9. \A x \in DOMAIN translate : InRange(versions, {translate[x]})
    BY <1>2, <1>3 DEF InRange, Covers, Top
  <1> QED BY <1>6, <1>7, <1>8, <1>9 DEF ReadsBeyond, RemoveInRange

LEMMA CompressedVersions ==
  ASSUME IInv, NEW S,
         versions' = [versions EXCEPT ![Len(versions)].parents = Compressed(@, S)],
         UNCHANGED <<variables, translate, history, late, failed>>
  PROVE  VersionsRight' /\ RoomForAll'
  <1> DEFINE es == Selected(history, Equalities)
             xs == [versions EXCEPT ![Len(versions)].parents = Compressed(@, S)]
  <1>1. HistoryRight /\ VersionsRight /\ RoomForAll
    BY DEF IInv
  <1>2. es \in Seq(Literal) /\ VersionsFor(versions, es, translate)
    BY <1>1, EqualitiesReceived DEF VersionsRight
  <1> HIDE DEF es
  <1>3. /\ VersionsFor(xs, es, translate) /\ Len(xs) = Len(versions)
        /\ \A k \in 1 .. Len(versions) : DOMAIN xs[k].parents = DOMAIN versions[k].parents
    <2>1. xs = Compress(versions, S)
      BY DEF Compress
    <2> HIDE DEF xs
    <2>2. CompressedRight(versions, es, translate, xs)
      BY ONLY <1>2, <2>1, TopCompressed
    <2> QED BY ONLY <2>2 DEF CompressedRight
  <1>4. versions' = xs
    OBVIOUS
  <1> HIDE DEF xs
  <1>5. VersionsRight'
    BY <1>3, <1>4 DEF VersionsRight, es
  <1>6. \A R : Covers(versions, R) => Covers(versions', R)
    BY <1>3, <1>4 DEF Covers
  <1> QED BY <1>1, <1>5, <1>6 DEF RoomForAll

LEMMA VersionsPreserved ==
  ASSUME IInv, [Next]_vars PROVE VersionsRight' /\ RoomForAll'
  <1>0. VersionsRight /\ RoomForAll /\ TranslationRight
    BY DEF IInv
  <1>1. ASSUME NEW l \in Literal, Inform(l) PROVE VersionsRight' /\ RoomForAll'
    <2>1. /\ translate' = translate /\ versions' = versions /\ history' = history
          /\ failed' = failed /\ failed = "no"
          /\ late' = (late \/ (variables' # variables /\ translate # <<>>))
      BY <1>1 DEF Inform, literalVars
    <2>2. VersionsRight'
      BY <1>0, <2>1 DEF VersionsRight
    <2>3. DOMAIN translate # {} => translate # <<>>
      OBVIOUS
    <2> QED BY <1>0, <2>1, <2>2, <2>3 DEF RoomForAll
  <1>2. ASSUME NEW l \in Literal, Add(l) PROVE VersionsRight' /\ RoomForAll'
    BY <1>2, AddedVersions
  <1>3. ASSUME NEW l \in Literal, RemoveLiteral(l) PROVE VersionsRight' /\ RoomForAll'
    BY <1>3, RemovedVersions
  <1>4. CASE Check
    <2>1. UNCHANGED <<variables, translate, history, late, failed>>
      BY <1>4 DEF Check, literalVars
    <2>2. versions' = [versions EXCEPT ![Len(versions)].parents =
                          Compressed(@, IndicesOf(Range(LookedAt)))]
      BY <1>4 DEF Check
    <2> QED BY <2>1, <2>2, CompressedVersions
  <1>5. CASE UpdateModel
    <2>1. UNCHANGED <<variables, translate, history, late, failed>>
      BY <1>5 DEF UpdateModel, literalVars
    <2>2. versions' = [versions EXCEPT ![Len(versions)].parents = Compressed(@, Indices)]
      BY <1>5 DEF UpdateModel
    <2> QED BY <2>1, <2>2, CompressedVersions
  <1>6. CASE Fail
    <2>1. /\ UNCHANGED <<variables, translate, versions, history, late>>
          /\ failed' = "beyond" => ReadsBeyond
      BY <1>6 DEF Fail, literalVars, classVars
    <2>2. VersionsRight'
      BY <1>0, <2>1 DEF VersionsRight
    <2>3. failed' = "beyond" => late'
      BY <2>1, NoReadBeyond
    <2> QED BY <1>0, <2>1, <2>2, <2>3 DEF RoomForAll
  <1>7. CASE CheckEmpty \/ UNCHANGED vars
    <2>1. UNCHANGED <<variables, translate, versions, history, late, failed>>
      BY <1>7 DEF CheckEmpty, vars, literalVars, classVars
    <2> QED BY <1>0, <2>1 DEF VersionsRight, RoomForAll
  <1> QED BY <1>1, <1>2, <1>3, <1>4, <1>5, <1>6, <1>7 DEF Next

-----------------------------------------------------------------------------
(* Answers.                                                                *)
LEMMA SatisfiablePart ==
  ASSUME NEW ls, NEW ms, ls \subseteq ms, Satisfiable(ms) PROVE Satisfiable(ls)
  <1>1. EdgesOf(ls) \subseteq EdgesOf(ms)
    BY DEF EdgesOf
  <1>2. \A x, y : Connected(EdgesOf(ls), x, y) => Connected(EdgesOf(ms), x, y)
    BY <1>1 DEF Connected
  <1> QED BY <1>2 DEF Satisfiable

(* The equalities of a shortest path are all needed.                       *)
LEMMA MinimalSubset ==
  ASSUME HistoryRight, NEW l \in received, l.negated, NEW path \in Paths(l.lhs, l.rhs)
  PROVE  LET S == InfeasibleSubset(l, path)
         IN  /\ S \subseteq received /\ ~Satisfiable(S)
             /\ \A k \in S : Satisfiable(S \ {k})
  <1> DEFINE S == InfeasibleSubset(l, path)
             connecting == {P \in SUBSET edges : Connected(P, l.lhs, l.rhs)}
  <1>1. /\ path \in connecting /\ \A Q \in connecting : Cardinality(path) <= Cardinality(Q)
        /\ path \subseteq edges /\ Connected(path, l.lhs, l.rhs)
    BY DEF Paths
  <1>2. received \subseteq Literal /\ edges = EdgesOf(received) /\ l \in Literal
    BY ReceivedLiterals DEF HistoryRight
  <1>3. ASSUME NEW k \in Literal, ~k.negated, {k.lhs, k.rhs} \in path PROVE k \in received
    <2>1. PICK j \in received : ~j.negated /\ {k.lhs, k.rhs} = {j.lhs, j.rhs}
      BY <1>1, <1>2, <1>3 DEF EdgesOf
    <2>2. k = j
      BY <1>2, <1>3, <2>1, OneEqualityPerEdge
    <2> QED BY <2>1, <2>2
  <1>4. S \subseteq received
    BY <1>3 DEF InfeasibleSubset
  <1>5. EdgesOf(S) = path
    <2>1. ASSUME NEW e \in path PROVE e \in EdgesOf(S)
      <3>1. PICK j \in received : ~j.negated /\ e = {j.lhs, j.rhs}
        BY <1>1, <1>2 DEF EdgesOf
      <3> QED BY <1>2, <3>1 DEF EdgesOf, InfeasibleSubset
    <2>2. ASSUME NEW e \in EdgesOf(S) PROVE e \in path
      <3>1. PICK j \in S : ~j.negated /\ e = {j.lhs, j.rhs}
        BY DEF EdgesOf
      <3> QED BY <3>1 DEF InfeasibleSubset
    <2> QED BY <2>1, <2>2
  <1>6. l \in S /\ \A k \in S : k = l \/ (~k.negated /\ {k.lhs, k.rhs} \in path)
    BY DEF InfeasibleSubset
  <1> HIDE DEF S
  <1>7. ~Satisfiable(S)
    BY <1>1, <1>5, <1>6 DEF Satisfiable
  <1>8. IsFiniteSet(path)
    <2>1. path \subseteq SUBSET Var
      <3>1. ASSUME NEW e \in edges PROVE e \in SUBSET Var
        <4>1. PICK j \in received : e = {j.lhs, j.rhs}
          BY <1>2 DEF EdgesOf
        <4>2. j \in [lhs : Var, rhs : Var, negated : BOOLEAN]
          BY <1>2, UnionFindAssumption
        <4> QED BY <4>1, <4>2
      <3> QED BY <1>1, <3>1
    <2>2. IsFiniteSet(SUBSET Var)
      BY UnionFindAssumption, FS_SUBSET
    <2> QED BY <2>1, <2>2, FS_Subset
  <1>9. ASSUME NEW k \in S PROVE Satisfiable(S \ {k})
    <2>1. CASE k = l
      BY <1>6, <2>1 DEF Satisfiable
    <2>2. CASE k # l
      <3> DEFINE e == {k.lhs, k.rhs}
      <3>1. ~k.negated /\ e \in path
        BY <1>6, <2>2
      <3>2. EdgesOf(S \ {k}) = path \ {e}
        <4>1. S \subseteq Literal
          BY <1>2, <1>4
        <4> HIDE DEF e
        <4>2. EdgesOf(S \ {k}) = IF k.negated THEN EdgesOf(S) ELSE EdgesOf(S) \ {{k.lhs, k.rhs}}
          BY <4>1, EdgeRemoved
        <4> QED BY <1>5, <3>1, <4>2 DEF e
      <3> HIDE DEF e
      <3>3. Cardinality(path \ {e}) = Cardinality(path) - 1 /\ Cardinality(path) \in Nat
        BY <1>8, <3>1, FS_RemoveElement, FS_CardinalityType
      <3>4. path \ {e} \notin connecting
        <4>1. ~(Cardinality(path) <= Cardinality(path \ {e}))
          BY <3>3
        <4> HIDE DEF connecting
        <4> QED BY <1>1, <4>1
      <3>5. ~Connected(path \ {e}, l.lhs, l.rhs)
        BY <1>1, <3>4
      <3> QED BY <1>6, <3>2, <3>5 DEF Satisfiable
    <2> QED BY <2>1, <2>2
  <1> QED BY <1>4, <1>7, <1>9 DEF S

(* checkCore compares classes as the equalities connect them.              *)
LEMMA LookedAtClasses ==
  ASSUME HistoryRight, TranslationRight, VersionsRight,
         InRange(versions, IndicesOf(Range(LookedAt))), NEW l \in Range(LookedAt)
  PROVE  /\ l \in received /\ l.negated
         /\ SameClass(l) <=> Connected(EdgesOf(received), l.lhs, l.rhs)
  <1>1. l \in received /\ l.negated
    BY LooksAt DEF Disequalities
  <1>2. l.lhs \in DOMAIN translate /\ l.rhs \in DOMAIN translate
    BY <1>1 DEF TranslationRight
  <1>3. translate[l.lhs] \in DOMAIN Top(versions).parents
        /\ translate[l.rhs] \in DOMAIN Top(versions).parents
    BY DEF InRange, IndicesOf
  <1>4. edges = EdgesOf(received)
    BY DEF HistoryRight
  <1> QED BY <1>1, <1>2, <1>3, <1>4, TopClasses DEF SameClass, Pair

LEMMA AnswersPreserved ==
  ASSUME IInv, [Next]_vars PROVE AnswersRight'
  <1>0. HistoryRight /\ TranslationRight /\ VersionsRight /\ AnswersRight /\ SubsetsMinimal
        /\ AnswerExact /\ (mSolverState = "UNSAT" => mInfeasibleSubsets # {})
    BY DEF IInv, AnswersRight
  <1>1. ASSUME phase' = "idle" \/ (phase # "idle" /\ received' = received), received \subseteq received',
               mSolverState' = mSolverState, mInfeasibleSubsets' = mInfeasibleSubsets
        PROVE  AnswersRight'
    <2>1. SubsetsMinimal'
      BY <1>0, <1>1 DEF SubsetsMinimal
    <2>2. mSolverState = "UNSAT" => ~Satisfiable(received')
      BY <1>0, <1>1, SatisfiablePart DEF AnswerExact
    <2>3. AnswerExact'
      BY <1>0, <1>1, <2>2 DEF AnswerExact
    <2> QED BY <1>0, <1>1, <2>1, <2>3 DEF AnswersRight
  <1>2. ASSUME NEW l \in Literal, Inform(l) \/ Add(l) PROVE AnswersRight'
    <2>1. phase' = "idle" /\ mSolverState' = mSolverState /\ mInfeasibleSubsets' = mInfeasibleSubsets
          /\ received \subseteq received'
      BY <1>2 DEF Inform, Add, literalVars, answerVars
    <2> QED BY <1>1, <2>1
  <1>3. ASSUME NEW l \in Literal, RemoveLiteral(l) PROVE AnswersRight'
    <2>1. /\ phase' = "idle" /\ received' = received \ {l}
          /\ mInfeasibleSubsets' = {S \in mInfeasibleSubsets : l \notin S}
          /\ mSolverState' = IF mInfeasibleSubsets' = {} THEN "UNKNOWN" ELSE mSolverState
      BY <1>3 DEF RemoveLiteral, SubsetsWithout, StateAfterRemove
    <2>2. SubsetsMinimal'
      BY <1>0, <2>1 DEF SubsetsMinimal
    <2>3. ASSUME mSolverState' = "UNSAT" PROVE mInfeasibleSubsets' # {} /\ ~Satisfiable(received')
      <3>1. mInfeasibleSubsets' # {}
        BY <2>1, <2>3
      <3>2. PICK S \in mInfeasibleSubsets' : S \subseteq received' /\ ~Satisfiable(S)
        BY <2>2, <3>1 DEF SubsetsMinimal
      <3> QED BY <3>1, <3>2, SatisfiablePart
    <2> QED BY <2>1, <2>2, <2>3 DEF AnswersRight, AnswerExact
  <1>4. CASE CheckEmpty
    <2>1. /\ received = {} /\ received' = received /\ mSolverState' = "SAT"
          /\ mInfeasibleSubsets' = mInfeasibleSubsets
      BY <1>4 DEF CheckEmpty, literalVars
    <2>2. Satisfiable(received')
      BY <2>1 DEF Satisfiable
    <2> QED BY <1>0, <2>1, <2>2 DEF AnswersRight, AnswerExact, SubsetsMinimal
  <1>5. CASE Check
    <2>1. received' = received /\ InRange(versions, IndicesOf(Range(LookedAt)))
      BY <1>5 DEF Check, literalVars
    <2>2. CASE /\ \A l \in Range(LookedAt) : ~SameClass(l)
               /\ mSolverState' = "SAT" /\ UNCHANGED mInfeasibleSubsets
      <3>1. Range(LookedAt) = received \cap Disequalities
        BY <1>0, <2>2, LooksAt
      <3>2. \A l \in received : l.negated => l \in Range(LookedAt)
        BY <1>0, <3>1, ReceivedLiterals DEF Disequalities
      <3>3. Satisfiable(received)
        BY <1>0, <2>1, <2>2, <3>2, LookedAtClasses DEF Satisfiable
      <3> QED BY <1>0, <2>1, <2>2, <3>3 DEF AnswersRight, AnswerExact, SubsetsMinimal
    <2>3. CASE /\ LookedAt # <<>> /\ SameClass(Last(LookedAt))
               /\ \E path \in Paths(Last(LookedAt).lhs, Last(LookedAt).rhs) :
                     mInfeasibleSubsets' = mInfeasibleSubsets
                                             \cup {InfeasibleSubset(Last(LookedAt), path)}
               /\ mSolverState' = "UNSAT"
      <3> DEFINE l == Last(LookedAt)
      <3>1. l \in Range(LookedAt)
        BY <1>0, <2>3, LooksAt
      <3>2. l \in received /\ l.negated /\ Connected(EdgesOf(received), l.lhs, l.rhs)
        BY <1>0, <2>1, <2>3, <3>1, LookedAtClasses
      <3>3. PICK path \in Paths(l.lhs, l.rhs) :
              mInfeasibleSubsets' = mInfeasibleSubsets \cup {InfeasibleSubset(l, path)}
        BY <2>3
      <3> HIDE DEF l
      <3> DEFINE S == InfeasibleSubset(l, path)
      <3>4. S \subseteq received /\ ~Satisfiable(S) /\ \A k \in S : Satisfiable(S \ {k})
        BY <1>0, <3>2, MinimalSubset
      <3> HIDE DEF S
      <3>5. SubsetsMinimal'
        BY <1>0, <2>1, <3>3, <3>4 DEF SubsetsMinimal, S
      <3>6. ~Satisfiable(received')
        BY <2>1, <3>2 DEF Satisfiable
      <3>7. mInfeasibleSubsets' # {}
        BY <3>3
      <3> QED BY <2>3, <3>5, <3>6, <3>7 DEF AnswersRight, AnswerExact
    <2> QED BY <1>5, <2>2, <2>3 DEF Check
  <1>6. CASE UpdateModel
    <2>1. phase # "idle" /\ received' = received /\ mSolverState' = mSolverState
          /\ mInfeasibleSubsets' = mInfeasibleSubsets
      BY <1>6 DEF UpdateModel, MayUpdateModel, literalVars, answerVars
    <2> QED BY <1>1, <2>1
  <1>7. CASE Fail \/ UNCHANGED vars
    <2>1. UNCHANGED <<received, mSolverState, mInfeasibleSubsets, phase>>
      BY <1>7 DEF Fail, vars, literalVars, answerVars
    <2> QED BY <1>0, <2>1 DEF AnswersRight, AnswerExact, SubsetsMinimal
  <1> QED BY <1>2, <1>3, <1>4, <1>5, <1>6, <1>7 DEF Next

(* The values of the model are the classes of the received equalities.     *)
LEMMA ModelPreserved ==
  ASSUME IInv, [Next]_vars PROVE ModelRight'
  <1>0. HistoryRight /\ TranslationRight /\ VersionsRight /\ AnswersRight /\ ModelRight
    BY DEF IInv
  <1>1. CASE phase' = "idle" \/ phase' = "checked"
    BY <1>1 DEF ModelRight
  <1>2. CASE UpdateModel
    <2>1. /\ phase = "checked" /\ mSolverState = "SAT" /\ received' = received
          /\ variables' = variables /\ variables \subseteq DOMAIN translate
          /\ InRange(versions, Indices) /\ mModel' = [x \in variables |-> ValueOf(x)]
      BY <1>2 DEF UpdateModel, MayUpdateModel, Indexed, literalVars
    <2>2. Satisfiable(received) /\ edges = EdgesOf(received) /\ received \subseteq Literal
      BY <1>0, <2>1, ReceivedLiterals DEF AnswersRight, AnswerExact, HistoryRight
    <2>3. ASSUME NEW l \in received
          PROVE  (mModel'[l.lhs] = mModel'[l.rhs]) = ~l.negated
      <3>1. /\ l.lhs \in variables /\ l.rhs \in variables
            /\ l.lhs \in DOMAIN translate /\ l.rhs \in DOMAIN translate
        BY <1>0, <2>1 DEF TranslationRight
      <3>2. /\ translate[l.lhs] \in DOMAIN Top(versions).parents
            /\ translate[l.rhs] \in DOMAIN Top(versions).parents
        BY <2>1, <3>1 DEF InRange, Indices
      <3>3. ValueOf(l.lhs) = ValueOf(l.rhs) <=> Connected(EdgesOf(received), l.lhs, l.rhs)
        BY <1>0, <2>2, <3>1, <3>2, TopClasses DEF ValueOf
      <3>4. mModel'[l.lhs] = ValueOf(l.lhs) /\ mModel'[l.rhs] = ValueOf(l.rhs)
        BY <2>1, <3>1
      <3>5. l.negated \in BOOLEAN
        BY <2>2, UnionFindAssumption
      <3>6. CASE l.negated
        <4>1. ~Connected(EdgesOf(received), l.lhs, l.rhs)
          BY <2>2, <3>6 DEF Satisfiable
        <4> QED BY <3>3, <3>4, <3>6, <4>1
      <3>7. CASE ~l.negated
        <4>1. {l.lhs, l.rhs} \in EdgesOf(received)
          BY <3>7 DEF EdgesOf
        <4>2. Connected(EdgesOf(received), l.lhs, l.rhs)
          BY <4>1 DEF Connected
        <4> QED BY <3>3, <3>4, <3>5, <3>7, <4>2
      <3> QED BY <3>5, <3>6, <3>7
    <2>4. DOMAIN mModel' = variables'
      BY <2>1
    <2> QED BY <2>1, <2>3, <2>4 DEF ModelRight
  <1>3. CASE Fail \/ UNCHANGED vars
    <2>1. UNCHANGED <<phase, mModel, variables, received>>
      BY <1>3 DEF Fail, vars, literalVars
    <2> QED BY <1>0, <2>1 DEF ModelRight
  <1>4. ASSUME NEW l \in Literal, Inform(l) \/ Add(l) \/ RemoveLiteral(l) PROVE phase' = "idle"
    BY <1>4 DEF Inform, Add, RemoveLiteral
  <1>5. CheckEmpty \/ Check => phase' = "checked"
    BY DEF CheckEmpty, Check
  <1> QED BY <1>1, <1>2, <1>3, <1>4, <1>5 DEF Next

LEMMA OthersPreserved ==
  ASSUME IInv, [Next]_vars PROVE OthersTyped'
  <1>0. OthersTyped /\ TranslationRight /\ VersionsRight /\ HistoryRight
    BY DEF IInv
  <1>1. ASSUME NEW l \in Literal, Inform(l) PROVE OthersTyped'
    <2>1. /\ UNCHANGED <<mSolverState, failed>> /\ phase' = "idle" /\ mModel' = <<>>
          /\ late' \in BOOLEAN
      BY <1>0, <1>1 DEF Inform, answerVars, OthersTyped
    <2>2. DOMAIN mModel' = {} /\ Range(mModel') = {}
      BY <2>1 DEF Range
    <2> QED BY <1>0, <2>1, <2>2 DEF OthersTyped
  <1>2. ASSUME NEW l \in Literal, Add(l) PROVE OthersTyped'
    <2>1. UNCHANGED <<mSolverState, failed, late>> /\ phase' = "idle" /\ mModel' = <<>>
      BY <1>2 DEF Add, answerVars
    <2>2. DOMAIN mModel' = {} /\ Range(mModel') = {}
      BY <2>1 DEF Range
    <2> QED BY <1>0, <2>1, <2>2 DEF OthersTyped
  <1>3. ASSUME NEW l \in Literal, RemoveLiteral(l) PROVE OthersTyped'
    <2>1. /\ UNCHANGED <<failed, late>> /\ phase' = "idle" /\ mModel' = <<>>
          /\ mSolverState' \in {mSolverState, "UNKNOWN"}
      BY <1>3 DEF RemoveLiteral, StateAfterRemove
    <2>2. DOMAIN mModel' = {} /\ Range(mModel') = {}
      BY <2>1 DEF Range
    <2> QED BY <1>0, <2>1, <2>2 DEF OthersTyped
  <1>4. CASE CheckEmpty \/ Check
    <2>1. /\ UNCHANGED <<mModel, failed, late, variables>> /\ phase' = "checked"
          /\ mSolverState' \in {"SAT", "UNSAT"}
      BY <1>4 DEF CheckEmpty, Check
    <2> QED BY <1>0, <2>1 DEF OthersTyped
  <1>5. CASE UpdateModel
    <2>1. /\ UNCHANGED <<variables, mSolverState, failed, late>> /\ phase' = "model"
          /\ variables \subseteq DOMAIN translate /\ InRange(versions, Indices)
          /\ mModel' = [x \in variables |-> ValueOf(x)]
      BY <1>5 DEF UpdateModel, Indexed, answerVars
    <2>2. Top(versions) \in Version /\ Forest(Top(versions).parents, Top(versions).ranks,
                                              DOMAIN Top(versions).parents)
      <3>1. Selected(history, Equalities) \in Seq(Literal)
        BY <1>0, EqualitiesReceived
      <3> QED BY <1>0, <3>1, TopVersion DEF VersionsRight, Holds
    <2>3. ASSUME NEW x \in variables PROVE ValueOf(x) \in Index
      <3>1. translate[x] \in DOMAIN Top(versions).parents
        BY <2>1 DEF InRange, Indices
      <3>2. ValueOf(x) \in DOMAIN Top(versions).parents
        BY <2>2, <3>1, FindRoot DEF ValueOf
      <3> QED BY <2>2, <3>2, VersionType
    <2>4. DOMAIN mModel' = variables /\ Range(mModel') \subseteq Index
      BY <2>1, <2>3 DEF Range
    <2> QED BY <1>0, <2>1, <2>4 DEF OthersTyped
  <1>6. CASE Fail \/ UNCHANGED vars
    <2>1. /\ UNCHANGED <<mModel, mSolverState, phase, late, variables>>
          /\ failed' \in {failed, "beyond", "unindexed"}
      BY <1>6 DEF Fail, vars, answerVars
    <2> QED BY <1>0, <2>1 DEF OthersTyped
  <1> QED BY <1>1, <1>2, <1>3, <1>4, <1>5, <1>6 DEF Next

(* Initially there is the one version without indices.                     *)
LEMMA Initial ==
  ASSUME Init PROVE IInv
  <1>1. HistoryRight
    <2>1. history \in Seq(Literal) /\ Len(history) = 0 /\ Range(history) = {}
      BY DEF Init, Range
    <2>2. EdgesOf({}) = {}
      BY DEF EdgesOf
    <2> QED BY <2>1, <2>2 DEF Init, HistoryRight
  <1>2. TranslationRight
    <2>1. DOMAIN translate = {} /\ translate \in [{} -> Index]
      BY DEF Init
    <2> QED BY <2>1 DEF Init, TranslationRight
  <1>3. VersionsRight
    <2>1. Selected(history, Equalities) = <<>>
      BY SelectedEmpty DEF Init
    <2>2. Origin \in Version
      <3>1. /\ Origin = [merged |-> Origin.merged, parents |-> Origin.parents, ranks |-> Origin.ranks]
            /\ Origin.merged \in Index \X Index /\ DOMAIN Origin.parents = {} /\ {} \in Rooms
            /\ Origin.parents \in [{} -> {}] /\ Origin.ranks \in [{} -> Nat]
        BY IndexType DEF Origin, Rooms
      <3> QED BY <3>1, VersionType
    <2>3. Holds(Origin, {})
      <3>1. DOMAIN Origin.parents = {} /\ Origin.parents \in [{} -> {}] /\ Origin.ranks \in [{} -> Nat]
        BY DEF Origin
      <3>2. 0 \in Nat /\ \A i \in {} : Origin.ranks[i] <= 0
        OBVIOUS
      <3> QED BY <3>1, <3>2 DEF Holds, Forest
    <2>4. EdgesBefore(translate, <<>>, 1) = {}
      BY DEF EdgesBefore
    <2>5. /\ versions = <<Origin>> /\ versions \in Seq(Version) /\ Len(versions) = 1
          /\ versions[1] = Origin /\ Origin.merged = <<0, 0>>
      BY <2>2 DEF Init, Origin
    <2>6. Len(<<>>) = 0 /\ 1 .. 0 = {}
      OBVIOUS
    <2>7. \A k \in 1 .. Len(versions) : Holds(versions[k], EdgesBefore(translate, <<>>, k))
      <3>1. \A k \in 1 .. Len(versions) : k = 1
        BY <2>5
      <3> QED BY <2>3, <2>4, <2>5, <3>1
    <2>8. VersionsFor(versions, <<>>, translate)
      BY <2>5, <2>6, <2>7 DEF VersionsFor
    <2> QED BY <2>1, <2>8 DEF VersionsRight
  <1>4. RoomForAll
    BY DEF Init, RoomForAll
  <1>5. AnswersRight
    BY DEF Init, AnswersRight, SubsetsMinimal, AnswerExact
  <1>6. ModelRight
    BY DEF Init, ModelRight
  <1>7. OthersTyped
    <2>1. DOMAIN mModel = {} /\ Range(mModel) = {}
      BY DEF Init, Range
    <2> QED BY <2>1 DEF Init, OthersTyped
  <1> QED BY <1>1, <1>2, <1>3, <1>4, <1>5, <1>6, <1>7 DEF IInv

(* The pigeonhole principle gives the cardinalities of the type invariant. *)
LEMMA Typed ==
  ASSUME IInv PROVE TypeOK
  <1>1. /\ HistoryRight /\ TranslationRight /\ VersionsRight /\ AnswersRight /\ OthersTyped
        /\ received \subseteq Literal
    BY ReceivedLiterals DEF IInv
  <1>2. Len(history) = Cardinality(received)
    <2> DEFINE n == Len(history)
    <2>1. /\ n \in Nat /\ DOMAIN history = 1 .. n /\ received = {history[i] : i \in 1 .. n}
          /\ \A i, j \in 1 .. n : history[i] = history[j] => i = j
      BY <1>1, LenProperties DEF HistoryRight, Range
    <2> DEFINE f == [i \in 1 .. n |-> history[i]]
    <2> HIDE DEF n
    <2>2. f \in Injection(1 .. n, received) /\ f \in Surjection(1 .. n, received)
      BY <2>1 DEF Injection, Surjection, IsInjective, Range
    <2>3. IsFiniteSet(1 .. n) /\ Cardinality(1 .. n) = n
      <3>1. 1 \in Int /\ n \in Int
        BY <2>1
      <3> QED BY <2>1, <3>1, FS_Interval
    <2> HIDE DEF f
    <2>4. Cardinality(received) = Cardinality(1 .. n)
      BY <2>2, <2>3, FS_Surjection
    <2> QED BY <2>3, <2>4 DEF n
  <1>3. Range(translate) = 0 .. Cardinality(DOMAIN translate) - 1
    <2> DEFINE T == DOMAIN translate
               c == Cardinality(T)
               R == 0 .. c - 1
    <2>1. IsFiniteSet(T) /\ c \in Nat
      BY <1>1, UnionFindAssumption, FS_Subset, FS_CardinalityType DEF TranslationRight
    <2>2. IsFiniteSet(R) /\ Cardinality(R) = c
      <3> HIDE DEF c
      <3>1. 0 \in Int /\ c - 1 \in Int
        BY <2>1
      <3>2. Cardinality(R) = IF 0 > c - 1 THEN 0 ELSE (c - 1) - 0 + 1
        BY <3>1, FS_Interval
      <3>3. IsFiniteSet(R)
        BY <3>1, FS_Interval
      <3> QED BY <2>1, <3>2, <3>3
    <2>3. translate \in Injection(T, R)
      <3>1. \A x \in T : translate[x] \in Nat /\ translate[x] < c
        BY <1>1, IndexType DEF TranslationRight
      <3> HIDE DEF c
      <3>2. \A x \in T : translate[x] \in R
        BY <2>1, <3>1
      <3>3. translate \in [T -> R]
        BY <1>1, <3>2 DEF TranslationRight
      <3>4. \A x, y \in T : translate[x] = translate[y] => x = y
        BY <1>1 DEF TranslationRight
      <3> HIDE DEF R
      <3> QED BY <3>3, <3>4 DEF Injection, IsInjective
    <2> HIDE DEF R, c
    <2>4. translate \in Surjection(T, R)
      BY <2>2, <2>3, FS_Injection DEF c
    <2>5. \A i \in R : \E x \in T : translate[x] = i
      BY <2>4 DEF Surjection
    <2>6. \A x \in T : translate[x] \in R
      BY <2>3 DEF Injection
    <2> QED BY <2>5, <2>6 DEF R, c, Range
  <1>4. ASSUME NEW k \in DOMAIN versions PROVE IsVersion(versions[k])
    <2>1. versions[k] \in Version
      <3>1. Selected(history, Equalities) \in Seq(Literal)
        BY <1>1, EqualitiesReceived
      <3> QED BY <1>1, <3>1, TopVersion DEF VersionsRight
    <2> DEFINE v == versions[k]
               D == DOMAIN v.parents
    <2>2. /\ v.merged \in Index \X Index /\ D \subseteq Index
          /\ v.parents \in [D -> D] /\ v.ranks \in [D -> Nat]
      BY <2>1, VersionType
    <2> HIDE DEF v
    <2>3. Range(v.parents) \subseteq D /\ DOMAIN v.ranks = D /\ Range(v.ranks) \subseteq Nat
      BY <2>2 DEF Range
    <2> QED BY <2>2, <2>3 DEF IsVersion, v
  <1>5. edges \subseteq {{x, y} : x, y \in variables}
    <2>1. ASSUME NEW e \in edges PROVE e \in {{x, y} : x, y \in variables}
      <3>1. PICK l \in received : e = {l.lhs, l.rhs}
        BY <1>1 DEF HistoryRight, EdgesOf
      <3>2. l.lhs \in variables /\ l.rhs \in variables
        BY <1>1 DEF TranslationRight
      <3> QED BY <3>1, <3>2
    <2> QED BY <2>1
  <1>6. mInfeasibleSubsets \subseteq SUBSET Literal
    BY <1>1 DEF AnswersRight, SubsetsMinimal
  <1>7. need_to_update \in BOOLEAN
    BY <1>1 DEF TranslationRight
  <1> QED BY <1>1, <1>2, <1>3, <1>4, <1>5, <1>6, <1>7
          DEF TypeOK, HistoryRight, TranslationRight, OthersTyped

LEMMA Exact ==
  ASSUME IInv PROVE VersionsExact
  <1>1. /\ HistoryRight /\ TranslationRight /\ VersionsRight /\ RoomForAll
    BY DEF IInv
  <1> DEFINE es == Selected(history, Equalities)
  <1>2. VersionsFor(versions, es, translate) /\ Len(versions) = Len(es) + 1
        /\ DOMAIN versions = 1 .. Len(versions)
    <2>1. es \in Seq(Literal)
      BY <1>1, EqualitiesReceived
    <2> QED BY <1>1, <2>1, TopVersion DEF VersionsRight
  <1> HIDE DEF es
  <1>3. ASSUME NEW k \in DOMAIN versions PROVE RanksGrow(versions[k])
    <2>1. Holds(versions[k], EdgesBefore(translate, es, k))
      BY <1>2 DEF VersionsFor
    <2> QED BY <2>1 DEF Holds, Forest, RanksGrow
  <1>4. ASSUME NEW k \in DOMAIN versions, NEW x \in DOMAIN translate, NEW y \in DOMAIN translate,
               translate[x] < translate[y], translate[y] \in DOMAIN versions[k].parents
        PROVE  translate[x] \in DOMAIN versions[k].parents
    <2>1. versions[k] \in Version
      BY <1>2, ElementOfSeq DEF VersionsFor
    <2>2. 0 .. translate[y] \subseteq DOMAIN versions[k].parents
      BY <1>4, <2>1, VersionType DEF Rooms
    <2>3. translate[x] \in Nat /\ translate[y] \in Nat
      BY <1>1, IndexType DEF TranslationRight
    <2> QED BY <1>4, <2>2, <2>3
  <1> QED BY <1>1, <1>2, <1>3, <1>4, VersionClasses DEF VersionsExact, VersionsHold, RoomForAll, es

-----------------------------------------------------------------------------
(* The invariant holds initially, and add(), remove(), check(), the model  *)
(* and the failures preserve it.                                           *)
THEOREM Invariant == Spec => []IInv
<1>1. Init => IInv
  BY Initial
<1>2. IInv /\ [Next]_vars => IInv'
  <2> SUFFICES ASSUME IInv, [Next]_vars PROVE IInv'
    OBVIOUS
  <2> QED BY HistoryPreserved, TranslationPreserved, VersionsPreserved, AnswersPreserved,
             ModelPreserved, OthersPreserved DEF IInv
<1> QED BY <1>1, <1>2, PTL DEF Spec

(* The members of UnionFindModule and of its union-find keep their types;  *)
(* the indices handed out are 0, 1, ... without a gap.                     *)
THEOREM TypeCorrect == Spec => []TypeOK
<1>1. IInv => TypeOK
  BY Typed
<1> QED BY <1>1, Invariant, PTL

(* Every version that backtrack() may return to holds exactly the classes  *)
(* of the equalities before it that are still received; find() ends, and   *)
(* reads beyond the parents only if a variable became known late.          *)
THEOREM BacktrackingExact == Spec => []VersionsExact
<1>1. IInv => VersionsExact
  BY Exact
<1> QED BY <1>1, Invariant, PTL

(* The infeasible subsets that generateInfeasibleSubset makes of shortest  *)
(* paths are minimal, and removeCore leaves none with a removed literal.   *)
THEOREM ExplanationsMinimal == Spec => []SubsetsMinimal
<1>1. IInv => SubsetsMinimal
  BY DEF IInv, AnswersRight
<1> QED BY <1>1, Invariant, PTL

(* checkCore answers SAT exactly if no received disequality contradicts    *)
(* the received equalities, and an UNSAT that removeCore keeps is right.   *)
THEOREM AnswersExact == Spec => []AnswerExact
<1>1. IInv => AnswerExact
  BY DEF IInv, AnswersRight
<1> QED BY <1>1, Invariant, PTL

(* The model of updateModel satisfies what is received.                    *)
THEOREM ModelSatisfies == Spec => []ModelRight
<1>1. IInv => ModelRight
  BY DEF IInv
<1> QED BY <1>1, Invariant, PTL
=============================================================================
