--------------------------- MODULE Manager_proofs ---------------------------
(***************************************************************************)
(* The manager keeps its list, its backtrack points and its backend        *)
(* consistent, and implements the assertion stack, for all sets of         *)
(* formulas and objectives and any number of levels.                       *)
(***************************************************************************)
EXTENDS Manager, SequenceTheorems, TLAPS

Distinct(s) == \A i, j \in DOMAIN s : s[i] = s[j] => i = j
Reusable == [VariableType -> Seq(Var)]

-----------------------------------------------------------------------------
(* Prefixes of a sequence, and what ModuleInput::add appends to one.       *)

LEMMA PrefixFacts ==
  ASSUME NEW S, NEW s \in Seq(S), NEW n \in 0 .. Len(s)
  PROVE  /\ SubSeq(s, 1, n) \in Seq(S)
         /\ Len(SubSeq(s, 1, n)) = n
         /\ DOMAIN SubSeq(s, 1, n) = 1 .. n
         /\ \A i \in 1 .. n : SubSeq(s, 1, n)[i] = s[i]
         /\ Elements(SubSeq(s, 1, n)) = {s[i] : i \in 1 .. n}
         /\ Distinct(s) => Distinct(SubSeq(s, 1, n))
  <1>1. /\ SubSeq(s, 1, n) \in Seq(S)
        /\ Len(SubSeq(s, 1, n)) = n
        /\ \A i \in 1 .. n : SubSeq(s, 1, n)[i] = s[i]
    OBVIOUS
  <1>2. DOMAIN SubSeq(s, 1, n) = 1 .. n /\ 1 .. n \subseteq DOMAIN s
    BY <1>1
  <1> QED BY <1>1, <1>2 DEF Elements, Distinct

LEMMA PrefixOfPrefix ==
  ASSUME NEW S, NEW s \in Seq(S), NEW n \in 0 .. Len(s), NEW m \in 0 .. n
  PROVE  SubSeq(SubSeq(s, 1, n), 1, m) = SubSeq(s, 1, m)
  OBVIOUS

LEMMA NewFacts ==
  ASSUME NEW S, NEW list \in Seq(S), NEW parts \in Seq(S), Distinct(parts),
         NEW new \in New(list, parts)
  PROVE  /\ new \in Seq(S)
         /\ Elements(new) = Elements(parts) \ Elements(list)
         /\ Distinct(new)
  <1> DEFINE missing == Elements(parts) \ Elements(list)
  <1>1. PICK n \in 0 .. Len(parts) : new \in [1 .. n -> missing]
    BY DEF New
  <1>2. Elements(new) = missing
    BY DEF New
  <1>3. missing \subseteq S
    BY DEF Elements
  <1>4. new \in Seq(S)
    BY <1>1, <1>3
  <1>5. ASSUME NEW i \in DOMAIN new, NEW j \in DOMAIN new, i < j PROVE new[i] # new[j]
    <2>1. PICK k \in DOMAIN parts, l \in DOMAIN parts :
            k < l /\ new[i] = parts[k] /\ new[j] = parts[l]
      BY <1>5 DEF New
    <2> QED BY <2>1 DEF Distinct
  <1>6. Distinct(new)
    <2>1. DOMAIN new \subseteq Int
      BY <1>1
    <2> QED BY <1>5, <2>1 DEF Distinct
  <1> QED BY <1>2, <1>4, <1>6

LEMMA ConcatFacts ==
  ASSUME NEW S, NEW s \in Seq(S), NEW t \in Seq(S)
  PROVE  /\ s \o t \in Seq(S)
         /\ Len(s \o t) = Len(s) + Len(t)
         /\ \A i \in 1 .. Len(s) : (s \o t)[i] = s[i]
         /\ \A i \in 1 .. Len(t) : (s \o t)[Len(s) + i] = t[i]
         /\ \A n \in 0 .. Len(s) : SubSeq(s \o t, 1, n) = SubSeq(s, 1, n)
         /\ Elements(s \o t) = Elements(s) \cup Elements(t)
         /\ Distinct(s) /\ Distinct(t) /\ Elements(s) \cap Elements(t) = {}
              => Distinct(s \o t)
  <1>1. /\ s \o t \in Seq(S)
        /\ Len(s \o t) = Len(s) + Len(t)
        /\ \A i \in 1 .. Len(s) : (s \o t)[i] = s[i]
        /\ \A i \in 1 .. Len(t) : (s \o t)[Len(s) + i] = t[i]
    OBVIOUS
  <1>2. \A n \in 0 .. Len(s) : SubSeq(s \o t, 1, n) = SubSeq(s, 1, n)
    OBVIOUS
  <1>3. \A i \in DOMAIN (s \o t) :
           \/ i \in DOMAIN s /\ (s \o t)[i] = s[i]
           \/ i - Len(s) \in DOMAIN t /\ (s \o t)[i] = t[i - Len(s)]
    OBVIOUS
  <1>4. /\ \A i \in DOMAIN s : i \in DOMAIN (s \o t)
        /\ \A i \in DOMAIN t : Len(s) + i \in DOMAIN (s \o t)
    OBVIOUS
  <1>5. Elements(s \o t) \subseteq Elements(s) \cup Elements(t)
    BY <1>3 DEF Elements
  <1>6. DOMAIN s = 1 .. Len(s) /\ DOMAIN t = 1 .. Len(t)
    OBVIOUS
  <1>7. Elements(s) \subseteq Elements(s \o t) /\ Elements(t) \subseteq Elements(s \o t)
    BY <1>1, <1>4, <1>6 DEF Elements
  <1>8. ASSUME Distinct(s), Distinct(t), Elements(s) \cap Elements(t) = {}
        PROVE  Distinct(s \o t)
    <2> SUFFICES ASSUME NEW i \in DOMAIN (s \o t), NEW j \in DOMAIN (s \o t),
                        (s \o t)[i] = (s \o t)[j]
                 PROVE  i = j
      BY DEF Distinct
    <2> DEFINE u == s \o t
               at(k) == k - Len(s)
    <2>1. i \in Int /\ j \in Int /\ Len(s) \in Int
      BY <1>1
    <2>a. /\ (i \in DOMAIN s /\ u[i] = s[i]) \/ (at(i) \in DOMAIN t /\ u[i] = t[at(i)])
          /\ (j \in DOMAIN s /\ u[j] = s[j]) \/ (at(j) \in DOMAIN t /\ u[j] = t[at(j)])
          /\ u[i] = u[j]
      <3>1. i \in DOMAIN u /\ j \in DOMAIN u /\ u[i] = u[j]
        OBVIOUS
      <3>2. \A k \in DOMAIN u : (k \in DOMAIN s /\ u[k] = s[k]) \/ (at(k) \in DOMAIN t /\ u[k] = t[at(k)])
        BY ONLY <1>3, Zenon
      <3> HIDE DEF u, at
      <3> QED BY ONLY <3>1, <3>2
    <2> HIDE DEF u, at
    <2>b. /\ \A k \in DOMAIN s : s[k] \in Elements(s)
          /\ \A k \in DOMAIN t : t[k] \in Elements(t)
          /\ Elements(s) \cap Elements(t) = {}
      BY <1>8, Zenon DEF Elements
    <2>2. CASE i \in DOMAIN s /\ u[i] = s[i]
      <3>1. j \in DOMAIN s /\ u[j] = s[j]
        BY ONLY <2>a, <2>b, <2>2
      <3> QED BY ONLY <1>8, <2>2, <2>a, <3>1 DEF Distinct
    <2>3. CASE at(i) \in DOMAIN t /\ u[i] = t[at(i)]
      <3>1. at(j) \in DOMAIN t /\ u[j] = t[at(j)]
        BY ONLY <2>a, <2>b, <2>3
      <3>2. at(i) = at(j)
        BY ONLY <1>8, <2>3, <2>a, <3>1 DEF Distinct
      <3> QED BY ONLY <2>1, <3>2 DEF at
    <2> QED BY ONLY <2>a, <2>2, <2>3
  <1> QED BY <1>1, <1>2, <1>5, <1>7, <1>8

-----------------------------------------------------------------------------
(* What pop() puts on the stacks of reusable variables.                    *)

LEMMA RecycledFacts ==
  ASSUME mObjectives \in Seq([fct : Objective, var : Var, level : Nat]),
         NEW kept, Len(kept) \in 0 .. Len(mObjectives), NEW t \in VariableType,
         NEW r \in Recycled(kept, t)
  PROVE  /\ r \in Seq(Var)
         /\ \A i \in DOMAIN r : \E k \in Len(kept) + 1 .. Len(mObjectives) :
              r[i] = mObjectives[k].var /\ r[i].type = t
         /\ (\A i, j \in DOMAIN mObjectives : mObjectives[i].var = mObjectives[j].var => i = j)
              => Distinct(r)
  <1> DEFINE n == Len(mObjectives)
             gone == {i \in Len(kept) + 1 .. n : mObjectives[i].var.type = t}
  <1>1. n \in Nat /\ DOMAIN mObjectives = 1 .. n /\ Len(kept) \in Nat
    OBVIOUS
  <1>2. gone \subseteq 1 .. n /\ gone \subseteq Len(kept) + 1 .. n
    BY <1>1
  <1>3. \A k \in gone : mObjectives[k].var \in Var /\ mObjectives[k].var.type = t
    <2>1. \A k \in 1 .. n : mObjectives[k] \in [fct : Objective, var : Var, level : Nat]
      BY ElementOfSeq
    <2>2. \A k \in 1 .. n : mObjectives[k].var \in Var
      BY <2>1
    <2> QED BY <1>2, <2>2
  <1>4. PICK m \in 0 .. n : \E q \in [1 .. m -> gone] :
          /\ \A i, j \in DOMAIN q : i < j => q[i] > q[j]
          /\ r = [i \in DOMAIN q |-> mObjectives[q[i]].var]
    BY DEF Recycled
  <1> HIDE DEF n, gone
  <1>5. PICK q \in [1 .. m -> gone] :
          /\ \A i, j \in DOMAIN q : i < j => q[i] > q[j]
          /\ r = [i \in DOMAIN q |-> mObjectives[q[i]].var]
    BY <1>4
  <1>6. DOMAIN r = 1 .. m /\ \A i \in 1 .. m : q[i] \in gone /\ r[i] = mObjectives[q[i]].var
    BY <1>5
  <1>7. r \in [1 .. m -> Var]
    BY <1>3, <1>5, <1>6
  <1>8. r \in Seq(Var)
    BY ONLY <1>1, <1>4, <1>7
  <1>9. \A i \in DOMAIN r : \E k \in Len(kept) + 1 .. n : r[i] = mObjectives[k].var /\ r[i].type = t
    BY <1>2, <1>3, <1>6
  <1>10. ASSUME \A i, j \in DOMAIN mObjectives : mObjectives[i].var = mObjectives[j].var => i = j
         PROVE  Distinct(r)
    <2> SUFFICES ASSUME NEW i \in 1 .. m, NEW j \in 1 .. m, r[i] = r[j] PROVE i = j
      BY <1>6 DEF Distinct
    <2>1. q[i] = q[j] /\ q[i] \in Int
      <3>1. q[i] \in 1 .. n /\ q[j] \in 1 .. n
        BY <1>2, <1>6
      <3>2. mObjectives[q[i]].var = mObjectives[q[j]].var
        BY <1>6
      <3>3. q[i] = q[j]
        BY <1>1, <1>10, <3>1, <3>2
      <3> QED BY <1>1, <3>1, <3>3
    <2>2. /\ i < j => q[i] > q[j]
          /\ j < i => q[j] > q[i]
      BY <1>5
    <2> QED BY <1>1, <2>1, <2>2
  <1> QED BY <1>8, <1>9, <1>10 DEF n

LEMMA StacksAfterPop ==
  ASSUME mReusableVars \in Reusable, PopPoint,
         mObjectives \in Seq([fct : Objective, var : Var, level : Nat]),
         Len(ObjectivesKept(LastPoint)) \in 0 .. Len(mObjectives)
  PROVE  /\ mReusableVars' \in Reusable
         /\ \A t \in VariableType : \E r \in Recycled(ObjectivesKept(LastPoint), t) :
              mReusableVars'[t] = mReusableVars[t] \o r
  <1> DEFINE kept == ObjectivesKept(LastPoint)
  <1>1. PICK ints \in Recycled(kept, "VT_INT"), reals \in Recycled(kept, "VT_REAL") :
          mReusableVars' = [mReusableVars EXCEPT !["VT_INT"] = @ \o ints, !["VT_REAL"] = @ \o reals]
    BY DEF PopPoint
  <1>2. ints \in Seq(Var) /\ reals \in Seq(Var)
    BY RecycledFacts DEF VariableType
  <1> HIDE DEF kept
  <1>3. /\ DOMAIN mReusableVars' = VariableType
        /\ mReusableVars'["VT_INT"] = mReusableVars["VT_INT"] \o ints
        /\ mReusableVars'["VT_REAL"] = mReusableVars["VT_REAL"] \o reals
        /\ mReusableVars' = [t \in VariableType |-> mReusableVars'[t]]
    BY <1>1 DEF Reusable, VariableType
  <1>4. /\ mReusableVars["VT_INT"] \o ints \in Seq(Var)
        /\ mReusableVars["VT_REAL"] \o reals \in Seq(Var)
    BY <1>2, ConcatFacts DEF Reusable, VariableType
  <1>5. \A t \in VariableType : t = "VT_INT" \/ t = "VT_REAL"
    BY DEF VariableType
  <1>6. \A t \in VariableType : mReusableVars'[t] \in Seq(Var)
    BY <1>3, <1>4, <1>5
  <1>7. \A t \in VariableType : \E r \in Recycled(kept, t) : mReusableVars'[t] = mReusableVars[t] \o r
    BY <1>1, <1>3, <1>5
  <1> QED BY <1>3, <1>6, <1>7 DEF Reusable, kept

-----------------------------------------------------------------------------
(* The inductive invariant adds where check() stands: how many levels it   *)
(* has pushed, and that these came after every objective.                  *)

CheckWellFormed ==
    /\ pc # "reset"
    /\ pc = "idle" => inner = 0
    /\ pc = "minimize" => inner = 1 /\ current \in 1 .. Len(mObjectives)
    /\ pc \in {"answer", "failed"} => inner = 2 /\ current \in 1 .. Len(mObjectives)
    /\ pc = "bound" => inner = 2 /\ current \in 1 .. Len(mObjectives) - 1
    /\ pc = "unwind" => inner \in 1 .. 2
    /\ inner <= Len(mBacktrackPoints)
    /\ \A k \in DOMAIN mBacktrackPoints : k > Len(mBacktrackPoints) - inner =>
          mBacktrackPoints[k].second = Len(mObjectives) - 1

IInv == TypeOK /\ BacktrackPointsValid /\ BackendInSync /\ CheckWellFormed

LEMMA InitIInv == Init => IInv
  BY ManagerAssumption
     DEF Init, IInv, TypeOK, BacktrackPointsValid, BackendInSync, CheckWellFormed, Elements

LEMMA FormulaFacts == /\ Atom \subseteq Formula
                      /\ \A v \in Var : Equation(v) \in Formula /\ UpperBound(v) \in Formula
  BY DEF Formula, Internal

(* A new level points to the last formula and to the last objective.       *)
LEMMA PushFacts ==
  ASSUME TypeOK, BacktrackPointsValid, mBacktrackPoints' = Append(mBacktrackPoints, Point)
  PROVE  /\ mBacktrackPoints' \in Seq([first : Nat, live : BOOLEAN, second : Nat \cup {-1}])
         /\ Len(mBacktrackPoints') = Len(mBacktrackPoints) + 1
         /\ \A k \in 1 .. Len(mBacktrackPoints) : mBacktrackPoints'[k] = mBacktrackPoints[k]
         /\ mBacktrackPoints'[Len(mBacktrackPoints) + 1] = Point
         /\ Point.first = Len(mpPassedFormula)
         /\ Point.live
         /\ Point.second = Len(mObjectives) - 1
  <1>1. Point \in [first : Nat, live : BOOLEAN, second : Nat \cup {-1}]
    BY DEF Point, TypeOK
  <1> QED BY <1>1 DEF TypeOK, Point

(* A pop meets its backtrack point, and brings back two prefixes.          *)
LEMMA PopFacts ==
  ASSUME TypeOK, BacktrackPointsValid, mBacktrackPoints # <<>>
  PROVE  /\ Len(mBacktrackPoints) \in DOMAIN mBacktrackPoints
         /\ LastPoint.first \in 0 .. Len(mpPassedFormula)
         /\ FormulasKept(LastPoint) = SubSeq(mpPassedFormula, 1, LastPoint.first)
         /\ LastPoint.second \in -1 .. Len(mObjectives) - 1
         /\ LastPoint.second + 1 \in 0 .. Len(mObjectives)
         /\ ObjectivesKept(LastPoint) = SubSeq(mObjectives, 1, LastPoint.second + 1)
         /\ \A k \in 1 .. Len(mBacktrackPoints) :
              /\ mBacktrackPoints[k].live
              /\ mBacktrackPoints[k].first \in 0 .. LastPoint.first
              /\ mBacktrackPoints[k].second \in -1 .. LastPoint.second
  <1>1. Len(mBacktrackPoints) \in DOMAIN mBacktrackPoints
    BY DEF TypeOK
  <1>2. Len(mBacktrackPoints) \in Nat /\ DOMAIN mBacktrackPoints = 1 .. Len(mBacktrackPoints)
    BY DEF TypeOK
  <1>3. Len(mpPassedFormula) \in Nat /\ Len(mObjectives) \in Nat
    BY DEF TypeOK
  <1>4. /\ LastPoint.live
        /\ LastPoint.first \in 0 .. Len(mpPassedFormula)
        /\ LastPoint.second \in -1 .. Len(mObjectives) - 1
        /\ \A k \in 1 .. Len(mBacktrackPoints) :
              /\ mBacktrackPoints[k].live
              /\ mBacktrackPoints[k].first \in 0 .. LastPoint.first
              /\ mBacktrackPoints[k].second \in -1 .. LastPoint.second
    BY <1>1, <1>2, <1>3 DEF BacktrackPointsValid, LastPoint
  <1> QED BY <1>1, <1>3, <1>4, SMTT(30) DEF FormulasKept, ObjectivesKept

LEMMA PopPointFacts ==
  ASSUME TypeOK, BacktrackPointsValid, mBacktrackPoints # <<>>, PopPoint
  PROVE  /\ mBacktrackPoints' \in Seq([first : Nat, live : BOOLEAN, second : Nat \cup {-1}])
         /\ Len(mBacktrackPoints') = Len(mBacktrackPoints) - 1
         /\ \A k \in 1 .. Len(mBacktrackPoints) - 1 : mBacktrackPoints'[k] = mBacktrackPoints[k]
         /\ mObjectives' \in Seq([fct : Objective, var : Var, level : Nat])
         /\ Len(mObjectives') = LastPoint.second + 1
         /\ \A i \in 1 .. LastPoint.second + 1 : mObjectives'[i] = mObjectives[i]
         /\ mReusableVars' \in Reusable
         /\ freshVars' = freshVars
  <1>1. LastPoint.second + 1 \in 0 .. Len(mObjectives) /\
        ObjectivesKept(LastPoint) = SubSeq(mObjectives, 1, LastPoint.second + 1)
    BY PopFacts
  <1>2. /\ mObjectives' \in Seq([fct : Objective, var : Var, level : Nat])
        /\ Len(mObjectives') = LastPoint.second + 1
        /\ \A i \in 1 .. LastPoint.second + 1 : mObjectives'[i] = mObjectives[i]
    <2>1. mObjectives' = SubSeq(mObjectives, 1, LastPoint.second + 1)
      BY <1>1 DEF PopPoint
    <2>2. mObjectives \in Seq([fct : Objective, var : Var, level : Nat])
      BY DEF TypeOK
    <2> QED BY <1>1, <2>1, <2>2, PrefixFacts
  <1>4. mReusableVars' \in Reusable
    <2>1. mObjectives' = ObjectivesKept(LastPoint)
      BY DEF PopPoint
    <2>2. Len(ObjectivesKept(LastPoint)) \in 0 .. Len(mObjectives)
      BY <1>1, <1>2, <2>1
    <2> QED BY <2>2, StacksAfterPop DEF TypeOK, Reusable
  <1>5. /\ mBacktrackPoints' \in Seq([first : Nat, live : BOOLEAN, second : Nat \cup {-1}])
        /\ Len(mBacktrackPoints') = Len(mBacktrackPoints) - 1
        /\ \A k \in 1 .. Len(mBacktrackPoints) - 1 : mBacktrackPoints'[k] = mBacktrackPoints[k]
    <2> DEFINE kept == FormulasKept(LastPoint)
               R == [first : Nat, live : BOOLEAN, second : Nat \cup {-1}]
    <2>1. /\ LastPoint.first \in 0 .. Len(mpPassedFormula)
          /\ kept = SubSeq(mpPassedFormula, 1, LastPoint.first)
          /\ \A k \in 1 .. Len(mBacktrackPoints) :
                /\ mBacktrackPoints[k].live
                /\ mBacktrackPoints[k].first \in 0 .. LastPoint.first
      BY PopFacts
    <2>2. Len(kept) = LastPoint.first
      <3>1. mpPassedFormula \in Seq(Formula)
        BY DEF TypeOK
      <3> QED BY <2>1, <3>1, PrefixFacts
    <2>3. mBacktrackPoints \in Seq(R) /\ Len(mBacktrackPoints) \in Nat
          /\ Len(mBacktrackPoints) - 1 \in Nat
      BY DEF TypeOK
    <2>4. \A k \in 1 .. Len(mBacktrackPoints) : mBacktrackPoints[k] \in R
      BY <2>3, ElementOfSeq
    <2>5. \A k \in 1 .. Len(mBacktrackPoints) - 1 : k \in 1 .. Len(mBacktrackPoints)
      BY <2>3
    <2> HIDE DEF kept
    <2>6. ASSUME NEW k \in 1 .. Len(mBacktrackPoints) - 1
          PROVE  [mBacktrackPoints[k] EXCEPT !.live = @ /\ mBacktrackPoints[k].first <= Len(kept)]
                   = mBacktrackPoints[k]
      <3>1. mBacktrackPoints[k].live /\ mBacktrackPoints[k].first <= Len(kept)
        BY <2>1, <2>2, <2>5
      <3>2. mBacktrackPoints[k] \in R
        BY <2>4, <2>5
      <3>3. mBacktrackPoints[k].live = TRUE
        BY <3>1, <3>2
      <3>4. [mBacktrackPoints[k] EXCEPT !.live = TRUE] = mBacktrackPoints[k]
        BY <3>2, <3>3
      <3> QED BY <3>1, <3>3, <3>4
    <2>7. mBacktrackPoints' = [k \in 1 .. Len(mBacktrackPoints) - 1 |-> mBacktrackPoints[k]]
      BY <2>6 DEF PopPoint, PointsKept, kept
    <2> QED BY <2>3, <2>4, <2>5, <2>7
  <1> QED BY <1>2, <1>4, <1>5 DEF PopPoint

(* The list and the backend after formulas are added to a list in order.   *)
LEMMA Extended ==
  ASSUME NEW list \in Seq(Formula), Distinct(list),
         NEW parts \in Seq(Formula), Distinct(parts),
         NEW new \in New(list, parts)
  PROVE  /\ list \o new \in Seq(Formula)
         /\ Distinct(list \o new)
         /\ Elements(list \o new) = Elements(list) \cup Elements(new)
         /\ Elements(new) \subseteq Elements(parts)
         /\ Len(list \o new) \in Nat /\ Len(list) <= Len(list \o new)
         /\ \A i \in 1 .. Len(list) : (list \o new)[i] = list[i]
  <1>1. /\ new \in Seq(Formula)
        /\ Elements(new) = Elements(parts) \ Elements(list)
        /\ Distinct(new)
    BY NewFacts
  <1>2. Elements(list) \cap Elements(new) = {} /\ Elements(new) \subseteq Elements(parts)
    BY <1>1
  <1>3. /\ list \o new \in Seq(Formula)
        /\ Len(list \o new) = Len(list) + Len(new)
        /\ \A i \in 1 .. Len(list) : (list \o new)[i] = list[i]
        /\ Elements(list \o new) = Elements(list) \cup Elements(new)
        /\ Distinct(list \o new)
    BY <1>1, <1>2, ConcatFacts
  <1>4. Len(list) \in Nat /\ Len(new) \in Nat
    BY <1>1
  <1> QED BY <1>2, <1>3, <1>4

LEMMA Added ==
  ASSUME IInv, NEW parts \in Seq(Formula), Distinct(parts),
         \E new \in New(mpPassedFormula, parts) :
             /\ mpPassedFormula' = mpPassedFormula \o new
             /\ told' = told \cup Told(new)
  PROVE  /\ mpPassedFormula' \in Seq(Formula)
         /\ BackendInSync'
         /\ Elements(mpPassedFormula) \subseteq Elements(mpPassedFormula')
         /\ Elements(mpPassedFormula') \subseteq Elements(mpPassedFormula) \cup Elements(parts)
         /\ Len(mpPassedFormula') \in Nat /\ Len(mpPassedFormula) <= Len(mpPassedFormula')
         /\ \A i \in 1 .. Len(mpPassedFormula) : mpPassedFormula'[i] = mpPassedFormula[i]
  <1>1. PICK new \in New(mpPassedFormula, parts) :
             /\ mpPassedFormula' = mpPassedFormula \o new
             /\ told' = told \cup Told(new)
    OBVIOUS
  <1>2. mpPassedFormula \in Seq(Formula) /\ Distinct(mpPassedFormula)
        /\ told = Elements(mpPassedFormula)
    BY DEF IInv, TypeOK, BackendInSync, Distinct
  <1>3. /\ mpPassedFormula' \in Seq(Formula)
        /\ Distinct(mpPassedFormula')
        /\ Elements(mpPassedFormula') = Elements(mpPassedFormula) \cup Elements(new)
        /\ Elements(new) \subseteq Elements(parts)
        /\ Len(mpPassedFormula') \in Nat /\ Len(mpPassedFormula) <= Len(mpPassedFormula')
        /\ \A i \in 1 .. Len(mpPassedFormula) : mpPassedFormula'[i] = mpPassedFormula[i]
    BY <1>1, <1>2, Extended
  <1>4. told' = Elements(mpPassedFormula')
    BY <1>1, <1>2, <1>3 DEF Told
  <1> QED BY <1>3, <1>4 DEF BackendInSync, Distinct

LEMMA Kept ==
  ASSUME IInv, mBacktrackPoints # <<>>
  PROVE  LET kept == FormulasKept(LastPoint)
         IN  /\ kept \in Seq(Formula)
             /\ Distinct(kept)
             /\ told \ Removed(kept) = Elements(kept)
             /\ Len(kept) = LastPoint.first
             /\ \A i \in 1 .. LastPoint.first : kept[i] = mpPassedFormula[i]
  <1>1. /\ LastPoint.first \in 0 .. Len(mpPassedFormula)
        /\ FormulasKept(LastPoint) = SubSeq(mpPassedFormula, 1, LastPoint.first)
    BY PopFacts DEF IInv
  <1>2. mpPassedFormula \in Seq(Formula) /\ Distinct(mpPassedFormula)
        /\ told = Elements(mpPassedFormula)
    BY DEF IInv, TypeOK, BackendInSync, Distinct
  <1> DEFINE kept == SubSeq(mpPassedFormula, 1, LastPoint.first)
  <1>3. /\ kept \in Seq(Formula)
        /\ Len(kept) = LastPoint.first
        /\ \A i \in 1 .. LastPoint.first : kept[i] = mpPassedFormula[i]
        /\ Elements(kept) = {mpPassedFormula[i] : i \in 1 .. LastPoint.first}
        /\ Distinct(kept)
    BY <1>1, <1>2, PrefixFacts
  <1>4. 1 .. LastPoint.first \subseteq DOMAIN mpPassedFormula
    BY <1>1, <1>2
  <1>5. Elements(kept) \subseteq Elements(mpPassedFormula)
    BY <1>3, <1>4 DEF Elements
  <1>6. told \ Removed(kept) = Elements(kept)
    BY <1>2, <1>5 DEF Removed
  <1> QED BY <1>1, <1>3, <1>6

-----------------------------------------------------------------------------
(* Every step preserves the invariant: first a step that pops one level,   *)
(* keeping the list at least as long as the level's backtrack point says.  *)
LEMMA PopPreserves ==
  ASSUME IInv, mBacktrackPoints # <<>>, PopPoint,
         Len(mpPassedFormula') \in Nat, LastPoint.first <= Len(mpPassedFormula')
  PROVE  BacktrackPointsValid'
  <1>1. /\ LastPoint.second \in -1 .. Len(mObjectives) - 1
        /\ \A k \in 1 .. Len(mBacktrackPoints) :
              /\ mBacktrackPoints[k].live
              /\ mBacktrackPoints[k].first \in 0 .. LastPoint.first
              /\ mBacktrackPoints[k].second \in -1 .. LastPoint.second
    BY PopFacts DEF IInv
  <1>2. /\ mBacktrackPoints' \in Seq([first : Nat, live : BOOLEAN, second : Nat \cup {-1}])
        /\ Len(mBacktrackPoints') = Len(mBacktrackPoints) - 1
        /\ \A k \in 1 .. Len(mBacktrackPoints) - 1 : mBacktrackPoints'[k] = mBacktrackPoints[k]
        /\ Len(mObjectives') = LastPoint.second + 1
    BY PopPointFacts DEF IInv
  <1>3. DOMAIN mBacktrackPoints' = 1 .. Len(mBacktrackPoints) - 1
    BY <1>2
  <1>4. Len(mBacktrackPoints) \in Nat /\ DOMAIN mBacktrackPoints = 1 .. Len(mBacktrackPoints)
        /\ Len(mObjectives) \in Nat
    BY DEF IInv, TypeOK
  <1>5. LastPoint.first \in Nat
    BY PopFacts DEF IInv
  <1>6. \A k \in DOMAIN mBacktrackPoints : \A j \in 1 .. k :
            /\ mBacktrackPoints[j].first <= mBacktrackPoints[k].first
            /\ mBacktrackPoints[j].second <= mBacktrackPoints[k].second
    BY DEF IInv, BacktrackPointsValid
  <1> SUFFICES ASSUME NEW k \in 1 .. Len(mBacktrackPoints) - 1
               PROVE  /\ mBacktrackPoints'[k].live
                      /\ mBacktrackPoints'[k].first \in 0 .. Len(mpPassedFormula')
                      /\ mBacktrackPoints'[k].second \in -1 .. Len(mObjectives') - 1
                      /\ \A j \in 1 .. k :
                           /\ mBacktrackPoints'[j].first <= mBacktrackPoints'[k].first
                           /\ mBacktrackPoints'[j].second <= mBacktrackPoints'[k].second
    BY <1>3 DEF BacktrackPointsValid
  <1>7. \A j \in 1 .. k : j \in 1 .. Len(mBacktrackPoints) - 1 /\ j \in 1 .. Len(mBacktrackPoints)
    BY <1>4
  <1>8. k \in 1 .. Len(mBacktrackPoints) /\ mBacktrackPoints'[k] = mBacktrackPoints[k]
        /\ \A j \in 1 .. k : mBacktrackPoints'[j] = mBacktrackPoints[j]
    BY <1>2, <1>4, <1>7
  <1>9. Len(mObjectives') - 1 = LastPoint.second
    BY <1>1, <1>2
  <1>10. /\ mBacktrackPoints[k].live
         /\ mBacktrackPoints[k].first \in 0 .. LastPoint.first
         /\ mBacktrackPoints[k].second \in -1 .. LastPoint.second
    BY <1>1, <1>8
  <1>11. mBacktrackPoints[k].first \in 0 .. Len(mpPassedFormula')
    BY <1>5, <1>10
  <1>12. \A j \in 1 .. k : /\ mBacktrackPoints[j].first <= mBacktrackPoints[k].first
                          /\ mBacktrackPoints[j].second <= mBacktrackPoints[k].second
    BY <1>4, <1>6, <1>8
  <1> QED BY <1>8, <1>9, <1>10, <1>11, <1>12

LEMMA PushPreserves ==
  ASSUME IInv, mBacktrackPoints' = Append(mBacktrackPoints, Point), mObjectives' = mObjectives,
         Len(mpPassedFormula') \in Nat, Len(mpPassedFormula) <= Len(mpPassedFormula')
  PROVE  BacktrackPointsValid'
  <1>1. /\ mBacktrackPoints' \in Seq([first : Nat, live : BOOLEAN, second : Nat \cup {-1}])
        /\ Len(mBacktrackPoints') = Len(mBacktrackPoints) + 1
        /\ \A k \in 1 .. Len(mBacktrackPoints) : mBacktrackPoints'[k] = mBacktrackPoints[k]
        /\ mBacktrackPoints'[Len(mBacktrackPoints) + 1] = Point
        /\ Point.first = Len(mpPassedFormula)
        /\ Point.live
        /\ Point.second = Len(mObjectives) - 1
    BY PushFacts DEF IInv
  <1>2. Len(mBacktrackPoints) \in Nat /\ DOMAIN mBacktrackPoints = 1 .. Len(mBacktrackPoints)
        /\ Len(mObjectives) \in Nat /\ Len(mpPassedFormula) \in Nat
    BY DEF IInv, TypeOK
  <1>3. DOMAIN mBacktrackPoints' = 1 .. Len(mBacktrackPoints) + 1
    BY <1>1
  <1>4. \A k \in 1 .. Len(mBacktrackPoints) :
            /\ mBacktrackPoints[k].live
            /\ mBacktrackPoints[k].first \in 0 .. Len(mpPassedFormula)
            /\ mBacktrackPoints[k].second \in -1 .. Len(mObjectives) - 1
            /\ \A j \in 1 .. k :
                 /\ mBacktrackPoints[j].first <= mBacktrackPoints[k].first
                 /\ mBacktrackPoints[j].second <= mBacktrackPoints[k].second
    BY <1>2 DEF IInv, BacktrackPointsValid
  <1> SUFFICES ASSUME NEW k \in 1 .. Len(mBacktrackPoints) + 1
               PROVE  /\ mBacktrackPoints'[k].live
                      /\ mBacktrackPoints'[k].first \in 0 .. Len(mpPassedFormula')
                      /\ mBacktrackPoints'[k].second \in -1 .. Len(mObjectives') - 1
                      /\ \A j \in 1 .. k :
                           /\ mBacktrackPoints'[j].first <= mBacktrackPoints'[k].first
                           /\ mBacktrackPoints'[j].second <= mBacktrackPoints'[k].second
    BY <1>3 DEF BacktrackPointsValid
  <1>5. CASE k <= Len(mBacktrackPoints)
    BY <1>1, <1>2, <1>4, <1>5
  <1>6. CASE k = Len(mBacktrackPoints) + 1
    BY <1>1, <1>2, <1>4, <1>6
  <1> QED BY <1>2, <1>5, <1>6

(* The levels of check() are as high as the objectives.                    *)
LEMMA InnerPop ==
  ASSUME IInv, inner > 0, PopPoint
  PROVE  /\ mBacktrackPoints # <<>>
         /\ mObjectives' = mObjectives
         /\ mBacktrackPoints' \in Seq([first : Nat, live : BOOLEAN, second : Nat \cup {-1}])
         /\ Len(mBacktrackPoints') = Len(mBacktrackPoints) - 1
         /\ \A k \in 1 .. Len(mBacktrackPoints) - 1 : mBacktrackPoints'[k] = mBacktrackPoints[k]
         /\ mReusableVars' \in Reusable
         /\ freshVars' = freshVars
  <1>1. /\ Len(mBacktrackPoints) \in Nat /\ DOMAIN mBacktrackPoints = 1 .. Len(mBacktrackPoints)
        /\ Len(mObjectives) \in Nat /\ inner \in 0 .. 2
        /\ mObjectives \in Seq([fct : Objective, var : Var, level : Nat])
    BY DEF IInv, TypeOK
  <1>2. inner <= Len(mBacktrackPoints)
    BY DEF IInv, CheckWellFormed
  <1>3. mBacktrackPoints # <<>> /\ LastPoint.second = Len(mObjectives) - 1
    BY <1>1, <1>2 DEF IInv, CheckWellFormed, LastPoint
  <1>4. mObjectives' = SubSeq(mObjectives, 1, Len(mObjectives))
    BY <1>1, <1>3 DEF PopPoint, ObjectivesKept
  <1>5. mObjectives' = mObjectives
    BY <1>1, <1>4
  <1> QED BY <1>3, <1>5, PopPointFacts DEF IInv

LEMMA IInvPreserved == ASSUME IInv, [Next]_vars PROVE IInv'
  <1> DEFINE Bp == Seq([first : Nat, live : BOOLEAN, second : Nat \cup {-1}])
             Ob == Seq([fct : Objective, var : Var, level : Nat])
  <1> USE DEF listVars, objectiveVars, checkVars
  <1>0. /\ Len(mBacktrackPoints) \in Nat /\ DOMAIN mBacktrackPoints = 1 .. Len(mBacktrackPoints)
        /\ Len(mObjectives) \in Nat /\ Len(mpPassedFormula) \in Nat
    BY DEF IInv, TypeOK
  <1>1. ASSUME NEW parts \in Conjunction, add(parts) PROVE IInv'
    <2>1. parts \in Seq(Formula) /\ Distinct(parts)
      BY <1>1, FormulaFacts DEF Conjunction, Distinct
    <2>2. /\ mpPassedFormula' \in Seq(Formula)
          /\ BackendInSync'
          /\ Len(mpPassedFormula') \in Nat /\ Len(mpPassedFormula) <= Len(mpPassedFormula')
      BY <1>1, <2>1, Added DEF add
    <2>3. BacktrackPointsValid'
      BY <1>1, <1>0, <2>2 DEF add, IInv, BacktrackPointsValid
    <2>4. CheckWellFormed'
      BY <1>1 DEF add, IInv, CheckWellFormed
    <2>5. told' \in SUBSET Formula
      BY <2>2 DEF BackendInSync, Elements
    <2>6. TypeOK'
      BY <1>1, <2>2, <2>5 DEF add, IInv, TypeOK
    <2> QED BY <2>2, <2>3, <2>4, <2>6 DEF IInv
  <1>2. CASE push
    <2>1. BacktrackPointsValid'
      BY <1>2, <1>0, PushPreserves DEF push
    <2>2. mBacktrackPoints' \in Bp /\ Len(mBacktrackPoints') = Len(mBacktrackPoints) + 1
      BY <1>2, PushFacts DEF push, IInv
    <2>3. TypeOK' /\ BackendInSync'
      BY <1>2, <2>2 DEF push, IInv, TypeOK, BackendInSync
    <2>4. CheckWellFormed'
      <3>1. inner' = 0 /\ pc' = "idle"
        BY <1>2 DEF push, IInv, CheckWellFormed
      <3> QED BY <1>0, <3>1, <2>2 DEF CheckWellFormed
    <2> QED BY <2>1, <2>3, <2>4 DEF IInv
  <1>3. CASE pop
    <2>1. /\ mBacktrackPoints # <<>> /\ PopPoint
          /\ mpPassedFormula' = FormulasKept(LastPoint)
          /\ told' = told \ Removed(FormulasKept(LastPoint))
          /\ UNCHANGED checkVars /\ pc = "idle"
      BY <1>3 DEF pop
    <2>2. /\ mpPassedFormula' \in Seq(Formula) /\ Len(mpPassedFormula') = LastPoint.first
          /\ BackendInSync'
      BY <2>1, Kept DEF BackendInSync, Distinct
    <2>3. BacktrackPointsValid'
      <3>1. LastPoint.first \in Nat
        BY <2>1, PopFacts DEF IInv
      <3> QED BY <2>1, <2>2, <3>1, PopPreserves
    <2>4. /\ mBacktrackPoints' \in Bp /\ Len(mBacktrackPoints') \in Nat
          /\ mObjectives' \in Ob /\ mReusableVars' \in Reusable /\ freshVars' = freshVars
      BY <2>1, PopPointFacts DEF IInv
    <2>5. told' \in SUBSET Formula
      BY <2>2 DEF BackendInSync, Elements
    <2>6. TypeOK'
      BY <2>1, <2>2, <2>4, <2>5 DEF IInv, TypeOK, Reusable
    <2>7. CheckWellFormed'
      <3>1. inner' = 0 /\ pc' = "idle"
        BY <2>1 DEF IInv, CheckWellFormed
      <3> QED BY <3>1, <2>4 DEF CheckWellFormed
    <2> QED BY <2>2, <2>3, <2>6, <2>7 DEF IInv
  <1>4. ASSUME NEW o \in Objective, addObjective(o) PROVE IInv'
    <2>1. /\ mBacktrackPoints' = mBacktrackPoints /\ inner' = 0 /\ pc' = "idle"
          /\ mpPassedFormula' = mpPassedFormula /\ told' = told
          /\ current' = current
      BY <1>4 DEF addObjective, IInv, CheckWellFormed
    <2>2. /\ mObjectives' \in Ob /\ Len(mObjectives') = Len(mObjectives) + 1
          /\ mReusableVars' \in Reusable /\ freshVars' \in 0 .. MaxVars
      <3>1. PICK v \in Var : mObjectives' = Append(mObjectives, NewObjective(o, v))
                             /\ mReusableVars' \in Reusable /\ freshVars' \in 0 .. MaxVars
        <4> DEFINE t == TypeOf(o)
                   free == mReusableVars[t]
        <4>0. /\ t \in VariableType /\ free \in Seq(Var) /\ freshVars \in 0 .. MaxVars
              /\ mReusableVars \in Reusable
          BY DEF IInv, TypeOK, TypeOf, VariableType, Reusable
        <4>1. CASE free = <<>>
          <5>1. freshVars < MaxVars /\ freshVars' = freshVars + 1 /\ mReusableVars' = mReusableVars
                /\ mObjectives' = Append(mObjectives, NewObjective(o, NewVar(t)))
            BY <1>4, <4>1 DEF addObjective
          <5>2. NewVar(t) \in Var /\ freshVars' \in 0 .. MaxVars
            BY <4>0, <5>1, ManagerAssumption DEF NewVar, Var
          <5> QED BY <4>0, <5>1, <5>2
        <4>2. CASE free # <<>>
          <5>1. /\ freshVars' = freshVars
                /\ mObjectives' = Append(mObjectives, NewObjective(o, free[Len(free)]))
                /\ mReusableVars' = [mReusableVars EXCEPT ![t] = SubSeq(free, 1, Len(free) - 1)]
            BY <1>4, <4>2 DEF addObjective, ReusableAfterTake
          <5> HIDE DEF free, t
          <5>2. Len(free) \in DOMAIN free /\ Len(free) - 1 \in 0 .. Len(free)
            BY <4>0, <4>2
          <5>3. free[Len(free)] \in Var /\ SubSeq(free, 1, Len(free) - 1) \in Seq(Var)
            BY <4>0, <5>2, PrefixFacts
          <5>4. mReusableVars' \in Reusable
            BY <4>0, <5>1, <5>3 DEF Reusable
          <5> QED BY <4>0, <5>1, <5>3, <5>4
        <4> QED BY <4>1, <4>2
      <3>2. NewObjective(o, v) \in [fct : Objective, var : Var, level : Nat]
        BY <1>0 DEF NewObjective
      <3>3. mObjectives \in Ob
        BY DEF IInv, TypeOK
      <3>4. mObjectives' \in Ob /\ Len(mObjectives') = Len(mObjectives) + 1
        BY <3>1, <3>2, <3>3
      <3> QED BY <3>1, <3>4
    <2>3. TypeOK' /\ BackendInSync'
      BY <2>1, <2>2 DEF IInv, TypeOK, Reusable, BackendInSync
    <2>4. BacktrackPointsValid'
      BY <1>0, <2>1, <2>2 DEF IInv, BacktrackPointsValid
    <2>5. CheckWellFormed'
      BY <1>0, <2>1 DEF CheckWellFormed
    <2> QED BY <2>3, <2>4, <2>5 DEF IInv
  <1>5. CASE CheckBegin
    <2>1. BacktrackPointsValid'
      BY <1>5, <1>0, PushPreserves DEF CheckBegin
    <2>2. /\ mBacktrackPoints' \in Bp /\ Len(mBacktrackPoints') = Len(mBacktrackPoints) + 1
          /\ mBacktrackPoints'[Len(mBacktrackPoints) + 1].second = Len(mObjectives) - 1
      BY <1>5, PushFacts DEF CheckBegin, IInv
    <2>3. TypeOK' /\ BackendInSync'
      BY <1>5, <2>2 DEF CheckBegin, IInv, TypeOK, BackendInSync
    <2>4. CheckWellFormed'
      <3>1. /\ pc' = "minimize" /\ inner' = 1 /\ current' = 1
            /\ mObjectives' = mObjectives /\ Len(mObjectives) > 0
        BY <1>5, <1>0 DEF CheckBegin, IInv, TypeOK
      <3>2. DOMAIN mBacktrackPoints' = 1 .. Len(mBacktrackPoints) + 1
        BY <2>2
      <3> QED BY <1>0, <2>2, <3>1, <3>2 DEF CheckWellFormed
    <2> QED BY <2>1, <2>3, <2>4 DEF IInv
  <1>6. CASE Minimize
    <2> DEFINE equation == <<Equation(mObjectives[current].var)>>
    <2>1. current \in 1 .. Len(mObjectives) /\ inner = 1
      BY <1>6 DEF Minimize, IInv, CheckWellFormed
    <2>2. equation \in Seq(Formula) /\ Distinct(equation)
      <3>1. mObjectives \in Ob
        BY DEF IInv, TypeOK
      <3>2. mObjectives[current] \in [fct : Objective, var : Var, level : Nat]
        BY <2>1, <3>1, ElementOfSeq
      <3>3. mObjectives[current].var \in Var
        BY <3>2
      <3>4. Equation(mObjectives[current].var) \in Formula
        BY <3>3, FormulaFacts
      <3> QED BY <3>4 DEF Distinct
    <2>3. /\ mBacktrackPoints' = Append(mBacktrackPoints, Point)
          /\ \E new \in New(mpPassedFormula, equation) :
               /\ mpPassedFormula' = mpPassedFormula \o new
               /\ told' = told \cup Told(new)
          /\ pc' = "answer" /\ inner' = 2
          /\ UNCHANGED <<objectiveVars, current>>
      BY <1>6 DEF Minimize
    <2> HIDE DEF equation
    <2>4. /\ mpPassedFormula' \in Seq(Formula)
          /\ BackendInSync'
          /\ Len(mpPassedFormula') \in Nat /\ Len(mpPassedFormula) <= Len(mpPassedFormula')
      BY <2>2, <2>3, Added
    <2>5. BacktrackPointsValid'
      BY <2>3, <2>4, PushPreserves
    <2>6. /\ mBacktrackPoints' \in Bp /\ Len(mBacktrackPoints') = Len(mBacktrackPoints) + 1
          /\ \A k \in 1 .. Len(mBacktrackPoints) : mBacktrackPoints'[k] = mBacktrackPoints[k]
          /\ mBacktrackPoints'[Len(mBacktrackPoints) + 1].second = Len(mObjectives) - 1
      BY <2>3, PushFacts DEF IInv
    <2>7. told' \in SUBSET Formula
      BY <2>4 DEF BackendInSync, Elements
    <2>8. TypeOK'
      BY <2>3, <2>4, <2>6, <2>7 DEF IInv, TypeOK
    <2>9. CheckWellFormed'
      <3>1. DOMAIN mBacktrackPoints' = 1 .. Len(mBacktrackPoints) + 1
        BY <2>6
      <3>2. Len(mBacktrackPoints) >= 1
            /\ mBacktrackPoints[Len(mBacktrackPoints)].second = Len(mObjectives) - 1
        BY <1>0, <2>1 DEF IInv, CheckWellFormed
      <3> QED BY <1>0, <2>1, <2>3, <2>6, <3>1, <3>2, SMTT(30) DEF CheckWellFormed
    <2> QED BY <2>4, <2>5, <2>8, <2>9 DEF IInv
  <1>7. CASE Answered
    BY <1>7 DEF Answered, IInv, TypeOK, BacktrackPointsValid, BackendInSync, CheckWellFormed
  <1>8. CASE NextObjective
    <2>1. current \in 1 .. Len(mObjectives) - 1 /\ inner = 2
      BY <1>8, <1>0 DEF NextObjective, IInv, CheckWellFormed
    <2>2. pc' \in {"failed", "bound"} /\ UNCHANGED <<listVars, objectiveVars, inner, current>>
      BY <1>8 DEF NextObjective
    <2>3. TypeOK' /\ BacktrackPointsValid' /\ BackendInSync'
      BY <2>2 DEF IInv, TypeOK, BacktrackPointsValid, BackendInSync
    <2>4. CheckWellFormed'
      BY <1>0, <2>1, <2>2 DEF IInv, CheckWellFormed
    <2> QED BY <2>3, <2>4 DEF IInv
  <1>9. CASE Bound
    <2> DEFINE kept == FormulasKept(LastPoint)
               bound == <<UpperBound(mObjectives[current + 1].var)>>
    <2>1. inner = 2 /\ current \in 1 .. Len(mObjectives) - 1
      BY <1>9 DEF Bound, IInv, CheckWellFormed
    <2>2. bound \in Seq(Formula) /\ Distinct(bound)
      <3>1. mObjectives \in Ob
        BY DEF IInv, TypeOK
      <3>2. current + 1 \in 1 .. Len(mObjectives)
        BY <1>0, <2>1
      <3>3. mObjectives[current + 1] \in [fct : Objective, var : Var, level : Nat]
        BY <3>1, <3>2, ElementOfSeq
      <3>4. mObjectives[current + 1].var \in Var
        BY <3>3
      <3>5. UpperBound(mObjectives[current + 1].var) \in Formula
        BY <3>4, FormulaFacts
      <3> QED BY <3>5 DEF Distinct
    <2>3. PICK new \in New(kept, bound) :
            /\ mpPassedFormula' = kept \o new
            /\ told' = (told \ Removed(kept)) \cup Told(new)
      BY <1>9 DEF Bound
    <2>4. PopPoint /\ pc' = "minimize" /\ inner' = 1 /\ current' = current + 1
      BY <1>9 DEF Bound
    <2>5. /\ mBacktrackPoints # <<>>
          /\ mObjectives' = mObjectives
          /\ mBacktrackPoints' \in Bp
          /\ Len(mBacktrackPoints') = Len(mBacktrackPoints) - 1
          /\ \A k \in 1 .. Len(mBacktrackPoints) - 1 : mBacktrackPoints'[k] = mBacktrackPoints[k]
          /\ mReusableVars' \in Reusable
          /\ freshVars' = freshVars
      BY <2>1, <2>4, InnerPop
    <2>6. /\ kept \in Seq(Formula) /\ Distinct(kept)
          /\ told \ Removed(kept) = Elements(kept)
          /\ Len(kept) = LastPoint.first
      BY <2>5, Kept
    <2> HIDE DEF kept, bound
    <2>7. /\ mpPassedFormula' \in Seq(Formula) /\ Distinct(mpPassedFormula')
          /\ Elements(mpPassedFormula') = Elements(kept) \cup Elements(new)
          /\ Len(mpPassedFormula') \in Nat /\ Len(kept) <= Len(mpPassedFormula')
      BY <2>2, <2>3, <2>6, Extended
    <2>8. BackendInSync'
      BY <2>3, <2>6, <2>7 DEF BackendInSync, Told, Distinct
    <2>9. BacktrackPointsValid'
      BY <2>4, <2>5, <2>6, <2>7, PopPreserves
    <2>10. told' \in SUBSET Formula
      BY <2>7, <2>8 DEF BackendInSync, Elements
    <2>11. TypeOK'
      <3>1. current' \in Nat
        BY <2>1, <2>4
      <3> QED BY <2>4, <2>5, <2>7, <2>10, <3>1 DEF IInv, TypeOK, Reusable
    <2>12. CheckWellFormed'
      <3>1. DOMAIN mBacktrackPoints' = 1 .. Len(mBacktrackPoints) - 1
        BY <2>5
      <3>2. /\ 2 <= Len(mBacktrackPoints)
            /\ mBacktrackPoints[Len(mBacktrackPoints) - 1].second = Len(mObjectives) - 1
        BY <1>0, <2>1 DEF IInv, CheckWellFormed
      <3>3. inner' <= Len(mBacktrackPoints') /\ current' \in 1 .. Len(mObjectives')
        BY <1>0, <2>1, <2>4, <2>5, <3>2
      <3>4. \A k \in DOMAIN mBacktrackPoints' : k > Len(mBacktrackPoints') - inner' =>
               mBacktrackPoints'[k].second = Len(mObjectives') - 1
        BY <1>0, <2>4, <2>5, <3>1, <3>2, SMTT(30)
      <3> QED BY <2>4, <3>3, <3>4 DEF CheckWellFormed
    <2> QED BY <2>8, <2>9, <2>11, <2>12 DEF IInv
  <1>10. CASE Unwind
    <2>1. /\ PopPoint
          /\ mpPassedFormula' = FormulasKept(LastPoint)
          /\ told' = told \ Removed(FormulasKept(LastPoint))
          /\ inner' = inner - 1
          /\ pc' = IF inner' = 0 THEN "idle" ELSE "unwind"
          /\ current' = IF inner' = 0 THEN 0 ELSE current
      BY <1>10 DEF Unwind, InnerAfterPop
    <2>2. inner \in 1 .. 2 /\ inner <= Len(mBacktrackPoints)
      BY <1>10 DEF Unwind, IInv, CheckWellFormed
    <2>3. /\ mBacktrackPoints # <<>>
          /\ mObjectives' = mObjectives
          /\ mBacktrackPoints' \in Bp
          /\ Len(mBacktrackPoints') = Len(mBacktrackPoints) - 1
          /\ \A k \in 1 .. Len(mBacktrackPoints) - 1 : mBacktrackPoints'[k] = mBacktrackPoints[k]
          /\ mReusableVars' \in Reusable
          /\ freshVars' = freshVars
      BY <2>1, <2>2, InnerPop
    <2>4. /\ mpPassedFormula' \in Seq(Formula) /\ Len(mpPassedFormula') = LastPoint.first
          /\ BackendInSync'
      BY <2>1, <2>3, Kept DEF BackendInSync, Distinct
    <2>5. BacktrackPointsValid'
      <3>1. LastPoint.first \in Nat
        BY <2>3, PopFacts DEF IInv
      <3> QED BY <2>1, <2>3, <2>4, <3>1, PopPreserves
    <2>6. told' \in SUBSET Formula
      BY <2>4 DEF BackendInSync, Elements
    <2>7. TypeOK'
      <3>1. inner' \in 0 .. 2 /\ pc' \in {"idle", "unwind"} /\ current' \in Nat
        BY <2>1, <2>2 DEF IInv, TypeOK
      <3> QED BY <2>3, <2>4, <2>6, <3>1 DEF IInv, TypeOK, Reusable
    <2>8. CheckWellFormed'
      <3>1. DOMAIN mBacktrackPoints' = 1 .. Len(mBacktrackPoints) - 1
        BY <2>3
      <3>2. \A k \in 1 .. Len(mBacktrackPoints) : k > Len(mBacktrackPoints) - inner =>
               mBacktrackPoints[k].second = Len(mObjectives) - 1
        BY <1>0 DEF IInv, CheckWellFormed
      <3>3. /\ pc' = "idle" => inner' = 0
            /\ pc' = "unwind" => inner' \in 1 .. 2
            /\ pc' \in {"idle", "unwind"}
            /\ inner' <= Len(mBacktrackPoints')
        BY <1>0, <2>1, <2>2, <2>3
      <3>4. \A k \in DOMAIN mBacktrackPoints' : k > Len(mBacktrackPoints') - inner' =>
               mBacktrackPoints'[k].second = Len(mObjectives') - 1
        BY <1>0, <2>1, <2>2, <2>3, <3>1, <3>2, SMTT(30)
      <3> QED BY <3>3, <3>4 DEF CheckWellFormed
    <2> QED BY <2>4, <2>5, <2>7, <2>8 DEF IInv
  <1>11. CASE UNCHANGED vars
    BY <1>11 DEF vars, IInv, TypeOK, BacktrackPointsValid, BackendInSync, CheckWellFormed
  <1> QED
    BY <1>1, <1>2, <1>3, <1>4, <1>5, <1>6, <1>7, <1>8, <1>9, <1>10, <1>11
       DEF Next, CheckNext, Failed

(* The invariant holds of every behaviour.                                 *)
LEMMA Invariant == Spec => []IInv
  BY InitIInv, IInvPreserved, PTL DEF Spec

(* The state stays within its types, for any number of levels.             *)
THEOREM TypeCorrect == Spec => []TypeOK
  BY Invariant, PTL DEF IInv

(* Whatever is added, pushed, popped and optimised, no backtrack point     *)
(* dangles: pop() always meets the node it looks for (Manager.cpp:279).    *)
THEOREM PointsStayValid == Spec => []BacktrackPointsValid
  BY Invariant, PTL DEF IInv

(* The primary backend knows the list and nothing else, and remove() is    *)
(* only called on formulas it was told (Module.cpp:208).                   *)
THEOREM BackendKnowsList == Spec => []BackendInSync
  BY Invariant, PTL DEF IInv

-----------------------------------------------------------------------------
(* Objective variables: all were created, none is used twice.              *)

VarsInv ==
    /\ ObjectiveVarsDistinct
    /\ \A i \in DOMAIN mObjectives : mObjectives[i].var.id <= freshVars
    /\ \A t \in VariableType : \A i \in DOMAIN mReusableVars[t] : mReusableVars[t][i].id <= freshVars

(* What the state of the objectives looks like.                            *)
LEMMA VarsTypes ==
  ASSUME IInv
  PROVE  /\ mObjectives \in Seq([fct : Objective, var : Var, level : Nat])
         /\ DOMAIN mObjectives = 1 .. Len(mObjectives) /\ Len(mObjectives) \in Nat
         /\ \A i \in 1 .. Len(mObjectives) : mObjectives[i].var \in Var
         /\ mReusableVars \in Reusable /\ \A t \in VariableType : mReusableVars[t] \in Seq(Var)
         /\ freshVars \in Nat
         /\ \A v \in Var : v.id \in Nat
  <1>1. /\ mObjectives \in Seq([fct : Objective, var : Var, level : Nat])
        /\ DOMAIN mObjectives = 1 .. Len(mObjectives) /\ Len(mObjectives) \in Nat
        /\ mReusableVars \in Reusable /\ freshVars \in Nat
    BY ManagerAssumption DEF IInv, TypeOK, Reusable
  <1>2. \A i \in 1 .. Len(mObjectives) : mObjectives[i].var \in Var
    <2>1. \A i \in 1 .. Len(mObjectives) : mObjectives[i] \in [fct : Objective, var : Var, level : Nat]
      BY <1>1, ElementOfSeq
    <2> QED BY <2>1
  <1>3. \A t \in VariableType : mReusableVars[t] \in Seq(Var)
    BY <1>1 DEF Reusable
  <1>4. \A v \in Var : v.id \in Nat
    BY ManagerAssumption DEF Var
  <1> QED BY <1>1, <1>2, <1>3, <1>4

LEMMA VarsAfterPop ==
  ASSUME IInv, VarsInv, mBacktrackPoints # <<>>, PopPoint
  PROVE  VarsInv'
  <1> DEFINE n == LastPoint.second + 1
  <1>1. /\ mObjectives \in Seq([fct : Objective, var : Var, level : Nat])
        /\ DOMAIN mObjectives = 1 .. Len(mObjectives) /\ Len(mObjectives) \in Nat
        /\ mReusableVars \in Reusable /\ \A t \in VariableType : mReusableVars[t] \in Seq(Var)
    BY VarsTypes
  <1>2. n \in 0 .. Len(mObjectives)
    BY PopFacts DEF IInv
  <1>3. /\ Len(mObjectives') = n /\ DOMAIN mObjectives' = 1 .. n
        /\ \A i \in 1 .. n : mObjectives'[i] = mObjectives[i]
        /\ freshVars' = freshVars
    BY PopPointFacts DEF IInv
  <1> HIDE DEF n
  <1>4. Len(ObjectivesKept(LastPoint)) = n
    BY <1>3 DEF PopPoint
  <1>5. /\ \A i, j \in 1 .. Len(mObjectives) : mObjectives[i].var = mObjectives[j].var => i = j
        /\ \A i \in 1 .. Len(mObjectives) : mObjectives[i].var.id <= freshVars
        /\ \A i \in 1 .. Len(mObjectives) : mObjectives[i].var.type = TypeOf(mObjectives[i].fct)
    BY <1>1 DEF VarsInv, ObjectiveVarsDistinct
  <1>6. n + 1 .. Len(mObjectives) \subseteq 1 .. Len(mObjectives)
        /\ 1 .. n \subseteq 1 .. Len(mObjectives)
        /\ \A i \in 1 .. n : \A j \in n + 1 .. Len(mObjectives) : i # j
    BY <1>1, <1>2
  <1>7. ASSUME NEW t \in VariableType
        PROVE  /\ Distinct(mReusableVars'[t])
               /\ \A v \in Elements(mReusableVars'[t]) : v.type = t /\ v.id <= freshVars
               /\ \A i \in 1 .. n : mObjectives[i].var \notin Elements(mReusableVars'[t])
    <2> DEFINE old == mReusableVars[t]
    <2>1. PICK r \in Recycled(ObjectivesKept(LastPoint), t) : mReusableVars'[t] = old \o r
      BY <1>1, <1>2, <1>4, StacksAfterPop
    <2>2. /\ r \in Seq(Var)
          /\ \A i \in DOMAIN r : \E k \in n + 1 .. Len(mObjectives) :
               r[i] = mObjectives[k].var /\ r[i].type = t
          /\ Distinct(r)
      <3> DEFINE kept == ObjectivesKept(LastPoint)
      <3>1. \A i, j \in DOMAIN mObjectives : mObjectives[i].var = mObjectives[j].var => i = j
        BY <1>1, <1>5
      <3>2. Len(kept) \in 0 .. Len(mObjectives) /\ Len(kept) = n /\ r \in Recycled(kept, t)
        BY <1>2, <1>4
      <3> HIDE DEF kept
      <3>3. /\ r \in Seq(Var)
            /\ \A i \in DOMAIN r : \E k \in Len(kept) + 1 .. Len(mObjectives) :
                 r[i] = mObjectives[k].var /\ r[i].type = t
            /\ Distinct(r)
        BY ONLY <1>1, <3>1, <3>2, RecycledFacts
      <3> QED BY ONLY <3>2, <3>3
    <2>3. /\ Distinct(old)
          /\ \A v \in Elements(old) : v.type = t /\ v.id <= freshVars
          /\ \A i \in 1 .. Len(mObjectives) : mObjectives[i].var \notin Elements(old)
      BY <1>1 DEF VarsInv, ObjectiveVarsDistinct, Distinct, Elements
    <2>4. \A v \in Elements(r) : \E k \in n + 1 .. Len(mObjectives) : v = mObjectives[k].var /\ v.type = t
      BY <2>2 DEF Elements
    <2>5. Elements(old) \cap Elements(r) = {}
      BY <1>6, <2>3, <2>4
    <2>6. Elements(old \o r) = Elements(old) \cup Elements(r) /\ Distinct(old \o r)
      BY <1>1, <2>2, <2>3, <2>5, ConcatFacts
    <2> HIDE DEF old
    <2>7. \A v \in Elements(old \o r) : v.type = t /\ v.id <= freshVars
      BY <1>5, <1>6, <2>3, <2>4, <2>6
    <2>8. \A i \in 1 .. n : mObjectives[i].var \notin Elements(old \o r)
      BY <1>5, <1>6, <2>3, <2>4, <2>6
    <2> QED BY <2>1, <2>6, <2>7, <2>8
  <1>8. /\ \A i, j \in 1 .. n : mObjectives'[i].var = mObjectives'[j].var => i = j
        /\ \A i \in 1 .. n : mObjectives'[i].var.id <= freshVars'
        /\ \A i \in 1 .. n : mObjectives'[i].var.type = TypeOf(mObjectives'[i].fct)
    BY <1>3, <1>5, <1>6
  <1>9. \A t \in VariableType :
          /\ \A i \in 1 .. n : mObjectives'[i].var \notin Elements(mReusableVars'[t])
          /\ \A i, j \in DOMAIN mReusableVars'[t] : mReusableVars'[t][i] = mReusableVars'[t][j] => i = j
          /\ \A i \in DOMAIN mReusableVars'[t] :
               mReusableVars'[t][i].type = t /\ mReusableVars'[t][i].id <= freshVars'
    BY <1>3, <1>7 DEF Distinct, Elements
  <1> QED BY <1>3, <1>8, <1>9 DEF VarsInv, ObjectiveVarsDistinct

LEMMA VarsPreserved == ASSUME IInv, VarsInv, [Next]_vars PROVE VarsInv'
  <1> USE DEF listVars, objectiveVars, checkVars
  <1>1. ASSUME NEW o \in Objective, addObjective(o) PROVE VarsInv'
    <2> DEFINE t == TypeOf(o)
               free == mReusableVars[t]
               n == Len(mObjectives)
    <2>1. /\ mObjectives \in Seq([fct : Objective, var : Var, level : Nat])
          /\ DOMAIN mObjectives = 1 .. n /\ n \in Nat
          /\ \A i \in 1 .. n : mObjectives[i].var \in Var
          /\ mReusableVars \in Reusable /\ \A u \in VariableType : mReusableVars[u] \in Seq(Var)
          /\ freshVars \in Nat /\ \A v \in Var : v.id \in Nat
      BY VarsTypes
    <2>2. t \in VariableType /\ free \in Seq(Var)
      BY <2>1 DEF TypeOf, VariableType
    <2>3. PICK v :
            /\ mObjectives' = Append(mObjectives, NewObjective(o, v))
            /\ \/ v = NewVar(t) /\ freshVars' = freshVars + 1 /\ mReusableVars' = mReusableVars
               \/ /\ freshVars' = freshVars
                  /\ free # <<>>
                  /\ v = free[Len(free)]
                  /\ mReusableVars' = [mReusableVars EXCEPT ![t] = SubSeq(free, 1, Len(free) - 1)]
      BY <1>1 DEF addObjective, ReusableAfterTake
    <2>4. NewObjective(o, v).var = v /\ NewObjective(o, v).fct = o
      BY DEF NewObjective
    <2>5. /\ DOMAIN mObjectives' = 1 .. n + 1
          /\ \A i \in 1 .. n : mObjectives'[i] = mObjectives[i]
          /\ mObjectives'[n + 1].var = v /\ mObjectives'[n + 1].fct = o
      BY <2>1, <2>3, <2>4
    <2>6. /\ \A i, j \in 1 .. n : mObjectives[i].var = mObjectives[j].var => i = j
          /\ \A i \in 1 .. n : mObjectives[i].var.type = TypeOf(mObjectives[i].fct)
          /\ \A i \in 1 .. n : mObjectives[i].var.id <= freshVars
          /\ \A u \in VariableType :
               /\ Distinct(mReusableVars[u])
               /\ \A w \in Elements(mReusableVars[u]) : w.type = u /\ w.id <= freshVars
               /\ \A i \in 1 .. n : mObjectives[i].var \notin Elements(mReusableVars[u])
      BY <2>1 DEF VarsInv, ObjectiveVarsDistinct, Distinct, Elements
    <2>7. \A u \in VariableType : \A w \in Elements(mReusableVars[u]) : w \in Var
      BY <2>1 DEF Elements
    <2> HIDE DEF n
    <2>8. /\ \A i \in 1 .. n : mObjectives[i].var # v
          /\ v.type = t /\ v.id <= freshVars' /\ freshVars <= freshVars' /\ freshVars' \in Nat
          /\ \A u \in VariableType :
               /\ Distinct(mReusableVars'[u])
               /\ Elements(mReusableVars'[u]) \subseteq Elements(mReusableVars[u])
               /\ v \notin Elements(mReusableVars'[u])
      <3>1. CASE v = NewVar(t) /\ freshVars' = freshVars + 1 /\ mReusableVars' = mReusableVars
        <4>1. v.id = freshVars + 1 /\ v.type = t
          BY <3>1 DEF NewVar
        <4>2. \A i \in 1 .. n : mObjectives[i].var # v
          BY <2>1, <2>6, <4>1
        <4>3. \A u \in VariableType : v \notin Elements(mReusableVars'[u])
          BY <2>1, <2>6, <3>1, <4>1
        <4> QED BY <2>1, <2>6, <3>1, <4>1, <4>2, <4>3
      <3>2. CASE /\ freshVars' = freshVars
                 /\ free # <<>>
                 /\ v = free[Len(free)]
                 /\ mReusableVars' = [mReusableVars EXCEPT ![t] = SubSeq(free, 1, Len(free) - 1)]
        <4> DEFINE m == Len(free)
        <4>1. m \in DOMAIN free /\ DOMAIN free = 1 .. m /\ m \in Nat /\ m - 1 \in 0 .. m
          BY <2>2, <3>2
        <4>2. /\ mReusableVars'[t] = SubSeq(free, 1, m - 1)
              /\ \A u \in VariableType : u # t => mReusableVars'[u] = mReusableVars[u]
          BY <2>1, <2>2, <3>2 DEF Reusable
        <4>3. v = free[m]
          BY <3>2
        <4>4. Distinct(free) /\ free = mReusableVars[t]
          BY <2>2, <2>6
        <4> HIDE DEF m, free
        <4>5. /\ Elements(mReusableVars'[t]) = {free[i] : i \in 1 .. m - 1}
              /\ Distinct(mReusableVars'[t])
          BY <2>2, <4>1, <4>2, <4>4, PrefixFacts DEF m
        <4>6. 1 .. m - 1 \subseteq DOMAIN free /\ m \notin 1 .. m - 1
          BY <4>1
        <4>7. v \notin Elements(mReusableVars'[t])
          BY <4>1, <4>3, <4>4, <4>5, <4>6 DEF Distinct
        <4>8. Elements(mReusableVars'[t]) \subseteq Elements(free)
          BY <4>5, <4>6 DEF Elements
        <4>9. v \in Elements(mReusableVars[t])
          BY <4>1, <4>3, <4>4 DEF Elements
        <4>10. v.type = t /\ v.id <= freshVars /\ \A i \in 1 .. n : mObjectives[i].var # v
          BY <2>2, <2>6, <4>9
        <4>11. \A u \in VariableType : u # t => v \notin Elements(mReusableVars[u])
          BY <2>6, <4>10
        <4> HIDE DEF t
        <4>12. ASSUME NEW u \in VariableType
               PROVE  /\ Distinct(mReusableVars'[u])
                      /\ Elements(mReusableVars'[u]) \subseteq Elements(mReusableVars[u])
                      /\ v \notin Elements(mReusableVars'[u])
          <5>1. CASE u = t
            BY <4>4, <4>5, <4>7, <4>8, <5>1
          <5>2. CASE u # t
            BY <2>6, <4>2, <4>11, <5>2
          <5> QED BY <5>1, <5>2
        <4>13. freshVars' = freshVars /\ freshVars \in Nat
          BY <2>1, <3>2
        <4> QED BY ONLY <4>10, <4>12, <4>13
      <3> QED BY <2>3, <3>1, <3>2
    <2>9. \A i \in 1 .. n + 1 : i \in 1 .. n \/ i = n + 1
      BY <2>1
    <2> HIDE DEF free
    <2>10. /\ \A i, j \in DOMAIN mObjectives' : mObjectives'[i].var = mObjectives'[j].var => i = j
           /\ \A i \in DOMAIN mObjectives' : mObjectives'[i].var.type = TypeOf(mObjectives'[i].fct)
      BY <2>5, <2>6, <2>8, <2>9
    <2>11. \A i \in DOMAIN mObjectives' : mObjectives'[i].var.id <= freshVars'
      <3>1. \A i \in 1 .. n : mObjectives[i].var.id \in Nat /\ mObjectives[i].var.id <= freshVars
        BY <2>1, <2>6
      <3> QED BY <2>1, <2>5, <2>8, <2>9, <3>1
    <2>12. \A u \in VariableType :
             \A i \in DOMAIN mObjectives' : mObjectives'[i].var \notin Elements(mReusableVars'[u])
      BY <2>5, <2>6, <2>8, <2>9
    <2>13. ASSUME NEW u \in VariableType, NEW i \in DOMAIN mReusableVars'[u]
           PROVE  mReusableVars'[u][i].type = u /\ mReusableVars'[u][i].id <= freshVars'
      <3>1. mReusableVars'[u][i] \in Elements(mReusableVars'[u])
        BY DEF Elements
      <3>2. mReusableVars'[u][i] \in Elements(mReusableVars[u])
        BY <2>8, <3>1
      <3>3. mReusableVars'[u][i].type = u /\ mReusableVars'[u][i].id <= freshVars
            /\ mReusableVars'[u][i].id \in Nat
        BY <2>1, <2>6, <2>7, <3>2
      <3> QED BY <2>1, <2>8, <3>3
    <2> QED BY <2>8, <2>10, <2>11, <2>12, <2>13 DEF VarsInv, ObjectiveVarsDistinct, Distinct
  <1>2. CASE pop
    BY <1>2, VarsAfterPop DEF pop
  <1>3. CASE Bound
    <2>1. mBacktrackPoints # <<>>
      BY <1>3, InnerPop DEF Bound, IInv, CheckWellFormed
    <2> QED BY <1>3, <2>1, VarsAfterPop DEF Bound
  <1>4. CASE Unwind
    <2>1. mBacktrackPoints # <<>>
      BY <1>4, InnerPop DEF Unwind, IInv, CheckWellFormed
    <2> QED BY <1>4, <2>1, VarsAfterPop DEF Unwind
  <1>5. CASE UNCHANGED objectiveVars
    BY <1>5 DEF VarsInv, ObjectiveVarsDistinct
  <1> QED
    BY <1>1, <1>2, <1>3, <1>4, <1>5
       DEF Next, CheckNext, Failed, vars, add, push, CheckBegin, Minimize, Answered, NextObjective

(* No two objectives in force share their variable, so the bounds check()  *)
(* adds for one are never taken for the other's (Manager.h:179-201).       *)
THEOREM ObjectiveVarsUnique == Spec => []ObjectiveVarsDistinct
  <1>1. Init => VarsInv
    BY DEF Init, VarsInv, ObjectiveVarsDistinct, Elements
  <1>2. IInv /\ VarsInv /\ [Next]_vars => VarsInv'
    BY VarsPreserved
  <1>3. VarsInv => ObjectiveVarsDistinct
    BY DEF VarsInv
  <1> QED BY <1>1, <1>2, <1>3, Invariant, PTL DEF Spec

-----------------------------------------------------------------------------
(* Refinement: what is in force is two prefixes, given by two lengths.     *)

Points == Seq([first : Nat, live : BOOLEAN, second : Nat \cup {-1}])
Objectives == Seq([fct : Objective, var : Var, level : Nat])

FormulasAt(list, points, k) == IF k <= Len(points) THEN points[k].first ELSE Len(list)
ObjectivesAt(objs, points, k) == IF k <= Len(points) THEN points[k].second + 1 ELSE Len(objs)

Front(list, n) == {list[i] : i \in 1 .. n}
Functions(objs, m) == [i \in 1 .. m |-> objs[i].fct]

LEMMA InForceIs ==
  ASSUME NEW list \in Seq(Formula), NEW points, NEW objs \in Objectives, NEW k,
         FormulasAt(list, points, k) \in 0 .. Len(list)
  PROVE  InForceOf(list, points, objs, k) =
           [asserted |-> Front(list, FormulasAt(list, points, k)),
            objectives |-> Functions(objs, ObjectivesAt(objs, points, k))]
  <1>1. CASE k <= Len(points)
    <2>1. /\ FormulasAt(list, points, k) = points[k].first
          /\ ObjectivesAt(objs, points, k) = points[k].second + 1
      BY <1>1 DEF FormulasAt, ObjectivesAt
    <2>2. Elements(SubSeq(list, 1, points[k].first)) = Front(list, points[k].first)
      BY <2>1, PrefixFacts DEF Front
    <2> QED BY <1>1, <2>1, <2>2 DEF InForceOf, Functions
  <1>2. CASE ~(k <= Len(points))
    <2>1. FormulasAt(list, points, k) = Len(list) /\ ObjectivesAt(objs, points, k) = Len(objs)
      BY <1>2 DEF FormulasAt, ObjectivesAt
    <2>2. DOMAIN list = 1 .. Len(list) /\ DOMAIN objs = 1 .. Len(objs)
      BY DEF Objectives
    <2> QED BY <1>2, <2>1, <2>2 DEF InForceOf, Elements, Front, Functions
  <1> QED BY <1>1, <1>2

LEMMA SameInForce ==
  ASSUME NEW list1 \in Seq(Formula), NEW points1, NEW objs1 \in Objectives, NEW k1,
         NEW list2 \in Seq(Formula), NEW points2, NEW objs2 \in Objectives, NEW k2,
         FormulasAt(list1, points1, k1) \in 0 .. Len(list1),
         FormulasAt(list2, points2, k2) \in 0 .. Len(list2),
         FormulasAt(list1, points1, k1) = FormulasAt(list2, points2, k2),
         ObjectivesAt(objs1, points1, k1) = ObjectivesAt(objs2, points2, k2),
         \A i \in 1 .. FormulasAt(list1, points1, k1) : list1[i] = list2[i],
         \A i \in 1 .. ObjectivesAt(objs1, points1, k1) : objs1[i] = objs2[i]
  PROVE  InForceOf(list1, points1, objs1, k1) = InForceOf(list2, points2, objs2, k2)
  <1>1. InForceOf(list1, points1, objs1, k1) =
           [asserted |-> Front(list1, FormulasAt(list1, points1, k1)),
            objectives |-> Functions(objs1, ObjectivesAt(objs1, points1, k1))]
    BY InForceIs
  <1>2. InForceOf(list2, points2, objs2, k2) =
           [asserted |-> Front(list2, FormulasAt(list2, points2, k2)),
            objectives |-> Functions(objs2, ObjectivesAt(objs2, points2, k2))]
    BY InForceIs
  <1>3. Front(list1, FormulasAt(list1, points1, k1)) = Front(list2, FormulasAt(list2, points2, k2))
    BY DEF Front
  <1>4. Functions(objs1, ObjectivesAt(objs1, points1, k1))
          = Functions(objs2, ObjectivesAt(objs2, points2, k2))
    BY DEF Functions
  <1> QED BY <1>1, <1>2, <1>3, <1>4

LEMMA Lengths ==
  ASSUME NEW list \in Seq(Formula), NEW points \in Points, NEW objs \in Objectives,
         \A k \in DOMAIN points : /\ points[k].first \in 0 .. Len(list)
                                  /\ points[k].second \in -1 .. Len(objs) - 1,
         NEW k \in 1 .. Len(points) + 1
  PROVE  FormulasAt(list, points, k) \in 0 .. Len(list) /\ ObjectivesAt(objs, points, k) \in 0 .. Len(objs)
  <1>1. DOMAIN points = 1 .. Len(points) /\ Len(points) \in Nat
    BY DEF Points
  <1>2. Len(list) \in Nat /\ Len(objs) \in Nat
    BY DEF Objectives
  <1>3. CASE k <= Len(points)
    <2>1. k \in DOMAIN points
      BY <1>1, <1>3
    <2> QED BY <1>2, <1>3, <2>1 DEF FormulasAt, ObjectivesAt
  <1>4. CASE ~(k <= Len(points))
    BY <1>2, <1>4 DEF FormulasAt, ObjectivesAt
  <1> QED BY <1>3, <1>4

(* A level keeps what it holds while the list and the objectives below it  *)
(* do not change; so does what is in force when a level of check() begins  *)
(* or ends.                                                                *)
LEMMA LevelKept ==
  ASSUME IInv, IInv',
         NEW k \in 1 .. Len(mBacktrackPoints) + 1, k <= Len(mBacktrackPoints') + 1,
         FormulasAt(mpPassedFormula', mBacktrackPoints', k)
           = FormulasAt(mpPassedFormula, mBacktrackPoints, k),
         ObjectivesAt(mObjectives', mBacktrackPoints', k)
           = ObjectivesAt(mObjectives, mBacktrackPoints, k),
         \A i \in 1 .. FormulasAt(mpPassedFormula, mBacktrackPoints, k) :
            mpPassedFormula'[i] = mpPassedFormula[i],
         \A i \in 1 .. ObjectivesAt(mObjectives, mBacktrackPoints, k) :
            mObjectives'[i] = mObjectives[i]
  PROVE  InForceOf(mpPassedFormula', mBacktrackPoints', mObjectives', k)
           = InForceOf(mpPassedFormula, mBacktrackPoints, mObjectives, k)
  <1>1. /\ mpPassedFormula \in Seq(Formula) /\ mBacktrackPoints \in Points
        /\ mObjectives \in Objectives
        /\ \A j \in DOMAIN mBacktrackPoints :
             /\ mBacktrackPoints[j].first \in 0 .. Len(mpPassedFormula)
             /\ mBacktrackPoints[j].second \in -1 .. Len(mObjectives) - 1
    BY DEF IInv, TypeOK, Points, Objectives, BacktrackPointsValid
  <1>2. /\ mpPassedFormula' \in Seq(Formula) /\ mBacktrackPoints' \in Points
        /\ mObjectives' \in Objectives
        /\ \A j \in DOMAIN mBacktrackPoints' :
             /\ mBacktrackPoints'[j].first \in 0 .. Len(mpPassedFormula')
             /\ mBacktrackPoints'[j].second \in -1 .. Len(mObjectives') - 1
    BY DEF IInv, TypeOK, Points, Objectives, BacktrackPointsValid
  <1>3. FormulasAt(mpPassedFormula, mBacktrackPoints, k) \in 0 .. Len(mpPassedFormula)
    BY <1>1, Lengths
  <1>4. k \in 1 .. Len(mBacktrackPoints') + 1
    <2>1. Len(mBacktrackPoints') \in Nat /\ Len(mBacktrackPoints) \in Nat
      BY <1>1, <1>2 DEF Points
    <2> QED BY <2>1
  <1>5. FormulasAt(mpPassedFormula', mBacktrackPoints', k) \in 0 .. Len(mpPassedFormula')
    BY <1>2, <1>4, Lengths
  <1> QED BY <1>1, <1>2, <1>3, <1>5, SameInForce

LEMMA StepRefines ==
  ASSUME IInv, IInv', [Next]_vars
  PROVE  [Stack!StackNext]_(Stack!stackVars)
  <1> USE DEF listVars, objectiveVars, checkVars
  <1> DEFINE L == Len(mBacktrackPoints)
             now(k) == InForceOf(mpPassedFormula, mBacktrackPoints, mObjectives, k)
             then(k) == InForceOf(mpPassedFormula', mBacktrackPoints', mObjectives', k)
  <1>0. /\ L \in Nat /\ Len(mBacktrackPoints') \in Nat
        /\ Len(mObjectives) \in Nat /\ Len(mpPassedFormula) \in Nat
        /\ Len(mObjectives') \in Nat /\ Len(mpPassedFormula') \in Nat
        /\ inner \in Nat /\ inner' \in Nat /\ inner <= L
    <2>1. /\ L \in Nat /\ Len(mObjectives) \in Nat /\ Len(mpPassedFormula) \in Nat
          /\ inner \in Nat
      BY DEF IInv, TypeOK
    <2>2. /\ Len(mBacktrackPoints') \in Nat
          /\ Len(mObjectives') \in Nat /\ Len(mpPassedFormula') \in Nat
          /\ inner' \in Nat
      BY DEF IInv, TypeOK
    <2>3. inner <= L
      BY DEF IInv, CheckWellFormed
    <2> QED BY <2>1, <2>2, <2>3
  <1>a. \A k \in 1 .. L : /\ mBacktrackPoints[k].first \in 0 .. Len(mpPassedFormula)
                          /\ mBacktrackPoints[k].second + 1 \in 0 .. Len(mObjectives)
    <2>1. DOMAIN mBacktrackPoints = 1 .. L
      BY DEF IInv, TypeOK
    <2>2. \A k \in 1 .. L : /\ mBacktrackPoints[k].first \in 0 .. Len(mpPassedFormula)
                            /\ mBacktrackPoints[k].second \in -1 .. Len(mObjectives) - 1
      BY <2>1 DEF IInv, BacktrackPointsValid
    <2> DEFINE n == Len(mObjectives)
    <2>3. n \in Nat
      BY <1>0
    <2>4. \A k \in 1 .. L : /\ mBacktrackPoints[k].first \in 0 .. Len(mpPassedFormula)
                            /\ mBacktrackPoints[k].second \in -1 .. n - 1
      BY ONLY <2>2
    <2> HIDE DEF n, L
    <2>5. \A z \in -1 .. n - 1 : z + 1 \in 0 .. n
      BY ONLY <2>3
    <2>6. \A k \in 1 .. L : /\ mBacktrackPoints[k].first \in 0 .. Len(mpPassedFormula)
                            /\ mBacktrackPoints[k].second + 1 \in 0 .. n
      BY ONLY <2>4, <2>5, Zenon
    <2> QED BY ONLY <2>6 DEF n
  <1>s. ASSUME UserLevels' = UserLevels, \A k \in 1 .. UserLevels + 1 : then(k) = now(k)
        PROVE  UNCHANGED Stack!stackVars
    <2>1. UserLevels \in Nat
      BY <1>0 DEF UserLevels
    <2>2. then(UserLevels + 1) = now(UserLevels + 1)
          /\ \A k \in 1 .. UserLevels : then(k) = now(k)
      BY <1>s, <2>1
    <2> QED BY <1>s, <2>2 DEF Stack!stackVars, InForce
  <1>1. ASSUME NEW parts \in Conjunction, add(parts) PROVE Stack!Assert
    <2>1. parts \in Seq(Formula) /\ Distinct(parts) /\ Elements(parts) \subseteq Atom
      BY <1>1, FormulaFacts DEF Conjunction, Distinct, Elements
    <2>2. /\ Elements(mpPassedFormula) \subseteq Elements(mpPassedFormula')
          /\ Elements(mpPassedFormula') \subseteq Elements(mpPassedFormula) \cup Elements(parts)
          /\ Len(mpPassedFormula) <= Len(mpPassedFormula')
          /\ \A i \in 1 .. Len(mpPassedFormula) : mpPassedFormula'[i] = mpPassedFormula[i]
      BY <1>1, <2>1, Added DEF add
    <2>3. /\ mBacktrackPoints' = mBacktrackPoints /\ mObjectives' = mObjectives
          /\ inner = 0 /\ inner' = 0
      BY <1>1 DEF add, IInv, CheckWellFormed
    <2>4. UserLevels = L /\ UserLevels' = L
      BY <1>0, <2>3 DEF UserLevels
    <2>5. ASSUME NEW k \in 1 .. L PROVE then(k) = now(k)
      BY <1>0, <1>a, <2>2, <2>3, LevelKept DEF FormulasAt, ObjectivesAt
    <2>6. /\ now(L + 1).asserted = Elements(mpPassedFormula)
          /\ then(L + 1).asserted = Elements(mpPassedFormula')
          /\ now(L + 1).objectives = then(L + 1).objectives
      BY <1>0, <2>3 DEF InForceOf
    <2>7. \E F \in SUBSET Atom : then(L + 1).asserted = now(L + 1).asserted \cup F
      <3>1. Elements(mpPassedFormula')
              = Elements(mpPassedFormula) \cup (Elements(mpPassedFormula') \cap Elements(parts))
        BY <2>2
      <3> QED BY <2>1, <2>6, <3>1
    <2>8. [k \in 1 .. L |-> then(k)] = [k \in 1 .. L |-> now(k)]
      BY <2>5
    <2> QED BY <2>4, <2>6, <2>7, <2>8 DEF Stack!Assert, InForce
  <1>2. CASE push
    <2>1. /\ mBacktrackPoints' \in Points
          /\ Len(mBacktrackPoints') = L + 1
          /\ \A k \in 1 .. L : mBacktrackPoints'[k] = mBacktrackPoints[k]
          /\ mBacktrackPoints'[L + 1].first = Len(mpPassedFormula)
          /\ mBacktrackPoints'[L + 1].second = Len(mObjectives) - 1
      BY <1>2, PushFacts DEF push, IInv, Points
    <2>2. /\ mpPassedFormula' = mpPassedFormula /\ mObjectives' = mObjectives
          /\ inner = 0 /\ inner' = 0
      BY <1>2 DEF push, IInv, CheckWellFormed
    <2>3. UserLevels = L /\ UserLevels' = L + 1
      BY <1>0, <2>1, <2>2 DEF UserLevels
    <2>4. ASSUME NEW k \in 1 .. L + 1 PROVE then(k) = now(k)
      BY <1>0, <2>1, <2>2, LevelKept DEF FormulasAt, ObjectivesAt
    <2>5. now(L + 1) = [asserted |-> Elements(mpPassedFormula),
                        objectives |-> [i \in DOMAIN mObjectives |-> mObjectives[i].fct]]
      BY <1>0 DEF InForceOf
    <2>6. then(L + 2) = now(L + 1)
      BY <1>0, <2>1, <2>2, <2>5 DEF InForceOf
    <2>7. now(L + 1) = [asserted |-> now(L + 1).asserted, objectives |-> now(L + 1).objectives]
      BY <2>5
    <2> HIDE DEF now, then
    <2>8. [k \in 1 .. L + 1 |-> then(k)]
             = Append([k \in 1 .. L |-> now(k)],
                      [asserted |-> now(L + 1).asserted, objectives |-> now(L + 1).objectives])
      <3>1. [k \in 1 .. L + 1 |-> then(k)] = Append([k \in 1 .. L |-> now(k)], now(L + 1))
        BY <1>0, <2>4
      <3> QED BY <2>7, <3>1
    <2>9. L + 1 + 1 = L + 2
      BY <1>0
    <2> QED BY <2>3, <2>6, <2>8, <2>9 DEF Stack!StackNext, Stack!Push, InForce, now, then
  <1>3. CASE pop
    <2>1. /\ mBacktrackPoints # <<>> /\ PopPoint
          /\ mpPassedFormula' = FormulasKept(LastPoint)
          /\ inner = 0 /\ inner' = 0
      BY <1>3 DEF pop, IInv, CheckWellFormed
    <2>2. /\ Len(mpPassedFormula') = LastPoint.first
          /\ \A i \in 1 .. LastPoint.first : mpPassedFormula'[i] = mpPassedFormula[i]
      BY <2>1, Kept
    <2>3. /\ Len(mBacktrackPoints') = L - 1
          /\ \A k \in 1 .. L - 1 : mBacktrackPoints'[k] = mBacktrackPoints[k]
          /\ Len(mObjectives') = LastPoint.second + 1
          /\ \A i \in 1 .. LastPoint.second + 1 : mObjectives'[i] = mObjectives[i]
      BY <2>1, PopPointFacts DEF IInv
    <2>4. /\ LastPoint = mBacktrackPoints[L] /\ L \in Nat \ {0}
          /\ LastPoint.first \in Nat /\ LastPoint.second \in Int
          /\ \A k \in 1 .. L : /\ mBacktrackPoints[k].first \in 0 .. LastPoint.first
                               /\ mBacktrackPoints[k].second \in -1 .. LastPoint.second
      <3>1. L # 0
        BY <2>1 DEF IInv, TypeOK
      <3> QED BY <1>0, <2>1, <3>1, PopFacts, SMTT(30) DEF LastPoint, IInv
    <2>5. ASSUME NEW k \in 1 .. L PROVE then(k) = now(k)
      <3>1. CASE k \in 1 .. L - 1
        <4>1. /\ FormulasAt(mpPassedFormula', mBacktrackPoints', k) = mBacktrackPoints[k].first
              /\ FormulasAt(mpPassedFormula, mBacktrackPoints, k) = mBacktrackPoints[k].first
              /\ ObjectivesAt(mObjectives', mBacktrackPoints', k) = mBacktrackPoints[k].second + 1
              /\ ObjectivesAt(mObjectives, mBacktrackPoints, k) = mBacktrackPoints[k].second + 1
          BY <1>0, <2>3, <3>1 DEF FormulasAt, ObjectivesAt
        <4>2. /\ \A i \in 1 .. mBacktrackPoints[k].first : i \in 1 .. LastPoint.first
              /\ \A i \in 1 .. mBacktrackPoints[k].second + 1 : i \in 1 .. LastPoint.second + 1
          BY <2>4
        <4> QED BY <1>0, <2>2, <2>3, <3>1, <4>1, <4>2, LevelKept
      <3>2. CASE k = L
        <4>1. /\ FormulasAt(mpPassedFormula', mBacktrackPoints', k) = LastPoint.first
              /\ FormulasAt(mpPassedFormula, mBacktrackPoints, k) = LastPoint.first
              /\ ObjectivesAt(mObjectives', mBacktrackPoints', k) = LastPoint.second + 1
              /\ ObjectivesAt(mObjectives, mBacktrackPoints, k) = LastPoint.second + 1
          BY <1>0, <2>2, <2>3, <2>4, <3>2 DEF FormulasAt, ObjectivesAt
        <4> QED BY <1>0, <2>2, <2>3, <3>2, <4>1, LevelKept
      <3> QED BY <2>4, <3>1, <3>2
    <2>6. UserLevels = L /\ UserLevels' = L - 1 /\ L - 1 + 1 = L /\ L - 1 \in 0 .. L - 1
      BY <1>0, <2>1, <2>3, <2>4 DEF UserLevels
    <2> HIDE DEF now, then
    <2>7. /\ [k \in 1 .. L |-> now(k)][L] = then(L)
          /\ SubSeq([k \in 1 .. L |-> now(k)], 1, L - 1) = [k \in 1 .. L - 1 |-> then(k)]
          /\ Len([k \in 1 .. L |-> now(k)]) = L
      <3>1. \A k \in 1 .. L - 1 : then(k) = now(k)
        BY <2>4, <2>5
      <3> QED BY <2>4, <2>5, <3>1
    <2>8. Stack!PopTo(L - 1)
      BY <2>6, <2>7 DEF Stack!PopTo, InForce, now, then
    <2>9. L - 1 \in 0 .. Len([k \in 1 .. UserLevels |-> InForce(k)]) - 1
      BY <2>6, <2>7 DEF InForce, now
    <2> QED BY <2>8, <2>9 DEF Stack!StackNext, Stack!Pop
  <1>4. ASSUME NEW o \in Objective, addObjective(o) PROVE Stack!Optimise
    <2>1. /\ mpPassedFormula' = mpPassedFormula /\ mBacktrackPoints' = mBacktrackPoints
          /\ inner = 0 /\ inner' = 0
      BY <1>4 DEF addObjective, IInv, CheckWellFormed
    <2>2. PICK v : mObjectives' = Append(mObjectives, NewObjective(o, v))
      BY <1>4 DEF addObjective
    <2>3. NewObjective(o, v).fct = o
      BY DEF NewObjective
    <2>4. mObjectives \in Objectives
      BY DEF IInv, TypeOK, Objectives
    <2>5. /\ DOMAIN mObjectives = 1 .. Len(mObjectives)
          /\ DOMAIN mObjectives' = 1 .. Len(mObjectives) + 1
          /\ \A i \in 1 .. Len(mObjectives) : mObjectives'[i] = mObjectives[i]
          /\ mObjectives'[Len(mObjectives) + 1].fct = o
      BY <2>2, <2>3, <2>4 DEF Objectives
    <2>6. UserLevels = L /\ UserLevels' = L
      BY <1>0, <2>1 DEF UserLevels
    <2>7. ASSUME NEW k \in 1 .. L PROVE then(k) = now(k)
      BY <1>0, <1>a, <2>1, <2>5, LevelKept DEF FormulasAt, ObjectivesAt
    <2>8. /\ now(L + 1).asserted = Elements(mpPassedFormula)
          /\ then(L + 1).asserted = Elements(mpPassedFormula)
          /\ now(L + 1).objectives = [i \in 1 .. Len(mObjectives) |-> mObjectives[i].fct]
          /\ then(L + 1).objectives = [i \in 1 .. Len(mObjectives) + 1 |-> mObjectives'[i].fct]
      <3>1. ~(L + 1 <= L) /\ Len(mBacktrackPoints') = L
        BY <1>0, <2>1
      <3>2. /\ now(L + 1) = [asserted |-> Elements(mpPassedFormula),
                             objectives |-> [i \in DOMAIN mObjectives |-> mObjectives[i].fct]]
            /\ then(L + 1) = [asserted |-> Elements(mpPassedFormula'),
                              objectives |-> [i \in DOMAIN mObjectives' |-> mObjectives'[i].fct]]
        BY <3>1 DEF InForceOf
      <3>3. now(L + 1).objectives = [i \in DOMAIN mObjectives |-> mObjectives[i].fct]
            /\ then(L + 1).objectives = [i \in DOMAIN mObjectives' |-> mObjectives'[i].fct]
            /\ now(L + 1).asserted = Elements(mpPassedFormula)
            /\ then(L + 1).asserted = Elements(mpPassedFormula')
        BY <3>2
      <3>4. /\ [i \in DOMAIN mObjectives |-> mObjectives[i].fct]
                  = [i \in 1 .. Len(mObjectives) |-> mObjectives[i].fct]
            /\ [i \in DOMAIN mObjectives' |-> mObjectives'[i].fct]
                  = [i \in 1 .. Len(mObjectives) + 1 |-> mObjectives'[i].fct]
        BY <2>5, Zenon
      <3> HIDE DEF now, then
      <3> QED BY <2>1, <3>3, <3>4, Zenon
    <2>9. [i \in 1 .. Len(mObjectives) + 1 |-> mObjectives'[i].fct]
             = Append([i \in 1 .. Len(mObjectives) |-> mObjectives[i].fct], o)
      BY <1>0, <2>5
    <2>10. [k \in 1 .. L |-> then(k)] = [k \in 1 .. L |-> now(k)]
      BY <2>7
    <2> QED BY <1>4, <2>6, <2>8, <2>9, <2>10 DEF Stack!Optimise, InForce
  <1>5. CASE CheckBegin
    <2>1. /\ Len(mBacktrackPoints') = L + 1
          /\ \A k \in 1 .. L : mBacktrackPoints'[k] = mBacktrackPoints[k]
          /\ mBacktrackPoints'[L + 1].first = Len(mpPassedFormula)
          /\ mBacktrackPoints'[L + 1].second = Len(mObjectives) - 1
      BY <1>5, PushFacts DEF CheckBegin, IInv
    <2>2. /\ mpPassedFormula' = mpPassedFormula /\ mObjectives' = mObjectives
          /\ inner = 0 /\ inner' = 1
      BY <1>5 DEF CheckBegin, IInv, CheckWellFormed
    <2>3. UserLevels = L /\ UserLevels' = L
      BY <1>0, <2>1, <2>2 DEF UserLevels
    <2>4. ASSUME NEW k \in 1 .. L + 1 PROVE then(k) = now(k)
      BY <1>0, <2>1, <2>2, LevelKept DEF FormulasAt, ObjectivesAt
    <2> QED BY <1>s, <2>3, <2>4
  <1>6. CASE Minimize
    <2> DEFINE equation == <<Equation(mObjectives[current].var)>>
    <2>1. current \in 1 .. Len(mObjectives) /\ inner = 1
      BY <1>6 DEF Minimize, IInv, CheckWellFormed
    <2>2. equation \in Seq(Formula) /\ Distinct(equation)
      <3>1. mObjectives \in Seq([fct : Objective, var : Var, level : Nat])
        BY DEF IInv, TypeOK
      <3>2. mObjectives[current] \in [fct : Objective, var : Var, level : Nat]
        BY <2>1, <3>1, ElementOfSeq
      <3>3. mObjectives[current].var \in Var
        BY <3>2
      <3>4. Equation(mObjectives[current].var) \in Formula
        BY <3>3, FormulaFacts
      <3> QED BY <3>4 DEF Distinct
    <2>3. /\ mBacktrackPoints' = Append(mBacktrackPoints, Point)
          /\ \E new \in New(mpPassedFormula, equation) :
               /\ mpPassedFormula' = mpPassedFormula \o new
               /\ told' = told \cup Told(new)
          /\ inner' = 2 /\ mObjectives' = mObjectives
      BY <1>6 DEF Minimize
    <2> HIDE DEF equation
    <2>4. /\ Len(mpPassedFormula) <= Len(mpPassedFormula')
          /\ \A i \in 1 .. Len(mpPassedFormula) : mpPassedFormula'[i] = mpPassedFormula[i]
      BY <2>2, <2>3, Added
    <2>5. /\ Len(mBacktrackPoints') = L + 1
          /\ \A k \in 1 .. L : mBacktrackPoints'[k] = mBacktrackPoints[k]
      BY <2>3, PushFacts DEF IInv
    <2>6. UserLevels = L - 1 /\ UserLevels' = L - 1 /\ L - 1 + 1 = L
      BY <1>0, <2>1, <2>3, <2>5 DEF UserLevels
    <2>7. ASSUME NEW k \in 1 .. L PROVE then(k) = now(k)
      BY <1>0, <1>a, <2>3, <2>4, <2>5, LevelKept, SMTT(30) DEF FormulasAt, ObjectivesAt
    <2> QED BY <1>s, <2>6, <2>7
  <1>7. CASE Answered \/ NextObjective \/ UNCHANGED vars
    <2>1. UNCHANGED <<mpPassedFormula, mBacktrackPoints, mObjectives, inner>>
      BY <1>7 DEF Answered, NextObjective, vars
    <2> QED BY <2>1, <1>s DEF UserLevels
  <1>8. CASE Bound \/ Unwind
    <2>1. inner > 0 /\ inner' = inner - 1 /\ PopPoint
      BY <1>8 DEF Bound, Unwind, InnerAfterPop, IInv, CheckWellFormed
    <2>2. /\ mBacktrackPoints # <<>>
          /\ mObjectives' = mObjectives
          /\ Len(mBacktrackPoints') = L - 1
          /\ \A k \in 1 .. L - 1 : mBacktrackPoints'[k] = mBacktrackPoints[k]
      BY <2>1, InnerPop
    <2>3. /\ LastPoint = mBacktrackPoints[L] /\ L \in Nat \ {0}
          /\ LastPoint.first \in Nat
          /\ \A k \in 1 .. L : mBacktrackPoints[k].first \in 0 .. LastPoint.first
      BY <1>0, <2>1, <2>2, PopFacts DEF LastPoint, IInv
    <2>4. UserLevels' = UserLevels /\ UserLevels + 1 <= L /\ UserLevels \in Nat
      BY <1>0, <2>1, <2>2 DEF UserLevels
    <2>5. LastPoint.second + 1 = Len(mObjectives)
      <3>1. DOMAIN mBacktrackPoints = 1 .. L
        BY DEF IInv, TypeOK
      <3>2. mBacktrackPoints[L].second = Len(mObjectives) - 1
        BY <1>0, <2>1, <2>3, <3>1 DEF IInv, CheckWellFormed
      <3> QED BY <1>0, <2>3, <3>2
    <2>6. /\ LastPoint.first <= Len(mpPassedFormula')
          /\ \A i \in 1 .. LastPoint.first : mpPassedFormula'[i] = mpPassedFormula[i]
          /\ Unwind => Len(mpPassedFormula') = LastPoint.first
      <3> DEFINE kept == FormulasKept(LastPoint)
                 bound == <<UpperBound(mObjectives[current + 1].var)>>
      <3>1. /\ kept \in Seq(Formula) /\ Distinct(kept)
            /\ Len(kept) = LastPoint.first
            /\ \A i \in 1 .. LastPoint.first : kept[i] = mpPassedFormula[i]
        BY <2>2, Kept
      <3>2. CASE Unwind
        BY <2>3, <3>1, <3>2 DEF Unwind
      <3>3. CASE Bound /\ ~Unwind
        <4>1. bound \in Seq(Formula) /\ Distinct(bound)
          <5>1. mObjectives \in Seq([fct : Objective, var : Var, level : Nat])
            BY DEF IInv, TypeOK
          <5>2. current + 1 \in 1 .. Len(mObjectives)
            BY <1>0, <3>3 DEF Bound, IInv, CheckWellFormed
          <5>3. mObjectives[current + 1] \in [fct : Objective, var : Var, level : Nat]
            BY <5>1, <5>2, ElementOfSeq
          <5>4. mObjectives[current + 1].var \in Var
            BY <5>3
          <5>5. UpperBound(mObjectives[current + 1].var) \in Formula
            BY <5>4, FormulaFacts
          <5> QED BY <5>5 DEF Distinct
        <4>2. PICK new \in New(kept, bound) : mpPassedFormula' = kept \o new
          BY <3>3 DEF Bound
        <4> HIDE DEF kept, bound
        <4>3. /\ Len(kept) <= Len(mpPassedFormula')
              /\ \A i \in 1 .. Len(kept) : mpPassedFormula'[i] = kept[i]
          BY <3>1, <4>1, <4>2, Extended
        <4> QED BY <3>1, <3>3, <4>3
      <3> QED BY <1>8, <3>2, <3>3
    <2>7. inner = 1 => Unwind
      BY <1>8 DEF Bound, IInv, CheckWellFormed
    <2>8. ASSUME NEW k \in 1 .. UserLevels + 1 PROVE then(k) = now(k)
      <3>1. CASE k \in 1 .. L - 1
        <4>1. /\ FormulasAt(mpPassedFormula', mBacktrackPoints', k) = mBacktrackPoints[k].first
              /\ FormulasAt(mpPassedFormula, mBacktrackPoints, k) = mBacktrackPoints[k].first
              /\ ObjectivesAt(mObjectives', mBacktrackPoints', k) = mBacktrackPoints[k].second + 1
              /\ ObjectivesAt(mObjectives, mBacktrackPoints, k) = mBacktrackPoints[k].second + 1
          BY <1>0, <2>2, <3>1 DEF FormulasAt, ObjectivesAt
        <4>2. \A i \in 1 .. mBacktrackPoints[k].first : i \in 1 .. LastPoint.first
          BY <2>3, <3>1
        <4> QED BY <1>0, <2>2, <2>6, <3>1, <4>1, <4>2, LevelKept
      <3>2. CASE k = L
        <4>1. inner = 1
          BY <1>0, <2>1, <3>2 DEF UserLevels
        <4>2. Len(mpPassedFormula') = LastPoint.first
          BY <2>6, <2>7, <4>1
        <4>3. /\ FormulasAt(mpPassedFormula', mBacktrackPoints', k) = LastPoint.first
              /\ FormulasAt(mpPassedFormula, mBacktrackPoints, k) = LastPoint.first
              /\ ObjectivesAt(mObjectives', mBacktrackPoints', k) = LastPoint.second + 1
              /\ ObjectivesAt(mObjectives, mBacktrackPoints, k) = LastPoint.second + 1
          BY <1>0, <2>2, <2>3, <2>5, <3>2, <4>2 DEF FormulasAt, ObjectivesAt
        <4> QED BY <1>0, <2>2, <2>6, <3>2, <4>3, LevelKept
      <3> QED BY <1>0, <2>4, <3>1, <3>2
    <2> QED BY <1>s, <2>4, <2>8
  <1> QED
    BY <1>1, <1>2, <1>3, <1>4, <1>5, <1>6, <1>7, <1>8
       DEF Next, CheckNext, Failed, Stack!StackNext

(* The manager implements the assertion stack: pop() brings back exactly   *)
(* what was in force at the push, and an optimising check() leaves the     *)
(* stack as it was (manual/embedding.tex, Manager.cpp:135-174, 276-303).   *)
THEOREM ManagerImplementsStack == Spec => ImplementsStack
  <1>1. Init => Stack!StackInit
    BY DEF Init, Stack!StackInit, InForce, InForceOf, UserLevels, Elements
  <1>2. IInv /\ IInv' /\ [Next]_vars => [Stack!StackNext]_(Stack!stackVars)
    BY StepRefines
  <1> QED BY <1>1, <1>2, Invariant, PTL DEF Spec, ImplementsStack, Stack!StackSpec

-----------------------------------------------------------------------------
(* With formulas and objectives removed out of order, and with reset():    *)
(* what is left of the invariant.                                          *)
LivePointsInList ==
    \A k \in DOMAIN mBacktrackPoints :
        mBacktrackPoints[k].live => mBacktrackPoints[k].first <= Len(mpPassedFormula)

ChecksOwnLevels ==
    /\ pc \in {"idle", "reset"} => inner = 0
    /\ pc = "minimize" => inner = 1 /\ current \in 1 .. Len(mObjectives)
    /\ pc \in {"answer", "failed"} => inner = 2 /\ current \in 1 .. Len(mObjectives)
    /\ pc = "bound" => inner = 2 /\ current \in 1 .. Len(mObjectives) - 1
    /\ pc = "unwind" => inner \in 1 .. 2
    /\ inner <= Len(mBacktrackPoints)
    /\ \A k \in DOMAIN mBacktrackPoints : k > Len(mBacktrackPoints) - inner =>
          mBacktrackPoints[k].second = Len(mObjectives) - 1

FullInv == TypeOK /\ ToldOnlyListed /\ LivePointsInList /\ ChecksOwnLevels

PointType == [first : Nat, live : BOOLEAN, second : Nat \cup {-1}]

(* pop() of any list and any points.                                       *)
LEMMA AnyKept ==
  ASSUME FullInv, mBacktrackPoints # <<>>, PopPoint
  PROVE  /\ FormulasKept(LastPoint) \in Seq(Formula)
         /\ told \ Removed(FormulasKept(LastPoint)) \in SUBSET Formula
         /\ told \ Removed(FormulasKept(LastPoint)) \subseteq Elements(FormulasKept(LastPoint))
         /\ mBacktrackPoints' \in Seq(PointType)
         /\ \A k \in DOMAIN mBacktrackPoints' : mBacktrackPoints'[k].live =>
               mBacktrackPoints'[k].first <= Len(FormulasKept(LastPoint))
         /\ mObjectives' \in Seq([fct : Objective, var : Var, level : Nat])
         /\ mReusableVars' \in Reusable /\ freshVars' \in 0 .. MaxVars
         /\ Len(mBacktrackPoints') = Len(mBacktrackPoints) - 1 /\ Len(mBacktrackPoints) \in Nat \ {0}
         /\ \A k \in DOMAIN mBacktrackPoints' :
              k \in DOMAIN mBacktrackPoints /\ mBacktrackPoints'[k].second = mBacktrackPoints[k].second
         /\ inner > 0 => mObjectives' = mObjectives
  <1> DEFINE kept == FormulasKept(LastPoint)
             n == Len(mBacktrackPoints)
             objs == ObjectivesKept(LastPoint)
  <1>1. /\ mpPassedFormula \in Seq(Formula) /\ mBacktrackPoints \in Seq(PointType)
        /\ mObjectives \in Seq([fct : Objective, var : Var, level : Nat])
        /\ mReusableVars \in Reusable /\ freshVars \in 0 .. MaxVars /\ told \in SUBSET Formula
        /\ told \subseteq Elements(mpPassedFormula)
    BY DEF FullInv, TypeOK, ToldOnlyListed, PointType, Reusable
  <1>2. n \in Nat \ {0} /\ DOMAIN mBacktrackPoints = 1 .. n /\ LastPoint \in PointType
        /\ \A k \in 1 .. n : mBacktrackPoints[k] \in PointType
    BY <1>1 DEF LastPoint
  <1>3. LastPoint.live => LastPoint.first \in 0 .. Len(mpPassedFormula)
    <2>1. n \in DOMAIN mBacktrackPoints /\ LastPoint = mBacktrackPoints[n]
      BY <1>2 DEF LastPoint
    <2>2. LastPoint.live => LastPoint.first <= Len(mpPassedFormula)
      BY ONLY <2>1, FullInv DEF FullInv, LivePointsInList
    <2>3. LastPoint.first \in Nat
      BY ONLY <1>2 DEF PointType
    <2>4. Len(mpPassedFormula) \in Nat
      BY ONLY <1>1
    <2> QED BY ONLY <2>2, <2>3, <2>4
  <1>4. kept \in Seq(Formula)
    BY <1>1, <1>3, PrefixFacts DEF FormulasKept
  <1>5. told \ Removed(kept) \in SUBSET Formula /\ told \ Removed(kept) \subseteq Elements(kept)
    BY <1>1 DEF Removed
  <1>6. /\ mBacktrackPoints' = [k \in 1 .. n - 1 |->
             [mBacktrackPoints[k] EXCEPT !.live = @ /\ mBacktrackPoints[k].first <= Len(kept)]]
        /\ mObjectives' = objs
        /\ freshVars' = freshVars
    BY DEF PopPoint, PointsKept
  <1> HIDE DEF kept, n
  <1>7. ASSUME NEW k \in 1 .. n - 1
        PROVE  /\ k \in 1 .. n /\ mBacktrackPoints'[k] \in PointType
               /\ mBacktrackPoints'[k].second = mBacktrackPoints[k].second
               /\ mBacktrackPoints'[k].live => mBacktrackPoints'[k].first <= Len(kept)
    <2>1. k \in 1 .. n /\ mBacktrackPoints[k] \in PointType
      BY <1>2
    <2>2. mBacktrackPoints'[k] =
            [mBacktrackPoints[k] EXCEPT !.live = @ /\ mBacktrackPoints[k].first <= Len(kept)]
      BY <1>6
    <2> QED BY <2>1, <2>2 DEF PointType
  <1>8. mBacktrackPoints' \in Seq(PointType) /\ Len(mBacktrackPoints') = n - 1
        /\ DOMAIN mBacktrackPoints' = 1 .. n - 1
    <2>1. mBacktrackPoints' \in [1 .. n - 1 -> PointType]
      BY <1>6, <1>7
    <2> QED BY <1>2, <2>1
  <1>9. objs \in Seq([fct : Objective, var : Var, level : Nat])
        /\ Len(objs) \in 0 .. Len(mObjectives)
        /\ (LastPoint.second = Len(mObjectives) - 1 => objs = mObjectives)
    <2>1. CASE LastPoint.second < Len(mObjectives)
      <3>1. LastPoint.second + 1 \in 0 .. Len(mObjectives)
        BY <1>1, <1>2, <2>1 DEF PointType
      <3>2. objs = SubSeq(mObjectives, 1, LastPoint.second + 1)
        BY <2>1 DEF ObjectivesKept
      <3>3. LastPoint.second = Len(mObjectives) - 1 => LastPoint.second + 1 = Len(mObjectives)
        BY <1>1
      <3>4. SubSeq(mObjectives, 1, Len(mObjectives)) = mObjectives
        BY <1>1
      <3> HIDE DEF objs
      <3>5. objs \in Seq([fct : Objective, var : Var, level : Nat])
            /\ Len(objs) = LastPoint.second + 1
        BY <1>1, <3>1, <3>2, PrefixFacts
      <3>6. Len(objs) \in 0 .. Len(mObjectives)
        BY <3>1, <3>5
      <3>7. LastPoint.second = Len(mObjectives) - 1 => objs = mObjectives
        BY <3>2, <3>3, <3>4
      <3> QED BY <3>5, <3>6, <3>7
    <2>2. CASE ~(LastPoint.second < Len(mObjectives))
      <3>1. objs = <<>>
        BY <2>2 DEF ObjectivesKept
      <3>2. LastPoint.second # Len(mObjectives) - 1 /\ Len(mObjectives) \in Nat
        BY <1>1, <1>2, <2>2 DEF PointType
      <3> HIDE DEF objs
      <3>3. <<>> \in Seq([fct : Objective, var : Var, level : Nat]) /\ Len(<<>>) = 0
        OBVIOUS
      <3> QED BY <3>1, <3>2, <3>3
    <2> QED BY <2>1, <2>2
  <1> HIDE DEF objs
  <1>12. \A k \in DOMAIN mBacktrackPoints' :
            mBacktrackPoints'[k].live => mBacktrackPoints'[k].first <= Len(kept)
    BY <1>7, <1>8
  <1>13. inner > 0 => mObjectives' = mObjectives
    <2>1. inner > 0 => n > n - inner /\ inner \in Nat
      BY <1>2 DEF FullInv, TypeOK
    <2>2. inner > 0 => LastPoint.second = Len(mObjectives) - 1
      BY <1>2, <2>1 DEF FullInv, ChecksOwnLevels, LastPoint, n
    <2> QED BY <1>6, <1>9, <2>2
  <1>14. mReusableVars' \in Reusable
    BY <1>1, <1>9, StacksAfterPop DEF objs
  <1> QED BY <1>1, <1>2, <1>4, <1>5, <1>6, <1>7, <1>8, <1>9, <1>12, <1>13, <1>14
          DEF kept, n

LEMMA AnyPop ==
  ASSUME FullInv, mBacktrackPoints # <<>>, PopPoint,
         mpPassedFormula' = FormulasKept(LastPoint), told' = told \ Removed(FormulasKept(LastPoint))
  PROVE  /\ mpPassedFormula' \in Seq(Formula) /\ told' \in SUBSET Formula
         /\ mBacktrackPoints' \in Seq(PointType)
         /\ mObjectives' \in Seq([fct : Objective, var : Var, level : Nat])
         /\ mReusableVars' \in Reusable /\ freshVars' \in 0 .. MaxVars
         /\ ToldOnlyListed' /\ LivePointsInList'
         /\ Len(mBacktrackPoints') = Len(mBacktrackPoints) - 1 /\ Len(mBacktrackPoints) \in Nat \ {0}
         /\ \A k \in DOMAIN mBacktrackPoints' :
              k \in DOMAIN mBacktrackPoints /\ mBacktrackPoints'[k].second = mBacktrackPoints[k].second
         /\ inner > 0 => mObjectives' = mObjectives
  BY AnyKept DEF ToldOnlyListed, LivePointsInList

(* New formulas at the end of a list are told.                             *)
LEMMA AnyAdd ==
  ASSUME NEW list \in Seq(Formula), NEW parts \in Seq(Formula), Distinct(parts),
         NEW new \in New(list, parts), NEW known \in SUBSET Formula, known \subseteq Elements(list)
  PROVE  /\ list \o new \in Seq(Formula) /\ Len(list) <= Len(list \o new)
         /\ known \cup Told(new) \in SUBSET Formula
         /\ known \cup Told(new) \subseteq Elements(list \o new)
  <1>1. new \in Seq(Formula)
    BY NewFacts
  <1>2. Elements(new) \subseteq Formula
    BY <1>1 DEF Elements
  <1>3. Len(new) \in Nat /\ Len(list) \in Nat
    BY <1>1
  <1> QED BY <1>1, <1>2, <1>3, ConcatFacts DEF Told

LEMMA OneFormula ==
  ASSUME NEW f \in Formula PROVE <<f>> \in Seq(Formula) /\ Distinct(<<f>>)
  BY DEF Distinct

LEMMA FullInvPreserved ==
  ASSUME FullInv, [Next \/ OutOfOrderNext]_vars PROVE FullInv'
  <1> DEFINE Ob == Seq([fct : Objective, var : Var, level : Nat])
  <1> USE DEF listVars, objectiveVars, checkVars
  <1>0. /\ TypeOK /\ ToldOnlyListed /\ LivePointsInList /\ ChecksOwnLevels
        /\ Len(mBacktrackPoints) \in Nat /\ DOMAIN mBacktrackPoints = 1 .. Len(mBacktrackPoints)
        /\ Len(mObjectives) \in Nat /\ Len(mpPassedFormula) \in Nat
        /\ mBacktrackPoints \in Seq(PointType)
        /\ inner \in 0 .. 2
    BY DEF FullInv, TypeOK, PointType
  \* The list and the backend, when formulas are appended.
  <1>1. ASSUME NEW parts \in Seq(Formula), Distinct(parts), NEW new \in New(mpPassedFormula, parts),
               mpPassedFormula' = mpPassedFormula \o new, told' = told \cup Told(new)
        PROVE  /\ mpPassedFormula' \in Seq(Formula) /\ told' \in SUBSET Formula
               /\ ToldOnlyListed' /\ Len(mpPassedFormula) <= Len(mpPassedFormula')
               /\ Len(mpPassedFormula') \in Nat
    <2>1. /\ mpPassedFormula' \in Seq(Formula) /\ told' \in SUBSET Formula
          /\ ToldOnlyListed' /\ Len(mpPassedFormula) <= Len(mpPassedFormula')
      BY <1>0, <1>1, AnyAdd DEF TypeOK, ToldOnlyListed
    <2> QED BY <2>1
  \* A new level.
  <1>2. ASSUME mBacktrackPoints' = Append(mBacktrackPoints, Point),
               Len(mpPassedFormula') \in Nat, Len(mpPassedFormula) <= Len(mpPassedFormula')
        PROVE  /\ mBacktrackPoints' \in Seq(PointType) /\ LivePointsInList'
               /\ Len(mBacktrackPoints') = Len(mBacktrackPoints) + 1
               /\ \A k \in DOMAIN mBacktrackPoints' :
                    \/ k = Len(mBacktrackPoints) + 1
                       /\ mBacktrackPoints'[k].second = Len(mObjectives) - 1
                    \/ k \in DOMAIN mBacktrackPoints /\ mBacktrackPoints'[k] = mBacktrackPoints[k]
    <2>1. Point \in PointType /\ Point.first = Len(mpPassedFormula)
          /\ Point.second = Len(mObjectives) - 1
      BY <1>0 DEF Point, PointType
    <2>2. /\ mBacktrackPoints' \in Seq(PointType)
          /\ Len(mBacktrackPoints') = Len(mBacktrackPoints) + 1
          /\ DOMAIN mBacktrackPoints' = 1 .. Len(mBacktrackPoints) + 1
          /\ mBacktrackPoints'[Len(mBacktrackPoints) + 1] = Point
          /\ \A k \in 1 .. Len(mBacktrackPoints) : mBacktrackPoints'[k] = mBacktrackPoints[k]
      BY <1>0, <1>2, <2>1
    <2>3. \A k \in DOMAIN mBacktrackPoints' :
            \/ k = Len(mBacktrackPoints) + 1 /\ mBacktrackPoints'[k] = Point
            \/ k \in DOMAIN mBacktrackPoints /\ mBacktrackPoints'[k] = mBacktrackPoints[k]
      BY <1>0, <2>2
    <2>4. LivePointsInList'
      <3> SUFFICES ASSUME NEW k \in DOMAIN mBacktrackPoints', mBacktrackPoints'[k].live
                   PROVE  mBacktrackPoints'[k].first <= Len(mpPassedFormula')
        BY DEF LivePointsInList
      <3>1. CASE mBacktrackPoints'[k] = Point
        BY <1>2, <2>1, <3>1
      <3>2. CASE k \in DOMAIN mBacktrackPoints /\ mBacktrackPoints'[k] = mBacktrackPoints[k]
        <4>1. mBacktrackPoints[k].first <= Len(mpPassedFormula)
          BY <1>0, <3>2 DEF LivePointsInList
        <4>2. mBacktrackPoints[k].first \in Nat
          <5>1. mBacktrackPoints[k] \in PointType
            BY <1>0, <3>2, ElementOfSeq
          <5> QED BY <5>1 DEF PointType
        <4> QED BY <1>0, <1>2, <3>2, <4>1, <4>2
      <3> QED BY <2>3, <3>1, <3>2
    <2> QED BY <2>1, <2>2, <2>3, <2>4
  <1>3. ASSUME NEW parts \in Conjunction, add(parts) PROVE FullInv'
    <2>1. parts \in Seq(Formula) /\ Distinct(parts)
      BY <1>3, FormulaFacts DEF Conjunction, Distinct
    <2>2. /\ mpPassedFormula' \in Seq(Formula) /\ told' \in SUBSET Formula
          /\ ToldOnlyListed' /\ Len(mpPassedFormula) <= Len(mpPassedFormula')
          /\ Len(mpPassedFormula') \in Nat
      BY <1>1, <1>3, <2>1 DEF add
    <2>3. UNCHANGED <<mBacktrackPoints, objectiveVars, checkVars>>
      BY <1>3 DEF add
    <2>4. TypeOK'
      BY <1>0, <2>2, <2>3 DEF TypeOK
    <2>5. LivePointsInList'
      <3> SUFFICES ASSUME NEW k \in DOMAIN mBacktrackPoints, mBacktrackPoints[k].live
                   PROVE  mBacktrackPoints[k].first <= Len(mpPassedFormula')
        BY <2>3 DEF LivePointsInList
      <3>1. mBacktrackPoints[k] \in PointType
        BY <1>0, ElementOfSeq
      <3>2. mBacktrackPoints[k].first <= Len(mpPassedFormula) /\ mBacktrackPoints[k].first \in Nat
        BY <1>0, <3>1 DEF LivePointsInList, PointType
      <3> QED BY <1>0, <2>2, <3>2
    <2>6. ChecksOwnLevels'
      BY <1>0, <2>3 DEF ChecksOwnLevels
    <2> QED BY <2>2, <2>4, <2>5, <2>6 DEF FullInv
  <1>4. CASE push
    <2>1. /\ pc = "idle" /\ inner = 0 /\ UNCHANGED <<mpPassedFormula, told, objectiveVars, checkVars>>
          /\ mBacktrackPoints' = Append(mBacktrackPoints, Point)
      BY <1>0, <1>4 DEF push, ChecksOwnLevels
    <2>2. /\ mBacktrackPoints' \in Seq(PointType) /\ LivePointsInList'
          /\ Len(mBacktrackPoints') = Len(mBacktrackPoints) + 1
      BY <1>0, <1>2, <2>1
    <2>3. TypeOK' /\ ToldOnlyListed'
      BY <1>0, <2>1, <2>2 DEF TypeOK, ToldOnlyListed, PointType
    <2>4. DOMAIN mBacktrackPoints' = 1 .. Len(mBacktrackPoints')
      BY <2>2
    <2>5. ChecksOwnLevels'
      BY <1>0, <2>1, <2>2, <2>4 DEF ChecksOwnLevels
    <2> QED BY <2>2, <2>3, <2>5 DEF FullInv
  <1>5. ASSUME NEW o \in Objective, addObjective(o) PROVE FullInv'
    <2>1. /\ pc = "idle" /\ inner = 0 /\ UNCHANGED <<listVars, checkVars>>
      BY <1>0, <1>5 DEF addObjective, ChecksOwnLevels
    <2>2. mObjectives' \in Ob /\ mReusableVars' \in Reusable /\ freshVars' \in 0 .. MaxVars
      <3>1. \A v \in Var : NewObjective(o, v) \in [fct : Objective, var : Var, level : Nat]
        BY <1>0 DEF NewObjective
      <3> DEFINE t == TypeOf(o)
                 free == mReusableVars[t]
      <3>0. /\ t \in VariableType /\ free \in Seq(Var) /\ mReusableVars \in Reusable
            /\ freshVars \in 0 .. MaxVars /\ mObjectives \in Ob
        BY <1>0 DEF TypeOK, TypeOf, VariableType, Reusable
      <3>2. CASE /\ free = <<>> /\ freshVars < MaxVars /\ freshVars' = freshVars + 1
                 /\ mObjectives' = Append(mObjectives, NewObjective(o, NewVar(t)))
                 /\ UNCHANGED mReusableVars
        <4>1. NewVar(t) \in Var /\ freshVars' \in 0 .. MaxVars
          BY <3>0, <3>2, ManagerAssumption DEF NewVar, Var
        <4> QED BY <3>0, <3>1, <3>2, <4>1
      <3>3. CASE /\ free # <<>>
                 /\ mObjectives' = Append(mObjectives, NewObjective(o, free[Len(free)]))
                 /\ mReusableVars' = [mReusableVars EXCEPT ![t] = SubSeq(free, 1, Len(free) - 1)]
                 /\ UNCHANGED freshVars
        <4> HIDE DEF free, t
        <4>1. Len(free) \in DOMAIN free /\ Len(free) - 1 \in 0 .. Len(free)
          BY <3>0, <3>3
        <4>2. free[Len(free)] \in Var /\ SubSeq(free, 1, Len(free) - 1) \in Seq(Var)
          BY <3>0, <4>1, PrefixFacts
        <4>3. mReusableVars' \in Reusable
          BY <3>0, <3>3, <4>2 DEF Reusable
        <4> QED BY <3>0, <3>1, <3>3, <4>2, <4>3
      <3> QED BY <1>5, <3>2, <3>3 DEF addObjective, ReusableAfterTake
    <2>3. TypeOK' /\ ToldOnlyListed' /\ LivePointsInList'
      BY <1>0, <2>1, <2>2 DEF TypeOK, Reusable, ToldOnlyListed, LivePointsInList
    <2>4. ChecksOwnLevels'
      BY <1>0, <2>1 DEF ChecksOwnLevels
    <2> QED BY <2>3, <2>4 DEF FullInv

  <1>6. ASSUME pc \in {"idle", "reset"}, mBacktrackPoints # <<>>, PopPoint, UNCHANGED checkVars,
               mpPassedFormula' = FormulasKept(LastPoint),
               told' = told \ Removed(FormulasKept(LastPoint))
        PROVE  FullInv'
    <2>1. /\ mpPassedFormula' \in Seq(Formula) /\ told' \in SUBSET Formula
          /\ mBacktrackPoints' \in Seq(PointType) /\ mObjectives' \in Ob
          /\ mReusableVars' \in Reusable /\ freshVars' \in 0 .. MaxVars
          /\ ToldOnlyListed' /\ LivePointsInList'
          /\ Len(mBacktrackPoints') = Len(mBacktrackPoints) - 1 /\ Len(mBacktrackPoints) \in Nat \ {0}
      BY <1>6, AnyPop
    <2>2. TypeOK'
      BY <1>0, <1>6, <2>1 DEF TypeOK, Reusable, PointType
    <2>3. inner = 0 /\ inner' = 0 /\ pc' = pc
      BY <1>0, <1>6 DEF ChecksOwnLevels
    <2>4. DOMAIN mBacktrackPoints' = 1 .. Len(mBacktrackPoints') /\ Len(mBacktrackPoints') \in Nat
      BY <2>1
    <2>5. ChecksOwnLevels'
      BY <1>6, <2>3, <2>4 DEF ChecksOwnLevels
    <2> QED BY <2>1, <2>2, <2>5 DEF FullInv
  <1>7. CASE pop
    BY <1>6, <1>7 DEF pop
  <1>8. CASE ResetPop
    BY <1>6, <1>8 DEF ResetPop
  <1>9. CASE CheckBegin
    <2>1. /\ pc = "idle" /\ inner = 0 /\ UNCHANGED <<mpPassedFormula, told, objectiveVars>>
          /\ mObjectives # <<>> /\ mBacktrackPoints' = Append(mBacktrackPoints, Point)
          /\ pc' = "minimize" /\ inner' = 1 /\ current' = 1
      BY <1>0, <1>9 DEF CheckBegin, ChecksOwnLevels
    <2>2. /\ mBacktrackPoints' \in Seq(PointType) /\ LivePointsInList'
          /\ Len(mBacktrackPoints') = Len(mBacktrackPoints) + 1
          /\ \A k \in DOMAIN mBacktrackPoints' :
               \/ k = Len(mBacktrackPoints) + 1
                  /\ mBacktrackPoints'[k].second = Len(mObjectives) - 1
               \/ k \in DOMAIN mBacktrackPoints
      BY <1>0, <1>2, <2>1
    <2>3. TypeOK' /\ ToldOnlyListed'
      BY <1>0, <2>1, <2>2 DEF TypeOK, ToldOnlyListed, PointType
    <2>4. 1 \in 1 .. Len(mObjectives)
      BY <1>0, <2>1 DEF TypeOK
    <2>5. \A k \in DOMAIN mBacktrackPoints' : k > Len(mBacktrackPoints') - 1 =>
             mBacktrackPoints'[k].second = Len(mObjectives') - 1
      BY <1>0, <2>1, <2>2
    <2>6. ChecksOwnLevels'
      BY <1>0, <2>1, <2>2, <2>4, <2>5 DEF ChecksOwnLevels
    <2> QED BY <2>2, <2>3, <2>6 DEF FullInv
  \* The variable of the objective check() works on.
  <1>10. ASSUME NEW i \in 1 .. Len(mObjectives)
         PROVE  /\ <<Equation(mObjectives[i].var)>> \in Seq(Formula)
                /\ Distinct(<<Equation(mObjectives[i].var)>>)
                /\ <<UpperBound(mObjectives[i].var)>> \in Seq(Formula)
                /\ Distinct(<<UpperBound(mObjectives[i].var)>>)
    <2>1. mObjectives[i].var \in Var
      <3>1. mObjectives \in Seq([fct : Objective, var : Var, level : Nat])
        BY <1>0 DEF TypeOK
      <3>2. mObjectives[i] \in [fct : Objective, var : Var, level : Nat]
        BY <3>1, ElementOfSeq
      <3> HIDE DEF Var
      <3> QED BY ONLY <3>2
    <2>2. Equation(mObjectives[i].var) \in Formula /\ UpperBound(mObjectives[i].var) \in Formula
      BY <2>1, FormulaFacts
    <2> QED BY <2>2, OneFormula
  <1>11. CASE Minimize
    <2> DEFINE equation == <<Equation(mObjectives[current].var)>>
    <2>1. /\ pc = "minimize" /\ inner = 1 /\ current \in 1 .. Len(mObjectives)
          /\ mBacktrackPoints' = Append(mBacktrackPoints, Point)
          /\ pc' = "answer" /\ inner' = 2 /\ UNCHANGED <<objectiveVars, current>>
      BY <1>0, <1>11 DEF Minimize, ChecksOwnLevels
    <2>2. PICK new \in New(mpPassedFormula, equation) :
            mpPassedFormula' = mpPassedFormula \o new /\ told' = told \cup Told(new)
      BY <1>11 DEF Minimize
    <2>3. equation \in Seq(Formula) /\ Distinct(equation)
      BY <1>10, <2>1
    <2> HIDE DEF equation
    <2>4. /\ mpPassedFormula' \in Seq(Formula) /\ told' \in SUBSET Formula
          /\ ToldOnlyListed' /\ Len(mpPassedFormula) <= Len(mpPassedFormula')
          /\ Len(mpPassedFormula') \in Nat
      BY <1>1, <2>2, <2>3
    <2>5. /\ mBacktrackPoints' \in Seq(PointType) /\ LivePointsInList'
          /\ Len(mBacktrackPoints') = Len(mBacktrackPoints) + 1
          /\ \A k \in DOMAIN mBacktrackPoints' :
               \/ k = Len(mBacktrackPoints) + 1
                  /\ mBacktrackPoints'[k].second = Len(mObjectives) - 1
               \/ k \in DOMAIN mBacktrackPoints /\ mBacktrackPoints'[k] = mBacktrackPoints[k]
      BY <1>2, <2>1, <2>4
    <2>6. TypeOK'
      BY <1>0, <2>1, <2>4, <2>5 DEF TypeOK, PointType
    <2>7. \A k \in DOMAIN mBacktrackPoints' : k > Len(mBacktrackPoints') - 2 =>
             mBacktrackPoints'[k].second = Len(mObjectives') - 1
      <3>1. \A k \in DOMAIN mBacktrackPoints : k > Len(mBacktrackPoints) - 1 =>
               mBacktrackPoints[k].second = Len(mObjectives) - 1
        BY <1>0, <2>1 DEF ChecksOwnLevels
      <3> QED BY <1>0, <2>1, <2>5, <3>1
    <2>8. 1 <= Len(mBacktrackPoints)
      BY <1>0, <2>1 DEF ChecksOwnLevels
    <2>9. ChecksOwnLevels'
      BY <1>0, <2>1, <2>5, <2>7, <2>8 DEF ChecksOwnLevels
    <2> QED BY <2>4, <2>5, <2>6, <2>9 DEF FullInv
  <1>12. CASE Answered \/ NextObjective
    <2>1. /\ pc = "answer" /\ pc' \in {"unwind", "failed", "bound"}
          /\ UNCHANGED <<listVars, objectiveVars, inner, current>>
          /\ pc' = "bound" => current < Len(mObjectives)
      BY <1>12 DEF Answered, NextObjective
    <2>2. TypeOK' /\ ToldOnlyListed' /\ LivePointsInList'
      BY <1>0, <2>1 DEF TypeOK, ToldOnlyListed, LivePointsInList
    <2>3. ChecksOwnLevels'
      BY <1>0, <2>1 DEF ChecksOwnLevels
    <2> QED BY <2>2, <2>3 DEF FullInv
  \* An inner level is popped.
  <1>13. ASSUME pc \in {"bound", "unwind"}, PopPoint
         PROVE  /\ inner > 0 /\ mBacktrackPoints # <<>>
                /\ inner - 1 <= Len(mBacktrackPoints) - 1
    <2>1. inner > 0 /\ inner <= Len(mBacktrackPoints)
      BY <1>0, <1>13 DEF ChecksOwnLevels
    <2>2. Len(mBacktrackPoints) # 0
      BY <1>0, <2>1
    <2>3. mBacktrackPoints # <<>>
      BY <2>2
    <2> QED BY <1>0, <2>1, <2>3
  <1>14. CASE Unwind
    <2>1. /\ pc = "unwind" /\ PopPoint /\ mpPassedFormula' = FormulasKept(LastPoint)
          /\ told' = told \ Removed(FormulasKept(LastPoint)) /\ inner' = inner - 1
          /\ pc' = IF inner - 1 = 0 THEN "idle" ELSE "unwind"
          /\ current' = IF inner - 1 = 0 THEN 0 ELSE current
      BY <1>14 DEF Unwind, InnerAfterPop
    <2>2. inner > 0 /\ mBacktrackPoints # <<>> /\ inner \in 1 .. 2
          /\ inner - 1 <= Len(mBacktrackPoints) - 1
      BY <1>0, <1>13, <2>1
    <2>3. /\ mpPassedFormula' \in Seq(Formula) /\ told' \in SUBSET Formula
          /\ mBacktrackPoints' \in Seq(PointType) /\ mReusableVars' \in Reusable
          /\ freshVars' \in 0 .. MaxVars /\ ToldOnlyListed' /\ LivePointsInList'
          /\ Len(mBacktrackPoints') = Len(mBacktrackPoints) - 1
          /\ \A k \in DOMAIN mBacktrackPoints' :
               k \in DOMAIN mBacktrackPoints /\ mBacktrackPoints'[k].second = mBacktrackPoints[k].second
          /\ mObjectives' = mObjectives
      BY <2>1, <2>2, AnyPop
    <2>4. TypeOK'
      BY <1>0, <2>1, <2>2, <2>3 DEF TypeOK, Reusable, PointType
    <2>5. \A k \in DOMAIN mBacktrackPoints' : k > Len(mBacktrackPoints') - inner' =>
             mBacktrackPoints'[k].second = Len(mObjectives') - 1
      BY <1>0, <2>1, <2>2, <2>3 DEF ChecksOwnLevels
    <2>6. ChecksOwnLevels'
      BY <1>0, <2>1, <2>2, <2>3, <2>5 DEF ChecksOwnLevels
    <2> QED BY <2>3, <2>4, <2>6 DEF FullInv
  \* The equation's level is popped, a bound on the next objective appended.
  <1>15. CASE Bound
    <2> DEFINE kept == FormulasKept(LastPoint)
               bound == <<UpperBound(mObjectives[current + 1].var)>>
               known == told \ Removed(kept)
    <2>1. /\ pc = "bound" /\ PopPoint /\ pc' = "minimize" /\ inner' = 1 /\ current' = current + 1
          /\ inner = 2 /\ current \in 1 .. Len(mObjectives) - 1
      BY <1>0, <1>15 DEF Bound, ChecksOwnLevels
    <2>2. PICK new \in New(kept, bound) :
            mpPassedFormula' = kept \o new /\ told' = known \cup Told(new)
      BY <1>15 DEF Bound
    <2>3. mBacktrackPoints # <<>> /\ inner - 1 <= Len(mBacktrackPoints) - 1
      BY <1>13, <2>1
    <2>4. /\ kept \in Seq(Formula) /\ known \in SUBSET Formula /\ known \subseteq Elements(kept)
          /\ mBacktrackPoints' \in Seq(PointType)
          /\ \A k \in DOMAIN mBacktrackPoints' : mBacktrackPoints'[k].live =>
                mBacktrackPoints'[k].first <= Len(kept)
          /\ mReusableVars' \in Reusable /\ freshVars' \in 0 .. MaxVars
          /\ Len(mBacktrackPoints') = Len(mBacktrackPoints) - 1
          /\ \A k \in DOMAIN mBacktrackPoints' :
               k \in DOMAIN mBacktrackPoints /\ mBacktrackPoints'[k].second = mBacktrackPoints[k].second
          /\ mObjectives' = mObjectives
      BY <2>1, <2>3, AnyKept
    <2>5. bound \in Seq(Formula) /\ Distinct(bound)
      <3>1. current + 1 \in 1 .. Len(mObjectives)
        BY <1>0, <2>1
      <3> HIDE DEF bound
      <3> QED BY <1>10, <3>1 DEF bound
    <2> HIDE DEF kept, known, bound
    <2>6. /\ kept \o new \in Seq(Formula) /\ Len(kept) <= Len(kept \o new)
          /\ known \cup Told(new) \in SUBSET Formula
          /\ known \cup Told(new) \subseteq Elements(kept \o new)
      BY <2>2, <2>4, <2>5, AnyAdd
    <2>7. TypeOK' /\ ToldOnlyListed'
      <3>1. mpPassedFormula' \in Seq(Formula) /\ told' \in SUBSET Formula /\ ToldOnlyListed'
        BY ONLY <2>2, <2>6 DEF ToldOnlyListed
      <3>2. /\ mBacktrackPoints' \in Seq(PointType) /\ mReusableVars' \in Reusable
            /\ freshVars' \in 0 .. MaxVars /\ mObjectives' = mObjectives
        BY ONLY <2>4
      <3>3. mObjectives' \in Seq([fct : Objective, var : Var, level : Nat])
        BY ONLY <1>0, <3>2 DEF TypeOK
      <3>4. pc' = "minimize" /\ inner' \in 0 .. 2 /\ current' \in Nat
        BY ONLY <2>1
      <3> QED BY ONLY <3>1, <3>2, <3>3, <3>4 DEF TypeOK, Reusable, PointType
    <2>8. LivePointsInList'
      <3> SUFFICES ASSUME NEW k \in DOMAIN mBacktrackPoints', mBacktrackPoints'[k].live
                   PROVE  mBacktrackPoints'[k].first <= Len(mpPassedFormula')
        BY DEF LivePointsInList
      <3>1. k \in 1 .. Len(mBacktrackPoints')
        BY <2>4
      <3>2. mBacktrackPoints'[k] \in PointType
        BY <2>4, <3>1, ElementOfSeq
      <3>3. mBacktrackPoints'[k].first \in Nat /\ mBacktrackPoints'[k].first <= Len(kept)
        BY <2>4, <3>2 DEF PointType
      <3>4. Len(kept) \in Nat /\ Len(kept \o new) \in Nat
        BY <2>4, <2>6
      <3> QED BY <2>2, <2>6, <3>3, <3>4
    <2>9. \A k \in DOMAIN mBacktrackPoints' : k > Len(mBacktrackPoints') - 1 =>
             mBacktrackPoints'[k].second = Len(mObjectives') - 1
      BY <1>0, <2>1, <2>4 DEF ChecksOwnLevels
    <2>10. ChecksOwnLevels'
      BY <1>0, <2>1, <2>3, <2>4, <2>9 DEF ChecksOwnLevels
    <2> QED BY <2>7, <2>8, <2>10 DEF FullInv
  <1>16. ASSUME NEW i \in DOMAIN mpPassedFormula, remove(i) PROVE FullInv'
    <2> DEFINE a == SubSeq(mpPassedFormula, 1, i - 1)
               b == SubSeq(mpPassedFormula, i + 1, Len(mpPassedFormula))
               n == Len(mBacktrackPoints)
    <2>1. /\ pc = "idle" /\ inner = 0 /\ UNCHANGED <<objectiveVars, checkVars>>
          /\ mpPassedFormula' = a \o b /\ told' = told \ {mpPassedFormula[i]}
          /\ mBacktrackPoints' = [k \in DOMAIN mBacktrackPoints |->
                [mBacktrackPoints[k] EXCEPT !.first = IF i <= @ THEN @ - 1 ELSE @,
                                            !.live = @ /\ mBacktrackPoints[k].first # i]]
      BY <1>0, <1>16 DEF remove, ToldAfterRemove, ChecksOwnLevels
    <2>2. mpPassedFormula \in Seq(Formula) /\ i \in 1 .. Len(mpPassedFormula)
      BY <1>0 DEF TypeOK
    <2>3. /\ a \in Seq(Formula) /\ Len(a) = i - 1
          /\ \A j \in 1 .. i - 1 : a[j] = mpPassedFormula[j]
      <3>1. i - 1 \in 0 .. Len(mpPassedFormula)
        BY <2>2
      <3> QED BY <2>2, <3>1, PrefixFacts
    <2>4. /\ b \in Seq(Formula) /\ Len(b) = Len(mpPassedFormula) - i
          /\ \A j \in 1 .. Len(mpPassedFormula) - i : b[j] = mpPassedFormula[i + j]
      BY <2>2
    <2> HIDE DEF a, b, n
    <2>5. /\ mpPassedFormula' \in Seq(Formula) /\ Len(mpPassedFormula') = Len(mpPassedFormula) - 1
          /\ Elements(mpPassedFormula') = Elements(a) \cup Elements(b)
      <3>1. Len(a \o b) = Len(a) + Len(b) /\ a \o b \in Seq(Formula)
            /\ Elements(a \o b) = Elements(a) \cup Elements(b)
        BY <2>3, <2>4, ConcatFacts
      <3>2. Len(a) + Len(b) = Len(mpPassedFormula) - 1
        BY <1>0, <2>2, <2>3, <2>4
      <3>3. mpPassedFormula' = a \o b
        BY <2>1
      <3> QED BY ONLY <3>1, <3>2, <3>3
    <2>6. ASSUME NEW f \in Elements(mpPassedFormula), f # mpPassedFormula[i]
          PROVE  f \in Elements(mpPassedFormula')
      <3>1. PICK j \in 1 .. Len(mpPassedFormula) : f = mpPassedFormula[j]
        BY <2>2 DEF Elements
      <3>2. j \in 1 .. i - 1 \/ j - i \in 1 .. Len(mpPassedFormula) - i
        BY <2>2, <2>6, <3>1
      <3>3. CASE j \in 1 .. i - 1
        <4>1. f = a[j] /\ j \in DOMAIN a
          BY <2>3, <3>1, <3>3
        <4> QED BY <2>5, <4>1 DEF Elements
      <3>4. CASE j - i \in 1 .. Len(mpPassedFormula) - i
        <4>1. i + (j - i) = j
          BY <2>2
        <4>2. f = b[j - i] /\ j - i \in DOMAIN b
          BY <2>4, <3>1, <3>4, <4>1
        <4> QED BY <2>5, <4>2 DEF Elements
      <3> QED BY <3>2, <3>3, <3>4
    <2>7. ToldOnlyListed' /\ told' \in SUBSET Formula
      BY <1>0, <2>1, <2>6 DEF ToldOnlyListed, TypeOK
    <2>8. ASSUME NEW k \in 1 .. n
          PROVE  /\ mBacktrackPoints'[k] \in PointType
                 /\ mBacktrackPoints'[k].live => mBacktrackPoints'[k].first <= Len(mpPassedFormula')
      <3> DEFINE p == mBacktrackPoints[k]
                 q == mBacktrackPoints'[k]
      <3>1. k \in DOMAIN mBacktrackPoints /\ p \in PointType
        BY <1>0, <2>8, ElementOfSeq DEF n
      <3>2. q = [p EXCEPT !.first = IF i <= @ THEN @ - 1 ELSE @, !.live = @ /\ p.first # i]
        BY <2>1, <3>1
      <3>3. p.live => p.first <= Len(mpPassedFormula)
        BY <1>0, <3>1 DEF LivePointsInList
      <3> HIDE DEF p, q
      <3>4. /\ q.first = (IF i <= p.first THEN p.first - 1 ELSE p.first)
            /\ q.live = (p.live /\ p.first # i) /\ q.second = p.second
            /\ q \in [first : {q.first}, live : {q.live}, second : {q.second}]
        BY <3>1, <3>2 DEF PointType
      <3>5. p.first \in Nat /\ p.live \in BOOLEAN /\ p.second \in Nat \cup {-1}
        BY <3>1 DEF PointType
      <3>6. q.first \in Nat /\ q.live \in BOOLEAN
        BY <2>2, <3>4, <3>5
      <3>7. q \in PointType
        BY <3>4, <3>5, <3>6 DEF PointType
      <3>8. q.live => q.first <= Len(mpPassedFormula')
        BY <2>2, <2>5, <3>3, <3>4, <3>5
      <3> QED BY <3>7, <3>8 DEF q
    <2>9. /\ mBacktrackPoints' \in Seq(PointType) /\ Len(mBacktrackPoints') = n
          /\ DOMAIN mBacktrackPoints' = 1 .. n
      <3>1. DOMAIN mBacktrackPoints' = 1 .. n /\ n \in Nat
        BY <1>0, <2>1 DEF n
      <3>2. mBacktrackPoints' \in [1 .. n -> PointType]
        BY <1>0, <2>1, <2>8, <3>1 DEF n
      <3> QED BY ONLY <3>1, <3>2
    <2>10. LivePointsInList'
      BY <2>8, <2>9 DEF LivePointsInList
    <2>11. TypeOK'
      BY <1>0, <2>1, <2>5, <2>7, <2>9 DEF TypeOK, PointType
    <2>12. ChecksOwnLevels'
      <3>1. \A k \in DOMAIN mBacktrackPoints' : ~(k > Len(mBacktrackPoints') - 0)
        BY <1>0, <2>9 DEF n
      <3>2. inner' = 0 /\ pc' = "idle" /\ Len(mBacktrackPoints') = Len(mBacktrackPoints)
        BY <2>1, <2>9 DEF n
      <3> QED BY ONLY <1>0, <3>1, <3>2 DEF ChecksOwnLevels
    <2> QED BY <2>7, <2>10, <2>11, <2>12 DEF FullInv
  <1>17. ASSUME NEW o \in Objective, removeObjective(o) PROVE FullInv'
    <2>1. PICK i \in DOMAIN mObjectives :
            mObjectives' = SubSeq(mObjectives, 1, i - 1)
                             \o SubSeq(mObjectives, i + 1, Len(mObjectives))
      BY <1>17 DEF removeObjective
    <2>2. mObjectives' \in Ob
      <3> DEFINE R == [fct : Objective, var : Var, level : Nat]
      <3>1. mObjectives \in Seq(R) /\ i \in 1 .. Len(mObjectives) /\ i - 1 \in 0 .. Len(mObjectives)
        BY <1>0 DEF TypeOK
      <3> HIDE DEF R
      <3>2. SubSeq(mObjectives, 1, i - 1) \in Seq(R)
        BY <3>1, PrefixFacts
      <3>3. SubSeq(mObjectives, i + 1, Len(mObjectives)) \in Seq(R)
        BY <3>1
      <3>4. mObjectives' \in Seq(R)
        BY <2>1, <3>2, <3>3
      <3> QED BY <3>4 DEF R
    <2>3. pc = "idle" /\ inner = 0 /\ UNCHANGED <<listVars, mReusableVars, freshVars, checkVars>>
      BY <1>0, <1>17 DEF removeObjective, ChecksOwnLevels
    <2>4. TypeOK' /\ ToldOnlyListed' /\ LivePointsInList'
      BY <1>0, <2>2, <2>3 DEF TypeOK, ToldOnlyListed, LivePointsInList
    <2>5. ChecksOwnLevels'
      BY <1>0, <2>3 DEF ChecksOwnLevels
    <2> QED BY <2>4, <2>5 DEF FullInv
  <1>18. CASE ResetBegin \/ ResetEnd
    <2>1. /\ pc \in {"idle", "reset"} /\ pc' \in {"idle", "reset"} /\ told' \in {told, {}}
          /\ UNCHANGED <<mpPassedFormula, mBacktrackPoints, objectiveVars, inner, current>>
      BY <1>18 DEF ResetBegin, ResetEnd
    <2>2. TypeOK' /\ ToldOnlyListed' /\ LivePointsInList'
      BY <1>0, <2>1 DEF TypeOK, ToldOnlyListed, LivePointsInList
    <2>3. ChecksOwnLevels'
      BY <1>0, <2>1 DEF ChecksOwnLevels
    <2> QED BY <2>2, <2>3 DEF FullInv
  <1>19. CASE Failed \/ UNCHANGED vars
    <2>1. UNCHANGED vars
      BY <1>19 DEF Failed
    <2>2. TypeOK' /\ ToldOnlyListed' /\ LivePointsInList' /\ ChecksOwnLevels'
      BY <1>0, <2>1 DEF vars, TypeOK, ToldOnlyListed, LivePointsInList, ChecksOwnLevels
    <2> QED BY <2>2 DEF FullInv
  <1> QED BY <1>3, <1>4, <1>5, <1>7, <1>8, <1>9, <1>11, <1>12, <1>14, <1>15, <1>16, <1>17, <1>18, <1>19
          DEF Next, CheckNext, OutOfOrderNext

LEMMA FullInvariant == FullSpec => []FullInv
<1>1. Init => FullInv
  BY ManagerAssumption
     DEF Init, FullInv, TypeOK, ToldOnlyListed, LivePointsInList, ChecksOwnLevels, Elements
<1> QED BY <1>1, FullInvPreserved, PTL DEF FullSpec

(* The manager's members keep their types, and check() the levels it       *)
(* pushed, also when formulas and objectives are removed out of order and  *)
(* after reset().                                                          *)
THEOREM FullTypeCorrect == FullSpec => []TypeOK
<1>1. FullInv => TypeOK
  BY DEF FullInv
<1> QED BY <1>1, FullInvariant, PTL

(* However remove(), removeObjective() and reset() interleave with the     *)
(* stack operations and check(), the primary backend never keeps a formula *)
(* that has left the list.                                                 *)
THEOREM BackendNeverStale == FullSpec => []ToldOnlyListed
<1>1. FullInv => ToldOnlyListed
  BY DEF FullInv
<1> QED BY <1>1, FullInvariant, PTL
=============================================================================
