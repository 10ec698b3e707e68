------------------------------- MODULE Tableau -------------------------------
(***************************************************************************)
(* The simplex tableau of the LRAModule (smtrat-modules/LRAModule/tableau),*)
(* with the settings TableauSettings3.                                     *)
(*                                                                         *)
(* A constraint bounds a variable of the tableau, an original one or a     *)
(* slack variable that stands for a linear term.  A basic variable has a   *)
(* row, which gives it as a combination of nonbasic variables; a basic     *)
(* slack variable without an active bound is set aside with its row.  The  *)
(* operators take a tableau, a record with the members named below, to the *)
(* one that the function of the same name leaves.  A row is divided by its *)
(* factor; terms are such that no other division is needed (all entries    *)
(* are -1, 0 or 1), so that limits and assignments are integers, or, next  *)
(* to a strict bound, integers plus a multiple of delta.                   *)
(***************************************************************************)
EXTENDS Integers, Sequences, FiniteSets, FiniteSetsExt, SequencesExt, Bags

CONSTANTS OriginalVar,   \* numbers, which order variables for Bland's rule
          SlackRow,      \* per slack variable its term, over original variables
          Constraint,    \* constraints informed of: [var, rel, limit]
          BlandStart     \* mMaxPivotsWithoutBlandsRule

SlackVar == DOMAIN SlackRow
Var == OriginalVar \cup SlackVar
Relation == {"<", "<=", "=", ">=", ">", "!="}

ASSUME TableauAssumption ==
    /\ Var \subseteq Nat /\ OriginalVar \cap SlackVar = {}
    /\ SlackRow \in [SlackVar -> [OriginalVar -> -1 .. 1]]
    /\ Constraint \subseteq [var : Var, rel : Relation, limit : -99 .. 99]
    /\ BlandStart \in Nat

-----------------------------------------------------------------------------
(* Values: <<a, b>> is a + b * delta, for a delta as small as needed.      *)
Less(x, y) == x[1] < y[1] \/ (x[1] = y[1] /\ x[2] < y[2])
Plus(x, y) == <<x[1] + y[1], x[2] + y[2]>>
Times(k, x) == <<k * x[1], k * x[2]>>
Minus(x, y) == Plus(x, Times(-1, y))
Zero == <<0, 0>>
Combined(coeffs, values) ==
    FoldSet(LAMBDA v, sum : Plus(sum, Times(coeffs[v], values[v])), Zero, {v \in Var : coeffs[v] # 0})

(* Bounds.  A variable has an infinite upper and lower one, always active. *)
Infinity == 100
Upper(v, limit) == [var |-> v, type |-> "UPPER", limit |-> limit]
Lower(v, limit) == [var |-> v, type |-> "LOWER", limit |-> limit]
Equal(v, limit) == [var |-> v, type |-> "EQUAL", limit |-> limit]
NoUpper(v) == Upper(v, <<Infinity, 0>>)
NoLower(v) == Lower(v, <<-Infinity, 0>>)
IsInfinite(b) == b \in {NoUpper(b.var), NoLower(b.var)}

(* newBound: the bounds of a constraint, those of an inequation being the  *)
(* ones of <, <=, >= and >; and its complement, whose bound exists too.    *)
BoundsOf(c) ==
    LET less == <<c.limit, -1>>
        at == <<c.limit, 0>>
        greater == <<c.limit, 1>>
    IN  CASE c.rel = "<"  -> <<Upper(c.var, less)>>
          [] c.rel = "<=" -> <<Upper(c.var, at)>>
          [] c.rel = "="  -> <<Equal(c.var, at)>>
          [] c.rel = ">=" -> <<Lower(c.var, at)>>
          [] c.rel = ">"  -> <<Lower(c.var, greater)>>
          [] c.rel = "!=" -> <<Upper(c.var, less), Upper(c.var, at), Lower(c.var, at), Lower(c.var, greater)>>
Complement(c) ==
    [c EXCEPT !.rel = CASE @ = "<" -> ">=" [] @ = "<=" -> ">" [] @ = ">=" -> "<" [] @ = ">" -> "<="
                        [] OTHER -> @]

Bound == UNION {ToSet(BoundsOf(c)) \cup ToSet(BoundsOf(Complement(c))) : c \in Constraint}
UpperBounds == [v \in Var |-> {NoUpper(v)} \cup {b \in Bound : b.var = v /\ b.type # "LOWER"}]
LowerBounds == [v \in Var |-> {NoLower(v)} \cup {b \in Bound : b.var = v /\ b.type # "UPPER"}]

(* neqRepresentation: the inequations among whose bounds b is.             *)
NeqOf(b) == {c \in Constraint : c.rel = "!=" /\ b \in ToSet(BoundsOf(c))}

(* Bound::operator<                                                        *)
Below(b, c) ==
    \/ Less(b.limit, c.limit)
    \/ b.limit = c.limit /\ <<b.type, c.type>> \in {<<"LOWER", "EQUAL">>, <<"EQUAL", "UPPER">>}

-----------------------------------------------------------------------------
(* A tableau.  origins: per bound, the sets of constraints that support    *)
(* it; a bound without is not active.  conflicting: mConflictingRows.      *)
NewTableau ==
    [row |-> [s \in SlackVar |-> [v \in Var |-> IF v \in OriginalVar THEN SlackRow[s][v] ELSE 0]],
     aside |-> SlackVar,
     value |-> [v \in Var |-> Zero],
     sup |-> [v \in Var |-> NoUpper(v)],
     inf |-> [v \in Var |-> NoLower(v)],
     origins |-> [b \in Bound |-> <<>>],
     conflicting |-> EmptyBag,
     steps |-> 0]

Basic(t) == DOMAIN t.row
Rows(t) == Basic(t) \ t.aside
Columns(t) == Var \ Basic(t)
Entries(t, v) == {x \in Columns(t) : t.row[v][x] # 0}
ColumnRows(t, x) == {v \in Rows(t) : t.row[v][x] # 0}

IsActive(t, b) == IsInfinite(b) \/ t.origins[b] # <<>>
HasBound(t, v) == ~(IsInfinite(t.sup[v]) /\ IsInfinite(t.inf[v]))
IsConflicting(t, v) == Below(t.sup[v], t.inf[v])

(* Bound::operator< and operator> with a value: an infinite bound is       *)
(* beyond every value, however large a combination of others may get.      *)
LessUpper(x, b) == IsInfinite(b) \/ Less(x, b.limit)
GreaterLower(x, b) == IsInfinite(b) \/ Less(b.limit, x)
TooHigh(t, v) == ~IsInfinite(t.sup[v]) /\ Less(t.sup[v].limit, t.value[v])
TooLow(t, v) == ~IsInfinite(t.inf[v]) /\ Less(t.value[v], t.inf[v].limit)

(* updateBasicAssignments, and the new value of nonbasic x.                *)
MoveNonbasic(t, x, limit) ==
    LET change == Minus(limit, t.value[x])
    IN  [t EXCEPT !.value = [v \in Var |->
            IF v = x THEN limit
            ELSE IF v \in ColumnRows(t, x) THEN Plus(@[v], Times(t.row[v][x], change)) ELSE @[v]]]

ActivateAsStored(t, s) ==
    [t EXCEPT !.aside = @ \ {s}, !.value[s] = Combined(t.row[s], t.value)]

(* activateBasicVar: the row that was set aside is written in the present  *)
(* nonbasic variables.                                                     *)
ActivateBasicVar(t, s) ==
    LET unit(x) == [v \in Var |-> IF v = x THEN 1 ELSE 0]
        expanded[v \in Var] ==
            IF v \in Columns(t) THEN unit(v)
            ELSE IF v \in Rows(t) THEN t.row[v]
            ELSE [x \in Var |-> MapThenSumSet(LAMBDA w : t.row[v][w] * expanded[w][x],
                                              {w \in Var : t.row[v][w] # 0})]
    IN  [t EXCEPT !.row[s] = expanded[s], !.aside = @ \ {s},
                  !.value[s] = Combined(expanded[s], t.value)]

(* deactivateBasicVar                                                      *)
DeactivateBasicVar(t, v) ==
    [t EXCEPT !.aside = @ \cup {v}, !.conflicting = @ (-) SetToBag({v})]

(* activateBound, its three parts: the origin, a new supremum, a new       *)
(* infimum.                                                                *)
WithOrigin(t, b, origin) ==
    LET noted == [t EXCEPT !.origins[b] = Append(@, origin)]
    IN  IF ~HasBound(t, b.var) /\ b.var \in t.aside THEN ActivateBasicVar(noted, b.var) ELSE noted

TightenSup(t, b) ==
    IF b.type = "LOWER" \/ ~Below(b, t.sup[b.var]) THEN t
    ELSE LET new == [t EXCEPT !.sup[b.var] = b]
         IN  IF ~Less(b.limit, t.inf[b.var].limit) /\ b.var \in Columns(t) /\ TooHigh(new, b.var)
               THEN MoveNonbasic(new, b.var, b.limit) ELSE new

TightenInf(t, b) ==
    IF b.type = "UPPER" \/ ~Below(t.inf[b.var], b) THEN t
    ELSE LET new == [t EXCEPT !.inf[b.var] = b]
         IN  IF ~Less(t.sup[b.var].limit, b.limit) /\ b.var \in Columns(t) /\ TooLow(new, b.var)
               THEN MoveNonbasic(new, b.var, b.limit) ELSE new

ActivateBound(t, b, origin) == TightenInf(TightenSup(WithOrigin(t, b, origin), b), b)

(* Variable::deactivateBound                                               *)
DeactivateBound(t, b) ==
    LET v == b.var
        lowest(B) == CHOOSE u \in B : \A c \in B : ~Below(c, u)
        highest(B) == CHOOSE u \in B : \A c \in B : ~Below(u, c)
    IN  [t EXCEPT
          !.sup[v] = IF @ = b THEN lowest({u \in UpperBounds[v] : IsActive(t, u)}) ELSE @,
          !.inf[v] = IF @ = b THEN highest({u \in LowerBounds[v] : IsActive(t, u)}) ELSE @]

-----------------------------------------------------------------------------
(* isSuitable and betterEntry: the nonbasic variables by which basic v can *)
(* be raised, or lowered; the best are in few rows, few of them bounded,   *)
(* or, under Bland's rule, the one with the smallest number.               *)
Suitable(t, v, raise) ==
    {x \in Entries(t, v) : IF (t.row[v][x] > 0) = raise THEN LessUpper(t.value[x], t.sup[x])
                                                          ELSE GreaterLower(t.value[x], t.inf[x])}

Bland(t) == t.steps >= BlandStart

BetterEntry(t, x, y) ==
    LET size(z) == Cardinality(ColumnRows(t, z))
        bounded(z) == Cardinality({v \in ColumnRows(t, z) : HasBound(t, v)})
    IN  IF Bland(t) THEN x < y
        ELSE size(x) < size(y) \/ (size(x) = size(y) /\ bounded(x) < bounded(y))

BestEntries(t, v) ==
    LET S == Suitable(t, v, TooLow(t, v))
    IN  {x \in S : ~\E y \in S : BetterEntry(t, y, x)}

Violated(t) == {v \in Rows(t) : TooHigh(t, v) \/ TooLow(t, v)}
InConflict(t, v) == Suitable(t, v, TooLow(t, v)) = {}

(* nextPivotingElement: rows that were changed by the last pivots and      *)
(* violate a bound come first, if there are any; Bland's rule takes the    *)
(* smallest variable of all.                                               *)
Listed(t) == [t EXCEPT !.conflicting = [v \in BagToSet(@) \cap Violated(t) |-> @[v]]]
ToConsiderOnce(t) ==
    IF Bland(t) \/ t.conflicting = EmptyBag THEN Violated(t) ELSE BagToSet(Listed(t).conflicting)
ToConsider(t) ==
    LET listed == BagToSet(Listed(t).conflicting)
    IN  IF Bland(t) \/ listed = {} THEN Violated(t) ELSE listed
Candidates(t) ==
    IF Bland(t) THEN {v \in Violated(t) : \A w \in Violated(t) : v <= w} ELSE ToConsider(t)

(* The list after v was chosen from it: without what violates nothing, and *)
(* without one v.                                                          *)
Chosen(t, v) ==
    IF Bland(t) THEN t ELSE [Listed(t) EXCEPT !.conflicting = @ (-) SetToBag({v})]

(* The limit that basic v violates.                                        *)
Target(t, v) == IF TooHigh(t, v) THEN t.sup[v].limit ELSE t.inf[v].limit

(* mPivotingSteps counts on, but only whether it reached mMaxPivots... is  *)
(* ever asked.                                                             *)
NextStep(steps) == IF steps < BlandStart THEN steps + 1 ELSE steps

(* pivot: basic v and nonbasic x swap; v gets the value it is to have.     *)
(* update lists every row of the column that is not at both its limits.    *)
Pivot(t, v, x) ==
    LET p == t.row[v][x]
        theta == Times(p, Minus(Target(t, v), t.value[v]))
        new == [w \in Var |-> IF w = v THEN p ELSE IF w = x THEN 0 ELSE -p * t.row[v][w]]
        changed == ColumnRows(t, x) \ {v}
        value == [w \in Var |->
                    IF w = v THEN Target(t, v)
                    ELSE IF w = x THEN Plus(t.value[x], theta)
                    ELSE IF w \in changed THEN Plus(t.value[w], Times(t.row[w][x], theta))
                    ELSE t.value[w]]
        row == [w \in (Basic(t) \ {v}) \cup {x} |->
                    IF w = x THEN new
                    ELSE IF w \in changed
                      THEN [y \in Var |-> (IF y = x THEN 0 ELSE t.row[w][y]) + t.row[w][x] * new[y]]
                    ELSE t.row[w]]
        listed == {w \in changed : LessUpper(value[w], t.sup[w]) \/ GreaterLower(value[w], t.inf[w])}
        done == [t EXCEPT !.row = row, !.value = value, !.steps = NextStep(@),
                          !.conflicting = @ (+) SetToBag(listed)]
    IN  IF x \in SlackVar /\ ~HasBound(t, x) THEN DeactivateBasicVar(done, x) ELSE done

(* getConflict: of basic v the weakest bound it violates, of the others    *)
(* the bound that keeps them.                                              *)
GetConflict(t, v) ==
    LET low == TooLow(t, v)
        broken == IF low THEN {b \in LowerBounds[v] \cap Bound : IsActive(t, b) /\ Less(t.value[v], b.limit)}
                         ELSE {b \in UpperBounds[v] \cap Bound : IsActive(t, b) /\ Less(b.limit, t.value[v])}
        weakest == CHOOSE b \in broken : \A c \in broken : IF low THEN ~Below(c, b) ELSE ~Below(b, c)
    IN  {weakest} \cup {IF (t.row[v][x] > 0) = low THEN t.sup[x] ELSE t.inf[x] : x \in Entries(t, v)}

-----------------------------------------------------------------------------
(* getRationalAssignment and adaptDelta: the largest delta, <<p, q>> for   *)
(* p / q, for which no bound is broken.                                    *)
CurrentDelta(t) ==
    LET ratio(low, high) == IF low[1] < high[1] /\ high[2] < low[2]
                              THEN {<<high[1] - low[1], low[2] - high[2]>>} ELSE {}
        upper(v) == IF IsInfinite(t.sup[v]) THEN {} ELSE ratio(t.value[v], t.sup[v].limit)
        lower(v) == IF IsInfinite(t.inf[v]) THEN {} ELSE ratio(t.inf[v].limit, t.value[v])
        ratios == UNION {upper(v) \cup lower(v) : v \in Rows(t) \cup Columns(t)}
    IN  IF ratios = {} THEN <<1, 1>>
        ELSE CHOOSE r \in ratios : \A s \in ratios : r[1] * s[2] <= s[1] * r[2]

(* Whether that assignment satisfies c, both sides multiplied by q.        *)
Holds(x, rel, y) ==
    CASE rel = "<" -> x < y [] rel = "<=" -> x <= y [] rel = "=" -> x = y
      [] rel = ">=" -> x >= y [] rel = ">" -> x > y [] rel = "!=" -> x # y
Satisfied(t, c) ==
    LET delta == CurrentDelta(t)
        assigned(o) == t.value[o][1] * delta[2] + t.value[o][2] * delta[1]
        lhs == IF c.var \in OriginalVar THEN assigned(c.var)
               ELSE MapThenSumSet(LAMBDA o : SlackRow[c.var][o] * assigned(o), OriginalVar)
    IN  Holds(lhs, c.rel, c.limit * delta[2])
=============================================================================
