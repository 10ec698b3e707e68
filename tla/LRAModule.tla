------------------------------ MODULE LRAModule ------------------------------
(***************************************************************************)
(* The LRAModule (smtrat-modules/LRAModule/LRAModule.cpp) on conjunctions  *)
(* of linear constraints over the reals, with LRASettings2: its user adds  *)
(* and removes constraints and asks for checks; a check pivots until no    *)
(* bound is violated or a row shows a conflict.  An inequation bounds      *)
(* nothing by itself; next to an active bound at its limit it makes that   *)
(* bound strict, otherwise it waits in the passed formula.                 *)
(***************************************************************************)
EXTENDS Tableau

CONSTANTS Families,      \* sets of constraints: the module is used with one of them
          MaxAborts,     \* checks ended by the answer of another module
          Scale, Reach   \* the points that define what is satisfiable

ASSUME LRAAssumption ==
    /\ Families \subseteq SUBSET Constraint
    /\ MaxAborts \in Nat /\ Scale \in Nat \ {0} /\ Reach \in Nat

VARIABLES mLinearConstraints,  \* the module is informed of
          received,            \* rReceivedFormula
          tableau,             \* mTableau
          strictOf,            \* per constraint, bounds appended to its own
          mInfeasibleSubsets,
          resolved,            \* mActiveResolvedNEQConstraints
          unresolved,          \* mActiveUnresolvedNEQConstraints
          passed,              \* the passed formula
          pc,                  \* "idle", or "search" within a check
          answer,              \* of the last check, "none" once out of date
          aborts

vars == <<mLinearConstraints, received, tableau, strictOf, mInfeasibleSubsets, resolved, unresolved, passed,
          pc, answer, aborts>>
neqVars == <<resolved, unresolved, passed>>

Init ==
    /\ mLinearConstraints \in Families
    /\ received = {} /\ tableau = NewTableau /\ strictOf = [c \in Constraint |-> {}]
    /\ mInfeasibleSubsets = {} /\ resolved = {} /\ unresolved = {} /\ passed = {}
    /\ pc = "idle" /\ answer = "none" /\ aborts = 0

-----------------------------------------------------------------------------
(* The constraints behind an active bound, of its first origin.            *)
Origins(t, b) == t.origins[b][1]

OpposingOrEqual(t, b, inf) ==
    {o \in LowerBounds[b.var] : IsActive(t, o) /\ ~Less(o.limit, b.limit)}

(* activateBound: the bounds of the other side that conflict with b, met on *)
(* the way from the strongest (before b was activated) to weaker ones, up  *)
(* to the first that is inactive or agrees with b.                         *)
OpposingLower(t, b, inf) ==
    LET upFrom(o) == {q \in LowerBounds[b.var] : ~Below(q, o) /\ ~Below(inf, q)}
    IN  {o \in upFrom(NoLower(b.var)) : \A q \in upFrom(o) : IsActive(t, q) /\ Less(b.limit, q.limit)}
OpposingUpper(t, b, sup) ==
    LET downFrom(o) == {q \in UpperBounds[b.var] : ~Below(o, q) /\ ~Below(q, sup)}
    IN  {o \in downFrom(NoUpper(b.var)) : \A q \in downFrom(o) : IsActive(t, q) /\ Less(q.limit, b.limit)}
Opposing(t, b, sup, inf) ==
    (IF b.type = "LOWER" THEN {} ELSE OpposingLower(t, b, inf))
      \cup (IF b.type = "UPPER" THEN {} ELSE OpposingUpper(t, b, sup))

(* The state the functions below work on.                                  *)
State == [t |-> tableau, subsets |-> mInfeasibleSubsets, strict |-> strictOf,
          resolved |-> resolved, unresolved |-> unresolved, passed |-> passed]

Activate(s, b, origin) ==
    LET t == ActivateBound(s.t, b, origin)
        opposing == Opposing(t, b, s.t.sup[b.var], s.t.inf[b.var])
    IN  [s EXCEPT !.t = t,
                  !.subsets = @ \cup {Origins(t, b) \cup Origins(t, o) : o \in opposing}]

(* activateStrictBound: weak bound b of inequation n becomes strict, with  *)
(* both as origin; the constraints of b answer for the strict bound too.   *)
ActivateStrict(s, n, weak, strict) ==
    LET o == Origins(s.t, weak)
    IN  [Activate(s, strict, o \cup {n}) EXCEPT
           !.strict = [c \in Constraint |-> IF c \in o THEN @[c] \cup {strict} ELSE @[c]]]

(* addCore                                                                 *)
Resolve(s, n, b) ==
    LET four == BoundsOf(n)
        moved == [s EXCEPT !.resolved = @ \cup {n}, !.unresolved = @ \ {n}, !.passed = @ \ {n}]
    IN  CASE b = four[2] -> ActivateStrict(moved, n, b, four[1])
          [] b = four[3] -> ActivateStrict(moved, n, b, four[4])
          [] OTHER -> moved

AddBound(s, c) ==
    LET b == BoundsOf(c)[1]
        activated == Activate(s, b, {c})
        waiting == NeqOf(b) \cap s.unresolved
    IN  IF waiting = {} THEN activated ELSE Resolve(activated, CHOOSE n \in waiting : TRUE, b)

AddInequation(s, n) ==
    LET four == BoundsOf(n)
        active(i) == IsActive(s.t, four[i])
    IN  IF \E i \in 1 .. 4 : active(i)
          THEN Resolve(s, n, IF active(2) THEN four[2] ELSE IF active(3) THEN four[3] ELSE four[1])
          ELSE [s EXCEPT !.unresolved = @ \cup {n}, !.passed = @ \cup {n}]

AddCore(c) ==
    LET s == IF c.rel = "!=" THEN AddInequation(State, c) ELSE AddBound(State, c)
    IN  /\ pc = "idle" /\ c \in mLinearConstraints \ received
        /\ received' = received \cup {c}
        /\ tableau' = s.t /\ strictOf' = s.strict /\ mInfeasibleSubsets' = s.subsets
        /\ resolved' = s.resolved /\ unresolved' = s.unresolved /\ passed' = s.passed
        /\ answer' = "none"
        /\ UNCHANGED <<mLinearConstraints, pc, aborts>>

-----------------------------------------------------------------------------
UnresolveWithoutWeak(s, b) ==
    LET left == {n \in NeqOf(b) \cap s.resolved : \A i \in {2, 3} : ~IsActive(s.t, BoundsOf(n)[i])}
    IN  [s EXCEPT !.resolved = @ \ left, !.unresolved = @ \cup left, !.passed = @ \cup left]

(* removeCore, for one bound that has just lost its last origin.           *)
Unresolve(s, b) ==
    LET left == {n \in NeqOf(b) \cap s.resolved : \A q \in ToSet(BoundsOf(n)) : ~IsActive(s.t, q)}
    IN  [s EXCEPT !.resolved = @ \ left, !.unresolved = @ \cup left, !.passed = @ \cup left]

(* A nonbasic variable goes back within its bounds; if they conflict, that *)
(* is found here.                                                          *)
Restore(s, v) ==
    LET t == IF TooHigh(s.t, v) THEN MoveNonbasic(s.t, v, s.t.sup[v].limit)
             ELSE IF TooLow(s.t, v) THEN MoveNonbasic(s.t, v, s.t.inf[v].limit) ELSE s.t
        conflict == IF IsConflicting(t, v) THEN {Origins(t, t.sup[v]) \cup Origins(t, t.inf[v])} ELSE {}
    IN  [s EXCEPT !.t = t, !.subsets = @ \cup conflict]

Deactivate(s, b) ==
    LET v == b.var
        new == [Unresolve(s, b) EXCEPT !.t = DeactivateBound(@, b)]
        changed == b \in {s.t.sup[v], s.t.inf[v]}
        restored == IF changed /\ v \in Columns(s.t) THEN Restore(new, v) ELSE new
    IN  IF v \in Basic(s.t) \cap SlackVar /\ ~HasBound(restored.t, v)
          THEN [restored EXCEPT !.t = DeactivateBasicVar(@, v)] ELSE restored

Without(origins, c) ==
    LET kept[n \in 0 .. Len(origins)] ==
          IF n = 0 THEN <<>>
          ELSE IF c \in origins[n] THEN kept[n - 1] ELSE Append(kept[n - 1], origins[n])
    IN  kept[Len(origins)]

WithoutOrigin(s, b, c) ==
    LET kept == Without(s.t.origins[b], c)
        new == [s EXCEPT !.t.origins[b] = kept]
    IN  IF s.t.origins[b] # <<>> /\ kept = <<>> THEN Deactivate(new, b) ELSE new

(* c is an origin of none of the bounds any more.                          *)
Withdrawn(s, bounds, c) ==
    LET after[n \in 0 .. Len(bounds)] ==
          IF n = 0 THEN s ELSE WithoutOrigin(after[n - 1], bounds[n], c)
    IN  after[Len(bounds)]

(* removeCore, and Module::remove, which drops the subsets with c.         *)
RemoveCore(c) ==
    LET s == Withdrawn(State, BoundsOf(c) \o SetToSeq(strictOf[c]), c)
    IN  /\ pc = "idle" /\ c \in received
        /\ received' = received \ {c}
        /\ tableau' = s.t
        /\ strictOf' = [strictOf EXCEPT ![c] = {b \in @ : IsActive(s.t, b)}]
        /\ mInfeasibleSubsets' = {S \in s.subsets : c \notin S}
        /\ resolved' = s.resolved \ {c}
        /\ unresolved' = s.unresolved \ {c}
        /\ passed' = s.passed \ ({c} \cap s.unresolved)
        /\ answer' = "none"
        /\ UNCHANGED <<mLinearConstraints, pc, aborts>>

-----------------------------------------------------------------------------
(* checkCore: known conflicts are enough; otherwise the search begins.     *)
Finish(a) == pc' = "idle" /\ answer' = a

Check ==
    /\ pc = "idle"
    /\ \/ /\ received = {} /\ Finish("SAT") /\ UNCHANGED tableau
       \/ /\ received # {} /\ mInfeasibleSubsets # {} /\ Finish("UNSAT")
          /\ tableau' = [tableau EXCEPT !.steps = 0]
       \/ /\ received # {} /\ mInfeasibleSubsets = {}
          /\ pc' = "search" /\ answer' = "none" /\ UNCHANGED tableau
    /\ UNCHANGED <<mLinearConstraints, received, strictOf, mInfeasibleSubsets, neqVars, aborts>>

(* Another module has found an answer.                                     *)
Abort ==
    /\ pc = "search" /\ aborts < MaxAborts /\ aborts' = aborts + 1
    /\ Finish("UNKNOWN")
    /\ UNCHANGED <<mLinearConstraints, received, tableau, strictOf, mInfeasibleSubsets, neqVars>>

Conflict ==
    /\ pc = "search"
    /\ \E v \in ToConsider(tableau) :
         /\ InConflict(tableau, v)
         /\ mInfeasibleSubsets' = mInfeasibleSubsets
              \cup {UNION {Origins(tableau, b) : b \in GetConflict(tableau, v)}}
    /\ tableau' = [tableau EXCEPT !.steps = 0, !.conflicting = IF Bland(tableau) THEN @ ELSE EmptyBag]
    /\ Finish("UNSAT")
    /\ UNCHANGED <<mLinearConstraints, received, strictOf, neqVars, aborts>>

PivotStep ==
    /\ pc = "search"
    /\ ~\E v \in ToConsider(tableau) : InConflict(tableau, v)
    /\ \E v \in Candidates(tableau) : \E x \in BestEntries(tableau, v) :
         tableau' = Pivot(Chosen(tableau, v), v, x)
    /\ UNCHANGED <<mLinearConstraints, received, strictOf, mInfeasibleSubsets, neqVars, pc, answer, aborts>>

TrustResolved ==
    /\ pc = "search" /\ Violated(tableau) = {}
    /\ tableau' = [tableau EXCEPT !.steps = 0, !.conflicting = IF Bland(tableau) THEN @ ELSE EmptyBag]
    /\ Finish(IF \E n \in unresolved : ~Satisfied(tableau, n) THEN "UNKNOWN" ELSE "SAT")
    /\ UNCHANGED <<mLinearConstraints, received, strictOf, mInfeasibleSubsets, neqVars, aborts>>

(* No bound is violated: the assignment is a model, unless it violates an  *)
(* inequation.                                                             *)
Consistent ==
    /\ pc = "search" /\ Violated(tableau) = {}
    /\ tableau' = [tableau EXCEPT !.steps = 0, !.conflicting = IF Bland(tableau) THEN @ ELSE EmptyBag]
    /\ Finish(IF \E n \in unresolved \cup resolved : ~Satisfied(tableau, n) THEN "UNKNOWN" ELSE "SAT")
    /\ UNCHANGED <<mLinearConstraints, received, strictOf, mInfeasibleSubsets, neqVars, aborts>>

Search == Abort \/ Conflict \/ PivotStep \/ Consistent
Next == (\E c \in Constraint : AddCore(c) \/ RemoveCore(c)) \/ Check \/ Search
Spec == Init /\ [][Next]_vars
FairSpec == Spec /\ WF_vars(Search)

-----------------------------------------------------------------------------
(* What is satisfiable: the points of a grid, fine and large enough for    *)
(* the constraints of the instance.                                        *)
Points == [OriginalVar -> -Reach * Scale .. Reach * Scale]
ModelOf(p) ==
    {c \in Constraint :
       Holds(IF c.var \in OriginalVar THEN p[c.var]
             ELSE MapThenSumSet(LAMBDA o : SlackRow[c.var][o] * p[o], OriginalVar), c.rel, c.limit * Scale)}
Models == {ModelOf(p) : p \in Points}
Feasible(S) == \E M \in Models : S \subseteq M

TypeOK ==
    /\ received \subseteq mLinearConstraints /\ mLinearConstraints \in Families
    /\ mInfeasibleSubsets \subseteq SUBSET Constraint
    /\ strictOf \in [Constraint -> SUBSET Bound]
    /\ resolved \cup unresolved \cup passed \subseteq Constraint
    /\ pc \in {"idle", "search"} /\ answer \in {"none", "SAT", "UNSAT", "UNKNOWN"}
    /\ aborts \in 0 .. MaxAborts

(* Every infeasible subset, found when a bound was added or removed or by  *)
(* a row in conflict, lies within the received formula; an answer UNSAT    *)
(* has one.                                                                *)
ConflictsReceived ==
    /\ \A S \in mInfeasibleSubsets : S \subseteq received
    /\ answer = "UNSAT" => mInfeasibleSubsets # {}

(* So it does, and is unsatisfiable.                                       *)
ConflictsRight == ConflictsReceived /\ \A S \in mInfeasibleSubsets : ~Feasible(S)

(* checkCore asserts that bounds conflict only where a conflict is known   *)
(* (LRAModule.cpp:359).  They may: of a conflict between bounds one subset *)
(* is noted, with an origin of each; when a constraint in it is removed,   *)
(* the subset goes, but with another origin the bound stays.               *)
NotConflicting == pc = "search" => \A v \in Var : ~IsConflicting(tableau, v)
Forgotten == mInfeasibleSubsets = {} /\ \E v \in Var : IsConflicting(tableau, v)

(* With the answer SAT the assignment, delta replaced by a number,         *)
(* satisfies every received constraint, strict ones and inequations too    *)
(* (assignmentCorrect), unless a conflict has been forgotten.              *)
ModelRight == answer = "SAT" /\ ~Forgotten => \A c \in received : Satisfied(tableau, c)

(* What a slack variable stands for.                                       *)
Meaning ==
    [v \in Var |-> IF v \in SlackVar THEN SlackRow[v] ELSE [o \in OriginalVar |-> IF o = v THEN 1 ELSE 0]]

(* A nonbasic variable, which no search looks at, is within its bounds,    *)
(* unless these conflict: whatever bounds came and went, and whichever     *)
(* basic variable was pivoted to be one.                                   *)
NonbasicWithin ==
    \A v \in Columns(tableau) :
      ~IsConflicting(tableau, v) => ~TooHigh(tableau, v) /\ ~TooLow(tableau, v)

(* The simplex invariant, whatever was pivoted, set aside and taken back:  *)
(* every row follows from what slack variables stand for, the assignment   *)
(* satisfies the rows (rowCorrect, checkCorrectness), and the nonbasic     *)
(* variables are within their bounds.                                      *)
SimplexInvariant ==
    /\ \A v \in Basic(tableau) :
         /\ \A o \in OriginalVar : Meaning[v][o] =
              MapThenSumSet(LAMBDA w : tableau.row[v][w] * Meaning[w][o], {w \in Var : tableau.row[v][w] # 0})
         /\ v \notin tableau.aside => tableau.value[v] = Combined(tableau.row[v], tableau.value)
    /\ NonbasicWithin

(* However constraints came and went: a bound is active for constraints    *)
(* that are received, and for all of them; the bounds of a variable are    *)
(* its strongest active ones; and an inequation is passed on exactly while *)
(* none of the bounds next to it is active.                                *)
BoundsRight ==
    /\ \A b \in Bound : \A o \in ToSet(tableau.origins[b]) : o \subseteq received
    /\ \A c \in received : c.rel # "!=" => {c} \in ToSet(tableau.origins[BoundsOf(c)[1]])
    /\ \A b \in Bound : IsActive(tableau, b) =>
         /\ b.type # "LOWER" => ~Below(b, tableau.sup[b.var])
         /\ b.type # "UPPER" => ~Below(tableau.inf[b.var], b)
    /\ \A v \in Var : IsActive(tableau, tableau.sup[v]) /\ IsActive(tableau, tableau.inf[v])
    /\ \A n \in received : n.rel = "!=" =>
         LET alone == \A b \in ToSet(BoundsOf(n)) : ~IsActive(tableau, b)
         IN  (n \in unresolved <=> alone) /\ (n \in resolved <=> ~alone) /\ (n \in passed <=> alone)

(* A search ends: after mMaxPivotsWithoutBlandsRule steps Bland's rule     *)
(* keeps it from going round in circles.                                   *)
CheckEnds == (pc = "search") ~> (pc = "idle")
=============================================================================
