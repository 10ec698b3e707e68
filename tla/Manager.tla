------------------------------ MODULE Manager ------------------------------
(***************************************************************************)
(* The manager of a solver (smtrat-solver/Manager.{h,cpp}): the list of    *)
(* asserted formulas, the stack of backtrack points, the objectives, and   *)
(* what its primary backend has been told.                                 *)
(*                                                                         *)
(* mpPassedFormula is a list without duplicates (ModuleInput::add).  A     *)
(* backtrack point holds an iterator into it: first is the number of       *)
(* formulas up to its node (0 for end(), on the empty list), and live says *)
(* that the node has not been erased; no iterator of the list compares     *)
(* equal to an erased node.                                                *)
(***************************************************************************)
EXTENDS Integers, Sequences, FiniteSets

CONSTANTS Atom,          \* formulas that are not conjunctions
          Objective,     \* objective functions
          IntegerValued, \* those whose values are integers
          MaxConjuncts,  \* bound: conjuncts of one asserted formula
          MaxLevels,     \* bound: levels the user has pushed
          MaxVars        \* bound: variables created for objectives

ASSUME ManagerAssumption ==
    /\ IntegerValued \subseteq Objective
    /\ MaxConjuncts \in Nat /\ MaxLevels \in Nat /\ MaxVars \in Nat

(* The variable of an objective is an integer or a real one.               *)
VariableType == {"VT_INT", "VT_REAL"}
TypeOf(o) == IF o \in IntegerValued THEN "VT_INT" ELSE "VT_REAL"
Var == [type : VariableType, id : 1 .. MaxVars]

(* What check() itself adds: the equation that defines the variable v of   *)
(* an objective, and a bound on the objective whose variable is v.         *)
Equation(v) == <<"equation", v>>
UpperBound(v) == <<"bound", v>>
Internal == {Equation(v) : v \in Var} \cup {UpperBound(v) : v \in Var}
Formula == Atom \cup Internal

VARIABLES mpPassedFormula,   \* sequence of formulas
          mBacktrackPoints,  \* sequence of [first, live, second]
          mObjectives,       \* sequence of [fct, var, level]; level is history:
                             \* the number of levels when it was added
          mReusableVars,     \* per type, the stack of objective variables to
                             \* use again: mReusable{Int,Real}ObjectiveVars
          freshVars,         \* objective variables created so far
          told,              \* formulas added to the primary backend
          pc,                \* where check() or reset() stands
          inner,             \* levels check() has pushed itself
          current            \* the objective check() works on

listVars == <<mpPassedFormula, mBacktrackPoints, told>>
objectiveVars == <<mObjectives, mReusableVars, freshVars>>
checkVars == <<pc, inner, current>>
vars == <<listVars, objectiveVars, checkVars>>

Init ==
    /\ mpPassedFormula = <<>>
    /\ mBacktrackPoints = <<>>
    /\ mObjectives = <<>>
    /\ mReusableVars = [t \in VariableType |-> <<>>]
    /\ freshVars = 0
    /\ told = {}
    /\ pc = "idle"
    /\ inner = 0
    /\ current = 0

Elements(s) == {s[i] : i \in DOMAIN s}

-----------------------------------------------------------------------------
(* Operations on the list and the stack of backtrack points.               *)

(* The conjuncts of an asserted formula; carl keeps them distinct.         *)
Conjunction == {s \in UNION {[1 .. n -> Atom] : n \in 1 .. MaxConjuncts} :
                  \A i, j \in DOMAIN s : s[i] = s[j] => i = j}

(* ModuleInput::add appends the conjuncts the list does not contain yet,   *)
(* in their order: New(list, parts) has one element, the sequence of them. *)
New(list, parts) ==
    LET missing == Elements(parts) \ Elements(list)
    IN  {new \in UNION {[1 .. n -> missing] : n \in 0 .. Len(parts)} :
           /\ Elements(new) = missing
           /\ \A i, j \in DOMAIN new : i < j =>
                \E k, l \in DOMAIN parts : k < l /\ new[i] = parts[k] /\ new[j] = parts[l]}

(* The primary backend is told every formula from the first new one on.    *)
ToldFirst(new) == {new[i] : i \in DOMAIN new \cap {1}}
Told(new) == Elements(new)

(* push() points to the last formula, or to end() if there is none.        *)
PointOfSize == [first |-> Len(mpPassedFormula), live |-> TRUE, second |-> Len(mObjectives)]
Point == [first |-> Len(mpPassedFormula), live |-> TRUE, second |-> Len(mObjectives) - 1]

LastPoint == mBacktrackPoints[Len(mBacktrackPoints)]

(* pop() removes from the back until it meets the node of the backtrack    *)
(* point, and to the end if it never does.                                 *)
FormulasKept(p) ==
    IF p.live THEN SubSeq(mpPassedFormula, 1, p.first) ELSE <<>>

ObjectivesKept(p) ==
    IF p.second < Len(mObjectives) THEN SubSeq(mObjectives, 1, p.second + 1) ELSE <<>>

(* The variables of that type of the objectives removed, the last          *)
(* objective first: Recycled(kept, type) has one element, the sequence.    *)
Recycled(kept, type) ==
    LET gone == {i \in Len(kept) + 1 .. Len(mObjectives) : mObjectives[i].var.type = type}
        order == {q \in UNION {[1 .. n -> gone] : n \in 0 .. Len(mObjectives)} :
                    Elements(q) = gone /\ \A i, j \in DOMAIN q : i < j => q[i] > q[j]}
    IN  {[i \in DOMAIN q |-> mObjectives[q[i]].var] : q \in order}

(* The formulas removed are removed from the primary backend.              *)
Removed(kept) == Elements(mpPassedFormula) \ Elements(kept)

(* The older backtrack points; one whose node was removed dangles.         *)
PointsKept(kept) == [k \in 1 .. Len(mBacktrackPoints) - 1 |->
    [mBacktrackPoints[k] EXCEPT !.live = @ /\ mBacktrackPoints[k].first <= Len(kept)]]

PopPoint ==
    /\ mBacktrackPoints' = PointsKept(FormulasKept(LastPoint))
    /\ mObjectives' = ObjectivesKept(LastPoint)
    /\ \E ints \in Recycled(ObjectivesKept(LastPoint), "VT_INT") :
       \E reals \in Recycled(ObjectivesKept(LastPoint), "VT_REAL") :
         mReusableVars' = [mReusableVars EXCEPT !["VT_INT"] = @ \o ints, !["VT_REAL"] = @ \o reals]
    /\ UNCHANGED freshVars

-----------------------------------------------------------------------------
(* The interface of the manager.                                           *)

add(parts) ==
    /\ pc = "idle"
    /\ \E new \in New(mpPassedFormula, parts) :
         /\ mpPassedFormula' = mpPassedFormula \o new
         /\ told' = told \cup Told(new)
    /\ UNCHANGED <<mBacktrackPoints, objectiveVars, checkVars>>

push ==
    /\ pc = "idle"
    /\ Len(mBacktrackPoints) < MaxLevels
    /\ mBacktrackPoints' = Append(mBacktrackPoints, Point)
    /\ UNCHANGED <<mpPassedFormula, told, objectiveVars, checkVars>>

(* pop(); pop(n) and clear() are repetitions of it.                        *)
pop ==
    /\ pc = "idle"
    /\ mBacktrackPoints # <<>>
    /\ mpPassedFormula' = FormulasKept(LastPoint)
    /\ told' = told \ Removed(FormulasKept(LastPoint))
    /\ PopPoint
    /\ UNCHANGED checkVars

(* An objective gets a variable of its type, one that is free again or a   *)
(* new one.                                                                *)
ReusableAfterPeek(t) == mReusableVars[t]
ReusableAfterTake(t) == SubSeq(mReusableVars[t], 1, Len(mReusableVars[t]) - 1)

NewObjective(o, v) == [fct |-> o, var |-> v, level |-> Len(mBacktrackPoints)]
NewVar(t) == [type |-> t, id |-> freshVars + 1]

addObjective(o) ==
    /\ pc = "idle"
    /\ LET t == TypeOf(o)
           free == mReusableVars[t]
       IN  \/ /\ free = <<>>
              /\ freshVars < MaxVars
              /\ freshVars' = freshVars + 1
              /\ mObjectives' = Append(mObjectives, NewObjective(o, NewVar(t)))
              /\ UNCHANGED mReusableVars
           \/ /\ free # <<>>
              /\ mObjectives' = Append(mObjectives, NewObjective(o, free[Len(free)]))
              /\ mReusableVars' = [mReusableVars EXCEPT ![t] = ReusableAfterTake(t)]
              /\ UNCHANGED freshVars
    /\ UNCHANGED <<listVars, checkVars>>

-----------------------------------------------------------------------------
(* check() with objectives.  Without, it only asks the primary backend,    *)
(* which changes none of this state.                                       *)

(* A level for the upper bounds found.                                     *)
CheckBegin ==
    /\ pc = "idle"
    /\ mObjectives # <<>>
    /\ mBacktrackPoints' = Append(mBacktrackPoints, Point)
    /\ pc' = "minimize" /\ inner' = 1 /\ current' = 1
    /\ UNCHANGED <<mpPassedFormula, told, objectiveVars>>

(* A level for the equation that defines the objective's variable.         *)
Minimize ==
    LET equation == <<Equation(mObjectives[current].var)>>
    IN  /\ pc = "minimize"
        /\ mBacktrackPoints' = Append(mBacktrackPoints, Point)
        /\ \E new \in New(mpPassedFormula, equation) :
             /\ mpPassedFormula' = mpPassedFormula \o new
             /\ told' = told \cup Told(new)
        /\ pc' = "answer" /\ inner' = 2
        /\ UNCHANGED <<objectiveVars, current>>

(* The primary backend did not answer SAT, or this was the last objective. *)
Answered ==
    /\ pc = "answer"
    /\ pc' = "unwind"
    /\ UNCHANGED <<listVars, objectiveVars, inner, current>>

(* SAT, and there is another objective: its variable is looked up in the   *)
(* model, which assigns the variables of the received formulas.  When it   *)
(* is not there the assertion fails; without assertions the value read     *)
(* through end() is undefined, and a bound with any value may be added.    *)
NextObjective ==
    /\ pc = "answer"
    /\ current < Len(mObjectives)
    /\ \/ /\ Equation(mObjectives[current + 1].var) \notin Elements(mpPassedFormula)
          /\ pc' = "failed"
       \/ pc' = "bound"
    /\ UNCHANGED <<listVars, objectiveVars, inner, current>>

(* Pop the equation's level, bound the next objective.                     *)
Bound ==
    LET kept == FormulasKept(LastPoint)
        bound == <<UpperBound(mObjectives[current + 1].var)>>
    IN  /\ pc = "bound"
        /\ \E new \in New(kept, bound) :
             /\ mpPassedFormula' = kept \o new
             /\ told' = (told \ Removed(kept)) \cup Told(new)
        /\ PopPoint
        /\ pc' = "minimize" /\ inner' = 1 /\ current' = current + 1

(* pop(2), one level at a time.                                            *)
InnerAfterOnePop == 0
InnerAfterPop == inner - 1

Unwind ==
    /\ pc = "unwind"
    /\ mpPassedFormula' = FormulasKept(LastPoint)
    /\ told' = told \ Removed(FormulasKept(LastPoint))
    /\ PopPoint
    /\ inner' = InnerAfterPop
    /\ pc' = IF inner' = 0 THEN "idle" ELSE "unwind"
    /\ current' = IF inner' = 0 THEN 0 ELSE current

-----------------------------------------------------------------------------
(* The rest of the interface.                                              *)

(* remove(iterator): erasing a node moves the positions behind it and      *)
(* leaves the iterators to it dangling.                                    *)
ToldAfterErase(i) == told
ToldAfterRemove(i) == told \ {mpPassedFormula[i]}

remove(i) ==
    /\ pc = "idle"
    /\ i \in DOMAIN mpPassedFormula
    /\ mpPassedFormula' = SubSeq(mpPassedFormula, 1, i - 1)
                            \o SubSeq(mpPassedFormula, i + 1, Len(mpPassedFormula))
    /\ told' = ToldAfterRemove(i)
    /\ mBacktrackPoints' = [k \in DOMAIN mBacktrackPoints |->
         [mBacktrackPoints[k] EXCEPT !.first = IF i <= @ THEN @ - 1 ELSE @,
                                     !.live = @ /\ mBacktrackPoints[k].first # i]]
    /\ UNCHANGED <<objectiveVars, checkVars>>

(* removeObjective: the last objective with that function is erased; the   *)
(* backtrack points keep counting it.                                      *)
removeObjective(o) ==
    /\ pc = "idle"
    /\ \E i \in DOMAIN mObjectives :
         /\ mObjectives[i].fct = o
         /\ \A j \in DOMAIN mObjectives : j > i => mObjectives[j].fct # o
         /\ mObjectives' = SubSeq(mObjectives, 1, i - 1)
                             \o SubSeq(mObjectives, i + 1, Len(mObjectives))
    /\ UNCHANGED <<listVars, mReusableVars, freshVars, checkVars>>

(* reset(): pop all levels, then replace all modules by a new primary      *)
(* backend on the same list.                                               *)
ResetBegin ==
    /\ pc = "idle"
    /\ pc' = "reset"
    /\ UNCHANGED <<listVars, objectiveVars, inner, current>>

ResetPop ==
    /\ pc = "reset"
    /\ mBacktrackPoints # <<>>
    /\ mpPassedFormula' = FormulasKept(LastPoint)
    /\ told' = told \ Removed(FormulasKept(LastPoint))
    /\ PopPoint
    /\ UNCHANGED checkVars

ResetEnd ==
    /\ pc = "reset"
    /\ mBacktrackPoints = <<>>
    /\ told' = {}
    /\ pc' = "idle"
    /\ UNCHANGED <<mpPassedFormula, mBacktrackPoints, objectiveVars, inner, current>>

-----------------------------------------------------------------------------
(* A failed assertion has stopped the program.                             *)
Failed == pc = "failed" /\ UNCHANGED vars

CheckNext == CheckBegin \/ Minimize \/ Answered \/ NextObjective \/ Bound \/ Unwind

Next == \/ \E parts \in Conjunction : add(parts)
        \/ push
        \/ pop
        \/ \E o \in Objective : addObjective(o)
        \/ CheckNext
        \/ Failed

Spec == Init /\ [][Next]_vars

(* The operations that do not keep to the stack discipline.                *)
OutOfOrderNext == \/ \E i \in DOMAIN mpPassedFormula : remove(i)
                  \/ \E o \in Objective : removeObjective(o)
                  \/ ResetBegin \/ ResetPop \/ ResetEnd

FullSpec == Init /\ [][Next \/ OutOfOrderNext]_vars

-----------------------------------------------------------------------------
(* The types of the manager's state.                                       *)
TypeOK ==
    /\ mpPassedFormula \in Seq(Formula)
    /\ mBacktrackPoints \in Seq([first : Nat, live : BOOLEAN, second : Nat \cup {-1}])
    /\ mObjectives \in Seq([fct : Objective, var : Var, level : Nat])
    /\ mReusableVars \in [VariableType -> Seq(Var)]
    /\ freshVars \in 0 .. MaxVars
    /\ told \in SUBSET Formula
    /\ pc \in {"idle", "minimize", "answer", "bound", "unwind", "reset", "failed"}
    /\ inner \in 0 .. 2
    /\ current \in Nat

(* The iterators kept in backtrack points stay valid however formulas are  *)
(* added and popped: each points to a node of the list, and no newer level *)
(* begins below an older one, so pop() always meets its backtrack point    *)
(* (Manager.cpp:279-289).                                                  *)
BacktrackPointsValid == \A k \in DOMAIN mBacktrackPoints :
    /\ mBacktrackPoints[k].live
    /\ mBacktrackPoints[k].first \in 0 .. Len(mpPassedFormula)
    /\ mBacktrackPoints[k].second \in -1 .. Len(mObjectives) - 1
    /\ \A j \in 1 .. k : /\ mBacktrackPoints[j].first <= mBacktrackPoints[k].first
                         /\ mBacktrackPoints[j].second <= mBacktrackPoints[k].second

(* The primary backend has been told exactly the formulas in the list      *)
(* (add and remove reach it in pairs), no formula is in the list twice.    *)
(* Module::remove asserts it of every formula removed (Module.cpp:208).    *)
BackendInSync ==
    /\ told = Elements(mpPassedFormula)
    /\ \A i, j \in DOMAIN mpPassedFormula : mpPassedFormula[i] = mpPassedFormula[j] => i = j

(* Also when formulas are removed out of order, or the manager is reset,   *)
(* the primary backend never keeps a formula that has left the list, whose *)
(* iterators would dangle in it (Manager.cpp:269-274, 311-332).            *)
ToldOnlyListed == told \subseteq Elements(mpPassedFormula)

(* Objectives in force never share their variable, which has the type of   *)
(* the objective, and a variable waiting for reuse belongs to no objective *)
(* and waits on the stack of its type (Manager.h:179-201, Manager.cpp:290). *)
ObjectiveVarsDistinct ==
    /\ \A i, j \in DOMAIN mObjectives : mObjectives[i].var = mObjectives[j].var => i = j
    /\ \A i \in DOMAIN mObjectives : mObjectives[i].var.type = TypeOf(mObjectives[i].fct)
    /\ \A t \in VariableType :
         /\ \A i \in DOMAIN mObjectives : mObjectives[i].var \notin Elements(mReusableVars[t])
         /\ \A i, j \in DOMAIN mReusableVars[t] : mReusableVars[t][i] = mReusableVars[t][j] => i = j
         /\ \A i \in DOMAIN mReusableVars[t] : mReusableVars[t][i].type = t

(* The levels of the user: check() has pushed the newest inner ones.       *)
UserLevels == Len(mBacktrackPoints) - inner

(* The formulas and objectives in force below the k-th level, or, above    *)
(* the last level, altogether.                                             *)
InForceOf(list, points, objs, k) ==
    IF k <= Len(points)
      THEN [asserted |-> Elements(SubSeq(list, 1, points[k].first)),
            objectives |-> [i \in 1 .. points[k].second + 1 |-> objs[i].fct]]
      ELSE [asserted |-> Elements(list), objectives |-> [i \in DOMAIN objs |-> objs[i].fct]]

InForce(k) == InForceOf(mpPassedFormula, mBacktrackPoints, mObjectives, k)

Stack == INSTANCE AssertionStack WITH
    Formula <- Atom,
    asserted <- InForce(UserLevels + 1).asserted,
    objectives <- InForce(UserLevels + 1).objectives,
    levels <- [k \in 1 .. UserLevels |-> InForce(k)]

(* Adding, pushing, popping and checking behave as the assertion stack:    *)
(* pop brings back exactly what was in force at the push, a formula        *)
(* asserted again on a higher level survives its pop, and an optimising    *)
(* check is invisible.                                                     *)
ImplementsStack == Stack!StackSpec

-----------------------------------------------------------------------------
(* What the repository says of the manager and the code does not keep.     *)

(* Manager.cpp:314 asserts in reset(), once all levels are popped, that no *)
(* formula is left.                                                        *)
ResetEmpties == pc = "reset" /\ mBacktrackPoints = <<>> => mpPassedFormula = <<>>

(* Manager.cpp:160 asserts that the model assigns the variable looked up.  *)
ObjectiveInModel == pc # "failed"
=============================================================================
