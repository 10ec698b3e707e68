------------------------------ MODULE UnionFind ------------------------------
(***************************************************************************)
(* UnionFindModule, the theory solver for equalities between variables of  *)
(* an uninterpreted sort (smtrat-modules/UnionFindModule), with its        *)
(* backtrackable union-find structure (UnionFind.h) and the graph it       *)
(* explains conflicts from (EQGraph.h).                                    *)
(*                                                                         *)
(* Every equality added makes a new version of the parents and ranks;      *)
(* removing one goes back to the version before it and merges the later    *)
(* equalities again.  A variable gets its index, and room in the newest    *)
(* version, at the first add() after it became known.  Undefined           *)
(* behaviour (an index beyond the parents) and std::terminate (an          *)
(* exception in a noexcept function) end the behaviour: failed.  Theory    *)
(* propagation is off in the settings.                                     *)
(***************************************************************************)
EXTENDS Integers, Sequences, FiniteSets, SequencesExt

CONSTANTS Var,      \* variables
          Literal   \* equalities and their negations over them

ASSUME UnionFindAssumption ==
    /\ IsFiniteSet(Var)
    /\ Literal \subseteq [lhs : Var, rhs : Var, negated : BOOLEAN]
    \* An equality has one form: neither trivial nor also written swapped.
    /\ \A k \in Literal : k.lhs # k.rhs
    /\ \A k, l \in Literal : k.lhs = l.rhs => k.rhs # l.lhs

VARIABLES received,        \* the received formula, a set of literals
          variables,       \* variables the module was informed of
          need_to_update,  \* some of them have no index yet
          translate,       \* variable |-> index, from 0 on
          versions,        \* classes.history, see IsVersion
          edges,           \* of the graph: pairs {x, y} of variables
          history,         \* literals added and not removed, in this order
          mInfeasibleSubsets, mSolverState,
          mModel,          \* variable |-> value, kept while phase = "model"
          phase,           \* of the user: "idle", "checked" after a check,
                           \* "model" after it took the model as well
          failed,          \* how the process ended, see Fail; "no"
          late             \* history: a variable became known after the
                           \* first add()

classVars == <<need_to_update, translate, versions>>
literalVars == <<received, history, edges>>
answerVars == <<mInfeasibleSubsets, mSolverState>>
vars == <<variables, classVars, literalVars, answerVars, mModel, phase, failed, late>>

(* A version of the union-find: the pair of indices merged last, parents   *)
(* and ranks.  (ranks is one longer than parents in the code; its last     *)
(* element is never used.)                                                 *)
Index == 0 .. Cardinality(Var)
IsVersion(v) ==
    /\ v.merged \in Index \X Index
    /\ DOMAIN v.parents \subseteq Index /\ Range(v.parents) \subseteq DOMAIN v.parents
    /\ DOMAIN v.ranks = DOMAIN v.parents /\ Range(v.ranks) \subseteq Nat

Origin == [merged |-> <<0, 0>>, parents |-> <<>>, ranks |-> <<>>]

Init ==
    /\ received = {} /\ history = <<>> /\ edges = {}
    /\ variables = {} /\ need_to_update = FALSE /\ translate = <<>>
    /\ versions = <<Origin>>
    /\ mInfeasibleSubsets = {} /\ mSolverState = "UNKNOWN"
    /\ mModel = <<>> /\ phase = "idle" /\ failed = "no" /\ late = FALSE

-----------------------------------------------------------------------------
(* PersistentUnionFind.                                                    *)

(* init_size: the first time, index 0 gets the rank size + 1, as the ranks *)
(* are initialised with the list {size + 1, 0}.  resize makes room for one *)
(* index more than there are.                                              *)
Grown(v, last, size) ==
    LET room == DOMAIN v.parents \cup 0 .. last
    IN  [v EXCEPT
          !.parents = [i \in room |-> IF i \in DOMAIN @ THEN @[i] ELSE i],
          !.ranks = [i \in room |-> CASE i \in DOMAIN @ -> @[i]
                                      [] DOMAIN @ = {} /\ i = 0 -> size + 1
                                      [] OTHER -> 0]]

Resized(v, size) == Grown(v, size, size)

Find(parents, i) ==
    LET root[j \in DOMAIN parents] == IF parents[j] = j THEN j ELSE root[parents[j]]
    IN  root[i]

(* The indices find_impl(i) visits.                                        *)
OnPath(parents, i) ==
    LET path[j \in DOMAIN parents] ==
          {j} \cup (IF parents[j] = j THEN {} ELSE path[parents[j]])
    IN  path[i]

(* Path compression by a find of every index of S.                         *)
Compressed(parents, S) ==
    LET visited == UNION {OnPath(parents, i) : i \in S}
    IN  [j \in DOMAIN parents |-> IF j \in visited THEN Find(parents, j) ELSE parents[j]]

(* merge: finds both roots in the newest version and appends a version in  *)
(* which the root of the smaller rank points to the other.                 *)
Linked(parents, ranks, ra, rb) ==
    CASE ra = rb -> [parents |-> parents, ranks |-> ranks]
      [] ra # rb /\ ranks[ra] > ranks[rb] ->
            [parents |-> [parents EXCEPT ![rb] = ra], ranks |-> ranks]
      [] ra # rb /\ ranks[ra] < ranks[rb] ->
            [parents |-> [parents EXCEPT ![ra] = rb], ranks |-> ranks]
      [] ra # rb /\ ranks[ra] = ranks[rb] ->
            [parents |-> [parents EXCEPT ![rb] = ra],
             ranks |-> [ranks EXCEPT ![ra] = @ + 1]]

Merge(vs, pair) ==
    LET top == vs[Len(vs)]
        parents == Compressed(top.parents, {pair[1], pair[2]})
        linked == Linked(parents, top.ranks, Find(parents, pair[1]), Find(parents, pair[2]))
    IN  Append([vs EXCEPT ![Len(vs)].parents = parents],
               [merged |-> pair, parents |-> linked.parents, ranks |-> linked.ranks])

LastIndexIn(s, Test(_)) ==
    CHOOSE i \in DOMAIN s : Test(s[i]) /\ \A j \in DOMAIN s : j > i => ~Test(s[j])

(* backtrack: to the version before the last one that merged the pair.     *)
Backtracked(vs, pair) == SubSeq(vs, 1, LastIndexIn(vs, LAMBDA v : v.merged = pair) - 1)

-----------------------------------------------------------------------------
(* The elements of a sequence that are in K, in their order: a recursive   *)
(* function, where SelectSeq has a test, so that a proof can expand it.    *)
Selected(s, K) ==
    LET chosen[n \in 0 .. Len(s)] ==
          IF n = 0 THEN <<>>
          ELSE IF s[n] \in K THEN Append(chosen[n - 1], s[n]) ELSE chosen[n - 1]
    IN  chosen[Len(s)]

Top(vs) == vs[Len(vs)]
Pair(l) == <<translate[l.lhs], translate[l.rhs]>>
Equalities == {l \in Literal : ~l.negated}
Disequalities == {l \in Literal : l.negated}
InRange(vs, S) == S \subseteq DOMAIN Top(vs).parents
IndicesOf(ls) == UNION {{translate[l.lhs], translate[l.rhs]} : l \in ls}

(* informCore: new variables become vertices of the graph.                 *)
Inform(l) ==
    /\ failed = "no"
    /\ variables' = variables \cup {l.lhs, l.rhs}
    /\ need_to_update' = (need_to_update \/ variables' # variables)
    /\ late' = (late \/ (variables' # variables /\ translate # <<>>))
    /\ phase' = "idle" /\ mModel' = <<>>
    /\ UNCHANGED <<translate, versions, literalVars, answerVars, failed>>

(* UnionFindInterface::init: the variables without an index get the next   *)
(* ones, in the order of the hash set.                                     *)
Translations ==
    {t \in [variables -> 0 .. Cardinality(variables) - 1] :
        /\ IsInjective(t)
        /\ \A x \in DOMAIN translate : t[x] = translate[x]}

Initialised(vs) == [vs EXCEPT ![Len(vs)] = Resized(@, Cardinality(variables))]

(* addCore, for a literal the module was informed of.                      *)
MayAdd(l) == failed = "no" /\ l \notin received /\ {l.lhs, l.rhs} \subseteq variables

Add(l) ==
    /\ MayAdd(l)
    /\ \/ /\ need_to_update
          /\ translate' \in Translations
       \/ /\ ~need_to_update
          /\ UNCHANGED translate
    /\ need_to_update' = FALSE
    /\ LET vs == IF need_to_update THEN Initialised(versions) ELSE versions
           pair == <<translate'[l.lhs], translate'[l.rhs]>>
       IN  IF l.negated
           THEN versions' = vs /\ UNCHANGED edges
           ELSE /\ InRange(vs, {pair[1], pair[2]})
                /\ versions' = Merge(vs, pair)
                /\ edges' = edges \cup {{l.lhs, l.rhs}}
    /\ received' = received \cup {l} /\ history' = Append(history, l)
    /\ phase' = "idle" /\ mModel' = <<>>
    /\ UNCHANGED <<variables, answerVars, failed, late>>

(* removeCore, then the rest of Module::remove.                            *)
PositionOf(l) == LastIndexIn(history, LAMBDA k : k = l)
TailAfter(l) == SubSeq(history, PositionOf(l) + 1, Len(history))

TailForgotten(l) == Backtracked(versions, Pair(l))

Remerged(vs, ks) ==
    LET again[n \in 0 .. Len(ks)] ==
          IF n = 0 THEN vs ELSE Merge(again[n - 1], Pair(ks[n]))
    IN  again[Len(ks)]

VersionsWithout(l) ==
    Remerged(Backtracked(versions, Pair(l)), Selected(TailAfter(l), Equalities))

RemoveInRange(l) ==
    ~l.negated => InRange(Backtracked(versions, Pair(l)),
                          IndicesOf(Range(TailAfter(l)) \cap Equalities))

SubsetsWithout(l) == {S \in mInfeasibleSubsets : l \notin S}

StateKept(subsets) == mSolverState
StateAfterRemove(subsets) == IF subsets = {} THEN "UNKNOWN" ELSE mSolverState

RemoveLiteral(l) ==
    /\ failed = "no" /\ l \in received /\ RemoveInRange(l)
    /\ received' = received \ {l}
    /\ history' = RemoveAt(history, PositionOf(l))
    /\ IF l.negated THEN UNCHANGED <<versions, edges>>
       ELSE versions' = VersionsWithout(l) /\ edges' = edges \ {{l.lhs, l.rhs}}
    /\ mInfeasibleSubsets' = SubsetsWithout(l)
    /\ mSolverState' = StateAfterRemove(SubsetsWithout(l))
    /\ phase' = "idle" /\ mModel' = <<>>
    /\ UNCHANGED <<variables, need_to_update, translate, failed, late>>

-----------------------------------------------------------------------------
(* checkCore looks at the negated equalities in the order they were added, *)
(* up to the first that contradicts the classes.                           *)
SameClass(l) == Find(Top(versions).parents, Pair(l)[1]) = Find(Top(versions).parents, Pair(l)[2])

LastLookedAt(ds) ==
    LET known == {i \in DOMAIN ds : \A j \in 1 .. i : InRange(versions, IndicesOf({ds[j]}))}
        conflicts == {i \in known : SameClass(ds[i])}
    IN  IF conflicts = {} THEN Len(ds) ELSE Min(conflicts)

LookedAt == LET ds == Selected(history, Disequalities) IN SubSeq(ds, 1, LastLookedAt(ds))

(* Connected by the edges E, pairs of variables: no set of variables that  *)
(* the edges do not leave has one and not the other.                       *)
Connected(E, x, y) ==
    \A S \in SUBSET Var : x \in S /\ (\A e \in E : e \cap S = {} \/ e \subseteq S) => y \in S

AnyConnection(x, y) == {P \in SUBSET edges : Connected(P, x, y)}

(* get_path: breadth-first search finds a shortest path.                   *)
Paths(x, y) ==
    LET connecting == {P \in SUBSET edges : Connected(P, x, y)}
    IN  {P \in connecting : \A Q \in connecting : Cardinality(P) <= Cardinality(Q)}

(* generateInfeasibleSubset: the negated equality and those of the path.   *)
InfeasibleSubset(l, path) ==
    {l} \cup {k \in Literal : ~k.negated /\ {k.lhs, k.rhs} \in path}

MayCheck == failed = "no" /\ phase = "idle"

(* Module::check answers at once if nothing is received.                   *)
CheckEmpty ==
    /\ MayCheck /\ received = {}
    /\ mSolverState' = "SAT" /\ phase' = "checked"
    /\ UNCHANGED <<variables, classVars, literalVars, mInfeasibleSubsets, mModel, failed, late>>

Check ==
    /\ MayCheck /\ received # {}
    /\ InRange(versions, IndicesOf(Range(LookedAt)))
    /\ versions' = [versions EXCEPT ![Len(versions)].parents =
                        Compressed(@, IndicesOf(Range(LookedAt)))]
    /\ \/ /\ \A l \in Range(LookedAt) : ~SameClass(l)
          /\ mSolverState' = "SAT"
          /\ UNCHANGED mInfeasibleSubsets
       \/ /\ LookedAt # <<>> /\ SameClass(Last(LookedAt))
          /\ \E path \in Paths(Last(LookedAt).lhs, Last(LookedAt).rhs) :
                mInfeasibleSubsets' = mInfeasibleSubsets
                                        \cup {InfeasibleSubset(Last(LookedAt), path)}
          /\ mSolverState' = "UNSAT"
    /\ phase' = "checked"
    /\ UNCHANGED <<variables, need_to_update, translate, literalVars, mModel, failed, late>>

(* updateModel, which the user calls after a check that answered SAT: all  *)
(* variables of a class get the same fresh value (its representative).     *)
MayUpdateModel == failed = "no" /\ phase = "checked" /\ mSolverState = "SAT"

Indexed == variables \subseteq DOMAIN translate
ParentOf(x) == Top(versions).parents[translate[x]]
ValueOf(x) == Find(Top(versions).parents, translate[x])
Indices == {translate[x] : x \in variables}

UpdateModel ==
    /\ MayUpdateModel /\ Indexed /\ InRange(versions, Indices)
    /\ mModel' = [x \in variables |-> ValueOf(x)]
    /\ versions' = [versions EXCEPT ![Len(versions)].parents = Compressed(@, Indices)]
    /\ phase' = "model"
    /\ UNCHANGED <<variables, need_to_update, translate, literalVars, answerVars, failed, late>>

(* The process ends: with a read beyond the parents in a find, or with     *)
(* translate.at of a variable without an index.                            *)
ReadsBeyond ==
    \/ \E l \in Literal : /\ MayAdd(l) /\ ~l.negated /\ ~need_to_update
                          /\ ~InRange(versions, IndicesOf({l}))
    \/ \E l \in received : ~RemoveInRange(l)
    \/ MayCheck /\ received # {} /\ ~InRange(versions, IndicesOf(Range(LookedAt)))
    \/ MayUpdateModel /\ \E x \in DOMAIN translate : ~InRange(versions, {translate[x]})

Fail ==
    /\ failed = "no"
    /\ \/ ReadsBeyond /\ failed' = "beyond"
       \/ MayUpdateModel /\ ~Indexed /\ failed' = "unindexed"
    /\ UNCHANGED <<variables, classVars, literalVars, answerVars, mModel, phase, late>>

Next ==
    \/ \E l \in Literal : Inform(l) \/ Add(l) \/ RemoveLiteral(l)
    \/ CheckEmpty \/ Check \/ UpdateModel \/ Fail

Spec == Init /\ [][Next]_vars

-----------------------------------------------------------------------------
(* Properties.                                                             *)

(* The variables have the types of UnionFindModule.h and UnionFind.h.      *)
TypeOK ==
    /\ received \subseteq Literal /\ Range(history) = received /\ Len(history) = Cardinality(received)
    /\ variables \subseteq Var /\ need_to_update \in BOOLEAN
    /\ DOMAIN translate \subseteq variables /\ Range(translate) = 0 .. Cardinality(DOMAIN translate) - 1
    /\ \A k \in DOMAIN versions : IsVersion(versions[k])
    /\ edges \subseteq {{x, y} : x, y \in variables}
    /\ mInfeasibleSubsets \subseteq SUBSET Literal
    /\ mSolverState \in {"SAT", "UNSAT", "UNKNOWN"}
    /\ DOMAIN mModel \subseteq variables /\ Range(mModel) \subseteq Index
    /\ phase \in {"idle", "checked", "model"}
    /\ failed \in {"no", "beyond", "unindexed"} /\ late \in BOOLEAN

EdgesOf(ls) == {{l.lhs, l.rhs} : l \in {l \in ls : ~l.negated}}

(* Ranks grow strictly towards the root, so find(), which is recursive,    *)
(* ends.                                                                   *)
RanksGrow(version) ==
    \A i \in DOMAIN version.parents :
        LET p == version.parents[i]
        IN  p # i => version.ranks[i] < version.ranks[p]

VersionsHold ==
    LET es == Selected(history, Equalities)
    IN  /\ Len(versions) = Len(es) + 1
        /\ \A k \in DOMAIN versions :
              /\ RanksGrow(versions[k])
              /\ \A x, y \in DOMAIN translate :
                    translate[x] < translate[y] /\ translate[y] \in DOMAIN versions[k].parents =>
                      (Find(versions[k].parents, translate[x])
                             = Find(versions[k].parents, translate[y])
                         <=> Connected(EdgesOf(Range(SubSeq(es, 1, k - 1))), x, y))

(* Every version that backtrack() may return to holds the classes of the   *)
(* equalities added before it and still received, whatever was removed     *)
(* from the middle and merged again, and however find() compressed paths;  *)
(* no find reads beyond the parents if all variables are known before the  *)
(* first add().                                                            *)
VersionsExact ==
    /\ failed = "beyond" => late
    /\ VersionsHold

Satisfiable(ls) == \A l \in ls : l.negated => ~Connected(EdgesOf(ls), l.lhs, l.rhs)

(* The infeasible subsets of generateInfeasibleSubset are minimal, and     *)
(* consist of literals still received.                                     *)
SubsetsMinimal ==
    \A S \in mInfeasibleSubsets :
        /\ S \subseteq received /\ ~Satisfiable(S)
        /\ \A l \in S : Satisfiable(S \ {l})

(* After a check the answer is right and not UNKNOWN; an UNSAT that        *)
(* outlives the check it came from is still right.                         *)
AnswerExact ==
    /\ phase # "idle" => mSolverState = IF Satisfiable(received) THEN "SAT" ELSE "UNSAT"
    /\ mSolverState = "UNSAT" => ~Satisfiable(received)

(* The model of updateModel covers all variables and satisfies all         *)
(* received literals.                                                      *)
ModelRight ==
    phase = "model" =>
        /\ DOMAIN mModel = variables
        /\ \A l \in received : (mModel[l.lhs] = mModel[l.rhs]) = ~l.negated

(* UnionFindModule.h:66-70: informing of a constraint is preferred to come *)
(* before any add, but only has to come before its own.  Then no find      *)
(* should read beyond the parents of the version it looks at.              *)
NeverBeyond == failed # "beyond"
=============================================================================
