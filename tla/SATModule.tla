----------------------------- MODULE SATModule -----------------------------
(***************************************************************************)
(* The CDCL(T) core of SMT-RAT: SATModule<SATSettings1>, without MCSAT     *)
(* (smtrat-modules/SATModule/SATModule.{h,cpp}).                           *)
(*                                                                         *)
(* Between checks literals and clauses are added and removed; a check      *)
(* propagates, calls the backends with the theory literals of the trail,   *)
(* decides, and analyses conflicts.  A step is the visit of one watched    *)
(* clause, one round of the theory, one decision or one conflict.  The     *)
(* backends are external: a theory, sound, complete up to GivesUp.         *)
(***************************************************************************)
EXTENDS Integers, Sequences, FiniteSets, FiniteSetsExt, SequencesExt

CONSTANTS TheoryVar,    \* variables that abstract a constraint
          Scripts,      \* what a user may add, in this order: sets of literals,
                        \* one alone is an assumption, several are a clause
          Conflicts,    \* minimal inconsistent sets of theory literals
          GivesUp,      \* what the backends answer UNKNOWN on
          MaxChecks, MaxRemovals,  \* bounds on the user
          MaxPropagations, MaxLemmas,  \* bounds on the backends
          MaxAssumptions, \* bound on the unit clauses that Exclude adds to them
          RestartAfter  \* conflicts until a restart

(* A literal is a variable or its negative.                                *)
Var == {IF l > 0 THEN l ELSE -l : l \in UNION UNION {ToSet(s) : s \in Scripts}} \cup TheoryVar
Lit == Var \cup {-v : v \in Var}
VarOf(l) == IF l > 0 THEN l ELSE -l
IsTheory(l) == VarOf(l) \in TheoryVar
Negated(C) == {-l : l \in C}
NoClause == {}

Consistent(L) == \A C \in Conflicts : ~(C \subseteq L)
Valuations(V) == {P \cup {-v : v \in V \ P} : P \in SUBSET V}
TheoryModels == {M \in Valuations(TheoryVar) : Consistent(M)}
NoModel == {}

ASSUME SATAssumption ==
    /\ TheoryVar \subseteq Nat \ {0} /\ IsFiniteSet(TheoryVar)
    /\ \A s \in Scripts : {} \notin ToSet(s) /\ UNION ToSet(s) \subseteq Int \ {0}
                           /\ IsInjective(s)
    /\ \A C \in Conflicts : C # {} /\ C \subseteq {l \in Lit : IsTheory(l)}
    \* every consistent set of theory literals has a model
    /\ \A V \in SUBSET TheoryVar : \A L \in Valuations(V) :
         Consistent(L) => \E M \in TheoryModels : L \subseteq M
    /\ {MaxChecks, MaxRemovals, MaxPropagations, MaxLemmas, MaxAssumptions, RestartAfter} \subseteq Nat

VARIABLES
    script,     \* what this user adds, fixed at start-up
    received,   \* the formulas added and not removed
    sat,        \* members of the module, see Init
    pc,         \* what search() is about to do, "idle" between checks
    todo,       \* propagate(): watchers of the literal it has dequeued
    conflict,   \* the conflicting clause, with the literal it starts with
    conflictC,  \* search(): conflicts since it was entered
    answer,     \* of the last check
    used,       \* bounds: checks, removals, theory propagations and lemmas so far
    history     \* see Init
vars == <<script, received, sat, pc, todo, conflict, conflictC, answer, used, history>>

NoConflict == [clause |-> NoClause, first |-> 0]

Init ==
    /\ script \in Scripts
    /\ received = {}
    /\ sat = [trail |-> <<>>,          \* with VarData: [lit, reason, first, level, pos]
              level |-> 0,             \* decisionLevel()
              qhead |-> 0,
              assumptions |-> <<>>,
              watch |-> [c \in {} |-> {}], \* attached clauses: the two literals watched
              learnts |-> {},
              ok |-> TRUE,
              known |-> {},            \* nVars()
              relevant |-> {},         \* literals with consistencyRelevant
              info |-> [l \in {} |-> 0],   \* updateInfo, of known theory literals
              changed |-> {},          \* mChangedBooleans
              passed |-> {},           \* the passed formula
              changedPassed |-> FALSE, \* mChangedPassedFormula
              consistent |-> "SAT",    \* mCurrentAssignmentConsistent
              excluded |-> FALSE,      \* mExcludedAssignments
              props |-> <<>>,          \* mTheoryPropagations
              model |-> NoModel]       \* of the backends
    /\ pc = "idle" /\ todo = {} /\ conflict = NoConflict /\ conflictC = 0
    /\ answer = "none"
    /\ used = [checks |-> 0, removals |-> 0, props |-> 0, lemmas |-> {}]
    /\ history = {}

(* Only for the properties: what has happened in this run.                 *)
Tag(tag, when) == {t \in {tag} : when}
Note(tags) == history' = history \cup tags

-----------------------------------------------------------------------------
(* The trail.                                                              *)

IsLiteral(f) == \E l \in f : f = {l}
TheLiteral(f) == CHOOSE l \in f : TRUE

Entries(s) == {s.trail[i] : i \in DOMAIN s.trail}
TrueLits(s) == {e.lit : e \in Entries(s)}
IsTrue(s, l) == l \in TrueLits(s)
IsFalse(s, l) == -l \in TrueLits(s)
Unassigned(s, l) == ~IsTrue(s, l) /\ ~IsFalse(s, l)
Index(s, l) == CHOOSE i \in DOMAIN s.trail : VarOf(s.trail[i].lit) = VarOf(l)
Level(s, l) == s.trail[Index(s, l)].level
FixedFalse(s, l) == \E e \in Entries(s) : e.lit = -l /\ e.level = 0
FixedTrue(s, l) == \E e \in Entries(s) : e.lit = l /\ e.level = 0

(* lemma_lt: unassigned before true before false literals, unassigned ones *)
(* by their number, others the later the earlier.                          *)
Rank(s, l) == IF Unassigned(s, l) THEN 0 ELSE IF IsTrue(s, l) THEN 1 ELSE 2
lemma_lt(s, x, y) ==
    \/ Rank(s, x) < Rank(s, y)
    \/ /\ Rank(s, x) = Rank(s, y)
       /\ IF Rank(s, x) = 0 THEN VarOf(x) < VarOf(y) \/ (x = -y /\ x > y)
                            ELSE Index(s, x) > Index(s, y)
First(s, C) == CHOOSE x \in C : \A y \in C \ {x} : lemma_lt(s, x, y)
Second(s, C) == First(s, C \ {First(s, C)})

SatisfiedUnlessRefuted(s, l) == -l \notin s.model

(* currentlySatisfiedByBackend = 1                                         *)
SatisfiedByBackend(s, l) == l \in s.model

(* uncheckedEnqueue: a relevant literal that is new to the passed formula  *)
(* is noted, and unless the backends' model satisfies it, the consistency  *)
(* of the assignment is not known any more.                                *)
Enqueue(s, l, reason, first, pos) ==
    LET noted == l \in s.relevant
        news == noted /\ s.info[l] + 1 > 0
    IN  [s EXCEPT
          !.trail = Append(@, [lit |-> l, reason |-> reason, first |-> first,
                               level |-> s.level, pos |-> pos]),
          !.info = IF noted THEN [@ EXCEPT ![l] = s.info[l] + 1] ELSE @,
          !.changed = IF news THEN @ \cup {VarOf(l)} ELSE @,
          !.consistent = IF news /\ ~SatisfiedByBackend(s, l) THEN "UNKNOWN" ELSE @]

RemovePropagationSilently(s, p) ==
    LET last == Len(s.props)
    IN  [s EXCEPT !.props = SubSeq(IF p = last THEN @ ELSE [@ EXCEPT ![p] = s.props[last]], 1, last - 1)]

(* removeTheoryPropagation: the last one takes the place of the one        *)
(* removed, and its variable is told so.                                   *)
RemovePropagation(s, p) ==
    LET last == Len(s.props)
        moved == s.props[last]
    IN  [s EXCEPT
          !.props = SubSeq(IF p = last THEN @ ELSE [@ EXCEPT ![p] = moved], 1, last - 1),
          !.trail = [i \in DOMAIN @ |-> IF p # last /\ @[i].lit = moved.conclusion
                                          THEN [@[i] EXCEPT !.pos = p] ELSE @[i]]]

(* resetVariableAssignment                                                 *)
ResetVariable(s, l) ==
    LET leaves == l \in s.passed /\ s.info[l] = 0
    IN  [s EXCEPT
          !.info = IF leaves THEN [@ EXCEPT ![l] = -1]
                   ELSE IF l \in s.passed /\ s.info[l] > 0 THEN [@ EXCEPT ![l] = s.info[l] - 1]
                   ELSE IF l \notin s.passed /\ l \in s.relevant THEN [@ EXCEPT ![l] = 0]
                   ELSE @,
          !.changed = IF leaves THEN @ \cup {VarOf(l)} ELSE @]

(* cancelAssignmentUntil, for the last literal of the trail.  What is at   *)
(* the first position of mTheoryPropagations is not removed.               *)
Undo(s) ==
    LET e == Last(s.trail)
        reset == ResetVariable(s, e.lit)
        removed == IF e.pos > 1 THEN RemovePropagation(reset, e.pos) ELSE reset
    IN  [removed EXCEPT !.trail = Front(@)]

(* trail_lim: how many entries the trail has up to a level, and what       *)
(* remains of the members when more and more of its entries are undone.    *)
Limit(s, level) ==
    CHOOSE n \in 0 .. Len(s.trail) : \A i \in DOMAIN s.trail : s.trail[i].level <= level <=> i <= n
Undone(s) ==
    LET f[k \in 0 .. Len(s.trail)] == IF k = 0 THEN s ELSE Undo(f[k - 1])
    IN  f

(* cancelUntil                                                             *)
CancelUntil(s, level, force) ==
    LET to == IF level < Len(s.assumptions) /\ ~force THEN Len(s.assumptions) ELSE level
        undone == Undone(s)[Len(s.trail) - Limit(s, to)]
    IN  IF s.level <= to THEN s
        ELSE [undone EXCEPT !.level = to, !.qhead = Len(undone.trail), !.ok = TRUE]

AdaptKeeping(s) ==
    [s EXCEPT !.passed = @ \cup {l \in DOMAIN s.info : VarOf(l) \in s.changed /\ s.info[l] > 0},
              !.info = [l \in DOMAIN @ |-> IF VarOf(l) \in s.changed THEN 0 ELSE @[l]],
              !.changed = {}, !.changedPassed = TRUE, !.consistent = "SAT"]

(* adaptPassedFormula                                                      *)
Adapt(s) ==
    LET leaving == {l \in s.passed : VarOf(l) \in s.changed /\ s.info[l] < 0}
        coming == {l \in DOMAIN s.info : VarOf(l) \in s.changed /\ s.info[l] > 0}
        news == s.changedPassed \/ leaving # {} \/ coming # {}
    IN  [s EXCEPT !.passed = (@ \ leaving) \cup coming,
                  !.info = [l \in DOMAIN @ |-> IF VarOf(l) \in s.changed THEN 0 ELSE @[l]],
                  !.changed = {},
                  !.changedPassed = news,
                  !.consistent = IF news THEN "SAT" ELSE @]

(* createLiteral, for each literal of C.  Those of a lemma have no origin: *)
(* both literals of a new constraint become relevant, of a known one those *)
(* that are not negated.                                                   *)
CreateLiterals(s, C, isLemma) ==
    LET fresh == {VarOf(l) : l \in C} \ s.known
        both == {v \in fresh \cap TheoryVar : isLemma}
        relevant == {l \in C : IsTheory(l) /\ (~isLemma \/ l > 0)} \cup both \cup {-v : v \in both}
        late == {l \in relevant \ s.relevant : IsTrue(s, l)}
        new == {v \in fresh : v \in TheoryVar}
    IN  [s EXCEPT
          !.known = @ \cup fresh,
          !.relevant = @ \cup relevant,
          !.info = [l \in DOMAIN @ \cup new \cup {-v : v \in new} |->
                      IF l \notin DOMAIN @ THEN 0 ELSE IF l \in late THEN @[l] + 1 ELSE @[l]],
          !.changed = @ \cup {VarOf(l) : l \in {k \in late : s.info[k] + 1 > 0}}]

(* attachClause: the first two literals are watched.                       *)
Attach(s, C, pair) ==
    [s EXCEPT !.watch = [c \in DOMAIN @ \cup {C} |-> IF c = C THEN pair ELSE @[c]]]

-----------------------------------------------------------------------------
(* Lemmas.                                                                 *)

(* addClause during a check: a clause true on level 0 is dropped, as are   *)
(* the literals false there.                                               *)
AddClause(s, C) ==
    IF \E l \in C : FixedTrue(s, l) \/ -l \in C THEN <<>>
    ELSE <<{l \in C : ~FixedFalse(s, l)}>>

(* The level to which storeLemmas goes back for a lemma.                   *)
LevelFor(s, C) ==
    IF C = {} THEN 0
    ELSE IF IsLiteral(C)
           THEN IF \A l \in C : FixedTrue(s, l) THEN s.level ELSE 0
           ELSE IF IsFalse(s, First(s, C)) \/ (Unassigned(s, First(s, C)) /\ IsFalse(s, Second(s, C)))
                  THEN Level(s, Second(s, C)) ELSE s.level

NoteConflict(C, l) == [clause |-> C, first |-> l]

StoreLemmaUnseen(r, C) ==
    IF ~r.s.ok \/ C = {} \/ IsLiteral(C) THEN r
    ELSE [r EXCEPT !.s = Attach([r.s EXCEPT !.learnts = @ \cup {C}], C,
                                {First(r.s, C), Second(r.s, C)})]

(* storeLemmas, for one lemma after the backtracking.                      *)
StoreLemma(r, C) ==
    LET s == r.s
        x == First(s, C)
        y == Second(s, C)
        attached == Attach([s EXCEPT !.learnts = @ \cup {C}], C, {x, y})
    IN  IF ~s.ok THEN r
        ELSE IF C = {} THEN [r EXCEPT !.s.ok = FALSE, !.conflict = NoConflict]
        ELSE IF IsLiteral(C)
          THEN IF IsFalse(s, x) THEN [r EXCEPT !.s.ok = FALSE, !.conflict = NoConflict]
               ELSE IF IsTrue(s, x) THEN r
               ELSE [r EXCEPT !.s.assumptions = Append(@, x)]
        ELSE IF Unassigned(s, x) /\ IsFalse(s, y)
          THEN [r EXCEPT !.s = Enqueue(attached, x, C, x, 0)]
        ELSE IF IsFalse(s, x) THEN [s |-> attached, conflict |-> NoteConflict(C, x)]
        ELSE [r EXCEPT !.s = attached]

(* storeLemmas: the result, and the conflict.  The last lemma is stored    *)
(* first.                                                                  *)
StoredFrom(s, lemmas) ==
    LET n == Len(lemmas)
        f[k \in 0 .. n] == IF k = 0 THEN [s |-> s, conflict |-> NoConflict]
                           ELSE StoreLemma(f[k - 1], lemmas[n + 1 - k])
    IN  f
StoreLemmas(s, lemmas) ==
    LET levels == {LevelFor(s, lemmas[i]) : i \in DOMAIN lemmas}
        back == CancelUntil(s, Min(levels \cup {s.level}), TRUE)
    IN  StoredFrom(back, lemmas)[Len(lemmas)]

-----------------------------------------------------------------------------
(* Between checks.                                                         *)

Back(s) == Adapt(CancelUntil(s, 0, TRUE))

(* A clause that literals fixed by earlier checks make a unit or false:    *)
(* its watches are not visited for them again.                             *)
Missed(s, C) == Cardinality({l \in C : ~FixedFalse(s, l)}) <= 1 /\ ~\E l \in C : FixedTrue(s, l)

(* The next formula, or one that was removed.                              *)
MayBeAdded(f) ==
    f \notin received /\ \E i \in DOMAIN script : script[i] = f
        /\ \A k \in 1 .. i - 1 : script[k] \in received \/ used.removals > 0

(* addCore: a literal becomes an assumption, another formula a clause.     *)
AddCore(f) ==
    /\ pc = "idle" /\ MayBeAdded(f)
    /\ received' = received \cup {f}
    /\ LET s == CreateLiterals(Back(sat), f, FALSE)
       IN  sat' = IF IsLiteral(f)
                  THEN [s EXCEPT !.assumptions = Append(@, TheLiteral(f))]
                  ELSE Attach(s, f, {First(s, f), Second(s, f)})
    /\ Note(Tag("missed", ~IsLiteral(f) /\ Missed(Back(sat), f))
            \cup Tag("late", \E l \in f \ sat.relevant : IsTheory(l) /\ IsTrue(Back(sat), l)))
    /\ answer' = "none"
    /\ UNCHANGED <<script, pc, todo, conflict, conflictC, used>>

WithoutFirst(seq, x) ==
    LET i == CHOOSE k \in DOMAIN seq : seq[k] = x /\ \A m \in 1 .. k - 1 : seq[m] # x
    IN  RemoveAt(seq, i)

(* removeCore: all learnt clauses go, and the formula; what is true on     *)
(* level 0 stays.                                                          *)
Kept(s, f) ==
    LET kept == IF IsLiteral(f) THEN received ELSE received \ {f}
    IN  [s EXCEPT !.learnts = {},
                  !.watch = [c \in DOMAIN @ \cap kept |-> @[c]],
                  !.trail = [i \in DOMAIN @ |-> IF @[i].reason \in kept THEN @[i]
                                                ELSE [@[i] EXCEPT !.reason = NoClause]],
                  !.assumptions = IF IsLiteral(f) THEN WithoutFirst(@, TheLiteral(f)) ELSE @,
                  !.ok = TRUE]

RemoveCore(f) ==
    /\ pc = "idle" /\ f \in received /\ used.removals < MaxRemovals
    /\ received' = received \ {f}
    /\ sat' = Kept(Back(sat), f)
    /\ used' = [used EXCEPT !.removals = @ + 1]
    /\ Note(Tag("fixed", \E e \in Entries(sat) : e.level = 0))
    /\ answer' = "none"
    /\ UNCHANGED <<script, pc, todo, conflict, conflictC>>

-----------------------------------------------------------------------------
(* The check.                                                              *)

(* checkCore, after the search: its result.                                *)
Finish(s, result) ==
    /\ sat' = [s EXCEPT !.excluded = FALSE, !.ok = IF result = "UNSAT" THEN FALSE ELSE @]
    /\ answer' = result /\ pc' = "idle" /\ todo' = {} /\ conflict' = NoConflict /\ conflictC' = 0
    /\ UNCHANGED <<script, received>>

(* Literals are yet to be passed, and consistent holds them off.           *)
Unsettled(s) == s.consistent # "SAT" /\ s.changed # {}

RefutedAnyway(s) == "UNSAT"

(* What search() says of a conflict that no decision has a part in.        *)
Refuted(s) == IF s.excluded THEN "UNKNOWN" ELSE "UNSAT"

CheckCore ==
    /\ pc = "idle" /\ received # {} /\ used.checks < MaxChecks
    /\ used' = [used EXCEPT !.checks = @ + 1]
    /\ IF sat.ok
         THEN /\ sat' = [sat EXCEPT !.consistent = "SAT"]
              /\ answer' = "none" /\ pc' = "propagate"
         ELSE /\ answer' = "UNSAT" /\ UNCHANGED <<sat, pc>>
    /\ Note(Tag("forgotten", Unsettled(sat)) \cup Tag("again", "excluded" \in history))
    /\ UNCHANGED <<script, received, todo, conflict, conflictC>>

(* propagate(): a literal is dequeued, then its watchers are visited.      *)
Dequeue ==
    /\ pc = "propagate" /\ sat.ok /\ todo = {} /\ sat.qhead < Len(sat.trail)
    /\ LET p == sat.trail[sat.qhead + 1].lit
       IN  todo' = {c \in DOMAIN sat.watch : -p \in sat.watch[c]}
    /\ sat' = [sat EXCEPT !.qhead = @ + 1]
    /\ UNCHANGED <<script, received, pc, conflict, conflictC, answer, used, history>>

Other(s, c) ==
    CHOOSE l \in s.watch[c] : l # -s.trail[s.qhead].lit

(* The clause has a true literal: nothing, or another watch is not needed. *)
Satisfied(s, c) == \E l \in c : IsTrue(s, l)

Skip(c) ==
    /\ pc = "propagate" /\ c \in todo /\ Satisfied(sat, c)
    /\ todo' = todo \ {c}
    /\ UNCHANGED <<script, received, sat, pc, conflict, conflictC, answer, used, history>>

Candidates(s, c) == {l \in c \ s.watch[c] : ~IsFalse(s, l)}

Rewatch(c) ==
    /\ pc = "propagate" /\ c \in todo /\ ~IsTrue(sat, Other(sat, c))
    /\ \E l \in Candidates(sat, c) : sat' = [sat EXCEPT !.watch[c] = {Other(sat, c), l}]
    /\ todo' = todo \ {c}
    /\ UNCHANGED <<script, received, pc, conflict, conflictC, answer, used, history>>

Propagate(c) ==
    /\ pc = "propagate" /\ c \in todo /\ Candidates(sat, c) = {}
    /\ Unassigned(sat, Other(sat, c))
    /\ sat' = Enqueue(sat, Other(sat, c), c, Other(sat, c), 0)
    /\ todo' = todo \ {c}
    /\ UNCHANGED <<script, received, pc, conflict, conflictC, answer, used, history>>

FoundConflict(c) ==
    /\ pc = "propagate" /\ c \in todo /\ Candidates(sat, c) = {}
    /\ IsFalse(sat, Other(sat, c))
    /\ conflict' = NoteConflict(c, Other(sat, c))
    /\ sat' = [sat EXCEPT !.qhead = Len(sat.trail)]
    /\ todo' = {} /\ pc' = "conflict"
    /\ UNCHANGED <<script, received, conflictC, answer, used, history>>

(* The theory: an answer, a model, infeasible subsets, lemmas and theory   *)
(* propagations, for what is passed (external).                            *)
Answers(P) ==
    IF P = {} THEN {[answer |-> "SAT", model |-> sat.model, subsets |-> {}]}
    ELSE IF ~Consistent(P)
      THEN {[answer |-> "UNSAT", model |-> NoModel, subsets |-> S] :
              S \in SUBSET {C \in Conflicts : C \subseteq P} \ {{}}}
    ELSE IF P \in GivesUp THEN {[answer |-> "UNKNOWN", model |-> NoModel, subsets |-> {}]}
    ELSE {[answer |-> "SAT", model |-> M, subsets |-> {}] :
            M \in IF P \subseteq sat.model THEN {sat.model}
                  ELSE {M \in TheoryModels : P \subseteq M}}

Lemmas(n) == {Ls \in SUBSET ({Negated(C) : C \in Conflicts} \ used.lemmas) : Cardinality(Ls) <= n}

Propagable(P) ==
    UNION {{[premise |-> C \ {l}, conclusion |-> -l] : l \in {k \in C : C \ {k} \subseteq P}} :
             C \in Conflicts}
Propagations(P, n) ==
    UNION {SetToSeqs(S) : S \in {T \in SUBSET Propagable(P) : Cardinality(T) <= n}}

AllAssigned(s) == \A v \in s.known : ~Unassigned(s, v)

(* learnTheoryConflicts: a clause for each infeasible subset.              *)
LearnConflict(r, subset) == [r EXCEPT !.lemmas = @ \o AddClause(r.s, Negated(subset))]

(* propagateTheory: an unassigned conclusion is enqueued, a false one      *)
(* gives a clause.                                                         *)
PropagateTheory(r, tp) ==
    LET s == CreateLiterals(r.s, {tp.conclusion}, TRUE)
        pos == Len(s.props) + 1
    IN  IF Unassigned(s, tp.conclusion)
          THEN [r EXCEPT !.s = Enqueue([s EXCEPT !.props = Append(@, tp)], tp.conclusion,
                                       Negated(tp.premise) \cup {tp.conclusion}, tp.conclusion, pos)]
        ELSE IF IsFalse(s, tp.conclusion)
          THEN [s |-> s, lemmas |-> r.lemmas \o AddClause(s, Negated(tp.premise) \cup {tp.conclusion})]
        ELSE [r EXCEPT !.s = s]

(* processLemmas: they are dropped when the search is about to end.        *)
ProcessLemma(r, C) ==
    LET s == CreateLiterals(r.s, C, TRUE)
    IN  IF r.s.consistent = "SAT" /\ AllAssigned(r.s) THEN r
        ELSE [s |-> s, lemmas |-> r.lemmas \o AddClause(s, C)]

(* What the backends have handed over is taken in this order.              *)
Kind(kind, given) == [i \in DOMAIN given |-> [kind |-> kind, given |-> given[i]]]
Handed(a, tps, Ls) ==
    Kind("conflict", SetToSeq(a.subsets)) \o Kind("propagation", tps) \o Kind("lemma", SetToSeq(Ls))
Take(r, x) ==
    CASE x.kind = "conflict" -> LearnConflict(r, x.given)
      [] x.kind = "propagation" -> PropagateTheory(r, x.given)
      [] x.kind = "lemma" -> ProcessLemma(r, x.given)
Taken(s, handed) ==
    LET f[k \in 0 .. Len(handed)] == IF k = 0 THEN [s |-> s, lemmas |-> <<>>]
                                     ELSE Take(f[k - 1], handed[k])
    IN  f

(* propagateConsistently, what comes after propagate(): theoryCall,        *)
(* propagateTheory, processLemmas, storeLemmas; and how it goes on.        *)
Continue(s) ==
    /\ sat' = s
    /\ pc' = IF \/ s.qhead < Len(s.trail)
                \/ s.level >= Len(s.assumptions) /\ s.consistent # "SAT" /\ s.changed # {}
             THEN "propagate" ELSE "decide"
    /\ UNCHANGED <<script, received, todo, conflict, conflictC, answer>>

(* After storeLemmas: a conflict, the end, or the search goes on.          *)
Stored(r) ==
    \/ /\ r.conflict # NoConflict
       /\ sat' = r.s /\ conflict' = r.conflict /\ pc' = "conflict"
       /\ UNCHANGED <<script, received, todo, conflictC, answer>>
    \/ r.conflict = NoConflict /\ ~r.s.ok /\ Finish(r.s, Refuted(r.s))
    \/ r.conflict = NoConflict /\ r.s.ok /\ Continue(r.s)

TheoryRound(s, a, tps, Ls) ==
    LET asked == [s EXCEPT !.changedPassed = FALSE, !.consistent = a.answer, !.model = a.model]
        handed == Handed(a, tps, Ls)
        all == Taken(asked, handed)[Len(handed)]
    IN  IF all.lemmas = <<>> THEN [s |-> all.s, conflict |-> NoConflict]
        ELSE StoreLemmas(all.s, all.lemmas)

Propagated == pc = "propagate" /\ todo = {} /\ sat.qhead = Len(sat.trail)

TheoryCalled == sat.level >= Len(sat.assumptions)

(* A theory propagation from passed literals that are not true any more.   *)
FromUndone(tps) == \E i \in DOMAIN tps : ~(tps[i].premise \subseteq TrueLits(sat))
BeforeCall == IF sat.consistent # "SAT" THEN Adapt(sat) ELSE sat

NoTheory ==
    /\ Propagated
    /\ LET s == IF TheoryCalled THEN BeforeCall ELSE sat
       IN  /\ ~(TheoryCalled /\ (s.changedPassed \/ AllAssigned(s)))
           /\ Continue(s)
    /\ UNCHANGED <<used, history>>

Theory ==
    /\ Propagated /\ TheoryCalled
    /\ BeforeCall.changedPassed \/ AllAssigned(BeforeCall)
    /\ \E a \in Answers(BeforeCall.passed) :
       \E tps \in Propagations(BeforeCall.passed, MaxPropagations - used.props) :
       \E Ls \in Lemmas(MaxLemmas - Cardinality(used.lemmas)) :
         /\ Stored(TheoryRound(BeforeCall, a, tps, Ls))
         /\ used' = [used EXCEPT !.props = @ + Len(tps), !.lemmas = @ \cup Ls]
         /\ Note(Tag("stale", FromUndone(tps)))

-----------------------------------------------------------------------------
(* Decisions.                                                              *)

Decided(s, l) == Enqueue([s EXCEPT !.level = @ + 1], l, NoClause, 0, 0)

Pending(s) == s.level < Len(s.assumptions)
NextAssumption(s) == s.assumptions[s.level + 1]

Assume ==
    /\ pc = "decide" /\ Pending(sat) /\ ~IsFalse(sat, NextAssumption(sat))
    /\ IF IsTrue(sat, NextAssumption(sat))
         THEN sat' = [sat EXCEPT !.level = @ + 1] /\ UNCHANGED pc
         ELSE sat' = Decided(sat, NextAssumption(sat)) /\ pc' = "propagate"
    /\ UNCHANGED <<script, received, todo, conflict, conflictC, answer, used, history>>

AssumptionFails ==
    /\ pc = "decide" /\ Pending(sat) /\ IsFalse(sat, NextAssumption(sat))
    /\ Finish(sat, Refuted(sat))
    /\ UNCHANGED <<used, history>>

(* pickBranchLit: a variable that is not assigned, the choice is a         *)
(* heuristic.                                                              *)
Decide ==
    /\ pc = "decide" /\ ~Pending(sat)
    /\ \E v \in sat.known : \E l \in {v, -v} :
         Unassigned(sat, v) /\ sat' = Decided(sat, l)
    /\ pc' = "propagate"
    /\ UNCHANGED <<script, received, todo, conflict, conflictC, answer, used, history>>

AnswerSat ==
    /\ pc = "decide" /\ ~Pending(sat) /\ AllAssigned(sat) /\ sat.consistent = "SAT"
    /\ Finish(sat, "SAT")
    /\ UNCHANGED <<used, history>>

(* The backends gave up: what is passed is excluded, and the search goes   *)
(* on, but without a model it will answer UNKNOWN.                         *)
Excludable == pc = "decide" /\ ~Pending(sat) /\ AllAssigned(sat) /\ sat.consistent # "SAT"
Capped == Excludable /\ Len(sat.assumptions) >= MaxAssumptions

Exclude ==
    /\ Excludable /\ ~Capped
    /\ LET r == StoreLemmas([sat EXCEPT !.excluded = TRUE], AddClause(sat, Negated(sat.passed)))
       IN  \/ /\ r.s.ok /\ r.conflict = NoConflict
              /\ sat' = r.s /\ pc' = "propagate"
              /\ UNCHANGED <<script, received, todo, conflict, conflictC, answer>>
           \/ (~r.s.ok \/ r.conflict # NoConflict) /\ Stored(r)
    /\ Note({"excluded"})
    /\ UNCHANGED used

RestartCounting ==
    /\ pc = "decide" /\ conflictC >= RestartAfter
    /\ sat' = [CancelUntil(sat, 0, FALSE) EXCEPT !.consistent = "SAT"]
    /\ pc' = "propagate"
    /\ UNCHANGED <<script, received, todo, conflict, conflictC, answer, used, history>>

Restart ==
    /\ pc = "decide" /\ conflictC >= RestartAfter
    /\ sat' = [CancelUntil(sat, 0, FALSE) EXCEPT !.consistent = "SAT"]
    /\ conflictC' = 0 /\ pc' = "propagate"
    /\ Note(Tag("forgotten", Unsettled(CancelUntil(sat, 0, FALSE))))
    /\ UNCHANGED <<script, received, todo, conflict, answer, used>>

-----------------------------------------------------------------------------
(* Conflicts.                                                              *)

ConflictAtRoot ==
    /\ pc = "conflict" /\ sat.level <= Len(sat.assumptions)
    /\ Finish(sat, Refuted(sat))
    /\ UNCHANGED <<used, history>>

AboveZero(s, C) == {l \in C : Level(s, l) > 0}

(* analyze, what it does with a clause: variables of the current level are *)
(* yet to be resolved, literals of lower ones will be part of the clause   *)
(* learnt.                                                                 *)
Look(s, r, C) ==
    LET new == {l \in AboveZero(s, C) : VarOf(l) \notin r.open /\ ~\E k \in r.lower : VarOf(k) = VarOf(l)}
        current == {l \in new : Level(s, l) = s.level}
    IN  [r EXCEPT !.open = @ \cup {VarOf(l) : l \in current}, !.lower = @ \cup (new \ current)]

(* analyze, down the trail: while more than one variable is open, the one  *)
(* assigned last is replaced by its reason.                                *)
Analyzed(s, C) ==
    LET n == Len(s.trail)
        f[k \in 0 .. n] ==
          IF k = 0 THEN Look(s, [open |-> {}, lower |-> {}, steps |-> 0, seen |-> {}], C)
          ELSE LET e == s.trail[n + 1 - k]
                   r == f[k - 1]
               IN  IF VarOf(e.lit) \notin r.open \/ r.open = {VarOf(e.lit)} THEN r
                   ELSE Look(s, [r EXCEPT !.open = @ \ {VarOf(e.lit)}, !.steps = @ + 1,
                                          !.seen = @ \cup {e.lit}], e.reason \ {e.lit})
    IN  f

(* The clause that results, and its literal of the current level.          *)
Resolve(s, C) ==
    LET r == Analyzed(s, C)[Len(s.trail)]
        uip == CHOOSE l \in Negated(TrueLits(s)) : VarOf(l) \in r.open
    IN  [clause |-> r.lower \cup {uip}, uip |-> uip, steps |-> r.steps, seen |-> r.seen]

PremisesNotFixed(e) == {VarOf(l) : l \in e.reason \ {e.first}} \cap {0}

(* litRedundant: a literal is left out when its reason follows from the    *)
(* others, the first literal of the reason not being looked at.            *)
Premises(e) == {VarOf(l) : l \in e.reason \ {e.first}} \ {VarOf(e.lit)}

Minimized(s, C, uip) ==
    LET lower == {VarOf(l) : l \in C \ {uip}}
        levels == {Level(s, l) : l \in C \ {uip}}
        implied[k \in 0 .. Len(s.trail)] ==
          IF k = 0 THEN {}
          ELSE LET e == s.trail[k]
                   before == implied[k - 1]
               IN  IF \/ e.level = 0 \/ VarOf(e.lit) \in lower
                      \/ e.reason # NoClause /\ e.level \in levels /\ Premises(e) \subseteq before
                   THEN before \cup {VarOf(e.lit)} ELSE before
        redundant == {VarOf(e.lit) : e \in {d \in Entries(s) :
                        d.reason # NoClause /\ Premises(d) \subseteq implied[Len(s.trail)]}}
    IN  {uip} \cup {l \in C \ {uip} : VarOf(l) \notin redundant}

(* reason(): the reason of a theory propagation becomes a learnt clause    *)
(* when it is first looked at.                                             *)
Explain(s, l) ==
    LET e == s.trail[Index(s, l)]
        clause == {e.lit} \cup AboveZero(s, e.reason \ {e.lit})
        attached == IF IsLiteral(clause) THEN s
                    ELSE Attach([s EXCEPT !.learnts = @ \cup {clause}], clause,
                                {e.lit, Second(s, clause)})
    IN  IF e.pos = 0 THEN s
        ELSE LET i == Index(s, l)
                 removed == RemovePropagation(attached, e.pos)
             IN  [removed EXCEPT !.trail[i].pos = 0, !.trail[i].reason = clause]

Lazy(s) == {e.lit : e \in {d \in Entries(s) : d.pos # 0}}
Explained(s, L) ==
    LET n == Len(s.trail)
        f[k \in 0 .. n] == IF k = 0 THEN s
                           ELSE LET l == s.trail[n + 1 - k].lit
                                IN  IF l \in L THEN Explain(f[k - 1], l) ELSE f[k - 1]
    IN  f
ExplainAll(s, L) == Explained(s, L)[Len(s.trail)]

(* The lazy reasons asked for: of all that is resolved or stays, and of    *)
(* what minimisation comes by on the levels of the clause.                 *)
AskedFor(s, resolved) ==
    {l \in Lazy(s) : l \in resolved.seen \/ VarOf(l) \in {VarOf(k) : k \in resolved.clause}}
MaybeAskedFor(s, resolved) ==
    {l \in Lazy(s) : \E k \in resolved.clause : Level(s, k) = Level(s, l)}

(* The clause learnt is asserting after the backtracking: its one literal  *)
(* of the current level is enqueued.  A conflicting clause that was        *)
(* asserting already becomes the reason as it is.                          *)
HandleConflict ==
    /\ pc = "conflict" /\ sat.level > Len(sat.assumptions)
    /\ LET resolved == Resolve(sat, conflict.clause)
           uip == resolved.uip
           learnt == Minimized(sat, resolved.clause, uip)
           rest == learnt \ {uip}
           to == IF rest = {} THEN 0 ELSE Max({Level(sat, l) : l \in rest})
           last == CHOOSE l \in rest : Level(sat, l) = to
       IN  /\ \E X \in SUBSET (MaybeAskedFor(sat, resolved) \ AskedFor(sat, resolved)) :
                LET explained == ExplainAll(sat, X \cup AskedFor(sat, resolved))
                    back == CancelUntil(explained, to, FALSE)
                IN  sat' = IF rest = {} THEN Enqueue(back, uip, NoClause, 0, 0)
                           ELSE IF resolved.steps = 0
                             THEN Enqueue(back, uip, conflict.clause, conflict.first, 0)
                           ELSE Enqueue(Attach([back EXCEPT !.learnts = @ \cup {learnt}],
                                               learnt, {uip, last}), uip, learnt, uip, 0)
           /\ Note(Tag("reason", resolved.steps = 0 /\ rest # {} /\ conflict.first # uip)
                   \cup Tag("dropped", resolved.steps = 0 /\ rest # {}
                          /\ \E l \in conflict.clause \ {uip} : Level(sat, l) > Max({to, Len(sat.assumptions)})))
    /\ conflict' = NoConflict /\ conflictC' = conflictC + 1 /\ pc' = "propagate"
    /\ UNCHANGED <<script, received, todo, answer, used>>

Visit(c) == Skip(c) \/ Rewatch(c) \/ Propagate(c) \/ FoundConflict(c)

Search ==
    \/ Dequeue \/ (\E c \in todo : Visit(c))
    \/ NoTheory \/ Theory
    \/ Assume \/ AssumptionFails \/ Decide \/ AnswerSat \/ Exclude \/ Restart
    \/ ConflictAtRoot \/ HandleConflict

User == (\E f \in ToSet(script) : AddCore(f) \/ RemoveCore(f)) \/ CheckCore

(* Between checks the user may stop; a search may be capped.               *)
Rest == (pc = "idle" \/ Capped) /\ UNCHANGED vars

Next == User \/ Search \/ Rest

Spec == Init /\ [][Next]_vars
(* Weak fairness of Search, which is enabled unless the search is idle or *)
(* capped.                                                                 *)
FairSpec == Spec /\ ([]<>(pc = "idle" \/ Capped) \/ []<><<Search>>_vars)

-----------------------------------------------------------------------------
(* Properties.  Where the code goes wrong after something that can happen  *)
(* in a run, the property is stated for runs in which it has not happened  *)
(* yet:                                                                    *)
(*   "fixed"      removeCore with literals on level 0: they stay           *)
(*   "missed"     addCore of a clause that those make unit or false        *)
(*   "late"       addCore of a literal that was true and irrelevant        *)
(*   "excluded"   assignments were excluded, "again" since a former check  *)
(*   "forgotten"  a restart or check with literals still to be passed      *)
(*   "stale"      propagated, while consistent held adaptPassedFormula off, *)
(*                from passed literals that have been undone               *)
(*   "reason"     an asserting conflict that does not start with its       *)
(*                asserting literal has become a reason                    *)
(*   "dropped"    one that has become a reason has literals which are not   *)
(*                assigned any more, minimisation having left them out      *)

Satisfies(M, F) == \A f \in F : f \cap M # {}
Models(F) == {M \in Valuations(Var) : Satisfies(M, F)
                /\ Consistent({l \in M : IsTheory(l)})}
Implied(C) == \A M \in Models(received) : C \cap M # {}
NotYet(tags) == history \cap tags = {}

(* The members have their types: a variable is on the trail once, a clause *)
(* watches two of its literals, and what is to propagate is on the trail.  *)
TypeOK ==
    /\ received \subseteq ToSet(script)
    /\ pc \in {"idle", "propagate", "decide", "conflict"}
    /\ answer \in {"none", "SAT", "UNSAT", "UNKNOWN"}
    /\ TrueLits(sat) \subseteq Lit /\ sat.level \in Nat /\ sat.qhead \in 0 .. Len(sat.trail)
    /\ \A i, j \in DOMAIN sat.trail : i # j => VarOf(sat.trail[i].lit) # VarOf(sat.trail[j].lit)
    /\ ToSet(sat.assumptions) \subseteq Lit
    /\ \A c \in DOMAIN sat.watch : \E a, b \in c : a # b /\ sat.watch[c] = {a, b}
    /\ sat.learnts \subseteq DOMAIN sat.watch
    /\ todo \subseteq DOMAIN sat.watch

(* checkCore() answers UNSAT only when nothing satisfies what has been     *)
(* received, with clauses added, removed and checks made in between.       *)
UnsatRight ==
    pc = "idle" /\ answer = "UNSAT" /\ NotYet({"fixed", "reason", "again", "stale", "dropped"})
      => Models(received) = {}

(* When checkCore() answers SAT, the Booleans of the trail and the model   *)
(* of the backends satisfy every formula received: every theory literal    *)
(* that matters has been passed on, or was satisfied by that model.        *)
SatRight ==
    pc = "idle" /\ answer = "SAT" /\ NotYet({"fixed", "missed", "forgotten", "late", "again"})
      => Satisfies({l \in TrueLits(sat) : ~IsTheory(l)} \cup sat.model, received)

(* analyze() and its minimisation learn consequences of what is received:  *)
(* learnt clauses, and literals fixed on level 0.                          *)
LearntImplied ==
    NotYet({"fixed", "reason", "excluded", "stale", "dropped"}) =>
        /\ \A C \in sat.learnts : Implied(C)
        /\ \A e \in Entries(sat) : e.level = 0 => Implied({e.lit})

(* propagate() has not overlooked a clause when search() decides: none is  *)
(* false, however it came to be attached and whatever was watched.         *)
NoFalsified ==
    pc = "decide" /\ NotYet({"fixed", "missed", "again"}) =>
        \A c \in DOMAIN sat.watch : ~(c \subseteq Negated(TrueLits(sat)))

(* passedFormulaCorrect(): once adaptPassedFormula() has run, what is      *)
(* passed are the relevant literals that are true; updateInfo counts right *)
(* through any backtracking.                                               *)
PassedFormulaCorrect ==
    NotYet({"dropped"}) => Adapt(sat).passed = sat.relevant \cap TrueLits(sat)

(* expPositionsCorrect(): a literal the theory has propagated finds its    *)
(* explanation, although the last one moves when another is removed.       *)
ExpPositions ==
    NotYet({"dropped"}) => \A e \in Entries(sat) :
        e.pos # 0 => e.pos \in DOMAIN sat.props /\ sat.props[e.pos].conclusion = e.lit

(* A check ends.                                                           *)
CheckEnds == pc # "idle" ~> (pc = "idle" \/ Capped)

(* "Removes everything related to the given sub-formula of the received    *)
(* formula", says removeCore (SATModule.h): an answer does not depend on   *)
(* what has been removed.  Literals it has fixed on level 0 stay.          *)
RemovalUndone == pc = "idle" /\ answer = "UNSAT" => Models(received) = {}
=============================================================================
