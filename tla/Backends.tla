------------------------------ MODULE Backends ------------------------------
(***************************************************************************)
(* A module and its backends (smtrat-modules/Module.{h,cpp}, with          *)
(* Manager::getBackends): the base class, which copies what it receives    *)
(* to what it passes, as the primary backend of a solver does.             *)
(*                                                                         *)
(* The strategy is a list of backends in the order of their thread         *)
(* priority, each with a condition on the passed formula.  What a backend  *)
(* computes is external; it obeys the contract of Module: SAT and UNSAT    *)
(* are right for what it has been told, UNSAT comes with infeasible        *)
(* subsets of that.  Lemmas, objectives and variable counters are left     *)
(* out.                                                                    *)
(***************************************************************************)
EXTENDS Integers, Sequences, FiniteSets

CONSTANTS Formula,           \* constraints that may be asserted
          NumberOfBackends,  \* backends the strategy has for the module
          Suits,             \* per backend: the sets of passed formulas
                             \* that meet its condition
          Conflict,          \* the minimal infeasible sets of formulas
          Parallel           \* SMTRAT_STRAT_PARALLEL_MODE, and runsParallel()

Backend == 1 .. NumberOfBackends

ASSUME BackendsAssumption ==
    /\ NumberOfBackends \in Nat
    /\ Suits \in [Backend -> SUBSET SUBSET Formula]
    /\ Conflict \subseteq SUBSET Formula /\ {} \notin Conflict
    /\ Parallel \in BOOLEAN

Infeasible(F) == \E C \in Conflict : C \subseteq F

Answer == {"SAT", "UNSAT", "UNKNOWN", "ABORTED"}

(* Positions of an iterator that are no formula: end(), an erased node.    *)
End == "end"
Dangling == "dangling"

VARIABLES mpReceivedFormula,     \* sequence of formulas
          mpPassedFormula,       \* sequence of formulas
          mFirstSubformulaToPass,\* position in it of the first one to pass
          mConstraintsToInform,  \* constraints the backends have to be told of
          mInformedConstraints,  \* constraints they were told of
          mInfeasibleSubsets,
          mSolverState,
          mUsedBackends,         \* backends asked last
          mAllBackends,          \* backends created
          backend,               \* their state, see BackendState
          pc, result,            \* where check() stands, what it will answer
          toRun,                 \* used backends still to run
          mBackendsFoundAnswer,  \* whether one of the backends had found an
                                 \* answer when this round began to run them
          informed               \* history: constraints the module was
                                 \* informed of and not deinformed of since

formulaVars == <<mpReceivedFormula, mpPassedFormula, mFirstSubformulaToPass>>
informVars == <<mConstraintsToInform, mInformedConstraints, informed>>
answerVars == <<mInfeasibleSubsets, mSolverState>>
backendVars == <<mUsedBackends, mAllBackends, backend>>
checkVars == <<pc, result, toRun, mBackendsFoundAnswer>>
vars == <<formulaVars, informVars, answerVars, backendVars, checkVars>>

Elements(s) == {s[i] : i \in DOMAIN s}

(* told: the formulas added to the backend; informed: the constraints it   *)
(* knows; unchecked: its mFirstUncheckedReceivedSubformula; satisfied: the *)
(* formulas the model of its last SAT satisfies.                           *)
BackendState == [told : SUBSET Formula, informed : SUBSET Formula,
                 infeasible : SUBSET SUBSET Formula, state : Answer,
                 unchecked : Formula \cup {End, Dangling}, satisfied : SUBSET Formula]

NewBackend == [told |-> {}, informed |-> {}, infeasible |-> {}, state |-> "UNKNOWN",
               unchecked |-> End, satisfied |-> {}]

(* The constructor of Manager informs the module of all constraints that   *)
(* exist already, in the pool it shares with other solvers.                *)
Init ==
    /\ mpReceivedFormula = <<>> /\ mpPassedFormula = <<>> /\ mFirstSubformulaToPass = 1
    /\ mConstraintsToInform \in SUBSET Formula /\ informed = mConstraintsToInform
    /\ mInformedConstraints = {}
    /\ mInfeasibleSubsets = {} /\ mSolverState = "UNKNOWN"
    /\ mUsedBackends = {} /\ mAllBackends = {}
    /\ backend = [b \in Backend |-> NewBackend]
    /\ pc = "idle" /\ result = "UNKNOWN" /\ toRun = {} /\ mBackendsFoundAnswer = FALSE

-----------------------------------------------------------------------------
(* A backend's own Module::add, remove and check.                          *)

(* Adding the formulas of the sequence new, after informing of C: the      *)
(* backend may find an infeasible subset at once.                          *)
Informed(r, C) == [r EXCEPT !.informed = @ \cup C]

Added(r, new) ==
    LET grown == [r EXCEPT !.told = @ \cup Elements(new),
                           !.unchecked = IF @ = End /\ new # <<>> THEN new[1] ELSE @]
    IN  {grown} \cup
        {[grown EXCEPT !.infeasible = @ \cup {S}, !.state = "UNSAT"] :
            S \in {S \in SUBSET grown.told : Infeasible(S) /\ S \cap Elements(new) # {}}}

(* Removing f, which next follows in the passed formula.                   *)
WithoutFormula(subsets, f) == {S \in subsets : f \notin S}

StateKept(subsets, state) == state
StateAfterRemove(subsets, state) == IF subsets = {} THEN "UNKNOWN" ELSE state

Without(r, f, next) ==
    [r EXCEPT !.told = @ \ {f},
              !.infeasible = WithoutFormula(@, f),
              !.state = StateAfterRemove(WithoutFormula(r.infeasible, f), @),
              !.unchecked = IF @ = f THEN next ELSE @]

(* Checking: what the backend may be afterwards; aborted says that         *)
(* anAnswerFound() may hold, at which a backend gives up.                  *)
Checked(r, aborted) ==
    LET done == [r EXCEPT !.unchecked = End]
    IN  IF r.infeasible # {} THEN {[done EXCEPT !.state = "UNSAT"]}
        ELSE {[done EXCEPT !.state = "UNKNOWN"]}
             \cup (IF aborted THEN {[done EXCEPT !.state = "ABORTED"]} ELSE {})
             \cup (IF Infeasible(r.told) THEN {}
                   ELSE {[done EXCEPT !.state = "SAT", !.satisfied = r.told]})
             \cup {[done EXCEPT !.state = "UNSAT", !.infeasible = {S}] :
                     S \in {S \in SUBSET r.told : Infeasible(S)}}

-----------------------------------------------------------------------------
(* inform, add, remove and deinform of the module, between two checks.     *)

Inform(f) ==
    /\ pc = "idle"
    /\ mConstraintsToInform' = mConstraintsToInform \cup {f}
    /\ informed' = informed \cup {f}
    /\ UNCHANGED <<formulaVars, mInformedConstraints, answerVars, backendVars, checkVars>>

(* Manager::add informs of the constraint, then adds it to the list and    *)
(* the module.                                                             *)
Add(f) ==
    /\ pc = "idle"
    /\ mConstraintsToInform' = mConstraintsToInform \cup {f}
    /\ informed' = informed \cup {f}
    /\ mpReceivedFormula' = IF f \in Elements(mpReceivedFormula) THEN mpReceivedFormula
                            ELSE Append(mpReceivedFormula, f)
    /\ UNCHANGED <<mpPassedFormula, mFirstSubformulaToPass, mInformedConstraints,
                   answerVars, backendVars, checkVars>>

(* The list s, which holds f at most once, without f.                      *)
Position(s, f) == CHOOSE i \in DOMAIN s : s[i] = f
SeqWithout(s, f) ==
    IF f \notin Elements(s) THEN s
    ELSE [i \in 1 .. Len(s) - 1 |-> IF i < Position(s, f) THEN s[i] ELSE s[i + 1]]

ToPass == {mpPassedFormula[i] : i \in mFirstSubformulaToPass .. Len(mpPassedFormula)}

(* The node after that of f in the passed formula, or end().               *)
NodeAfter(f) ==
    LET i == Position(mpPassedFormula, f)
    IN  IF i = Len(mpPassedFormula) THEN End ELSE mpPassedFormula[i + 1]

(* eraseSubformulaFromPassedFormula(f): the backends that were told f      *)
(* remove it; one that was not may be left with an iterator to its node.   *)
PassedUnlessToPass(f) == IF f \in ToPass THEN mpPassedFormula ELSE SeqWithout(mpPassedFormula, f)
PassedWithout(f) == SeqWithout(mpPassedFormula, f)

FirstAfterErase(f) ==
    IF f \in Elements(mpPassedFormula) \ ToPass THEN mFirstSubformulaToPass - 1
    ELSE mFirstSubformulaToPass

BackendsWithout(f) == [b \in Backend |->
    IF b \notin mAllBackends \/ f \notin Elements(mpPassedFormula) THEN backend[b]
    ELSE IF f \notin ToPass THEN Without(backend[b], f, NodeAfter(f))
    ELSE [backend[b] EXCEPT !.unchecked = IF @ = f THEN Dangling ELSE @]]

Remove(f) ==
    /\ pc = "idle"
    /\ f \in Elements(mpReceivedFormula)
    /\ mpPassedFormula' = PassedWithout(f)
    /\ mFirstSubformulaToPass' = FirstAfterErase(f)
    /\ backend' = BackendsWithout(f)
    /\ mInfeasibleSubsets' = WithoutFormula(mInfeasibleSubsets, f)
    /\ mSolverState' = StateAfterRemove(WithoutFormula(mInfeasibleSubsets, f), mSolverState)
    /\ mpReceivedFormula' = SeqWithout(mpReceivedFormula, f)
    /\ UNCHANGED <<informVars, mUsedBackends, mAllBackends, checkVars>>

(* Only for a constraint that is not to be solved again (Module.h:269).    *)
Deinform(f) ==
    /\ pc = "idle"
    /\ f \in informed
    /\ f \notin Elements(mpReceivedFormula)
    /\ mConstraintsToInform' = mConstraintsToInform \ {f}
    /\ informed' = informed \ {f}
    /\ backend' = [b \in Backend |->
         IF b \in mAllBackends THEN [backend[b] EXCEPT !.informed = @ \ {f}] ELSE backend[b]]
    /\ UNCHANGED <<formulaVars, mInformedConstraints, answerVars, mUsedBackends,
                   mAllBackends, checkVars>>

-----------------------------------------------------------------------------
(* Manager::getBackends: the backends whose condition the passed formula   *)
(* meets; one that does not exist yet is created, informed of what the     *)
(* others were informed of, and told what the others were told.            *)
UsedFor(passed) == {b \in Backend : Elements(passed) \in Suits[b]}

NotToldYet == <<>>
ToldAlready == SubSeq(mpPassedFormula, 1, mFirstSubformulaToPass - 1)

Created == Added(Informed(NewBackend, mInformedConstraints), ToldAlready)

(* Every way to create the missing ones of the backends used.              *)
WithCreated(used) ==
    {[b \in Backend |-> IF b \in DOMAIN new THEN new[b] ELSE backend[b]] :
        new \in [used \ mAllBackends -> Created]}

(* init() of the module, which SATModule calls before its first check.     *)
InitBackends ==
    LET used == UsedFor(mpPassedFormula)
        all == mAllBackends \cup used
    IN  /\ pc = "idle"
        /\ mConstraintsToInform # {}
        /\ mUsedBackends' = used
        /\ mAllBackends' = all
        /\ \E created \in WithCreated(used) :
             backend' = [b \in Backend |->
                IF b \in all THEN Informed(created[b], mConstraintsToInform) ELSE created[b]]
        /\ mInformedConstraints' = mInformedConstraints \cup mConstraintsToInform
        /\ mConstraintsToInform' = {}
        /\ UNCHANGED <<formulaVars, informed, answerVars, checkVars>>

-----------------------------------------------------------------------------
(* check()                                                                 *)

(* Nothing is received, or an infeasible subset is known.                  *)
CheckAtOnce ==
    /\ pc = "idle"
    /\ \/ mpReceivedFormula = <<>> /\ mSolverState' = "SAT"
       \/ mpReceivedFormula # <<>> /\ mInfeasibleSubsets # {} /\ mSolverState' = "UNSAT"
    /\ UNCHANGED <<formulaVars, informVars, mInfeasibleSubsets, backendVars, checkVars>>

(* Copy the received formulas beyond as many as have been passed, and get  *)
(* the backends for the result.                                            *)
Copied == mpPassedFormula \o
          SubSeq(mpReceivedFormula, Len(mpPassedFormula) + 1, Len(mpReceivedFormula))

(* The flag is reset, then set by a backend that is created and finds an   *)
(* infeasible subset in what it is told to catch up.                       *)
FoundWhileCreated(used) == \E b \in used \ mAllBackends : backend'[b].state = "UNSAT"

CheckBegin ==
    LET used == UsedFor(Copied)
    IN  /\ pc = "idle"
        /\ mpReceivedFormula # <<>>
        /\ mInfeasibleSubsets = {}
        /\ mpPassedFormula' = Copied
        /\ mUsedBackends' = used
        /\ mAllBackends' = mAllBackends \cup used
        /\ backend' \in WithCreated(used)
        /\ mBackendsFoundAnswer' = FoundWhileCreated(used)
        /\ result' = "UNKNOWN"
        /\ pc' = IF used = {} THEN "found" ELSE "update"
        /\ UNCHANGED <<mpReceivedFormula, mFirstSubformulaToPass, informVars, answerVars, toRun>>

(* Tell all backends, used or not, what they do not know yet.              *)
UsedOnly == mUsedBackends
BackendsToUpdate == mAllBackends

ToTell == SubSeq(mpPassedFormula, mFirstSubformulaToPass, Len(mpPassedFormula))

Updated ==
    LET told(b) == Added(Informed(backend[b], mConstraintsToInform), ToTell)
    IN  {g \in [Backend -> UNION {told(b) : b \in BackendsToUpdate}
                             \cup {backend[b] : b \in Backend \ BackendsToUpdate}] :
           \A b \in Backend : IF b \in BackendsToUpdate THEN g[b] \in told(b)
                              ELSE g[b] = backend[b]}

InformedAfterUpdate == mInformedConstraints \cup mConstraintsToInform

(* Some backend holds an infeasible subset, or finds one while being told. *)
AssertionFailed == \E b \in mAllBackends : backend'[b].infeasible # {}

Update ==
    /\ pc = "update"
    /\ IF ToTell = <<>>
         THEN /\ pc' = "run" /\ toRun' = mUsedBackends
              /\ UNCHANGED <<mFirstSubformulaToPass, informVars, backend, result>>
         ELSE /\ backend' \in Updated
              /\ mFirstSubformulaToPass' = Len(mpPassedFormula) + 1
              /\ mInformedConstraints' = InformedAfterUpdate
              /\ mConstraintsToInform' = {}
              /\ IF AssertionFailed THEN pc' = "found" /\ result' = "UNSAT" /\ toRun' = {}
                 ELSE pc' = "run" /\ toRun' = mUsedBackends /\ UNCHANGED result
              /\ UNCHANGED informed
    /\ UNCHANGED <<mpReceivedFormula, mpPassedFormula, answerVars, mUsedBackends, mAllBackends,
                   mBackendsFoundAnswer>>

(* Sequentially, in the order of priority, until one has an answer.        *)
RunNext ==
    /\ pc = "run" /\ ~Parallel
    /\ \E b \in toRun :
         /\ \A c \in toRun : b <= c
         /\ \E r \in Checked(backend[b], mBackendsFoundAnswer) :
              /\ backend' = [backend EXCEPT ![b] = r]
              /\ result' = r.state
         /\ toRun' = IF result' = "UNKNOWN" THEN toRun \ {b} ELSE {}
         /\ pc' = IF toRun' = {} THEN "found" ELSE "run"
    /\ UNCHANGED <<formulaVars, informVars, answerVars, mUsedBackends, mAllBackends,
                   mBackendsFoundAnswer>>

(* In parallel (module ThreadPool): those whose thread starts too late are *)
(* not run and keep their state, those running may be aborted; a verdict   *)
(* wins over UNKNOWN, and that over ABORTED.                               *)
AnswersOfUsed(ran, after) == {after[b].state : b \in toRun}
AnswersOf(ran, after) == {after[b].state : b \in ran}

Overall(answers) == CASE "SAT" \in answers -> "SAT"
                      [] "UNSAT" \in answers /\ "SAT" \notin answers -> "UNSAT"
                      [] answers \cap {"SAT", "UNSAT"} = {} /\ "UNKNOWN" \in answers -> "UNKNOWN"
                      [] OTHER -> "ABORTED"

RunParallel ==
    /\ pc = "run" /\ Parallel
    /\ \E ran \in SUBSET toRun \ {{}} :
         /\ backend' \in [Backend -> UNION {Checked(backend[b], TRUE) : b \in ran}
                                       \cup {backend[b] : b \in Backend}]
         /\ \A b \in Backend : IF b \in ran THEN backend'[b] \in Checked(backend[b], TRUE)
                               ELSE backend'[b] = backend[b]
         /\ "ABORTED" \in AnswersOf(ran, backend') =>
              mBackendsFoundAnswer \/ AnswersOf(ran, backend') \cap {"SAT", "UNSAT"} # {}
         /\ result' = Overall(AnswersOf(ran, backend'))
    /\ toRun' = {}
    /\ pc' = "found"
    /\ UNCHANGED <<formulaVars, informVars, answerVars, mUsedBackends, mAllBackends,
                   mBackendsFoundAnswer>>

(* getInfeasibleSubsets() asks the used backends only.                     *)
SubsetsFound == UNION {backend[b].infeasible : b \in {b \in mUsedBackends : backend[b].state = "UNSAT"}}

CheckEnd ==
    /\ pc = "found"
    /\ mInfeasibleSubsets' = IF result = "UNSAT" THEN SubsetsFound ELSE mInfeasibleSubsets
    /\ mSolverState' = result
    /\ pc' = "idle"
    /\ result' = "UNKNOWN"
    /\ UNCHANGED <<formulaVars, informVars, backendVars, toRun, mBackendsFoundAnswer>>

-----------------------------------------------------------------------------
(* Where the model comes from.                                             *)

FirstOf(B) == {b \in B : \A c \in B : b <= c}

(* getBackendsModel(): the first used backend that was not aborted.        *)
GetBackendsModel == FirstOf({b \in mUsedBackends : backend[b].state # "ABORTED"})

(* backendsModel(): the first used backend that answered SAT.              *)
BackendsModel == FirstOf({b \in mUsedBackends : backend[b].state = "SAT"})

-----------------------------------------------------------------------------
Next == \/ \E f \in Formula : Inform(f) \/ Add(f) \/ Remove(f) \/ Deinform(f)
        \/ InitBackends
        \/ CheckAtOnce \/ CheckBegin \/ Update \/ RunNext \/ RunParallel \/ CheckEnd

Spec == Init /\ [][Next]_vars

-----------------------------------------------------------------------------
(* The types of the module's and its backends' state.                      *)
TypeOK ==
    /\ mpReceivedFormula \in Seq(Formula)
    /\ mpPassedFormula \in Seq(Formula)
    /\ mFirstSubformulaToPass \in 1 .. Len(mpPassedFormula) + 1
    /\ mConstraintsToInform \subseteq Formula /\ mInformedConstraints \subseteq Formula
    /\ informed \subseteq Formula
    /\ mInfeasibleSubsets \subseteq SUBSET Formula /\ mSolverState \in Answer
    /\ mUsedBackends \subseteq mAllBackends /\ mAllBackends \subseteq Backend
    /\ backend \in [Backend -> BackendState]
    /\ pc \in {"idle", "update", "run", "found"} /\ result \in Answer
    /\ toRun \subseteq mUsedBackends /\ mBackendsFoundAnswer \in BOOLEAN

(* checkCore copies by position (Module.cpp:252-261): what is passed must  *)
(* be the beginning of what is received, whatever was removed from the     *)
(* middle, and neither list holds a formula twice.                         *)
PassedIsPrefix ==
    /\ Len(mpPassedFormula) <= Len(mpReceivedFormula)
    /\ \A i \in DOMAIN mpPassedFormula : mpPassedFormula[i] = mpReceivedFormula[i]
    /\ \A i, j \in DOMAIN mpReceivedFormula :
         mpReceivedFormula[i] = mpReceivedFormula[j] => i = j

(* Every backend that exists, used in the last checks or not, has been     *)
(* told exactly what precedes mFirstSubformulaToPass, whenever it was      *)
(* created (Module.cpp:790-818, Manager.cpp:451-453), so that it may       *)
(* remove any of it.                                                       *)
BackendsToldPassed == \A b \in mAllBackends :
    backend[b].told = {mpPassedFormula[i] : i \in 1 .. mFirstSubformulaToPass - 1}

(* A backend is told a constraint only after it was informed of it, also   *)
(* if it is created late (Module.h:259-265).                               *)
InformedBeforeTold == \A b \in mAllBackends : backend[b].told \subseteq backend[b].informed

(* Infeasible subsets, of the module or a backend, consist of formulas in  *)
(* force and are infeasible, whatever was removed since they were found.   *)
SubsetsCurrent ==
    /\ \A S \in mInfeasibleSubsets : S \subseteq Elements(mpReceivedFormula) /\ Infeasible(S)
    /\ \A b \in mAllBackends : \A S \in backend[b].infeasible :
         S \subseteq backend[b].told /\ Infeasible(S)

(* A verdict is right for what the module has received, though every       *)
(* backend judges only what it was told.                                   *)
AnswerSound ==
    /\ pc = "found" /\ result = "UNSAT" => Infeasible(Elements(mpReceivedFormula))
    /\ pc = "found" /\ result = "SAT" => ~Infeasible(Elements(mpReceivedFormula))

(* The state UNSAT, which add and remove leave standing, stays right until *)
(* the next check (Module.cpp:240).                                        *)
UnsatStaysRight ==
    /\ mSolverState = "UNSAT" => Infeasible(Elements(mpReceivedFormula))
    /\ \A b \in mAllBackends : backend[b].state = "UNSAT" => Infeasible(backend[b].told)

(* After a sequential check that answered SAT, backendsModel() takes a     *)
(* model of all that was received: no backend before it in the order kept  *)
(* an old SAT (Module.cpp:676-695).                                        *)
ModelIsFresh == pc = "found" /\ result = "SAT" =>
    /\ BackendsModel # {}
    /\ \A b \in BackendsModel : Elements(mpReceivedFormula) \subseteq backend[b].satisfied

-----------------------------------------------------------------------------
(* What the repository says of Module and the code does not keep.          *)

(* Module.cpp:134 asserts that UNSAT comes with an infeasible subset.      *)
UnsatHasSubset == mSolverState = "UNSAT" => mInfeasibleSubsets # {}
=============================================================================
