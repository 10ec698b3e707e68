# SMT-RAT: a verification development

SMT-RAT is a C++ toolbox for SMT solving. A *strategy* combines *modules*
(preprocessing, SAT, theory solvers) into a solver; a `Manager` offers the
solver to the outside. Beside the solver the repository holds a delta debugger
(`delta`), a benchmarking tool (`benchmax`), a graphical editor of strategies
and some smaller tools.

This directory models the parts of it whose correctness depends on *order*: of
calls, of threads, of backtracking. Of what a theory module computes over the reals
only the simplex of the LRAModule is modelled, on linear constraints with
small coefficients; the rest is symbolic algebra, and what a module owes the
ones around it is modelled in its place. Paths below are relative to
`src/src/`.

    tlc -config Manager_stack.cfg MCManager.tla     # a run
    tlapm Manager_proofs.tla                        # the proofs of a module

`PROJECT.json` lists the runs, the code lines each definition stands for, the
hazards, the findings and the theorems.

## 1. Inventory

### Components, their state, and how they interact

| Component | State | Operations | Modelled in |
|---|---|---|---|
| `Manager` (smtrat-solver) | list of asserted formulas, backtrack points, objectives, reusable objective variables | add, push, pop, remove, addObjective, removeObjective, check (with optimisation), reset, inform, getBackends | `Manager`, `AssertionStack` |
| `Module`, `ModuleInput` (smtrat-modules) | received and passed formula, first formula to pass, constraints to inform, infeasible subsets, solver state, used and all backends | inform, deinform, add, remove, init, check, runBackends, getInfeasibleSubsets, updateModel | `Backends` |
| `StrategyGraph` | vertices, edges with condition and priority | getBackends; built once by the strategy's constructor | `Backends` (getBackends) |
| `ThreadPool` | counters of threads, synchronisation objects by slot, futures | runBackends, submitBackend, runTask, notify, deleteTask, destructor | `ThreadPool` |
| `UnionFindModule` | versions of a union-find, graph of equalities, history of literals | informCore, addCore, removeCore, checkCore, updateModel | `UnionFind` |
| `delta` Producer, Consumer, Checker | document, position, queue of futures, first result, temporary files, counters | one round of changes, jobs, temporary files | `Delta` |
| `SATModule` | trail, watches, learnt clauses, assumptions, passed formula with counters, theory propagations | addCore, removeCore, checkCore: propagate, theory calls, decide, analyze, restart, exclude | `SATModule` |
| MCSAT | as the SATModule, with levels of theory variables | search in levels, explanations | candidate |
| `LRAModule` | tableau (rows, set-aside rows, bounds with origins, assignment), inequations resolved and unresolved, infeasible subsets | informCore, addCore, removeCore, checkCore | `Tableau`, `LRAModule` |
| VS, ICP, CAD, Groebner, FouMo, ... | polynomials, trees, boxes | real algebra | no |
| EQ, EQPreprocessing, Curry, UFCegar | congruence classes, instances | congruence closure, rewriting | candidates |
| Preprocessing (PFE, BE, ES, EM, ...), BV, IntBlast, PB | encodings and origins | rewriting | no |
| lib/datastructures | `VariableBounds`, old union-find, expressions | bounds with origins | planned |
| unsat cores, cli Executor and Limiter | models found; last answer, limits | a loop around a solver | planned |
| `benchmax`, SSH backend | connections with cores and channels, queue of futures, running jobs, results | upload tools, run jobs in threads of their own, wait, store, end | `SSHScheduler` |
| `benchmax`, the rest | tools, files, databases, Condor | one job after the other | no |
| gui, traceprinter, wrapper, tests | | | no |

A user calls the `Manager`. It keeps the list of formulas and tells its
primary backend, the root module of the strategy, of each formula added and
removed. A module that cannot decide on its own copies what it received to a
*passed formula* and calls `runBackends`: `Manager::getBackends` chooses the
backends whose condition holds, creating those that do not exist yet; all
existing backends are told the news; then the chosen ones are run, one after
the other, or, in parallel mode, by the `ThreadPool`, with a shared flag by
which the first verdict stops the others. Answers, infeasible subsets and models
travel back the same way. `delta` is a program of its own that runs the solver
on reduced inputs.

### What is hard

* **Concurrency** (ThreadPool, Delta, benchmax): slots are reused while late
  notifications are on their way; calls nest; a destructor spins on a counter;
  the first success of a round races the others; temporary files are shared.
* **Order of calls** (Manager, Backends, UnionFind): backtrack points hold
  iterators and positions into lists that change under them; backends are
  created late and must catch up; results outlive the check that found them.
* **Incremental use** (SATModule, LRAModule): the trail, the passed formula, the
  tableau and the bounds are kept from one check to the next, while formulas
  come and go in any order; counters and positions that are kept beside them
  must follow.
* **Partial failure**: one backend finds a conflict while being told a formula,
  a job gives up, a run hits its limit, a request to a remote node fails.
* No component persists anything: what ends early is lost, and nothing restarts.

### What makes each component correct

* ThreadPool: every call owns its slot; both counters are exact; no task runs
  on modules whose call has returned; verdicts are neither lost nor invented;
  every call, and the destructor, returns.
* Manager: behaves as an assertion stack, also around its own levels while
  optimising; backtrack points stay valid; the primary backend knows exactly
  the list; objectives never share a variable.
* Backends: what is passed is a prefix of what is received; all backends have
  been told the same, in whatever round they were created; answers, infeasible
  subsets and models are right for what is received *now*.
* UnionFind: every version that backtracking can return to has the right
  classes; explanations are minimal; models satisfy what was received.
* SATModule: UNSAT is answered only for what is unsatisfiable, SAT only with an
  assignment and a model of the backends that satisfy what is received; what is
  learnt follows from it; no clause is false when the search decides; the
  passed formula is what the trail assigns; a check ends.
* LRAModule: infeasible subsets are received and unsatisfiable; models satisfy
  also strict bounds and inequations; rows follow from what slack variables
  stand for; bounds are the strongest active ones; a check ends.
* SSH backend: who opens a channel finds one free; a job runs its own binary;
  no result is missing when they are written; the program ends.
* Delta: two solvers never share a file; a round applies one of its own changes;
  the result is minimal; the reduction ends.

## 2. The modules

**`ThreadPool`** — `smtrat-solver/ThreadPool.{h,cpp}`, and the part of
`Module::runBackends` that calls it. Every task has a thread of its own. A
thread's program counter `cpc` follows `runBackends` (enter, submit, wait,
collect) and a worker's `wpc` follows `runTask` (spawned, started, running,
delete, notify, leaving); each step is one critical section or one access to
shared state. Any running task may call `runBackends` again for its own
backends, which the answer flags (`found`, `mFoundAnswer`) reach, or return
before it gets to the pool (`ReturnAtOnce`): without backends, with a conflict met
while they are told, or because an outer round has its answer. Bounds:
`MaxTasks` tasks in a behaviour, `MaxModules` backends per call. A slot is the
position in `mBackendSynchros`, counted from 1.

**`Manager`** — `smtrat-solver/Manager.{h,cpp}`. The list is a sequence without
duplicates, a backtrack point is `[first, live, second]` (an iterator as the
number of formulas up to its node, with a flag that says the node is still in
the list, and the position of the last objective). The variable of an objective
has its type (`TypeOf`, by `IntegerValued`) and waits for reuse on the stack of that
type. `check()` is several actions
(begin, minimise, look up, bound, unwind), since an optimising check pushes and
pops on the user's stack and has three ways out. `Spec` has the operations that
keep to the stack; `FullSpec` adds `remove`, `removeObjective` and `reset`.
A failed assertion, or the dereference of `end()` without assertions, ends in
`pc = "failed"`.

**`AssertionStack`** — the abstract specification of `Manager`: what is in force,
and what was at each push. `Manager!ImplementsStack` is the refinement.

**`Backends`** — `smtrat-modules/Module.{h,cpp}`, `ModuleInput`,
`Manager::getBackends`, `StrategyGraph::getBackends`: one module that passes on
what it receives, and its backends. The strategy is a constant (`Suits`: the
passed formulas that meet a backend's condition), as is the theory (`Conflict`:
minimal infeasible sets). A backend is external: it answers anything that is
right, may answer UNKNOWN, may give up with ABORTED if it sees that an answer
was found, and may find a conflict while it is told a formula. Origins, lemmas
and splitting are left out; each passed formula has one origin.

**`UnionFind`** — `smtrat-modules/UnionFindModule`. `versions` is the vector of
persistent union-finds, each with the pair merged last; `Find`, `Compressed`
and `Linked` are `find`, its path compression and the union by rank, including
the ranks' odd initialisation (`{size + 1, 0}` is a list of two). New variables
get their indices in any order (a hash set). Undefined behaviour ends a
behaviour (`failed`).

**`Delta`** — `delta/Producer.h`, `Consumer.h`, `Checker.h`, `utils.h`. The
producer walks over the nodes, makes a job of each change, waits for room in a
queue of futures, and at the end of a round starts again from the document found
or, if nothing was found with nothing skipped, ends. Documents are values;
`Changes` lists what the operators make of each. A run of the solver that hits
its limits (`Slow`) or exits with a code above 128 (`Aborting`) counts in
`killed`, as in `delta.cpp`. SIGINT may come at any time. Only the breadth-first
traversal is modelled: the option is registered as `dfs` but read as `useDFS`,
so the other one never runs.

**`SSHScheduler`** — `benchmax/backends/{Backend,SSHBackend}.h`,
`benchmax/ssh/{SSHScheduler,SSHConnection}.h`. The main thread (`pc`) uploads a
tool to every host, then starts a job for each of its files, waiting for the
first of the futures when enough jobs run; at the end it drains the queue and
writes the results. A job (`jpc`, `phase`) looks for a connection under the
mutex, then opens a channel on it for each of its four phases. A connection
counts its jobs (`curJobs`) and its channels (`curChannels`). A request to a node may
fail (`MaxFailures`), and SIGINT or a failed request may end the process at any
time. libssh and the nodes are external.

**`SATModule`** — `smtrat-modules/SATModule/SATModule.{h,cpp}` with
`SATSettings1`, without MCSAT. The state of the module is the record `sat`, whose
members carry the code's names where it has them. A step is the visit of one
watched clause, one round of the theory (`Theory`: adapt the passed formula, run
the backends, take in propagations, conflicts and lemmas), one decision, or one
conflict analysed (`HandleConflict`, `Resolve`, `Minimized`). The user adds and
removes clauses and single literals (assumptions) between checks. The
backends are external and answer by the contract of `Backends`: `Conflicts` is
the theory, `GivesUp` what they do not decide. Literals are numbers; a
clause is a set with the two literals it watches.

*History tags.* In some situations the code goes wrong (below), and a property
that is then false says nothing about the rest. `history` remembers whether
such a situation has come up, and a property is stated for the runs in which it
has not: `fixed` (removeCore with literals on level 0), `missed` (a clause added
that level 0 makes unit or false), `late` (a literal added that is already true
but was irrelevant), `excluded` and `again` (an assignment excluded, in this or
an earlier check), `forgotten` (a restart or check with literals still to be
passed), `stale` (a theory propagation from literals that have been undone),
`reason` (an asserting conflict clause in the wrong order), `dropped`
(such a clause with literals that minimisation left out). Each property names
only the tags that break it.

**`Tableau`, `LRAModule`** — `smtrat-modules/LRAModule` with `LRASettings2` (rational
numbers, no refinement, no theory propagation, one reason per conflict) on
conjunctions of linear constraints over the reals. `Tableau` holds operators on
a record: bounds and their origins, the rows, `ActivateBound`, `DeactivateBound`,
`Pivot` and `GetConflict` as the functions of these names leave it. A value is a pair
`<<a, b>>` for a + bδ. A row is divided by its factor; the instances have terms
for which all entries stay -1, 0 or 1, so that values are integers. `LRAModule`
is the state machine: `AddCore` and `RemoveCore` with inequations, `Check`, and one
action per turn of its loop (`PivotStep`, `Conflict`, `Consistent`, `Abort`). Which of the
rows and entries that are equally good is taken depends on positions in memory
and is left open. `Families` are the sets of constraints a user may use; the
module is informed of all of them first.

A definition named like another with a difference (`CollectedUnknownWins` beside
`Collected`, `TailForgotten` beside `VersionsWithout`) is a plausible slip. It is
used nowhere: `PROJECT.json` lists under `mutants` which property notices it in
place of the right one.

`MC*` modules hold the instances for TLC, `*_proofs` the theorems.

## 3. What is checked

| Run | Question | Bounds |
|---|---|---|
| `pool` | slots, quiescence, verdicts; with fairness, that calls and the destructor end | 3 tasks, at most 2 per call |
| `manager_stack` | iterators, the backend's knowledge, objectives, refinement of the stack | 3 atoms, conjunctions of 2, 3 user levels, 2 objectives, one of integers, 2 variables |
| `manager_full` | does the backend know only what is listed, also under remove, removeObjective, reset? | as above, 2 user levels |
| `backends_sequential` | passing, telling, answers, models, one backend after the other | 3 formulas, 2 backends, 1 conflict of 2 |
| `backends_parallel` | answers with all backends at once | same, conditions swapped |
| `union_find` | versions, explanations, answers, models | 4 variables, a square of equalities, 1 disequality |
| `delta` | files, one change per round, minimality; with fairness, termination | 6 documents, 3 threads, 2 nodes skipped at first |
| `ssh` | channels, binaries, results; with fairness, that the program ends | 4 networks, 3 to 5 jobs of 2 tools, 1 failed request |
| `sat` | answers, no clause overlooked, passed formula; with fairness, that a check ends | 2 scripts of 3 formulas, 3 variables, 2 checks, 2 removals, 1 theory propagation, 1 lemma |
| `sat_learning` | learnt clauses, positions of explanations | one check, 5 variables, 2 theory propagations, 1 lemma |
| `sat_removal` | *violated*: does removing a formula undo what it did? | 4 clauses, 2 checks, 1 removal |
| `lra` | conflicts, models, tableau, bounds; with fairness, that a check ends | 4 families of 4 or 5 constraints over 3 variables and their differences, Bland's rule after 2 pivots, 1 abort |

**Why the bounds are enough.** ThreadPool: with three tasks a call can nest in
another (a task calling `runBackends`), a second call can reuse the slot of a
finished one while its worker is still about to notify, and two tasks of one
call race; each hazard involves at most two calls and one late worker. Manager:
three atoms with conjunctions of two give a conjunction of which only a part is
new; three levels and the two that a check adds give backtrack points that share
a position; two objectives are what the loop of `check()` needs to move on, and
two variables can be those of two types, or of one objective added twice.
Backends: with two conditions each backend is created before or after the other
and used or not; three formulas allow a removal from the front, the middle and
the end. UnionFind: four variables give trees of rank two and compression of
paths longer than one, and the smallest index out of reach (one is spare, so it
takes two late variables); a square has two explanations of the same length
and, after removals, one. Delta: a document with a change in each of four nodes,
rounds that start in the middle, a success in a job that ends late, three
rounds in a row. Theorems lift the safety properties to every value of the
constants, for SATModule and LRAModule those named below.

SSHScheduler: the networks are one connection with two cores (jobs and uploads
share channels), two hosts, one host with two connections (the tool is there
already), and a single worker with five jobs, of which the last must wait for
the first future. SATModule: a clause and an assumption that fix and falsify
each other's literals, a theory conflict between them, checks before and after
a removal; for learning, a conflict that is resolved over three levels, with
explanations asked for lazily. `MaxAssumptions` caps a search that excludes
assignments for ever (below): such a run is `Capped` and CheckEnds lets it go.
LRAModule: x ≤ y ≤ z < x is a conflict only of a row; x ≤ y, x ≥ y, x ≠ y moves the
inequation between its four bounds; strict and weak bounds meet at one limit;
x < 1 beside x ≤ 1 and x ≠ 1 gives a strict bound with two origins;
differences of three variables give rows in which slack variables take the
place of one another. `BlandStart` is 1000 in the code, which no small instance
reaches; with 2 both strategies are used in most checks. What is satisfiable is
defined by the points of a grid with steps of 1/`Scale` up to `Reach`, which is
fine and large enough for strict differences of three variables and limits up
to 1.

**Fairness.** `ThreadPool!Fairness`: every step of a thread that is enabled for
ever is taken (the operating system schedules every thread, mutexes are held
for finitely many steps); a module's `check` ends; whether a module calls its
backends again is its own choice and not fair. `CallReturns` speaks of Main's
calls, which return only when the calls nested in them have.
`Delta!FairSpec`: the producer and each job are scheduled, and a run of the
solver ends because of its limits. SIGINT is not fair. `SSHScheduler!Fairness`: the main
thread and each job are scheduled, requests are answered or fail, and a tool
that is run ends by its time limit. `SATModule!FairSpec` and `LRAModule!FairSpec`:
within a check, which is one thread, the search goes on (weak fairness of
`Search`, in SATModule written out, as `Search` is enabled exactly while the module
is not idle or capped); that the user checks again, or that the backends lend
their propagations, is not fair.

`CHECK_DEADLOCK` is off for `UnionFind`, where the process may have ended
(`failed`), and for `LRAModule`, whose liveness run leaves the user free to stop;
the other modules stutter explicitly where they end.

### Findings

* **`sat_removal`** — `SATModule.cpp:266`: removeCore backtracks to level 0 and drops
  all learnt clauses, but literals that the removed formula has fixed on level 0
  stay. With the clauses a∨b, a∨¬b, ¬a∨b and ¬a∨¬b: add three, check, remove
  one, add the fourth; the next check answers UNSAT for three clauses that are
  satisfiable. `SATModule.h:696` says that removeCore "removes everything
  related to the given sub-formula".

### Deviations without a run

Met while modelling; most can be reproduced by stating the formula named as an
invariant of the module. They are kept out of the runs so that these ask each
question once.

* `ThreadPool`, `NoUseAfterFree`: `deleteTask` lowers `mNumberThreads` before the worker
  calls `notify`, locks `mQueueMutex` and lowers `mCounter`; the spin of the destructor
  (`ThreadPool.h:123`) can end in between.
* `Manager`, `ResetEmpties`: `Manager.cpp:314` asserts that the list is empty once all
  levels are popped; formulas asserted below the first level are still there.
* `Manager`, `ObjectiveInModel`: `Manager.cpp:159`: the iterator moves to the next
  objective before the value of the current one is looked up.
* `Backends`, `UnsatHasSubset`: a conflict found by a backend that is not among the
  used ones gives UNSAT without an infeasible subset (`Module.cpp:817`, against the
  assertion of l. 134).
* `UnionFind`, `NeverBeyond`: only the newest version is resized for late variables
  (`UnionFind.h:257`); backtracking returns to one that is too small.

* `ThreadPool`: a worker notifies a slot by number after its future is ready. By
  then the slot may belong to the next call, which is then woken, skips its own
  tasks and returns ABORTED with no answer found; `Module.cpp:924` asserts the
  contrary. (An ABORTED call has a task or an outer round with a verdict.)
* `ThreadPool`: a backend that answers UNKNOWN first ends the round;
  `Module.cpp:834` says "until the first answers true or false".
* `Manager` with `FullSpec`: after `remove()` of the formula a backtrack point
  refers to, no list position equals its iterator, so `pop()` empties the list
  (`Manager.cpp:284`; `Manager.h:164` says otherwise).
* `Manager` with `FullSpec`: `removeObjective()` of an older objective shifts the
  positions kept in backtrack points, so that a later `pop()` removes an objective
  older than its level.
* `Backends`, sequential: the model is taken from the first used backend that is
  not ABORTED (`Module.cpp:702`), also if it answered UNKNOWN and a later one SAT
  (`Module.h:1027`); in parallel `ModelIsFresh` fails, as a skipped backend keeps
  an older SAT.
* `Backends`: `remove()` moves a backend's first unchecked formula on to one it
  was not told of (`Module.cpp:204`); when that one is erased before it is passed,
  the iterator dangles (`unchecked = Dangling`).
* `Backends`: a backend created late that finds a conflict while catching up
  raises the round's flag; a backend before it may then give up, and the module
  answers ABORTED (`Module.cpp:845`, against the assertion of l. 924).
* `Backends`: `deinform()` leaves the constraint in `mInformedConstraints`, so a
  backend created later is informed of it again (`Module.h:268`).
* `UnionFind`: `updateModel` before the first `addCore` after an `informCore` looks up
  a variable without an index; `translate.at` throws in a `noexcept` function
  (`failed = "unindexed"`).
* `Delta` with `Concurrency = 0`: where `hardware_concurrency()` is not known,
  `consume()` waits for room in an empty queue for ever.

* `SSHScheduler`: a failing `executeCommand()` returns without destroying its channel
  (`SSHConnection.h:243`); with all cores in use `assert(!busy())` (l. 33) then fails.
* `SSHScheduler`: two tools whose binaries have the same file name overwrite each
  other on the nodes (`SSHScheduler.h:106`); `RunsOwnBinary` excepts them.
* `SSHScheduler`: a node configured with 0 cores makes `get()` search for ever while
  it holds the mutex; a request that fails in `createTmpDir` or `removeDir` calls
  `exit`, and all results so far are lost; failed uploads are ignored.
* `SATModule`, `fixed`: besides the finding, the assertion that the passed formula is
  empty after removeCore (`SATModule.cpp:269`) fails. removeCore also sets `ok`
  (l. 277) without going back to before the level 0 that made the check UNSAT: what is
  left there is not propagated again, and after the removal of one of {a∨b, a∨¬b,
  ¬a∨b, ¬a∨¬b} a check can decide with a false clause, and answer SAT.
* `SATModule`, `missed`: a clause added while literals of it are false on level 0
  is attached as it is; if they make it unit or false, nothing propagates it, and
  a check can answer SAT with a clause unsatisfied.
* `SATModule`, `reason`: a theory conflict that is asserting already becomes the
  reason of its literal without being reordered, although `analyze` expects the
  implied literal first (comment at l. 3366).
* `SATModule`, `dropped`: that conflict becomes the reason as it is, also when
  minimisation left a literal out and lowered the level to go back to
  (`SATModule.cpp:3021`). The reason then has literals that are not assigned any
  more, against the assertion of l. 3374 when a later `analyze` comes by it. It takes
  five variables, a conflict of two assumptions and two theory conflicts that
  overlap, which no instance here has; the proofs came upon it.
* `SATModule`, `excluded`: assumptions that are true on a lower level open no level
  with a theory call (l. 2601), so an assignment can be excluded by an empty
  clause (against the assertion of l. 1694); with two equal unit lemmas the search
  excludes for ever. The exclusions of one check also stay for the next
  (`again`).
* `SATModule`, `stale`: theoryCall() adapts the passed formula only while the
  consistency is not SAT (l. 2607), but a final check runs the backends in any case (l.
  2612), against the comment of l. 2606 that they are asked about the literals
  assigned positively. A literal that has been undone is then still passed, and a
  theory propagation can have it as a premise. The reason has a literal that is not
  false, `analyze` takes it for one of its level, and may learn a clause that does not
  follow. With the conflicts {1, ¬5} and {5, ¬1, 2}, backends that give up on {1}
  and restarts, `LearntImplied` fails without this exception; the instance of
  `sat_learning` has such reasons too, but learns nothing wrong from them.
* `SATModule`, `forgotten`, `late`: a restart or a new check sets the consistency to SAT
  with literals still to be passed; making a true literal relevant does not set it
  to UNKNOWN.
* `LRAModule`: `activateBound` walks over the opposing bounds only up to the first
  inactive one (`LRAModule.cpp:950`), and `removeCore` looks for a conflict only at
  nonbasic variables (l. 276). With four constraints of one slack variable s, of
  which s ≤ 1 is only informed: add s ≤ 0, s ≤ 2 and s ≥ 3, which records the
  conflict of the first and the last alone; remove s ≤ 0. Now s has the upper
  bound 2 and the lower bound 3, and no infeasible subset is known. The next check fails
  `assert(!mTableau.isConflicting())` (l. 359); without assertions it pivots s to
  one of its bounds, where no search looks at it any more, and answers SAT, against
  `assert(assignmentCorrect())`. `ModelRight` fails in that instance (a family with these
  bounds); in the instance of `lra` no variable has
  more than two finite bounds on one side.
* `LRAModule`: `activateBound` and `removeCore` note a conflict between two bounds with
  one origin of each (`*bound.origins().begin()`, l. 953 and 291). Add x < 1, x ≤ 1,
  x ≠ 1 and x ≥ 1: the strict bound has the origins {x < 1} and {x ≤ 1, x ≠ 1}, and the
  subset {x < 1, x ≥ 1} is noted. Remove x < 1: the subset goes with it, the strict bound
  stays for its other origin, and x has conflicting bounds without an infeasible
  subset. `NotConflicting`, the assertion of l. 359, fails in this instance (the
  last family); without assertions the answer may be SAT, which is why `ModelRight`
  excepts states in which a conflict is `Forgotten`.
* `LRAModule`: `activateStrictBound` builds the origins after the first from a vector
  that has been moved from (`originSet` instead of `originSetB`, l. 1029); it takes a weak
  bound with two origins, which only learnt bounds give.
* `LRAModule`: the list of bounds of a constraint gets the same strict bound once more each
  time an inequation is added next to it (the model keeps a set). An inequation
  whose strict bound goes while another of its four bounds is active stays
  resolved without one; the answer is then UNKNOWN where it could be SAT or UNSAT.

## 4. What is proved

The theorems hold for every value of the constants that meets the named
assumptions, which TLC evaluates in each run: `BoundsAssumption` (the bounds of
ThreadPool are natural numbers), `ManagerAssumption` (so are Manager's),
`BackendsAssumption` (a backend's condition is a set of sets of formulas; the
empty set is no conflict), `DeltaAssumption` (each document has sequences of
changes that are documents; the original passes; the bounds are natural
numbers), `SchedulerAssumption` (there is a solver binary, a machine has cores, and the jobs
are listed solver by solver), `UnionFindAssumption` (finitely many variables;
a literal relates two different ones, and is not also written swapped),
`TableauAssumption` (variables are numbers, terms have coefficients -1, 0 and 1, constraints
bound variables by limits of less than 100 in absolute value),
`LRAAssumption` (families are sets of constraints) and `SATAssumption` (literals are
integers other than 0, finitely many variables are the theory's, a formula is not
empty and stands in a script once, a theory conflict is of theory literals, and
what has none has a model). The limits are bounded because
`Tableau` writes an infinite bound as one with the limit ±100, beyond all
others. Nothing else is assumed. The bounds stay in the guards, so a theorem speaks of any finite number of tasks, levels, objectives or jobs.

None of the safety properties is inductive by itself; each proof strengthens it
to an `IInv`, which `tlapm` shows to hold initially and to survive every action
(one lemma or step per action).

**`ThreadPool_proofs`.** `IInv` = `TypeOK` ∧ `CallsWellFormed` ∧ `TasksWellFormed`
∧ `SlotOwnership` ∧ `ModulesQuiescent`. That a call owns its slot needs what a
call at a given `cpc` must hold, and what a worker must still do before the call
can return; that in turn is why the two are one induction. On top of it:

* `TypeCorrect`, `SlotSafety`, `Quiescence`: no two calls share a slot; no task
  works for modules whose call has returned, however late its notification.
* `CounterCorrect`, `NumberThreadsCorrect`: `mCounter` and `mNumberThreads` are
  cardinalities of sets of threads; each step adds or removes one element.
* `VerdictCorrect`: a call that reaches the pool returns a verdict only if one of
  its tasks found it, and does not lose it.

**`Manager_proofs`.** `IInv` = `TypeOK` ∧ `BacktrackPointsValid` ∧ `BackendInSync` ∧
`CheckWellFormed`. A backtrack point is valid for the levels above it as well,
so the points are ordered; the levels that `check()` added lie above the user's,
which `CheckWellFormed` says for each `pc`. Then `VarsInv` for the variables of
objectives (none is newer than the last one made, and what a pop recycles are the
variables of the objectives it removes, `RecycledFacts`), and the refinement.

* `TypeCorrect`, `PointsStayValid`, `BackendKnowsList`, `ObjectiveVarsUnique`.
* `ManagerImplementsStack`: every behaviour of `Spec` is one of `AssertionStack`
  (`StepRefines`, action by action: the steps of `check()` stutter, as only the
  user's levels are mapped). These theorems are about `Spec`, without `remove`,
  `removeObjective` and `reset`, under which some of them are false (above).
* `FullTypeCorrect`, `BackendNeverStale`: what survives in `FullSpec`, with those
  operations. `FullInv` = `TypeOK` ∧ `ToldOnlyListed` ∧ `LivePointsInList` ∧
  `ChecksOwnLevels`: after `remove` a point may lie past the backend's part of the
  list, but what the backend was told is still listed, in order, because the
  formulas of a popped level are told off one by one and `check()` pops no level
  that is not its own.

**`Backends_proofs`.** `IInv` = `TypeOK` ∧ `PassedIsPrefix` ∧ `BackendsToldPassed` ∧
`Announced` ∧ `BackendsSound` ∧ `OwnSubsets` ∧ `OwnUnsat` ∧ `CheckWellFormed` ∧
`AnswerSound`. A backend's verdict is right for what *it* was told, so the
module's is right because backends are told what is passed, which is a part of
what is received, and all of it once a check is under way; that needs the
positions of each backend relative to the module's, and what `remove` does to
both.

* `TypeCorrect`, `CopyByPosition`, `BackendsInStep`, `InformedFirst`,
  `SubsetsSound`, `AnswersCorrect`, `UnsatPersists`.
* `SequentialModelFresh`: in sequential mode (assumed in the theorem) a model
  comes from a backend that ran in this round. It adds to `IInv` which backends
  have run when the next one is chosen. In parallel mode it is false (above).

**`Delta_proofs`.** `IInv` = `TypeOK` ∧ `Position` ∧ `Queue` ∧ `FilesMade` ∧
`FilesDistinct` ∧ `JobsOfRound` ∧ `Covered` ∧ `FinishedIsMinimal`. `Covered` is the
argument for minimality: a change before the producer's position has a job in
this round, or lies among the nodes skipped; when nothing was found and nothing
skipped, every change was tried and failed.

* `TypeCorrect`, `FilesNeverShared`, `FinishedMinimal`, `NeverMoreThreads`,
  and the action property `EachStepOneChange`: `root` changes only to a document
  that passes and is one change away.

**`SSHScheduler_proofs`.** `IInv` = `TypeOK` ∧ `JobsWellFormed` ∧ `CountsRight` ∧
`MutexRight` ∧ `QueueRight` ∧ `ToolsInOrder` ∧ `UploadedRight`. The counters
of a connection are cardinalities of sets of jobs, by their place in the code,
plus the channels leaked and the upload under way (`CountsRight`); the mutex
keeps a core that the upload has seen free from being taken (`MutexRight`); jobs
start in the order of the solvers, each after its binary went to every host
(`ToolsInOrder`, `UploadedRight`); the futures waited for are an interval
(`QueueRight`).

* `ChannelsSuffice` (`ChannelFree`), `OwnBinaryRuns` (`RunsOwnBinary`),
  `ResultsComplete` (`AllStored`), and `TypeCorrect`.

**`UnionFind_proofs`.** `IInv` = `HistoryRight` ∧ `TranslationRight` ∧
`VersionsRight` ∧ `RoomForAll` ∧ `AnswersRight` ∧ `ModelRight` ∧ `OthersTyped`.
`VersionsRight` says that the k-th version of the forest connects exactly what
the first k equalities received connect, and how: parents have a higher rank, so
`find()` ends (`Find` is well defined by the greatest rank below the root's, an
induction over numbers); two variables have the same root exactly if a path of
received equalities joins them; the explanation graph has these equalities for
its edges. `RoomForAll` says that all versions have room for every variable, unless one
became known after the first `add`: only then can `find` read beyond its array.
Inductions are done by the least number without the property, and over finite
sets by a smallest subset (lemmas without operator parameters).

* `BacktrackingExact` (`VersionsExact`): whatever was added, removed and checked in
  between, a version after backtracking is the one of the equalities left.
* `ExplanationsMinimal` (`SubsetsMinimal`): a subset reported is a shortest path of
  received equalities and the disequality it contradicts, and removing any
  member leaves it consistent.
* `AnswersExact` (`AnswerExact`), `ModelSatisfies` (`ModelRight`), `TypeCorrect`.

**`LRAModule_proofs`.** `IInv` = `TypeOK` ∧ `Whole` ∧ that an answer UNSAT has an infeasible
subset. `Whole` speaks of the record that the functions of `AddCore` and `RemoveCore`
pass on: every origin of a bound is received, and each constraint in it still
leads to the bound, as one of its own bounds or as a strict one it answers for
(`OriginsTracked`: without it, a removed constraint could stay an origin for ever);
every received constraint is an origin of its own bound; the bounds of a
variable are its strongest active ones (`Strongest`); an inequation is unresolved,
and passed, exactly while its four bounds are inactive; infeasible subsets are
received; nonbasic variables are within their bounds, and the rows set aside
are basic (`Inside`). One lemma for each function gives what it leaves (`Activated`,
`MadeStrict`, `Resolved`, `Deactivated`, `Reduced`, `Drained`). That a strongest bound exists follows
from `Below` being the order of an integer (`Key`); what `Withdrawn` and `Without` leave is
an induction over numbers.

* `BoundsCorrect` (`BoundsRight`), `TypeCorrect`.
* `ConflictsAreReceived`: `ConflictsReceived`, all of `ConflictsRight` but that the subsets are
  unsatisfiable.
* `NonbasicsWithinBounds`: `NonbasicWithin`, of `SimplexInvariant` the part that lets the search
  look at basic variables only.

**`SATModule_proofs`.** `IInv` = `Sound(sat)` ∧ `Phase` ∧ `Requested`, until the tag `dropped`.
`Sound` speaks of the record that the functions of the module pass on:

* `Ordered`: a variable is on the trail once, levels do not fall, and the other literals
  of a reason were assigned before. Without the last, `analyze` could come by a
  literal that is no longer there; this is what `dropped` breaks.
* `QueueFresh`: what is not propagated yet is of the current level, so that a clause found
  false, or a theory conflict, has a literal of that level (`ConflictNow` in `Phase`)
  and `analyze` ends with exactly one variable open.
* `Counted`: `updateInfo` of a literal is what `adaptPassedFormula` has yet to do about
  it (`Due`), and where it is not 0 the variable is among `mChangedBooleans`.
* `Placed`: each position noted on the trail holds the explanation of that literal, and
  each place but the first belongs to an entry of the trail. Only with the second
  half does the move of the last explanation not lose one.
* `KnownFirst`, `WatchesTwo` and the types.

What the recursive functions compute (`Undone` down the trail, `StoredFrom`, `Taken`,
`Analyzed`, `Explained`) is followed by induction over numbers: a step lemma for each
(`AnalyzedSteps`, `TakenSteps`, ...), and for each operation one on what it leaves. That
`lemma_lt` has a first literal in every finite clause is proved by its rank and index.
Then one lemma per action.

* `Invariance`, `TypeCorrect` (until `dropped`, which the invariant in the configurations
  does not need).
* `PassedFormulaRight` (`PassedFormulaCorrect`): what is passed to the backends is what is true
  and relevant, through any backtracking.
* `ExplanationsFound` (`ExpPositions`): so that `reason()` explains a literal by its own
  propagation.

What two watches guarantee takes a second invariant on top of `IInv`, `WInv` = `Watched`
until `fixed`, `missed`, `again` or `dropped`. A clause is *overlooked* at a place of the
trail when both its watched literals are false up to there, one of them by the entry at
that place, and no literal of it is true at the level of that entry or below
(`Overlooked`). The level matters: a clause that was passed over because another of its
literals is true is safe only as long as backtracking cannot undo that literal and leave
the false watches.

* `SettledBelow`: no clause is overlooked at a level below the current one, so that
  nothing is when that level is undone.
* `SettledSeen`: nor at a place that has been dequeued, but for the clauses at the literal
  that `propagate` is just visiting (`todo`). It holds while the search runs, except in a
  conflict, and between calls unless a clause has been excluded (`Searching`).

`Onward` says what keeps both: entries are only appended, at the current level, and each
clause is watched as before, or it has a watch that is not false below the current level
and one that is not false before what is still in the queue. The explanations of theory propagations
and their clauses are of this kind; a conflict keeps `SettledBelow` and, once it has gone
back a level, has `SettledSeen` again (`SettledBack`); a clause added between calls is where
`missed` comes from. `WInv` was checked with TLC on the three configurations of SATModule
before it was proved.

* `NothingOverlooked`: `WInv`.
* `NothingFalsified` (`NoFalsified`): when `search` decides, everything is dequeued and no clause
  is visited, so nothing is overlooked, and a clause with all literals false would be.
  `NoFalsified` itself excepts `fixed`, `missed` and `again`; `dropped` is an exception of
  the proof only.

What the clauses say takes a third invariant, `MInv` = `Traced` until one of the tags
`fixed`, `reason`, `excluded`, `stale` and `dropped` (`Sober`). Its first half, `Right(M)`, is
said of every model M of what is received now: M satisfies every clause, every assumption and every
entry of the assumption levels; the reason of an entry has a literal of M, the literal
itself, and else only literals that were false before (`EntryAgrees`); what has no reason
and is above the assumptions is the first of its level; and a clause in conflict has a
literal of M that is false (`Opposed`). Then

* resolving keeps a literal of M that is false, and so does minimisation, because what it removes
  is implied by what stays (the recursion of `Minimized` is followed by induction over the trail);
  a learnt clause is therefore satisfied by M, and when it is a unit it is fixed where M has it;
* no literal of M is false without a decision, so neither `AssumptionFails` nor
  `ConflictAtRoot` is enabled (`RefutedNever`), which are the ways to `UNSAT`;
* what the theory hands over is satisfied by every valuation that it accepts (`Sense`), and
  `AddClause` drops only literals that are false at level 0, which M does not have.

`Right` alone is not inductive: when a formula is removed there are more models, and nothing said of
the old ones helps with the new. `Lasts` is said of every M that the theory accepts, a model or not:
either a literal is fixed on level 0, in which case removing a formula sets the tag `fixed`,
or each assumption is in M, or is a received literal that occurs once (`Founded`). With
that, `RemoveCore` takes away the only assumption that the removed literal was the cause
of; `Kept` does the rest, as it leaves only received clauses.

* `ModelsKept`: `MInv`.
* `ExclusionsRemembered`: `XInv`, that `excluded` is not lost before the answer, for which `Passes` says
  of each step what becomes of the flag.
* `UnsatCorrect` (`UnsatRight`): from both. `LearntCorrect` (`LearntImplied`): from `ModelsKept`.

### Only model-checked

* Liveness: `CallReturns`, `DestructorEnds` (ThreadPool), `Terminates` (Delta), `Ends`
  (SSHScheduler), `CheckEnds` (SATModule, LRAModule).
* Of `SATModule`: `SatRight`. It relates three things at the end of a search: the last model of the
  backends, what they were last asked, and what has become true since. An invariant
  for it has to follow `mChangedPassedFormula` and `consistent` through levels below the
  assumptions, where the theory is not asked and an assumption that is true already
  raises the level without asking; none was found that is inductive.
* Of `LRAModule`: that the subsets of `ConflictsRight` are unsatisfiable, and `ModelRight`, which
  speak of sums over sets of any size (`MapThenSumSet`, with an operator as a parameter);
  and what the rows say in `SimplexInvariant`. A row is right after a pivot only if its
  entries are -1, 0 or 1, which is a property of the terms of the instance
  (total unimodularity), not of all terms that the assumption admits.
* The violated property: a run shows a behaviour, and there is nothing to prove.

The other way round, these are proved and not run any more: the type
invariants of all modules, `CounterExact`, `NumberThreadsExact`,
`InformedBeforeTold`, `SubsetsCurrent`, `ThreadsBounded`. `RanksGrow` and the invariants named under the
deviations can be added to a configuration of their module.

## 5. Plan

Done, in this order: `ThreadPool`, `Manager` with `AssertionStack`, `Backends`,
`Delta`, `UnionFind`, `SSHScheduler`, `SATModule`, `Tableau` with `LRAModule`; their
proofs.

Proofs to add, the most important first:

1. **`SATModule`**: `SatRight` (on top of `NothingFalsified` and `PassedFormulaRight`).
2. **`LRAModule`**: the subsets of `ConflictsRight` that come from two bounds are
   unsatisfiable.

Modules that could follow, each on top of what is here:

1. **`ModuleInput` origins and `PModule`** (passed formulas with several origins):
   removing an origin removes exactly the formulas it alone supports.
2. **`VariableBounds`** (lib/datastructures), whose bounds with origins resemble
   `Tableau`'s.
3. **`SATModule` over `LRAModule`**: the composition, with `Backends` as the contract
   between them; each is checked against that contract now.
4. **Unsat cores, the cli Executor and Limiter**: loops around `Manager`.
5. **Candidates after these**: `EQModule`, UFCegar's refinement loop, IncWidth's
   growing bounds, MCSAT's levels, the branch and bound of LRA.

## 6. What is not modelled, and why

* **Real algebra** (VS, ICP, CAD, Groebner, FouMo, STrop, quantifier
  elimination, MCSAT's explanations): what these compute is not finite, and what
  they owe their callers is the backend contract of `Backends`.
* **Rewriting** (preprocessing, bit-vectors, pseudo-Boolean, Curry): nearly
  stateless functions on terms. Their state is the origins, which are planned.
* **I/O, parsing, options, statistics, the GUI, the trace viewer.**
* **Within SATModule**: MCSAT, the shortcut for propositional input, deleting
  learnt clauses (`reduceDB`), the CNF transformation and the origins of clauses,
  optimising checks and enumeration of models, the order of decisions (any
  unassigned variable), lemmas left over when the search is refuted.
* **Within LRAModule**: nonlinear constraints and the backends they are passed to,
  integers with branch and bound and Gomory cuts, optimisation, refinements
  and learnt bounds (LRASettings1), theory propagation, `deinformCore`, the lemma
  by which an inequation is split, entries that are not -1, 0 or 1.
* **Within other modelled components**: lemmas, splitting and the passed formula's
  several origins (Backends); the second traversal of delta, which no option
  reaches; ThreadPool's `mQueue`, into which nothing is pushed; theory
  propagation of UnionFind, which its settings switch off.

### Small differences

Where a model leaves out, or does at once, what the code does in an odd corner,
and why the properties do not depend on it:

* `SATModule!StoreLemma`: a lemma that makes `ok` false ends the check and the rest of the
  queue is dropped; the code returns early and leaves it in `mLemmas`
  (`SATModule.cpp:1914`, 1941). Lemmas follow from the theory, so one that is taken up in
  a later check is one that the backends could also give then.
* `SATModule!Explain`: an explanation of one literal stays unattached. The code gives it
  a second literal that is false and attaches it (l. 2558): as a clause it says the
  same, never propagates another literal, and can only show a conflict earlier.
* `SATModule!RemoveCore` always adapts the passed formula; the code skips that for purely
  propositional input (l. 267), where nothing is passed but what an earlier input has
  fixed on level 0; such a run carries the tag `fixed`.
* `SATModule!Exclude`: when the excluding clause leaves `ok` false, the check ends. The code
  runs `propagateConsistently` once more first. Without assumptions that may be one more
  round of the theory, whose answer is not used: with `ok` false the check is over.
  Later checks carry the tag `again`.
* `SATModule!Answers`: a backend that is asked again without a change of the passed formula
  may answer, but keeps its model, as what it was told has not changed (l. 2607-2618).
  The exits on `anAnswerFound()` and ABORTED (l. 2415, 2687) belong to the parallel mode,
  which is the matter of `Backends` and `ThreadPool`.
* `LRAModule!ActivateStrict` treats the first origin of the weak bound. The loop over
  further ones (`LRAModule.cpp:1014-1032`) needs two received constraints that are the same.
* `Tableau!Bound` holds the bounds of all constraints of the run, the code those it has been
  informed of. A bound without an active origin may end the walk of l. 950 earlier;
  in the four families every bound beyond is reached all the same.
* `Tableau!Pivot` divides a row only where entries are -1, 0 or 1 (above).

**Assumptions about code outside `src/`.** In `SATModule`, `Answers`, `Lemmas`,
`Propagable` and `Propagations` are what backends may do: a right answer, clauses
and propagations that follow from the theory. carl evaluates a constraint
exactly. carl keeps the conjuncts of a
conjunction distinct and normalises an equality, so that the same equality
swapped is the same formula. A system call returns exit codes as `delta`'s
checker reads them. A future's `get` returns once its promise is kept or broken; waiting on a
condition variable is the wait for its flag, as every wait has a predicate or
a loop around it.
