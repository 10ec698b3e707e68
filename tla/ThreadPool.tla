----------------------------- MODULE ThreadPool -----------------------------
(***************************************************************************)
(* The thread pool that runs the backends of a module in parallel          *)
(* (smtrat-solver/ThreadPool.{h,cpp}), together with the parts of          *)
(* Module::runBackends and Module::foundAnswer it is used from.            *)
(*                                                                         *)
(* Thread Main (0) drives the solver.  Every task gets a detached thread   *)
(* of its own, so a task and its thread share one number.  A thread that   *)
(* executes Module::check may itself call runBackends, which blocks it:    *)
(* every thread has at most one call in progress.                          *)
(*                                                                         *)
(* A slot of mBackendSynchros holds the thread whose synchronisation object *)
(* it points to, or nullptr; mFireFlag[t] is the flag of that object.      *)
(* mQueue is left out: the only push to it is commented out                *)
(* (ThreadPool.cpp:49-52), so a worker always finds it empty.              *)
(***************************************************************************)
EXTENDS Integers, Sequences, FiniteSets

CONSTANTS MaxTasks,   \* bound: tasks created in a behaviour
          MaxModules  \* bound: backends handed to one runBackends call

ASSUME BoundsAssumption == MaxTasks \in Nat /\ MaxModules \in Nat

Main == 0
Task == 1 .. MaxTasks
Thread == 0 .. MaxTasks
nullptr == MaxTasks + 1

Verdict == {"SAT", "UNSAT"}
Answer == Verdict \cup {"UNKNOWN", "ABORTED"}

VARIABLES
    mCounter,          \* running threads, parked callers excluded
    mNumberThreads,    \* 1 + the tasks submitted and not yet deleted
    mBackendSynchros,  \* the slots
    mFireFlag,         \* per thread: its synchronisation object has fired
    created,           \* tasks allotted to calls so far
    cpc,               \* per thread: where its runBackends call stands
    index,             \* per thread: the slot of its call (counted from 1)
    lo, hi, next,      \* per thread: the tasks of its call, the next to submit
    ret,               \* per thread: what its last runBackends call returned
    found,             \* per thread: mBackendsFoundAnswer of the module it runs
    wpc,               \* per task: where its thread stands in runTask
    owner,             \* per task: the thread that created it
    mFoundAnswer,      \* per thread: the rounds whose flags its module consults
    mConditionalIndex, \* per task: the slot it was created for
    future             \* per task: its answer, "pending" or "broken"

poolVars == <<mCounter, mNumberThreads, mBackendSynchros, mFireFlag>>
callVars == <<created, cpc, index, lo, hi, next, ret>>
taskVars == <<wpc, owner, mFoundAnswer, mConditionalIndex, future>>
vars == <<poolVars, callVars, found, taskVars>>

Init ==
    /\ mCounter = 1
    /\ mNumberThreads = 1
    /\ mBackendSynchros = <<>>
    /\ mFireFlag = [t \in Thread |-> FALSE]
    /\ created = 0
    /\ cpc = [t \in Thread |-> "out"]
    /\ index = [t \in Thread |-> 0]
    /\ lo = [t \in Thread |-> 1]
    /\ hi = [t \in Thread |-> 0]
    /\ next = [t \in Thread |-> 1]
    /\ ret = [t \in Thread |-> "none"]
    /\ found = [t \in Thread |-> FALSE]
    /\ wpc = [w \in Task |-> "unused"]
    /\ owner = [w \in Task |-> Main]
    /\ mFoundAnswer = [t \in Thread |-> {}]
    /\ mConditionalIndex = [w \in Task |-> 0]
    /\ future = [w \in Task |-> "pending"]

TasksOf(t) == lo[t] .. hi[t]

AnAnswerFound(t) == \E r \in mFoundAnswer[t] : found[r]

SlotTaken(i) == i \in DOMAIN mBackendSynchros /\ mBackendSynchros[i] # nullptr

-----------------------------------------------------------------------------
(* The calling thread: Module::runBackends, then ThreadPool::runBackends.  *)

MayCall(t) == cpc[t] = "out" /\ (t = Main \/ (t \in Task /\ wpc[t] = "running"))

(* Module::runBackends clears the flag of its round and returns at once if *)
(* there is no backend, if one finds a conflict in what it is told, or if  *)
(* an enclosing round has its answer already.                              *)
ReturnAtOnce(t) ==
    /\ MayCall(t)
    /\ found' = [found EXCEPT ![t] = FALSE]
    /\ \/ \E a \in {"UNKNOWN", "UNSAT"} : ret' = [ret EXCEPT ![t] = a]
       \/ AnAnswerFound(t) /\ ret' = [ret EXCEPT ![t] = "ABORTED"]
    /\ lo' = [lo EXCEPT ![t] = created + 1]
    /\ hi' = [hi EXCEPT ![t] = created]
    /\ UNCHANGED <<poolVars, created, cpc, index, next, taskVars>>

(* Otherwise it hands n backends to the pool; their Conditionals are those *)
(* of the calling module and the flag of the new round.                    *)
Call(t) ==
    /\ MayCall(t)
    /\ ~AnAnswerFound(t)
    /\ \E n \in 1 .. MaxModules :
        /\ created + n <= MaxTasks
        /\ created' = created + n
        /\ lo' = [lo EXCEPT ![t] = created + 1]
        /\ hi' = [hi EXCEPT ![t] = created + n]
        /\ next' = [next EXCEPT ![t] = created + 1]
        /\ owner' = [w \in Task |->
              IF w \in created + 1 .. created + n THEN t ELSE owner[w]]
        /\ mFoundAnswer' = [w \in Thread |->
              IF w \in created + 1 .. created + n THEN mFoundAnswer[t] \cup {t}
                                                  ELSE mFoundAnswer[w]]
    /\ found' = [found EXCEPT ![t] = FALSE]
    /\ ret' = [ret EXCEPT ![t] = "none"]
    /\ cpc' = [cpc EXCEPT ![t] = "enter"]
    /\ UNCHANGED <<poolVars, index, wpc, mConditionalIndex, future>>

(* A new synchronisation object at the end of the slots.                   *)
Enter(t) ==
    /\ cpc[t] = "enter"
    /\ index' = [index EXCEPT ![t] = Len(mBackendSynchros) + 1]
    /\ mBackendSynchros' = Append(mBackendSynchros, t)
    /\ mFireFlag' = [mFireFlag EXCEPT ![t] = FALSE]
    /\ cpc' = [cpc EXCEPT ![t] = "submit"]
    /\ UNCHANGED <<mCounter, mNumberThreads, created, lo, hi, next, ret, found,
                   taskVars>>

(* One task and one detached thread per backend.                           *)
Submit(t) ==
    /\ cpc[t] = "submit"
    /\ next[t] <= hi[t]
    /\ wpc' = [wpc EXCEPT ![next[t]] = "spawned"]
    /\ mConditionalIndex' = [mConditionalIndex EXCEPT ![next[t]] = index[t]]
    /\ mNumberThreads' = mNumberThreads + 1
    /\ next' = [next EXCEPT ![t] = @ + 1]
    /\ UNCHANGED <<mCounter, mBackendSynchros, mFireFlag, created, cpc, index,
                   lo, hi, ret, found, owner, mFoundAnswer, future>>

Park(t) ==
    /\ cpc[t] = "submit"
    /\ next[t] > hi[t]
    /\ mCounter' = mCounter - 1
    /\ cpc' = [cpc EXCEPT ![t] = "wait"]
    /\ UNCHANGED <<mNumberThreads, mBackendSynchros, mFireFlag, created, index,
                   lo, hi, next, ret, found, taskVars>>

ClearSlotByErasing(slots, i) == SubSeq(slots, 1, i - 1) \o SubSeq(slots, i + 1, Len(slots))
ClearSlot(slots, i) == [slots EXCEPT ![i] = nullptr]

(* wait() returns; the slot is cleared and the empty slots at the end go:  *)
(* n is the last slot still in use.                                        *)
Wake(t) ==
    /\ cpc[t] = "wait"
    /\ mFireFlag[t]
    /\ LET slots == ClearSlot(mBackendSynchros, index[t])
       IN  \E n \in 0 .. Len(slots) :
             /\ n # 0 => slots[n] # nullptr
             /\ \A i \in n + 1 .. Len(slots) : slots[i] = nullptr
             /\ mBackendSynchros' = SubSeq(slots, 1, n)
    /\ mCounter' = mCounter + 1
    /\ cpc' = [cpc EXCEPT ![t] = "collect"]
    /\ UNCHANGED <<mNumberThreads, mFireFlag, created, index, lo, hi, next, ret,
                   found, taskVars>>

(* The loop over the futures.  get() blocks until the task has answered or *)
(* has been deleted unrun, so the loop ends once all are resolved.         *)
CollectedUnknownWins(answers) ==
    IF "UNKNOWN" \in answers THEN "UNKNOWN"
    ELSE IF "SAT" \in answers THEN "SAT"
    ELSE IF "UNSAT" \in answers THEN "UNSAT"
    ELSE "ABORTED"

Collected(answers) ==
    IF "SAT" \in answers THEN "SAT"
    ELSE IF "UNSAT" \in answers THEN "UNSAT"
    ELSE IF "UNKNOWN" \in answers THEN "UNKNOWN"
    ELSE "ABORTED"

FirstVerdictSuffices(t) == \/ \E w \in TasksOf(t) : future[w] \in Verdict
                           \/ \A w \in TasksOf(t) : future[w] # "pending"
AllResolved(t) == \A w \in TasksOf(t) : future[w] # "pending"

Collect(t) ==
    /\ cpc[t] = "collect"
    /\ AllResolved(t)
    /\ ret' = [ret EXCEPT ![t] = Collected({future[w] : w \in TasksOf(t)})]
    /\ cpc' = [cpc EXCEPT ![t] = "out"]
    /\ UNCHANGED <<poolVars, created, index, lo, hi, next, found, taskVars>>

(* ~ThreadPool, called by Manager's destructor: spins until it sees no     *)
(* task left.                                                              *)
Destroy ==
    /\ cpc[Main] = "out"
    /\ cpc' = [cpc EXCEPT ![Main] = "destroying"]
    /\ UNCHANGED <<poolVars, created, index, lo, hi, next, ret, found, taskVars>>

Destroyed ==
    /\ cpc[Main] = "destroying"
    /\ mNumberThreads <= 1
    /\ cpc' = [cpc EXCEPT ![Main] = "destroyed"]
    /\ UNCHANGED <<poolVars, created, index, lo, hi, next, ret, found, taskVars>>

-----------------------------------------------------------------------------
(* The worker thread: ThreadPool::runTask.                                 *)

Start(w) ==
    /\ wpc[w] = "spawned"
    /\ mCounter' = mCounter + 1
    /\ wpc' = [wpc EXCEPT ![w] = "started"]
    /\ UNCHANGED <<mNumberThreads, mBackendSynchros, mFireFlag, callVars, found,
                   owner, mFoundAnswer, mConditionalIndex, future>>

(* shallBeSkipped: the slot the task was created for is gone.              *)
Decide(w) ==
    /\ wpc[w] = "started"
    /\ wpc' = [wpc EXCEPT ![w] =
                 IF SlotTaken(mConditionalIndex[w]) THEN "running" ELSE "delete"]
    /\ UNCHANGED <<poolVars, callVars, found, owner, mFoundAnswer,
                   mConditionalIndex, future>>

(* The answers Module::check may give: a verdict its siblings do not       *)
(* contradict (the backends of a round decide the same formula), UNKNOWN,  *)
(* or ABORTED if it saw that an answer was found or passes on the ABORTED  *)
(* of its own backends.                                                    *)
CheckAnswer(w) ==
    {a \in Answer :
       /\ a \in Verdict => \A v \in TasksOf(owner[w]) : future[v] \notin Verdict \ {a}
       /\ a = "ABORTED" => AnAnswerFound(w) \/ ret[w] = "ABORTED"}

(* task->run(): Module::check ends in foundAnswer, which raises the flag   *)
(* of the round, and the promise is fulfilled.                             *)
Run(w) ==
    /\ wpc[w] = "running"
    /\ cpc[w] = "out"
    /\ \E a \in CheckAnswer(w) :
         /\ future' = [future EXCEPT ![w] = a]
         /\ found' = [found EXCEPT ![owner[w]] =
                        @ \/ (a \in Verdict /\ ~AnAnswerFound(w))]
    /\ ret' = [ret EXCEPT ![w] = "none"]
    /\ wpc' = [wpc EXCEPT ![w] = "delete"]
    /\ UNCHANGED <<poolVars, created, cpc, index, lo, hi, next, owner,
                   mFoundAnswer, mConditionalIndex>>

ThreadsAfterRunTasksOnly(w) ==
    IF future[w] = "pending" THEN mNumberThreads ELSE mNumberThreads - 1
ThreadsAfter(w) == mNumberThreads - 1

(* Deleting a task that was not run breaks its promise.                    *)
DeleteTask(w) ==
    /\ wpc[w] = "delete"
    /\ future' = [future EXCEPT ![w] = IF @ = "pending" THEN "broken" ELSE @]
    /\ mNumberThreads' = ThreadsAfter(w)
    /\ wpc' = [wpc EXCEPT ![w] =
                 IF future[w] = "pending" THEN "leaving" ELSE "notify"]
    /\ UNCHANGED <<mCounter, mBackendSynchros, mFireFlag, callVars, found, owner,
                   mFoundAnswer, mConditionalIndex>>

FiresOnVerdict(w, t) == /\ SlotTaken(mConditionalIndex[w])
                        /\ mBackendSynchros[mConditionalIndex[w]] = t
                        /\ future[w] \in Verdict
Fires(w, t) == /\ SlotTaken(mConditionalIndex[w])
               /\ mBackendSynchros[mConditionalIndex[w]] = t

Notify(w) ==
    /\ wpc[w] = "notify"
    /\ mFireFlag' = [t \in Thread |-> mFireFlag[t] \/ Fires(w, t)]
    /\ wpc' = [wpc EXCEPT ![w] = "leaving"]
    /\ UNCHANGED <<mCounter, mNumberThreads, mBackendSynchros, callVars, found,
                   owner, mFoundAnswer, mConditionalIndex, future>>

(* Both ways out of runTask: after a notification, or with mQueue empty.   *)
Leave(w) ==
    /\ wpc[w] = "leaving"
    /\ mCounter' = mCounter - 1
    /\ wpc' = [wpc EXCEPT ![w] = "gone"]
    /\ UNCHANGED <<mNumberThreads, mBackendSynchros, mFireFlag, callVars, found,
                   owner, mFoundAnswer, mConditionalIndex, future>>

-----------------------------------------------------------------------------
CallerStep(t) == \/ ReturnAtOnce(t) \/ Call(t) \/ Enter(t) \/ Submit(t)
                 \/ Park(t) \/ Wake(t) \/ Collect(t)

WorkerStep(w) == Start(w) \/ Decide(w) \/ Run(w) \/ DeleteTask(w) \/ Notify(w)
                 \/ Leave(w)

(* The program has ended and every detached thread has too.                *)
Terminated == /\ cpc[Main] = "destroyed"
              /\ \A w \in Task : wpc[w] \in {"unused", "gone"}
              /\ UNCHANGED vars

Next == \/ \E t \in Thread : CallerStep(t)
        \/ \E w \in Task : WorkerStep(w)
        \/ Destroy
        \/ Destroyed
        \/ Terminated

Spec == Init /\ [][Next]_vars

InPool(t) == Enter(t) \/ Submit(t) \/ Park(t) \/ Wake(t) \/ Collect(t)

(* Every thread the operating system runs makes progress: none of its      *)
(* steps waits for ever once it can be taken.  Whether a module calls its  *)
(* backends again (Call, ReturnAtOnce) is its own choice, but a check ends.*)
Fairness ==
    /\ \A t \in Thread : WF_vars(InPool(t))
    /\ \A w \in Task : WF_vars(WorkerStep(w))
    /\ WF_vars(Destroyed)

FairSpec == Spec /\ Fairness

-----------------------------------------------------------------------------
CallPc == {"out", "enter", "submit", "wait", "collect", "destroying", "destroyed"}
WorkerPc == {"unused", "spawned", "started", "running", "delete", "notify",
             "leaving", "gone"}

(* The types of the pool, the calls and the tasks.                         *)
TypeOK ==
    /\ mCounter \in Int /\ mNumberThreads \in Int
    /\ mBackendSynchros \in Seq(Thread \cup {nullptr})
    /\ mFireFlag \in [Thread -> BOOLEAN]
    /\ created \in 0 .. MaxTasks
    /\ cpc \in [Thread -> CallPc]
    /\ index \in [Thread -> Nat]
    /\ lo \in [Thread -> 1 .. MaxTasks + 1]
    /\ hi \in [Thread -> 0 .. MaxTasks]
    /\ next \in [Thread -> 1 .. MaxTasks + 1]
    /\ ret \in [Thread -> Answer \cup {"none"}]
    /\ found \in [Thread -> BOOLEAN]
    /\ wpc \in [Task -> WorkerPc]
    /\ owner \in [Task -> Thread]
    /\ mFoundAnswer \in [Thread -> SUBSET Thread]
    /\ mConditionalIndex \in [Task -> Nat]
    /\ future \in [Task -> Answer \cup {"pending", "broken"}]

HoldsSlot(t) == cpc[t] \in {"submit", "wait"}

(* Slots are reused and the vector shrinks while other calls are in        *)
(* progress (ThreadPool.cpp:84-91).  Nevertheless the slot of every call   *)
(* that has one is in the vector and points to that call's object, so      *)
(* mBackendSynchros[index] (l.80, 86) is in range and never someone        *)
(* else's object, and no slot points to an object already deleted.         *)
SlotOwnership ==
    /\ \A t \in Thread : HoldsSlot(t) =>
         /\ index[t] \in DOMAIN mBackendSynchros
         /\ mBackendSynchros[index[t]] = t
    /\ \A i \in DOMAIN mBackendSynchros : mBackendSynchros[i] # nullptr =>
         HoldsSlot(mBackendSynchros[i]) /\ index[mBackendSynchros[i]] = i

Active(t) == cpc[t] # "wait" /\
    (t = Main \/ (t \in Task /\ wpc[t] \in {"started", "running", "delete", "notify", "leaving"}))

(* mCounter, which l.47 says "does currently not work correctly", counts   *)
(* exactly the threads that have started, have not ended and are not       *)
(* parked; in particular assert(mCounter > 0) of l.61 holds.               *)
CounterExact == mCounter = Cardinality({t \in Thread : Active(t)})

(* mNumberThreads, on which ~ThreadPool spins, counts the tasks that are   *)
(* submitted and not deleted.                                              *)
NumberThreadsExact == mNumberThreads = 1 +
    Cardinality({w \in Task : wpc[w] \in {"spawned", "started", "running", "delete"}})

(* When runBackends has returned, none of its tasks will run its module    *)
(* any more: the caller goes on to add, remove and check formulas on the   *)
(* same Module objects.  A task that runs, or may still run, belongs to    *)
(* the call its owner is in.                                               *)
ModulesQuiescent == \A w \in Task :
    wpc[w] \in {"spawned", "started", "running"} =>
        w \in TasksOf(owner[w]) /\ cpc[owner[w]] \in {"submit", "wait", "collect"}

(* A call that reaches the pool returns a verdict exactly if one of its    *)
(* backends gave it, however late that backend came (l.93-126).            *)
VerdictFaithful == \A t \in Thread : ret[t] # "none" /\ TasksOf(t) # {} =>
    \A a \in Verdict : ret[t] = a <=> \E w \in TasksOf(t) : future[w] = a

(* Every call of runBackends returns: some task of the round finds the     *)
(* slot of its caller and fires it, and every future is resolved.  It is   *)
(* enough to say so of Main: a nested call belongs to a task of a call     *)
(* that waits for it (ModulesQuiescent), and in the end to a call of Main. *)
CallReturns == cpc[Main] = "enter" ~> cpc[Main] = "out"

(* The destructor's spin ends.                                             *)
DestructorEnds == cpc[Main] = "destroying" ~> cpc[Main] = "destroyed"

-----------------------------------------------------------------------------
(* What the repository says of the pool and the code does not keep.        *)

(* ThreadPool.h:77 keeps mNumberThreads as the number of threads, the main *)
(* thread included, and ~ThreadPool waits until only the main thread is    *)
(* left: no worker uses the pool after it is destroyed.                    *)
NoUseAfterFree == cpc[Main] = "destroyed" =>
    \A w \in Task : wpc[w] \in {"unused", "gone"}
=============================================================================
