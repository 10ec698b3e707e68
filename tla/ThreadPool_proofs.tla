-------------------------- MODULE ThreadPool_proofs --------------------------
(***************************************************************************)
(* Safety of the thread pool for every number of tasks and of backends per *)
(* call.                                                                   *)
(***************************************************************************)
EXTENDS ThreadPool, FiniteSetTheorems, TLAPS

(* The bookkeeping of calls and tasks that the invariants rest on.         *)
CallsWellFormed == \A t \in Thread :
    /\ hi[t] <= created
    /\ cpc[t] \in {"enter", "submit"} => lo[t] <= next[t]
    /\ cpc[t] \in {"enter", "submit"} =>
         \A w \in Task : next[t] <= w /\ w <= hi[t] =>
            owner[w] = t /\ wpc[w] = "unused"
    /\ t \in Task /\ cpc[t] # "out" => wpc[t] = "running"

TasksWellFormed == \A w \in Task :
    /\ created < w => wpc[w] = "unused"
    /\ wpc[w] \in {"unused", "spawned", "started", "running"} =>
         future[w] = "pending"

IInv == TypeOK /\ CallsWellFormed /\ TasksWellFormed /\ SlotOwnership /\ ModulesQuiescent

LEMMA Threads == /\ Task \subseteq Thread /\ Main \in Thread /\ Main \notin Task
                 /\ Thread \subseteq Nat /\ nullptr \notin Thread
                 /\ \A t \in Thread : t = Main \/ t \in Task
                 /\ \A w : w \in Task <=> w \in Nat /\ 1 <= w /\ w <= MaxTasks
  BY BoundsAssumption DEF Main, Task, Thread, nullptr

LEMMA InitIInv == Init => IInv
  BY BoundsAssumption, Threads
     DEF Init, IInv, TypeOK, CallsWellFormed, TasksWellFormed, SlotOwnership,
         ModulesQuiescent, TasksOf, HoldsSlot, CallPc, WorkerPc

LEMMA TypePreserved == ASSUME TypeOK, CallsWellFormed, SlotOwnership, [Next]_vars PROVE TypeOK'
  <1> USE DEF TypeOK, CallPc, WorkerPc
  <1>1. ASSUME NEW t \in Thread, ReturnAtOnce(t) PROVE TypeOK'
    <2>1. ret' \in [Thread -> Answer \cup {"none"}]
      BY <1>1 DEF ReturnAtOnce, Answer, Verdict
    <2>2. lo' \in [Thread -> 1 .. MaxTasks + 1] /\ hi' \in [Thread -> 0 .. MaxTasks]
      BY <1>1, BoundsAssumption DEF ReturnAtOnce
    <2>3. found' \in [Thread -> BOOLEAN]
      BY <1>1 DEF ReturnAtOnce
    <2> QED BY <1>1, <2>1, <2>2, <2>3 DEF ReturnAtOnce, poolVars, taskVars
  <1>2. ASSUME NEW t \in Thread, Call(t) PROVE TypeOK'
    <2>1. PICK n \in 1 .. MaxModules :
            /\ created + n <= MaxTasks
            /\ created' = created + n
            /\ lo' = [lo EXCEPT ![t] = created + 1]
            /\ hi' = [hi EXCEPT ![t] = created + n]
            /\ next' = [next EXCEPT ![t] = created + 1]
            /\ owner' = [w \in Task |->
                  IF w \in created + 1 .. created + n THEN t ELSE owner[w]]
            /\ mFoundAnswer' = [w \in Thread |->
                  IF w \in created + 1 .. created + n THEN mFoundAnswer[t] \cup {t}
                                                      ELSE mFoundAnswer[w]]
      BY <1>2 DEF Call
    <2>2. /\ created' \in 0 .. MaxTasks
          /\ lo' \in [Thread -> 1 .. MaxTasks + 1]
          /\ hi' \in [Thread -> 0 .. MaxTasks]
          /\ next' \in [Thread -> 1 .. MaxTasks + 1]
      BY <2>1, BoundsAssumption
    <2>3. /\ owner' \in [Task -> Thread]
          /\ mFoundAnswer' \in [Thread -> SUBSET Thread]
      BY <2>1
    <2> QED BY <1>2, <2>2, <2>3 DEF Call, poolVars
  <1>3. ASSUME NEW t \in Thread, Enter(t) PROVE TypeOK'
    BY <1>3 DEF Enter, taskVars
  <1>4. ASSUME NEW t \in Thread, Submit(t) PROVE TypeOK'
    <2>1. next' \in [Thread -> 1 .. MaxTasks + 1]
      BY <1>4, BoundsAssumption DEF Submit
    <2>2. wpc' \in [Task -> WorkerPc] /\ mConditionalIndex' \in [Task -> Nat]
      BY <1>4 DEF Submit
    <2> QED BY <1>4, <2>1, <2>2, SMTT(30) DEF Submit
  <1>5. ASSUME NEW t \in Thread, Park(t) PROVE TypeOK'
    BY <1>5 DEF Park, taskVars
  <1>6. ASSUME NEW t \in Thread, Wake(t) PROVE TypeOK'
    <2>1. mBackendSynchros' \in Seq(Thread \cup {nullptr})
      <3> DEFINE slots == ClearSlot(mBackendSynchros, index[t])
      <3>1. slots \in Seq(Thread \cup {nullptr})
        <4>1. index[t] \in DOMAIN mBackendSynchros
          BY <1>6 DEF SlotOwnership, HoldsSlot, Wake
        <4> QED BY <4>1 DEF ClearSlot
      <3>2. PICK n \in 0 .. Len(slots) : mBackendSynchros' = SubSeq(slots, 1, n)
        BY <1>6 DEF Wake
      <3> QED BY <3>1, <3>2
    <2>2. /\ mCounter' = mCounter + 1 /\ cpc' = [cpc EXCEPT ![t] = "collect"]
          /\ UNCHANGED <<mNumberThreads, mFireFlag, created, index, lo, hi, next,
                         ret, found, taskVars>>
      BY <1>6 DEF Wake
    <2> QED BY <2>1, <2>2 DEF taskVars
  <1>7. ASSUME NEW t \in Thread, Collect(t) PROVE TypeOK'
    <2>1. \A S : Collected(S) \in Answer
      BY DEF Collected, Answer, Verdict
    <2> QED BY <1>7, <2>1 DEF Collect, poolVars, taskVars
  <1>8. ASSUME NEW w \in Task, Start(w) PROVE TypeOK'
    BY <1>8 DEF Start, callVars
  <1>9. ASSUME NEW w \in Task, Decide(w) PROVE TypeOK'
    BY <1>9 DEF Decide, poolVars, callVars
  <1>10. ASSUME NEW w \in Task, Run(w) PROVE TypeOK'
    <2>1. found' \in [Thread -> BOOLEAN]
      BY <1>10, Zenon DEF Run
    <2>2. future' \in [Task -> Answer \cup {"pending", "broken"}]
      BY <1>10 DEF Run, CheckAnswer
    <2> QED BY <1>10, <2>1, <2>2 DEF Run, poolVars
  <1>11. ASSUME NEW w \in Task, DeleteTask(w) PROVE TypeOK'
    BY <1>11 DEF DeleteTask, ThreadsAfter, callVars
  <1>12. ASSUME NEW w \in Task, Notify(w) PROVE TypeOK'
    <2>1. mFireFlag' \in [Thread -> BOOLEAN]
      BY <1>12, Zenon DEF Notify
    <2> QED BY <1>12, <2>1 DEF Notify, callVars
  <1>13. ASSUME NEW w \in Task, Leave(w) PROVE TypeOK'
    BY <1>13 DEF Leave, callVars
  <1>14. CASE Destroy
    BY <1>14 DEF Destroy, poolVars, taskVars
  <1>15. CASE Destroyed
    BY <1>15 DEF Destroyed, poolVars, taskVars
  <1>16. CASE UNCHANGED vars
    BY <1>16 DEF vars, poolVars, callVars, taskVars
  <1> QED BY <1>1, <1>2, <1>3, <1>4, <1>5, <1>6, <1>7, <1>8, <1>9, <1>10, <1>11,
             <1>12, <1>13, <1>14, <1>15, <1>16
          DEF Next, CallerStep, WorkerStep, Terminated

(* A call that has its slot keeps it: slots are appended for new calls and *)
(* dropped only for the call that wakes.                                   *)
LEMMA SlotsPreserved == ASSUME TypeOK, SlotOwnership, [Next]_vars PROVE SlotOwnership'
  <1> USE DEF SlotOwnership, HoldsSlot
  <1>1. ASSUME UNCHANGED <<mBackendSynchros, index, cpc>> PROVE SlotOwnership'
    BY <1>1
  <1>2. ASSUME NEW t \in Thread, Call(t) PROVE SlotOwnership'
    BY <1>2, SMTT(30) DEF Call, MayCall, TypeOK, poolVars
  <1>3. ASSUME NEW t \in Thread, Enter(t) PROVE SlotOwnership'
    <2> DEFINE n == Len(mBackendSynchros)
    <2>1. /\ mBackendSynchros' \in Seq(Thread \cup {nullptr})
          /\ DOMAIN mBackendSynchros = 1 .. n /\ n \in Nat
          /\ DOMAIN mBackendSynchros' = 1 .. n + 1
          /\ mBackendSynchros'[n + 1] = t
          /\ \A i \in 1 .. n : mBackendSynchros'[i] = mBackendSynchros[i]
      BY <1>3 DEF Enter, TypeOK
    <2>2. /\ \A u \in Thread : u # t => cpc'[u] = cpc[u] /\ index'[u] = index[u]
          /\ cpc'[t] = "submit" /\ index'[t] = n + 1 /\ cpc[t] = "enter"
      BY <1>3 DEF Enter, TypeOK
    <2>3. ASSUME NEW u \in Thread, HoldsSlot(u)'
          PROVE index'[u] \in DOMAIN mBackendSynchros' /\ mBackendSynchros'[index'[u]] = u
      BY <2>1, <2>2, <2>3
    <2>4. ASSUME NEW i \in DOMAIN mBackendSynchros', mBackendSynchros'[i] # nullptr
          PROVE HoldsSlot(mBackendSynchros[i])' /\ index'[mBackendSynchros'[i]] = i
      <3>1. CASE i = n + 1
        BY <3>1, <2>1, <2>2
      <3>2. CASE i \in 1 .. n
        <4>1. /\ mBackendSynchros[i] \in Thread
              /\ HoldsSlot(mBackendSynchros[i]) /\ index[mBackendSynchros[i]] = i
          BY <3>2, <2>1, <2>4 DEF TypeOK
        <4> QED BY <4>1, <3>2, <2>1, <2>2
      <3> QED BY <3>1, <3>2, <2>1
    <2> QED BY <2>3, <2>4
  <1>4. ASSUME NEW t \in Thread, Park(t) PROVE SlotOwnership'
    BY <1>4 DEF Park, TypeOK
  <1>5. ASSUME NEW t \in Thread, Wake(t) PROVE SlotOwnership'
    <2> DEFINE slots == ClearSlot(mBackendSynchros, index[t])
    <2>1. PICK n \in 0 .. Len(slots) :
            /\ n # 0 => slots[n] # nullptr
            /\ \A i \in n + 1 .. Len(slots) : slots[i] = nullptr
            /\ mBackendSynchros' = SubSeq(slots, 1, n)
      BY <1>5 DEF Wake
    <2>2. /\ cpc[t] = "wait" /\ cpc' = [cpc EXCEPT ![t] = "collect"]
          /\ index' = index
      BY <1>5 DEF Wake
    <2>3. index[t] \in DOMAIN mBackendSynchros /\ mBackendSynchros[index[t]] = t
      BY <2>2
    <2>4. /\ slots \in Seq(Thread \cup {nullptr})
          /\ Len(slots) = Len(mBackendSynchros) /\ Len(slots) \in Nat
          /\ DOMAIN mBackendSynchros = 1 .. Len(slots)
          /\ slots[index[t]] = nullptr
          /\ \A i \in 1 .. Len(slots) : i # index[t] => slots[i] = mBackendSynchros[i]
      BY <2>3 DEF TypeOK, ClearSlot
    <2>5. /\ DOMAIN mBackendSynchros' = 1 .. n
          /\ \A i \in 1 .. n : mBackendSynchros'[i] = slots[i]
      BY <2>1, <2>4
    <2>6. ASSUME NEW u \in Thread, HoldsSlot(u)'
          PROVE index'[u] \in DOMAIN mBackendSynchros' /\ mBackendSynchros'[index'[u]] = u
      <3>1. u # t /\ HoldsSlot(u)
        BY <2>6, <2>2 DEF TypeOK
      <3>2. /\ index[u] \in 1 .. Len(slots) /\ mBackendSynchros[index[u]] = u
            /\ index[u] # index[t]
        BY <3>1, <2>3, <2>4
      <3>3. slots[index[u]] = u /\ u # nullptr
        BY <3>2, <2>4, Threads
      <3>4. index[u] \in 1 .. n
        BY <3>2, <3>3, <2>1, <2>4
      <3> QED BY <3>3, <3>4, <2>5, <2>2
    <2>7. ASSUME NEW i \in DOMAIN mBackendSynchros', mBackendSynchros'[i] # nullptr
          PROVE HoldsSlot(mBackendSynchros[i])' /\ index'[mBackendSynchros'[i]] = i
      <3>1. /\ i \in 1 .. Len(slots) /\ i # index[t]
            /\ mBackendSynchros'[i] = mBackendSynchros[i]
            /\ mBackendSynchros[i] # nullptr
        BY <2>7, <2>5, <2>4, <2>1
      <3>2. /\ mBackendSynchros[i] \in Thread
            /\ HoldsSlot(mBackendSynchros[i]) /\ index[mBackendSynchros[i]] = i
        BY <3>1, <2>4 DEF TypeOK
      <3>3. mBackendSynchros[i] # t
        BY <3>1, <3>2
      <3> QED BY <3>1, <3>2, <3>3, <2>2 DEF TypeOK
    <2> QED BY <2>6, <2>7
  <1>6. ASSUME NEW t \in Thread, Collect(t) PROVE SlotOwnership'
    BY <1>6 DEF Collect, TypeOK, poolVars
  <1>7. CASE Destroy
    BY <1>7, Threads DEF Destroy, TypeOK, poolVars
  <1>8. CASE Destroyed
    BY <1>8, Threads DEF Destroyed, TypeOK, poolVars
  <1>9. ASSUME NEW t \in Thread, ReturnAtOnce(t) \/ Submit(t)
        PROVE UNCHANGED <<mBackendSynchros, index, cpc>>
    BY <1>9 DEF ReturnAtOnce, Submit, poolVars
  <1>10. ASSUME NEW w \in Task, WorkerStep(w)
         PROVE UNCHANGED <<mBackendSynchros, index, cpc>>
    BY <1>10 DEF WorkerStep, Start, Decide, Run, DeleteTask, Notify, Leave,
                 poolVars, callVars
  <1>11. CASE UNCHANGED vars
    BY <1>1, <1>11 DEF vars, poolVars, callVars
  <1> QED
    BY <1>1, <1>2, <1>3, <1>4, <1>5, <1>6, <1>7, <1>8, <1>9, <1>10, <1>11
       DEF Next, CallerStep, Terminated

(* The facts about types that the bookkeeping needs.                       *)
LEMMA Types ==
  ASSUME TypeOK
  PROVE  /\ Task \subseteq Int /\ Task \subseteq Thread
         /\ cpc \in [Thread -> CallPc] /\ created \in Int
         /\ lo \in [Thread -> Int] /\ hi \in [Thread -> Int]
         /\ next \in [Thread -> Int] /\ owner \in [Task -> Thread]
         /\ wpc \in [Task -> WorkerPc] /\ DOMAIN future = Task
  BY Threads, BoundsAssumption DEF TypeOK

(* The bookkeeping is inductive: a task is active only within the call it  *)
(* was created for, because a call collects all its futures before it      *)
(* returns.                                                                *)
LEMMA BookkeepingPreserved ==
  ASSUME IInv, [Next]_vars
  PROVE  CallsWellFormed' /\ TasksWellFormed' /\ ModulesQuiescent'
  <1> DEFINE Goal == CallsWellFormed' /\ TasksWellFormed' /\ ModulesQuiescent'
  <1> USE DEF CallsWellFormed, TasksWellFormed, ModulesQuiescent, TasksOf
  <1>a. /\ Task \subseteq Int /\ Task \subseteq Thread
        /\ cpc \in [Thread -> CallPc] /\ created \in Int
        /\ lo \in [Thread -> Int] /\ hi \in [Thread -> Int]
        /\ next \in [Thread -> Int] /\ owner \in [Task -> Thread]
        /\ wpc \in [Task -> WorkerPc] /\ DOMAIN future = Task
    BY Types DEF IInv
  <1>b. CallsWellFormed /\ TasksWellFormed /\ ModulesQuiescent
    BY DEF IInv
  <1>1. ASSUME NEW t \in Thread, ReturnAtOnce(t) PROVE Goal
    <2>1. /\ cpc[t] = "out" /\ hi' = [hi EXCEPT ![t] = created]
          /\ lo' = [lo EXCEPT ![t] = created + 1]
          /\ UNCHANGED <<created, cpc, next, wpc, owner, future>>
      BY <1>1 DEF ReturnAtOnce, MayCall, taskVars
    <2> QED BY <1>a, <1>b, <2>1
  <1>2. ASSUME NEW t \in Thread, Call(t) PROVE Goal
    <2>1. PICK n \in 1 .. MaxModules :
            /\ created + n <= MaxTasks
            /\ created' = created + n
            /\ lo' = [lo EXCEPT ![t] = created + 1]
            /\ hi' = [hi EXCEPT ![t] = created + n]
            /\ next' = [next EXCEPT ![t] = created + 1]
            /\ owner' = [w \in Task |->
                  IF w \in created + 1 .. created + n THEN t ELSE owner[w]]
      BY <1>2 DEF Call
    <2>2. /\ cpc[t] = "out" /\ cpc' = [cpc EXCEPT ![t] = "enter"]
          /\ wpc' = wpc /\ future' = future
          /\ t \in Task => wpc[t] = "running"
      BY <1>2, Threads DEF Call, MayCall
    <2>3. n \in Int /\ n > 0
      BY BoundsAssumption
    <2>4. ASSUME NEW w \in Task
          PROVE  owner'[w] = IF created < w /\ w <= created + n THEN t ELSE owner[w]
      BY <2>1, <2>3, <1>a
    <2>5. CallsWellFormed'
      BY <1>a, <1>b, <2>1, <2>2, <2>3, <2>4
    <2>6. TasksWellFormed'
      BY <1>a, <1>b, <2>1, <2>2, <2>3
    <2>7. ModulesQuiescent'
      <3> SUFFICES ASSUME NEW w \in Task, wpc[w] \in {"spawned", "started", "running"}
                   PROVE  /\ lo'[owner'[w]] <= w /\ w <= hi'[owner'[w]]
                          /\ cpc'[owner'[w]] \in {"submit", "wait", "collect"}
        BY <2>2, <1>a
      <3>1. w <= created /\ owner'[w] = owner[w]
        BY <1>a, <1>b, <2>4
      <3>2. owner[w] # t
        BY <1>b, <2>2
      <3> QED BY <1>a, <1>b, <2>1, <2>2, <3>1, <3>2
    <2> QED BY <2>5, <2>6, <2>7
  <1>3. ASSUME NEW t \in Thread, Enter(t) PROVE Goal
    <2>1. /\ cpc[t] = "enter" /\ cpc' = [cpc EXCEPT ![t] = "submit"]
          /\ UNCHANGED <<created, lo, hi, next, wpc, owner, future>>
      BY <1>3 DEF Enter, taskVars
    <2> QED BY <1>a, <1>b, <2>1
  <1>4. ASSUME NEW t \in Thread, Submit(t) PROVE Goal
    <2>1. /\ next[t] <= hi[t] /\ cpc[t] = "submit"
          /\ wpc' = [wpc EXCEPT ![next[t]] = "spawned"]
          /\ next' = [next EXCEPT ![t] = @ + 1]
          /\ UNCHANGED <<created, cpc, lo, hi, owner, future>>
      BY <1>4 DEF Submit
    <2>2. next[t] \in Task
      BY <2>1, BoundsAssumption DEF IInv, TypeOK, Task
    <2>3. owner[next[t]] = t /\ wpc[next[t]] = "unused" /\ lo[t] <= next[t]
      BY <1>a, <1>b, <2>1, <2>2
    <2>4. CallsWellFormed'
      <3>1. ASSUME NEW u \in Thread, u # t, NEW w \in Task, owner[w] = u
            PROVE  wpc'[w] = wpc[w]
        BY <3>1, <2>1, <2>3, <1>a
      <3> QED BY <1>a, <1>b, <2>1, <2>2, <2>3, <3>1
    <2>5. TasksWellFormed'
      BY <1>a, <1>b, <2>1, <2>2, <2>3
    <2>6. ModulesQuiescent'
      BY <1>a, <1>b, <2>1, <2>2, <2>3
    <2> QED BY <2>4, <2>5, <2>6
  <1>5. ASSUME NEW t \in Thread, Park(t) PROVE Goal
    <2>1. /\ cpc[t] = "submit" /\ cpc' = [cpc EXCEPT ![t] = "wait"]
          /\ UNCHANGED <<created, lo, hi, next, wpc, owner, future>>
      BY <1>5 DEF Park, taskVars
    <2> QED BY <1>a, <1>b, <2>1
  <1>6. ASSUME NEW t \in Thread, Wake(t) PROVE Goal
    <2>1. /\ cpc[t] = "wait" /\ cpc' = [cpc EXCEPT ![t] = "collect"]
          /\ UNCHANGED <<created, lo, hi, next, wpc, owner, future>>
      BY <1>6 DEF Wake, taskVars
    <2> QED BY <1>a, <1>b, <2>1
  <1>7. ASSUME NEW t \in Thread, Collect(t) PROVE Goal
    <2>1. /\ cpc[t] = "collect" /\ cpc' = [cpc EXCEPT ![t] = "out"]
          /\ \A w \in lo[t] .. hi[t] : future[w] # "pending"
          /\ UNCHANGED <<created, lo, hi, next, wpc, owner, future>>
      BY <1>7 DEF Collect, AllResolved, taskVars
    <2>2. CallsWellFormed' /\ TasksWellFormed'
      BY <1>a, <1>b, <2>1
    <2>3. ASSUME NEW w \in Task, wpc[w] \in {"spawned", "started", "running"}
          PROVE  owner[w] # t
      BY <1>a, <1>b, <2>1, <2>3
    <2>4. ModulesQuiescent'
      BY <1>a, <1>b, <2>1, <2>3
    <2> QED BY <2>2, <2>4
  <1>8. ASSUME NEW w \in Task, WorkerStep(w) PROVE Goal
    <2>1. UNCHANGED <<created, cpc, lo, hi, next, owner>>
      BY <1>8 DEF WorkerStep, Start, Decide, Run, DeleteTask, Notify, Leave, callVars
    <2>2. /\ \A v \in Task : v # w => wpc'[v] = wpc[v] /\ future'[v] = future[v]
          /\ wpc[w] # "unused"
      BY <1>a, <1>8
         DEF WorkerStep, Start, Decide, Run, DeleteTask, Notify, Leave, callVars
    <2>3. /\ wpc'[w] \in {"started", "running"} =>
               /\ wpc[w] \in {"spawned", "started"}
               /\ future'[w] = future[w]
          /\ wpc'[w] \in {"started", "running", "delete", "notify", "leaving", "gone"}
          /\ wpc[w] = "running" => cpc[w] = "out"
      BY <1>a, <1>8
         DEF WorkerStep, Start, Decide, Run, DeleteTask, Notify, Leave, WorkerPc
    <2>4. CallsWellFormed'
      BY <1>a, <1>b, <2>1, <2>2, <2>3
    <2>5. TasksWellFormed'
      BY <1>a, <1>b, <2>1, <2>2, <2>3
    <2>6. ModulesQuiescent'
      BY <1>a, <1>b, <2>1, <2>2, <2>3
    <2> QED BY <2>4, <2>5, <2>6
  <1>9. CASE Destroy \/ Destroyed
    <2>1. /\ cpc[Main] \in {"out", "destroying"}
          /\ cpc' = [cpc EXCEPT ![Main] = IF Destroy THEN "destroying" ELSE "destroyed"]
          /\ UNCHANGED <<created, lo, hi, next, wpc, owner, future>>
      BY <1>9 DEF Destroy, Destroyed, taskVars
    <2> QED BY <1>a, <1>b, <2>1, Threads
  <1>10. CASE UNCHANGED vars
    BY <1>b, <1>10 DEF vars, poolVars, callVars, taskVars
  <1> QED
    BY <1>1, <1>2, <1>3, <1>4, <1>5, <1>6, <1>7, <1>8, <1>9, <1>10
       DEF Next, CallerStep, Terminated

(* The invariants hold in every reachable state.                           *)
THEOREM PoolInvariant == Spec => []IInv
  <1>1. IInv /\ [Next]_vars => IInv'
    BY TypePreserved, SlotsPreserved, BookkeepingPreserved DEF IInv
  <1> QED BY InitIInv, <1>1, PTL DEF Spec

-----------------------------------------------------------------------------
(* The two counters.                                                       *)

LEMMA FiniteThreads == IsFiniteSet(Thread) /\ IsFiniteSet(Task)
  BY FS_Interval, BoundsAssumption DEF Thread, Task

RunningThreads == {t \in Thread : Active(t)}
PendingTasks == {w \in Task : wpc[w] \in {"spawned", "started", "running", "delete"}}

(* A set of threads grows or shrinks by one element.                       *)
LEMMA OneMore ==
  ASSUME NEW S, S \subseteq Thread, NEW x, x \notin S
  PROVE  Cardinality(S \cup {x}) = Cardinality(S) + 1
  BY FiniteThreads, FS_Subset, FS_AddElement

LEMMA OneLess ==
  ASSUME NEW S, S \subseteq Thread, NEW x, x \in S
  PROVE  Cardinality(S \ {x}) = Cardinality(S) - 1
  BY FiniteThreads, FS_Subset, FS_RemoveElement

LEMMA CounterPreserved ==
  ASSUME IInv, CounterExact, [Next]_vars
  PROVE  CounterExact'
  <1> USE DEF RunningThreads, Active
  <1>a. /\ Task \subseteq Thread /\ Main \in Thread /\ Main \notin Task
        /\ cpc \in [Thread -> CallPc] /\ wpc \in [Task -> WorkerPc]
        /\ \A t \in Task : cpc[t] # "out" => wpc[t] = "running"
        /\ \A t \in Thread : t = Main \/ t \in Task
    BY Types, Threads DEF IInv, CallsWellFormed
  <1>b. mCounter = Cardinality(RunningThreads) /\ RunningThreads \subseteq Thread
    BY DEF CounterExact
  <1>c. CounterExact' <=> mCounter' = Cardinality(RunningThreads')
    BY DEF CounterExact
  <1>1. ASSUME NEW t \in Thread, Park(t) PROVE CounterExact'
    <2>1. RunningThreads' = RunningThreads \ {t} /\ t \in RunningThreads
      BY <1>a, <1>1 DEF Park, taskVars
    <2> QED BY <2>1, <1>1, <1>b, <1>c, OneLess DEF Park
  <1>2. ASSUME NEW t \in Thread, Wake(t) PROVE CounterExact'
    <2>1. /\ cpc[t] = "wait" /\ cpc' = [cpc EXCEPT ![t] = "collect"]
          /\ wpc' = wpc /\ mCounter' = mCounter + 1
      BY <1>2 DEF Wake, taskVars
    <2>2. RunningThreads' = RunningThreads \cup {t} /\ t \notin RunningThreads
      BY <1>a, <2>1
    <2> QED BY <2>1, <2>2, <1>b, <1>c, OneMore
  <1>3. ASSUME NEW w \in Task, Start(w) PROVE CounterExact'
    <2>1. RunningThreads' = RunningThreads \cup {w} /\ w \notin RunningThreads
      BY <1>a, <1>3 DEF Start, callVars
    <2> QED BY <2>1, <1>3, <1>b, <1>c, OneMore DEF Start
  <1>4. ASSUME NEW w \in Task, Leave(w) PROVE CounterExact'
    <2>1. RunningThreads' = RunningThreads \ {w} /\ w \in RunningThreads
      BY <1>a, <1>4 DEF Leave, callVars
    <2> QED BY <2>1, <1>4, <1>b, <1>c, OneLess DEF Leave
  <1>5. ASSUME RunningThreads' = RunningThreads, mCounter' = mCounter
        PROVE  CounterExact'
    BY <1>5, <1>b, <1>c
  <1>6. ASSUME NEW t \in Thread,
               ReturnAtOnce(t) \/ Call(t) \/ Enter(t) \/ Submit(t) \/ Collect(t)
        PROVE  CounterExact'
    <2>1. /\ \A u \in Thread : cpc'[u] = "wait" <=> cpc[u] = "wait"
          /\ mCounter' = mCounter
      BY <1>a, <1>6 DEF ReturnAtOnce, Call, MayCall, Enter, Submit, Collect, poolVars
    <2>2. \A u \in Task : wpc'[u] # wpc[u] => wpc[u] = "unused" /\ wpc'[u] = "spawned"
      <3>1. CASE Submit(t)
        <4>1. next[t] \in Task
          BY <3>1, BoundsAssumption DEF Submit, IInv, TypeOK, Task
        <4>2. wpc[next[t]] = "unused"
          BY <3>1, <4>1, BoundsAssumption DEF Submit, IInv, CallsWellFormed, TypeOK
        <4> QED BY <3>1, <4>1, <4>2, <1>a DEF Submit
      <3> QED BY <3>1, <1>6 DEF ReturnAtOnce, Call, Enter, Collect, taskVars
    <2> QED BY <1>a, <1>5, <2>1, <2>2
  <1>7. ASSUME NEW w \in Task, Decide(w) \/ Run(w) \/ DeleteTask(w) \/ Notify(w)
        PROVE  CounterExact'
    <2>1. /\ cpc' = cpc /\ mCounter' = mCounter
          /\ wpc[w] \in {"started", "running", "delete", "notify"}
          /\ wpc'[w] \in {"running", "delete", "notify", "leaving"}
          /\ \A v \in Task : v # w => wpc'[v] = wpc[v]
      BY <1>a, <1>7 DEF Decide, Run, DeleteTask, Notify, poolVars, callVars
    <2> QED BY <1>a, <1>5, <2>1
  <1>8. CASE Destroy \/ Destroyed
    BY <1>a, <1>5, <1>8 DEF Destroy, Destroyed, poolVars, taskVars
  <1>9. CASE UNCHANGED vars
    BY <1>5, <1>9 DEF vars, poolVars, callVars, taskVars
  <1> QED
    BY <1>1, <1>2, <1>3, <1>4, <1>6, <1>7, <1>8, <1>9
       DEF Next, CallerStep, WorkerStep, Terminated

LEMMA NumberThreadsPreserved ==
  ASSUME IInv, NumberThreadsExact, [Next]_vars
  PROVE  NumberThreadsExact'
  <1> USE DEF PendingTasks
  <1>a. Task \subseteq Thread /\ wpc \in [Task -> WorkerPc]
    BY Types DEF IInv
  <1>b. mNumberThreads = 1 + Cardinality(PendingTasks) /\ PendingTasks \subseteq Thread
    BY <1>a DEF NumberThreadsExact
  <1>c. NumberThreadsExact' <=> mNumberThreads' = 1 + Cardinality(PendingTasks')
    BY DEF NumberThreadsExact
  <1>d. Cardinality(PendingTasks) \in Nat
    BY FiniteThreads, FS_Subset, FS_CardinalityType
  <1>1. ASSUME NEW t \in Thread, Submit(t) PROVE NumberThreadsExact'
    <2>1. next[t] \in Task
      BY <1>1, BoundsAssumption DEF Submit, IInv, TypeOK, Task
    <2>2. wpc[next[t]] = "unused"
      BY <1>1, <2>1, BoundsAssumption DEF Submit, IInv, CallsWellFormed, TypeOK
    <2>3. /\ PendingTasks' = PendingTasks \cup {next[t]}
          /\ next[t] \notin PendingTasks
      BY <1>a, <1>1, <2>1, <2>2 DEF Submit
    <2> QED BY <2>3, <1>1, <1>b, <1>c, <1>d, OneMore DEF Submit
  <1>2. ASSUME NEW w \in Task, DeleteTask(w) PROVE NumberThreadsExact'
    <2>1. PendingTasks' = PendingTasks \ {w} /\ w \in PendingTasks
      BY <1>a, <1>2 DEF DeleteTask
    <2> QED BY <2>1, <1>2, <1>b, <1>c, <1>d, OneLess DEF DeleteTask, ThreadsAfter
  <1>3. ASSUME PendingTasks' = PendingTasks, mNumberThreads' = mNumberThreads
        PROVE  NumberThreadsExact'
    BY <1>3, <1>b, <1>c
  <1>4. ASSUME NEW t \in Thread,
               ReturnAtOnce(t) \/ Call(t) \/ Enter(t) \/ Park(t) \/ Wake(t) \/ Collect(t)
        PROVE  wpc' = wpc /\ mNumberThreads' = mNumberThreads
    BY <1>4 DEF ReturnAtOnce, Call, Enter, Park, Wake, Collect, poolVars, taskVars
  <1>5. ASSUME NEW w \in Task, Start(w) \/ Decide(w) \/ Run(w) \/ Notify(w) \/ Leave(w)
        PROVE  NumberThreadsExact'
    <2>1. PendingTasks' = PendingTasks /\ mNumberThreads' = mNumberThreads
      BY <1>a, <1>5 DEF Start, Decide, Run, Notify, Leave, poolVars
    <2> QED BY <2>1, <1>3
  <1>6. CASE Destroy \/ Destroyed \/ UNCHANGED vars
    BY <1>3, <1>6 DEF Destroy, Destroyed, vars, poolVars, taskVars
  <1> QED
    BY <1>1, <1>2, <1>3, <1>4, <1>5, <1>6
       DEF Next, CallerStep, WorkerStep, Terminated

-----------------------------------------------------------------------------
(* Verdicts.                                                               *)

(* A task belongs to the call in whose range it is; what a call returned   *)
(* was computed from resolved futures; the backends of a call agree.       *)
Agreement == \A t \in Thread : \A w \in TasksOf(t) :
    /\ owner[w] = t
    /\ ret[t] # "none" => future[w] # "pending"
    /\ \A v \in TasksOf(t) : ~(future[v] = "SAT" /\ future[w] = "UNSAT")

LEMMA VerdictPreserved ==
  ASSUME IInv, Agreement, VerdictFaithful, [Next]_vars
  PROVE  Agreement' /\ VerdictFaithful'
  <1> DEFINE Goal == Agreement' /\ VerdictFaithful'
  <1> USE DEF Agreement, VerdictFaithful, TasksOf, Verdict
  <1>a. /\ Task \subseteq Int /\ Task \subseteq Thread
        /\ created \in Int /\ created >= 0 /\ created <= MaxTasks /\ MaxTasks \in Nat
        /\ lo \in [Thread -> Int] /\ hi \in [Thread -> Int]
        /\ owner \in [Task -> Thread] /\ wpc \in [Task -> WorkerPc]
        /\ DOMAIN future = Task /\ DOMAIN ret = Thread
        /\ \A t \in Thread : hi[t] <= created /\ lo[t] >= 1
        /\ \A w \in Int : 1 <= w /\ w <= created => w \in Task
        /\ \A w \in Task : created < w => future[w] = "pending"
    <2>1. /\ Task \subseteq Int /\ Task \subseteq Thread
          /\ lo \in [Thread -> Int] /\ hi \in [Thread -> Int]
          /\ owner \in [Task -> Thread] /\ wpc \in [Task -> WorkerPc]
          /\ DOMAIN future = Task
      BY Types DEF IInv
    <2>2. /\ created \in Int /\ created >= 0 /\ created <= MaxTasks /\ MaxTasks \in Nat
          /\ DOMAIN ret = Thread /\ \A t \in Thread : lo[t] >= 1
      BY BoundsAssumption DEF IInv, TypeOK
    <2>3. \A t \in Thread : hi[t] <= created
      BY DEF IInv, CallsWellFormed
    <2>4. \A w \in Int : 1 <= w /\ w <= created => w \in Task
      BY <2>2 DEF Task
    <2>5. \A w \in Task : created < w => future[w] = "pending"
      BY DEF IInv, TasksWellFormed
    <2> QED BY <2>1, <2>2, <2>3, <2>4, <2>5
  <1>b. \A t \in Thread : \A w \in TasksOf(t) : w \in Task
    BY <1>a
  <1>1. ASSUME NEW t \in Thread, ReturnAtOnce(t) PROVE Goal
    <2>1. /\ lo' = [lo EXCEPT ![t] = created + 1] /\ hi' = [hi EXCEPT ![t] = created]
          /\ \A u \in Thread : u # t => ret'[u] = ret[u]
          /\ owner' = owner /\ future' = future
      BY <1>a, <1>1 DEF ReturnAtOnce, taskVars
    <2>2. TasksOf(t)' = {} /\ \A u \in Thread : u # t => TasksOf(u)' = TasksOf(u)
      BY <1>a, <2>1
    <2> QED BY <1>a, <2>1, <2>2
  <1>2. ASSUME NEW t \in Thread, Call(t) PROVE Goal
    <2>1. PICK n \in 1 .. MaxModules :
            /\ created + n <= MaxTasks
            /\ lo' = [lo EXCEPT ![t] = created + 1]
            /\ hi' = [hi EXCEPT ![t] = created + n]
            /\ owner' = [w \in Task |->
                  IF w \in created + 1 .. created + n THEN t ELSE owner[w]]
      BY <1>2 DEF Call
    <2>2. ret' = [ret EXCEPT ![t] = "none"] /\ future' = future
      BY <1>2 DEF Call
    <2>3. n \in Int /\ n > 0
      BY BoundsAssumption
    <2>4. \A w \in created + 1 .. created + n : w \in Task /\ future[w] = "pending"
      BY <1>a, <2>1, <2>3, Threads
    <2>5. Agreement'
      <3> SUFFICES ASSUME NEW u \in Thread, NEW w \in lo'[u] .. hi'[u]
                   PROVE  /\ owner'[w] = u
                          /\ ret'[u] # "none" => future[w] # "pending"
                          /\ \A v \in lo'[u] .. hi'[u] :
                                ~(future[v] = "SAT" /\ future[w] = "UNSAT")
        BY <2>2
      <3>1. CASE u = t
        BY <1>a, <2>1, <2>2, <2>3, <2>4, <3>1
      <3>2. CASE u # t
        <4>1. w \in TasksOf(u) /\ w \in Task /\ w <= created
          BY <1>a, <1>b, <2>1, <3>2
        <4> QED BY <1>a, <2>1, <2>2, <3>2, <4>1
      <3> QED BY <3>1, <3>2
    <2>6. VerdictFaithful'
      BY <1>a, <2>1, <2>2
    <2> QED BY <2>5, <2>6
  <1>3. ASSUME NEW t \in Thread, Collect(t) PROVE Goal
    <2>1. /\ \A w \in TasksOf(t) : future[w] # "pending"
          /\ ret' = [ret EXCEPT ![t] = Collected({future[w] : w \in TasksOf(t)})]
          /\ UNCHANGED <<lo, hi, owner, future>>
      BY <1>3 DEF Collect, AllResolved, taskVars
    <2>2. \A a \in Verdict : ret'[t] = a <=> \E w \in TasksOf(t) : future[w] = a
      <3>1. ret'[t] = Collected({future[w] : w \in TasksOf(t)})
        BY <1>a, <2>1
      <3> QED BY <3>1 DEF Collected
    <2>3. Agreement'
      BY <1>a, <2>1
    <2>4. VerdictFaithful'
      BY <1>a, <2>1, <2>2
    <2> QED BY <2>3, <2>4
  <1>4. ASSUME NEW w \in Task, Run(w) PROVE Goal
    <2>1. PICK a \in CheckAnswer(w) : future' = [future EXCEPT ![w] = a]
      BY <1>4 DEF Run
    <2>2. /\ ret' = [ret EXCEPT ![w] = "none"] /\ wpc[w] = "running"
          /\ UNCHANGED <<lo, hi, owner>>
      BY <1>4 DEF Run
    <2>3. future[w] = "pending" /\ w \in TasksOf(owner[w])
      BY <2>2 DEF IInv, TasksWellFormed, ModulesQuiescent
    <2>4. /\ a \in Verdict => \A v \in TasksOf(owner[w]) : future[v] \notin Verdict \ {a}
          /\ a # "pending"
      BY <2>1 DEF CheckAnswer, Answer
    <2>5. ASSUME NEW u \in Thread, w \in TasksOf(u)
          PROVE  u = owner[w] /\ ret[u] = "none"
      BY <2>3, <2>5
    <2>6. ASSUME NEW u \in Thread, NEW v \in TasksOf(u) PROVE
            /\ owner[v] = u
            /\ ret'[u] # "none" => future'[v] # "pending"
            /\ \A x \in TasksOf(u) : ~(future'[x] = "SAT" /\ future'[v] = "UNSAT")
      BY <1>a, <1>b, <2>1, <2>2, <2>4, <2>5
    <2>7. Agreement'
      BY <2>2, <2>6
    <2>8. VerdictFaithful'
      BY <1>a, <1>b, <2>1, <2>2, <2>5
    <2> QED BY <2>7, <2>8
  <1>5. ASSUME NEW w \in Task, DeleteTask(w) PROVE Goal
    <2>1. /\ future' = [future EXCEPT ![w] = IF @ = "pending" THEN "broken" ELSE @]
          /\ UNCHANGED <<lo, hi, owner, ret>>
      BY <1>5 DEF DeleteTask, callVars
    <2> QED BY <1>a, <1>b, <2>1
  <1>6. ASSUME UNCHANGED <<lo, hi, owner, ret, future>> PROVE Goal
    BY <1>6
  <1>7. ASSUME NEW t \in Thread, Enter(t) \/ Submit(t) \/ Park(t) \/ Wake(t)
        PROVE  UNCHANGED <<lo, hi, owner, ret, future>>
    BY <1>7 DEF Enter, Submit, Park, Wake, taskVars
  <1>8. ASSUME NEW w \in Task, Start(w) \/ Decide(w) \/ Notify(w) \/ Leave(w)
        PROVE  UNCHANGED <<lo, hi, owner, ret, future>>
    BY <1>8 DEF Start, Decide, Notify, Leave, callVars
  <1>9. ASSUME Destroy \/ Destroyed \/ UNCHANGED vars
        PROVE  UNCHANGED <<lo, hi, owner, ret, future>>
    BY <1>9 DEF Destroy, Destroyed, vars, callVars, taskVars
  <1> QED
    BY <1>1, <1>2, <1>3, <1>4, <1>5, <1>6, <1>7, <1>8, <1>9
       DEF Next, CallerStep, WorkerStep, Terminated

-----------------------------------------------------------------------------
(* The pool's types (ThreadPool.h:71-88) are kept by every operation.      *)
THEOREM TypeCorrect == Spec => []TypeOK
  BY PoolInvariant, PTL DEF IInv

(* runBackends never indexes mBackendSynchros out of range, never deletes  *)
(* or waits on another call's object (ThreadPool.cpp:80, 86), and leaves   *)
(* no slot pointing to a deleted object.                                   *)
THEOREM SlotSafety == Spec => []SlotOwnership
  BY PoolInvariant, PTL DEF IInv

(* No task still runs a module once the runBackends call that created it   *)
(* has returned.                                                           *)
THEOREM Quiescence == Spec => []ModulesQuiescent
  BY PoolInvariant, PTL DEF IInv

(* mCounter counts the unparked threads (ThreadPool.cpp:18, 28, 36, 82, 92). *)
THEOREM CounterCorrect == Spec => []CounterExact
  <1>1. Init => CounterExact
    <2> SUFFICES ASSUME Init PROVE mCounter = Cardinality(RunningThreads)
      BY DEF CounterExact, RunningThreads
    <2>1. RunningThreads = {Main}
      BY Threads DEF Init, RunningThreads, Active
    <2> QED BY <2>1, FS_Singleton DEF Init
  <1>2. IInv /\ CounterExact /\ [Next]_vars => CounterExact'
    BY CounterPreserved
  <1> QED BY <1>1, <1>2, PoolInvariant, PTL DEF Spec

(* mNumberThreads, which ~ThreadPool waits for, counts the undeleted tasks *)
(* (ThreadPool.cpp:72, ThreadPool.h:110).                                  *)
THEOREM NumberThreadsCorrect == Spec => []NumberThreadsExact
  <1>1. Init => NumberThreadsExact
    <2> SUFFICES ASSUME Init PROVE mNumberThreads = 1 + Cardinality(PendingTasks)
      BY DEF NumberThreadsExact, PendingTasks
    <2>1. PendingTasks = {}
      BY DEF Init, PendingTasks
    <2> QED BY <2>1, FS_EmptySet DEF Init
  <1>2. IInv /\ NumberThreadsExact /\ [Next]_vars => NumberThreadsExact'
    BY NumberThreadsPreserved
  <1> QED BY <1>1, <1>2, PoolInvariant, PTL DEF Spec

(* A call of the pool returns a verdict exactly if one of its backends     *)
(* gave it (ThreadPool.cpp:93-128).                                                *)
THEOREM VerdictCorrect == Spec => []VerdictFaithful
  <1>1. Init => Agreement /\ VerdictFaithful
    BY DEF Init, Agreement, VerdictFaithful, TasksOf
  <1>2. IInv /\ Agreement /\ VerdictFaithful /\ [Next]_vars => Agreement' /\ VerdictFaithful'
    BY VerdictPreserved
  <1> QED BY <1>1, <1>2, PoolInvariant, PTL DEF Spec

=============================================================================
