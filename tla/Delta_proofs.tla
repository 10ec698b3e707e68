---------------------------- MODULE Delta_proofs ----------------------------
(* Proofs about the delta debugger. *)
EXTENDS Delta, FiniteSetTheorems, TLAPS

Active == pc \in {"visit", "process", "room", "wait", "decide"}

(* d is a change of the root, at node n.                                   *)
IsChange(d, n) == n \in DOMAIN Changes[root]
                  /\ \E c \in DOMAIN Changes[root][n] : d = Changes[root][n][c]

(* Where the traversal stands.                                             *)
Position ==
    /\ pc \in {"process", "room"} => num \in DOMAIN Changes[root] /\ skip < num
    /\ pc = "room" => change \in DOMAIN Changes[root][num]
    /\ pc \in {"wait", "decide"} /\ ~found => num > Len(Changes[root])

(* Jobs leave the queue when they are done, none is left at the end of a   *)
(* round, and there are never more than threads.                           *)
Queue ==
    /\ \A j \in 1 .. front : Done(j)
    /\ pc \in {"decide", "reset", "finished", "interrupted"} => front = Len(job)
    /\ Len(job) - front <= Concurrency

(* All temporary files have been made.                                     *)
FilesMade ==
    /\ \A j \in DOMAIN job : job[j].state = "checking" => job[j].file < nextid
    /\ \A i \in DOMAIN pool : pool[i] < nextid

(* Jobs, successes and the result are about changes of the current root.   *)
JobsOfRound == Active =>
    /\ \A j \in DOMAIN job : IsChange(job[j].doc, job[j].num)
    /\ \A j \in DOMAIN job : job[j].state = "success" => job[j].doc \in Passing
    /\ found => result.doc \in Passing /\ IsChange(result.doc, result.num)

(* The changes the traversal has passed, of the nodes not skipped.         *)
Tried(n, c) == skip < n /\ (n < num \/ (n = num /\ pc \in {"process", "room"} /\ c < change))

(* As long as nothing is found, each of them is the business of a job, and *)
(* a job that is done with failed or was stopped.                          *)
Covered == Active /\ ~found =>
    /\ \A n \in DOMAIN Changes[root] : \A c \in DOMAIN Changes[root][n] :
         Tried(n, c) => \E j \in DOMAIN job : job[j].doc = Changes[root][n][c]
    /\ \A j \in DOMAIN job : Done(j) => job[j].doc \notin Passing \/ killed > 0

IInv == TypeOK /\ Position /\ Queue /\ FilesMade /\ FilesDistinct /\ JobsOfRound /\ Covered
        /\ FinishedIsMinimal

-----------------------------------------------------------------------------
(* Documents and jobs are sequences of the right length.                   *)
LEMMA SeqFacts ==
  ASSUME TypeOK
  PROVE  /\ Len(job) \in Nat /\ DOMAIN job = 1 .. Len(job)
         /\ \A j \in DOMAIN job : job[j] \in Job
         /\ Len(pool) \in Nat /\ DOMAIN pool = 1 .. Len(pool)
         /\ \A i \in DOMAIN pool : pool[i] \in Nat
         /\ Len(Changes[root]) \in Nat /\ DOMAIN Changes[root] = 1 .. Len(Changes[root])
         /\ \A n \in DOMAIN Changes[root] :
              /\ Len(Changes[root][n]) \in Nat
              /\ DOMAIN Changes[root][n] = 1 .. Len(Changes[root][n])
              /\ \A c \in DOMAIN Changes[root][n] : Changes[root][n][c] \in Doc
  <1>1. job \in Seq(Job) /\ pool \in Seq(Nat) /\ root \in Doc
    BY DEF TypeOK
  <1>2. Changes[root] \in Seq(Seq(Doc))
    BY <1>1, DeltaAssumption
  <1>3. ASSUME NEW n \in DOMAIN Changes[root] PROVE Changes[root][n] \in Seq(Doc)
    BY <1>2
  <1> QED BY <1>1, <1>2, <1>3

LEMMA InitIInv == Init => IInv
  <1> SUFFICES ASSUME Init PROVE IInv
    OBVIOUS
  <1>1. found \in BOOLEAN /\ interrupted \in BOOLEAN /\ ~found
    BY DEF Init
  <1>2. /\ root = Original /\ skip = InitialSkip /\ num = 0 /\ change = 1 /\ pc = "reset"
        /\ job = <<>> /\ front = 0 /\ result = NoResult /\ jobcount = 0 /\ progress = 0
        /\ pool = <<>> /\ nextid = 0 /\ killed = 0
    BY DEF Init
  <1>3. Original \in Doc /\ NoResult \in [doc : Doc, num : Nat]
    BY DeltaAssumption DEF NoResult
  <1>4. TypeOK
    BY <1>1, <1>2, <1>3, DeltaAssumption DEF TypeOK
  <1> QED BY <1>2, <1>4, DeltaAssumption DEF IInv, Position, Queue, FilesMade, FilesDistinct,
                JobsOfRound, Covered, FinishedIsMinimal, Active

-----------------------------------------------------------------------------
(* The producer's steps.                                                   *)

LEMMA ResetStep ==
  ASSUME IInv, Reset
  PROVE  IInv'
  <1>1. found' \in BOOLEAN /\ ~found' /\ interrupted' = interrupted
    BY DEF Reset, FoundAtStart
  <1>2. /\ root' = root /\ skip' = SkipAtStart /\ num' = 0 /\ change' = 1 /\ pc' = "visit"
        /\ job' = <<>> /\ front' = 0 /\ result' = NoResult /\ jobcount' = 0 /\ progress' = 0
        /\ pool' = pool /\ nextid' = nextid /\ killed' = 0
    BY DEF Reset, fileVars
  <1>3. skip' \in Nat
    BY <1>2 DEF SkipAtStart, IInv, TypeOK
  <1>4. NoResult \in [doc : Doc, num : Nat]
    BY DeltaAssumption DEF NoResult
  <1>5. TypeOK'
    BY <1>1, <1>2, <1>3, <1>4 DEF TypeOK, IInv
  <1>6. Position' /\ Queue' /\ FilesMade' /\ JobsOfRound'
    BY <1>1, <1>2, DeltaAssumption DEF Position, Queue, FilesMade, JobsOfRound, IInv
  <1>7. FilesDistinct' /\ FinishedIsMinimal'
    BY <1>2 DEF FilesDistinct, FinishedIsMinimal, IInv
  <1>8. Covered'
    <2>1. ASSUME NEW n \in DOMAIN Changes[root], NEW c PROVE ~Tried(n, c)'
      BY <1>2, <1>3, SeqFacts DEF Tried, IInv
    <2> QED BY <1>2, <2>1 DEF Covered
  <1> QED BY <1>5, <1>6, <1>7, <1>8 DEF IInv

(* What a step leaves alone that only moves the producer.                  *)
LEMMA MoveKeeps ==
  ASSUME IInv, Active, pc' \in {"visit", "process", "room", "wait"},
         UNCHANGED <<root, skip, interrupted, job, front, resultVars, fileVars, killed>>
  PROVE  Queue' /\ FilesMade' /\ FilesDistinct' /\ JobsOfRound' /\ FinishedIsMinimal'
  <1>1. Queue' /\ FilesMade' /\ FilesDistinct' /\ FinishedIsMinimal'
    BY DEF IInv, Queue, FilesMade, FilesDistinct, FinishedIsMinimal, Done, fileVars
  <1>2. JobsOfRound'
    BY DEF IInv, JobsOfRound, IsChange, resultVars
  <1> QED BY <1>1, <1>2

LEMMA VisitStep ==
  ASSUME IInv, Visit
  PROVE  IInv'
  <1>1. /\ pc = "visit" /\ pc' \in {"visit", "process", "wait"}
        /\ UNCHANGED <<root, skip, interrupted, job, front, resultVars, fileVars, killed>>
        /\ UNCHANGED <<jobcount, progress>>
    BY DEF Visit
  <1>2. \/ (found \/ num > Len(Changes[root])) /\ pc' = "wait" /\ num' = num /\ change' = change
        \/ /\ ~(found \/ num > Len(Changes[root])) /\ skip < num
           /\ pc' = "process" /\ num' = num /\ change' = 1
        \/ /\ ~(found \/ num > Len(Changes[root])) /\ ~(skip < num)
           /\ pc' = "visit" /\ num' = num + 1 /\ change' = change
    BY <1>1 DEF Visit
  <1>3. num \in Nat /\ skip \in Nat /\ change \in Nat \ {0}
    BY DEF IInv, TypeOK
  <1>4. num' \in Nat /\ change' \in Nat \ {0}
    BY <1>2, <1>3
  <1>5. TypeOK'
    <2>1. found' \in BOOLEAN /\ interrupted' \in BOOLEAN
      BY <1>1 DEF IInv, TypeOK, resultVars
    <2> QED BY <1>1, <1>4, <2>1 DEF IInv, TypeOK, resultVars, fileVars
  <1>6. Position'
    <2>1. root' = root /\ skip' = skip /\ found' = found
      BY <1>1 DEF resultVars
    <2>2. CASE pc' = "wait"
      <3>1. (found \/ num > Len(Changes[root])) /\ num' = num
        BY <1>2, <2>2
      <3> QED BY <2>1, <2>2, <3>1 DEF Position
    <2>3. CASE pc' = "process"
      <3>1. ~(num > Len(Changes[root])) /\ skip < num /\ num' = num
        BY <1>2, <2>3
      <3>2. num \in DOMAIN Changes[root]
        BY <1>3, <3>1, SeqFacts DEF IInv
      <3> QED BY <2>1, <2>3, <3>1, <3>2 DEF Position
    <2>4. CASE pc' = "visit"
      BY <2>4 DEF Position
    <2> QED BY <1>1, <2>2, <2>3, <2>4
  <1>7. Queue' /\ FilesMade' /\ FilesDistinct' /\ JobsOfRound' /\ FinishedIsMinimal'
    BY <1>1, MoveKeeps DEF Active
  <1>8. Covered'
    <2>1. /\ root' = root /\ skip' = skip /\ found' = found /\ job' = job /\ killed' = killed
          /\ Active
      BY <1>1 DEF resultVars, Active
    <2>2. ASSUME NEW n \in DOMAIN Changes[root], NEW c \in DOMAIN Changes[root][n], Tried(n, c)'
          PROVE  Tried(n, c)
      <3>1. n \in Nat /\ c \in Nat /\ c >= 1
        BY SeqFacts DEF IInv
      <3>2. skip < n /\ (n < num' \/ (n = num' /\ pc' \in {"process", "room"} /\ c < change'))
        BY <2>1, <2>2 DEF Tried
      <3>3. skip < n /\ n < num
        BY <1>2, <1>3, <3>1, <3>2
      <3> QED BY <3>3 DEF Tried
    <2> QED BY <2>1, <2>2 DEF Covered, IInv, Done
  <1> QED BY <1>5, <1>6, <1>7, <1>8 DEF IInv

LEMMA ProcessStep ==
  ASSUME IInv, Process
  PROVE  IInv'
  <1>1. /\ pc = "process" /\ pc' \in {"visit", "process", "room"}
        /\ UNCHANGED <<root, skip, interrupted, job, front, resultVars, fileVars, killed>>
        /\ UNCHANGED <<jobcount, progress>>
    BY DEF Process
  <1>2. \/ /\ change > Len(Changes[root][num])
           /\ pc' = "visit" /\ num' = num + 1 /\ change' = change
        \/ /\ found /\ pc' = "process" /\ num' = num /\ change' = change + 1
        \/ /\ ~(change > Len(Changes[root][num]))
           /\ pc' = "room" /\ num' = num /\ change' = change
    BY <1>1 DEF Process
  <1>3. /\ num \in Nat /\ skip \in Nat /\ change \in Nat \ {0}
        /\ num \in DOMAIN Changes[root] /\ skip < num
    BY <1>1 DEF IInv, TypeOK, Position
  <1>4. num' \in Nat /\ change' \in Nat \ {0}
    BY <1>2, <1>3
  <1>5. TypeOK'
    <2>1. found' \in BOOLEAN /\ interrupted' \in BOOLEAN
      BY <1>1 DEF IInv, TypeOK, resultVars
    <2> QED BY <1>1, <1>4, <2>1 DEF IInv, TypeOK, resultVars, fileVars
  <1>6. Position'
    <2>1. root' = root /\ skip' = skip
      BY <1>1
    <2>2. pc' \in {"process", "room"} => num' = num
      BY <1>2
    <2>3. ASSUME pc' = "room" PROVE change' \in DOMAIN Changes[root][num']
      <3>1. ~(change > Len(Changes[root][num])) /\ num' = num /\ change' = change
        BY <1>2, <2>3
      <3>2. DOMAIN Changes[root][num] = 1 .. Len(Changes[root][num])
            /\ Len(Changes[root][num]) \in Nat
        BY <1>3, SeqFacts DEF IInv
      <3> QED BY <1>3, <3>1, <3>2
    <2> QED BY <1>1, <1>3, <2>1, <2>2, <2>3 DEF Position
  <1>7. Queue' /\ FilesMade' /\ FilesDistinct' /\ JobsOfRound' /\ FinishedIsMinimal'
    BY <1>1, MoveKeeps DEF Active
  <1>8. Covered'
    <2>1. /\ root' = root /\ skip' = skip /\ found' = found /\ job' = job /\ killed' = killed
          /\ Active
      BY <1>1 DEF resultVars, Active
    <2>2. ASSUME ~found, NEW n \in DOMAIN Changes[root], NEW c \in DOMAIN Changes[root][n],
                 Tried(n, c)'
          PROVE  Tried(n, c)
      <3>1. n \in Nat /\ c \in Nat /\ c >= 1 /\ c <= Len(Changes[root][n])
            /\ Len(Changes[root][n]) \in Nat
        BY SeqFacts DEF IInv
      <3>2. skip < n /\ (n < num' \/ (n = num' /\ pc' \in {"process", "room"} /\ c < change'))
        BY <2>1, <2>2 DEF Tried
      <3>3. CASE change > Len(Changes[root][num]) /\ pc' = "visit" /\ num' = num + 1
        <4>1. n < num \/ n = num
          BY <1>3, <3>1, <3>2, <3>3
        <4>2. n = num => c < change
          BY <1>3, <3>1, <3>3
        <4> QED BY <1>1, <3>2, <4>1, <4>2 DEF Tried
      <3>4. CASE pc' = "room" /\ num' = num /\ change' = change
        BY <1>1, <3>2, <3>4 DEF Tried
      <3> QED BY <1>2, <2>2, <3>3, <3>4
    <2> QED BY <2>1, <2>2 DEF Covered, IInv, Done
  <1> QED BY <1>5, <1>6, <1>7, <1>8 DEF IInv

LEMMA PollStep ==
  ASSUME IInv, Poll
  PROVE  IInv'
  <1>1. /\ pc = "room" /\ front' \in Popped
        /\ UNCHANGED <<root, skip, num, change, pc, interrupted, job, resultVars, jobcount,
                       progress, fileVars, killed>>
    BY DEF Poll, producerVars
  <1>2. front \in Nat /\ Len(job) \in Nat /\ front <= Len(job) /\ Concurrency \in Nat
    BY DeltaAssumption, SeqFacts DEF IInv, TypeOK
  <1>3. /\ front' \in front .. Len(job)
        /\ \A j \in front + 1 .. front' : Done(j)
    BY <1>1 DEF Popped
  <1>4. TypeOK'
    <2>1. found' \in BOOLEAN /\ interrupted' \in BOOLEAN
      BY <1>1 DEF IInv, TypeOK, resultVars
    <2>2. front' \in 0 .. Len(job')
      BY <1>1, <1>2, <1>3
    <2> QED BY <1>1, <2>1, <2>2 DEF IInv, TypeOK, resultVars, fileVars
  <1>5. Queue'
    <2>1. ASSUME NEW j \in 1 .. front' PROVE job'[j].state = "done"
      <3>1. j \in 1 .. front \/ j \in front + 1 .. front'
        BY <1>2, <1>3
      <3> QED BY <1>1, <1>3, <3>1 DEF IInv, Queue, Done
    <2>2. Len(job') - front' <= Concurrency
      BY <1>1, <1>2, <1>3 DEF IInv, Queue
    <2> QED BY <1>1, <2>1, <2>2 DEF Queue, Done
  <1>6. Position' /\ FilesMade' /\ FilesDistinct' /\ FinishedIsMinimal'
    BY <1>1 DEF IInv, Position, FilesMade, FilesDistinct, FinishedIsMinimal, fileVars
  <1>7. JobsOfRound' /\ Covered'
    BY <1>1 DEF IInv, JobsOfRound, Covered, IsChange, Tried, Active, Done, resultVars
  <1> QED BY <1>4, <1>5, <1>6, <1>7 DEF IInv

LEMMA ConsumeStep ==
  ASSUME IInv, Consume
  PROVE  IInv'
  <1>1. /\ pc = "room" /\ pc' = "process" /\ change' = change + 1
        /\ UNCHANGED <<root, skip, num, interrupted, front, resultVars, progress, fileVars, killed>>
        /\ Len(job) - front < Concurrency
    BY DEF Consume, Room, Queued
  <1> DEFINE new == [doc |-> Changes[root][num][change], num |-> num, state |-> "new", file |-> 0]
  <1>2. \/ found /\ job' = job /\ jobcount' = jobcount
        \/ ~found /\ job' = Append(job, new) /\ jobcount' = jobcount + 1
    BY DEF Consume
  <1>3. /\ num \in Nat /\ skip \in Nat /\ change \in Nat \ {0} /\ front \in Nat
        /\ num \in DOMAIN Changes[root] /\ skip < num /\ change \in DOMAIN Changes[root][num]
        /\ Concurrency \in Nat /\ front <= Len(job) /\ jobcount \in Nat
    BY <1>1, DeltaAssumption, SeqFacts DEF IInv, TypeOK, Position
  <1>4. new \in Job /\ new.doc = Changes[root][num][change] /\ new.num = num /\ new.state = "new"
    BY <1>3, SeqFacts DEF IInv, Job
  <1> HIDE DEF new
  <1>5. job \in Seq(Job) /\ Len(job) \in Nat /\ DOMAIN job = 1 .. Len(job)
    BY SeqFacts DEF IInv, TypeOK
  <1>6. /\ job' \in Seq(Job) /\ Len(job') \in Nat /\ DOMAIN job' = 1 .. Len(job')
        /\ Len(job') \in {Len(job), Len(job) + 1}
        /\ \A j \in DOMAIN job : j \in DOMAIN job' /\ job'[j] = job[j]
        /\ \A j \in DOMAIN job' \ DOMAIN job : job'[j] = new
    BY <1>2, <1>4, <1>5
  <1>7. /\ front' = front /\ Len(job) - front < Concurrency /\ front <= Len(job)
        /\ front \in Nat /\ Concurrency \in Nat /\ Len(job) \in Nat
        /\ Len(job') = Len(job) \/ Len(job') = Len(job) + 1
    <2>1. Len(job') = Len(job) \/ Len(job') = Len(job) + 1
      BY <1>6, ZenonT(40)
    <2> QED BY <1>1, <1>3, <1>5, <2>1
  <1>8. TypeOK'
    <2>1. found' \in BOOLEAN /\ interrupted' \in BOOLEAN
      BY <1>1 DEF IInv, TypeOK, resultVars
    <2>2. change' \in Nat \ {0} /\ jobcount' \in {jobcount, jobcount + 1}
      BY <1>1, <1>2, <1>3
    <2>3. jobcount' \in Nat
      BY <1>3, <2>2
    <2>4. front' \in 0 .. Len(job')
      BY <1>7
    <2> QED BY <1>1, <1>6, <2>1, <2>2, <2>3, <2>4 DEF IInv, TypeOK, resultVars, fileVars
  <1>9. Position'
    BY <1>1, <1>3 DEF Position
  <1>10. Queue'
    <2>1. Len(job') - front' <= Concurrency
      BY <1>7, SMTT(30)
    <2>2. ASSUME NEW j \in 1 .. front' PROVE job'[j].state = "done"
      <3>1. j \in DOMAIN job /\ j \in 1 .. front
        BY <1>1, <1>3, <1>5
      <3> QED BY <1>6, <3>1 DEF IInv, Queue, Done
    <2> QED BY <1>1, <2>1, <2>2 DEF Queue, Done
  <1>11. FilesMade' /\ FilesDistinct'
    <2>1. \A j \in DOMAIN job' : job'[j].state = "checking" => j \in DOMAIN job /\ job'[j] = job[j]
      BY <1>4, <1>6
    <2> QED BY <1>1, <2>1, SMTT(30) DEF IInv, FilesMade, FilesDistinct, fileVars
  <1>12. JobsOfRound'
    <2>1. ASSUME NEW j \in DOMAIN job'
          PROVE  /\ IsChange(job'[j].doc, job'[j].num)
                 /\ job'[j].state = "success" => job'[j].doc \in Passing
      <3>1. CASE j \in DOMAIN job
        BY <1>1, <1>6, <3>1, ZenonT(40) DEF IInv, JobsOfRound, Active
      <3>2. CASE j \notin DOMAIN job
        BY <1>3, <1>4, <1>6, <3>2 DEF IsChange
      <3> QED BY <3>1, <3>2, SMTT(30)
    <2>2. found' => result'.doc \in Passing /\ IsChange(result'.doc, result'.num)
      BY <1>1 DEF IInv, JobsOfRound, Active, resultVars
    <2> QED BY <1>1, <2>1, <2>2 DEF JobsOfRound, IsChange
  <1>13. Covered'
    <2>1. CASE found
      BY <1>1, <2>1 DEF Covered, resultVars
    <2>2. CASE ~found
      <3>1. job' = Append(job, new) /\ Len(job') = Len(job) + 1
        BY <1>2, <1>5, <2>2
      <3>2. Active /\ root' = root /\ skip' = skip /\ num' = num /\ killed' = killed
        BY <1>1 DEF Active
      <3>3. ASSUME NEW n \in DOMAIN Changes[root], NEW c \in DOMAIN Changes[root][n], Tried(n, c)'
            PROVE  \E j \in DOMAIN job' : job'[j].doc = Changes[root][n][c]
        <4>1. n \in Nat /\ c \in Nat
          BY SeqFacts, SMTT(30) DEF IInv
        <4>2. skip < n /\ (n < num \/ (n = num /\ c < change + 1))
          BY <1>1, <3>2, <3>3 DEF Tried
        <4>3. CASE n = num /\ c = change
          <5>1. Len(job) + 1 \in DOMAIN job' /\ Len(job) + 1 \notin DOMAIN job
            BY <1>5, <1>6, <3>1
          <5> QED BY <1>4, <1>6, <4>3, <5>1
        <4>4. CASE ~(n = num /\ c = change)
          <5>1. Tried(n, c)
            BY <1>1, <1>3, <4>1, <4>2, <4>4 DEF Tried
          <5>2. PICK j \in DOMAIN job : job[j].doc = Changes[root][n][c]
            BY <2>2, <3>2, <5>1 DEF IInv, Covered
          <5> QED BY <1>6, <5>2
        <4> QED BY <4>3, <4>4
      <3>4. ASSUME NEW j \in DOMAIN job', job'[j].state = "done"
            PROVE  job'[j].doc \notin Passing \/ killed > 0
        <4>1. j \in DOMAIN job /\ job'[j] = job[j]
          BY <1>4, <1>6, <3>4
        <4> QED BY <2>2, <3>2, <3>4, <4>1, SMTT(30) DEF IInv, Covered, Done
      <3> QED BY <3>2, <3>3, <3>4 DEF Covered, Done
    <2> QED BY <2>1, <2>2
  <1>14. FinishedIsMinimal'
    BY <1>1 DEF FinishedIsMinimal
  <1> QED BY <1>8, <1>9, <1>10, <1>11, <1>12, <1>13, <1>14 DEF IInv

LEMMA WaitStep ==
  ASSUME IInv, Wait
  PROVE  IInv'
  <1>1. /\ pc = "wait" /\ pc' \in {"wait", "decide"}
        /\ UNCHANGED <<root, skip, num, change, interrupted, job, resultVars, jobcount,
                       progress, fileVars, killed>>
    BY DEF Wait
  <1>2. \/ Len(job) - front = 0 /\ pc' = "decide" /\ front' = front
        \/ Len(job) - front # 0 /\ Done(front + 1) /\ front' = front + 1 /\ pc' = "wait"
    BY <1>1 DEF Wait, Queued
  <1>3. front \in Nat /\ Len(job) \in Nat /\ front <= Len(job) /\ Concurrency \in Nat
    BY DeltaAssumption, SeqFacts DEF IInv, TypeOK
  <1>4. TypeOK'
    <2>1. found' \in BOOLEAN /\ interrupted' \in BOOLEAN
      BY <1>1 DEF IInv, TypeOK, resultVars
    <2>2. front' \in 0 .. Len(job')
      BY <1>1, <1>2, <1>3
    <2> QED BY <1>1, <2>1, <2>2 DEF IInv, TypeOK, resultVars, fileVars
  <1>5. Queue'
    <2>1. ASSUME NEW j \in 1 .. front' PROVE job'[j].state = "done"
      <3>1. j \in 1 .. front \/ (j = front + 1 /\ Done(j))
        BY <1>2, <1>3
      <3> QED BY <1>1, <3>1 DEF IInv, Queue, Done
    <2>2. Len(job') - front' <= Concurrency /\ (pc' = "decide" => front' = Len(job'))
      BY <1>1, <1>2, <1>3 DEF IInv, Queue
    <2> QED BY <1>1, <2>1, <2>2 DEF Queue, Done
  <1>6. Position' /\ FilesMade' /\ FilesDistinct' /\ FinishedIsMinimal'
    BY <1>1 DEF IInv, Position, FilesMade, FilesDistinct, FinishedIsMinimal, fileVars, resultVars
  <1>7. JobsOfRound' /\ Covered'
    BY <1>1 DEF IInv, JobsOfRound, Covered, IsChange, Tried, Active, Done, resultVars
  <1> QED BY <1>4, <1>5, <1>6, <1>7 DEF IInv

(* At the end of a round that found nothing every job is done with.        *)
LEMMA RoundDone ==
  ASSUME IInv, pc = "decide", ~found, skip = 0, killed = 0,
         NEW n \in DOMAIN Changes[root], NEW c \in DOMAIN Changes[root][n]
  PROVE  Changes[root][n][c] \notin Passing
  <1>1. n \in Nat /\ n >= 1 /\ n <= Len(Changes[root]) /\ num > Len(Changes[root])
        /\ num \in Nat /\ Len(Changes[root]) \in Nat
    BY SeqFacts DEF IInv, Position, TypeOK
  <1>2. Tried(n, c)
    BY <1>1 DEF Tried
  <1>3. PICK j \in DOMAIN job : job[j].doc = Changes[root][n][c]
    BY <1>2 DEF IInv, Covered, Active
  <1>4. Done(j)
    BY SeqFacts DEF IInv, Queue
  <1> QED BY <1>3, <1>4 DEF IInv, Covered, Active

LEMMA DecideStep ==
  ASSUME IInv, Decide
  PROVE  IInv'
  <1>1. /\ pc = "decide" /\ pc' \in {"finished", "interrupted", "reset"}
        /\ UNCHANGED <<num, change, interrupted, job, front, resultVars, jobcount, progress,
                       fileVars, killed>>
    BY DEF Decide
  <1>2. /\ found => root' = result.doc /\ skip' = result.num
        /\ ~found => root' = root /\ skip' = 0
        /\ pc' = "finished" => ~found /\ skip = 0
    BY DEF Decide, Finished
  <1>3. TypeOK'
    <2>1. found' \in BOOLEAN /\ interrupted' \in BOOLEAN
      BY <1>1 DEF IInv, TypeOK, resultVars
    <2>2. result.doc \in Doc /\ result.num \in Nat /\ root \in Doc
      BY DEF IInv, TypeOK
    <2>3. root' \in Doc /\ skip' \in Nat
      BY <1>2, <2>2
    <2> QED BY <1>1, <2>1, <2>3 DEF IInv, TypeOK, resultVars, fileVars
  <1>4. Position' /\ JobsOfRound' /\ Covered'
    BY <1>1 DEF Position, JobsOfRound, Covered, Active
  <1>5. Queue' /\ FilesMade' /\ FilesDistinct'
    BY <1>1 DEF IInv, Queue, FilesMade, FilesDistinct, Done, fileVars
  <1>6. FinishedIsMinimal'
    <2> SUFFICES ASSUME pc' = "finished", killed' = 0
                 PROVE  \A n \in DOMAIN Changes[root'] : \A c \in DOMAIN Changes[root'][n] :
                          Changes[root'][n][c] \notin Passing
      BY DEF FinishedIsMinimal
    <2>1. ~found /\ skip = 0 /\ root' = root /\ killed = 0
      BY <1>1, <1>2
    <2> QED BY <1>1, <2>1, RoundDone
  <1> QED BY <1>3, <1>4, <1>5, <1>6 DEF IInv

LEMMA InterruptStep ==
  ASSUME IInv, Interrupt
  PROVE  IInv'
  <1>1. interrupted' \in BOOLEAN /\ found' = found
    BY DEF Interrupt, resultVars
  <1>2. UNCHANGED <<root, skip, num, change, pc, job, front, result, jobcount, progress,
                    pool, nextid, killed>>
    BY DEF Interrupt, resultVars, fileVars
  <1>3. TypeOK'
    <2>1. found' \in BOOLEAN
      BY <1>1 DEF IInv, TypeOK
    <2> QED BY <1>1, <1>2, <2>1 DEF IInv, TypeOK
  <1>4. Position' /\ Queue' /\ FilesMade' /\ FilesDistinct' /\ FinishedIsMinimal'
    BY <1>1, <1>2 DEF IInv, Position, Queue, FilesMade, FilesDistinct, FinishedIsMinimal, Done
  <1>5. JobsOfRound' /\ Covered'
    BY <1>1, <1>2 DEF IInv, JobsOfRound, Covered, IsChange, Tried, Active, Done
  <1> QED BY <1>3, <1>4, <1>5 DEF IInv

LEMMA StutterStep ==
  ASSUME IInv, UNCHANGED vars
  PROVE  IInv'
  <1>1. found' = found /\ interrupted' = interrupted
    BY DEF vars, producerVars, resultVars
  <1>2. UNCHANGED <<root, skip, num, change, pc, job, front, result, jobcount, progress,
                    pool, nextid, killed>>
    BY DEF vars, producerVars, resultVars, fileVars
  <1>3. TypeOK'
    <2>1. found' \in BOOLEAN /\ interrupted' \in BOOLEAN
      BY <1>1 DEF IInv, TypeOK
    <2> QED BY <1>2, <2>1 DEF IInv, TypeOK
  <1>4. Position' /\ Queue' /\ FilesMade' /\ FilesDistinct' /\ FinishedIsMinimal'
    BY <1>1, <1>2 DEF IInv, Position, Queue, FilesMade, FilesDistinct, FinishedIsMinimal, Done
  <1>5. JobsOfRound' /\ Covered'
    BY <1>1, <1>2 DEF IInv, JobsOfRound, Covered, IsChange, Tried, Active, Done
  <1> QED BY <1>3, <1>4, <1>5 DEF IInv

-----------------------------------------------------------------------------
(* The steps of a job's thread.                                            *)

(* Only job j changes.                                                     *)
LEMMA JobChanged ==
  ASSUME TypeOK, NEW j \in DOMAIN job, NEW r \in Job, job' = [job EXCEPT ![j] = r]
  PROVE  /\ job' \in Seq(Job) /\ Len(job') = Len(job) /\ DOMAIN job' = DOMAIN job
         /\ \A i \in DOMAIN job : i # j => job'[i] = job[i]
         /\ job'[j] = r
  BY DEF TypeOK

(* A change of the state only.                                             *)
LEMMA StateChanged ==
  ASSUME TypeOK, NEW j \in DOMAIN job, NEW st \in {"new", "checking", "success", "done"},
         job' = [job EXCEPT ![j].state = st]
  PROVE  /\ job' \in Seq(Job) /\ Len(job') = Len(job) /\ DOMAIN job' = DOMAIN job
         /\ \A i \in DOMAIN job : i # j => job'[i] = job[i]
         /\ job'[j].state = st /\ job'[j].file = job[j].file
         /\ job'[j].doc = job[j].doc /\ job'[j].num = job[j].num
  <1>1. job \in Seq(Job) /\ job[j] \in Job
    BY SeqFacts DEF TypeOK
  <1> DEFINE r == [job[j] EXCEPT !.state = st]
  <1>2. /\ r \in Job /\ r.state = st /\ r.file = job[j].file
        /\ r.doc = job[j].doc /\ r.num = job[j].num
    BY <1>1 DEF Job
  <1>3. job' = [job EXCEPT ![j] = r]
    OBVIOUS
  <1> HIDE DEF r
  <1> QED BY <1>1, <1>2, <1>3

(* A job that is not done is in the queue of a round.                      *)
LEMMA RunningInRound ==
  ASSUME IInv, NEW j \in DOMAIN job, ~Done(j)
  PROVE  Active /\ pc # "decide" /\ j \notin 1 .. front
  <1>1. j \in 1 .. Len(job) /\ j \notin 1 .. front
    BY SeqFacts DEF IInv, Queue
  <1>2. pc \notin {"decide", "reset", "finished", "interrupted"}
    BY <1>1 DEF IInv, Queue
  <1> QED BY <1>1, <1>2 DEF IInv, TypeOK, Active

(* What a step of a job's thread keeps, whatever becomes of the job.       *)
LEMMA ThreadKeeps ==
  ASSUME IInv, NEW j \in DOMAIN job, ~Done(j),
         UNCHANGED <<producerVars, front>>,
         job' \in Seq(Job), Len(job') = Len(job), DOMAIN job' = DOMAIN job,
         \A i \in DOMAIN job : i # j => job'[i] = job[i],
         job'[j].doc = job[j].doc, job'[j].num = job[j].num,
         found => found'
  PROVE  Position' /\ Queue' /\ FinishedIsMinimal'
  <1>1. Active /\ pc # "decide" /\ j \notin 1 .. front
    BY RunningInRound
  <1>2. root' = root /\ skip' = skip /\ num' = num /\ change' = change /\ pc' = pc /\ front' = front
    BY DEF producerVars
  <1>3. Position'
    BY <1>2 DEF IInv, Position
  <1>4. Queue'
    <2>1. ASSUME NEW i \in 1 .. front PROVE job'[i].state = "done"
      <3>1. i \in DOMAIN job /\ i # j
        BY <1>1, SeqFacts DEF IInv, TypeOK
      <3> QED BY <3>1 DEF IInv, Queue, Done
    <2>2. Len(job') - front' <= Concurrency
      BY <1>2 DEF IInv, Queue
    <2> QED BY <1>1, <1>2, <2>1, <2>2 DEF Queue, Active, Done
  <1>5. FinishedIsMinimal'
    BY <1>1, <1>2 DEF FinishedIsMinimal, Active
  <1> QED BY <1>3, <1>4, <1>5

(* The round's part of the invariant, given what becomes of job j.         *)
LEMMA ThreadKeepsRound ==
  ASSUME IInv, NEW j \in DOMAIN job, ~Done(j),
         UNCHANGED producerVars, DOMAIN job' = DOMAIN job,
         \A i \in DOMAIN job : i # j => job'[i] = job[i],
         job'[j].doc = job[j].doc, job'[j].num = job[j].num,
         UNCHANGED resultVars,
         killed \in Nat, killed' = killed \/ killed' = killed + 1,
         job'[j].state = "success" => job[j].doc \in Passing,
         job'[j].state = "done" /\ ~found => job[j].doc \notin Passing \/ killed' > 0
  PROVE  JobsOfRound' /\ Covered'
  <1>1. Active
    BY RunningInRound
  <1>2. /\ root' = root /\ skip' = skip /\ num' = num /\ change' = change /\ pc' = pc
        /\ found' = found /\ result' = result
    BY DEF producerVars, resultVars
  <1>3. JobsOfRound'
    <2>1. ASSUME NEW i \in DOMAIN job
          PROVE  /\ IsChange(job'[i].doc, job'[i].num)
                 /\ job'[i].state = "success" => job'[i].doc \in Passing
      <3>1. /\ IsChange(job[i].doc, job[i].num)
            /\ job[i].state = "success" => job[i].doc \in Passing
        BY <1>1 DEF IInv, JobsOfRound
      <3>2. CASE i = j
        BY <3>1, <3>2
      <3>3. CASE i # j
        <4>1. job'[i] = job[i]
          BY <3>3
        <4> QED BY <3>1, <4>1
      <3> QED BY <3>2, <3>3
    <2>2. found => result.doc \in Passing /\ IsChange(result.doc, result.num)
      BY <1>1 DEF IInv, JobsOfRound
    <2> QED BY <1>2, <2>1, <2>2 DEF JobsOfRound, IsChange
  <1>4. Covered'
    <2> SUFFICES ASSUME ~found PROVE Covered'
      BY <1>2 DEF Covered
    <2>1. ASSUME NEW n \in DOMAIN Changes[root], NEW c \in DOMAIN Changes[root][n], Tried(n, c)
          PROVE  \E i \in DOMAIN job' : job'[i].doc = Changes[root][n][c]
      <3>1. PICK i \in DOMAIN job : job[i].doc = Changes[root][n][c]
        BY <1>1, <2>1 DEF IInv, Covered
      <3>2. job'[i].doc = job[i].doc
        OBVIOUS
      <3> QED BY <3>1, <3>2
    <2>2. ASSUME NEW i \in DOMAIN job, job'[i].state = "done"
          PROVE  job'[i].doc \notin Passing \/ killed' > 0
      <3>1. CASE i = j
        BY <2>2, <3>1
      <3>2. CASE i # j
        <4>1. job'[i] = job[i]
          BY <3>2
        <4>2. job[i].doc \notin Passing \/ killed > 0
          BY <1>1, <2>2, <4>1 DEF IInv, Covered, Done
        <4> QED BY <4>1, <4>2
      <3> QED BY <3>1, <3>2
    <2>3. \A n, c : Tried(n, c)' <=> Tried(n, c)
      BY <1>2 DEF Tried
    <2> QED BY <1>2, <2>1, <2>2, <2>3 DEF Covered, Done
  <1> QED BY <1>3, <1>4

LEMMA BeginStep ==
  ASSUME IInv, NEW j \in DOMAIN job, Begin(j)
  PROVE  IInv'
  <1>1. /\ job[j].state = "new"
        /\ UNCHANGED <<producerVars, front, resultVars, jobcount, killed>>
    BY DEF Begin
  <1>2. ~Done(j)
    BY <1>1 DEF Done
  <1>3. /\ killed \in Nat /\ progress \in Nat /\ nextid \in Nat /\ pool \in Seq(Nat)
        /\ Len(pool) \in Nat /\ DOMAIN pool = 1 .. Len(pool)
    BY SeqFacts DEF IInv, TypeOK
  <1>4. found' = found /\ found \in BOOLEAN /\ interrupted' = interrupted /\ interrupted \in BOOLEAN
    BY <1>1 DEF producerVars, resultVars, IInv, TypeOK
  <1>5. /\ UNCHANGED <<root, skip, num, change, pc, front, result, jobcount, killed>>
    BY <1>1 DEF producerVars, resultVars
  <1>6. CASE found /\ GiveUp(j) /\ UNCHANGED fileVars
    <2>1. /\ job' = [job EXCEPT ![j].state = "done"] /\ progress' = progress + 1
          /\ pool' = pool /\ nextid' = nextid
      BY <1>6 DEF GiveUp, fileVars
    <2>2. /\ job' \in Seq(Job) /\ Len(job') = Len(job) /\ DOMAIN job' = DOMAIN job
          /\ \A i \in DOMAIN job : i # j => job'[i] = job[i]
          /\ job'[j].state = "done" /\ job'[j].doc = job[j].doc /\ job'[j].num = job[j].num
      BY <2>1, StateChanged DEF IInv
    <2>3. TypeOK'
      BY <1>3, <1>4, <1>5, <2>1, <2>2 DEF IInv, TypeOK
    <2>4. FilesMade' /\ FilesDistinct'
      <3>1. \A i \in DOMAIN job' : job'[i].state = "checking" =>
              i \in DOMAIN job /\ job'[i] = job[i]
        BY <2>2
      <3> QED BY <2>1, <2>2, <3>1 DEF IInv, FilesMade, FilesDistinct
    <2>5. Position' /\ Queue' /\ FinishedIsMinimal'
      BY <1>1, <1>2, <1>4, <2>2, ThreadKeeps
    <2>6. JobsOfRound' /\ Covered'
      BY <1>1, <1>2, <1>3, <1>5, <1>6, <2>2, ThreadKeepsRound
    <2> QED BY <2>3, <2>4, <2>5, <2>6 DEF IInv
  <1>7. CASE ~found /\ Take(j) /\ UNCHANGED progress
    <2> DEFINE f == IF pool = <<>> THEN nextid ELSE Head(pool)
               r == [job[j] EXCEPT !.state = "checking", !.file = f]
    <2>1. job[j] \in Job
      BY SeqFacts DEF IInv
    <2>2. /\ job' = [job EXCEPT ![j] = r]
          /\ \/ pool = <<>> /\ f = nextid /\ nextid' = nextid + 1 /\ pool' = pool
             \/ pool # <<>> /\ f = Head(pool) /\ pool' = Tail(pool) /\ nextid' = nextid
      <3>1. CASE pool = <<>>
        BY <1>7, <3>1 DEF Take
      <3>2. CASE pool # <<>>
        BY <1>7, <3>2 DEF Take
      <3> QED BY <3>1, <3>2
    <2> HIDE DEF f
    <2>3. \/ pool = <<>> /\ f = nextid /\ nextid' = nextid + 1 /\ pool' = pool
          \/ pool # <<>> /\ f = Head(pool) /\ pool' = Tail(pool) /\ nextid' = nextid
      BY <2>2
    <2>4. f \in Nat
      BY <1>3, <2>3
    <2>5. /\ r \in Job /\ r.state = "checking" /\ r.file = f
          /\ r.doc = job[j].doc /\ r.num = job[j].num
      BY <2>1, <2>4 DEF Job
    <2> HIDE DEF r
    <2>6. /\ job' \in Seq(Job) /\ Len(job') = Len(job) /\ DOMAIN job' = DOMAIN job
          /\ \A i \in DOMAIN job : i # j => job'[i] = job[i]
          /\ job'[j].state = "checking" /\ job'[j].file = f
          /\ job'[j].doc = job[j].doc /\ job'[j].num = job[j].num
      BY <2>2, <2>5, JobChanged DEF IInv
    <2>7. pool' \in Seq(Nat) /\ nextid' \in Nat
      BY <1>3, <2>3, SMTT(30)
    <2>8. TypeOK'
      BY <1>3, <1>4, <1>5, <1>7, <2>6, <2>7 DEF IInv, TypeOK
    <2>9. /\ nextid <= nextid' /\ f < nextid'
          /\ \A i \in DOMAIN job : job[i].state = "checking" => job[i].file # f
          /\ \A i \in DOMAIN pool' : pool'[i] # f /\ pool'[i] < nextid'
          /\ \A i, k \in DOMAIN pool' : pool'[i] = pool'[k] => i = k
          /\ \A i \in DOMAIN pool' : \E k \in DOMAIN pool : pool'[i] = pool[k]
      <3>1. CASE pool = <<>>
        <4>1. f = nextid /\ nextid' = nextid + 1 /\ pool' = <<>>
          BY <2>2, <3>1
        <4>2. \A i \in DOMAIN job : job[i].state = "checking" => job[i].file < nextid
                                                             /\ job[i].file \in Nat
          BY SeqFacts DEF IInv, FilesMade, Job
        <4> QED BY <1>3, <4>1, <4>2
      <3>2. CASE pool # <<>>
        <4>1. f = pool[1] /\ nextid' = nextid /\ pool' = Tail(pool) /\ Len(pool) >= 1
          BY <1>3, <2>2, <3>2
        <4>2. /\ DOMAIN pool' = 1 .. Len(pool) - 1
              /\ \A i \in DOMAIN pool' : pool'[i] = pool[i + 1] /\ i + 1 \in DOMAIN pool /\ i + 1 # 1
          BY <1>3, <4>1
        <4>3. /\ \A i \in DOMAIN pool : pool[i] < nextid
              /\ \A i, k \in DOMAIN pool : pool[i] = pool[k] => i = k
              /\ \A i \in DOMAIN job : job[i].state = "checking" =>
                    \A k \in DOMAIN pool : pool[k] # job[i].file
          BY DEF IInv, FilesMade, FilesDistinct
        <4>4. 1 \in DOMAIN pool
          BY <1>3, <4>1
        <4>5. \A i, k \in DOMAIN pool' : pool'[i] = pool'[k] => i = k
          <5> SUFFICES ASSUME NEW i \in DOMAIN pool', NEW k \in DOMAIN pool', pool'[i] = pool'[k]
                       PROVE  i = k
            OBVIOUS
          <5>1. i + 1 = k + 1
            BY <4>2, <4>3
          <5> QED BY <1>3, <4>2, <5>1
        <4> QED BY <1>3, <4>1, <4>2, <4>3, <4>4, <4>5, SMTT(30)
      <3> QED BY <3>1, <3>2
    <2>10. FilesMade'
      <3>1. ASSUME NEW i \in DOMAIN job', job'[i].state = "checking" PROVE job'[i].file < nextid'
        <4>1. CASE i = j
          BY <2>6, <2>9, <4>1
        <4>2. CASE i # j
          <5>1. job'[i] = job[i] /\ i \in DOMAIN job /\ job[i] \in Job
            BY <2>6, <4>2, SeqFacts DEF IInv
          <5>2. job[i].file < nextid /\ job[i].file \in Nat
            BY <3>1, <5>1 DEF IInv, FilesMade, Job
          <5> QED BY <1>3, <2>7, <2>9, <5>1, <5>2
        <4> QED BY <4>1, <4>2
      <3> QED BY <2>9, <3>1 DEF FilesMade
    <2>11. FilesDistinct'
      <3>1. ASSUME NEW i \in DOMAIN job', NEW k \in DOMAIN job', job'[i].state = "checking",
                   job'[k].state = "checking", job'[i].file = job'[k].file
            PROVE  i = k
        BY <2>6, <2>9, <3>1 DEF IInv, FilesDistinct
      <3>2. ASSUME NEW i \in DOMAIN job', job'[i].state = "checking", NEW k \in DOMAIN pool'
            PROVE  pool'[k] # job'[i].file
        BY <2>6, <2>9, <3>2 DEF IInv, FilesDistinct
      <3> QED BY <2>9, <3>1, <3>2 DEF FilesDistinct
    <2>12. Position' /\ Queue' /\ FinishedIsMinimal'
      BY <1>1, <1>2, <1>4, <2>6, ThreadKeeps
    <2>13. JobsOfRound' /\ Covered'
      BY <1>1, <1>2, <1>3, <1>5, <2>6, ThreadKeepsRound
    <2> QED BY <2>8, <2>10, <2>11, <2>12, <2>13 DEF IInv
  <1> QED BY <1>6, <1>7 DEF Begin

LEMMA CheckStep ==
  ASSUME IInv, NEW j \in DOMAIN job, Check(j)
  PROVE  IInv'
  <1>1. /\ job[j].state = "checking" /\ pool' = Append(pool, job[j].file)
        /\ progress' = progress + 1
        /\ UNCHANGED <<producerVars, front, resultVars, jobcount, nextid>>
    BY DEF Check
  <1>2. ~Done(j)
    BY <1>1 DEF Done
  <1>3. /\ killed \in Nat /\ progress \in Nat /\ nextid \in Nat /\ pool \in Seq(Nat)
        /\ Len(pool) \in Nat /\ DOMAIN pool = 1 .. Len(pool) /\ job[j].file \in Nat
    BY SeqFacts DEF IInv, TypeOK, Job
  <1>4. found' = found /\ found \in BOOLEAN /\ interrupted' = interrupted /\ interrupted \in BOOLEAN
    BY <1>1 DEF producerVars, resultVars, IInv, TypeOK
  <1>5. UNCHANGED <<root, skip, num, change, pc, front, result, jobcount, nextid>>
    BY <1>1 DEF producerVars, resultVars
  <1>6. PICK stopped \in BOOLEAN :
          /\ killed' = IF stopped \/ job[j].doc \in Aborting THEN killed + 1 ELSE killed
          /\ job' = [job EXCEPT ![j].state =
                       IF ~stopped /\ job[j].doc \in Passing THEN "success" ELSE "done"]
    BY DEF Check
  <1> DEFINE st == IF ~stopped /\ job[j].doc \in Passing THEN "success" ELSE "done"
  <1>7. st \in {"new", "checking", "success", "done"} /\ st # "checking"
    OBVIOUS
  <1>8. /\ st = "success" => job[j].doc \in Passing
        /\ st = "done" => job[j].doc \notin Passing \/ stopped
    OBVIOUS
  <1>9. job' = [job EXCEPT ![j].state = st]
    BY <1>6
  <1> HIDE DEF st
  <1>10. killed' \in Nat /\ (killed' = killed \/ killed' = killed + 1) /\ (stopped => killed' > 0)
    BY <1>3, <1>6
  <1>11. /\ job' \in Seq(Job) /\ Len(job') = Len(job) /\ DOMAIN job' = DOMAIN job
         /\ \A i \in DOMAIN job : i # j => job'[i] = job[i]
         /\ job'[j].state = st /\ job'[j].doc = job[j].doc /\ job'[j].num = job[j].num
    BY <1>7, <1>9, StateChanged DEF IInv
  <1>12. pool' \in Seq(Nat) /\ progress' \in Nat
    BY <1>1, <1>3
  <1>13. TypeOK'
    BY <1>4, <1>5, <1>10, <1>11, <1>12 DEF IInv, TypeOK
  <1>14. /\ \A i \in DOMAIN job' : job'[i].state = "checking" =>
               i # j /\ i \in DOMAIN job /\ job'[i] = job[i]
         /\ DOMAIN pool' = 1 .. Len(pool) + 1
         /\ \A i \in DOMAIN pool : pool'[i] = pool[i]
         /\ \A i \in DOMAIN pool' : i \in DOMAIN pool \/ i = Len(pool) + 1
         /\ pool'[Len(pool) + 1] = job[j].file
    <2>1. \A i \in DOMAIN job' : job'[i].state = "checking" =>
               i # j /\ i \in DOMAIN job /\ job'[i] = job[i]
      BY <1>7, <1>11
    <2>2. /\ DOMAIN pool' = 1 .. Len(pool) + 1
          /\ \A i \in DOMAIN pool : pool'[i] = pool[i]
          /\ pool'[Len(pool) + 1] = job[j].file
      BY <1>1, <1>3
    <2>3. \A i \in DOMAIN pool' : i \in DOMAIN pool \/ i = Len(pool) + 1
      BY <1>3, <2>2
    <2> QED BY <2>1, <2>2, <2>3
  <1>15. FilesMade'
    <2>1. job[j].file < nextid
      BY <1>1 DEF IInv, FilesMade
    <2>2. \A i \in DOMAIN pool' : pool'[i] < nextid
      BY <1>14, <2>1 DEF IInv, FilesMade
    <2>3. \A i \in DOMAIN job' : job'[i].state = "checking" => job'[i].file < nextid
      BY <1>14 DEF IInv, FilesMade
    <2> QED BY <1>5, <2>2, <2>3 DEF FilesMade
  <1>16. FilesDistinct'
    <2>1. ASSUME NEW i \in DOMAIN job', NEW k \in DOMAIN job', job'[i].state = "checking",
                 job'[k].state = "checking", job'[i].file = job'[k].file
          PROVE  i = k
      BY <1>14, <2>1 DEF IInv, FilesDistinct
    <2>2. ASSUME NEW i \in DOMAIN job', job'[i].state = "checking", NEW k \in DOMAIN pool'
          PROVE  pool'[k] # job'[i].file
      BY <1>1, <1>14, <2>2 DEF IInv, FilesDistinct
    <2>3. ASSUME NEW i \in DOMAIN pool', NEW k \in DOMAIN pool', pool'[i] = pool'[k]
          PROVE  i = k
      <3>1. \A l \in DOMAIN pool : pool[l] # job[j].file
        BY <1>1 DEF IInv, FilesDistinct
      <3> QED BY <1>14, <2>3, <3>1 DEF IInv, FilesDistinct
    <2> QED BY <2>1, <2>2, <2>3 DEF FilesDistinct
  <1>17. Position' /\ Queue' /\ FinishedIsMinimal'
    BY <1>1, <1>2, <1>4, <1>11, ThreadKeeps
  <1>18. JobsOfRound' /\ Covered'
    BY <1>1, <1>2, <1>3, <1>5, <1>8, <1>10, <1>11, ThreadKeepsRound
  <1> QED BY <1>13, <1>15, <1>16, <1>17, <1>18 DEF IInv

LEMMA PublishStep ==
  ASSUME IInv, NEW j \in DOMAIN job, Publish(j)
  PROVE  IInv'
  <1>1. /\ job[j].state = "success" /\ job' = [job EXCEPT ![j].state = "done"]
        /\ result' = IF found THEN result ELSE [doc |-> job[j].doc, num |-> job[j].num]
        /\ UNCHANGED <<producerVars, front, jobcount, progress, fileVars, killed>>
    BY DEF Publish
  <1>2. found' = TRUE
    BY DEF Publish
  <1>3. ~Done(j)
    BY <1>1 DEF Done
  <1>4. interrupted' = interrupted /\ interrupted \in BOOLEAN /\ found' \in BOOLEAN
    BY <1>1, <1>2 DEF producerVars, IInv, TypeOK
  <1>5. UNCHANGED <<root, skip, num, change, pc, front, jobcount, progress, pool, nextid, killed>>
    BY <1>1 DEF producerVars, fileVars
  <1>6. /\ job' \in Seq(Job) /\ Len(job') = Len(job) /\ DOMAIN job' = DOMAIN job
        /\ \A i \in DOMAIN job : i # j => job'[i] = job[i]
        /\ job'[j].state = "done" /\ job'[j].doc = job[j].doc /\ job'[j].num = job[j].num
    BY <1>1, StateChanged DEF IInv
  <1>7. Active
    BY <1>3, RunningInRound
  <1>8. result'.doc \in Passing /\ IsChange(result'.doc, result'.num)
        /\ result' \in [doc : Doc, num : Nat]
    <2>1. job[j].doc \in Passing /\ IsChange(job[j].doc, job[j].num) /\ job[j] \in Job
      BY <1>1, <1>7, SeqFacts DEF IInv, JobsOfRound
    <2>2. found => result.doc \in Passing /\ IsChange(result.doc, result.num)
      BY <1>7 DEF IInv, JobsOfRound
    <2>3. result \in [doc : Doc, num : Nat]
      BY DEF IInv, TypeOK
    <2>4. CASE found
      BY <1>1, <2>2, <2>3, <2>4
    <2>5. CASE ~found
      <3>1. result' = [doc |-> job[j].doc, num |-> job[j].num]
        BY <1>1, <2>5
      <3> QED BY <2>1, <3>1 DEF Job
    <2> QED BY <2>4, <2>5
  <1>9. TypeOK'
    BY <1>4, <1>5, <1>6, <1>8 DEF IInv, TypeOK
  <1>10. FilesMade' /\ FilesDistinct'
    <2>1. \A i \in DOMAIN job' : job'[i].state = "checking" => i \in DOMAIN job /\ job'[i] = job[i]
      BY <1>6
    <2> QED BY <1>5, <2>1 DEF IInv, FilesMade, FilesDistinct
  <1>11. Position' /\ Queue' /\ FinishedIsMinimal'
    BY <1>1, <1>2, <1>3, <1>6, ThreadKeeps
  <1>12. Covered'
    BY <1>2 DEF Covered
  <1>13. JobsOfRound'
    <2>1. ASSUME NEW i \in DOMAIN job
          PROVE  /\ IsChange(job'[i].doc, job'[i].num)
                 /\ job'[i].state = "success" => job'[i].doc \in Passing
      <3>1. /\ IsChange(job[i].doc, job[i].num)
            /\ job[i].state = "success" => job[i].doc \in Passing
        BY <1>7 DEF IInv, JobsOfRound
      <3>2. CASE i = j
        BY <1>6, <3>1, <3>2
      <3>3. CASE i # j
        <4>1. job'[i] = job[i]
          BY <1>6, <3>3
        <4> QED BY <3>1, <4>1
      <3> QED BY <3>2, <3>3
    <2> QED BY <1>5, <1>6, <1>8, <2>1 DEF JobsOfRound, IsChange
  <1> QED BY <1>9, <1>10, <1>11, <1>12, <1>13 DEF IInv

-----------------------------------------------------------------------------
LEMMA Inductive == IInv /\ [Next]_vars => IInv'
  <1> SUFFICES ASSUME IInv, [Next]_vars PROVE IInv'
    OBVIOUS
  <1>1. CASE Producer
    BY <1>1, ResetStep, VisitStep, ProcessStep, PollStep, ConsumeStep, WaitStep, DecideStep
    DEF Producer
  <1>2. CASE Interrupt
    BY <1>2, InterruptStep
  <1>3. CASE UNCHANGED vars
    BY <1>3, StutterStep
  <1>4. ASSUME NEW j \in DOMAIN job, Thread(j) PROVE IInv'
    BY <1>4, BeginStep, CheckStep, PublishStep DEF Thread
  <1> QED BY <1>1, <1>2, <1>3, <1>4 DEF Next, Terminated

LEMMA Invariance == Spec => []IInv
  BY InitIInv, Inductive, PTL DEF Spec

(* The state of the producer, the jobs and the generator of file names     *)
(* keeps its types, whatever the threads do.                               *)
THEOREM TypeCorrect == Spec => []TypeOK
  <1>1. IInv => TypeOK
    BY DEF IInv
  <1> QED BY <1>1, Invariance, PTL

(* No two running solvers share a temporary file, and none uses one that   *)
(* TempFilenameGenerator may give away (utils.h:33-66).                    *)
THEOREM FilesNeverShared == Spec => []FilesDistinct
  <1>1. IInv => FilesDistinct
    BY DEF IInv
  <1> QED BY <1>1, Invariance, PTL

(* When Producer::operator() ends by itself and no run was stopped by a    *)
(* limit in the last round, no change of the document passes.              *)
THEOREM FinishedMinimal == Spec => []FinishedIsMinimal
  <1>1. IInv => FinishedIsMinimal
    BY DEF IInv
  <1> QED BY <1>1, Invariance, PTL

(* Every round replaces the document by one of its own changes that exits  *)
(* like the original: jobs of earlier rounds have no say.                  *)
THEOREM EachStepOneChange == Spec => StepIsOneChange
  <1> DEFINE A == root' # root =>
                    /\ root' \in Passing
                    /\ \E n \in DOMAIN Changes[root] : \E c \in DOMAIN Changes[root][n] :
                          root' = Changes[root][n][c]
  <1>1. IInv /\ [Next]_vars => [A]_vars
    <2> SUFFICES ASSUME IInv, Next, root' # root PROVE A
      OBVIOUS
    <2>1. Decide
      BY DEF Next, Producer, Reset, Visit, Process, Poll, Consume, Wait, Interrupt, Terminated,
             Thread, Begin, Check, Publish, vars, producerVars
    <2>2. pc = "decide" /\ found /\ root' = result.doc
      BY <2>1 DEF Decide
    <2>3. result.doc \in Passing /\ IsChange(result.doc, result.num)
      BY <2>2 DEF IInv, JobsOfRound, Active
    <2> QED BY <2>2, <2>3 DEF IsChange
  <1> QED BY <1>1, Invariance, PTL DEF Spec, StepIsOneChange

(* The queue of at most `concurrency` jobs bounds the running solvers.     *)
THEOREM NeverMoreThreads == Spec => []ThreadsBounded
  <1>1. ASSUME IInv PROVE ThreadsBounded
    <2> DEFINE running == {j \in DOMAIN job : ~Done(j)}
               queue == front + 1 .. Len(job)
    <2>1. front \in Nat /\ Len(job) \in Nat /\ front <= Len(job) /\ Concurrency \in Nat
          /\ DOMAIN job = 1 .. Len(job)
      BY <1>1, DeltaAssumption, SeqFacts DEF IInv, TypeOK
    <2>2. running \subseteq queue
      <3> SUFFICES ASSUME NEW j \in DOMAIN job, ~Done(j) PROVE j \in front + 1 .. Len(job)
        OBVIOUS
      <3>1. j \notin 1 .. front
        BY <1>1, RunningInRound
      <3> QED BY <2>1, <3>1
    <2>3. Len(job) - front <= Concurrency
      BY <1>1 DEF IInv, Queue
    <2>4. /\ IsFiniteSet(queue)
          /\ Cardinality(queue) = IF front + 1 > Len(job) THEN 0 ELSE Len(job) - (front + 1) + 1
      <3>1. front + 1 \in Int /\ Len(job) \in Int
        BY <2>1
      <3> QED BY <3>1, FS_Interval
    <2> HIDE DEF running, queue
    <2>5. IsFiniteSet(running) /\ Cardinality(running) <= Cardinality(queue)
      BY <2>2, <2>4, FS_Subset
    <2>6. Cardinality(running) \in Nat /\ Cardinality(queue) \in Nat
      BY <2>4, <2>5, FS_CardinalityType
    <2>7. Cardinality(running) <= Concurrency
      BY <2>1, <2>3, <2>4, <2>5, <2>6
    <2> QED BY <2>7 DEF ThreadsBounded, running
  <1> QED BY <1>1, Invariance, PTL
=============================================================================
