------------------------------- MODULE Delta -------------------------------
(***************************************************************************)
(* The delta debugger (delta/Producer.h, Consumer.h, Checker.h, utils.h):  *)
(* a producer tries single changes of a document, each in a job of its own *)
(* that runs the solver, and continues with the first one found for which  *)
(* the solver still exits as for the original.                             *)
(*                                                                         *)
(* A document is a value; Changes lists, node by node in the order of the  *)
(* traversal (the root, which is never changed, left out), the documents   *)
(* that the operators make of it.  The solver's exit codes are external.   *)
(***************************************************************************)
EXTENDS Integers, Sequences, FiniteSets

CONSTANTS Doc, Original,  \* documents, and the one to be reduced
          Changes,        \* per document: per node, the changes to try
          Passing,        \* documents with the exit code of the original
          Slow,           \* documents whose run may hit the time limit
          Aborting,       \* documents with an exit code above 128
          Concurrency,    \* option threads, or hardware_concurrency()
          InitialSkip,    \* option skip
          MaxJobs         \* bound on the changes of one document

ASSUME DeltaAssumption ==
    /\ Changes \in [Doc -> Seq(Seq(Doc))]
    /\ Passing \subseteq Doc /\ Slow \subseteq Doc /\ Aborting \subseteq Doc
    /\ Original \in Passing
    /\ Concurrency \in Nat /\ InitialSkip \in Nat /\ MaxJobs \in Nat

VARIABLES root, skip,          \* the document so far, nodes not to try again
          num, change,         \* node and change the producer is at
          pc, interrupted,     \* of the producer
          job, front,          \* jobs of this round, how many left the queue
          found, result,       \* first success
          jobcount, progress,  \* counters for the progress bar
          pool, nextid,        \* temporary files: free ones, next new one
          killed               \* runs of this round with an exit code above 128

producerVars == <<root, skip, num, change, pc, interrupted>>
resultVars == <<found, result>>
fileVars == <<pool, nextid>>
vars == <<producerVars, job, front, resultVars, jobcount, progress, fileVars, killed>>

Job == [doc : Doc, num : Nat, state : {"new", "checking", "success", "done"}, file : Nat]

NoResult == [doc |-> Original, num |-> 0]

Init ==
    /\ root = Original /\ skip = InitialSkip /\ num = 0 /\ change = 1
    /\ pc = "reset" /\ interrupted = FALSE
    /\ job = <<>> /\ front = 0 /\ found = FALSE /\ result = NoResult
    /\ jobcount = 0 /\ progress = 0 /\ pool = <<>> /\ nextid = 0 /\ killed = 0

Queued == Len(job) - front

-----------------------------------------------------------------------------
(* The producer.                                                           *)

SkipAtStart == IF skip > 0 THEN skip - 1 ELSE skip

FoundKept == found
FoundAtStart == FALSE

(* A round begins: Consumer::reset, which waits for all jobs.              *)
Reset ==
    /\ pc = "reset" /\ Queued = 0
    /\ killed' = 0 /\ found' = FoundAtStart /\ result' = NoResult
    /\ jobcount' = 0 /\ progress' = 0
    /\ job' = <<>> /\ front' = 0
    /\ skip' = SkipAtStart /\ num' = 0 /\ change' = 1
    /\ pc' = "visit"
    /\ UNCHANGED <<root, interrupted, fileVars>>

(* bfs: until something is found, every node beyond those to skip.         *)
Visit ==
    /\ pc = "visit"
    /\ IF found \/ num > Len(Changes[root]) THEN pc' = "wait" /\ UNCHANGED <<num, change>>
       ELSE IF skip < num THEN pc' = "process" /\ change' = 1 /\ UNCHANGED num
       ELSE num' = num + 1 /\ UNCHANGED <<pc, change>>
    /\ UNCHANGED <<root, skip, interrupted, job, front, resultVars, jobcount, progress,
                   fileVars, killed>>

(* process: the changes of one node; consume() returns at once when        *)
(* something was found.                                                    *)
Process ==
    /\ pc = "process"
    /\ IF change > Len(Changes[root][num])
         THEN pc' = "visit" /\ num' = num + 1 /\ UNCHANGED change
         ELSE /\ UNCHANGED num
              /\ IF found THEN change' = change + 1 /\ UNCHANGED pc
                 ELSE pc' = "room" /\ UNCHANGED change
    /\ UNCHANGED <<root, skip, interrupted, job, front, resultVars, jobcount, progress,
                   fileVars, killed>>

Done(j) == job[j].state = "done"

(* The queue is full: take the jobs that are done from its front.          *)
Popped == {n \in front .. Len(job) : \A j \in front + 1 .. n : Done(j)}

Poll ==
    /\ pc = "room" /\ Queued >= Concurrency
    /\ front' \in Popped /\ \A n \in Popped : n <= front'
    /\ UNCHANGED <<producerVars, job, resultVars, jobcount, progress, fileVars, killed>>

Room == Queued < Concurrency

(* There is room: start a job, unless something was found meanwhile.       *)
Consume ==
    /\ pc = "room" /\ Room
    /\ pc' = "process" /\ change' = change + 1
    /\ IF found THEN UNCHANGED <<job, jobcount>>
       ELSE /\ jobcount' = jobcount + 1
            /\ job' = Append(job, [doc |-> Changes[root][num][change], num |-> num,
                                   state |-> "new", file |-> 0])
    /\ UNCHANGED <<root, skip, num, interrupted, front, resultVars, progress, fileVars, killed>>

(* wait(), until the queue is empty: each time for the job at its front.   *)
Wait ==
    /\ pc = "wait"
    /\ IF Queued = 0 THEN pc' = "decide" /\ UNCHANGED front
       ELSE Done(front + 1) /\ front' = front + 1 /\ UNCHANGED pc
    /\ UNCHANGED <<root, skip, num, change, interrupted, job, resultVars, jobcount, progress,
                   fileVars, killed>>

(* The round ends: go on from the node where the change was found, or once *)
(* more from the first node, or stop.                                      *)
StopAtOnce == ~found
FinishedBelowZero == ~found /\ skip < 0
Finished == ~found /\ skip = 0

Decide ==
    /\ pc = "decide"
    /\ root' = IF found THEN result.doc ELSE root
    /\ skip' = IF found THEN result.num ELSE 0
    /\ pc' = IF Finished THEN "finished" ELSE IF interrupted THEN "interrupted" ELSE "reset"
    /\ UNCHANGED <<num, change, interrupted, job, front, resultVars, jobcount, progress,
                   fileVars, killed>>

(* SIGINT                                                                  *)
Interrupt ==
    /\ pc \notin {"finished", "interrupted"} /\ ~interrupted
    /\ interrupted' = TRUE
    /\ UNCHANGED <<root, skip, num, change, pc, job, front, resultVars, jobcount, progress,
                   fileVars, killed>>

-----------------------------------------------------------------------------
(* Consumer::performCheck, in the thread of job j.                         *)

(* Take a temporary file, an old one if there is any.                      *)
TakeFirst(j) ==
    IF pool = <<>>
      THEN /\ job' = [job EXCEPT ![j].state = "checking", ![j].file = nextid]
           /\ nextid' = nextid + 1 /\ UNCHANGED pool
      ELSE /\ job' = [job EXCEPT ![j].state = "checking", ![j].file = Head(pool)]
           /\ UNCHANGED fileVars

Take(j) ==
    IF pool = <<>>
      THEN /\ job' = [job EXCEPT ![j].state = "checking", ![j].file = nextid]
           /\ nextid' = nextid + 1 /\ UNCHANGED pool
      ELSE /\ job' = [job EXCEPT ![j].state = "checking", ![j].file = Head(pool)]
           /\ pool' = Tail(pool) /\ UNCHANGED nextid

(* Give up if something was found.                                         *)
GiveUp(j) == job' = [job EXCEPT ![j].state = "done"] /\ progress' = progress + 1

Begin(j) ==
    /\ job[j].state = "new"
    /\ \/ found /\ GiveUp(j) /\ UNCHANGED fileVars
       \/ ~found /\ Take(j) /\ UNCHANGED progress
    /\ UNCHANGED <<producerVars, front, resultVars, jobcount, killed>>

(* Run the solver and return the file.  A run that is stopped by the limit *)
(* does not exit like the original; it is counted, as any that aborts.     *)
Check(j) ==
    /\ job[j].state = "checking"
    /\ \E stopped \in {FALSE} \cup (IF job[j].doc \in Slow THEN {TRUE} ELSE {}) :
         /\ killed' = IF stopped \/ job[j].doc \in Aborting THEN killed + 1 ELSE killed
         /\ job' = [job EXCEPT ![j].state =
                      IF ~stopped /\ job[j].doc \in Passing THEN "success" ELSE "done"]
    /\ pool' = Append(pool, job[j].file)
    /\ progress' = progress + 1
    /\ UNCHANGED <<producerVars, front, resultVars, jobcount, nextid>>

(* The first success is the result.                                        *)
Publish(j) ==
    /\ job[j].state = "success"
    /\ result' = IF found THEN result ELSE [doc |-> job[j].doc, num |-> job[j].num]
    /\ found' = TRUE
    /\ job' = [job EXCEPT ![j].state = "done"]
    /\ UNCHANGED <<producerVars, front, jobcount, progress, fileVars, killed>>

-----------------------------------------------------------------------------
Ended == pc \in {"finished", "interrupted"}

Terminated == Ended /\ UNCHANGED vars

Producer == Reset \/ Visit \/ Process \/ Poll \/ Consume \/ Wait \/ Decide

Thread(j) == Begin(j) \/ Check(j) \/ Publish(j)

Next == Producer \/ Interrupt \/ Terminated \/ \E j \in DOMAIN job : Thread(j)

Spec == Init /\ [][Next]_vars

(* The producer's thread and every job's are scheduled, and the limits end *)
(* every run of the solver.                                                *)
FairSpec ==
    /\ Spec /\ WF_vars(Producer)
    /\ \A j \in 1 .. MaxJobs : WF_vars(j \in DOMAIN job /\ Thread(j))

-----------------------------------------------------------------------------
(* The types of the producer's, the jobs' and the generator's state.       *)
TypeOK ==
    /\ root \in Doc /\ skip \in Nat /\ num \in Nat /\ change \in Nat \ {0}
    /\ pc \in {"reset", "visit", "process", "room", "wait", "decide", "finished", "interrupted"}
    /\ interrupted \in BOOLEAN
    /\ job \in Seq(Job) /\ front \in 0 .. Len(job)
    /\ found \in BOOLEAN /\ result \in [doc : Doc, num : Nat]
    /\ jobcount \in Nat /\ progress \in Nat
    /\ pool \in Seq(Nat) /\ nextid \in Nat /\ killed \in Nat

(* No two jobs that run the solver share a temporary file, and none of     *)
(* them uses one that is free: each would read what the other wrote.       *)
FilesDistinct ==
    /\ \A i, j \in DOMAIN job :
         job[i].state = "checking" /\ job[j].state = "checking" /\ job[i].file = job[j].file => i = j
    /\ \A j \in DOMAIN job : job[j].state = "checking" =>
         \A i \in DOMAIN pool : pool[i] # job[j].file
    /\ \A i, j \in DOMAIN pool : pool[i] = pool[j] => i = j

(* At most as many jobs run as there are threads to use.                   *)
ThreadsBounded ==
    Cardinality({j \in DOMAIN job : ~Done(j)}) <= Concurrency

(* A round replaces the document by one of its own changes, with the exit  *)
(* code of the original: no job of an earlier round has a say.             *)
StepIsOneChange == [][root' # root =>
    /\ root' \in Passing
    /\ \E n \in DOMAIN Changes[root] : \E c \in DOMAIN Changes[root][n] :
         root' = Changes[root][n][c]]_vars

(* When it says that there are no further simplifications, no change of    *)
(* the document passes, unless a run was stopped in the last round, which  *)
(* is then reported (delta.cpp:86-89).                                     *)
FinishedIsMinimal == pc = "finished" /\ killed = 0 =>
    \A n \in DOMAIN Changes[root] : \A c \in DOMAIN Changes[root][n] :
        Changes[root][n][c] \notin Passing

(* Producer.h:22: the operators are applied "until no further              *)
(* simplifications can be performed"; or it is interrupted before.         *)
Terminates == <>Ended
=============================================================================
