------------------------ MODULE SSHScheduler_proofs ------------------------
(***************************************************************************)
(* Safety of the SSH scheduler for every network, every list of jobs and   *)
(* any number of failures.                                                 *)
(***************************************************************************)
EXTENDS SSHScheduler, FiniteSetTheorems, TLAPS

(* The jobs a counter of the scheduler or of a connection stands for.      *)
OnCore == {"open", "talk", "store", "finish"}
Active == {"get", "search"} \cup OnCore
Started == {"started", "done"} \cup Active
JobsAt(places) == {j \in Job : jpc[j] \in places}
On(places, c) == {j \in Job : jpc[j] \in places /\ connection[j] = c}
Uploads(c) == IF pc = "uploading" /\ visit = c THEN 1 ELSE 0

(* A job that holds a core is on a connection, and in the phase that its   *)
(* place in the code says.                                                 *)
JobsWellFormed == \A j \in Job :
    /\ jpc[j] \in OnCore => connection[j] \in Conn
    /\ jpc[j] \in {"open", "talk"} => phase[j] \in 1 .. Len(Phase)

CountsRight ==
    /\ mRunningJobs = Cardinality(JobsAt(Active))
    /\ \A c \in Conn : /\ curJobs[c] = Cardinality(On(OnCore, c))
                       /\ curJobs[c] <= nodes[c].cores
                       /\ curChannels[c] = leaked[c] + Cardinality(On({"talk"}, c)) + Uploads(c)

(* The mutex is held where uploadTool and get hold it; what the upload has *)
(* seen of its connection stays true, because a job needs the mutex to     *)
(* take a core.                                                            *)
MutexRight ==
    /\ mMutex = MainThread <=> pc \in {"upload", "openUpload", "uploading"}
    /\ \A j \in Job : mMutex = j <=> jpc[j] = "search"
    /\ pc \in {"openUpload", "uploading"} => visit \in Conn /\ jobFree(visit)

(* The queue of futures: jobs start in order, those up to front have been  *)
(* waited for, and a result is stored before its future is ready.          *)
QueueRight ==
    /\ \A j \in Job : jpc[j] \in Started <=> j <= back
    /\ \A j \in Job : j <= front => jpc[j] = "done"
    /\ mFinishedJobs = front
    /\ mResults = JobsAt({"finish", "done"})
    /\ pc = "stored" => front = back
    /\ pc \in {"exited", "aborted"} => back = 0

(* Tools are done in order, each after its upload.                         *)
ToolsInOrder ==
    /\ \A j \in Job : j <= back => ToolOf[j] <= tool
    /\ \A j \in Job : j > back => ToolOf[j] >= tool
    /\ pc \in {"startTool", "upload", "openUpload", "uploading"} =>
          \A j \in Job : j <= back => ToolOf[j] < tool
    /\ pc \in {"drain", "stored"} => back = Len(ToolOf)

(* A host has a tool, or its upload was tried in vain, or another one of   *)
(* the same file name has replaced it.                                     *)
Served(h, t) == HasOwnName(t) /\ <<h, t>> \notin refused => t \in installed[h]

UploadedRight ==
    /\ DOMAIN installed = {nodes[c].host : c \in Conn}
    /\ \A t \in Tool : \A h \in DOMAIN installed : t < tool => Served(h, t)
    /\ pc \in {"execute", "drain", "stored"} =>
          \A h \in DOMAIN installed : Served(h, tool)
    /\ pc \in {"upload", "openUpload", "uploading"} =>
          \A d \in Conn : d < visit => Served(nodes[d].host, tool)

IInv == /\ TypeOK /\ JobsWellFormed /\ CountsRight /\ MutexRight
        /\ QueueRight /\ ToolsInOrder /\ UploadedRight

-----------------------------------------------------------------------------
(* What the constants' assumption says of jobs, tools and connections.     *)
LEMMA Basics ==
  ASSUME nodes \in Networks
  PROVE  /\ Len(nodes) \in Nat /\ Conn = 1 .. Len(nodes)
         /\ \A c \in Conn : nodes[c].cores \in Nat \ {0}
         /\ Len(ToolOf) \in Nat /\ Job = 1 .. Len(ToolOf) /\ ToolOf \in [Job -> Tool]
         /\ \A j, k \in Job : j <= k => ToolOf[j] <= ToolOf[k]
         /\ Len(BinaryName) \in Nat \ {0} /\ Tool = 1 .. Len(BinaryName)
         /\ IsFiniteSet(Job) /\ Nobody \notin Job /\ MainThread \notin Job
  <1>1. /\ nodes \in Seq([host : {nodes[c].host : c \in DOMAIN nodes}, cores : Nat \ {0}])
        /\ ToolOf \in Seq(Tool)
    BY SchedulerAssumption DEF ToolOf, Tool
  <1>2. /\ Len(nodes) \in Nat /\ Conn = 1 .. Len(nodes)
        /\ \A c \in Conn : nodes[c].cores \in Nat \ {0}
    <2> DEFINE connections == [host : {nodes[c].host : c \in DOMAIN nodes},
                               cores : Nat \ {0}]
    <2>1. nodes \in Seq(connections)
      BY <1>1
    <2>2. \A n \in connections : n.cores \in Nat \ {0}
      OBVIOUS
    <2> HIDE DEF connections
    <2>3. Len(nodes) \in Nat /\ Conn = 1 .. Len(nodes)
      BY <2>1 DEF Conn
    <2>4. \A c \in 1 .. Len(nodes) : nodes[c] \in connections
      BY <2>1
    <2> QED BY <2>2, <2>3, <2>4
  <1>3. Len(ToolOf) \in Nat /\ Job = 1 .. Len(ToolOf) /\ ToolOf \in [Job -> Tool]
    BY <1>1 DEF Job
  <1>4. \A j, k \in Job : j <= k => ToolOf[j] <= ToolOf[k]
    BY SchedulerAssumption DEF Job, ToolOf
  <1>5. Len(BinaryName) \in Nat \ {0} /\ Tool = 1 .. Len(BinaryName)
    BY SchedulerAssumption DEF Tool
  <1>6. IsFiniteSet(Job) /\ Nobody \notin Job /\ MainThread \notin Job
    BY <1>3, FS_Interval DEF Nobody, MainThread
  <1> QED BY <1>2, <1>3, <1>4, <1>5, <1>6

(* nodes is fixed at start-up, and with it the connections and the jobs.   *)
LEMMA NodesFixed ==
  ASSUME [Next]_vars
  PROVE  nodes' = nodes /\ Conn' = Conn /\ Job' = Job /\ ToolOf' = ToolOf
  <1>1. nodes' = nodes
    BY DEF Next, MainStep, JobStep, UploadBegin, UploadSkip, UploadVisit, UploadOpen,
           UploadEnds, UploadEnd, WaitAndPop, StartJob, NextTool, Drain, WriteResults,
           Begin, Lock, Search, Open, Destroy, CommandFails, Store, Finish, Exit,
           BusyAssertion, EndsEarly, Ended, vars
  <1> QED BY <1>1 DEF Conn, Job, ToolOf

(* When one job moves, the sets the counters stand for gain it or lose it. *)
(* What a step of job j changes in the number of jobs at these places, and *)
(* of those on one connection.                                             *)
Moved(places, j) ==
    /\ Cardinality(JobsAt(places)) \in Nat
    /\ jpc[j] \in places => Cardinality(JobsAt(places)) > 0
    /\ Cardinality(JobsAt(places)') =
          Cardinality(JobsAt(places)) - (IF jpc[j] \in places THEN 1 ELSE 0)
                                      + (IF jpc'[j] \in places THEN 1 ELSE 0)
    /\ \A c : /\ Cardinality(On(places, c)) \in Nat
              /\ jpc[j] \in places /\ connection[j] = c =>
                   Cardinality(On(places, c)) > 0
              /\ Cardinality(On(places, c)') = Cardinality(On(places, c))
                   - (IF jpc[j] \in places /\ connection[j] = c THEN 1 ELSE 0)
                   + (IF jpc'[j] \in places /\ connection'[j] = c THEN 1 ELSE 0)

LEMMA JobMoves ==
  ASSUME nodes \in Networks, nodes' = nodes, NEW j \in Job,
         \A k \in Job \ {j} : jpc'[k] = jpc[k] /\ connection'[k] = connection[k],
         NEW places
  PROVE  Moved(places, j)
  <1>0. Job' = Job /\ IsFiniteSet(Job)
    BY Basics DEF Job, ToolOf
  <1>1. ASSUME NEW S \in SUBSET Job, NEW T \in SUBSET Job, S \ {j} = T \ {j}
        PROVE  /\ Cardinality(S) \in Nat /\ (j \in S => Cardinality(S) > 0)
               /\ Cardinality(T) = Cardinality(S) - (IF j \in S THEN 1 ELSE 0)
                                                  + (IF j \in T THEN 1 ELSE 0)
    <2>1. /\ IsFiniteSet(S) /\ IsFiniteSet(T) /\ IsFiniteSet(S \ {j})
          /\ Cardinality(S) \in Nat /\ Cardinality(T) \in Nat
          /\ Cardinality(S \ {j}) \in Nat
      BY <1>0, FS_Subset, FS_CardinalityType
    <2>2. /\ Cardinality(S \ {j}) = IF j \in S THEN Cardinality(S) - 1 ELSE Cardinality(S)
          /\ Cardinality(T \ {j}) = IF j \in T THEN Cardinality(T) - 1 ELSE Cardinality(T)
      BY <2>1, FS_RemoveElement
    <2>3. Cardinality(S \ {j}) = Cardinality(T \ {j})
      BY <1>1
    <2>4. j \in S => Cardinality(S) > 0
      BY <2>1, <2>2
    <2> QED BY <2>1, <2>2, <2>3, <2>4
  <1>2. /\ JobsAt(places) \in SUBSET Job /\ JobsAt(places)' \in SUBSET Job
        /\ JobsAt(places) \ {j} = JobsAt(places)' \ {j}
        /\ j \in JobsAt(places) <=> jpc[j] \in places
        /\ j \in JobsAt(places)' <=> jpc'[j] \in places
    BY <1>0 DEF JobsAt
  <1>3. ASSUME NEW c
        PROVE  /\ On(places, c) \in SUBSET Job /\ On(places, c)' \in SUBSET Job
               /\ On(places, c) \ {j} = On(places, c)' \ {j}
               /\ j \in On(places, c) <=> jpc[j] \in places /\ connection[j] = c
               /\ j \in On(places, c)' <=> jpc'[j] \in places /\ connection'[j] = c
    BY <1>0 DEF On
  <1>4. /\ Cardinality(JobsAt(places)) \in Nat
        /\ jpc[j] \in places => Cardinality(JobsAt(places)) > 0
        /\ Cardinality(JobsAt(places)') =
              Cardinality(JobsAt(places)) - (IF jpc[j] \in places THEN 1 ELSE 0)
                                          + (IF jpc'[j] \in places THEN 1 ELSE 0)
    BY <1>1, <1>2
  <1>5. ASSUME NEW c
        PROVE  /\ Cardinality(On(places, c)) \in Nat
               /\ jpc[j] \in places /\ connection[j] = c =>
                        Cardinality(On(places, c)) > 0
               /\ Cardinality(On(places, c)') = Cardinality(On(places, c))
                        - (IF jpc[j] \in places /\ connection[j] = c THEN 1 ELSE 0)
                        + (IF jpc'[j] \in places /\ connection'[j] = c THEN 1 ELSE 0)
    <2> DEFINE S == On(places, c)
    <2> DEFINE T == On(places, c)'
    <2>1. S \in SUBSET Job /\ T \in SUBSET Job /\ S \ {j} = T \ {j}
      BY <1>3
    <2> HIDE DEF S, T
    <2>2. /\ Cardinality(S) \in Nat /\ (j \in S => Cardinality(S) > 0)
          /\ Cardinality(T) = Cardinality(S) - (IF j \in S THEN 1 ELSE 0)
                                             + (IF j \in T THEN 1 ELSE 0)
      BY <1>1, <2>1
    <2> QED BY <2>2, <1>3 DEF S, T
  <1> QED BY ONLY <1>4, <1>5 DEF Moved

(* The counters hold what is about to be taken away from them.             *)
LEMMA CountsPositive ==
  ASSUME TypeOK, JobsWellFormed, CountsRight, NEW j \in Job, jpc[j] \in OnCore
  PROVE  /\ mRunningJobs > 0 /\ connection[j] \in Conn /\ curJobs[connection[j]] > 0
         /\ jpc[j] = "talk" => curChannels[connection[j]] > leaked[connection[j]]
  <1>1. IsFiniteSet(Job) /\ nodes \in Networks
    BY Basics DEF TypeOK
  <1>2. connection[j] \in Conn
    BY DEF JobsWellFormed
  <1> DEFINE A == JobsAt(Active)
  <1> DEFINE C == On(OnCore, connection[j])
  <1> DEFINE T == On({"talk"}, connection[j])
  <1>3. /\ A \in SUBSET Job /\ C \in SUBSET Job /\ T \in SUBSET Job
        /\ j \in A /\ j \in C /\ (jpc[j] = "talk" => j \in T)
    BY DEF JobsAt, On, Active
  <1>4. ASSUME NEW S \in SUBSET Job
        PROVE  Cardinality(S) \in Nat /\ (j \in S => Cardinality(S) > 0)
    <2>1. IsFiniteSet(S) /\ Cardinality(S) \in Nat
      BY <1>1, FS_Subset, FS_CardinalityType
    <2> QED BY <2>1, FS_EmptySet
  <1>5. /\ Cardinality(A) > 0 /\ Cardinality(C) > 0
        /\ Cardinality(T) \in Nat /\ (jpc[j] = "talk" => Cardinality(T) > 0)
    <2> HIDE DEF A, C, T
    <2> QED BY <1>3, <1>4
  <1>6. Uploads(connection[j]) \in {0, 1}
    BY DEF Uploads
  <1>7. leaked[connection[j]] \in Nat
    BY <1>2 DEF TypeOK
  <1>8. /\ mRunningJobs = Cardinality(A) /\ curJobs[connection[j]] = Cardinality(C)
        /\ curChannels[connection[j]] = leaked[connection[j]] + Cardinality(T)
                                          + Uploads(connection[j])
    BY <1>2 DEF CountsRight
  <1> HIDE DEF A, C, T
  <1> QED BY <1>2, <1>5, <1>6, <1>7, <1>8

(* A job executes its command in the third of its phases.                  *)
LEMMA FourPhases == Len(Phase) = 4 /\ \A k \in 1 .. 4 : Phase[k] = "executeCommand" <=> k = 3
  BY DEF Phase

JobPc == {"none", "started", "get", "search", "open", "talk", "store", "finish", "done"}

(* Each conjunct of IInv, step by step.                                    *)

(* The types of what a step of a job writes, and of what it leaves alone.  *)
JobTypes ==
    /\ {curJobs, curChannels, leaked} \subseteq [Conn -> Nat]
    /\ mMutex \in Job \cup {Nobody, MainThread} /\ mRunningJobs \in Nat
    /\ jpc \in [Job -> JobPc] /\ phase \in [Job -> 1 .. Len(Phase) + 1]
    /\ connection \in [Job -> Nat \ {0}] /\ mResults \subseteq Job
OtherTypes ==
    /\ nodes \in Networks
    /\ pc \in {"startTool", "upload", "openUpload", "uploading", "execute", "drain",
               "stored", "exited", "aborted"}
    /\ tool \in Tool /\ visit \in Nat \ {0}
    /\ front \in Nat /\ back \in Nat /\ front <= back /\ back <= Len(ToolOf)
    /\ mFinishedJobs \in Nat
    /\ \A h \in DOMAIN installed : installed[h] \subseteq Tool
    /\ refused \subseteq (DOMAIN installed) \X Tool

LEMMA TypesSplit ==
  /\ TypeOK <=> JobTypes /\ OtherTypes
  /\ TypeOK' <=> JobTypes' /\ OtherTypes'
  BY DEF TypeOK, JobTypes, OtherTypes, JobPc

LEMMA OthersKept ==
  ASSUME TypeOK, nodes' = nodes, ToolOf' = ToolOf, UNCHANGED <<mainVars, remoteVars>>
  PROVE  OtherTypes'
  BY TypesSplit DEF OtherTypes, mainVars, remoteVars

LEMMA TypePreserved ==
  ASSUME TypeOK, JobsWellFormed, CountsRight, MutexRight, UploadedRight, [Next]_vars
  PROVE  TypeOK'
  <1>0. nodes' = nodes /\ Conn' = Conn /\ Job' = Job /\ ToolOf' = ToolOf
        /\ nodes \in Networks
    BY NodesFixed DEF TypeOK
  <1>a. /\ curJobs \in [Conn -> Nat] /\ curChannels \in [Conn -> Nat]
        /\ leaked \in [Conn -> Nat] /\ mRunningJobs \in Nat
    BY DEF TypeOK
  <1>b. phase \in [Job -> 1 .. Len(Phase) + 1] /\ connection \in [Job -> Nat \ {0}]
    BY DEF TypeOK
  <1>c. /\ \A h \in DOMAIN installed : installed[h] \subseteq Tool
        /\ refused \subseteq (DOMAIN installed) \X Tool /\ tool \in Tool
    BY DEF TypeOK
  <1>1. ASSUME NEW j \in Job, JobStep(j) PROVE TypeOK'
    <2>0. JobTypes /\ Job' = Job /\ Conn' = Conn
      BY <1>0, TypesSplit
    <2>a. UNCHANGED <<mainVars, remoteVars>>
      BY ONLY <1>1, Zenon DEF JobStep, Begin, Lock, Search, Open, Destroy, CommandFails, Store, Finish
    <2>b. OtherTypes'
      BY ONLY TypeOK, <1>0, <2>a, OthersKept
    <2>c. \A p \in JobPc : [jpc EXCEPT ![j] = p] \in [Job -> JobPc]
      BY ONLY <2>0, j \in Job DEF JobTypes
    <2>d. "get" \in JobPc /\ "search" \in JobPc /\ "open" \in JobPc /\ "talk" \in JobPc
          /\ "finish" \in JobPc /\ "done" \in JobPc /\ AfterPhase(j) \in JobPc
      BY DEF JobPc, AfterPhase
    <2>1. ASSUME Begin(j) PROVE JobTypes'
      BY ONLY <2>0, <2>1, <2>c, <2>d DEF JobTypes, Begin, countVars
    <2>2. ASSUME Lock(j) PROVE JobTypes'
      BY ONLY <2>0, <2>2, <2>c, <2>d, j \in Job DEF JobTypes, Lock, countVars
    <2>3. ASSUME Search(j) PROVE JobTypes'
      <3>1. curJobs' \in [Conn -> Nat]
        BY <1>a, <2>3 DEF Search
      <3>2. connection' \in [Job -> Nat \ {0}]
        BY <1>0, <1>b, <2>3, Basics DEF Search
      <3>3. phase' \in [Job -> 1 .. Len(Phase) + 1]
        BY <1>b, <2>3, FourPhases DEF Search
      <3> QED BY ONLY <2>0, <2>3, <2>c, <2>d, <3>1, <3>2, <3>3 DEF JobTypes, Search
    <2>4. ASSUME Open(j) PROVE JobTypes'
      <3>1. curChannels' \in [Conn -> Nat]
        BY <1>a, <2>4, CountsPositive DEF Open, OnCore
      <3> QED BY ONLY <2>0, <2>4, <2>c, <2>d, <3>1 DEF JobTypes, Open
    <2>5. ASSUME Destroy(j) PROVE JobTypes'
      <3>1. curChannels' \in [Conn -> Nat]
        BY <1>a, <2>5, CountsPositive DEF Destroy, OnCore
      <3>2. phase' \in [Job -> 1 .. Len(Phase) + 1]
        BY <1>b, <2>5, FourPhases DEF Destroy, JobsWellFormed
      <3> QED BY ONLY <2>0, <2>5, <2>c, <2>d, <3>1, <3>2 DEF JobTypes, Destroy
    <2>6. ASSUME CommandFails(j) PROVE JobTypes'
      <3>1. leaked' \in [Conn -> Nat]
        BY <1>a, <2>6, CountsPositive DEF CommandFails, OnCore
      <3>2. phase' \in [Job -> 1 .. Len(Phase) + 1]
        BY <1>b, <2>6, FourPhases DEF CommandFails, JobsWellFormed
      <3> QED BY ONLY <2>0, <2>6, <2>c, <2>d, <3>1, <3>2 DEF JobTypes, CommandFails
    <2>7. ASSUME Store(j) PROVE JobTypes'
      BY ONLY <2>0, <2>7, <2>c, <2>d, j \in Job DEF JobTypes, Store, countVars
    <2>8. ASSUME Finish(j) PROVE JobTypes'
      <3>1. curJobs' \in [Conn -> Nat] /\ mRunningJobs' \in Nat
        BY <1>a, <2>8, CountsPositive DEF Finish, OnCore
      <3>2. phase' \in [Job -> 1 .. Len(Phase) + 1] /\ connection' \in [Job -> Nat \ {0}]
        BY <1>b, <2>8, FourPhases DEF Finish
      <3> QED BY ONLY <2>0, <2>8, <2>c, <2>d, <3>1, <3>2 DEF JobTypes, Finish
    <2>9. JobTypes' => TypeOK'
      BY ONLY <2>b, TypesSplit
    <2> QED BY ONLY <1>1, <2>1, <2>2, <2>3, <2>4, <2>5, <2>6, <2>7, <2>8, <2>9, Zenon DEF JobStep
  <1>2. CASE UploadBegin \/ UploadSkip \/ UploadVisit \/ UploadEnd
    <2>1. CASE UploadBegin
      BY ONLY TypeOK, <1>0, <2>1 DEF TypeOK, UploadBegin, jobVars, countVars, remoteVars
    <2>2. CASE UploadSkip
      BY ONLY TypeOK, <1>0, <2>2 DEF TypeOK, UploadSkip, jobVars, countVars, remoteVars
    <2>3. CASE UploadVisit
      BY ONLY TypeOK, <1>0, <2>3 DEF TypeOK, UploadVisit, jobVars, countVars, remoteVars
    <2>4. CASE UploadEnd
      BY <1>0, <2>4 DEF TypeOK, UploadEnd, jobVars, countVars, remoteVars
    <2> QED BY ONLY <1>2, <2>1, <2>2, <2>3, <2>4
  <1>3. CASE UploadOpen
    <2>1. curChannels' \in [Conn -> Nat]
      BY <1>a, <1>3 DEF UploadOpen, MutexRight
    <2> QED BY <1>0, <1>3, <2>1 DEF TypeOK, UploadOpen, jobVars, remoteVars
  <1>4. CASE UploadEnds
    <2>1. curChannels' \in [Conn -> Nat]
      <3>1. visit \in Conn /\ Uploads(visit) = 1
        BY <1>4 DEF UploadEnds, MutexRight, Uploads
      <3>2. Cardinality(On({"talk"}, visit)) \in Nat
        BY <1>0, Basics, FS_Subset, FS_CardinalityType, On({"talk"}, visit) \in SUBSET Job
           DEF On
      <3>3. leaked[visit] \in Nat
        BY <1>a, <3>1
      <3>4. curChannels[visit] > 0
        BY <3>1, <3>2, <3>3 DEF CountsRight
      <3> QED BY <1>a, <1>4, <3>1, <3>4 DEF UploadEnds
    <2>0. nodes[visit].host \in DOMAIN installed
      BY <1>4 DEF UploadEnds, MutexRight, UploadedRight
    <2>2. \A h \in DOMAIN installed' : installed'[h] \subseteq Tool
      BY <1>c, <1>4 DEF UploadEnds, Replacing
    <2>3. DOMAIN installed' = DOMAIN installed
      BY <1>4 DEF UploadEnds
    <2>4. refused' \subseteq (DOMAIN installed) \X Tool
      <3>1. <<nodes[visit].host, tool>> \in (DOMAIN installed) \X Tool
        BY <1>c, <2>0
      <3>2. refused' = refused \/ refused' = refused \cup {<<nodes[visit].host, tool>>}
        BY <1>4 DEF UploadEnds
      <3> QED BY <1>c, <3>1, <3>2
    <2>5. /\ UNCHANGED <<nodes, mMutex, mRunningJobs, mResults, curJobs, leaked, tool, front,
                         back, mFinishedJobs, jpc, phase, connection>>
          /\ visit' = visit + 1 /\ pc' = "upload"
      BY <1>4 DEF UploadEnds, jobVars
    <2> QED BY <1>0, <2>1, <2>2, <2>3, <2>4, <2>5 DEF TypeOK
  <1>5. CASE WaitAndPop \/ Drain \/ WriteResults
    BY <1>0, <1>5 DEF TypeOK, WaitAndPop, Drain, WriteResults, AllDrained, jobVars, countVars,
                      remoteVars
  <1>6. CASE StartJob
    <2>1. back' \in Nat /\ back' <= Len(ToolOf) /\ front <= back'
      BY <1>0, <1>6, Basics DEF StartJob, NextJobIsOf, TypeOK
    <2>2. jpc' \in [Job -> JobPc]
      BY <1>6 DEF StartJob, NextJobIsOf, JobPc, TypeOK
    <2> QED BY <1>0, <1>6, <2>1, <2>2 DEF TypeOK, StartJob, countVars, remoteVars, JobPc
  <1>7. CASE NextTool
    BY <1>0, <1>7 DEF TypeOK, NextTool, jobVars, countVars, remoteVars
  <1>8. ASSUME NEW how \in {"exited", "aborted"}, EndsEarly(how) PROVE TypeOK'
    <2>1. 1 \in Tool /\ Len(ToolOf) \in Nat
      BY <1>0, Basics
    <2> QED BY <1>0, <1>8, <2>1, FourPhases DEF TypeOK, EndsEarly, remoteVars, Nobody
  <1>9. CASE UNCHANGED vars
    BY <1>0, <1>9 DEF TypeOK, vars, mainVars, jobVars, countVars, remoteVars
  <1> QED
    BY <1>1, <1>2, <1>3, <1>4, <1>5, <1>6, <1>7, <1>8, <1>9
       DEF Next, MainStep, Exit, BusyAssertion, Ended

(* A step of a job moves no other job; a step of the main thread moves     *)
(* none but the one it starts.                                             *)
LEMMA OtherJobs ==
  ASSUME TypeOK, NEW j \in Job, JobStep(j)
  PROVE  /\ \A k \in Job \ {j} : /\ jpc'[k] = jpc[k] /\ connection'[k] = connection[k]
                                 /\ phase'[k] = phase[k]
         /\ UNCHANGED <<pc, tool, visit, front, back, mFinishedJobs, installed, refused>>
  <1> USE DEF mainVars, remoteVars, TypeOK
  <1> QED
    BY DEF JobStep, Begin, Lock, Search, Open, Destroy, CommandFails, Store, Finish

LEMMA MainMoves ==
  ASSUME TypeOK, QueueRight, MainStep
  PROVE  /\ UNCHANGED <<phase, connection, mRunningJobs, curJobs, leaked, mResults>>
         /\ \/ UNCHANGED <<jpc, back>>
            \/ /\ back + 1 \in Job /\ jpc[back + 1] = "none"
               /\ jpc' = [jpc EXCEPT ![back + 1] = "started"] /\ back' = back + 1
               /\ pc = "execute" /\ ToolOf[back + 1] = tool /\ pc' = pc
  <1>1. CASE StartJob
    <2>1. back + 1 \in Job /\ back + 1 > back
      BY <1>1 DEF StartJob, NextJobIsOf, TypeOK
    <2>2. jpc[back + 1] = "none"
      BY <2>1 DEF QueueRight, Started, Active, OnCore, TypeOK
    <2> QED BY <1>1, <2>1, <2>2 DEF StartJob, NextJobIsOf, countVars
  <1> QED
    BY <1>1 DEF MainStep, UploadBegin, UploadSkip, UploadVisit, UploadOpen, UploadEnds,
                UploadEnd, WaitAndPop, NextTool, Drain, WriteResults, jobVars, countVars

(* A process that has ended early has no jobs.                             *)
LEMMA NoJobs ==
  ASSUME nodes' \in Networks, jpc' = [j \in Job' |-> "none"], NEW places, "none" \notin places
  PROVE  /\ JobsAt(places)' = {} /\ Cardinality(JobsAt(places)') = 0
         /\ \A c : Cardinality(On(places, c)') = 0
  <1>1. JobsAt(places)' = {} /\ \A c : On(places, c)' = {}
    BY DEF JobsAt, On
  <1> QED BY <1>1, FS_EmptySet

LEMMA JobsPreserved ==
  ASSUME TypeOK, JobsWellFormed, QueueRight, [Next]_vars
  PROVE  JobsWellFormed'
  <1>0. Conn' = Conn /\ Job' = Job
    BY NodesFixed
  <1>1. ASSUME NEW j \in Job, JobStep(j) PROVE JobsWellFormed'
    <2>1. ASSUME NEW k \in Job \ {j}
          PROVE  /\ jpc'[k] \in OnCore => connection'[k] \in Conn
                 /\ jpc'[k] \in {"open", "talk"} => phase'[k] \in 1 .. Len(Phase)
      BY <1>1, OtherJobs DEF JobsWellFormed
    <2>2. /\ jpc'[j] \in OnCore => connection'[j] \in Conn
          /\ jpc'[j] \in {"open", "talk"} => phase'[j] \in 1 .. Len(Phase)
      <3> USE FourPhases DEF TypeOK, OnCore
      <3>1. CASE Begin(j) \/ Lock(j) \/ Finish(j) BY <3>1 DEF Begin, Lock, Finish
      <3>2. CASE Search(j) BY <3>2 DEF Search
      <3>3. CASE Open(j) \/ Store(j) BY <3>3 DEF Open, Store, JobsWellFormed
      <3>4. CASE Destroy(j) \/ CommandFails(j)
        <4>1. /\ jpc[j] = "talk" /\ phase[j] \in 1 .. 5 /\ connection'[j] = connection[j]
              /\ phase'[j] = phase[j] + 1
              /\ jpc'[j] = IF phase[j] < 4 THEN "open" ELSE "store"
          BY <3>4 DEF Destroy, CommandFails, AfterPhase
        <4> QED BY <4>1 DEF JobsWellFormed
      <3> QED BY <1>1, <3>1, <3>2, <3>3, <3>4 DEF JobStep
    <2> QED BY <1>0, <2>1, <2>2 DEF JobsWellFormed
  <1>2. CASE MainStep
    BY <1>0, <1>2, MainMoves DEF JobsWellFormed, OnCore, TypeOK
  <1>3. ASSUME NEW how \in {"exited", "aborted"}, EndsEarly(how) PROVE JobsWellFormed'
    BY <1>0, <1>3 DEF JobsWellFormed, EndsEarly, OnCore
  <1>4. CASE UNCHANGED vars
    BY <1>0, <1>4 DEF JobsWellFormed, vars, jobVars
  <1> QED BY <1>1, <1>2, <1>3, <1>4 DEF Next, Exit, BusyAssertion, Ended

LEMMA CountsByJob ==
  ASSUME TypeOK, JobsWellFormed, CountsRight, NEW j \in Job, JobStep(j), [Next]_vars
  PROVE  CountsRight'
  <1>0. nodes' = nodes /\ Conn' = Conn /\ nodes \in Networks
    BY NodesFixed DEF TypeOK
  <1>z. \A k \in Job \ {j} : jpc'[k] = jpc[k] /\ connection'[k] = connection[k]
    BY OtherJobs
  <1>1. /\ Cardinality(JobsAt(Active)) \in Nat
        /\ Cardinality(JobsAt(Active)') =
              Cardinality(JobsAt(Active)) - (IF jpc[j] \in Active THEN 1 ELSE 0)
                                          + (IF jpc'[j] \in Active THEN 1 ELSE 0)
    <2>1. Moved(Active, j)
      BY ONLY j \in Job, <1>0, <1>z, JobMoves
    <2> QED BY ONLY <2>1 DEF Moved
  <1>2. \A c : /\ Cardinality(On(OnCore, c)) \in Nat
               /\ Cardinality(On(OnCore, c)') = Cardinality(On(OnCore, c))
                     - (IF jpc[j] \in OnCore /\ connection[j] = c THEN 1 ELSE 0)
                     + (IF jpc'[j] \in OnCore /\ connection'[j] = c THEN 1 ELSE 0)
    <2>1. Moved(OnCore, j)
      BY ONLY j \in Job, <1>0, <1>z, JobMoves
    <2> QED BY ONLY <2>1 DEF Moved
  <1>3. \A c : /\ Cardinality(On({"talk"}, c)) \in Nat
               /\ Cardinality(On({"talk"}, c)') = Cardinality(On({"talk"}, c))
                     - (IF jpc[j] = "talk" /\ connection[j] = c THEN 1 ELSE 0)
                     + (IF jpc'[j] = "talk" /\ connection'[j] = c THEN 1 ELSE 0)
    <2>1. Moved({"talk"}, j)
      BY ONLY j \in Job, <1>0, <1>z, JobMoves
    <2> QED BY ONLY <2>1 DEF Moved
  <1>4. \A c : Uploads(c)' = Uploads(c) /\ Uploads(c) \in {0, 1}
    BY OtherJobs DEF Uploads
  <1>5. /\ mRunningJobs \in Nat /\ jpc[j] \in JobPc
        /\ curJobs \in [Conn -> Nat] /\ curChannels \in [Conn -> Nat] /\ leaked \in [Conn -> Nat]
        /\ jpc \in [Job -> JobPc] /\ connection \in [Job -> Nat \ {0}]
    BY DEF TypeOK, JobPc
  <1>6. jpc[j] \in OnCore => connection[j] \in Conn
    BY DEF JobsWellFormed
  <1>7. /\ mRunningJobs = Cardinality(JobsAt(Active))
        /\ \A c \in Conn : /\ curJobs[c] = Cardinality(On(OnCore, c))
                           /\ curJobs[c] <= nodes[c].cores
                           /\ curChannels[c] = leaked[c] + Cardinality(On({"talk"}, c))
                                                 + Uploads(c)
    BY DEF CountsRight
  <1>8. \A c \in Conn : nodes[c].cores \in Nat
    BY <1>0, Basics
  <1>9. SUFFICES /\ mRunningJobs' = Cardinality(JobsAt(Active)')
                 /\ \A c \in Conn :
                       /\ curJobs'[c] = Cardinality(On(OnCore, c)')
                       /\ curJobs'[c] <= nodes[c].cores
                       /\ curChannels'[c] = leaked'[c] + Cardinality(On({"talk"}, c)')
                                               + Uploads(c)
    BY <1>0, <1>4 DEF CountsRight
  <1> USE DEF OnCore, Active
  <1>a. CASE Begin(j) \/ Lock(j)
    <2>1. /\ jpc[j] \in {"started", "get"} /\ jpc'[j] \in {"get", "search"}
          /\ mRunningJobs' = IF jpc[j] = "started" THEN mRunningJobs + 1 ELSE mRunningJobs
          /\ jpc[j] # "started" => jpc[j] \in Active
          /\ UNCHANGED <<curJobs, curChannels, leaked>>
      BY <1>a, <1>5 DEF Begin, Lock, countVars
    <2>2. mRunningJobs' = Cardinality(JobsAt(Active)')
      BY <1>1, <1>7, <2>1
    <2> QED BY <1>2, <1>3, <1>4, <1>5, <1>7, <2>1, <2>2
  <1>b. CASE Search(j)
    <2>1. PICK d \in Conn :
             /\ jobFree(d) /\ curJobs' = [curJobs EXCEPT ![d] = @ + 1]
             /\ connection' = [connection EXCEPT ![j] = d]
      BY <1>b DEF Search
    <2>2. /\ jpc[j] = "search" /\ jpc'[j] = "open" /\ connection'[j] = d
          /\ UNCHANGED <<mRunningJobs, curChannels, leaked>>
      BY <1>b, <1>5, <2>1 DEF Search
    <2>3. mRunningJobs' = Cardinality(JobsAt(Active)')
      BY <1>1, <1>7, <2>2
    <2>4. ASSUME NEW c \in Conn
          PROVE  /\ curJobs'[c] = Cardinality(On(OnCore, c)')
                 /\ curJobs'[c] <= nodes[c].cores
      <3>1. curJobs[d] < nodes[d].cores
        BY <2>1 DEF jobFree
      <3>2. curJobs'[c] = IF c = d THEN curJobs[c] + 1 ELSE curJobs[c]
        BY <1>5, <2>1
      <3>3. curJobs[c] \in Nat /\ nodes[c].cores \in Nat
        BY <1>5, <1>8
      <3>4. curJobs'[c] <= nodes[c].cores
        BY <1>7, <3>1, <3>2, <3>3
      <3>5. curJobs'[c] = Cardinality(On(OnCore, c)')
        BY <1>2, <1>7, <2>2, <3>2, <3>3
      <3> QED BY <3>4, <3>5
    <2>5. ASSUME NEW c \in Conn
          PROVE  curChannels'[c] = leaked'[c] + Cardinality(On({"talk"}, c)') + Uploads(c)
      BY <1>3, <1>7, <2>2
    <2> QED BY <2>3, <2>4, <2>5
  <1>c. CASE Open(j) \/ Destroy(j) \/ CommandFails(j) \/ Store(j)
    <2>1. /\ jpc[j] \in OnCore /\ jpc'[j] \in OnCore /\ connection'[j] = connection[j]
          /\ UNCHANGED <<mRunningJobs, curJobs>>
      BY <1>c, <1>5 DEF Open, Destroy, CommandFails, Store, AfterPhase, countVars
    <2>2. mRunningJobs' = Cardinality(JobsAt(Active)')
      BY <1>1, <1>7, <2>1
    <2>3. ASSUME NEW c \in Conn
          PROVE  curJobs'[c] = Cardinality(On(OnCore, c)') /\ curJobs'[c] <= nodes[c].cores
      BY <1>2, <1>7, <2>1
    <2>4. ASSUME NEW c \in Conn
          PROVE  curChannels'[c] = leaked'[c] + Cardinality(On({"talk"}, c)') + Uploads(c)
      <3>0. /\ curChannels[c] \in Nat /\ leaked[c] \in Nat /\ Uploads(c) \in Nat
            /\ Cardinality(On({"talk"}, c)) \in Nat
            /\ curChannels[c] = leaked[c] + Cardinality(On({"talk"}, c)) + Uploads(c)
        BY <1>3, <1>4, <1>5, <1>7
      <3>1. CASE Open(j)
        <4>1. /\ jpc[j] = "open" /\ jpc'[j] = "talk" /\ leaked' = leaked
              /\ curChannels'[c] = IF c = connection[j] THEN curChannels[c] + 1
                                                        ELSE curChannels[c]
          BY <1>5, <1>6, <3>1 DEF Open
        <4> QED BY <1>3, <2>1, <3>0, <4>1
      <3>2. CASE Destroy(j)
        <4>1. /\ jpc[j] = "talk" /\ jpc'[j] # "talk" /\ leaked' = leaked
              /\ curChannels'[c] = IF c = connection[j] THEN curChannels[c] - 1
                                                        ELSE curChannels[c]
          BY <1>5, <1>6, <3>2 DEF Destroy, AfterPhase
        <4> QED BY <1>3, <2>1, <3>0, <4>1
      <3>3. CASE CommandFails(j)
        <4>1. /\ jpc[j] = "talk" /\ jpc'[j] # "talk" /\ curChannels' = curChannels
              /\ leaked'[c] = IF c = connection[j] THEN leaked[c] + 1 ELSE leaked[c]
          BY <1>5, <1>6, <3>3 DEF CommandFails, AfterPhase
        <4> QED BY <1>3, <2>1, <3>0, <4>1
      <3>4. CASE Store(j)
        <4>1. jpc[j] # "talk" /\ jpc'[j] # "talk" /\ UNCHANGED <<curChannels, leaked>>
          BY <1>5, <3>4 DEF Store, countVars
        <4> QED BY <1>3, <3>0, <4>1
      <3> QED BY <1>c, <3>1, <3>2, <3>3, <3>4
    <2> QED BY <2>2, <2>3, <2>4
  <1>d. CASE Finish(j)
    <2>1. /\ jpc[j] = "finish" /\ jpc'[j] = "done" /\ mRunningJobs' = mRunningJobs - 1
          /\ curJobs' = [curJobs EXCEPT ![connection[j]] = @ - 1]
          /\ UNCHANGED <<curChannels, leaked>>
      BY <1>d, <1>5 DEF Finish
    <2>2. mRunningJobs' = Cardinality(JobsAt(Active)')
      BY <1>1, <1>5, <1>7, <2>1
    <2>3. ASSUME NEW c \in Conn
          PROVE  curJobs'[c] = Cardinality(On(OnCore, c)') /\ curJobs'[c] <= nodes[c].cores
      <3>1. curJobs'[c] = IF c = connection[j] THEN curJobs[c] - 1 ELSE curJobs[c]
        BY <1>5, <2>1
      <3>2. curJobs[c] \in Nat /\ nodes[c].cores \in Nat /\ curJobs[c] <= nodes[c].cores
        BY <1>5, <1>7, <1>8
      <3>3. Cardinality(On(OnCore, c)') = Cardinality(On(OnCore, c))
                                           - (IF connection[j] = c THEN 1 ELSE 0)
        BY <1>2, <2>1
      <3> QED BY <1>2, <1>7, <3>1, <3>2, <3>3
    <2>4. ASSUME NEW c \in Conn
          PROVE  curChannels'[c] = leaked'[c] + Cardinality(On({"talk"}, c)') + Uploads(c)
      BY <1>3, <1>7, <2>1
    <2> QED BY <2>2, <2>3, <2>4
  <1> QED BY <1>a, <1>b, <1>c, <1>d DEF JobStep

(* The job that the main thread starts is on no counter yet.               *)
LEMMA SetsByMain ==
  ASSUME TypeOK, QueueRight, MainStep, nodes' = nodes,
         NEW places, "none" \notin places, "started" \notin places
  PROVE  /\ Cardinality(JobsAt(places)') = Cardinality(JobsAt(places))
         /\ \A c : Cardinality(On(places, c)') = Cardinality(On(places, c))
  <1>1. CASE UNCHANGED jpc
    BY <1>1, MainMoves DEF JobsAt, On, Job, ToolOf
  <1>2. CASE ~ UNCHANGED jpc
    <2> DEFINE j == back + 1
    <2>1. j \in Job /\ jpc[j] = "none" /\ jpc' = [jpc EXCEPT ![j] = "started"]
      BY <1>2, MainMoves
    <2>2. jpc \in [Job -> JobPc] /\ connection' = connection /\ nodes \in Networks
      BY MainMoves DEF TypeOK, JobPc
    <2> HIDE DEF j
    <2>3. /\ \A k \in Job \ {j} : jpc'[k] = jpc[k] /\ connection'[k] = connection[k]
          /\ jpc[j] \notin places /\ jpc'[j] \notin places
      BY <2>1, <2>2
    <2>4. /\ Cardinality(JobsAt(places)) \in Nat
          /\ \A c : Cardinality(On(places, c)) \in Nat
          /\ Cardinality(JobsAt(places)') = Cardinality(JobsAt(places)) - 0 + 0
          /\ \A c : Cardinality(On(places, c)') = Cardinality(On(places, c)) - 0 + 0
      <3>1. Moved(places, j)
        <4>1. nodes' = nodes
          OBVIOUS
        <4> QED BY ONLY <2>1, <2>2, <2>3, <4>1, JobMoves
      <3> QED BY ONLY <2>3, <3>1 DEF Moved
    <2> QED BY <2>4
  <1> QED BY <1>1, <1>2

LEMMA CountsPreserved ==
  ASSUME TypeOK, JobsWellFormed, CountsRight, MutexRight, QueueRight, [Next]_vars
  PROVE  CountsRight'
  <1>0. nodes' = nodes /\ Conn' = Conn /\ nodes \in Networks
    BY NodesFixed DEF TypeOK
  <1>1. ASSUME NEW j \in Job, JobStep(j) PROVE CountsRight'
    BY <1>1, CountsByJob
  <1>2. CASE MainStep
    <2>1. /\ Cardinality(JobsAt(Active)') = Cardinality(JobsAt(Active))
          /\ \A c : /\ Cardinality(On(OnCore, c)') = Cardinality(On(OnCore, c))
                    /\ Cardinality(On({"talk"}, c)') = Cardinality(On({"talk"}, c))
      <3>1. "none" \notin Active /\ "none" \notin OnCore /\ "none" \notin {"talk"}
        BY DEF Active, OnCore
      <3>2. "started" \notin Active /\ "started" \notin OnCore /\ "started" \notin {"talk"}
        BY DEF Active, OnCore
      <3> QED BY <1>0, <1>2, <3>1, <3>2, SetsByMain
    <2>2. UNCHANGED <<mRunningJobs, curJobs, leaked>>
      BY <1>2, MainMoves
    <2>3. ASSUME NEW c \in Conn
          PROVE  curChannels'[c] = leaked[c] + Cardinality(On({"talk"}, c)) + Uploads(c)'
      <3>1. /\ curChannels \in [Conn -> Nat] /\ leaked[c] \in Nat
            /\ Cardinality(On({"talk"}, c)) \in Nat
            /\ curChannels[c] = leaked[c] + Cardinality(On({"talk"}, c)) + Uploads(c)
        <4>1. On({"talk"}, c) \in SUBSET Job /\ IsFiniteSet(Job)
          BY <1>0, Basics DEF On
        <4>2. Cardinality(On({"talk"}, c)) \in Nat
          BY <4>1, FS_Subset, FS_CardinalityType
        <4> QED BY <4>2 DEF TypeOK, CountsRight
      <3>2. CASE UploadOpen
        <4>1. /\ curChannels'[c] = IF c = visit THEN curChannels[c] + 1 ELSE curChannels[c]
              /\ pc = "openUpload" /\ pc' = "uploading" /\ visit' = visit
          BY <3>1, <3>2 DEF UploadOpen, MutexRight
        <4> QED BY <3>1, <4>1 DEF Uploads
      <3>3. CASE UploadEnds
        <4>1. /\ curChannels'[c] = IF c = visit THEN curChannels[c] - 1 ELSE curChannels[c]
              /\ pc = "uploading" /\ pc' = "upload"
          BY <3>1, <3>3 DEF UploadEnds, MutexRight
        <4> QED BY <3>1, <4>1 DEF Uploads
      <3>4. CASE ~UploadOpen /\ ~UploadEnds
        <4>1. curChannels' = curChannels /\ pc # "uploading" /\ pc' # "uploading"
          BY <1>2, <3>4 DEF MainStep, UploadBegin, UploadSkip, UploadVisit, UploadEnd,
                WaitAndPop, StartJob, NextTool, Drain, WriteResults, countVars
        <4> QED BY <3>1, <4>1 DEF Uploads
      <3> QED BY <3>2, <3>3, <3>4
    <2> QED BY <1>0, <2>1, <2>2, <2>3 DEF CountsRight
  <1>3. ASSUME NEW how \in {"exited", "aborted"}, EndsEarly(how) PROVE CountsRight'
    <2>1. /\ mRunningJobs' = 0 /\ pc' = how /\ nodes' \in Networks
          /\ \A c \in Conn' : curJobs'[c] = 0 /\ curChannels'[c] = 0 /\ leaked'[c] = 0
          /\ jpc' = [j \in Job' |-> "none"]
      BY <1>0, <1>3, NodesFixed DEF EndsEarly
    <2>2. "none" \notin Active /\ "none" \notin OnCore /\ "none" \notin {"talk"}
      BY DEF Active, OnCore
    <2>3. /\ Cardinality(JobsAt(Active)') = 0
          /\ \A c : /\ Cardinality(On(OnCore, c)') = 0 /\ Cardinality(On({"talk"}, c)') = 0
      BY <2>1, <2>2, NoJobs
    <2>4. \A c : Uploads(c)' = 0
      BY <2>1 DEF Uploads
    <2>5. \A c \in Conn' : nodes'[c].cores \in Nat
      BY <1>0, Basics
    <2> QED BY <2>1, <2>3, <2>4, <2>5 DEF CountsRight
  <1>4. CASE UNCHANGED vars
    <2>1. /\ JobsAt(Active)' = JobsAt(Active)
          /\ \A c : /\ On(OnCore, c)' = On(OnCore, c) /\ On({"talk"}, c)' = On({"talk"}, c)
                    /\ Uploads(c)' = Uploads(c)
      BY <1>0, <1>4 DEF JobsAt, On, Uploads, Job, ToolOf, vars, mainVars, jobVars
    <2> QED BY <1>0, <1>4, <2>1 DEF CountsRight, vars, mainVars, countVars
  <1> QED BY <1>1, <1>2, <1>3, <1>4 DEF Next, Exit, BusyAssertion, Ended

LEMMA MutexPreserved ==
  ASSUME TypeOK, MutexRight, QueueRight, [Next]_vars
  PROVE  MutexRight'
  <1>0. /\ nodes' = nodes /\ Conn' = Conn /\ Job' = Job /\ nodes \in Networks
        /\ Nobody \notin Job /\ MainThread \notin Job /\ Nobody # MainThread
    BY NodesFixed, Basics DEF TypeOK, Nobody, MainThread
  <1>1. ASSUME NEW j \in Job, JobStep(j) PROVE MutexRight'
    <2>1. pc' = pc /\ visit' = visit /\ \A k \in Job \ {j} : jpc'[k] = jpc[k]
      BY <1>1, OtherJobs
    <2>2. CASE Lock(j)
      <3>1. mMutex = Nobody /\ mMutex' = j /\ jpc'[j] = "search" /\ curJobs' = curJobs
        BY <2>2 DEF Lock, countVars, TypeOK
      <3> QED BY <1>0, <2>1, <3>1 DEF MutexRight, jobFree
    <2>3. CASE Search(j)
      <3>1. mMutex' = Nobody /\ jpc[j] = "search" /\ jpc'[j] = "open"
        BY <2>3 DEF Search, TypeOK
      <3>2. mMutex = j /\ pc \notin {"upload", "openUpload", "uploading"}
        BY <1>0, <3>1 DEF MutexRight
      <3> QED BY <1>0, <2>1, <3>1, <3>2 DEF MutexRight
    <2>4. CASE ~Lock(j) /\ ~Search(j)
      <3>1. /\ mMutex' = mMutex /\ jpc[j] # "search" /\ jpc'[j] # "search"
            /\ curJobs' = curJobs \/ curJobs' = [curJobs EXCEPT ![connection[j]] = @ - 1]
        <4>1. mMutex' = mMutex /\ (curJobs' = curJobs \/ Finish(j))
          BY <1>1, <2>4 DEF JobStep, Begin, Open, Destroy, CommandFails, Store, countVars,
                Finish
        <4>2. jpc[j] # "search" /\ jpc'[j] # "search"
          BY <1>1, <2>4 DEF JobStep, Begin, Open, Destroy, CommandFails, Store, Finish,
                AfterPhase, TypeOK
        <4> QED BY <4>1, <4>2 DEF Finish
      <3>2. \A c \in Conn : jobFree(c) => jobFree(c)'
        <4>1. curJobs \in [Conn -> Nat] /\ \A c \in Conn : nodes[c].cores \in Nat
          BY <1>0, Basics DEF TypeOK
        <4> QED BY <1>0, <3>1, <4>1 DEF jobFree
      <3> QED BY <1>0, <2>1, <3>1, <3>2 DEF MutexRight
    <2> QED BY <2>2, <2>3, <2>4
  <1>2. CASE MainStep
    <2>1. \A j \in Job : jpc'[j] = "search" <=> jpc[j] = "search"
      BY <1>2, MainMoves DEF TypeOK
    <2>2. curJobs' = curJobs
      BY <1>2, MainMoves
    <2>3. mMutex' = MainThread <=> pc' \in {"upload", "openUpload", "uploading"}
      BY <1>0, <1>2 DEF MutexRight, MainStep, UploadBegin, UploadSkip, UploadVisit,
            UploadOpen, UploadEnds, UploadEnd, WaitAndPop, StartJob, NextTool, Drain,
            WriteResults
    <2>4. \A j \in Job : mMutex' = j <=> mMutex = j
      BY <1>0, <1>2 DEF MutexRight, MainStep, UploadBegin, UploadSkip, UploadVisit,
            UploadOpen, UploadEnds, UploadEnd, WaitAndPop, StartJob, NextTool, Drain,
            WriteResults
    <2>5. pc' \in {"openUpload", "uploading"} => visit' \in Conn /\ jobFree(visit')
      BY <1>2 DEF MutexRight, MainStep, UploadBegin, UploadSkip, UploadVisit,
            UploadOpen, UploadEnds, UploadEnd, WaitAndPop, StartJob, NextTool, Drain,
            WriteResults, RoomForUpload
    <2> QED BY <1>0, <2>1, <2>2, <2>3, <2>4, <2>5 DEF MutexRight, jobFree
  <1>3. ASSUME NEW how \in {"exited", "aborted"}, EndsEarly(how) PROVE MutexRight'
    BY <1>0, <1>3 DEF EndsEarly, MutexRight
  <1>4. CASE UNCHANGED vars
    BY <1>0, <1>4 DEF MutexRight, jobFree, vars, mainVars, jobVars, countVars
  <1> QED BY <1>1, <1>2, <1>3, <1>4 DEF Next, Exit, BusyAssertion, Ended

LEMMA QueuePreserved ==
  ASSUME TypeOK, QueueRight, [Next]_vars
  PROVE  QueueRight'
  <1>0. Job' = Job /\ Job \subseteq Nat
    BY NodesFixed, Basics DEF TypeOK
  <1>a. front \in Nat /\ back \in Nat /\ front <= back /\ jpc \in [Job -> JobPc]
    BY DEF TypeOK, JobPc
  <1>1. ASSUME NEW j \in Job, JobStep(j) PROVE QueueRight'
    <2>1. /\ UNCHANGED <<pc, front, back, mFinishedJobs>>
          /\ \A k \in Job \ {j} : jpc'[k] = jpc[k]
      BY <1>1, OtherJobs
    <2>2. jpc[j] \in Started /\ jpc'[j] \in Started /\ jpc[j] # "done"
      BY <1>1, <1>a DEF JobStep, Begin, Lock, Search, Open, Destroy, CommandFails, Store,
            Finish, AfterPhase, Started, Active, OnCore
    <2>3. mResults' = JobsAt({"finish", "done"})'
      <3>1. CASE Store(j)
        <4>1. mResults' = mResults \cup {j} /\ jpc'[j] = "finish"
          BY <1>a, <3>1 DEF Store
        <4> QED BY <1>0, <2>1, <4>1 DEF QueueRight, JobsAt
      <3>2. CASE ~Store(j)
        <4>1. /\ mResults' = mResults
              /\ jpc[j] \in {"finish", "done"} <=> jpc'[j] \in {"finish", "done"}
          BY <1>1, <1>a, <3>2 DEF JobStep, Begin, Lock, Search, Open, Destroy,
                CommandFails, Finish, AfterPhase
        <4> QED BY <1>0, <2>1, <4>1 DEF QueueRight, JobsAt
      <3> QED BY <3>1, <3>2
    <2>4. j <= back /\ ~(j <= front)
      BY <2>2 DEF QueueRight
    <2> QED BY <1>0, <2>1, <2>2, <2>3, <2>4 DEF QueueRight
  <1>2. CASE MainStep
    <2>1. CASE StartJob
      <3>1. /\ back + 1 \in Job /\ jpc[back + 1] = "none"
            /\ jpc' = [jpc EXCEPT ![back + 1] = "started"] /\ back' = back + 1
            /\ pc' = "execute" /\ UNCHANGED <<front, mFinishedJobs, mResults>>
        BY <1>2, <2>1, MainMoves DEF StartJob
      <3>2. "started" \in Started /\ "none" \notin Started
        BY DEF Started, Active, OnCore
      <3>3. \A j \in Job : jpc'[j] \in Started <=> j <= back'
        BY <1>0, <1>a, <3>1, <3>2 DEF QueueRight
      <3>4. \A j \in Job : j <= front => jpc'[j] = "done"
        BY <1>0, <1>a, <3>1 DEF QueueRight
      <3>5. JobsAt({"finish", "done"})' = JobsAt({"finish", "done"})
        BY <1>0, <1>a, <3>1 DEF JobsAt
      <3> QED BY <1>0, <3>1, <3>3, <3>4, <3>5 DEF QueueRight
    <2>2. CASE ~StartJob
      <3>1. UNCHANGED <<jpc, back, mResults>>
        BY <1>2, <2>2 DEF MainStep, UploadBegin, UploadSkip, UploadVisit, UploadOpen,
              UploadEnds, UploadEnd, WaitAndPop, NextTool, Drain, WriteResults, jobVars
      <3>2. /\ mFinishedJobs' = front'
            /\ pc' \notin {"exited", "aborted"}
            /\ \/ front' = front
               \/ front' = front + 1 /\ jpc[front + 1] = "done" /\ pc' # "stored"
        BY <1>2, <2>2 DEF QueueRight, MainStep, UploadBegin, UploadSkip, UploadVisit,
              UploadOpen, UploadEnds, UploadEnd, WaitAndPop, NextTool, Drain, WriteResults,
              FrontReady
      <3>3. pc' = "stored" => front' = back'
        BY <1>2, <2>2 DEF QueueRight, MainStep, UploadBegin, UploadSkip, UploadVisit,
              UploadOpen, UploadEnds, UploadEnd, WaitAndPop, NextTool, Drain, WriteResults,
              AllDrained
      <3>4. \A j \in Job : j <= front' => jpc[j] = "done"
        BY <1>0, <1>a, <3>2 DEF QueueRight
      <3> QED BY <1>0, <3>1, <3>2, <3>3, <3>4 DEF QueueRight, JobsAt
    <2> QED BY <2>1, <2>2
  <1>3. ASSUME NEW how \in {"exited", "aborted"}, EndsEarly(how) PROVE QueueRight'
    <2>1. /\ mFinishedJobs' = 0 /\ front' = 0 /\ back' = 0 /\ mResults' = {}
          /\ \A j \in Job' : jpc'[j] = "none" /\ ~(j <= 0)
      <3>1. \A j \in Job : ~(j <= 0)
        BY Basics DEF TypeOK
      <3> QED BY <1>0, <1>3, <3>1 DEF EndsEarly
    <2> QED BY <2>1 DEF QueueRight, JobsAt, Started, Active, OnCore
  <1>4. CASE UNCHANGED vars
    BY <1>0, <1>4 DEF QueueRight, JobsAt, vars, mainVars, jobVars
  <1> QED BY <1>1, <1>2, <1>3, <1>4 DEF Next, Exit, BusyAssertion, Ended

LEMMA ToolsPreserved ==
  ASSUME TypeOK, QueueRight, ToolsInOrder, [Next]_vars
  PROVE  ToolsInOrder'
  <1>0. /\ Job' = Job /\ ToolOf' = ToolOf /\ nodes \in Networks /\ Len(ToolOf) \in Nat
        /\ Job = 1 .. Len(ToolOf) /\ ToolOf \in [Job -> Tool] /\ Tool \subseteq Nat \ {0}
        /\ \A j, k \in Job : j <= k => ToolOf[j] <= ToolOf[k]
        /\ Tool = 1 .. Len(BinaryName) /\ Len(BinaryName) \in Nat
    BY NodesFixed, Basics DEF TypeOK
  <1>a. back \in Nat /\ back <= Len(ToolOf) /\ tool \in Tool
    BY DEF TypeOK
  <1>b. tool \in Nat /\ \A j \in Job : j \in Nat /\ ToolOf[j] \in Nat
    BY <1>0, <1>a
  <1>1. ASSUME NEW j \in Job, JobStep(j) PROVE ToolsInOrder'
    BY <1>0, <1>1, OtherJobs DEF ToolsInOrder
  <1>2. CASE StartJob
    <2>1. /\ back' = back + 1 /\ ToolOf[back + 1] = tool /\ tool' = tool
          /\ pc' = "execute" /\ back + 1 \in Job
      BY <1>2 DEF StartJob, NextJobIsOf
    <2>2. \A j \in Job : j <= back + 1 => ToolOf[j] <= tool
      BY <1>a, <1>b, <2>1 DEF ToolsInOrder
    <2>3. \A j \in Job : j > back + 1 => ToolOf[j] >= tool
      BY <1>a, <1>b DEF ToolsInOrder
    <2> QED BY <1>0, <2>1, <2>2, <2>3 DEF ToolsInOrder
  <1>3. CASE NextTool
    <2>1. /\ back' = back /\ pc = "execute"
          /\ back + 1 \in Job => ToolOf[back + 1] # tool
      BY <1>3 DEF NextTool, NextJobIsOf
    <2>2. \A j \in Job : j > back => ToolOf[j] > tool
      <3>1. ASSUME NEW j \in Job, j > back PROVE ToolOf[j] > tool
        <4>1. back + 1 \in Job /\ back + 1 <= j
          BY <1>0, <1>a, <3>1
        <4>2. ToolOf[back + 1] >= tool /\ ToolOf[back + 1] # tool
              /\ ToolOf[back + 1] <= ToolOf[j]
          BY <1>0, <1>a, <2>1, <3>1, <4>1 DEF ToolsInOrder
        <4>3. ToolOf[j] \in Nat /\ ToolOf[back + 1] \in Nat /\ tool \in Nat
          BY <1>0, <1>a, <4>1
        <4> QED BY <4>2, <4>3
      <3> QED BY <3>1
    <2>3. \A j \in Job : j <= back => ToolOf[j] <= tool
      BY DEF ToolsInOrder
    <2>4. CASE tool + 1 \in Tool
      <3>1. tool' = tool + 1 /\ pc' = "startTool"
        BY <1>3, <2>4 DEF NextTool
      <3>2. \A j \in Job : /\ j > back => ToolOf[j] >= tool + 1
                           /\ j <= back => ToolOf[j] < tool + 1 /\ ToolOf[j] <= tool + 1
        BY <1>b, <2>2, <2>3
      <3> QED BY <1>0, <2>1, <3>1, <3>2 DEF ToolsInOrder
    <2>5. CASE tool + 1 \notin Tool
      <3>1. tool' = tool /\ pc' = "drain"
        BY <1>3, <2>5 DEF NextTool
      <3>2. tool = Len(BinaryName)
        BY <1>0, <1>a, <2>5
      <3>3. \A j \in Job : ~(j > back)
        BY <1>0, <2>2, <3>2
      <3>4. back = Len(ToolOf)
        <4>1. back < Len(ToolOf) => back + 1 \in 1 .. Len(ToolOf) /\ back + 1 > back
          BY <1>0, <1>a
        <4>2. ~(back < Len(ToolOf))
          BY <1>0, <3>3, <4>1
        <4>3. Len(ToolOf) \in Nat
          BY <1>0
        <4> QED BY <1>a, <4>2, <4>3
      <3> QED BY <1>0, <1>a, <2>1, <2>2, <2>3, <3>1, <3>4 DEF ToolsInOrder
    <2> QED BY <2>4, <2>5
  <1>4. CASE MainStep /\ ~StartJob /\ ~NextTool
    <2>1. UNCHANGED <<back, tool>>
      BY <1>4 DEF MainStep, UploadBegin, UploadSkip, UploadVisit, UploadOpen, UploadEnds,
            UploadEnd, WaitAndPop, Drain, WriteResults
    <2>2. /\ pc' \in {"startTool", "upload", "openUpload", "uploading"} =>
                pc \in {"startTool", "upload", "openUpload", "uploading"}
          /\ pc' \in {"drain", "stored"} => pc \in {"drain", "stored"}
      BY <1>4 DEF MainStep, UploadBegin, UploadSkip, UploadVisit, UploadOpen, UploadEnds,
            UploadEnd, WaitAndPop, Drain, WriteResults
    <2> QED BY <1>0, <2>1, <2>2 DEF ToolsInOrder
  <1>5. ASSUME NEW how \in {"exited", "aborted"}, EndsEarly(how) PROVE ToolsInOrder'
    <2>1. back' = 0 /\ tool' = 1 /\ pc' = how
      BY <1>5 DEF EndsEarly
    <2> QED BY <1>0, <2>1 DEF ToolsInOrder
  <1>6. CASE UNCHANGED vars
    BY <1>0, <1>6 DEF ToolsInOrder, vars, mainVars
  <1> QED BY <1>1, <1>2, <1>3, <1>4, <1>5, <1>6
             DEF Next, MainStep, Exit, BusyAssertion, Ended

(* An upload takes from its host only tools of the same file name.         *)
LEMMA UploadServes ==
  ASSUME TypeOK, MutexRight, UploadedRight, UploadEnds
  PROVE  /\ DOMAIN installed' = DOMAIN installed
         /\ \A h \in DOMAIN installed : \A t \in Tool : Served(h, t) => Served(h, t)'
         /\ \A h : h = nodes[visit].host => Served(h, tool)'
  <1> DEFINE host == nodes[visit].host
  <1>0. host \in DOMAIN installed /\ tool \in Tool
    BY DEF UploadEnds, MutexRight, UploadedRight, TypeOK
  <1>1. tool' = tool /\ nodes' = nodes
    BY DEF UploadEnds
  <1>2. CASE installed' = [installed EXCEPT ![host] = Replacing(@, tool)] /\ UNCHANGED refused
    <2>1. DOMAIN installed' = DOMAIN installed
      BY <1>2
    <2>2. tool \in installed'[host]
      BY <1>0, <1>2 DEF Replacing
    <2>3. ASSUME NEW h \in DOMAIN installed, NEW t \in Tool, HasOwnName(t),
                 t \in installed[h]
          PROVE  t \in installed'[h]
      <3>1. t = tool \/ BinaryName[t] # BinaryName[tool]
        BY <1>0, <2>3 DEF HasOwnName
      <3>2. installed'[h] = IF h = host THEN Replacing(installed[h], tool) ELSE installed[h]
        BY <1>2
      <3> QED BY <2>3, <3>1, <3>2 DEF Replacing
    <2>4. ASSUME NEW h \in DOMAIN installed, NEW t \in Tool, Served(h, t)
          PROVE  Served(h, t)'
      BY <1>2, <2>3, <2>4 DEF Served, HasOwnName
    <2>5. \A h : h = host => Served(h, tool)'
      BY <1>1, <2>2 DEF Served
    <2> QED BY <2>1, <2>4, <2>5
  <1>3. CASE refused' = refused \cup {<<host, tool>>} /\ UNCHANGED installed
    BY <1>0, <1>1, <1>3 DEF Served, HasOwnName
  <1> QED BY <1>2, <1>3 DEF UploadEnds

LEMMA UploadedPreserved ==
  ASSUME TypeOK, MutexRight, UploadedRight, [Next]_vars
  PROVE  UploadedRight'
  <1>0. /\ nodes' = nodes /\ Conn' = Conn /\ nodes \in Networks
        /\ Conn = 1 .. Len(nodes) /\ Len(nodes) \in Nat /\ Tool \subseteq Nat \ {0}
    BY NodesFixed, Basics DEF TypeOK
  <1>a. visit \in Nat \ {0} /\ tool \in Tool
    BY DEF TypeOK
  <1>1. ASSUME UNCHANGED <<installed, refused>>
        PROVE  \A h, t : Served(h, t)' <=> Served(h, t)
    BY <1>1 DEF Served, HasOwnName
  <1>2. ASSUME UNCHANGED <<installed, refused, tool, pc, visit>>
        PROVE  UploadedRight'
    BY <1>0, <1>1, <1>2 DEF UploadedRight, Served, HasOwnName
  <1>3. ASSUME NEW j \in Job, JobStep(j) PROVE UploadedRight'
    BY <1>2, <1>3, OtherJobs
  <1>4. CASE UploadBegin
    <2>1. /\ UNCHANGED <<installed, refused, tool>> /\ pc' = "upload" /\ visit' = 1
      BY <1>4 DEF UploadBegin, remoteVars
    <2>2. \A d \in Conn : ~(d < 1)
      BY <1>0
    <2> QED BY <1>0, <2>1, <2>2 DEF UploadedRight, Served, HasOwnName
  <1>5. CASE UploadSkip
    <2>1. /\ UNCHANGED <<installed, refused, tool>> /\ pc = "upload" /\ pc' = "upload"
          /\ visit' = visit + 1
          /\ \E d \in 1 .. visit - 1 : nodes[d].host = nodes[visit].host
          /\ visit \in Conn
      BY <1>5 DEF UploadSkip, remoteVars, SeenBefore
    <2>2. \A d \in Conn : d < visit => Served(nodes[d].host, tool)
      BY <2>1 DEF UploadedRight
    <2>3. Served(nodes[visit].host, tool)
      <3>1. PICK d \in 1 .. visit - 1 : nodes[d].host = nodes[visit].host
        BY <2>1
      <3>2. d \in Conn /\ d < visit
        BY <1>0, <1>a, <2>1
      <3> QED BY <2>2, <3>1, <3>2
    <2>4. \A d \in Conn : d < visit + 1 => Served(nodes[d].host, tool)
      <3>1. \A d \in Conn : d < visit + 1 => d < visit \/ d = visit
        BY <1>0, <1>a
      <3> QED BY <2>2, <2>3, <3>1
    <2> QED BY <1>0, <2>1, <2>4 DEF UploadedRight, Served, HasOwnName
  <1>6. CASE UploadVisit \/ UploadOpen
    BY <1>0, <1>6 DEF UploadVisit, UploadOpen, UploadedRight, remoteVars, Served, HasOwnName
  <1>7. CASE UploadEnds
    <2>1. /\ pc = "uploading" /\ visit \in Conn /\ visit' = visit + 1 /\ tool' = tool
          /\ pc' = "upload"
      BY <1>7 DEF UploadEnds, MutexRight
    <2>2. /\ DOMAIN installed' = DOMAIN installed
          /\ \A h \in DOMAIN installed : \A t \in Tool : Served(h, t) => Served(h, t)'
          /\ \A h : h = nodes[visit].host => Served(h, tool)'
      BY <1>7, UploadServes
    <2>3. \A d \in Conn : nodes[d].host \in DOMAIN installed
      BY DEF UploadedRight
    <2>4. \A h, t : Served(h, t)' <=> (HasOwnName(t) /\ <<h, t>> \notin refused'
                                         => t \in installed'[h])
      BY DEF Served, HasOwnName
    <2>5. ASSUME NEW d \in Conn, d < visit + 1 PROVE Served(nodes[d].host, tool)'
      <3>1. d < visit \/ d = visit
        BY <1>0, <1>a, <2>5
      <3>2. CASE d < visit
        <4>1. Served(nodes[d].host, tool)
          BY <2>1, <3>2 DEF UploadedRight
        <4> DEFINE h == nodes[d].host
        <4>2. h \in DOMAIN installed
          BY <2>3
        <4>3. HasOwnName(tool) /\ <<h, tool>> \notin refused' => tool \in installed'[h]
          BY <1>a, <2>2, <2>4, <4>1, <4>2
        <4> QED BY <1>0, <2>1, <4>3 DEF Served, HasOwnName
      <3>3. CASE d = visit
        BY <1>0, <2>2, <3>3 DEF Served, HasOwnName
      <3> QED BY <3>1, <3>2, <3>3
    <2>6. ASSUME NEW t \in Tool, NEW h \in DOMAIN installed, t < tool PROVE Served(h, t)'
      BY <2>2, <2>6 DEF UploadedRight
    <2>7. DOMAIN installed' = {nodes'[c].host : c \in Conn'}
      BY <1>0, <2>2 DEF UploadedRight
    <2>8. \A t \in Tool : \A h \in DOMAIN installed' : t < tool' => Served(h, t)'
      BY <2>1, <2>2, <2>6
    <2>9. \A d \in Conn' : d < visit' => Served(nodes[d].host, tool)'
      BY <1>0, <2>1, <2>5
    <2> QED BY <2>1, <2>7, <2>8, <2>9 DEF UploadedRight
  <1>8. CASE UploadEnd
    <2>1. /\ UNCHANGED <<installed, refused, tool>> /\ pc = "upload" /\ pc' = "execute"
          /\ visit \notin Conn
      BY <1>8 DEF UploadEnd, remoteVars
    <2>2. \A d \in Conn : d < visit
      BY <1>0, <1>a, <2>1
    <2>3. \A h \in DOMAIN installed : Served(h, tool)
      BY <2>1, <2>2 DEF UploadedRight
    <2> QED BY <1>0, <2>1, <2>3 DEF UploadedRight, Served, HasOwnName
  <1>9. CASE NextTool
    <2>1. UNCHANGED <<installed, refused>> /\ pc = "execute"
      BY <1>9 DEF NextTool, remoteVars
    <2>2. CASE tool + 1 \in Tool
      <3>1. tool' = tool + 1 /\ pc' = "startTool"
        BY <1>9, <2>2 DEF NextTool
      <3>2. \A t \in Tool : t < tool + 1 => t < tool \/ t = tool
        BY <1>0, <1>a
      <3>3. \A t \in Tool : \A h \in DOMAIN installed : t < tool + 1 => Served(h, t)
        BY <2>1, <3>2 DEF UploadedRight
      <3> QED BY <1>0, <2>1, <3>1, <3>3 DEF UploadedRight, Served, HasOwnName
    <2>3. CASE tool + 1 \notin Tool
      <3>1. tool' = tool /\ pc' = "drain"
        BY <1>9, <2>3 DEF NextTool
      <3> QED BY <1>0, <2>1, <3>1 DEF UploadedRight, Served, HasOwnName
    <2> QED BY <2>2, <2>3
  <1>a1. CASE StartJob \/ WaitAndPop \/ Drain
    BY <1>2, <1>a1 DEF StartJob, WaitAndPop, Drain, remoteVars
  <1>a2. CASE WriteResults
    <2>1. UNCHANGED <<installed, refused, tool>> /\ pc = "drain" /\ pc' = "stored"
      BY <1>a2 DEF WriteResults, remoteVars
    <2> QED BY <1>0, <2>1 DEF UploadedRight, Served, HasOwnName
  <1>a3. ASSUME NEW how \in {"exited", "aborted"}, EndsEarly(how) PROVE UploadedRight'
    <2>1. UNCHANGED <<installed, refused>> /\ tool' = 1 /\ pc' = how
      BY <1>a3 DEF EndsEarly, remoteVars
    <2>2. \A t \in Tool : ~(t < 1)
      BY <1>0
    <2> QED BY <1>0, <2>1, <2>2 DEF UploadedRight
  <1>a4. CASE UNCHANGED vars
    BY <1>2, <1>a4 DEF vars, mainVars, remoteVars
  <1> QED
    BY <1>3, <1>4, <1>5, <1>6, <1>7, <1>8, <1>9, <1>a1, <1>a2, <1>a3, <1>a4
       DEF Next, MainStep, Exit, BusyAssertion, Ended

LEMMA InitIInv == Init => IInv
  <1> SUFFICES ASSUME Init PROVE IInv
    OBVIOUS
  <1>0. nodes \in Networks /\ jpc = [j \in Job |-> "none"]
    BY DEF Init
  <1>1. /\ 1 \in Tool /\ Len(ToolOf) \in Nat /\ Nobody \notin Job /\ Nobody # MainThread
        /\ Tool \subseteq Nat \ {0} /\ Job \subseteq Nat \ {0} /\ ToolOf \in [Job -> Tool]
        /\ \A c \in Conn : nodes[c].cores \in Nat
    BY <1>0, Basics DEF Nobody, MainThread
  <1>2. TypeOK
    BY <1>0, <1>1, FourPhases DEF Init, TypeOK
  <1>3. JobsWellFormed
    BY DEF Init, JobsWellFormed, OnCore
  <1>4. CountsRight
    <2>1. /\ JobsAt(Active) = {}
          /\ \A c : On(OnCore, c) = {} /\ On({"talk"}, c) = {} /\ Uploads(c) = 0
      BY <1>0 DEF Init, JobsAt, On, Active, OnCore, Uploads
    <2>2. /\ mRunningJobs = 0
          /\ \A c \in Conn : curJobs[c] = 0 /\ curChannels[c] = 0 /\ leaked[c] = 0
      BY DEF Init
    <2>3. Cardinality({}) = 0
      BY FS_EmptySet
    <2>4. mRunningJobs = Cardinality(JobsAt(Active))
      BY <2>1, <2>2, <2>3
    <2>5. ASSUME NEW c \in Conn
          PROVE  /\ curJobs[c] = Cardinality(On(OnCore, c)) /\ curJobs[c] <= nodes[c].cores
                 /\ curChannels[c] = leaked[c] + Cardinality(On({"talk"}, c)) + Uploads(c)
      <3>1. Cardinality(On(OnCore, c)) = 0 /\ Cardinality(On({"talk"}, c)) = 0
        BY <2>1, <2>3
      <3> QED BY <1>1, <2>1, <2>2, <3>1
    <2> QED BY <2>4, <2>5 DEF CountsRight
  <1>5. MutexRight
    BY <1>0, <1>1 DEF Init, MutexRight
  <1>6. QueueRight
    <2>1. \A j \in Job : ~(j <= 0)
      BY <1>1
    <2> QED BY <2>1 DEF Init, QueueRight, JobsAt, Started, Active, OnCore
  <1>7. ToolsInOrder
    <2>1. back = 0 /\ tool = 1 /\ pc = "startTool"
      BY DEF Init
    <2>2. \A j \in Job : ~(j <= 0)
      BY <1>1
    <2>3. \A j \in Job : ToolOf[j] >= 1
      <3>1. \A t \in Tool : t >= 1
        BY <1>1
      <3> QED BY <1>1, <3>1
    <2> QED BY <2>1, <2>2, <2>3 DEF ToolsInOrder
  <1>8. UploadedRight
    <2>1. \A t \in Tool : ~(t < 1)
      BY <1>1
    <2> QED BY <2>1 DEF Init, UploadedRight
  <1> QED BY <1>2, <1>3, <1>4, <1>5, <1>6, <1>7, <1>8 DEF IInv

(* Every step of the main thread and of a job keeps the strengthening.     *)
THEOREM Invariant == Spec => []IInv
  <1>1. IInv /\ [Next]_vars => IInv'
    BY TypePreserved, JobsPreserved, CountsPreserved, MutexPreserved, QueuePreserved,
       ToolsPreserved, UploadedPreserved DEF IInv
  <1> QED BY InitIInv, <1>1, PTL DEF Spec

(* The counters, cursors and places in the code keep their types:          *)
(* decrements of the unsigned counters never pass 0, and each connection   *)
(* that is used exists.                                                    *)
THEOREM TypeCorrect == Spec => []TypeOK
  <1>1. IInv => TypeOK
    BY DEF IInv
  <1> QED BY Invariant, <1>1, PTL

(* Who opens a channel finds one free (SSHConnection.h:33,50,67): a job    *)
(* that opens one holds a core and talks to no one, so the others on its   *)
(* connection and an upload, which goes only where a core is free and      *)
(* keeps new jobs away by the mutex, leave a channel.                      *)
THEOREM ChannelsSuffice == Spec => []ChannelFree
  <1>1. ASSUME IInv, NEW c \in Conn, Opening(c), leaked[c] = 0 PROVE ~busy(c)
    <2>1. TypeOK /\ CountsRight /\ MutexRight /\ nodes \in Networks /\ IsFiniteSet(Job)
      BY <1>1, Basics DEF IInv, TypeOK
    <2> DEFINE talking == On({"talk"}, c)
    <2> DEFINE onCore == On(OnCore, c)
    <2>2. talking \in SUBSET onCore /\ onCore \in SUBSET Job
      BY DEF On, OnCore
    <2> HIDE DEF talking, onCore
    <2>3. /\ IsFiniteSet(onCore) /\ IsFiniteSet(talking)
          /\ Cardinality(onCore) \in Nat /\ Cardinality(talking) \in Nat
          /\ Cardinality(talking) <= Cardinality(onCore)
          /\ Cardinality(talking) = Cardinality(onCore) => talking = onCore
      BY <2>1, <2>2, FS_Subset, FS_CardinalityType
    <2>4. /\ curJobs[c] = Cardinality(onCore) /\ curJobs[c] <= nodes[c].cores
          /\ curChannels[c] = Cardinality(talking) + Uploads(c)
      <3>1. /\ curJobs[c] = Cardinality(onCore) /\ curJobs[c] <= nodes[c].cores
            /\ curChannels[c] = 0 + Cardinality(talking) + Uploads(c)
        BY <1>1, <2>1 DEF CountsRight, talking, onCore
      <3>2. Uploads(c) \in Nat
        BY DEF Uploads
      <3> QED BY <2>3, <3>1, <3>2
    <2>5. nodes[c].cores \in Nat
      BY <2>1, Basics
    <2>6. CASE pc = "openUpload" /\ visit = c
      <3>1. curJobs[c] < nodes[c].cores
        BY <2>1, <2>6 DEF MutexRight, jobFree
      <3>2. Uploads(c) = 0
        BY <2>6 DEF Uploads
      <3> QED BY <2>3, <2>4, <2>5, <3>1, <3>2 DEF busy
    <2>7. ASSUME NEW j \in Job, jpc[j] = "open", connection[j] = c PROVE ~busy(c)
      <3>1. j \in onCore /\ j \notin talking
        BY <2>7 DEF On, OnCore, onCore, talking
      <3>2. Cardinality(talking) < Cardinality(onCore)
        BY <2>3, <3>1
      <3>3. CASE Uploads(c) = 0
        BY <2>3, <2>4, <2>5, <3>2, <3>3 DEF busy
      <3>4. CASE Uploads(c) # 0
        <4>1. pc = "uploading" /\ visit = c /\ Uploads(c) = 1
          BY <3>4 DEF Uploads
        <4>2. curJobs[c] < nodes[c].cores
          BY <2>1, <4>1 DEF MutexRight, jobFree
        <4> QED BY <2>3, <2>4, <2>5, <3>2, <4>1, <4>2 DEF busy
      <3> QED BY <3>3, <3>4
    <2> QED BY <1>1, <2>6, <2>7 DEF Opening
  <1>2. IInv => ChannelFree
    BY <1>1 DEF ChannelFree
  <1> QED BY Invariant, <1>2, PTL

(* A job runs the binary of its own tool: it starts after the uploads of   *)
(* its tool to every host, and later uploads replace only binaries of the  *)
(* same file name.                                                         *)
THEOREM OwnBinaryRuns == Spec => []RunsOwnBinary
  <1>1. ASSUME IInv, NEW j \in Job, NEW t \in Tool, Runs(j), t = ToolOf[j],
               HasOwnName(t), <<nodes[connection[j]].host, t>> \notin refused
        PROVE  t \in installed[nodes[connection[j]].host]
    <2>1. /\ nodes \in Networks /\ Tool \subseteq Nat /\ tool \in Tool
          /\ pc \in {"startTool", "upload", "openUpload", "uploading", "execute", "drain",
                     "stored", "exited", "aborted"}
      BY <1>1, Basics DEF IInv, TypeOK
    <2>2. connection[j] \in Conn /\ jpc[j] \in Started
      BY <1>1 DEF IInv, JobsWellFormed, Runs, Started, Active, OnCore
    <2>3. nodes[connection[j]].host \in DOMAIN installed
      BY <1>1, <2>2 DEF IInv, UploadedRight
    <2>4. j <= back /\ ToolOf[j] <= tool
      BY <1>1, <2>2 DEF IInv, QueueRight, ToolsInOrder
    <2>5. CASE t < tool
      BY <1>1, <2>3, <2>5 DEF IInv, UploadedRight, Served
    <2>6. CASE t = tool
      <3>1. pc \in {"execute", "drain", "stored", "exited", "aborted"}
        <4>1. ~(t < tool)
          BY <2>1, <2>6
        <4> QED BY <1>1, <2>1, <2>4, <4>1 DEF IInv, ToolsInOrder
      <3>2. CASE pc \in {"execute", "drain", "stored"}
        BY <1>1, <2>3, <2>6, <3>2 DEF IInv, UploadedRight, Served
      <3>3. CASE pc \in {"exited", "aborted"}
        <4>1. back = 0 /\ j > 0
          BY <1>1, <2>1, <3>3, Basics DEF IInv, QueueRight
        <4>2. FALSE
          BY <2>1, <2>4, <4>1, Basics
        <4> QED BY <4>2
      <3> QED BY <3>1, <3>2, <3>3
    <2> QED BY <1>1, <2>1, <2>4, <2>5, <2>6
  <1>2. IInv => RunsOwnBinary
    BY <1>1 DEF RunsOwnBinary
  <1> QED BY Invariant, <1>2, PTL

(* When the results are written every job has stored its result, and no    *)
(* core is taken: the queue is drained future by future, and a future is   *)
(* ready only after its job's last step.                                   *)
THEOREM ResultsComplete == Spec => []AllStored
  <1>1. ASSUME IInv, pc = "stored"
        PROVE  /\ mResults = Job /\ mFinishedJobs = Len(ToolOf)
               /\ mRunningJobs = 0 /\ \A c \in Conn : curJobs[c] = 0
    <2>1. nodes \in Networks /\ Job = 1 .. Len(ToolOf)
      BY <1>1, Basics DEF IInv, TypeOK
    <2>2. front = Len(ToolOf) /\ mFinishedJobs = front
      BY <1>1 DEF IInv, QueueRight, ToolsInOrder
    <2>3. \A j \in Job : jpc[j] = "done"
      BY <1>1, <2>1, <2>2 DEF IInv, QueueRight
    <2>4. mResults = Job
      BY <1>1, <2>3 DEF IInv, QueueRight, JobsAt
    <2>5. JobsAt(Active) = {} /\ \A c : On(OnCore, c) = {}
      BY <2>3 DEF JobsAt, On, Active, OnCore
    <2> QED BY <1>1, <2>2, <2>4, <2>5, FS_EmptySet DEF IInv, CountsRight
  <1>2. IInv => AllStored
    BY <1>1 DEF AllStored
  <1> QED BY Invariant, <1>2, PTL
=============================================================================
