---------------------------- MODULE SSHScheduler ----------------------------
(***************************************************************************)
(* benchmax with its SSH backend: the tools are run on the benchmark files *)
(* on remote nodes (benchmax/backends/{Backend,SSHBackend}.h,              *)
(* benchmax/ssh/{SSHScheduler,SSHConnection}.h).                           *)
(*                                                                         *)
(* The main thread uploads one tool after the other and starts a job, with *)
(* a thread of its own, for each file the tool can handle.  A job waits    *)
(* for a connection, opens a channel on it for each of its four phases,    *)
(* and stores its result.  A step is one critical section or one access to *)
(* a counter.  The network may fail at every request; libssh and the       *)
(* remote nodes are external.                                              *)
(***************************************************************************)
EXTENDS Integers, Sequences, FiniteSets, FiniteSetsExt

CONSTANTS Networks,    \* what Settings::ssh_nodes may say: sequences of
                       \* connections [host, cores]
          JobLists,    \* per network: the tools of the jobs, in the order of the jobs
          BinaryName,  \* of the tools 1, 2, ...: file names
          MaxFailures  \* bound on the requests that fail

ASSUME SchedulerAssumption ==
    /\ \A n \in Networks : n \in Seq([host : {n[c].host : c \in DOMAIN n}, cores : Nat \ {0}])
    /\ MaxFailures \in Nat
    /\ BinaryName \in Seq({BinaryName[t] : t \in DOMAIN BinaryName}) /\ BinaryName # <<>>
    /\ JobLists \in [Networks -> Seq(DOMAIN BinaryName)]
    /\ \A n \in Networks : \A j, k \in DOMAIN JobLists[n] :
          j <= k => JobLists[n][j] <= JobLists[n][k]

Tool == DOMAIN BinaryName
MainThread == 0
Nobody == -1

VARIABLES
    nodes,         \* mConnections, fixed at start-up
    curJobs, curChannels,   \* counters of the connections
    mMutex,        \* who holds the scheduler's mutex
    mRunningJobs,
    pc, tool,      \* the main thread: where it stands, with which tool
    visit,         \* uploadTool: the connection its loop has reached
    front, back,   \* the queue of futures: of the jobs front + 1 .. back
    mFinishedJobs,
    jpc, phase, connection, \* per job: where it stands, and on what
    installed,     \* per host: the tools uploaded, one per file name
    mResults,      \* jobs whose result is stored
    leaked,        \* history: channels never destroyed, per connection
    refused        \* history: <<host, tool>> whose upload failed

mainVars == <<pc, tool, visit, front, back, mFinishedJobs>>
jobVars == <<jpc, phase, connection>>
countVars == <<curJobs, curChannels, leaked>>
remoteVars == <<installed, refused>>
vars == <<nodes, mMutex, mRunningJobs, mResults, mainVars, jobVars, countVars, remoteVars>>

ToolOf == JobLists[nodes]
Job == DOMAIN ToolOf
AllJobs == UNION {DOMAIN JobLists[n] : n \in Networks}

(* What a job opens a channel for.                                         *)
Phase == <<"createTmpDir", "uploadFile", "executeCommand", "removeDir">>
Conn == DOMAIN nodes
workerCount == MapThenSumSet(LAMBDA c : nodes[c].cores, Conn)

Init ==
    /\ nodes \in Networks
    /\ curJobs = [c \in Conn |-> 0] /\ curChannels = curJobs /\ leaked = curJobs
    /\ mMutex = Nobody /\ mRunningJobs = 0
    /\ pc = "startTool" /\ tool = 1 /\ visit = 1
    /\ front = 0 /\ back = 0 /\ mFinishedJobs = 0
    /\ jpc = [j \in Job |-> "none"]
    /\ phase = [j \in Job |-> 1]
    /\ connection = [j \in Job |-> 1]
    /\ installed = [h \in {nodes[c].host : c \in Conn} |-> {}] /\ refused = {}
    /\ mResults = {}

(* The failures of the network are bounded.                                *)
CanFail == MapThenSumSet(LAMBDA c : leaked[c], Conn) + Cardinality(refused) < MaxFailures

(* The process goes on until its results are written, or it ends early.    *)
Running == pc \notin {"stored", "exited", "aborted"}

jobFree(c) == curJobs[c] < nodes[c].cores
busy(c) == curChannels[c] >= nodes[c].cores

-----------------------------------------------------------------------------
(* The main thread: Backend::run and the destructors after it.             *)

(* uploadTool, under the scheduler's mutex, visits the first connection of *)
(* each host and waits until a job could start there.                      *)
UploadBegin ==
    /\ pc = "startTool" /\ mMutex = Nobody
    /\ mMutex' = MainThread /\ visit' = 1 /\ pc' = "upload"
    /\ UNCHANGED <<nodes, mRunningJobs, mResults, tool, front, back, mFinishedJobs,
                   jobVars, countVars, remoteVars>>

(* Mutant: only the first host is served.                                  *)
SeenBeforeAny(c) == c > 1
SeenBefore(c) == \E d \in 1 .. c - 1 : nodes[d].host = nodes[c].host

UploadSkip ==
    /\ pc = "upload" /\ visit \in Conn /\ SeenBefore(visit)
    /\ visit' = visit + 1
    /\ UNCHANGED <<nodes, mMutex, mRunningJobs, mResults, pc, tool, front, back,
                   mFinishedJobs, jobVars, countVars, remoteVars>>

(* Mutant: the upload does not wait for a free core.                       *)
RoomForUploadAlways(c) == TRUE
RoomForUpload(c) == jobFree(c)

UploadVisit ==
    /\ pc = "upload" /\ visit \in Conn /\ ~SeenBefore(visit) /\ RoomForUpload(visit)
    /\ pc' = "openUpload"
    /\ UNCHANGED <<nodes, mMutex, mRunningJobs, mResults, tool, visit, front, back,
                   mFinishedJobs, jobVars, countVars, remoteVars>>

UploadOpen ==
    /\ pc = "openUpload" /\ ~busy(visit)
    /\ curChannels' = [curChannels EXCEPT ![visit] = @ + 1]
    /\ pc' = "uploading"
    /\ UNCHANGED <<nodes, mMutex, mRunningJobs, mResults, curJobs, leaked, tool, visit,
                   front, back, mFinishedJobs, jobVars, remoteVars>>

(* uploadFile, whose failure nobody looks at, replaces what has this name. *)
Replacing(tools, t) == {u \in tools : BinaryName[u] # BinaryName[t]} \cup {t}

UploadEnds ==
    /\ pc = "uploading"
    /\ LET host == nodes[visit].host
       IN  \/ /\ installed' = [installed EXCEPT ![host] = Replacing(@, tool)]
              /\ UNCHANGED refused
           \/ /\ CanFail
              /\ refused' = refused \cup {<<host, tool>>}
              /\ UNCHANGED installed
    /\ curChannels' = [curChannels EXCEPT ![visit] = @ - 1]
    /\ visit' = visit + 1 /\ pc' = "upload"
    /\ UNCHANGED <<nodes, mMutex, mRunningJobs, mResults, curJobs, leaked, tool, front,
                   back, mFinishedJobs, jobVars>>

UploadEnd ==
    /\ pc = "upload" /\ visit \notin Conn
    /\ mMutex' = Nobody /\ visit' = 1 /\ pc' = "execute"
    /\ UNCHANGED <<nodes, mRunningJobs, mResults, tool, front, back, mFinishedJobs,
                   jobVars, countVars, remoteVars>>

(* Mutant: the answer of wait_for is not looked at.                        *)
FrontReady == jpc[front + 1] = "done"

(* execute: a future is awaited while more than twice as many jobs run as  *)
(* there are workers; then a job is started.                               *)
NextJobIsOf(t) == back + 1 \in Job /\ ToolOf[back + 1] = t

EnoughActive == mRunningJobs > workerCount * 2

WaitAndPop ==
    /\ pc = "execute" /\ NextJobIsOf(tool) /\ EnoughActive
    /\ front < back /\ FrontReady
    /\ front' = front + 1 /\ mFinishedJobs' = mFinishedJobs + 1
    /\ UNCHANGED <<nodes, mMutex, mRunningJobs, mResults, pc, tool, visit, back, jobVars,
                   countVars, remoteVars>>

StartJob ==
    /\ pc = "execute" /\ NextJobIsOf(tool) /\ ~EnoughActive
    /\ back' = back + 1
    /\ jpc' = [jpc EXCEPT ![back + 1] = "started"]
    /\ UNCHANGED <<nodes, mMutex, mRunningJobs, mResults, pc, tool, visit, front,
                   mFinishedJobs, phase, connection, countVars, remoteVars>>

NextTool ==
    /\ pc = "execute" /\ ~NextJobIsOf(tool)
    /\ IF tool + 1 \in Tool THEN pc' = "startTool" /\ tool' = tool + 1
                            ELSE pc' = "drain" /\ UNCHANGED tool
    /\ UNCHANGED <<nodes, mMutex, mRunningJobs, mResults, visit, front, back,
                   mFinishedJobs, jobVars, countVars, remoteVars>>

(* ~SSHBackend waits for all futures, then ~Backend writes the results.    *)
(* Mutant: the counter of running jobs is looked at, not the queue.        *)
AllDrainedByCount == mRunningJobs = 0
AllDrained == front = back

Drain ==
    /\ pc = "drain" /\ ~AllDrained /\ FrontReady
    /\ front' = front + 1 /\ mFinishedJobs' = mFinishedJobs + 1
    /\ UNCHANGED <<nodes, mMutex, mRunningJobs, mResults, pc, tool, visit, back, jobVars,
                   countVars, remoteVars>>

WriteResults ==
    /\ pc = "drain" /\ AllDrained
    /\ pc' = "stored"
    /\ UNCHANGED <<nodes, mMutex, mRunningJobs, mResults, tool, visit, front, back,
                   mFinishedJobs, jobVars, countVars, remoteVars>>

-----------------------------------------------------------------------------
(* The thread of a job: executeJob.                                        *)

(* get holds the mutex while it looks for a connection with a free core.   *)
(* Cores become free meanwhile, so it may find any such connection.        *)
Begin(j) ==
    /\ Running /\ jpc[j] = "started"
    /\ mRunningJobs' = mRunningJobs + 1
    /\ jpc' = [jpc EXCEPT ![j] = "get"]
    /\ UNCHANGED <<nodes, mMutex, mResults, mainVars, phase, connection, countVars, remoteVars>>

Lock(j) ==
    /\ Running /\ jpc[j] = "get" /\ mMutex = Nobody
    /\ mMutex' = j
    /\ jpc' = [jpc EXCEPT ![j] = "search"]
    /\ UNCHANGED <<nodes, mRunningJobs, mResults, mainVars, phase, connection, countVars,
                   remoteVars>>

Search(j) ==
    /\ Running /\ jpc[j] = "search"
    /\ \E c \in Conn :
         /\ jobFree(c)
         /\ curJobs' = [curJobs EXCEPT ![c] = @ + 1]
         /\ connection' = [connection EXCEPT ![j] = c]
    /\ mMutex' = Nobody
    /\ phase' = [phase EXCEPT ![j] = 1]
    /\ jpc' = [jpc EXCEPT ![j] = "open"]
    /\ UNCHANGED <<nodes, mRunningJobs, mResults, mainVars, curChannels, leaked, remoteVars>>

(* getSCP, getChannel, getSFTP.                                            *)
Open(j) ==
    /\ Running /\ jpc[j] = "open" /\ ~busy(connection[j])
    /\ curChannels' = [curChannels EXCEPT ![connection[j]] = @ + 1]
    /\ jpc' = [jpc EXCEPT ![j] = "talk"]
    /\ UNCHANGED <<nodes, mMutex, mRunningJobs, mResults, mainVars, phase, connection,
                   curJobs, leaked, remoteVars>>

AfterPhase(j) == IF phase[j] < Len(Phase) THEN "open" ELSE "store"

(* The phase ends, a failed upload too, and destroys its channel.          *)
Destroy(j) ==
    /\ Running /\ jpc[j] = "talk"
    /\ curChannels' = [curChannels EXCEPT ![connection[j]] = @ - 1]
    /\ phase' = [phase EXCEPT ![j] = @ + 1]
    /\ jpc' = [jpc EXCEPT ![j] = AfterPhase(j)]
    /\ UNCHANGED <<nodes, mMutex, mRunningJobs, mResults, mainVars, connection, curJobs,
                   leaked, remoteVars>>

(* executeCommand gives up without doing so if its request fails.          *)
CommandFails(j) ==
    /\ Running /\ jpc[j] = "talk" /\ Phase[phase[j]] = "executeCommand"
    /\ CanFail
    /\ leaked' = [leaked EXCEPT ![connection[j]] = @ + 1]
    /\ phase' = [phase EXCEPT ![j] = @ + 1]
    /\ jpc' = [jpc EXCEPT ![j] = AfterPhase(j)]
    /\ UNCHANGED <<nodes, mMutex, mRunningJobs, mResults, mainVars, connection, curJobs,
                   curChannels, remoteVars>>

Store(j) ==
    /\ Running /\ jpc[j] = "store"
    /\ mResults' = mResults \cup {j}
    /\ jpc' = [jpc EXCEPT ![j] = "finish"]
    /\ UNCHANGED <<nodes, mMutex, mRunningJobs, mainVars, phase, connection, countVars, remoteVars>>

(* Mutant: the connection is not told that its job has ended.              *)
FinishKeepingCore(j) ==
    /\ Running /\ jpc[j] = "finish"
    /\ mRunningJobs' = mRunningJobs - 1
    /\ jpc' = [jpc EXCEPT ![j] = "done"]
    /\ phase' = [phase EXCEPT ![j] = 1] /\ connection' = [connection EXCEPT ![j] = 1]
    /\ UNCHANGED <<nodes, mMutex, mResults, mainVars, countVars, remoteVars>>

(* finishJob; then the future becomes ready, and the locals are gone.      *)
Finish(j) ==
    /\ Running /\ jpc[j] = "finish"
    /\ curJobs' = [curJobs EXCEPT ![connection[j]] = @ - 1]
    /\ mRunningJobs' = mRunningJobs - 1
    /\ jpc' = [jpc EXCEPT ![j] = "done"]
    /\ phase' = [phase EXCEPT ![j] = 1] /\ connection' = [connection EXCEPT ![j] = 1]
    /\ UNCHANGED <<nodes, mMutex, mResults, mainVars, curChannels, leaked, remoteVars>>

-----------------------------------------------------------------------------
(* The process ends early: by SIGINT at any time, or because a request     *)
(* fails (most failures call exit), or by the assertion that a connection  *)
(* is not busy when a channel is opened.  Its memory is lost, and what it  *)
(* had of results.                                                         *)
EndsEarly(how) ==
    /\ pc' = how /\ tool' = 1 /\ visit' = 1
    /\ mMutex' = Nobody /\ mRunningJobs' = 0
    /\ front' = 0 /\ back' = 0 /\ mFinishedJobs' = 0
    /\ curJobs' = [c \in Conn |-> 0] /\ curChannels' = curJobs' /\ leaked' = curJobs'
    /\ jpc' = [j \in Job |-> "none"] /\ phase' = [j \in Job |-> 1]
    /\ connection' = phase' /\ mResults' = {}
    /\ UNCHANGED <<nodes, remoteVars>>

Exit == Running /\ EndsEarly("exited")

BusyAssertion ==
    /\ \/ pc = "openUpload" /\ busy(visit)
       \/ Running /\ \E j \in Job : jpc[j] = "open" /\ busy(connection[j])
    /\ EndsEarly("aborted")

Ended == ~Running /\ UNCHANGED vars

MainStep ==
    \/ UploadBegin \/ UploadSkip \/ UploadVisit \/ UploadOpen \/ UploadEnds \/ UploadEnd
    \/ WaitAndPop \/ StartJob \/ NextTool \/ Drain \/ WriteResults

JobStep(j) ==
    \/ Begin(j) \/ Lock(j) \/ Search(j) \/ Open(j) \/ Destroy(j) \/ CommandFails(j)
    \/ Store(j) \/ Finish(j)

Next == MainStep \/ (\E j \in Job : JobStep(j)) \/ Exit \/ BusyAssertion \/ Ended

Spec == Init /\ [][Next]_vars

(* All threads are scheduled, and a request ends, the run of a tool        *)
(* because of its time limit (executeCommand).                             *)
Fairness == /\ WF_vars(MainStep) /\ WF_vars(BusyAssertion)
            /\ \A j \in AllJobs : WF_vars(j \in Job /\ JobStep(j))
FairSpec == Spec /\ Fairness

-----------------------------------------------------------------------------
(* Properties.                                                             *)

(* The types of the members and locals named above.                        *)
TypeOK ==
    /\ nodes \in Networks
    /\ {curJobs, curChannels, leaked} \subseteq [Conn -> Nat]
    /\ mMutex \in Job \cup {Nobody, MainThread} /\ mRunningJobs \in Nat
    /\ pc \in {"startTool", "upload", "openUpload", "uploading", "execute", "drain",
               "stored", "exited", "aborted"}
    /\ tool \in Tool /\ visit \in Nat \ {0}
    /\ front \in Nat /\ back \in Nat /\ front <= back /\ back <= Len(ToolOf)
    /\ mFinishedJobs \in Nat
    /\ jpc \in [Job -> {"none", "started", "get", "search", "open", "talk", "store",
                        "finish", "done"}]
    /\ phase \in [Job -> 1 .. Len(Phase) + 1]
    /\ connection \in [Job -> Nat \ {0}]
    /\ \A h \in DOMAIN installed : installed[h] \subseteq Tool
    /\ refused \subseteq (DOMAIN installed) \X Tool
    /\ mResults \subseteq Job

(* SSHConnection.h:33,50,67 assert it: who opens a channel finds one free, *)
(* be it a job in any of its phases or an upload that the main thread does *)
(* between jobs, unless a failed command has kept one.                     *)
Opening(c) ==
    \/ pc = "openUpload" /\ visit = c
    \/ \E j \in Job : jpc[j] = "open" /\ connection[j] = c

ChannelFree == Running => \A c \in Conn : Opening(c) /\ leaked[c] = 0 => ~busy(c)

(* A job runs the binary of its own tool, which is on its host by then,    *)
(* unless its upload failed or another tool has a binary of the same file  *)
(* name (uploadTool, executeJob).                                          *)
HasOwnName(t) == \A u \in Tool \ {t} : BinaryName[u] # BinaryName[t]

Runs(j) == jpc[j] = "talk" /\ Phase[phase[j]] = "executeCommand"

RunsOwnBinary ==
    \A j \in Job : \A t \in Tool :
        LET host == nodes[connection[j]].host
        IN  Runs(j) /\ t = ToolOf[j] /\ HasOwnName(t) /\ <<host, t>> \notin refused
              => t \in installed[host]

(* When the results are written no job is left, and none is missing.       *)
AllStored ==
    pc = "stored" => /\ mResults = Job /\ mFinishedJobs = Len(ToolOf)
                     /\ mRunningJobs = 0 /\ \A c \in Conn : curJobs[c] = 0

(* The program ends: no thread waits for ever for the mutex, a free core   *)
(* or a future.                                                            *)
Ends == <>~Running
=============================================================================
