--------------------------- MODULE SubscriptionJobs ---------------------------
(***************************************************************************)
(* The subscription jobs of the router's web UI (cgi/subscription_jobs.rs).*)
(* A CGI process that may exit at any moment records a job and launches a  *)
(* detached worker; the worker claims the job, runs the download and       *)
(* records the result; pages poll the job and declare it finished when its *)
(* worker is gone.  All of them meet in files under .subscription-jobs:    *)
(* <id>.json, <id>.input and active.json, and in one lock, which the       *)
(* worker's progress reports do not take.                                  *)
(***************************************************************************)
EXTENDS Naturals, FiniteSets

CONSTANTS Ids,            \* request ids
          MaxLaunches,    \* bound: times a launch gets to record a job
          KeepJobs,       \* job files that trim_history keeps (7)
          NoJob

VARIABLES job,        \* <id>.json
          input,      \* ids with an <id>.input
          active,     \* active.json
          launcher,   \* the CGI process that has the lock, and where it is
          worker,     \* the worker process of each id
          launches

jobVars == <<job, input, active, launcher, worker, launches>>

\* aged: created more than 30 seconds ago.
Job == [state : {"running", "finished"}, claimed : BOOLEAN, aged : BOOLEAN, ok : BOOLEAN]

ASSUME NoJobApart == NoJob \notin Job /\ NoJob \notin Ids
ASSUME LaunchBound == MaxLaunches \in Nat

Queued == [state |-> "running", claimed |-> FALSE, aged |-> FALSE, ok |-> FALSE]
NoLaunch == [pc |-> "free", id |-> NoJob]

JobsTypeOK ==
    /\ job \in [Ids -> Job \cup {NoJob}] /\ input \subseteq Ids /\ active \in Ids \cup {NoJob}
    /\ launcher \in [pc : {"free", "input", "job", "active", "spawn"}, id : Ids \cup {NoJob}]
    /\ worker \in [Ids -> [pc : {"none", "spawned", "working"}, copy : Job \cup {NoJob}]]
    /\ launches \in 0 .. MaxLaunches

JobsInit ==
    /\ job = [i \in Ids |-> NoJob] /\ input = {} /\ active = NoJob
    /\ launcher = NoLaunch /\ launches = 0
    /\ worker = [i \in Ids |-> [pc |-> "none", copy |-> NoJob]]

LockFree == launcher.pc = "free"
JobAlive(i) == worker[i].pc # "none"
WorkerBecomes(i, pc, copy) == worker' = [worker EXCEPT ![i] = [pc |-> pc, copy |-> copy]]

-----------------------------------------------------------------------------
(* load: a running job whose worker is gone, or never came, is finished.     *)

\* any job that was not finished in 30 seconds
Lost_BySlowness(i) == job[i] # NoJob /\ job[i].state = "running" /\ job[i].aged

\* only workers that are known to have started
Lost_Claimed(i) == job[i] # NoJob /\ job[i].state = "running" /\ job[i].claimed /\ ~ JobAlive(i)

Lost(i) ==
    /\ job[i] # NoJob /\ job[i].state = "running"
    /\ IF job[i].claimed THEN ~ JobAlive(i) ELSE job[i].aged

Loaded(i) == IF Lost(i) THEN [job[i] EXCEPT !.state = "finished", !.ok = FALSE] ELSE job[i]
InputAfterLoad(i) == IF Lost(i) THEN input \ {i} ELSE input

\* A page asks for a job (status), or repeats the request that made it (start, which
\* answers a known request id from its file).
Poll(i) ==
    /\ LockFree /\ job[i] # NoJob
    /\ job' = [job EXCEPT ![i] = Loaded(i)]
    /\ input' = InputAfterLoad(i)
    /\ UNCHANGED <<active, launcher, worker, launches>>

\* Time passes for a job.
Ages(i) ==
    /\ job[i] # NoJob /\ ~ job[i].aged
    /\ job' = [job EXCEPT ![i].aged = TRUE]
    /\ UNCHANGED <<input, active, launcher, worker, launches>>

-----------------------------------------------------------------------------
(* start: the launch of a job, step by step, under the lock.                 *)

\* only a job whose worker is known to have started
JobBusy_Claimed == active # NoJob /\ job[active] # NoJob /\ Loaded(active).state = "running" /\ job[active].claimed

JobBusy == active # NoJob /\ job[active] # NoJob /\ Loaded(active).state = "running"

Recorded == {i \in Ids : job[i] # NoJob}

\* The page draws 16 random bytes for each job: an id whose file has been trimmed
\* does not come again while its first worker is still on its way.
FreshId(i) == ~ JobAlive(i)

\* The request is new and nothing is running: the history is trimmed (which files
\* are the newest is left open) and the launch begins.
StartNew(i) ==
    /\ LockFree /\ job[i] = NoJob /\ FreshId(i) /\ ~ JobBusy /\ launches < MaxLaunches
    /\ \E kept \in SUBSET Recorded :
          /\ IF Cardinality(Recorded) <= KeepJobs THEN kept = Recorded
             ELSE Cardinality(kept) = KeepJobs
          /\ LET loaded == IF active # NoJob /\ job[active] # NoJob
                           THEN [job EXCEPT ![active] = Loaded(active)] ELSE job
             IN job' = [j \in Ids |-> IF j \in kept THEN loaded[j] ELSE NoJob]
          /\ input' = (IF active # NoJob THEN InputAfterLoad(active) ELSE input) \ (Ids \ kept)
    /\ launcher' = [pc |-> "input", id |-> i]
    /\ launches' = launches + 1
    /\ UNCHANGED <<active, worker>>

\* <id>.input, <id>.json and active.json are written, then the worker is spawned.
LaunchStep ==
    LET i == launcher.id
    IN /\ \/ /\ launcher.pc = "input" /\ launcher' = [pc |-> "job", id |-> i]
             /\ input' = input \cup {i}
             /\ UNCHANGED <<job, active, worker>>
          \/ /\ launcher.pc = "job" /\ launcher' = [pc |-> "active", id |-> i]
             /\ job' = [job EXCEPT ![i] = Queued]
             /\ UNCHANGED <<input, active, worker>>
          \/ /\ launcher.pc = "active" /\ launcher' = [pc |-> "spawn", id |-> i]
             /\ active' = i
             /\ UNCHANGED <<job, input, worker>>
          \/ /\ launcher.pc = "spawn" /\ launcher' = NoLaunch
             /\ WorkerBecomes(i, "spawned", NoJob)
             /\ UNCHANGED <<job, input, active>>
       /\ UNCHANGED launches

\* An error before or at the spawn: the request is withdrawn.  The disk that
\* failed the launch may fail the record of it too.
LaunchFails ==
    LET i == launcher.id
    IN /\ ~ LockFree
       /\ input' = input \ {i}
       /\ \/ job' = [job EXCEPT ![i] = IF @ = NoJob THEN NoJob
                                       ELSE [@ EXCEPT !.state = "finished", !.ok = FALSE]]
          \/ UNCHANGED job
       /\ launcher' = NoLaunch
       /\ UNCHANGED <<active, worker, launches>>

\* The firmware ends the CGI process; the lock goes with it.
LauncherDies ==
    /\ ~ LockFree
    /\ launcher' = NoLaunch
    /\ UNCHANGED <<job, input, active, worker, launches>>

-----------------------------------------------------------------------------
(* The worker.                                                               *)

\* Claim: the job must still be running and nobody's.
Claim(i) ==
    /\ worker[i].pc = "spawned" /\ LockFree
    /\ IF job[i] # NoJob /\ Loaded(i).state = "running" /\ ~ job[i].claimed
       THEN /\ job' = [job EXCEPT ![i].claimed = TRUE]
            /\ WorkerBecomes(i, "working", NoJob)
            /\ input' = input \ {i}
       ELSE /\ job' = [job EXCEPT ![i] = IF @ = NoJob THEN NoJob ELSE Loaded(i)]
            /\ input' = InputAfterLoad(i)
            /\ WorkerBecomes(i, "none", NoJob)
    /\ UNCHANGED <<active, launcher, launches>>

\* progress: read, change and write the job without the lock.
ReadProgress(i) ==
    /\ worker[i].pc = "working" /\ worker[i].copy = NoJob /\ job[i] # NoJob
    /\ WorkerBecomes(i, "working", job[i])
    /\ UNCHANGED <<job, input, active, launcher, launches>>

WriteProgress(i) ==
    /\ worker[i].pc = "working" /\ worker[i].copy # NoJob
    /\ job' = [job EXCEPT ![i] = [worker[i].copy EXCEPT !.aged = job[i] # NoJob /\ job[i].aged]]
    /\ WorkerBecomes(i, "working", NoJob)
    /\ UNCHANGED <<input, active, launcher, launches>>

\* The result of the dispatch is recorded and the worker exits.
Finish(i, ok) ==
    /\ worker[i].pc = "working" /\ worker[i].copy = NoJob /\ LockFree
    /\ job' = [job EXCEPT ![i] = IF @ = NoJob THEN NoJob
                                 ELSE [@ EXCEPT !.state = "finished", !.ok = ok]]
    /\ WorkerBecomes(i, "none", NoJob)
    /\ UNCHANGED <<input, active, launcher, launches>>

\* Killed, or gave up waiting for the lock.
WorkerDies(i) ==
    /\ JobAlive(i)
    /\ WorkerBecomes(i, "none", NoJob)
    /\ UNCHANGED <<job, input, active, launcher, launches>>

-----------------------------------------------------------------------------
JobsNext ==
    \/ LaunchStep \/ LaunchFails \/ LauncherDies
    \/ \E i \in Ids :
          \/ Poll(i) \/ Ages(i) \/ StartNew(i) \/ Claim(i)
          \/ ReadProgress(i) \/ WriteProgress(i) \/ WorkerDies(i)
          \/ \E ok \in BOOLEAN : Finish(i, ok)

\* Processes run on until they end or are killed, time passes, and the page that
\* started a job keeps polling it.  SF: a download reports progress a bounded
\* number of times, and no launch keeps the lock.
JobsFairness ==
    /\ WF_jobVars(LaunchStep \/ LaunchFails \/ LauncherDies)
    /\ \A i \in Ids :
          /\ WF_jobVars(Ages(i))
          /\ WF_jobVars(Poll(i) /\ Lost(i))
          /\ WF_jobVars(Claim(i) \/ WriteProgress(i))
          /\ SF_jobVars(\E ok \in BOOLEAN : Finish(i, ok))

JobsSpec == JobsInit /\ [][JobsNext]_jobVars /\ JobsFairness

-----------------------------------------------------------------------------
\* Two workers never work at the same time, however late a worker starts and
\* whoever died before: the downloads and restarts of two jobs do not mix.
OneWorker == \A i, j \in Ids : worker[i].pc = "working" /\ worker[j].pc = "working" => i = j

\* What a page was told is final: a finished job never runs or changes its
\* result again, although progress is written without the lock.
ResultIsFinal ==
    [][ \A i \in Ids : job[i] # NoJob /\ job[i].state = "finished" /\ job'[i] # NoJob
                       => job'[i].state = "finished" /\ job'[i].ok = job[i].ok ]_jobVars

\* A job that is polled comes to an end, whoever dies.
JobsEnd ==
    \A i \in Ids : (job[i] # NoJob /\ job[i].state = "running")
                   ~> (job[i] = NoJob \/ job[i].state = "finished")
=============================================================================
