----------------------------- MODULE JobsProofs -----------------------------
(***************************************************************************)
(* Proofs about what runs behind the web UI: its background jobs, for any  *)
(* number of requests, launches and deaths, and the reload of the          *)
(* configuration it saves, for any texts and any number of edits.          *)
(***************************************************************************)
EXTENDS SubscriptionJobs, SpeedtestJobs, ConfigReload, TLAPS

-----------------------------------------------------------------------------
(* Subscription jobs.                                                      *)

Runs(i) == job[i] # NoJob /\ job[i].state = "running"
Waits(i) == Runs(i) /\ ~job[i].claimed

\* A worker at work is the one of active.json, and the file of its job, like the
\* copy it is about to write back, says that the job runs and is taken.
WorkingOwns ==
  \A i \in Ids : worker[i].pc = "working" =>
    /\ active = i /\ Runs(i) /\ job[i].claimed
    /\ worker[i].copy # NoJob => worker[i].copy.state = "running" /\ worker[i].copy.claimed

\* A late worker finds its job waiting only while active.json names that job.
SpawnedActive == \A i \in Ids : worker[i].pc = "spawned" /\ Waits(i) => active = i

\* While a launch has the lock nobody works and no late worker has a job to claim.
LaunchAlone ==
  ~LockFree =>
    /\ launcher.id \in Ids /\ worker[launcher.id].pc = "none"
    /\ \A i \in Ids : worker[i].pc # "working" /\ (worker[i].pc = "spawned" => ~Waits(i))
    /\ launcher.pc \in {"input", "job"} => job[launcher.id] = NoJob
    /\ launcher.pc \in {"active", "spawn"} => Waits(launcher.id)
    /\ launcher.pc = "spawn" => active = launcher.id

JobsInv == JobsTypeOK /\ WorkingOwns /\ SpawnedActive /\ LaunchAlone

\* What a step of the worker of i changes in the table of workers.
LEMMA WorkerMoves ==
  ASSUME JobsTypeOK, NEW i \in Ids, NEW pc \in {"none", "spawned", "working"},
         NEW copy \in Job \cup {NoJob}, WorkerBecomes(i, pc, copy)
  PROVE  /\ worker' \in [Ids -> [pc : {"none", "spawned", "working"}, copy : Job \cup {NoJob}]]
         /\ worker'[i].pc = pc /\ worker'[i].copy = copy
         /\ \A k \in Ids : k # i => worker'[k] = worker[k]
BY DEF WorkerBecomes, JobsTypeOK

\* The repair of a job only finishes it.
LEMMA LoadedFacts ==
  ASSUME JobsTypeOK, NEW i \in Ids, job[i] # NoJob
  PROVE  /\ Loaded(i) \in Job
         /\ Loaded(i) = job[i] \/ (Lost(i) /\ Loaded(i).state = "finished")
         /\ Loaded(i).state = "running" => ~Lost(i) /\ Loaded(i) = job[i]
         /\ ~Lost(i) => Loaded(i) = job[i]
         /\ Loaded(i).claimed = job[i].claimed
<1>1. job[i] \in Job
  BY DEF JobsTypeOK
<1> QED
  BY <1>1, Zenon DEF Loaded, Job

\* A job with a result is a finished job.
LEMMA FinishedTyped ==
  ASSUME NEW j \in Job, NEW ok \in BOOLEAN
  PROVE  LET f == [j EXCEPT !.state = "finished", !.ok = ok]
         IN  f \in Job /\ f.state = "finished" /\ f # NoJob
BY NoJobApart, Zenon DEF Job

\* No job has been launched.
LEMMA JobsInvInit == JobsInit => JobsInv
BY NoJobApart, LaunchBound DEF JobsInit, JobsInv, JobsTypeOK, WorkingOwns, SpawnedActive,
   LaunchAlone, NoLaunch, LockFree

\* Poll, Ages: what pages and time do to a job.
LEMMA PagesJobsInv ==
  ASSUME JobsInv, NEW i \in Ids, Poll(i) \/ Ages(i)
  PROVE  JobsInv'
<1> USE DEF JobsInv
<1>0. UNCHANGED <<active, launcher, worker, launches>> /\ job[i] # NoJob /\ job[i] \in Job
  BY DEF Poll, Ages, JobsTypeOK
<1>1. /\ job' \in [Ids -> Job \cup {NoJob}] /\ input' \subseteq Ids
      /\ \A k \in Ids : k # i => job'[k] = job[k]
      /\ job'[i] # NoJob
      /\ job'[i].state = "running" => job[i].state = "running"
      /\ job'[i].claimed = job[i].claimed
      /\ Runs(i) /\ ~Lost(i) => job'[i].state = "running"
      /\ ~LockFree => job'[i].state = job[i].state
  <2>1. CASE Poll(i)
    <3>1. LockFree /\ job' = [job EXCEPT ![i] = Loaded(i)] /\ input' \subseteq input
      BY <2>1 DEF Poll, InputAfterLoad
    <3> QED
      BY <1>0, <3>1, LoadedFacts, NoJobApart DEF JobsTypeOK, Runs
  <2>2. CASE Ages(i)
    BY <1>0, <2>2, NoJobApart, Zenon DEF Ages, JobsTypeOK, Job, Runs
  <2> QED
    BY <2>1, <2>2
<1>2. JobsTypeOK'
  BY <1>0, <1>1 DEF JobsTypeOK
<1>3. WorkingOwns'
  BY <1>0, <1>1 DEF WorkingOwns, Runs, Lost, JobAlive
<1>4. SpawnedActive'
  BY <1>0, <1>1 DEF SpawnedActive, Waits, Runs
<1>5. LaunchAlone'
  BY <1>0, <1>1 DEF LaunchAlone, Waits, Runs, LockFree
<1> QED
  BY <1>2, <1>3, <1>4, <1>5

\* StartNew: a launch begins only when nobody works.
LEMMA StartJobsInv ==
  ASSUME JobsInv, NEW i \in Ids, StartNew(i)
  PROVE  JobsInv'
<1> USE DEF JobsInv
<1>1. PICK kept \in SUBSET Recorded :
        LET loaded == IF active # NoJob /\ job[active] # NoJob
                      THEN [job EXCEPT ![active] = Loaded(active)] ELSE job
        IN  job' = [j \in Ids |-> IF j \in kept THEN loaded[j] ELSE NoJob]
  BY Zenon DEF StartNew
<1>2. /\ LockFree /\ job[i] = NoJob /\ worker[i].pc = "none" /\ ~JobBusy
      /\ launcher' = [pc |-> "input", id |-> i] /\ UNCHANGED <<active, worker>>
      /\ launches' = launches + 1 /\ launches < MaxLaunches /\ input' \subseteq Ids
  BY DEF StartNew, FreshId, JobAlive, JobsTypeOK, InputAfterLoad
<1>3. /\ job' \in [Ids -> Job \cup {NoJob}] /\ job'[i] = NoJob
      /\ \A k \in Ids : job'[k] # NoJob =>
           /\ job[k] # NoJob /\ (k = active => job'[k].state # "running" \/ JobBusy)
           /\ k # active => job'[k] = job[k]
  <2>1. i \notin kept /\ kept \subseteq Ids /\ \A k \in kept : job[k] # NoJob
    BY <1>2 DEF Recorded
  <2>2. CASE active # NoJob /\ job[active] # NoJob
    <3>1. active \in Ids /\ Loaded(active) \in Job /\ (Loaded(active).state = "running" => JobBusy)
      BY <2>2, LoadedFacts DEF JobsTypeOK, JobBusy
    <3> QED
      BY <1>1, <2>1, <2>2, <3>1, NoJobApart DEF JobsTypeOK
  <2>3. CASE ~(active # NoJob /\ job[active] # NoJob)
    BY <1>1, <2>1, <2>3, NoJobApart DEF JobsTypeOK
  <2> QED
    BY <2>2, <2>3
<1>4. \A k \in Ids : worker[k].pc # "working"
  <2> SUFFICES ASSUME NEW k \in Ids, worker[k].pc = "working" PROVE FALSE
    OBVIOUS
  <2>1. active = k /\ Runs(k) /\ job[k].claimed
    BY DEF WorkingOwns
  <2>2. ~Lost(k)
    BY <2>1 DEF Lost, JobAlive
  <2> QED
    BY <1>2, <2>1, <2>2, NoJobApart DEF JobBusy, Loaded, Runs
<1>5. \A k \in Ids : worker[k].pc = "spawned" => ~Waits(k)'
  <2> SUFFICES ASSUME NEW k \in Ids, worker[k].pc = "spawned", Waits(k)' PROVE FALSE
    OBVIOUS
  <2>1. job'[k] # NoJob /\ job'[k].state = "running" /\ ~job'[k].claimed
    BY DEF Waits, Runs
  <2>2. k # active /\ Waits(k)
    BY <1>2, <1>3, <2>1 DEF Waits, Runs
  <2> QED
    BY <2>2 DEF SpawnedActive
<1>6. JobsTypeOK'
  BY <1>2, <1>3, LaunchBound DEF JobsTypeOK
<1>7. WorkingOwns' /\ SpawnedActive' /\ LaunchAlone'
  BY <1>2, <1>3, <1>4, <1>5 DEF WorkingOwns, SpawnedActive, LaunchAlone, LockFree
<1> QED
  BY <1>6, <1>7

\* The steps of a launch, its failure and its death.
LEMMA LaunchJobsInv ==
  ASSUME JobsInv, LaunchStep \/ LaunchFails \/ LauncherDies
  PROVE  JobsInv'
<1> DEFINE i == launcher.id
<1> USE DEF JobsInv
<1>0. /\ i \in Ids /\ worker[i].pc = "none" /\ ~LockFree
      /\ \A k \in Ids : worker[k].pc # "working" /\ (worker[k].pc = "spawned" => ~Waits(k))
  BY DEF LaunchStep, LaunchFails, LauncherDies, LaunchAlone, LockFree
<1>1. NoLaunch \in [pc : {"free", "input", "job", "active", "spawn"}, id : Ids \cup {NoJob}]
      /\ NoLaunch.pc = "free" /\ Queued \in Job /\ Queued # NoJob
      /\ Queued.state = "running" /\ ~Queued.claimed
  <2>1. NoLaunch \in [pc : {"free", "input", "job", "active", "spawn"}, id : Ids \cup {NoJob}]
        /\ NoLaunch.pc = "free"
    BY DEF NoLaunch
  <2>2. Queued \in Job /\ Queued.state = "running" /\ ~Queued.claimed
    BY DEF Queued, Job
  <2> QED
    BY <2>1, <2>2, NoJobApart
<1>2. CASE LaunchFails \/ LauncherDies
  <2>1. /\ launcher' = NoLaunch /\ UNCHANGED <<active, worker, launches>> /\ input' \subseteq Ids
        /\ job' \in [Ids -> Job \cup {NoJob}]
        /\ \A k \in Ids : job'[k] # job[k] =>
             job[k] # NoJob /\ job'[k] # NoJob /\ job'[k].state = "finished"
    <3>1. CASE job[i] = NoJob
      BY <1>0, <1>2, <3>1 DEF LaunchFails, LauncherDies, JobsTypeOK
    <3>2. CASE job[i] # NoJob
      <4> DEFINE failed == [job[i] EXCEPT !.state = "finished", !.ok = FALSE]
      <4>1. failed \in Job /\ failed.state = "finished" /\ failed # NoJob
        <5>1. job[i] \in Job
          BY <1>0, <3>2 DEF JobsTypeOK
        <5> QED
          BY <5>1, FinishedTyped, Zenon
      <4>2. \/ job' = [job EXCEPT ![i] = IF job[i] = NoJob THEN NoJob ELSE failed]
            \/ job' = job
        BY <1>2, Zenon DEF LaunchFails, LauncherDies
      <4> HIDE DEF failed
      <4>3. /\ launcher' = NoLaunch /\ UNCHANGED <<active, worker, launches>> /\ input' \subseteq Ids
        BY <1>2 DEF LaunchFails, LauncherDies, JobsTypeOK
      <4> QED
        BY <1>0, <3>2, <4>1, <4>2, <4>3 DEF JobsTypeOK
    <3> QED
      BY <3>1, <3>2
  <2>2. JobsTypeOK'
    BY <1>1, <2>1 DEF JobsTypeOK
  <2> QED
    BY <1>0, <1>1, <2>1, <2>2 DEF WorkingOwns, SpawnedActive, LaunchAlone, LockFree, Waits, Runs
<1>3. CASE LaunchStep
  <2>0. UNCHANGED launches
    BY <1>3 DEF LaunchStep
  <2>1. CASE launcher.pc = "input"
    <3>1. /\ launcher' = [pc |-> "job", id |-> i] /\ input' = input \cup {i}
          /\ UNCHANGED <<job, active, worker>>
      BY <1>3, <2>1 DEF LaunchStep
    <3> QED
      BY <1>0, <2>0, <2>1, <3>1
      DEF JobsTypeOK, WorkingOwns, SpawnedActive, LaunchAlone, LockFree, Waits, Runs
  <2>2. CASE launcher.pc = "job"
    <3>1. /\ launcher' = [pc |-> "active", id |-> i] /\ job' = [job EXCEPT ![i] = Queued]
          /\ UNCHANGED <<input, active, worker>>
      BY <1>3, <2>2 DEF LaunchStep
    <3>2. /\ job' \in [Ids -> Job \cup {NoJob}] /\ job'[i] = Queued
          /\ \A k \in Ids : k # i => job'[k] = job[k]
      BY <1>0, <1>1, <3>1 DEF JobsTypeOK
    <3> QED
      BY <1>0, <1>1, <2>0, <2>2, <3>1, <3>2
      DEF JobsTypeOK, WorkingOwns, SpawnedActive, LaunchAlone, LockFree, Waits, Runs
  <2>3. CASE launcher.pc = "active"
    <3>1. /\ launcher' = [pc |-> "spawn", id |-> i] /\ active' = i
          /\ UNCHANGED <<job, input, worker>>
      BY <1>3, <2>3 DEF LaunchStep
    <3> QED
      BY <1>0, <2>0, <2>3, <3>1
      DEF JobsTypeOK, WorkingOwns, SpawnedActive, LaunchAlone, LockFree, Waits, Runs
  <2>4. CASE launcher.pc = "spawn"
    <3>1. /\ launcher' = NoLaunch /\ WorkerBecomes(i, "spawned", NoJob)
          /\ UNCHANGED <<job, input, active>> /\ active = i
      BY <1>0, <1>3, <2>4 DEF LaunchStep, LaunchAlone
    <3>2. /\ worker' \in [Ids -> [pc : {"none", "spawned", "working"}, copy : Job \cup {NoJob}]]
          /\ worker'[i].pc = "spawned" /\ \A k \in Ids : k # i => worker'[k] = worker[k]
      BY <1>0, <3>1, WorkerMoves
    <3> QED
      BY <1>0, <1>1, <2>0, <2>4, <3>1, <3>2
      DEF JobsTypeOK, WorkingOwns, SpawnedActive, LaunchAlone, LockFree, Waits, Runs
  <2> QED
    BY <1>0, <2>1, <2>2, <2>3, <2>4 DEF JobsTypeOK, LockFree
<1> QED
  BY <1>2, <1>3

\* The steps of the worker of i.
WorkerStepOf(i) ==
  Claim(i) \/ ReadProgress(i) \/ WriteProgress(i) \/ WorkerDies(i) \/ \E ok \in BOOLEAN : Finish(i, ok)

\* The steps of a worker: its claim, its reports and its end.
LEMMA WorkerJobsInv ==
  ASSUME JobsInv, NEW i \in Ids, WorkerStepOf(i)
  PROVE  JobsInv'
<1> USE DEF JobsInv
<1>0. UNCHANGED <<active, launcher, launches>>
  BY Zenon DEF WorkerStepOf, Claim, ReadProgress, WriteProgress, WorkerDies, Finish
<1>1. PICK pc \in {"none", "working"}, copy \in Job \cup {NoJob} :
        /\ WorkerBecomes(i, pc, copy)
        /\ pc = "working" =>
             /\ worker[i].pc = "working" \/ (worker[i].pc = "spawned" /\ Waits(i) /\ LockFree)
             /\ job'[i] # NoJob /\ job'[i].state = "running" /\ job'[i].claimed
             /\ copy # NoJob => copy.state = "running" /\ copy.claimed
  <2>1. CASE Claim(i)
    <3>1. CASE job[i] # NoJob /\ Loaded(i).state = "running" /\ ~job[i].claimed
      <4>1. /\ job[i] \in Job /\ Loaded(i) = job[i] /\ job' = [job EXCEPT ![i].claimed = TRUE]
            /\ worker[i].pc = "spawned" /\ LockFree /\ WorkerBecomes(i, "working", NoJob)
        BY <2>1, <3>1, LoadedFacts DEF Claim, JobsTypeOK
      <4>2. Waits(i) /\ job'[i] # NoJob /\ job'[i].state = "running" /\ job'[i].claimed
        BY <3>1, <4>1, NoJobApart, Zenon DEF Waits, Runs, JobsTypeOK, Job
      <4> QED
        BY <4>1, <4>2
    <3>2. CASE ~(job[i] # NoJob /\ Loaded(i).state = "running" /\ ~job[i].claimed)
      BY <2>1, <3>2 DEF Claim
    <3> QED
      BY <3>1, <3>2
  <2>2. CASE ReadProgress(i)
    BY <2>2 DEF ReadProgress, WorkingOwns, Runs, JobsTypeOK
  <2>3. CASE WriteProgress(i)
    <3> DEFINE copied == [worker[i].copy EXCEPT !.aged = job[i] # NoJob /\ job[i].aged]
    <3>1. /\ WorkerBecomes(i, "working", NoJob) /\ worker[i].pc = "working"
          /\ worker[i].copy \in Job /\ worker[i].copy.state = "running" /\ worker[i].copy.claimed
          /\ job[i] \in Job /\ job' = [job EXCEPT ![i] = copied]
      BY <2>3 DEF WriteProgress, WorkingOwns, Runs, JobsTypeOK
    <3>2. copied \in Job /\ copied.state = "running" /\ copied.claimed
      BY <3>1, Zenon DEF Job
    <3> HIDE DEF copied
    <3> QED
      BY <3>1, <3>2, NoJobApart DEF JobsTypeOK
  <2>4. CASE WorkerDies(i) \/ \E ok \in BOOLEAN : Finish(i, ok)
    BY <2>4, Zenon DEF WorkerDies, Finish
  <2> QED
    BY <2>1, <2>2, <2>3, <2>4 DEF WorkerStepOf
<1>2. /\ worker' \in [Ids -> [pc : {"none", "spawned", "working"}, copy : Job \cup {NoJob}]]
      /\ worker'[i].pc = pc /\ worker'[i].copy = copy
      /\ \A k \in Ids : k # i => worker'[k] = worker[k]
  BY <1>1, WorkerMoves
<1>3. job' \in [Ids -> Job \cup {NoJob}] /\ \A k \in Ids : k # i => job'[k] = job[k]
  <2>0. job[i] \in Job \cup {NoJob} /\ worker[i].copy \in Job \cup {NoJob}
    BY DEF JobsTypeOK
  <2>1. \E j \in Job \cup {NoJob} : job' = [job EXCEPT ![i] = j]
    <3>1. CASE Claim(i)
      <4>1. CASE job[i] # NoJob
        <5>1. job' = [job EXCEPT ![i].claimed = TRUE] \/ job' = [job EXCEPT ![i] = Loaded(i)]
          BY <3>1, <4>1 DEF Claim, JobsTypeOK
        <5>2. Loaded(i) \in Job /\ [job[i] EXCEPT !.claimed = TRUE] \in Job
          BY <2>0, <4>1, LoadedFacts, Zenon DEF Job
        <5> QED
          BY <5>1, <5>2, Zenon DEF JobsTypeOK
      <4>2. CASE job[i] = NoJob
        BY <3>1, <4>2 DEF Claim, JobsTypeOK
      <4> QED
        BY <4>1, <4>2
    <3>2. CASE WriteProgress(i)
      <4>1. [worker[i].copy EXCEPT !.aged = job[i] # NoJob /\ job[i].aged] \in Job
        BY <2>0, <3>2 DEF WriteProgress, Job, WorkingOwns, Runs
      <4> QED
        BY <3>2, <4>1, Zenon DEF WriteProgress
    <3>3. ASSUME NEW ok \in BOOLEAN, Finish(i, ok) PROVE \E j \in Job \cup {NoJob} : job' = [job EXCEPT ![i] = j]
      <4>1. job[i] \in Job /\ [job[i] EXCEPT !.state = "finished", !.ok = ok] \in Job
        BY <2>0, <3>3, Zenon DEF Finish, Job, WorkingOwns, Runs
      <4> QED
        BY <3>3, <4>1, NoJobApart, Zenon DEF Finish, JobsTypeOK
    <3>4. CASE ReadProgress(i) \/ WorkerDies(i)
      <4>1. job' = [job EXCEPT ![i] = job[i]]
        BY <3>4 DEF ReadProgress, WorkerDies, JobsTypeOK
      <4> QED
        BY <2>0, <4>1, Zenon
    <3> QED
      BY <3>1, <3>2, <3>3, <3>4 DEF WorkerStepOf
  <2> QED
    BY <2>1 DEF JobsTypeOK
<1>8. input' \subseteq Ids
  BY Zenon DEF WorkerStepOf, Claim, ReadProgress, WriteProgress, WorkerDies, Finish, JobsTypeOK,
      InputAfterLoad
<1>9. worker[i].pc # "none"
  BY Zenon DEF WorkerStepOf, Claim, ReadProgress, WriteProgress, WorkerDies, Finish, JobAlive
<1>4. \A k \in Ids : k # i /\ pc = "working" => worker[k].pc # "working" /\ active = i
  BY <1>1 DEF WorkingOwns, SpawnedActive
<1>5. JobsTypeOK'
  BY <1>0, <1>2, <1>3, <1>8 DEF JobsTypeOK
<1>6. WorkingOwns' /\ SpawnedActive'
  BY <1>0, <1>1, <1>2, <1>3, <1>4 DEF WorkingOwns, SpawnedActive, Waits, Runs
<1>7. LaunchAlone'
  BY <1>0, <1>1, <1>2, <1>3, <1>9 DEF LaunchAlone, Waits, Runs, LockFree
<1> QED
  BY <1>5, <1>6, <1>7

\* Every step of launches, pages and workers keeps the invariant.
LEMMA JobsInvStep == JobsInv /\ [JobsNext]_jobVars => JobsInv'
<1> SUFFICES ASSUME JobsInv, [JobsNext]_jobVars PROVE JobsInv'
  OBVIOUS
<1>1. CASE LaunchStep \/ LaunchFails \/ LauncherDies
  BY <1>1, LaunchJobsInv, Zenon
<1>2. ASSUME NEW i \in Ids, Poll(i) \/ Ages(i) PROVE JobsInv'
  BY <1>2, PagesJobsInv, Zenon
<1>3. ASSUME NEW i \in Ids, StartNew(i) PROVE JobsInv'
  BY <1>3, StartJobsInv, Zenon
<1>4. ASSUME NEW i \in Ids, WorkerStepOf(i) PROVE JobsInv'
  BY <1>4, WorkerJobsInv, Zenon
<1>5. CASE UNCHANGED jobVars
  BY <1>5 DEF jobVars, JobsInv, JobsTypeOK, WorkingOwns, SpawnedActive, LaunchAlone, LockFree,
     Waits, Runs
<1> QED
  BY <1>1, <1>2, <1>3, <1>4, <1>5, Zenon DEF JobsNext, WorkerStepOf

\* The invariant of the subscription jobs.
LEMMA JobsInvAlways == JobsSpec => []JobsInv
BY JobsInvInit, JobsInvStep, PTL DEF JobsSpec

\* OneWorker: two workers never download or restart the daemon at the same time,
\* although a worker may start as late as it likes, the history of jobs is trimmed
\* and launcher and workers may die between any two files.
THEOREM SingleWorker == JobsSpec => []OneWorker
<1>1. JobsInv => OneWorker
  BY DEF JobsInv, WorkingOwns, OneWorker
<1> QED
  BY <1>1, JobsInvAlways, PTL

\* ResultIsFinal: a job that a page was told is finished neither runs again nor
\* changes its result while its file is there.  progress() writes without the lock,
\* but only from a worker whose job is running.
THEOREM FinalResult == JobsSpec => ResultIsFinal
<1> DEFINE Kept(i) == job[i] # NoJob /\ job[i].state = "finished" /\ job'[i] # NoJob
                       => job'[i].state = "finished" /\ job'[i].ok = job[i].ok
<1>1. ASSUME JobsInv, [JobsNext]_jobVars, NEW i \in Ids PROVE Kept(i)
  <2> SUFFICES ASSUME job[i] # NoJob, job[i].state = "finished", job'[i] # NoJob,
                      ~(job'[i].state = "finished" /\ job'[i].ok = job[i].ok)
               PROVE  FALSE
    BY Zenon
  <2>0. job[i] \in Job /\ ~Lost(i) /\ Loaded(i) = job[i] /\ ~Runs(i)
    BY <1>1, Zenon DEF JobsInv, JobsTypeOK, Lost, Loaded, Runs
  <2>1. CASE LaunchStep
    BY <1>1, <2>1 DEF LaunchStep, JobsInv, JobsTypeOK, LaunchAlone, LockFree
  <2>2. CASE LaunchFails
    <3>1. launcher.id # i
      BY <1>1, <2>0, <2>2 DEF LaunchFails, JobsInv, JobsTypeOK, LaunchAlone, LockFree, Waits
    <3> QED
      BY <1>1, <2>2, <3>1 DEF LaunchFails, JobsInv, JobsTypeOK
  <2>3. ASSUME NEW k \in Ids, Poll(k) \/ Claim(k) PROVE FALSE
    <3>1. k # i
      BY <1>1, <2>0, <2>3 DEF Poll, Claim, JobsInv, JobsTypeOK
    <3> QED
      BY <1>1, <2>3, <3>1 DEF Poll, Claim, JobsInv, JobsTypeOK
  <2>4. ASSUME NEW k \in Ids, StartNew(k) PROVE FALSE
    <3>1. PICK kept \in SUBSET Recorded :
            LET loaded == IF active # NoJob /\ job[active] # NoJob
                          THEN [job EXCEPT ![active] = Loaded(active)] ELSE job
            IN  job' = [j \in Ids |-> IF j \in kept THEN loaded[j] ELSE NoJob]
      BY <2>4, Zenon DEF StartNew
    <3> QED
      BY <1>1, <2>0, <3>1 DEF JobsInv, JobsTypeOK
  <2>5. ASSUME NEW k \in Ids, NEW ok \in BOOLEAN, WriteProgress(k) \/ Finish(k, ok) PROVE FALSE
    <3>1. k # i
      BY <1>1, <2>0, <2>5 DEF WriteProgress, Finish, JobsInv, WorkingOwns
    <3> QED
      BY <1>1, <2>5, <3>1 DEF WriteProgress, Finish, JobsInv, JobsTypeOK
  <2>6. CASE \E k \in Ids : Ages(k)
    BY <1>1, <2>6 DEF Ages, JobsInv, JobsTypeOK, Job
  <2>7. CASE LauncherDies \/ (\E k \in Ids : ReadProgress(k) \/ WorkerDies(k)) \/ UNCHANGED jobVars
    BY <2>7 DEF LauncherDies, ReadProgress, WorkerDies, jobVars
  <2> QED
    BY <1>1, <2>1, <2>2, <2>3, <2>4, <2>5, <2>6, <2>7, Zenon DEF JobsNext
<1>2. JobsInv /\ [JobsNext]_jobVars
        => [\A i \in Ids : Kept(i)]_jobVars
  BY <1>1
<1> QED
  BY <1>2, JobsInvAlways, PTL DEF JobsSpec, ResultIsFinal

-----------------------------------------------------------------------------
(* Speed tests.                                                            *)

StarterStates == [pc : {"free", "input", "state", "spawn", "pid"}, request : TestIds \cup {NoTest}]
TesterStates == [pc : {"none", "spawned", "probing"}, copy : Batch \cup {NoTest}]

\* The launch in progress is that of the newest id, which has no worker before the
\* spawn; an id that was not given out has none either.
NewestLaunches ==
  /\ ~TestLockFree => starter.request \in TestIds /\ batches \in Batches
  /\ starter.pc \in {"input", "state", "spawn"} => tester[batches].pc = "none"
  /\ \A b \in Batches : b > batches => tester[b].pc = "none"
  /\ batch # NoTest => batch.id <= batches

\* What a worker writes over state.json carries its own id.
OwnCopy ==
  \A b \in Batches : tester[b].pc = "probing" =>
    tester[b].copy # NoTest /\ tester[b].copy.id = b /\ tester[b].copy.state = "running"

\* A worker that has not fetched its input finds its batch unfinished, if it finds it.
SpawnedRuns ==
  /\ starter.pc = "spawn" => batch # NoTest /\ (batch.id = batches => batch.state = "running")
  /\ \A b \in Batches : tester[b].pc = "spawned" =>
       batch # NoTest /\ (batch.id = b => batch.state = "running")

\* As long as every worker's pid was recorded before it began, running() sees the
\* one that probes, and no launch is under way.
ProbeSeen ==
  ~hidden => \A b \in Batches : tester[b].pc = "probing" =>
    /\ batch # NoTest /\ batch.id = b /\ batch.pid /\ batch.state = "running"
    /\ tester[b].copy.pid /\ TestLockFree

TestInv == TestTypeOK /\ NewestLaunches /\ OwnCopy /\ SpawnedRuns /\ ProbeSeen

\* No batch has been launched.
LEMMA TestInvInit == TestInit => TestInv
<1> SUFFICES ASSUME TestInit PROVE TestInv
  OBVIOUS
<1>1. NoStart \in StarterStates /\ NoStart.pc = "free"
  BY DEF NoStart, StarterStates
<1>2. TestTypeOK
  <2>1. [pc |-> "none", copy |-> NoTest] \in TesterStates
    BY DEF TesterStates
  <2>2. tester \in [Batches -> TesterStates]
    BY <2>1 DEF TestInit
  <2>3. batch \in Batch \cup {NoTest} /\ hidden \in BOOLEAN /\ starter \in StarterStates
    BY <1>1, Zenon DEF TestInit
  <2>4. nodes \in 0 .. MaxBatches /\ batches \in 0 .. MaxBatches
    BY TestBounds DEF TestInit
  <2> QED
    BY <2>2, <2>3, <2>4, Zenon DEF TestTypeOK, StarterStates, TesterStates
<1>3. \A b \in Batches : tester[b].pc = "none"
  BY DEF TestInit
<1> QED
  BY <1>1, <1>2, <1>3 DEF TestInit, TestInv, NewestLaunches, OwnCopy, SpawnedRuns, ProbeSeen,
      TestLockFree

\* What a step of the worker of b changes in the table of workers.
LEMMA TesterMoves ==
  ASSUME tester \in [Batches -> TesterStates], NEW b \in Batches,
         NEW pc \in {"none", "spawned", "probing"}, NEW copy \in Batch \cup {NoTest},
         TesterBecomes(b, pc, copy)
  PROVE  /\ tester' \in [Batches -> TesterStates]
         /\ tester'[b].pc = pc /\ tester'[b].copy = copy
         /\ \A c \in Batches : c # b => tester'[c] = tester[c]
BY DEF TesterBecomes, TesterStates

\* What a launch has written so far.
LEMMA WrittenTyped ==
  ASSUME TestInv, ~TestLockFree, NEW pid \in BOOLEAN
  PROVE  /\ Written(pid) \in Batch /\ Written(pid) # NoTest /\ Written(pid).id = batches
         /\ Written(pid).state = "running" /\ Written(pid).pid = pid
<1>1. batches \in Batches /\ starter.request \in TestIds /\ 0 \in 0 .. MaxProbes
  BY TestBounds DEF TestInv, NewestLaunches
<1> QED
  BY <1>1, NoTestApart DEF Written, Batch

\* A launch begins only when running() sees nobody.
LEMMA StartTestInv ==
  ASSUME TestInv, NEW r \in TestIds, StartTest(r)
  PROVE  TestInv'
<1> USE DEF TestInv
<1>0. /\ starter' = [pc |-> "input", request |-> r] /\ batches' = batches + 1
      /\ UNCHANGED <<batch, nodes, tester, hidden>> /\ TestLockFree /\ ~Running
      /\ batches \in 0 .. MaxBatches /\ batches' \in Batches
  BY TestBounds DEF StartTest, TestTypeOK, Batches
<1>1. starter' \in StarterStates /\ starter'.pc = "input" /\ starter'.request = r
  BY <1>0 DEF StarterStates
<1>2. TestTypeOK'
  BY <1>0, <1>1, TestBounds DEF TestTypeOK, StarterStates, Batches
<1>3. ~hidden => \A b \in Batches : tester[b].pc # "probing"
  BY <1>0 DEF ProbeSeen, Running
<1>4. NewestLaunches'
  <2>1. batch # NoTest => batch.id \in Batches
    BY DEF TestTypeOK, Batch
  <2> QED
    BY <1>0, <1>1, <2>1, TestBounds DEF NewestLaunches, Batches, TestLockFree
<1>5. OwnCopy' /\ SpawnedRuns'
  BY <1>0, <1>1 DEF OwnCopy, SpawnedRuns
<1>6. ProbeSeen'
  BY <1>0, <1>3 DEF ProbeSeen
<1> QED
  BY <1>2, <1>4, <1>5, <1>6

\* The steps of a launch and its end.
LEMMA StarterTestInv ==
  ASSUME TestInv, WriteInput \/ WriteState \/ SpawnTester \/ WritePid \/ LaunchEnds
  PROVE  TestInv'
<1> USE DEF TestInv
<1>0. /\ ~TestLockFree /\ UNCHANGED <<batches, hidden>>
      /\ batches \in Batches /\ batches \in Nat /\ nodes' \in 0 .. MaxBatches
      /\ ~hidden => \A b \in Batches : tester[b].pc # "probing"
  <2>1. ~TestLockFree /\ UNCHANGED <<batches, hidden>> /\ nodes' \in {nodes, batches}
    BY Zenon DEF WriteInput, WriteState, SpawnTester, WritePid, LaunchEnds, LauncherAt,
        TestLockFree
  <2>2. batches \in Batches
    BY <2>1, Zenon DEF NewestLaunches
  <2> QED
    BY <2>1, <2>2, TestBounds DEF ProbeSeen, Batches, TestTypeOK
<1>1. /\ starter' \in StarterStates /\ (starter'.pc # "free" => starter'.request \in TestIds)
      /\ NoStart.pc = "free"
      /\ WriteInput => starter'.pc = "state"
      /\ WriteState => starter'.pc = "spawn"
      /\ SpawnTester => starter'.pc = "pid"
      /\ WritePid \/ LaunchEnds => starter'.pc = "free"
  <2>1. starter \in StarterStates /\ starter.request \in TestIds
    BY <1>0 DEF TestTypeOK, StarterStates, NewestLaunches
  <2>2. NoStart \in StarterStates /\ NoStart.pc = "free"
    BY DEF NoStart, StarterStates
  <2>3. \A next \in {"state", "spawn", "pid"} :
          LET t == [starter EXCEPT !.pc = next]
          IN  t \in StarterStates /\ t.pc = next /\ t.request \in TestIds
    BY <2>1 DEF StarterStates
  <2>4. WriteInput => starter' = [starter EXCEPT !.pc = "state"]
    BY DEF WriteInput, LauncherAt
  <2>5. WriteState => starter' = [starter EXCEPT !.pc = "spawn"]
    BY DEF WriteState, LauncherAt
  <2>6. SpawnTester => starter' = [starter EXCEPT !.pc = "pid"]
    BY DEF SpawnTester, LauncherAt
  <2>7. WritePid \/ LaunchEnds => starter' = NoStart
    BY Zenon DEF WritePid, LaunchEnds, LauncherAt
  <2> QED
    BY <2>2, <2>3, <2>4, <2>5, <2>6, <2>7, Zenon
<1>2. CASE WriteInput \/ LaunchEnds
  <2>1. UNCHANGED <<batch, tester>> /\ (starter'.pc = "state" => starter.pc = "input")
    BY <1>1, <1>2 DEF WriteInput, LaunchEnds, LauncherAt
  <2>2. TestTypeOK'
    BY <1>0, <1>1, <2>1 DEF TestTypeOK, StarterStates
  <2> QED
    BY <1>0, <1>1, <1>2, <2>1, <2>2 DEF NewestLaunches, OwnCopy, SpawnedRuns, ProbeSeen,
        TestLockFree
<1>3. CASE WriteState \/ WritePid
  <2>1. PICK pid \in BOOLEAN : batch' = Written(pid) /\ UNCHANGED <<nodes, tester>>
    BY <1>3, Zenon DEF WriteState, WritePid
  <2>2. /\ batch' \in Batch /\ batch' # NoTest /\ batch'.id = batches /\ batch'.state = "running"
        /\ starter'.pc = "spawn" => starter.pc = "state"
    BY <1>0, <1>1, <1>3, <2>1, WrittenTyped, Zenon DEF WriteState, LauncherAt
  <2>3. TestTypeOK'
    BY <1>0, <1>1, <2>1, <2>2 DEF TestTypeOK, StarterStates
  <2> QED
    BY <1>0, <1>1, <1>3, <2>1, <2>2, <2>3
    DEF NewestLaunches, OwnCopy, SpawnedRuns, ProbeSeen, TestLockFree
<1>4. CASE SpawnTester
  <2>1. /\ TesterBecomes(batches, "spawned", NoTest) /\ UNCHANGED <<batch, nodes>>
        /\ starter.pc = "spawn"
    BY <1>4 DEF SpawnTester, LauncherAt
  <2>2. /\ tester' \in [Batches -> TesterStates] /\ tester'[batches].pc = "spawned"
        /\ \A c \in Batches : c # batches => tester'[c] = tester[c]
    <3>1. tester \in [Batches -> TesterStates]
      BY DEF TestTypeOK, TesterStates
    <3> QED
      BY <1>0, <2>1, <3>1, TesterMoves
  <2>3. TestTypeOK'
    BY <1>0, <1>1, <2>1, <2>2 DEF TestTypeOK, StarterStates, TesterStates
  <2> QED
    BY <1>0, <1>1, <1>4, <2>1, <2>2, <2>3
    DEF NewestLaunches, OwnCopy, SpawnedRuns, ProbeSeen, TestLockFree
<1> QED
  BY <1>2, <1>3, <1>4

\* The worker of b.
TesterStepOf(b) == FetchInput(b) \/ ProbeEnds(b) \/ TestEnds(b) \/ TesterDies(b)

\* The steps of the worker of a batch.
LEMMA TesterTestInv ==
  ASSUME TestInv, NEW b \in Batches, TesterStepOf(b)
  PROVE  TestInv'
<1> USE DEF TestInv
<1>0. /\ UNCHANGED <<starter, batches>> /\ nodes' \in {nodes, 0} /\ tester[b].pc # "none"
      /\ tester \in [Batches -> TesterStates] /\ tester[b].copy \in Batch \cup {NoTest}
      /\ batches \in Nat /\ b \in Nat /\ b <= batches
  <2>1. /\ UNCHANGED <<starter, batches>> /\ nodes' \in {nodes, 0} /\ tester[b].pc # "none"
    BY DEF TesterStepOf, FetchInput, ProbeEnds, TestEnds, TesterDies
  <2>2. tester \in [Batches -> TesterStates] /\ batches \in Nat /\ b \in Nat
    BY TestBounds DEF TestTypeOK, TesterStates, Batches
  <2> QED
    BY <2>1, <2>2 DEF TesterStates, NewestLaunches
<1>1. CASE FetchInput(b) /\ batch.id = b /\ nodes # 0
  <2>1. /\ tester[b].pc = "spawned" /\ TestLockFree /\ TesterBecomes(b, "probing", batch)
        /\ batch' = batch
    BY <1>1 DEF FetchInput
  <2>2. batch # NoTest /\ batch \in Batch /\ batch.state = "running"
    BY <1>1, <2>1 DEF SpawnedRuns, TestTypeOK
  <2>3. /\ tester' \in [Batches -> TesterStates]
        /\ tester'[b].pc = "probing" /\ tester'[b].copy = batch
        /\ \A c \in Batches : c # b => tester'[c] = tester[c]
    BY <1>0, <2>1, <2>2, TesterMoves
  <2>4. hidden' = (hidden \/ ~batch.pid)
    BY <1>1, <2>3 DEF FetchInput
  <2>5. TestTypeOK'
    BY <1>0, <2>1, <2>3, <2>4, TestBounds DEF TestTypeOK, TesterStates
  <2>6. ProbeSeen'
    BY <1>1, <2>1, <2>2, <2>3, <2>4, <1>0, Zenon DEF ProbeSeen, TestLockFree
  <2> QED
    BY <1>0, <1>1, <2>1, <2>2, <2>3, <2>5, <2>6 DEF NewestLaunches, OwnCopy, SpawnedRuns,
        TestLockFree
<1>2. CASE ProbeEnds(b)
  <2> DEFINE copy == [tester[b].copy EXCEPT !.completed = @ + 1]
  <2>1. /\ tester[b].pc = "probing" /\ tester[b].copy.completed < MaxProbes
        /\ TesterBecomes(b, "probing", copy) /\ batch' \in {batch, copy} /\ hidden' = hidden
    BY <1>2 DEF ProbeEnds
  <2>2. tester[b].copy \in Batch /\ tester[b].copy.id = b /\ tester[b].copy.state = "running"
    BY <1>0, <2>1 DEF OwnCopy
  <2>3. /\ copy \in Batch /\ copy # NoTest /\ copy.id = b /\ copy.state = "running"
        /\ copy.pid = tester[b].copy.pid
    BY <2>1, <2>2, NoTestApart, TestBounds DEF Batch
  <2> HIDE DEF copy
  <2>4. /\ tester' \in [Batches -> TesterStates]
        /\ tester'[b].pc = "probing" /\ tester'[b].copy = copy
        /\ \A c \in Batches : c # b => tester'[c] = tester[c]
    BY <1>0, <2>1, <2>3, TesterMoves
  <2>5. TestTypeOK'
    BY <1>0, <2>1, <2>3, <2>4, TestBounds DEF TestTypeOK, TesterStates
  <2>6. ProbeSeen'
    BY <1>0, <2>1, <2>3, <2>4 DEF ProbeSeen, TestLockFree
  <2>7. NewestLaunches'
    BY <1>0, <2>1, <2>3, <2>4 DEF NewestLaunches, TestLockFree
  <2>8. OwnCopy' /\ SpawnedRuns'
    BY <1>0, <2>1, <2>3, <2>4 DEF OwnCopy, SpawnedRuns, NewestLaunches
  <2> QED
    BY <2>5, <2>6, <2>7, <2>8
<1>3. CASE TestEnds(b) \/ TesterDies(b) \/ (FetchInput(b) /\ ~(batch.id = b /\ nodes # 0))
  <2>1. /\ TesterBecomes(b, "none", NoTest) /\ hidden \in BOOLEAN
        /\ batch' = batch \/ (tester[b].pc = "probing" /\ batch' = [tester[b].copy EXCEPT !.state = "finished"])
    BY <1>3 DEF TestEnds, TesterDies, FetchInput, TestTypeOK
  <2>2. /\ tester' \in [Batches -> TesterStates] /\ tester'[b].pc = "none"
        /\ \A c \in Batches : c # b => tester'[c] = tester[c]
    BY <1>0, <2>1, TesterMoves
  <2>3. batch' = batch \/ (batch' \in Batch /\ batch' # NoTest /\ batch'.id = b /\ tester[b].pc = "probing")
    <3>1. tester[b].pc = "probing" => tester[b].copy \in Batch /\ tester[b].copy.id = b
      BY <1>0 DEF OwnCopy
    <3>2. ASSUME NEW c \in Batch, c.id = b
          PROVE  LET f == [c EXCEPT !.state = "finished"] IN f \in Batch /\ f # NoTest /\ f.id = b
      BY <3>2, NoTestApart DEF Batch
    <3> QED
      BY <2>1, <3>1, <3>2, Zenon
  <2>4. hidden' = hidden
    BY <1>3, <2>2 DEF TestEnds, TesterDies, FetchInput, TestTypeOK
  <2>5. TestTypeOK'
    BY <1>0, <2>2, <2>3, <2>4, TestBounds DEF TestTypeOK, TesterStates
  <2>6. ProbeSeen'
    BY <1>0, <2>2, <2>3, <2>4 DEF ProbeSeen, TestLockFree
  <2>7. NewestLaunches'
    BY <1>0, <2>2, <2>3 DEF NewestLaunches, TestLockFree
  <2>8. OwnCopy' /\ SpawnedRuns'
    BY <1>0, <2>2, <2>3 DEF OwnCopy, SpawnedRuns, NewestLaunches
  <2> QED
    BY <2>5, <2>6, <2>7, <2>8
<1> QED
  BY <1>1, <1>2, <1>3 DEF TesterStepOf

\* Every step of launches and workers keeps the invariant.
LEMMA TestInvStep == TestInv /\ [TestNext]_testVars => TestInv'
<1> SUFFICES ASSUME TestInv, [TestNext]_testVars PROVE TestInv'
  OBVIOUS
<1>1. ASSUME NEW r \in TestIds, StartTest(r) PROVE TestInv'
  BY <1>1, StartTestInv, Zenon
<1>2. CASE WriteInput \/ WriteState \/ SpawnTester \/ WritePid \/ LaunchEnds
  BY <1>2, StarterTestInv, Zenon
<1>3. ASSUME NEW b \in Batches, TesterStepOf(b) PROVE TestInv'
  BY <1>3, TesterTestInv, Zenon
<1>4. CASE UNCHANGED testVars
  BY <1>4 DEF testVars, TestInv, TestTypeOK, NewestLaunches, OwnCopy, SpawnedRuns, ProbeSeen,
      TestLockFree
<1> QED
  BY <1>1, <1>2, <1>3, <1>4, Zenon DEF TestNext, TesterStepOf

\* OneBatch: two speed tests probe at the same time only after a launch that ended
\* between the spawn of its worker and the record of its pid.  In every other
\* behaviour running() sees the batch at work, whoever dies and however late a
\* worker fetches its input.
THEOREM SingleBatch == TestSpec => []OneBatch
<1>1. TestInv => OneBatch
  BY DEF TestInv, ProbeSeen, OneBatch
<1> QED
  BY <1>1, TestInvInit, TestInvStep, PTL DEF TestSpec

-----------------------------------------------------------------------------
(***************************************************************************)
(* The configuration reload.  "applied" is truthful because three facts    *)
(* hold at once: the watcher's hash is the newest text it has handed over  *)
(* (texts that do not parse excepted), a file whose modification time has  *)
(* been seen has been checked against that hash, and the phase is one of   *)
(* the published ones only for the revision last taken from the channel.   *)
(* The file is edited only once the daemon is up: see README.              *)
(***************************************************************************)
PublishedPhase ==
  status.phase \in {"applied", "restart_required", "policy_pending", "policy_failed"}

Underway == events # <<>> \/ handling # <<>>
Newest == IF events # <<>> THEN events[Len(events)] ELSE handling[1]

Phases == {"applied", "validating", "rejected", "restart_required", "policy_pending",
           "policy_failed"}
Statuses == [observed : Nat, runtime : Nat, phase : Phases, restart : BOOLEAN]

ConfigShape ==
  /\ edits \in Nat /\ seen \in Nat
  /\ file \in [text : Texts \cup {"none"}, mtime : Nat] /\ running \in Texts
  /\ events \in Seq(Texts)
  /\ handling # <<>> => handling = <<handling[1]>> /\ handling[1] \in Texts
  /\ status \in Statuses

\* A modification time is used once, so one that was seen names one text.
TimesGrow ==
  /\ file.mtime <= edits + 1 /\ seen <= edits + 1
  /\ (file.text = "none") <=> (file.mtime = 0)

\* Before the watcher is up nothing is under way.
StartingUp ==
  phase # "up" => /\ events = <<>> /\ handling = <<>> /\ stage = "asleep"
                  /\ file.text = running
                  /\ phase = "task" => hash = running

StatusInOrder ==
  /\ status.runtime <= status.observed
  /\ (status.runtime = status.observed) <=> PublishedPhase
  /\ handling # <<>> => ~PublishedPhase
  /\ policies \subseteq 0..status.runtime

HashIsNewest ==
  phase = "up" =>
    /\ Underway /\ Kind[Newest] # "bad" => Newest = hash
    /\ ~Underway /\ PublishedPhase => hash = running

\* The newest text handed over does not parse, and will be or was rejected.
LastIsBad ==
  /\ Kind[file.text] = "bad"
  /\ Underway => Kind[Newest] = "bad"
  /\ ~Underway => ~PublishedPhase

SeenIsChecked ==
  /\ stage = "check" => text \in Texts
  /\ file.mtime = seen /\ file.text # "none" =>
       /\ stage = "check" => text = file.text
       /\ stage = "asleep" /\ phase = "up" => file.text = hash \/ LastIsBad

ConfigInv ==
  /\ ~StartupEdits
  /\ ConfigShape /\ TimesGrow /\ StartingUp /\ StatusInOrder /\ HashIsNewest /\ SeenIsChecked

\* What the conjuncts other than the shape speak about.
LEMMA ConfigStands ==
  ASSUME ConfigInv, UNCHANGED configVars
  PROVE  ConfigInv'
<1>1. UNCHANGED <<file, edits, phase, hash, seen, stage, text, events, running, handling,
                  status, policies>>
  BY DEF configVars, watcher, daemon
<1> QED
  BY <1>1, Zenon DEF ConfigInv, ConfigShape, TimesGrow, StartingUp, StatusInOrder, HashIsNewest,
     SeenIsChecked, LastIsBad, PublishedPhase, Underway, Newest

\* The daemon starts with the text it has loaded, and nothing under way.
LEMMA ConfigInvInit == ConfigInit /\ ~StartupEdits => ConfigInv
<1> SUFFICES ASSUME ConfigInit, ~StartupEdits PROVE ConfigInv
  OBVIOUS
<1> USE DEF ConfigInit
<1>1. ConfigShape
  <2>1. file \in [text : Texts \cup {"none"}, mtime : Nat] /\ running \in Texts
    BY TextsAssumption
  <2>2. status \in Statuses
    <3>1. [observed |-> 0, runtime |-> 0, phase |-> "applied", restart |-> FALSE] \in Statuses
      BY ONLY SMT DEF Statuses, Phases
    <3> QED
      BY <3>1
  <2>3. events \in Seq(Texts) /\ handling = <<>>
    BY SMT
  <2> QED
    BY <2>1, <2>2, <2>3 DEF ConfigShape
<1>2. TimesGrow
  BY TextsAssumption DEF TimesGrow
<1>3. StartingUp
  BY DEF StartingUp
<1>4. StatusInOrder
  BY DEF StatusInOrder, PublishedPhase
<1>5. HashIsNewest /\ SeenIsChecked
  BY DEF HashIsNewest, SeenIsChecked
<1> QED
  BY <1>1, <1>2, <1>3, <1>4, <1>5 DEF ConfigInv

\* An edit gives the file a modification time the watcher has not seen.
LEMMA EditKept == ConfigInv /\ Edit => ConfigInv'
<1> SUFFICES ASSUME ConfigInv, Edit PROVE ConfigInv'
  OBVIOUS
<1>1. /\ phase = "up" /\ edits' = edits + 1
      /\ UNCHANGED <<phase, hash, seen, stage, text, events, running, handling, status, policies>>
  BY DEF Edit, ConfigInv, watcher, daemon
<1>2. edits \in Nat /\ seen \in Nat /\ seen <= edits + 1
  BY DEF ConfigInv, ConfigShape, TimesGrow
<1>3. \/ file' = [text |-> "none", mtime |-> 0]
      \/ \E t \in Texts : file' = [text |-> t, mtime |-> edits + 2]
  BY DEF Edit, Missing
<1>4. file' \in [text : Texts \cup {"none"}, mtime : Nat]
  BY <1>2, <1>3
<1>5. (file'.text = "none") <=> (file'.mtime = 0)
  BY <1>2, <1>3, TextsAssumption
<1>6. file'.mtime <= edits' + 1 /\ seen <= edits' + 1 /\ edits' \in Nat
  BY <1>1, <1>2, <1>3
<1>7. file'.text # "none" => file'.mtime # seen
  BY <1>2, <1>3
<1>8. ConfigShape'
  BY <1>1, <1>4, <1>6 DEF ConfigInv, ConfigShape
<1>9. TimesGrow'
  BY <1>1, <1>5, <1>6 DEF TimesGrow
<1>10. StartingUp' /\ SeenIsChecked'
  BY <1>1, <1>7 DEF ConfigInv, StartingUp, SeenIsChecked
<1>11. StatusInOrder' /\ HashIsNewest'
  BY <1>1, Zenon DEF ConfigInv, StatusInOrder, HashIsNewest, PublishedPhase, Underway, Newest
<1> QED
  BY <1>8, <1>9, <1>10, <1>11 DEF ConfigInv

\* With the file left alone until then, the watcher starts from the text the
\* daemon runs with.
LEMMA StartKept == ConfigInv /\ Start => ConfigInv'
<1> SUFFICES ASSUME ConfigInv, Start PROVE ConfigInv'
  OBVIOUS
<1>1. UNCHANGED <<file, edits, stage, text, events, running, handling, status, policies>>
  BY DEF Start, Load, Spawn, TaskStarts, watcher, daemon
<1>2. /\ phase # "up"
      /\ \/ phase' = "spawn" /\ UNCHANGED seen
         \/ phase' = "task" /\ hash' = running /\ UNCHANGED seen
         \/ phase' = "up" /\ hash = running /\ seen' = file.mtime /\ UNCHANGED hash
  BY DEF Start, Load, Spawn, TaskStarts, ConfigInv, StartingUp, watcher
<1>3. events = <<>> /\ handling = <<>> /\ stage = "asleep" /\ file.text = running
  BY <1>2 DEF ConfigInv, StartingUp
<1>4. seen' \in Nat /\ seen' <= edits + 1
  BY <1>2 DEF ConfigInv, ConfigShape, TimesGrow
<1>5. ConfigShape' /\ TimesGrow'
  BY <1>1, <1>4, Zenon DEF ConfigInv, ConfigShape, TimesGrow
<1>6. StartingUp'
  BY <1>1, <1>2, <1>3 DEF StartingUp
<1>7. StatusInOrder'
  BY <1>1, Zenon DEF ConfigInv, StatusInOrder, PublishedPhase
<1>8. HashIsNewest'
  BY <1>1, <1>2, <1>3 DEF HashIsNewest, Underway
<1>9. SeenIsChecked'
  BY <1>1, <1>2, <1>3 DEF SeenIsChecked
<1> QED
  BY <1>5, <1>6, <1>7, <1>8, <1>9 DEF ConfigInv

\* The modification time is taken before the contents: what is read later is
\* the text of that time, or the time is no longer the file's.
LEMMA LookKept ==
  ASSUME ConfigInv, Look \/ ReadFile
  PROVE  ConfigInv'
<1>1. UNCHANGED <<file, edits, phase, hash, events, running, handling, status, policies>>
  BY DEF Look, ReadFile, daemon
<1>2. /\ phase = "up"
      /\ \/ stage' = "read" /\ seen' = file.mtime
         \/ stage' = "asleep" /\ file.text = "none" /\ UNCHANGED seen
         \/ stage' = "check" /\ file.text # "none" /\ text' = file.text /\ UNCHANGED seen
  BY DEF Look, ReadFile, ConfigInv, StartingUp
<1>3. seen' \in Nat /\ seen' <= edits + 1
  BY <1>2 DEF ConfigInv, ConfigShape, TimesGrow
<1>4. ConfigShape' /\ TimesGrow'
  BY <1>1, <1>3, Zenon DEF ConfigInv, ConfigShape, TimesGrow
<1>5. StartingUp'
  BY <1>1, <1>2 DEF StartingUp
<1>6. StatusInOrder' /\ HashIsNewest'
  BY <1>1, Zenon DEF ConfigInv, StatusInOrder, HashIsNewest, PublishedPhase, Underway, Newest
<1>7. SeenIsChecked'
  BY <1>1, <1>2 DEF ConfigInv, ConfigShape, SeenIsChecked
<1> QED
  BY <1>4, <1>5, <1>6, <1>7 DEF ConfigInv

\* A text that differs from the hash is handed over, and becomes the hash if
\* it parses.
LEMMA CheckKept == ConfigInv /\ Check => ConfigInv'
<1> SUFFICES ASSUME ConfigInv, Check PROVE ConfigInv'
  OBVIOUS
<1>1. /\ UNCHANGED <<file, edits, phase, seen, text, running, handling, status, policies>>
      /\ stage = "check" /\ stage' = "asleep"
  BY DEF Check, SeenWith, daemon
<1>2. phase = "up" /\ text \in Texts /\ events \in Seq(Texts)
  BY <1>1 DEF ConfigInv, ConfigShape, StartingUp, SeenIsChecked
<1>3. file.mtime = seen /\ file.text # "none" => text = file.text
  BY <1>1 DEF ConfigInv, SeenIsChecked
<1>4. TimesGrow' /\ StartingUp' /\ StatusInOrder'
  BY <1>1, <1>2, Zenon DEF ConfigInv, TimesGrow, StartingUp, StatusInOrder, PublishedPhase
<1>5. CASE Unchanged(text)
  <2>1. UNCHANGED <<hash, events>> /\ text = hash
    BY <1>5 DEF Check, Unchanged
  <2>2. ConfigShape' /\ HashIsNewest'
    BY <1>1, <2>1, Zenon DEF ConfigInv, ConfigShape, HashIsNewest, PublishedPhase, Underway, Newest
  <2>3. SeenIsChecked'
    BY <1>1, <1>3, <2>1 DEF SeenIsChecked
  <2> QED
    BY <1>4, <2>2, <2>3 DEF ConfigInv
<1>6. CASE ~Unchanged(text)
  <2>1. events' = Append(events, text) /\ (Kind[text] = "bad" \/ hash' = text)
    BY <1>6 DEF Check
  <2>2. events' \in Seq(Texts) /\ events' # <<>> /\ events'[Len(events')] = text
    BY <1>2, <2>1
  <2>3. Underway' /\ Newest' = text
    BY <2>2 DEF Underway, Newest
  <2>4. ConfigShape'
    BY <1>1, <2>2, Zenon DEF ConfigInv, ConfigShape
  <2>5. HashIsNewest'
    BY <2>1, <2>3 DEF HashIsNewest
  <2>6. SeenIsChecked'
    BY <1>1, <1>3, <2>1, <2>3 DEF SeenIsChecked, LastIsBad
  <2> QED
    BY <1>4, <2>4, <2>5, <2>6 DEF ConfigInv
<1> QED
  BY <1>5, <1>6

\* The last element of a channel with one event is its first.
LEMMA OnlyEvent ==
  ASSUME NEW S, NEW s \in Seq(S), s # <<>>, Tail(s) = <<>>
  PROVE  Head(s) = s[Len(s)]
<1>1. Len(s) \in Nat /\ Len(s) # 0
  OBVIOUS
<1>2. Len(Tail(s)) = Len(s) - 1
  BY <1>1
<1>4. Len(Tail(s)) = 0
  <2>1. Len(<<>>) = 0
    OBVIOUS
  <2> QED
    BY <2>1, Zenon
<1>3. Len(s) = 1
  BY <1>1, <1>2, <1>4
<1> QED
  BY <1>3

\* begin(), publish() and finish() on a well-formed status.
LEMMA BegunStatus ==
  ASSUME NEW s \in Statuses
  PROVE  /\ Begun(s) \in Statuses
         /\ Begun(s).observed = s.observed + 1 /\ Begun(s).runtime = s.runtime
         /\ Begun(s).phase = "validating"
<1> DEFINE t == Begun(s)
           o == s.observed + 1
<1>1. t = [s EXCEPT !.observed = o, !.phase = "validating"]
  BY Zenon DEF Begun
<1>2. o \in Nat /\ "validating" \in Phases
  BY DEF Statuses, Phases
<1> HIDE DEF o, t
<1>3. t \in Statuses /\ t.observed = o /\ t.runtime = s.runtime /\ t.phase = "validating"
  BY <1>1, <1>2, Zenon DEF Statuses
<1> QED
  BY <1>3 DEF o, t

\* Taking an event moves it: the newest text handed over stays the newest.
LEMMA TakeEventKept == ConfigInv /\ TakeEvent => ConfigInv'
<1> SUFFICES ASSUME ConfigInv, TakeEvent PROVE ConfigInv'
  OBVIOUS
<1>1. /\ UNCHANGED <<file, edits, phase, hash, seen, stage, text, running, policies>>
      /\ events # <<>> /\ handling = <<>>
      /\ events' = Tail(events) /\ handling' = <<Head(events)>>
      /\ status' = Begun(status)
  BY DEF TakeEvent, watcher
<1>2. events \in Seq(Texts) /\ status \in Statuses
  BY DEF ConfigInv, ConfigShape
<1>3. phase = "up"
  BY <1>1 DEF ConfigInv, StartingUp
<1>4. /\ handling' # <<>> /\ handling' = <<handling'[1]>> /\ handling'[1] \in Texts
      /\ events' \in Seq(Texts)
      /\ events' # <<>> => events'[Len(events')] = events[Len(events)]
      /\ events' = <<>> => handling'[1] = events[Len(events)]
  <2>1. Head(events) \in Texts /\ Tail(events) \in Seq(Texts)
    BY <1>1, <1>2
  <2>2. Tail(events) # <<>> => Tail(events)[Len(Tail(events))] = events[Len(events)]
    BY <1>1, <1>2
  <2>3. Tail(events) = <<>> => Head(events) = events[Len(events)]
    BY <1>1, <1>2, OnlyEvent
  <2> QED
    BY <1>1, <2>1, <2>2, <2>3
<1>5. Underway /\ Underway' /\ Newest' = Newest
  BY <1>1, <1>4 DEF Underway, Newest
<1>6. /\ status' \in Statuses
      /\ status'.observed = status.observed + 1 /\ status'.runtime = status.runtime
      /\ status'.phase = "validating"
  BY <1>1, <1>2, BegunStatus
<1>7. ConfigShape' /\ TimesGrow'
  BY <1>1, <1>4, <1>6, Zenon DEF ConfigInv, ConfigShape, TimesGrow
<1>8. StatusInOrder'
  <2>1. status.runtime <= status.observed /\ status.runtime \in Nat /\ status.observed \in Nat
    BY <1>2 DEF ConfigInv, StatusInOrder, Statuses
  <2>2. status'.runtime <= status'.observed /\ status'.runtime # status'.observed
    BY <1>6, <2>1
  <2>3. ~PublishedPhase'
    BY <1>6 DEF PublishedPhase
  <2>4. policies' \subseteq 0..status'.runtime
    BY <1>1, <1>6 DEF ConfigInv, StatusInOrder
  <2> QED
    BY <2>2, <2>3, <2>4 DEF StatusInOrder
<1>9. StartingUp' /\ HashIsNewest' /\ SeenIsChecked'
  BY <1>1, <1>3, <1>5 DEF ConfigInv, StartingUp, HashIsNewest, SeenIsChecked, LastIsBad
<1> QED
  BY <1>7, <1>8, <1>9 DEF ConfigInv

\* publish() reports the revision begun last, in one of the published phases.
LEMMA PublishedStatus ==
  ASSUME NEW s \in Statuses, NEW restart \in BOOLEAN, NEW policy \in BOOLEAN
  PROVE  /\ Published(s, restart, policy) \in Statuses
         /\ Published(s, restart, policy).observed = s.observed
         /\ Published(s, restart, policy).runtime = s.observed
         /\ Published(s, restart, policy).phase
              \in {"applied", "restart_required", "policy_pending"}
<1> DEFINE t == [s EXCEPT !.runtime = s.observed, !.restart = restart]
<1>1. t \in Statuses /\ t.observed = s.observed /\ t.runtime = s.observed
  BY Zenon DEF Statuses
<1>2. Settled(t) \in {"applied", "restart_required"}
  BY DEF Settled
<1>3. Published(s, restart, policy) =
        [t EXCEPT !.phase = IF policy THEN "policy_pending" ELSE Settled(t)]
  BY DEF Published
<1> HIDE DEF t
<1> DEFINE p == IF policy THEN "policy_pending" ELSE Settled(t)
<1>4. p \in {"applied", "restart_required", "policy_pending"}
  BY <1>2
<1>5. p \in Phases
  BY <1>4 DEF Phases
<1> HIDE DEF p
<1>6. /\ [t EXCEPT !.phase = p] \in Statuses
      /\ [t EXCEPT !.phase = p].observed = s.observed
      /\ [t EXCEPT !.phase = p].runtime = s.observed
      /\ [t EXCEPT !.phase = p].phase = p
  BY ONLY <1>1, <1>5, SMT DEF Statuses
<1> QED
  BY <1>3, <1>4, <1>6 DEF p

\* finish() changes the phase of the newest revision only.
LEMMA FinishedStatus ==
  ASSUME NEW s \in Statuses, NEW rev \in Nat, NEW ok \in BOOLEAN, NEW known \in BOOLEAN
  PROVE  /\ Finished(s, rev, ok, known) \in Statuses
         /\ Finished(s, rev, ok, known).observed = s.observed
         /\ Finished(s, rev, ok, known).runtime = s.runtime
         /\ rev # s.observed => Finished(s, rev, ok, known) = s
         /\ rev = s.observed => Finished(s, rev, ok, known).phase =
              IF ok THEN Settled(s) ELSE IF known THEN "policy_failed" ELSE "rejected"
<1>1. CASE rev # s.observed
  BY <1>1 DEF Finished, Statuses
<1>2. CASE rev = s.observed
  <2> DEFINE p == IF ok THEN Settled(s) ELSE IF known THEN "policy_failed" ELSE "rejected"
  <2>1. Finished(s, rev, ok, known) = [s EXCEPT !.phase = p]
    BY <1>2 DEF Finished
  <2>2. p \in Phases
    BY DEF Settled, Phases
  <2> HIDE DEF p
  <2>3. /\ [s EXCEPT !.phase = p] \in Statuses
        /\ [s EXCEPT !.phase = p].observed = s.observed
        /\ [s EXCEPT !.phase = p].runtime = s.runtime
        /\ [s EXCEPT !.phase = p].phase = p
    BY <2>2 DEF Statuses
  <2> QED
    BY <1>2, <2>1, <2>3 DEF p
<1> QED
  BY <1>1, <1>2

\* ... as it is called when a firewall thread ends.
LEMMA PolicyFinishedStatus ==
  ASSUME NEW s \in Statuses, NEW rev \in Nat, NEW ok \in BOOLEAN
  PROVE  /\ Finished(s, rev, ok, TRUE) \in Statuses
         /\ Finished(s, rev, ok, TRUE).observed = s.observed
         /\ Finished(s, rev, ok, TRUE).runtime = s.runtime
         /\ rev # s.observed => Finished(s, rev, ok, TRUE) = s
         /\ rev = s.observed =>
              Finished(s, rev, ok, TRUE).phase = IF ok THEN Settled(s) ELSE "policy_failed"
<1> DEFINE known == TRUE
<1>1. known \in BOOLEAN
  OBVIOUS
<1> HIDE DEF known
<1>2. /\ Finished(s, rev, ok, known) \in Statuses
      /\ Finished(s, rev, ok, known).observed = s.observed
      /\ Finished(s, rev, ok, known).runtime = s.runtime
      /\ rev # s.observed => Finished(s, rev, ok, known) = s
      /\ rev = s.observed => Finished(s, rev, ok, known).phase =
           IF ok THEN Settled(s) ELSE IF known THEN "policy_failed" ELSE "rejected"
  BY <1>1, FinishedStatus
<1> QED
  BY <1>2, Zenon DEF known

\* A rejected text is reported as rejected and leaves the hash behind.
LEMMA RejectKept == ConfigInv /\ Reject => ConfigInv'
<1> SUFFICES ASSUME ConfigInv, Reject PROVE ConfigInv'
  OBVIOUS
<1>1. /\ UNCHANGED <<file, edits, phase, hash, seen, stage, text, events, running, policies>>
      /\ handling # <<>> /\ handling' = <<>>
      /\ status' = Finished(status, status.observed, FALSE, FALSE)
  BY DEF Reject, watcher
<1>2. status \in Statuses /\ status.observed \in Nat
  BY DEF ConfigInv, ConfigShape, Statuses
<1>3. phase = "up"
  BY <1>1 DEF ConfigInv, StartingUp
<1>4. /\ status' \in Statuses /\ status'.observed = status.observed
      /\ status'.runtime = status.runtime /\ status'.phase = "rejected"
  BY <1>1, <1>2, FinishedStatus, Zenon
<1>5. ~PublishedPhase /\ ~PublishedPhase'
  BY <1>1, <1>4, ZenonT(30) DEF ConfigInv, StatusInOrder, PublishedPhase
<1>6. /\ Underway /\ (Underway' <=> events # <<>>)
      /\ Underway' => Newest' = Newest
  BY <1>1 DEF Underway, Newest
<1>7. ConfigShape' /\ TimesGrow' /\ StartingUp'
  BY <1>1, <1>3, <1>4, Zenon DEF ConfigInv, ConfigShape, TimesGrow, StartingUp
<1>8. StatusInOrder'
  BY <1>1, <1>4, <1>5, ZenonT(30) DEF ConfigInv, StatusInOrder
<1>9. HashIsNewest' /\ SeenIsChecked'
  BY <1>1, <1>3, <1>5, <1>6, Zenon DEF ConfigInv, HashIsNewest, SeenIsChecked, LastIsBad
<1> QED
  BY <1>7, <1>8, <1>9 DEF ConfigInv

\* Applying the newest text leaves the daemon running the hash.
LEMMA ApplyKept == ConfigInv /\ Apply => ConfigInv'
<1> SUFFICES ASSUME ConfigInv, Apply PROVE ConfigInv'
  OBVIOUS
<1> DEFINE t == Head(handling)
<1>1. /\ UNCHANGED <<file, edits, phase, hash, seen, stage, text, events>>
      /\ handling # <<>> /\ handling' = <<>> /\ running' = t /\ Kind[t] = "good"
      /\ status' = Published(status, t \in NeedsRestart, ModeChanged(t))
      /\ policies' = IF ModeChanged(t) THEN policies \cup {status.observed} ELSE policies
  BY DEF Apply, Runnable, watcher
<1>2. /\ status \in Statuses /\ status.observed \in Nat /\ status.runtime \in Nat
      /\ policies \subseteq 0..status.runtime
  BY DEF ConfigInv, ConfigShape, StatusInOrder, Statuses
<1>3. phase = "up"
  BY <1>1 DEF ConfigInv, StartingUp
<1>4. t \in Texts /\ t = handling[1]
  BY <1>1 DEF ConfigInv, ConfigShape
<1> HIDE DEF t
<1>5. /\ status' \in Statuses /\ status'.observed = status.observed
      /\ status'.runtime = status.observed
      /\ status'.phase \in {"applied", "restart_required", "policy_pending"}
  <2>1. (t \in NeedsRestart) \in BOOLEAN /\ ModeChanged(t) \in BOOLEAN
    BY DEF ModeChanged
  <2> QED
    BY <1>1, <1>2, <2>1, PublishedStatus, ZenonT(30)
<1>6. PublishedPhase' /\ status.runtime <= status.observed
  BY <1>5 DEF PublishedPhase, ConfigInv, StatusInOrder
<1>7. /\ Underway /\ (Underway' <=> events # <<>>)
      /\ Underway' => Newest' = Newest
      /\ ~Underway' => Newest = t
  BY <1>1, <1>4 DEF Underway, Newest
<1>8. policies' \subseteq 0..status.observed
  <2>1. 0..status.runtime \subseteq 0..status.observed /\ status.observed \in 0..status.observed
    BY <1>2, <1>6
  <2>2. policies' \subseteq policies \cup {status.observed}
    BY <1>1, Zenon
  <2> QED
    BY <1>2, <2>1, <2>2, Zenon
<1>9. ConfigShape' /\ TimesGrow' /\ StartingUp'
  BY <1>1, <1>3, <1>4, <1>5, <1>8, Zenon DEF ConfigInv, ConfigShape, TimesGrow, StartingUp
<1>10. StatusInOrder'
  BY <1>1, <1>2, <1>5, <1>6, <1>8 DEF StatusInOrder
<1>11. HashIsNewest'
  BY <1>1, <1>3, <1>7 DEF ConfigInv, HashIsNewest
<1>12. SeenIsChecked'
  BY <1>1, <1>3, <1>7 DEF ConfigInv, SeenIsChecked, LastIsBad
<1> QED
  BY <1>9, <1>10, <1>11, <1>12 DEF ConfigInv

\* A firewall thread reports on its own revision; when that is the newest one
\* it was published, and stays in a published phase.
LEMMA PolicyEndsKept == ConfigInv /\ PolicyEnds => ConfigInv'
<1> SUFFICES ASSUME ConfigInv, PolicyEnds PROVE ConfigInv'
  OBVIOUS
<1>1. UNCHANGED <<file, edits, phase, hash, seen, stage, text, events, running, handling>>
  BY DEF PolicyEnds, watcher
<1>2. PICK rev \in policies, ok \in BOOLEAN :
        /\ policies' = policies \ {rev}
        /\ status' = Finished(status, rev, ok, TRUE)
  BY Zenon DEF PolicyEnds
<1>3. /\ status \in Statuses /\ status.observed \in Nat /\ status.runtime \in Nat
      /\ policies \subseteq 0..status.runtime /\ status.runtime <= status.observed
  BY DEF ConfigInv, ConfigShape, StatusInOrder, Statuses
<1>4. rev \in Nat /\ rev <= status.runtime
  BY <1>3
<1>5. /\ status' \in Statuses /\ status'.observed = status.observed
      /\ status'.runtime = status.runtime
      /\ rev # status.observed => status' = status
      /\ rev = status.observed =>
           status'.phase = IF ok THEN Settled(status) ELSE "policy_failed"
  BY <1>2, <1>3, <1>4, PolicyFinishedStatus, Zenon
<1>6. PublishedPhase' <=> PublishedPhase
  <2>1. CASE rev # status.observed
    BY <1>5, <2>1 DEF PublishedPhase
  <2>2. CASE rev = status.observed
    <3>1. status.runtime = status.observed
      BY <1>3, <1>4, <2>2
    <3>2. PublishedPhase
      BY <3>1 DEF ConfigInv, StatusInOrder
    <3>3. PublishedPhase'
      BY <1>5, <2>2 DEF PublishedPhase, Settled
    <3> QED
      BY <3>2, <3>3
  <2> QED
    BY <2>1, <2>2
<1>7. policies' \subseteq 0..status.runtime
  BY <1>2, <1>3
<1>8. ConfigShape' /\ TimesGrow' /\ StartingUp'
  BY <1>1, <1>5, <1>7, Zenon DEF ConfigInv, ConfigShape, TimesGrow, StartingUp
<1>9. StatusInOrder'
  BY <1>1, <1>5, <1>6, <1>7 DEF ConfigInv, StatusInOrder
<1>10. HashIsNewest' /\ SeenIsChecked'
  BY <1>1, <1>6, Zenon DEF ConfigInv, HashIsNewest, SeenIsChecked, LastIsBad, Underway, Newest
<1> QED
  BY <1>8, <1>9, <1>10 DEF ConfigInv

(***************************************************************************)
(* The hash, the channel and the status stay in step (ConfigWatcher,       *)
(* run_daemon, ApplyStatus) as long as the file is not edited while the    *)
(* daemon starts.                                                          *)
(***************************************************************************)
THEOREM ConfigInvariant == ConfigSpec /\ ~StartupEdits => []ConfigInv
<1>1. ConfigInv /\ [ConfigNext]_configVars => ConfigInv'
  BY ConfigStands, EditKept, StartKept, LookKept, CheckKept, TakeEventKept, RejectKept,
     ApplyKept, PolicyEndsKept DEF ConfigNext, Watch, Daemon
<1> QED
  BY <1>1, ConfigInvInit, PTL DEF ConfigSpec

(***************************************************************************)
(* "applied" is the truth: with no reload under way the daemon runs the    *)
(* saved text, for any texts, any number of edits and threads, and however *)
(* saves, polls, reads and firewall scripts interleave.                    *)
(***************************************************************************)
THEOREM ReportedIsRunning == ConfigSpec /\ ~StartupEdits => []AppliedIsSaved
<1>1. ConfigInv => AppliedIsSaved
  <2> SUFFICES ASSUME ConfigInv, Quiet, file.text # "none",
                      status.phase \in {"applied", "restart_required"}
               PROVE  running = file.text
    BY DEF AppliedIsSaved
  <2>1. ~Underway /\ PublishedPhase /\ phase = "up" /\ stage = "asleep" /\ file.mtime = seen
    BY DEF Quiet, Underway, PublishedPhase
  <2>2. hash = running
    BY <2>1 DEF ConfigInv, HashIsNewest
  <2>3. file.text = hash
    BY <2>1 DEF ConfigInv, SeenIsChecked, LastIsBad
  <2> QED
    BY <2>2, <2>3
<1> QED
  BY <1>1, ConfigInvariant, PTL

=============================================================================
