------------------------------ MODULE MCRouter ------------------------------
(***************************************************************************)
(* What runs on a router around the daemon, for TLC: the configuration     *)
(* file and its writers, the file itself across power cuts, the update     *)
(* transaction, the two kinds of background jobs of the Web UI, and the    *)
(* service script with its supervisor, guard and watchdog.  Each keeps its *)
(* state in files of its own, so a behaviour exercises one of them, chosen *)
(* at the start; the other parts stand still.                              *)
(***************************************************************************)
EXTENDS ConfigStore, AtomicFile, UpdateTransaction, SubscriptionJobs, SpeedtestJobs

CONSTANTS Faults, MaxFaults, Commands, MaxCommands, Strikes, CleanupFails

VARIABLES part,
          stopped, degraded, rules, hijack, live, bound, sick, tun, pidfile, cmd, cron,
          strikes, minute, sup, guard, queued, outbound, fit, intent, faults, requests

Service == INSTANCE RouterService WITH Requests <- Commands, MaxRequests <- MaxCommands

serviceVars == <<stopped, degraded, rules, hijack, live, bound, sick, tun, pidfile, cmd, cron,
                 strikes, minute, sup, guard, queued, outbound, fit, intent, faults, requests>>

RouterInit ==
  /\ part \in {"store", "file", "update", "jobs", "tests", "service"}
  /\ StoreInit /\ FileInit /\ UpdateInit /\ JobsInit /\ TestInit
  /\ Service!ServiceInit /\ (stopped => part = "service")

RouterNext ==
  /\ UNCHANGED part
  /\ \/ /\ part = "store" /\ StoreNext
        /\ UNCHANGED <<fileVars, updateVars, jobVars, testVars, serviceVars>>
     \/ /\ part = "file" /\ FileNext
        /\ UNCHANGED <<storeVars, updateVars, jobVars, testVars, serviceVars>>
     \/ /\ part = "update" /\ UpdateNext
        /\ UNCHANGED <<storeVars, fileVars, jobVars, testVars, serviceVars>>
     \/ /\ part = "jobs" /\ JobsNext
        /\ UNCHANGED <<storeVars, fileVars, updateVars, testVars, serviceVars>>
     \/ /\ part = "tests" /\ TestNext
        /\ UNCHANGED <<storeVars, fileVars, updateVars, jobVars, serviceVars>>
     \/ /\ part = "service" /\ Service!ServiceNext
        /\ UNCHANGED <<storeVars, fileVars, updateVars, jobVars, testVars>>

\* The fairness of the update transaction and of the subscription jobs.
RouterFairness ==
  /\ WF_updateVars(part = "update" /\ SaveEnds)
  /\ WF_updateVars(/\ part = "update"
                   /\ (~ At(Worker, "idle") /\ WorkerStep(Worker)) \/ RestoreStep(Worker))
  /\ \A r \in Recoverers : WF_updateVars(part = "update" /\ (Recover(r) \/ RestoreStep(r)))
  /\ WF_jobVars(part = "jobs" /\ (LaunchStep \/ LaunchFails \/ LauncherDies))
  /\ \A i \in Ids :
       /\ WF_jobVars(part = "jobs" /\ Ages(i))
       /\ WF_jobVars(part = "jobs" /\ Poll(i) /\ Lost(i))
       /\ WF_jobVars(part = "jobs" /\ (Claim(i) \/ WriteProgress(i)))
       /\ SF_jobVars(part = "jobs" /\ \E ok \in BOOLEAN : Finish(i, ok))

RouterSpec ==
  /\ RouterInit
  /\ [][RouterNext]_<<part, storeVars, fileVars, updateVars, jobVars, testVars, serviceVars>>
  /\ RouterFairness

(* UpdateTransaction: every update is committed or rolled back in the end.   *)
EveryUpdateEnds == part = "update" => TransactionEnds

(* SubscriptionJobs: every job ends, whoever dies.                           *)
EveryJobEnds == part = "jobs" => JobsEnd

(* RouterService: after a stop the LAN is direct and stays so.               *)
StoppedIsDirect == Service!StoppedIsDirect

(* RouterService: with nobody at work, no LAN traffic goes to a dead daemon. *)
FailsOpen == Service!FailsOpen
=============================================================================
