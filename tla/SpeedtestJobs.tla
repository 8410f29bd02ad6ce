---------------------------- MODULE SpeedtestJobs ----------------------------
(***************************************************************************)
(* The node speed test of the router's web UI (cgi/speedtest_jobs.rs): a   *)
(* CGI process records a batch in state.json, spawns its worker and then   *)
(* records the worker's pid, all under the launch lock; the worker takes   *)
(* the lock only to fetch its input, and afterwards writes the whole of    *)
(* state.json from its own copy.                                           *)
(***************************************************************************)
EXTENDS Naturals

CONSTANTS TestIds, MaxBatches, MaxProbes, NoTest

VARIABLES batch,      \* state.json
          nodes,      \* input.json, by the id of its batch
          starter,    \* the CGI process that has the launch lock
          tester,     \* the worker of each batch, with its copy of state.json
          batches,    \* ids given out
          hidden      \* history: a worker began whose pid was never recorded

testVars == <<batch, nodes, starter, tester, batches, hidden>>

Batches == 1 .. MaxBatches
Batch == [id : Batches, request : TestIds, state : {"running", "finished"},
          pid : BOOLEAN, completed : 0 .. MaxProbes]

ASSUME NoTestApart == NoTest \notin Batch
ASSUME TestBounds == MaxBatches \in Nat /\ MaxProbes \in Nat

NoStart == [pc |-> "free", request |-> NoTest]

TestTypeOK ==
    /\ batch \in Batch \cup {NoTest} /\ nodes \in 0 .. MaxBatches /\ batches \in 0 .. MaxBatches /\ hidden \in BOOLEAN
    /\ starter \in [pc : {"free", "input", "state", "spawn", "pid"}, request : TestIds \cup {NoTest}]
    /\ tester \in [Batches -> [pc : {"none", "spawned", "probing"}, copy : Batch \cup {NoTest}]]

TestInit ==
    /\ batch = NoTest /\ nodes = 0 /\ starter = NoStart /\ batches = 0 /\ hidden = FALSE
    /\ tester = [b \in Batches |-> [pc |-> "none", copy |-> NoTest]]

TestLockFree == starter.pc = "free"
TesterBecomes(b, pc, copy) == tester' = [tester EXCEPT ![b] = [pc |-> pc, copy |-> copy]]

\* the batch counts as running only until its worker has started
Running_Starting == /\ batch # NoTest /\ batch.state = "running" /\ batch.pid
                    /\ tester[batch.id].pc = "spawned"

\* running: a batch whose pid is not recorded counts as not running.
Running == /\ batch # NoTest /\ batch.state = "running" /\ batch.pid
           /\ tester[batch.id].pc # "none"

\* start: nothing is running and the request is not the recorded one.
StartTest(r) ==
    /\ TestLockFree /\ batches < MaxBatches
    /\ ~ Running
    /\ batch # NoTest => batch.request # r
    /\ starter' = [pc |-> "input", request |-> r]
    /\ batches' = batches + 1
    /\ UNCHANGED <<batch, nodes, tester, hidden>>

Written(pid) == [id |-> batches, request |-> starter.request, state |-> "running",
                 pid |-> pid, completed |-> 0]

LauncherAt(pc, next) ==
    /\ starter.pc = pc
    /\ starter' = IF next = "free" THEN NoStart ELSE [starter EXCEPT !.pc = next]

WriteInput == LauncherAt("input", "state") /\ nodes' = batches /\ UNCHANGED <<batch, tester, batches, hidden>>
WriteState == LauncherAt("state", "spawn") /\ batch' = Written(FALSE) /\ UNCHANGED <<nodes, tester, batches, hidden>>
SpawnTester == LauncherAt("spawn", "pid") /\ TesterBecomes(batches, "spawned", NoTest) /\ UNCHANGED <<batch, nodes, batches, hidden>>
WritePid == LauncherAt("pid", "free") /\ batch' = Written(TRUE) /\ UNCHANGED <<nodes, tester, batches, hidden>>

\* One of the steps fails, or the firmware ends the CGI process.
LaunchEnds ==
    /\ ~ TestLockFree /\ starter' = NoStart
    /\ UNCHANGED <<batch, nodes, tester, batches, hidden>>

\* worker: with the lock, the batch must be its own and its input is taken.
FetchInput(b) ==
    /\ tester[b].pc = "spawned" /\ TestLockFree
    /\ IF batch.id = b /\ nodes # 0
       THEN TesterBecomes(b, "probing", batch) /\ nodes' = 0
       ELSE TesterBecomes(b, "none", NoTest) /\ UNCHANGED nodes
    /\ hidden' = (hidden \/ (tester'[b].pc = "probing" /\ ~ batch.pid))
    /\ UNCHANGED <<batch, starter, batches>>

\* A probe ends; its result is written at most every 250 ms.
ProbeEnds(b) ==
    /\ tester[b].pc = "probing" /\ tester[b].copy.completed < MaxProbes
    /\ LET copy == [tester[b].copy EXCEPT !.completed = @ + 1]
       IN /\ TesterBecomes(b, "probing", copy)
          /\ batch' \in {batch, copy}
    /\ UNCHANGED <<nodes, starter, batches, hidden>>

TestEnds(b) ==
    /\ tester[b].pc = "probing" /\ tester[b].copy.completed = MaxProbes
    /\ batch' = [tester[b].copy EXCEPT !.state = "finished"]
    /\ TesterBecomes(b, "none", NoTest)
    /\ UNCHANGED <<nodes, starter, batches, hidden>>

TesterDies(b) ==
    /\ tester[b].pc # "none"
    /\ TesterBecomes(b, "none", NoTest)
    /\ UNCHANGED <<batch, nodes, starter, batches, hidden>>

TestNext ==
    \/ \E r \in TestIds : StartTest(r)
    \/ WriteInput \/ WriteState \/ SpawnTester \/ WritePid \/ LaunchEnds
    \/ \E b \in Batches : FetchInput(b) \/ ProbeEnds(b) \/ TestEnds(b) \/ TesterDies(b)

TestSpec == TestInit /\ [][TestNext]_testVars

\* Two batches never probe at the same time, unless a launch once ended between the
\* spawn of its worker and the record of the pid: running() cannot see such a worker,
\* which then also hides the batches after it behind its own writes of state.json.
OneBatch ==
    hidden \/ \A b, c \in Batches : tester[b].pc = "probing" /\ tester[c].pc = "probing" => b = c
=============================================================================
