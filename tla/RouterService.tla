---------------------------- MODULE RouterService ----------------------------
(***************************************************************************)
(* The control script of the router service (merlin/scripts/sockrocket.sh).*)
(* Commands (boot, start, stop, restart, the cron watchdog, recover,       *)
(* network-restore, firewall-restore) take turns under a lock.  Around     *)
(* them, without the lock, run the supervisor, which launches the daemon   *)
(* again when it ends, the guard, which looks every few seconds, the       *)
(* daemon itself and the firmware, which rebuilds its firewall.  They meet *)
(* in marker files: "stopped" (the user's intent), ".lan_degraded" (the    *)
(* LAN goes direct) and the pid file.                                      *)
(*                                                                         *)
(* The configuration asks for the transparent proxy and the DNS hijack,    *)
(* has nodes and does not change; memory stays below the pressure limit.   *)
(* The lock is exclusive here (ServiceLock is about the lock itself).      *)
(***************************************************************************)
EXTENDS Naturals, FiniteSets

CONSTANTS Faults,        \* subset of {"crash", "broken", "hang", "outage", "flush"}
          MaxFaults,     \* bound on how many of them happen
          Requests,      \* subset of {"start", "stop", "restart", "fast"}
          MaxRequests,   \* bound on the commands given by hand
          Strikes,       \* failed watchdog checks before it acts (3)
          CleanupFails   \* whether restoring the direct network can fail

VARIABLES stopped,    \* the marker of a manual stop
          degraded,   \* the fail-open marker
          rules,      \* LAN traffic is marked into the TUN device
          hijack,     \* dnsmasq asks the daemon's listener
          live,       \* daemon processes
          bound,      \* the one that has the ports and the TUN device, 0: none
          sick,       \* it is alive but its DNS listener is not
          tun,        \* its TUN device is there
          pidfile,    \* the registered daemon, 0: none
          cmd,        \* the command that has the lock
          cron,       \* the watchdog is in the crontab
          strikes,    \* its counts of failed DNS and outbound checks
          minute,     \* the next minute has come
          sup,        \* the supervisor and the daemon it waits for
          guard,      \* the guard
          queued,     \* child commands whose parent does not wait for them
          outbound,   \* the daemon reaches the outside
          fit,        \* a daemon that is launched can serve
          intent,     \* what the user last asked for
          faults, requests

markers == <<stopped, degraded>>
network == <<rules, hijack>>
processes == <<live, bound, sick, tun, pidfile>>
watchdog == <<cron, strikes, minute>>
background == <<sup, guard, queued>>
history == <<outbound, fit, intent, faults, requests>>
serviceVars == <<markers, network, processes, cmd, watchdog, background, history>>

Daemons == 1 .. 3
Free == [op |-> "none", pc |-> "free", want |-> FALSE, then |-> "free"]
NoSup == [pc |-> "none", pid |-> 0, had |-> FALSE, fails |-> 0]

IsRunning == pidfile \in live
ListenerUp == bound # 0 /\ ~ sick
TunUp == bound # 0 /\ tun
\* --daemon-health asks for the outbound record of the registered process.
ProbeOk == IsRunning /\ pidfile = bound /\ outbound

\* The variables keep their types.
ServiceTypeOK ==
    /\ {stopped, degraded, rules, hijack, sick, tun, cron, minute, outbound, fit} \subseteq BOOLEAN
    /\ live \subseteq Daemons /\ bound \in live \cup {0} /\ pidfile \in Daemons \cup {0}
    /\ cmd.op \in {"none", "boot", "restore", "recover", "activate", "watchdog", "firewall"} \cup Requests
    /\ strikes \in [{"dns", "out"} -> 0 .. Strikes - 1]
    /\ sup \in [pc : {"none", "top", "watch", "restore-kill", "kill", "ended", "restore", "sleep", "hold"},
                pid : Daemons \cup {0}, had : BOOLEAN, fails : 0 .. 3]
    /\ guard \in {"none", "loop", "restore", "recover", "wait", "kill"}
    /\ queued \subseteq {"restore", "recover", "activate", "firewall"}
    /\ intent \in {"on", "off"} /\ faults \in 0 .. MaxFaults /\ requests \in 0 .. MaxRequests

\* The router has booted: only the marker of a manual stop is left.
ServiceInit ==
    /\ stopped \in BOOLEAN /\ intent = (IF stopped THEN "off" ELSE "on")
    /\ degraded = FALSE /\ rules = FALSE /\ hijack = FALSE
    /\ live = {} /\ bound = 0 /\ sick = FALSE /\ tun = FALSE /\ pidfile = 0
    /\ cmd = [Free EXCEPT !.op = "boot", !.pc = "boot"]
    /\ cron = FALSE /\ strikes = [c \in {"dns", "out"} |-> 0] /\ minute = FALSE
    /\ sup = NoSup /\ guard = "none" /\ queued = {}
    /\ outbound = TRUE /\ fit = TRUE /\ faults = 0 /\ requests = 0

-----------------------------------------------------------------------------
(* Who asks for the lock.                                                    *)

LockFree == cmd.pc = "free"
At(pc) == cmd.pc = pc
Goto(pc) == cmd' = [cmd EXCEPT !.pc = pc]
Done == cmd' = Free
Enter(op, pc) == LockFree /\ cmd' = [Free EXCEPT !.op = op, !.pc = pc]
Otherwise == UNCHANGED <<markers, network, processes, watchdog, background, history>>

\* What the user wants is on record once their command begins.
UserAsks(op) ==
    /\ requests < MaxRequests /\ requests' = requests + 1
    /\ Enter(op, IF op = "fast" THEN "start" ELSE op)
    /\ intent' = CASE op \in {"start", "fast"} -> "on" [] op = "stop" -> "off" [] OTHER -> intent
    /\ UNCHANGED <<markers, network, processes, watchdog, background, outbound, fit, faults>>
CronAsks ==
    /\ cron /\ minute /\ minute' = FALSE /\ Enter("watchdog", "watchdog")
    /\ UNCHANGED <<markers, network, processes, cron, strikes, background, history>>
\* A child that waits too long for the lock gives up: only a start that waits for the
\* TUN device or for the listener, or a stop, takes that long.
GivesUp == cmd.pc \in {"start-rules", "start-dns", "stop-daemon", "stop-network"}
ChildAsks(op) ==
    /\ op \in queued /\ queued' = queued \ {op}
    /\ Enter(op, op) \/ (GivesUp /\ UNCHANGED cmd)
    /\ UNCHANGED <<markers, network, processes, watchdog, sup, guard, history>>

\* Cron comes once a minute; the retries of the supervisor and the time its
\* children and the guard's wait for the lock are seconds.
MinutePasses ==
    /\ ~ minute /\ LockFree /\ minute' = TRUE /\ queued = {} /\ guard \in {"none", "loop"}
    /\ sup.pc \in {"none", "hold"} \/ (sup.pc = "watch" /\ sup.pid \in live /\ sup.pid = bound)
    /\ UNCHANGED <<markers, network, processes, cmd, cron, strikes, background, history>>

-----------------------------------------------------------------------------
(* do_boot, do_restart and do_stop.                                          *)

Boot == At("boot") /\ (IF stopped THEN Done ELSE Goto("start")) /\ Otherwise

\* A restart keeps a manual stop.
Restart == At("restart") /\ (IF stopped THEN Done ELSE Goto("stop")) /\ Otherwise

\* The marker first, then the guard and the supervisor, then the daemons.
Stop ==
    /\ At("stop") /\ Goto("stop-watchers")
    /\ stopped' = TRUE
    /\ UNCHANGED <<degraded, network, processes, watchdog, background, history>>
\* A child that a killed parent waited for goes on alone.
SupChild == IF sup.pc \in {"restore", "restore-kill"} THEN {"restore"} ELSE {}
GuardChild == IF guard \in {"restore", "recover"} THEN {guard} ELSE {}
StopWatchers ==
    /\ At("stop-watchers") /\ Goto("stop-daemon")
    /\ sup' = NoSup /\ guard' = "none" /\ queued' = queued \cup SupChild \cup GuardChild
    /\ UNCHANGED <<markers, network, processes, watchdog, history>>
\* only the registered daemon is ended
StopDaemon_Registered ==
    /\ At("stop-daemon") /\ Goto("stop-network") /\ pidfile' = 0
    /\ live' = live \ {pidfile}
    /\ IF bound = pidfile THEN bound' = 0 /\ sick' = FALSE /\ tun' = FALSE ELSE UNCHANGED <<bound, sick, tun>>
    /\ UNCHANGED <<markers, network, watchdog, background, history>>
\* The registered daemon, and every other there is.
StopDaemon ==
    /\ At("stop-daemon") /\ Goto("stop-network")
    /\ live' = {} /\ bound' = 0 /\ sick' = FALSE /\ tun' = FALSE /\ pidfile' = 0
    /\ UNCHANGED <<markers, network, watchdog, background, history>>
\* restore_direct_network, the crontab, the marker; a failure ends a restart too.
StopNetwork ==
    /\ At("stop-network")
    /\ degraded' = FALSE /\ cron' = FALSE /\ strikes' = [strikes EXCEPT !["out"] = 0]
    /\ \/ /\ rules' = FALSE /\ hijack' = FALSE
          /\ IF cmd.op = "restart" THEN Goto("start") ELSE Done
       \/ CleanupFails /\ UNCHANGED network /\ Done
    /\ UNCHANGED <<stopped, processes, minute, background, history>>

-----------------------------------------------------------------------------
(* do_start.                                                                 *)

FailOpen == degraded' = TRUE /\ rules' = FALSE /\ hijack' = FALSE
\* The watchdog goes on after a start, other commands end.
Finish == cmd' = IF cmd.then = "free" THEN Free ELSE [cmd EXCEPT !.pc = cmd.then, !.then = "free"]

\* Not running: strays are cleared and the stop marker goes.
Start ==
    /\ At("start")
    /\ IF IsRunning THEN Finish /\ UNCHANGED <<stopped, live, bound, sick, tun>>
       ELSE /\ live' = {} /\ bound' = 0 /\ sick' = FALSE /\ tun' = FALSE
            /\ stopped' = FALSE
            /\ cmd' = [cmd EXCEPT !.pc = "start-supervised", !.want = ~ degraded]
    /\ UNCHANGED <<degraded, network, pidfile, watchdog, background, history>>
\* start_daemon_supervised kills the old supervisor.
StartSupervised ==
    /\ At("start-supervised") /\ Goto("start-wait")
    /\ sup' = [NoSup EXCEPT !.pc = "top"] /\ queued' = queued \cup SupChild
    /\ UNCHANGED <<markers, network, processes, watchdog, guard, history>>
\* The pid file is polled for three seconds; the supervisor has launched by then.
StartWait ==
    /\ At("start-wait") /\ sup.pid # 0
    /\ \/ /\ IsRunning
          /\ guard' = "loop"
          /\ Goto(IF cmd.want /\ cmd.op # "fast" THEN "start-rules" ELSE "start-cron")
          /\ queued' = queued \cup GuardChild
                       \cup (IF cmd.op = "fast" /\ cmd.want THEN {"activate"} ELSE {})
          /\ UNCHANGED <<degraded, network, pidfile>>
       \/ /\ ~ IsRunning
          /\ pidfile' = 0 /\ FailOpen
          /\ Finish /\ UNCHANGED <<guard, queued>>
    /\ UNCHANGED <<stopped, live, bound, sick, tun, watchdog, sup, history>>
\* The child of a fast start looks again before it installs anything.
Activate ==
    /\ At("activate") /\ (IF ~ stopped /\ ~ degraded /\ IsRunning THEN Goto("start-rules") ELSE Done)
    /\ Otherwise
\* activate_startup_network: routing before DNS, each over a working daemon.
StartRules ==
    /\ At("start-rules")
    /\ IF TunUp THEN rules' = TRUE /\ Goto("start-dns") /\ UNCHANGED <<degraded, hijack>>
       ELSE FailOpen /\ Finish
    /\ UNCHANGED <<stopped, processes, watchdog, background, history>>
StartDns ==
    /\ At("start-dns")
    /\ IF ListenerUp
       THEN /\ hijack' = TRUE /\ UNCHANGED <<degraded, rules>>
            /\ IF cmd.op = "activate" THEN Done ELSE Goto("start-cron")
       ELSE FailOpen /\ Finish
    /\ UNCHANGED <<stopped, processes, watchdog, background, history>>
\* setup_cron; a start in fail-open mode also removes what was left installed.
StartCron ==
    /\ At("start-cron") /\ Goto("recover")
    /\ cron' = TRUE
    /\ IF cmd.want THEN UNCHANGED network ELSE rules' = FALSE /\ hijack' = FALSE
    /\ UNCHANGED <<markers, processes, strikes, minute, background, history>>

-----------------------------------------------------------------------------
(* try_recover_lan_proxy, network-restore and firewall-restore.              *)

\* Only a healthy daemon gets the LAN back, and never after a manual stop.
Recover ==
    /\ At("recover")
    /\ IF degraded /\ ~ stopped /\ IsRunning /\ ListenerUp /\ ProbeOk THEN Goto("recover-rules") ELSE Finish
    /\ Otherwise
RecoverRules ==
    /\ At("recover-rules")
    /\ IF TunUp THEN rules' = TRUE /\ Goto("recover-dns") ELSE UNCHANGED rules /\ Finish
    /\ UNCHANGED <<markers, hijack, processes, watchdog, background, history>>
RecoverDns ==
    /\ At("recover-dns")
    /\ IF ListenerUp THEN hijack' = TRUE /\ Goto("recover-clear") /\ UNCHANGED <<degraded, rules>>
       ELSE FailOpen /\ Finish
    /\ UNCHANGED <<stopped, processes, watchdog, background, history>>
RecoverClear ==
    /\ At("recover-clear") /\ Finish
    /\ degraded' = FALSE /\ strikes' = [strikes EXCEPT !["out"] = 0]
    /\ UNCHANGED <<stopped, network, processes, cron, minute, background, history>>

\* The direct network; a daemon that is up loses its TUN device.
Direct == rules' = FALSE /\ hijack' = FALSE /\ tun' = FALSE
Restore ==
    /\ At("restore") /\ Done /\ Direct
    /\ UNCHANGED <<markers, live, bound, sick, pidfile, watchdog, background, history>>

\* The firmware rebuilt its firewall: the rules come back, or the LAN fails open.
FirewallRestore ==
    /\ At("firewall") /\ Done
    /\ CASE stopped \/ degraded \/ ~ IsRunning -> UNCHANGED <<degraded, network>>
         [] ~ stopped /\ ~ degraded /\ IsRunning /\ TunUp -> rules' = TRUE /\ UNCHANGED <<degraded, hijack>>
         [] OTHER -> FailOpen
    /\ UNCHANGED <<stopped, processes, watchdog, background, history>>

-----------------------------------------------------------------------------
(* do_watchdog.                                                              *)

Watchdog ==
    /\ At("watchdog")
    /\ CASE stopped -> degraded' = FALSE /\ strikes' = [strikes EXCEPT !["out"] = 0]
                       /\ Done /\ UNCHANGED network
         [] ~ stopped /\ ~ IsRunning -> /\ FailOpen /\ UNCHANGED strikes
                                        /\ cmd' = [cmd EXCEPT !.pc = "start", !.then = "watch-healthy"]
         [] OTHER -> Goto("watch-probe") /\ UNCHANGED <<degraded, network, strikes>>
    /\ UNCHANGED <<stopped, processes, cron, minute, background, history>>
WatchHealthy ==
    /\ At("watch-healthy") /\ Goto(IF IsRunning THEN "watch-probe" ELSE "watch-dns") /\ Otherwise
\* A failed check of one kind counts; enough in a row fail open.
Strike(kind) == strikes' = [strikes EXCEPT ![kind] = (@ + 1) % Strikes]
Struck(kind) == strikes[kind] + 1 = Strikes
WatchProbe ==
    /\ At("watch-probe") /\ Goto("watch-rules")
    /\ CASE degraded -> UNCHANGED <<degraded, network, strikes>>
         [] ~ degraded /\ ProbeOk -> strikes' = [strikes EXCEPT !["out"] = 0] /\ UNCHANGED <<degraded, network>>
         [] OTHER -> Strike("out") /\ IF Struck("out") THEN FailOpen ELSE UNCHANGED <<degraded, network>>
    /\ UNCHANGED <<stopped, processes, cron, minute, background, history>>
\* Missing rules are put back, stale ones removed.
WatchRules ==
    /\ At("watch-rules") /\ Goto("watch-dns")
    /\ rules' = IF degraded THEN FALSE ELSE rules \/ TunUp
    /\ UNCHANGED <<markers, hijack, processes, watchdog, background, history>>
\* kill_half_dead_daemon
KillHalfDead ==
    IF ~ stopped /\ IsRunning
    THEN /\ live' = live \ {pidfile}
         /\ IF bound = pidfile THEN bound' = 0 /\ sick' = FALSE /\ tun' = FALSE
            ELSE UNCHANGED <<bound, sick, tun>>
    ELSE UNCHANGED <<live, bound, sick, tun>>
WatchDns ==
    /\ At("watch-dns") /\ Goto("recover")
    /\ CASE degraded -> /\ hijack' = FALSE /\ strikes' = [strikes EXCEPT !["dns"] = 0]
                        /\ UNCHANGED <<degraded, rules, live, bound, sick, tun>>
         [] ~ degraded /\ ~ IsRunning -> /\ FailOpen /\ strikes' = [strikes EXCEPT !["dns"] = 0]
                                         /\ UNCHANGED <<live, bound, sick, tun>>
         [] ~ degraded /\ IsRunning /\ ListenerUp ->
               /\ hijack' = TRUE /\ strikes' = [strikes EXCEPT !["dns"] = 0]
               /\ UNCHANGED <<degraded, rules, live, bound, sick, tun>>
         [] OTHER ->
               /\ Strike("dns")
               /\ IF Struck("dns") THEN FailOpen /\ KillHalfDead
                  ELSE UNCHANGED <<degraded, network, live, bound, sick, tun>>
    /\ UNCHANGED <<stopped, pidfile, cron, minute, background, history>>

-----------------------------------------------------------------------------
(* The supervisor.                                                           *)

SupTo(pc) == sup' = [sup EXCEPT !.pc = pc]
BesideSup == UNCHANGED <<cmd, watchdog, guard, queued, history>>

\* The loop ends when the service was stopped, else a daemon is launched.
SupLaunches ==
    /\ sup.pc = "top"
    /\ IF stopped THEN sup' = NoSup /\ UNCHANGED processes
       ELSE /\ Daemons # live
            /\ LET d == CHOOSE x \in Daemons \ live : \A y \in Daemons \ live : x <= y
               IN /\ live' = live \cup {d} /\ pidfile' = d
                  /\ bound' = IF fit /\ bound = 0 THEN d ELSE bound
                  /\ tun' = (tun \/ (fit /\ bound = 0)) /\ UNCHANGED sick
                  /\ sup' = [sup EXCEPT !.pc = "watch", !.pid = d, !.had = (fit /\ bound = 0)]
    /\ UNCHANGED <<markers, network>> /\ BesideSup
\* The listener that was there is gone: fail open, then end the daemon.
SupSeesHang ==
    /\ sup.pc = "watch" /\ sup.pid \in live /\ sup.had /\ ~ stopped /\ ~ degraded /\ ~ ListenerUp
    /\ SupTo("restore-kill") /\ degraded' = TRUE
    /\ UNCHANGED <<stopped, network, processes>> /\ BesideSup
SupKills ==
    /\ sup.pc = "kill" /\ SupTo("watch")
    /\ live' = live \ {sup.pid}
    /\ IF bound = sup.pid THEN bound' = 0 /\ sick' = FALSE /\ tun' = FALSE
       ELSE UNCHANGED <<bound, sick, tun>>
    /\ UNCHANGED <<markers, network, pidfile>> /\ BesideSup
SupEnds ==
    /\ sup.pc = "watch" /\ sup.pid \in live /\ stopped /\ sup' = NoSup
    /\ UNCHANGED <<markers, network, processes>> /\ BesideSup
\* Its daemon has ended.
SupSeesEnd ==
    /\ sup.pc = "watch" /\ sup.pid \notin live /\ SupTo("ended")
    /\ pidfile' = IF pidfile = sup.pid THEN 0 ELSE pidfile
    /\ UNCHANGED <<markers, network, live, bound, sick, tun>> /\ BesideSup
\* Not stopped: an early end counts, the marker, then network-restore.
SupMarks ==
    /\ sup.pc = "ended"
    /\ IF stopped THEN sup' = NoSup /\ UNCHANGED degraded
       ELSE /\ degraded' = TRUE
            /\ \E n \in {sup.fails + 1} \cup (IF sup.had THEN {0} ELSE {}) :
                  sup' = [sup EXCEPT !.pc = "restore", !.fails = n]
    /\ UNCHANGED <<stopped, network, processes>> /\ BesideSup
\* the daemon is launched again without the direct network
SupRestores_Skipped ==
    /\ sup.pc \in {"restore", "restore-kill"}
    /\ SupTo(CASE sup.pc = "restore-kill" -> "kill" [] sup.fails >= 3 -> "hold" [] OTHER -> "sleep")
    /\ UNCHANGED <<markers, network, processes>> /\ BesideSup
\* The child gets the lock or gives up after 15 seconds.
SupRestores ==
    /\ sup.pc \in {"restore", "restore-kill"}
    /\ (LockFree /\ Direct) \/ (GivesUp /\ UNCHANGED <<network, tun>>)
    /\ SupTo(CASE sup.pc = "restore-kill" -> "kill" [] sup.fails >= 3 -> "hold" [] OTHER -> "sleep")
    /\ UNCHANGED <<markers, live, bound, sick, pidfile>> /\ BesideSup
SupSleeps == sup.pc = "sleep" /\ SupTo("top") /\ UNCHANGED <<markers, network, processes>> /\ BesideSup
\* After three early ends it waits for another configuration, or for the stop.
SupHolds ==
    /\ sup.pc = "hold" /\ stopped /\ sup' = NoSup
    /\ UNCHANGED <<markers, network, processes>> /\ BesideSup

-----------------------------------------------------------------------------
(* The guard.                                                                *)

GuardTo(pc) == guard' = pc /\ UNCHANGED <<pidfile, watchdog, sup, queued, history>>

GuardLooks ==
    /\ guard = "loop"
    /\ CASE stopped -> GuardTo("none") /\ UNCHANGED degraded
         [] ~ stopped /\ degraded -> IsRunning /\ GuardTo("recover") /\ UNCHANGED degraded
         [] OTHER -> (~ IsRunning \/ ~ ListenerUp) /\ GuardTo("restore") /\ degraded' = TRUE
    /\ UNCHANGED <<stopped, network, live, bound, sick, tun, cmd>>
\* Its children get the lock or give up.
GuardRestores ==
    /\ guard = "restore" /\ GuardTo(IF IsRunning /\ ~ ListenerUp THEN "kill" ELSE "loop")
    /\ (LockFree /\ Direct) \/ (GivesUp /\ UNCHANGED <<network, tun>>)
    /\ UNCHANGED <<markers, live, bound, sick, cmd>>
GuardKills == guard = "kill" /\ GuardTo("loop") /\ KillHalfDead /\ UNCHANGED <<markers, network, cmd>>
GuardRecovers ==
    /\ guard = "recover"
    /\ \/ Enter("recover", "recover") /\ GuardTo("wait")
       \/ GivesUp /\ GuardTo("loop") /\ UNCHANGED cmd
    /\ UNCHANGED <<markers, network, live, bound, sick, tun>>
GuardGoesOn ==
    /\ guard = "wait" /\ cmd.op # "recover" /\ GuardTo("loop")
    /\ UNCHANGED <<markers, network, live, bound, sick, tun, cmd>>

-----------------------------------------------------------------------------
(* The daemons, the outside and the firmware.                                *)

Fault(kind) ==
    /\ kind \in Faults /\ faults < MaxFaults /\ faults' = faults + 1
    /\ UNCHANGED <<markers, hijack, pidfile, cmd, watchdog, sup, guard, intent, requests>>
Gone(d) ==
    /\ live' = live \ {d}
    /\ IF bound = d THEN bound' = 0 /\ sick' = FALSE /\ tun' = FALSE ELSE UNCHANGED <<bound, sick, tun>>

DaemonCrashes ==
    Fault("crash") /\ (\E d \in live : Gone(d)) /\ UNCHANGED <<rules, queued, outbound, fit>>
\* It crashes, and none that is launched after it comes up.
DaemonBreaks ==
    /\ Fault("broken") /\ bound # 0 /\ Gone(bound) /\ fit' = FALSE
    /\ UNCHANGED <<rules, queued, outbound>>
ListenerDies ==
    /\ Fault("hang") /\ ListenerUp /\ sick' = TRUE
    /\ UNCHANGED <<rules, live, bound, tun, queued, outbound, fit>>
OutboundFails ==
    /\ Fault("outage") /\ outbound /\ outbound' = FALSE
    /\ UNCHANGED <<rules, live, bound, sick, tun, queued, fit>>
\* The firmware drops the rules and then runs the firewall-start hook.
FirewallRebuilt ==
    /\ Fault("flush") /\ rules /\ rules' = FALSE /\ queued' = queued \cup {"firewall"}
    /\ UNCHANGED <<live, bound, sick, tun, outbound, fit>>
OutboundReturns ==
    /\ ~ outbound /\ outbound' = TRUE
    /\ UNCHANGED <<markers, network, processes, cmd, watchdog, background, fit, intent, faults, requests>>
\* A daemon without the ports, or one that lost its TUN device, exits.
DaemonGivesUp ==
    /\ \E d \in live : (d # bound \/ ~ tun) /\ Gone(d)
    /\ UNCHANGED <<markers, network, pidfile, cmd, watchdog, background, history>>

-----------------------------------------------------------------------------
Command ==
    \/ Boot \/ Restart \/ Stop \/ StopWatchers \/ StopDaemon \/ StopNetwork
    \/ Start \/ StartSupervised \/ StartWait \/ Activate \/ StartRules \/ StartDns \/ StartCron
    \/ Recover \/ RecoverRules \/ RecoverDns \/ RecoverClear \/ Restore \/ FirewallRestore
    \/ Watchdog \/ WatchHealthy \/ WatchProbe \/ WatchRules \/ WatchDns
Supervisor == \/ SupLaunches \/ SupSeesHang \/ SupKills \/ SupEnds \/ SupSeesEnd
              \/ SupMarks \/ SupRestores \/ SupSleeps \/ SupHolds
Guard == GuardLooks \/ GuardRestores \/ GuardKills \/ GuardRecovers \/ GuardGoesOn
Children == \E op \in {"restore", "recover", "activate", "firewall"} : ChildAsks(op)
Given == \E op \in Requests : UserAsks(op)
Troubles == DaemonCrashes \/ DaemonBreaks \/ ListenerDies \/ OutboundFails \/ FirewallRebuilt

ServiceNext == \/ Command \/ Supervisor \/ Guard \/ Children \/ Given \/ CronAsks \/ MinutePasses
               \/ Troubles \/ OutboundReturns \/ DaemonGivesUp

\* The scripts run on, cron comes and gets the lock, an outage ends, and a daemon
\* that cannot serve exits.
ServiceFairness ==
    /\ WF_serviceVars(Command) /\ SF_serviceVars(Supervisor) /\ SF_serviceVars(Guard)
    /\ WF_serviceVars(DaemonGivesUp) /\ WF_serviceVars(OutboundReturns)
    /\ SF_serviceVars(MinutePasses) /\ SF_serviceVars(CronAsks) /\ SF_serviceVars(Children)

ServiceSpec == ServiceInit /\ [][ServiceNext]_serviceVars /\ ServiceFairness

-----------------------------------------------------------------------------
\* "Check that manual Stop and fail-open never re-enable interception": while the
\* service is stopped and no command runs, no daemon lives and nothing is
\* intercepted, whatever the supervisor, the guard and their left-over children do.
StoppedIsDirect == stopped /\ LockFree => live = {} /\ ~ rules /\ ~ hijack

\* The marker of a manual stop is there only if the user asked for it: a restart in
\* the background does not end as a manual stop.
IntentKept == stopped /\ LockFree => intent = "off"

\* No script and no daemon has anything left to do but wait for the next minute.
Settled ==
    /\ LockFree /\ queued = {} /\ live \subseteq {bound} /\ (bound # 0 => tun)
    /\ \/ sup.pc \in {"none", "hold"}
       \/ (sup.pc = "watch" /\ sup.pid \in live /\ (degraded \/ ListenerUp))
    /\ guard = "none" \/ (guard = "loop" /\ (degraded \/ (IsRunning /\ ListenerUp)))

\* "Slow safety net only - second-scale recovery is the in-process supervisor + guard
\* loop": without the watchdog, what the supervisor, the guard and their children do
\* takes the LAN off a daemon that does not answer.
FailsOpen == Settled /\ ~ ListenerUp => ~ rules /\ ~ hijack

\* Once troubles and commands are over, a service that was not stopped comes up for
\* good: one registered daemon, the LAN intercepted.
Healthy == ProbeOk /\ ListenerUp /\ rules /\ hijack /\ ~ degraded
Heals == <>[](stopped \/ Healthy)
=============================================================================
