------------------------------- MODULE TunMode -------------------------------
(***************************************************************************)
(* TUN mode of the desktop application: the start, stop and node switch of *)
(* the UI thread (app.rs), the blocking task that creates the device and   *)
(* the routes, the routes' record in memory and in the journal, and those  *)
(* who undo them from a record (tun.rs): the guard of the task, a starting *)
(* or ending application, and the guardian (network_guardian.rs).          *)
(*                                                                         *)
(* A start that takes more than 30 seconds is given up by the UI, not by   *)
(* its task: it may still finish, beside the next attempt.                 *)
(*                                                                         *)
(* The address of a node stands for all its addresses, IPv4 and IPv6; the  *)
(* resolvers' addresses, exempt in every set, are left out.  An original   *)
(* default route that was put aside and one that was replaced (macOS) are  *)
(* not told apart, and the journal can be written.                         *)
(***************************************************************************)
EXTENDS Naturals, Sequences, FiniteSets

CONSTANTS Procs, Nodes,
          FirstNode,     \* the node selected when an application starts
          Privileges,    \* who may change routes: a set of [Procs -> BOOLEAN]
          BypassBudget,  \* host routes update_tun_bypass_ips() may add up to
          MaxAttempts,   \* bound on starts of TUN
          MaxSwitches,   \* bound on node switches
          MaxKills       \* bound on applications and guardians killed

ASSUME NodeAssumption == FirstNode \in Nodes /\ Privileges \subseteq [Procs -> BOOLEAN]
ASSUME AttemptsAssumption == MaxAttempts \in Nat

VARIABLES route,     \* the default route: Orig, or the device <<p, a>> of an attempt
          bypass,    \* nodes with a host route past the device
          journal,   \* <<>> or <<[owner, ips]>>
          memory,    \* TUN_EXIT_STATE of each process: <<>> or <<ips>>
          lock,      \* holder of the journal lock, or Free
          life,      \* of each process: "unborn", "up", "dead"
          root,      \* may it change routes?
          guardian,  \* "none", "watching", "restoring", "done", "killed"
          ui,        \* AppState: [enabled, starting, stop, node, attempt]
          task,      \* of each process and attempt: [pc, ips, node, late]
          op,        \* the restoration (or switch) each actor is in: [pc, why, ips]
          budget

vars == <<route, bypass, journal, memory, lock, life, root, guardian, ui, task, op, budget>>

Attempts == 1..MaxAttempts
App(p) == <<"app", p, 0>>
Task(p, a) == <<"task", p, a>>
Guardian(p) == <<"guardian", p, 0>>
Actors == {App(p) : p \in Procs} \cup {Guardian(p) : p \in Procs}
            \cup {Task(p, a) : p \in Procs, a \in Attempts}
Free == <<"free", 0, 0>>
Orig == <<0, 0>>

Idle == [pc |-> "idle", why |-> "none", ips |-> {}]
NoTask == [pc |-> "none", ips |-> {}, node |-> FirstNode, late |-> FALSE]
FreshUi == [enabled |-> FALSE, starting |-> FALSE, stop |-> "none",
            node |-> FirstNode, attempt |-> 0]

\* The types, and who is inside the lock.
TypeOK ==
  /\ route \in {Orig} \cup (Procs \X Attempts) /\ bypass \subseteq Nodes
  /\ journal = <<>> \/ (Len(journal) = 1 /\ journal[1] \in [owner : Procs, ips : SUBSET Nodes])
  /\ \A p \in Procs : memory[p] = <<>> \/ (Len(memory[p]) = 1 /\ memory[p][1] \subseteq Nodes)
  /\ \A x \in Actors : op[x].pc \in {"undo", "clear"} => lock = x
  /\ \A p \in Procs, a \in Attempts :
       task[p][a].pc \in {"add", "device", "save"} => lock = Task(p, a)

Init ==
  /\ route = Orig /\ bypass = {} /\ journal = <<>> /\ memory = [p \in Procs |-> <<>>]
  /\ lock = Free /\ life = [p \in Procs |-> "unborn"] /\ root \in Privileges
  /\ guardian = [p \in Procs |-> "none"] /\ ui = [p \in Procs |-> FreshUi]
  /\ task = [p \in Procs |-> [a \in Attempts |-> NoTask]] /\ op = [x \in Actors |-> Idle]
  /\ budget = [attempts |-> MaxAttempts, switches |-> MaxSwitches, kills |-> MaxKills]

-----------------------------------------------------------------------------
(* Records and the calls that use them.                                    *)

Goto(p, a, pc) == task' = [task EXCEPT ![p][a].pc = pc]
Spend(field) == budget[field] > 0 /\ budget' = [budget EXCEPT ![field] = @ - 1]

\* save_tun_exit_state(): memory, then the journal.
SaveExitState_MemoryOnly(p, ips) ==
  memory' = [memory EXCEPT ![p] = <<ips>>] /\ UNCHANGED journal
SaveExitState(p, ips) ==
  /\ memory' = [memory EXCEPT ![p] = <<ips>>]
  /\ journal' = <<[owner |-> p, ips |-> ips]>>

Begin(x, why, ips) == op' = [op EXCEPT ![x] = [pc |-> "wait", why |-> why, ips |-> ips]]

UiIdle(p) == life[p] = "up" /\ op[App(p)] = Idle

\* foreign_owner_alive().
ForeignOwnerAlive_Never(p) == FALSE
ForeignOwnerAlive(p) == journal[1].owner # p /\ life[journal[1].owner] = "up"

\* take_exit_state(), and the owner a guardian looks for; the guard of a task
\* knows what it set up.
Taken(x) ==
  LET p == x[2]
  IN  CASE op[x].why \in {"start", "exit"} ->
             IF memory[p] # <<>> THEN memory[p]
             ELSE IF journal # <<>> /\ ~ForeignOwnerAlive(p) /\ root[p]
                  THEN <<journal[1].ips>> ELSE <<>>
        [] op[x].why = "guardian" ->
             IF journal # <<>> /\ journal[1].owner = p THEN <<journal[1].ips>> ELSE <<>>
        [] OTHER -> <<op[x].ips>>

\* The call is over; what its caller does next.
Finished(x) ==
  LET p == x[2]
      a == IF x[1] = "task" THEN x[3] ELSE ui[p].attempt
      why == op[x].why
  IN  /\ op' = [op EXCEPT ![x] = IF why = "exit" THEN [op[x] EXCEPT !.pc = "leaving"] ELSE Idle]
      /\ guardian' = IF why = "guardian" THEN [guardian EXCEPT ![p] = "done"] ELSE guardian
      /\ task' = IF why \in {"stop", "drop", "failed"}
                   THEN [task EXCEPT ![p][a].pc = CASE why = "stop" -> "stopping"
                                                    [] why = "drop" -> "ended"
                                                    [] OTHER -> "failed"]
                   ELSE task

\* Nothing to restore, or the state is taken.
Acquire(x) ==
  /\ op[x].pc = "wait" /\ lock = Free
  /\ \/ Taken(x) = <<>> /\ Finished(x) /\ UNCHANGED <<memory, lock>>
     \/ /\ Taken(x) # <<>> /\ lock' = x
        /\ op' = [op EXCEPT ![x].pc = "undo", ![x].ips = Taken(x)[1]]
        /\ memory' = IF op[x].why = "exit" THEN [memory EXCEPT ![x[2]] = <<>>] ELSE memory
        /\ UNCHANGED <<guardian, task>>
  /\ UNCHANGED <<route, bypass, journal, life, root, ui, budget>>

\* The device's default route goes first, then the host routes of the record.
Undo(x) ==
  /\ op[x].pc = "undo" /\ op' = [op EXCEPT ![x].pc = "clear"]
  /\ route' = Orig /\ bypass' = bypass \ op[x].ips
  /\ UNCHANGED <<journal, memory, lock, life, root, guardian, ui, task, budget>>

\* clear_tun_exit_state().
Clear(x) ==
  /\ op[x].pc = "clear" /\ lock' = Free /\ Finished(x)
  /\ journal' = <<>>
  /\ memory' = IF x[1] = "guardian" THEN memory ELSE [memory EXCEPT ![x[2]] = <<>>]
  /\ UNCHANGED <<route, bypass, life, root, ui, budget>>

\* journal_lock() gives up after five seconds, of all holders behind one that
\* waits for its device; the caller does not try again.  A stop, whose guard
\* would when it is dropped, does not meet this: while its device has the
\* default route every setup is refused.
LockTimeout(x) ==
  /\ op[x].why # "stop"
  /\ op[x].pc = "wait" /\ \E p \in Procs, a \in Attempts : task[p][a].pc = "device"
  /\ Finished(x)
  /\ UNCHANGED <<route, bypass, journal, memory, lock, life, root, ui, budget>>

-----------------------------------------------------------------------------
(* The task of an attempt: setup_tun_routes().                             *)

\* The journal lock, the check of the default route and, before the first
\* change, the record.
OwnedByTun == route # Orig

SetUp(p, a) ==
  /\ task[p][a].pc = "resolve" /\ lock = Free /\ ~OwnedByTun
  /\ lock' = Task(p, a) /\ Goto(p, a, "add") /\ SaveExitState(p, task[p][a].ips)
  /\ UNCHANGED <<route, bypass, life, root, guardian, ui, op, budget>>

\* No address, no device, no lock, or "Another TUN already owns the default
\* route".
Refused(p, a) ==
  /\ task[p][a].pc = "resolve" /\ Goto(p, a, "failed")
  /\ UNCHANGED <<route, bypass, journal, memory, lock, life, root, guardian, ui, op, budget>>

AddBypass(p, a) ==
  /\ task[p][a].pc = "add" /\ Goto(p, a, "device")
  /\ bypass' = bypass \cup task[p][a].ips
  /\ UNCHANGED <<route, journal, memory, lock, life, root, guardian, ui, op, budget>>

SetDefault(p, a) ==
  /\ task[p][a].pc = "device" /\ Goto(p, a, "save") /\ route' = <<p, a>>
  /\ UNCHANGED <<bypass, journal, memory, lock, life, root, guardian, ui, op, budget>>

\* A failing command: emergency_restore_routes_unlocked().
SetupFails(p, a) ==
  /\ task[p][a].pc \in {"add", "device"} /\ Goto(p, a, "failing")
  /\ op' = [op EXCEPT ![Task(p, a)] = [pc |-> "undo", why |-> "failed", ips |-> memory[p][1]]]
  /\ memory' = [memory EXCEPT ![p] = <<>>]
  /\ UNCHANGED <<route, bypass, journal, lock, life, root, guardian, ui, budget>>

Save(p, a) ==
  /\ task[p][a].pc = "save" /\ Goto(p, a, "done") /\ lock' = Free
  /\ SaveExitState(p, task[p][a].ips)
  /\ UNCHANGED <<route, bypass, life, root, guardian, ui, op, budget>>

\* Nobody waits for the result any more: the guard is dropped in the task.
DropResult(p, a) ==
  /\ task[p][a].pc = "done" /\ task[p][a].late /\ Goto(p, a, "dropping")
  /\ Begin(Task(p, a), "drop", task[p][a].ips)
  /\ UNCHANGED <<route, bypass, journal, memory, lock, life, root, guardian, ui, budget>>

-----------------------------------------------------------------------------
(* The UI thread.                                                          *)

SetUi(p, new) == ui' = [ui EXCEPT ![p] = new]

\* start_tun(), privileged and with the guardian running.
StartTun(p) ==
  LET u == ui[p]
  IN  /\ UiIdle(p) /\ root[p] /\ ~u.enabled /\ ~u.starting /\ Spend("attempts")
      /\ guardian' = [guardian EXCEPT ![p] = "watching"]
      /\ SetUi(p, [u EXCEPT !.starting = TRUE, !.stop = "armed", !.attempt = @ + 1])
      /\ task' = [task EXCEPT ![p][u.attempt + 1] =
                    [pc |-> "resolve", ips |-> {u.node}, node |-> u.node, late |-> FALSE]]
      /\ UNCHANGED <<route, bypass, journal, memory, lock, life, root, op>>

\* The 30 seconds are over.
StartTimeout(p) ==
  LET a == ui[p].attempt
  IN  /\ UiIdle(p) /\ ui[p].starting /\ task[p][a].pc # "failed"
      /\ task' = [task EXCEPT ![p][a].late = TRUE]
      /\ SetUi(p, [ui[p] EXCEPT !.starting = FALSE, !.stop = "none"])
      /\ UNCHANGED <<route, bypass, journal, memory, lock, life, root, guardian, op, budget>>

Started(p) ==
  LET a == ui[p].attempt
  IN  /\ UiIdle(p) /\ ui[p].starting /\ task[p][a].pc \in {"done", "failed"}
      /\ \/ /\ task[p][a].pc = "done" /\ Goto(p, a, "up")
            /\ SetUi(p, [ui[p] EXCEPT !.starting = FALSE, !.enabled = TRUE])
         \/ /\ task[p][a].pc = "failed" /\ Goto(p, a, "ended")
            /\ SetUi(p, [ui[p] EXCEPT !.starting = FALSE, !.stop = "none"])
      /\ UNCHANGED <<route, bypass, journal, memory, lock, life, root, guardian, op, budget>>

\* stop_tun(), by the user, with the proxy, or when the proxy's session ends.
Signalled(u) == [u EXCEPT !.stop = IF @ = "armed" THEN "sent" ELSE @]

StopTun(p) ==
  /\ UiIdle(p) /\ ui[p].stop = "armed" /\ SetUi(p, Signalled(ui[p]))
  /\ UNCHANGED <<route, bypass, journal, memory, lock, life, root, guardian, task, op, budget>>

\* The signal arrives: TunRouteGuard::restore() on the UI thread ...
TearDown(p) ==
  LET a == ui[p].attempt
  IN  /\ UiIdle(p) /\ ui[p].enabled /\ ui[p].stop = "sent" /\ task[p][a].pc = "up"
      /\ Goto(p, a, "restoring") /\ Begin(App(p), "stop", task[p][a].ips)
      /\ UNCHANGED <<route, bypass, journal, memory, lock, life, root, guardian, ui, budget>>

\* ... then the wait for the device to stop, with the thread free.
Stopped(p) ==
  LET a == ui[p].attempt
  IN  /\ UiIdle(p) /\ ui[p].enabled /\ task[p][a].pc = "stopping" /\ Goto(p, a, "ended")
      /\ SetUi(p, [ui[p] EXCEPT !.enabled = FALSE, !.stop = "none"])
      /\ UNCHANGED <<route, bypass, journal, memory, lock, life, root, guardian, op, budget>>

\* apply_outbound_hot_swap(): with TUN on, update_tun_bypass_ips() adds the
\* new node's route; without a record, over the budget or without an address
\* the caller restarts the proxy instead.
Exempted_RecordOnly(n) == {}
Exempted(n) == {n}

SwitchNode(p, n) ==
  LET u == [ui[p] EXCEPT !.node = n]
  IN  /\ UiIdle(p) /\ n # ui[p].node /\ Spend("switches")
      /\ \/ ~u.enabled /\ SetUi(p, u) /\ UNCHANGED <<bypass, op>>
         \/ /\ u.enabled /\ memory[p] # <<>>
            /\ Cardinality(memory[p][1] \cup {n}) <= BypassBudget
            /\ bypass' = bypass \cup Exempted(n) /\ SetUi(p, u)
            /\ op' = [op EXCEPT ![App(p)] = [pc |-> "publish", why |-> "switch",
                                             ips |-> memory[p][1] \cup {n}]]
         \/ u.enabled /\ SetUi(p, Signalled(u)) /\ UNCHANGED <<bypass, op>>
      /\ UNCHANGED <<route, journal, memory, lock, life, root, guardian, task>>

\* Its end: the record, without the lock, and then the new outbound.
Publish(p) ==
  LET a == ui[p].attempt
  IN  /\ op[App(p)].pc = "publish" /\ op' = [op EXCEPT ![App(p)] = Idle]
      /\ SaveExitState(p, op[App(p)].ips)
      /\ task' = [task EXCEPT ![p][a].node = ui[p].node]
      /\ UNCHANGED <<route, bypass, lock, life, root, guardian, ui, budget>>

-----------------------------------------------------------------------------
(* The life of the processes.                                              *)

Start(p) ==
  /\ life[p] = "unborn" /\ life' = [life EXCEPT ![p] = "up"]
  /\ Begin(App(p), "start", {})
  /\ UNCHANGED <<route, bypass, journal, memory, lock, root, guardian, ui, task, budget>>

\* cleanup_on_exit(); the process goes on for a moment.
Exit(p) ==
  /\ UiIdle(p) /\ Begin(App(p), "exit", {})
  /\ UNCHANGED <<route, bypass, journal, memory, lock, life, root, guardian, ui, task, budget>>

Dies(p) ==
  /\ life' = [life EXCEPT ![p] = "dead"] /\ memory' = [memory EXCEPT ![p] = <<>>]
  /\ ui' = [ui EXCEPT ![p] = FreshUi] /\ task' = [task EXCEPT ![p] = [a \in Attempts |-> NoTask]]
  /\ op' = [x \in Actors |-> IF x[2] = p /\ x[1] # "guardian" THEN Idle ELSE op[x]]
  /\ lock' = IF lock[2] = p /\ lock[1] # "guardian" THEN Free ELSE lock
  /\ UNCHANGED <<route, bypass, journal, root, guardian>>

Gone(p) == op[App(p)].pc = "leaving" /\ Dies(p) /\ UNCHANGED budget

Crash(p) == life[p] = "up" /\ Spend("kills") /\ Dies(p)

GuardianWakes(p) ==
  /\ life[p] = "dead" /\ guardian[p] = "watching"
  /\ guardian' = [guardian EXCEPT ![p] = "restoring"] /\ Begin(Guardian(p), "guardian", {})
  /\ UNCHANGED <<route, bypass, journal, memory, lock, life, root, ui, task, budget>>

\* A guardian killed earlier is replaced by the next start of TUN (ensure());
\* only one killed after its application's end is modelled.
GuardianKilled(p) ==
  /\ life[p] = "dead" /\ guardian[p] \in {"watching", "restoring"} /\ Spend("kills")
  /\ guardian' = [guardian EXCEPT ![p] = "killed"]
  /\ op' = [op EXCEPT ![Guardian(p)] = Idle]
  /\ lock' = IF lock = Guardian(p) THEN Free ELSE lock
  /\ UNCHANGED <<route, bypass, journal, memory, life, root, ui, task>>

-----------------------------------------------------------------------------
Restore(x) == Acquire(x) \/ Undo(x) \/ Clear(x) \/ LockTimeout(x)
GuardianStep(p) == GuardianWakes(p) \/ Restore(Guardian(p))
TaskStep(p, a) ==
  \/ SetUp(p, a) \/ Refused(p, a) \/ AddBypass(p, a) \/ SetDefault(p, a)
  \/ SetupFails(p, a) \/ Save(p, a) \/ DropResult(p, a) \/ Restore(Task(p, a))

Next ==
  \E p \in Procs :
    \/ Start(p) \/ StartTun(p) \/ StartTimeout(p) \/ Started(p) \/ StopTun(p) \/ TearDown(p) \/ Stopped(p)
    \/ \E n \in Nodes : SwitchNode(p, n)
    \/ Publish(p) \/ Restore(App(p)) \/ Exit(p) \/ Gone(p) \/ Crash(p)
    \/ GuardianStep(p) \/ GuardianKilled(p)
    \/ \E a \in Attempts : TaskStep(p, a)

Spec == Init /\ [][Next]_vars

\* The closing pipe wakes the guardian; a setup or a restoration under way
\* runs on.
Fairness ==
  \A p \in Procs :
    /\ WF_vars(GuardianStep(p)) /\ WF_vars(Restore(App(p)))
    /\ \A a \in Attempts : WF_vars(TaskStep(p, a))
FairSpec == Spec /\ Fairness

-----------------------------------------------------------------------------
(* Properties.                                                             *)

\* The default route through the device of a running application is removed
\* by its own thread or by the very task that installed it: never by another
\* instance, by the guardian of an earlier one, or by an attempt the UI gave
\* up and that ends late.  Only in the last moments of an exiting process,
\* whose record is gone already, may a guard it still holds hit another's.
LiveTunKept ==
  [][route # Orig /\ life[route[1]] = "up" /\ route' # route
       => \/ lock \in {App(route[1]), Task(route[1], route[2])}
          \/ op[App(lock[2])].why = "exit"]_vars

\* "Prepare loop avoidance before publishing the new node": as long as the
\* default route leads into a running application's device, the node that
\* this device's traffic is sent to has a route past it.
LoopAvoided ==
  route # Orig /\ life[route[1]] = "up" => task[route[1]][route[2]].node \in bypass

\* "Register rollback BEFORE the first route mutation": wherever an
\* application ends, a guardian that outlives it takes the default route out
\* of its device.
DeadTunCleared ==
  \A p \in Procs :
    (life[p] = "dead" /\ guardian[p] = "watching") ~> (guardian[p] = "killed" \/ route[1] # p)

\* "Call this on every node change to keep the exemptions in sync": with TUN
\* on and no switch under way, the device serves the node last switched to.
DeviceServesSelected ==
  \A p \in Procs :
    LET t == task[p][ui[p].attempt]
    IN  ui[p].enabled /\ ui[p].stop = "armed" /\ UiIdle(p) => t.node = ui[p].node

\* "Keep old bypasses until teardown": with no TUN, no record and nobody at
\* work, none of the host routes is left.
TeardownComplete ==
  lock = Free /\ route = Orig /\ journal = <<>> /\ (\A p \in Procs : memory[p] = <<>>)
    => bypass = {}
=============================================================================
