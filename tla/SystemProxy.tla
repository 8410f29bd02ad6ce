----------------------------- MODULE SystemProxy -----------------------------
(***************************************************************************)
(* Ownership of the desktop's proxy setting (managed_proxy.rs): enable()   *)
(* records in a journal what it is about to replace, restore() puts it     *)
(* back, recover_if_stale() does so for a predecessor that died, and the   *)
(* guardian (network_guardian.rs) for the process whose pipe it watches.   *)
(* Several instances of the application share the journal, under a file    *)
(* lock; the user may change the setting behind their back.                *)
(*                                                                         *)
(* A setting is whether the proxy is enabled and its address (the bypass   *)
(* list goes with the address).  This is the path of Windows and Linux;    *)
(* macOS keeps a journal per network service.                              *)
(***************************************************************************)
EXTENDS Naturals, Sequences

CONSTANTS Instances,       \* the processes of the application
          Ports,
          UserSettings,    \* settings the user may choose
          MaxFailures,     \* bound on failing writes, OS calls and lock waits
          MaxUserChanges,  \* bound on changes by the user
          ProxyKills,      \* bound on guardians killed
          PartialWrites,   \* may a failing OS call have written some fields?
          Repoint          \* may the port change while the old one is recorded?

VARIABLES os,        \* the setting
          choice,    \* history: the setting the user last chose
          record,    \* <<>> or <<[owner, previous, applied]>>
          holder,    \* holder of the journal lock, or Nobody
          born,      \* of each process: "unborn", "up", "dead"
          session,   \* "idle", "listening", "enabled" (traffic handed over)
          port,      \* http_port
          guard,     \* guardian: "none", "watching", "restoring", "done", "killed"
          call,      \* the call each process or guardian is in: [pc, why, left]
          left       \* what is left of the bounds

proxyVars == <<os, choice, record, holder, born, session, port, guard, call, left>>

ProxyApp(p) == <<"app", p>>
ProxyGuardian(p) == <<"guardian", p>>
Nobody == <<"free", 0>>
Callers == {ProxyApp(p) : p \in Instances} \cup {ProxyGuardian(p) : p \in Instances}

Disabled == [on |-> FALSE, addr |-> "none"]
Ours(q) == [on |-> TRUE, addr |-> q]
Settings == [on : BOOLEAN, addr : Ports \cup {"none", "corp"}]
Records == [owner : Instances, previous : Settings, applied : {Ours(q) : q \in Ports}]
NoCall == [pc |-> "idle", why |-> "none", left |-> 0]

\* same_proxy().
Same(a, b) == a.on = b.on /\ (a.on => a.addr = b.addr)

ASSUME PortsAssumption == Ports # {}

\* The user does not choose the address of the application's own proxy, which
\* nothing could tell from the application's doing.
ASSUME UserSettingsAssumption ==
  /\ UserSettings \subseteq Settings
  /\ \A s \in UserSettings, q \in Ports : ~Same(s, Ours(q))

ProxyTypeOK ==
  /\ os \in Settings /\ choice \in UserSettings
  /\ record = <<>> \/ (Len(record) = 1 /\ record[1] \in Records)
  /\ holder \in Callers \cup {Nobody}
  /\ \A a \in Callers : holder = a <=> call[a].pc \in {"set", "apply", "remove"}
  /\ \A p \in Instances : session[p] # "idle" => born[p] = "up"

ProxyInit ==
  /\ choice \in UserSettings /\ os = choice /\ record = <<>> /\ holder = Nobody
  /\ born = [p \in Instances |-> "unborn"] /\ session = [p \in Instances |-> "idle"]
  /\ port = [p \in Instances |-> CHOOSE q \in Ports : TRUE]
  /\ guard = [p \in Instances |-> "none"] /\ call = [a \in Callers |-> NoCall]
  /\ left = [failures |-> MaxFailures, user |-> MaxUserChanges, kills |-> ProxyKills]

-----------------------------------------------------------------------------
(* The user, and the life of a process.                                    *)

\* A change between the check and the write of a transaction is not modelled.
UserChanges ==
  /\ holder = Nobody /\ left.user > 0 /\ left' = [left EXCEPT !.user = @ - 1]
  /\ os' \in UserSettings \ {os} /\ choice' = os'
  /\ UNCHANGED <<record, holder, born, session, port, guard, call>>

Call(p, pc, why, tries) ==
  /\ born[p] = "up" /\ call[ProxyApp(p)] = NoCall
  /\ call' = [call EXCEPT ![ProxyApp(p)] = [pc |-> pc, why |-> why, left |-> tries]]

ProxyStart(p) ==
  /\ born[p] = "unborn" /\ born' = [born EXCEPT ![p] = "up"]
  /\ call' = [call EXCEPT ![ProxyApp(p)] = [pc |-> "check", why |-> "start", left |-> 1]]
  /\ UNCHANGED <<os, choice, record, holder, session, port, guard, left>>

Listening(q) == \E p \in Instances : session[p] # "idle" /\ port[p] = q

Listen(p) ==
  /\ born[p] = "up" /\ call[ProxyApp(p)] = NoCall /\ session[p] = "idle" /\ ~Listening(port[p])
  /\ session' = [session EXCEPT ![p] = "listening"]
  /\ UNCHANGED <<os, choice, record, holder, born, port, guard, call, left>>

ChangePort(p) ==
  /\ born[p] = "up" /\ call[ProxyApp(p)] = NoCall /\ session[p] = "idle"
  /\ Repoint \/ record = <<>>
  /\ \E q \in Ports \ {port[p]} : port' = [port EXCEPT ![p] = q]
  /\ UNCHANGED <<os, choice, record, holder, born, session, guard, call, left>>

\* set_os_proxy(): the guardian must be up before anything is taken over.
Enable(p) ==
  /\ Call(p, "record", "rollback", 1)
  /\ guard' = [guard EXCEPT ![p] = "watching"]
  /\ UNCHANGED <<os, choice, record, holder, born, session, port, left>>

\* stop_proxy() and the application's exit.
Stop(p) ==
  /\ session[p] # "idle" /\ Call(p, "check", "stop", 1)
  /\ UNCHANGED <<os, choice, record, holder, born, session, port, guard, left>>

ProxyExit(p) ==
  /\ Call(p, "check", "exit", 2)
  /\ UNCHANGED <<os, choice, record, holder, born, session, port, guard, left>>

\* The system releases the lock of a process that dies.
Released(a) == IF holder = a THEN Nobody ELSE holder

ProxyCrash(p) ==
  /\ born[p] = "up" /\ born' = [born EXCEPT ![p] = "dead"]
  /\ session' = [session EXCEPT ![p] = "idle"] /\ call' = [call EXCEPT ![ProxyApp(p)] = NoCall]
  /\ holder' = Released(ProxyApp(p))
  /\ UNCHANGED <<os, choice, record, port, guard, left>>

ProxyGuardianWakes(p) ==
  /\ born[p] = "dead" /\ guard[p] = "watching"
  /\ guard' = [guard EXCEPT ![p] = "restoring"]
  /\ call' = [call EXCEPT ![ProxyGuardian(p)] = [pc |-> "check", why |-> "after_exit", left |-> 3]]
  /\ UNCHANGED <<os, choice, record, holder, born, session, port, left>>

\* A guardian only acts after its application's end: killed before, it is as if
\* it was killed then.
ProxyGuardianKilled(p) ==
  /\ born[p] = "dead" /\ guard[p] \in {"watching", "restoring"}
  /\ guard' = [guard EXCEPT ![p] = "killed"]
  /\ left.kills > 0 /\ left' = [left EXCEPT !.kills = @ - 1]
  /\ call' = [call EXCEPT ![ProxyGuardian(p)] = NoCall]
  /\ holder' = Released(ProxyGuardian(p))
  /\ UNCHANGED <<os, choice, record, born, session, port>>

-----------------------------------------------------------------------------
(* enable().                                                               *)

Fails == left.failures > 0 /\ left' = [left EXCEPT !.failures = @ - 1]

\* What a failing OS call may have left behind.
Damage(old, new) ==
  IF PartialWrites THEN [on : {old.on, new.on}, addr : {old.addr, new.addr}] ELSE {old, new}

GoOn(a, pc) == call' = [call EXCEPT ![a].pc = pc]

\* The setting to put back: the recorded one while ours is still in place.
Previous_Current(p) == os
Previous(p) == IF record # <<>> /\ Same(os, record[1].applied) THEN record[1].previous ELSE os

ManagedByOther(p) ==
  record # <<>> /\ Same(os, record[1].applied) /\ record[1].owner # p

Record(p) ==
  /\ call[ProxyApp(p)].pc = "record" /\ holder = Nobody
  /\ \/ ManagedByOther(p) /\ GoOn(ProxyApp(p), "check") /\ UNCHANGED <<record, holder, left>>
     \/ /\ ~ManagedByOther(p) /\ GoOn(ProxyApp(p), "set") /\ holder' = ProxyApp(p)
        /\ record' = <<[owner |-> p, previous |-> Previous(p), applied |-> Ours(port[p])]>>
        /\ UNCHANGED left
     \/ ~ManagedByOther(p) /\ Fails /\ GoOn(ProxyApp(p), "check") /\ UNCHANGED <<record, holder>>
  /\ UNCHANGED <<os, choice, born, session, port, guard>>

\* Set and confirm.
SetOs(p) ==
  /\ call[ProxyApp(p)].pc = "set" /\ holder' = Nobody
  /\ \/ /\ os' = Ours(port[p]) /\ call' = [call EXCEPT ![ProxyApp(p)] = NoCall]
        /\ session' = IF session[p] = "idle" THEN session ELSE [session EXCEPT ![p] = "enabled"]
        /\ UNCHANGED left
     \/ /\ Fails /\ os' \in Damage(os, Ours(port[p])) /\ GoOn(ProxyApp(p), "check")
        /\ UNCHANGED session
  /\ UNCHANGED <<choice, record, born, port, guard>>

-----------------------------------------------------------------------------
(* restore_owned().                                                        *)

\* The call is over; what its caller does next.
Ended(a) ==
  LET p == a[2] IN
  /\ call' = [call EXCEPT ![a] = NoCall]
  /\ session' = IF call[a].why \in {"stop", "exit"} THEN [session EXCEPT ![p] = "idle"] ELSE session
  /\ born' = IF call[a].why = "exit" THEN [born EXCEPT ![p] = "dead"] ELSE born
  /\ guard' = IF call[a].why = "after_exit" THEN [guard EXCEPT ![p] = "done"] ELSE guard

\* It failed: cleanup_on_exit() tries twice, the guardian three times.
Retries_Once(a) == FALSE
Retries(a) == call[a].left > 1

Failed(a) ==
  \/ ~Retries(a) /\ Ended(a)
  \/ /\ Retries(a) /\ call' = [call EXCEPT ![a].pc = "check", ![a].left = @ - 1]
     /\ UNCHANGED <<session, born, guard>>

\* Startup recovery leaves a listening owner alone, everyone else another owner.
NotMine_OwnerOnly(a) == call[a].why # "start" /\ record[1].owner # a[2]
NotMine(a) ==
  IF call[a].why = "start" THEN Listening(record[1].applied.addr) ELSE record[1].owner # a[2]

Check(a) ==
  /\ call[a].pc = "check" /\ holder = Nobody
  /\ \/ (record # <<>> => NotMine(a)) /\ Ended(a) /\ UNCHANGED holder
     \/ /\ record # <<>> /\ ~NotMine(a) /\ holder' = a
        /\ GoOn(a, IF Same(os, record[1].applied) THEN "apply" ELSE "remove")
        /\ UNCHANGED <<session, born, guard>>
  /\ UNCHANGED <<os, choice, record, port, left>>

Restored == IF record[1].previous.on THEN record[1].previous ELSE Disabled

Apply(a) ==
  /\ call[a].pc = "apply"
  /\ \/ os' = Restored /\ GoOn(a, "remove") /\ UNCHANGED <<holder, session, born, guard, left>>
     \/ Fails /\ os' \in Damage(os, Restored) /\ holder' = Nobody /\ Failed(a)
  /\ UNCHANGED <<choice, record, port>>

Remove(a) ==
  /\ call[a].pc = "remove" /\ record' = <<>> /\ holder' = Nobody /\ Ended(a)
  /\ UNCHANGED <<os, choice, port, left>>

\* journal_lock() gives up after five seconds.
LockGivenUp(a) ==
  /\ call[a].pc \in {"record", "check"} /\ holder # Nobody /\ Fails
  /\ \/ call[a].pc = "record" /\ GoOn(a, "check") /\ UNCHANGED <<session, born, guard>>
     \/ call[a].pc = "check" /\ Failed(a)
  /\ UNCHANGED <<os, choice, record, holder, port>>

-----------------------------------------------------------------------------
Step(a) == Check(a) \/ Apply(a) \/ Remove(a) \/ LockGivenUp(a)
ProxyAppStep(p) == Record(p) \/ SetOs(p) \/ Step(ProxyApp(p))
ProxyGuardianStep(p) == ProxyGuardianWakes(p) \/ Step(ProxyGuardian(p))

ProxyNext ==
  \/ UserChanges
  \/ \E p \in Instances :
       \/ ProxyStart(p) \/ Listen(p) \/ ChangePort(p) \/ Enable(p) \/ Stop(p) \/ ProxyExit(p)
       \/ ProxyCrash(p) \/ ProxyGuardianKilled(p) \/ ProxyAppStep(p) \/ ProxyGuardianStep(p)

ProxySpec == ProxyInit /\ [][ProxyNext]_proxyVars

\* A call that has begun runs on; the closing pipe wakes the guardian.
ProxyFairSpec ==
  /\ ProxySpec
  /\ \A p \in Instances : WF_proxyVars(ProxyAppStep(p)) /\ WF_proxyVars(ProxyGuardianStep(p))

-----------------------------------------------------------------------------
(* Properties.                                                             *)

\* "A failed write prevents taking ownership, rather than leaving an
\* unrecorded proxy behind": whenever there is no record and nobody is in a
\* transaction, the setting is the one the user chose, whichever instances
\* crashed, failed or restored before.
NothingLeftBehind == record = <<>> /\ holder = Nobody => Same(os, choice)

\* A running proxy to which traffic was handed over, and that is not in the
\* record as somebody else's, keeps it: the setting changes only by its own
\* hand or the user's, never by another instance's startup recovery, an old
\* guardian or a failed takeover.
LiveProxyKept ==
  [][\A p \in Instances :
       session[p] = "enabled" /\ os = Ours(port[p]) /\ (record # <<>> => record[1].owner = p)
         => os' = os \/ holder \in {Nobody, ProxyApp(p)}]_proxyVars

\* A guardian that outlives its process removes what that process recorded,
\* in spite of failing writes, calls and lock waits.
DeadOwnerCleared ==
  \A p \in Instances :
    (born[p] = "dead" /\ guard[p] = "watching")
      ~> (guard[p] = "killed" \/ record = <<>> \/ record[1].owner # p)
=============================================================================
