---------------------------- MODULE DesktopProofs ----------------------------
(***************************************************************************)
(* TLAPS proofs about what the desktop application changes in its system:  *)
(* the proxy setting and the default route, for any number of instances,   *)
(* ports, nodes, crashes and failures.                                     *)
(***************************************************************************)
EXTENDS SystemProxy, TunMode, TLAPS

-----------------------------------------------------------------------------
(***************************************************************************)
(* The proxy setting.  CallInv follows a call from the check under the     *)
(* lock to its last step: whoever sets has recorded itself as the owner,   *)
(* whoever puts back finds the setting it compared, and either owns the    *)
(* record or is a starting instance that found nobody listening, and       *)
(* nobody can be handed traffic before it is done.                         *)
(***************************************************************************)
Inside == {"set", "apply", "remove"}

Calls == [pc : {"idle", "record", "check"} \cup Inside,
          why : {"none", "start", "rollback", "stop", "exit", "after_exit"}, left : Nat]

ProxyShape ==
  /\ os \in Settings /\ choice \in Settings /\ port \in [Instances -> Ports]
  /\ record # <<>> => record = <<record[1]>> /\ record[1] \in Records
  /\ session \in [Instances -> {"idle", "listening", "enabled"}]
  /\ born \in [Instances -> {"unborn", "up", "dead"}]
  /\ guard \in [Instances -> {"none", "watching", "restoring", "done", "killed"}]
  /\ call \in [Callers -> Calls]

HolderInside ==
  /\ holder \in Callers \cup {Nobody}
  /\ \A a \in Callers : (holder = a) <=> (call[a].pc \in Inside)

\* Who is in a call, and when.
LifeOf(p) ==
  /\ session[p] # "idle" => born[p] = "up"
  /\ call[ProxyApp(p)].why # "after_exit"
  /\ call[ProxyApp(p)].pc # "idle" => born[p] = "up"
  /\ call[ProxyGuardian(p)].pc # "idle" => born[p] = "dead" /\ guard[p] = "restoring"

Entitled(a) ==
  IF call[a].why = "start"
    THEN \A p \in Instances : session[p] = "enabled" => port[p] # record[1].applied.addr
    ELSE record[1].owner = a[2]

InCall(a) ==
  /\ call[a].pc = "set" => record # <<>> /\ record[1].owner = a[2] /\ a = ProxyApp(a[2])
  /\ call[a].pc = "apply" => record # <<>> /\ Same(os, record[1].applied) /\ Entitled(a)
  /\ call[a].pc = "remove" => record # <<>>

CallInv ==
  /\ ProxyShape /\ HolderInside
  /\ (\A p \in Instances : LifeOf(p)) /\ (\A a \in Callers : InCall(a))

\* The two callers of an instance are told apart, from each other and from
\* those of other instances.
LEMMA CallerFacts ==
  /\ \A p \in Instances : /\ ProxyApp(p) \in Callers /\ ProxyGuardian(p) \in Callers
                          /\ ProxyApp(p)[2] = p /\ ProxyGuardian(p)[2] = p
  /\ \A p, q : /\ ProxyApp(p) # ProxyGuardian(q)
               /\ ProxyApp(p) = ProxyApp(q) => p = q
               /\ ProxyGuardian(p) = ProxyGuardian(q) => p = q
  /\ Nobody \notin Callers
  /\ \A a \in Callers : a[2] \in Instances /\ (a = ProxyApp(a[2]) \/ a = ProxyGuardian(a[2]))
<1>1. \A p \in Instances : /\ ProxyApp(p) \in Callers /\ ProxyGuardian(p) \in Callers
                           /\ ProxyApp(p)[2] = p /\ ProxyGuardian(p)[2] = p
  BY DEF Callers, ProxyApp, ProxyGuardian
<1>2. \A p, q : /\ ProxyApp(p) # ProxyGuardian(q)
                /\ ProxyApp(p) = ProxyApp(q) => p = q
                /\ ProxyGuardian(p) = ProxyGuardian(q) => p = q
  BY DEF ProxyApp, ProxyGuardian
<1>3. Nobody \notin Callers
  BY DEF Callers, ProxyApp, ProxyGuardian, Nobody
<1>4. \A a \in Callers : a[2] \in Instances /\ (a = ProxyApp(a[2]) \/ a = ProxyGuardian(a[2]))
  BY DEF Callers, ProxyApp, ProxyGuardian
<1> QED
  BY <1>1, <1>2, <1>3, <1>4

\* One caller moves, the others stay where they are.
LEMMA OneMoves ==
  ASSUME call \in [Callers -> Calls], NEW a \in Callers, NEW new \in Calls,
         call' = [call EXCEPT ![a] = new]
  PROVE  /\ call' \in [Callers -> Calls] /\ call'[a] = new
         /\ \A b \in Callers : b # a => call'[b] = call[b]
  OBVIOUS

\* Nothing is going on while nobody has the lock, and one call at most
\* otherwise.
LEMMA Alone ==
  ASSUME CallInv
  PROVE  /\ holder = Nobody => \A b \in Callers : call[b].pc \notin Inside
         /\ \A a \in Callers : call[a].pc \in Inside =>
              holder = a /\ \A b \in Callers : b # a => call[b].pc \notin Inside
  BY CallerFacts DEF CallInv, HolderInside

\* Initially nothing is recorded and no process is running.
LEMMA CallInvInit == ProxyInit => CallInv
<1> SUFFICES ASSUME ProxyInit PROVE CallInv
  OBVIOUS
<1> USE DEF ProxyInit
<1>1. NoCall \in Calls /\ NoCall.pc = "idle" /\ NoCall.why = "none"
  BY DEF NoCall, Calls, Inside
<1>2. (CHOOSE q \in Ports : TRUE) \in Ports
  BY PortsAssumption
<1>3. ProxyShape
  <2>1. os \in Settings /\ choice \in Settings
    BY UserSettingsAssumption
  <2>2. port \in [Instances -> Ports] /\ call \in [Callers -> Calls]
    BY <1>1, <1>2
  <2> QED
    BY <2>1, <2>2 DEF ProxyShape
<1>4. \A a \in Callers : call[a].pc = "idle" /\ call[a].why = "none"
  BY <1>1
<1>5. HolderInside
  BY <1>4, CallerFacts DEF HolderInside, Inside
<1>6. \A p \in Instances : LifeOf(p)
  BY <1>4, CallerFacts DEF LifeOf
<1>7. \A a \in Callers : InCall(a)
  BY <1>4 DEF InCall
<1> QED
  BY <1>3, <1>5, <1>6, <1>7 DEF CallInv

Lives == {"unborn", "up", "dead"}
Sessions == {"idle", "listening", "enabled"}
Guards == {"none", "watching", "restoring", "done", "killed"}

\* A step of a caller that has not the lock and does not take it: nobody else's
\* position is disturbed, unless traffic is handed over.
LEMMA OutsideStep ==
  ASSUME CallInv, NEW a \in Callers, NEW new \in Calls, call[a].pc \notin Inside,
         new.pc \notin Inside, call' = [call EXCEPT ![a] = new],
         UNCHANGED <<os, choice, record, holder, port>>,
         session' \in [Instances -> Sessions], born' \in [Instances -> Lives],
         guard' \in [Instances -> Guards],
         \A p \in Instances : session'[p] = "enabled" => session[p] = "enabled",
         \A p \in Instances : LifeOf(p)'
  PROVE  CallInv'
<1>1. /\ call' \in [Callers -> Calls] /\ call'[a] = new
      /\ \A b \in Callers : b # a => call'[b] = call[b]
  BY OneMoves DEF CallInv, ProxyShape
<1>2. ProxyShape'
  BY <1>1 DEF CallInv, ProxyShape, Lives, Sessions, Guards
<1>3. HolderInside'
  BY <1>1 DEF CallInv, HolderInside
<1>4. ASSUME NEW b \in Callers PROVE InCall(b)'
  <2>1. CASE b = a
    BY <1>1, <2>1 DEF InCall, Inside
  <2>2. CASE b # a
    <3>1. InCall(b) /\ call'[b] = call[b]
      BY <1>1, <2>2 DEF CallInv
    <3>2. call[b].pc = "apply" /\ Entitled(b) => Entitled(b)'
      BY <3>1 DEF Entitled
    <3> QED
      BY <3>1, <3>2 DEF InCall, Same
  <2> QED
    BY <2>1, <2>2
<1> QED
  BY <1>2, <1>3, <1>4 DEF CallInv

\* The caller that has the lock gives it back: nobody is inside any more.
LEMMA LastStep ==
  ASSUME CallInv, NEW a \in Callers, NEW new \in Calls, call[a].pc \in Inside,
         new.pc \notin Inside, call' = [call EXCEPT ![a] = new], holder' = Nobody,
         UNCHANGED <<choice, port>>, os' \in Settings, record' \in {record, <<>>},
         session' \in [Instances -> Sessions], born' \in [Instances -> Lives],
         guard' \in [Instances -> Guards], \A p \in Instances : LifeOf(p)'
  PROVE  CallInv'
<1>1. /\ call' \in [Callers -> Calls] /\ call'[a] = new
      /\ \A b \in Callers : b # a => call'[b] = call[b]
  BY OneMoves DEF CallInv, ProxyShape
<1>2. \A b \in Callers : call'[b].pc \notin Inside
  BY <1>1, Alone
<1>3. ProxyShape'
  BY <1>1 DEF CallInv, ProxyShape, Lives, Sessions, Guards
<1>4. HolderInside'
  BY <1>2, CallerFacts DEF HolderInside
<1>5. \A b \in Callers : InCall(b)'
  BY <1>2 DEF InCall, Inside
<1> QED
  BY <1>3, <1>4, <1>5 DEF CallInv

\* What the end of a call, or another try of it, does to caller and process.
LEMMA CallOver ==
  ASSUME CallInv, NEW a \in Callers, call[a].pc # "idle", Ended(a) \/ Failed(a)
  PROVE  /\ \E new \in Calls : /\ call' = [call EXCEPT ![a] = new]
                               /\ new.pc \notin Inside
         /\ session' \in [Instances -> Sessions] /\ born' \in [Instances -> Lives]
         /\ guard' \in [Instances -> Guards]
         /\ \A p \in Instances : session'[p] = "enabled" => session[p] = "enabled"
         /\ \A p \in Instances : LifeOf(p)'
<1> DEFINE p == a[2]
<1>0. /\ p \in Instances /\ call[a] \in Calls
      /\ a = ProxyApp(p) \/ a = ProxyGuardian(p)
      /\ session \in [Instances -> Sessions] /\ born \in [Instances -> Lives]
      /\ guard \in [Instances -> Guards]
  BY CallerFacts DEF CallInv, ProxyShape, Lives, Sessions, Guards
<1>1. CASE Ended(a)
  <2>1. NoCall \in Calls /\ NoCall.pc = "idle" /\ NoCall.why = "none"
    BY DEF NoCall, Calls, Inside
  <2>2. call' = [call EXCEPT ![a] = NoCall]
    BY <1>1 DEF Ended
  <2>3. call'[a] = NoCall /\ \A b \in Callers : b # a => call'[b] = call[b]
    BY <2>1, <2>2, OneMoves DEF CallInv, ProxyShape
  <2>4. /\ session' = IF call[a].why \in {"stop", "exit"} THEN [session EXCEPT ![p] = "idle"] ELSE session
        /\ born' = IF call[a].why = "exit" THEN [born EXCEPT ![p] = "dead"] ELSE born
        /\ guard' = IF call[a].why = "after_exit" THEN [guard EXCEPT ![p] = "done"] ELSE guard
    BY <1>1 DEF Ended
  <2>5. /\ session' \in [Instances -> Sessions] /\ born' \in [Instances -> Lives]
        /\ guard' \in [Instances -> Guards]
        /\ \A q \in Instances : session'[q] = "enabled" => session[q] = "enabled"
    BY <1>0, <2>4 DEF Sessions, Lives, Guards
  <2>6. ASSUME NEW q \in Instances, q # p PROVE LifeOf(q)'
    <3>1. /\ session'[q] = session[q] /\ born'[q] = born[q] /\ guard'[q] = guard[q]
      BY <1>0, <2>4, <2>6
    <3>2. call'[ProxyApp(q)] = call[ProxyApp(q)] /\ call'[ProxyGuardian(q)] = call[ProxyGuardian(q)]
      BY <1>0, <2>3, <2>6, CallerFacts
    <3> QED
      BY <3>1, <3>2 DEF LifeOf, CallInv
  <2>7. LifeOf(p)'
    <3>0. LifeOf(p)
      BY <1>0 DEF CallInv
    <3>1. CASE a = ProxyApp(p)
      <4>1. /\ call'[ProxyGuardian(p)] = call[ProxyGuardian(p)] /\ call'[ProxyApp(p)] = NoCall
        BY <1>0, <2>3, <3>1, CallerFacts
      <4>2. guard'[p] = guard[p] /\ call[ProxyGuardian(p)].pc = "idle" /\ born[p] = "up"
        BY <2>4, <3>0, <3>1 DEF LifeOf
      <4>3. session'[p] # "idle" => born'[p] = "up"
        BY <1>0, <2>4, <3>0, <4>2
      <4> QED
        BY <2>1, <4>1, <4>2, <4>3 DEF LifeOf
    <3>2. CASE a = ProxyGuardian(p)
      <4>1. /\ call'[ProxyApp(p)] = call[ProxyApp(p)] /\ call'[ProxyGuardian(p)] = NoCall
        BY <1>0, <2>3, <3>2, CallerFacts
      <4>2. born[p] = "dead" /\ session[p] = "idle" /\ call[ProxyApp(p)].pc = "idle"
        BY <3>0, <3>2 DEF LifeOf
      <4>3. born'[p] = "dead" /\ session'[p] = "idle"
        BY <1>0, <2>4, <4>2
      <4> QED
        BY <2>1, <3>0, <4>1, <4>2, <4>3 DEF LifeOf
    <3> QED
      BY <1>0, <3>1, <3>2
  <2> QED
    BY <2>1, <2>2, <2>5, <2>6, <2>7 DEF Inside
<1>2. CASE Retries(a) /\ call' = [call EXCEPT ![a].pc = "check", ![a].left = @ - 1]
           /\ UNCHANGED <<session, born, guard>>
  <2> DEFINE new == [pc |-> "check", why |-> call[a].why, left |-> call[a].left - 1]
  <2>0. /\ call[a] = [pc |-> call[a].pc, why |-> call[a].why, left |-> call[a].left]
        /\ call[a].left - 1 \in Nat
    BY <1>0, <1>2 DEF Retries, Calls
  <2>1. new \in Calls /\ new.pc = "check" /\ new.why = call[a].why
    BY <1>0, <2>0 DEF Calls
  <2>2. call' = [call EXCEPT ![a] = new]
    BY <1>2, <2>0 DEF CallInv, ProxyShape
  <2> HIDE DEF new
  <2>3. call'[a] = new /\ \A b \in Callers : b # a => call'[b] = call[b]
    BY <2>1, <2>2, OneMoves DEF CallInv, ProxyShape
  <2>4. ASSUME NEW q \in Instances PROVE LifeOf(q)'
    <3>1. /\ (call'[ProxyApp(q)].pc # "idle") <=> (call[ProxyApp(q)].pc # "idle")
          /\ call'[ProxyApp(q)].why = call[ProxyApp(q)].why
          /\ (call'[ProxyGuardian(q)].pc # "idle") <=> (call[ProxyGuardian(q)].pc # "idle")
      BY <2>1, <2>3, CallerFacts
    <3> QED
      BY <1>2, <3>1 DEF LifeOf, CallInv
  <2> QED
    BY <1>0, <1>2, <2>1, <2>2, <2>4 DEF Inside
<1> QED
  BY <1>1, <1>2 DEF Failed

\* The user changes the setting only while nobody is inside.
LEMMA UserKept == CallInv /\ UserChanges => CallInv'
<1> SUFFICES ASSUME CallInv, UserChanges PROVE CallInv'
  OBVIOUS
<1>1. \A b \in Callers : call[b].pc \notin Inside
  BY Alone DEF UserChanges
<1>2. ProxyShape'
  BY UserSettingsAssumption DEF CallInv, ProxyShape, UserChanges
<1>3. HolderInside'
  BY DEF CallInv, HolderInside, UserChanges
<1>4. \A p \in Instances : LifeOf(p)'
  BY DEF CallInv, LifeOf, UserChanges
<1>5. \A b \in Callers : InCall(b)'
  BY <1>1 DEF InCall, UserChanges, Inside
<1> QED
  BY <1>2, <1>3, <1>4, <1>5 DEF CallInv

\* A proxy that starts to listen, or moves, has been handed no traffic yet.
LEMMA ListenKept ==
  ASSUME CallInv, NEW p \in Instances, Listen(p) \/ ChangePort(p)
  PROVE  CallInv'
<1>0. /\ session[p] = "idle" /\ born[p] = "up"
      /\ UNCHANGED <<os, choice, record, holder, born, guard, call>>
  BY DEF Listen, ChangePort
<1>1. /\ session' \in [Instances -> Sessions] /\ port' \in [Instances -> Ports]
      /\ \A q \in Instances : q # p => session'[q] = session[q] /\ port'[q] = port[q]
      /\ session'[p] # "enabled"
  <2>1. session \in [Instances -> Sessions] /\ port \in [Instances -> Ports]
    BY DEF CallInv, ProxyShape, Sessions
  <2>2. CASE Listen(p)
    BY <2>1, <2>2 DEF Listen, Sessions
  <2>3. CASE ChangePort(p)
    BY <1>0, <2>1, <2>3 DEF ChangePort, Sessions
  <2> QED
    BY <2>2, <2>3
<1>2. ProxyShape'
  BY <1>0, <1>1 DEF CallInv, ProxyShape, Sessions
<1>3. HolderInside'
  BY <1>0 DEF CallInv, HolderInside
<1>4. \A q \in Instances : LifeOf(q)'
  BY <1>0, <1>1 DEF CallInv, LifeOf
<1>5. ASSUME NEW b \in Callers PROVE InCall(b)'
  <2>1. InCall(b)
    BY DEF CallInv
  <2>2. Entitled(b) => Entitled(b)'
    BY <1>0, <1>1 DEF Entitled
  <2> QED
    BY <1>0, <2>1, <2>2 DEF InCall, Same
<1> QED
  BY <1>2, <1>3, <1>4, <1>5 DEF CallInv

\* Calls begin outside the lock.
LEMMA ArrivalKept ==
  ASSUME CallInv, NEW p \in Instances,
         ProxyStart(p) \/ Enable(p) \/ Stop(p) \/ ProxyExit(p)
  PROVE  CallInv'
<1> DEFINE a == ProxyApp(p)
<1>0. /\ a \in Callers /\ LifeOf(p) /\ guard \in [Instances -> Guards]
      /\ session \in [Instances -> Sessions] /\ born \in [Instances -> Lives]
  BY CallerFacts DEF CallInv, ProxyShape, Lives, Sessions, Guards
<1>1. PICK new \in Calls :
        /\ call' = [call EXCEPT ![a] = new] /\ new.pc \notin Inside
        /\ new.why # "after_exit"
  <2>1. ASSUME NEW pc \in {"check", "record"}, NEW why \in {"start", "rollback", "stop", "exit"},
               NEW tries \in {1, 2}
        PROVE  /\ [pc |-> pc, why |-> why, left |-> tries] \in Calls
               /\ [pc |-> pc, why |-> why, left |-> tries].pc \notin Inside
               /\ [pc |-> pc, why |-> why, left |-> tries].why # "after_exit"
    BY DEF Calls, Inside
  <2>2. \E pc \in {"check", "record"}, why \in {"start", "rollback", "stop", "exit"}, tries \in {1, 2} :
          call' = [call EXCEPT ![a] = [pc |-> pc, why |-> why, left |-> tries]]
    BY DEF ProxyStart, Enable, Stop, ProxyExit, Call
  <2> QED
    BY <2>1, <2>2
<1>2. /\ UNCHANGED <<os, choice, record, holder, port, session>>
      /\ born'[p] = "up" /\ (born[p] = "up" \/ born[p] = "unborn")
      /\ born' \in [Instances -> Lives] /\ guard' \in [Instances -> Guards]
      /\ \A q \in Instances : q # p => born'[q] = born[q] /\ guard'[q] = guard[q]
  <2>1. CASE ProxyStart(p)
    BY <1>0, <2>1 DEF ProxyStart, Lives
  <2>2. CASE Enable(p)
    BY <1>0, <2>2 DEF Enable, Call, Guards
  <2>3. CASE Stop(p) \/ ProxyExit(p)
    BY <1>0, <2>3 DEF Stop, ProxyExit, Call
  <2> QED
    BY <2>1, <2>2, <2>3
<1>3. call[a].pc = "idle"
  BY <1>0 DEF ProxyStart, Enable, Stop, ProxyExit, Call, LifeOf, NoCall
<1>4. call'[a] = new /\ \A b \in Callers : b # a => call'[b] = call[b]
  BY <1>0, <1>1, OneMoves DEF CallInv, ProxyShape
<1>5. ASSUME NEW q \in Instances PROVE LifeOf(q)'
  <2>1. call'[ProxyGuardian(q)] = call[ProxyGuardian(q)] /\ LifeOf(q)
    BY <1>4, CallerFacts DEF CallInv
  <2>2. CASE q # p
    <3>1. call'[ProxyApp(q)] = call[ProxyApp(q)]
      BY <1>4, <2>2, CallerFacts
    <3> QED
      BY <1>2, <2>1, <2>2, <3>1 DEF LifeOf
  <2>3. CASE q = p
    <3>1. call[ProxyGuardian(p)].pc = "idle"
      BY <1>2, <2>1, <2>3 DEF LifeOf
    <3> QED
      BY <1>1, <1>2, <1>4, <2>1, <2>3, <3>1 DEF LifeOf
  <2> QED
    BY <2>2, <2>3
<1> HIDE DEF a
<1> QED
  BY <1>0, <1>1, <1>2, <1>3, <1>5, OutsideStep DEF Inside

\* The guardian begins its call after the end of its process.
LEMMA WakeKept ==
  ASSUME CallInv, NEW p \in Instances, ProxyGuardianWakes(p)
  PROVE  CallInv'
<1> DEFINE a == ProxyGuardian(p)
           new == [pc |-> "check", why |-> "after_exit", left |-> 3]
<1>0. /\ a \in Callers /\ LifeOf(p) /\ guard \in [Instances -> Guards]
      /\ session \in [Instances -> Sessions] /\ born \in [Instances -> Lives]
  BY CallerFacts DEF CallInv, ProxyShape, Lives, Sessions, Guards
<1>1. new \in Calls /\ new.pc \notin Inside
  BY DEF Calls, Inside
<1>2. /\ call' = [call EXCEPT ![a] = new] /\ born[p] = "dead"
      /\ UNCHANGED <<os, choice, record, holder, port, session, born>>
      /\ guard' \in [Instances -> Guards] /\ guard'[p] = "restoring"
      /\ \A q \in Instances : q # p => guard'[q] = guard[q]
  BY <1>0 DEF ProxyGuardianWakes, Guards
<1>3. call[a].pc = "idle"
  BY <1>0 DEF ProxyGuardianWakes, LifeOf
<1> HIDE DEF new
<1>4. call'[a] = new /\ \A b \in Callers : b # a => call'[b] = call[b]
  BY <1>0, <1>1, <1>2, OneMoves DEF CallInv, ProxyShape
<1>5. ASSUME NEW q \in Instances PROVE LifeOf(q)'
  <2>1. call'[ProxyApp(q)] = call[ProxyApp(q)] /\ LifeOf(q)
    BY <1>4, CallerFacts DEF CallInv
  <2>2. q # p => call'[ProxyGuardian(q)] = call[ProxyGuardian(q)] /\ guard'[q] = guard[q]
    BY <1>2, <1>4, CallerFacts
  <2> QED
    BY <1>2, <2>1, <2>2 DEF LifeOf
<1> HIDE DEF a
<1> QED
  BY <1>0, <1>1, <1>2, <1>3, <1>5, OutsideStep DEF Inside

\* The system gives the lock of a dead process or guardian back.
LEMMA DeathKept ==
  ASSUME CallInv, NEW p \in Instances, NEW a \in {ProxyApp(p), ProxyGuardian(p)},
         call' = [call EXCEPT ![a] = NoCall], holder' = Released(a),
         UNCHANGED <<os, choice, record, port>>,
         session' \in [Instances -> Sessions], born' \in [Instances -> Lives],
         guard' \in [Instances -> Guards],
         \A q \in Instances : session'[q] = "enabled" => session[q] = "enabled",
         \A q \in Instances : LifeOf(q)'
  PROVE  CallInv'
<1>1. a \in Callers
  BY CallerFacts
<1>2. NoCall \in Calls /\ NoCall.pc \notin Inside
  BY DEF NoCall, Calls, Inside
<1>3. CASE call[a].pc \in Inside
  <2>1. holder' = Nobody
    BY <1>1, <1>3, Alone DEF Released
  <2>2. os' \in Settings
    BY DEF CallInv, ProxyShape
  <2> QED
    BY <1>1, <1>2, <1>3, <2>1, <2>2, LastStep
<1>4. CASE call[a].pc \notin Inside
  <2>1. holder' = holder
    BY <1>1, <1>4 DEF Released, CallInv, HolderInside
  <2> QED
    BY <1>1, <1>2, <1>4, <2>1, OutsideStep
<1> QED
  BY <1>3, <1>4

LEMMA CrashKept ==
  ASSUME CallInv, NEW p \in Instances, ProxyCrash(p) \/ ProxyGuardianKilled(p)
  PROVE  CallInv'
<1>0. /\ LifeOf(p) /\ guard \in [Instances -> Guards]
      /\ session \in [Instances -> Sessions] /\ born \in [Instances -> Lives]
  BY DEF CallInv, ProxyShape, Lives, Sessions, Guards
<1>1. NoCall \in Calls /\ NoCall.pc = "idle" /\ NoCall.why = "none"
  BY DEF NoCall, Calls, Inside
<1>2. CASE ProxyCrash(p)
  <2> DEFINE a == ProxyApp(p)
  <2>1. /\ call' = [call EXCEPT ![a] = NoCall] /\ holder' = Released(a)
        /\ UNCHANGED <<os, choice, record, port, guard>> /\ born[p] = "up"
    BY <1>2 DEF ProxyCrash
  <2>2. /\ session' \in [Instances -> Sessions] /\ born' \in [Instances -> Lives]
        /\ session'[p] = "idle"
        /\ \A q \in Instances : q # p => session'[q] = session[q] /\ born'[q] = born[q]
    BY <1>0, <1>2 DEF ProxyCrash, Sessions, Lives
  <2>3. call'[a] = NoCall /\ \A b \in Callers : b # a => call'[b] = call[b]
    BY <1>1, <2>1, OneMoves, CallerFacts DEF CallInv, ProxyShape
  <2>4. ASSUME NEW q \in Instances PROVE LifeOf(q)'
    <3>1. call'[ProxyGuardian(q)] = call[ProxyGuardian(q)] /\ LifeOf(q)
      BY <2>3, CallerFacts DEF CallInv
    <3>2. CASE q = p
      <4>1. call[ProxyGuardian(p)].pc = "idle"
        BY <1>0, <2>1 DEF LifeOf
      <4> QED
        BY <1>1, <2>2, <2>3, <3>1, <3>2, <4>1 DEF LifeOf
    <3>3. CASE q # p
      <4>1. call'[ProxyApp(q)] = call[ProxyApp(q)]
        BY <2>3, <3>3, CallerFacts
      <4> QED
        BY <2>1, <2>2, <3>1, <3>3, <4>1 DEF LifeOf
    <3> QED
      BY <3>2, <3>3
  <2> HIDE DEF a
  <2> QED
    BY <1>0, <2>1, <2>2, <2>4, DeathKept DEF a
<1>3. CASE ProxyGuardianKilled(p)
  <2> DEFINE a == ProxyGuardian(p)
  <2>1. /\ call' = [call EXCEPT ![a] = NoCall] /\ holder' = Released(a)
        /\ UNCHANGED <<os, choice, record, port, session, born>>
        /\ guard' \in [Instances -> Guards]
        /\ \A q \in Instances : q # p => guard'[q] = guard[q]
    BY <1>0, <1>3 DEF ProxyGuardianKilled, Guards
  <2>2. call'[a] = NoCall /\ \A b \in Callers : b # a => call'[b] = call[b]
    BY <1>1, <2>1, OneMoves, CallerFacts DEF CallInv, ProxyShape
  <2>3. ASSUME NEW q \in Instances PROVE LifeOf(q)'
    <3>1. call'[ProxyApp(q)] = call[ProxyApp(q)] /\ LifeOf(q)
      BY <2>2, CallerFacts DEF CallInv
    <3>2. q # p => call'[ProxyGuardian(q)] = call[ProxyGuardian(q)] /\ guard'[q] = guard[q]
      BY <2>1, <2>2, CallerFacts
    <3> QED
      BY <1>1, <2>1, <2>2, <3>1, <3>2 DEF LifeOf
  <2> HIDE DEF a
  <2> QED
    BY <1>0, <2>1, <2>3, DeathKept DEF a
<1> QED
  BY <1>2, <1>3

\* What GoOn does: the caller's position changes, the reason of its call not.
LEMMA GoOnFacts ==
  ASSUME CallInv, NEW a \in Callers, NEW pc \in {"idle", "record", "check"} \cup Inside,
         call[a].pc # "idle", GoOn(a, pc)
  PROVE  /\ \E new \in Calls : /\ call' = [call EXCEPT ![a] = new]
                               /\ new.pc = pc /\ new.why = call[a].why
         /\ call' \in [Callers -> Calls] /\ call'[a].pc = pc /\ call'[a].why = call[a].why
         /\ \A b \in Callers : b # a => call'[b] = call[b]
         /\ UNCHANGED <<session, born, guard>> => \A q \in Instances : LifeOf(q)'
<1> DEFINE new == [call[a] EXCEPT !.pc = pc]
<1>1. call \in [Callers -> Calls] /\ call[a] \in Calls
  BY DEF CallInv, ProxyShape
<1>2. new \in Calls /\ new.pc = pc /\ new.why = call[a].why
  BY <1>1 DEF Calls
<1>3. call' = [call EXCEPT ![a] = new]
  BY DEF GoOn
<1> HIDE DEF new
<1>4. /\ call' \in [Callers -> Calls] /\ call'[a] = new
      /\ \A b \in Callers : b # a => call'[b] = call[b]
  BY <1>1, <1>2, <1>3, OneMoves
<1>5. ASSUME UNCHANGED <<session, born, guard>>, NEW q \in Instances PROVE LifeOf(q)'
  <2>1. /\ call'[ProxyApp(q)].pc # "idle" => call[ProxyApp(q)].pc # "idle"
        /\ call'[ProxyApp(q)].why = call[ProxyApp(q)].why
        /\ call'[ProxyGuardian(q)].pc # "idle" => call[ProxyGuardian(q)].pc # "idle"
    BY <1>2, <1>4, CallerFacts
  <2> QED
    BY <1>5, <2>1 DEF LifeOf, CallInv
<1> QED
  BY <1>2, <1>3, <1>4, <1>5

\* What a failing OS call leaves behind is a setting.
LEMMA DamageIsSetting ==
  ASSUME NEW old \in Settings, NEW new \in Settings, NEW s \in Damage(old, new)
  PROVE  s \in Settings
  BY DEF Damage, Settings

\* The record is made under the lock, by the instance it names.
LEMMA RecordKept ==
  ASSUME CallInv, NEW p \in Instances, Record(p)
  PROVE  CallInv'
<1> DEFINE a == ProxyApp(p)
<1>0. /\ a \in Callers /\ call[a].pc = "record" /\ call[a].pc # "idle"
      /\ call[a].pc \notin Inside /\ UNCHANGED <<os, choice, born, session, port, guard>>
      /\ guard \in [Instances -> Guards]
      /\ session \in [Instances -> Sessions] /\ born \in [Instances -> Lives]
  BY CallerFacts DEF Record, Inside, CallInv, ProxyShape, Lives, Sessions, Guards
<1> HIDE DEF a
<1>1. CASE GoOn(a, "check") /\ UNCHANGED <<record, holder>>
  <2>1. /\ \E new \in Calls : call' = [call EXCEPT ![a] = new] /\ new.pc = "check"
        /\ \A q \in Instances : LifeOf(q)'
    BY <1>0, <1>1, GoOnFacts
  <2> QED
    BY <1>0, <1>1, <2>1, OutsideStep DEF Inside
<1>2. CASE /\ GoOn(a, "set") /\ holder = Nobody /\ holder' = a
           /\ record' = <<[owner |-> p, previous |-> Previous(p), applied |-> Ours(port[p])]>>
  <2>1. /\ call' \in [Callers -> Calls] /\ call'[a].pc = "set"
        /\ \A b \in Callers : b # a => call'[b] = call[b]
        /\ \A q \in Instances : LifeOf(q)'
    BY <1>0, <1>2, GoOnFacts DEF Inside
  <2>2. \A b \in Callers : b # a => call'[b].pc \notin Inside
    BY <1>2, <2>1, Alone
  <2>3. record'[1] \in Records /\ record' = <<record'[1]>> /\ record'[1].owner = p
    <3>1. Previous(p) \in Settings
      BY DEF Previous, CallInv, ProxyShape, Records
    <3>2. Ours(port[p]) \in {Ours(q) : q \in Ports}
      BY DEF CallInv, ProxyShape
    <3> QED
      BY <1>2, <3>1, <3>2 DEF Records
  <2>4. ProxyShape'
    BY <1>0, <2>1, <2>3 DEF CallInv, ProxyShape
  <2>5. HolderInside'
    BY <1>0, <1>2, <2>1, <2>2 DEF HolderInside, Inside
  <2>6. ASSUME NEW b \in Callers PROVE InCall(b)'
    <3>1. CASE b = a
      <4>1. b[2] = p /\ b = ProxyApp(b[2]) /\ record' # <<>>
        BY <1>2, <3>1, CallerFacts DEF a
      <4> QED
        BY <2>1, <2>3, <3>1, <4>1 DEF InCall
    <3>2. CASE b # a
      BY <2>2, <3>2 DEF InCall, Inside
    <3> QED
      BY <3>1, <3>2
  <2> QED
    BY <2>1, <2>4, <2>5, <2>6 DEF CallInv
<1> QED
  BY <1>1, <1>2 DEF Record, a

\* The setting is made by the instance that has the lock, which it gives back.
LEMMA SetOsKept ==
  ASSUME CallInv, NEW p \in Instances, SetOs(p)
  PROVE  CallInv'
<1> DEFINE a == ProxyApp(p)
<1>0. /\ a \in Callers /\ call[a].pc = "set" /\ call[a].pc # "idle"
      /\ call[a].pc \in Inside /\ UNCHANGED <<choice, record, born, port, guard>> /\ holder' = Nobody
      /\ guard \in [Instances -> Guards]
      /\ session \in [Instances -> Sessions] /\ born \in [Instances -> Lives]
      /\ os \in Settings /\ Ours(port[p]) \in Settings
  <2>1. Ours(port[p]) \in Settings
    BY DEF CallInv, ProxyShape, Ours, Settings
  <2> QED
    BY <2>1, CallerFacts DEF SetOs, Inside, CallInv, ProxyShape, Lives, Sessions, Guards
<1>1. CASE /\ os' = Ours(port[p]) /\ call' = [call EXCEPT ![a] = NoCall]
           /\ session' = IF session[p] = "idle" THEN session ELSE [session EXCEPT ![p] = "enabled"]
  <2>1. NoCall \in Calls /\ NoCall.pc = "idle" /\ NoCall.why = "none"
    BY DEF NoCall, Calls, Inside
  <2>2. call'[a] = NoCall /\ \A b \in Callers : b # a => call'[b] = call[b]
    BY <1>0, <1>1, <2>1, OneMoves DEF CallInv, ProxyShape
  <2>3. /\ session' \in [Instances -> Sessions]
        /\ \A q \in Instances : (session'[q] = "idle") <=> (session[q] = "idle")
    BY <1>0, <1>1 DEF Sessions
  <2>4. ASSUME NEW q \in Instances PROVE LifeOf(q)'
    <3>1. /\ call'[ProxyApp(q)].pc # "idle" => call[ProxyApp(q)].pc # "idle"
          /\ call'[ProxyApp(q)].why # "after_exit" \/ call'[ProxyApp(q)] = call[ProxyApp(q)]
          /\ call'[ProxyGuardian(q)] = call[ProxyGuardian(q)]
      BY <2>1, <2>2, CallerFacts
    <3> QED
      BY <1>0, <2>3, <3>1 DEF LifeOf, CallInv
  <2> HIDE DEF a
  <2> QED
    BY <1>0, <1>1, <2>1, <2>3, <2>4, LastStep DEF Inside
<1>2. CASE os' \in Damage(os, Ours(port[p])) /\ GoOn(a, "check") /\ UNCHANGED session
  <2>1. os' \in Settings
    BY <1>0, <1>2, DamageIsSetting
  <2> HIDE DEF a
  <2>2. /\ \E new \in Calls : call' = [call EXCEPT ![a] = new] /\ new.pc = "check"
        /\ \A q \in Instances : LifeOf(q)'
    BY <1>0, <1>2, GoOnFacts
  <2> QED
    BY <1>0, <1>2, <2>1, <2>2, LastStep DEF Inside
<1> QED
  BY <1>1, <1>2 DEF SetOs

\* The check takes the lock only for a record the caller may put back.
LEMMA CheckedKept ==
  ASSUME CallInv, NEW a \in Callers, Check(a)
  PROVE  CallInv'
<1>0. /\ call[a].pc = "check" /\ call[a].pc # "idle" /\ call[a].pc \notin Inside
      /\ holder = Nobody /\ UNCHANGED <<os, choice, record, port>>
  BY DEF Check, Inside
<1>1. CASE Ended(a) /\ UNCHANGED holder
  BY <1>0, <1>1, CallOver, OutsideStep
<1>2. CASE /\ record # <<>> /\ ~NotMine(a) /\ holder' = a /\ UNCHANGED <<session, born, guard>>
           /\ GoOn(a, IF Same(os, record[1].applied) THEN "apply" ELSE "remove")
  <2> DEFINE pc == IF Same(os, record[1].applied) THEN "apply" ELSE "remove"
  <2>0. pc \in Inside
    BY DEF Inside
  <2>1. /\ call' \in [Callers -> Calls] /\ call'[a].pc = pc /\ call'[a].why = call[a].why
        /\ \A b \in Callers : b # a => call'[b] = call[b]
        /\ \A q \in Instances : LifeOf(q)'
    BY <1>0, <1>2, <2>0, GoOnFacts
  <2>2. \A b \in Callers : b # a => call'[b].pc \notin Inside
    BY <1>0, <2>1, Alone
  <2>3. ProxyShape'
    BY <1>0, <1>2, <2>1 DEF CallInv, ProxyShape
  <2>4. HolderInside'
    BY <1>2, <2>0, <2>1, <2>2 DEF HolderInside
  <2>5. Entitled(a)'
    BY <1>0, <1>2, <2>1 DEF Entitled, NotMine, Listening
  <2>6. ASSUME NEW b \in Callers PROVE InCall(b)'
    <3>1. CASE b = a
      BY <1>0, <1>2, <2>1, <2>5, <3>1 DEF InCall, Same
    <3>2. CASE b # a
      BY <2>2, <3>2 DEF InCall, Inside
    <3> QED
      BY <3>1, <3>2
  <2> QED
    BY <2>1, <2>3, <2>4, <2>6 DEF CallInv
<1> QED
  BY <1>1, <1>2 DEF Check

\* What is put back is a setting, disabled without an address if it was off.
LEMMA RestoredIsSetting ==
  ASSUME CallInv, record # <<>>
  PROVE  Restored \in Settings
<1>1. record[1].previous \in Settings
  BY DEF CallInv, ProxyShape, Records
<1>2. Disabled \in Settings
  BY DEF Disabled, Settings
<1> QED
  BY <1>1, <1>2 DEF Restored

\* The recorded setting is put back under the lock, or the lock is given back.
LEMMA ApplyKept ==
  ASSUME CallInv, NEW a \in Callers, Apply(a)
  PROVE  CallInv'
<1>0. /\ call[a].pc = "apply" /\ call[a].pc # "idle" /\ call[a].pc \in Inside
      /\ UNCHANGED <<choice, record, port>> /\ record # <<>> /\ os \in Settings
  BY DEF Apply, Inside, CallInv, InCall, ProxyShape
<1>1. CASE os' = Restored /\ GoOn(a, "remove") /\ UNCHANGED <<holder, session, born, guard>>
  <2>1. /\ call' \in [Callers -> Calls] /\ call'[a].pc = "remove"
        /\ \A b \in Callers : b # a => call'[b] = call[b]
        /\ \A q \in Instances : LifeOf(q)'
    BY <1>0, <1>1, GoOnFacts DEF Inside
  <2>2. holder = a /\ \A b \in Callers : b # a => call'[b].pc \notin Inside
    BY <1>0, <2>1, Alone
  <2>3. ProxyShape'
    <3>1. os' \in Settings
      BY <1>0, <1>1, RestoredIsSetting
    <3> QED
      BY <1>0, <1>1, <2>1, <3>1 DEF CallInv, ProxyShape
  <2>4. HolderInside'
    BY <1>1, <2>1, <2>2 DEF HolderInside, Inside
  <2>5. ASSUME NEW b \in Callers PROVE InCall(b)'
    <3>1. CASE b = a
      BY <1>0, <2>1, <3>1 DEF InCall
    <3>2. CASE b # a
      BY <2>2, <3>2 DEF InCall, Inside
    <3> QED
      BY <3>1, <3>2
  <2> QED
    BY <2>1, <2>3, <2>4, <2>5 DEF CallInv
<1>2. CASE os' \in Damage(os, Restored) /\ holder' = Nobody /\ Failed(a)
  <2>1. os' \in Settings
    BY <1>0, <1>2, RestoredIsSetting, DamageIsSetting
  <2> QED
    BY <1>0, <1>2, <2>1, CallOver, LastStep
<1> QED
  BY <1>1, <1>2 DEF Apply

\* The record goes last.
LEMMA RemoveKept ==
  ASSUME CallInv, NEW a \in Callers, Remove(a)
  PROVE  CallInv'
<1>0. /\ call[a].pc = "remove" /\ call[a].pc # "idle" /\ call[a].pc \in Inside
      /\ UNCHANGED <<os, choice, port>> /\ record' = <<>> /\ holder' = Nobody /\ Ended(a)
      /\ os' \in Settings
  BY DEF Remove, Inside, CallInv, ProxyShape
<1> QED
  BY <1>0, CallOver, LastStep

\* A wait for the lock is given up outside.
LEMMA GivenUpKept ==
  ASSUME CallInv, NEW a \in Callers, LockGivenUp(a)
  PROVE  CallInv'
<1>0. /\ call[a].pc # "idle" /\ call[a].pc \notin Inside
      /\ UNCHANGED <<os, choice, record, holder, port>>
  BY DEF LockGivenUp, Inside
<1>1. CASE GoOn(a, "check") /\ UNCHANGED <<session, born, guard>>
  <2>1. /\ \E new \in Calls : call' = [call EXCEPT ![a] = new] /\ new.pc = "check"
        /\ \A q \in Instances : LifeOf(q)'
    BY <1>0, <1>1, GoOnFacts
  <2>2. /\ session' \in [Instances -> Sessions] /\ born' \in [Instances -> Lives]
        /\ guard' \in [Instances -> Guards]
    BY <1>1 DEF CallInv, ProxyShape, Lives, Sessions, Guards
  <2> QED
    BY <1>0, <1>1, <2>1, <2>2, OutsideStep DEF Inside
<1>2. CASE Failed(a)
  BY <1>0, <1>2, CallOver, OutsideStep
<1> QED
  BY <1>1, <1>2 DEF LockGivenUp

\* The inductive invariant of the calls, whatever is written partly and
\* whoever changes its port.
THEOREM CallInvariant == ProxySpec => []CallInv
<1>1. ProxyInit => CallInv
  BY CallInvInit
<1>2. CallInv /\ [ProxyNext]_proxyVars => CallInv'
  <2> SUFFICES ASSUME CallInv, [ProxyNext]_proxyVars PROVE CallInv'
    OBVIOUS
  <2>1. CASE UNCHANGED proxyVars
    <3>1. UNCHANGED <<os, choice, record, holder, born, session, port, guard, call>>
      BY <2>1 DEF proxyVars
    <3>2. ProxyShape' /\ HolderInside'
      BY <3>1 DEF CallInv, ProxyShape, HolderInside
    <3>3. (\A p \in Instances : LifeOf(p)') /\ (\A a \in Callers : InCall(a)')
      BY <3>1 DEF CallInv, LifeOf, InCall, Entitled, Same
    <3> QED
      BY <3>2, <3>3 DEF CallInv
  <2>2. CASE UserChanges
    BY <2>2, UserKept
  <2>3. ASSUME NEW a \in Callers, Step(a) PROVE CallInv'
    BY <2>3, CheckedKept, ApplyKept, RemoveKept, GivenUpKept DEF Step
  <2>4. ASSUME NEW p \in Instances,
               \/ ProxyStart(p) \/ Listen(p) \/ ChangePort(p) \/ Enable(p) \/ Stop(p) \/ ProxyExit(p)
               \/ ProxyCrash(p) \/ ProxyGuardianKilled(p) \/ ProxyAppStep(p) \/ ProxyGuardianStep(p)
        PROVE  CallInv'
    <3>1. ProxyApp(p) \in Callers /\ ProxyGuardian(p) \in Callers
      BY CallerFacts
    <3>2. CASE ProxyAppStep(p)
      BY <2>3, <3>1, <3>2, RecordKept, SetOsKept DEF ProxyAppStep
    <3>3. CASE ProxyGuardianStep(p)
      BY <2>3, <3>1, <3>3, WakeKept DEF ProxyGuardianStep
    <3> QED
      BY <2>4, <3>2, <3>3, ListenKept, ArrivalKept, CrashKept
  <2> QED
    BY <2>1, <2>2, <2>4 DEF ProxyNext
<1> QED
  BY <1>1, <1>2, PTL DEF ProxySpec

\* set_os_proxy() and restore() against other instances and guardians: traffic
\* that was handed over to a running proxy is taken away only by its own
\* process or the user, whoever crashes, starts or fails meanwhile.
THEOREM TrafficKept == ProxySpec => LiveProxyKept
<1> DEFINE Kept ==
      \A p \in Instances :
        session[p] = "enabled" /\ os = Ours(port[p]) /\ (record # <<>> => record[1].owner = p)
          => os' = os \/ holder \in {Nobody, ProxyApp(p)}
<1>1. CallInv /\ [ProxyNext]_proxyVars => [Kept]_proxyVars
  <2> SUFFICES ASSUME CallInv, [ProxyNext]_proxyVars, NEW p \in Instances,
                      session[p] = "enabled", os = Ours(port[p]),
                      record # <<>> => record[1].owner = p, os' # os
               PROVE  holder \in {Nobody, ProxyApp(p)}
    OBVIOUS
  <2>1. (\E q \in Instances : SetOs(q)) \/ (\E a \in Callers : Apply(a)) \/ UserChanges
    <3>1. ASSUME NEW a \in Callers, Step(a) PROVE Apply(a)
      BY <3>1 DEF Step, Check, Remove, LockGivenUp
    <3>2. ASSUME NEW q \in Instances,
                 \/ ProxyStart(q) \/ Listen(q) \/ ChangePort(q) \/ Enable(q) \/ Stop(q) \/ ProxyExit(q)
                 \/ ProxyCrash(q) \/ ProxyGuardianKilled(q) \/ Record(q) \/ ProxyGuardianWakes(q)
          PROVE  FALSE
      BY <3>2 DEF ProxyStart, Listen, ChangePort, Enable, Stop, ProxyExit, ProxyCrash,
         ProxyGuardianKilled, Record, ProxyGuardianWakes
    <3> QED
      BY <3>1, <3>2, CallerFacts DEF ProxyNext, proxyVars, ProxyAppStep, ProxyGuardianStep
  <2>2. CASE UserChanges
    BY <2>2 DEF UserChanges
  <2>3. ASSUME NEW q \in Instances, SetOs(q) PROVE holder = ProxyApp(p)
    <3>1. ProxyApp(q) \in Callers /\ ProxyApp(q)[2] = q /\ call[ProxyApp(q)].pc = "set"
      BY <2>3, CallerFacts DEF SetOs
    <3>2. holder = ProxyApp(q) /\ record # <<>> /\ record[1].owner = q
      BY <3>1, Alone DEF CallInv, InCall, Inside
    <3> QED
      BY <3>2
  <2>4. ASSUME NEW a \in Callers, Apply(a) PROVE holder = ProxyApp(p)
    <3>1. /\ call[a].pc = "apply" /\ holder = a /\ record # <<>> /\ record[1] \in Records
          /\ Same(os, record[1].applied) /\ Entitled(a)
      BY <2>4, Alone DEF Apply, CallInv, InCall, Inside, ProxyShape
    <3>2. record[1].applied.addr = port[p]
      BY <3>1 DEF Same, Ours
    <3>3. a[2] = p
      BY <3>1, <3>2 DEF Entitled
    <3>4. a # ProxyGuardian(p)
      BY <3>1 DEF CallInv, LifeOf
    <3> QED
      BY <3>1, <3>3, <3>4, CallerFacts
  <2> QED
    BY <2>1, <2>2, <2>3, <2>4
<1> QED
  BY <1>1, CallInvariant, PTL DEF ProxySpec, LiveProxyKept

-----------------------------------------------------------------------------
(***************************************************************************)
(* With writes that are made or not made, and a port that does not change  *)
(* while it is recorded, the record always says how to get back: either    *)
(* the setting is ours and the record has the user's, or it is the user's. *)
(***************************************************************************)
WayBack ==
  /\ record[1].applied = Ours(port[record[1].owner])
  /\ IF Same(os, record[1].applied) THEN Same(record[1].previous, choice) ELSE Same(os, choice)

SettingInv ==
  /\ IF record = <<>> THEN Same(os, choice) ELSE WayBack
  /\ \A a \in Callers : /\ call[a].pc = "set" => Same(record[1].previous, choice)
                        /\ call[a].pc = "remove" => Same(os, choice)

ProxyInv == ~PartialWrites /\ ~Repoint /\ CallInv /\ SettingInv

\* Initially the setting is the user's.
LEMMA SettingInit == ProxyInit => SettingInv
<1> SUFFICES ASSUME ProxyInit PROVE SettingInv
  OBVIOUS
<1>1. \A a \in Callers : call[a].pc = "idle"
  BY DEF ProxyInit, NoCall
<1> QED
  BY <1>1 DEF ProxyInit, SettingInv, Same

\* Steps that concern neither the setting nor the record.
LEMMA SettingStands ==
  ASSUME SettingInv, UNCHANGED <<os, choice, record, port>>,
         \A a \in Callers : call'[a].pc \in {"set", "remove"} => call'[a].pc = call[a].pc
  PROVE  SettingInv'
  BY DEF SettingInv, WayBack, Same

LEMMA SettingStandsOne ==
  ASSUME ProxyInv, UNCHANGED <<os, choice, record, port>>, NEW a \in Callers, NEW new \in Calls,
         call' = [call EXCEPT ![a] = new], new.pc \notin Inside
  PROVE  SettingInv'
<1>1. call'[a] = new /\ \A b \in Callers : b # a => call'[b] = call[b]
  BY OneMoves DEF ProxyInv, CallInv, ProxyShape
<1>2. \A b \in Callers : call'[b].pc \in {"set", "remove"} => call'[b].pc = call[b].pc
  BY <1>1 DEF Inside
<1> QED
  BY <1>2, SettingStands DEF ProxyInv

\* Same() is an equality on what it compares.
LEMMA SameFacts ==
  /\ \A s : Same(s, s)
  /\ \A s, t, u : Same(s, t) /\ Same(t, u) => Same(s, u)
  /\ \A s, t : Same(s, t) => Same(t, s)
  BY DEF Same

\* UserChanges: the new setting is nobody's but the user's.
LEMMA UserSetting ==
  ASSUME ProxyInv, UserChanges
  PROVE  SettingInv'
<1>1. \A b \in Callers : call'[b].pc \notin Inside
  BY Alone DEF UserChanges, ProxyInv
<1>2. os' = choice' /\ os' \in UserSettings /\ UNCHANGED <<record, port>>
  BY DEF UserChanges
<1>3. record # <<>> => ~Same(os', record[1].applied)
  BY <1>2, UserSettingsAssumption DEF ProxyInv, CallInv, ProxyShape, Records
<1>4. record # <<>> => record[1].applied = Ours(port[record[1].owner])
  BY DEF ProxyInv, SettingInv, WayBack
<1> QED
  BY <1>1, <1>2, <1>3, <1>4, SameFacts DEF SettingInv, WayBack, Inside

\* Arrivals, deaths and a proxy that listens or moves.
LEMMA ComingAndGoing ==
  ASSUME ProxyInv, NEW p \in Instances,
         \/ ProxyStart(p) \/ Listen(p) \/ ChangePort(p) \/ Enable(p) \/ Stop(p) \/ ProxyExit(p)
         \/ ProxyCrash(p) \/ ProxyGuardianKilled(p) \/ ProxyGuardianWakes(p)
  PROVE  SettingInv'
<1>0. ProxyApp(p) \in Callers /\ ProxyGuardian(p) \in Callers
  BY CallerFacts
<1>1. CASE Listen(p)
  <2>1. UNCHANGED <<os, choice, record, port, call>>
    BY <1>1 DEF Listen
  <2> QED
    BY <2>1, SettingStands DEF ProxyInv
<1>2. CASE ChangePort(p)
  <2>1. UNCHANGED <<os, choice, record, call>> /\ record = <<>>
    BY <1>2 DEF ChangePort, ProxyInv
  <2> QED
    BY <2>1 DEF ProxyInv, SettingInv, Same
<1>3. CASE \/ ProxyStart(p) \/ Enable(p) \/ Stop(p) \/ ProxyExit(p)
           \/ ProxyCrash(p) \/ ProxyGuardianKilled(p) \/ ProxyGuardianWakes(p)
  <2>1. UNCHANGED <<os, choice, record, port>>
    BY <1>3 DEF ProxyStart, Enable, Stop, ProxyExit, ProxyCrash, ProxyGuardianKilled, ProxyGuardianWakes
  <2>2. \E a \in {ProxyApp(p), ProxyGuardian(p)}, new \in Calls :
          call' = [call EXCEPT ![a] = new] /\ new.pc \notin Inside
    <3>1. ASSUME NEW pc \in {"check", "record"},
                 NEW why \in {"start", "rollback", "stop", "exit", "after_exit"}, NEW tries \in {1, 2, 3}
          PROVE  /\ [pc |-> pc, why |-> why, left |-> tries] \in Calls
                 /\ [pc |-> pc, why |-> why, left |-> tries].pc \notin Inside
      BY DEF Calls, Inside
    <3>2. NoCall \in Calls /\ NoCall.pc \notin Inside
      BY DEF NoCall, Calls, Inside
    <3>3. CASE ProxyStart(p) \/ Enable(p) \/ Stop(p) \/ ProxyExit(p)
      <4>1. \E pc \in {"check", "record"}, why \in {"start", "rollback", "stop", "exit"}, tries \in {1, 2} :
              call' = [call EXCEPT ![ProxyApp(p)] = [pc |-> pc, why |-> why, left |-> tries]]
        BY <3>3 DEF ProxyStart, Enable, Stop, ProxyExit, Call
      <4> QED
        BY <3>1, <4>1
    <3>4. CASE ProxyGuardianWakes(p)
      BY <3>1, <3>4 DEF ProxyGuardianWakes
    <3>5. CASE ProxyCrash(p) \/ ProxyGuardianKilled(p)
      BY <3>2, <3>5 DEF ProxyCrash, ProxyGuardianKilled
    <3> QED
      BY <1>3, <3>3, <3>4, <3>5
  <2> QED
    BY <1>0, <2>1, <2>2, SettingStandsOne
<1> QED
  BY <1>1, <1>2, <1>3

\* enable() records the setting to go back to: the recorded one while ours is in
\* place, which is then its own, and otherwise the current one.
LEMMA RecordWayBack ==
  ASSUME ProxyInv, NEW p \in Instances, Record(p)
  PROVE  SettingInv'
<1> DEFINE a == ProxyApp(p)
<1>0. /\ a \in Callers /\ call[a].pc = "record" /\ call[a].pc # "idle" /\ CallInv
      /\ UNCHANGED <<os, choice, port>>
  BY CallerFacts DEF Record, ProxyInv
<1> HIDE DEF a
<1>1. CASE GoOn(a, "check") /\ UNCHANGED record
  <2>1. \E new \in Calls : call' = [call EXCEPT ![a] = new] /\ new.pc = "check"
    BY <1>0, <1>1, GoOnFacts
  <2> QED
    BY <1>0, <1>1, <2>1, SettingStandsOne DEF Inside
<1>2. CASE /\ ~ManagedByOther(p) /\ GoOn(a, "set") /\ holder = Nobody
           /\ record' = <<[owner |-> p, previous |-> Previous(p), applied |-> Ours(port[p])]>>
  <2>1. /\ call'[a].pc = "set" /\ \A b \in Callers : b # a => call'[b] = call[b]
    BY <1>0, <1>2, GoOnFacts DEF Inside
  <2>2. \A b \in Callers : b # a => call'[b].pc \notin Inside
    BY <1>0, <1>2, <2>1, Alone
  <2>3. Same(Previous(p), choice)
    <3>1. CASE record # <<>> /\ Same(os, record[1].applied)
      BY <3>1 DEF ProxyInv, SettingInv, WayBack, Previous
    <3>2. CASE ~(record # <<>> /\ Same(os, record[1].applied))
      BY <3>2 DEF ProxyInv, SettingInv, WayBack, Previous
    <3> QED
      BY <3>1, <3>2
  <2>4. Same(os, choice) \/ Same(os, Ours(port[p]))
    BY <1>2 DEF ProxyInv, SettingInv, WayBack, ManagedByOther
  <2>5. /\ record' # <<>> /\ record'[1].previous = Previous(p)
        /\ record'[1].applied = Ours(port[p]) /\ record'[1].owner = p
    BY <1>2
  <2>6. (IF record = <<>> THEN Same(os, choice) ELSE WayBack)'
    BY <1>0, <2>3, <2>4, <2>5 DEF WayBack, Same
  <2>7. \A b \in Callers : /\ call'[b].pc = "set" => Same(record'[1].previous, choice')
                           /\ call'[b].pc = "remove" => Same(os', choice')
    BY <1>0, <2>1, <2>2, <2>3, <2>5 DEF Inside
  <2> QED
    BY <2>6, <2>7 DEF SettingInv
<1> QED
  BY <1>1, <1>2 DEF Record, a

\* The setting is made, or not, with the way back recorded.
LEMMA SetOsWayBack ==
  ASSUME ProxyInv, NEW p \in Instances, SetOs(p)
  PROVE  SettingInv'
<1> DEFINE a == ProxyApp(p)
<1>0. /\ a \in Callers /\ a[2] = p /\ call[a].pc = "set" /\ call[a].pc # "idle" /\ call[a].pc \in Inside
      /\ CallInv /\ UNCHANGED <<choice, record, port>>
  BY CallerFacts DEF SetOs, ProxyInv, Inside
<1>1. /\ record # <<>> /\ record[1].applied = Ours(port[p]) /\ Same(record[1].previous, choice)
  BY <1>0 DEF ProxyInv, SettingInv, WayBack, CallInv, InCall
<1>2. os' \in {os, Ours(port[p])}
  BY DEF SetOs, Damage, ProxyInv
<1>3. \E new \in Calls : call' = [call EXCEPT ![a] = new] /\ new.pc \notin Inside
  <2>1. NoCall \in Calls /\ NoCall.pc \notin Inside
    BY DEF NoCall, Calls, Inside
  <2>2. CASE GoOn(a, "check")
    <3> HIDE DEF a
    <3> QED
      BY <1>0, <2>2, GoOnFacts DEF Inside
  <2> QED
    BY <2>1, <2>2 DEF SetOs
<1> HIDE DEF a
<1>4. \A b \in Callers : call'[b].pc \notin Inside
  <2>1. PICK new \in Calls : call' = [call EXCEPT ![a] = new] /\ new.pc \notin Inside
    BY <1>3
  <2>2. call'[a] = new /\ \A b \in Callers : b # a => call'[b] = call[b]
    BY <1>0, <2>1, OneMoves DEF CallInv, ProxyShape
  <2> QED
    BY <1>0, <2>1, <2>2, Alone
<1>5. WayBack'
  <2>1. CASE os' = os
    BY <1>0, <1>1, <2>1 DEF ProxyInv, SettingInv, WayBack, Same
  <2>2. CASE os' = Ours(port[p])
    BY <1>0, <1>1, <2>2, SameFacts DEF ProxyInv, SettingInv, WayBack
  <2> QED
    BY <1>2, <2>1, <2>2
<1> QED
  BY <1>0, <1>1, <1>4, <1>5 DEF SettingInv, Inside

\* The check finds the user's setting, or ours with the way back.
LEMMA CheckWayBack ==
  ASSUME ProxyInv, NEW a \in Callers, Check(a)
  PROVE  SettingInv'
<1>0. /\ call[a].pc = "check" /\ call[a].pc # "idle" /\ CallInv
      /\ UNCHANGED <<os, choice, record, port>>
  BY DEF Check, ProxyInv
<1>1. CASE Ended(a)
  BY <1>0, <1>1, CallOver, SettingStandsOne
<1>2. CASE /\ record # <<>>
           /\ GoOn(a, IF Same(os, record[1].applied) THEN "apply" ELSE "remove")
  <2> DEFINE pc == IF Same(os, record[1].applied) THEN "apply" ELSE "remove"
  <2>0. pc \in Inside
    BY DEF Inside
  <2>1. call'[a].pc = pc /\ \A b \in Callers : b # a => call'[b] = call[b]
    BY <1>0, <1>2, <2>0, GoOnFacts
  <2>2. call'[a].pc # "set" /\ (call'[a].pc = "remove" => Same(os, choice))
    BY <1>2, <2>1 DEF ProxyInv, SettingInv, WayBack
  <2>3. \A b \in Callers : /\ call'[b].pc = "set" => Same(record[1].previous, choice)
                           /\ call'[b].pc = "remove" => Same(os, choice)
    BY <2>1, <2>2 DEF ProxyInv, SettingInv
  <2> QED
    BY <1>0, <2>3 DEF ProxyInv, SettingInv, WayBack, Same
<1> QED
  BY <1>1, <1>2 DEF Check

\* restore_owned() puts the user's setting back before the record goes.
LEMMA ApplyWayBack ==
  ASSUME ProxyInv, NEW a \in Callers, Apply(a)
  PROVE  SettingInv'
<1>0. /\ call[a].pc = "apply" /\ call[a].pc # "idle" /\ call[a].pc \in Inside /\ CallInv
      /\ UNCHANGED <<choice, record, port>> /\ record # <<>> /\ WayBack
      /\ Same(os, record[1].applied) /\ Same(record[1].previous, choice)
  BY DEF Apply, ProxyInv, CallInv, InCall, Inside, SettingInv, WayBack
<1>1. Same(Restored, choice)
  <2>1. record[1].previous \in Settings /\ choice \in Settings
    BY <1>0 DEF CallInv, ProxyShape, Records
  <2> QED
    BY <1>0, <2>1 DEF Restored, Disabled, Same, Settings
<1>2. os' \in {os, Restored}
  BY DEF Apply, Damage, ProxyInv
<1>3. WayBack'
  <2>1. CASE os' = os
    BY <1>0, <2>1 DEF WayBack, Same
  <2>2. CASE os' = Restored
    BY <1>0, <1>1, <2>2 DEF WayBack, Same
  <2> QED
    BY <1>2, <2>1, <2>2
<1>4. \A b \in Callers : call'[b].pc # "set" /\ (call'[b].pc = "remove" => Same(os', choice'))
  <2>1. CASE os' = Restored /\ GoOn(a, "remove")
    <3>1. call'[a].pc = "remove" /\ \A b \in Callers : b # a => call'[b] = call[b]
      BY <1>0, <2>1, GoOnFacts DEF Inside
    <3>2. \A b \in Callers : b # a => call'[b].pc \notin Inside
      BY <1>0, <3>1, Alone
    <3> QED
      BY <1>0, <1>1, <2>1, <3>1, <3>2 DEF Inside, Same
  <2>2. CASE Failed(a)
    <3>1. PICK new \in Calls : call' = [call EXCEPT ![a] = new] /\ new.pc \notin Inside
      BY <1>0, <2>2, CallOver
    <3>2. call'[a] = new /\ \A b \in Callers : b # a => call'[b] = call[b]
      BY <1>0, <3>1, OneMoves DEF CallInv, ProxyShape
    <3>3. \A b \in Callers : call'[b].pc \notin Inside
      BY <1>0, <3>1, <3>2, Alone
    <3> QED
      BY <3>3 DEF Inside
  <2> QED
    BY <2>1, <2>2 DEF Apply
<1> QED
  BY <1>0, <1>3, <1>4 DEF SettingInv

LEMMA RemoveWayBack ==
  ASSUME ProxyInv, NEW a \in Callers, Remove(a)
  PROVE  SettingInv'
<1>0. /\ call[a].pc = "remove" /\ call[a].pc # "idle" /\ call[a].pc \in Inside /\ CallInv
      /\ UNCHANGED <<os, choice, port>> /\ record' = <<>> /\ Ended(a) /\ Same(os, choice)
  BY DEF Remove, ProxyInv, SettingInv, Inside
<1>1. PICK new \in Calls : call' = [call EXCEPT ![a] = new] /\ new.pc \notin Inside
  BY <1>0, CallOver
<1>2. call'[a] = new /\ \A b \in Callers : b # a => call'[b] = call[b]
  BY <1>0, <1>1, OneMoves DEF CallInv, ProxyShape
<1>3. \A b \in Callers : call'[b].pc \notin Inside
  BY <1>0, <1>1, <1>2, Alone
<1> QED
  BY <1>0, <1>3 DEF SettingInv, Inside, Same

\* A wait for the lock that is given up changes nothing.
LEMMA GivenUpWayBack ==
  ASSUME ProxyInv, NEW a \in Callers, LockGivenUp(a)
  PROVE  SettingInv'
<1>0. call[a].pc # "idle" /\ CallInv /\ UNCHANGED <<os, choice, record, port>>
  BY DEF LockGivenUp, ProxyInv
<1>1. CASE GoOn(a, "check")
  <2>1. \E new \in Calls : call' = [call EXCEPT ![a] = new] /\ new.pc = "check"
    BY <1>0, <1>1, GoOnFacts
  <2> QED
    BY <1>0, <2>1, SettingStandsOne DEF Inside
<1>2. CASE Failed(a)
  BY <1>0, <1>2, CallOver, SettingStandsOne
<1> QED
  BY <1>1, <1>2 DEF LockGivenUp

\* The inductive invariant of the setting.
THEOREM SettingInvariant == ProxySpec /\ ~PartialWrites /\ ~Repoint => []ProxyInv
<1>1. ProxyInit /\ ~PartialWrites /\ ~Repoint => ProxyInv
  BY CallInvInit, SettingInit DEF ProxyInv
<1>2. ASSUME ProxyInv, [ProxyNext]_proxyVars PROVE SettingInv'
  <2>1. CASE UNCHANGED proxyVars
    <3>1. UNCHANGED <<os, choice, record, port, call>>
      BY <2>1 DEF proxyVars
    <3> QED
      BY <1>2, <3>1, SettingStands DEF ProxyInv
  <2>2. CASE UserChanges
    BY <1>2, <2>2, UserSetting
  <2>3. ASSUME NEW a \in Callers, Step(a) PROVE SettingInv'
    BY <1>2, <2>3, CheckWayBack, ApplyWayBack, RemoveWayBack, GivenUpWayBack DEF Step
  <2>4. ASSUME NEW p \in Instances,
               \/ ProxyStart(p) \/ Listen(p) \/ ChangePort(p) \/ Enable(p) \/ Stop(p) \/ ProxyExit(p)
               \/ ProxyCrash(p) \/ ProxyGuardianKilled(p) \/ ProxyAppStep(p) \/ ProxyGuardianStep(p)
        PROVE  SettingInv'
    <3>1. ProxyApp(p) \in Callers /\ ProxyGuardian(p) \in Callers
      BY CallerFacts
    <3>2. CASE ProxyAppStep(p)
      BY <1>2, <2>3, <3>1, <3>2, RecordWayBack, SetOsWayBack DEF ProxyAppStep
    <3>3. CASE ProxyGuardianStep(p)
      BY <1>2, <2>3, <3>1, <3>3, ComingAndGoing DEF ProxyGuardianStep
    <3> QED
      BY <1>2, <2>4, <3>2, <3>3, ComingAndGoing
  <2> QED
    BY <1>2, <2>1, <2>2, <2>4 DEF ProxyNext
<1>3. ProxyInv /\ CallInv' /\ [ProxyNext]_proxyVars => ProxyInv'
  BY <1>2 DEF ProxyInv
<1> QED
  BY <1>1, <1>3, CallInvariant, PTL DEF ProxySpec

\* "A failed write prevents taking ownership, rather than leaving an unrecorded
\* proxy behind": when nothing is recorded and nobody is at work, the setting is
\* the one the user chose, whichever instances crashed, failed or restored.
THEOREM UsersSettingBack == ProxySpec /\ ~PartialWrites /\ ~Repoint => []NothingLeftBehind
<1>1. ProxyInv => NothingLeftBehind
  BY DEF ProxyInv, SettingInv, NothingLeftBehind
<1> QED
  BY <1>1, SettingInvariant, PTL


-----------------------------------------------------------------------------
(***************************************************************************)
(* The default route.  The routes past the device shrink only together     *)
(* with the default route's removal; TunInv adds who is at work: a setup   *)
(* keeps the lock from its first route to its last, an attempt is not set  *)
(* up twice, and a node switch is only published to the attempt that the   *)
(* window shows as running.                                                *)
(***************************************************************************)
TaskStages == {"none", "resolve", "add", "device", "save", "done", "up", "restoring",
               "stopping", "dropping", "failing", "failed", "ended"}
TunTasks == [pc : TaskStages, ips : SUBSET Nodes, node : Nodes, late : BOOLEAN]
TunUis == [enabled : BOOLEAN, starting : BOOLEAN, stop : {"none", "armed", "sent"},
           node : Nodes, attempt : Nat]
Phases == {"idle", "wait", "undo", "clear", "leaving", "publish"}
Reasons == {"none", "start", "exit", "stop", "switch", "guardian", "drop", "failed"}

\* An operation, whatever the addresses in it.
IsOp(o) ==
  o = [pc |-> o.pc, why |-> o.why, ips |-> o.ips] /\ o.pc \in Phases /\ o.why \in Reasons

TunShape ==
  /\ life \in [Procs -> {"unborn", "up", "dead"}] /\ ui \in [Procs -> TunUis]
  /\ task \in [Procs -> [Attempts -> TunTasks]]
  /\ op = [x \in Actors |-> op[x]] /\ \A x \in Actors : IsOp(op[x])
  /\ budget = [attempts |-> budget.attempts, switches |-> budget.switches, kills |-> budget.kills]
  /\ budget.attempts \in Nat /\ lock \in Actors \cup {Free}
  /\ route \in {Orig} \cup (Procs \X Attempts)

\* Routes change under the lock only.
TunLock ==
  /\ \A x \in Actors : op[x].pc \in {"undo", "clear"} => lock = x
  /\ \A p \in Procs, a \in Attempts :
       task[p][a].pc \in {"add", "device", "save"} => lock = Task(p, a)

\* The window and its thread.
WindowOf(p) ==
  /\ ui[p].attempt + budget.attempts <= MaxAttempts
  /\ ui[p].starting => ui[p].attempt \in Attempts
  /\ ui[p].enabled => /\ ui[p].attempt \in Attempts
                      /\ task[p][ui[p].attempt].pc \in {"up", "restoring", "stopping"}
  /\ op[App(p)].pc # "idle" => life[p] = "up"
  /\ op[App(p)].why \notin {"drop", "failed"}
  /\ op[App(p)].why = "stop" => ui[p].enabled /\ task[p][ui[p].attempt].pc = "restoring"
  /\ op[App(p)].pc = "publish" =>
       ui[p].enabled /\ (route = <<p, ui[p].attempt>> => ui[p].node \in bypass)
  /\ op[Guardian(p)].why \notin {"stop", "drop", "failed"}

AttemptOf(p, a) ==
  /\ task[p][a].pc # "none" => life[p] = "up" /\ a <= ui[p].attempt
  /\ task[p][a].pc \in {"resolve", "add", "device"} => task[p][a].node \in task[p][a].ips
  /\ task[p][a].pc = "device" => task[p][a].ips \subseteq bypass
  /\ op[Task(p, a)].pc # "idle" => /\ task[p][a].pc \in {"dropping", "failing"}
                                   /\ op[Task(p, a)].why \in {"drop", "failed"}
  /\ route = <<p, a>> =>
       /\ life[p] # "unborn"
       /\ life[p] = "up" => a <= ui[p].attempt /\ task[p][a].node \in bypass

TunInv ==
  /\ TunShape /\ TunLock
  /\ \A p \in Procs : WindowOf(p) /\ \A a \in Attempts : AttemptOf(p, a)
==============================================================================
