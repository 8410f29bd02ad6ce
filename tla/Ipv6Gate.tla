------------------------------- MODULE Ipv6Gate -------------------------------
(***************************************************************************)
(* The IPv6 answers of the LAN DNS on a router (main.rs).  The firmware    *)
(* script creates a readiness file while IPv6 interception is installed.   *)
(* Startup and every reload publish a resolver configuration whose flag    *)
(* says whether IPv6 is answered; a task looks once a second and corrects  *)
(* the flag when the remembered gate differs from what it sees.  The flag, *)
(* the gate and the mode are separate shared variables.                    *)
(***************************************************************************)
EXTENDS Naturals

CONSTANTS MaxChanges,   \* bound: changes of the readiness file
          MaxReloads

VARIABLES ready,     \* the readiness file exists
          mode,      \* dual_stack_mode: the accepted mode is dual_stack
          flag,      \* dual_stack_fakeip of the published configuration
          gate,      \* ipv6_dns_open
          reload,    \* the main task: starting up or reloading
          tick,      \* the task that follows the readiness file
          changes, reloads

gateVars == <<ready, mode, flag, gate, reload, tick, changes, reloads>>

GateTypeOK ==
    /\ {ready, mode, flag, gate} \subseteq BOOLEAN
    /\ reload \in [pc : {"start", "gate0", "idle", "publish", "mode", "gate"}, dual : BOOLEAN, answers : BOOLEAN]
    /\ tick \in [pc : {"sleep", "look", "update", "store"}, now : BOOLEAN]
    /\ changes \in 0 .. MaxChanges /\ reloads \in 0 .. MaxReloads

GateInit ==
    /\ ready \in BOOLEAN /\ mode \in BOOLEAN
    /\ flag = FALSE /\ gate = FALSE /\ changes = 0 /\ reloads = 0
    /\ reload = [pc |-> "start", dual |-> mode, answers |-> FALSE]
    /\ tick = [pc |-> "sleep", now |-> FALSE]

\* merlin_ipv6_answers
Answers(dual) == dual /\ ready

ReadinessChanges ==
    /\ changes < MaxChanges /\ changes' = changes + 1
    /\ ready' = ~ ready
    /\ UNCHANGED <<mode, flag, gate, reload, tick, reloads>>

ReloadAt(pc, next) == reload.pc = pc /\ reload' = [reload EXCEPT !.pc = next]

\* Startup publishes the flag and then initialises the gate, looking twice.
StartPublishes ==
    /\ ReloadAt("start", "gate0") /\ flag' = Answers(mode)
    /\ UNCHANGED <<ready, mode, gate, tick, changes, reloads>>
StartOpensGate ==
    /\ ReloadAt("gate0", "idle") /\ gate' = Answers(mode)
    /\ UNCHANGED <<ready, mode, flag, tick, changes, reloads>>

\* A reload looks once; publishing and the two stores follow one after another.
ReloadLooks ==
    /\ reload.pc = "idle" /\ reloads < MaxReloads /\ reloads' = reloads + 1
    /\ \E dual \in BOOLEAN : reload' = [pc |-> "publish", dual |-> dual, answers |-> Answers(dual)]
    /\ UNCHANGED <<ready, mode, flag, gate, tick, changes>>
ReloadPublishes ==
    /\ ReloadAt("publish", "mode") /\ flag' = reload.answers
    /\ UNCHANGED <<ready, mode, gate, tick, changes, reloads>>
ReloadStoresMode ==
    /\ ReloadAt("mode", "gate") /\ mode' = reload.dual
    /\ UNCHANGED <<ready, flag, gate, tick, changes, reloads>>
ReloadStoresGate ==
    /\ ReloadAt("gate", "idle") /\ gate' = reload.answers
    /\ UNCHANGED <<ready, mode, flag, tick, changes, reloads>>

\* The task that follows the readiness file, once the daemon has started.
TickBegins ==
    /\ tick.pc = "sleep" /\ reload.pc \notin {"start", "gate0"}
    /\ tick' = [pc |-> "look", now |-> mode]
    /\ UNCHANGED <<ready, mode, flag, gate, reload, changes, reloads>>
TickLooks ==
    /\ tick.pc = "look"
    /\ LET now == tick.now /\ ready
       IN tick' = IF now = gate THEN [pc |-> "sleep", now |-> FALSE] ELSE [pc |-> "update", now |-> now]
    /\ UNCHANGED <<ready, mode, flag, gate, reload, changes, reloads>>
TickUpdates ==
    /\ tick.pc = "update"
    /\ flag' = tick.now /\ tick' = [tick EXCEPT !.pc = "store"]
    /\ UNCHANGED <<ready, mode, gate, reload, changes, reloads>>
TickStores ==
    /\ tick.pc = "store"
    /\ gate' = tick.now /\ tick' = [pc |-> "sleep", now |-> FALSE]
    /\ UNCHANGED <<ready, mode, flag, reload, changes, reloads>>

Main == \/ StartPublishes \/ StartOpensGate
        \/ ReloadPublishes \/ ReloadStoresMode \/ ReloadStoresGate
Tick == TickBegins \/ TickLooks \/ TickUpdates \/ TickStores
GateNext == ReadinessChanges \/ ReloadLooks \/ Main \/ Tick

\* The main task and the ticking task keep running.
GateSpec == GateInit /\ [][GateNext]_gateVars /\ WF_gateVars(Main) /\ WF_gateVars(Tick)

\* "IPv6 DNS answers ... follow the installed LAN interception": once the readiness
\* file and the mode stay as they are, the published flag comes to agree with them.
AnswersFollowInterception == <>[](flag = Answers(mode))
=============================================================================
