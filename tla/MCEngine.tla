------------------------------ MODULE MCEngine ------------------------------
(***************************************************************************)
(* The parts of the running daemon that change under its own traffic, for  *)
(* TLC: the writer of the fake-IP table, the slot of the active outbound,  *)
(* the QUIC connection shared by its requests, the health monitor and the  *)
(* configuration watcher.  They have no state in common at this level, so  *)
(* a behaviour exercises one of them, chosen at the start; the other parts *)
(* stand still, and fairness concerns the chosen one.                      *)
(***************************************************************************)
EXTENDS CoalescingWriter, Swappable, HealthMonitor, ConfigReload

CONSTANTS Callers, Connections, RetireAfter, MaxTime, None

VARIABLES part,
          now, cached, holder, slow_since, open, sick, hung, caller

Quic == INSTANCE QuicConnection

quicVars == <<now, cached, holder, slow_since, open, sick, hung, caller>>

\* Four nodes, the third an alias of the first.
AliasKey == <<1, 2, 1, 3>>

\* Two texts in compatibility mode, one of which needs a restart, two in
\* dual_stack, one unusable, one that does not parse.
MCTexts == {"c1", "c2", "d1", "d2", "u", "x"}
MCKind == [t \in MCTexts |-> CASE t = "u" -> "unusable" [] t = "x" -> "bad" [] OTHER -> "good"]
MCMode == [t \in MCTexts |-> IF t \in {"d1", "d2"} THEN "dual_stack" ELSE "compatibility"]

EngineInit ==
  /\ part \in {"writer", "slot", "health", "config", "quic"}
  /\ Init /\ SwapInit /\ HealthInit /\ ConfigInit /\ Quic!Init

EngineNext ==
  /\ UNCHANGED part
  /\ \/ part = "writer" /\ Next /\ UNCHANGED <<swapVars, healthVars, configVars, quicVars>>
     \/ part = "slot" /\ SwapNext /\ UNCHANGED <<vars, healthVars, configVars, quicVars>>
     \/ part = "health" /\ HealthNext /\ UNCHANGED <<vars, swapVars, configVars, quicVars>>
     \/ part = "config" /\ ConfigNext /\ UNCHANGED <<vars, swapVars, healthVars, quicVars>>
     \/ part = "quic" /\ Quic!Next /\ UNCHANGED <<vars, swapVars, healthVars, configVars>>

\* The fairness of each part's own specification.
EngineFairness ==
  /\ WF_vars(part = "writer" /\ WorkerStep)
  /\ WF_vars(part = "writer" /\ IntervalElapses) /\ WF_vars(part = "writer" /\ Schedule)
  /\ \A f \in Flushers : WF_vars(part = "writer" /\ FlushWake(f))
  /\ WF_healthVars(part = "health" /\ Monitor)
  /\ WF_healthVars(part = "health" /\ QuarantineElapses)
  /\ WF_configVars(part = "config" /\ Start)
  /\ WF_configVars(part = "config" /\ Watch)
  /\ WF_configVars(part = "config" /\ Daemon)
  /\ WF_configVars(part = "config" /\ PolicyEnds)
  /\ Quic!Fairness

EngineSpec ==
  /\ EngineInit /\ EngineFairness
  /\ [][EngineNext]_<<part, vars, swapVars, healthVars, configVars, quicVars>>

(* QuicConnection: no request waits for ever behind a hung handshake.        *)
RequestsEnd == Quic!RequestsEnd
=============================================================================
