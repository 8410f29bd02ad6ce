------------------------------ MODULE MCDesktop ------------------------------
(***************************************************************************)
(* What the desktop application changes in its system, for TLC: the        *)
(* default route (TunMode) and the proxy setting (SystemProxy).  Each has  *)
(* a record, a lock and a restoration of its own, so a behaviour exercises *)
(* one of them, chosen at the start; the other stands still, and fairness  *)
(* concerns the chosen one.                                                *)
(***************************************************************************)
EXTENDS MCTun, SystemProxy

VARIABLE part

\* Without and with a proxy of the user's own.
OffOrOn == {[on |-> FALSE, addr |-> "none"], [on |-> TRUE, addr |-> "corp"]}

\* The part that stands still has one initial state.
DesktopInit ==
  /\ part \in {"proxy", "tun"} /\ Init /\ ProxyInit
  /\ part = "tun" => ~choice.on
  /\ part = "proxy" => \A p \in Procs : root[p]

DesktopNext ==
  /\ UNCHANGED part
  /\ \/ part = "tun" /\ Next /\ UNCHANGED proxyVars
     \/ part = "proxy" /\ ProxyNext /\ UNCHANGED vars

\* The fairness of each part's own specification.
DesktopFairness ==
  /\ \A p \in Instances : /\ WF_proxyVars(part = "proxy" /\ ProxyAppStep(p))
                          /\ WF_proxyVars(part = "proxy" /\ ProxyGuardianStep(p))
  /\ \A p \in Procs :
       /\ WF_vars(part = "tun" /\ GuardianStep(p)) /\ WF_vars(part = "tun" /\ Restore(App(p)))
       /\ \A a \in Attempts : WF_vars(part = "tun" /\ TaskStep(p, a))

DesktopSpec == DesktopInit /\ [][DesktopNext]_<<part, vars, proxyVars>> /\ DesktopFairness
=============================================================================
