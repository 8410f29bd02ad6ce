------------------------------ MODULE Swappable ------------------------------
(***************************************************************************)
(* SwappableOutbound (proxy/connector.rs): the one slot through which      *)
(* every new connection finds its outbound, its DNS configuration and the  *)
(* resolver built from both.  Manual switches, reloads, DNS edits and the  *)
(* health monitor's failover change it concurrently; they build the        *)
(* resolver outside the lock and commit optimistically.                    *)
(*                                                                         *)
(* Arcs are compared by pointer, so every outbound and every DNS config    *)
(* has an identity of its own, drawn from fresh.  A DNS config also        *)
(* carries the set of update_dns() edits it includes.                      *)
(***************************************************************************)
EXTENDS Naturals

CONSTANTS Threads,
          MaxIds    \* bound on the identities handed out

ASSUME MaxIdsAssumption == MaxIds \in Nat

VARIABLES outbound, dns, resolver,   \* PublishedOutbound
          fresh,                     \* the next identity
          call,                      \* the operation each thread is in
          edited                     \* history: edits since the last publish()

published == <<outbound, dns, resolver>>
swapVars == <<published, fresh, call, edited>>

\* None, and the resolver for a pair of outbound and DNS config.
NoDns == [id |-> 0, edits |-> {}]
Resolver(o, d) == IF d = NoDns THEN <<>> ELSE <<o, d>>

Idle == [op |-> "none", pc |-> "idle", new |-> 0, expected |-> 0, out |-> 0, dns |-> NoDns]

Dns == [id : Nat, edits : SUBSET Nat]
Calls == [op : {"none", "set", "set_if_current", "update_dns"},
          pc : {"idle", "read", "commit"},
          new : Nat, expected : Nat, out : Nat, dns : Dns]

\* Types; identities come from fresh; a call that returned holds no Arc.
SwapTypeOK ==
  /\ outbound \in Nat /\ dns \in Dns /\ fresh \in Nat /\ edited \in SUBSET Nat
  /\ call \in [Threads -> Calls]
  /\ outbound < fresh /\ dns.id < fresh
  /\ \A t \in Threads : call[t].pc = "idle" <=> call[t] = Idle

SwapInit ==
  /\ outbound = 1 /\ dns = NoDns /\ resolver = <<>>
  /\ fresh = 2 /\ edited = {}
  /\ call = [t \in Threads |-> Idle]

-----------------------------------------------------------------------------
\* A thread enters one of the retrying operations; new is the identity of
\* the outbound it installs, or of its edit and the DNS config that has it.
Begin(t, op, expected) ==
  /\ call[t].pc = "idle" /\ fresh < MaxIds
  /\ call' = [call EXCEPT ![t] = [op |-> op, pc |-> "read", new |-> fresh,
                                      expected |-> expected, out |-> 0, dns |-> NoDns]]
  /\ fresh' = fresh + 1
  /\ UNCHANGED <<published, edited>>

\* What ends a call without a change: a superseded failover, an edit of
\* nothing.
Superseded(t) == call[t].op = "set_if_current" /\ outbound # call[t].expected
NothingToEdit_Never(t) == FALSE
NothingToEdit(t) == call[t].op = "update_dns" /\ dns = NoDns

Return(t) == call' = [call EXCEPT ![t] = Idle]

\* The snapshot under the read lock; what follows builds the resolver.
Read(t) ==
  /\ call[t].pc = "read"
  /\ IF Superseded(t) \/ NothingToEdit(t)
       THEN Return(t)
       ELSE call' = [call EXCEPT ![t] =
                       [op |-> @.op, pc |-> "commit", new |-> @.new,
                        expected |-> @.expected, out |-> outbound, dns |-> dns]]
  /\ UNCHANGED <<published, fresh, edited>>

\* What a committer finds changed under it sends it back to the snapshot.
Stale(t) ==
  \/ dns.id # call[t].dns.id
  \/ call[t].op = "update_dns" /\ outbound # call[t].out

\* The commit under the write lock.
Commit(t) ==
  LET c == call[t]
      changed == [id |-> c.new, edits |-> c.dns.edits \cup {c.new}]
  IN  /\ c.pc = "commit"
      /\ \/ Superseded(t) /\ Return(t) /\ UNCHANGED <<published, edited>>
         \/ /\ ~Superseded(t) /\ Stale(t)
            /\ call' = [call EXCEPT ![t].pc = "read"]
            /\ UNCHANGED <<published, edited>>
         \/ /\ ~Superseded(t) /\ ~Stale(t) /\ c.op # "update_dns"
            /\ outbound' = c.new /\ resolver' = Resolver(c.new, c.dns)
            /\ Return(t) /\ UNCHANGED <<dns, edited>>
         \/ /\ ~Superseded(t) /\ ~Stale(t) /\ c.op = "update_dns"
            /\ dns' = changed /\ resolver' = Resolver(c.out, changed)
            /\ edited' = edited \cup {c.new}
            /\ Return(t) /\ UNCHANGED outbound
      /\ UNCHANGED fresh

\* publish(): everything is built beforehand and replaces the slot.
Publish(t) ==
  LET config == [id |-> fresh + 1, edits |-> {}]
  IN  /\ call[t].pc = "idle" /\ fresh + 1 < MaxIds
      /\ outbound' = fresh /\ dns' = config /\ resolver' = Resolver(fresh, config)
      /\ fresh' = fresh + 2 /\ edited' = {}
      /\ UNCHANGED call

SwapNext ==
  \E t \in Threads :
    \/ Begin(t, "set", 0) \/ Begin(t, "update_dns", 0)
    \/ Begin(t, "set_if_current", outbound)
    \/ Read(t) \/ Commit(t) \/ Publish(t)

SwapSpec == SwapInit /\ [][SwapNext]_swapVars

-----------------------------------------------------------------------------
(* Properties.                                                             *)

\* A connection never resolves names with another outbound's transport or
\* another configuration than the ones published with it.
ResolverMatches == resolver = Resolver(outbound, dns)

\* No DNS edit is lost to a concurrent switch, failover or other edit: the
\* published config has every edit committed since the last publish().
EditsKept == dns.edits = edited

\* A failover replaces exactly the outbound it was decided for; a switch or
\* reload that came first wins.
FailoverYields ==
  [][\A t \in Threads :
       /\ call[t].op = "set_if_current" /\ outbound' = call[t].new
       /\ outbound # call[t].new
       => outbound = call[t].expected]_swapVars

\* Every operation is atomic to its callers: the slot behaves as OutboundSlot,
\* where each call takes effect in one step from the state it finds.
OpOf(c) == [op |-> c.op, new |-> c.new, expected |-> c.expected]
Slot == INSTANCE OutboundSlot WITH pending <- [t \in Threads |-> OpOf(call[t])]
Atomic == Slot!Spec
=============================================================================
