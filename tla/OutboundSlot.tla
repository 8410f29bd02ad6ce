----------------------------- MODULE OutboundSlot -----------------------------
(***************************************************************************)
(* What SwappableOutbound promises (proxy/connector.rs): set(),            *)
(* set_if_current(), update_dns() and publish() each take effect in one    *)
(* step between their call and their return, whatever the other threads    *)
(* do.  Swappable is the code that keeps the promise with optimistic       *)
(* retries; the health monitor and the daemon are specified over this one. *)
(***************************************************************************)
EXTENDS Naturals

CONSTANTS Threads, MaxIds

VARIABLES outbound, dns,   \* what new connections see
          fresh,           \* the next Arc identity
          pending          \* the call each thread is in

slotVars == <<outbound, dns, fresh, pending>>

NoDns == [id |-> 0, edits |-> {}]
NoCall == [op |-> "none", new |-> 0, expected |-> 0]

Init ==
  /\ outbound = 1 /\ dns = NoDns /\ fresh = 2
  /\ pending = [t \in Threads |-> NoCall]

Call(t, op, expected) ==
  /\ pending[t] = NoCall /\ fresh < MaxIds
  /\ pending' = [pending EXCEPT ![t] = [op |-> op, new |-> fresh, expected |-> expected]]
  /\ fresh' = fresh + 1
  /\ UNCHANGED <<outbound, dns>>

\* The new outbound and DNS config, from the ones current at that moment.
Effect(c) ==
  \/ c.op = "set" /\ outbound' = c.new /\ dns' = dns
  \/ c.op = "set_if_current" /\ outbound = c.expected /\ outbound' = c.new /\ dns' = dns
  \/ c.op = "set_if_current" /\ outbound # c.expected /\ UNCHANGED <<outbound, dns>>
  \/ c.op = "update_dns" /\ dns = NoDns /\ UNCHANGED <<outbound, dns>>
  \/ /\ c.op = "update_dns" /\ dns # NoDns /\ outbound' = outbound
     /\ dns' = [id |-> c.new, edits |-> dns.edits \cup {c.new}]

TakeEffect(t) ==
  /\ pending[t] # NoCall
  /\ Effect(pending[t])
  /\ pending' = [pending EXCEPT ![t] = NoCall]
  /\ UNCHANGED fresh

Publish(t) ==
  /\ pending[t] = NoCall /\ fresh + 1 < MaxIds
  /\ outbound' = fresh /\ dns' = [id |-> fresh + 1, edits |-> {}]
  /\ fresh' = fresh + 2
  /\ UNCHANGED pending

Next ==
  \E t \in Threads :
    \/ Call(t, "set", 0) \/ Call(t, "update_dns", 0) \/ Call(t, "set_if_current", outbound)
    \/ TakeEffect(t) \/ Publish(t)

Spec == Init /\ [][Next]_slotVars
=============================================================================
