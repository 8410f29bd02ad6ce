------------------------------ MODULE MCNames ------------------------------
(***************************************************************************)
(* How a request finds its upstream and is accounted for, for TLC: lookups *)
(* through the resolver's caches and shared exchanges, the persistent      *)
(* table of fake addresses, the slots of the DNS connection pool, the wait *)
(* for a bootstrap lookup, the pool of idle connections and the ledger of  *)
(* relayed bytes.  They have no state in common, so a behaviour exercises  *)
(* one of them, chosen at the start; the other parts stand still.          *)
(***************************************************************************)
EXTENDS FakeIpStore, EndpointWait, DnsSlots, TrafficLedger, TLC

CONSTANTS Callers, Refreshers, Stores, Cells, TTLs, CacheTtl, NegativeTtl,
          StaleWindow, WireMax, MaxTime, MaxPublish, MaxEvents,
          Getters, Base, Capacity, Budget, MaxAge, Window, FillConcurrency, MaxOthers, MaxClock

VARIABLES part, now, published, publishes, runtime, cache, wire, registry, cell, exchange, calls,
          clock, conns, demand, budget, others, refill, filler, getter, ended

Dns == INSTANCE DnsResolver WITH task <- exchange
Pool == INSTANCE ConnPool

dnsVars == <<now, published, publishes, runtime, cache, wire, registry, cell, exchange, calls>>
poolVars == <<clock, conns, demand, budget, others, refill, filler, getter, ended>>

NamesInit ==
    /\ part \in {"resolver", "table", "slots", "wait", "pool", "ledger"}
    /\ Dns!Init /\ StoreInit /\ SlotsInit /\ WaitInit /\ Pool!Init /\ LedgerInit
    /\ (part = "pool" \/ filler.pc = "fill") /\ (part = "table" \/ mode = "writer")

NamesNext ==
    /\ UNCHANGED part
    /\ \/ part = "resolver" /\ Dns!Next /\ UNCHANGED <<storeVars, slotVars, waitVars, poolVars, ledgerVars>>
       \/ part = "table" /\ StoreNext /\ UNCHANGED <<dnsVars, slotVars, waitVars, poolVars, ledgerVars>>
       \/ part = "slots" /\ SlotsNext /\ UNCHANGED <<dnsVars, storeVars, waitVars, poolVars, ledgerVars>>
       \/ part = "wait" /\ WaitNext /\ UNCHANGED <<dnsVars, storeVars, slotVars, poolVars, ledgerVars>>
       \/ part = "pool" /\ Pool!Next /\ UNCHANGED <<dnsVars, storeVars, slotVars, waitVars, ledgerVars>>
       \/ part = "ledger" /\ LedgerNext /\ UNCHANGED <<dnsVars, storeVars, slotVars, waitVars, poolVars>>

NamesSpec ==
    NamesInit /\ [][NamesNext]_<<part, dnsVars, storeVars, slotVars, waitVars, poolVars, ledgerVars>>

\* Two clients, one refresh permit.
MCStores == 1..4
MCCells == 1..6
MCSymmetry == Permutations(Callers)

(* DnsResolver: an answer comes from the policy its call started under.      *)
AnswersFollowPolicy == Dns!AnswersFollowPolicy

(* DnsResolver: no answer outlives its TTL and the stale window.             *)
TtlHonoured == Dns!TtlHonoured

(* DnsResolver: nobody waits for a caller that is gone.                      *)
NobodyStranded == Dns!NobodyStranded

(* ConnPool: the filling task hears of every request.                        *)
DemandHeard == Pool!DemandHeard
=============================================================================
