---------------------------- MODULE DnsResolver ----------------------------
(***************************************************************************)
(* Lookups of one host name in crates/sockrocket-core/src/dns: the         *)
(* snapshot of the published policy (query_snapshot), the address cache    *)
(* with its stale window, the in-flight registry of resolve_dedup, the     *)
(* wire cache and the in-flight registry of exchange_raw, and the exchange *)
(* with the upstream servers.                                              *)
(*                                                                         *)
(* A registry entry is a cell: a tokio OnceCell plus an explicit count of  *)
(* its callers.  The first caller initialises it, the others wait; if the  *)
(* initialising future is dropped a waiter takes over.  Any caller can be  *)
(* cancelled at every await (a client timeout, a closed connection); the   *)
(* background refreshes are spawned tasks and run to their end.            *)
(*                                                                         *)
(* Time is counted in TTL units.  Only the network takes time: a task      *)
(* that can go on without it does so before the clock advances.            *)
(***************************************************************************)
EXTENDS Integers, FiniteSets, FiniteSetsExt

CONSTANTS
    Callers,        \* tasks of clients: resolve(), the fake-IP probe, the listener
    Refreshers,     \* permits of refresh_slots: one background refresh each
    Stores,         \* identities of RuntimeDnsCache values
    Cells,          \* identities of in-flight cells
    None,           \* no cell, no entry, no answer, no task
    TTLs,           \* TTLs an upstream may answer with
    CacheTtl,       \* config.cache_ttl, 0 for "as answered"
    NegativeTtl,    \* NEGATIVE_CACHE_TTL
    StaleWindow,    \* STALE_WHILE_REVALIDATE
    WireMax,        \* config.cache_capacity.clamp(16, 1024), registry entries
    MaxTime,        \* bound on the clock
    MaxPublish,     \* bound on published policies
    MaxEvents       \* bound on lookups by clients plus publications

VARIABLES
    now,        \* Instant::now()
    published,  \* the pair SwappableOutbound publishes: outbound and DnsConfig identities
    publishes,  \* number of publications so far
    runtime,    \* runtime_cache: the pair it was made for and the store it holds
    cache,      \* cache[s][d]: address cache entry, or None
    wire,       \* wire[s][d]: wire cache entry, or None
    registry,   \* registry[s][layer][d]: the registered cell, or None
    cell,       \* the cells
    task,       \* the tasks
    calls       \* number of lookups begun by clients

vars == <<now, published, publishes, runtime, cache, wire, registry, cell, task, calls>>

Workers == Callers \cup Refreshers
Layers == {"address", "wire"}
Ids == 0..MaxPublish

(* Purpose of a lookup: FALSE follows the policy, TRUE is direct_resolution. *)
Purposes == BOOLEAN

(* An answer: the servers that gave it (the published pair and the purpose), *)
(* whether it has addresses, the TTL its records carry, and, as history, the *)
(* time until which its own exchange allows it to be reused.                 *)
Answers == [pair : Ids \X Ids, direct : Purposes, good : BOOLEAN, ttl : Nat, until : Nat]

FreeTask == [pc |-> "idle", kind |-> "none", direct |-> FALSE, pair |-> <<0, 0>>,
             store |-> CHOOSE s \in Stores : TRUE,
             held |-> [l \in Layers |-> None], answer |-> None, stale |-> FALSE]
FreeCell == [users |-> 0, leader |-> None, reply |-> None,
             store |-> CHOOSE s \in Stores : TRUE, layer |-> "wire", direct |-> FALSE]
EmptyStore == [d \in Purposes |-> None]
EmptyRegistry == [l \in Layers |-> [d \in Purposes |-> None]]

Init ==
    /\ now = 0
    /\ published = <<0, 0>>
    /\ publishes = 0
    /\ runtime = None
    /\ cache = [s \in Stores |-> EmptyStore]
    /\ wire = [s \in Stores |-> EmptyStore]
    /\ registry = [s \in Stores |-> EmptyRegistry]
    /\ cell = [c \in Cells |-> FreeCell]
    /\ task = [t \in Workers |-> FreeTask]
    /\ calls = 0

At(t, pc) == task[t].pc = pc
To(t, pc) == task' = [task EXCEPT ![t].pc = pc]

-----------------------------------------------------------------------------
(* Policy and snapshots *)

(* A node switch publishes a new outbound, a DNS edit a new DnsConfig, a     *)
(* reload both.                                                              *)
Publish ==
    /\ publishes < MaxPublish /\ calls + publishes < MaxEvents
    /\ publishes' = publishes + 1
    /\ published' \in ({published[1], publishes'} \X {published[2], publishes'}) \ {published}
    /\ UNCHANGED <<now, runtime, cache, wire, registry, cell, task, calls>>

(* "resolve" is resolve_with_qtype and "direct" scoped_direct_resolve;       *)
(* "probe" is the fake-IP path, which classifies the answer of resolve_dedup *)
(* without looking at the address cache; "listen" is a raw query of the DNS  *)
(* listener.                                                                 *)
Kinds == {"resolve", "direct", "probe", "listen"}

(* A call reads the published pair (dns_snapshot).                           *)
Begin(t, kind) ==
    /\ At(t, "idle")
    /\ task' = [task EXCEPT ![t] = [FreeTask EXCEPT !.pc = "install", !.kind = kind,
                                        !.direct = (kind = "direct"), !.pair = published]]
    /\ calls + publishes < MaxEvents
    /\ calls' = calls + 1
    /\ UNCHANGED <<now, published, publishes, runtime, cache, wire, registry, cell>>

EntryPoint(kind) ==
    CASE kind = "probe" -> "join" [] kind = "listen" -> "ask" [] OTHER -> "look"

SameRuntime_OutboundOnly(pair) == runtime # None /\ runtime.pair[1] = pair[1]
SameRuntime(pair) == runtime # None /\ runtime.pair = pair

(* The stores referred to by other tasks than t.                             *)
UsedBeside(t) == {task[u].store : u \in {v \in Workers \ {t} : ~ (task[v].pc \in {"idle", "install"})}}
InRuntime == IF runtime = None THEN {} ELSE {runtime.store}

(* A store is freed with its last reference.                                 *)
Freed(contents, live) == [s \in Stores |-> IF s \in live THEN contents[s] ELSE EmptyStore]

(* The second half of query_snapshot: under the runtime_cache lock the       *)
(* store of another pair is replaced by an empty one.  Another task may      *)
(* have installed a newer pair since this one read the published pair.       *)
Install(t) ==
    /\ At(t, "install")
    /\ IF SameRuntime(task[t].pair)
         THEN /\ task' = [task EXCEPT ![t].pc = EntryPoint(task[t].kind), ![t].store = runtime.store]
              /\ UNCHANGED <<runtime, cache, wire, registry>>
         ELSE LET s == CHOOSE x \in Stores : x \notin UsedBeside(t) \cup InRuntime
              IN  /\ task' = [task EXCEPT ![t].pc = EntryPoint(task[t].kind), ![t].store = s]
                  /\ runtime' = [pair |-> task[t].pair, store |-> s]
                  /\ cache' = Freed(cache, UsedBeside(t))
                  /\ wire' = Freed(wire, UsedBeside(t))
                  /\ UNCHANGED registry
    /\ UNCHANGED <<now, published, publishes, cell, calls>>

-----------------------------------------------------------------------------
(* In-flight cells, for both registries *)

(* Drop of a guard: the last caller unregisters the cell, unless the         *)
(* registry holds another one by now.                                        *)
Unregistered(reg, c) ==
    IF reg[cell[c].store][cell[c].layer][cell[c].direct] = c
      THEN [reg EXCEPT ![cell[c].store][cell[c].layer][cell[c].direct] = None]
      ELSE reg

LastUser(c) == cell[c].users = 1

(* The registry after the guards of the cells in `gone` are dropped.         *)
RegistryWithout(gone) ==
    LET last == {c \in gone : LastUser(c)}
    IN  FoldSet(LAMBDA c, reg : Unregistered(reg, c), registry, last)

(* The initialising future of a cancelled leader is dropped with it, and     *)
(* the OnceCell hands the initialisation to a waiter.                        *)
NextLeader_Stuck(c, t) == cell[c].leader
NextLeader(c, t) == IF cell[c].leader = t THEN None ELSE cell[c].leader

CellsWithout(gone, t) ==
    [c \in Cells |->
        CASE c \notin gone -> cell[c]
          [] c \in gone /\ cell[c].users = 1 -> FreeCell
          [] OTHER -> [cell[c] EXCEPT !.users = @ - 1, !.leader = NextLeader(c, t)]]

(* Both guard constructors: join the registered cell or register a new one,  *)
(* and enter get_or_init, which runs the caller's own future on a new cell.  *)
Joined(t, layer, waiting, leading) ==
    LET s == task[t].store
        d == task[t].direct
        found == registry[s][layer][d]
        c == IF found # None THEN found ELSE CHOOSE x \in Cells : cell[x].users = 0
    IN  /\ registry' = [registry EXCEPT ![s][layer][d] = c]
        /\ cell' = [cell EXCEPT ![c] =
              IF found # None
                THEN [@ EXCEPT !.users = @ + 1]
                ELSE [FreeCell EXCEPT !.users = 1, !.leader = t, !.store = s,
                                      !.layer = layer, !.direct = d]]
        /\ task' = [task EXCEPT ![t].held[layer] = c,
                                ![t].pc = IF found # None THEN waiting ELSE leading]

(* A waiter of a cell whose leader was cancelled initialises it.             *)
Lead(t, layer, waiting, next) ==
    LET c == task[t].held[layer]
    IN  /\ At(t, waiting)
        /\ cell[c].reply = None
        /\ cell[c].leader = None
        /\ cell' = [cell EXCEPT ![c].leader = t]
        /\ To(t, next)
        /\ UNCHANGED <<now, published, publishes, runtime, cache, wire, registry, calls>>

LeadLookup(t) == Lead(t, "address", "wait", "ask")
LeadExchange(t) == Lead(t, "wire", "wait wire", "exchange")

-----------------------------------------------------------------------------
(* resolve_qtype_inner and resolve_dedup *)

Fresh(entry) == entry # None /\ entry.expires > now

(* A positive entry past its TTL but within the stale window.                *)
Servable(entry) ==
    entry # None /\ entry.answer.good /\ entry.expires <= now /\ now - entry.expires < StaleWindow

(* The address cache is read; a stale answer starts a refresh if a permit of *)
(* refresh_slots is free, through resolve_dedup of the same snapshot.        *)
Look(t) ==
    LET entry == cache[task[t].store][task[t].direct]
        idle == {r \in Refreshers : At(r, "idle")}
        served == [task EXCEPT ![t].pc = "done", ![t].answer = entry.answer,
                               ![t].stale = ~ Fresh(entry)]
    IN  /\ At(t, "look")
        /\ IF Fresh(entry) THEN task' = served
           ELSE IF Servable(entry) /\ idle = {} THEN task' = served
           ELSE IF Servable(entry)
             THEN \E r \in idle :
                  task' = [served EXCEPT ![r] = [FreeTask EXCEPT !.pc = "join", !.kind = "resolve",
                              !.direct = task[t].direct, !.pair = task[t].pair, !.store = task[t].store]]
           ELSE To(t, "join")
        /\ UNCHANGED <<now, published, publishes, runtime, cache, wire, registry, cell, calls>>

Join(t) ==
    /\ At(t, "join")
    /\ Joined(t, "address", "wait", "ask")
    /\ UNCHANGED <<now, published, publishes, runtime, cache, wire, calls>>

Limited(ttl) == IF CacheTtl > 0 THEN Min({CacheTtl, ttl}) ELSE ttl

(* Every caller of a completed cell writes the outcome to the address cache; *)
(* a zero TTL removes the entry.                                             *)
Remember(t) ==
    LET a == cell[task[t].held["address"]].reply
        ttl == IF a.good THEN Limited(a.ttl) ELSE NegativeTtl
    IN  /\ At(t, "wait")
        /\ a # None
        /\ cache' = [cache EXCEPT ![task[t].store][task[t].direct] =
              IF ttl = 0 THEN None ELSE [answer |-> a, expires |-> now + ttl]]
        /\ task' = [task EXCEPT ![t].pc = "done", ![t].answer = a]
        /\ UNCHANGED <<now, published, publishes, runtime, wire, registry, cell, calls>>

-----------------------------------------------------------------------------
(* exchange_raw and exchange_raw_uncached *)

(* The answer of exchange_raw reaches its caller: the listener returns it,   *)
(* the initialiser of an address cell completes the cell.                    *)
Handed(t, a, cells) ==
    IF task[t].kind = "listen"
      THEN /\ task' = [task EXCEPT ![t].pc = "done", ![t].answer = a, ![t].held["wire"] = None]
           /\ cell' = cells
      ELSE /\ task' = [task EXCEPT ![t].pc = "wait", ![t].held["wire"] = None]
           /\ cell' = [cells EXCEPT ![task[t].held["address"]].reply = a,
                                    ![task[t].held["address"]].leader = None]

(* wire::cap_ttl: a cached reply carries only what is left of its TTL.       *)
Remaining_Original(entry) == entry.answer
Remaining(entry) == [entry.answer EXCEPT !.ttl = Min({@, entry.expires - now})]

(* The wire cache is consulted, then the caller joins or registers a cell;   *)
(* a full registry leaves the exchange unshared.                             *)
Ask(t) ==
    LET entry == wire[task[t].store][task[t].direct]
    IN  /\ At(t, "ask")
        /\ IF Fresh(entry) THEN Handed(t, Remaining(entry), cell)
                           ELSE To(t, "register") /\ UNCHANGED cell
        /\ UNCHANGED <<now, published, publishes, runtime, cache, wire, registry, calls>>

RegistryFull(s) == Cardinality({d \in Purposes : registry[s]["wire"][d] # None}) >= WireMax

Register(t) ==
    /\ At(t, "register")
    /\ IF registry[task[t].store]["wire"][task[t].direct] = None /\ RegistryFull(task[t].store)
         THEN To(t, "exchange") /\ UNCHANGED <<registry, cell>>
         ELSE Joined(t, "wire", "wait wire", "exchange")
    /\ UNCHANGED <<now, published, publishes, runtime, cache, wire, calls>>

(* The servers asked: the fallback group for a direct lookup, otherwise the  *)
(* group of the snapshot's configuration.                                    *)
AskedServers(t) == [pair |-> task[t].pair, direct |-> task[t].direct]

Outcome(t, good, ttl) ==
    [pair |-> AskedServers(t).pair, direct |-> AskedServers(t).direct, good |-> good, ttl |-> ttl,
     until |-> now + (IF good THEN Limited(ttl) ELSE NegativeTtl)]

(* Only a reply with records and a TTL is kept; failures and empty replies   *)
(* are not.                                                                  *)
Kept(a) == a.good /\ Limited(a.ttl) > 0

(* The first useful reply of the servers, or the last error, ends the        *)
(* exchange.  The initialiser completes the wire cell; without a cell the    *)
(* reply is the caller's own.                                                *)
Exchange(t) ==
    LET c == task[t].held["wire"]
    IN  /\ At(t, "exchange")
        /\ \E a \in {Outcome(t, FALSE, 0)} \cup {Outcome(t, TRUE, ttl) : ttl \in TTLs} :
              /\ wire' = IF Kept(a)
                           THEN [wire EXCEPT ![task[t].store][task[t].direct] =
                                    [answer |-> a, expires |-> now + Limited(a.ttl)]]
                           ELSE wire
              /\ IF c = None THEN Handed(t, a, cell)
                 ELSE /\ cell' = [cell EXCEPT ![c].reply = a, ![c].leader = None]
                      /\ To(t, "wait wire")
        /\ UNCHANGED <<now, published, publishes, runtime, cache, registry, calls>>

(* A caller of a completed wire cell takes the reply and drops its guard.    *)
Take(t) ==
    LET c == task[t].held["wire"]
    IN  /\ At(t, "wait wire")
        /\ cell[c].reply # None
        /\ registry' = RegistryWithout({c})
        /\ Handed(t, cell[c].reply, CellsWithout({c}, t))
        /\ UNCHANGED <<now, published, publishes, runtime, cache, wire, calls>>

-----------------------------------------------------------------------------
(* The end of a call, cancellation and time *)

Held(t) == {task[t].held[l] : l \in Layers} \ {None}

Dropped(t) ==
    /\ registry' = RegistryWithout(Held(t))
    /\ cell' = CellsWithout(Held(t), t)
    /\ task' = [task EXCEPT ![t] = FreeTask]
    /\ cache' = Freed(cache, UsedBeside(t) \cup InRuntime)
    /\ wire' = Freed(wire, UsedBeside(t) \cup InRuntime)
    /\ UNCHANGED <<now, published, publishes, runtime, calls>>

Return(t) == At(t, "done") /\ Dropped(t)

(* The future of a client is dropped at an await.                            *)
Cancel(t) == t \in Callers /\ ~ (task[t].pc \in {"idle", "done"}) /\ Dropped(t)

(* A task that needs only the processor.                                     *)
Waits(t) ==
    \E l \in Layers : LET c == task[t].held[l] IN
        /\ task[t].pc = (IF l = "wire" THEN "wait wire" ELSE "wait")
        /\ cell[c].reply = None
        /\ cell[c].leader # None
Runnable(t) == ~ (task[t].pc \in {"idle", "exchange"}) /\ ~ Waits(t)

Tick ==
    /\ now < MaxTime
    /\ \A t \in Workers : ~ Runnable(t)
    /\ now' = now + 1
    /\ UNCHANGED <<published, publishes, runtime, cache, wire, registry, cell, task, calls>>

Step(t) ==
    \/ Install(t) \/ Look(t) \/ Join(t) \/ Remember(t)
    \/ Ask(t) \/ Register(t) \/ Exchange(t) \/ Take(t) \/ Return(t)

Next ==
    \/ Publish \/ Tick
    \/ \E t \in Callers, kind \in Kinds : Begin(t, kind)
    \/ \E t \in Workers : Step(t) \/ LeadLookup(t) \/ LeadExchange(t) \/ Cancel(t)

Spec == Init /\ [][Next]_vars

-----------------------------------------------------------------------------
Entries == [answer : Answers, expires : Nat]
WireEntries == {e \in [answer : Answers, expires : Nat] : e.answer.good /\ e.answer.ttl > 0}

(* Types of the state; the wire cache holds positive replies with a TTL only.*)
TypeOK ==
    /\ now \in 0..MaxTime /\ publishes \in 0..MaxPublish
    /\ calls \in 0..MaxEvents
    /\ published \in Ids \X Ids
    /\ runtime = None \/ (runtime.pair \in Ids \X Ids /\ runtime.store \in Stores)
    /\ \A s \in Stores, d \in Purposes :
          /\ cache[s][d] = None \/ cache[s][d] \in Entries
          /\ wire[s][d] = None \/ wire[s][d] \in WireEntries
          /\ \A l \in Layers : registry[s][l][d] \in Cells \cup {None}
    /\ \A c \in Cells :
          /\ cell[c].users \in 0..Cardinality(Workers)
          /\ cell[c].leader \in Workers \cup {None}
          /\ cell[c].reply = None \/ cell[c].reply \in Answers
    /\ \A t \in Workers : \A l \in Layers : task[t].held[l] \in Cells \cup {None}

(* What a call returns came from the servers and the outbound of the policy  *)
(* it started under, and a direct lookup from the direct group, whichever    *)
(* cache or shared cell the answer passed through and however policies were  *)
(* published meanwhile (query_snapshot, CacheKey, WireInflightKey).          *)
AnswersFollowPolicy ==
    \A t \in Workers : At(t, "done") =>
        task[t].answer.pair = task[t].pair /\ task[t].answer.direct = task[t].direct

(* An answer passes through two caches and two kinds of shared cells, yet it *)
(* is never returned as current after the TTL of the exchange that produced  *)
(* it, nor as stale beyond the stale window (cap_ttl, CacheEntry,            *)
(* STALE_WHILE_REVALIDATE); a failure is not repeated beyond                 *)
(* NEGATIVE_CACHE_TTL.                                                       *)
TtlHonoured ==
    \A t \in Workers : At(t, "done") =>
        IF task[t].stale THEN now < task[t].answer.until + StaleWindow
                         ELSE \/ now < task[t].answer.until
                              \/ task[t].answer.ttl = 0 /\ now = task[t].answer.until

(* Nobody waits for a caller that is gone: the leader of a cell holds a      *)
(* guard on it and is busy with its lookup or exchange, and the leader of an *)
(* exchange waits for nobody, so waiting cannot become circular, whichever   *)
(* callers are cancelled (OnceCell::get_or_init inside get_or_init).         *)
NobodyStranded ==
    \A c \in Cells : cell[c].leader # None =>
        LET u == cell[c].leader
        IN  /\ c \in Held(u) /\ cell[c].reply = None
            /\ IF cell[c].layer = "wire" THEN At(u, "exchange")
               ELSE task[u].pc \in {"ask", "register", "wait wire", "exchange"}

=============================================================================
