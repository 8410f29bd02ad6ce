------------------------------ MODULE ConnPool ------------------------------
(***************************************************************************)
(* ConnPool of crates/sockrocket-core/src/proxy/pool.rs: idle upstream     *)
(* connections made in advance, a target that follows demand, a background *)
(* task that fills the pool and prunes it, and a budget of permits shared  *)
(* with the other pools of the process.                                    *)
(***************************************************************************)
EXTENDS Integers, Sequences, FiniteSetsExt, SequencesExt

CONSTANTS
    Getters,        \* callers of get()
    Base,           \* PoolInner.base
    Capacity,       \* PoolInner.capacity
    Budget,         \* permits of shared_budget()
    MaxAge,         \* DEFAULT_MAX_AGE
    Window,         \* DEMAND_WINDOW
    FillConcurrency,\* FILL_CONCURRENCY
    MaxOthers,      \* bound on the permits other pools hold
    MaxClock        \* bound on the clock

VARIABLES
    clock,          \* Instant::now()
    conns,          \* PoolState.conns: the creation times
    demand,         \* the other fields of PoolState
    budget,         \* available permits
    others,         \* permits held by other pools
    refill,         \* the permit stored in PoolInner.refill
    filler,         \* the task run(): where it is, and the locals of fill()
    getter,         \* program counters of get()
    ended           \* what last touched the reserve: why fill() ended, or a
                    \* later request (history)

vars == <<clock, conns, demand, budget, others, refill, filler, getter, ended>>

Waiting == [pc |-> "select", attempts |-> 0, failed |-> 0, dials |-> 0, made |-> 0]

(* with_limits() starts the task at once, or get() does when the pool was    *)
(* made outside a runtime.                                                   *)
Init ==
    /\ clock = 0 /\ conns = <<>>
    /\ demand = [target |-> Base, requests |-> 0, window_started |-> 0, last_get |-> 0]
    /\ budget = Budget /\ others = 0 /\ refill = FALSE
    /\ filler \in {[Waiting EXCEPT !.pc = pc] : pc \in {"fill", "absent"}}
    /\ getter = [g \in Getters |-> "idle"]
    /\ ended = "not yet"

Young(created) == clock - created < MaxAge
Pruned(s) == SelectSeq(s, Young)

(* usize::next_power_of_two.                                                 *)
NextPowerOfTwo(n) == Min({p \in {1, 2, 4, 8, 16} : p >= n})

Grown(target, requests) == Min({Capacity, Max({target, NextPowerOfTwo(requests)})})

(* get() starts the task if there is none; the demand of the current window  *)
(* sets the target.                                                          *)
Get(g) ==
    LET renewed == clock - demand.window_started >= Window
        start == IF renewed \/ clock - demand.last_get >= MaxAge THEN Base ELSE demand.target
        requests == Min({Capacity, (IF renewed THEN 0 ELSE demand.requests) + 1})
    IN  /\ getter[g] = "idle" /\ filler.pc # "gone"
        /\ filler' = IF filler.pc = "absent" THEN [filler EXCEPT !.pc = "fill"] ELSE filler
        /\ demand' = [target |-> Grown(start, requests), requests |-> requests, last_get |-> clock,
                      window_started |-> IF renewed THEN clock ELSE demand.window_started]
        /\ getter' = [getter EXCEPT ![g] = "pop"]
        /\ UNCHANGED <<clock, conns, budget, others, refill, ended>>

NotifiedOnHit_Never == refill
NotifiedOnHit == TRUE

(* One turn of its loop.  A connection that is too old, closed or talking is *)
(* dropped; its permit is free in either case.                               *)
PopConn(g, ready) ==
    /\ getter[g] = "pop" /\ conns # <<>>
    /\ conns' = Tail(conns)
    /\ budget' = budget + 1
    /\ IF ready /\ Young(Head(conns))
         THEN getter' = [getter EXCEPT ![g] = "idle"] /\ refill' = NotifiedOnHit /\ ended' = "asked"
         ELSE UNCHANGED <<getter, refill, ended>>
    /\ UNCHANGED <<clock, demand, others, filler>>

PopNone(g) ==
    /\ getter[g] = "pop" /\ conns = <<>>
    /\ getter' = [getter EXCEPT ![g] = "create"]
    /\ refill' = TRUE /\ ended' = "asked"
    /\ UNCHANGED <<clock, conns, demand, budget, others, filler>>

(* The caller's own connection is made, fails or times out.                  *)
Create(g) ==
    /\ getter[g] = "create"
    /\ getter' = [getter EXCEPT ![g] = "idle"]
    /\ UNCHANGED <<clock, conns, demand, budget, others, refill, filler, ended>>

(* get() is dropped at an await; before its notify_one nobody hears of it.   *)
CancelGet(g) ==
    /\ getter[g] # "idle"
    /\ getter' = [getter EXCEPT ![g] = "idle"]
    /\ ended' = IF getter[g] = "pop" THEN "cancelled" ELSE ended
    /\ UNCHANGED <<clock, conns, demand, budget, others, refill, filler>>

(* run(): a notification starts fill(), which first prunes.                  *)
Notified ==
    /\ filler.pc = "select" /\ refill
    /\ refill' = FALSE
    /\ filler' = [Waiting EXCEPT !.pc = "fill"]
    /\ UNCHANGED <<clock, conns, demand, budget, others, getter, ended>>

FillStart ==
    /\ filler.pc = "fill"
    /\ conns' = Pruned(conns)
    /\ budget' = budget + Len(conns) - Len(Pruned(conns))
    /\ filler' = [filler EXCEPT !.pc = "deficit"]
    /\ UNCHANGED <<clock, demand, others, refill, getter, ended>>

Deficit == Max({0, demand.target - Len(conns)})
Batch == Min({Deficit, FillConcurrency, budget})

(* A round of pre-connects, each with a permit; no deficit, no budget or too *)
(* many attempts end fill().                                                 *)
Round ==
    LET why == IF filler.attempts >= 3 * Capacity THEN "limit"
               ELSE IF Deficit = 0 THEN "full" ELSE "budget"
        stops == filler.attempts >= 3 * Capacity \/ Batch = 0
    IN  /\ filler.pc = "deficit"
        /\ filler' = IF stops THEN Waiting
                     ELSE [filler EXCEPT !.pc = "join", !.dials = Batch, !.made = 0,
                                         !.attempts = @ + Batch]
        /\ budget' = IF stops THEN budget ELSE budget - Batch
        /\ ended' = IF stops THEN why ELSE ended
        /\ UNCHANGED <<clock, conns, demand, others, refill, getter>>

(* A pre-connect ends; a connection above the target is dropped.             *)
Dialled(ok) ==
    LET keep == ok /\ Len(conns) < demand.target
    IN  /\ filler.pc = "join" /\ filler.dials > 0
        /\ conns' = IF keep THEN Append(conns, clock) ELSE conns
        /\ budget' = IF keep THEN budget ELSE budget + 1
        /\ filler' = [filler EXCEPT !.dials = @ - 1, !.made = @ + (IF ok THEN 1 ELSE 0)]
        /\ UNCHANGED <<clock, demand, others, refill, getter, ended>>

(* Three rounds without a connection end fill().                             *)
RoundEnds ==
    LET failed == IF filler.made = 0 THEN filler.failed + 1 ELSE 0
    IN  /\ filler.pc = "join" /\ filler.dials = 0
        /\ filler' = IF failed >= 3 THEN Waiting
                     ELSE [filler EXCEPT !.pc = "deficit", !.failed = failed, !.made = 0]
        /\ ended' = IF failed >= 3 THEN "failed" ELSE ended
        /\ UNCHANGED <<clock, conns, demand, budget, others, refill, getter>>

(* The five-second tick prunes and truncates; it replaces nothing.           *)
Maintain ==
    LET target == IF clock - demand.last_get >= MaxAge THEN Base ELSE demand.target
        left == SubSeq(Pruned(conns), 1, Min({target, Len(Pruned(conns))}))
    IN  /\ filler.pc = "select"
        /\ demand' = [demand EXCEPT !.target = target]
        /\ conns' = left
        /\ budget' = budget + Len(conns) - Len(left)
        /\ ended' = IF left # conns THEN "pruned" ELSE ended
        /\ UNCHANGED <<clock, others, refill, filler, getter>>

(* The last handle is dropped: the task is aborted with its pre-connects,    *)
(* and the connections go with PoolInner.                                    *)
DropPool ==
    /\ filler.pc # "gone" /\ \A g \in Getters : getter[g] = "idle"
    /\ filler' = [Waiting EXCEPT !.pc = "gone"]
    /\ conns' = <<>>
    /\ budget' = budget + Len(conns) + filler.dials
    /\ UNCHANGED <<clock, demand, others, refill, getter, ended>>

OtherPools(n) ==
    /\ others + n \in 0..MaxOthers /\ budget - n \in 0..Budget
    /\ others' = others + n /\ budget' = budget - n
    /\ UNCHANGED <<clock, conns, demand, refill, filler, getter, ended>>

Tick ==
    /\ clock < MaxClock /\ clock' = clock + 1
    /\ UNCHANGED <<conns, demand, budget, others, refill, filler, getter, ended>>

Next ==
    \/ \E g \in Getters : Get(g) \/ PopNone(g) \/ Create(g) \/ CancelGet(g)
                            \/ \E ready \in BOOLEAN : PopConn(g, ready)
    \/ Notified \/ FillStart \/ Round \/ (\E ok \in BOOLEAN : Dialled(ok)) \/ RoundEnds \/ Maintain
    \/ DropPool
    \/ (\E n \in {-1, 1} : OtherPools(n)) \/ Tick

Spec == Init /\ [][Next]_vars

-----------------------------------------------------------------------------
(* Types of the state.                                                       *)
TypeOK ==
    /\ clock \in 0..MaxClock /\ conns \in Seq(0..MaxClock)
    /\ demand.target \in Nat /\ demand.requests \in 0..Capacity
    /\ budget \in 0..Budget /\ refill \in BOOLEAN
    /\ getter \in [Getters -> {"idle", "pop", "create"}]

(* No demand is missed: when all is quiet and the pool is below its target,  *)
(* fill() gave up on it (attempts, failures, budget), pruning emptied it, or *)
(* the caller was cancelled.  A get() during a running fill() is not lost.   *)
DemandHeard ==
    (filler.pc = "select" /\ ~ refill /\ (\A g \in Getters : getter[g] = "idle")
       /\ Len(conns) < demand.target)
    => ended \in {"limit", "failed", "budget", "pruned", "cancelled"}

=============================================================================
