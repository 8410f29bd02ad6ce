---------------------------- MODULE EngineProofs ----------------------------
(***************************************************************************)
(* TLAPS proofs about the parts of the engine that threads share: the      *)
(* coalescing writer, for any number of flush() callers and any values of  *)
(* the bounds, the swappable outbound and resolver, for any set of threads,*)
(* and the health monitor that swaps the outbound, for any nodes and any   *)
(* threshold.                                                              *)
(***************************************************************************)
EXTENDS CoalescingWriter, Swappable, HealthMonitor, TLAPS

(***************************************************************************)
(* The barrier is not inductive by itself.  It needs to know what each     *)
(* stage of the worker guarantees to a flush() whose target the running    *)
(* generation covers: after the snapshot the copy is recent enough, after  *)
(* a successful write the file is.                                         *)
(***************************************************************************)
Saving == wpc \in {"snapshot", "write", "finish"}

\* The copy and the file never run ahead of the memory they come from.
VersionOrder == stored <= snap /\ snap <= source

\* The generation in progress lies between what was attempted and requested.
GenerationOrder ==
  Saving => /\ attempted <= generation /\ generation <= requested
          /\ persisted < generation

\* A call's target was requested, its version was in memory.
CallsMade == \A f \in Flushers : target[f] <= requested /\ asked[f] <= source

Covered ==
  \A f \in Flushers :
    /\ wpc \in {"write", "finish"} /\ generation >= target[f] => snap >= asked[f]
    /\ wpc = "finish" /\ result = "ok" /\ generation >= target[f] => stored >= asked[f]
    /\ persisted >= target[f] => stored >= asked[f]
    /\ fpc[f] = "ok" => persisted >= target[f]

\* Something attempted but not persisted has left its error behind.
ErrorKept == persisted < attempted => error = "some"

\* When nothing is left to schedule, the latest generation covers the latest
\* version: in the copy, in the written file, and once persisted.
Current ==
  unscheduled = 0 =>
    /\ wpc \in {"write", "finish"} /\ generation = requested => snap = source
    /\ wpc = "finish" /\ result = "ok" /\ generation = requested => stored = source
    /\ persisted = requested => stored = source

\* Drop excludes further changes, and the worker leaves only when done.
Stopped ==
  /\ stopping => unscheduled = 0
  /\ wpc = "exited" => stopping /\ attempted = requested

WriterInv == TypeOK /\ VersionOrder /\ GenerationOrder /\ CallsMade /\ Covered
        /\ ErrorKept /\ FlushErrorKnown /\ Current /\ Stopped

\* The initial state satisfies the inductive invariant.
LEMMA WriterInvInit == Init => WriterInv
<1> SUFFICES ASSUME Init PROVE WriterInv
  OBVIOUS
<1> USE DEF Init, InitWriter
<1>1. TypeOK
  <2>1. {force, stopping, cooling} \subseteq BOOLEAN
    BY Zenon
  <2> QED
    BY <2>1 DEF TypeOK
<1>2. VersionOrder /\ GenerationOrder /\ CallsMade /\ Covered
  BY DEF VersionOrder, GenerationOrder, Saving, CallsMade, Covered
<1>3. ErrorKept /\ FlushErrorKnown /\ Current /\ Stopped
  BY DEF ErrorKept, FlushErrorKnown, Current, Stopped
<1> QED
  BY <1>1, <1>2, <1>3 DEF WriterInv

\* Every step of callers, worker and clock preserves the inductive invariant.
LEMMA WriterInvStep == WriterInv /\ [Next]_vars => WriterInv'
<1> SUFFICES ASSUME WriterInv, [Next]_vars PROVE WriterInv'
  OBVIOUS
<1> USE DEF WriterInv, TypeOK, VersionOrder, GenerationOrder, Saving, CallsMade,
            Covered, ErrorKept, FlushErrorKnown, Current, Stopped, state, worker, flush, data
<1>1. CASE Change
  BY <1>1 DEF Change
<1>2. CASE Schedule
  BY <1>2 DEF Schedule, NotifyAll
<1>3. CASE Drop
  BY <1>3 DEF Drop, NotifyAll
<1>4. CASE WorkerScan
  <2>1. CASE wpc' = "exited" /\ UNCHANGED <<asleep, force, generation>>
    BY <1>4, <2>1 DEF WorkerScan, MayExit
  <2>2. CASE asleep' = asleep \cup {Worker} /\ UNCHANGED <<wpc, force, generation>>
    BY <1>4, <2>2 DEF WorkerScan
  <2>3. CASE /\ wpc = "scan" /\ requested > persisted /\ force' = FALSE /\ generation' = requested
             /\ wpc' = "snapshot" /\ UNCHANGED asleep
    <3>1. force' \in BOOLEAN
      BY <2>3, Zenon
    <3>2. UNCHANGED <<requested, persisted, attempted, stopping, error, cooling,
                      result, snap, stored, flush, data>>
      BY <1>4 DEF WorkerScan
    <3> QED
      BY <2>3, <3>1, <3>2
  <2> QED
    BY <1>4, <2>1, <2>2, <2>3, Zenon DEF WorkerScan, Claimed
<1>5. CASE WorkerSnapshot
  BY <1>5 DEF WorkerSnapshot
<1>6. ASSUME NEW r \in {"ok", "err"}, WorkerWrite(r) PROVE WriterInv'
  BY <1>6 DEF WorkerWrite
<1>7. CASE WorkerFinish
  BY <1>7 DEF WorkerFinish, NotifyAll, Persisted, RecordedError
<1>8. CASE IntervalElapses
  <2>1. UNCHANGED <<requested, persisted, attempted, force, stopping, error, unscheduled,
                    wpc, generation, result, snap, stored, source, fpc, target, asked>>
    BY <1>8 DEF IntervalElapses
  <2>2. cooling' \in BOOLEAN /\ asleep' \subseteq asleep
    BY <1>8, Zenon DEF IntervalElapses
  <2> QED
    BY <2>1, <2>2
<1>9. ASSUME NEW g \in Flushers, Flush(g) PROVE WriterInv'
  BY <1>9 DEF Flush, NotifyAll
<1>10. ASSUME NEW g \in Flushers, FlushWake(g) PROVE WriterInv'
  BY <1>10 DEF FlushWake
<1>11. CASE Done
  BY <1>11 DEF Done, vars
<1>12. CASE UNCHANGED vars
  BY <1>12 DEF vars
<1> QED
  BY <1>1, <1>2, <1>3, <1>4, <1>5, <1>6, <1>7, <1>8, <1>9, <1>10, <1>11, <1>12, Zenon
     DEF Next, WorkerStep

\* The inductive invariant holds in every reachable state.
THEOREM WriterInvAlways == Spec => []WriterInv
  BY WriterInvInit, WriterInvStep, PTL DEF Spec

\* Types and the order of the generation counters of State.
THEOREM WriterTypeCorrect == Spec => []TypeOK
<1>1. WriterInv => TypeOK
  BY DEF WriterInv
<1> QED
  BY <1>1, WriterInvAlways, PTL

\* A flush() that returned Ok was a barrier: the file is at least as recent
\* as the memory was when flush() was called.
THEOREM Barrier == Spec => []FlushBarrier
<1>1. WriterInv => FlushBarrier
  BY DEF WriterInv, Covered, FlushBarrier
<1> QED
  BY <1>1, WriterInvAlways, PTL

\* flush() always has an error to report when its generation was not
\* persisted; the expect() never panics.
THEOREM ErrorKnown == Spec => []FlushErrorKnown
<1>1. WriterInv => FlushErrorKnown
  BY DEF WriterInv
<1> QED
  BY <1>1, WriterInvAlways, PTL

\* Once Drop has joined the worker the file equals the memory, unless the
\* last attempt failed.
THEOREM Drained == Spec => []DropDrains
<1>1. WriterInv => DropDrains
  BY DEF WriterInv, TypeOK, Current, Stopped, ErrorKept, DropDrains
<1> QED
  BY <1>1, WriterInvAlways, PTL

-----------------------------------------------------------------------------
(* The swappable outbound.                                                   *)

(***************************************************************************)
(* Comparing pointers is as good as comparing contents because identities  *)
(* are not reused: the one a call is going to install is held by nobody    *)
(* else, and a config a call has read and the published one that share an  *)
(* identity are the same config.                                           *)
(***************************************************************************)
Active(t) == call[t].pc # "idle"

OwnIdentity ==
  \A t \in Threads :
    Active(t) =>
      /\ call[t].new < fresh /\ call[t].new # 0
      /\ call[t].new # dns.id
      /\ \A u \in Threads : /\ call[u].dns.id # call[t].new
                            /\ u # t => call[u].new # call[t].new

SameIdentity ==
  \A t \in Threads :
    /\ call[t].dns.id < fresh
    /\ call[t].pc = "commit" /\ call[t].dns.id = dns.id => call[t].dns = dns

SwapInv == SwapTypeOK /\ OwnIdentity /\ SameIdentity /\ ResolverMatches /\ EditsKept

\* SwapInit establishes the inductive invariant.
LEMMA SwapInvInit == SwapInit => SwapInv
  BY DEF SwapInit, SwapInv, SwapTypeOK, OwnIdentity, SameIdentity, ResolverMatches, EditsKept,
         Active, Idle, NoDns, Dns, Calls, Resolver

\* Entering a call preserves it.
LEMMA BeginSwapInv ==
  ASSUME SwapInv, NEW t \in Threads, NEW e \in Nat,
         NEW op \in {"set", "set_if_current", "update_dns"}, Begin(t, op, e)
  PROVE  SwapInv'
<1> DEFINE c == [op |-> op, pc |-> "read", new |-> fresh, expected |-> e,
                 out |-> 0, dns |-> NoDns]
<1>1. /\ call' = [call EXCEPT ![t] = c] /\ c \in Calls
      /\ fresh' = fresh + 1 /\ UNCHANGED <<outbound, dns, resolver, edited>>
  <2>2. c \in Calls
    <3>1. NoDns \in Dns
      BY DEF NoDns, Dns
    <3> QED
      BY <3>1 DEF SwapInv, SwapTypeOK, Calls
  <2> QED
    BY <2>2 DEF Begin, published
<1>2. SwapTypeOK'
  BY <1>1 DEF SwapInv, SwapTypeOK, Idle, Dns
<1>3. OwnIdentity'
  <2>1. \A u \in Threads : call[u].new < fresh
    BY DEF SwapInv, SwapTypeOK, OwnIdentity, Active, Idle
  <2>2. fresh # 0 /\ c.new = fresh /\ c.dns.id = 0 /\ fresh \in Nat
    BY DEF SwapInv, SwapTypeOK, NoDns
  <2>3. \A u \in Threads : u # t => call'[u] = call[u]
    BY <1>1 DEF SwapInv, SwapTypeOK
  <2>4. call'[t] = c /\ call \in [Threads -> Calls] /\ dns \in Dns /\ dns.id < fresh
    BY <1>1 DEF SwapInv, SwapTypeOK
  <2> HIDE DEF c
  <2> QED
    BY <1>1, <2>1, <2>2, <2>3, <2>4 DEF SwapInv, OwnIdentity, SameIdentity, Active, Calls, Dns
<1>4. SameIdentity'
  BY <1>1 DEF SwapInv, SwapTypeOK, SameIdentity, NoDns, Dns, Calls
<1>5. ResolverMatches' /\ EditsKept'
  BY <1>1 DEF SwapInv, ResolverMatches, EditsKept
<1> QED
  BY <1>2, <1>3, <1>4, <1>5 DEF SwapInv

\* Leaving a call without a change preserves it.
LEMMA ReturnSwapInv ==
  ASSUME SwapInv, NEW t \in Threads, Return(t), UNCHANGED <<published, fresh, edited>>
  PROVE  SwapInv'
<1>1. /\ call' = [call EXCEPT ![t] = Idle] /\ Idle \in Calls
      /\ UNCHANGED <<outbound, dns, resolver, fresh, edited>>
  BY DEF Return, published, Idle, NoDns, Dns, Calls
<1>2. SwapTypeOK'
  BY <1>1 DEF SwapInv, SwapTypeOK, Idle
<1>3. OwnIdentity'
  BY <1>1 DEF SwapInv, SwapTypeOK, OwnIdentity, NoDns, Dns, Calls, Active, Idle
<1>4. SameIdentity'
  BY <1>1 DEF SwapInv, SwapTypeOK, SameIdentity, NoDns, Dns, Calls, Idle
<1>5. ResolverMatches' /\ EditsKept'
  BY <1>1 DEF SwapInv, ResolverMatches, EditsKept
<1> QED
  BY <1>2, <1>3, <1>4, <1>5 DEF SwapInv

\* The snapshot, first or repeated, preserves it.
LEMMA ReadSwapInv ==
  ASSUME SwapInv, NEW t \in Threads, Read(t)
  PROVE  SwapInv'
<1>1. CASE Return(t)
  BY <1>1, ReturnSwapInv DEF Read
<1>2. CASE call' = [call EXCEPT ![t] =
                      [op |-> @.op, pc |-> "commit", new |-> @.new,
                       expected |-> @.expected, out |-> outbound, dns |-> dns]]
  <2> DEFINE c == [op |-> call[t].op, pc |-> "commit", new |-> call[t].new,
                   expected |-> call[t].expected, out |-> outbound, dns |-> dns]
  <2>1. /\ call' = [call EXCEPT ![t] = c] /\ c \in Calls /\ Active(t)
        /\ UNCHANGED <<outbound, dns, resolver, fresh, edited>>
    <3>1. call[t] \in Calls /\ call \in [Threads -> Calls]
      BY DEF SwapInv, SwapTypeOK
    <3>2. c \in Calls
      BY <3>1 DEF SwapInv, SwapTypeOK, Calls
    <3>3. call' = [call EXCEPT ![t] = c]
      BY <1>2, <3>1
    <3> HIDE DEF c
    <3> QED
      BY <3>2, <3>3 DEF Read, published, Active
  <2>2. SwapTypeOK'
    BY <2>1 DEF SwapInv, SwapTypeOK, Idle
  <2>3. OwnIdentity'
    BY <2>1 DEF SwapInv, SwapTypeOK, OwnIdentity, Dns, Calls, Active
  <2>4. SameIdentity'
    BY <2>1 DEF SwapInv, SwapTypeOK, SameIdentity, Dns, Calls
  <2>5. ResolverMatches' /\ EditsKept'
    BY <2>1 DEF SwapInv, ResolverMatches, EditsKept
  <2> QED
    BY <2>2, <2>3, <2>4, <2>5 DEF SwapInv
<1> QED
  BY <1>1, <1>2 DEF Read

\* Every outcome of a commit preserves it.
LEMMA CommitSwapInv ==
  ASSUME SwapInv, NEW t \in Threads, Commit(t)
  PROVE  SwapInv'
<1> DEFINE c == call[t]
           changed == [id |-> c.new, edits |-> c.dns.edits \cup {c.new}]
<1>0. c \in Calls /\ c.pc = "commit" /\ Active(t) /\ fresh' = fresh
  BY DEF SwapInv, SwapTypeOK, Commit, Active
<1>1. CASE Superseded(t) /\ Return(t) /\ UNCHANGED <<published, edited>>
  BY <1>0, <1>1, ReturnSwapInv
\* A stale commit starts over.
<1>2. CASE call' = [call EXCEPT ![t].pc = "read"] /\ UNCHANGED <<published, edited>>
  <2> DEFINE k == [op |-> c.op, pc |-> "read", new |-> c.new, expected |-> c.expected,
                   out |-> c.out, dns |-> c.dns]
  <2>1. /\ call' = [call EXCEPT ![t] = k] /\ k \in Calls
        /\ UNCHANGED <<outbound, dns, resolver, fresh, edited>>
    <3>1. k = [call[t] EXCEPT !.pc = "read"] /\ k \in Calls
      BY <1>0 DEF Calls
    <3> HIDE DEF k
    <3> QED
      BY <1>0, <1>2, <3>1 DEF SwapInv, SwapTypeOK, published
  <2>2. SwapTypeOK'
    BY <2>1 DEF SwapInv, SwapTypeOK, Idle
  <2>3. OwnIdentity'
    BY <1>0, <2>1 DEF SwapInv, SwapTypeOK, OwnIdentity, Dns, Calls, Active
  <2>4. SameIdentity'
    BY <1>0, <2>1 DEF SwapInv, SwapTypeOK, SameIdentity, Dns, Calls
  <2>5. ResolverMatches' /\ EditsKept'
    BY <2>1 DEF SwapInv, ResolverMatches, EditsKept
  <2> QED
    BY <2>2, <2>3, <2>4, <2>5 DEF SwapInv
\* The outbound changes, the DNS config is the one the resolver was built for.
<1>3. CASE /\ ~Stale(t) /\ outbound' = c.new /\ resolver' = Resolver(c.new, c.dns)
           /\ Return(t) /\ UNCHANGED <<dns, edited>>
  <2>1. /\ call' = [call EXCEPT ![t] = Idle] /\ Idle \in Calls
        /\ c.dns = dns
    BY <1>0, <1>3 DEF Return, Stale, Idle, NoDns, Dns, Calls, SwapInv, SameIdentity
  <2>2. SwapTypeOK'
    BY <1>0, <1>3, <2>1, SMTT(30) DEF SwapInv, SwapTypeOK, Idle, OwnIdentity, Calls
  <2>3. OwnIdentity'
    BY <1>0, <1>3, <2>1 DEF SwapInv, SwapTypeOK, OwnIdentity, Dns, Calls, Active, Idle, NoDns
  <2>4. SameIdentity'
    BY <1>0, <1>3, <2>1 DEF SwapInv, SwapTypeOK, SameIdentity, Dns, Calls, Idle, NoDns
  <2>5. ResolverMatches' /\ EditsKept'
    BY <1>3, <2>1 DEF SwapInv, ResolverMatches, EditsKept
  <2> QED
    BY <2>2, <2>3, <2>4, <2>5 DEF SwapInv
\* The DNS config changes, the outbound is the one the resolver was built for.
<1>4. CASE /\ ~Stale(t) /\ c.op = "update_dns"
           /\ dns' = changed /\ resolver' = Resolver(c.out, changed)
           /\ edited' = edited \cup {c.new}
           /\ Return(t) /\ UNCHANGED outbound
  <2>1. /\ call' = [call EXCEPT ![t] = Idle] /\ Idle \in Calls
        /\ c.dns = dns /\ c.out = outbound
    BY <1>0, <1>4 DEF Return, Stale, Idle, NoDns, Dns, Calls, SwapInv, SameIdentity
  <2>2. changed \in Dns /\ changed.id = c.new /\ changed.edits = dns.edits \cup {c.new}
    BY <1>0, <2>1, SMTT(30) DEF Dns, Calls, SwapInv, SwapTypeOK
  <2>3. SwapTypeOK'
    BY <1>0, <1>4, <2>1, <2>2, Zenon DEF SwapInv, SwapTypeOK, Idle, OwnIdentity, Calls
  <2>4. OwnIdentity'
    BY <1>0, <1>4, <2>1, <2>2
       DEF SwapInv, SwapTypeOK, OwnIdentity, Dns, Calls, Active, Idle, NoDns
  <2>5. SameIdentity'
    BY <1>0, <1>4, <2>1, <2>2
       DEF SwapInv, SwapTypeOK, SameIdentity, OwnIdentity, Dns, Calls, Idle, NoDns
  <2>6. ResolverMatches' /\ EditsKept'
    BY <1>4, <2>1, <2>2 DEF SwapInv, ResolverMatches, EditsKept
  <2> QED
    BY <2>3, <2>4, <2>5, <2>6 DEF SwapInv
<1> QED
  BY <1>1, <1>2, <1>3, <1>4 DEF Commit

\* publish() preserves it.
LEMMA PublishSwapInv ==
  ASSUME SwapInv, NEW t \in Threads, Publish(t)
  PROVE  SwapInv'
<1>1. /\ outbound' = fresh /\ dns' = [id |-> fresh + 1, edits |-> {}]
      /\ resolver' = Resolver(fresh, [id |-> fresh + 1, edits |-> {}])
      /\ fresh' = fresh + 2 /\ edited' = {} /\ call' = call
      /\ fresh \in Nat /\ call \in [Threads -> Calls]
  BY DEF Publish, SwapInv, SwapTypeOK
<1>2. SwapTypeOK'
  BY <1>1 DEF SwapInv, SwapTypeOK, Dns
<1>3. OwnIdentity'
  BY <1>1 DEF SwapInv, SwapTypeOK, OwnIdentity, Active, Calls, Dns
<1>4. SameIdentity'
  BY <1>1 DEF SwapInv, SameIdentity, Calls, Dns
<1>5. ResolverMatches' /\ EditsKept'
  BY <1>1 DEF ResolverMatches, EditsKept
<1> QED
  BY <1>2, <1>3, <1>4, <1>5 DEF SwapInv

\* Every step preserves the inductive invariant.
LEMMA SwapInvStep == SwapInv /\ [SwapNext]_swapVars => SwapInv'
<1> SUFFICES ASSUME SwapInv, [SwapNext]_swapVars PROVE SwapInv'
  OBVIOUS
<1>1. CASE UNCHANGED swapVars
  BY <1>1 DEF swapVars, published, SwapInv, SwapTypeOK, OwnIdentity, SameIdentity,
              ResolverMatches, EditsKept, Active
<1>2. outbound \in Nat /\ 0 \in Nat
  BY DEF SwapInv, SwapTypeOK
<1> QED
  BY <1>1, <1>2, BeginSwapInv, ReadSwapInv, CommitSwapInv, PublishSwapInv DEF SwapNext

\* The inductive invariant holds in every reachable state.
THEOREM SwapInvAlways == SwapSpec => []SwapInv
  BY SwapInvInit, SwapInvStep, PTL DEF SwapSpec

\* Types, and identities of Arcs that are all older than the next one.
THEOREM SwapTypeCorrect == SwapSpec => []SwapTypeOK
<1>1. SwapInv => SwapTypeOK
  BY DEF SwapInv
<1> QED
  BY <1>1, SwapInvAlways, PTL

\* The published resolver was built from the published outbound and config.
THEOREM ResolverConsistent == SwapSpec => []ResolverMatches
<1>1. SwapInv => ResolverMatches
  BY DEF SwapInv
<1> QED
  BY <1>1, SwapInvAlways, PTL

\* No concurrent switch, failover or edit loses a committed DNS edit.
THEOREM NoEditLost == SwapSpec => []EditsKept
<1>1. SwapInv => EditsKept
  BY DEF SwapInv
<1> QED
  BY <1>1, SwapInvAlways, PTL

\* A failover installs its outbound only over the one it was decided for.
THEOREM FailoverNeverOverrides == SwapSpec => FailoverYields
<1> DEFINE Yields == \A t \in Threads :
                       /\ call[t].op = "set_if_current" /\ outbound' = call[t].new
                       /\ outbound # call[t].new
                       => outbound = call[t].expected
<1>1. SwapInv /\ [SwapNext]_swapVars => [Yields]_swapVars
  <2> SUFFICES ASSUME SwapInv, SwapNext, NEW t \in Threads,
                      call[t].op = "set_if_current", outbound' = call[t].new,
                      outbound # call[t].new
               PROVE  outbound = call[t].expected
    OBVIOUS
  <2>1. Active(t)
    BY DEF SwapInv, SwapTypeOK, Active, Idle
  <2>2. PICK u \in Threads : Commit(u) \/ Publish(u)
    BY DEF SwapNext, Begin, Read, published
  <2>3. ~Publish(u)
    BY <2>1 DEF Publish, SwapInv, OwnIdentity, SwapTypeOK, Calls
  <2>4. outbound' = call[u].new /\ ~Superseded(u) /\ call[u].pc = "commit"
    BY <2>2, <2>3 DEF Commit, published
  <2>5. u = t
    BY <2>1, <2>4, Zenon DEF SwapInv, OwnIdentity
  <2> QED
    BY <2>4, <2>5 DEF Superseded
<1> QED
  BY <1>1, SwapInvAlways, PTL DEF SwapSpec, FailoverYields

(***************************************************************************)
(* Refinement: the optimistic loops implement OutboundSlot.  A call takes  *)
(* effect in the step in which it returns; the snapshot, and a commit that *)
(* has to retry, are invisible.                                            *)
(***************************************************************************)
\* A call under way is one of the three operations, and an edit reaches its
\* commit only with a config to edit.
KnownOp ==
  \A t \in Threads :
    /\ Active(t) => call[t].op # "none"
    /\ call[t].pc = "commit" /\ call[t].op = "update_dns" => call[t].dns # NoDns

\* KnownOp is inductive relative to SwapInv.
LEMMA KnownOpInvariance == SwapSpec => []KnownOp
<1>1. SwapInit => KnownOp
  <2> SUFFICES ASSUME SwapInit, NEW t \in Threads PROVE call[t].pc = "idle"
    BY DEF KnownOp, Active
  <2>1. call[t] = Idle
    BY DEF SwapInit
  <2> QED
    BY <2>1 DEF Idle
<1>2. SwapInv /\ KnownOp /\ [SwapNext]_swapVars => KnownOp'
  <2> SUFFICES ASSUME SwapInv, KnownOp, [SwapNext]_swapVars PROVE KnownOp'
    OBVIOUS
  <2>0. call \in [Threads -> Calls]
    BY DEF SwapInv, SwapTypeOK
  <2>1. CASE call' = call
    BY <2>1 DEF KnownOp, Active
  <2>2. ASSUME NEW t \in Threads, Return(t) PROVE KnownOp'
    BY <2>0, <2>2 DEF KnownOp, Active, Return, Idle
  <2>3. ASSUME NEW t \in Threads, NEW e, NEW op \in {"set", "set_if_current", "update_dns"},
               Begin(t, op, e)
        PROVE  KnownOp'
    BY <2>0, <2>3 DEF KnownOp, Active, Begin
  <2>4. ASSUME NEW t \in Threads, Read(t) PROVE KnownOp'
    BY <2>0, <2>2, <2>4 DEF KnownOp, Active, Read, NothingToEdit
  <2>5. ASSUME NEW t \in Threads, Commit(t) PROVE KnownOp'
    <3>1. CASE call' = [call EXCEPT ![t].pc = "read"]
      <4>1. call[t].pc = "commit"
        BY <2>5 DEF Commit
      <4>2. call'[t].op = call[t].op /\ call'[t].pc = "read"
        BY <2>0, <3>1 DEF Calls
      <4>3. \A u \in Threads : u # t => call'[u] = call[u]
        BY <2>0, <3>1
      <4> QED
        BY <4>1, <4>2, <4>3 DEF KnownOp, Active
    <3> QED
      BY <2>2, <2>5, <3>1 DEF Commit
  <2>6. ASSUME NEW t \in Threads, Publish(t) PROVE KnownOp'
    BY <2>1, <2>6 DEF Publish
  <2> QED
    BY <2>1, <2>3, <2>4, <2>5, <2>6 DEF SwapNext, swapVars
<1> QED
  BY <1>1, <1>2, SwapInvAlways, PTL DEF SwapSpec

Pending == [t \in Threads |-> OpOf(call[t])]

\* Changing one thread's call changes its pending operation only.
LEMMA PendingUpdate ==
  ASSUME SwapInv, NEW t \in Threads, NEW c, call' = [call EXCEPT ![t] = c]
  PROVE  Pending' = [Pending EXCEPT ![t] = OpOf(c)]
  BY Zenon DEF Pending, SwapInv, SwapTypeOK

\* A thread is in a call of the slot exactly while it is in one of the code.
LEMMA PendingActive ==
  ASSUME SwapInv, NEW t \in Threads
  PROVE  (Pending[t] = Slot!NoCall) <=> ~Active(t)
  BY DEF Pending, OpOf, Slot!NoCall, SwapInv, SwapTypeOK, OwnIdentity, Active, Idle

\* Returning ends the pending operation.
LEMMA ReturnPending ==
  ASSUME SwapInv, NEW t \in Threads, Return(t)
  PROVE  Pending' = [Pending EXCEPT ![t] = Slot!NoCall]
<1>1. OpOf(Idle) = Slot!NoCall
  BY DEF OpOf, Idle, Slot!NoCall
<1> QED
  BY <1>1, PendingUpdate, Zenon DEF Return

\* Entering a call is a Call of the slot.
LEMMA BeginRefines ==
  ASSUME SwapInv, NEW t \in Threads, NEW op, NEW e, Begin(t, op, e)
  PROVE  Slot!Call(t, op, e)
<1> DEFINE c == [op |-> op, pc |-> "read", new |-> fresh, expected |-> e,
                 out |-> 0, dns |-> NoDns]
<1>1. call' = [call EXCEPT ![t] = c] /\ fresh' = fresh + 1 /\ fresh < MaxIds /\ ~Active(t)
      /\ UNCHANGED <<outbound, dns>>
  BY DEF Begin, published, Active
<1>2. OpOf(c) = [op |-> op, new |-> fresh, expected |-> e]
  BY DEF OpOf
<1> HIDE DEF c
<1>3. Pending' = [Pending EXCEPT ![t] = [op |-> op, new |-> fresh, expected |-> e]]
  BY <1>1, <1>2, PendingUpdate, Zenon
<1>4. Pending[t] = Slot!NoCall
  BY <1>1, PendingActive
<1> QED
  BY <1>1, <1>3, <1>4 DEF Slot!Call, Pending

\* The snapshot is invisible, or the call returns without an effect.
LEMMA ReadRefines ==
  ASSUME SwapInv, NEW t \in Threads, Read(t)
  PROVE  Slot!TakeEffect(t) \/ UNCHANGED <<outbound, dns, fresh, Pending>>
<1>0. UNCHANGED <<outbound, dns, fresh>> /\ Active(t)
  BY DEF Read, published, Active
<1>1. CASE (Superseded(t) \/ NothingToEdit(t)) /\ Return(t)
  <2>1. Pending[t] # Slot!NoCall /\ Pending' = [Pending EXCEPT ![t] = Slot!NoCall]
    BY <1>0, <1>1, PendingActive, ReturnPending
  <2>2. Pending[t] = OpOf(call[t])
    BY DEF Pending
  <2>3. Slot!Effect(OpOf(call[t]))
    BY <1>0, <1>1, Zenon DEF Slot!Effect, OpOf, Superseded, NothingToEdit, NoDns, Slot!NoDns
  <2> QED
    BY <1>0, <2>1, <2>2, <2>3 DEF Slot!TakeEffect, Pending
<1>2. CASE call' = [call EXCEPT ![t] =
                      [op |-> @.op, pc |-> "commit", new |-> @.new,
                       expected |-> @.expected, out |-> outbound, dns |-> dns]]
  <2> DEFINE c == [op |-> call[t].op, pc |-> "commit", new |-> call[t].new,
                   expected |-> call[t].expected, out |-> outbound, dns |-> dns]
  <2>1. call' = [call EXCEPT ![t] = c] /\ OpOf(c) = OpOf(call[t])
    BY <1>2 DEF OpOf, SwapInv, SwapTypeOK
  <2> HIDE DEF c
  <2>2. Pending' = [Pending EXCEPT ![t] = OpOf(call[t])]
    BY <2>1, PendingUpdate, Zenon
  <2>3. Pending' = Pending
    BY <2>2, Zenon DEF Pending
  <2> QED
    BY <1>0, <2>3
<1> QED
  BY <1>1, <1>2 DEF Read

\* A commit that succeeds or gives up is the effect; one that retries is
\* invisible.
LEMMA CommitRefines ==
  ASSUME SwapInv, KnownOp, NEW t \in Threads, Commit(t)
  PROVE  Slot!TakeEffect(t) \/ UNCHANGED <<outbound, dns, fresh, Pending>>
<1>0. /\ fresh' = fresh /\ Active(t) /\ call[t].pc = "commit" /\ Pending[t] = OpOf(call[t])
      /\ call[t] \in Calls /\ call \in [Threads -> Calls]
      /\ call[t].op \in {"set", "set_if_current", "update_dns", "none"}
  BY DEF Commit, Active, Pending, SwapInv, SwapTypeOK, Calls
<1>1. ASSUME Return(t), Slot!Effect(OpOf(call[t])) PROVE Slot!TakeEffect(t)
  <2>1. Pending[t] # Slot!NoCall /\ Pending' = [Pending EXCEPT ![t] = Slot!NoCall]
    BY <1>0, <1>1, PendingActive, ReturnPending
  <2> QED
    BY <1>0, <1>1, <2>1, Zenon DEF Slot!TakeEffect, Pending
<1>2. CASE Superseded(t) /\ Return(t) /\ UNCHANGED <<published, edited>>
  <2>1. Slot!Effect(OpOf(call[t]))
    BY <1>2 DEF Slot!Effect, OpOf, Superseded, published
  <2> QED
    BY <1>1, <1>2, <2>1, SMTT(30)
<1>3. CASE call' = [call EXCEPT ![t].pc = "read"] /\ UNCHANGED <<published, edited>>
  <2> DEFINE k == [op |-> call[t].op, pc |-> "read", new |-> call[t].new,
                   expected |-> call[t].expected, out |-> call[t].out, dns |-> call[t].dns]
  <2>1. k = [call[t] EXCEPT !.pc = "read"] /\ OpOf(k) = OpOf(call[t])
    BY <1>0 DEF Calls, OpOf
  <2> HIDE DEF k
  <2>2. call' = [call EXCEPT ![t] = k]
    BY <1>0, <1>3, <2>1
  <2>3. Pending' = [Pending EXCEPT ![t] = OpOf(call[t])]
    BY <2>1, <2>2, PendingUpdate, Zenon
  <2>4. Pending' = Pending
    BY <2>3, Zenon DEF Pending
  <2> QED
    BY <1>0, <1>3, <2>4 DEF published
<1>4. CASE /\ ~Superseded(t) /\ ~Stale(t) /\ call[t].op # "update_dns"
           /\ outbound' = call[t].new /\ Return(t) /\ UNCHANGED dns
  <2>1. call[t].op # "none"
    BY <1>0, SMTT(30) DEF KnownOp, Active
  <2>2. Slot!Effect(OpOf(call[t]))
    BY <1>0, <1>4, <2>1, Zenon DEF Slot!Effect, OpOf, Superseded
  <2> QED
    BY <1>1, <1>4, <2>2, Zenon
<1>5. CASE /\ ~Stale(t) /\ call[t].op = "update_dns"
           /\ dns' = [id |-> call[t].new, edits |-> call[t].dns.edits \cup {call[t].new}]
           /\ Return(t) /\ UNCHANGED outbound
  <2>1. call[t].dns = dns /\ call[t].dns # NoDns
    BY <1>0, <1>5, Zenon DEF Stale, SwapInv, SameIdentity, KnownOp
  <2>2. Slot!Effect(OpOf(call[t]))
    BY <1>5, <2>1, Zenon DEF Slot!Effect, OpOf, NoDns, Slot!NoDns
  <2> QED
    BY <1>1, <1>5, <2>2
<1> QED
  BY <1>2, <1>3, <1>4, <1>5 DEF Commit

\* Every step is a step of the slot or invisible.
LEMMA StepRefines ==
  ASSUME SwapInv, KnownOp, [SwapNext]_swapVars
  PROVE  [Slot!Next]_<<outbound, dns, fresh, Pending>>
<1>1. CASE UNCHANGED swapVars
  BY <1>1 DEF swapVars, published, Pending
<1>2. ASSUME NEW t \in Threads, Publish(t) PROVE Slot!Publish(t)
  <2>1. ~Active(t) /\ call' = call
    BY <1>2 DEF Publish, Active
  <2>2. Pending[t] = Slot!NoCall /\ Pending' = Pending
    BY <2>1, PendingActive DEF Pending
  <2> QED
    BY <1>2, <2>2 DEF Publish, Slot!Publish, Pending
<1> QED
  BY <1>1, <1>2, BeginRefines, ReadRefines, CommitRefines DEF SwapNext, Slot!Next

\* The code implements the atomic slot.
THEOREM Linearizable == SwapSpec => Atomic
<1>1. SwapInit => Slot!Init
  <2> SUFFICES ASSUME SwapInit PROVE Slot!Init
    OBVIOUS
  <2>1. OpOf(Idle) = Slot!NoCall
    BY DEF OpOf, Idle, Slot!NoCall
  <2> QED
    BY <2>1, Zenon DEF SwapInit, Slot!Init, NoDns, Slot!NoDns
<1>2. SwapInv /\ KnownOp /\ [SwapNext]_swapVars => [Slot!Next]_(Slot!slotVars)
  BY StepRefines DEF Slot!slotVars, Pending
<1> QED
  BY <1>1, <1>2, SwapInvAlways, KnownOpInvariance, PTL DEF SwapSpec, Atomic, Slot!Spec

-----------------------------------------------------------------------------
(***************************************************************************)
(* The health monitor.  A replacement rests on failures of the outbound it *)
(* replaces because the tracker's count belongs to the outbound it last    *)
(* looked at: as long as that one is still published the count never runs  *)
(* ahead of the failures observed, and from the moment the threshold is    *)
(* reached until the commit the published outbound is either still the one *)
(* that failed or has another identity, which set_if_current() sees.       *)
(***************************************************************************)
Searching == monitor \in {"recent", "search", "commit"}

HealthShape ==
  /\ slot.id \in Nat \ {0} /\ snapshot.id \in Nat \ {0} /\ streak \in Nat
  /\ {"consecutive", "last"} \subseteq DOMAIN tracker
  /\ tracker.consecutive \in Nat /\ tracker.last \in Nat

\* Identities are never reused, so one that was looked at is not ahead.
IdsGrow == tracker.last <= slot.id /\ snapshot.id <= slot.id

CountIsRecent ==
  /\ tracker.last = 0 => tracker.consecutive = 0
  /\ tracker.last = slot.id => tracker.consecutive <= streak
  /\ monitor # "asleep" => tracker.last = snapshot.id

RoundEarned ==
  Searching => /\ tracker.consecutive = 0
               /\ snapshot.id = slot.id => streak >= Threshold

HealthInv == HealthShape /\ IdsGrow /\ CountIsRecent /\ RoundEarned

\* A new monitor has counted nothing and looked at nothing.
LEMMA HealthInvInit == HealthInit => HealthInv
<1> SUFFICES ASSUME HealthInit PROVE HealthInv
  OBVIOUS
<1>1. /\ slot.id = 1 /\ snapshot.id = 1 /\ streak = 0 /\ monitor = "asleep"
      /\ tracker.consecutive = 0 /\ tracker.last = 0
      /\ {"consecutive", "last"} \subseteq DOMAIN tracker
  BY DEF HealthInit, NewTracker
<1> QED
  BY <1>1, SMT DEF HealthInv, HealthShape, IdsGrow, CountIsRecent, RoundEarned, Searching

\* What the environment changes: nodes, the clock and, by hand or by a
\* reload, the published outbound, whose identity is then a new one.
LEMMA HealthEnvironment ==
  ASSUME HealthInv, NodeChanges \/ ManualSwitch \/ Reload \/ QuarantineElapses
  PROVE  HealthInv'
<1> USE DEF HealthInv, HealthShape, IdsGrow, CountIsRecent, RoundEarned, Searching
<1>1. CASE NodeChanges \/ QuarantineElapses
  <2>1. UNCHANGED <<slot, tracker, monitor, snapshot, streak>>
    BY <1>1 DEF NodeChanges, QuarantineElapses
  <2> QED
    BY <2>1
<1>2. CASE ManualSwitch
  <2>1. slot'.id = slot.id + 1 /\ streak' = 0 /\ UNCHANGED <<tracker, monitor, snapshot>>
    BY <1>2 DEF ManualSwitch
  <2> QED
    BY <2>1, SMT
<1>3. CASE Reload
  <2>1. /\ slot'.id = slot.id + 1 /\ streak' = 0 /\ monitor' = "asleep" /\ UNCHANGED snapshot
        /\ tracker'.consecutive = 0 /\ tracker'.last = 0
        /\ {"consecutive", "last"} \subseteq DOMAIN tracker'
    BY <1>3 DEF Reload, NewTracker
  <2> QED
    BY <2>1, SMT
<1> QED
  BY <1>1, <1>2, <1>3

\* Starting a probe forgets the count of an outbound that is gone.
LEMMA StartProbeEarned == HealthInv /\ StartProbe => HealthInv'
<1> SUFFICES ASSUME HealthInv, StartProbe PROVE HealthInv'
  OBVIOUS
<1> USE DEF HealthInv, HealthShape, IdsGrow, CountIsRecent, RoundEarned, Searching
<1>1. /\ UNCHANGED <<slot, streak>> /\ snapshot' = slot /\ monitor' = "probing"
      /\ tracker' = [Followed(tracker) EXCEPT !.last = slot.id]
  BY DEF StartProbe
<1>2. {"consecutive", "last"} \subseteq DOMAIN Followed(tracker)
  BY DEF Followed
<1>3. Followed(tracker).consecutive =
        IF tracker.last \notin {0, slot.id} THEN 0 ELSE tracker.consecutive
  BY DEF Followed
<1>4. /\ tracker'.last = slot.id /\ tracker'.consecutive = Followed(tracker).consecutive
      /\ {"consecutive", "last"} \subseteq DOMAIN tracker'
  BY <1>1, <1>2
<1> QED
  BY <1>1, <1>3, <1>4, SMT

\* The result of a probe is counted only against the outbound it probed; the
\* search begins with the failure that completes the threshold.
LEMMA HandleResultEarned == HealthInv /\ HandleResult => HealthInv'
<1> SUFFICES ASSUME HealthInv, HandleResult PROVE HealthInv'
  OBVIOUS
<1> USE DEF HealthInv, HealthShape, IdsGrow, CountIsRecent, RoundEarned, Searching
<1>0. UNCHANGED <<slot, snapshot>> /\ monitor = "probed" /\ tracker.last = snapshot.id
  BY DEF HandleResult
<1>1. CASE Discarded
  <2>1. UNCHANGED <<tracker, streak>> /\ monitor' = "asleep"
    BY <1>1 DEF HandleResult
  <2> QED
    BY <1>0, <2>1
<1>2. CASE ~Discarded /\ reply
  <2>1. /\ monitor' = "asleep" /\ streak' = 0
        /\ tracker'.consecutive = 0 /\ tracker'.last = tracker.last
        /\ {"consecutive", "last"} \subseteq DOMAIN tracker'
    BY <1>2, Zenon DEF HandleResult
  <2> QED
    BY <1>0, <2>1, SMT
<1>3. CASE ~Discarded /\ ~reply
  <2>0. slot.id = snapshot.id
    BY <1>3 DEF Discarded
  <2>1. streak' = IF streak < Threshold THEN streak + 1 ELSE streak
    BY <1>3, <2>0 DEF HandleResult
  <2>2. CASE ~Reached(tracker.consecutive + 1)
    <3>1. /\ monitor' = "asleep" /\ tracker'.last = tracker.last
          /\ tracker'.consecutive = tracker.consecutive + 1
          /\ {"consecutive", "last"} \subseteq DOMAIN tracker'
      BY <1>3, <2>2 DEF HandleResult
    <3>2. tracker.consecutive + 1 < Threshold
      BY <2>2, ThresholdAssumption DEF Reached
    <3>3. streak' \in Nat /\ tracker.consecutive + 1 <= streak'
      BY <1>0, <2>0, <2>1, <3>2, ThresholdAssumption, SMT
    <3> QED
      BY <1>0, <2>0, <3>1, <3>3, ThresholdAssumption, SMT
  <2>3. CASE Reached(tracker.consecutive + 1)
    <3>1. /\ monitor' = "recent" /\ tracker'.last = tracker.last
          /\ tracker'.consecutive = 0
          /\ {"consecutive", "last"} \subseteq DOMAIN tracker'
      BY <1>3, <2>3, ZenonT(30) DEF HandleResult
    <3>2. tracker.consecutive + 1 >= Threshold
      BY <2>3 DEF Reached
    <3> QED
      BY <1>0, <2>0, <2>1, <3>1, <3>2, ThresholdAssumption, SMT
  <2> QED
    BY <2>2, <2>3
<1> QED
  BY <1>1, <1>2, <1>3

\* Neither the probe nor the search touches the count or the slot.
LEMMA SearchEarned ==
  ASSUME HealthInv, ProbeEnds \/ TryRecent \/ Search
  PROVE  HealthInv'
<1> USE DEF HealthInv, HealthShape, IdsGrow, CountIsRecent, RoundEarned, Searching
<1>1. CASE ProbeEnds
  <2>1. /\ UNCHANGED <<slot, tracker, snapshot, streak>> /\ monitor # "asleep"
        /\ monitor' \in {"probed", "confirming"}
    BY <1>1 DEF ProbeEnds
  <2> QED
    BY <2>1
<1>2. CASE TryRecent
  <2>1. /\ UNCHANGED <<slot, snapshot, streak>>
        /\ monitor = "recent" /\ monitor' \in {"search", "commit"}
    BY <1>2 DEF TryRecent
  <2>2. /\ tracker'.consecutive = tracker.consecutive /\ tracker'.last = tracker.last
        /\ {"consecutive", "last"} \subseteq DOMAIN tracker'
    BY <1>2 DEF TryRecent
  <2> QED
    BY <2>1, <2>2
<1>3. CASE Search
  <2>1. /\ UNCHANGED <<slot, snapshot, streak>>
        /\ monitor = "search" /\ monitor' = "commit"
    BY <1>3 DEF Search
  <2>2. PICK round \in Rounds : tracker' = [tracker EXCEPT !.cursor = round.cursor]
    BY <1>3 DEF Search
  <2>3. /\ tracker'.consecutive = tracker.consecutive /\ tracker'.last = tracker.last
        /\ {"consecutive", "last"} \subseteq DOMAIN tracker'
    BY <2>2
  <2> QED
    BY <2>1, <2>3
<1> QED
  BY <1>1, <1>2, <1>3

\* The commit installs a new outbound with a clean record, or nothing.
LEMMA InstallEarned == HealthInv /\ Install => HealthInv'
<1> SUFFICES ASSUME HealthInv, Install PROVE HealthInv'
  OBVIOUS
<1> USE DEF HealthInv, HealthShape, IdsGrow, CountIsRecent, RoundEarned, Searching
<1>0. monitor = "commit" /\ monitor' = "asleep" /\ UNCHANGED snapshot
  BY DEF Install
<1>1. CASE UNCHANGED <<slot, tracker, streak>>
  BY <1>0, <1>1
<1>2. CASE ~UNCHANGED <<slot, tracker, streak>>
  <2>0. /\ slot' = [id |-> slot.id + 1, node |-> found] /\ streak' = 0
        /\ tracker' = [tracker EXCEPT !.last = slot.id + 1, !.current = found,
                                      !.recent = Remember(@, found)]
    BY <1>2, Zenon DEF Install
  <2> HIDE DEF HealthInv
  <2>a. {"consecutive", "last"} \subseteq DOMAIN tracker
    BY DEF HealthInv
  <2>1. /\ slot'.id = slot.id + 1 /\ streak' = 0
        /\ tracker'.consecutive = tracker.consecutive /\ tracker'.last = slot.id + 1
        /\ {"consecutive", "last"} \subseteq DOMAIN tracker'
    BY ONLY <2>0, <2>a
  <2> USE DEF HealthInv
  <2>2. tracker.consecutive = 0 /\ slot.id \in Nat \ {0} /\ snapshot.id \in Nat \ {0}
        /\ snapshot.id <= slot.id
    BY <1>0
  <2>3. slot.id + 1 \in Nat \ {0} /\ snapshot.id <= slot.id + 1
    BY <2>2, SMT
  <2> QED
    BY <1>0, <2>1, <2>2, <2>3
<1> QED
  BY <1>1, <1>2

(***************************************************************************)
(* The count and the search belong to the outbound that failed, at every   *)
(* moment of the monitor's task (probe_once).                              *)
(***************************************************************************)
THEOREM HealthInvariant == HealthSpec => []HealthInv
<1>1. HealthInv /\ [HealthNext]_healthVars => HealthInv'
  <2> SUFFICES ASSUME HealthInv, [HealthNext]_healthVars PROVE HealthInv'
    OBVIOUS
  <2>1. CASE UNCHANGED healthVars
    <3>1. UNCHANGED <<slot, tracker, monitor, snapshot, streak>>
      BY <2>1 DEF healthVars
    <3> QED
      BY <3>1 DEF HealthInv, HealthShape, IdsGrow, CountIsRecent, RoundEarned, Searching
  <2> QED
    BY <2>1, HealthEnvironment, StartProbeEarned, HandleResultEarned, SearchEarned,
       InstallEarned DEF HealthNext, Monitor
<1> QED
  BY <1>1, HealthInvInit, PTL DEF HealthSpec

(***************************************************************************)
(* The monitor replaces an outbound only after Threshold confirmed         *)
(* failures in a row of that very outbound, however manual switches,       *)
(* reloads, recoveries and the rounds of the search interleave.            *)
(***************************************************************************)
THEOREM FailoverEarned == HealthSpec => SwitchEarned
<1>1. HealthInv /\ [HealthNext]_healthVars
        => [Install /\ slot' # slot => streak >= Threshold]_healthVars
  <2> SUFFICES ASSUME HealthInv, Install, slot' # slot PROVE streak >= Threshold
    OBVIOUS
  <2>1. monitor = "commit" /\ ~Discarded
    BY DEF Install
  <2> QED
    BY <2>1 DEF HealthInv, RoundEarned, Searching, Discarded
<1> QED
  BY <1>1, HealthInvariant, PTL DEF HealthSpec, SwitchEarned

=============================================================================
