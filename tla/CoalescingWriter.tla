-------------------------- MODULE CoalescingWriter --------------------------
(***************************************************************************)
(* The background thread that persists the Fake-IP table                   *)
(* (dns/fakeip/persistence.rs).  Callers change the data and then call     *)
(* schedule(); flush() is a barrier; dropping the writer drains it.  The   *)
(* data is abstracted to its version: source is the version in memory,     *)
(* stored the one in the file.  One condition variable is shared by the    *)
(* worker and every flush() caller; asleep is the set of threads that wait *)
(* on it, so a missing notification is visible to the model.               *)
(***************************************************************************)
EXTENDS Naturals, FiniteSets

CONSTANTS Flushers,      \* threads that call flush()
          MaxRequests,   \* bound on schedule() and flush() calls
          MaxVersion     \* bound on changes of the data

ASSUME WriterBounds == MaxRequests \in Nat /\ MaxVersion \in Nat

Worker == "fakeip-writer"

ASSUME WorkerIsNoFlusher == Worker \notin Flushers

VARIABLES
  requested, persisted, attempted,   \* State's generation counters
  force, stopping, error,            \* error: none, or some after a failure
  cooling,      \* last_attempt is less than the interval ago
  asleep,       \* threads blocked on the condition variable
  wpc,          \* where the worker stands in run()
  generation, result,                \* locals of run()
  source, snap, stored,              \* version in memory, in the worker, on disk
  unscheduled,  \* changes made whose schedule() call is still to come
  fpc, target,  \* progress and local of each flush() call
  asked         \* history: the version in memory when flush() was called

state == <<requested, persisted, attempted, force, stopping, error, cooling>>
worker == <<wpc, generation, result, snap, stored>>
flush == <<fpc, target, asked>>
data == <<source, unscheduled>>
vars == <<state, worker, flush, data, asleep>>

\* The types, and the order of the three generation counters: what is
\* persisted was attempted, what was attempted was requested.
TypeOK ==
  /\ requested \in Nat /\ persisted \in Nat /\ attempted \in Nat
  /\ persisted <= attempted /\ attempted <= requested
  /\ force \in BOOLEAN /\ stopping \in BOOLEAN
  /\ error \in {"none", "some"} /\ cooling \in BOOLEAN
  /\ asleep \in SUBSET (Flushers \cup {Worker})
  /\ wpc \in {"scan", "snapshot", "write", "finish", "exited"}
  /\ generation \in Nat /\ result \in {"ok", "err"}
  /\ source \in Nat /\ snap \in Nat /\ stored \in Nat /\ unscheduled \in Nat
  /\ fpc \in [Flushers -> {"idle", "waiting", "ok", "err", "panic"}]
  /\ target \in [Flushers -> Nat] /\ asked \in [Flushers -> Nat]

\* A fresh State over data just loaded from the file.
InitWriter ==
  /\ requested = 0 /\ persisted = 0 /\ attempted = 0
  /\ force = FALSE /\ stopping = FALSE /\ error = "none" /\ cooling = FALSE
  /\ asleep = {} /\ wpc = "scan" /\ generation = 0 /\ result = "ok"
  /\ fpc = [f \in Flushers |-> "idle"]
  /\ target = [f \in Flushers |-> 0] /\ asked = [f \in Flushers |-> 0]

Init == InitWriter /\ source = 0 /\ snap = 0 /\ stored = 0 /\ unscheduled = 0

-----------------------------------------------------------------------------
(* Callers.  The borrow rules keep schedule() and flush() out of Drop.     *)

\* The threads still asleep after changed.notify_all().
NotifyAll_Lost == asleep
NotifyAll == {}

\* The owner changes the data under its own lock.
Change ==
  /\ ~stopping /\ source < MaxVersion /\ requested + unscheduled < MaxRequests
  /\ source' = source + 1 /\ unscheduled' = unscheduled + 1
  /\ UNCHANGED <<state, worker, flush, asleep>>

\* ... and, with that lock released, schedules a write: notify_all.
Schedule ==
  /\ unscheduled > 0
  /\ requested' = requested + 1 /\ unscheduled' = unscheduled - 1
  /\ asleep' = NotifyAll
  /\ UNCHANGED <<persisted, attempted, force, stopping, error, cooling,
                 worker, flush, source>>

\* flush() takes the next generation, forces the worker, and blocks: its
\* target cannot have been attempted yet.
Flush(f) ==
  /\ ~stopping /\ fpc[f] # "waiting" /\ requested + unscheduled < MaxRequests
  /\ requested' = requested + 1 /\ force' = TRUE
  /\ target' = [target EXCEPT ![f] = requested + 1]
  /\ asked' = [asked EXCEPT ![f] = source]
  /\ fpc' = [fpc EXCEPT ![f] = "waiting"]
  /\ asleep' = NotifyAll \cup {f}
  /\ UNCHANGED <<persisted, attempted, stopping, error, cooling, worker, data>>

\* A woken flush() goes back to sleep or returns; it panics in expect() if
\* the attempt failed and no error was recorded.
FlushWake(f) ==
  /\ fpc[f] = "waiting" /\ f \notin asleep
  /\ IF attempted < target[f]
       THEN asleep' = asleep \cup {f} /\ UNCHANGED fpc
       ELSE /\ fpc' = [fpc EXCEPT ![f] = CASE persisted >= target[f] -> "ok"
                                           [] persisted < target[f] /\ error = "some" -> "err"
                                           [] OTHER -> "panic"]
            /\ UNCHANGED asleep
  /\ UNCHANGED <<state, worker, target, asked, data>>

\* Drop needs exclusive access: no call is under way.
Drop ==
  /\ ~stopping /\ unscheduled = 0 /\ \A f \in Flushers : fpc[f] # "waiting"
  /\ stopping' = TRUE /\ asleep' = NotifyAll
  /\ UNCHANGED <<requested, persisted, attempted, force, error, cooling,
                 worker, flush, data>>

-----------------------------------------------------------------------------
(* The worker.                                                             *)

Debounced == cooling /\ ~force /\ ~stopping

\* The loop's return condition, and the generation a pass takes on.
MayExit_Undrained == stopping
MayExit == stopping /\ attempted >= requested

Claimed == requested

\* One pass of the loop head, under the lock.
WorkerScan ==
  /\ wpc = "scan" /\ Worker \notin asleep
  /\ \/ /\ MayExit
        /\ wpc' = "exited" /\ UNCHANGED <<asleep, force, generation>>
     \/ /\ ~MayExit
        /\ requested <= persisted \/ Debounced
        /\ asleep' = asleep \cup {Worker} /\ UNCHANGED <<wpc, force, generation>>
     \/ /\ ~MayExit
        /\ requested > persisted /\ ~Debounced
        /\ force' = FALSE /\ generation' = Claimed /\ wpc' = "snapshot"
        /\ UNCHANGED asleep
  /\ UNCHANGED <<requested, persisted, attempted, stopping, error, cooling,
                 result, snap, stored, flush, data>>

\* write(): the owner's data is copied under its lock ...
WorkerSnapshot ==
  /\ wpc = "snapshot"
  /\ snap' = source /\ wpc' = "write"
  /\ UNCHANGED <<state, generation, result, stored, flush, data, asleep>>

\* ... and replaces the file.  An error, or a caught panic, leaves the old
\* file unless it was the directory sync after the rename that failed.
WorkerWrite(r) ==
  /\ wpc = "write"
  /\ wpc' = "finish" /\ result' = r
  /\ stored' \in (IF r = "ok" THEN {snap} ELSE {snap, stored})
  /\ UNCHANGED <<state, generation, snap, flush, data, asleep>>

\* What the outcome does to persisted and error.
Persisted_Rereads == IF result = "ok" THEN requested ELSE persisted
Persisted == IF result = "ok" THEN generation ELSE persisted

RecordedError == IF result = "err" THEN "some" ELSE "none"

\* The outcome is recorded and everyone is notified.
WorkerFinish ==
  /\ wpc = "finish"
  /\ attempted' = generation /\ cooling' = TRUE
  /\ persisted' = Persisted
  /\ error' = RecordedError
  /\ wpc' = "scan" /\ asleep' = NotifyAll
  /\ UNCHANGED <<requested, force, stopping, generation, result, snap, stored,
                 flush, data>>

\* The interval runs out; wait_timeout wakes a worker that was debounced,
\* the plain wait of an idle worker has no timeout.
IntervalElapses ==
  /\ cooling
  /\ cooling' = FALSE
  /\ asleep' = IF requested > persisted THEN asleep \ {Worker} ELSE asleep
  /\ UNCHANGED <<requested, persisted, attempted, force, stopping, error,
                 worker, flush, data>>

-----------------------------------------------------------------------------
WorkerStep ==
  \/ WorkerScan \/ WorkerSnapshot \/ WorkerFinish
  \/ \E r \in {"ok", "err"} : WorkerWrite(r)

\* The writer has been dropped and joined.
Done == wpc = "exited" /\ UNCHANGED vars

Next ==
  \/ Change \/ Schedule \/ Drop \/ WorkerStep \/ IntervalElapses \/ Done
  \/ \E f \in Flushers : Flush(f) \/ FlushWake(f)

Spec == Init /\ [][Next]_vars

\* Threads that can run do run, and the clock moves.
Fairness ==
  /\ WF_vars(WorkerStep) /\ WF_vars(IntervalElapses) /\ WF_vars(Schedule)
  /\ \A f \in Flushers : WF_vars(FlushWake(f))

FairSpec == Spec /\ Fairness

-----------------------------------------------------------------------------
(* Properties.                                                             *)

\* flush() is a barrier: when it returned Ok the file holds a version at
\* least as recent as the one in memory when flush() was called.
FlushBarrier == \A f \in Flushers : fpc[f] = "ok" => stored >= asked[f]

\* A flush() that was not persisted finds the error it reports: the expect()
\* in flush() never panics, whichever attempts ran before it woke.
FlushErrorKnown == \A f \in Flushers : fpc[f] # "panic"

\* Drop drains: once the worker has been joined, the file is up to date
\* unless the last attempt failed.
DropDrains == wpc = "exited" /\ error = "none" => stored = source

\* Every flush() and the join() in Drop return, however often the disk
\* fails: a failing disk cannot hold up a caller or the shutdown.
CallsReturn ==
  /\ \A f \in Flushers : fpc[f] = "waiting" ~> fpc[f] # "waiting"
  /\ stopping ~> wpc = "exited"

\* A failed write is retried without new traffic: every change reaches a disk
\* on which a write that is tried for ever succeeds at last, unless the writer
\* is dropped first.
TrailingChangeSaved ==
  SF_vars(WorkerWrite("ok")) =>
    \A v \in 1..MaxVersion : source >= v ~> (stored >= v \/ stopping)
=============================================================================
