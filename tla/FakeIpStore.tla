---------------------------- MODULE FakeIpStore ----------------------------
(***************************************************************************)
(* A persistent FakeIpPool: the table of FakeIpPool, the writer of         *)
(* CoalescingWriter whose data it is, the file, and the process that may   *)
(* crash, stop cleanly and start again.  When the writer thread cannot be  *)
(* created the pool saves synchronously instead (mode "sync").  While the  *)
(* process is down the table's variables keep, as history, what its memory *)
(* last held.                                                              *)
(***************************************************************************)
EXTENDS FakeIpPool, SequencesExt

CONSTANTS Flushers, MaxRequests, MaxVersion,
          MaxRestarts   \* bound on restarts

VARIABLES requested, persisted, attempted, force, stopping, error, cooling,
          asleep, wpc, generation, result, snap, stored, unscheduled,
          fpc, target, asked,   \* the writer, see CoalescingWriter
          version,      \* number of insertions the table has seen
          file, copy,   \* the saved table; the worker's snapshot of it
          mode,         \* "writer", "sync", or "down" between processes
          clean,        \* history: the last process ended with all saved
          restarts,
          covered,      \* history: mappings live since flush() was called
          promised      \* history: mappings live since a flush() that succeeded

W == INSTANCE CoalescingWriter WITH source <- version

writer == <<requested, persisted, attempted, force, stopping, error, cooling,
            asleep, wpc, generation, result, snap, stored, unscheduled,
            fpc, target, asked, version>>
process == <<mode, clean, restarts>>
history == <<covered, promised>>
storeVars == <<pool, writer, file, copy, process, history>>

Mappings == {<<d, by_domain[d]>> : d \in DOMAIN by_domain}

-----------------------------------------------------------------------------
(* The file.                                                               *)

\* persist_snapshot(): next and the rows, oldest first, under one lock.
Rows == LET live == SelectSeq(order, LAMBDA d : d \in DOMAIN by_domain)
        IN  [i \in DOMAIN live |-> <<live[i], by_domain[live[i]]>>]
Snapshot == [next |-> next, rows |-> Rows]

\* load_from(): a row that repeats a name or an address is skipped, and so is
\* everything past the capacity.
Loaded(rows) ==
  FoldLeft(LAMBDA t, r :
             IF \/ Cardinality(DOMAIN t.by_domain) >= MaxEntries
                \/ r[1] \in DOMAIN t.by_domain \/ r[2] \in DOMAIN t.by_ip
             THEN t
             ELSE [by_domain |-> Put(t.by_domain, r[1], r[2]),
                   by_ip |-> Put(t.by_ip, r[2], r[1]),
                   order |-> Append(t.order, r[1])],
           [by_domain |-> [d \in {} |-> 0], by_ip |-> [o \in {} |-> 0], order |-> <<>>],
           rows)

NoFile == [next |-> FirstHostOffset, rows |-> <<>>]

-----------------------------------------------------------------------------
StoreInit ==
  /\ InitPool /\ W!Init
  /\ version = 0 /\ file = NoFile /\ copy = NoFile
  /\ mode \in {"writer", "sync"} /\ clean = FALSE /\ restarts = 0
  /\ covered = [f \in Flushers |-> {}] /\ promised = {}

\* The histories forget a mapping as soon as the table drops it.
ForgetEvicted ==
  LET live == {<<d, by_domain'[d]>> : d \in DOMAIN by_domain'}
  IN  /\ covered' = [f \in Flushers |-> covered[f] \cap live]
      /\ promised' = promised \cap live

\* allocate() of a new name, up to the release of the table's lock.
Allocate(d) ==
  /\ mode # "down"
  /\ Insert(d) /\ W!Change /\ ForgetEvicted
  /\ UNCHANGED <<file, copy, process>>

\* maybe_persist() with a writer.
MaybePersist ==
  /\ mode = "writer" /\ W!Schedule
  /\ UNCHANGED <<pool, file, copy, process, history>>

\* A synchronous save of the table as it is now.
SaveNow(r) ==
  /\ IF r = "ok" THEN file' = Snapshot /\ stored' = version /\ cooling' = TRUE
                 ELSE UNCHANGED <<file, stored, cooling>>
  /\ UNCHANGED <<pool, copy, process, requested, persisted, attempted, force,
                 stopping, error, asleep, wpc, generation, result, snap,
                 target, asked, version>>

\* maybe_persist() without one: skipped within the interval of the last save.
MaybePersistSync(r) ==
  /\ mode = "sync" /\ unscheduled > 0 /\ ~stopping
  /\ unscheduled' = unscheduled - 1
  /\ \/ cooling /\ UNCHANGED <<pool, file, copy, process, requested, persisted,
              attempted, force, stopping, error, asleep, wpc, generation, result,
              snap, target, asked, version, stored, cooling>>
     \/ ~cooling /\ SaveNow(r)
  /\ UNCHANGED <<fpc, history>>

\* persist() with a writer: flush() begins, and ends.
Persist(f) ==
  /\ mode = "writer" /\ W!Flush(f)
  /\ covered' = [covered EXCEPT ![f] = Mappings]
  /\ UNCHANGED <<pool, file, copy, process, promised>>

PersistReturns(f) ==
  /\ mode = "writer" /\ W!FlushWake(f)
  /\ promised' = IF fpc'[f] = "ok" THEN promised \cup covered[f] ELSE promised
  /\ UNCHANGED <<pool, file, copy, process, covered>>

\* persist() without one.
PersistSync(f, r) ==
  /\ mode = "sync" /\ ~stopping /\ fpc[f] = "idle"
  /\ SaveNow(r)
  /\ fpc' = [fpc EXCEPT ![f] = r]
  /\ promised' = IF r = "ok" THEN promised \cup Mappings ELSE promised
  /\ UNCHANGED <<unscheduled, covered>>

Scan ==
  /\ mode = "writer" /\ W!WorkerScan
  /\ UNCHANGED <<pool, file, copy, process, history>>

TakeSnapshot ==
  /\ mode = "writer" /\ W!WorkerSnapshot /\ copy' = Snapshot
  /\ UNCHANGED <<pool, file, process, history>>

ReplaceFile(r) ==
  /\ mode = "writer" /\ W!WorkerWrite(r)
  /\ file' = IF stored' = snap THEN copy ELSE file
  /\ UNCHANGED <<pool, copy, process, history>>

Finish ==
  /\ mode = "writer" /\ W!WorkerFinish
  /\ UNCHANGED <<pool, file, copy, process, history>>

IntervalElapses ==
  /\ mode # "down" /\ W!IntervalElapses
  /\ UNCHANGED <<pool, file, copy, process, history>>

\* The last owner lets go of the pool.
DropPool ==
  /\ mode # "down" /\ W!Drop
  /\ UNCHANGED <<pool, file, copy, process, history>>

\* The process is gone: after the join, or without it when there is no writer.
Exit ==
  /\ stopping /\ \/ mode = "writer" /\ wpc = "exited"
                 \/ mode = "sync"
  /\ mode' = "down" /\ clean' = (mode = "writer" /\ error = "none")
  /\ UNCHANGED <<pool, writer, file, copy, restarts, history>>

Crash ==
  /\ mode # "down"
  /\ mode' = "down" /\ clean' = FALSE
  /\ UNCHANGED <<pool, writer, file, copy, restarts, history>>

\* CoalescingWriter::new(): the state W!InitWriter describes.
NewWriter ==
  /\ requested' = 0 /\ persisted' = 0 /\ attempted' = 0
  /\ force' = FALSE /\ stopping' = FALSE /\ error' = "none" /\ cooling' = FALSE
  /\ asleep' = {} /\ wpc' = "scan" /\ generation' = 0 /\ result' = "ok"
  /\ fpc' = [f \in Flushers |-> "idle"]
  /\ target' = [f \in Flushers |-> 0] /\ asked' = [f \in Flushers |-> 0]

\* load_or_new().  An unreadable file is the documented loss: start empty.
Start(readable) ==
  LET from == IF readable THEN file ELSE NoFile
      table == Loaded(from.rows)
  IN  /\ mode = "down" /\ restarts < MaxRestarts /\ restarts' = restarts + 1
      /\ mode' \in {"writer", "sync"}
      /\ next' = from.next /\ by_domain' = table.by_domain
      /\ by_ip' = table.by_ip /\ order' = table.order
      /\ NewWriter /\ version' = stored /\ unscheduled' = 0
      /\ covered' = [f \in Flushers |-> {}]
      /\ promised' = IF readable THEN promised ELSE {}
      /\ UNCHANGED <<file, copy, snap, stored, clean>>

StoreNext ==
  \/ \E d \in Domains : Allocate(d)
  \/ \E f \in Flushers : Persist(f) \/ PersistReturns(f)
  \/ \E f \in Flushers, r \in {"ok", "err"} : PersistSync(f, r)
  \/ \E r \in {"ok", "err"} : ReplaceFile(r) \/ MaybePersistSync(r)
  \/ MaybePersist \/ Scan \/ TakeSnapshot \/ Finish \/ IntervalElapses
  \/ DropPool \/ Exit \/ Crash \/ \E b \in BOOLEAN : Start(b)

StoreSpec == StoreInit /\ [][StoreNext]_storeVars

-----------------------------------------------------------------------------
(* Properties.                                                             *)

\* A mapping saved by a successful persist() is still resolved by lookup()
\* for as long as the table has not evicted it, across crashes and restarts.
PromisedResolves ==
  mode # "down" =>
    \A m \in promised : m[2] \in DOMAIN by_ip /\ by_ip[m[2]] = m[1]

\* "a TUN restart reuses the same addresses": a process that starts from a
\* readable file after a clean stop whose last write succeeded has exactly
\* the table, the eviction order and the next address of its predecessor.
CleanRestartIsInvisible ==
  [][Start(TRUE) /\ clean => UNCHANGED pool]_storeVars
=============================================================================
