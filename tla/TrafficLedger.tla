---------------------------- MODULE TrafficLedger ----------------------------
(***************************************************************************)
(* Accounting of the relayed bytes (traffic.rs).  Every observed stream    *)
(* has a recorder with a counter of its own, bound to the node that was    *)
(* current and to the day; the registry lists the counters.  Whoever reads *)
(* the ledger or saves it, and the maintenance thread, drains the listed   *)
(* counters into the history; a recorder that is rebound or dropped drains *)
(* and removes its own.  UDP associations add to the history directly.     *)
(* Saves compare two generation numbers.                                   *)
(*                                                                         *)
(* A sample stands for the bytes of one record() call, all in one          *)
(* direction as the streams and associations make them, and keeps its      *)
(* identity on the way into the file, so that lost and doubled bytes can   *)
(* be told apart.  The session totals and the totals per subscription are  *)
(* added and copied with the history and left out, as are the pruning of   *)
(* old months and the scope of a request, which sets a target of its own   *)
(* with the same protocol.  The four fields of the current target are read *)
(* as one.                                                                 *)
(***************************************************************************)
EXTENDS Naturals

CONSTANTS Recorders, Savers,   \* streams and associations; threads that read or save the ledger
          Targets, Days,
          FirstTarget,         \* the target set when the daemon starts
          MaxSamples,          \* bound on record() calls
          MaxTurns             \* bound on changes of the current target

ASSUME LedgerAssumption ==
  FirstTarget \in Targets /\ Days # {} /\ MaxSamples \in Nat /\ MaxTurns \in Nat

Samples == 1..MaxSamples
Places == Targets \X Days
Nobody == "nobody"

ASSUME NobodyAssumption == Nobody \notin Recorders \cup Savers /\ Recorders \cap Savers = {}

VARIABLES current, targetGen, \* current_id etc., current_generation
          turning,            \* setters that have still to bump the generation
          recent,             \* history: values of current since the last bump
          rec,                \* each recorder in record_at(): [pc, sample, place, seen,
                              \*   due, closing]; due: history
          counter,            \* its counter: [bound, place, bytes, versions]
          listed,             \* the registry
          mutex,              \* holder of the registry's mutex
          hand,               \* what the holder has swapped out: [place, bytes]
          nodeHistory, changes,  \* the totals and their generation
          saver,              \* [pc, why, todo, gen, copy, before]
          saving,             \* holder of persist_lock
          disk, written,      \* the file, persisted_generation
          issued, recorded,   \* record() calls begun, samples counted
          owed                \* history: the places each sample may count for

node == <<current, targetGen, turning, recent>>
totals == <<nodeHistory, changes>>
save == <<saving, disk, written>>
samples == <<issued, recorded, owed>>
ledgerVars == <<node, rec, counter, listed, mutex, hand, totals, saver, save, samples>>

NoTotals == [p \in Places |-> {}]
All(h) == UNION {h[p] : p \in Places}

RecPcs == {"idle", "bind", "retire", "merge", "bump", "unlist", "push", "add", "direct", "count",
           "closed"}
SaverPcs == {"idle", "wait", "drain", "merge", "bump", "load", "compare", "save", "clone",
             "write", "store", "ok"}

CallType == [pc : RecPcs, sample : Nat, place : Places, seen : Nat, due : SUBSET Targets,
             closing : BOOLEAN]
CounterType == [bound : BOOLEAN, place : Places, bytes : SUBSET Samples, versions : Nat]
HandType == [place : Places, bytes : SUBSET Samples]
TotalsType == [Places -> SUBSET Samples]
SaverType == [pc : SaverPcs, why : {"read", "tick", "flush"}, todo : SUBSET Recorders, gen : Nat,
              copy : TotalsType, before : SUBSET Samples]

LedgerTypeOK ==
  /\ current \in Targets /\ targetGen \in Nat /\ turning \in Nat /\ recent \in SUBSET Targets
  /\ rec \in [Recorders -> CallType] /\ counter \in [Recorders -> CounterType]
  /\ listed \in SUBSET Recorders /\ mutex \in Recorders \cup Savers \cup {Nobody}
  /\ hand \in HandType /\ nodeHistory \in TotalsType /\ changes \in Nat
  /\ saver \in [Savers -> SaverType]
  /\ saving \in Savers \cup {Nobody} /\ disk \in TotalsType /\ written \in Nat
  /\ issued \in Nat /\ recorded \in SUBSET Samples /\ owed \in [Samples -> SUBSET Places]

FirstPlace == <<FirstTarget, CHOOSE d \in Days : TRUE>>
NoCall == [pc |-> "idle", sample |-> 0, place |-> FirstPlace, seen |-> 0, due |-> {},
           closing |-> FALSE]
NoCounter == [bound |-> FALSE, place |-> FirstPlace, bytes |-> {}, versions |-> 0]
NoBytes == [place |-> FirstPlace, bytes |-> {}]
NoSave == [pc |-> "idle", why |-> "read", todo |-> {}, gen |-> 0, copy |-> NoTotals,
           before |-> {}]
Returned(x) == [NoSave EXCEPT !.pc = "ok", !.before = saver[x].before]

\* load_or_new() and recorder().  The first flush() is a call like the others;
\* when it fails, this is the state it leaves.
LedgerInit ==
  /\ current = FirstTarget /\ targetGen = 1 /\ turning = 0 /\ recent = {FirstTarget}
  /\ rec = [r \in Recorders |-> NoCall] /\ counter = [r \in Recorders |-> NoCounter]
  /\ listed = {} /\ mutex = Nobody /\ hand = NoBytes
  /\ nodeHistory = NoTotals /\ changes = 1 /\ saving = Nobody /\ disk = NoTotals /\ written = 0
  /\ saver = [x \in Savers |-> NoSave]
  /\ issued = 0 /\ recorded = {} /\ owed = [s \in Samples |-> {}]

-----------------------------------------------------------------------------
(* The current target: set, then made known by the generation.             *)

Turn(t) ==
  /\ targetGen + turning <= MaxTurns /\ turning' = turning + 1
  /\ current' = t /\ recent' = recent \cup {t}
  /\ rec' = [r \in Recorders |-> IF rec[r].pc \in {"idle", "closed"} THEN rec[r]
                                 ELSE [rec[r] EXCEPT !.due = @ \cup {t}]]
  /\ UNCHANGED <<targetGen, counter, listed, mutex, hand, totals, saver, save, samples>>

TurnEnds ==
  /\ turning > 0 /\ turning' = turning - 1
  /\ targetGen' = targetGen + 1 /\ recent' = {current}
  /\ UNCHANGED <<current, rec, counter, listed, mutex, hand, totals, saver, save, samples>>

-----------------------------------------------------------------------------
(* A recorder.                                                             *)

\* Is the counter bound to this day, by a look at the target that no later
\* change has outdated?
UpToDate(r, d) == counter[r].bound /\ counter[r].place[2] = d /\ counter[r].versions = targetGen

\* record_at() reads the generation; the target of place is looked up later ...
RecordAt(r, d) ==
  /\ rec[r].pc = "idle" /\ issued < MaxSamples /\ issued' = issued + 1
  /\ rec' = [rec EXCEPT ![r] = [pc |-> IF UpToDate(r, d) THEN "add" ELSE "bind",
                                sample |-> issued + 1, place |-> <<FirstTarget, d>>,
                                seen |-> targetGen, due |-> recent, closing |-> FALSE]]
  /\ UNCHANGED <<node, counter, listed, mutex, hand, totals, saver, save, recorded, owed>>

\* The generation as it was before the look at the target.
Versions_Latest(r) == targetGen
Versions(r) == rec[r].seen

\* ... and then, if need be, the target.  The counter of another target or day
\* is retired and a new one is made.
Bind(r) ==
  LET p == <<current, rec[r].place[2]>>
      keep == counter[r].bound /\ counter[r].place = p
  IN  /\ rec[r].pc = "bind"
      /\ rec' = [rec EXCEPT ![r] = [@ EXCEPT !.place = p,
                                    !.pc = IF keep THEN "add"
                                           ELSE IF counter[r].bound THEN "retire" ELSE "push"]]
      /\ counter' = IF keep THEN [counter EXCEPT ![r].versions = Versions(r)] ELSE counter
      /\ UNCHANGED <<node, listed, mutex, hand, totals, saver, save, samples>>

Push(r) ==
  /\ rec[r].pc = "push" /\ mutex = Nobody /\ listed' = listed \cup {r}
  /\ counter' = [counter EXCEPT ![r] = [bound |-> TRUE, place |-> rec[r].place, bytes |-> {},
                                        versions |-> Versions(r)]]
  /\ rec' = [rec EXCEPT ![r].pc = "add"]
  /\ UNCHANGED <<node, mutex, hand, totals, saver, save, samples>>

AddSample(r) ==
  LET s == rec[r].sample
  IN  /\ rec[r].pc = "add" /\ rec' = [rec EXCEPT ![r] = NoCall]
      /\ counter' = [counter EXCEPT ![r].bytes = @ \cup {s}]
      /\ recorded' = recorded \cup {s}
      /\ owed' = [owed EXCEPT ![s] = rec[r].due \X {rec[r].place[2]}]
      /\ UNCHANGED <<node, listed, mutex, hand, totals, saver, save, issued>>

\* TrafficRecorder::drop().
Close(r) ==
  /\ rec[r].pc = "idle"
  /\ rec' = [rec EXCEPT ![r].pc = IF counter[r].bound THEN "retire" ELSE "closed",
                        ![r].closing = TRUE]
  /\ UNCHANGED <<node, counter, listed, mutex, hand, totals, saver, save, samples>>

-----------------------------------------------------------------------------
(* An association, without a counter: TrafficLedger::record().             *)

RecordDirect(r, d) ==
  /\ rec[r].pc = "idle" /\ ~counter[r].bound /\ issued < MaxSamples /\ issued' = issued + 1
  /\ rec' = [rec EXCEPT ![r] = [pc |-> "direct", sample |-> issued + 1, place |-> <<current, d>>,
                                seen |-> 0, due |-> recent, closing |-> FALSE]]
  /\ UNCHANGED <<node, counter, listed, mutex, hand, totals, saver, save, recorded, owed>>

PostDirect(r) ==
  LET s == rec[r].sample
  IN  /\ rec[r].pc = "direct" /\ rec' = [rec EXCEPT ![r].pc = "count"]
      /\ nodeHistory' = [nodeHistory EXCEPT ![rec[r].place] = @ \cup {s}]
      /\ owed' = [owed EXCEPT ![s] = rec[r].due \X {rec[r].place[2]}]
      /\ UNCHANGED <<node, counter, listed, mutex, hand, changes, saver, save, issued, recorded>>

CountDirect(r) ==
  /\ rec[r].pc = "count" /\ rec' = [rec EXCEPT ![r] = NoCall]
  /\ changes' = changes + 1 /\ recorded' = recorded \cup {rec[r].sample}
  /\ UNCHANGED <<node, counter, listed, mutex, hand, nodeHistory, saver, save, issued, owed>>

-----------------------------------------------------------------------------
(* Draining a counter: merge_counter(), under the registry's mutex.        *)

\* What a counter holds after its bytes were taken: swap(0).
Swapped_Kept(c) == c
Swapped(c) == [c EXCEPT !.bytes = {}]

Swap(r) ==
  /\ hand' = IF counter[r].bytes = {} THEN hand
             ELSE [place |-> counter[r].place, bytes |-> counter[r].bytes]
  /\ counter' = [counter EXCEPT ![r] = Swapped(@)]

AfterSwap(r, done) == IF counter[r].bytes = {} THEN done ELSE "merge"

\* retire_counter().
Retire(r) ==
  /\ rec[r].pc = "retire" /\ mutex = Nobody /\ mutex' = r
  /\ Swap(r) /\ rec' = [rec EXCEPT ![r].pc = AfterSwap(r, "unlist")]
  /\ UNCHANGED <<node, listed, totals, saver, save, samples>>

Unlist(r) ==
  /\ rec[r].pc = "unlist" /\ mutex' = Nobody /\ listed' = listed \ {r}
  /\ counter' = [counter EXCEPT ![r] = NoCounter]
  /\ rec' = [rec EXCEPT ![r].pc = IF rec[r].closing THEN "closed" ELSE "push"]
  /\ UNCHANGED <<node, hand, totals, saver, save, samples>>

\* record_parts_in_month(): the totals, and then their generation.
Merging(pc, recorderTo, saverTo) ==
  \/ \E r \in Recorders :
       rec[r].pc = pc /\ rec' = [rec EXCEPT ![r].pc = recorderTo] /\ UNCHANGED saver
  \/ \E x \in Savers :
       saver[x].pc = pc /\ saver' = [saver EXCEPT ![x].pc = saverTo] /\ UNCHANGED rec

Merge ==
  /\ Merging("merge", "bump", "bump")
  /\ nodeHistory' = [nodeHistory EXCEPT ![hand.place] = @ \cup hand.bytes]
  /\ hand' = NoBytes
  /\ UNCHANGED <<node, counter, listed, mutex, changes, save, samples>>

Bump ==
  /\ Merging("bump", "unlist", "drain") /\ changes' = changes + 1
  /\ UNCHANGED <<node, counter, listed, mutex, hand, nodeHistory, save, samples>>

-----------------------------------------------------------------------------
(* A thread that reads or saves the ledger: snapshots(), monthly_series(), *)
(* the tick of the maintenance thread, flush().                            *)

ReadLedger(x, why) ==
  /\ saver[x].pc \in {"idle", "ok"}
  /\ saver' = [saver EXCEPT ![x] = [@ EXCEPT !.pc = "wait", !.why = why, !.before = recorded]]
  /\ UNCHANGED <<node, rec, counter, listed, mutex, hand, totals, save, samples>>

\* merge_pending(): the listed counters one after the other.  It drops those
\* without a recorder, but a recorder that goes has removed its own.
MergePending(x) ==
  /\ saver[x].pc = "wait" /\ mutex = Nobody /\ mutex' = x
  /\ saver' = [saver EXCEPT ![x] = [@ EXCEPT !.pc = "drain", !.todo = listed]]
  /\ UNCHANGED <<node, rec, counter, listed, hand, totals, save, samples>>

Drain(x, r) ==
  /\ saver[x].pc = "drain" /\ r \in saver[x].todo /\ Swap(r)
  /\ saver' = [saver EXCEPT ![x] = [@ EXCEPT !.pc = AfterSwap(r, "drain"),
                                             !.todo = saver[x].todo \ {r}]]
  /\ UNCHANGED <<node, rec, listed, mutex, totals, save, samples>>

Drained(x) ==
  /\ saver[x].pc = "drain" /\ saver[x].todo = {} /\ mutex' = Nobody
  /\ saver' = [saver EXCEPT ![x] = CASE saver[x].why = "read" -> NoSave
                                     [] saver[x].why = "tick" -> [@ EXCEPT !.pc = "load"]
                                     [] OTHER -> [@ EXCEPT !.pc = "save"]]
  /\ UNCHANGED <<node, rec, counter, listed, hand, totals, save, samples>>

\* The maintenance thread calls flush() only if something changed.
Load(x) ==
  /\ saver[x].pc = "load"
  /\ saver' = [saver EXCEPT ![x] = [@ EXCEPT !.pc = "compare", !.gen = changes]]
  /\ UNCHANGED <<node, rec, counter, listed, mutex, hand, totals, save, samples>>

Compare(x) ==
  /\ saver[x].pc = "compare"
  /\ saver' = [saver EXCEPT ![x] = IF saver[x].gen = written THEN Returned(x)
                                   ELSE [@ EXCEPT !.pc = "wait", !.why = "flush", !.gen = 0]]
  /\ UNCHANGED <<node, rec, counter, listed, mutex, hand, totals, save, samples>>

\* persist_lock, and the generation before the copy.
SaveLock(x) ==
  /\ saver[x].pc = "save" /\ saving = Nobody /\ saving' = x
  /\ saver' = [saver EXCEPT ![x] = [@ EXCEPT !.pc = "clone", !.gen = changes]]
  /\ UNCHANGED <<node, rec, counter, listed, mutex, hand, totals, disk, written, samples>>

Clone(x) ==
  /\ saver[x].pc = "clone"
  /\ saver' = [saver EXCEPT ![x] = [@ EXCEPT !.pc = "write", !.copy = nodeHistory]]
  /\ UNCHANGED <<node, rec, counter, listed, mutex, hand, totals, save, samples>>

Write(x) ==
  /\ saver[x].pc = "write"
  /\ \/ /\ saver' = [saver EXCEPT ![x].pc = "store", ![x].copy = NoTotals]
        /\ disk' = saver[x].copy /\ UNCHANGED saving
     \/ /\ saver' = [saver EXCEPT ![x] = NoSave] /\ saving' = Nobody
        /\ UNCHANGED disk
  /\ UNCHANGED <<node, rec, counter, listed, mutex, hand, totals, written, samples>>

\* The generation that was read before the copy, whatever was added since.
Acknowledged_Latest(x) == changes
Acknowledged(x) == saver[x].gen

Store(x) ==
  /\ saver[x].pc = "store" /\ written' = Acknowledged(x) /\ saving' = Nobody
  /\ saver' = [saver EXCEPT ![x] = Returned(x)]
  /\ UNCHANGED <<node, rec, counter, listed, mutex, hand, totals, disk, samples>>

-----------------------------------------------------------------------------
RecorderStep(r) ==
  \/ \E d \in Days : RecordAt(r, d) \/ RecordDirect(r, d)
  \/ Bind(r) \/ Push(r) \/ AddSample(r) \/ Close(r) \/ Retire(r) \/ Unlist(r)
  \/ PostDirect(r) \/ CountDirect(r)

SaverStep(x) ==
  \/ \E why \in {"read", "tick", "flush"} : ReadLedger(x, why)
  \/ \E r \in Recorders : Drain(x, r)
  \/ MergePending(x) \/ Drained(x) \/ Load(x) \/ Compare(x) \/ SaveLock(x) \/ Clone(x)
  \/ Write(x) \/ Store(x)

LedgerNext ==
  \/ \E t \in Targets : Turn(t)
  \/ TurnEnds \/ Merge \/ Bump
  \/ \E r \in Recorders : RecorderStep(r)
  \/ \E x \in Savers : SaverStep(x)

LedgerSpec == LedgerInit /\ [][LedgerNext]_ledgerVars

-----------------------------------------------------------------------------
(* Properties.                                                             *)

\* Where a sample is held.
Held(s) ==
  {<<"counter", r>> : r \in {q \in Recorders : s \in counter[q].bytes}}
    \cup {<<"history", p>> : p \in {q \in Places : s \in nodeHistory[q]}}
    \cup (IF s \in hand.bytes THEN {<<"hand", Nobody>>} ELSE {})

\* "concurrent drains and recorder drop never lose or duplicate bytes": every
\* recorded sample is held once, whatever drains, retirements and rebindings
\* overlap.
CountedOnce == \A s \in recorded : \E h \in Held(s) : Held(s) = {h}

\* "Point subsequent byte samples at this node": in the totals a sample stands
\* under the day it was recorded on and under a node that was current, or
\* whose selection was not over, while it was recorded; a counter bound
\* before a switch never takes bytes recorded after it.
RightlyAttributed == \A p \in Places : \A s \in nodeHistory[p] : p \in owed[s]

\* "a snapshot/flush cannot overtake a drain which swapped bytes but has not
\* merged them yet": when flush() returns Ok, or the maintenance thread finds
\* nothing to save, the file holds every sample recorded before the call.
FlushCovers == \A x \in Savers : saver[x].pc = "ok" => saver[x].before \subseteq All(disk)
=============================================================================
