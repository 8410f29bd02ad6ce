------------------------- MODULE TrafficLedgerProofs -------------------------
(***************************************************************************)
(* Proofs about TrafficLedger, for any number of streams, of threads that  *)
(* read or save the ledger, of targets, days and samples.                  *)
(***************************************************************************)
EXTENDS TrafficLedger, TLAPS

-----------------------------------------------------------------------------
(* Types.                                                                  *)

\* The values that the actions reset the records to are of their types.
LEMMA Fresh ==
  /\ FirstPlace \in Places /\ NoTotals \in TotalsType
  /\ NoCall \in CallType /\ NoCounter \in CounterType /\ NoSave \in SaverType
  /\ NoBytes \in HandType
<1>1. PICK d : d \in Days
  BY LedgerAssumption
<1>2. (CHOOSE e \in Days : TRUE) \in Days
  BY <1>1
<1>3. FirstPlace \in Places
  BY <1>2, LedgerAssumption DEF FirstPlace, Places
<1>4. NoTotals \in TotalsType
  BY DEF NoTotals, TotalsType
<1> QED
  BY <1>3, <1>4 DEF NoCall, NoCounter, NoSave, NoBytes, CallType, CounterType, SaverType,
                    HandType, RecPcs, SaverPcs

\* A step of a recorder keeps the types.
LEMMA RecorderTypes ==
  ASSUME LedgerTypeOK, NEW r \in Recorders, RecorderStep(r),
         rec[r].pc \in {"add", "direct", "count"} => rec[r].sample \in Samples
  PROVE  LedgerTypeOK'
<1> USE Fresh DEF LedgerTypeOK, node, totals, save, samples
<1>0. /\ rec[r] \in CallType /\ counter[r] \in CounterType
      /\ rec[r].place[1] \in Targets /\ rec[r].place[2] \in Days
  <2>1. rec[r] \in CallType /\ counter[r] \in CounterType
    OBVIOUS
  <2>2. rec[r].place \in Targets \X Days
    BY <2>1 DEF CallType, Places
  <2> QED
    BY <2>1, <2>2
<1>1. ASSUME NEW d \in Days, RecordAt(r, d) PROVE LedgerTypeOK'
  <2>1. \A pc \in {"add", "bind"} :
          [pc |-> pc, sample |-> issued + 1, place |-> <<FirstTarget, d>>, seen |-> targetGen,
           due |-> recent, closing |-> FALSE] \in CallType
    BY LedgerAssumption DEF CallType, Places, RecPcs
  <2>2. PICK pc \in {"add", "bind"} : pc = IF UpToDate(r, d) THEN "add" ELSE "bind"
    OBVIOUS
  <2>3. rec' \in [Recorders -> CallType]
    BY <1>1, <2>1, <2>2, Zenon DEF RecordAt
  <2> QED
    BY <1>1, <2>3 DEF RecordAt
<1>2. ASSUME Bind(r) PROVE LedgerTypeOK'
  <2>1. \A pc \in {"add", "retire", "push"} :
          [rec[r] EXCEPT !.place = <<current, rec[r].place[2]>>, !.pc = pc] \in CallType
    BY <1>0, Zenon DEF CallType, Places, RecPcs
  <2>2. [counter[r] EXCEPT !.versions = Versions(r)] \in CounterType
    BY <1>0, Zenon DEF CounterType, CallType, Versions
  <2> QED
    BY <1>2, <2>1, <2>2, Zenon DEF Bind
<1>3. ASSUME Push(r) PROVE LedgerTypeOK'
  <2>1. [bound |-> TRUE, place |-> rec[r].place, bytes |-> {}, versions |-> Versions(r)]
          \in CounterType
    BY <1>0 DEF CounterType, CallType, Versions
  <2>2. [rec[r] EXCEPT !.pc = "add"] \in CallType
    BY <1>0 DEF CallType, RecPcs
  <2> QED
    BY <1>3, <2>1, <2>2 DEF Push
<1>4. ASSUME AddSample(r) PROVE LedgerTypeOK'
  <2>0. rec[r].sample \in Samples
    BY <1>4 DEF AddSample
  <2>1. [counter[r] EXCEPT !.bytes = @ \cup {rec[r].sample}] \in CounterType
    BY <1>0, <2>0 DEF CounterType
  <2>2. rec[r].due \X {rec[r].place[2]} \in SUBSET Places
    BY <1>0 DEF CallType, Places
  <2> QED
    BY <1>4, <2>0, <2>1, <2>2 DEF AddSample
<1>5. ASSUME Close(r) PROVE LedgerTypeOK'
  <2>1. \A pc \in {"retire", "closed"} :
          [rec[r] EXCEPT !.pc = pc, !.closing = TRUE] \in CallType
    BY <1>0, Zenon DEF CallType, RecPcs
  <2> QED
    BY <1>5, <2>1, Zenon DEF Close
<1>6. Swapped(counter[r]) \in CounterType /\
      [place |-> counter[r].place, bytes |-> counter[r].bytes] \in HandType
  BY <1>0 DEF Swapped, CounterType, HandType
<1>7. ASSUME Retire(r) PROVE LedgerTypeOK'
  <2>1. \A pc \in {"merge", "unlist"} : [rec[r] EXCEPT !.pc = pc] \in CallType
    BY <1>0 DEF CallType, RecPcs
  <2>2. rec' \in [Recorders -> CallType]
    BY <1>7, <2>1 DEF Retire, AfterSwap
  <2> QED
    BY <1>6, <1>7, <2>2 DEF Retire, Swap
<1>8. ASSUME Unlist(r) PROVE LedgerTypeOK'
  <2>1. \A pc \in {"closed", "push"} : [rec[r] EXCEPT !.pc = pc] \in CallType
    BY <1>0 DEF CallType, RecPcs
  <2>2. rec' \in [Recorders -> CallType]
    BY <1>8, <2>1 DEF Unlist
  <2> QED
    BY <1>8, <2>2 DEF Unlist
<1>9. ASSUME NEW d \in Days, RecordDirect(r, d) PROVE LedgerTypeOK'
  <2>1. [pc |-> "direct", sample |-> issued + 1, place |-> <<current, d>>, seen |-> 0,
         due |-> recent, closing |-> FALSE] \in CallType
    BY DEF CallType, Places, RecPcs
  <2> QED
    BY <1>9, <2>1 DEF RecordDirect
<1>10. ASSUME PostDirect(r) PROVE LedgerTypeOK'
  <2>0. rec[r].sample \in Samples
    BY <1>10 DEF PostDirect
  <2>1. [rec[r] EXCEPT !.pc = "count"] \in CallType
    BY <1>0 DEF CallType, RecPcs
  <2>2. rec[r].due \X {rec[r].place[2]} \in SUBSET Places /\ rec[r].place \in Places
    BY <1>0 DEF CallType, Places
  <2>3. nodeHistory' \in TotalsType
    BY <1>10, <2>0, <2>2 DEF PostDirect, TotalsType
  <2> QED
    BY <1>10, <2>0, <2>1, <2>2, <2>3 DEF PostDirect
<1>11. ASSUME CountDirect(r) PROVE LedgerTypeOK'
  BY <1>11, SMTT(30) DEF CountDirect
<1> QED
  BY <1>1, <1>2, <1>3, <1>4, <1>5, <1>7, <1>8, <1>9, <1>10, <1>11, SMTT(30) DEF RecorderStep

\* The updates that the actions make of a saver's record.
LEMMA SaverUpdates ==
  ASSUME NEW s \in SaverType, NEW pc \in SaverPcs
  PROVE  /\ [s EXCEPT !.pc = pc] \in SaverType
         /\ \A why \in {"read", "tick", "flush"}, b \in SUBSET Samples :
              [s EXCEPT !.pc = pc, !.why = why, !.before = b] \in SaverType
         /\ \A g \in Nat : [s EXCEPT !.pc = pc, !.why = "flush", !.gen = g] \in SaverType
         /\ \A t \in SUBSET Recorders : [s EXCEPT !.pc = pc, !.todo = t] \in SaverType
         /\ \A g \in Nat : [s EXCEPT !.pc = pc, !.gen = g] \in SaverType
         /\ \A c \in TotalsType : [s EXCEPT !.pc = pc, !.copy = c] \in SaverType
         /\ \A b \in SUBSET Samples : [s EXCEPT !.pc = pc, !.before = b] \in SaverType
  BY Zenon DEF SaverType

\* A step of a thread that reads or saves the ledger keeps the types.
LEMMA SaverTypes ==
  ASSUME LedgerTypeOK, NEW x \in Savers, SaverStep(x)
  PROVE  LedgerTypeOK'
<1> USE DEF LedgerTypeOK, node, totals, save, samples
<1>0. /\ saver[x] \in SaverType /\ saver[x].copy \in TotalsType /\ saver[x].gen \in Nat
      /\ saver[x].todo \in SUBSET Recorders /\ saver[x].before \in SUBSET Samples
  BY DEF SaverType
<1>1. ASSUME NEW why \in {"read", "tick", "flush"}, ReadLedger(x, why) PROVE LedgerTypeOK'
  <2>1. [saver[x] EXCEPT !.pc = "wait", !.why = why, !.before = recorded] \in SaverType
    BY <1>0, SaverUpdates, ZenonT(30) DEF SaverPcs
  <2> QED
    BY <1>1, <2>1, SMTT(30) DEF ReadLedger
<1>2. ASSUME NEW r \in Recorders, Drain(x, r) PROVE LedgerTypeOK'
  <2>1. \A pc \in {"merge", "drain"} :
          [saver[x] EXCEPT !.pc = pc, !.todo = saver[x].todo \ {r}] \in SaverType
    BY <1>0, SaverUpdates, Zenon DEF SaverPcs
  <2>2. AfterSwap(r, "drain") \in {"merge", "drain"}
    BY DEF AfterSwap
  <2>3. saver' \in [Savers -> SaverType]
    BY <1>2, <2>1, <2>2, Zenon DEF Drain
  <2>4. Swapped(counter[r]) \in CounterType /\
        [place |-> counter[r].place, bytes |-> counter[r].bytes] \in HandType
    BY DEF Swapped, CounterType, HandType
  <2> QED
    BY <1>2, <2>3, <2>4 DEF Drain, Swap
<1>3. ASSUME MergePending(x) PROVE LedgerTypeOK'
  <2>1. [saver[x] EXCEPT !.pc = "drain", !.todo = listed] \in SaverType
    BY <1>0, SaverUpdates, Zenon DEF SaverPcs
  <2> QED
    BY <1>3, <2>1 DEF MergePending
<1>4. ASSUME Drained(x) PROVE LedgerTypeOK'
  <2>1. [saver[x] EXCEPT !.pc = "load"] \in SaverType
        /\ [saver[x] EXCEPT !.pc = "save"] \in SaverType
    BY <1>0, SaverUpdates, ZenonT(30) DEF SaverPcs
  <2> QED
    BY <1>4, <2>1, Fresh, SMTT(30) DEF Drained
<1>5. ASSUME Load(x) PROVE LedgerTypeOK'
  <2>1. [saver[x] EXCEPT !.pc = "compare", !.gen = changes] \in SaverType
    BY <1>0, SaverUpdates, ZenonT(30) DEF SaverPcs
  <2> QED
    BY <1>5, <2>1 DEF Load
<1>6. Returned(x) \in SaverType
  BY <1>0, Fresh, SaverUpdates, ZenonT(30) DEF Returned, SaverPcs
<1>7. ASSUME Compare(x) PROVE LedgerTypeOK'
  <2>1. [saver[x] EXCEPT !.pc = "wait", !.why = "flush", !.gen = 0] \in SaverType
    BY <1>0, SaverUpdates, ZenonT(30) DEF SaverPcs
  <2> QED
    BY <1>6, <1>7, <2>1 DEF Compare
<1>8. ASSUME SaveLock(x) PROVE LedgerTypeOK'
  <2>1. [saver[x] EXCEPT !.pc = "clone", !.gen = changes] \in SaverType
    BY <1>0, SaverUpdates, ZenonT(30) DEF SaverPcs
  <2> QED
    BY <1>8, <2>1 DEF SaveLock
<1>9. ASSUME Clone(x) PROVE LedgerTypeOK'
  <2>1. [saver[x] EXCEPT !.pc = "write", !.copy = nodeHistory] \in SaverType
    BY <1>0, SaverUpdates, Zenon DEF SaverPcs
  <2> QED
    BY <1>9, <2>1 DEF Clone
<1>10. ASSUME Write(x) PROVE LedgerTypeOK'
  <2>1. [saver[x] EXCEPT !.pc = "store", !.copy = NoTotals] \in SaverType
    BY <1>0, Fresh, SaverUpdates, Zenon DEF SaverPcs
  <2>2. NoSave \in SaverType
    BY Fresh
  <2> QED
    BY <1>0, <1>10, <2>1, <2>2, Zenon DEF Write
<1>11. ASSUME Store(x) PROVE LedgerTypeOK'
  BY <1>0, <1>6, <1>11 DEF Store, Acknowledged
<1> QED
  BY <1>1, <1>2, <1>3, <1>4, <1>5, <1>7, <1>8, <1>9, <1>10, <1>11, SMTT(30) DEF SaverStep

\* A step of a recorder or of a saver under the registry's mutex.
LEMMA MergeTypes ==
  ASSUME LedgerTypeOK, Merge \/ Bump
  PROVE  LedgerTypeOK'
<1> USE DEF LedgerTypeOK, node, totals, save, samples
<1>1. \A r \in Recorders : \A pc \in RecPcs : [rec[r] EXCEPT !.pc = pc] \in CallType
  BY SMTT(30) DEF CallType
<1>2. \A x \in Savers : \A pc \in SaverPcs : [saver[x] EXCEPT !.pc = pc] \in SaverType
  BY SaverUpdates, Zenon
<1>3. \A a, b, c : b \in RecPcs /\ c \in SaverPcs /\ Merging(a, b, c)
                    => rec' \in [Recorders -> CallType] /\ saver' \in [Savers -> SaverType]
  BY <1>1, <1>2 DEF Merging
<1>4. hand.place \in Places /\ hand.bytes \in SUBSET Samples
  BY DEF HandType
<1>5. CASE Merge
  <2>1. rec' \in [Recorders -> CallType] /\ saver' \in [Savers -> SaverType]
    BY <1>3, <1>5 DEF Merge, RecPcs, SaverPcs
  <2>2. nodeHistory' \in TotalsType
    BY <1>4, <1>5 DEF Merge, TotalsType
  <2> QED
    BY <1>5, <2>1, <2>2, Fresh DEF Merge
<1>6. CASE Bump
  <2>1. rec' \in [Recorders -> CallType] /\ saver' \in [Savers -> SaverType]
    BY <1>3, <1>6 DEF Bump, RecPcs, SaverPcs
  <2> QED
    BY <1>6, <2>1 DEF Bump
<1> QED
  BY <1>5, <1>6

\* A change of the target widens what the calls under way may count for.
LEMMA TurnTypes ==
  ASSUME LedgerTypeOK, NEW t \in Targets, Turn(t)
  PROVE  LedgerTypeOK'
<1>1. \A r \in Recorders : [rec[r] EXCEPT !.due = @ \cup {t}] \in CallType
  BY SMTT(30) DEF LedgerTypeOK, CallType
<1> QED
  BY <1>1 DEF LedgerTypeOK, Turn, node, totals, save, samples

-----------------------------------------------------------------------------
(* Control: what a recorder's place in its call says about the call and    *)
(* the counter, and who is inside which lock.                              *)

CallOK(c, k) ==
  /\ c.pc \in {"idle", "closed"} \/ c.closing => c.sample = 0
  /\ c.pc \notin {"idle", "closed"} /\ ~c.closing => c.sample \in Samples
  /\ c.closing => c.pc \in {"retire", "merge", "bump", "unlist", "closed"}
  /\ c.pc \in {"retire", "merge", "bump", "unlist", "add"} => k.bound
  /\ c.pc = "push" => ~k.bound
  /\ c.pc \in {"merge", "bump", "unlist"} => k.bytes = {}
  /\ ~k.bound => k.bytes = {}

RecorderInv(r) ==
  /\ CallOK(rec[r], counter[r])
  /\ counter[r].bound => r \in listed
  /\ rec[r].pc \in {"merge", "bump", "unlist"} => mutex = r

SaverInv(x) ==
  /\ saver[x].pc \in {"drain", "merge", "bump"} => mutex = x
  /\ saver[x].pc \in {"clone", "write", "store"} => saving = x

HandInv ==
  hand.bytes # {} => \/ mutex \in Recorders /\ rec[mutex].pc = "merge"
                     \/ mutex \in Savers /\ saver[mutex].pc = "merge"

LockInv ==
  /\ LedgerTypeOK /\ HandInv
  /\ \A r \in Recorders : RecorderInv(r)
  /\ \A x \in Savers : SaverInv(x)

\* A recorder takes the registry's mutex to push, retire and unlist, and keeps
\* what its place in the call says of its counter.
LEMMA RecorderLocks ==
  ASSUME LockInv, LedgerTypeOK', NEW r \in Recorders, RecorderStep(r)
  PROVE  LockInv'
<1> USE NobodyAssumption
    DEF LockInv, HandInv, RecorderInv, SaverInv, CallOK, node, totals, save, samples
<1>0. rec \in [Recorders -> CallType] /\ counter \in [Recorders -> CounterType]
  BY SMTT(30) DEF LedgerTypeOK
<1>1. ASSUME NEW d \in Days, RecordAt(r, d) PROVE LockInv'
  <2>1. issued + 1 \in Samples
    BY <1>1, LedgerAssumption, SMTT(30) DEF RecordAt, LedgerTypeOK, Samples
  <2> QED
    BY <1>0, <1>1, <2>1, ZenonT(60) DEF RecordAt, UpToDate
<1>2. ASSUME Bind(r) PROVE LockInv'
  BY <1>0, <1>2, SMTT(30) DEF Bind, CallType, CounterType
<1>3. ASSUME Push(r) PROVE LockInv'
  BY <1>0, <1>3 DEF Push, CallType
<1>4. ASSUME AddSample(r) PROVE LockInv'
  BY <1>0, <1>4 DEF AddSample, NoCall, CounterType
<1>5. ASSUME Close(r) PROVE LockInv'
  BY <1>0, <1>5, SMTT(30) DEF Close, CallType
<1>7. ASSUME Retire(r) PROVE LockInv'
  BY <1>0, <1>7 DEF Retire, Swap, Swapped, AfterSwap, CallType, CounterType
<1>8. ASSUME Unlist(r) PROVE LockInv'
  BY <1>0, <1>8 DEF Unlist, CallType, NoCounter
<1>9. ASSUME NEW d \in Days, RecordDirect(r, d) PROVE LockInv'
  <2>1. issued + 1 \in Samples
    BY <1>9, LedgerAssumption, SMTT(30) DEF RecordDirect, LedgerTypeOK, Samples
  <2> QED
    BY <1>0, <1>9, <2>1, SMTT(30) DEF RecordDirect
<1>10. ASSUME PostDirect(r) PROVE LockInv'
  BY <1>0, <1>10 DEF PostDirect, CallType
<1>11. ASSUME CountDirect(r) PROVE LockInv'
  BY <1>0, <1>11, SMTT(30) DEF CountDirect, NoCall
<1> QED
  BY <1>1, <1>2, <1>3, <1>4, <1>5, <1>7, <1>8, <1>9, <1>10, <1>11, ZenonT(30) DEF RecorderStep

\* A saver drains under the registry's mutex and saves under persist_lock.
LEMMA SaverLocks ==
  ASSUME LockInv, LedgerTypeOK', NEW x \in Savers, SaverStep(x)
  PROVE  LockInv'
<1> USE NobodyAssumption
    DEF LockInv, HandInv, RecorderInv, SaverInv, CallOK, node, totals, save, samples
<1>0. /\ saver \in [Savers -> SaverType] /\ counter \in [Recorders -> CounterType]
      /\ rec \in [Recorders -> CallType]
  BY Zenon DEF LedgerTypeOK
<1>1. ASSUME NEW why \in {"read", "tick", "flush"}, ReadLedger(x, why) PROVE LockInv'
  BY <1>0, <1>1 DEF ReadLedger, SaverType
<1>2. ASSUME NEW r \in Recorders, Drain(x, r) PROVE LockInv'
  BY <1>0, <1>2 DEF Drain, Swap, Swapped, AfterSwap, SaverType, CounterType
<1>3. ASSUME MergePending(x) PROVE LockInv'
  BY <1>0, <1>3 DEF MergePending, SaverType
<1>4. ASSUME Drained(x) PROVE LockInv'
  BY <1>0, <1>4 DEF Drained, SaverType, NoSave
<1>5. ASSUME Load(x) PROVE LockInv'
  BY <1>0, <1>5 DEF Load, SaverType
<1>6. Returned(x).pc = "ok"
  BY DEF Returned, NoSave
<1>7. ASSUME Compare(x) PROVE LockInv'
  BY <1>0, <1>6, <1>7 DEF Compare, SaverType
<1>8. ASSUME SaveLock(x) PROVE LockInv'
  BY <1>0, <1>8 DEF SaveLock, SaverType
<1>9. ASSUME Clone(x) PROVE LockInv'
  BY <1>0, <1>9 DEF Clone, SaverType
<1>10. ASSUME Write(x) PROVE LockInv'
  BY <1>0, <1>10 DEF Write, SaverType, NoSave
<1>11. ASSUME Store(x) PROVE LockInv'
  BY <1>0, <1>6, <1>11, Zenon DEF Store
<1> QED
  BY <1>1, <1>2, <1>3, <1>4, <1>5, <1>7, <1>8, <1>9, <1>10, <1>11, Zenon DEF SaverStep

\* The types, the two locks and who may hold swapped bytes: inductive.
LEMMA LockKept ==
  ASSUME LockInv, [LedgerNext]_ledgerVars
  PROVE  LockInv'
<1> USE NobodyAssumption
    DEF LockInv, HandInv, RecorderInv, SaverInv, CallOK, node, totals, save, samples
<1>0. /\ saver \in [Savers -> SaverType] /\ counter \in [Recorders -> CounterType]
      /\ rec \in [Recorders -> CallType]
  BY SMTT(30) DEF LedgerTypeOK
<1>1. ASSUME NEW t \in Targets, Turn(t) PROVE LockInv'
  <2>1. LedgerTypeOK'
    BY <1>1, TurnTypes, SMTT(30)
  <2>2. \A r \in Recorders : /\ rec'[r].pc = rec[r].pc /\ rec'[r].sample = rec[r].sample
                             /\ rec'[r].closing = rec[r].closing
    BY <1>0, <1>1, SMTT(30) DEF Turn, CallType
  <2> QED
    BY <1>1, <2>1, <2>2 DEF Turn
<1>2. ASSUME TurnEnds PROVE LockInv'
  BY <1>2, SMTT(30) DEF TurnEnds, LedgerTypeOK
<1>3. ASSUME Merge PROVE LockInv'
  <2>1. LedgerTypeOK'
    BY <1>3, MergeTypes, Zenon
  <2> QED
    BY <1>0, <1>3, <2>1, SMTT(30) DEF Merge, Merging, CallType, SaverType, NoBytes
<1>4. ASSUME Bump PROVE LockInv'
  <2>1. LedgerTypeOK'
    BY <1>4, MergeTypes
  <2> QED
    BY <1>0, <1>4, <2>1, SMTT(30) DEF Bump, Merging, CallType, SaverType
<1>5. ASSUME NEW r \in Recorders, RecorderStep(r) PROVE LockInv'
  <2>1. LedgerTypeOK'
    BY <1>5, RecorderTypes, Zenon
  <2> QED
    BY <1>5, <2>1, RecorderLocks, Zenon
<1>6. ASSUME NEW x \in Savers, SaverStep(x) PROVE LockInv'
  <2>1. LedgerTypeOK'
    BY <1>6, SaverTypes, Zenon
  <2> QED
    BY <1>6, <2>1, SaverLocks, Zenon
<1>7. CASE UNCHANGED ledgerVars
  BY <1>7, Zenon DEF ledgerVars, LedgerTypeOK
<1> QED
  BY <1>1, <1>2, <1>3, <1>4, <1>5, <1>6, <1>7, Zenon DEF LedgerNext

-----------------------------------------------------------------------------
(* Where the samples are: each in one counter, in the hand of who drains   *)
(* one, or under one place of the totals; that of a call under way in none *)
(* of them until it is added.                                              *)

InCounters(s) == \E r \in Recorders : s \in counter[r].bytes
InTotals(s) == \E p \in Places : s \in nodeHistory[p]

Apart ==
  /\ \A r, q \in Recorders : \A s \in counter[r].bytes : r # q => s \notin counter[q].bytes
  /\ \A r \in Recorders : \A s \in counter[r].bytes : s \notin hand.bytes /\ ~InTotals(s)
  /\ \A s \in hand.bytes : ~InTotals(s)
  /\ \A p, q \in Places : \A s \in nodeHistory[p] : p # q => s \notin nodeHistory[q]

Kept == \A s \in recorded : InCounters(s) \/ s \in hand.bytes \/ InTotals(s)

Begun == \A s \in Samples : s \in recorded \/ InCounters(s) \/ s \in hand.bytes \/ InTotals(s)
                              => s <= issued

CallInv(r) ==
  rec[r].sample # 0 =>
    /\ rec[r].sample <= issued /\ rec[r].sample \notin recorded
    /\ rec[r].sample \notin hand.bytes /\ ~InCounters(rec[r].sample)
    /\ rec[r].pc = "count" <=> InTotals(rec[r].sample)
    /\ \A q \in Recorders : q # r => rec[q].sample # rec[r].sample

SampleInv == Apart /\ Kept /\ Begun /\ \A r \in Recorders : CallInv(r)

\* A step that moves no sample.
LEMMA SamplesStill ==
  ASSUME SampleInv, UNCHANGED <<hand, nodeHistory, recorded, issued>>,
         \A r \in Recorders : counter'[r].bytes = counter[r].bytes,
         \A r \in Recorders : /\ rec'[r].sample = rec[r].sample
                              /\ (rec'[r].pc = "count") <=> (rec[r].pc = "count")
  PROVE  SampleInv'
<1>1. \A s : (InCounters(s)' <=> InCounters(s)) /\ (InTotals(s)' <=> InTotals(s))
  BY DEF InCounters, InTotals
<1>2. Apart' /\ Kept' /\ Begun'
  BY <1>1 DEF SampleInv, Apart, Kept, Begun
<1>3. \A r \in Recorders : CallInv(r)'
  BY <1>1, SMTT(30) DEF SampleInv, CallInv
<1> QED
  BY <1>2, <1>3, SMTT(30) DEF SampleInv

\* A step that takes the bytes of a counter in hand.
LEMMA SamplesSwap ==
  ASSUME LockInv, SampleInv, NEW r \in Recorders, Swap(r), hand.bytes = {},
         UNCHANGED <<nodeHistory, recorded, issued>>,
         \A q \in Recorders : /\ rec'[q].sample = rec[q].sample
                              /\ (rec'[q].pc = "count") <=> (rec[q].pc = "count")
  PROVE  SampleInv'
<1>0. counter \in [Recorders -> CounterType]
  BY SMTT(30) DEF LockInv, LedgerTypeOK
<1>1. /\ \A q \in Recorders : \A t : t \in counter'[q].bytes <=> t \in counter[q].bytes /\ q # r
      /\ \A t : t \in hand'.bytes <=> t \in counter[r].bytes
  BY <1>0 DEF Swap, Swapped, CounterType
<1>2. \A t : InTotals(t)' <=> InTotals(t)
  BY DEF InTotals
<1>3. \A t : InCounters(t)' \/ t \in hand'.bytes <=> InCounters(t)
  BY <1>1, SMTT(30) DEF InCounters
<1>4. Apart'
  BY <1>1, <1>2, SMTT(30) DEF SampleInv, Apart
<1>5. Kept' /\ Begun'
  BY <1>2, <1>3 DEF SampleInv, Kept, Begun
<1>6. ASSUME NEW q \in Recorders PROVE CallInv(q)'
  BY <1>2, <1>3, SMTT(30) DEF SampleInv, CallInv
<1> QED
  BY <1>4, <1>5, <1>6 DEF SampleInv

\* A recorder puts a sample nobody else has into its counter or the totals,
\* and takes its counter's bytes in hand when it retires it.
LEMMA RecorderSamples ==
  ASSUME LockInv, LockInv', SampleInv, NEW r \in Recorders, RecorderStep(r)
  PROVE  SampleInv'
<1> USE DEF node, totals, save, samples
<1>0. /\ rec \in [Recorders -> CallType] /\ counter \in [Recorders -> CounterType]
      /\ nodeHistory \in TotalsType /\ hand \in HandType /\ issued \in Nat
      /\ recorded \in SUBSET Samples /\ Samples \subseteq Nat \ {0}
      /\ CallOK(rec[r], counter[r])
  BY SMTT(30) DEF LockInv, LedgerTypeOK, RecorderInv, Samples
<1>1. ASSUME NEW d \in Days, RecordAt(r, d) \/ RecordDirect(r, d) PROVE SampleInv'
  <2>1. /\ rec'[r].sample = issued + 1 /\ rec'[r].pc # "count" /\ rec[r].sample = 0
        /\ \A q \in Recorders : q # r => rec'[q] = rec[q]
    BY <1>0, <1>1, SMTT(30) DEF RecordAt, RecordDirect, CallOK
  <2>2. UNCHANGED <<hand, counter, nodeHistory, recorded>> /\ issued' = issued + 1
    BY <1>1, Zenon DEF RecordAt, RecordDirect
  <2>3. \A s : (InCounters(s)' <=> InCounters(s)) /\ (InTotals(s)' <=> InTotals(s))
    BY <2>2, SMTT(30) DEF InCounters, InTotals
  <2>4. Apart' /\ Kept'
    BY <2>2, <2>3, Zenon DEF SampleInv, Apart, Kept
  <2>5. Begun'
    BY <1>0, <2>2, <2>3 DEF SampleInv, Begun
  <2>6. issued + 1 \in Samples
    BY <1>1, LedgerAssumption, <1>0, SMTT(30) DEF RecordAt, RecordDirect, Samples
  <2>7. CallInv(r)'
    <3>1. \A q \in Recorders : q # r => rec[q].sample # issued + 1
      BY <1>0, SMTT(30) DEF SampleInv, CallInv, CallType
    <3>2. /\ issued + 1 \notin recorded /\ issued + 1 \notin hand.bytes
          /\ ~InCounters(issued + 1) /\ ~InTotals(issued + 1)
      BY <1>0, <2>6, SMTT(30) DEF SampleInv, Begun
    <3> QED
      BY <1>0, <2>1, <2>2, <2>3, <3>1, <3>2, SMTT(30) DEF CallInv
  <2>8. ASSUME NEW q \in Recorders, q # r PROVE CallInv(q)'
    <3>1. rec[q].sample # 0 => rec[q].sample <= issued /\ rec[q].sample # issued + 1
      BY <1>0, SMTT(30) DEF SampleInv, CallInv, CallType
    <3> QED
      BY <1>0, <2>1, <2>2, <2>3, <2>8, <3>1, SMTT(30) DEF SampleInv, CallInv, CallType
  <2> QED
    BY <2>4, <2>5, <2>7, <2>8, SMTT(30) DEF SampleInv
<1>2. ASSUME Bind(r) PROVE SampleInv'
  BY <1>0, <1>2, SamplesStill DEF Bind, CallType, CounterType
<1>3. ASSUME Push(r) PROVE SampleInv'
  BY <1>0, <1>3, SamplesStill, Zenon DEF Push, CallType, CallOK
<1>4. ASSUME AddSample(r) PROVE SampleInv'
  <2> DEFINE s == rec[r].sample
  <2>1. s \in Samples /\ CallInv(r)
    BY <1>0, <1>4 DEF AddSample, CallOK, SampleInv
  <2>2. \A q \in Recorders : \A t :
          t \in counter'[q].bytes <=> t \in counter[q].bytes \/ (q = r /\ t = s)
    BY <1>0, <1>4 DEF AddSample, CounterType
  <2>3. \A t : InCounters(t)' <=> InCounters(t) \/ t = s
    BY <2>2 DEF InCounters
  <2>4. \A t : InTotals(t)' <=> InTotals(t)
    BY <1>4 DEF AddSample, InTotals
  <2>5. /\ hand' = hand /\ nodeHistory' = nodeHistory /\ issued' = issued
        /\ recorded' = recorded \cup {s}
    BY <1>4 DEF AddSample
  <2>6. Apart'
    <3>1. /\ s \notin hand.bytes /\ \A q \in Recorders : s \notin counter[q].bytes
          /\ \A q \in Places : s \notin nodeHistory[q]
      BY <1>0, <1>4, <2>1 DEF CallInv, InCounters, InTotals, AddSample
    <3> USE <2>1, <2>2, <2>4, <2>5, <3>1 DEF SampleInv, Apart
    <3>2. \A q, u \in Recorders : \A t \in counter'[q].bytes : q # u => t \notin counter'[u].bytes
      BY SMTT(30)
    <3>3. \A q \in Recorders : \A t \in counter'[q].bytes : t \notin hand'.bytes /\ ~InTotals(t)'
      BY SMTT(30) DEF InTotals
    <3>4. \A t \in hand'.bytes : ~InTotals(t)'
      BY DEF InTotals
    <3>5. \A q, u \in Places : \A t \in nodeHistory'[q] : q # u => t \notin nodeHistory'[u]
      BY SMTT(30)
    <3> QED
      BY <3>2, <3>3, <3>4, <3>5, SMTT(30)
  <2>7. Kept' /\ Begun'
    BY <1>0, <2>1, <2>3, <2>4, <2>5, Zenon DEF SampleInv, Kept, Begun, CallInv
  <2>8. ASSUME NEW q \in Recorders PROVE CallInv(q)'
    <3>1. rec'[r].sample = 0
      BY <1>0, <1>4 DEF AddSample, NoCall
    <3>2. q # r => rec'[q] = rec[q] /\ (rec[q].sample # 0 => rec[q].sample # s)
      BY <1>0, <1>4 DEF AddSample, SampleInv, CallInv
    <3> QED
      BY <2>3, <2>4, <2>5, <3>1, <3>2, <1>0, <1>4 DEF SampleInv, CallInv, AddSample
  <2> QED
    BY <2>6, <2>7, <2>8 DEF SampleInv
<1>5. ASSUME Close(r) PROVE SampleInv'
  BY <1>0, <1>5, SamplesStill DEF Close, CallType
<1>7. ASSUME Retire(r) PROVE SampleInv'
  <2>1. hand.bytes = {}
    BY <1>7, NobodyAssumption DEF Retire, LockInv, HandInv
  <2> QED
    BY <1>0, <1>7, <2>1, SamplesSwap DEF Retire, AfterSwap, CallType
<1>8. ASSUME Unlist(r) PROVE SampleInv'
  BY <1>0, <1>8, SamplesStill, Zenon DEF Unlist, NoCounter, CallType, CallOK
<1>10. ASSUME PostDirect(r) PROVE SampleInv'
  <2> DEFINE s == rec[r].sample
             p == rec[r].place
  <2>1. s \in Samples /\ CallInv(r) /\ p \in Places
    BY <1>0, <1>10 DEF PostDirect, CallOK, CallType, SampleInv
  <2>2. \A q \in Places : \A t :
          t \in nodeHistory'[q] <=> t \in nodeHistory[q] \/ (q = p /\ t = s)
    BY <1>0, <1>10 DEF PostDirect, TotalsType
  <2>3. \A t : InTotals(t)' <=> InTotals(t) \/ t = s
    BY <2>1, <2>2 DEF InTotals
  <2>4. \A t : InCounters(t)' <=> InCounters(t)
    BY <1>10 DEF PostDirect, InCounters
  <2>5. /\ hand' = hand /\ counter' = counter /\ issued' = issued /\ recorded' = recorded
        /\ rec[r].pc = "direct"
    BY <1>10 DEF PostDirect
  <2>6. Apart'
    <3>1. /\ s \notin hand.bytes /\ \A q \in Recorders : s \notin counter[q].bytes
          /\ \A q \in Places : s \notin nodeHistory[q]
      BY <1>0, <2>1, <2>5, Zenon DEF CallInv, InCounters, InTotals
    <3> USE <2>1, <2>2, <2>3, <2>5, <3>1 DEF SampleInv, Apart
    <3>2. \A q, u \in Recorders : \A t \in counter'[q].bytes : q # u => t \notin counter'[u].bytes
      BY Zenon
    <3>3. \A q \in Recorders : \A t \in counter'[q].bytes : t \notin hand'.bytes /\ ~InTotals(t)'
      BY DEF InTotals
    <3>4. \A t \in hand'.bytes : ~InTotals(t)'
      BY DEF InTotals
    <3>5. \A q, u \in Places : \A t \in nodeHistory'[q] : q # u => t \notin nodeHistory'[u]
      BY SMTT(30)
    <3> QED
      BY <3>2, <3>3, <3>4, <3>5, Zenon
  <2>7. Kept' /\ Begun'
    BY <1>0, <2>1, <2>3, <2>4, <2>5, Zenon DEF SampleInv, Kept, Begun, CallInv
  <2>8. ASSUME NEW q \in Recorders PROVE CallInv(q)'
    <3>1. rec'[r].sample = s /\ rec'[r].pc = "count"
      BY <1>0, <1>10 DEF PostDirect, CallType
    <3>2. q # r => rec'[q] = rec[q] /\ rec[q].sample # s
      BY <1>0, <1>10, <2>1, SMTT(30) DEF PostDirect, SampleInv, CallInv
    <3> QED
      BY <1>0, <1>10, <2>1, <2>3, <2>4, <2>5, <3>1, <3>2 DEF SampleInv, CallInv, PostDirect
  <2> QED
    BY <2>6, <2>7, <2>8 DEF SampleInv
<1>11. ASSUME CountDirect(r) PROVE SampleInv'
  BY <1>0, <1>11, SMTT(30) DEF CountDirect, NoCall, CallType, CallOK,
                     SampleInv, Apart, Kept, Begun, CallInv, InCounters, InTotals
<1> QED
  BY <1>1, <1>2, <1>3, <1>4, <1>5, <1>7, <1>8, <1>10, <1>11 DEF RecorderStep

\* A saver moves the bytes of the counter it drains.
LEMMA SaverSamples ==
  ASSUME LockInv, SampleInv, NEW x \in Savers, SaverStep(x)
  PROVE  SampleInv'
<1> USE DEF node, totals, save, samples
<1>1. ASSUME NEW r \in Recorders, Drain(x, r) PROVE SampleInv'
  <2>1. hand.bytes = {}
    BY <1>1, NobodyAssumption DEF Drain, LockInv, HandInv, SaverInv
  <2> QED
    BY <1>1, <2>1, SamplesSwap DEF Drain
<1>2. ASSUME \A r \in Recorders : ~Drain(x, r) PROVE SampleInv'
  <2>1. UNCHANGED <<rec, counter, hand, nodeHistory, recorded, issued>>
    BY <1>2 DEF SaverStep, ReadLedger, MergePending, Drained, Load, Compare, SaveLock, Clone,
                Write, Store
  <2> QED
    BY <2>1, SamplesStill
<1> QED
  BY <1>1, <1>2

\* Where the samples are: inductive, on top of the locks.
LEMMA SamplesKept ==
  ASSUME LockInv, LockInv', SampleInv, [LedgerNext]_ledgerVars
  PROVE  SampleInv'
<1> USE DEF node, totals, save, samples
<1>0. /\ rec \in [Recorders -> CallType] /\ nodeHistory \in TotalsType /\ hand \in HandType
  BY DEF LockInv, LedgerTypeOK
<1>1. ASSUME NEW t \in Targets, Turn(t) PROVE SampleInv'
  BY <1>0, <1>1, SamplesStill DEF Turn, CallType
<1>2. ASSUME TurnEnds PROVE SampleInv'
  BY <1>2, SamplesStill, Zenon DEF TurnEnds
<1>3. ASSUME Merge PROVE SampleInv'
  <2>1. UNCHANGED <<counter, recorded, issued>> /\ hand'.bytes = {}
    BY <1>3, SMTT(30) DEF Merge, NoBytes
  <2>2. \A p \in Places : \A t :
          t \in nodeHistory'[p] <=> t \in nodeHistory[p] \/ (p = hand.place /\ t \in hand.bytes)
    BY <1>0, <1>3, SMTT(30) DEF Merge, TotalsType
  <2>3. \A t : InTotals(t)' <=> InTotals(t) \/ t \in hand.bytes
    BY <1>0, <2>2 DEF InTotals, HandType
  <2>4. \A t : InCounters(t)' <=> InCounters(t)
    BY <2>1 DEF InCounters
  <2>5. Apart'
    <3>1. \A r \in Recorders : \A t \in counter[r].bytes : ~InTotals(t)'
      BY <2>3 DEF SampleInv, Apart
    <3>2. \A p, q \in Places : \A t \in nodeHistory'[p] : p # q => t \notin nodeHistory'[q]
      BY <2>2 DEF SampleInv, Apart, InTotals
    <3> QED
      BY <2>1, <3>1, <3>2, Zenon DEF SampleInv, Apart
  <2>6. Kept' /\ Begun'
    BY <2>1, <2>3, <2>4, SMTT(30) DEF SampleInv, Kept, Begun
  <2>7. \A r \in Recorders : /\ rec'[r].sample = rec[r].sample
                             /\ (rec'[r].pc = "count") <=> (rec[r].pc = "count")
    BY <1>0, <1>3 DEF Merge, Merging, CallType
  <2>8. \A r \in Recorders : CallInv(r)'
    BY <2>1, <2>3, <2>4, <2>7, ZenonT(60) DEF SampleInv, CallInv
  <2> QED
    BY <2>5, <2>6, <2>8 DEF SampleInv
<1>4. ASSUME Bump PROVE SampleInv'
  BY <1>0, <1>4, SamplesStill DEF Bump, Merging, CallType
<1>5. ASSUME NEW r \in Recorders, RecorderStep(r) PROVE SampleInv'
  BY <1>5, RecorderSamples
<1>6. ASSUME NEW x \in Savers, SaverStep(x) PROVE SampleInv'
  BY <1>6, SaverSamples
<1>7. CASE UNCHANGED ledgerVars
  BY <1>7, SamplesStill DEF ledgerVars
<1> QED
  BY <1>1, <1>2, <1>3, <1>4, <1>5, <1>6, <1>7 DEF LedgerNext

\* The ledger as load_or_new() leaves it satisfies both.
LEMMA SamplesInit ==
  ASSUME LedgerInit
  PROVE  LockInv /\ SampleInv
<1> USE NobodyAssumption, Fresh DEF LedgerInit
<1>1. LedgerTypeOK
  BY LedgerAssumption, SMTT(30) DEF LedgerTypeOK
<1>2. LockInv
  BY <1>1, Zenon DEF LockInv, HandInv, RecorderInv, SaverInv, CallOK, NoCall, NoCounter,
      NoSave, NoBytes
<1>3. SampleInv
  BY ZenonT(30) DEF SampleInv, Apart, Kept, Begun, CallInv, InCounters, InTotals, NoCall,
      NoCounter, NoBytes, NoTotals
<1> QED
  BY <1>2, <1>3

\* "concurrent drains and recorder drop never lose or duplicate bytes": the
\* bytes of every record() call that returned are counted once, in a counter,
\* by who drains it or in the totals, for any number of streams, associations
\* and threads that drain, rebind, drop, read and save.
THEOREM BytesCountedOnce == LedgerSpec => []CountedOnce
<1>1. LockInv /\ SampleInv => CountedOnce
  <2> SUFFICES ASSUME LockInv, SampleInv, NEW s \in recorded
               PROVE  \E h \in Held(s) : Held(s) = {h}
    BY DEF CountedOnce
  <2>1. CASE InCounters(s)
    <3>1. PICK r \in Recorders : s \in counter[r].bytes
      BY <2>1 DEF InCounters
    <3>2. Held(s) = {<<"counter", r>>}
      BY <3>1 DEF Held, SampleInv, Apart, InTotals
    <3> QED
      BY <3>2
  <2>2. CASE s \in hand.bytes
    <3>1. Held(s) = {<<"hand", Nobody>>}
      BY <2>2, Zenon DEF Held, SampleInv, Apart, InTotals
    <3> QED
      BY <3>1
  <2>3. CASE InTotals(s)
    <3>1. PICK p \in Places : s \in nodeHistory[p]
      BY <2>3 DEF InTotals
    <3>2. Held(s) = {<<"history", p>>}
      BY <2>3, <3>1, Zenon DEF Held, SampleInv, Apart
    <3> QED
      BY <3>2
  <2> QED
    BY <2>1, <2>2, <2>3, Zenon DEF SampleInv, Kept
<1>2. LockInv /\ SampleInv /\ [LedgerNext]_ledgerVars => (LockInv /\ SampleInv)'
  BY LockKept, SamplesKept, SMTT(30)
<1> QED
  BY <1>1, <1>2, SamplesInit, PTL DEF LedgerSpec
-----------------------------------------------------------------------------
(* Attribution: samples lie where they may count, and a call will only put *)
(* its own there.  A counter bound at the current generation is bound to a *)
(* target that is current or being replaced.                               *)

Attributed ==
  /\ \A r \in Recorders : \A s \in counter[r].bytes : counter[r].place \in owed[s]
  /\ \A s \in hand.bytes : hand.place \in owed[s]
  /\ \A p \in Places : \A s \in nodeHistory[p] : p \in owed[s]

TargetInv(r) ==
  LET c == rec[r]
      k == counter[r]
  IN  /\ c.pc \notin {"idle", "closed"} /\ ~c.closing => recent \subseteq c.due
      /\ c.seen <= targetGen /\ k.versions <= targetGen
      /\ k.bound /\ k.versions = targetGen => k.place[1] \in recent
      /\ c.pc \in {"retire", "merge", "bump", "unlist", "push"} /\ ~c.closing
           => c.place[1] \in c.due /\ (c.seen = targetGen => c.place[1] \in recent)
      /\ c.pc = "add" => k.place[1] \in c.due /\ k.place[2] = c.place[2]
      /\ c.pc = "direct" => c.place[1] \in c.due

TargetsInv == current \in recent /\ \A r \in Recorders : TargetInv(r)

\* What TargetInv says of a recorder depends on its call, on what its counter
\* is bound to and on the target.
LEMMA TargetStill ==
  ASSUME NEW r \in Recorders, TargetInv(r), rec'[r] = rec[r], UNCHANGED <<targetGen, recent>>,
         counter'[r].bound = counter[r].bound, counter'[r].place = counter[r].place,
         counter'[r].versions = counter[r].versions
  PROVE  TargetInv(r)'
BY Zenon DEF TargetInv

\* A step of a recorder looks at the target after the generation, and binds
\* or adds in that order.
LEMMA RecorderTargets ==
  ASSUME LockInv, TargetsInv, NEW r \in Recorders, RecorderStep(r)
  PROVE  TargetsInv'
<1> USE DEF node, totals, save, samples
<1>0. /\ rec[r] \in CallType /\ counter[r] \in CounterType
      /\ rec \in [Recorders -> CallType] /\ counter \in [Recorders -> CounterType]
      /\ targetGen \in Nat /\ CallOK(rec[r], counter[r])
  BY SMTT(30) DEF LockInv, LedgerTypeOK, RecorderInv
<1>1. UNCHANGED <<current, targetGen, recent>>
  BY Zenon DEF RecorderStep, RecordAt, RecordDirect, Bind, Push, AddSample, Close, Retire,
      Unlist, PostDirect, CountDirect
<1>2. ASSUME NEW q \in Recorders, q # r PROVE TargetInv(q)'
  <2>1. rec'[q] = rec[q] /\ counter'[q] = counter[q]
    BY <1>0, <1>2, Zenon DEF RecorderStep, RecordAt, RecordDirect, Bind, Push, AddSample,
        Close, Retire, Unlist, PostDirect, CountDirect, Swap
  <2> QED
    BY <1>1, <2>1, TargetStill, Zenon DEF TargetsInv
<1>3. TargetInv(r) /\ current \in recent
  BY DEF TargetsInv
<1>4. TargetInv(r)'
  <2>0. 0 <= targetGen /\ targetGen <= targetGen
    BY <1>0
  <2> USE <1>1, <1>3
  <2>1. ASSUME NEW d \in Days, RecordAt(r, d) PROVE TargetInv(r)'
    <3>1. /\ rec'[r].pc \in {"add", "bind"} /\ rec'[r].seen = targetGen /\ rec'[r].due = recent
          /\ rec'[r].pc = "add" => UpToDate(r, d)
          /\ rec'[r].place[2] = d /\ counter' = counter
      BY <1>0, <2>1, Zenon DEF RecordAt
    <3> QED
      BY <2>0, <3>1, Zenon DEF TargetInv, UpToDate
  <2>2. ASSUME NEW d \in Days, RecordDirect(r, d) PROVE TargetInv(r)'
    <3>1. /\ rec'[r].pc = "direct" /\ rec'[r].seen = 0 /\ rec'[r].due = recent
          /\ rec'[r].place[1] = current /\ counter' = counter
      BY <1>0, <2>2, Zenon DEF RecordDirect
    <3> QED
      BY <2>0, <3>1, Zenon DEF TargetInv
  <2>3. ASSUME Bind(r) PROVE TargetInv(r)'
    BY <1>0, <1>1, <2>3, SMTT(30) DEF Bind, Versions, CallType, CounterType, CallOK, TargetInv
  <2>4. ASSUME Push(r) PROVE TargetInv(r)'
    <3>1. /\ rec'[r].pc = "add" /\ rec'[r].seen = rec[r].seen /\ rec'[r].due = rec[r].due
          /\ rec'[r].place = rec[r].place /\ rec'[r].closing = rec[r].closing
          /\ counter'[r].place = rec[r].place /\ counter'[r].versions = rec[r].seen
          /\ rec[r].pc = "push" /\ ~rec[r].closing
      BY <1>0, <2>4, SMTT(30) DEF Push, Versions, CallType, CallOK
    <3> QED
      BY <3>1, Zenon DEF TargetInv
  <2>5. ASSUME AddSample(r) PROVE TargetInv(r)'
    <3>1. /\ rec'[r].pc = "idle" /\ rec'[r].seen = 0
          /\ counter'[r].place = counter[r].place /\ counter'[r].versions = counter[r].versions
          /\ counter'[r].bound = counter[r].bound
      BY <1>0, <2>5, SMTT(30) DEF AddSample, NoCall, CounterType
    <3> QED
      BY <2>0, <3>1, Zenon DEF TargetInv
  <2>6. ASSUME Close(r) PROVE TargetInv(r)'
    <3>1. /\ rec'[r].pc \in {"retire", "closed"} /\ rec'[r].seen = rec[r].seen
          /\ rec'[r].closing /\ counter' = counter
      BY <1>0, <2>6, SMTT(30) DEF Close, CallType
    <3> QED
      BY <3>1, Zenon DEF TargetInv
  <2>7. ASSUME Retire(r) PROVE TargetInv(r)'
    <3>1. /\ rec[r].pc = "retire" /\ rec'[r].pc \in {"unlist", "merge"}
          /\ rec'[r].seen = rec[r].seen /\ rec'[r].due = rec[r].due
          /\ rec'[r].place = rec[r].place /\ rec'[r].closing = rec[r].closing
      BY <1>0, <2>7, SMTT(30) DEF Retire, AfterSwap, CallType
    <3>2. /\ counter'[r].place = counter[r].place /\ counter'[r].versions = counter[r].versions
          /\ counter'[r].bound = counter[r].bound
      BY <1>0, <2>7, SMTT(30) DEF Retire, Swap, Swapped, CounterType
    <3> QED
      BY <3>1, <3>2, Zenon DEF TargetInv
  <2>8. ASSUME Unlist(r) PROVE TargetInv(r)'
    <3>1. /\ rec[r].pc = "unlist" /\ rec'[r].pc \in {"closed", "push"}
          /\ rec'[r].seen = rec[r].seen /\ rec'[r].due = rec[r].due
          /\ rec'[r].place = rec[r].place /\ rec'[r].closing = rec[r].closing
          /\ ~counter'[r].bound /\ counter'[r].versions = 0
      BY <1>0, <2>8, SMTT(30) DEF Unlist, NoCounter, CallType
    <3> QED
      BY <2>0, <3>1, Zenon DEF TargetInv
  <2>9. ASSUME PostDirect(r) PROVE TargetInv(r)'
    <3>1. /\ rec[r].pc = "direct" /\ rec'[r].pc = "count" /\ rec'[r].seen = rec[r].seen
          /\ rec'[r].due = rec[r].due /\ rec'[r].closing = rec[r].closing /\ counter' = counter
      BY <1>0, <2>9, SMTT(30) DEF PostDirect, CallType
    <3> QED
      BY <3>1, Zenon DEF TargetInv
  <2>10. ASSUME CountDirect(r) PROVE TargetInv(r)'
    <3>1. rec'[r].pc = "idle" /\ rec'[r].seen = 0 /\ counter' = counter
      BY <1>0, <2>10, Zenon DEF CountDirect, NoCall
    <3> QED
      BY <2>0, <3>1, Zenon DEF TargetInv
  <2> QED
    BY <2>1, <2>2, <2>3, <2>4, <2>5, <2>6, <2>7, <2>8, <2>9, <2>10, ZenonT(30) DEF RecorderStep
<1> QED
  BY <1>0, <1>1, <1>2, <1>4 DEF TargetsInv

\* The generations of the target, and what they say of counters and calls:
\* inductive, on top of the locks.
LEMMA TargetsKept ==
  ASSUME LockInv, TargetsInv, [LedgerNext]_ledgerVars
  PROVE  TargetsInv'
<1> USE DEF node, totals, save, samples
<1>0. /\ rec \in [Recorders -> CallType] /\ counter \in [Recorders -> CounterType]
      /\ targetGen \in Nat /\ current \in recent
  BY DEF LockInv, LedgerTypeOK, TargetsInv
<1>1. ASSUME NEW t \in Targets, Turn(t) PROVE TargetsInv'
  <2>1. ASSUME NEW r \in Recorders PROVE TargetInv(r)'
    BY <1>0, <1>1 DEF Turn, TargetsInv, TargetInv, CallType
  <2> QED
    BY <1>1, <2>1 DEF Turn, TargetsInv
<1>2. ASSUME TurnEnds PROVE TargetsInv'
  <2>1. ASSUME NEW r \in Recorders PROVE TargetInv(r)'
    BY <1>0, <1>2, SMTT(30) DEF TurnEnds, TargetsInv, TargetInv, CallType, CounterType
  <2> QED
    BY <1>2, <2>1 DEF TurnEnds, TargetsInv
<1>3. ASSUME Merge \/ Bump PROVE TargetsInv'
  <2>1. UNCHANGED <<current, targetGen, recent, counter>>
    BY <1>3, Zenon DEF Merge, Bump
  <2>2. ASSUME NEW r \in Recorders PROVE TargetInv(r)'
    BY <1>0, <1>3, <2>1, SMTT(30) DEF Merge, Bump, Merging, TargetsInv, TargetInv, CallType
  <2> QED
    BY <1>0, <2>1, <2>2 DEF TargetsInv
<1>4. ASSUME NEW r \in Recorders, RecorderStep(r) PROVE TargetsInv'
  BY <1>4, RecorderTargets
<1>5. ASSUME NEW x \in Savers, SaverStep(x) PROVE TargetsInv'
  <2>1. UNCHANGED <<current, targetGen, recent, rec>>
    BY <1>5, Zenon DEF SaverStep, ReadLedger, MergePending, Drain, Drained, Load, Compare,
        SaveLock, Clone, Write, Store
  <2>2. \A r \in Recorders : /\ counter'[r].bound = counter[r].bound
                             /\ counter'[r].place = counter[r].place
                             /\ counter'[r].versions = counter[r].versions
    <3>1. ASSUME NEW r \in Recorders, Drain(x, r)
          PROVE  \A q \in Recorders : /\ counter'[q].bound = counter[q].bound
                                      /\ counter'[q].place = counter[q].place
                                      /\ counter'[q].versions = counter[q].versions
      BY <1>0, <3>1 DEF Drain, Swap, Swapped, CounterType
    <3>2. (\A r \in Recorders : ~Drain(x, r)) => UNCHANGED counter
      BY <1>5, SMTT(30) DEF SaverStep, ReadLedger, MergePending, Drained, Load, Compare, SaveLock,
          Clone, Write, Store
    <3> QED
      BY <3>1, <3>2
  <2>3. ASSUME NEW r \in Recorders PROVE TargetInv(r)'
    <3>1. TargetInv(r) /\ rec'[r] = rec[r]
      BY <2>1 DEF TargetsInv
    <3> QED
      BY <2>1, <2>2, <3>1, TargetStill, Zenon
  <2> QED
    BY <1>0, <2>1, <2>3 DEF TargetsInv
<1>6. CASE UNCHANGED ledgerVars
  <2>1. UNCHANGED <<current, targetGen, recent, rec, counter>>
    BY <1>6 DEF ledgerVars
  <2>2. ASSUME NEW r \in Recorders PROVE TargetInv(r)'
    <3>1. TargetInv(r) /\ rec'[r] = rec[r] /\ counter'[r] = counter[r]
      BY <2>1 DEF TargetsInv
    <3> QED
      BY <2>1, <3>1, TargetStill, SMTT(30)
  <2> QED
    BY <2>1, <2>2 DEF TargetsInv
<1> QED
  BY <1>1, <1>2, <1>3, <1>4, <1>5, <1>6 DEF LedgerNext

\* A step that moves no sample to another place.
LEMMA AttributedStill ==
  ASSUME Attributed, UNCHANGED <<owed, hand, nodeHistory>>,
         \A r \in Recorders : \/ counter'[r].bytes = {}
                              \/ /\ counter'[r].bytes = counter[r].bytes
                                 /\ counter'[r].place = counter[r].place
  PROVE  Attributed'
BY SMTT(30) DEF Attributed

\* A counter is drained into the hand under its place.
LEMMA AttributedSwap ==
  ASSUME LockInv, Attributed, NEW r \in Recorders, Swap(r), UNCHANGED <<owed, nodeHistory>>,
         hand.bytes = {}
  PROVE  Attributed'
<1>0. counter \in [Recorders -> CounterType]
  BY Zenon DEF LockInv, LedgerTypeOK
<1>1. \A q \in Recorders : /\ counter'[q].place = counter[q].place
                           /\ counter'[q].bytes = {} \/ counter'[q].bytes = counter[q].bytes
  BY <1>0 DEF Swap, Swapped, CounterType
<1>2. \A s \in hand'.bytes : s \in counter[r].bytes /\ hand'.place = counter[r].place
  BY Zenon DEF Swap
<1> QED
  BY <1>1, <1>2, SMTT(30) DEF Attributed

\* A recorder puts its sample where the calls' targets allow.
LEMMA RecorderAttributes ==
  ASSUME LockInv, SampleInv, TargetsInv, Attributed, NEW r \in Recorders, RecorderStep(r)
  PROVE  Attributed'
<1> USE DEF node, totals, save, samples
<1>0. /\ rec[r] \in CallType /\ counter[r] \in CounterType
      /\ rec \in [Recorders -> CallType] /\ counter \in [Recorders -> CounterType]
      /\ nodeHistory \in TotalsType /\ owed \in [Samples -> SUBSET Places]
      /\ CallOK(rec[r], counter[r]) /\ TargetInv(r) /\ CallInv(r)
  BY SMTT(30) DEF LockInv, LedgerTypeOK, RecorderInv, TargetsInv, SampleInv
<1>1. /\ rec[r].place = <<rec[r].place[1], rec[r].place[2]>>
      /\ counter[r].place = <<counter[r].place[1], counter[r].place[2]>>
  BY <1>0, SMTT(30) DEF CallType, CounterType, Places
<1>2. ASSUME NEW d \in Days, RecordAt(r, d) \/ RecordDirect(r, d) PROVE Attributed'
  BY <1>2, AttributedStill, Zenon DEF RecordAt, RecordDirect
<1>3. ASSUME Bind(r) PROVE Attributed'
  BY <1>0, <1>3, AttributedStill DEF Bind, CounterType
<1>4. ASSUME Push(r) PROVE Attributed'
  BY <1>0, <1>4, AttributedStill, SMTT(30) DEF Push
<1>5. ASSUME AddSample(r) PROVE Attributed'
  <2> DEFINE s == rec[r].sample
  <2>1. s \in Samples /\ s \notin hand.bytes /\ ~InCounters(s) /\ ~InTotals(s)
    BY <1>0, <1>5 DEF AddSample, CallOK, CallInv, Samples
  <2>2. counter[r].place \in owed'[s] /\ \A t \in Samples : t # s => owed'[t] = owed[t]
    <3>1. <<counter[r].place[1], counter[r].place[2]>> \in rec[r].due \X {rec[r].place[2]}
      BY <1>0, <1>5 DEF AddSample, TargetInv
    <3> QED
      BY <1>0, <1>1, <1>5, <2>1, <3>1 DEF AddSample
  <2>3. UNCHANGED <<hand, nodeHistory>>
    BY <1>5 DEF AddSample
  <2>4. \A q \in Recorders : /\ counter'[q].place = counter[q].place
                             /\ \A t : t \in counter'[q].bytes <=> \/ t \in counter[q].bytes
                                                                   \/ q = r /\ t = s
    BY <1>0, <1>5 DEF AddSample, CounterType
  <2>5. /\ \A q \in Recorders : \A t \in counter[q].bytes : t \in Samples /\ t # s
        /\ \A t \in hand.bytes : t \in Samples /\ t # s
        /\ \A p \in Places : \A t \in nodeHistory[p] : t \in Samples /\ t # s
    BY <1>0, <2>1, ZenonT(60) DEF InCounters, InTotals, LockInv, LedgerTypeOK, CounterType,
        HandType, TotalsType
  <2> QED
    BY <2>2, <2>3, <2>4, <2>5, ZenonT(60) DEF Attributed
<1>6. ASSUME Close(r) \/ CountDirect(r) PROVE Attributed'
  BY <1>6, AttributedStill DEF Close, CountDirect
<1>7. ASSUME Retire(r) PROVE Attributed'
  <2>1. hand.bytes = {}
    BY <1>7, NobodyAssumption DEF Retire, LockInv, HandInv
  <2> QED
    BY <1>7, <2>1, AttributedSwap DEF Retire
<1>8. ASSUME Unlist(r) PROVE Attributed'
  BY <1>0, <1>8, AttributedStill DEF Unlist, NoCounter
<1>9. ASSUME PostDirect(r) PROVE Attributed'
  <2> DEFINE s == rec[r].sample
  <2>1. /\ s \in Samples /\ s \notin hand.bytes /\ ~InCounters(s) /\ ~InTotals(s)
        /\ rec[r].place \in Places
    BY <1>0, <1>9 DEF PostDirect, CallOK, CallInv, Samples, CallType
  <2>2. rec[r].place \in owed'[s] /\ \A t \in Samples : t # s => owed'[t] = owed[t]
    <3>1. <<rec[r].place[1], rec[r].place[2]>> \in rec[r].due \X {rec[r].place[2]}
      BY <1>0, <1>9 DEF PostDirect, TargetInv
    <3> QED
      BY <1>0, <1>1, <1>9, <2>1, <3>1 DEF PostDirect
  <2>3. UNCHANGED <<hand, counter>>
    BY <1>9 DEF PostDirect
  <2>4. \A p \in Places : \A t :
          t \in nodeHistory'[p] <=> t \in nodeHistory[p] \/ (p = rec[r].place /\ t = s)
    BY <1>9, <2>1 DEF PostDirect, TotalsType, LockInv, LedgerTypeOK
  <2>5. /\ \A q \in Recorders : \A t \in counter[q].bytes : t \in Samples /\ t # s
        /\ \A t \in hand.bytes : t \in Samples /\ t # s
        /\ \A p \in Places : \A t \in nodeHistory[p] : t \in Samples /\ t # s
    BY <1>0, <2>1, ZenonT(60) DEF InCounters, InTotals, LockInv, LedgerTypeOK, CounterType,
        HandType, TotalsType
  <2> QED
    BY <2>2, <2>3, <2>4, <2>5, ZenonT(60) DEF Attributed
<1> QED
  BY <1>2, <1>3, <1>4, <1>5, <1>6, <1>7, <1>8, <1>9 DEF RecorderStep

\* Every move of bytes keeps them under their place: inductive, on top of the
\* other three.
LEMMA AttributedKept ==
  ASSUME LockInv, SampleInv, TargetsInv, Attributed, [LedgerNext]_ledgerVars
  PROVE  Attributed'
<1> USE DEF node, totals, save, samples
<1>1. ASSUME NEW t \in Targets, Turn(t) PROVE Attributed'
  BY <1>1, AttributedStill, SMTT(30) DEF Turn
<1>2. ASSUME TurnEnds \/ Bump PROVE Attributed'
  BY <1>2, AttributedStill, Zenon DEF TurnEnds, Bump
<1>3. ASSUME Merge PROVE Attributed'
  <2>1. UNCHANGED <<counter, owed>> /\ hand'.bytes = {}
    BY <1>3, Zenon DEF Merge, NoBytes
  <2>2. \A p \in Places : \A t :
          t \in nodeHistory'[p] <=> t \in nodeHistory[p] \/ (p = hand.place /\ t \in hand.bytes)
    BY <1>3, Zenon DEF Merge, TotalsType, LockInv, LedgerTypeOK
  <2> QED
    BY <2>1, <2>2, SMTT(30) DEF Attributed
<1>4. ASSUME NEW r \in Recorders, RecorderStep(r) PROVE Attributed'
  BY <1>4, RecorderAttributes
<1>5. ASSUME NEW x \in Savers, SaverStep(x) PROVE Attributed'
  <2>1. ASSUME NEW r \in Recorders, Drain(x, r) PROVE Attributed'
    <3>1. hand.bytes = {}
      BY <2>1, NobodyAssumption DEF Drain, LockInv, HandInv, SaverInv
    <3> QED
      BY <2>1, <3>1, AttributedSwap DEF Drain
  <2>2. (\A r \in Recorders : ~Drain(x, r)) => UNCHANGED <<counter, hand, nodeHistory, owed>>
    BY <1>5, SMTT(30) DEF SaverStep, ReadLedger, MergePending, Drained, Load, Compare, SaveLock,
        Clone, Write, Store
  <2> QED
    BY <2>1, <2>2, AttributedStill, Zenon
<1>6. CASE UNCHANGED ledgerVars
  BY <1>6, AttributedStill, Zenon DEF ledgerVars
<1> QED
  BY <1>1, <1>2, <1>3, <1>4, <1>5, <1>6 DEF LedgerNext

\* "Point subsequent byte samples at this node": in the totals every sample
\* stands under the day it was recorded on and under a node that was current,
\* or was being replaced, during its call, for any number of node changes
\* between the look at the generation and the look at the node.
THEOREM BytesRightlyAttributed == LedgerSpec => []RightlyAttributed
<1> DEFINE IInv == LockInv /\ SampleInv /\ TargetsInv /\ Attributed
<1>1. LedgerInit => TargetsInv /\ Attributed
  <2> SUFFICES ASSUME LedgerInit PROVE TargetsInv /\ Attributed
    OBVIOUS
  <2>1. \A r \in Recorders : /\ rec[r].pc = "idle" /\ rec[r].seen = 0
                             /\ ~counter[r].bound /\ counter[r].bytes = {}
                             /\ counter[r].versions = 0
    BY Zenon DEF LedgerInit, NoCall, NoCounter
  <2>2. /\ current \in recent /\ targetGen = 1 /\ hand.bytes = {}
        /\ \A p \in Places : nodeHistory[p] = {}
    BY DEF LedgerInit, NoBytes, NoTotals
  <2> QED
    BY <2>1, <2>2, SMTT(30) DEF TargetsInv, TargetInv, Attributed
<1>2. IInv /\ [LedgerNext]_ledgerVars => IInv'
  BY LockKept, SamplesKept, TargetsKept, AttributedKept, SMTT(30)
<1>3. IInv => RightlyAttributed
  BY DEF Attributed, RightlyAttributed
<1> QED
  BY <1>1, <1>2, <1>3, SamplesInit, PTL DEF LedgerSpec
=============================================================================
