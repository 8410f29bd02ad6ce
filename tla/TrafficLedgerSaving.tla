------------------------ MODULE TrafficLedgerSaving ------------------------
(***************************************************************************)
(* Proofs about the saving of the ledger, on top of TrafficLedgerProofs:   *)
(* what the two generation numbers say about the totals and the file.      *)
(***************************************************************************)
EXTENDS TrafficLedgerProofs

-----------------------------------------------------------------------------
(* The totals and the file only grow.                                      *)

\* The samples under any place of the totals, or of a copy of them.
LEMMA AllMembers ==
  /\ \A h, s : s \in All(h) <=> \E p \in Places : s \in h[p]
  /\ \A s : InTotals(s) <=> s \in All(nodeHistory)
  /\ \A s : InTotals(s)' <=> s \in All(nodeHistory')
  /\ \A s : s \notin All(NoTotals)
BY DEF All, InTotals, NoTotals

\* No step takes a sample out of the totals.
LEMMA TotalsGrow ==
  ASSUME LockInv, [LedgerNext]_ledgerVars
  PROVE  /\ All(nodeHistory) \subseteq All(nodeHistory')
         /\ recorded \subseteq recorded' /\ changes <= changes'
<1> USE DEF node, totals, save, samples
<1>0. nodeHistory \in TotalsType /\ changes \in Nat
  BY DEF LockInv, LedgerTypeOK
<1>1. ASSUME Merge \/ Bump
      PROVE  /\ \A p \in Places : nodeHistory[p] \subseteq nodeHistory'[p]
             /\ recorded \subseteq recorded' /\ changes <= changes'
  BY <1>0, <1>1 DEF Merge, Bump, TotalsType
<1>2. ASSUME NEW r \in Recorders, RecorderStep(r)
      PROVE  /\ \A p \in Places : nodeHistory[p] \subseteq nodeHistory'[p]
             /\ recorded \subseteq recorded' /\ changes <= changes'
  <2>1. CASE PostDirect(r)
    BY <1>0, <2>1 DEF PostDirect, TotalsType
  <2>2. CASE ~PostDirect(r)
    BY <1>0, <1>2, <2>2, SMTT(30) DEF RecorderStep, RecordAt, RecordDirect, Bind, Push, AddSample,
        Close, Retire, Unlist, CountDirect
  <2> QED
    BY <2>1, <2>2
<1>3. ASSUME NEW x \in Savers, SaverStep(x) PROVE UNCHANGED <<nodeHistory, changes, recorded>>
  BY <1>3, Zenon DEF SaverStep, ReadLedger, Drain, MergePending, Drained, Load, Compare, SaveLock,
      Clone, Write, Store
<1>4. (\E t \in Targets : Turn(t)) \/ TurnEnds \/ UNCHANGED ledgerVars
        => UNCHANGED <<nodeHistory, changes, recorded>>
  BY DEF Turn, TurnEnds, ledgerVars
<1>5. /\ \A p \in Places : nodeHistory[p] \subseteq nodeHistory'[p]
      /\ recorded \subseteq recorded' /\ changes <= changes'
  BY <1>0, <1>1, <1>2, <1>3, <1>4 DEF LedgerNext
<1> QED
  BY <1>5, AllMembers

\* Where a saver can have come from, and what it brought along.
SaverMove(y) ==
  LET v == saver[y]
      w == saver'[y]
  IN  /\ w.pc \in {"load", "compare", "save", "clone", "write", "store", "ok"}
           => w.before = v.before
      /\ w.before = v.before \/ w.before = recorded \/ w.before = {}
      /\ w.pc \in {"write", "store"} => w.gen = v.gen
      /\ w.pc = "load" => \/ v.pc = "load"
                          \/ v.pc = "drain" /\ v.todo = {}
      /\ w.pc = "compare" => \/ v.pc = "compare" /\ w.gen = v.gen
                             \/ v.pc = "load" /\ w.gen = changes
      /\ w.pc \in {"save", "clone"} => \/ v.pc \in {"save", "clone"}
                                       \/ v.pc = "drain" /\ v.todo = {}
      /\ w.pc = "clone" => \/ v.pc = "clone" /\ w.gen = v.gen
                           \/ w.gen = changes
      /\ w.pc = "write" => \/ v.pc = "write" /\ w.copy = v.copy
                           \/ v.pc = "clone" /\ w.copy = nodeHistory
      /\ w.pc = "store" => \/ v.pc = "store"
                           \/ v.pc = "write" /\ disk' = v.copy
      /\ w.pc = "ok" => \/ v.pc \in {"ok", "store"}
                        \/ v.pc = "compare" /\ v.gen = written

\* Every action of a saver is such a move and leaves the other savers alone.
LEMMA SaverMoves ==
  ASSUME LockInv, NEW x \in Savers, SaverStep(x)
  PROVE  SaverMove(x) /\ \A y \in Savers : y # x => saver'[y] = saver[y]
<1> USE DEF node, totals, save, samples
<1>0. saver \in [Savers -> SaverType]
  BY SMTT(30) DEF LockInv, LedgerTypeOK
<1>1. \A y \in Savers : y # x => saver'[y] = saver[y]
  BY <1>0, ZenonT(30) DEF SaverStep, ReadLedger, Drain, MergePending, Drained, Load, Compare,
      SaveLock, Clone, Write, Store
<1>2. SaverMove(x)
  <2> USE <1>0 DEF SaverMove, SaverType
  <2>1. ASSUME NEW why \in {"read", "tick", "flush"}, ReadLedger(x, why) PROVE SaverMove(x)
    BY <2>1 DEF ReadLedger
  <2>2. ASSUME NEW r \in Recorders, Drain(x, r) PROVE SaverMove(x)
    BY <2>2 DEF Drain, AfterSwap
  <2>3. ASSUME MergePending(x) PROVE SaverMove(x)
    BY <2>3 DEF MergePending
  <2>4. ASSUME Drained(x) PROVE SaverMove(x)
    BY <2>4 DEF Drained, NoSave
  <2>5. ASSUME Load(x) PROVE SaverMove(x)
    BY <2>5 DEF Load
  <2>6. Returned(x).pc = "ok" /\ Returned(x).before = saver[x].before
    BY DEF Returned, NoSave
  <2>7. ASSUME Compare(x) PROVE SaverMove(x)
    BY <2>6, <2>7 DEF Compare
  <2>8. ASSUME SaveLock(x) PROVE SaverMove(x)
    BY <2>8 DEF SaveLock
  <2>9. ASSUME Clone(x) PROVE SaverMove(x)
    BY <2>9 DEF Clone
  <2>10. ASSUME Write(x) PROVE SaverMove(x)
    BY <2>10 DEF Write, NoSave
  <2>11. ASSUME Store(x) PROVE SaverMove(x)
    BY <2>6, <2>11 DEF Store
  <2> QED
    BY <2>1, <2>2, <2>3, <2>4, <2>5, <2>7, <2>8, <2>9, <2>10, <2>11, Zenon DEF SaverStep
<1> QED
  BY <1>1, <1>2

\* The same for any step, and what happens to the file.
LEMMA SaveMoves ==
  ASSUME LockInv, [LedgerNext]_ledgerVars
  PROVE  /\ \A y \in Savers : SaverMove(y)
         /\ \/ UNCHANGED <<disk, written>>
            \/ UNCHANGED written /\ \E x \in Savers : /\ saver[x].pc = "write"
                                                      /\ saver'[x].pc = "store"
                                                      /\ disk' = saver[x].copy
            \/ UNCHANGED disk /\ \E x \in Savers : saver[x].pc = "store" /\ written' = saver[x].gen
<1> USE DEF node, totals, save, samples
<1>0. saver \in [Savers -> SaverType]
  BY DEF LockInv, LedgerTypeOK
<1>2. ASSUME NEW y \in Savers, saver'[y] = saver[y] PROVE SaverMove(y)
  BY <1>0, <1>2 DEF SaverMove, SaverType
<1>3. ASSUME NEW x \in Savers, SaverStep(x)
      PROVE  /\ \A y \in Savers : SaverMove(y)
             /\ \/ UNCHANGED <<disk, written>>
                \/ /\ UNCHANGED written /\ saver[x].pc = "write" /\ saver'[x].pc = "store"
                   /\ disk' = saver[x].copy
                \/ UNCHANGED disk /\ saver[x].pc = "store" /\ written' = saver[x].gen
  <2>1. \A y \in Savers : SaverMove(y)
    BY <1>2, <1>3, SaverMoves
  <2>2. CASE Write(x) \/ Store(x)
    BY <1>0, <2>1, <2>2, SMTT(30) DEF Write, Store, Acknowledged, SaverType
  <2>3. CASE ~(Write(x) \/ Store(x))
    BY <1>3, <2>1, <2>3, Zenon DEF SaverStep, ReadLedger, Drain, MergePending, Drained, Load,
        Compare, SaveLock, Clone
  <2> QED
    BY <2>2, <2>3
<1>4. ASSUME Merge \/ Bump PROVE (\A y \in Savers : SaverMove(y)) /\ UNCHANGED <<disk, written>>
  <2>1. ASSUME NEW y \in Savers PROVE SaverMove(y)
    <3>1. \/ saver'[y] = saver[y]
          \/ saver'[y] = [saver[y] EXCEPT !.pc = "bump"]
          \/ saver'[y] = [saver[y] EXCEPT !.pc = "drain"]
      BY <1>0, <1>4 DEF Merge, Bump, Merging
    <3>2. /\ saver[y] \in SaverType
          /\ saver'[y] = saver[y] \/ saver'[y].pc \in {"bump", "drain"}
          /\ saver'[y].before = saver[y].before
      BY <1>0, <3>1 DEF SaverType
    <3> QED
      BY <1>2, <3>2 DEF SaverMove
  <2> QED
    BY <1>4, <2>1 DEF Merge, Bump
<1>5. ASSUME NEW r \in Recorders, RecorderStep(r) PROVE UNCHANGED <<saver, disk, written>>
  BY <1>5, Zenon DEF RecorderStep, RecordAt, RecordDirect, Bind, Push, AddSample, Close,
      Retire, Unlist, PostDirect, CountDirect
<1> QED
  BY <1>2, <1>3, <1>4, <1>5 DEF LedgerNext, Turn, TurnEnds, ledgerVars

\* The file only grows, and so does what is about to be written.
Growing ==
  /\ All(disk) \subseteq All(nodeHistory)
  /\ \A y \in Savers : saver[y].pc = "write" => /\ All(disk) \subseteq All(saver[y].copy)
                                                /\ All(saver[y].copy) \subseteq All(nodeHistory)

\* Only the holder of persist_lock replaces the file, with a copy of all that
\* was in the totals, and so in the file.
LEMMA GrowingKept ==
  ASSUME LockInv, LockInv', Growing, [LedgerNext]_ledgerVars
  PROVE  Growing' /\ All(disk) \subseteq All(disk')
<1>1. All(disk) \subseteq All(disk') /\ All(disk') \subseteq All(nodeHistory')
  BY SaveMoves, TotalsGrow DEF Growing
<1>2. ASSUME NEW y \in Savers, saver'[y].pc = "write"
      PROVE  /\ All(disk') \subseteq All(saver'[y].copy)
             /\ All(saver'[y].copy) \subseteq All(nodeHistory')
  <2>1. SaverMove(y)
    BY SaveMoves
  <2>2. disk' = disk
    <3>1. saving = y
      BY <1>2, <2>1 DEF SaverMove, LockInv, SaverInv
    <3>2. \A x \in Savers : saver[x].pc = "write" => x = y
      BY <3>1 DEF LockInv, SaverInv
    <3> QED
      BY <1>2, <3>2, SaveMoves
  <2> QED
    BY <1>2, <2>1, <2>2, TotalsGrow DEF Growing, SaverMove
<1> QED
  BY <1>1, <1>2 DEF Growing

\* T is in the file, or will be, under every generation from g on.
Covers(T, g, sv, d, w) ==
  /\ \A y \in Savers : sv[y].pc = "write" /\ sv[y].gen >= g => T \subseteq All(sv[y].copy)
  /\ \A y \in Savers : sv[y].pc = "store" /\ sv[y].gen >= g => T \subseteq All(d)
  /\ w >= g => T \subseteq All(d)

\* What a generation covers stays covered.
LEMMA CoversKept ==
  ASSUME LockInv, LockInv', Growing, [LedgerNext]_ledgerVars,
         NEW T, NEW g \in Nat, T \subseteq All(nodeHistory), Covers(T, g, saver, disk, written)
  PROVE  Covers(T, g, saver', disk', written')
<1>0. All(disk) \subseteq All(disk')
  BY GrowingKept
<1>1. ASSUME NEW y \in Savers, saver'[y].pc = "write", saver'[y].gen >= g
      PROVE  T \subseteq All(saver'[y].copy)
  BY <1>1, SaveMoves DEF SaverMove, Covers
<1>2. ASSUME NEW y \in Savers, saver'[y].pc = "store", saver'[y].gen >= g
      PROVE  T \subseteq All(disk')
  BY <1>0, <1>2, SaveMoves DEF SaverMove, Covers
<1>3. ASSUME written' >= g PROVE T \subseteq All(disk')
  BY <1>0, <1>3, SaveMoves DEF Covers
<1> QED
  BY <1>1, <1>2, <1>3 DEF Covers

\* Fewer samples are covered as well, and fewer generations cover them.
LEMMA CoversLess ==
  ASSUME NEW T, NEW S, S \subseteq T, NEW g \in Nat, NEW h \in Nat, g <= h,
         NEW sv, NEW d, NEW w \in Nat, \A y \in Savers : sv[y].gen \in Nat,
         Covers(T, g, sv, d, w)
  PROVE  Covers(S, h, sv, d, w)
BY DEF Covers

\* Has a saver found the sample s in the totals, or will it?
Reached(x, s) ==
  InTotals(s) \/ s \in hand.bytes \/ \E r \in saver[x].todo : s \in counter[r].bytes

\* What a saver has found so far of the samples recorded before its call.
Found(x) ==
  LET v == saver[x]
  IN  /\ v.before \subseteq recorded
      /\ v.pc \in {"drain", "merge", "bump"} => \A s \in v.before : Reached(x, s)
      /\ v.pc \in {"load", "compare", "save", "clone"} => \A s \in v.before : InTotals(s)
      /\ v.pc = "write" => v.before \subseteq All(v.copy)
      /\ v.pc \in {"store", "ok"} => v.before \subseteq All(disk)

\* While a saver is at work under the registry's mutex, nobody else takes
\* bytes out of a counter.
LEMMA ReachedKept ==
  ASSUME LockInv, SampleInv, NEW x \in Savers, Found(x), [LedgerNext]_ledgerVars,
         saver'[x].pc \in {"drain", "merge", "bump"}
  PROVE  \A s \in saver'[x].before : Reached(x, s)'
<1> USE DEF node, totals, save, samples
<1>0. /\ saver \in [Savers -> SaverType] /\ counter \in [Recorders -> CounterType]
      /\ nodeHistory \in TotalsType /\ hand \in HandType /\ listed \subseteq Recorders
      /\ rec \in [Recorders -> CallType]
  BY DEF LockInv, LedgerTypeOK
<1>1. \A s : InTotals(s) => InTotals(s)'
  BY TotalsGrow, AllMembers
<1>2. ASSUME saver[x].pc \in {"drain", "merge", "bump"}, saver'[x].before = saver[x].before,
             saver'[x].todo = saver[x].todo, hand' = hand,
             \A r \in saver[x].todo : counter[r].bytes \subseteq counter'[r].bytes
      PROVE  \A s \in saver'[x].before : Reached(x, s)'
  BY <1>1, <1>2 DEF Found, Reached
<1>3. ASSUME saver'[x] = saver[x] PROVE mutex = x /\ saver[x].todo \subseteq Recorders
  BY <1>0, <1>3 DEF LockInv, SaverInv, SaverType
<1>4. ASSUME (\E t \in Targets : Turn(t)) \/ TurnEnds \/ UNCHANGED ledgerVars
      PROVE  \A s \in saver'[x].before : Reached(x, s)'
  BY <1>2, <1>4 DEF Turn, TurnEnds, ledgerVars
<1>5. ASSUME Merge PROVE \A s \in saver'[x].before : Reached(x, s)'
  <2>1. \A s \in hand.bytes : InTotals(s)'
    BY <1>0, <1>5 DEF Merge, InTotals, TotalsType, HandType
  <2>2. /\ saver[x].pc \in {"drain", "merge", "bump"} /\ saver'[x].before = saver[x].before
        /\ saver'[x].todo = saver[x].todo /\ counter' = counter
    BY <1>0, <1>5 DEF Merge, Merging, SaverType
  <2> QED
    BY <1>1, <2>1, <2>2 DEF Found, Reached
<1>6. ASSUME Bump PROVE \A s \in saver'[x].before : Reached(x, s)'
  BY <1>0, <1>2, <1>6 DEF Bump, Merging, SaverType
<1>7. ASSUME NEW r \in Recorders, RecorderStep(r)
      PROVE  \A s \in saver'[x].before : Reached(x, s)'
  <2>1. saver' = saver
    BY <1>7, Zenon DEF RecorderStep, RecordAt, RecordDirect, Bind, Push, AddSample, Close,
        Retire, Unlist, PostDirect, CountDirect
  <2>2. mutex = x /\ x \notin Recorders /\ x # Nobody /\ saver[x].todo \subseteq Recorders
    BY <1>3, <2>1, NobodyAssumption
  <2>3. ~Push(r) /\ ~Retire(r) /\ ~Unlist(r)
    BY <2>2 DEF Push, Retire, Unlist, LockInv, RecorderInv
  <2>4. CASE AddSample(r)
    BY <1>0, <1>2, <2>1, <2>2, <2>4 DEF AddSample, CounterType
  <2>5. CASE Bind(r)
    BY <1>0, <1>2, <2>1, <2>2, <2>5 DEF Bind, CounterType
  <2>6. CASE ~AddSample(r) /\ ~Bind(r)
    <3>1. UNCHANGED <<counter, hand>>
      BY <1>7, <2>3, <2>6 DEF RecorderStep, RecordAt, RecordDirect, Close, PostDirect, CountDirect
    <3> QED
      BY <1>2, <2>1, <3>1
  <2> QED
    BY <2>4, <2>5, <2>6
<1>8. ASSUME NEW y \in Savers, y # x, SaverStep(y)
      PROVE  \A s \in saver'[x].before : Reached(x, s)'
  <2>1. saver'[x] = saver[x]
    BY <1>8, SaverMoves
  <2>2. \A r \in Recorders : ~Drain(y, r)
    BY <1>3, <1>8, <2>1 DEF Drain, LockInv, SaverInv
  <2>3. UNCHANGED <<counter, hand>>
    BY <1>8, <2>2 DEF SaverStep, ReadLedger, MergePending, Drained, Load, Compare, SaveLock,
        Clone, Write, Store
  <2> QED
    BY <1>2, <2>1, <2>3
<1>9. ASSUME SaverStep(x) PROVE \A s \in saver'[x].before : Reached(x, s)'
  <2>1. CASE MergePending(x)
    <3>1. hand.bytes = {}
      BY <2>1, NobodyAssumption DEF MergePending, LockInv, HandInv
    <3>2. /\ saver'[x].before = saver[x].before /\ saver'[x].todo = listed
          /\ UNCHANGED <<counter, hand>>
      BY <1>0, <2>1 DEF MergePending, SaverType
    <3>3. \A r \in Recorders : counter[r].bytes # {} => r \in listed
      BY DEF LockInv, RecorderInv, CallOK
    <3>4. \A s \in saver[x].before : InTotals(s) \/ InCounters(s)
      BY <3>1 DEF Found, SampleInv, Kept
    <3> QED
      BY <1>1, <3>2, <3>3, <3>4 DEF Reached, InCounters
  <2>2. ASSUME NEW r \in Recorders, Drain(x, r) PROVE \A s \in saver'[x].before : Reached(x, s)'
    <3>1. hand.bytes = {}
      BY <2>2, NobodyAssumption DEF Drain, LockInv, HandInv, SaverInv
    <3>2. /\ saver'[x].before = saver[x].before /\ saver[x].pc = "drain"
          /\ saver'[x].todo = saver[x].todo \ {r} /\ saver[x].todo \subseteq Recorders
      BY <1>0, <2>2 DEF Drain, SaverType
    <3>3. /\ \A q \in Recorders : q # r => counter'[q] = counter[q]
          /\ \A s \in counter[r].bytes : s \in hand'.bytes
      BY <1>0, <2>2 DEF Drain, Swap
    <3> QED
      BY <1>1, <3>1, <3>2, <3>3 DEF Found, Reached
  <2>3. CASE ~MergePending(x) /\ \A r \in Recorders : ~Drain(x, r)
    <3>1. Returned(x).pc = "ok"
      BY DEF Returned, NoSave
    <3>2. saver'[x].pc \notin {"drain", "merge", "bump"}
      <4>1. ASSUME NEW why \in {"read", "tick", "flush"}, ReadLedger(x, why)
            PROVE  saver'[x].pc \notin {"drain", "merge", "bump"}
        BY <1>0, <3>1, <4>1 DEF ReadLedger, SaverType
      <4>2. ASSUME Drained(x) PROVE saver'[x].pc \notin {"drain", "merge", "bump"}
        BY <1>0, <3>1, <4>2 DEF Drained, NoSave, SaverType
      <4>3. ASSUME Load(x) PROVE saver'[x].pc \notin {"drain", "merge", "bump"}
        BY <1>0, <3>1, <4>3 DEF Load, SaverType
      <4>4. ASSUME Compare(x) PROVE saver'[x].pc \notin {"drain", "merge", "bump"}
        BY <1>0, <3>1, <4>4 DEF Compare, SaverType
      <4>5. ASSUME SaveLock(x) PROVE saver'[x].pc \notin {"drain", "merge", "bump"}
        BY <1>0, <3>1, <4>5 DEF SaveLock, SaverType
      <4>6. ASSUME Clone(x) PROVE saver'[x].pc \notin {"drain", "merge", "bump"}
        BY <1>0, <3>1, <4>6 DEF Clone, SaverType
      <4>7. ASSUME Write(x) PROVE saver'[x].pc \notin {"drain", "merge", "bump"}
        BY <1>0, <3>1, <4>7 DEF Write, NoSave, SaverType
      <4>8. ASSUME Store(x) PROVE saver'[x].pc \notin {"drain", "merge", "bump"}
        BY <1>0, <3>1, <4>8, SMTT(30) DEF Store, SaverType
      <4> QED
        BY <1>9, <2>3, <4>1, <4>2, <4>3, <4>4, <4>5, <4>6, <4>7, <4>8 DEF SaverStep
    <3> QED
      BY <3>2
  <2> QED
    BY <2>1, <2>2, <2>3
<1> QED
  BY <1>4, <1>5, <1>6, <1>7, <1>8, <1>9 DEF LedgerNext

\* What a saver has found is not lost on its way to the file.
LEMMA FoundKept ==
  ASSUME LockInv, LockInv', SampleInv, Growing, [LedgerNext]_ledgerVars,
         NEW x \in Savers, Found(x),
         saver[x].pc = "compare" => Covers(saver[x].before, saver[x].gen, saver, disk, written)
  PROVE  Found(x)'
<1>0. SaverMove(x) /\ saver[x].gen \in Nat
  BY SaveMoves DEF LockInv, LedgerTypeOK, SaverType
<1>1. /\ recorded \subseteq recorded' /\ All(disk) \subseteq All(disk')
      /\ \A s : InTotals(s) => InTotals(s)'
  BY GrowingKept, TotalsGrow, AllMembers, SMTT(30)
<1>2. saver'[x].before \subseteq recorded'
  BY <1>0, <1>1, Zenon DEF SaverMove, Found
<1>3. saver[x].pc = "drain" /\ saver[x].todo = {} => \A s \in saver[x].before : InTotals(s)
  BY NobodyAssumption, SMTT(30) DEF Found, Reached, LockInv, HandInv, SaverInv
<1>4. ASSUME saver'[x].pc \in {"load", "compare", "save", "clone"}
      PROVE  \A s \in saver'[x].before : InTotals(s)'
  BY <1>0, <1>1, <1>3, <1>4, Zenon DEF SaverMove, Found
<1>5. ASSUME saver'[x].pc = "write" PROVE saver'[x].before \subseteq All(saver'[x].copy)
  BY <1>0, <1>5, AllMembers, Zenon DEF SaverMove, Found
<1>6. ASSUME saver'[x].pc \in {"store", "ok"} PROVE saver'[x].before \subseteq All(disk')
  <2>1. saver[x].pc = "compare" /\ saver[x].gen = written => saver[x].before \subseteq All(disk)
    BY <1>0 DEF Covers
  <2> QED
    BY <1>0, <1>1, <1>6, <2>1, Zenon DEF SaverMove, Found
<1> QED
  BY <1>2, <1>4, <1>5, <1>6, ReachedKept, Zenon DEF Found

\* The samples of the totals that the generation accounts for, when nobody
\* who added some has still to increase it.
Uncounted == {rec[r].sample : r \in {q \in Recorders : rec[q].pc = "count"}}
Counted == {s \in Samples : InTotals(s) /\ s \notin Uncounted}
Quiet == (\A r \in Recorders : rec[r].pc # "bump") /\ (\A x \in Savers : saver[x].pc # "bump")

GenInv ==
  /\ written <= changes
  /\ \A y \in Savers : saver[y].pc \in {"compare", "clone", "write", "store"}
                         => saver[y].gen <= changes
  /\ Quiet => Covers(Counted, changes, saver, disk, written)
  /\ \A x \in Savers : saver[x].pc = "load"
                         => Covers(saver[x].before, changes, saver, disk, written)
  /\ \A x \in Savers : saver[x].pc = "compare"
                         => Covers(saver[x].before, saver[x].gen, saver, disk, written)

\* Who increases the generation of the totals makes all claims about the new
\* one empty; every other step leaves the samples that count alone.
LEMMA CountedKept ==
  ASSUME LockInv, [LedgerNext]_ledgerVars
  PROVE  changes' = changes + 1 \/ (Quiet' => Quiet /\ Counted' \subseteq Counted)
<1> USE DEF node, totals, save, samples
<1>0. /\ rec \in [Recorders -> CallType] /\ saver \in [Savers -> SaverType]
      /\ nodeHistory \in TotalsType
  BY DEF LockInv, LedgerTypeOK
<1>1. ASSUME UNCHANGED nodeHistory,
             \A r \in Recorders : /\ rec'[r].pc = "count" <=> rec[r].pc = "count"
                                  /\ rec[r].pc = "count" => rec'[r].sample = rec[r].sample
                                  /\ rec[r].pc = "bump" => rec'[r].pc = "bump",
             \A x \in Savers : saver[x].pc = "bump" => saver'[x].pc = "bump"
      PROVE  Quiet' => Quiet /\ Counted' \subseteq Counted
  BY <1>1 DEF Quiet, Counted, Uncounted, InTotals
<1>2. ASSUME NEW t \in Targets, Turn(t) PROVE Quiet' => Quiet /\ Counted' \subseteq Counted
  <2>1. \A r \in Recorders : rec'[r].pc = rec[r].pc /\ rec'[r].sample = rec[r].sample
    BY <1>0, <1>2 DEF Turn, CallType
  <2> QED
    BY <1>1, <1>2, <2>1 DEF Turn
<1>3. ASSUME TurnEnds \/ UNCHANGED ledgerVars PROVE Quiet' => Quiet /\ Counted' \subseteq Counted
  BY <1>1, <1>3 DEF TurnEnds, ledgerVars
<1>4. ASSUME Merge PROVE ~Quiet'
  BY <1>0, <1>4 DEF Merge, Merging, Quiet, CallType, SaverType
<1>5. ASSUME Bump PROVE changes' = changes + 1
  BY <1>5 DEF Bump
<1>6. ASSUME NEW r \in Recorders, RecorderStep(r)
      PROVE  changes' = changes + 1 \/ (Quiet' => Quiet /\ Counted' \subseteq Counted)
  <2>1. CASE CountDirect(r)
    BY <2>1 DEF CountDirect
  <2>2. CASE PostDirect(r)
    <3>1. \A q \in Recorders : /\ q # r => rec'[q] = rec[q]
                               /\ q = r => rec'[q].pc = "count" /\ rec'[q].sample = rec[r].sample
      BY <1>0, <2>2 DEF PostDirect, CallType
    <3>2. \A s : InTotals(s)' => InTotals(s) \/ s = rec[r].sample
      BY <1>0, <2>2 DEF PostDirect, InTotals, TotalsType
    <3>3. \A s \in Uncounted : s \in Uncounted'
      BY <2>2, <3>1 DEF Uncounted, PostDirect
    <3>4. rec[r].sample \in Uncounted'
      BY <3>1 DEF Uncounted
    <3>5. Quiet' => Quiet
      BY <2>2, <3>1 DEF Quiet, PostDirect
    <3> QED
      BY <3>2, <3>3, <3>4, <3>5 DEF Counted
  <2>3. CASE ~CountDirect(r) /\ ~PostDirect(r)
    <3>1. UNCHANGED <<nodeHistory, saver>> /\ \A q \in Recorders : q # r => rec'[q] = rec[q]
      BY <1>0, <1>6, <2>3, SMTT(30) DEF RecorderStep, RecordAt, RecordDirect, Bind, Push,
          AddSample, Close, Retire, Unlist
    <3>2. rec[r].pc \notin {"count", "bump"} /\ rec'[r].pc # "count"
      <4>1. ASSUME NEW d \in Days, RecordAt(r, d) \/ RecordDirect(r, d)
            PROVE  rec[r].pc \notin {"count", "bump"} /\ rec'[r].pc # "count"
        BY <1>0, <4>1, SMTT(30) DEF RecordAt, RecordDirect
      <4>2. ASSUME Bind(r) PROVE rec[r].pc \notin {"count", "bump"} /\ rec'[r].pc # "count"
        BY <1>0, <4>2 DEF Bind, CallType
      <4>3. ASSUME Push(r) \/ AddSample(r)
            PROVE  rec[r].pc \notin {"count", "bump"} /\ rec'[r].pc # "count"
        BY <1>0, <4>3 DEF Push, AddSample, NoCall, CallType
      <4>4. ASSUME Close(r) \/ Unlist(r)
            PROVE  rec[r].pc \notin {"count", "bump"} /\ rec'[r].pc # "count"
        BY <1>0, <4>4 DEF Close, Unlist, CallType
      <4>5. ASSUME Retire(r) PROVE rec[r].pc \notin {"count", "bump"} /\ rec'[r].pc # "count"
        BY <1>0, <4>5 DEF Retire, AfterSwap, CallType
      <4> QED
        BY <1>6, <2>3, <4>1, <4>2, <4>3, <4>4, <4>5, SMTT(30) DEF RecorderStep
    <3> QED
      BY <1>1, <3>1, <3>2
  <2> QED
    BY <2>1, <2>2, <2>3
<1>7. ASSUME NEW x \in Savers, SaverStep(x) PROVE Quiet' => Quiet /\ Counted' \subseteq Counted
  <2>1. UNCHANGED <<rec, nodeHistory>> /\ saver[x].pc # "bump"
    BY <1>7, ZenonT(30) DEF SaverStep, ReadLedger, Drain, MergePending, Drained, Load, Compare,
        SaveLock, Clone, Write, Store
  <2> QED
    BY <1>1, <1>7, <2>1, SaverMoves, SMTT(30)
<1> QED
  BY <1>2, <1>3, <1>4, <1>5, <1>6, <1>7 DEF LedgerNext

\* A saver that compares generations or acknowledges one speaks of totals that
\* held what it covers: inductive, on top of the others.
LEMMA GenKept ==
  ASSUME LockInv, LockInv', SampleInv, Growing, GenInv, \A x \in Savers : Found(x),
         [LedgerNext]_ledgerVars
  PROVE  GenInv'
<1>0. /\ \A y \in Savers : SaverMove(y)
      /\ changes \in Nat /\ changes' \in Nat /\ changes <= changes'
      /\ written \in Nat /\ written' \in Nat
      /\ \A y \in Savers : saver[y].gen \in Nat /\ saver'[y].gen \in Nat
  BY SaveMoves, TotalsGrow, Zenon DEF LockInv, LedgerTypeOK, SaverType
<1>1. written' <= changes
  BY <1>0, SaveMoves, Zenon DEF GenInv
<1>2. ASSUME NEW y \in Savers, saver'[y].pc \in {"compare", "clone", "write", "store"}
      PROVE  saver'[y].gen <= changes
  BY <1>0, <1>2, SMTT(30) DEF SaverMove, GenInv
<1>3. ASSUME NEW T, NEW g \in Nat, T \subseteq All(nodeHistory),
             Covers(T, g, saver, disk, written)
      PROVE  Covers(T, g, saver', disk', written')
  BY <1>3, CoversKept
<1>4. ASSUME Quiet' PROVE Covers(Counted', changes', saver', disk', written')
  <2>1. CASE changes' = changes + 1
    <3>1. ~(written' >= changes') /\ \A y \in Savers : saver'[y].pc \in {"write", "store"}
                                                         => ~(saver'[y].gen >= changes')
      BY <1>0, <1>1, <1>2, <2>1
    <3> QED
      BY <3>1 DEF Covers
  <2>2. CASE Quiet /\ Counted' \subseteq Counted
    <3>1. Counted \subseteq All(nodeHistory)
      BY AllMembers DEF Counted
    <3>2. Covers(Counted, changes, saver', disk', written')
      BY <1>0, <1>3, <2>2, <3>1, SMTT(30) DEF GenInv
    <3> QED
      BY <1>0, <2>2, <3>2, CoversLess
  <2> QED
    BY <1>4, <2>1, <2>2, CountedKept
<1>5. ASSUME NEW x \in Savers, saver'[x].pc \in {"load", "compare"}, saver[x].pc # "compare"
      PROVE  /\ saver'[x].before = saver[x].before /\ saver[x].before \subseteq All(nodeHistory)
             /\ Covers(saver[x].before, changes, saver, disk, written)
  <2>1. saver'[x].before = saver[x].before /\ saver[x].before \subseteq recorded
    BY <1>0, <1>5, Zenon DEF SaverMove, Found
  <2>2. CASE saver[x].pc = "load"
    BY <2>1, <2>2, AllMembers, Zenon DEF Found, GenInv
  <2>3. CASE saver[x].pc = "drain" /\ saver[x].todo = {}
    <3>1. mutex = x /\ hand.bytes = {}
      BY <2>3, NobodyAssumption, SMTT(30) DEF LockInv, SaverInv, HandInv
    <3>2. Quiet
      BY <2>3, <3>1, NobodyAssumption DEF Quiet, LockInv, SaverInv, RecorderInv
    <3>3. \A s \in saver[x].before : InTotals(s)
      BY <2>3, <3>1 DEF Found, Reached
    <3>4. \A s \in Uncounted : s \notin recorded
      BY SMTT(30) DEF Uncounted, SampleInv, CallInv, LockInv, RecorderInv, CallOK, Samples
    <3>5. saver[x].before \subseteq Counted
      BY <2>1, <3>3, <3>4, Zenon DEF Counted, LockInv, LedgerTypeOK
    <3>6. Covers(Counted, changes, saver, disk, written)
      BY <3>2, Zenon DEF GenInv
    <3> QED
      BY <1>0, <2>1, <3>3, <3>5, <3>6, CoversLess, AllMembers
  <2> QED
    BY <1>0, <1>5, <2>2, <2>3, ZenonT(30) DEF SaverMove
<1>6. ASSUME NEW x \in Savers, saver'[x].pc = "load"
      PROVE  Covers(saver'[x].before, changes', saver', disk', written')
  <2>1. saver[x].pc # "compare"
    BY <1>0, <1>6, SMTT(30) DEF SaverMove
  <2>2. Covers(saver[x].before, changes, saver', disk', written')
    BY <1>0, <1>3, <1>5, <1>6, <2>1, Zenon
  <2> QED
    BY <1>0, <1>5, <1>6, <2>1, <2>2, CoversLess, SMTT(30)
<1>7. ASSUME NEW x \in Savers, saver'[x].pc = "compare"
      PROVE  Covers(saver'[x].before, saver'[x].gen, saver', disk', written')
  <2>1. CASE saver[x].pc = "compare"
    <3>1. /\ saver'[x].before = saver[x].before /\ saver'[x].gen = saver[x].gen
          /\ saver[x].before \subseteq All(nodeHistory)
      BY <1>0, <1>7, <2>1, AllMembers, ZenonT(30) DEF SaverMove, Found
    <3> QED
      BY <1>0, <1>3, <2>1, <3>1, Zenon DEF GenInv
  <2>2. CASE saver[x].pc # "compare"
    <3>1. saver'[x].gen = changes
      BY <1>0, <1>7, <2>2, Zenon DEF SaverMove
    <3> QED
      BY <1>0, <1>3, <1>5, <1>7, <2>2, <3>1, Zenon
  <2> QED
    BY <2>1, <2>2, Zenon
<1> QED
  BY <1>0, <1>1, <1>2, <1>4, <1>6, <1>7, SMTT(30) DEF GenInv

\* "a snapshot/flush cannot overtake a drain which swapped bytes but has not
\* merged them yet": when flush() returns Ok, or the maintenance thread finds
\* the generation it saved, the file holds every sample recorded before the
\* call, for any number of threads that save and of streams that go on.
THEOREM FlushIsComplete == LedgerSpec => []FlushCovers
<1> DEFINE IInv == LockInv /\ SampleInv /\ Growing /\ GenInv /\ \A x \in Savers : Found(x)
<1>1. LedgerInit => IInv
  <2> SUFFICES ASSUME LedgerInit PROVE IInv
    OBVIOUS
  <2>1. /\ disk = NoTotals /\ nodeHistory = NoTotals /\ written = 0 /\ changes = 1
        /\ \A x \in Savers : saver[x].pc = "idle" /\ saver[x].before = {}
    BY DEF LedgerInit, NoSave
  <2>2. Growing /\ GenInv
    BY <2>1, SMTT(30) DEF Growing, GenInv, Covers
  <2>3. \A x \in Savers : Found(x)
    BY <2>1 DEF Found
  <2> QED
    BY <2>2, <2>3, SamplesInit
<1>2. IInv /\ [LedgerNext]_ledgerVars => IInv'
  <2> SUFFICES ASSUME IInv, [LedgerNext]_ledgerVars PROVE IInv'
    OBVIOUS
  <2>1. LockInv' /\ SampleInv'
    BY LockKept, SamplesKept
  <2>2. Growing' /\ GenInv'
    BY <2>1, GrowingKept, GenKept
  <2>3. ASSUME NEW x \in Savers PROVE Found(x)'
    BY <2>1, FoundKept, SMTT(30) DEF GenInv
  <2> QED
    BY <2>1, <2>2, <2>3
<1>3. IInv => FlushCovers
  BY SMTT(30) DEF Found, FlushCovers
<1> QED
  BY <1>1, <1>2, <1>3, PTL DEF LedgerSpec
=============================================================================
