---------------------------- MODULE UpdateProofs ----------------------------
(***************************************************************************)
(* Proofs about the update transaction: whichever step of the update, the  *)
(* rollback or the recovery a kill or a power cut ends, the installation   *)
(* is of one version when no transaction is open, and it has the settings  *)
(* that users were told are saved.                                         *)
(***************************************************************************)
EXTENDS UpdateTransaction, TLAPS

\* Processes may die anywhere, inside a restore too.  Left out are the two windows
\* of update.sh in which a signal or a failing rollback meets no marker: right after
\* "committed" is made while the rollback trap is still set, and in a rollback that
\* began before "prepared" was made.
Undisturbed == Disturbances \subseteq {"restore"}

PcOf(p) == proc[p].pc
Undoing == {"unpack", "unpacking", "external", "check"}
Whole == program = hooks /\ program # Mixed /\ config # Mixed
OwnedBy(p) == "owner" \in tx.files /\ tx.owner = p /\ tx.boot = boot
\* p's directory, with the backup in it.
Open(p) == tx # Nothing /\ OwnedBy(p) /\ "backup" \in tx.files
\* The marker that makes recovery restore the backup.
Half == "prepared" \in tx.files /\ "committed" \notin tx.files

\* A backup is of one version, with every acknowledged save in it.
BackupSound ==
  tx # Nothing /\ "backup" \in tx.files =>
    /\ "owner" \in tx.files /\ "external" \in tx.files
    /\ tx.program = tx.hooks /\ tx.program # Mixed /\ tx.config # Mixed
    /\ ~saving /\ tx.config >= saved["settings"]

\* The markers are made in this order.
MarkersOrdered ==
  tx # Nothing => /\ "prepared" \in tx.files => "backup" \in tx.files
                  /\ "committed" \in tx.files => "prepared" \in tx.files

\* Where recovery would drop the directory, there is nothing to restore.
DroppedIsWhole == (tx = Nothing \/ ~Half) /\ PcOf(Worker) \notin Undoing => Whole

\* What the worker finds at each of its steps.
WorkerFinds ==
  LET s == PcOf(Worker) IN
  /\ s \notin {"drop", "lock"}
  /\ s = "own" => (tx # Nothing => tx.files = {})
  /\ s \in {"barrier", "backup"} => (tx # Nothing => OwnedBy(Worker) /\ tx.files = {"owner"})
  /\ s = "backup" => (tx # Nothing => ~saving)
  /\ s \in Replacing \cup Undoing \cup {"rollback", "cleanup", "claim"} => Open(Worker)
  /\ s = "prepare" => "prepared" \notin tx.files
  /\ s \in {"verify", "replace", "replacing", "integrate", "health"} => Half /\ config # Mixed
  /\ s \in {"verify", "replace"} => Whole
  /\ s \in {"integrate", "health"} => program = updates
  /\ s = "health" => hooks = updates
  /\ s \in {"committed", "cleanup"} => "committed" \in tx.files
  /\ s \in Undoing \cup {"rollback", "claim"} => "committed" \notin tx.files
  /\ s = "unlock" => (tx # Nothing => Open(Worker))

\* A recovery acts on a directory that no live worker owns.
RecoveryFinds ==
  \A r \in Recoverers :
    /\ PcOf(r) \in {"idle", "drop", "lock"} \cup Restoring
    /\ PcOf(r) = "drop" => /\ PcOf(Worker) \in {"idle", "mkdir"} \cup Preparing
                           /\ tx # Nothing => ~Half
    /\ PcOf(r) \in {"lock", "claim"} => /\ PcOf(Worker) \in {"idle", "mkdir"}
                                        /\ tx # Nothing => Half
    /\ PcOf(r) \in Undoing => /\ PcOf(Worker) \in {"idle", "mkdir"}
                              /\ Open(r) /\ Half

\* One process restores, under the lock.
RestoreAlone ==
  \A p \in Procs : PcOf(p) \in Restoring =>
    lock /\ \A q \in Procs : q # p => PcOf(q) \notin Restoring

\* How far a restore has come.
Restored ==
  \A p \in Procs :
    /\ PcOf(p) \in {"external", "check"} => program = tx.program /\ config # Mixed
    /\ PcOf(p) = "check" => hooks = tx.hooks

SavesThere == config # Mixed => config >= saved["settings"]

UpdateInv ==
  /\ UpdateTypeOK /\ BackupSound /\ MarkersOrdered /\ DroppedIsWhole /\ WorkerFinds
  /\ RecoveryFinds /\ RestoreAlone /\ Restored /\ SavesThere

-----------------------------------------------------------------------------
\* The installation before the first update.
LEMMA UpdateInvInit == UpdateInit => UpdateInv
<1> SUFFICES ASSUME UpdateInit PROVE UpdateInv
  OBVIOUS
<1>1. 0 \in Versions /\ 0 \in 0 .. MaxSaves /\ 0 \in 0 .. MaxMishaps /\ 0 # Mixed
  BY UpdateBounds, MixedApart DEF Versions
<1>2. \A p \in Procs : PcOf(p) = "idle"
  BY DEF UpdateInit, PcOf
<1>3. proc \in [Procs -> [pc : Steps, hash : Settings]]
  <2>1. [pc |-> "idle", hash |-> 0] \in [pc : Steps, hash : Settings]
    BY <1>1 DEF Steps, Settings
  <2> QED
    BY <2>1 DEF UpdateInit
<1>4. UpdateTypeOK
  BY <1>1, <1>3, Zenon DEF UpdateTypeOK, UpdateInit, Versions, Settings
<1>5. Worker \in Procs /\ Recoverers \subseteq Procs
  BY DEF Procs
<1>6. saved["settings"] = 0 /\ Whole
  BY <1>1 DEF UpdateInit, Whole
<1>7. WorkerFinds
  BY <1>2, <1>5 DEF WorkerFinds, Replacing, Undoing
<1>8. RecoveryFinds /\ RestoreAlone /\ Restored
  BY <1>2, <1>5 DEF RecoveryFinds, RestoreAlone, Restored, Undoing, Restoring
<1> QED
  BY <1>4, <1>6, <1>7, <1>8 DEF UpdateInv, UpdateInit, BackupSound, MarkersOrdered,
      DroppedIsWhole, SavesThere

\* What a step of p to s changes in the table of processes.
LEMMA Moves ==
  ASSUME UpdateTypeOK, NEW p \in Procs, NEW s \in Steps, Goto(p, s)
  PROVE  /\ proc' \in [Procs -> [pc : Steps, hash : Settings]]
         /\ PcOf(p)' = s
         /\ \A q \in Procs : q # p => PcOf(q)' = PcOf(q)
<1> DEFINE States == [pc : Steps, hash : Settings]
<1>1. proc \in [Procs -> States] /\ proc[p] \in States
  BY DEF UpdateTypeOK
<1>2. [proc[p] EXCEPT !.pc = s] \in States /\ [proc[p] EXCEPT !.pc = s].pc = s
  BY <1>1
<1> HIDE DEF States
<1>3. proc' = [proc EXCEPT ![p] = [proc[p] EXCEPT !.pc = s]]
  BY DEF Goto
<1>4. proc' \in [Procs -> States]
  BY <1>1, <1>2, <1>3
<1> QED
  BY <1>1, <1>2, <1>3, <1>4 DEF PcOf, States

\* The directory after a restore has put its owner into it.
LEMMA ClaimedFacts ==
  ASSUME UpdateTypeOK, tx # Nothing, NEW p \in Procs
  PROVE  /\ Claimed(p) \in Directories /\ Claimed(p) # Nothing
         /\ Claimed(p).files = tx.files \cup {"owner"} /\ Claimed(p).owner = p /\ Claimed(p).boot = boot
         /\ Claimed(p).program = tx.program /\ Claimed(p).hooks = tx.hooks /\ Claimed(p).config = tx.config
<1>1. tx \in Directories /\ boot \in Nat
  BY DEF UpdateTypeOK
<1>2. /\ Claimed(p).files = tx.files \cup {"owner"} /\ Claimed(p).owner = p /\ Claimed(p).boot = boot
      /\ Claimed(p).program = tx.program /\ Claimed(p).hooks = tx.hooks /\ Claimed(p).config = tx.config
  BY <1>1 DEF Claimed, Directories
<1>3. tx.files \cup {"owner"} \in SUBSET TxFiles
  BY <1>1 DEF Directories, TxFiles
<1>4. Claimed(p) \in Directories
  BY <1>1, <1>3, Zenon DEF Claimed, Directories
<1> QED
  BY <1>2, <1>4, NoDirectory

\* What touching a marker f changes in the directory.
LEMMA MarkedFacts ==
  ASSUME UpdateTypeOK, tx # Nothing, NEW f \in TxFiles, tx' = [tx EXCEPT !.files = @ \cup {f}]
  PROVE  /\ tx' \in Directories /\ tx' # Nothing
         /\ tx'.files = tx.files \cup {f} /\ tx'.owner = tx.owner /\ tx'.boot = tx.boot
         /\ tx'.program = tx.program /\ tx'.hooks = tx.hooks /\ tx'.config = tx.config
<1>1. tx \in Directories
  BY DEF UpdateTypeOK
<1> QED
  BY <1>1, NoDirectory DEF Directories

\* A step that enters no restore, or stays in one, leaves it alone.
LEMMA AloneKept ==
  ASSUME UpdateTypeOK, RestoreAlone, NEW p \in Procs, NEW s \in Steps, Goto(p, s), UNCHANGED lock,
         s \in Restoring => PcOf(p) \in Restoring
  PROVE  RestoreAlone'
<1>1. PcOf(p)' = s /\ \A q \in Procs : q # p => PcOf(q)' = PcOf(q)
  BY Moves
<1> QED
  BY <1>1 DEF RestoreAlone

\* No recovery acts while the worker is past its preparation.
LEMMA WorkerActs ==
  ASSUME UpdateInv, NEW s \in Steps, Goto(Worker, s),
         PcOf(Worker) \notin {"idle", "mkdir"} \cup Preparing
  PROVE  /\ \A r \in Recoverers : PcOf(r)' \in {"idle", "unlock"}
         /\ RecoveryFinds'
<1>1. Worker \in Procs /\ \A r \in Recoverers : r \in Procs /\ r # Worker
  BY ProcsApart DEF Procs
<1>2. \A r \in Recoverers : PcOf(r)' = PcOf(r)
  BY <1>1, Moves DEF UpdateInv
<1>3. \A r \in Recoverers : PcOf(r) \in {"idle", "unlock"}
  BY DEF UpdateInv, RecoveryFinds, Restoring, Undoing
<1>4. \A r \in Recoverers : PcOf(r)' \in {"idle", "unlock"}
  BY <1>2, <1>3
<1> QED
  BY <1>4 DEF RecoveryFinds, Restoring, Undoing

\* Settings saves and downloads beside the update.
LEMMA SavesUpdateInv ==
  ASSUME UpdateInv, SaveBegins \/ SaveEnds \/ DownloadCommits
  PROVE  UpdateInv'
<1>1. /\ UNCHANGED <<tx, lock, program, hooks, boot, proc, updates, mishaps>>
      /\ saving' => saving \/ tx = Nothing
  BY DEF SaveBegins, SaveEnds, DownloadCommits, installed
<1>2. \A p \in Procs : PcOf(p)' = PcOf(p)
  BY <1>1 DEF PcOf
<1>3. config \in Settings /\ saved["settings"] \in 0 .. MaxSaves
      /\ (config # Mixed => config \in 0 .. MaxSaves) /\ saving \in BOOLEAN
  BY DEF UpdateInv, UpdateTypeOK, Settings
<1>4. /\ config' \in Settings /\ saved' \in [{"settings", "download"} -> 0 .. MaxSaves]
      /\ saving' \in BOOLEAN /\ (config' = Mixed <=> config = Mixed)
      /\ SavesThere'
      /\ tx # Nothing /\ "backup" \in tx.files => ~saving /\ ~saving' /\ saved'["settings"] = saved["settings"]
  <2>0. /\ saved \in [{"settings", "download"} -> 0 .. MaxSaves] /\ SavesThere
        /\ tx # Nothing /\ "backup" \in tx.files => ~saving
    BY DEF UpdateInv, UpdateTypeOK, BackupSound
  <2>1. CASE UNCHANGED <<config, saved>>
    BY <1>1, <1>3, <2>0, <2>1, Zenon DEF SavesThere, SaveBegins, SaveEnds, DownloadCommits
  <2>2. ASSUME NEW k \in {"settings", "download"}, config # Mixed, config < MaxSaves,
               config' = config + 1, saved' = [saved EXCEPT ![k] = config + 1]
        PROVE  /\ config' \in Settings /\ saved' \in [{"settings", "download"} -> 0 .. MaxSaves]
               /\ config' # Mixed /\ SavesThere' /\ (k = "download" => saved'["settings"] = saved["settings"])
    <3>1. config + 1 \in 0 .. MaxSaves /\ config + 1 # Mixed
      BY <1>3, <2>2, UpdateBounds, MixedApart
    <3>2. saved'["settings"] \in {saved["settings"], config + 1}
      BY <2>0, <2>2
    <3> QED
      BY <1>3, <2>0, <2>2, <3>1, <3>2 DEF Settings, SavesThere
  <2>3. CASE SaveEnds /\ ~UNCHANGED <<config, saved>>
    BY <1>1, <1>3, <2>0, <2>2, <2>3, Zenon DEF SaveEnds
  <2>4. CASE DownloadCommits /\ ~UNCHANGED <<config, saved>>
    BY <1>1, <1>3, <2>0, <2>2, <2>4 DEF DownloadCommits
  <2>5. SaveBegins => UNCHANGED <<config, saved>>
    BY DEF SaveBegins, installed
  <2> QED
    BY <2>1, <2>3, <2>4, <2>5, Zenon
<1>5. UpdateTypeOK'
  BY <1>1, <1>4 DEF UpdateInv, UpdateTypeOK
<1>6. BackupSound' /\ MarkersOrdered'
  BY <1>1, <1>4 DEF UpdateInv, BackupSound, MarkersOrdered
<1>7. /\ Whole' <=> Whole
      /\ Half' <=> Half
      /\ \A p \in Procs : Open(p)' <=> Open(p)
      /\ \A p \in Procs : OwnedBy(p)' <=> OwnedBy(p)
  BY <1>1, <1>4 DEF Whole, Half, Open, OwnedBy
<1>8. Worker \in Procs /\ \A r \in Recoverers : r \in Procs
  BY DEF Procs
<1>9. DroppedIsWhole' /\ RecoveryFinds' /\ RestoreAlone' /\ Restored'
  BY <1>1, <1>2, <1>4, <1>7, <1>8 DEF UpdateInv, DroppedIsWhole, RecoveryFinds, RestoreAlone,
      Restored
<1>10. WorkerFinds'
  BY <1>1, <1>2, <1>4, <1>7, <1>8 DEF UpdateInv, WorkerFinds
<1> QED
  BY <1>4, <1>5, <1>6, <1>9, <1>10 DEF UpdateInv

\* What the steps of a preparation share: the directory has no marker yet.
LEMMA PreparationKeeps ==
  ASSUME UpdateInv, NEW s \in {"idle", "mkdir"} \cup Preparing,
         PcOf(Worker) \in {"idle", "mkdir"} \cup Preparing, PcOf(Worker)' = s,
         \A r \in Recoverers : PcOf(r)' = PcOf(r),
         UNCHANGED <<lock, program, hooks, config, saved, saving, boot>>, UpdateTypeOK',
         \/ tx' = tx /\ (s \in Preparing => PcOf(Worker) \in Preparing)
         \/ /\ PcOf(Worker) \in Preparing \/ (tx = Nothing /\ RecoveriesActed)
            /\ tx' # Nothing => tx'.files \subseteq {"owner"}
  PROVE  /\ BackupSound' /\ MarkersOrdered' /\ DroppedIsWhole' /\ RecoveryFinds'
         /\ RestoreAlone' /\ Restored' /\ SavesThere'
<1>1. Worker \in Procs /\ Procs = Recoverers \cup {Worker}
  BY DEF Procs
<1>2. Whole' <=> Whole
  BY DEF Whole
<1>3. s \notin Undoing /\ s \notin Restoring /\ PcOf(Worker) \notin Undoing /\ PcOf(Worker) \notin Restoring
  BY DEF Undoing, Restoring, Preparing
<1>4. RestoreAlone' /\ SavesThere'
  BY <1>1, <1>3 DEF UpdateInv, RestoreAlone, SavesThere
<1>5. CASE tx' = tx
  <2>1. (Half' <=> Half) /\ \A p \in Procs : Open(p)' <=> Open(p)
    BY <1>5 DEF Half, Open, OwnedBy
  <2>2. BackupSound' /\ MarkersOrdered'
    BY <1>5 DEF UpdateInv, BackupSound, MarkersOrdered
  <2>3. DroppedIsWhole'
    BY <1>2, <1>3, <1>5, <2>1 DEF UpdateInv, DroppedIsWhole
  <2>4. Restored'
    BY <1>1, <1>3, <1>5 DEF UpdateInv, Restored, Undoing
  <2>5. RecoveryFinds'
    <3>1. \A r \in Recoverers : PcOf(r) \in {"lock", "claim"} \cup Undoing => s \in {"idle", "mkdir"}
      BY <1>5 DEF UpdateInv, RecoveryFinds, Preparing, RecoveriesActed, PcOf, Open
    <3> QED
      BY <1>1, <1>5, <2>1, <3>1 DEF UpdateInv, RecoveryFinds
  <2> QED
    BY <1>4, <2>2, <2>3, <2>4, <2>5
<1>6. CASE tx' # tx
  <2>1. \A r \in Recoverers : PcOf(r) \notin {"lock", "claim"} \cup Undoing
    BY <1>6 DEF UpdateInv, RecoveryFinds, RecoveriesActed, PcOf, Open, Preparing
  <2>2. Half' => tx' = Nothing
    BY <1>6 DEF Half
  <2>3. tx = Nothing \/ ~Half
    BY <1>6 DEF UpdateInv, WorkerFinds, Preparing, Half
  <2>4. Whole
    BY <1>3, <2>3 DEF UpdateInv, DroppedIsWhole
  <2>5. BackupSound' /\ MarkersOrdered' /\ DroppedIsWhole'
    BY <1>2, <1>6, <2>4 DEF BackupSound, MarkersOrdered, DroppedIsWhole
  <2>6. Restored'
    BY <1>1, <1>3, <2>1 DEF Restored, Undoing
  <2>7. RecoveryFinds'
    BY <2>1, <2>2 DEF UpdateInv, RecoveryFinds
  <2> QED
    BY <1>4, <2>5, <2>6, <2>7
<1> QED
  BY <1>5, <1>6

\* The worker up to the barrier: directory, owner, wait for a save under way.
LEMMA PreparationUpdateInv ==
  ASSUME UpdateInv,
         \/ CheckConfig(Worker) \/ MakeTx(Worker) \/ ClaimTx(Worker) \/ Barrier(Worker) \/ PreparationFails(Worker)
  PROVE  UpdateInv'
<1>1. Worker \in Procs /\ (\A r \in Recoverers : r \in Procs /\ r # Worker) /\ UpdateTypeOK
      /\ tx \in Directories \cup {Nothing} /\ boot \in Nat
  BY ProcsApart DEF Procs, UpdateInv, UpdateTypeOK
<1>2. UNCHANGED <<lock, program, hooks, config, saved, saving, boot, mishaps>>
  BY DEF CheckConfig, MakeTx, ClaimTx, Barrier, PreparationFails, installed, others
<1>3. SUFFICES
        /\ UpdateTypeOK' /\ WorkerFinds' /\ (\A r \in Recoverers : PcOf(r)' = PcOf(r))
        /\ PcOf(Worker) \in {"idle", "mkdir"} \cup Preparing
        /\ PcOf(Worker)' \in {"idle", "mkdir"} \cup Preparing
        /\ \/ tx' = tx /\ (PcOf(Worker)' \in Preparing => PcOf(Worker) \in Preparing)
           \/ /\ PcOf(Worker) \in Preparing \/ (tx = Nothing /\ RecoveriesActed)
              /\ tx' # Nothing => tx'.files \subseteq {"owner"}
  BY <1>2, PreparationKeeps, Zenon DEF UpdateInv
<1>4. ASSUME NEW s \in {"idle", "mkdir"} \cup Preparing, Goto(Worker, s), UNCHANGED updates,
             tx' \in Directories \cup {Nothing}
      PROVE  UpdateTypeOK' /\ PcOf(Worker)' = s /\ \A r \in Recoverers : PcOf(r)' = PcOf(r)
  <2>1. s \in Steps
    BY DEF Steps
  <2>2. /\ proc' \in [Procs -> [pc : Steps, hash : Settings]] /\ PcOf(Worker)' = s
        /\ \A q \in Procs : q # Worker => PcOf(q)' = PcOf(q)
    BY <1>1, <1>4, <2>1, Moves
  <2> QED
    BY <1>1, <1>2, <1>4, <2>2 DEF UpdateTypeOK
<1>5. CASE CheckConfig(Worker)
  <2>1. /\ PcOf(Worker) = "idle" /\ tx' = tx /\ updates' = updates + 1 /\ updates < MaxUpdates
        /\ proc' = [proc EXCEPT ![Worker] = [pc |-> "mkdir", hash |-> config]]
    BY <1>5 DEF CheckConfig, At, PcOf
  <2>2. [pc |-> "mkdir", hash |-> config] \in [pc : Steps, hash : Settings]
    BY <1>1 DEF Steps, UpdateTypeOK
  <2>3. /\ proc' \in [Procs -> [pc : Steps, hash : Settings]] /\ PcOf(Worker)' = "mkdir"
        /\ \A r \in Recoverers : PcOf(r)' = PcOf(r)
    BY <1>1, <2>1, <2>2 DEF UpdateTypeOK, PcOf
  <2>4. updates' \in 0 .. MaxUpdates
    BY <1>1, <2>1, UpdateBounds DEF UpdateTypeOK
  <2>5. UpdateTypeOK'
    BY <1>1, <1>2, <2>1, <2>3, <2>4 DEF UpdateTypeOK
  <2>6. WorkerFinds'
    BY <2>3 DEF WorkerFinds, Replacing, Undoing
  <2> QED
    BY <2>1, <2>3, <2>5, <2>6 DEF Preparing
<1>6. CASE MakeTx(Worker) /\ tx = Nothing
  <2>1. /\ PcOf(Worker) = "mkdir" /\ RecoveriesActed /\ Goto(Worker, "own") /\ UNCHANGED updates
        /\ tx' = [files |-> {}, owner |-> Nothing, boot |-> boot,
                  program |-> program, hooks |-> hooks, config |-> config]
    BY <1>6 DEF MakeTx, At, PcOf
  <2>2. tx' \in Directories /\ tx'.files = {}
    BY <1>1, <2>1 DEF Directories, UpdateTypeOK
  <2>3. UpdateTypeOK' /\ PcOf(Worker)' = "own" /\ \A r \in Recoverers : PcOf(r)' = PcOf(r)
    BY <1>4, <2>1, <2>2 DEF Preparing
  <2>4. WorkerFinds'
    BY <2>2, <2>3 DEF WorkerFinds, Replacing, Undoing
  <2> QED
    BY <1>6, <2>1, <2>2, <2>3, <2>4 DEF Preparing
<1>7. CASE (MakeTx(Worker) /\ tx # Nothing) \/ (ClaimTx(Worker) /\ tx = Nothing) \/ PreparationFails(Worker)
  <2>1. /\ PcOf(Worker) \in {"mkdir"} \cup Preparing /\ Goto(Worker, "idle") /\ UNCHANGED updates
        /\ tx' = tx \/ (PcOf(Worker) \in Preparing /\ tx' = Nothing)
    BY <1>7 DEF MakeTx, ClaimTx, PreparationFails, At, PcOf, Preparing
  <2>2. UpdateTypeOK' /\ PcOf(Worker)' = "idle" /\ \A r \in Recoverers : PcOf(r)' = PcOf(r)
    BY <1>1, <1>4, <2>1
  <2>3. WorkerFinds'
    BY <2>2 DEF WorkerFinds, Replacing, Undoing
  <2> QED
    BY <2>1, <2>2, <2>3 DEF Preparing
<1>8. CASE ClaimTx(Worker) /\ tx # Nothing
  <2>1. /\ PcOf(Worker) = "own" /\ Goto(Worker, "barrier") /\ UNCHANGED updates /\ tx' = Claimed(Worker)
    BY <1>8 DEF ClaimTx, At, PcOf
  <2>2. tx.files = {}
    BY <1>8, <2>1 DEF UpdateInv, WorkerFinds
  <2>3. tx' \in Directories /\ tx'.files = {"owner"} /\ tx'.owner = Worker /\ tx'.boot = boot
    BY <1>1, <1>8, <2>1, <2>2, ClaimedFacts
  <2>4. UpdateTypeOK' /\ PcOf(Worker)' = "barrier" /\ \A r \in Recoverers : PcOf(r)' = PcOf(r)
    BY <1>4, <2>1, <2>3 DEF Preparing
  <2>5. WorkerFinds'
    BY <1>2, <2>3, <2>4 DEF WorkerFinds, OwnedBy, Replacing, Undoing
  <2> QED
    BY <2>1, <2>3, <2>4, <2>5 DEF Preparing
<1>9. CASE Barrier(Worker)
  <2>1. PcOf(Worker) = "barrier" /\ ~saving /\ Goto(Worker, "backup") /\ UNCHANGED <<updates, tx>>
    BY <1>9 DEF Barrier, At, PcOf
  <2>2. UpdateTypeOK' /\ PcOf(Worker)' = "backup" /\ \A r \in Recoverers : PcOf(r)' = PcOf(r)
    BY <1>1, <1>4, <2>1 DEF Preparing
  <2>3. WorkerFinds'
    BY <1>2, <2>1, <2>2 DEF UpdateInv, WorkerFinds, OwnedBy, Replacing, Undoing
  <2> QED
    BY <2>1, <2>2, <2>3 DEF Preparing
<1> QED
  BY <1>5, <1>6, <1>7, <1>8, <1>9, Zenon

\* What the steps of a replacement share.
LEMMA ReplacementKeeps ==
  ASSUME UpdateInv, NEW s \in Steps, s \notin Restoring, Goto(Worker, s),
         UNCHANGED <<lock, config, saved, saving, boot, updates, mishaps>>,
         PcOf(Worker) \notin {"idle", "mkdir"} \cup Preparing \/ (PcOf(Worker) = "backup" /\ RecoveriesActed),
         tx' \in Directories \cup {Nothing}, program' \in Versions \cup {Mixed}, hooks' \in Versions
  PROVE  /\ UpdateTypeOK' /\ RecoveryFinds' /\ RestoreAlone' /\ Restored' /\ SavesThere'
         /\ PcOf(Worker)' = s
<1>1. Worker \in Procs /\ Procs = Recoverers \cup {Worker} /\ (\A r \in Recoverers : r \in Procs /\ r # Worker)
      /\ UpdateTypeOK
  BY ProcsApart DEF Procs, UpdateInv
<1>2. /\ proc' \in [Procs -> [pc : Steps, hash : Settings]] /\ PcOf(Worker)' = s
      /\ \A r \in Recoverers : PcOf(r)' = PcOf(r)
  BY <1>1, Moves
<1>3. UpdateTypeOK'
  BY <1>1, <1>2 DEF UpdateTypeOK
<1>4. RestoreAlone'
  BY <1>1, AloneKept DEF UpdateInv
<1>5. \A r \in Recoverers : PcOf(r) \in {"idle", "unlock"}
  BY DEF UpdateInv, RecoveryFinds, RecoveriesActed, PcOf, Restoring, Undoing, Preparing
<1>6. RecoveryFinds'
  BY <1>2, <1>5 DEF RecoveryFinds, Restoring, Undoing
<1>7. Restored' /\ SavesThere'
  BY <1>1, <1>2, <1>5 DEF UpdateInv, Restored, SavesThere, Restoring
<1> QED
  BY <1>2, <1>3, <1>4, <1>6, <1>7

\* The backup of program, hooks and settings.
LEMMA BackupUpdateInv == ASSUME UpdateInv, Backup(Worker) PROVE UpdateInv'
<1>1. /\ PcOf(Worker) = "backup" /\ tx # Nothing /\ RecoveriesActed /\ Goto(Worker, "prepare")
      /\ tx' = [tx EXCEPT !.files = @ \cup {"backup", "external"},
                          !.program = program, !.hooks = hooks, !.config = config]
      /\ UNCHANGED <<lock, program, hooks, config, saved, saving, boot, updates, mishaps>>
  BY DEF Backup, At, PcOf, installed, others
<1>2. UpdateTypeOK /\ tx \in Directories /\ "prepare" \in Steps \ Restoring
  BY <1>1 DEF UpdateInv, UpdateTypeOK, Steps, Replacing, Restoring
<1>3. tx.files = {"owner"} /\ OwnedBy(Worker) /\ ~saving
  BY <1>1 DEF UpdateInv, WorkerFinds
<1>4. /\ tx'.files = {"owner", "backup", "external"} /\ tx'.owner = tx.owner /\ tx'.boot = tx.boot
      /\ tx'.program = program /\ tx'.hooks = hooks /\ tx'.config = config
  BY <1>1, <1>2, <1>3 DEF Directories
<1>5. tx' \in Directories
  <2>1. {"owner", "backup", "external"} \in SUBSET TxFiles
    BY DEF TxFiles
  <2> QED
    BY <1>1, <1>2, <1>3, <2>1, Zenon DEF Directories, UpdateTypeOK
<1>6. tx' # Nothing
  BY <1>5, NoDirectory
<1>7. Whole
  BY <1>1, <1>3 DEF UpdateInv, DroppedIsWhole, Half, Undoing
<1>8. /\ UpdateTypeOK' /\ RecoveryFinds' /\ RestoreAlone' /\ Restored' /\ SavesThere'
      /\ PcOf(Worker)' = "prepare"
  BY <1>1, <1>2, <1>5, ReplacementKeeps DEF UpdateTypeOK
<1>9. BackupSound' /\ MarkersOrdered'
  BY <1>1, <1>3, <1>4, <1>7 DEF UpdateInv, BackupSound, MarkersOrdered, Whole, SavesThere
<1>10. DroppedIsWhole'
  BY <1>1, <1>7 DEF DroppedIsWhole, Whole
<1>11. WorkerFinds'
  BY <1>1, <1>3, <1>4, <1>6, <1>8 DEF WorkerFinds, Open, OwnedBy, Undoing
<1> QED
  BY <1>8, <1>9, <1>10, <1>11 DEF UpdateInv

\* The worker from "prepared" to the removal of the directory.
LEMMA ReplacementUpdateInv ==
  ASSUME UpdateInv, Undisturbed,
         \/ Prepare(Worker) \/ Verify(Worker) \/ Replace(Worker) \/ Integrate(Worker)
         \/ CommitUpdate(Worker) \/ UpdateFails(Worker) \/ Cleanup(Worker)
  PROVE  UpdateInv'
<1>1. /\ UNCHANGED <<lock, config, saved, saving, boot, updates, mishaps>>
      /\ PcOf(Worker) \in Replacing \cup {"cleanup"}
  BY DEF Prepare, Verify, Replace, Integrate, CommitUpdate, UpdateFails, Cleanup, At, PcOf,
      installed, others, Replacing
<1>2. /\ UpdateTypeOK /\ Worker \in Procs /\ tx \in Directories /\ tx # Nothing /\ Open(Worker)
      /\ program \in Versions \cup {Mixed} /\ hooks \in Versions /\ updates \in Versions
      /\ PcOf(Worker) \notin {"idle", "mkdir"} \cup Preparing \cup Undoing
  BY <1>1, Zenon DEF UpdateInv, UpdateTypeOK, WorkerFinds, Open, Procs, Versions, Replacing,
      Preparing, Undoing
<1>3. ASSUME NEW s \in Replacing \cup {"idle", "rollback", "cleanup"}, Goto(Worker, s),
             tx' \in Directories \cup {Nothing}, program' \in Versions \cup {Mixed}, hooks' \in Versions
      PROVE  /\ UpdateTypeOK' /\ RecoveryFinds' /\ RestoreAlone' /\ Restored' /\ SavesThere'
             /\ PcOf(Worker)' = s /\ s \notin Undoing
  <2>1. s \in Steps /\ s \notin Restoring /\ s \notin Undoing
    BY DEF Steps, Restoring, Replacing, Undoing
  <2> QED
    BY <1>1, <1>2, <1>3, <2>1, ReplacementKeeps
\* the directory gains markers, the backup in it stays
<1>4. ASSUME tx' # Nothing, tx'.program = tx.program, tx'.hooks = tx.hooks, tx'.config = tx.config,
             tx.files \subseteq tx'.files, tx'.owner = Worker, tx'.boot = boot
      PROVE  BackupSound' /\ Open(Worker)'
  BY <1>1, <1>2, <1>4, Zenon DEF UpdateInv, BackupSound, Open, OwnedBy
<1>5. OwnedBy(Worker) /\ tx.owner = Worker /\ tx.boot = boot /\ "owner" \in tx.files /\ "backup" \in tx.files
  BY <1>2, Zenon DEF Open, OwnedBy
<1>6. CASE Prepare(Worker)
  <2>1. /\ PcOf(Worker) = "prepare" /\ Goto(Worker, "verify") /\ UNCHANGED <<program, hooks>>
        /\ tx' = [tx EXCEPT !.files = @ \cup {"prepared"}]
    BY <1>6 DEF Prepare, At, PcOf, installed
  <2>2. /\ tx' \in Directories /\ tx' # Nothing
        /\ tx'.files = tx.files \cup {"prepared"} /\ tx'.owner = tx.owner /\ tx'.boot = tx.boot
        /\ tx'.program = tx.program /\ tx'.hooks = tx.hooks /\ tx'.config = tx.config
    BY <1>2, <2>1, MarkedFacts DEF TxFiles
  <2>3. "prepared" \notin tx.files /\ "committed" \notin tx.files /\ Whole
    BY <1>2, <2>1 DEF UpdateInv, WorkerFinds, MarkersOrdered, DroppedIsWhole, Half
  <2>4. /\ UpdateTypeOK' /\ RecoveryFinds' /\ RestoreAlone' /\ Restored' /\ SavesThere'
        /\ PcOf(Worker)' = "verify"
    BY <1>2, <1>3, <2>1, <2>2 DEF Replacing
  <2>5. BackupSound' /\ Open(Worker)' /\ MarkersOrdered'
    BY <1>4, <1>5, <2>2, <2>3 DEF MarkersOrdered
  <2>6. Whole' /\ Half'
    BY <1>1, <2>1, <2>2, <2>3 DEF Whole, Half
  <2>7. WorkerFinds' /\ DroppedIsWhole'
    BY <2>4, <2>5, <2>6, Zenon DEF WorkerFinds, DroppedIsWhole, Undoing, Whole
  <2> QED
    BY <2>4, <2>5, <2>7 DEF UpdateInv
<1>7. CASE (Verify(Worker) /\ proc[Worker].hash # config) \/ Cleanup(Worker)
  <2>1. /\ PcOf(Worker) \in {"verify", "cleanup"} /\ Goto(Worker, "idle") /\ tx' = Nothing /\ UNCHANGED <<program, hooks>>
    BY <1>7, Zenon DEF Verify, Cleanup, At, PcOf, installed
  <2>2. Whole
    BY <1>2, <2>1, Zenon DEF UpdateInv, WorkerFinds, DroppedIsWhole, Half
  <2>3. /\ UpdateTypeOK' /\ RecoveryFinds' /\ RestoreAlone' /\ Restored' /\ SavesThere'
        /\ PcOf(Worker)' = "idle"
    BY <1>2, <1>3, <2>1
  <2>4. BackupSound' /\ MarkersOrdered' /\ DroppedIsWhole'
    BY <1>1, <2>1, <2>2 DEF BackupSound, MarkersOrdered, DroppedIsWhole, Whole
  <2>5. WorkerFinds'
    BY <2>3 DEF WorkerFinds, Replacing, Undoing
  <2> QED
    BY <2>3, <2>4, <2>5 DEF UpdateInv
<1>8. CASE (Verify(Worker) /\ proc[Worker].hash = config) \/ Replace(Worker) \/ Integrate(Worker)
           \/ (CommitUpdate(Worker) /\ PcOf(Worker) = "committed")
  <2>1. /\ tx' = tx
        /\ \/ PcOf(Worker) = "verify" /\ Goto(Worker, "replace") /\ UNCHANGED <<program, hooks>>
           \/ PcOf(Worker) = "replace" /\ Goto(Worker, "replacing") /\ hooks' = hooks /\ program' = Mixed
           \/ PcOf(Worker) = "replacing" /\ Goto(Worker, "integrate") /\ hooks' = hooks /\ program' = updates
           \/ PcOf(Worker) = "integrate" /\ Goto(Worker, "health") /\ hooks' = updates /\ program' = program
           \/ PcOf(Worker) = "committed" /\ Goto(Worker, "cleanup") /\ UNCHANGED <<program, hooks>>
    BY <1>8 DEF Verify, Replace, Integrate, CommitUpdate, At, PcOf, installed
  <2>2. BackupSound' /\ Open(Worker)' /\ MarkersOrdered' /\ (Half' <=> Half)
    BY <1>1, <1>2, <2>1, Zenon DEF UpdateInv, BackupSound, MarkersOrdered, Open, OwnedBy, Half
  <2>3. ASSUME NEW s \in {"replace", "replacing", "integrate", "health", "cleanup"}, Goto(Worker, s),
               program' \in Versions \cup {Mixed}, hooks' \in Versions
        PROVE  /\ UpdateTypeOK' /\ RecoveryFinds' /\ RestoreAlone' /\ Restored' /\ SavesThere'
               /\ PcOf(Worker)' = s /\ s \notin Undoing
    BY <1>2, <1>3, <2>1, <2>3 DEF Replacing
  <2>4. CASE PcOf(Worker) \in {"verify", "replace", "replacing", "integrate"}
    <3>1. Half /\ config # Mixed /\ (PcOf(Worker) = "verify" => Whole) /\ (PcOf(Worker) = "integrate" => program = updates)
      BY <2>4, Zenon DEF UpdateInv, WorkerFinds
    <3>2. DroppedIsWhole'
      BY <1>2, <2>1, <2>2, <3>1 DEF DroppedIsWhole
    <3>3. PICK s \in {"replace", "replacing", "integrate", "health"} :
            /\ Goto(Worker, s) /\ program' \in Versions \cup {Mixed} /\ hooks' \in Versions
            /\ s = "replace" => Whole'
            /\ s \in {"integrate", "health"} => program' = updates
            /\ s = "health" => hooks' = updates
      BY <1>1, <1>2, <2>1, <2>4, <3>1 DEF Whole
    <3>4. /\ UpdateTypeOK' /\ RecoveryFinds' /\ RestoreAlone' /\ Restored' /\ SavesThere'
          /\ PcOf(Worker)' = s
      BY <2>3, <3>3
    <3>5. WorkerFinds'
      BY <1>1, <2>2, <3>1, <3>3, <3>4, Zenon DEF WorkerFinds, Undoing
    <3> QED
      BY <2>2, <3>2, <3>4, <3>5 DEF UpdateInv
  <2>5. CASE PcOf(Worker) = "committed"
    <3>1. Goto(Worker, "cleanup") /\ UNCHANGED <<program, hooks>> /\ "committed" \in tx.files
      BY <2>1, <2>5, Zenon DEF UpdateInv, WorkerFinds
    <3>2. /\ UpdateTypeOK' /\ RecoveryFinds' /\ RestoreAlone' /\ Restored' /\ SavesThere'
          /\ PcOf(Worker)' = "cleanup"
      BY <1>2, <2>3, <3>1
    <3>3. DroppedIsWhole'
      BY <1>1, <1>2, <2>2, <3>1 DEF UpdateInv, DroppedIsWhole, Whole, Half
    <3>4. WorkerFinds'
      BY <2>1, <2>2, <3>1, <3>2, Zenon DEF WorkerFinds, Undoing
    <3> QED
      BY <2>2, <3>2, <3>3, <3>4 DEF UpdateInv
  <2> QED
    BY <2>1, <2>4, <2>5
<1>9. CASE CommitUpdate(Worker) /\ PcOf(Worker) # "committed"
  <2>1. /\ PcOf(Worker) = "health" /\ Goto(Worker, "committed") /\ UNCHANGED <<program, hooks>>
        /\ tx' = [tx EXCEPT !.files = @ \cup {"committed"}]
    BY <1>9 DEF CommitUpdate, At, PcOf, installed
  <2>2. /\ tx' \in Directories /\ tx' # Nothing
        /\ tx'.files = tx.files \cup {"committed"} /\ tx'.owner = tx.owner /\ tx'.boot = tx.boot
        /\ tx'.program = tx.program /\ tx'.hooks = tx.hooks /\ tx'.config = tx.config
    BY <1>2, <2>1, MarkedFacts DEF TxFiles
  <2>3. Half /\ Whole
    <3>1. Half /\ config # Mixed /\ program = updates /\ hooks = updates
      BY <2>1 DEF UpdateInv, WorkerFinds
    <3> QED
      BY <1>2, <3>1, MixedApart, UpdateBounds DEF Whole, Versions
  <2>4. /\ UpdateTypeOK' /\ RecoveryFinds' /\ RestoreAlone' /\ Restored' /\ SavesThere'
        /\ PcOf(Worker)' = "committed"
    BY <1>2, <1>3, <2>1, <2>2 DEF Replacing
  <2>5. BackupSound' /\ Open(Worker)' /\ MarkersOrdered' /\ Whole'
    BY <1>1, <1>4, <1>5, <2>1, <2>2, <2>3 DEF MarkersOrdered, Half, Whole
  <2>6. WorkerFinds' /\ DroppedIsWhole'
    BY <2>2, <2>4, <2>5, Zenon DEF WorkerFinds, DroppedIsWhole, Undoing
  <2> QED
    BY <2>4, <2>5, <2>6 DEF UpdateInv
<1>10. CASE UpdateFails(Worker)
  <2>1. /\ PcOf(Worker) \in Replacing \ {"committed"} /\ Goto(Worker, "rollback") /\ UNCHANGED <<program, hooks>>
        /\ tx' = Claimed(Worker)
    BY <1>10, Zenon DEF UpdateFails, Undisturbed, At, PcOf, installed
  <2>2. /\ tx' \in Directories /\ tx' # Nothing
        /\ tx'.files = tx.files /\ tx'.owner = Worker /\ tx'.boot = boot
        /\ tx'.program = tx.program /\ tx'.hooks = tx.hooks /\ tx'.config = tx.config
    <3>1. tx.files \cup {"owner"} = tx.files
      BY <1>5, Zenon
    <3> QED
      BY <1>2, <2>1, <3>1, ClaimedFacts, Zenon
  <2>3. "committed" \notin tx.files
    BY <1>2, <2>1, Zenon DEF UpdateInv, WorkerFinds, MarkersOrdered, Replacing, Half
  <2>4. /\ UpdateTypeOK' /\ RecoveryFinds' /\ RestoreAlone' /\ Restored' /\ SavesThere'
        /\ PcOf(Worker)' = "rollback"
    BY <1>2, <1>3, <2>1, <2>2
  <2>5. BackupSound' /\ Open(Worker)' /\ MarkersOrdered' /\ (Half' <=> Half)
    BY <1>2, <1>4, <2>2, Zenon DEF UpdateInv, MarkersOrdered, Half
  <2>6. DroppedIsWhole'
    BY <1>1, <1>2, <2>1, <2>2, <2>5 DEF UpdateInv, DroppedIsWhole, Whole
  <2>7. WorkerFinds'
    BY <2>2, <2>3, <2>4, <2>5 DEF WorkerFinds, Undoing
  <2> QED
    BY <2>4, <2>5, <2>6, <2>7 DEF UpdateInv
<1> QED
  BY <1>6, <1>7, <1>8, <1>9, <1>10, Zenon

\* What the steps share that leave the directory and the installation as they are.
LEMMA TurnKeeps ==
  ASSUME UpdateInv, NEW p \in Procs, NEW s \in {"idle", "drop", "lock", "claim", "unlock"}, Goto(p, s),
         UNCHANGED <<tx, program, hooks, config, saved, saving, boot, updates>>,
         mishaps' \in 0 .. MaxMishaps, lock' \in BOOLEAN
  PROVE  /\ UpdateTypeOK' /\ BackupSound' /\ MarkersOrdered' /\ Restored' /\ SavesThere'
         /\ PcOf(p)' = s /\ \A q \in Procs : q # p => PcOf(q)' = PcOf(q)
         /\ (Half' <=> Half) /\ (Whole' <=> Whole) /\ \A q \in Procs : (Open(q)' <=> Open(q)) /\ (OwnedBy(q)' <=> OwnedBy(q))
<1>1. s \in Steps
  BY DEF Steps, Restoring
<1>2. /\ proc' \in [Procs -> [pc : Steps, hash : Settings]] /\ PcOf(p)' = s
      /\ \A q \in Procs : q # p => PcOf(q)' = PcOf(q)
  BY <1>1, Moves DEF UpdateInv
<1>3. UpdateTypeOK'
  BY <1>2 DEF UpdateInv, UpdateTypeOK
<1>4. BackupSound' /\ MarkersOrdered' /\ SavesThere'
  BY DEF UpdateInv, BackupSound, MarkersOrdered, SavesThere
<1>5. Restored'
  BY <1>2 DEF UpdateInv, Restored
<1>6. (Half' <=> Half) /\ (Whole' <=> Whole) /\ \A q \in Procs : (Open(q)' <=> Open(q)) /\ (OwnedBy(q)' <=> OwnedBy(q))
  BY DEF Half, Whole, Open, OwnedBy
<1> QED
  BY <1>2, <1>3, <1>4, <1>5, <1>6

\* A recovery's own turn does not change what the worker finds.
LEMMA RecoveryTurn ==
  ASSUME UpdateInv, NEW r \in Recoverers, NEW s \in {"idle", "drop", "lock", "claim", "unlock"}, Goto(r, s),
         UNCHANGED <<tx, program, hooks, config, saved, saving, boot, updates>>,
         mishaps' \in 0 .. MaxMishaps, lock' \in BOOLEAN, RestoreAlone',
         s = "drop" => PcOf(Worker) \in {"idle", "mkdir"} \cup Preparing /\ (tx # Nothing => ~Half),
         s \in {"lock", "claim"} => PcOf(Worker) \in {"idle", "mkdir"} /\ (tx # Nothing => Half)
  PROVE  UpdateInv'
<1>1. r \in Procs /\ Worker \in Procs /\ r # Worker /\ \A q \in Recoverers : q \in Procs
  BY ProcsApart DEF Procs
<1>2. /\ UpdateTypeOK' /\ BackupSound' /\ MarkersOrdered' /\ Restored' /\ SavesThere'
      /\ PcOf(r)' = s /\ \A q \in Procs : q # r => PcOf(q)' = PcOf(q)
      /\ (Half' <=> Half) /\ (Whole' <=> Whole) /\ \A q \in Procs : (Open(q)' <=> Open(q)) /\ (OwnedBy(q)' <=> OwnedBy(q))
  BY <1>1, TurnKeeps
<1>3. PcOf(Worker)' = PcOf(Worker)
  BY <1>1, <1>2
<1>4. DroppedIsWhole'
  BY <1>2, <1>3 DEF UpdateInv, DroppedIsWhole
<1>5. WorkerFinds'
  BY <1>1, <1>2, <1>3, Zenon DEF UpdateInv, WorkerFinds
<1>6. RecoveryFinds'
  BY <1>1, <1>2, <1>3 DEF UpdateInv, RecoveryFinds, Restoring, Undoing
<1> QED
  BY <1>2, <1>4, <1>5, <1>6 DEF UpdateInv

\* The worker's turn: what it leaves undone, recovery can see.
LEMMA WorkerTurn ==
  ASSUME UpdateInv, NEW s \in {"idle", "claim", "unlock"}, Goto(Worker, s),
         UNCHANGED <<tx, program, hooks, config, saved, saving, boot, updates>>,
         mishaps' \in 0 .. MaxMishaps, lock' \in BOOLEAN, RestoreAlone',
         s # "idle" => PcOf(Worker) \notin {"idle", "mkdir"} \cup Preparing,
         s = "claim" => PcOf(Worker) = "rollback",
         s = "unlock" /\ tx # Nothing => Open(Worker),
         PcOf(Worker) \in Undoing => Half
  PROVE  UpdateInv'
<1>1. Worker \in Procs /\ \A q \in Recoverers : q \in Procs /\ q # Worker
  BY ProcsApart DEF Procs
<1>2. /\ UpdateTypeOK' /\ BackupSound' /\ MarkersOrdered' /\ Restored' /\ SavesThere'
      /\ PcOf(Worker)' = s /\ \A q \in Procs : q # Worker => PcOf(q)' = PcOf(q)
      /\ (Half' <=> Half) /\ (Whole' <=> Whole) /\ \A q \in Procs : (Open(q)' <=> Open(q)) /\ (OwnedBy(q)' <=> OwnedBy(q))
  BY <1>1, TurnKeeps
<1>3. DroppedIsWhole'
  <2>1. PcOf(Worker) \in Undoing => tx # Nothing
    BY Zenon DEF UpdateInv, WorkerFinds, Open
  <2> QED
    BY <1>2, <2>1 DEF UpdateInv, DroppedIsWhole
<1>4. WorkerFinds'
  BY <1>1, <1>2, Zenon DEF UpdateInv, WorkerFinds, Replacing, Undoing
<1>5. RecoveryFinds'
  <2>1. CASE s = "idle"
    BY <1>1, <1>2, <2>1 DEF UpdateInv, RecoveryFinds
  <2>2. CASE s # "idle"
    <3>1. s \in Steps
      BY DEF Steps, Restoring
    <3> QED
      BY <2>2, <3>1, WorkerActs
  <2> QED
    BY <2>1, <2>2
<1> QED
  BY <1>2, <1>3, <1>4, <1>5 DEF UpdateInv

\* --recover: what it finds decides between dropping the directory and restoring.
LEMMA RecoverUpdateInv == ASSUME UpdateInv, NEW r \in Recoverers, Recover(r) PROVE UpdateInv'
<1>1. /\ PcOf(r) = "idle" /\ tx # Nothing /\ ~OwnerAlive
      /\ UNCHANGED <<tx, lock, program, hooks, config, saved, saving, boot, updates, mishaps>>
      /\ Goto(r, IF ~Half THEN "drop" ELSE "lock")
  BY DEF Recover, At, PcOf, installed, others, Half
<1>2. r \in Procs /\ UpdateTypeOK /\ RestoreAlone
  BY DEF UpdateInv, Procs
<1>3. /\ PcOf(Worker) \in {"idle", "mkdir", "own"}
      /\ Half => PcOf(Worker) # "own"
  <2>1. PcOf(Worker) \in Steps
    BY DEF UpdateInv, UpdateTypeOK, PcOf, Procs
  <2>2. ~OwnedBy(Worker) \/ PcOf(Worker) \in {"idle", "mkdir", "drop", "lock"}
    BY <1>1, ProcsApart DEF OwnerAlive, OwnedBy, Alive, PcOf
  <2>3. PcOf(Worker) \notin {"drop", "lock"}
        /\ (PcOf(Worker) \notin {"idle", "mkdir", "own"} => OwnedBy(Worker))
    BY <1>1, <2>1, Zenon DEF UpdateInv, WorkerFinds, Open, Steps, Preparing, Replacing, Restoring,
        Undoing
  <2>4. PcOf(Worker) = "own" => tx.files = {}
    BY <1>1, Zenon DEF UpdateInv, WorkerFinds
  <2> QED
    BY <2>2, <2>3, <2>4 DEF Half
<1>4. mishaps' \in 0 .. MaxMishaps /\ lock' \in BOOLEAN
  BY <1>1, <1>2 DEF UpdateTypeOK
<1>5. ASSUME NEW s \in {"drop", "lock"}, Goto(r, s) PROVE RestoreAlone'
  <2>1. s \in Steps /\ s \notin Restoring
    BY DEF Steps, Restoring
  <2> QED
    BY <1>1, <1>2, <1>5, <2>1, AloneKept
<1>6. CASE Half
  BY <1>1, <1>3, <1>4, <1>5, <1>6, RecoveryTurn
<1>7. CASE ~Half
  BY <1>1, <1>3, <1>4, <1>5, <1>7, RecoveryTurn DEF Preparing
<1> QED
  BY <1>6, <1>7

\* Taking the lock, giving up and dying change neither the directory nor the installation.
LEMMA TurnsUpdateInv ==
  ASSUME UpdateInv, Undisturbed, NEW p \in Procs,
         \/ TakeLock(p) \/ (ClaimRestore(p) /\ tx = Nothing) \/ RestoreFails(p)
         \/ (RestoreEnds(p) /\ PcOf(p) = "unlock") \/ ProcKilled(p)
  PROVE  UpdateInv'
<1>1. UNCHANGED <<tx, program, hooks, config, saved, saving, boot, updates>>
  BY Zenon DEF TakeLock, ClaimRestore, RestoreFails, RestoreEnds, ProcKilled, installed, others,
      At, PcOf
<1>2. mishaps' \in 0 .. MaxMishaps /\ lock' \in BOOLEAN
  <2>1. mishaps' = mishaps \/ (mishaps < MaxMishaps /\ mishaps' = mishaps + 1)
    BY Zenon DEF TakeLock, ClaimRestore, RestoreFails, RestoreEnds, ProcKilled
  <2>2. lock' = lock \/ lock' = TRUE \/ lock' = FALSE
    BY Zenon DEF TakeLock, ClaimRestore, RestoreFails, RestoreEnds, ProcKilled
  <2>3. mishaps \in 0 .. MaxMishaps /\ lock \in BOOLEAN
    BY DEF UpdateInv, UpdateTypeOK
  <2>4. mishaps' \in 0 .. MaxMishaps
    BY <2>1, <2>3, UpdateBounds
  <2>5. lock' \in BOOLEAN
    BY <2>2, <2>3, Zenon
  <2> QED
    BY <2>4, <2>5
<1>3. UpdateTypeOK /\ RestoreAlone /\ Worker \in Procs /\ (p # Worker => p \in Recoverers)
  BY DEF UpdateInv, Procs
\* where p goes
<1>4. PICK s \in {"idle", "claim", "unlock"} :
        /\ Goto(p, s)
        /\ s = "claim" => PcOf(p) \in {"rollback", "lock"}
        /\ s = "unlock" => PcOf(p) \in Undoing \/ (p = Worker /\ PcOf(p) = "claim" /\ tx = Nothing)
  BY Zenon DEF TakeLock, ClaimRestore, RestoreFails, RestoreEnds, ProcKilled, At, PcOf, Undoing
<1>5. s \in Steps
  BY DEF Steps, Restoring
<1>6. RestoreAlone'
  <2>1. PcOf(p)' = s /\ \A q \in Procs : q # p => PcOf(q)' = PcOf(q)
    BY <1>3, <1>4, <1>5, Moves
  <2>2. CASE TakeLock(p) /\ ~lock
    BY <1>3, <2>1, <2>2 DEF RestoreAlone, TakeLock
  <2>3. CASE RestoreEnds(p) /\ PcOf(p) = "unlock"
    <3>1. s = "idle"
      BY <1>4, <2>3 DEF Undoing
    <3>2. \A q \in Procs : PcOf(q)' \notin Restoring
      BY <1>3, <2>1, <2>3, <3>1 DEF RestoreAlone, Restoring
    <3> QED
      BY <3>2 DEF RestoreAlone
  <2>4. CASE ~(TakeLock(p) /\ ~lock) /\ ~(RestoreEnds(p) /\ PcOf(p) = "unlock")
    <3>1. lock' = lock
      BY <1>3, <2>4, Zenon DEF TakeLock, ClaimRestore, RestoreFails, ProcKilled, UpdateTypeOK
    <3>2. s \in Restoring => PcOf(p) \in Restoring
      <4>1. CASE TakeLock(p)
        <5>1. Goto(p, "idle") /\ "idle" \in Steps
          BY <2>4, <4>1 DEF TakeLock, Steps
        <5>2. PcOf(p)' = "idle"
          BY <1>3, <5>1, Moves
        <5> QED
          BY <2>1, <5>2 DEF Restoring
      <4>2. CASE ~TakeLock(p)
        <5>1. PcOf(p) \in {"rollback", "lock"} => s # "claim"
          <6>1. CASE ProcKilled(p)
            <7>1. Goto(p, "idle") /\ "idle" \in Steps
              BY <6>1 DEF ProcKilled, Steps
            <7>2. PcOf(p)' = "idle"
              BY <1>3, <7>1, Moves
            <7> QED
              BY <2>1, <7>2
          <6>2. CASE ~ProcKilled(p)
            BY <2>4, <4>2, <6>2, Zenon DEF ClaimRestore, RestoreFails, At, PcOf
          <6> QED
            BY <6>1, <6>2
        <5> QED
          BY <1>4, <5>1 DEF Restoring, Undoing
      <4> QED
        BY <4>1, <4>2
    <3> QED
      BY <1>3, <1>4, <1>5, <3>1, <3>2, AloneKept
  <2> QED
    BY <2>2, <2>3, <2>4
<1>7. CASE p = Worker
  <2>1. PcOf(p) \in Undoing => Open(Worker) /\ "committed" \notin tx.files
    BY <1>7, Zenon DEF UpdateInv, WorkerFinds
  <2>2. PcOf(p) \in Undoing => Half
    <3>1. PcOf(p) \in Undoing => RestoreFails(p) \/ ProcKilled(p)
      BY Zenon DEF TakeLock, ClaimRestore, PcOf, At, Undoing
    <3>2. PcOf(p) \in Undoing => ~Unmarked(p)
      BY <3>1, Zenon DEF RestoreFails, ProcKilled, MayDie, Undisturbed
    <3> QED
      BY <2>1, <3>2, Zenon DEF Half, Unmarked, Open, PcOf, Undoing, Restoring
  <2>3. PcOf(p) # "lock"
    BY <1>7, Zenon DEF UpdateInv, WorkerFinds
  <2>4. /\ s # "idle" => PcOf(Worker) \notin {"idle", "mkdir"} \cup Preparing
        /\ s = "claim" => PcOf(Worker) = "rollback"
        /\ s = "unlock" /\ tx # Nothing => Open(Worker)
    BY <1>4, <1>7, <2>1, <2>3, Zenon DEF Undoing, Preparing
  <2>5. Goto(Worker, s) /\ (PcOf(Worker) \in Undoing => Half)
    BY <1>4, <1>7, <2>2
  <2> QED
    BY <1>1, <1>2, <1>6, <2>4, <2>5, WorkerTurn, Zenon
<1>8. CASE p # Worker
  <2>1. p \in Recoverers
    BY <1>3, <1>8
  <2>2. s = "claim" => PcOf(Worker) \in {"idle", "mkdir"} /\ (tx # Nothing => Half)
    BY <1>4, <2>1 DEF UpdateInv, RecoveryFinds, Restoring
  <2> QED
    BY <1>1, <1>2, <1>4, <1>6, <2>1, <2>2, RecoveryTurn
<1> QED
  BY <1>7, <1>8

\* A recovery that drops the directory drops one with nothing to restore.
LEMMA DropUpdateInv == ASSUME UpdateInv, NEW p \in Procs, Drop(p) PROVE UpdateInv'
<1>1. /\ PcOf(p) = "drop" /\ tx' = Nothing /\ Goto(p, "idle") /\ "idle" \in Steps /\ "idle" \notin Restoring
      /\ UNCHANGED <<lock, program, hooks, config, saved, saving, boot, updates, mishaps>>
  BY DEF Drop, At, PcOf, installed, others, Steps, Restoring
<1>2. p \in Recoverers /\ Worker \in Procs /\ p # Worker /\ Procs = Recoverers \cup {Worker} /\ UpdateTypeOK
  BY <1>1, Zenon DEF UpdateInv, WorkerFinds, Procs
<1>3. PcOf(Worker) \in {"idle", "mkdir"} \cup Preparing /\ (tx # Nothing => ~Half)
  BY <1>1, <1>2 DEF UpdateInv, RecoveryFinds
<1>4. PcOf(Worker) \notin Undoing
  BY <1>3 DEF Preparing, Undoing
<1>5. Whole
  BY <1>3, <1>4 DEF UpdateInv, DroppedIsWhole
<1>6. /\ proc' \in [Procs -> [pc : Steps, hash : Settings]] /\ PcOf(p)' = "idle"
      /\ \A q \in Procs : q # p => PcOf(q)' = PcOf(q)
  BY <1>1, <1>2, Moves
<1>7. UpdateTypeOK'
  BY <1>1, <1>2, <1>6 DEF UpdateTypeOK
<1>8. BackupSound' /\ MarkersOrdered' /\ DroppedIsWhole' /\ SavesThere'
  BY <1>1, <1>5, Zenon DEF UpdateInv, BackupSound, MarkersOrdered, DroppedIsWhole, SavesThere,
      Whole
<1>9. RestoreAlone'
  BY <1>1, <1>2, AloneKept DEF UpdateInv
<1>10. WorkerFinds'
  BY <1>1, <1>2, <1>3, <1>6, Zenon DEF WorkerFinds, Preparing, Replacing, Undoing
<1>11. \A r \in Recoverers : PcOf(r) \notin Undoing /\ (PcOf(r) \in {"lock", "claim"} => PcOf(Worker) \in {"idle", "mkdir"})
  <2>1. ASSUME NEW r \in Recoverers, PcOf(r) \in Undoing PROVE FALSE
    BY <1>3, <2>1, Zenon DEF UpdateInv, RecoveryFinds, Open
  <2> QED
    BY <2>1 DEF UpdateInv, RecoveryFinds
<1>12. RecoveryFinds'
  <2>1. \A r \in Recoverers : PcOf(r) \in {"idle", "drop", "lock"} \cup Restoring
    BY DEF UpdateInv, RecoveryFinds
  <2>2. \A r \in Recoverers : PcOf(r)' \in {"idle", PcOf(r)} /\ PcOf(Worker)' = PcOf(Worker)
    BY <1>2, <1>6
  <2> QED
    BY <1>1, <1>3, <1>11, <2>1, <2>2 DEF RecoveryFinds, Undoing
<1>13. Restored'
  <2>1. \A q \in Procs : PcOf(q)' \notin {"external", "check"}
    BY <1>2, <1>4, <1>6, <1>11 DEF Undoing
  <2> QED
    BY <2>1 DEF Restored
<1> QED
  BY <1>7, <1>8, <1>9, <1>10, <1>12, <1>13 DEF UpdateInv

\* The step of a restore under way: nobody else is restoring, no recovery is about to
\* act and the worker, if it is not the one, has not begun.
LEMMA RestoreKeeps ==
  ASSUME UpdateInv, NEW p \in Procs, PcOf(p) \in Undoing, NEW s \in Restoring, Goto(p, s)
  PROVE  /\ proc' \in [Procs -> [pc : Steps, hash : Settings]]
         /\ PcOf(p)' = s /\ (\A q \in Procs : q # p => PcOf(q)' = PcOf(q) /\ PcOf(q) \notin Restoring)
         /\ Open(p) /\ "committed" \notin tx.files
         /\ p # Worker => Half /\ PcOf(Worker) \in {"idle", "mkdir"}
         /\ \A r \in Recoverers \ {p} : PcOf(r) \in {"idle", "lock"} /\ (PcOf(r) = "lock" => Half /\ PcOf(Worker) \in {"idle", "mkdir"})
<1>1. s \in Steps /\ PcOf(p) \in Restoring /\ Worker \in Procs /\ Procs = Recoverers \cup {Worker} /\ UpdateTypeOK
  BY DEF Steps, Restoring, Undoing, UpdateInv, Procs
<1>2. /\ proc' \in [Procs -> [pc : Steps, hash : Settings]]
      /\ PcOf(p)' = s /\ \A q \in Procs : q # p => PcOf(q)' = PcOf(q)
  BY <1>1, Moves
<1>3. \A q \in Procs : q # p => PcOf(q) \notin Restoring
  BY <1>1 DEF UpdateInv, RestoreAlone
<1>4. Open(p) /\ "committed" \notin tx.files /\ (p # Worker => Half /\ PcOf(Worker) \in {"idle", "mkdir"})
  BY <1>1, Zenon DEF UpdateInv, WorkerFinds, RecoveryFinds, Half
<1>5. ASSUME NEW r \in Recoverers \ {p}
      PROVE  PcOf(r) \in {"idle", "lock"} /\ (PcOf(r) = "lock" => Half /\ PcOf(Worker) \in {"idle", "mkdir"})
  <2>1. PcOf(r) \in {"idle", "drop", "lock"} /\ (PcOf(r) = "lock" => Half /\ PcOf(Worker) \in {"idle", "mkdir"})
    BY <1>1, <1>3, <1>4, Zenon DEF UpdateInv, RecoveryFinds, Open
  <2>2. PcOf(r) # "drop"
    BY <1>1, <1>4 DEF UpdateInv, RecoveryFinds, Open, Preparing, Undoing
  <2> QED
    BY <2>1, <2>2
<1> QED
  BY <1>2, <1>3, <1>4, <1>5, Zenon

\* A restore takes the directory over.
LEMMA ClaimUpdateInv == ASSUME UpdateInv, NEW p \in Procs, ClaimRestore(p), tx # Nothing PROVE UpdateInv'
<1>0. "unpack" \in Steps /\ "unpack" \in Restoring /\ "claim" \in Restoring /\ "unpack" \in Undoing
  BY DEF Steps, Restoring, Undoing
<1>1. /\ PcOf(p) = "claim" /\ tx' = Claimed(p) /\ Goto(p, "unpack") /\ "unpack" \in Steps
      /\ "unpack" \in Restoring /\ "claim" \in Restoring /\ "unpack" \in Undoing
      /\ UNCHANGED <<lock, program, hooks, config, saved, saving, boot, updates, mishaps>>
  BY <1>0 DEF ClaimRestore, At, PcOf, installed, others
<1>2. Worker \in Procs /\ Procs = Recoverers \cup {Worker} /\ UpdateTypeOK /\ Worker \notin Recoverers
  BY ProcsApart DEF UpdateInv, Procs
<1>3. /\ tx' \in Directories /\ tx' # Nothing /\ tx'.files = tx.files \cup {"owner"} /\ tx'.owner = p /\ tx'.boot = boot
      /\ tx'.program = tx.program /\ tx'.hooks = tx.hooks /\ tx'.config = tx.config
  BY <1>1, <1>2, ClaimedFacts, Zenon
<1>4. /\ proc' \in [Procs -> [pc : Steps, hash : Settings]] /\ PcOf(p)' = "unpack"
      /\ \A q \in Procs : q # p => PcOf(q)' = PcOf(q)
  BY <1>1, <1>2, Moves, Zenon
<1>5. /\ "backup" \in tx.files /\ "committed" \notin tx.files
      /\ p # Worker => Half /\ PcOf(Worker) \in {"idle", "mkdir"}
  BY <1>1, <1>2, Zenon DEF UpdateInv, WorkerFinds, RecoveryFinds, MarkersOrdered, Open, Half
<1>6. \A q \in Procs : q # p => PcOf(q) \notin Restoring
  BY <1>1 DEF UpdateInv, RestoreAlone
<1>7. (Half' <=> Half) /\ Open(p)'
  BY <1>1, <1>3, <1>5, Zenon DEF Half, Open, OwnedBy
<1>8. UpdateTypeOK'
  BY <1>1, <1>2, <1>3, <1>4, Zenon DEF UpdateTypeOK
<1>9. BackupSound' /\ MarkersOrdered' /\ SavesThere'
  BY <1>1, <1>3, <1>5, Zenon DEF UpdateInv, BackupSound, MarkersOrdered, SavesThere
<1>10. RestoreAlone'
  BY <1>1, <1>2, AloneKept DEF UpdateInv
<1>11. Restored'
  <2>1. \A q \in Procs : PcOf(q)' \notin {"external", "check"}
    BY <1>4, <1>6 DEF Restoring
  <2> QED
    BY <2>1 DEF Restored
<1>12. CASE p = Worker
  <2>1. RecoveryFinds'
    BY <1>1, <1>12, WorkerActs DEF Preparing
  <2>2. WorkerFinds' /\ DroppedIsWhole'
    BY <1>1, <1>3, <1>4, <1>5, <1>7, <1>12, Zenon DEF WorkerFinds, DroppedIsWhole, Replacing
  <2> QED
    BY <1>8, <1>9, <1>10, <1>11, <2>1, <2>2 DEF UpdateInv
<1>13. CASE p # Worker
  <2>1. p \in Recoverers /\ Half /\ Half' /\ PcOf(Worker)' = PcOf(Worker) /\ PcOf(Worker) \in {"idle", "mkdir"}
    BY <1>2, <1>4, <1>5, <1>7, <1>13, Zenon
  <2>2. WorkerFinds' /\ DroppedIsWhole'
    BY <1>3, <2>1, Zenon DEF WorkerFinds, DroppedIsWhole, Replacing, Undoing
  <2>3. RecoveryFinds'
    <3>1. ASSUME NEW r \in Recoverers, r # p
          PROVE  PcOf(r)' = PcOf(r) /\ PcOf(r) \in {"idle", "lock"}
      BY <1>2, <1>4, <1>6, <2>1, <3>1 DEF UpdateInv, RecoveryFinds
    <3> QED
      BY <1>1, <1>4, <1>7, <2>1, <3>1, Zenon DEF RecoveryFinds, Undoing
  <2> QED
    BY <1>8, <1>9, <1>10, <1>11, <2>2, <2>3 DEF UpdateInv
<1> QED
  BY <1>12, <1>13

\* The steps of a restore.
LEMMA UndoUpdateInv ==
  ASSUME UpdateInv, NEW p \in Procs,
         Unpack(p) \/ RestoreHooks(p) \/ (RestoreEnds(p) /\ PcOf(p) = "check")
  PROVE  UpdateInv'
<1>1. /\ PcOf(p) \in Undoing
      /\ UNCHANGED <<lock, saved, saving, boot, updates, mishaps>>
  BY Zenon DEF Unpack, RestoreHooks, RestoreEnds, At, PcOf, others, Undoing
<1>2. Open(p)
  BY <1>1, Zenon DEF UpdateInv, WorkerFinds, RecoveryFinds, Procs
<1>3. PICK s \in Restoring :
        /\ Goto(p, s)
        /\ \/ s = "unpacking" /\ tx' = tx /\ program' = Mixed /\ config' = Mixed /\ hooks' = hooks
           \/ s = "external" /\ tx' = tx /\ program' = tx.program /\ config' = tx.config /\ hooks' = hooks
           \/ /\ PcOf(p) = "external" /\ s = "check" /\ tx' = tx
              /\ program' = program /\ config' = config /\ hooks' = tx.hooks
           \/ /\ PcOf(p) = "check" /\ s = "unlock" /\ tx' = Nothing
              /\ program' = program /\ config' = config /\ hooks' = hooks
  <2>1. "backup" \in tx.files /\ "external" \in tx.files
    BY <1>2, Zenon DEF UpdateInv, BackupSound, Open
  <2> QED
    BY <2>1, Zenon DEF Unpack, RestoreHooks, RestoreEnds, At, PcOf, Restoring, installed
<1>4. /\ proc' \in [Procs -> [pc : Steps, hash : Settings]]
      /\ PcOf(p)' = s /\ (\A q \in Procs : q # p => PcOf(q)' = PcOf(q) /\ PcOf(q) \notin Restoring)
      /\ Open(p) /\ "committed" \notin tx.files
      /\ p # Worker => Half /\ PcOf(Worker) \in {"idle", "mkdir"}
      /\ \A r \in Recoverers \ {p} : PcOf(r) \in {"idle", "lock"} /\ (PcOf(r) = "lock" => Half /\ PcOf(Worker) \in {"idle", "mkdir"})
  BY <1>1, <1>3, RestoreKeeps, Zenon
<1>5. /\ UpdateTypeOK /\ tx \in Directories /\ tx # Nothing /\ "backup" \in tx.files
      /\ Worker \in Procs /\ Procs = Recoverers \cup {Worker} /\ Worker \notin Recoverers
  BY <1>2, ProcsApart, Zenon DEF UpdateInv, UpdateTypeOK, Open, Procs
<1>6. /\ tx.program = tx.hooks /\ tx.program # Mixed /\ tx.config # Mixed /\ tx.config >= saved["settings"]
      /\ tx.program \in Versions \cup {Mixed} /\ tx.hooks \in Versions /\ tx.config \in Settings
  BY <1>5 DEF UpdateInv, BackupSound, Directories
<1>7. UpdateTypeOK'
  <2>1. /\ tx' \in Directories \cup {Nothing} /\ program' \in Versions \cup {Mixed} /\ hooks' \in Versions
        /\ config' \in Settings
    BY <1>3, <1>5, <1>6, Zenon DEF UpdateTypeOK, Settings
  <2> QED
    BY <1>1, <1>4, <1>5, <2>1, Zenon DEF UpdateTypeOK
<1>8. BackupSound' /\ MarkersOrdered'
  BY <1>1, <1>3, Zenon DEF UpdateInv, BackupSound, MarkersOrdered
<1>9. SavesThere'
  BY <1>1, <1>3, <1>6 DEF UpdateInv, SavesThere
<1>10. RestoreAlone'
  <2>1. s \in Steps /\ PcOf(p) \in Restoring
    BY <1>1 DEF Steps, Undoing, Restoring
  <2> QED
    BY <1>1, <1>3, <1>5, <2>1, AloneKept, Zenon DEF UpdateInv
<1>11. PcOf(p) \in {"external", "check"} => program = tx.program /\ config # Mixed
  BY DEF UpdateInv, Restored
<1>12. PcOf(p) = "check" => hooks = tx.hooks
  BY DEF UpdateInv, Restored
<1>13. Restored'
  <2>1. \A q \in Procs : q # p => PcOf(q)' \notin {"external", "check"}
    BY <1>4, Zenon DEF Restoring
  <2>2. s \in {"external", "check"} => program' = tx'.program /\ config' # Mixed
    BY <1>3, <1>6, <1>11
  <2>3. s = "check" => hooks' = tx'.hooks
    BY <1>3, Zenon
  <2> QED
    BY <1>4, <2>1, <2>2, <2>3, Zenon DEF Restored
<1>14. CASE s = "unlock"
  <2>1. tx' = Nothing /\ Whole'
    BY <1>3, <1>6, <1>11, <1>12, <1>14 DEF Whole
  <2>2. DroppedIsWhole'
    BY <2>1 DEF DroppedIsWhole
  <2>3. PcOf(Worker)' \in {"idle", "mkdir", "unlock"} /\ (p # Worker => PcOf(Worker)' \in {"idle", "mkdir"})
    BY <1>4, <1>5, <1>14, Zenon
  <2>4. WorkerFinds'
    BY <2>1, <2>3, Zenon DEF WorkerFinds, Replacing, Undoing
  <2>5. ASSUME NEW r \in Recoverers
        PROVE  PcOf(r)' \in {"idle", "lock", "unlock"} /\ (PcOf(r)' = "lock" => PcOf(Worker)' \in {"idle", "mkdir"})
    <3>1. CASE r = p
      BY <1>4, <1>14, <3>1, Zenon
    <3>2. CASE r # p
      <4>1. PcOf(r)' \in {"idle", "lock"} /\ (PcOf(r)' = "lock" => PcOf(Worker) \in {"idle", "mkdir"})
        BY <1>4, <1>5, <3>2, Zenon
      <4>2. p = Worker => PcOf(Worker) \notin {"idle", "mkdir"}
        BY <1>1 DEF Undoing
      <4> QED
        BY <2>3, <4>1, <4>2
    <3> QED
      BY <3>1, <3>2
  <2>6. RecoveryFinds'
    BY <2>1, <2>5 DEF RecoveryFinds, Restoring, Undoing
  <2> QED
    BY <1>7, <1>8, <1>9, <1>10, <1>13, <2>2, <2>4, <2>6 DEF UpdateInv
<1>15. CASE s # "unlock"
  <2>1. tx' = tx /\ s \in Undoing /\ (Half' <=> Half) /\ Open(p)'
    BY <1>1, <1>3, <1>4, <1>15, Zenon DEF Undoing, Half, Open, OwnedBy
  <2>2. CASE p = Worker
    <3>1. WorkerFinds' /\ DroppedIsWhole'
      BY <1>4, <2>1, <2>2, Zenon DEF WorkerFinds, DroppedIsWhole, Undoing, Replacing
    <3>2. RecoveryFinds'
      <4>1. PcOf(Worker) \notin {"idle", "mkdir"} \cup Preparing /\ s \in Steps
        BY <1>1, <2>2 DEF Undoing, Preparing, Steps
      <4> QED
        BY <1>3, <2>2, <4>1, WorkerActs, Zenon
    <3> QED
      BY <1>7, <1>8, <1>9, <1>10, <1>13, <3>1, <3>2 DEF UpdateInv
  <2>3. CASE p # Worker
    <3>1. Half' /\ tx' # Nothing /\ PcOf(Worker)' \in {"idle", "mkdir"}
      BY <1>4, <1>5, <2>1, <2>3, Zenon
    <3>2. WorkerFinds' /\ DroppedIsWhole'
      BY <3>1, Zenon DEF WorkerFinds, DroppedIsWhole, Undoing, Replacing
    <3>3. \A r \in Recoverers : r # p => PcOf(r)' \in {"idle", "lock"}
      BY <1>4, <1>5, Zenon
    <3>4. RecoveryFinds'
      BY <1>4, <2>1, <3>1, <3>3, Zenon DEF RecoveryFinds, Undoing
    <3> QED
      BY <1>7, <1>8, <1>9, <1>10, <1>13, <3>2, <3>4 DEF UpdateInv
  <2> QED
    BY <2>2, <2>3
<1> QED
  BY <1>14, <1>15

\* A power cut ends every process.
LEMMA PowerCutUpdateInv == ASSUME UpdateInv, Undisturbed, PowerCut PROVE UpdateInv'
<1>1. /\ \A p \in Procs : MayDie(p)
      /\ saving' = FALSE /\ boot' = boot + 1 /\ mishaps < MaxMishaps /\ mishaps' = mishaps + 1
      /\ proc' = [p \in Procs |-> [proc[p] EXCEPT !.pc = "idle"]]
      /\ UNCHANGED <<tx, lock, program, hooks, config, saved, updates>>
  BY DEF PowerCut, installed
<1>2. UpdateTypeOK /\ Worker \in Procs /\ \A r \in Recoverers : r \in Procs
  BY DEF UpdateInv, Procs
<1>3. proc' \in [Procs -> [pc : Steps, hash : Settings]] /\ \A p \in Procs : PcOf(p)' = "idle"
  <2>1. \A p \in Procs : proc[p] \in [pc : Steps, hash : Settings]
    BY <1>2 DEF UpdateTypeOK
  <2>2. \A p \in Procs : /\ [proc[p] EXCEPT !.pc = "idle"] \in [pc : Steps, hash : Settings]
                         /\ [proc[p] EXCEPT !.pc = "idle"].pc = "idle"
    BY <2>1 DEF Steps
  <2> QED
    BY <1>1, <2>2 DEF PcOf
<1>4. boot' \in Nat /\ mishaps' \in 0 .. MaxMishaps
  BY <1>1, <1>2, UpdateBounds DEF UpdateTypeOK
<1>5. UpdateTypeOK'
  BY <1>1, <1>2, <1>3, <1>4, Zenon DEF UpdateTypeOK
<1>6. BackupSound' /\ MarkersOrdered' /\ SavesThere'
  BY <1>1 DEF UpdateInv, BackupSound, MarkersOrdered, SavesThere
<1>7. PcOf(Worker) \in Undoing => Half /\ tx # Nothing
  <2>1. PcOf(Worker) \in Undoing => tx # Nothing /\ "committed" \notin tx.files
    BY Zenon DEF UpdateInv, WorkerFinds, Open
  <2>2. PcOf(Worker) \in Undoing => ~Unmarked(Worker)
    BY <1>1, <1>2 DEF MayDie, Undisturbed
  <2> QED
    BY <2>1, <2>2 DEF Unmarked, Half, PcOf, Undoing, Restoring
<1>8. DroppedIsWhole'
  BY <1>1, <1>7 DEF UpdateInv, DroppedIsWhole, Half, Whole
<1>9. WorkerFinds'
  BY <1>2, <1>3, Zenon DEF WorkerFinds, Replacing, Undoing
<1>10. RecoveryFinds' /\ RestoreAlone' /\ Restored'
  BY <1>2, <1>3 DEF RecoveryFinds, RestoreAlone, Restored, Restoring, Undoing
<1> QED
  BY <1>5, <1>6, <1>8, <1>9, <1>10 DEF UpdateInv

\* Every step keeps the invariant.
LEMMA UpdateInvStep == ASSUME Undisturbed PROVE UpdateInv /\ [UpdateNext]_updateVars => UpdateInv'
<1> SUFFICES ASSUME UpdateInv, [UpdateNext]_updateVars PROVE UpdateInv'
  OBVIOUS
<1>1. CASE SaveBegins \/ SaveEnds \/ DownloadCommits
  BY <1>1, SavesUpdateInv
<1>2. CASE PowerCut
  BY <1>2, PowerCutUpdateInv
<1>3. CASE WorkerStep(Worker)
  BY <1>3, PreparationUpdateInv, BackupUpdateInv, ReplacementUpdateInv, Zenon DEF WorkerStep
<1>4. ASSUME NEW r \in Recoverers, Recover(r) PROVE UpdateInv'
  BY <1>4, RecoverUpdateInv
<1>5. ASSUME NEW p \in Procs, RestoreStep(p) \/ RestoreFails(p) \/ ProcKilled(p) PROVE UpdateInv'
  <2>1. RestoreEnds(p) => PcOf(p) \in {"check", "unlock"}
    BY DEF RestoreEnds, At, PcOf
  <2>2. CASE Drop(p)
    BY <2>2, DropUpdateInv
  <2>3. CASE ClaimRestore(p) /\ tx # Nothing
    BY <2>3, ClaimUpdateInv
  <2>4. CASE Unpack(p) \/ RestoreHooks(p) \/ (RestoreEnds(p) /\ PcOf(p) = "check")
    BY <2>4, UndoUpdateInv
  <2>5. CASE \/ TakeLock(p) \/ (ClaimRestore(p) /\ tx = Nothing) \/ RestoreFails(p)
             \/ (RestoreEnds(p) /\ PcOf(p) = "unlock") \/ ProcKilled(p)
    BY <2>5, TurnsUpdateInv
  <2> QED
    BY <1>5, <2>1, <2>2, <2>3, <2>4, <2>5 DEF RestoreStep
<1>6. CASE UNCHANGED updateVars
  <2>1. /\ UNCHANGED <<tx, lock, program, hooks, config, saved, saving, boot, proc, updates, mishaps>>
        /\ \A p \in Procs : PcOf(p)' = PcOf(p)
    BY <1>6 DEF updateVars, PcOf
  <2>2. (Half' <=> Half) /\ (Whole' <=> Whole) /\ \A q \in Procs : (Open(q)' <=> Open(q)) /\ (OwnedBy(q)' <=> OwnedBy(q))
    BY <2>1, Zenon DEF Half, Whole, Open, OwnedBy
  <2>3. Worker \in Procs /\ \A r \in Recoverers : r \in Procs
    BY DEF Procs
  <2>4. UpdateTypeOK' /\ BackupSound' /\ MarkersOrdered' /\ SavesThere'
    BY <2>1, Zenon DEF UpdateInv, UpdateTypeOK, BackupSound, MarkersOrdered, SavesThere
  <2>5. WorkerFinds' /\ DroppedIsWhole'
    BY <2>1, <2>2, <2>3, Zenon DEF UpdateInv, WorkerFinds, DroppedIsWhole
  <2>6. RecoveryFinds'
    BY <2>1, <2>2, <2>3, ZenonT(60) DEF UpdateInv, RecoveryFinds
  <2>7. RestoreAlone' /\ Restored'
    BY <2>1, <2>2, <2>3, ZenonT(60) DEF UpdateInv, RestoreAlone, Restored
  <2> QED
    BY <2>4, <2>5, <2>6, <2>7 DEF UpdateInv
<1> QED
  BY <1>1, <1>2, <1>3, <1>4, <1>5, <1>6, Zenon DEF UpdateNext

\* The invariant of the update transaction.
LEMMA UpdateInvAlways == ASSUME Undisturbed PROVE UpdateSpec => []UpdateInv
  BY UpdateInvInit, UpdateInvStep, PTL DEF UpdateSpec

\* AllOrNothing: update.sh, its rollback trap and update-recover.sh leave one version
\* installed whenever no transaction is open, wherever kills, power cuts, failing
\* commands and failing restores end them and however recoveries overlap.
THEOREM OneVersion == ASSUME Undisturbed PROVE UpdateSpec => []AllOrNothing
<1>1. UpdateInv => AllOrNothing
  <2> SUFFICES ASSUME UpdateInv, tx = Nothing PROVE Whole
    BY DEF AllOrNothing, Whole
  <2>1. PcOf(Worker) \notin Undoing
    BY Zenon DEF UpdateInv, WorkerFinds, Open
  <2> QED
    BY <2>1 DEF UpdateInv, DroppedIsWhole
<1> QED
  BY <1>1, UpdateInvAlways, PTL

\* SavesKept: a settings change that MutationGuard let through before the marker was
\* there is in the backup, so that no rollback takes it away.
THEOREM SettingsSurvive == ASSUME Undisturbed PROVE UpdateSpec => []SavesKept
<1>1. UpdateInv => SavesKept
  BY DEF UpdateInv, SavesThere, SavesKept
<1> QED
  BY <1>1, UpdateInvAlways, PTL
=============================================================================
