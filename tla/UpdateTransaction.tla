-------------------------- MODULE UpdateTransaction --------------------------
(***************************************************************************)
(* The software update of the router (merlin/scripts/update.sh): a         *)
(* transaction over the installed program, the firmware hooks and          *)
(* config.yaml, kept in the directory .update-transaction.  The worker     *)
(* prepares a backup, replaces the program, checks its health and commits; *)
(* if a step fails it rolls back, and if it dies the recovery entry        *)
(* points (the boot hooks and every start of the service) decide from what *)
(* the directory holds.  Settings saved through the web UI are refused     *)
(* while the directory exists; a subscription download that was started    *)
(* before is not.                                                          *)
(***************************************************************************)
EXTENDS Naturals, FiniteSets

CONSTANTS Worker,          \* the process running update.sh
          Recoverers,      \* processes running update-recover.sh --recover
          Disturbances,    \* what may go wrong besides deaths elsewhere: a death
                           \* inside "restore", a signal right after the "commit", a
                           \* rollback that began before the marker "prepared" and stops
          MaxUpdates, MaxSaves, MaxMishaps,
          Mixed,           \* a half replaced program, a removed config.yaml
          Nothing

ASSUME ProcsApart == Worker \notin Recoverers /\ Nothing \notin Recoverers /\ Nothing # Worker
ASSUME MixedApart == Mixed \notin Nat
ASSUME UpdateBounds == MaxUpdates \in Nat /\ MaxSaves \in Nat /\ MaxMishaps \in Nat

VARIABLES tx,       \* the directory .update-transaction
          lock,     \* the directory .update-restore-lock exists
          program, hooks,
          config,   \* version of config.yaml
          saved,    \* what users were told is saved, by route
          saving,   \* a settings save holds the MutationGuard
          boot, proc, updates, mishaps

updateVars == <<tx, lock, program, hooks, config, saved, saving, boot, proc, updates, mishaps>>

Procs == Recoverers \cup {Worker}
Versions == 0 .. MaxUpdates
Settings == (0 .. MaxSaves) \cup {Mixed}
TxFiles == {"owner", "backup", "external", "prepared", "committed"}
Directories == [files : SUBSET TxFiles, owner : Procs \cup {Nothing}, boot : Nat,
                program : Versions \cup {Mixed}, hooks : Versions, config : Settings]

ASSUME NoDirectory == Nothing \notin Directories

Preparing == {"own", "barrier", "backup"}
Replacing == {"prepare", "verify", "replace", "replacing", "integrate", "health", "committed"}
Restoring == {"claim", "unpack", "unpacking", "external", "check", "unlock"}
Steps == {"idle", "mkdir", "rollback", "cleanup", "drop", "lock"} \cup Preparing \cup Replacing \cup Restoring

UpdateTypeOK ==
    /\ tx \in Directories \cup {Nothing}
    /\ lock \in BOOLEAN /\ saving \in BOOLEAN
    /\ program \in Versions \cup {Mixed} /\ hooks \in Versions
    /\ config \in Settings
    /\ saved \in [{"settings", "download"} -> 0 .. MaxSaves]
    /\ proc \in [Procs -> [pc : Steps, hash : Settings]]
    /\ boot \in Nat /\ updates \in 0 .. MaxUpdates /\ mishaps \in 0 .. MaxMishaps

UpdateInit ==
    /\ tx = Nothing /\ lock = FALSE /\ saving = FALSE
    /\ program = 0 /\ hooks = 0 /\ config = 0
    /\ saved = [r \in {"settings", "download"} |-> 0]
    /\ boot = 0 /\ updates = 0 /\ mishaps = 0
    /\ proc = [p \in Procs |-> [pc |-> "idle", hash |-> 0]]

Goto(p, pc) == proc' = [proc EXCEPT ![p].pc = pc]
At(p, pc) == proc[p].pc = pc
installed == <<program, hooks, config>>
others == <<saved, saving, boot>>

-----------------------------------------------------------------------------
(* Saves of config.yaml by other processes.                                  *)

\* storage::MutationGuard::acquire: the lock first, then the look for the marker.
SaveBegins ==
    /\ ~ saving /\ tx = Nothing
    /\ saving' = TRUE
    /\ UNCHANGED <<tx, lock, installed, saved, boot, proc, updates, mishaps>>

\* The handler refuses the change or writes it, then drops the guard.
SaveEnds ==
    /\ saving /\ saving' = FALSE
    /\ \/ UNCHANGED <<config, saved>>
       \/ /\ config # Mixed /\ config < MaxSaves
          /\ config' = config + 1
          /\ saved' = [saved EXCEPT !["settings"] = config + 1]
    /\ UNCHANGED <<tx, lock, program, hooks, boot, proc, updates, mishaps>>

\* commit_subscription_refresh of a job that is already downloading.
DownloadCommits ==
    /\ ~ saving /\ config # Mixed /\ config < MaxSaves
    /\ config' = config + 1
    /\ saved' = [saved EXCEPT !["download"] = config + 1]
    /\ UNCHANGED <<tx, lock, program, hooks, saving, boot, proc, updates, mishaps>>

-----------------------------------------------------------------------------
(* The worker: preparation.                                                  *)

\* The candidate accepts config.yaml, whose hash is remembered.
CheckConfig(p) ==
    /\ At(p, "idle") /\ updates < MaxUpdates /\ config # Mixed
    /\ proc' = [proc EXCEPT ![p] = [pc |-> "mkdir", hash |-> config]]
    /\ updates' = updates + 1
    /\ UNCHANGED <<tx, lock, installed, others, mishaps>>

\* A recovery that has looked at the directory takes its next command before the
\* worker gets from there to making a directory or packing the installation.
RecoveriesActed == \A r \in Recoverers : proc[r].pc \notin {"drop", "lock", "claim"}

MakeTx(p) ==
    /\ At(p, "mkdir") /\ RecoveriesActed
    /\ IF tx = Nothing
       THEN /\ tx' = [files |-> {}, owner |-> Nothing, boot |-> boot,
                      program |-> program, hooks |-> hooks, config |-> config]
            /\ Goto(p, "own")
       ELSE Goto(p, "idle") /\ UNCHANGED tx
    /\ UNCHANGED <<lock, installed, others, updates, mishaps>>

Claimed(p) == [tx EXCEPT !.files = @ \cup {"owner"}, !.owner = p, !.boot = boot]

\* claim_owner: nothing to write to when a recovery dropped the directory.
ClaimTx(p) ==
    /\ At(p, "own")
    /\ IF tx = Nothing THEN Goto(p, "idle") /\ UNCHANGED tx
                    ELSE tx' = Claimed(p) /\ Goto(p, "barrier")
    /\ UNCHANGED <<lock, installed, others, updates, mishaps>>

\* packing without waiting for the save in progress
Barrier_Skipped(p) ==
    /\ At(p, "barrier")
    /\ Goto(p, "backup")
    /\ UNCHANGED <<tx, lock, installed, others, updates, mishaps>>

\* --update-config-barrier waits for the save that began before the marker was there.
Barrier(p) ==
    /\ At(p, "barrier") /\ ~ saving
    /\ Goto(p, "backup")
    /\ UNCHANGED <<tx, lock, installed, others, updates, mishaps>>

\* backup.tar.gz and, in the same preparation, the copy of the hooks.
Backup(p) ==
    /\ At(p, "backup") /\ tx # Nothing /\ RecoveriesActed
    /\ tx' = [tx EXCEPT !.files = @ \cup {"backup", "external"},
                        !.program = program, !.hooks = hooks, !.config = config]
    /\ Goto(p, "prepare")
    /\ UNCHANGED <<lock, installed, others, updates, mishaps>>

Prepare(p) ==
    /\ At(p, "prepare")
    /\ tx' = [tx EXCEPT !.files = @ \cup {"prepared"}]
    /\ Goto(p, "verify")
    /\ UNCHANGED <<lock, installed, others, updates, mishaps>>

\* A failing command or a signal before the rollback trap: the preparation is discarded.
PreparationFails(p) ==
    /\ proc[p].pc \in Preparing \ {"own"}
    /\ tx' = Nothing
    /\ Goto(p, "idle")
    /\ UNCHANGED <<lock, installed, others, updates, mishaps>>

-----------------------------------------------------------------------------
(* The worker: replacement.                                                  *)

Verify(p) ==
    /\ At(p, "verify")
    /\ IF proc[p].hash = config THEN Goto(p, "replace") /\ UNCHANGED tx
                                ELSE Goto(p, "idle") /\ tx' = Nothing
    /\ UNCHANGED <<lock, installed, others, updates, mishaps>>

\* Between the first rm and the last mv the program is neither old nor new.
Replace(p) ==
    /\ \/ At(p, "replace") /\ program' = Mixed /\ Goto(p, "replacing")
       \/ At(p, "replacing") /\ program' = updates /\ Goto(p, "integrate")
    /\ UNCHANGED <<tx, lock, hooks, config, others, updates, mishaps>>

Integrate(p) ==
    /\ At(p, "integrate")
    /\ hooks' = updates
    /\ Goto(p, "health")
    /\ UNCHANGED <<tx, lock, program, config, others, updates, mishaps>>

\* A healthy candidate is committed; after the sync the rollback trap goes.
CommitUpdate(p) ==
    /\ \/ At(p, "health") /\ Goto(p, "committed") /\ tx' = [tx EXCEPT !.files = @ \cup {"committed"}]
       \/ At(p, "committed") /\ Goto(p, "cleanup") /\ UNCHANGED tx
    /\ UNCHANGED <<lock, installed, others, updates, mishaps>>

\* A failing command, an unhealthy candidate or a signal: the rollback trap.
UpdateFails(p) ==
    /\ proc[p].pc \in Replacing
    /\ At(p, "committed") => "commit" \in Disturbances
    /\ tx' = Claimed(p)
    /\ Goto(p, "rollback")
    /\ UNCHANGED <<lock, installed, others, updates, mishaps>>

\* rm -rf of the directory, in one step.
Cleanup(p) ==
    /\ At(p, "cleanup")
    /\ tx' = Nothing
    /\ Goto(p, "idle")
    /\ UNCHANGED <<lock, installed, others, updates, mishaps>>

-----------------------------------------------------------------------------
(* Rollback and recovery.                                                    *)

\* kill -0 of the recorded owner; a process that has not claimed is another one.
Alive(p) == p # Nothing /\ proc[p].pc \notin {"idle", "mkdir", "drop", "lock"}
OwnerAlive == "owner" \in tx.files /\ tx.boot = boot /\ Alive(tx.owner)

\* taking an unfinished preparation and an unfinished replacement alike
Recover_Drops(p) ==
    /\ At(p, "idle") /\ tx # Nothing /\ ~ OwnerAlive
    /\ Goto(p, "drop")
    /\ UNCHANGED <<tx, lock, installed, others, updates, mishaps>>

\* update-recover.sh --recover: what the directory holds decides.
Recover(p) ==
    /\ At(p, "idle") /\ tx # Nothing /\ ~ OwnerAlive
    /\ Goto(p, IF "committed" \in tx.files \/ "prepared" \notin tx.files THEN "drop" ELSE "lock")
    /\ UNCHANGED <<tx, lock, installed, others, updates, mishaps>>

\* exit 0 on a committed transaction, leaving it to somebody else
Drop_KeepsCommitted(p) ==
    /\ At(p, "drop")
    /\ tx' = IF tx # Nothing /\ "committed" \in tx.files THEN tx ELSE Nothing
    /\ Goto(p, "idle")
    /\ UNCHANGED <<lock, installed, others, updates, mishaps>>

Drop(p) ==
    /\ At(p, "drop")
    /\ tx' = Nothing
    /\ Goto(p, "idle")
    /\ UNCHANGED <<lock, installed, others, updates, mishaps>>

\* restore: mkdir of the lock, or give up.
TakeLock(p) ==
    /\ proc[p].pc \in {"rollback", "lock"}
    /\ lock' = TRUE
    /\ Goto(p, IF lock THEN "idle" ELSE "claim")
    /\ UNCHANGED <<tx, installed, others, updates, mishaps>>

\* claim_owner: under set -e a recovery that finds no directory ends here, with the lock.
ClaimRestore(p) ==
    /\ At(p, "claim")
    /\ IF tx = Nothing
       THEN Goto(p, IF p = Worker THEN "unlock" ELSE "idle") /\ UNCHANGED tx
       ELSE tx' = Claimed(p) /\ Goto(p, "unpack")
    /\ UNCHANGED <<lock, installed, others, updates, mishaps>>

Unpack(p) ==
    /\ \/ /\ At(p, "unpack") /\ "backup" \in tx.files
          /\ program' = Mixed /\ config' = Mixed
          /\ Goto(p, "unpacking")
       \/ /\ At(p, "unpack") /\ "backup" \notin tx.files
          /\ Goto(p, "external")
          /\ UNCHANGED <<program, config>>
       \/ /\ At(p, "unpacking")
          /\ program' = tx.program /\ config' = tx.config
          /\ Goto(p, "external")
    /\ UNCHANGED <<tx, lock, hooks, others, updates, mishaps>>

RestoreHooks(p) ==
    /\ At(p, "external")
    /\ hooks' = IF "external" \in tx.files THEN tx.hooks ELSE hooks
    /\ Goto(p, "check")
    /\ UNCHANGED <<tx, lock, program, config, others, updates, mishaps>>

\* The rollback trap is set before the marker is made: recovery discards what such a
\* rollback leaves, the backup included.
Unmarked(p) == proc[p].pc \in Restoring /\ tx # Nothing /\ "prepared" \notin tx.files

\* An archive that does not unpack, a program that does not start or answer.
RestoreFails(p) ==
    /\ proc[p].pc \in {"unpack", "unpacking", "external", "check"} /\ mishaps < MaxMishaps
    /\ Unmarked(p) => "prepared" \in Disturbances
    /\ mishaps' = mishaps + 1
    /\ Goto(p, "unlock")
    /\ UNCHANGED <<tx, lock, installed, others, updates>>

\* The restored program starts and passes the health check.
RestoreEnds(p) ==
    /\ \/ At(p, "check") /\ tx' = Nothing /\ Goto(p, "unlock") /\ UNCHANGED lock
       \/ At(p, "unlock") /\ Goto(p, "idle") /\ lock' = FALSE /\ UNCHANGED tx
    /\ UNCHANGED <<installed, others, updates, mishaps>>

-----------------------------------------------------------------------------
(* Death of the processes.                                                   *)

MayDie(p) == /\ proc[p].pc \in Restoring => "restore" \in Disturbances
             /\ Unmarked(p) => "prepared" \in Disturbances

\* kill -9: the traps do not run.
ProcKilled(p) ==
    /\ ~ At(p, "idle") /\ MayDie(p) /\ mishaps < MaxMishaps
    /\ Goto(p, "idle")
    /\ mishaps' = mishaps + 1
    /\ UNCHANGED <<tx, lock, installed, others, updates>>

PowerCut ==
    /\ \A p \in Procs : MayDie(p)
    /\ mishaps < MaxMishaps
    /\ proc' = [p \in Procs |-> [proc[p] EXCEPT !.pc = "idle"]]
    /\ saving' = FALSE
    /\ boot' = boot + 1
    /\ mishaps' = mishaps + 1
    /\ UNCHANGED <<tx, lock, installed, saved, updates>>

-----------------------------------------------------------------------------
WorkerStep(p) ==
    \/ CheckConfig(p) \/ MakeTx(p) \/ ClaimTx(p) \/ Barrier(p) \/ Backup(p) \/ Prepare(p)
    \/ PreparationFails(p) \/ Verify(p) \/ Replace(p) \/ Integrate(p)
    \/ CommitUpdate(p) \/ UpdateFails(p) \/ Cleanup(p)

RestoreStep(p) ==
    Drop(p) \/ TakeLock(p) \/ ClaimRestore(p) \/ Unpack(p) \/ RestoreHooks(p)
    \/ RestoreEnds(p)

UpdateNext ==
    \/ SaveBegins \/ SaveEnds \/ DownloadCommits \/ PowerCut
    \/ WorkerStep(Worker)
    \/ \E r \in Recoverers : Recover(r)
    \/ \E p \in Procs : RestoreStep(p) \/ RestoreFails(p) \/ ProcKilled(p)

\* Scripts run on once started, the service is started again as long as the
\* transaction is there, and (MaxMishaps) a restore succeeds sooner or later.
UpdateFairness ==
    /\ WF_updateVars(SaveEnds)
    /\ WF_updateVars((~ At(Worker, "idle") /\ WorkerStep(Worker)) \/ RestoreStep(Worker))
    /\ \A r \in Recoverers : WF_updateVars(Recover(r) \/ RestoreStep(r))

UpdateSpec == UpdateInit /\ [][UpdateNext]_updateVars /\ UpdateFairness

-----------------------------------------------------------------------------
(* What the transaction promises.                                            *)

\* When no transaction is open the installation is one version throughout:
\* program and hooks belong together and config.yaml is there, whatever step
\* of the update, rollback or recovery a power cut or a kill ended.
AllOrNothing ==
    tx = Nothing => /\ program = hooks /\ program # Mixed /\ config # Mixed

\* A settings save that the web UI acknowledged is in config.yaml whenever no
\* transaction is open: a rollback never puts back a file from before it.
SavesKept == tx = Nothing /\ config # Mixed => config >= saved["settings"]

\* An open transaction is finished, by its worker or by recovery, unless a
\* recovery died and left its lock.
TransactionEnds ==
    tx # Nothing ~> (tx = Nothing \/ (lock /\ \A p \in Procs : proc[p].pc \notin Restoring))

\* "recovery runs before normal boot dispatch": however the worker and its
\* recoveries die, the transaction is finished by a later recovery.
RecoveryEnds == tx # Nothing ~> tx = Nothing
=============================================================================
