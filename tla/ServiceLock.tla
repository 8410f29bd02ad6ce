----------------------------- MODULE ServiceLock -----------------------------
(***************************************************************************)
(* The lock of the router service (acquire_lock, release_lock and          *)
(* run_locked of sockrocket.sh): a directory with the holder's pid in a    *)
(* file.  A waiter that finds a dead holder removes the directory and      *)
(* tries again.  mkdir is atomic; reading the holder, finding it dead and  *)
(* removing the directory are not.  Every command is a process of its own, *)
(* so a holder that has ended is as dead as one that was killed.           *)
(***************************************************************************)
EXTENDS Naturals, FiniteSets

CONSTANTS Procs,
          MaxDeaths,   \* bound: processes that are killed
          None

VARIABLES lockdir,     \* the directory exists
          pidfile,     \* the pid in it
          proc,        \* each process: where it is and the holder it read
          deaths

lockVars == <<lockdir, pidfile, proc, deaths>>

Steps == {"idle", "mkdir", "write", "look", "check", "break", "hold", "unpid", "rmdir", "gone"}
LockTypeOK ==
    /\ lockdir \in BOOLEAN /\ pidfile \in Procs \cup {None}
    /\ proc \in [Procs -> [pc : Steps, holder : Procs \cup {None}]]
    /\ deaths \in 0 .. MaxDeaths

LockInit ==
    /\ lockdir = FALSE /\ pidfile = None /\ deaths = 0
    /\ proc = [p \in Procs |-> [pc |-> "idle", holder |-> None]]

Goes(p, from, to, holder) ==
    proc[p].pc = from /\ proc' = [proc EXCEPT ![p] = [pc |-> to, holder |-> holder]]

Request(p) == Goes(p, "idle", "mkdir", None) /\ UNCHANGED <<lockdir, pidfile, deaths>>

MakesDir(p) == /\ ~ lockdir /\ lockdir' = TRUE
               /\ Goes(p, "mkdir", "write", None)
               /\ UNCHANGED <<pidfile, deaths>>
\* echo $$ > pid: fails, unnoticed, when the directory is gone again.
WritesPid(p) == /\ Goes(p, "write", "hold", None)
                /\ pidfile' = IF lockdir THEN p ELSE pidfile
                /\ UNCHANGED <<lockdir, deaths>>

FindsDir(p) == lockdir /\ Goes(p, "mkdir", "look", None) /\ UNCHANGED <<lockdir, pidfile, deaths>>
ReadsHolder(p) == Goes(p, "look", "check", pidfile) /\ UNCHANGED <<lockdir, pidfile, deaths>>
\* kill -0; without a holder, or with a live one, the waiter sleeps and retries, or
\* gives up in the end.
ChecksHolder(p) ==
    LET h == proc[p].holder
    IN /\ IF h # None /\ proc[h].pc = "gone" THEN Goes(p, "check", "break", h)
          ELSE Goes(p, "check", "mkdir", None) \/ Goes(p, "check", "gone", None)
       /\ UNCHANGED <<lockdir, pidfile, deaths>>
BreaksLock(p) == /\ Goes(p, "break", "mkdir", None)
                 /\ lockdir' = FALSE /\ pidfile' = None /\ UNCHANGED deaths

\* The command ends: rm -f pid, then rmdir, which only removes an empty directory.
Ends(p) == Goes(p, "hold", "unpid", None) /\ UNCHANGED <<lockdir, pidfile, deaths>>
RemovesPid(p) == Goes(p, "unpid", "rmdir", None) /\ pidfile' = None /\ UNCHANGED <<lockdir, deaths>>
RemovesDir(p) == /\ Goes(p, "rmdir", "gone", None)
                 /\ lockdir' = (lockdir /\ pidfile # None)
                 /\ UNCHANGED <<pidfile, deaths>>

\* kill -9 runs no trap.
Dies(p) == /\ deaths < MaxDeaths /\ deaths' = deaths + 1
           /\ proc[p].pc \notin {"idle", "gone"}
           /\ proc' = [proc EXCEPT ![p] = [pc |-> "gone", holder |-> None]]
           /\ UNCHANGED <<lockdir, pidfile>>

LockStep(p) ==
    \/ Request(p) \/ MakesDir(p) \/ WritesPid(p) \/ FindsDir(p) \/ ReadsHolder(p)
    \/ ChecksHolder(p) \/ BreaksLock(p) \/ Ends(p) \/ RemovesPid(p) \/ RemovesDir(p) \/ Dies(p)
LockNext == \E p \in Procs : LockStep(p)
LockSpec == LockInit /\ [][LockNext]_lockVars

\* "atomic mkdir-based, no TOCTOU race": two commands never run at the same time.
Exclusive == Cardinality({p \in Procs : proc[p].pc = "hold"}) <= 1
=============================================================================
