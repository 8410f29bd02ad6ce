----------------------------- MODULE AtomicFile -----------------------------
(***************************************************************************)
(* atomic_write_private of core/config/storage.rs, with which config.yaml, *)
(* the GUI state, the traffic history, the fake-IP pool and the journals   *)
(* of the system settings are saved: a temporary file is written, synced   *)
(* and renamed over the old one and the directory is synced; with a backup *)
(* the old text first goes the same way to .yaml.bak.  A power cut keeps   *)
(* for every name the entry the directory had on disk or a later one, and  *)
(* loses the data of a file that was never synced.  Texts are numbered in  *)
(* the order they are written.                                             *)
(***************************************************************************)
EXTENDS Naturals

CONSTANT MaxWrites     \* bound: texts written

VARIABLES seen,        \* directory entries as processes see them
          kept,        \* directory entries on the medium
          tmp,         \* the temporary file of each name
          writer,      \* the step of the one writer (callers hold a lock)
          writes,
          acked        \* the last text whose write returned Ok

fileVars == <<seen, kept, tmp, writer, writes, acked>>

Names == {"conf", "bak"}
WriterSteps == {"idle", "tmp", "backup", "baktmp", "bakrename", "baksync", "rename", "sync"}

\* A file whose data reached the medium, one whose data did not, a torn one.
Whole(text) == [text |-> text, data |-> "synced"]
Fresh(text) == [text |-> text, data |-> "cached"]
Torn(f) == IF f.data = "synced" THEN f ELSE [text |-> f.text, data |-> "lost"]
File == [text : Nat, data : {"synced", "cached", "lost"}]

FileTypeOK ==
    /\ seen \in [Names -> File] /\ kept \in [Names -> File] /\ tmp \in [Names -> File]
    /\ writer \in WriterSteps /\ writes \in Nat /\ acked \in Nat

\* Text 0 is the configuration the installer left, and its backup.
FileInit ==
    /\ seen = [n \in Names |-> Whole(0)] /\ kept = seen /\ tmp = seen
    /\ writer = "idle" /\ writes = 0 /\ acked = 0

-----------------------------------------------------------------------------
WriteTmp ==
    /\ writer = "idle" /\ writes < MaxWrites
    /\ tmp' = [tmp EXCEPT !["conf"] = Fresh(writes + 1)]
    /\ writes' = writes + 1 /\ writer' = "tmp"
    /\ UNCHANGED <<seen, kept, acked>>

\* sync_all; whether a backup is made is the caller's choice.
SyncTmp ==
    /\ writer = "tmp"
    /\ tmp' = [tmp EXCEPT !["conf"] = Whole(tmp["conf"].text)]
    /\ writer' \in {"backup", "rename"}
    /\ UNCHANGED <<seen, kept, writes, acked>>

\* The nested atomic_write_private(backup, previous, false).
WriteBackup ==
    /\ \/ /\ writer = "backup" /\ writer' = "baktmp"
          /\ tmp' = [tmp EXCEPT !["bak"] = Fresh(seen["conf"].text)]
          /\ UNCHANGED <<seen, kept>>
       \/ /\ writer = "baktmp" /\ writer' = "bakrename"
          /\ tmp' = [tmp EXCEPT !["bak"] = Whole(tmp["bak"].text)]
          /\ UNCHANGED <<seen, kept>>
       \/ /\ writer = "bakrename" /\ writer' = "baksync"
          /\ seen' = [seen EXCEPT !["bak"] = tmp["bak"]]
          /\ UNCHANGED <<kept, tmp>>
       \/ /\ writer = "baksync" /\ writer' = "rename"
          /\ kept' = seen
          /\ UNCHANGED <<seen, tmp>>
    /\ UNCHANGED <<writes, acked>>

RenameTmp ==
    /\ writer = "rename"
    /\ seen' = [seen EXCEPT !["conf"] = tmp["conf"]]
    /\ writer' = "sync"
    /\ UNCHANGED <<kept, tmp, writes, acked>>

\* Ok without the sync of the directory
SyncDir_Skipped ==
    /\ writer = "sync"
    /\ acked' = seen["conf"].text
    /\ writer' = "idle"
    /\ UNCHANGED <<seen, kept, tmp, writes>>

SyncDir ==
    /\ writer = "sync"
    /\ kept' = seen
    /\ acked' = seen["conf"].text
    /\ writer' = "idle"
    /\ UNCHANGED <<seen, tmp, writes>>

\* An error of any call (the temporary file is removed), or the process is killed.
WriteStops ==
    /\ writer # "idle"
    /\ writer' = "idle"
    /\ UNCHANGED <<seen, kept, tmp, writes, acked>>

\* The system writes a directory entry back on its own.
WriteBack(n) ==
    /\ kept[n] # seen[n]
    /\ kept' = [kept EXCEPT ![n] = seen[n]]
    /\ UNCHANGED <<seen, tmp, writer, writes, acked>>

PowerFails ==
    /\ \E back \in SUBSET Names :
          seen' = [n \in Names |-> Torn(IF n \in back THEN kept[n] ELSE seen[n])]
    /\ kept' = seen'
    /\ writer' = "idle"
    /\ UNCHANGED <<tmp, writes, acked>>

FileNext ==
    \/ WriteTmp \/ SyncTmp \/ WriteBackup \/ RenameTmp \/ SyncDir \/ WriteStops
    \/ (\E n \in Names : WriteBack(n)) \/ PowerFails

FileSpec == FileInit /\ [][FileNext]_fileVars

-----------------------------------------------------------------------------
\* What is read after any crash is a complete file: the configuration and its
\* backup, "the only recovery snapshot", are never both the work of a cut.
AlwaysWhole == \A n \in Names : seen[n].data = "synced" /\ kept[n].data = "synced"

\* A write that returned Ok survives: neither what is read nor what a power cut
\* would leave is older than it.
AckedSurvives == seen["conf"].text >= acked /\ kept["conf"].text >= acked

\* The file is a durable register: readers see one step from the old text to the
\* new, a power cut leaves one of the two, and a write returns Ok only when its
\* text can no longer be lost.
Register ==
    INSTANCE DurableRegister WITH current <- seen["conf"].text,
                                  settled <- kept["conf"].text, returned <- acked
IsRegister == Register!RegisterSpec
=============================================================================
