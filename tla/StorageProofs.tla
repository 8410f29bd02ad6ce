--------------------------- MODULE StorageProofs ----------------------------
(***************************************************************************)
(* Proofs about config.yaml.  AtomicFile, for any number of writes: the    *)
(* files are whole and acknowledged writes survive whatever a power cut    *)
(* interrupts, and the configuration behaves as a durable register.        *)
(* ConfigStore, for any sets of subscriptions and processes: no handler    *)
(* overwrites another's change and no commit brings back nodes older than  *)
(* the ones it replaces.                                                   *)
(***************************************************************************)
EXTENDS ConfigStore, AtomicFile, TLAPS

\* What the temporary files hold at each step of the writer.
FileInv ==
    /\ FileTypeOK /\ AlwaysWhole /\ AckedSurvives
    /\ \A n \in Names : seen[n].text <= writes /\ kept[n].text <= writes
    /\ writer \in {"tmp", "backup", "baktmp", "bakrename", "baksync", "rename"}
          => tmp["conf"].text > seen["conf"].text /\ tmp["conf"].text <= writes
    /\ writer \in {"backup", "baktmp", "bakrename", "baksync", "rename"}
          => tmp["conf"].data = "synced"
    /\ writer \in {"baktmp", "bakrename"} => tmp["bak"].text <= writes
    /\ writer = "bakrename" => tmp["bak"].data = "synced"

\* The file before the first write.
LEMMA FileInvInit == FileInit => FileInv
  BY DEF FileInit, FileInv, FileTypeOK, AlwaysWhole, AckedSurvives, Whole, File, Names, WriterSteps

\* Every system call, its failure and a power cut keep the invariant.
LEMMA FileInvStep ==
  ASSUME FileInv, FileNext
  PROVE  FileInv'
<1> USE DEF FileInv, FileTypeOK, AlwaysWhole, AckedSurvives, Names, WriterSteps, File
<1>1. CASE WriteTmp
  BY <1>1 DEF WriteTmp, Fresh
<1>2. CASE SyncTmp
  BY <1>2 DEF SyncTmp, Whole
<1>3. CASE WriteBackup
  BY <1>3 DEF WriteBackup, Fresh, Whole
<1>4. CASE RenameTmp
  BY <1>4 DEF RenameTmp
<1>5. CASE SyncDir
  BY <1>5 DEF SyncDir
<1>6. CASE WriteStops
  BY <1>6 DEF WriteStops
<1>7. CASE \E n \in Names : WriteBack(n)
  BY <1>7 DEF WriteBack
<1>8. CASE PowerFails
  BY <1>8 DEF PowerFails, Torn
<1> QED
  BY <1>1, <1>2, <1>3, <1>4, <1>5, <1>6, <1>7, <1>8 DEF FileNext

\* The invariant of the file.
LEMMA FileInvAlways == FileSpec => []FileInv
<1>1. FileInv /\ UNCHANGED fileVars => FileInv'
  BY DEF FileInv, FileTypeOK, AlwaysWhole, AckedSurvives, fileVars
<1> QED
  BY <1>1, FileInvInit, FileInvStep, PTL DEF FileSpec

\* For any number of writes no cut leaves an incomplete configuration or backup.
THEOREM NeverTorn == FileSpec => []AlwaysWhole
<1>1. FileInv => AlwaysWhole
  BY DEF FileInv
<1> QED
  BY <1>1, FileInvAlways, PTL

\* For any number of writes an acknowledged one is never undone by a power cut.
THEOREM AcknowledgedSurvives == FileSpec => []AckedSurvives
<1>1. FileInv => AckedSurvives
  BY DEF FileInv
<1> QED
  BY <1>1, FileInvAlways, PTL

\* The protocol of temporary file, rename and syncs implements the register.
THEOREM RegisterImplemented == FileSpec => IsRegister
<1>1. FileInit => Register!RegisterInit
  BY DEF FileInit, Register!RegisterInit, Whole, Names
<1>2. ASSUME FileInv, FileNext
      PROVE  Register!RegisterNext \/ UNCHANGED <<seen["conf"].text, kept["conf"].text, acked>>
  <2> USE DEF FileInv, FileTypeOK, Names, File, Register!RegisterNext
  <2>1. CASE WriteTmp \/ SyncTmp \/ WriteStops
    BY <2>1 DEF WriteTmp, SyncTmp, WriteStops
  <2>2. CASE WriteBackup
    BY <1>2, <2>2 DEF WriteBackup, Register!Settle
  <2>3. CASE RenameTmp
    BY <1>2, <2>3 DEF RenameTmp, Register!Put
  <2>4. CASE SyncDir
    BY <1>2, <2>4 DEF SyncDir, Register!Return
  <2>5. CASE \E n \in Names : WriteBack(n)
    BY <1>2, <2>5 DEF WriteBack, Register!Settle
  <2>6. CASE PowerFails
    BY <1>2, <2>6 DEF PowerFails, Torn, Register!PowerLoss
  <2> QED
    BY <1>2, <2>1, <2>2, <2>3, <2>4, <2>5, <2>6 DEF FileNext
<1>3. UNCHANGED fileVars => UNCHANGED <<seen["conf"].text, kept["conf"].text, acked>>
  BY DEF fileVars
<1> QED
  BY <1>1, <1>2, <1>3, FileInvAlways, PTL DEF FileSpec, IsRegister, Register!RegisterSpec

-----------------------------------------------------------------------------
(* The writers of the file.                                                  *)

\* Who is past the lock holds it, and what it read is still in the file.
LockInv ==
    /\ StoreTypeOK
    /\ \A h \in Handlers :
          /\ handler[h].pc \in {"locked", "write"} => holder = h
          /\ handler[h].pc = "write" /\ handler[h].req # "edit" => handler[h].copy = file
          /\ handler[h].req = "edit" /\ handler[h].pc \in {"wait", "locked", "write"} => handler[h].copy # None
          /\ handler[h].pc = "write" => handler[h].copy # None
          /\ handler[h].pc = "fetch" => handler[h].req = "commit"

USE StoreAssumption

\* A handler at rest.
LEMMA IdleTyped == Idle \in HandlerState
  BY DEF Idle, HandlerState, Requests

\* No text is None.
LEMMA NoneIsNoContent == None \notin Content
  BY DEF Content, Source

\* A text with one subscription replaced is a text.
LEMMA WithSourceTyped ==
  ASSUME NEW c \in Content, NEW u, NEW s \in Source \cup {Absent}
  PROVE  WithSource(c, u, s) \in Content
  BY Zenon DEF Content, WithSource

\* No handler has begun.
LEMMA LockInit == StoreInit => LockInv
  BY IdleTyped DEF StoreInit, LockInv, StoreTypeOK, Content, Source, Idle

\* A step that replaces the state of h by s keeps the invariant if it leaves the
\* others' lock alone and writes the file only with the lock.
LEMMA LockReplace ==
  ASSUME LockInv, NEW h \in Handlers, NEW s \in HandlerState, Becomes(h, s),
         file' \in Content, page' = page, holder' \in {holder, h, None},
         revisions' \in Nat, downloads' \in Nat,
         holder' # holder => holder \in {h, None},
         file' # file => holder = h,
         s.pc \in {"locked", "write"} => holder' = h,
         s.pc = "write" => s.copy # None /\ (s.req # "edit" => s.copy = file'),
         s.pc = "fetch" => s.req = "commit",
         s.req = "edit" /\ s.pc \in {"wait", "locked", "write"} => s.copy # None
  PROVE  LockInv'
<1>1. handler' = [handler EXCEPT ![h] = s] /\ handler' \in [Handlers -> HandlerState]
  BY DEF Becomes, LockInv, StoreTypeOK
<1>2. StoreTypeOK'
  BY <1>1 DEF LockInv, StoreTypeOK
<1>3. ASSUME NEW g \in Handlers, g # h
      PROVE  /\ handler[g].pc \in {"locked", "write"} => holder' = g
             /\ handler[g].pc = "write" => file' = file
  <2>1. handler[g].pc \in {"locked", "write"} => holder = g /\ g # None
    BY DEF LockInv
  <2> QED
    BY <1>3, <2>1
<1>4. \A g \in Handlers : handler'[g] = IF g = h THEN s ELSE handler[g]
  BY <1>1 DEF LockInv, StoreTypeOK
<1> QED
  BY <1>2, <1>3, <1>4 DEF LockInv

\* Every step of the handlers keeps the discipline of the lock.
LEMMA LockStep ==
  ASSUME LockInv, StoreNext
  PROVE  LockInv'
<1>1. CASE LoadPage
  BY <1>1 DEF LoadPage, LockInv, StoreTypeOK
<1>2. ASSUME NEW h \in Handlers, HandlerStep(h) PROVE LockInv'
  <2> USE DEF LockInv, StoreTypeOK
  <2>0. handler[h] \in HandlerState
    OBVIOUS
  <2>1. ASSUME NEW req \in {"add", "delete", "set", "edit", "update"}, NEW u \in Urls \cup {None}, Begin(h, req, u)
        PROVE LockInv'
    BY <2>0, <2>1, LockReplace, Zenon DEF Begin, HandlerState, Requests
  <2>3. CASE Acquire(h)
    BY <2>0, <2>3, LockReplace, Zenon DEF Acquire, State, HandlerState
  <2>4. CASE Busy(h)
    BY <2>0, <2>4, IdleTyped, LockReplace, Zenon DEF Busy, Idle
  <2>5. CASE Load(h)
    <3> DEFINE s == State(h, "write", IF handler[h].req = "edit" THEN handler[h].copy ELSE file,
                          handler[h].snap, handler[h].got)
    <3>1. s \in HandlerState
      BY <2>0 DEF State, HandlerState
    <3>2. s.pc = "write" /\ s.req = handler[h].req /\ s.copy # None
      BY <2>0, <2>5, NoneIsNoContent DEF Load, State, HandlerState
    <3>3. s.req # "edit" => s.copy = file
      BY DEF State
    <3> QED
      BY <2>5, <3>1, <3>2, <3>3, LockReplace, Zenon DEF Load
  <2>6. CASE Refuse(h)
    BY <2>0, <2>6, IdleTyped, LockReplace, Zenon DEF Refuse, Idle
  <2>7. CASE Killed(h)
    BY <2>0, <2>7, IdleTyped, LockReplace, Zenon DEF Killed, Idle
  <2>8. CASE Add(h)
    <3> DEFINE u == handler[h].url
               s == [pc |-> "fetch", req |-> "commit", url |-> None, copy |-> None,
                     snap |-> [v \in Urls |-> IF v = u THEN revisions + 1 ELSE 0],
                     got |-> [v \in Urls |-> 0]]
    <3>1. s \in HandlerState
      BY DEF HandlerState, Requests
    <3>2. file' \in Content
      <4>1. handler[h].copy \in Content
        BY <2>0, <2>8 DEF Add, HandlerState
      <4>2. [rev |-> revisions + 1, nodes |-> 0] \in Source
        BY SMTT(30) DEF Source
      <4> QED
        BY <2>8, <4>1, <4>2, WithSourceTyped DEF Add, Store
    <3> QED
      BY <2>8, <3>1, <3>2, LockReplace DEF Add, Store
  <2>9. CASE Delete(h)
    BY <2>0, <2>9, IdleTyped, LockReplace, ZenonT(30) DEF Delete, Store, WithSource, Idle, Content, HandlerState
  <2>10. CASE Set(h)
    <3>1. handler[h].copy \in Content /\ holder = h
      BY <2>0, <2>10 DEF Set, HandlerState
    <3>2. file' \in Content
      BY <2>10, <3>1 DEF Set, Store, Content
    <3> QED
      BY <2>10, <3>1, <3>2, IdleTyped, LockReplace DEF Set, Store, Idle
  <2>11. CASE Edit(h)
    BY <2>0, <2>11, IdleTyped, LockReplace, Zenon DEF Edit, Store, Idle, HandlerState
  <2>12. ASSUME NEW c \in Content PROVE Downloading(c) \in HandlerState
    BY Zenon DEF Downloading, HandlerState, Content, Source, Requests
  <2>13. CASE Snapshot(h)
    BY <2>0, <2>12, <2>13, LockReplace, Zenon DEF Snapshot, Downloading, HandlerState
  <2>14. CASE StartupRefresh(h)
    BY <2>0, <2>12, <2>14, LockReplace, Zenon DEF StartupRefresh, Downloading
  <2>15. ASSUME NEW u \in Urls, Fetch(h, u) PROVE LockInv'
    <3> DEFINE got == [handler[h].got EXCEPT ![u] = downloads + 1]
               s == State(h, "fetch", None, handler[h].snap, got)
    <3>1. /\ handler[h].pc = "fetch" /\ handler[h].req = "commit" /\ Becomes(h, s) /\ downloads' = downloads + 1
          /\ file' = file /\ holder' = holder /\ page' = page /\ revisions' = revisions
      BY <2>15 DEF Fetch
    <3>2. got \in [Urls -> Nat]
      BY <2>0 DEF HandlerState
    <3> HIDE DEF got
    <3>3. s \in HandlerState /\ s.pc = "fetch" /\ s.req = "commit"
      BY <2>0, <3>1, <3>2 DEF State, HandlerState
    <3> HIDE DEF s
    <3> QED
      BY <3>1, <3>3, LockReplace
  <2>16. CASE Fetched(h)
    <3>1. CASE Becomes(h, Idle)
      BY <2>16, <3>1, IdleTyped, LockReplace, Zenon DEF Fetched, Idle
    <3>2. CASE Becomes(h, State(h, "wait", None, handler[h].snap, handler[h].got)) /\ handler[h].req = "commit"
      BY <2>0, <2>16, <3>2, LockReplace, Zenon DEF Fetched, State, HandlerState
    <3> QED
      BY <2>16, <3>1, <3>2, Zenon DEF Fetched
  <2>17. CASE Commit(h)
    <3>1. handler[h].copy \in Content /\ handler[h].got \in [Urls -> Nat]
      BY <2>0, <2>17 DEF Commit, HandlerState
    <3>2. file' \in Content
      BY <2>17, <3>1 DEF Commit, Store, Merged, Content, Source
    <3> QED
      BY <2>17, <3>2, IdleTyped, LockReplace DEF Commit, Store, Idle
  <2> QED
    BY <1>2, <2>1, <2>3, <2>4, <2>5, <2>6, <2>7, <2>8, <2>9, <2>10, <2>11,
       <2>13, <2>14, <2>15, <2>16, <2>17, Zenon DEF HandlerStep
<1> QED
  BY <1>1, <1>2 DEF StoreNext
\* The discipline of the lock.
LEMMA LockAlways == StoreSpec => []LockInv
<1>1. LockInv /\ UNCHANGED storeVars => LockInv'
  BY DEF LockInv, StoreTypeOK, storeVars
<1> QED
  BY <1>1, LockInit, LockStep, PTL DEF StoreSpec

\* For any number of processes and subscriptions nothing a handler is about to
\* write was computed from an outdated file.
THEOREM LostUpdateFree == StoreSpec => []NoLostUpdate
<1>1. LockInv => NoLostUpdate
  BY DEF LockInv, NoLostUpdate
<1> QED
  BY <1>1, LockAlways, PTL

-----------------------------------------------------------------------------
(* Revisions and downloads.                                                  *)

\* The contents that exist somewhere: on disk, in the editor, in a handler.
Held == ({file, page} \cup {handler[h].copy : h \in Handlers}) \ {None}

\* Wherever the revision that h downloaded is found, the nodes with it are older
\* than the download.
DownloadNewer(h) ==
    \A u \in Urls :
        /\ handler[h].snap[u] <= revisions
        /\ handler[h].got[u] # 0 => handler[h].got[u] <= downloads
        /\ \A c \in Held : handler[h].got[u] # 0 /\ c.subs[u] # Absent
                              /\ c.subs[u].rev = handler[h].snap[u]
                           => c.subs[u].nodes < handler[h].got[u]

RevInv ==
    /\ \A c \in Held, u \in Urls :
          c.subs[u] # Absent => c.subs[u].rev <= revisions /\ c.subs[u].nodes <= downloads
    /\ \A h \in Handlers : DownloadNewer(h)

\* A source of the next file is one that exists, or has a new revision.
Origin(u) ==
    file'.subs[u] # Absent =>
        \/ \E d \in Held : d.subs[u] = file'.subs[u]
        \/ /\ file'.subs[u].rev > revisions /\ file'.subs[u].rev <= revisions'
           /\ file'.subs[u].nodes <= downloads

\* What is held are texts.
LEMMA HeldTyped == LockInv => Held \subseteq Content
  BY DEF LockInv, StoreTypeOK, Held, HandlerState

\* Nothing has been downloaded.
LEMMA RevInit == StoreInit => RevInv
<1> SUFFICES ASSUME StoreInit PROVE RevInv
  OBVIOUS
<1>1. Held = {file}
  BY NoneIsNoContent DEF StoreInit, Held, Idle, Content
<1> QED
  BY <1>1 DEF StoreInit, RevInv, DownloadNewer, Idle

\* The sources of all contents that exist after the step.
LEMMA HeldStep ==
  ASSUME LockInv, LockInv', RevInv, NEW h \in Handlers, NEW s \in HandlerState, Becomes(h, s),
         page' \in Held \cup {None}, s.copy \in Held \cup {None}, revisions' >= revisions,
         \A u \in Urls : Origin(u)
  PROVE  \A c \in Held', u \in Urls : c.subs[u] # Absent =>
            \/ \E d \in Held : d.subs[u] = c.subs[u]
            \/ /\ c.subs[u].rev > revisions /\ c.subs[u].rev <= revisions'
               /\ c.subs[u].nodes <= downloads
<1>1. \A g \in Handlers : handler'[g] = IF g = h THEN s ELSE handler[g]
  BY DEF Becomes, LockInv, StoreTypeOK
<1>2. Held' \subseteq Held \cup {file'}
  BY <1>1 DEF Held
<1> QED
  BY <1>2 DEF Origin

\* What a step of one handler has to show for the revisions.
LEMMA RevReplace ==
  ASSUME LockInv, LockInv', RevInv, NEW h \in Handlers, NEW s \in HandlerState, Becomes(h, s),
         page' \in Held \cup {None}, s.copy \in Held \cup {None},
         revisions' >= revisions, downloads' = downloads,
         \A u \in Urls : Origin(u),
         \A u \in Urls : s.snap[u] <= revisions',
         \A u \in Urls : s.got[u] # 0 => s.got[u] = handler[h].got[u] /\ s.snap[u] = handler[h].snap[u]
  PROVE  RevInv'
<1>0. revisions \in Nat /\ revisions' \in Nat /\ downloads \in Nat
  BY DEF LockInv, StoreTypeOK
<1>1. \A g \in Handlers : handler'[g] = IF g = h THEN s ELSE handler[g]
  BY DEF Becomes, LockInv, StoreTypeOK
<1>2. \A c \in Held', u \in Urls : c.subs[u] # Absent =>
            \/ \E d \in Held : d.subs[u] = c.subs[u]
            \/ /\ c.subs[u].rev > revisions /\ c.subs[u].rev <= revisions'
               /\ c.subs[u].nodes <= downloads
  BY HeldStep
<1>3. \A c \in Held, u \in Urls : c.subs[u] # Absent => c.subs[u].rev \in Nat /\ c.subs[u].nodes \in Nat
  BY HeldTyped DEF Content, Source
<1>4. \A c \in Held', u \in Urls :
          c.subs[u] # Absent => c.subs[u].rev <= revisions' /\ c.subs[u].nodes <= downloads'
  BY <1>0, <1>2, <1>3 DEF RevInv
<1>5. ASSUME NEW g \in Handlers PROVE DownloadNewer(g)'
  <2>1. \A u \in Urls : /\ handler[g].snap[u] \in Nat /\ handler'[g].snap[u] \in Nat
                         /\ handler[g].got[u] \in Nat /\ handler'[g].got[u] \in Nat
    BY DEF LockInv, StoreTypeOK, HandlerState
  <2>2. \A u \in Urls : handler'[g].snap[u] <= revisions'
    BY <1>0, <1>1, <2>1 DEF RevInv, DownloadNewer
  <2>3. \A u \in Urls : handler'[g].got[u] # 0 =>
            handler'[g].got[u] = handler[g].got[u] /\ handler'[g].snap[u] = handler[g].snap[u]
    BY <1>1
  <2>4. ASSUME NEW u \in Urls, NEW c \in Held', handler'[g].got[u] # 0, c.subs[u] # Absent,
               c.subs[u].rev = handler'[g].snap[u]
        PROVE  c.subs[u].nodes < handler'[g].got[u]
    <3>1. handler[g].snap[u] <= revisions
      BY Zenon DEF RevInv, DownloadNewer
    <3>2. PICK d \in Held : d.subs[u] = c.subs[u]
      BY <1>0, <1>2, <2>1, <2>3, <2>4, <3>1
    <3> QED
      BY <2>3, <2>4, <3>2, ZenonT(60) DEF RevInv, DownloadNewer
  <2> QED
    BY <2>2, <2>3, <2>4, Zenon DEF RevInv, DownloadNewer
<1> QED
  BY <1>4, <1>5 DEF RevInv

\* Steps that leave the file, the editor and all numbers alone.
LEMMA RevLocal ==
  ASSUME LockInv, LockInv', RevInv, NEW h \in Handlers, NEW s \in HandlerState, Becomes(h, s),
         UNCHANGED <<file, page, revisions, downloads>>, s.copy \in Held \cup {None},
         \A u \in Urls : s.snap[u] <= revisions,
         \A u \in Urls : s.got[u] # 0 => s.got[u] = handler[h].got[u] /\ s.snap[u] = handler[h].snap[u]
  PROVE  RevInv'
<1>1. file \in Held /\ page \in Held \cup {None} /\ revisions \in Nat
  BY NoneIsNoContent, Zenon DEF LockInv, StoreTypeOK, Held
<1>2. \A u \in Urls : Origin(u)
  BY <1>1 DEF Origin
<1> QED
  BY <1>1, <1>2, RevReplace

\* Every step keeps the order of revisions and downloads.
LEMMA RevStep ==
  ASSUME LockInv, LockInv', RevInv, StoreNext
  PROVE  RevInv'
<1>0. /\ revisions \in Nat /\ downloads \in Nat /\ file \in Held /\ page \in Held \cup {None}
      /\ \A h \in Handlers : handler[h] \in HandlerState /\ handler[h].copy \in Held \cup {None}
  BY NoneIsNoContent DEF LockInv, StoreTypeOK, Held
<1>1. CASE LoadPage
  <2>1. Held' \subseteq Held
    BY <1>1 DEF LoadPage, Held
  <2> QED
    BY <1>1, <2>1, Zenon DEF LoadPage, RevInv, DownloadNewer
<1>2. ASSUME NEW h \in Handlers, HandlerStep(h) PROVE RevInv'
  <2>0. /\ handler[h] \in HandlerState /\ handler[h].copy \in Held \cup {None}
        /\ \A u \in Urls : handler[h].snap[u] <= revisions
    BY <1>0 DEF RevInv, DownloadNewer
  <2>i. ASSUME Becomes(h, Idle), UNCHANGED <<file, page, revisions, downloads>>
        PROVE  RevInv'
    BY <1>0, <2>i, IdleTyped, RevLocal DEF Idle
  <2>1. ASSUME NEW req \in {"add", "delete", "set", "edit", "update"}, NEW u \in Urls \cup {None}, Begin(h, req, u)
        PROVE RevInv'
    <3> DEFINE s == [pc |-> "wait", req |-> req, url |-> u,
                     copy |-> IF req = "edit" THEN page ELSE None,
                     snap |-> [v \in Urls |-> 0], got |-> [v \in Urls |-> 0]]
    <3>1. s \in HandlerState /\ s.copy \in Held \cup {None}
      BY <1>0, Zenon DEF HandlerState, Requests, LockInv, StoreTypeOK
    <3>2. \A v \in Urls : s.snap[v] = 0 /\ s.got[v] = 0
      OBVIOUS
    <3> HIDE DEF s
    <3>3. Becomes(h, s) /\ UNCHANGED <<file, page, revisions, downloads>>
      BY <2>1 DEF Begin, s
    <3> QED
      BY <1>0, <3>1, <3>2, <3>3, RevLocal
  <2>3. CASE Acquire(h)
    BY <1>0, <2>0, <2>3, RevLocal DEF Acquire, State, HandlerState
  <2>4. CASE Busy(h) \/ Refuse(h) \/ Killed(h)
    BY <2>4, <2>i, Zenon DEF Busy, Refuse, Killed
  <2>5. CASE Load(h)
    <3> DEFINE s == State(h, "write", IF handler[h].req = "edit" THEN handler[h].copy ELSE file,
                          handler[h].snap, handler[h].got)
    <3>1. s \in HandlerState
      BY <2>0, Zenon DEF State, HandlerState, LockInv, StoreTypeOK
    <3>2. s.copy \in Held \cup {None} /\ s.snap = handler[h].snap /\ s.got = handler[h].got
      BY <1>0, <2>0, Zenon DEF State
    <3> QED
      BY <2>0, <2>5, <3>1, <3>2, RevLocal, Zenon DEF Load
  <2>w. handler[h].pc = "write" => handler[h].copy \in Held /\ handler[h].copy \in Content
    BY <2>0, HeldTyped, Zenon DEF LockInv
  <2>x. ASSUME NEW c, Store(h, c, Idle), UNCHANGED <<page, downloads>>,
               revisions' \in Nat, revisions' >= revisions,
               \A u \in Urls : Origin(u)
        PROVE  RevInv'
    <3>1. \A u \in Urls : Idle.snap[u] = 0 /\ Idle.got[u] = 0
      BY DEF Idle
    <3>2. Idle.copy = None
      BY DEF Idle
    <3> QED
      BY <1>0, <2>x, <3>1, <3>2, IdleTyped, RevReplace DEF Store
  <2>8. CASE Add(h)
    <3> DEFINE u == handler[h].url
               s == [pc |-> "fetch", req |-> "commit", url |-> None, copy |-> None,
                     snap |-> [v \in Urls |-> IF v = u THEN revisions + 1 ELSE 0],
                     got |-> [v \in Urls |-> 0]]
    <3>1. s \in HandlerState
      BY <1>0 DEF HandlerState, Requests
    <3>2. \A v \in Urls : s.snap[v] <= revisions + 1 /\ s.got[v] = 0
      BY <1>0
    <3>3. s.copy = None
      BY Zenon
    <3>4. ASSUME NEW v \in Urls PROVE Origin(v)
      <4>1. file' = WithSource(handler[h].copy, u, [rev |-> revisions + 1, nodes |-> 0])
            /\ revisions' = revisions + 1
        BY <2>8, Zenon DEF Add, Store
      <4>2. handler[h].copy \in Held /\ handler[h].copy.subs \in [Urls -> Source \cup {Absent}]
        BY <2>8, <2>w, Zenon DEF Add, Content
      <4>3. CASE v = u
        BY <1>0, <4>1, <4>2, <4>3, SMTT(30) DEF Origin, WithSource
      <4>4. CASE v # u
        BY <4>1, <4>2, <4>4, Zenon DEF Origin, WithSource
      <4> QED
        BY <4>3, <4>4
    <3>5. Becomes(h, s) /\ revisions' = revisions + 1 /\ UNCHANGED <<page, downloads>>
      BY <2>8, Zenon DEF Add, Store
    <3> HIDE DEF s
    <3> QED
      BY <1>0, <3>1, <3>2, <3>3, <3>4, <3>5, RevReplace
  <2>9. CASE Delete(h)
    <3>1. \A u \in Urls : Origin(u)
      BY <2>9, <2>w, Zenon DEF Delete, Store, WithSource, Origin, Content
    <3> QED
      BY <1>0, <2>9, <2>x, <3>1 DEF Delete
  <2>10. CASE Set(h)
    <3>1. \A u \in Urls : Origin(u)
      BY <2>10, <2>w, Zenon DEF Set, Store, Origin
    <3> QED
      BY <1>0, <2>10, <2>x, <3>1 DEF Set
  <2>11. CASE Edit(h)
    <3>1. \A u \in Urls : Origin(u)
      BY <2>11, <2>w DEF Edit, Store, Origin
    <3> QED
      BY <1>0, <2>11, <2>x, <3>1 DEF Edit
  <2>12. ASSUME NEW c \in Held, Becomes(h, Downloading(c)), UNCHANGED <<file, page, revisions, downloads>>
         PROVE  RevInv'
    <3>1. Downloading(c) \in HandlerState /\ Downloading(c).copy = None
      BY HeldTyped DEF Downloading, HandlerState, Content, Source, Requests
    <3>2. \A u \in Urls : Downloading(c).snap[u] <= revisions /\ Downloading(c).got[u] = 0
      BY <1>0 DEF Downloading, RevInv
    <3> QED
      BY <2>12, <3>1, <3>2, RevLocal
  <2>13. CASE Snapshot(h)
    BY <2>12, <2>13, <2>w, Zenon DEF Snapshot
  <2>14. CASE StartupRefresh(h)
    BY <1>0, <2>12, <2>14 DEF StartupRefresh
  <2>15. ASSUME NEW u \in Urls, Fetch(h, u) PROVE RevInv'
    <3>1. \A g \in Handlers : handler'[g] =
              IF g = h THEN State(h, "fetch", None, handler[h].snap, [handler[h].got EXCEPT ![u] = downloads + 1])
                       ELSE handler[g]
      BY <2>15, Zenon DEF Fetch, Becomes, LockInv, StoreTypeOK
    <3>2. Held' \subseteq Held /\ revisions' = revisions /\ downloads' = downloads + 1
      BY <2>15, <3>1 DEF Fetch, Held, State
    <3>3. \A c \in Held, v \in Urls : c.subs[v] # Absent => c.subs[v].rev \in Nat /\ c.subs[v].nodes \in Nat
      BY HeldTyped DEF Content, Source
    <3>4. \A c \in Held', v \in Urls :
              c.subs[v] # Absent => c.subs[v].rev <= revisions' /\ c.subs[v].nodes <= downloads'
      BY <1>0, <3>2, <3>3 DEF RevInv
    <3>5. ASSUME NEW g \in Handlers, NEW v \in Urls
          PROVE  /\ handler'[g].snap[v] = handler[g].snap[v] /\ handler[g].got[v] \in Nat
                 /\ \/ handler'[g].got[v] = handler[g].got[v]
                    \/ handler'[g].got[v] = downloads + 1
      BY <1>0, <3>1 DEF State, HandlerState
    <3>6. ASSUME NEW g \in Handlers PROVE DownloadNewer(g)'
      BY <1>0, <3>2, <3>3, <3>5, SMTT(30) DEF RevInv, DownloadNewer
    <3> QED
      BY <3>4, <3>6 DEF RevInv
  <2>16. CASE Fetched(h)
    <3>1. CASE Becomes(h, State(h, "wait", None, handler[h].snap, handler[h].got))
      BY <1>0, <2>0, <2>16, <3>1, RevLocal, SMTT(30) DEF Fetched, State, HandlerState
    <3> QED
      BY <2>16, <3>1, <2>i, Zenon DEF Fetched
  <2>17. CASE Commit(h)
    <3>1. ASSUME NEW u \in Urls PROVE Origin(u)
      <4> DEFINE c == handler[h].copy
      <4>1. c \in Held /\ handler[h].pc = "write" /\ revisions' = revisions + 1
        BY <2>17, <2>w DEF Commit
      <4>2. file'.subs[u] = IF Applicable(h, c, u)
                            THEN [rev |-> revisions + 1, nodes |-> handler[h].got[u]] ELSE c.subs[u]
        BY <2>17, Zenon DEF Commit, Store, Merged
      <4>3. Applicable(h, c, u) => handler[h].got[u] <= downloads
        BY DEF Applicable, RevInv, DownloadNewer
      <4>4. CASE Applicable(h, c, u)
        BY <1>0, <4>1, <4>2, <4>3, <4>4 DEF Origin
      <4>5. CASE ~ Applicable(h, c, u)
        BY <4>1, <4>2, <4>5, Zenon DEF Origin
      <4> QED
        BY <4>4, <4>5, Zenon
    <3> QED
      BY <1>0, <2>17, <2>x, <3>1 DEF Commit
  <2> QED
    BY <1>2, <2>1, <2>3, <2>4, <2>5, <2>8, <2>9, <2>10, <2>11,
       <2>13, <2>14, <2>15, <2>16, <2>17 DEF HandlerStep
<1> QED
  BY <1>1, <1>2 DEF StoreNext

\* For any number of processes and subscriptions a commit only replaces nodes by
\* ones downloaded later.
THEOREM StaleDownloadFree == StoreSpec => []NoStaleDownload
<1>1. RevInv /\ UNCHANGED storeVars => RevInv'
  BY DEF RevInv, DownloadNewer, Held, storeVars
<1>2. LockInv /\ RevInv => NoStaleDownload
  <2> SUFFICES ASSUME LockInv, RevInv, NEW h \in Handlers, NEW u \in Urls, Applicable(h, file, u)
               PROVE  handler[h].got[u] > file.subs[u].nodes
    BY DEF NoStaleDownload
  <2>1. file \in Held /\ file.subs[u].nodes \in Nat /\ handler[h].got[u] \in Nat
    BY NoneIsNoContent DEF LockInv, StoreTypeOK, Held, Content, Source, HandlerState, Applicable
  <2>2. file.subs[u].nodes < handler[h].got[u]
    BY <2>1 DEF RevInv, DownloadNewer, Applicable
  <2> QED
    BY <2>1, <2>2
<1> QED
  BY <1>1, <1>2, LockAlways, RevInit, RevStep, PTL DEF StoreSpec
=============================================================================
