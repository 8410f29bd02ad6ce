----------------------------- MODULE ConfigStore -----------------------------
(***************************************************************************)
(* config.yaml as the processes of a router share it: the web handlers of  *)
(* cgi.rs, the subscription workers and the daemon.  A change is a         *)
(* transaction under the MutationGuard (core/config/storage.rs): take the  *)
(* file lock, read, change, replace the file.  A download runs outside the *)
(* lock; what it brings is merged into the file as it is then, for the     *)
(* sources whose refresh revision is still the one that was downloaded.    *)
(* The whole-file editor writes the text its browser loaded earlier.       *)
(***************************************************************************)
EXTENDS Naturals

CONSTANTS Urls,            \* subscription addresses
          Handlers,        \* processes running one request at a time
          MaxRevisions,    \* bound: refresh revisions handed out
          MaxDownloads,    \* bound: downloads that brought nodes
          MaxSettings,     \* bound: other settings saved
          Absent, None     \* no such subscription; nothing

ASSUME StoreAssumption ==
    /\ Absent \notin [rev : Nat, nodes : Nat] /\ None \notin Handlers
    /\ None \notin [subs : [Urls -> [rev : Nat, nodes : Nat] \cup {Absent}], settings : Nat]

VARIABLES file,        \* the content of config.yaml
          holder,      \* who has the lock on .config.lock
          handler,     \* what each process is doing
          page,        \* the text a browser has in its editor
          revisions, downloads

storeVars == <<file, holder, handler, page, revisions, downloads>>

\* nodes is the number of the download they came from, 0 for none.
Source == [rev : Nat, nodes : Nat]
Content == [subs : [Urls -> Source \cup {Absent}], settings : Nat]
Requests == {"add", "delete", "set", "edit", "update", "commit"}
Idle == [pc |-> "idle", req |-> "set", url |-> None, copy |-> None,
         snap |-> [u \in Urls |-> 0], got |-> [u \in Urls |-> 0]]

HandlerState ==
    [pc : {"idle", "wait", "locked", "write", "fetch"}, req : Requests,
     url : Urls \cup {None}, copy : Content \cup {None},
     snap : [Urls -> Nat], got : [Urls -> Nat]]

\* Revisions start at 1, so a snapshot's 0 is "not downloaded".
StoreTypeOK ==
    /\ file \in Content /\ holder \in Handlers \cup {None}
    /\ page \in Content \cup {None} /\ revisions \in Nat /\ downloads \in Nat
    /\ handler \in [Handlers -> HandlerState]

StoreInit ==
    /\ file = [subs |-> [u \in Urls |-> Absent], settings |-> 0]
    /\ holder = None /\ page = None /\ revisions = 0 /\ downloads = 0
    /\ handler = [h \in Handlers |-> Idle]

\* A handler's next state; every step names the four parts that change together.
State(h, pc, copy, snap, got) ==
    [pc |-> pc, req |-> handler[h].req, url |-> handler[h].url,
     copy |-> copy, snap |-> snap, got |-> got]
Becomes(h, s) == handler' = [handler EXCEPT ![h] = s]

-----------------------------------------------------------------------------
(* One transaction.                                                          *)

\* The request arrives; the editor's carries the text it loaded earlier.
Begin(h, req, u) ==
    /\ handler[h].pc = "idle"
    /\ req = "edit" => page # None
    /\ Becomes(h, [pc |-> "wait", req |-> req, url |-> u,
                   copy |-> IF req = "edit" THEN page ELSE None,
                   snap |-> [v \in Urls |-> 0], got |-> [v \in Urls |-> 0]])
    /\ UNCHANGED <<file, holder, page, revisions, downloads>>

\* the lock is only looked at
Acquire_Unlocked(h) ==
    /\ handler[h].pc = "wait" /\ holder = None
    /\ holder' = None
    /\ Becomes(h, State(h, "locked", handler[h].copy, handler[h].snap, handler[h].got))
    /\ UNCHANGED <<file, page, revisions, downloads>>

Acquire(h) ==
    /\ handler[h].pc = "wait" /\ holder = None
    /\ holder' = h
    /\ Becomes(h, State(h, "locked", handler[h].copy, handler[h].snap, handler[h].got))
    /\ UNCHANGED <<file, page, revisions, downloads>>

\* 15 seconds of LOCK_NB: "Configuration transaction busy".
Busy(h) ==
    /\ handler[h].pc = "wait" /\ holder # None
    /\ Becomes(h, Idle)
    /\ UNCHANGED <<file, holder, page, revisions, downloads>>

\* load_conf / load_app_config under the lock.
Load(h) ==
    /\ handler[h].pc = "locked"
    /\ Becomes(h, State(h, "write", IF handler[h].req = "edit" THEN handler[h].copy ELSE file,
                        handler[h].snap, handler[h].got))
    /\ UNCHANGED <<file, holder, page, revisions, downloads>>

\* Release with an error: subscription_exists, index out of range, a failed write.
Refuse(h) ==
    /\ handler[h].pc \in {"locked", "write"}
    /\ holder' = IF holder = h THEN None ELSE holder
    /\ Becomes(h, Idle)
    /\ UNCHANGED <<file, page, revisions, downloads>>

\* save_conf, write_nodes_and_subscriptions: replace the file, drop the guard.
Store(h, content, next) ==
    /\ file' = content
    /\ holder' = IF holder = h THEN None ELSE holder
    /\ Becomes(h, next)

WithSource(c, u, s) == [subs |-> [c.subs EXCEPT ![u] = s], settings |-> c.settings]

\* act_add_sub: the entry with a fresh revision, then the download.
Add(h) ==
    LET u == handler[h].url
        rev == revisions + 1
    IN /\ handler[h].pc = "write" /\ handler[h].req = "add"
       /\ handler[h].copy.subs[u] = Absent
       /\ rev <= MaxRevisions
       /\ revisions' = rev
       /\ Store(h, WithSource(handler[h].copy, u, [rev |-> rev, nodes |-> 0]),
                [pc |-> "fetch", req |-> "commit", url |-> None, copy |-> None,
                 snap |-> [v \in Urls |-> IF v = u THEN rev ELSE 0],
                 got |-> [v \in Urls |-> 0]])
       /\ UNCHANGED <<page, downloads>>

\* act_del_sub: remove_subscription_nodes.
Delete(h) ==
    /\ handler[h].pc = "write" /\ handler[h].req = "delete"
    /\ Store(h, WithSource(handler[h].copy, handler[h].url, Absent), Idle)
    /\ UNCHANGED <<page, revisions, downloads>>

\* act_set_node, act_rename_sub and the other handlers that change one key.
Set(h) ==
    /\ handler[h].pc = "write" /\ handler[h].req = "set"
    /\ handler[h].copy.settings < MaxSettings
    /\ Store(h, [subs |-> handler[h].copy.subs, settings |-> handler[h].copy.settings + 1], Idle)
    /\ UNCHANGED <<page, revisions, downloads>>

\* act_save_config: the whole text as the browser had it.
Edit(h) ==
    /\ handler[h].pc = "write" /\ handler[h].req = "edit"
    /\ Store(h, handler[h].copy, Idle)
    /\ UNCHANGED <<page, revisions, downloads>>

\* act_config: reading is not locked.
LoadPage ==
    /\ page' = file
    /\ UNCHANGED <<file, holder, handler, revisions, downloads>>

-----------------------------------------------------------------------------
(* Downloads.                                                                *)

Downloading(c) ==
    [pc |-> "fetch", req |-> "commit", url |-> None, copy |-> None,
     snap |-> [u \in Urls |-> IF c.subs[u] = Absent THEN 0 ELSE c.subs[u].rev],
     got |-> [u \in Urls |-> 0]]

\* act_update_subs: the sources and revisions, read under the lock.
Snapshot(h) ==
    /\ handler[h].pc = "write" /\ handler[h].req = "update"
    /\ holder' = IF holder = h THEN None ELSE holder
    /\ Becomes(h, Downloading(handler[h].copy))
    /\ UNCHANGED <<file, page, revisions, downloads>>

\* load_config of a daemon that refreshes its subscriptions: read without the lock.
StartupRefresh(h) ==
    /\ handler[h].pc = "idle"
    /\ Becomes(h, Downloading(file))
    /\ UNCHANGED <<file, holder, page, revisions, downloads>>

\* fetch_sub_nodes brings nodes; a failed or empty download leaves got at 0.
Fetch(h, u) ==
    /\ handler[h].pc = "fetch" /\ handler[h].snap[u] # 0 /\ handler[h].got[u] = 0
    /\ downloads < MaxDownloads
    /\ downloads' = downloads + 1
    /\ Becomes(h, State(h, "fetch", None, handler[h].snap,
                        [handler[h].got EXCEPT ![u] = downloads + 1]))
    /\ UNCHANGED <<file, holder, page, revisions>>

\* All tried: commit_subscription_refresh begins, or nothing was downloaded.
Fetched(h) ==
    /\ handler[h].pc = "fetch"
    /\ Becomes(h, IF \A u \in Urls : handler[h].got[u] = 0 THEN Idle
                  ELSE State(h, "wait", None, handler[h].snap, handler[h].got))
    /\ UNCHANGED <<file, holder, page, revisions, downloads>>

\* any source of that address
Applicable_ByUrl(h, c, u) == handler[h].got[u] # 0 /\ c.subs[u] # Absent

Applicable(h, c, u) ==
    /\ handler[h].got[u] # 0 /\ c.subs[u] # Absent
    /\ c.subs[u].rev = handler[h].snap[u]

\* apply_subscription_refresh: the applicable sources get the downloaded nodes
\* and a revision never used before.
Merged(h, c, rev) ==
    [subs |-> [u \in Urls |-> IF Applicable(h, c, u)
                              THEN [rev |-> rev, nodes |-> handler[h].got[u]] ELSE c.subs[u]],
     settings |-> c.settings]

\* commit_subscription_refresh
Commit(h) ==
    /\ handler[h].pc = "write" /\ handler[h].req = "commit"
    /\ revisions < MaxRevisions
    /\ revisions' = revisions + 1
    /\ Store(h, Merged(h, handler[h].copy, revisions + 1), Idle)
    /\ UNCHANGED <<page, downloads>>

-----------------------------------------------------------------------------
\* A killed process: the kernel drops its lock.
Killed(h) ==
    /\ handler[h].pc # "idle"
    /\ holder' = IF holder = h THEN None ELSE holder
    /\ Becomes(h, Idle)
    /\ UNCHANGED <<file, page, revisions, downloads>>

HandlerStep(h) ==
    \/ \E req \in {"add", "delete"}, u \in Urls : Begin(h, req, u)
    \/ \E req \in {"set", "edit", "update"} : Begin(h, req, None)
    \/ Acquire(h) \/ Busy(h) \/ Load(h) \/ Refuse(h) \/ Killed(h)
    \/ Add(h) \/ Delete(h) \/ Set(h) \/ Edit(h) \/ Snapshot(h) \/ StartupRefresh(h)
    \/ (\E u \in Urls : Fetch(h, u)) \/ Fetched(h) \/ Commit(h)

StoreNext == LoadPage \/ \E h \in Handlers : HandlerStep(h)

StoreSpec == StoreInit /\ [][StoreNext]_storeVars

-----------------------------------------------------------------------------
(* What the processes may rely on.                                           *)

\* No change is lost: except for the editor's text, what a handler is about to
\* write was computed from the file as it is now, so it undoes nobody's save.
NoLostUpdate ==
    \A h \in Handlers :
        handler[h].pc = "write" /\ handler[h].req # "edit" => handler[h].copy = file

\* "deleted, replaced, or more recently refreshed sources cannot receive an
\* older download": a commit never puts nodes in place of ones downloaded
\* after them, although the editor can bring back an old revision.
NoStaleDownload ==
    \A h \in Handlers : handler[h].pc = "write" /\ handler[h].req = "commit" =>
        \A u \in Urls : Applicable(h, file, u) => handler[h].got[u] > file.subs[u].nodes
=============================================================================
