------------------------- MODULE FailoverPersistence -------------------------
(***************************************************************************)
(* How a failover of the health monitor reaches config.yaml.  The monitor  *)
(* installs a node and announces it on a watch channel that keeps only the *)
(* latest event; the event task of the daemon (main.rs) takes the event    *)
(* and saves the node as active_node (persist_active_node); the web UI     *)
(* saves the user's choices to the same file; the watcher reloads a file   *)
(* whose content differs from the one it last applied.                     *)
(***************************************************************************)
EXTENDS Naturals

CONSTANTS Nodes, MaxSwitches, MaxEdits, None

VARIABLES file,       \* config.yaml: the nodes, the active one, and who saved it
          applied,    \* what the daemon last loaded
          running,    \* the node of the installed outbound
          installed,  \* switched to, not yet announced
          event,      \* the watch channel, and whether its value is unseen
          task,       \* the node the event task is about to save
          switches, edits

persistVars == <<file, applied, running, installed, event, task, switches, edits>>

Content(f) == [active |-> f.active, listed |-> f.listed]
Contents == {c \in [active : Nodes, listed : SUBSET Nodes] : c.active \in c.listed}
NoEvent == [node |-> None, unseen |-> FALSE]

PersistTypeOK ==
    /\ Content(file) \in Contents /\ file.by \in {"user", "daemon"} /\ applied \in Contents
    /\ running \in Nodes /\ {installed, task, event.node} \subseteq Nodes \cup {None}
    /\ event.unseen \in BOOLEAN /\ switches \in 0 .. MaxSwitches /\ edits \in 0 .. MaxEdits

PersistInit ==
    /\ \E n \in Nodes : /\ file = [active |-> n, listed |-> Nodes, by |-> "user"]
                        /\ running = n
    /\ applied = Content(file)
    /\ installed = None /\ event = NoEvent /\ task = None /\ switches = 0 /\ edits = 0

\* The web UI saves a chosen node, or a node list that a download changed.
Save(c) ==
    /\ edits < MaxEdits /\ edits' = edits + 1
    /\ file' = [active |-> c.active, listed |-> c.listed, by |-> "user"]
    /\ UNCHANGED <<applied, running, installed, event, task, switches>>

\* set_node: the user chooses another of the listed nodes.
SelectNode == \E n \in file.listed \ {file.active} : Save([active |-> n, listed |-> file.listed])
\* A refresh: the active node is kept while it is listed.
RefreshNodes ==
    \E c \in Contents : /\ c.listed # file.listed
                        /\ file.active \in c.listed => c.active = file.active
                        /\ Save(c)

\* probe_once: the failover target of the monitor's own list is installed, and then
\* announced.
InstallNode ==
    /\ installed = None /\ switches < MaxSwitches
    /\ \E n \in applied.listed \ {running} : running' = n /\ installed' = n
    /\ switches' = switches + 1
    /\ UNCHANGED <<file, applied, event, task, edits>>

AnnounceNode ==
    /\ installed # None
    /\ event' = [node |-> installed, unseen |-> TRUE]
    /\ installed' = None
    /\ UNCHANGED <<file, applied, running, task, switches, edits>>

\* Any other event of the monitor replaces one that was not yet seen.
AnnounceProbe ==
    /\ installed = None
    /\ event' = [node |-> None, unseen |-> TRUE]
    /\ UNCHANGED <<file, applied, running, installed, task, switches, edits>>

HandleEvent ==
    /\ task = None /\ event.unseen
    /\ event' = [event EXCEPT !.unseen = FALSE]
    /\ task' = event.node
    /\ UNCHANGED <<file, applied, running, installed, switches, edits>>

\* persist_active_node; the node may have been removed since.
PersistNode ==
    /\ task \in file.listed
    /\ file' = [active |-> task, listed |-> file.listed, by |-> "daemon"]
    /\ task' = None
    /\ UNCHANGED <<applied, running, installed, event, switches, edits>>

\* The file's lock is busy, an update is under way, or the node is gone: only logged.
PersistFails ==
    /\ task # None /\ task' = None
    /\ UNCHANGED <<file, applied, running, installed, event, switches, edits>>

\* A reload rebuilds the outbound of the saved node.
Unapplied == Content(file) # applied
ReloadFile ==
    /\ Unapplied
    /\ applied' = Content(file) /\ running' = file.active
    /\ UNCHANGED <<file, installed, event, task, switches, edits>>

\* The daemon is restarted from the file.
RestartDaemon ==
    /\ applied' = Content(file) /\ running' = file.active
    /\ installed' = None /\ event' = NoEvent /\ task' = None
    /\ UNCHANGED <<file, switches, edits>>

PersistNext ==
    \/ SelectNode \/ RefreshNodes \/ InstallNode \/ AnnounceNode \/ AnnounceProbe
    \/ HandleEvent \/ PersistNode \/ PersistFails \/ ReloadFile \/ RestartDaemon

PersistSpec == PersistInit /\ [][PersistNext]_persistVars

\* "A manual switch owns the decision": a node the user saved is not replaced in the
\* file by a failover before the daemon has even switched to it.
ManualSwitchOwns ==
    [][ file.by = "user" /\ Unapplied /\ file'.by = "daemon" => file'.active = file.active ]_persistVars
=============================================================================
