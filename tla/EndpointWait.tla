---------------------------- MODULE EndpointWait ----------------------------
(***************************************************************************)
(* endpoint_addresses of crates/sockrocket-core/src/dns/upstream.rs: the   *)
(* addresses of one DNS endpoint host are looked up by one leader at a     *)
(* time; the others register with its Notify and look again when it fires. *)
(* Notify stores nothing: notify_waiters wakes those registered before it. *)
(***************************************************************************)
EXTENDS Integers, FiniteSets

CONSTANTS
    Tasks,      \* exchanges that need the addresses
    Notifies,   \* identities of Notify values, more than there are tasks
    None        \* no leader registered

VARIABLES
    known,      \* endpoint_cache holds an unexpired entry
    waits,      \* endpoint_wait: the registered Notify, or None
    task        \* the exchanges

waitVars == <<known, waits, task>>

With(pc, notify) == [pc |-> pc, notify |-> notify, woken |-> FALSE]
Free == With("idle", None)

WaitInit == known = FALSE /\ waits = None /\ task = [t \in Tasks |-> Free]

At(t, pc) == task[t].pc = pc
To(t, pc) == task' = [task EXCEPT ![t].pc = pc]

Call(t) == At(t, "idle") /\ To(t, "check") /\ UNCHANGED <<known, waits>>

Check(t) ==
    /\ At(t, "check")
    /\ IF known THEN task' = [task EXCEPT ![t] = Free] ELSE To(t, "role")
    /\ UNCHANGED <<known, waits>>

Leads(registered) == registered = None

(* Under the endpoint_wait lock: wait for the registered leader or lead.     *)
Fresh(n) == n # waits /\ \A u \in Tasks : task[u].notify # n

Lead(t) ==
    /\ At(t, "role") /\ Leads(waits)
    /\ \E n \in Notifies :
          /\ Fresh(n)
          /\ waits' = n
          /\ task' = [task EXCEPT ![t] = With("query", n)]
    /\ UNCHANGED known

Wait(t) ==
    /\ At(t, "role") /\ waits # None
    /\ task' = [task EXCEPT ![t] = With("enable", waits)]
    /\ UNCHANGED <<known, waits>>

(* The waiter registers with the Notify, looks at the cache again, and       *)
(* sleeps only if its leader is still registered.                            *)
Enable(t) == At(t, "enable") /\ To(t, "recheck") /\ UNCHANGED <<known, waits>>

Recheck(t) ==
    /\ At(t, "recheck")
    /\ IF known THEN task' = [task EXCEPT ![t] = Free] ELSE To(t, "still")
    /\ UNCHANGED <<known, waits>>

StillWaiting_Assumed(t) == TRUE
StillWaiting(t) == waits = task[t].notify

Still(t) ==
    /\ At(t, "still")
    /\ task' = [task EXCEPT ![t] = IF StillWaiting(t) THEN [@ EXCEPT !.pc = "sleep"]
                                                      ELSE [Free EXCEPT !.pc = "check"]]
    /\ UNCHANGED <<known, waits>>

Wake(t) ==
    /\ At(t, "sleep") /\ task[t].woken
    /\ task' = [task EXCEPT ![t] = [Free EXCEPT !.pc = "check"]]
    /\ UNCHANGED <<known, waits>>

(* query_bootstrap: the addresses are cached, or the error is returned; in   *)
(* both cases, and when the leader is cancelled, the guard is dropped.       *)
Query(t, found) ==
    /\ At(t, "query")
    /\ known' = (known \/ found)
    /\ To(t, "unregister")
    /\ UNCHANGED waits

Unregister(t) ==
    /\ At(t, "unregister")
    /\ waits' = IF waits = task[t].notify THEN None ELSE waits
    /\ To(t, "notify")
    /\ UNCHANGED known

Notify(t) ==
    /\ At(t, "notify")
    /\ task' = [u \in Tasks |->
          IF u = t THEN Free
          ELSE IF task[u].notify = task[t].notify /\ task[u].pc \in {"recheck", "still", "sleep"}
            THEN [task[u] EXCEPT !.woken = TRUE]
          ELSE task[u]]
    /\ UNCHANGED <<known, waits>>

(* The exchange of a waiting task times out or is cancelled.                 *)
Cancel(t) ==
    /\ task[t].pc \in {"check", "recheck", "sleep"}
    /\ task' = [task EXCEPT ![t] = Free]
    /\ UNCHANGED <<known, waits>>

(* The entry gets older than 60 seconds.                                     *)
Expire == known /\ known' = FALSE /\ UNCHANGED <<waits, task>>

WaitNext ==
    \/ Expire
    \/ \E t \in Tasks :
          \/ Call(t) \/ Check(t) \/ Lead(t) \/ Wait(t) \/ Enable(t) \/ Recheck(t) \/ Still(t) \/ Wake(t)
          \/ \E found \in BOOLEAN : Query(t, found)
          \/ Unregister(t) \/ Notify(t) \/ Cancel(t)

WaitSpec == WaitInit /\ [][WaitNext]_waitVars

-----------------------------------------------------------------------------
(* Types of the state.                                                       *)
WaitTypeOK ==
    /\ known \in BOOLEAN
    /\ waits \in Notifies \cup {None}
    /\ \A t \in Tasks : task[t].notify \in Notifies \cup {None} /\ task[t].woken \in BOOLEAN

(* No wake-up is lost: a task that sleeps has been woken or its leader has   *)
(* still to fire the Notify, whatever happens between reading the registry,  *)
(* registering with the Notify and going to sleep.                           *)
NoLostWakeup ==
    \A t \in Tasks : (At(t, "sleep") /\ ~ task[t].woken) =>
        \E u \in Tasks : /\ task[u].pc \in {"query", "unregister", "notify"}
                         /\ task[u].notify = task[t].notify

(* One bootstrap query at a time for a host, although leaders fail, are      *)
(* cancelled and wake everybody at once.                                     *)
OneBootstrap == \A t, u \in Tasks : At(t, "query") /\ At(u, "query") => t = u

=============================================================================
