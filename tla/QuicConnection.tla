--------------------------- MODULE QuicConnection ---------------------------
(***************************************************************************)
(* QuicConnectionState of crates/sockrocket-core/src/proxy/quic_conn.rs:   *)
(* the single-flight cache through which TUIC and Hysteria2 share one QUIC *)
(* connection, its CONNECT_BUDGET, and the retirement of slow paths.       *)
(***************************************************************************)
EXTENDS Integers, FiniteSets

CONSTANTS
    Callers,        \* requests that need the connection
    Connections,    \* identities of QUIC connections
    RetireAfter,    \* RETIRE_AFTER
    MaxTime,        \* bound on the clock
    None            \* nothing cached, nobody, never

VARIABLES
    now,        \* Instant::now()
    cached,     \* SingleFlight.state
    holder,     \* who holds SingleFlight.lock
    slow_since, \* QuicConnectionState.slow_since
    open,       \* connections that are not closed
    sick,       \* open connections whose statistics ask for retirement
    hung,       \* the handshake in progress gets no answer
    caller      \* program counter and result of each request

vars == <<now, cached, holder, slow_since, open, sick, hung, caller>>

Free == [pc |-> "idle", conn |-> None]

Init ==
    /\ now = 0
    /\ cached = None /\ holder = None /\ slow_since = None
    /\ open = {} /\ sick = {} /\ hung = FALSE
    /\ caller = [c \in Callers |-> Free]

At(c, pc) == caller[c].pc = pc
To(c, pc) == caller' = [caller EXCEPT ![c].pc = pc]
Gets(c, conn) == caller' = [caller EXCEPT ![c].pc = "done", ![c].conn = conn]

(* usable(): a path that is sick now and was first seen sick RETIRE_AFTER    *)
(* ago is closed.                                                            *)
Since == IF slow_since = None THEN now ELSE slow_since
Retires == cached \in sick /\ now - Since >= RetireAfter

Usable == cached \in open /\ ~ Retires

(* Its side effects; an unusable cached connection is closed afterwards.     *)
Judged ==
    IF cached \notin open THEN UNCHANGED <<slow_since, open, sick>>
    ELSE /\ slow_since' = IF cached \in sick /\ ~ Retires THEN Since ELSE None
         /\ open' = IF Retires THEN open \ {cached} ELSE open
         /\ sick' = IF Retires THEN sick \ {cached} ELSE sick

Call(c) == At(c, "idle") /\ To(c, "fast") /\ UNCHANGED <<now, cached, holder, slow_since, open, sick, hung>>

(* The fast path reads the cache without the lock.                           *)
Fast(c) ==
    /\ At(c, "fast")
    /\ IF Usable THEN Gets(c, cached) ELSE To(c, "lock")
    /\ Judged
    /\ UNCHANGED <<now, cached, holder, hung>>

Lock(c) ==
    /\ At(c, "lock") /\ holder = None
    /\ holder' = c
    /\ To(c, "recheck")
    /\ UNCHANGED <<now, cached, slow_since, open, sick, hung>>

Rechecked == Usable

Recheck(c) ==
    /\ At(c, "recheck")
    /\ IF Rechecked THEN Gets(c, cached) /\ holder' = None
                    ELSE To(c, "connect") /\ UNCHANGED holder
    /\ Judged
    /\ UNCHANGED <<now, cached, hung>>

(* connect(): the handshake may stop answering.                              *)
Hang(c) == At(c, "connect") /\ ~ hung /\ hung' = TRUE
           /\ UNCHANGED <<now, cached, holder, slow_since, open, sick, caller>>

Connected(c) ==
    /\ At(c, "connect") /\ ~ hung
    /\ \E conn \in Connections \ (open \cup {cached} \cup {caller[d].conn : d \in Callers}) :
          /\ open' = open \cup {conn}
          /\ caller' = [caller EXCEPT ![c].pc = "store", ![c].conn = conn]
    /\ UNCHANGED <<now, cached, holder, slow_since, sick, hung>>

GivesUp_Never(c) == ~ hung
GivesUp(c) == TRUE

(* The handshake fails, or CONNECT_BUDGET ends it; the lock is released.     *)
ConnectFails(c) ==
    /\ At(c, "connect") /\ GivesUp(c)
    /\ caller' = [caller EXCEPT ![c] = Free]
    /\ holder' = None
    /\ hung' = FALSE
    /\ UNCHANGED <<now, cached, slow_since, open, sick>>

(* Under the write lock a live value of somebody else wins and the new       *)
(* connection is dropped.                                                    *)
Store(c) ==
    /\ At(c, "store")
    /\ holder' = None
    /\ IF Usable
         THEN /\ Gets(c, cached)
              /\ open' = open \ {caller[c].conn}
              /\ slow_since' = IF cached \in sick THEN Since ELSE None
              /\ UNCHANGED <<cached, sick>>
         ELSE /\ cached' = caller[c].conn
              /\ To(c, "done")
              /\ Judged
    /\ UNCHANGED <<now, hung>>

Return(c) == /\ At(c, "done")
             /\ caller' = [caller EXCEPT ![c] = Free]
             /\ UNCHANGED <<now, cached, holder, slow_since, open, sick, hung>>

(* The request is dropped while it waits; a connection being set up goes     *)
(* with it.                                                                  *)
Cancel(c) ==
    /\ caller[c].pc \in {"fast", "lock", "recheck", "connect", "store"}
    /\ caller' = [caller EXCEPT ![c] = Free]
    /\ holder' = IF holder = c THEN None ELSE holder
    /\ hung' = (hung /\ ~ At(c, "connect"))
    /\ open' = open \ (IF At(c, "store") THEN {caller[c].conn} ELSE {})
    /\ UNCHANGED <<now, cached, slow_since, sick>>

(* The network: a connection breaks, the path gets slow or recovers.         *)
Break == /\ \E conn \in open : open' = open \ {conn} /\ sick' = sick \ {conn}
         /\ UNCHANGED <<now, cached, holder, slow_since, hung, caller>>
PathChanges == /\ cached \in open
               /\ sick' = IF cached \in sick THEN sick \ {cached} ELSE sick \cup {cached}
               /\ UNCHANGED <<now, cached, holder, slow_since, open, hung, caller>>
Tick == now < MaxTime /\ now' = now + 1
        /\ UNCHANGED <<cached, holder, slow_since, open, sick, hung, caller>>

Step(c) == Fast(c) \/ Recheck(c) \/ Connected(c) \/ ConnectFails(c) \/ Store(c) \/ Return(c)

Next ==
    \/ Break \/ PathChanges \/ Tick
    \/ \E c \in Callers : Call(c) \/ Step(c) \/ Lock(c) \/ Hang(c) \/ Cancel(c)

Spec == Init /\ [][Next]_vars

(* Requests are scheduled, a handshake ends at the latest with its budget,   *)
(* and the tokio Mutex serves its waiters in order.                          *)
Fairness == \A c \in Callers : WF_vars(Step(c)) /\ SF_vars(Lock(c))

-----------------------------------------------------------------------------
(* Types of the state.                                                       *)
TypeOK ==
    /\ now \in 0..MaxTime
    /\ cached \in Connections \cup {None} /\ holder \in Callers \cup {None}
    /\ slow_since = None \/ slow_since \in 0..MaxTime
    /\ sick \subseteq open /\ open \subseteq Connections
    /\ hung \in BOOLEAN

(* A hung handshake does not wedge the node: every request comes to an end   *)
(* (CONNECT_BUDGET).                                                         *)
RequestsEnd == \A c \in Callers : caller[c].pc # "idle" ~> caller[c].pc = "idle"

=============================================================================
