------------------------------ MODULE DnsSlots ------------------------------
(***************************************************************************)
(* ProxyConnPool of crates/sockrocket-core/src/dns: a fixed number of      *)
(* slots, each empty or holding a parked DNS-over-TCP/TLS stream, and a    *)
(* semaphore with one permit per slot.  The two ways it is used:           *)
(* "pooled" (DnsServer::ProxyTcp and ProxyTls) holds its slot through the  *)
(* dial and the exchange; "endpoint" (DnsServer::Endpoint) takes a stream  *)
(* out, gives the slot back at once and parks the stream in whatever slot  *)
(* it gets afterwards.                                                     *)
(***************************************************************************)
EXTENDS Integers, Sequences, FiniteSets

CONSTANTS
    Users,      \* DNS exchanges
    Size,       \* PROXY_DNS_POOL_SIZE
    Servers,    \* DNS servers that are asked
    Outbounds,  \* outbounds they are asked through
    Empty       \* an empty slot, no stream

ASSUME SizeIsNat == Size \in Nat

VARIABLES
    permits,    \* ProxyConnPool.available
    idle,       \* ProxyConnPool.idle
    user        \* the exchanges

slotVars == <<permits, idle, user>>

(* A stream knows whom it leads to; it is dirty between a request and its    *)
(* reply.                                                                    *)
Streams == [server : Servers, outbound : Outbounds, dirty : BOOLEAN]
SlotStates == Streams \cup {Empty}

ASSUME EmptyIsNoStream == Empty \notin Streams

NoExchange == [pc |-> "idle", kind |-> "pooled", want |-> Empty, slot |-> Empty, stream |-> Empty]

SlotsInit ==
    /\ permits = Size
    /\ idle = [i \in 1..Size |-> Empty]
    /\ user = [u \in Users |-> NoExchange]

UserAt(u, pc) == user[u].pc = pc
UserTo(u, pc) == user' = [user EXCEPT ![u].pc = pc]

CallServer(u, kind, server, outbound) ==
    /\ UserAt(u, "idle")
    /\ user' = [user EXCEPT ![u] = [NoExchange EXCEPT !.pc = "acquire", !.kind = kind,
                   !.want = [server |-> server, outbound |-> outbound, dirty |-> FALSE]]]
    /\ UNCHANGED <<permits, idle>>

(* acquire(): the permit, then the slot that goes with it.                   *)
Permit(u) ==
    /\ UserAt(u, "acquire") \/ UserAt(u, "park")
    /\ permits > 0
    /\ permits' = permits - 1
    /\ UserTo(u, IF UserAt(u, "park") THEN "pop to park" ELSE "pop")
    /\ UNCHANGED idle

Pop(u) ==
    /\ UserAt(u, "pop") \/ UserAt(u, "pop to park")
    /\ idle # <<>>
    /\ idle' = Tail(idle)
    /\ user' = [user EXCEPT ![u] =
          IF UserAt(u, "pop") THEN [@ EXCEPT !.slot = Head(idle), !.pc = "choose"]
                          ELSE [NoExchange EXCEPT !.slot = user[u].stream, !.pc = "push"]]
    /\ UNCHANGED permits

Matches(s, want) == s.server = want.server /\ s.outbound = want.outbound

(* A matching stream is taken out of the slot, another one stays in it.      *)
Choose(u) ==
    LET me == user[u]
        hit == me.slot # Empty /\ (me.slot # Empty => Matches(me.slot, me.want))
        next == IF me.kind = "endpoint" THEN "push" ELSE IF hit THEN "send" ELSE "dial"
    IN  /\ UserAt(u, "choose")
        /\ user' = [user EXCEPT ![u] =
              [@ EXCEPT !.pc = next, !.stream = IF hit THEN me.slot ELSE Empty,
                        !.slot = IF hit THEN Empty ELSE me.slot]]
        /\ UNCHANGED <<permits, idle>>

Dial(u) ==
    /\ UserAt(u, "dial")
    /\ user' = [user EXCEPT ![u].pc = "send", ![u].stream = user[u].want]
    /\ UNCHANGED <<permits, idle>>

Send(u) ==
    /\ UserAt(u, "send")
    /\ user' = [user EXCEPT ![u].pc = "reply", ![u].stream.dirty = TRUE]
    /\ UNCHANGED <<permits, idle>>

(* A validated reply: the stream replaces what its slot holds.               *)
Reply(u) ==
    LET clean == [user[u].stream EXCEPT !.dirty = FALSE]
    IN  /\ UserAt(u, "reply")
        /\ user' = [user EXCEPT ![u] =
              IF user[u].kind = "endpoint"
                THEN [@ EXCEPT !.pc = "park", !.stream = clean]
                ELSE [@ EXCEPT !.pc = "push", !.slot = clean, !.stream = Empty]]
        /\ UNCHANGED <<permits, idle>>

HoldsSlot(u) ==
    \/ user[u].pc \in {"choose", "push"}
    \/ user[u].kind = "pooled" /\ user[u].pc \in {"dial", "send", "reply"}

(* What a dropped exchange leaves in its slot: the stream it had taken is    *)
(* dropped with the future.                                                  *)
Leftover_Stream(u) == IF user[u].stream # Empty THEN user[u].stream ELSE user[u].slot
Leftover(u) == user[u].slot

(* A failed dial, a bad reply, the timeout or a cancelled query.             *)
Abandon(u) ==
    /\ user[u].pc \in {"acquire", "choose", "dial", "send", "reply", "park"}
    /\ user' = [user EXCEPT ![u] =
          IF HoldsSlot(u) THEN [NoExchange EXCEPT !.pc = "push", !.slot = Leftover(u)] ELSE NoExchange]
    /\ UNCHANGED <<permits, idle>>

(* Drop of the guard: the slot is queued, whatever it holds, and only then   *)
(* the permit is released.                                                   *)
Requeued_Streams(queue, slot) == IF slot = Empty THEN queue ELSE Append(queue, slot)
Requeued(queue, slot) == Append(queue, slot)

PushSlot(u) ==
    /\ UserAt(u, "push")
    /\ idle' = Requeued(idle, user[u].slot)
    /\ user' = [user EXCEPT ![u].pc = "release", ![u].slot = Empty]
    /\ UNCHANGED permits

Regained(n) == n + 1

(* An endpoint exchange goes on after it gave its first slot back.           *)
Release(u) ==
    LET me == user[u]
        asking == me.kind = "endpoint" /\ me.want # Empty
    IN  /\ UserAt(u, "release")
        /\ permits' = Regained(permits)
        /\ user' = [user EXCEPT ![u] =
              IF asking /\ me.stream # Empty THEN [@ EXCEPT !.pc = "send"]
              ELSE IF asking THEN [@ EXCEPT !.pc = "dial"] ELSE NoExchange]
        /\ UNCHANGED idle

SlotsNext ==
    \/ \E u \in Users, kind \in {"pooled", "endpoint"}, s \in Servers, o \in Outbounds : CallServer(u, kind, s, o)
    \/ \E u \in Users : Permit(u) \/ Pop(u) \/ Choose(u) \/ Dial(u) \/ Send(u) \/ Reply(u)
                          \/ Abandon(u) \/ PushSlot(u) \/ Release(u)

SlotsSpec == SlotsInit /\ [][SlotsNext]_slotVars

-----------------------------------------------------------------------------
(* Types of the state.                                                       *)
UserSteps == {"idle", "acquire", "pop", "choose", "dial", "send", "reply", "park", "pop to park", "push", "release"}
UserStates == [pc : UserSteps, kind : {"pooled", "endpoint"},
              want : SlotStates, slot : SlotStates, stream : SlotStates]
SlotsTypeOK ==
    /\ permits \in 0..Size
    /\ idle \in Seq(SlotStates)
    /\ user \in [Users -> UserStates]

(* A task with a permit always finds a slot: the expect("permit has a queued *)
(* slot") of acquire() cannot panic, however exchanges fail, are cancelled   *)
(* or give their slots back early.                                           *)
PermitHasSlot == \A u \in Users : user[u].pc \in {"pop", "pop to park"} => idle # <<>>

(* A query only ever travels on a stream to its own server through its own   *)
(* outbound, with no reply outstanding from an earlier query: slots are      *)
(* shared by all servers and outbounds, a node switch leaves the streams of  *)
(* the old outbound parked, and exchanges are cancelled halfway.             *)
RightStream ==
    \A u \in Users :
        /\ user[u].pc \in {"send", "reply"} =>
              /\ user[u].stream.server = user[u].want.server
              /\ user[u].stream.outbound = user[u].want.outbound
        /\ UserAt(u, "send") => ~ user[u].stream.dirty

=============================================================================
