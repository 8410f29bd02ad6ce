----------------------------- MODULE NamesProofs -----------------------------
(***************************************************************************)
(* Proofs about how names become addresses.                                *)
(* FakeIpPool, for any names and any capacity: the two maps of the table   *)
(* agree, and an address is not handed from one name to the next.          *)
(* DnsSlots, for any pool size and any number of exchanges: a permit has   *)
(* its slot, and a query travels on a stream of its own server.            *)
(* EndpointWait, for any number of exchanges: a sleeping waiter is always  *)
(* woken by a leader that still has to fire, and there is at most one      *)
(* bootstrap query at a time.                                              *)
(***************************************************************************)
EXTENDS FakeIpPool, DnsSlots, EndpointWait, FiniteSetTheorems, TLAPS

(* ---- DnsSlots ---------------------------------------------------------- *)

\* Who has a permit and no slot yet, or a slot given back and the permit not.
Owed == {u \in Users : user[u].pc \in {"pop", "pop to park", "release"}}
\* Who has a slot out of the queue.
Holding == {u \in Users : HoldsSlot(u)}

\* The queue has a slot for every permit, those in hand included, and no slot is lost.
SlotsConserved ==
  /\ IsFiniteSet(Owed) /\ IsFiniteSet(Holding)
  /\ Len(idle) = permits + Cardinality(Owed)
  /\ Len(idle) + Cardinality(Holding) = Size

Clean(s) == s # Empty => ~s.dirty

\* What an exchange has at each of its steps.
UserOK(x) ==
  /\ Clean(x.slot) /\ Clean(x.want)
  /\ x.pc \in {"acquire", "pop", "choose", "dial", "send", "reply"} => x.want # Empty
  /\ x.pc \in {"send", "reply"} => x.stream # Empty /\ Matches(x.stream, x.want)
  /\ x.pc \in {"send", "park", "pop to park", "push", "release"} => Clean(x.stream)
  /\ x.pc \in {"push", "release"} /\ x.kind = "endpoint" /\ x.want # Empty /\ x.stream # Empty =>
       Matches(x.stream, x.want)

\* Nothing dirty is parked, nothing foreign is used.
StreamsSorted ==
  /\ \A i \in 1 .. Len(idle) : Clean(idle[i])
  /\ \A u \in Users : UserOK(user[u])

SlotsInv == SlotsTypeOK /\ SlotsConserved /\ StreamsSorted

\* How many permits without a slot, and how many slots, an exchange in state x has.
OwedAt(x) == IF x.pc \in {"pop", "pop to park", "release"} THEN 1 ELSE 0
HeldAt(x) == IF x.pc \in {"choose", "push"} \/ (x.kind = "pooled" /\ x.pc \in {"dial", "send", "reply"})
             THEN 1 ELSE 0

\* The set S with u put in or taken out, as n says; m says whether u was in it.
LEMMA Recount ==
  ASSUME NEW S, IsFiniteSet(S), NEW T, NEW u, NEW m \in {0, 1}, NEW n \in {0, 1},
         u \in S <=> m = 1, T = IF n = 1 THEN S \cup {u} ELSE S \ {u}
  PROVE  /\ IsFiniteSet(T) /\ Cardinality(S) \in Nat /\ Cardinality(T) \in Nat
         /\ Cardinality(T) = Cardinality(S) + n - m
<1>1. Cardinality(S) \in Nat
  BY FS_CardinalityType
<1>2. CASE n = 1
  <2>1. T = S \cup {u}
    BY <1>2
  <2>2. IsFiniteSet(T) /\ Cardinality(T) = IF u \in S THEN Cardinality(S) ELSE Cardinality(S) + 1
    BY <2>1, FS_AddElement
  <2> QED
    BY <1>1, <1>2, <2>2
<1>3. CASE n = 0
  <2>1. T = S \ {u}
    BY <1>3
  <2>2. IsFiniteSet(T) /\ Cardinality(T) = IF u \in S THEN Cardinality(S) - 1 ELSE Cardinality(S)
    BY <2>1, FS_RemoveElement
  <2>3. Cardinality(T) \in Nat
    BY <2>2, FS_CardinalityType
  <2> QED
    BY <1>1, <1>3, <2>2, <2>3
<1> QED
  BY <1>2, <1>3

\* What the two sets of the books are in terms of a state.
LEMMA Members ==
  \A v \in Users : (v \in Owed <=> OwedAt(user[v]) = 1) /\ (v \in Holding <=> HeldAt(user[v]) = 1)
<1> SUFFICES ASSUME NEW v \in Users
             PROVE  (v \in Owed <=> OwedAt(user[v]) = 1) /\ (v \in Holding <=> HeldAt(user[v]) = 1)
  OBVIOUS
<1>1. v \in Owed <=> user[v].pc \in {"pop", "pop to park", "release"}
  BY Zenon DEF Owed
<1>2. v \in Holding <=> HoldsSlot(v)
  BY DEF Holding
<1>3. OwedAt(user[v]) = 1 <=> user[v].pc \in {"pop", "pop to park", "release"}
  <2>1. CASE user[v].pc \in {"pop", "pop to park", "release"}
    <3>1. OwedAt(user[v]) = 1
      BY <2>1, Zenon DEF OwedAt
    <3> QED
      BY <2>1, <3>1, Zenon
  <2>2. CASE user[v].pc \notin {"pop", "pop to park", "release"}
    <3>1. OwedAt(user[v]) = 0
      BY <2>2, Zenon DEF OwedAt
    <3>2. OwedAt(user[v]) # 1
      BY <3>1
    <3> QED
      BY <2>2, <3>2, Zenon
  <2> QED
    BY <2>1, <2>2, Zenon
<1>4. HeldAt(user[v]) = 1 <=> HoldsSlot(v)
  BY DEF HeldAt, HoldsSlot
<1> QED
  BY <1>1, <1>2, <1>3, <1>4, Zenon

\* What a step of one exchange has to show.
LEMMA UserStep ==
  ASSUME SlotsInv, NEW u \in Users, NEW x \in UserStates, UserOK(x), user' = [user EXCEPT ![u] = x],
         idle' \in Seq(SlotStates), \A i \in 1 .. Len(idle') : Clean(idle'[i]), permits' \in Nat,
         Len(idle') - permits' = Len(idle) - permits + OwedAt(x) - OwedAt(user[u]),
         Len(idle') + HeldAt(x) = Len(idle) + HeldAt(user[u])
  PROVE  SlotsInv'
<1>1. /\ user \in [Users -> UserStates] /\ permits \in 0 .. Size /\ idle \in Seq(SlotStates)
      /\ IsFiniteSet(Owed) /\ IsFiniteSet(Holding)
      /\ Len(idle) = permits + Cardinality(Owed) /\ Len(idle) + Cardinality(Holding) = Size
      /\ \A v \in Users : UserOK(user[v])
  BY DEF SlotsInv, SlotsTypeOK, SlotsConserved, StreamsSorted
<1>2. user' \in [Users -> UserStates] /\ user'[u] = x /\ \A v \in Users : v # u => user'[v] = user[v]
  BY <1>1
<1>3. \A v \in Users : (v \in Owed <=> OwedAt(user[v]) = 1) /\ (v \in Holding <=> HeldAt(user[v]) = 1)
  BY Members
<1>4. \A v \in Users : (v \in Owed' <=> OwedAt(user'[v]) = 1) /\ (v \in Holding' <=> HeldAt(user'[v]) = 1)
  <2>1. (\A v \in Users : (v \in Owed <=> OwedAt(user[v]) = 1) /\ (v \in Holding <=> HeldAt(user[v]) = 1))'
    BY Members, PTL
  <2> QED
    BY <2>1
<1>5. /\ OwedAt(x) \in {0, 1} /\ HeldAt(x) \in {0, 1}
      /\ OwedAt(user[u]) \in {0, 1} /\ HeldAt(user[u]) \in {0, 1}
  BY Zenon DEF OwedAt, HeldAt
<1>6. /\ Owed' = IF OwedAt(x) = 1 THEN Owed \cup {u} ELSE Owed \ {u}
      /\ Holding' = IF HeldAt(x) = 1 THEN Holding \cup {u} ELSE Holding \ {u}
  <2>1. Owed \subseteq Users /\ Holding \subseteq Users /\ Owed' \subseteq Users /\ Holding' \subseteq Users
    BY Zenon DEF Owed, Holding
  <2> QED
    BY <1>2, <1>3, <1>4, <2>1
<1>7. /\ IsFiniteSet(Owed') /\ Cardinality(Owed) \in Nat /\ Cardinality(Owed') \in Nat
      /\ Cardinality(Owed') = Cardinality(Owed) + OwedAt(x) - OwedAt(user[u])
  <2>1. IsFiniteSet(Owed) /\ OwedAt(user[u]) \in {0, 1} /\ OwedAt(x) \in {0, 1}
    BY <1>1, <1>5
  <2>2. u \in Owed <=> OwedAt(user[u]) = 1
    BY <1>3
  <2>3. Owed' = IF OwedAt(x) = 1 THEN Owed \cup {u} ELSE Owed \ {u}
    BY <1>6
  <2> QED
    BY ONLY <2>1, <2>2, <2>3, Recount, ZenonT(60)
<1>8. /\ IsFiniteSet(Holding') /\ Cardinality(Holding) \in Nat /\ Cardinality(Holding') \in Nat
      /\ Cardinality(Holding') = Cardinality(Holding) + HeldAt(x) - HeldAt(user[u])
  <2>1. IsFiniteSet(Holding) /\ HeldAt(user[u]) \in {0, 1} /\ HeldAt(x) \in {0, 1}
    BY <1>1, <1>5
  <2>2. u \in Holding <=> HeldAt(user[u]) = 1
    BY <1>3
  <2>3. Holding' = IF HeldAt(x) = 1 THEN Holding \cup {u} ELSE Holding \ {u}
    BY <1>6
  <2> QED
    BY ONLY <2>1, <2>2, <2>3, Recount, ZenonT(60)
<1>9. Len(idle) \in Nat /\ Len(idle') \in Nat
  BY <1>1
<1>11. Len(idle') = permits' + Cardinality(Owed') /\ Len(idle') + Cardinality(Holding') = Size /\ permits' \in 0 .. Size
  <2> DEFINE l == Len(idle)  l2 == Len(idle')  p == permits  p2 == permits'
             o == Cardinality(Owed)  o2 == Cardinality(Owed')
             h == Cardinality(Holding)  h2 == Cardinality(Holding')
             dx == OwedAt(x)  du == OwedAt(user[u])  hx == HeldAt(x)  hu == HeldAt(user[u])
  <2>1. p \in Nat /\ p2 \in Nat /\ Size \in Nat
    BY <1>1, SizeIsNat
  <2>2. l \in Nat /\ l2 \in Nat /\ o \in Nat /\ o2 \in Nat /\ h \in Nat /\ h2 \in Nat
    BY <1>7, <1>8, <1>9, Zenon
  <2>3. dx \in {0, 1} /\ du \in {0, 1} /\ hx \in {0, 1} /\ hu \in {0, 1}
    BY <1>5, Zenon
  <2>4. l = p + o /\ l + h = Size
    BY <1>1, Zenon
  <2>5. o2 = o + dx - du /\ h2 = h + hx - hu
    BY <1>7, <1>8, Zenon
  <2>6. l2 - p2 = l - p + dx - du /\ l2 + hx = l + hu
    OBVIOUS
  <2> HIDE DEF l, l2, p, p2, o, o2, h, h2, dx, du, hx, hu
  <2>7. l2 = p2 + o2 /\ l2 + h2 = Size /\ p2 \in 0 .. Size
    BY ONLY <2>1, <2>2, <2>3, <2>4, <2>5, <2>6, SMT
  <2> QED
    BY <2>7, Zenon DEF l2, o2, h2, p2
<1>12. SlotsTypeOK'
  BY <1>2, <1>11 DEF SlotsTypeOK
<1>13. SlotsConserved'
  BY <1>7, <1>8, <1>11 DEF SlotsConserved
<1>14. StreamsSorted'
  BY <1>1, <1>2 DEF StreamsSorted
<1> QED
  BY <1>12, <1>13, <1>14 DEF SlotsInv

\* A new pool: every slot empty and queued, every permit free.
LEMMA SlotsInvInit == SlotsInit => SlotsInv
<1> SUFFICES ASSUME SlotsInit PROVE SlotsInv
  OBVIOUS
<1>1. NoExchange \in UserStates /\ UserOK(NoExchange) /\ OwedAt(NoExchange) = 0 /\ HeldAt(NoExchange) = 0
  BY DEF NoExchange, UserStates, UserSteps, SlotStates, UserOK, Clean, OwedAt, HeldAt
<1>2. user \in [Users -> UserStates] /\ \A u \in Users : user[u] = NoExchange
  BY <1>1 DEF SlotsInit
<1>3. idle \in Seq(SlotStates) /\ Len(idle) = Size /\ \A i \in 1 .. Len(idle) : idle[i] = Empty
  <2>1. Empty \in SlotStates
    BY DEF SlotStates
  <2>2. idle \in [1 .. Size -> SlotStates]
    BY <2>1 DEF SlotsInit
  <2> QED
    BY <2>2, SizeIsNat DEF SlotsInit
<1>4. Owed = {} /\ Holding = {}
  <2>1. Owed \subseteq Users /\ Holding \subseteq Users
    BY Zenon DEF Owed, Holding
  <2> QED
    BY <1>1, <1>2, <2>1, Members
<1>5. IsFiniteSet({}) /\ Cardinality({}) = 0
  BY FS_EmptySet
<1>6. permits = Size
  BY DEF SlotsInit
<1>7. SlotsConserved
  BY <1>3, <1>4, <1>5, <1>6, SizeIsNat DEF SlotsConserved
<1>8. SlotsTypeOK /\ StreamsSorted
  BY <1>1, <1>2, <1>3, <1>6, SizeIsNat DEF SlotsTypeOK, StreamsSorted, Clean
<1> QED
  BY <1>7, <1>8 DEF SlotsInv

\* A step of one exchange that leaves the pool alone, its slot and its permit with it.
LEMMA UserMove ==
  ASSUME SlotsInv, NEW u \in Users, NEW x \in UserStates, UserOK(x), user' = [user EXCEPT ![u] = x],
         permits' = permits, idle' = idle, OwedAt(x) = OwedAt(user[u]), HeldAt(x) = HeldAt(user[u])
  PROVE  SlotsInv'
<1>1. idle' \in Seq(SlotStates) /\ permits \in 0 .. Size /\ \A i \in 1 .. Len(idle') : Clean(idle'[i])
  BY DEF SlotsInv, SlotsTypeOK, StreamsSorted
<1>2. permits \in Nat /\ permits' \in Nat
  BY <1>1, SizeIsNat
<1>3. Len(idle) \in Nat
  BY <1>1
<1>4. OwedAt(user[u]) \in {0, 1} /\ HeldAt(user[u]) \in {0, 1}
  BY Zenon DEF OwedAt, HeldAt
<1>5. Len(idle') - permits' = Len(idle) - permits + OwedAt(x) - OwedAt(user[u])
  BY <1>2, <1>3, <1>4
<1>6. Len(idle') + HeldAt(x) = Len(idle) + HeldAt(user[u])
  BY <1>3, <1>4
<1> QED
  BY <1>1, <1>2, <1>5, <1>6, UserStep, Zenon

\* The state an exchange is in.
LEMMA UserFacts ==
  ASSUME SlotsInv, NEW u \in Users
  PROVE  /\ user[u] \in UserStates /\ UserOK(user[u])
         /\ user[u].pc \in UserSteps /\ user[u].kind \in {"pooled", "endpoint"}
         /\ user[u].want \in SlotStates /\ user[u].slot \in SlotStates /\ user[u].stream \in SlotStates
<1>1. user \in [Users -> UserStates] /\ UserOK(user[u])
  BY DEF SlotsInv, SlotsTypeOK, StreamsSorted
<1>2. user[u] \in UserStates
  BY <1>1
<1> QED
  BY <1>1, <1>2 DEF UserStates

\* A query comes in.
LEMMA CallKeeps ==
  ASSUME SlotsInv, NEW u \in Users, NEW kind \in {"pooled", "endpoint"}, NEW s \in Servers, NEW o \in Outbounds,
         CallServer(u, kind, s, o)
  PROVE  SlotsInv'
<1> DEFINE w == [server |-> s, outbound |-> o, dirty |-> FALSE]
           x == [NoExchange EXCEPT !.pc = "acquire", !.kind = kind, !.want = w]
<1>1. w \in Streams /\ w.dirty = FALSE
  BY DEF Streams
<1>2. w \in SlotStates /\ w # Empty /\ Empty \in SlotStates
  BY <1>1, EmptyIsNoStream, Zenon DEF SlotStates
<1>3. user' = [user EXCEPT ![u] = x] /\ permits' = permits /\ idle' = idle /\ user[u].pc = "idle"
  BY Zenon DEF CallServer, UserAt
<1> HIDE DEF w
<1>4. /\ x \in UserStates /\ x.pc = "acquire" /\ x.kind = kind /\ x.want = w
      /\ x.slot = Empty /\ x.stream = Empty
  BY <1>2, Zenon DEF NoExchange, UserStates, UserSteps
<1> HIDE DEF x
<1>5. UserOK(x)
  <2>1. Clean(x.slot) /\ Clean(x.want) /\ x.want # Empty
    BY <1>1, <1>2, <1>4, Zenon DEF Clean
  <2> QED
    BY <1>4, <2>1 DEF UserOK
<1>6. OwedAt(x) = OwedAt(user[u]) /\ HeldAt(x) = HeldAt(user[u])
  BY <1>3, <1>4 DEF OwedAt, HeldAt
<1> QED
  BY <1>3, <1>4, <1>5, <1>6, UserMove, Zenon

\* A permit is acquired, for the exchange or to park its stream.
LEMMA PermitKeeps ==
  ASSUME SlotsInv, NEW u \in Users, Permit(u)
  PROVE  SlotsInv'
<1> DEFINE me == user[u]
           goal == IF UserAt(u, "park") THEN "pop to park" ELSE "pop"
           x == [me EXCEPT !.pc = goal]
<1>1. /\ me.pc \in {"acquire", "park"} /\ permits > 0 /\ permits' = permits - 1 /\ idle' = idle
      /\ user' = [user EXCEPT ![u].pc = goal]
  BY Zenon DEF Permit, UserAt, UserTo
<1>2. me \in UserStates /\ UserOK(me) /\ user' = [user EXCEPT ![u] = x]
  BY <1>1, UserFacts, Zenon
<1>3. (me.pc = "park" /\ goal = "pop to park") \/ (me.pc = "acquire" /\ goal = "pop")
  BY <1>1, Zenon DEF UserAt
<1> HIDE DEF me, goal
<1>4. /\ x \in UserStates /\ x.pc = goal /\ x.kind = me.kind /\ x.want = me.want
      /\ x.slot = me.slot /\ x.stream = me.stream
  BY <1>2, <1>3, Zenon DEF UserStates, UserSteps
<1> HIDE DEF x
<1>5. UserOK(x)
  BY <1>2, <1>3, <1>4, Zenon DEF UserOK
<1>6. OwedAt(x) = 1 /\ OwedAt(me) = 0 /\ HeldAt(x) = 0 /\ HeldAt(me) = 0
  BY <1>3, <1>4, Zenon DEF OwedAt, HeldAt
<1>7. idle \in Seq(SlotStates) /\ permits \in 0 .. Size /\ \A i \in 1 .. Len(idle) : Clean(idle[i])
  BY DEF SlotsInv, SlotsTypeOK, StreamsSorted
<1>8. Len(idle) \in Nat /\ permits \in Nat /\ permits' \in Nat
  BY <1>1, <1>7, SizeIsNat
<1>9. /\ Len(idle') - permits' = Len(idle) - permits + OwedAt(x) - OwedAt(me)
      /\ Len(idle') + HeldAt(x) = Len(idle) + HeldAt(me)
  BY <1>1, <1>6, <1>8
<1> QED
  BY <1>1, <1>2, <1>4, <1>5, <1>7, <1>8, <1>9, UserStep, Zenon DEF me

\* The slot that goes with the permit.
LEMMA PopKeeps ==
  ASSUME SlotsInv, NEW u \in Users, Pop(u)
  PROVE  SlotsInv'
<1> DEFINE me == user[u]
           x == IF me.pc = "pop" THEN [me EXCEPT !.slot = Head(idle), !.pc = "choose"]
                ELSE [NoExchange EXCEPT !.slot = me.stream, !.pc = "push"]
<1>1. me.pc \in {"pop", "pop to park"}
  BY Zenon DEF Pop, UserAt
<1>11. idle # <<>> /\ idle' = Tail(idle)
  BY Zenon DEF Pop
<1>12. permits' = permits
  BY Zenon DEF Pop
<1>2. user' = [user EXCEPT ![u] = x]
  BY Zenon DEF Pop, UserAt
<1>3. /\ me \in UserStates /\ UserOK(me) /\ me.stream \in SlotStates
  BY UserFacts
<1>4. idle \in Seq(SlotStates) /\ permits \in 0 .. Size /\ \A i \in 1 .. Len(idle) : Clean(idle[i])
  BY DEF SlotsInv, SlotsTypeOK, StreamsSorted
<1>5. /\ Len(idle) \in Nat /\ Len(idle) > 0 /\ Len(idle') = Len(idle) - 1 /\ idle' \in Seq(SlotStates)
      /\ \A i \in 1 .. Len(idle') : idle'[i] = idle[i + 1]
      /\ Head(idle) \in SlotStates /\ Head(idle) = idle[1]
  BY <1>11, <1>4
<1>6. Clean(Head(idle)) /\ \A i \in 1 .. Len(idle') : Clean(idle'[i])
  BY <1>4, <1>5
<1>7. permits \in Nat /\ permits' \in Nat
  BY <1>12, <1>4, SizeIsNat
<1>8. Empty \in SlotStates
  BY DEF SlotStates
<1> HIDE DEF me
<1>9. CASE me.pc = "pop"
  <2>1. /\ x \in UserStates /\ x.pc = "choose" /\ x.kind = me.kind /\ x.want = me.want
        /\ x.slot = Head(idle) /\ x.stream = me.stream
    BY <1>3, <1>5, <1>9, Zenon DEF UserStates, UserSteps
  <2> HIDE DEF x
  <2>2. UserOK(x)
    BY <1>3, <1>6, <1>9, <2>1 DEF UserOK
  <2>3. OwedAt(x) = 0 /\ OwedAt(me) = 1 /\ HeldAt(x) = 1 /\ HeldAt(me) = 0
    BY <1>9, <2>1 DEF OwedAt, HeldAt
  <2>4. /\ Len(idle') - permits' = Len(idle) - permits + OwedAt(x) - OwedAt(me)
        /\ Len(idle') + HeldAt(x) = Len(idle) + HeldAt(me)
    BY <1>12, <1>5, <1>7, <2>3
  <2> QED
    BY <1>2, <1>5, <1>6, <1>7, <2>1, <2>2, <2>4, UserStep, Zenon DEF me
<1>10. CASE me.pc = "pop to park"
  <2>1. /\ x \in UserStates /\ x.pc = "push" /\ x.want = Empty
        /\ x.slot = me.stream /\ x.stream = Empty
    BY <1>3, <1>8, <1>10, Zenon DEF UserStates, UserSteps, NoExchange
  <2> HIDE DEF x
  <2>2. UserOK(x)
    <3>1. Clean(x.slot) /\ Clean(x.want) /\ Clean(x.stream)
      BY <1>3, <1>10, <2>1, Zenon DEF UserOK, Clean
    <3> QED
      BY <2>1, <3>1 DEF UserOK
  <2>3. OwedAt(x) = 0 /\ OwedAt(me) = 1 /\ HeldAt(x) = 1 /\ HeldAt(me) = 0
    BY <1>10, <2>1, Zenon DEF OwedAt, HeldAt
  <2>4. /\ Len(idle') - permits' = Len(idle) - permits + OwedAt(x) - OwedAt(me)
        /\ Len(idle') + HeldAt(x) = Len(idle) + HeldAt(me)
    BY <1>12, <1>5, <1>7, <2>3
  <2> QED
    BY <1>2, <1>5, <1>6, <1>7, <2>1, <2>2, <2>4, UserStep, Zenon DEF me
<1> QED
  BY <1>1, <1>9, <1>10, Zenon

\* The stream in the slot is taken if it matches.
LEMMA ChooseKeeps ==
  ASSUME SlotsInv, NEW u \in Users, Choose(u)
  PROVE  SlotsInv'
<1> DEFINE me == user[u]
           hit == me.slot # Empty /\ (me.slot # Empty => Matches(me.slot, me.want))
           goal == IF me.kind = "endpoint" THEN "push" ELSE IF hit THEN "send" ELSE "dial"
           stream == IF hit THEN me.slot ELSE Empty
           slot == IF hit THEN Empty ELSE me.slot
           x == [me EXCEPT !.pc = goal, !.stream = stream, !.slot = slot]
<1>1. me.pc = "choose" /\ user' = [user EXCEPT ![u] = x] /\ permits' = permits /\ idle' = idle
  BY DEF Choose, UserAt
<1>2. me \in UserStates /\ UserOK(me) /\ me.kind \in {"pooled", "endpoint"} /\ me.slot \in SlotStates
  BY UserFacts
<1>3. Clean(me.slot) /\ Clean(me.want) /\ me.want # Empty
  BY <1>1, <1>2 DEF UserOK
<1>4. Clean(Empty) /\ Empty \in SlotStates
  BY DEF Clean, SlotStates
<1>5. Clean(stream) /\ Clean(slot) /\ stream \in SlotStates /\ slot \in SlotStates
  BY <1>2, <1>3, <1>4, Zenon
<1>6. stream # Empty => Matches(stream, me.want)
  BY Zenon
<1>7. \/ me.kind = "endpoint" /\ goal = "push"
      \/ me.kind = "pooled" /\ goal = "send" /\ stream # Empty
      \/ me.kind = "pooled" /\ goal = "dial"
  BY <1>2
<1> HIDE DEF me, goal, stream, slot
<1>8. /\ x \in UserStates /\ x.pc = goal /\ x.kind = me.kind /\ x.want = me.want
      /\ x.slot = slot /\ x.stream = stream
  BY <1>2, <1>5, <1>7, Zenon DEF UserStates, UserSteps
<1> HIDE DEF x
<1>9. UserOK(x)
  BY <1>3, <1>5, <1>6, <1>7, <1>8 DEF UserOK
<1>10. OwedAt(x) = OwedAt(me) /\ HeldAt(x) = HeldAt(me)
  BY <1>1, <1>7, <1>8, Zenon DEF OwedAt, HeldAt
<1> QED
  BY <1>1, <1>8, <1>9, <1>10, UserMove, Zenon DEF me

\* A new stream, to the server and through the outbound that are wanted.
LEMMA DialKeeps ==
  ASSUME SlotsInv, NEW u \in Users, Dial(u)
  PROVE  SlotsInv'
<1> DEFINE me == user[u]
           x == [me EXCEPT !.pc = "send", !.stream = me.want]
<1>1. me \in UserStates /\ UserOK(me) /\ me.want \in SlotStates /\ user \in [Users -> UserStates]
  BY UserFacts DEF SlotsInv, SlotsTypeOK
<1>2. me.pc = "dial" /\ permits' = permits /\ idle' = idle
  BY DEF Dial, UserAt
<1>3. user' = [user EXCEPT ![u] = x]
  BY <1>1, Zenon DEF Dial
<1>4. Clean(me.slot) /\ Clean(me.want) /\ me.want # Empty /\ Matches(me.want, me.want)
  BY <1>1, <1>2 DEF UserOK, Matches
<1> HIDE DEF me
<1>5. /\ x \in UserStates /\ x.pc = "send" /\ x.kind = me.kind /\ x.want = me.want
      /\ x.slot = me.slot /\ x.stream = me.want
  BY <1>1, Zenon DEF UserStates, UserSteps
<1> HIDE DEF x
<1>6. UserOK(x)
  BY <1>4, <1>5 DEF UserOK
<1>7. OwedAt(x) = OwedAt(me) /\ HeldAt(x) = HeldAt(me)
  BY <1>2, <1>5 DEF OwedAt, HeldAt
<1> QED
  BY <1>2, <1>3, <1>5, <1>6, <1>7, UserMove, Zenon DEF me

\* The request makes the stream dirty.
LEMMA SendKeeps ==
  ASSUME SlotsInv, NEW u \in Users, Send(u)
  PROVE  SlotsInv'
<1> DEFINE me == user[u]
           sent == [me.stream EXCEPT !.dirty = TRUE]
           x == [me EXCEPT !.pc = "reply", !.stream = sent]
<1>1. me \in UserStates /\ UserOK(me) /\ me.stream \in SlotStates /\ user \in [Users -> UserStates]
  BY UserFacts DEF SlotsInv, SlotsTypeOK
<1>2. me.pc = "send" /\ permits' = permits /\ idle' = idle
  BY DEF Send, UserAt
<1>3. user' = [user EXCEPT ![u] = x]
  BY <1>1, Zenon DEF Send
<1>4. /\ Clean(me.slot) /\ Clean(me.want) /\ me.want # Empty /\ Matches(me.stream, me.want)
      /\ me.stream # Empty
  BY <1>1, <1>2 DEF UserOK
<1>5. me.stream \in Streams
  BY <1>1, <1>4 DEF SlotStates
<1>6. sent \in Streams /\ sent.server = me.stream.server /\ sent.outbound = me.stream.outbound
  BY <1>5, Zenon DEF Streams
<1>7. sent \in SlotStates /\ sent # Empty /\ Matches(sent, me.want)
  BY <1>4, <1>6, EmptyIsNoStream, Zenon DEF SlotStates, Matches
<1> HIDE DEF me, sent
<1>8. /\ x \in UserStates /\ x.pc = "reply" /\ x.kind = me.kind /\ x.want = me.want
      /\ x.slot = me.slot /\ x.stream = sent
  BY <1>1, <1>7, Zenon DEF UserStates, UserSteps
<1> HIDE DEF x
<1>9. UserOK(x)
  BY <1>4, <1>7, <1>8 DEF UserOK
<1>10. OwedAt(x) = OwedAt(me) /\ HeldAt(x) = HeldAt(me)
  BY <1>2, <1>8 DEF OwedAt, HeldAt
<1> QED
  BY <1>2, <1>3, <1>8, <1>9, <1>10, UserMove, Zenon DEF me

\* A validated reply makes it clean again.
LEMMA ReplyKeeps ==
  ASSUME SlotsInv, NEW u \in Users, Reply(u)
  PROVE  SlotsInv'
<1> DEFINE me == user[u]
           clean == [me.stream EXCEPT !.dirty = FALSE]
           x == IF me.kind = "endpoint" THEN [me EXCEPT !.pc = "park", !.stream = clean]
                ELSE [me EXCEPT !.pc = "push", !.slot = clean, !.stream = Empty]
<1>1. /\ me \in UserStates /\ UserOK(me) /\ me.stream \in SlotStates /\ user \in [Users -> UserStates]
      /\ me.kind \in {"pooled", "endpoint"}
  BY UserFacts DEF SlotsInv, SlotsTypeOK
<1>2. me.pc = "reply" /\ permits' = permits /\ idle' = idle
  BY DEF Reply, UserAt
<1>3. user' = [user EXCEPT ![u] = x]
  BY <1>1 DEF Reply
<1>4. Clean(me.slot) /\ Clean(me.want) /\ me.stream # Empty
  BY <1>1, <1>2 DEF UserOK
<1>5. me.stream \in Streams
  BY <1>1, <1>4 DEF SlotStates
<1>6. clean \in Streams /\ clean.dirty = FALSE
  BY <1>5, Zenon DEF Streams
<1>7. clean \in SlotStates /\ Clean(clean) /\ Empty \in SlotStates /\ Clean(Empty)
  BY <1>6, Zenon DEF SlotStates, Clean
<1> HIDE DEF me, clean
<1>8. CASE me.kind = "endpoint"
  <2>1. /\ x \in UserStates /\ x.pc = "park" /\ x.kind = me.kind /\ x.want = me.want
        /\ x.slot = me.slot /\ x.stream = clean
    BY <1>1, <1>7, <1>8, Zenon DEF UserStates, UserSteps
  <2> HIDE DEF x
  <2>2. UserOK(x)
    BY <1>4, <1>7, <2>1 DEF UserOK
  <2>3. OwedAt(x) = OwedAt(me) /\ HeldAt(x) = HeldAt(me)
    BY <1>2, <1>8, <2>1 DEF OwedAt, HeldAt
  <2> QED
    BY <1>2, <1>3, <2>1, <2>2, <2>3, UserMove, Zenon DEF me
<1>9. CASE me.kind = "pooled"
  <2>1. /\ x \in UserStates /\ x.pc = "push" /\ x.kind = me.kind /\ x.want = me.want
        /\ x.slot = clean /\ x.stream = Empty
    BY <1>1, <1>7, <1>9, Zenon DEF UserStates, UserSteps
  <2> HIDE DEF x
  <2>2. UserOK(x)
    BY <1>4, <1>7, <2>1 DEF UserOK
  <2>3. OwedAt(x) = OwedAt(me) /\ HeldAt(x) = HeldAt(me)
    BY <1>2, <1>9, <2>1 DEF OwedAt, HeldAt
  <2> QED
    BY <1>2, <1>3, <2>1, <2>2, <2>3, UserMove, Zenon DEF me
<1> QED
  BY <1>1, <1>8, <1>9

\* An exchange that begins anew, its slot still to be given back or nothing left to do.
LEMMA FreshFacts ==
  ASSUME NEW s \in SlotStates, Clean(s)
  PROVE  /\ [NoExchange EXCEPT !.pc = "push", !.slot = s] \in UserStates
         /\ UserOK([NoExchange EXCEPT !.pc = "push", !.slot = s])
         /\ OwedAt([NoExchange EXCEPT !.pc = "push", !.slot = s]) = 0
         /\ HeldAt([NoExchange EXCEPT !.pc = "push", !.slot = s]) = 1
         /\ NoExchange \in UserStates /\ UserOK(NoExchange)
         /\ OwedAt(NoExchange) = 0 /\ HeldAt(NoExchange) = 0
<1> DEFINE x == [NoExchange EXCEPT !.pc = "push", !.slot = s]
<1>1. Empty \in SlotStates /\ Clean(Empty)
  BY DEF SlotStates, Clean
<1>2. NoExchange \in UserStates /\ UserOK(NoExchange) /\ OwedAt(NoExchange) = 0 /\ HeldAt(NoExchange) = 0
  BY <1>1 DEF NoExchange, UserStates, UserSteps, UserOK, OwedAt, HeldAt
<1>3. /\ x \in UserStates /\ x.pc = "push" /\ x.want = Empty /\ x.slot = s /\ x.stream = Empty
  BY <1>1, Zenon DEF NoExchange, UserStates, UserSteps
<1> HIDE DEF x
<1>4. UserOK(x) /\ OwedAt(x) = 0 /\ HeldAt(x) = 1
  BY <1>1, <1>3 DEF UserOK, OwedAt, HeldAt
<1> QED
  BY <1>2, <1>3, <1>4, Zenon DEF x

\* A failed or cancelled exchange drops its stream and still gives its slot back.
LEMMA AbandonKeeps ==
  ASSUME SlotsInv, NEW u \in Users, Abandon(u)
  PROVE  SlotsInv'
<1> DEFINE me == user[u]
           push == [NoExchange EXCEPT !.pc = "push", !.slot = me.slot]
<1>1. user' = [user EXCEPT ![u] = IF HoldsSlot(u) THEN push ELSE NoExchange]
  BY DEF Abandon, Leftover
<1>2. me.pc \in {"acquire", "choose", "dial", "send", "reply", "park"} /\ permits' = permits /\ idle' = idle
  BY DEF Abandon
<1>3. OwedAt(me) = 0
  BY <1>2, Zenon DEF OwedAt
<1>4. me.slot \in SlotStates /\ Clean(me.slot)
  BY UserFacts, Zenon DEF UserOK
<1>5. /\ push \in UserStates /\ UserOK(push) /\ OwedAt(push) = 0 /\ HeldAt(push) = 1
      /\ NoExchange \in UserStates /\ UserOK(NoExchange) /\ OwedAt(NoExchange) = 0 /\ HeldAt(NoExchange) = 0
  BY <1>4, FreshFacts, Zenon
<1>6. CASE HoldsSlot(u)
  <2>1. HeldAt(me) = 1
    BY <1>6, Zenon DEF HoldsSlot, HeldAt
  <2>2. user' = [user EXCEPT ![u] = push]
    BY <1>1, <1>6, Zenon
  <2> HIDE DEF push
  <2> QED
    BY <1>2, <1>3, <1>5, <2>1, <2>2, UserMove, Zenon DEF me
<1>7. CASE ~ HoldsSlot(u)
  <2>1. HeldAt(me) = 0
    BY <1>7, Zenon DEF HoldsSlot, HeldAt
  <2>2. user' = [user EXCEPT ![u] = NoExchange]
    BY <1>1, <1>7, Zenon
  <2> HIDE DEF push
  <2> QED
    BY <1>2, <1>3, <1>5, <2>1, <2>2, UserMove, Zenon DEF me
<1> QED
  BY <1>6, <1>7, Zenon

\* Drop of the guard, its first half: the slot is queued.
LEMMA PushKeeps ==
  ASSUME SlotsInv, NEW u \in Users, PushSlot(u)
  PROVE  SlotsInv'
<1> DEFINE me == user[u]
           x == [me EXCEPT !.pc = "release", !.slot = Empty]
<1>1. /\ me \in UserStates /\ UserOK(me) /\ me.slot \in SlotStates /\ user \in [Users -> UserStates]
      /\ Clean(me.slot)
  BY UserFacts, Zenon DEF SlotsInv, SlotsTypeOK, UserOK
<1>2. me.pc = "push" /\ permits' = permits
  BY DEF PushSlot, UserAt
<1>3. idle' = Append(idle, me.slot)
  BY DEF PushSlot, Requeued
<1>4. user' = [user EXCEPT ![u] = x]
  BY <1>1, Zenon DEF PushSlot
<1>5. idle \in Seq(SlotStates) /\ permits \in 0 .. Size /\ \A i \in 1 .. Len(idle) : Clean(idle[i])
  BY DEF SlotsInv, SlotsTypeOK, StreamsSorted
<1>6. permits \in Nat /\ permits' \in Nat
  BY <1>2, <1>5, SizeIsNat
<1> HIDE DEF me
<1>7. /\ Len(idle) \in Nat /\ Len(idle') = Len(idle) + 1 /\ idle' \in Seq(SlotStates)
      /\ \A i \in 1 .. Len(idle') : idle'[i] = IF i = Len(idle) + 1 THEN me.slot ELSE idle[i]
  BY <1>1, <1>3, <1>5
<1>8. \A i \in 1 .. Len(idle') : Clean(idle'[i])
  BY <1>1, <1>5, <1>7
<1>9. Empty \in SlotStates /\ Clean(Empty)
  BY DEF SlotStates, Clean
<1>10. /\ x \in UserStates /\ x.pc = "release" /\ x.kind = me.kind /\ x.want = me.want
       /\ x.slot = Empty /\ x.stream = me.stream
  BY <1>1, <1>9, Zenon DEF UserStates, UserSteps
<1> HIDE DEF x
<1>11. UserOK(x)
  BY <1>1, <1>2, <1>9, <1>10 DEF UserOK
<1>12. OwedAt(x) = 1 /\ OwedAt(me) = 0 /\ HeldAt(x) = 0 /\ HeldAt(me) = 1
  BY <1>2, <1>10 DEF OwedAt, HeldAt
<1>13. /\ Len(idle') - permits' = Len(idle) - permits + OwedAt(x) - OwedAt(me)
       /\ Len(idle') + HeldAt(x) = Len(idle) + HeldAt(me)
  BY <1>2, <1>6, <1>7, <1>12
<1> QED
  BY <1>4, <1>6, <1>7, <1>8, <1>10, <1>11, <1>13, UserStep, Zenon DEF me

\* Its second half: the permit is released.
LEMMA ReleaseKeeps ==
  ASSUME SlotsInv, NEW u \in Users, Release(u)
  PROVE  SlotsInv'
<1> DEFINE me == user[u]
           asking == me.kind = "endpoint" /\ me.want # Empty
           x == IF asking /\ me.stream # Empty THEN [me EXCEPT !.pc = "send"]
                ELSE IF asking THEN [me EXCEPT !.pc = "dial"] ELSE NoExchange
<1>1. me \in UserStates /\ UserOK(me) /\ user \in [Users -> UserStates]
  BY UserFacts DEF SlotsInv, SlotsTypeOK
<1>2. me.pc = "release" /\ permits' = permits + 1 /\ idle' = idle
  BY DEF Release, UserAt, Regained
<1>3. user' = [user EXCEPT ![u] = x]
  BY <1>1 DEF Release
<1>4. idle \in Seq(SlotStates) /\ permits \in 0 .. Size /\ \A i \in 1 .. Len(idle) : Clean(idle[i])
  BY DEF SlotsInv, SlotsTypeOK, StreamsSorted
<1>5. Len(idle) \in Nat /\ permits \in Nat /\ permits' \in Nat
  BY <1>2, <1>4, SizeIsNat
<1>6. Empty \in SlotStates /\ Clean(Empty)
  BY DEF SlotStates, Clean
<1>7. Clean(me.slot) /\ Clean(me.want) /\ Clean(me.stream)
  BY <1>1, <1>2 DEF UserOK
<1>8. asking /\ me.stream # Empty => Matches(me.stream, me.want)
  BY <1>1, <1>2 DEF UserOK
<1>9. x \in UserStates /\ UserOK(x) /\ OwedAt(x) = 0 /\ HeldAt(x) = 0
  <2>1. CASE asking /\ me.stream # Empty
    <3>1. /\ x \in UserStates /\ x.pc = "send" /\ x.kind = "endpoint" /\ x.want = me.want /\ x.want # Empty
          /\ x.slot = me.slot /\ x.stream = me.stream /\ x.stream # Empty
      BY <1>1, <2>1, Zenon DEF UserStates, UserSteps
    <3> HIDE DEF x
    <3> QED
      BY <1>7, <1>8, <2>1, <3>1 DEF UserOK, OwedAt, HeldAt
  <2>2. CASE asking /\ me.stream = Empty
    <3>1. /\ x \in UserStates /\ x.pc = "dial" /\ x.kind = "endpoint" /\ x.want = me.want /\ x.want # Empty
          /\ x.slot = me.slot
      BY <1>1, <2>2, Zenon DEF UserStates, UserSteps
    <3> HIDE DEF x
    <3> QED
      BY <1>7, <3>1 DEF UserOK, OwedAt, HeldAt
  <2>3. CASE ~ asking
    <3>1. x = NoExchange
      BY <2>3, Zenon
    <3> QED
      BY <1>6, <3>1, FreshFacts, Zenon
  <2> QED
    BY <2>1, <2>2, <2>3, Zenon
<1> HIDE DEF me, x
<1>10. OwedAt(me) = 1 /\ HeldAt(me) = 0
  BY <1>2 DEF OwedAt, HeldAt
<1>11. /\ Len(idle') - permits' = Len(idle) - permits + OwedAt(x) - OwedAt(me)
       /\ Len(idle') + HeldAt(x) = Len(idle) + HeldAt(me)
  BY <1>2, <1>5, <1>9, <1>10
<1> QED
  BY <1>2, <1>3, <1>4, <1>5, <1>9, <1>11, UserStep, Zenon DEF me

\* Every step of the pool keeps the books and the streams in order.
LEMMA SlotsInvStep == SlotsInv /\ [SlotsNext]_slotVars => SlotsInv'
<1> SUFFICES ASSUME SlotsInv, [SlotsNext]_slotVars PROVE SlotsInv'
  OBVIOUS
<1>1. ASSUME NEW u \in Users, NEW kind \in {"pooled", "endpoint"}, NEW s \in Servers, NEW o \in Outbounds,
             CallServer(u, kind, s, o)
      PROVE  SlotsInv'
  BY <1>1, CallKeeps
<1>2. ASSUME NEW u \in Users,
             Permit(u) \/ Pop(u) \/ Choose(u) \/ Dial(u) \/ Send(u) \/ Reply(u) \/ Abandon(u) \/ PushSlot(u)
               \/ Release(u)
      PROVE  SlotsInv'
  BY <1>2, PermitKeeps, PopKeeps, ChooseKeeps, DialKeeps, SendKeeps, ReplyKeeps, AbandonKeeps,
      PushKeeps, ReleaseKeeps
<1>3. CASE UNCHANGED slotVars
  BY <1>3, Zenon DEF slotVars, SlotsInv, SlotsTypeOK, SlotsConserved, StreamsSorted, Owed,
      Holding, HoldsSlot
<1> QED
  BY <1>1, <1>2, <1>3 DEF SlotsNext

\* The books of the pool balance and its streams are in order, whatever the exchanges do.
THEOREM SlotsInvariant == SlotsSpec => []SlotsInv
  BY SlotsInvInit, SlotsInvStep, PTL DEF SlotsSpec

\* A task that got a permit from ProxyConnPool.available finds a slot in ProxyConnPool.idle: the
\* expect("permit has a queued slot") of acquire() never fires, however many exchanges there are and
\* wherever they fail, are cancelled or give their slots back early.
THEOREM SlotForPermit == SlotsSpec => []PermitHasSlot
<1>1. SlotsInv => PermitHasSlot
  <2> SUFFICES ASSUME SlotsInv, NEW u \in Users, user[u].pc \in {"pop", "pop to park"} PROVE idle # <<>>
    BY Zenon DEF PermitHasSlot
  <2>1. u \in Owed
    BY Zenon DEF Owed
  <2>2. IsFiniteSet(Owed) /\ Len(idle) = permits + Cardinality(Owed) /\ permits \in 0 .. Size
    BY Zenon DEF SlotsInv, SlotsConserved, SlotsTypeOK
  <2>3. Cardinality(Owed) \in Nat /\ Cardinality(Owed) # 0
    <3>1. Cardinality(Owed) \in Nat
      BY <2>2, FS_CardinalityType, Zenon
    <3>2. Cardinality(Owed) = 0 => Owed = {}
      BY <2>2, FS_EmptySet, Zenon
    <3> QED
      BY <2>1, <3>1, <3>2, Zenon
  <2>4. Len(idle) # 0
    <3> DEFINE c == Cardinality(Owed)  l == Len(idle)
    <3>1. c \in Nat /\ c # 0 /\ permits \in 0 .. Size /\ l = permits + c
      BY <2>2, <2>3, Zenon
    <3> HIDE DEF c, l
    <3>2. l # 0
      BY ONLY <3>1, SizeIsNat, SMT
    <3> QED
      BY <3>2, Zenon DEF l
  <2>5. Len(<<>>) = 0
    BY Zenon
  <2> QED
    BY <2>4, <2>5, Zenon
<1> QED
  BY <1>1, SlotsInvariant, PTL

\* A DNS query travels only on a stream to its own server through its own outbound, and only on one with no
\* reply outstanding, for any pool size and any number of servers, outbounds and exchanges.
THEOREM OwnStream == SlotsSpec => []RightStream
<1>1. SlotsInv => RightStream
  BY Zenon DEF SlotsInv, StreamsSorted, RightStream, UserOK, Clean, Matches, UserAt
<1> QED
  BY <1>1, SlotsInvariant, PTL

(* ---- EndpointWait ------------------------------------------------------ *)

PCs == {"idle", "check", "role", "query", "unregister", "notify",
        "enable", "recheck", "still", "sleep"}
Exchanges == [pc : PCs, notify : Notifies \cup {None}, woken : BOOLEAN]

Leading(t) == task[t].pc \in {"query", "unregister", "notify"}
Waiting(t) == task[t].pc \in {"enable", "recheck", "still", "sleep"}

Typed == task \in [Tasks -> Exchanges]

\* Every leader fires a Notify of its own.
OwnNotify ==
  /\ \A t \in Tasks : Leading(t) \/ Waiting(t) => task[t].notify # None
  /\ \A t, u \in Tasks : Leading(t) /\ Leading(u) /\ task[t].notify = task[u].notify => t = u

\* A registered Notify belongs to a leader that has not taken it back, and a
\* leader that queries is the registered one.
Registered ==
  /\ waits # None => \E t \in Tasks : task[t].pc \in {"query", "unregister"} /\ task[t].notify = waits
  /\ \A t \in Tasks : task[t].pc = "query" => task[t].notify = waits

IInv == Typed /\ OwnNotify /\ Registered /\ NoLostWakeup

USE DEF At, Leading, Waiting, With

\* No exchange has begun.
LEMMA InitIInv == WaitInit => IInv
  BY DEF WaitInit, Free, IInv, Typed, Exchanges, PCs, OwnNotify, Registered, NoLostWakeup

\* The steps of one exchange that touch neither the registry nor a leader:
\* before and after, t does not lead, and if it sleeps its leader is there.
LEMMA QuietIInv ==
  ASSUME IInv, NEW t \in Tasks, NEW r \in Exchanges,
         task' = [task EXCEPT ![t] = r], waits' = waits,
         ~ Leading(t), r.pc \notin {"query", "unregister", "notify"},
         r.pc \in {"enable", "recheck", "still", "sleep"} => r.notify # None,
         r.pc = "sleep" /\ ~ r.woken =>
           \E u \in Tasks : Leading(u) /\ task[u].notify = r.notify
  PROVE  IInv'
<1> USE DEF IInv, Typed
<1>1. Typed'
  OBVIOUS
<1>2. OwnNotify'
  BY DEF OwnNotify
<1>3. Registered'
  BY DEF Registered
<1>4. NoLostWakeup'
  BY DEF NoLostWakeup
<1> QED
  BY <1>1, <1>2, <1>3, <1>4

\* endpoint_addresses up to the choice of a role, the look of a waiter at the
\* cache, its decision to sleep, its wake-up and its cancellation.
LEMMA WaiterIInv ==
  ASSUME IInv, NEW t \in Tasks,
         Call(t) \/ Check(t) \/ Wait(t) \/ Enable(t) \/ Recheck(t) \/ Still(t) \/ Wake(t) \/ Cancel(t)
  PROVE  IInv'
<1> DEFINE Moved(pc) == [task[t] EXCEPT !.pc = pc]
           Back(pc) == [Free EXCEPT !.pc = pc]
<1> USE DEF IInv, Typed
<1>1. Free \in Exchanges /\ Back("check") \in Exchanges /\ Free.pc = "idle" /\ Back("check").pc = "check"
  BY Zenon DEF Free, Exchanges, PCs
<1>2. ASSUME NEW pc \in PCs
      PROVE  Moved(pc) \in Exchanges /\ Moved(pc).pc = pc /\ Moved(pc).notify = task[t].notify
                                      /\ Moved(pc).woken = task[t].woken
  BY DEF Exchanges
<1>3. CASE Call(t)
  <2> DEFINE r == Moved("check")
  <2>1. task' = [task EXCEPT ![t] = r] /\ waits' = waits /\ ~ Leading(t)
    BY <1>3 DEF Call, To
  <2>2. r \in Exchanges /\ r.pc = "check"
    BY <1>2 DEF PCs
  <2> HIDE DEF r, IInv
  <2> QED
    BY <2>1, <2>2, QuietIInv, Zenon
<1>4. CASE Check(t) \/ Recheck(t)
  <2> DEFINE r == IF task'[t] = Free THEN Free ELSE Moved(IF task[t].pc = "check" THEN "role" ELSE "still")
  <2>1. waits' = waits /\ ~ Leading(t) /\ (task[t].pc = "recheck" => task[t].notify # None)
    BY <1>4 DEF Check, Recheck, OwnNotify
  <2>2. task' = [task EXCEPT ![t] = r]
    <3>1. task[t].pc \in {"check", "recheck"}
      BY <1>4 DEF Check, Recheck
    <3>2. \/ task' = [task EXCEPT ![t] = Free]
          \/ task' = [task EXCEPT ![t] = Moved(IF task[t].pc = "check" THEN "role" ELSE "still")]
      BY <1>4 DEF Check, Recheck, To
    <3> HIDE DEF Moved, Free
    <3> QED
      BY <3>2
  <2>3. /\ r \in Exchanges /\ r.pc \in {"idle", "role", "still"}
        /\ r.pc = "still" => r.notify # None
    <3>1. task[t].pc \in {"check", "recheck"}
      BY <1>4 DEF Check, Recheck
    <3>2. "role" \in PCs /\ "still" \in PCs
      BY DEF PCs
    <3> HIDE DEF Moved, Free
    <3> QED
      BY <3>1, <3>2, <2>1, <1>1, <1>2
  <2> HIDE DEF r, IInv
  <2> QED
    BY <2>1, <2>2, <2>3, QuietIInv, Zenon
<1>5. CASE Wait(t)
  <2> DEFINE r == With("enable", waits)
  <2>1. task' = [task EXCEPT ![t] = r] /\ waits' = waits /\ ~ Leading(t) /\ waits # None
    BY <1>5 DEF Wait
  <2>2. PICK u \in Tasks : task[u].notify = waits
    BY <2>1 DEF Registered
  <2>3. r \in Exchanges
    BY <2>2 DEF Exchanges, PCs
  <2>4. r.pc = "enable" /\ r.notify = waits
    OBVIOUS
  <2> HIDE DEF r, IInv
  <2> QED
    BY <2>1, <2>3, <2>4, QuietIInv, Zenon
<1>6. CASE Enable(t)
  <2> DEFINE r == Moved("recheck")
  <2>1. task' = [task EXCEPT ![t] = r] /\ waits' = waits /\ ~ Leading(t) /\ task[t].notify # None
    BY <1>6 DEF Enable, To, OwnNotify
  <2>2. r \in Exchanges /\ r.pc = "recheck" /\ r.notify = task[t].notify
    BY <1>2 DEF PCs
  <2> HIDE DEF r, IInv
  <2> QED
    BY <2>1, <2>2, QuietIInv, Zenon
<1>7. CASE Still(t)
  <2>1. waits' = waits /\ ~ Leading(t) /\ task[t].notify # None
    BY <1>7 DEF Still, OwnNotify
  <2>2. CASE StillWaiting(t)
    <3> DEFINE r == Moved("sleep")
    <3>1. task' = [task EXCEPT ![t] = r]
      BY <1>7, <2>2 DEF Still
    <3>2. \E u \in Tasks : Leading(u) /\ task[u].notify = task[t].notify
      BY <2>1, <2>2 DEF StillWaiting, Registered
    <3>3. r \in Exchanges /\ r.pc = "sleep" /\ r.notify = task[t].notify
      BY <1>2 DEF PCs
    <3>4. \E u \in Tasks : Leading(u) /\ task[u].notify = r.notify
      BY <3>2, <3>3
    <3> HIDE DEF r, IInv
    <3> QED
      BY <2>1, <3>1, <3>3, <3>4, QuietIInv, Zenon
  <2>3. CASE ~ StillWaiting(t)
    <3> DEFINE r == Back("check")
    <3>1. task' = [task EXCEPT ![t] = r]
      BY <1>7, <2>3 DEF Still
    <3>2. r \in Exchanges /\ r.pc = "check"
      BY <1>1
    <3> HIDE DEF r, IInv
    <3> QED
      BY <2>1, <3>1, <3>2, QuietIInv, Zenon
  <2> QED
    BY <2>2, <2>3
<1>8. CASE Wake(t) \/ Cancel(t)
  <2>1. waits' = waits /\ ~ Leading(t)
    BY <1>8 DEF Wake, Cancel
  <2>2. task' = [task EXCEPT ![t] = Back("check")] \/ task' = [task EXCEPT ![t] = Free]
    BY <1>8 DEF Wake, Cancel
  <2> HIDE DEF Back, IInv, Free
  <2> QED
    BY <2>1, <2>2, <1>1, QuietIInv
<1> QED
  BY <1>3, <1>4, <1>5, <1>6, <1>7, <1>8

\* A new leader registers a Notify nobody else holds.
LEMMA LeadIInv ==
  ASSUME IInv, NEW t \in Tasks, Lead(t)
  PROVE  IInv'
<1> USE DEF IInv
<1>1. PICK n \in Notifies : /\ Fresh(n) /\ waits' = n
                            /\ task' = [task EXCEPT ![t] = With("query", n)]
  BY Zenon DEF Lead
<1>2. waits = None /\ n # None /\ task[t].pc = "role"
  BY <1>1 DEF Lead, Leads, Fresh
<1>3. Typed'
  BY <1>1 DEF Typed, Exchanges, PCs
<1>4. OwnNotify'
  BY <1>1, <1>2 DEF OwnNotify, Fresh, Typed
<1>5. Registered'
  <2>1. \A u \in Tasks : task[u].pc # "query"
    BY <1>2 DEF Registered, OwnNotify
  <2> QED
    BY <1>1, <1>2, <2>1 DEF Registered, Typed
<1>6. NoLostWakeup'
  BY <1>1, <1>2 DEF NoLostWakeup, Typed
<1> QED
  BY <1>3, <1>4, <1>5, <1>6

\* The end of the query and the two steps of the guard's drop.
LEMMA QueryIInv ==
  ASSUME IInv, NEW t \in Tasks, NEW found \in BOOLEAN, Query(t, found)
  PROVE  IInv'
<1> USE DEF IInv
<1>1. task[t].pc = "query" /\ waits' = waits /\ task' = [task EXCEPT ![t].pc = "unregister"]
  BY DEF Query, To
<1>2. Typed'
  BY <1>1 DEF Typed, Exchanges, PCs
<1>3. OwnNotify'
  BY <1>1 DEF OwnNotify, Typed, Exchanges
<1>4. Registered'
  BY <1>1 DEF Registered, Typed, Exchanges
<1>5. NoLostWakeup'
  BY <1>1 DEF NoLostWakeup, Typed, Exchanges
<1> QED
  BY <1>2, <1>3, <1>4, <1>5

\* Taking the Notify back: no other querier holds it.
LEMMA UnregisterIInv ==
  ASSUME IInv, NEW t \in Tasks, Unregister(t)
  PROVE  IInv'
<1> USE DEF IInv
<1>1. /\ task[t].pc = "unregister" /\ task' = [task EXCEPT ![t].pc = "notify"]
      /\ waits' = IF waits = task[t].notify THEN None ELSE waits
  BY DEF Unregister, To
<1>2. Typed'
  BY <1>1 DEF Typed, Exchanges, PCs
<1>3. OwnNotify'
  BY <1>1 DEF OwnNotify, Typed, Exchanges
<1>4. Registered'
  <2>1. \A u \in Tasks : task[u].pc = "query" => task[u].notify # task[t].notify
    BY <1>1 DEF OwnNotify
  <2> QED
    BY <1>1, <2>1 DEF Registered, Typed, Exchanges
<1>5. NoLostWakeup'
  BY <1>1 DEF NoLostWakeup, Typed, Exchanges
<1> QED
  BY <1>2, <1>3, <1>4, <1>5

\* notify_waiters wakes all sleepers of the Notify before its leader is gone.
LEMMA NotifyIInv ==
  ASSUME IInv, NEW t \in Tasks, Notify(t)
  PROVE  IInv'
<1> USE DEF IInv
<1>1. waits' = waits /\ task[t].pc = "notify"
  BY DEF Notify
<1>2. \A u \in Tasks \ {t} :
        /\ task'[u].pc = task[u].pc /\ task'[u].notify = task[u].notify
        /\ task'[u].woken = (task[u].woken \/ (/\ task[u].notify = task[t].notify
                                              /\ task[u].pc \in {"recheck", "still", "sleep"}))
        /\ task'[u] \in Exchanges
  BY Zenon DEF Notify, Typed, Exchanges
<1>3. task'[t] = Free /\ Free \in Exchanges /\ Free.pc = "idle"
  BY DEF Notify, Free, Exchanges, PCs
<1>4. Typed'
  <2>1. task' = [u \in Tasks |-> task'[u]]
    BY DEF Notify
  <2> QED
    BY <2>1, <1>2, <1>3 DEF Typed
<1>5. OwnNotify'
  BY <1>2, <1>3 DEF OwnNotify
<1>6. Registered'
  BY <1>1, <1>2, <1>3 DEF Registered
<1>7. NoLostWakeup'
  <2> SUFFICES ASSUME NEW u \in Tasks, (task[u].pc = "sleep")', ~ task'[u].woken
               PROVE  \E l \in Tasks : task'[l].pc \in {"query", "unregister", "notify"} /\ task'[l].notify = task'[u].notify
    BY DEF NoLostWakeup
  <2>1. u # t /\ task[u].pc = "sleep" /\ task[u].notify # task[t].notify /\ ~ task[u].woken
    BY <1>2, <1>3, Zenon
  <2>2. PICK l \in Tasks : Leading(l) /\ task[l].notify = task[u].notify
    BY <2>1 DEF NoLostWakeup
  <2> QED
    BY <2>1, <2>2, <1>2
<1> QED
  BY <1>4, <1>5, <1>6, <1>7

\* The invariant is inductive.
LEMMA NextIInv == IInv /\ [WaitNext]_waitVars => IInv'
<1> SUFFICES ASSUME IInv, [WaitNext]_waitVars
             PROVE  IInv'
  OBVIOUS
<1>1. CASE Expire \/ UNCHANGED waitVars
  BY <1>1 DEF Expire, waitVars, IInv, Typed, OwnNotify, Registered, NoLostWakeup
<1>2. ASSUME NEW t \in Tasks,
             Call(t) \/ Check(t) \/ Wait(t) \/ Enable(t) \/ Recheck(t) \/ Still(t) \/ Wake(t) \/ Cancel(t)
      PROVE  IInv'
  BY <1>2, WaiterIInv
<1>3. ASSUME NEW t \in Tasks, Lead(t) \/ (\E found \in BOOLEAN : Query(t, found)) \/ Unregister(t) \/ Notify(t)
      PROVE  IInv'
  BY <1>3, LeadIInv, QueryIInv, UnregisterIInv, NotifyIInv
<1> QED
  BY <1>1, <1>2, <1>3 DEF WaitNext

\* Every state endpoint_addresses reaches satisfies the inductive invariant.
THEOREM Invariance == WaitSpec => []IInv
  BY InitIInv, NextIInv, PTL DEF WaitSpec

\* endpoint_addresses never loses a wake-up, for any number of exchanges: a
\* sleeping waiter has been woken, or its leader has still to fire.
THEOREM WakeupKept == WaitSpec => []NoLostWakeup
<1>1. IInv => NoLostWakeup
  BY DEF IInv
<1> QED
  BY <1>1, Invariance, PTL

\* endpoint_addresses sends one bootstrap query at a time, for any number of
\* exchanges: two queriers would both be the registered leader.
THEOREM SingleBootstrap == WaitSpec => []OneBootstrap
<1>1. IInv => OneBootstrap
  BY DEF IInv, OwnNotify, Registered, OneBootstrap
<1> QED
  BY <1>1, Invariance, PTL

(* ---- FakeIpPool -------------------------------------------------------- *)

(***************************************************************************)
(* The live addresses form one contiguous stretch of the cycle that ends   *)
(* just before next, in the order of insertion.  The stretch is at most    *)
(* MaxEntries long and the cycle has MaxEntries + 1 offsets, so next is    *)
(* always outside it.                                                      *)
(***************************************************************************)
Back(o, k) ==
  IF o - k >= FirstHostOffset THEN o - k ELSE o - k + MaxEntries + 1

Window ==
  \A i \in DOMAIN order : by_domain[order[i]] = Back(next, Len(order) + 1 - i)

\* Full compares the number of live names: it is the length of order.
Sized ==
  /\ IsFiniteSet(DOMAIN by_domain)
  /\ Cardinality(DOMAIN by_domain) = Len(order)

PoolInv == TypeOK /\ OneToOne /\ Window /\ Sized

\* The inductive invariant keeps the next address outside the window.
LEMMA WindowNextFree == PoolInv => NextIsFree
<1> SUFFICES ASSUME PoolInv, next \in DOMAIN by_ip PROVE FALSE
  BY DEF NextIsFree
<1> USE DEF PoolInv, TypeOK, OneToOne
<1>1. PICK i \in DOMAIN order : order[i] = by_ip[next]
  OBVIOUS
<1>2. next = Back(next, Len(order) + 1 - i)
  BY <1>1 DEF Window
<1>3. i \in 1 .. Len(order) /\ Len(order) \in Nat /\ next \in Int
  BY <1>1 DEF Offsets, FirstHostOffset, LastOffset
<1> QED
  BY <1>2, <1>3, MaxEntriesAssumption DEF Back, FirstHostOffset

\* Init establishes the inductive invariant.
LEMMA InitPoolInv == Init => PoolInv
<1> SUFFICES ASSUME Init PROVE PoolInv
  OBVIOUS
<1> USE DEF Init, InitPool
<1>1. DOMAIN by_domain = {} /\ DOMAIN by_ip = {} /\ DOMAIN order = {} /\ Len(order) = 0
  OBVIOUS
<1>2. TypeOK
  BY <1>1, MaxEntriesAssumption DEF TypeOK, Offsets, FirstHostOffset, LastOffset
<1>3. OneToOne /\ Window
  BY <1>1, MaxEntriesAssumption DEF OneToOne, Window
<1>4. Sized
  BY <1>1, FS_EmptySet DEF Sized
<1> QED
  BY <1>2, <1>3, <1>4 DEF PoolInv

\* One step along the cycle moves every distance to it by one.
LEMMA BackFollowing ==
  ASSUME NEW o \in Offsets, NEW k \in 1 .. MaxEntries
  PROVE  /\ Following(o) \in Offsets
         /\ Back(Following(o), 1) = o
         /\ k < MaxEntries => Back(Following(o), k + 1) = Back(o, k)
         /\ Back(o, k) \in Offsets
  BY MaxEntriesAssumption
     DEF Following, Back, Offsets, FirstHostOffset, LastOffset

\* What is evicted: nothing below capacity, at capacity the front of order.
LEMMA EvictedIs ==
  ASSUME PoolInv
  PROVE  /\ Len(order) < MaxEntries => Evicted = {}
         /\ Len(order) = MaxEntries =>
              Evicted = {order[1]} /\ 1 \in DOMAIN order /\ order # <<>>
  BY MaxEntriesAssumption DEF PoolInv, Sized, Evicted, Full, TypeOK, OneToOne

\* The effect of Insert on the two maps when nothing stale is in the way.
LEMMA InsertMaps ==
  ASSUME PoolInv, NEW d \in Domains, Insert(d)
  PROVE  /\ DOMAIN by_domain' = (DOMAIN by_domain \ Evicted) \cup {d}
         /\ by_domain'[d] = next
         /\ \A e \in DOMAIN by_domain \ Evicted : by_domain'[e] = by_domain[e]
         /\ DOMAIN by_ip' =
              (DOMAIN by_ip \ {by_domain[e] : e \in Evicted \cap DOMAIN by_domain})
                \cup {next}
         /\ by_ip'[next] = d
         /\ \A o \in DOMAIN by_ip \cap DOMAIN by_ip' : by_ip'[o] = by_ip[o]
         /\ by_domain' = [x \in DOMAIN by_domain' |-> by_domain'[x]]
         /\ by_ip' = [x \in DOMAIN by_ip' |-> by_ip'[x]]
<1>1. next \notin DOMAIN by_ip
  BY WindowNextFree DEF NextIsFree
<1>2. {by_ip[o] : o \in ({next} \cap DOMAIN by_ip)
                   \ {by_domain[e] : e \in Evicted \cap DOMAIN by_domain}} = {}
  BY <1>1
<1>3. /\ d \notin DOMAIN by_domain
      /\ by_domain' = Put(Without(by_domain, Evicted), d, next)
      /\ by_ip' = Put(Without(by_ip, {by_domain[e] : e \in Evicted \cap DOMAIN by_domain}),
                      next, d)
  BY <1>2 DEF Insert
<1> QED
  BY <1>1, <1>3 DEF Put, Without

\* Insert preserves the types.
LEMMA InsertTypeOK ==
  ASSUME PoolInv, NEW d \in Domains, Insert(d)
  PROVE  TypeOK'
<1>1. next \in Offsets /\ next' = Following(next) /\ order \in Seq(Domains)
  BY DEF PoolInv, TypeOK, Insert
<1>2. next' \in Offsets
  BY <1>1, BackFollowing, MaxEntriesAssumption
<1>3. order' \in Seq(Domains)
  <2>1. order' = Append(IF Evicted = {} THEN order ELSE Tail(order), d)
    BY DEF Insert
  <2>2. Evicted # {} => order # <<>>
    BY EvictedIs, MaxEntriesAssumption DEF PoolInv, TypeOK, OneToOne
  <2> QED
    BY <1>1, <2>1, <2>2
<1>4. DOMAIN by_domain' \subseteq Domains /\ DOMAIN by_ip' \subseteq Offsets
  <2>1. /\ DOMAIN by_domain' \subseteq DOMAIN by_domain \cup {d}
        /\ DOMAIN by_ip' \subseteq DOMAIN by_ip \cup {next}
    BY InsertMaps
  <2> QED
    BY <1>1, <2>1 DEF PoolInv, TypeOK
<1>5. \A e \in DOMAIN by_domain' : by_domain'[e] \in Offsets
  BY <1>1, InsertMaps DEF PoolInv, TypeOK
<1>6. \A o \in DOMAIN by_ip' : by_ip'[o] \in Domains
  <2>1. \A o \in DOMAIN by_ip : by_ip[o] \in Domains
    BY DEF PoolInv, TypeOK
  <2>2. /\ DOMAIN by_ip' \subseteq DOMAIN by_ip \cup {next}
        /\ by_ip'[next] = d
        /\ \A o \in DOMAIN by_ip \cap DOMAIN by_ip' : by_ip'[o] = by_ip[o]
    BY InsertMaps
  <2> QED
    BY <2>1, <2>2
<1>7. by_domain' \in [DOMAIN by_domain' -> Offsets] /\ by_ip' \in [DOMAIN by_ip' -> Domains]
  BY <1>5, <1>6, InsertMaps
<1> QED
  BY <1>2, <1>3, <1>4, <1>7 DEF TypeOK

\* Insert preserves the inductive invariant.
LEMMA InsertPoolInv ==
  ASSUME PoolInv, NEW d \in Domains, Insert(d)
  PROVE  PoolInv'
<1> DEFINE kept == IF Evicted = {} THEN order ELSE Tail(order)
<1>0. d \notin DOMAIN by_domain /\ order' = Append(kept, d) /\ next' = Following(next)
  BY DEF Insert
<1>1. Len(order) \in Nat /\ Len(order) <= MaxEntries /\ order \in Seq(Domains)
      /\ next \in Offsets
  BY DEF PoolInv, TypeOK, OneToOne
\* Below capacity the new name joins; at capacity it replaces the oldest.
<1>2. CASE Len(order) < MaxEntries
  <2>1. Evicted = {} /\ kept = order
    BY <1>2, EvictedIs
  <2>2. /\ DOMAIN by_domain' = DOMAIN by_domain \cup {d}
        /\ DOMAIN by_ip' = DOMAIN by_ip \cup {next}
    BY <2>1, InsertMaps
  <2>3. /\ Len(order') = Len(order) + 1 /\ order'[Len(order) + 1] = d
        /\ order' \in Seq(Domains)
        /\ DOMAIN order' = 1 .. Len(order) + 1
        /\ \A i \in DOMAIN order : order'[i] = order[i]
    BY <1>0, <1>1, <2>1
  <2>4. TypeOK'
    BY InsertTypeOK
  <2>5. Sized'
    BY <1>0, <1>1, <2>2, <2>3, FS_AddElement DEF PoolInv, Sized
  <2>6. Window'
    <3> SUFFICES ASSUME NEW i \in 1 .. Len(order) + 1
                 PROVE  by_domain'[order'[i]] = Back(next', Len(order) + 2 - i)
      BY <2>3 DEF Window
    <3>1. CASE i = Len(order) + 1
      <4>1. 1 \in 1 .. MaxEntries
        BY MaxEntriesAssumption
      <4>2. Back(next', 1) = next
        BY <1>0, <1>1, <4>1, BackFollowing
      <4>3. by_domain'[order'[i]] = next
        BY <2>3, <3>1, InsertMaps
      <4> QED
        BY <1>1, <3>1, <4>2, <4>3
    <3>2. CASE i \in DOMAIN order
      <4>1. by_domain'[order'[i]] = by_domain[order[i]]
        <5>1. order'[i] = order[i] /\ order[i] \in DOMAIN by_domain
          BY <2>3, <3>2 DEF PoolInv, OneToOne
        <5>2. \A e \in DOMAIN by_domain : by_domain'[e] = by_domain[e]
          BY <2>1, InsertMaps
        <5> QED
          BY <5>1, <5>2
      <4>2. Len(order) + 1 - i \in 1 .. MaxEntries /\ Len(order) + 1 - i < MaxEntries
        BY <1>1, <1>2, <3>2, MaxEntriesAssumption
      <4>3. Back(next', Len(order) + 1 - i + 1) = by_domain[order[i]]
        BY <1>0, <1>1, <3>2, <4>2, BackFollowing DEF PoolInv, Window
      <4> QED
        BY <1>1, <4>1, <4>3
    <3> QED
      BY <1>1, <3>1, <3>2
  <2>7. OneToOne'
    <3>1. next \notin DOMAIN by_ip
      BY WindowNextFree DEF NextIsFree
    <3>2. \A e \in DOMAIN by_domain' :
            by_domain'[e] \in DOMAIN by_ip' /\ by_ip'[by_domain'[e]] = e
      BY <2>1, <2>2, <3>1, InsertMaps DEF PoolInv, OneToOne
    <3>3. \A o \in DOMAIN by_ip' :
            by_ip'[o] \in DOMAIN by_domain' /\ by_domain'[by_ip'[o]] = o
      BY <1>0, <2>1, <2>2, <3>1, InsertMaps DEF PoolInv, OneToOne
    <3>4. {order'[i] : i \in DOMAIN order'} = DOMAIN by_domain'
      BY <1>1, <2>2, <2>3 DEF PoolInv, OneToOne
    <3>5. \A i, j \in DOMAIN order' : order'[i] = order'[j] => i = j
      BY <1>0, <1>1, <2>3 DEF PoolInv, OneToOne
    <3>6. Len(order') <= MaxEntries
      BY <1>1, <1>2, <2>3, MaxEntriesAssumption
    <3> QED
      BY <3>2, <3>3, <3>4, <3>5, <3>6 DEF OneToOne
  <2> QED
    BY <2>4, <2>5, <2>6, <2>7 DEF PoolInv
<1>3. CASE Len(order) = MaxEntries
  <2> DEFINE oldest == order[1]
  <2>1. /\ Evicted = {oldest} /\ 1 \in DOMAIN order /\ order # <<>>
        /\ kept = Tail(order) /\ oldest \in DOMAIN by_domain
    BY <1>3, EvictedIs DEF PoolInv, OneToOne
  <2>2. /\ DOMAIN by_domain' = (DOMAIN by_domain \ {oldest}) \cup {d}
        /\ DOMAIN by_ip' = (DOMAIN by_ip \ {by_domain[oldest]}) \cup {next}
    <3>1. {by_domain[e] : e \in Evicted \cap DOMAIN by_domain} = {by_domain[oldest]}
      BY <2>1
    <3> QED
      BY <2>1, <3>1, InsertMaps
  <2>3. /\ Len(order') = Len(order) /\ order'[Len(order)] = d
        /\ DOMAIN order' = 1 .. Len(order)
        /\ \A i \in 1 .. Len(order) - 1 : order'[i] = order[i + 1]
    <3>1. /\ kept \in Seq(Domains) /\ Len(kept) = Len(order) - 1
          /\ \A i \in 1 .. Len(order) - 1 : kept[i] = order[i + 1]
      BY <1>1, <2>1
    <3> HIDE DEF kept
    <3> QED
      BY <1>0, <1>1, <3>1
  <2>4. TypeOK'
    BY InsertTypeOK
  <2>5. Sized'
    <3> DEFINE rest == DOMAIN by_domain \ {oldest}
    <3>1. IsFiniteSet(rest) /\ Cardinality(rest) = Len(order) - 1
      BY <1>1, <2>1, FS_RemoveElement DEF PoolInv, Sized
    <3>2. d \notin rest
      BY <1>0
    <3>3. DOMAIN by_domain' = rest \cup {d}
      BY <2>2
    <3> HIDE DEF rest
    <3>4. IsFiniteSet(rest \cup {d}) /\ Cardinality(rest \cup {d}) = Len(order) - 1 + 1
      BY <3>1, <3>2, FS_AddElement
    <3> QED
      BY <1>1, <2>3, <3>3, <3>4 DEF Sized
  <2>6. Window'
    <3> SUFFICES ASSUME NEW i \in 1 .. Len(order)
                 PROVE  by_domain'[order'[i]] = Back(next', Len(order) + 1 - i)
      BY <2>3 DEF Window
    <3>1. CASE i = Len(order)
      <4>1. 1 \in 1 .. MaxEntries
        BY MaxEntriesAssumption
      <4>2. Back(next', 1) = next
        BY <1>0, <1>1, <4>1, BackFollowing
      <4>3. by_domain'[order'[i]] = next
        BY <2>3, <3>1, InsertMaps
      <4> QED
        BY <1>1, <3>1, <4>2, <4>3
    <3>2. CASE i \in 1 .. Len(order) - 1
      <4>1. i + 1 \in DOMAIN order /\ order[i + 1] # oldest
        BY <1>1, <2>1, <3>2 DEF PoolInv, OneToOne
      <4>2. by_domain'[order'[i]] = by_domain[order[i + 1]]
        BY <2>1, <2>3, <3>2, <4>1, InsertMaps DEF PoolInv, OneToOne
      <4>3. Len(order) - i \in 1 .. MaxEntries /\ Len(order) - i < MaxEntries
        BY <1>1, <1>3, <3>2, MaxEntriesAssumption
      <4>4. by_domain[order[i + 1]] = Back(next, Len(order) + 1 - (i + 1))
        BY <4>1 DEF PoolInv, Window
      <4>5. Back(next', Len(order) - i + 1) = Back(next, Len(order) - i)
        BY <1>0, <1>1, <4>3, BackFollowing
      <4>6. Len(order) + 1 - (i + 1) = Len(order) - i
            /\ Len(order) - i + 1 = Len(order) + 1 - i
        BY <1>1, <3>2
      <4> QED
        BY <4>2, <4>4, <4>5, <4>6
    <3> QED
      BY <1>1, <3>1, <3>2
  <2>7. OneToOne'
    <3>1. next \notin DOMAIN by_ip
      BY WindowNextFree DEF NextIsFree
    <3>2. \A e \in DOMAIN by_domain' :
            by_domain'[e] \in DOMAIN by_ip' /\ by_ip'[by_domain'[e]] = e
      BY <2>1, <2>2, <3>1, InsertMaps DEF PoolInv, OneToOne
    <3>3. \A o \in DOMAIN by_ip' :
            by_ip'[o] \in DOMAIN by_domain' /\ by_domain'[by_ip'[o]] = o
      BY <1>0, <2>1, <2>2, <3>1, InsertMaps DEF PoolInv, OneToOne
    <3>4. {order'[i] : i \in DOMAIN order'} = DOMAIN by_domain'
      <4>1. ASSUME NEW e \in DOMAIN by_domain, e # oldest
            PROVE  \E i \in DOMAIN order' : order'[i] = e
        <5>1. PICK j \in DOMAIN order : order[j] = e
          BY <4>1 DEF PoolInv, OneToOne
        <5>2. j - 1 \in 1 .. Len(order) - 1 /\ (j - 1) + 1 = j
          BY <1>1, <4>1, <5>1
        <5>3. order'[j - 1] = e /\ j - 1 \in DOMAIN order'
          BY <1>1, <2>3, <5>1, <5>2
        <5> QED
          BY <5>3
      <4>2. ASSUME NEW i \in 1 .. Len(order) - 1
            PROVE  order'[i] \in DOMAIN by_domain \ {oldest}
        <5>1. i + 1 \in DOMAIN order /\ i + 1 # 1
          BY <1>1
        <5>2. order[i + 1] \in DOMAIN by_domain /\ order[i + 1] # order[1]
          BY <2>1, <5>1 DEF PoolInv, OneToOne
        <5> QED
          BY <2>3, <5>2
      <4>3. Len(order) \in DOMAIN order'
        BY <1>1, <1>3, <2>3, MaxEntriesAssumption
      <4>4. \A i \in DOMAIN order' : order'[i] \in DOMAIN by_domain'
        BY <1>1, <2>2, <2>3, <4>2
      <4>5. \A e \in DOMAIN by_domain' : \E i \in DOMAIN order' : order'[i] = e
        BY <2>2, <2>3, <4>1, <4>3
      <4> QED
        BY <4>4, <4>5
    <3>5. \A i, j \in DOMAIN order' : order'[i] = order'[j] => i = j
      BY <1>0, <1>1, <2>3 DEF PoolInv, OneToOne
    <3>6. Len(order') <= MaxEntries
      BY <1>1, <2>3
    <3> QED
      BY <3>2, <3>3, <3>4, <3>5, <3>6 DEF OneToOne
  <2> QED
    BY <2>4, <2>5, <2>6, <2>7 DEF PoolInv
<1> QED
  BY <1>1, <1>2, <1>3, MaxEntriesAssumption

\* Every step preserves the inductive invariant.
LEMMA NextPoolInv == PoolInv /\ [Next]_pool => PoolInv'
<1> SUFFICES ASSUME PoolInv, [Next]_pool PROVE PoolInv'
  OBVIOUS
<1>1. ASSUME NEW d \in Domains, Insert(d) PROVE PoolInv'
  BY <1>1, InsertPoolInv
<1>2. CASE UNCHANGED pool
  BY <1>2 DEF pool, PoolInv, TypeOK, OneToOne, Window, Sized
<1> QED
  BY <1>1, <1>2 DEF Next, Hit

\* The inductive invariant holds in every reachable state.
THEOREM PoolInvariant == Spec => []PoolInv
  BY InitPoolInv, NextPoolInv, PTL DEF Spec

\* Types: offsets stay within the cycle.
THEOREM TypeCorrect == Spec => []TypeOK
<1>1. PoolInv => TypeOK
  BY DEF PoolInv
<1> QED
  BY <1>1, PoolInvariant, PTL

\* The two maps of the table stay inverse to each other, order lists each
\* live name once, and the table never exceeds its capacity.
THEOREM MapsAgree == Spec => []OneToOne
<1>1. PoolInv => OneToOne
  BY DEF PoolInv
<1> QED
  BY <1>1, PoolInvariant, PTL

\* allocate() never finds its next address still in use.
THEOREM NextAddressFree == Spec => []NextIsFree
  BY WindowNextFree, PoolInvariant, PTL

\* No allocate() call passes an address from one name straight to another.
THEOREM AddressNotPassedOn == Spec => NoDirectReuse
<1> DEFINE Kept == \A o \in DOMAIN by_ip \cap DOMAIN by_ip' : by_ip'[o] = by_ip[o]
<1>1. PoolInv /\ [Next]_pool => [Kept]_pool
  <2> SUFFICES ASSUME PoolInv, [Next]_pool PROVE [Kept]_pool
    OBVIOUS
  <2>1. ASSUME NEW d \in Domains, Insert(d) PROVE Kept
    BY <2>1, InsertMaps
  <2> QED
    BY <2>1 DEF Next, Hit
<1> QED
  BY <1>1, PoolInvariant, PTL DEF Spec, NoDirectReuse
==============================================================================
