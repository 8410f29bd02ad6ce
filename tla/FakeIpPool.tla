----------------------------- MODULE FakeIpPool -----------------------------
(***************************************************************************)
(* The Fake-IP table (dns/fakeip.rs): the resolver hands a domain an       *)
(* address of 198.18.0.0/16, the stream handler traces the address back to *)
(* its name.  An address is its host offset.  Offsets are given out in a   *)
(* cycle of MaxEntries + 1, one more than the table may hold.              *)
(***************************************************************************)
EXTENDS Integers, Sequences, FiniteSets

CONSTANTS Domains,      \* lower-cased names
          MaxEntries    \* MAX_ENTRIES

ASSUME MaxEntriesAssumption == MaxEntries \in Nat \ {0}

FirstHostOffset == 2
LastOffset == MaxEntries + FirstHostOffset
Offsets == FirstHostOffset .. LastOffset

VARIABLES next, by_domain, by_ip, order

pool == <<next, by_domain, by_ip, order>>

TypeOK ==
  /\ next \in Offsets
  /\ DOMAIN by_domain \subseteq Domains /\ by_domain \in [DOMAIN by_domain -> Offsets]
  /\ DOMAIN by_ip \subseteq Offsets /\ by_ip \in [DOMAIN by_ip -> Domains]
  /\ order \in Seq(Domains)

Without(f, S) == [x \in DOMAIN f \ S |-> f[x]]
Put(f, k, v) == [x \in DOMAIN f \cup {k} |-> IF x = k THEN v ELSE f[x]]

InitPool ==
  /\ next = FirstHostOffset /\ order = <<>>
  /\ by_domain = [d \in {} |-> 0] /\ by_ip = [o \in {} |-> 0]

\* The cycle of offsets, and the size at which the oldest mapping must go.
Following(o) == IF o >= LastOffset THEN FirstHostOffset ELSE o + 1

Full_OffByOne == Cardinality(DOMAIN by_domain) > MaxEntries
Full == Cardinality(DOMAIN by_domain) >= MaxEntries

\* The front of order when the table is full: the mapping to evict.
Evicted == IF Full THEN {order[i] : i \in {1} \cap DOMAIN order} ELSE {}

\* allocate() of a name that has no address, under the lock.  The offset may
\* still be mapped from an earlier turn of the cycle: that name (stale) goes
\* too, but its entry in order stays behind.
Insert(d) ==
  LET freed == {by_domain[e] : e \in Evicted \cap DOMAIN by_domain}
      stale == {by_ip[o] : o \in ({next} \cap DOMAIN by_ip) \ freed}
  IN  /\ d \notin DOMAIN by_domain
      /\ by_domain' = Put(Without(by_domain, Evicted \cup stale), d, next)
      /\ by_ip' = Put(Without(by_ip, freed), next, d)
      /\ order' = Append(IF Evicted = {} THEN order ELSE Tail(order), d)
      /\ next' = Following(next)

\* allocate() of a name that has one returns it and changes nothing.
Hit(d) == d \in DOMAIN by_domain /\ UNCHANGED pool

Init == InitPool

Next == \E d \in Domains : Insert(d) \/ Hit(d)

Spec == Init /\ [][Next]_pool

-----------------------------------------------------------------------------
(* Properties.                                                             *)

\* lookup() and allocate() agree: each live name owns one address, each live
\* address one name, and order lists every live name exactly once, so that
\* eviction always has a mapping to remove and the table stays bounded.
OneToOne ==
  /\ \A d \in DOMAIN by_domain : by_domain[d] \in DOMAIN by_ip /\ by_ip[by_domain[d]] = d
  /\ \A o \in DOMAIN by_ip : by_ip[o] \in DOMAIN by_domain /\ by_domain[by_ip[o]] = o
  /\ {order[i] : i \in DOMAIN order} = DOMAIN by_domain
  /\ \A i, j \in DOMAIN order : order[i] = order[j] => i = j
  /\ Len(order) <= MaxEntries

\* The address allocate() is about to give out is free even before anything
\* is evicted: the branch for a stale mapping of an earlier turn of the
\* cycle is never needed, and only the oldest name ever loses its address.
NextIsFree == next \notin DOMAIN by_ip

\* No address passes from one name straight to another: a client that still
\* holds it sees it unmapped for at least one allocation in between.
NoDirectReuse ==
  [][(\E d \in Domains : Insert(d)) =>
       \A o \in DOMAIN by_ip \cap DOMAIN by_ip' : by_ip'[o] = by_ip[o]]_pool
=============================================================================
