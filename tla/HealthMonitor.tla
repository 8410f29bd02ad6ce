---------------------------- MODULE HealthMonitor ----------------------------
(***************************************************************************)
(* The health monitor (proxy/health.rs): it probes the active outbound,    *)
(* counts consecutive failures and, at the threshold, searches the node    *)
(* list for a replacement and commits it to the outbound slot, while the   *)
(* user switches nodes, reloads restart the monitor and nodes come and go. *)
(*                                                                         *)
(* The slot is the atomic one of OutboundSlot, reduced to the identity of  *)
(* the published outbound and the node behind it.  Nodes are indices into  *)
(* the node list, numbered by ascending latency; Key is the fingerprint,   *)
(* equal for aliases.  Latencies measured by a probe are not modelled: any *)
(* node that answered may be the best one.                                 *)
(***************************************************************************)
EXTENDS Naturals, Sequences, FiniteSets

CONSTANTS N, Key,
          Threshold,       \* failure_threshold.max(1)
          Silent,          \* fingerprints that time out, rather than refuse, when down
          RoundBudget,     \* silent probes that fit in a search round (16 in the code)
          RecentCap,       \* remembered nodes (4 in the code)
          MaxSwitches,     \* bound on manual switches and restarts
          MaxChanges,      \* bound on nodes failing or recovering
          MaxBuildFailures,\* bound on failing outbound builds
          EarlySwitch      \* may a switch precede the first probe of a new monitor

ASSUME ThresholdAssumption == Threshold \in Nat \ {0}

Nodes == 1..N

VARIABLES alive,     \* the fingerprints that answer a probe
          slot,      \* published outbound: [id, node]
          tracker,   \* FailureTracker
          elapsed,   \* quarantined nodes whose 120 s are over
          monitor,   \* where the monitor's task is
          snapshot,  \* the outbound being probed
          reply,     \* the answer of the probe
          found,     \* the replacement, 0 for None
          streak,    \* history: failed probes of the slot's outbound in a row,
                     \* up to Threshold
          budget     \* what is left of the bounds

healthVars == <<alive, slot, tracker, elapsed, monitor, snapshot, reply, found, streak, budget>>

NewTracker(active) ==
  [consecutive |-> 0, cursor |-> 0, current |-> active, avoided |-> {},
   recent |-> <<>>, last |-> 0]

Answers(i) == Key[i] \in alive

HealthTypeOK ==
  /\ alive \subseteq {Key[i] : i \in Nodes}
  /\ slot \in [id : Nat, node : Nodes] /\ snapshot \in [id : Nat, node : Nodes]
  /\ tracker.consecutive \in 0..Threshold /\ tracker.current \in 0..N
  /\ tracker.cursor \in 0..N /\ tracker.avoided \subseteq Nodes
  /\ Len(tracker.recent) <= RecentCap
  /\ \A i, j \in DOMAIN tracker.recent : i # j => tracker.recent[i] # tracker.recent[j]
  /\ monitor \in {"asleep", "probing", "confirming", "probed", "recent", "search", "commit"}
  /\ reply \in BOOLEAN /\ found \in 0..N

HealthInit ==
  /\ alive = {Key[i] : i \in Nodes}
  /\ slot = [id |-> 1, node |-> 1] /\ snapshot = slot
  /\ tracker = NewTracker(1) /\ elapsed = {}
  /\ monitor = "asleep" /\ reply = FALSE /\ found = 0 /\ streak = 0
  /\ budget = [switches |-> MaxSwitches, changes |-> MaxChanges, builds |-> MaxBuildFailures]

-----------------------------------------------------------------------------
(* The environment.                                                        *)

NodeChanges ==
  /\ budget.changes > 0 /\ budget' = [budget EXCEPT !.changes = @ - 1]
  /\ \E i \in Nodes : alive' = IF Answers(i) THEN alive \ {Key[i]} ELSE alive \cup {Key[i]}
  /\ UNCHANGED <<slot, tracker, elapsed, monitor, snapshot, reply, found, streak>>

ManualSwitch ==
  /\ EarlySwitch \/ tracker.last # 0
  /\ budget.switches > 0 /\ budget' = [budget EXCEPT !.switches = @ - 1]
  /\ \E i \in Nodes : slot' = [id |-> slot.id + 1, node |-> i]
  /\ streak' = 0
  /\ UNCHANGED <<alive, tracker, elapsed, monitor, snapshot, reply, found>>

\* A reload publishes the configured node and restart_health_check() replaces
\* the task, which ends at an await.  A round of the old task does not fit in
\* between: it needs two probes two seconds apart.
Reload ==
  /\ budget.switches > 0 /\ budget' = [budget EXCEPT !.switches = @ - 1]
  /\ monitor \in {"asleep", "probing", "confirming", "recent", "search"}
  /\ \E i \in Nodes : /\ slot' = [id |-> slot.id + 1, node |-> i]
                      /\ tracker' = NewTracker(i)
  /\ elapsed' = {} /\ monitor' = "asleep" /\ streak' = 0
  /\ UNCHANGED <<alive, snapshot, reply, found>>

QuarantineElapses ==
  /\ tracker.avoided \ elapsed # {}
  /\ elapsed' = tracker.avoided
  /\ UNCHANGED <<alive, slot, tracker, monitor, snapshot, reply, found, streak, budget>>

-----------------------------------------------------------------------------
(* probe_once().                                                           *)

\* A manual switch owns the decision: the failures counted so far and the
\* index of the node are forgotten.
Followed_KeepsCount(t) == IF t.last \notin {0, slot.id} THEN [t EXCEPT !.current = 0] ELSE t
Followed(t) == IF t.last \notin {0, slot.id} THEN [t EXCEPT !.current = 0, !.consecutive = 0] ELSE t

StartProbe ==
  /\ monitor = "asleep"
  /\ snapshot' = slot /\ tracker' = [Followed(tracker) EXCEPT !.last = slot.id]
  /\ monitor' = "probing"
  /\ UNCHANGED <<alive, slot, elapsed, reply, found, streak, budget>>

\* confirm_probe(): a failed probe is repeated once.
ProbeEnds ==
  /\ \/ monitor = "probing" /\ monitor' = (IF Answers(snapshot.node) THEN "probed" ELSE "confirming")
     \/ monitor = "confirming" /\ monitor' = "probed"
  /\ reply' = Answers(snapshot.node)
  /\ UNCHANGED <<alive, slot, tracker, elapsed, snapshot, found, streak, budget>>

Remember(recent, i) ==
  LET all == <<i>> \o SelectSeq(recent, LAMBDA j : j # i)
  IN  SubSeq(all, 1, IF Len(all) < RecentCap THEN Len(all) ELSE RecentCap)

Discarded == slot.id # snapshot.id

Reached(n) == n >= Threshold

HandleResult ==
  /\ monitor = "probed"
  /\ \/ Discarded /\ monitor' = "asleep" /\ UNCHANGED <<tracker, elapsed, streak>>
     \/ /\ ~Discarded /\ reply /\ monitor' = "asleep" /\ streak' = 0
        /\ tracker' = [tracker EXCEPT !.consecutive = 0,
             !.recent = IF tracker.current = 0 THEN @ ELSE Remember(@, tracker.current)]
        /\ UNCHANGED elapsed
     \/ /\ ~Discarded /\ ~reply
        /\ streak' = (IF slot.id = snapshot.id /\ streak < Threshold THEN streak + 1 ELSE streak)
        /\ \/ /\ ~Reached(tracker.consecutive + 1) /\ monitor' = "asleep"
              /\ tracker' = [tracker EXCEPT !.consecutive = @ + 1] /\ UNCHANGED elapsed
           \/ /\ Reached(tracker.consecutive + 1) /\ monitor' = "recent"
              /\ tracker' = [tracker EXCEPT !.consecutive = 0,
                   !.avoided = (@ \ elapsed) \cup ({tracker.current} \ {0})]
              /\ elapsed' = {}
  /\ UNCHANGED <<alive, slot, snapshot, reply, found, budget>>

-----------------------------------------------------------------------------
(* find_replacement().                                                     *)

\* The most recent node not in quarantine is tried first.
Revalidated(i) == Answers(i)

UsableRecent == SelectSeq(tracker.recent, LAMBDA i : i \notin tracker.avoided)

TryRecent ==
  /\ monitor = "recent"
  /\ \/ UsableRecent = <<>> /\ monitor' = "search" /\ UNCHANGED <<tracker, found>>
     \/ /\ UsableRecent # <<>> /\ Revalidated(Head(UsableRecent))
        /\ monitor' = "commit" /\ found' = Head(UsableRecent) /\ UNCHANGED tracker
     \/ /\ UsableRecent # <<>> /\ ~Revalidated(Head(UsableRecent))
        /\ tracker' = [tracker EXCEPT !.avoided = @ \cup {Head(UsableRecent)}]
        /\ monitor' = "search" /\ UNCHANGED found
  /\ UNCHANGED <<alive, slot, elapsed, snapshot, reply, streak, budget>>

\* eligible_candidates(): one index per fingerprint, none of a quarantined one.
Eligible ==
  {i \in Nodes : /\ \A j \in tracker.avoided : Key[j] # Key[i]
                 /\ \A j \in Nodes : Key[j] = Key[i] => i <= j}

\* find_best_node_with(): the rotation starts at the cursor, which advances
\* with every probe scheduled.  A silent node holds its place for the whole
\* probe timeout, so the deadline ends the round once RoundBudget silent
\* nodes have been scheduled; every node that answers does so before.
Advanced_Never(cursor, scheduled, count) == cursor
Advanced(cursor, scheduled, count) == (cursor + scheduled) % count

\* The outcomes of a round: the best node, 0 for None, and the cursor.
Rounds ==
  LET count   == Cardinality(Eligible)
      rank(i) == Cardinality({j \in Eligible : j < i})
      rotated == [k \in 1..count |->
                    CHOOSE i \in Eligible : rank(i) = (tracker.cursor + k - 1) % count]
      silent(n) == {k \in 1..n : ~Answers(rotated[k]) /\ Key[rotated[k]] \in Silent}
      scheduled == Cardinality({n \in 1..count : Cardinality(silent(n - 1)) < RoundBudget})
      answered  == {rotated[k] : k \in {n \in 1..scheduled : Answers(rotated[n])}}
  IN  IF count = 0 THEN {[best |-> 0, cursor |-> tracker.cursor]}
      ELSE [best : IF answered = {} THEN {0} ELSE answered,
            cursor : {Advanced(tracker.cursor, scheduled, count)}]

Search ==
  /\ monitor = "search" /\ monitor' = "commit"
  /\ \E round \in Rounds : /\ found' = round.best
                          /\ tracker' = [tracker EXCEPT !.cursor = round.cursor]
  /\ UNCHANGED <<alive, slot, elapsed, snapshot, reply, streak, budget>>

\* The factory builds the outbound; set_if_current() installs it.
Install ==
  /\ monitor = "commit" /\ monitor' = "asleep" /\ found' = 0
  /\ \/ found = 0 /\ UNCHANGED <<slot, tracker, streak, budget>>
     \/ /\ found # 0 /\ budget.builds > 0
        /\ budget' = [budget EXCEPT !.builds = @ - 1] /\ UNCHANGED <<slot, tracker, streak>>
     \/ found # 0 /\ Discarded /\ UNCHANGED <<slot, tracker, streak, budget>>
     \/ /\ found # 0 /\ ~Discarded
        /\ slot' = [id |-> slot.id + 1, node |-> found] /\ streak' = 0
        /\ tracker' = [tracker EXCEPT !.last = slot.id + 1, !.current = found,
                                      !.recent = Remember(@, found)]
        /\ UNCHANGED budget
  /\ UNCHANGED <<alive, elapsed, snapshot, reply>>

Monitor == StartProbe \/ ProbeEnds \/ HandleResult \/ TryRecent \/ Search \/ Install
HealthNext == NodeChanges \/ ManualSwitch \/ Reload \/ QuarantineElapses \/ Monitor

HealthSpec == HealthInit /\ [][HealthNext]_healthVars

\* The timer ticks, probes end by their timeout and quarantine is a clock.
HealthFairSpec == HealthSpec /\ WF_healthVars(Monitor) /\ WF_healthVars(QuarantineElapses)

-----------------------------------------------------------------------------
(* Properties.                                                             *)

\* The monitor replaces an outbound only after Threshold confirmed failures
\* in a row of that very outbound: none inherited from one a manual switch
\* replaced, none from before a success.
SwitchEarned ==
  [][Install /\ slot' # slot => streak >= Threshold]_healthVars

\* "Do not quarantine the old index": the index the monitor would put into
\* quarantine is the node of the outbound it probes.
CurrentIsActive ==
  tracker.last = slot.id /\ tracker.current # 0 => Key[tracker.current] = Key[slot.node]

\* Failover happens: while some node answers, the slot does not stay on one
\* that does not.
FailsOver == (alive # {}) ~> (Answers(slot.node) \/ alive = {})

\* ... at least as long as nobody switches nodes by hand or reloads.
FailsOverUndisturbed == [](budget.switches = MaxSwitches) => FailsOver
=============================================================================
