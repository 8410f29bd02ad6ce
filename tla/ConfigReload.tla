---------------------------- MODULE ConfigReload ----------------------------
(***************************************************************************)
(* Hot reload of the router daemon: the polling watcher (config/watch.rs), *)
(* the daemon's reload handler (sockrocket-cli/src/main.rs), the apply     *)
(* status it reports (config_apply.rs) and the firewall thread it starts,  *)
(* beside whoever edits the file.                                          *)
(*                                                                         *)
(* A text stands for the contents of config.yaml and is its own hash.      *)
(* Kind: "good" parses and can run, "unusable" parses but is rejected by   *)
(* the daemon, "bad" does not parse.  Mode is ipv6_mode.                   *)
(***************************************************************************)
EXTENDS Naturals, Sequences

CONSTANTS Texts, Kind, Mode,
          NeedsRestart,    \* texts that change a field only a restart applies
          First,           \* the text at startup
          MaxEdits,        \* bound on edits of the file
          StartupEdits     \* may the file be edited while the daemon starts?

\* "none" stands for a missing file.
ASSUME TextsAssumption == First \in Texts /\ "none" \notin Texts

VARIABLES file,      \* [text, mtime]; text "none" and mtime 0 when missing
          edits,     \* edits made so far
          phase,     \* of the start: "load", "spawn", "task", "up"
          running,   \* the text the daemon runs with
          hash,      \* WatcherState::content_hash
          seen,      \* last_mtime of the watcher task
          stage,     \* the step of the watcher task
          text,      \* the contents it has read
          events,    \* the mpsc channel
          handling,  \* the reload being applied: <<>> or <<text>>
          status,    \* ApplyStatus
          policies,  \* the firewall threads under way, by revision
          firewall   \* the mode the installed rules are for

watcher == <<hash, seen, stage, text>>
daemon  == <<running, handling, status, policies, firewall>>
configVars == <<file, edits, phase, watcher, events, daemon>>

Missing == [text |-> "none", mtime |-> 0]

ConfigTypeOK ==
  /\ file.text \in Texts \cup {"none"} /\ running \in Texts /\ hash \in Texts \cup {"none"}
  /\ Kind[running] = "good"
  /\ status.runtime <= status.observed
  /\ status.phase \in {"applied", "validating", "rejected", "restart_required",
                       "policy_pending", "policy_failed"}
  /\ \A rev \in policies : rev <= status.runtime

ConfigInit ==
  /\ file = [text |-> First, mtime |-> 1] /\ edits = 0 /\ phase = "load"
  /\ running = First /\ hash = "none" /\ seen = 0 /\ stage = "asleep" /\ text = "none"
  /\ events = <<>> /\ handling = <<>>
  /\ status = [observed |-> 0, runtime |-> 0, phase |-> "applied", restart |-> FALSE]
  /\ policies = {} /\ firewall = Mode[First]

\* Somebody saves another text, or removes the file and later writes it again.
Edit ==
  /\ edits < MaxEdits /\ phase # "load" /\ (StartupEdits \/ phase = "up")
  /\ edits' = edits + 1
  /\ \/ \E t \in Texts \ {file.text} : file' = [text |-> t, mtime |-> edits + 2]
     \/ file.text # "none" /\ edits' < MaxEdits /\ file' = Missing
  /\ UNCHANGED <<phase, watcher, events, daemon>>

-----------------------------------------------------------------------------
(* Start: the daemon loads the file, later spawns the watcher, whose task  *)
(* starts later still.                                                     *)

Load ==
  /\ phase = "load" /\ phase' = "spawn"
  /\ UNCHANGED <<file, edits, watcher, events, daemon>>

Spawn ==
  /\ phase = "spawn" /\ phase' = "task"
  /\ hash' = file.text
  /\ UNCHANGED <<file, edits, seen, stage, text, events, daemon>>

TaskStarts ==
  /\ phase = "task" /\ phase' = "up"
  /\ seen' = file.mtime
  /\ UNCHANGED <<file, edits, hash, stage, text, events, daemon>>

-----------------------------------------------------------------------------
(* The watcher task.                                                       *)

Look ==
  /\ phase = "up" /\ stage = "asleep" /\ file.mtime # seen
  /\ seen' = file.mtime /\ stage' = "read"
  /\ UNCHANGED <<file, edits, phase, hash, text, events, daemon>>

ReadFile ==
  /\ stage = "read"
  /\ text' = file.text /\ stage' = IF file.text = "none" THEN "asleep" ELSE "check"
  /\ UNCHANGED <<file, edits, phase, hash, seen, events, daemon>>

\* The modification time is the one taken before the contents were read.
SeenWith_Contents == file.mtime
SeenWith == seen

Unchanged(t) == t = hash

Check ==
  /\ stage = "check" /\ stage' = "asleep" /\ seen' = SeenWith
  /\ \/ Unchanged(text) /\ UNCHANGED <<hash, events>>
     \/ ~Unchanged(text) /\ Kind[text] = "bad" /\ events' = Append(events, text) /\ UNCHANGED hash
     \/ ~Unchanged(text) /\ Kind[text] # "bad" /\ events' = Append(events, text) /\ hash' = text
  /\ UNCHANGED <<file, edits, phase, text, daemon>>

-----------------------------------------------------------------------------
(* The daemon.                                                             *)

\* ApplyStatus::begin().
Begun(s) == [s EXCEPT !.observed = @ + 1, !.phase = "validating"]

\* ApplyStatus::finish(), for the newest revision only.
Settled(s) == IF s.restart THEN "restart_required" ELSE "applied"
Finished_OkOnly(s, rev, ok, published) ==
  IF rev # s.observed \/ ~ok THEN s ELSE [s EXCEPT !.phase = Settled(s)]
Finished(s, rev, ok, published) ==
  IF rev # s.observed THEN s
  ELSE [s EXCEPT !.phase = IF ok THEN Settled(s)
                           ELSE IF published THEN "policy_failed" ELSE "rejected"]

\* ApplyStatus::publish().
Published(s, restart, policy) ==
  LET t == [s EXCEPT !.runtime = s.observed, !.restart = restart]
  IN  [t EXCEPT !.phase = IF policy THEN "policy_pending" ELSE Settled(t)]

TakeEvent ==
  /\ events # <<>> /\ handling = <<>>
  /\ events' = Tail(events) /\ status' = Begun(status)
  /\ handling' = <<Head(events)>>
  /\ UNCHANGED <<file, edits, phase, watcher, running, policies, firewall>>

Runnable(t) == Kind[t] = "good"

\* A text that cannot run drops the attempt and keeps the previous config.
Reject ==
  /\ handling # <<>> /\ ~Runnable(Head(handling))
  /\ status' = Finished(status, status.observed, FALSE, FALSE)
  /\ handling' = <<>>
  /\ UNCHANGED <<file, edits, phase, watcher, events, running, policies, firewall>>

ModeChanged(t) == Mode[t] # Mode[running]

Apply ==
  LET t == Head(handling)
  IN  /\ handling # <<>> /\ Runnable(t)
      /\ running' = t /\ handling' = <<>>
      /\ status' = Published(status, t \in NeedsRestart, ModeChanged(t))
      /\ policies' = IF ModeChanged(t) THEN policies \cup {status.observed} ELSE policies
      /\ UNCHANGED <<file, edits, phase, watcher, events, firewall>>

\* The thread's script reads the saved mode; it may fail, and without a
\* readable file it does.
PolicyEnds ==
  /\ \E rev \in policies, ok \in BOOLEAN :
       /\ policies' = policies \ {rev}
       /\ ok => file.text # "none" /\ Kind[file.text] # "bad"
       /\ firewall' = IF ok THEN Mode[file.text] ELSE firewall
       /\ status' = Finished(status, rev, ok, TRUE)
  /\ UNCHANGED <<file, edits, phase, watcher, events, running, handling>>

Watch == Look \/ ReadFile \/ Check
Daemon == TakeEvent \/ Reject \/ Apply
Start == Load \/ Spawn \/ TaskStarts
ConfigNext == Edit \/ Start \/ Watch \/ Daemon \/ PolicyEnds

ConfigSpec == ConfigInit /\ [][ConfigNext]_configVars

\* The poll timer, the daemon's loop and a started script make progress.
ConfigFairSpec ==
  /\ ConfigSpec
  /\ WF_configVars(Start) /\ WF_configVars(Watch)
  /\ WF_configVars(Daemon) /\ WF_configVars(PolicyEnds)

-----------------------------------------------------------------------------
(* Properties.                                                             *)

\* Nothing under way between the file and the status.
Quiet ==
  /\ phase = "up" /\ stage = "asleep" /\ file.mtime = seen
  /\ events = <<>> /\ handling = <<>>

\* "applied" is the truth: with no reload under way the daemon runs the saved
\* text, however edits, polls and reads interleave.
AppliedIsSaved ==
  Quiet /\ status.phase \in {"applied", "restart_required"} /\ file.text # "none"
    => running = file.text

\* A good save takes effect, and the report does not stay unfinished.
SavedTakesEffect ==
  /\ <>[](Kind[running] = "good" /\ (file.text # "none" /\ Kind[file.text] = "good" => running = file.text))
  /\ <>[](status.phase \notin {"validating", "policy_pending"})

\* "One observable lifecycle for every configuration reload, including
\* failures": what is reported as applied is enforced by the firewall too.
AppliedIsEnforced ==
  Quiet /\ policies = {} /\ status.phase = "applied" => firewall = Mode[running]
=============================================================================
