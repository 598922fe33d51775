-------------------------------- MODULE Raid --------------------------------
(***************************************************************************)
(* The join-raid defence of one guild: the join window and the gate        *)
(* (core/src/raid.rs), the handler that latches a lockdown                 *)
(* (bot/src/handler.rs), and everybody else who writes the same config     *)
(* blob: /setraid and /lockdown (bot/src/commands.rs), the dashboard.      *)
(*                                                                         *)
(* A load and a save of the blob are two transactions, and handlers run on *)
(* several threads: others come between.  The join window is behind a      *)
(* lock, so a join is recorded in one step.                                *)
(***************************************************************************)
EXTENDS Integers, Sequences, FiniteSets

CONSTANTS
  Workers,     \* tasks that run join handlers and commands
  Inputs,      \* settings an admin enters
  Ops,         \* the stimuli this environment gives, by name
  MaxTime, MaxStimuli, MaxFaults   \* bounds

(* enabled, "the age or avatar rule is on", join_threshold and _window.    *)
Settings == [enabled : BOOLEAN, screens : BOOLEAN, threshold : Nat, window : Nat]

Valid_Anything(s) == TRUE
Valid(s) == s.threshold # 1 /\ s.window >= 1

ASSUME InputAssumption == Inputs \subseteq Settings /\ \E s \in Inputs : Valid(s)

ASSUME NumberAssumption == {MaxTime, MaxStimuli, MaxFaults} \subseteq Nat

VARIABLES
  cfg,       \* the blob raid_config of the guild
  window,    \* JoinTracker: the joins it remembers
  tasks,     \* the state of every task
  now,       \* the clock, in seconds
  joins,     \* history: the joins recorded since the process started
  judged,    \* history: what became of each join
  stimuli,   \* stimuli left
  faults     \* failures of a store write left

vars == <<cfg, window, tasks, now, joins, judged, stimuli, faults>>

(* Settings in which no rule contradicts itself: a burst of one is none.   *)
Sane == {s \in Inputs : s.threshold # 1 /\ s.window # 0}

Config == [settings : Sane, lockdown : BOOLEAN]

Edits == [what : {"on", "off"}] \cup [what : {"set"}, settings : Inputs]
On  == [what |-> "on"]
Off == [what |-> "off"]

(***************************************************************************)
(* A task carries the config it loaded.  A join handler also knows whether *)
(* the member fails the rules (fresh), which join it is (n), and whether   *)
(* it is met with a lockdown.                                              *)
(***************************************************************************)
Idle == [pc |-> "idle"]

Joiner == [pc : {"load", "record", "latch", "gate"}, fresh : BOOLEAN, cfg : Config,
           n : Nat, lockdown : BOOLEAN]

Editor == [pc : {"save"}, edit : Edits, cfg : Config]

Verdict == [n : Nat, gated : BOOLEAN, settings : Sane]

Init ==
  /\ cfg \in [settings : Sane, lockdown : {FALSE}]
  /\ window = <<>>
  /\ tasks = [t \in Workers |-> Idle]
  /\ now = 0
  /\ joins = <<>>
  /\ judged = {}
  /\ stimuli = MaxStimuli
  /\ faults = MaxFaults

-----------------------------------------------------------------------------
(* core/src/raid.rs. *)

Cutoff(s) == IF s.window > now THEN 0 ELSE now - s.window

(* The deque, this join included, popped at the front while it is too old. *)
Recent(s) ==
  LET all == Append(window, now)
      old == {i \in 1 .. Len(all) : \A j \in 1 .. i : all[j] < Cutoff(s)}
  IN SubSeq(all, Cardinality(old) + 1, Len(all))

(* A trip leaves the window as it is: the next join trips again.           *)
Remembered_Cleared(s) == IF Len(Recent(s)) >= s.threshold THEN <<>> ELSE Recent(s)
Remembered(s) == Recent(s)

Watches(s) == s.threshold >= 2

Trips(s) == Watches(s) /\ Len(Recent(s)) >= s.threshold

Screened(s, fresh) == s.screens /\ fresh

-----------------------------------------------------------------------------
(* Scheduling and stimuli. *)

Free(t) == tasks[t].pc = "idle"

Goto(t, task) == tasks' = [tasks EXCEPT ![t] = task]
Ends(t) == Goto(t, Idle)

Stimulus(op) == op \in Ops /\ stimuli > 0 /\ stimuli' = stimuli - 1

Fault   == faults > 0 /\ faults' = faults - 1
NoFault == UNCHANGED faults

(* GUILD_MEMBER_ADD; reapply_if_jailed runs before the config is loaded.   *)
Join(t, fresh) ==
  /\ Free(t)
  /\ Stimulus("join")
  /\ Goto(t, [pc |-> "load", fresh |-> fresh, cfg |-> cfg, n |-> 0,
              lockdown |-> FALSE])
  /\ UNCHANGED <<cfg, window, now, joins, judged, faults>>

(* set_raid, lockdown: the command loads the blob. *)
Command(t, edit) ==
  /\ Free(t)
  /\ Stimulus(edit.what)
  /\ Goto(t, [pc |-> "save", edit |-> edit, cfg |-> cfg])
  /\ UNCHANGED <<cfg, window, now, joins, judged, faults>>

(* put_config: the body is saved whole.  lockdown_active is one of its     *)
(* fields, a box to tick on the page, and down when the body leaves it out. *)
Bodies == [settings : Inputs, lockdown : BOOLEAN]

SubmitForm(body) ==
  /\ Stimulus("form")
  /\ Valid(body.settings)
  /\ cfg' = body
  /\ UNCHANGED <<window, tasks, now, joins, judged, faults>>

(* The process stops and starts again: the window was only in memory. *)
Crash ==
  /\ Stimulus("crash")
  /\ tasks' = [t \in Workers |-> Idle]
  /\ window' = <<>>
  /\ joins' = <<>>
  /\ judged' = {}
  /\ UNCHANGED <<cfg, now, faults>>

Tick ==
  /\ now < MaxTime
  /\ now' = now + 1
  /\ UNCHANGED <<cfg, window, tasks, joins, judged, stimuli, faults>>

-----------------------------------------------------------------------------
(* raid_check. *)

LoadJoin(t) ==
  LET task == tasks[t] IN
  /\ task.pc = "load"
  /\ IF cfg.settings.enabled
     THEN Goto(t, [task EXCEPT !.pc = "record", !.cfg = cfg])
     ELSE Ends(t)
  /\ UNCHANGED <<cfg, window, now, joins, judged, stimuli, faults>>

RecordJoin(t) ==
  LET task == tasks[t]  s == task.cfg.settings  latch == Trips(s) /\ ~task.cfg.lockdown IN
  /\ task.pc = "record"
  /\ IF Watches(s) THEN window' = Remembered(s) /\ joins' = Append(joins, now)
                   ELSE UNCHANGED <<window, joins>>
  /\ Goto(t, [task EXCEPT !.pc = IF latch THEN "latch" ELSE "gate",
                          !.n = Len(joins'),
                          !.lockdown = latch \/ task.cfg.lockdown])
  /\ UNCHANGED <<cfg, now, judged, stimuli, faults>>

(* The clone that was loaded is saved with the flag up; a failure is let go. *)
Latched_Unset(c) == c
Latched(c) == [c EXCEPT !.lockdown = TRUE]

Latch(t) ==
  LET task == tasks[t] IN
  /\ task.pc = "latch"
  /\ \/ cfg' = Latched(task.cfg) /\ NoFault
     \/ UNCHANGED cfg /\ Fault
  /\ Goto(t, [task EXCEPT !.pc = "gate"])
  /\ UNCHANGED <<window, now, joins, judged, stimuli>>

(* The member is let in, or met with the gate action. *)
Gate(t) ==
  LET task == tasks[t]  s == task.cfg.settings IN
  /\ task.pc = "gate"
  /\ judged' = judged \cup
       {[n |-> task.n, gated |-> task.lockdown \/ Screened(s, task.fresh),
         settings |-> s]}
  /\ Ends(t)
  /\ UNCHANGED <<cfg, window, now, joins, stimuli, faults>>

-----------------------------------------------------------------------------
(* The commands save what they loaded, with their change. *)

Edited(c, edit) ==
  CASE edit.what = "on"  -> [c EXCEPT !.lockdown = TRUE]
    [] edit.what = "off" -> [c EXCEPT !.lockdown = FALSE]
    [] edit.what = "set" -> [c EXCEPT !.settings = edit.settings]

(* /setraid refuses settings that do not validate. *)
SaveCommand(t) ==
  LET task == tasks[t]  new == Edited(task.cfg, task.edit) IN
  /\ task.pc = "save"
  /\ \/ /\ Valid(new.settings) /\ NoFault
        /\ cfg' = new
     \/ ~Valid(new.settings) /\ NoFault /\ UNCHANGED cfg
     \/ Fault /\ UNCHANGED cfg
  /\ Ends(t)
  /\ UNCHANGED <<window, now, joins, judged, stimuli>>

-----------------------------------------------------------------------------

TaskStep(t) == LoadJoin(t) \/ RecordJoin(t) \/ Latch(t) \/ Gate(t) \/ SaveCommand(t)

Next ==
  \/ \E t \in Workers : TaskStep(t)
  \/ \E t \in Workers, fresh \in BOOLEAN : Join(t, fresh)
  \/ \E t \in Workers, edit \in Edits : Command(t, edit)
  \/ \E body \in Bodies : SubmitForm(body)
  \/ Crash
  \/ Tick

Spec == Init /\ [][Next]_vars

-----------------------------------------------------------------------------
(* Properties. *)

(***************************************************************************)
(* Every variable has its type; the blob in the store, and every copy of   *)
(* it, is one that validate lets pass.                                     *)
(***************************************************************************)
TypeOK ==
  /\ cfg \in Config
  /\ window \in Seq(Nat)
  /\ tasks \in [Workers -> {Idle} \cup Joiner \cup Editor]
  /\ now \in Nat
  /\ joins \in Seq(Nat)
  /\ judged \subseteq Verdict
  /\ stimuli \in Nat /\ faults \in Nat

(* A window that every handler looks back on, whichever settings it loaded: *)
(* what an older join is to shorter settings, all later ones forget.       *)
Lasting == {w \in {s.window : s \in Sane} : \A s \in Sane : w <= s.window}

(* With the n-th join there are at least threshold joins within w seconds. *)
InBurst(n, s, w) ==
  Watches(s) /\
  Cardinality({i \in 1 .. n : joins[i] >= joins[n] - w}) >= s.threshold

(***************************************************************************)
(* Every join from the threshold-th of a burst on is met with the gate     *)
(* action, also those whose handlers loaded the config before the lockdown *)
(* was saved, and even if that save fails or a moderator lifts the         *)
(* lockdown meanwhile: record_join does not clear its window on a trip.    *)
(* Settings come and go; the joins are those within the shortest window    *)
(* that any of them has.                                                   *)
(***************************************************************************)
BurstIsGated ==
  \A v \in judged, w \in Lasting : InBurst(v.n, v.settings, w) => v.gated

Lifts(t) == tasks[t].pc = "save" /\ tasks[t].edit = Off /\ tasks'[t] = Idle

(***************************************************************************)
(* "cleared via the /lockdown off command.  Persists across restarts"      *)
(* (core/src/raid.rs:64).  What the code keeps of that: joins that latch   *)
(* what they loaded, /lockdown on, restarts and failures, in any order,    *)
(* never take a lockdown down, nor does a /setraid that began during it.   *)
(* Besides /lockdown off, two steps do: a /setraid that began while there  *)
(* was none, and a page saved with the box not ticked.                     *)
(***************************************************************************)
StaleEdit(t) ==
  /\ tasks[t].pc = "save" /\ tasks[t].edit.what = "set"
  /\ ~tasks[t].cfg.lockdown
  /\ tasks'[t] = Idle

Unticked ==
  /\ UNCHANGED <<tasks, window, judged>> /\ stimuli' # stimuli
  /\ \E body \in Bodies : ~body.lockdown /\ cfg' = body

LockdownHolds ==
  [][cfg.lockdown /\ ~cfg'.lockdown =>
       Unticked \/ \E t \in Workers : Lifts(t) \/ StaleEdit(t)]_vars

=============================================================================
