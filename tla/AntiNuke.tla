------------------------------ MODULE AntiNuke ------------------------------
(***************************************************************************)
(* The anti-nuke of one guild: the window of destructive actions that is   *)
(* kept per actor (core/src/antinuke.rs), and the audit-log handler that   *)
(* strips an actor who trips it (bot/src/handler.rs, antinuke_check).      *)
(*                                                                         *)
(* Every audit-log entry is handled by a task of its own, cut at each call *)
(* of Discord or the store.  The tracker is behind a lock, and the clock   *)
(* is read inside it: an action is recorded in one step.  Entries that are *)
(* not destructive change nothing and are left out.                        *)
(***************************************************************************)
EXTENDS Integers, Sequences, FiniteSets

CONSTANTS
  Actors,      \* who may delete, ban and kick
  Owner, Bot,  \* two of them
  Roles,       \* roles of the guild
  Managed,     \* those an integration manages: no edit may touch them
  Workers,     \* tasks that run handlers
  Inputs,      \* settings an admin enters
  Ops,         \* the stimuli this environment gives, by name
  MaxTime, MaxStimuli, MaxFaults   \* bounds

(* modlog: a mod-log channel is set, which is a setting of its own blob.   *)
Settings == [enabled : BOOLEAN, max : Nat \ {1}, window : Nat \ {0},
             trusted : SUBSET Actors, dry : BOOLEAN, modlog : BOOLEAN]

ASSUME NameAssumption == {Owner, Bot} \subseteq Actors /\ Managed \subseteq Roles

ASSUME InputAssumption == Inputs \subseteq Settings /\ Inputs # {}

ASSUME NumberAssumption == {MaxTime, MaxStimuli, MaxFaults} \subseteq Nat

VARIABLES
  cfg,       \* the blob antinuke_config of the guild, and that of the mod-log
  window,    \* ActionTracker: the times it remembers of each actor
  roles,     \* Discord: the roles of each actor
  tasks,     \* the state of every task
  now,       \* the clock, in seconds
  acts,      \* history: the actions of each actor since it last tripped
  trips,     \* history: the trips since the process started
  told,      \* history: what there was to say of each, and whether it was heard
  noted,     \* history: the trips that were logged, and whether as a case
  stimuli,   \* stimuli left
  faults     \* failed calls left

history == <<acts, trips, told, noted>>

vars == <<cfg, window, roles, tasks, now, history, stimuli, faults>>

(* An alert says what became of the actor.                                 *)
Outcomes == {"unverified", "dry run", "unresolved", "failed", "stripped"}

(* Whether the handler attempted a strip, and so logs a case.              *)
Attempts == {"unresolved", "failed", "stripped"}

(***************************************************************************)
(* A task carries the settings it loaded, then the number of its trip, the *)
(* roles to keep, and what it will report.                                 *)
(***************************************************************************)
PCs == {"idle", "load", "record", "owner", "fetch", "guild", "strip", "alert", "case"}

Task == [pc : PCs, actor : Actors, cfg : Inputs, n : Nat, keep : SUBSET Roles,
         outcome : Outcomes]

Idle == [pc |-> "idle", actor |-> Owner, cfg |-> CHOOSE s \in Inputs : TRUE,
         n |-> 0, keep |-> {}, outcome |-> "unverified"]

(***************************************************************************)
(* When an actor tripped, by which settings, and the actions it had done   *)
(* since the last time it did.                                             *)
(***************************************************************************)
Trip == [actor : Actors, cfg : Inputs, at : Nat, acts : Seq(Nat)]

Init ==
  /\ cfg \in Inputs
  /\ window = [a \in Actors |-> <<>>]
  /\ roles = [a \in Actors |-> Roles]
  /\ tasks = [t \in Workers |-> Idle]
  /\ now = 0
  /\ acts = [a \in Actors |-> <<>>]
  /\ trips = <<>> /\ told = {} /\ noted = {}
  /\ stimuli = MaxStimuli
  /\ faults = MaxFaults

-----------------------------------------------------------------------------
(* core/src/antinuke.rs. *)

Cutoff(s) == IF s.window > now THEN 0 ELSE now - s.window

(* The deque, this action included, popped at the front while it is too old. *)
Recent_Pops(all, s) ==
  LET old == {i \in 1 .. Len(all) : \A j \in 1 .. i : all[j] <= Cutoff(s)}
  IN SubSeq(all, Cardinality(old) + 1, Len(all))
Recent(all, s) ==
  LET old == {i \in 1 .. Len(all) : \A j \in 1 .. i : all[j] < Cutoff(s)}
  IN SubSeq(all, Cardinality(old) + 1, Len(all))

(* A trip forgets the actor's window. *)
Remembered_Kept(recent, s) == recent
Remembered(recent, s) == IF Len(recent) >= s.max THEN <<>> ELSE recent

-----------------------------------------------------------------------------
(* Scheduling and stimuli. *)

Free(t) == tasks[t].pc = "idle"

Goto(t, task) == tasks' = [tasks EXCEPT ![t] = task]
Ends(t) == Goto(t, Idle)

Stimulus(op) == op \in Ops /\ stimuli > 0 /\ stimuli' = stimuli - 1

Fault   == faults > 0 /\ faults' = faults - 1
NoFault == UNCHANGED faults

(* A channel or role was deleted, a member banned or kicked. *)
Act(t, a) ==
  /\ Free(t)
  /\ Stimulus("act")
  /\ Goto(t, [Idle EXCEPT !.pc = "load", !.actor = a])
  /\ UNCHANGED <<cfg, window, roles, now, history, faults>>

(* /setantinuke, /raidtrust and the dashboard save other settings. *)
Configure(s) ==
  /\ Stimulus("set")
  /\ cfg' = s
  /\ UNCHANGED <<window, roles, tasks, now, history, faults>>

(* A role is given or taken, an integration comes or goes. *)
SetRoles(a, rs) ==
  /\ Stimulus("roles")
  /\ roles' = [roles EXCEPT ![a] = rs]
  /\ UNCHANGED <<cfg, window, tasks, now, history, faults>>

(* The process stops and starts again: the windows were only in memory. *)
Crash ==
  /\ Stimulus("crash")
  /\ tasks' = [t \in Workers |-> Idle]
  /\ window' = [a \in Actors |-> <<>>]
  /\ acts' = [a \in Actors |-> <<>>]
  /\ trips' = <<>> /\ told' = {} /\ noted' = {}
  /\ UNCHANGED <<cfg, roles, now, faults>>

Tick ==
  /\ now < MaxTime
  /\ now' = now + 1
  /\ UNCHANGED <<cfg, window, roles, tasks, history, stimuli, faults>>

-----------------------------------------------------------------------------
(* antinuke_check. *)

Watched(s, a) == s.enabled /\ s.max # 0 /\ a # Bot /\ a \notin s.trusted

Load(t) ==
  LET task == tasks[t] IN
  /\ task.pc = "load"
  /\ IF Watched(cfg, task.actor)
     THEN Goto(t, [task EXCEPT !.pc = "record", !.cfg = cfg])
     ELSE Ends(t)
  /\ UNCHANGED <<cfg, window, roles, now, history, stimuli, faults>>

(* record_action, under the lock of the tracker. *)
Record(t) ==
  LET task == tasks[t]  a == task.actor
      recent == Recent(Append(window[a], now), task.cfg)
      all == Append(acts[a], now)
  IN
  /\ task.pc = "record"
  /\ window' = [window EXCEPT ![a] = Remembered(recent, task.cfg)]
  /\ \/ /\ Len(recent) >= task.cfg.max
        /\ trips' = Append(trips, [actor |-> a, cfg |-> task.cfg, at |-> now,
                                   acts |-> all])
        /\ acts' = [acts EXCEPT ![a] = <<>>]
        /\ Goto(t, [task EXCEPT !.pc = "owner", !.n = Len(trips')])
     \/ /\ Len(recent) < task.cfg.max
        /\ acts' = [acts EXCEPT ![a] = all]
        /\ UNCHANGED trips
        /\ Ends(t)
  /\ UNCHANGED <<cfg, roles, now, told, noted, stimuli, faults>>

Reports(task, outcome) == [task EXCEPT !.pc = "alert", !.outcome = outcome]

(* The owner is exempt; an owner who cannot be resolved may be the actor. *)
Unresolved_FailOpen(task) == [task EXCEPT !.pc = "fetch"]
Unresolved(task) == Reports(task, "unverified")

ResolveOwner(t) ==
  LET task == tasks[t] IN
  /\ task.pc = "owner"
  /\ \/ Fault /\ Goto(t, Unresolved(task))
     \/ task.actor = Owner /\ NoFault /\ Ends(t)
     \/ /\ task.actor # Owner /\ NoFault
        /\ Goto(t, IF task.cfg.dry THEN Reports(task, "dry run")
                                   ELSE [task EXCEPT !.pc = "fetch"])
  /\ UNCHANGED <<cfg, window, roles, now, history, stimuli>>

(* What the edit is to leave of the roles. *)
Kept_All(rs) == rs
Kept(rs) == rs \cap Managed

(* The member, then the roles of the guild: both are read, but need each   *)
(* other.                                                                  *)
FetchMember(t) ==
  LET task == [tasks[t] EXCEPT !.pc = "guild"] IN
  /\ tasks[t].pc = "fetch"
  /\ \/ NoFault /\ Goto(t, [task EXCEPT !.keep = roles[task.actor]])
     \/ Fault /\ Goto(t, [task EXCEPT !.outcome = "unresolved"])
  /\ UNCHANGED <<cfg, window, roles, now, history, stimuli>>

FetchRoles(t) ==
  LET task == tasks[t] IN
  /\ task.pc = "guild"
  /\ \/ /\ task.outcome # "unresolved" /\ NoFault
        /\ Goto(t, [task EXCEPT !.pc = "strip", !.keep = Kept(task.keep)])
     \/ task.outcome = "unresolved" /\ NoFault /\ Goto(t, Reports(task, "unresolved"))
     \/ Fault /\ Goto(t, Reports(task, "unresolved"))
  /\ UNCHANGED <<cfg, window, roles, now, history, stimuli>>

(* PATCH member: refused if it adds or drops a managed role. *)
Accepts(a, new) == new \cap Managed = roles[a] \cap Managed

(* The edit succeeds, is refused, or fails before or after it took effect. *)
Strip(t) ==
  LET task == tasks[t]  a == task.actor  new == [roles EXCEPT ![a] = task.keep] IN
  /\ task.pc = "strip"
  /\ \/ /\ Accepts(a, task.keep) /\ NoFault
        /\ roles' = new
        /\ Goto(t, Reports(task, "stripped"))
     \/ /\ ~Accepts(a, task.keep) /\ NoFault
        /\ UNCHANGED roles
        /\ Goto(t, Reports(task, "failed"))
     \/ /\ Fault
        /\ roles' \in {roles} \cup (IF Accepts(a, task.keep) THEN {new} ELSE {})
        /\ Goto(t, Reports(task, "failed"))
  /\ UNCHANGED <<cfg, window, now, history, stimuli>>

(***************************************************************************)
(* The moderators are told, if there is a mod-log channel by then and      *)
(* Discord takes the message: it is not sent again.  Only an attempted     *)
(* strip is logged as well.                                                *)
(***************************************************************************)
AfterAlert_Ends(task) == Idle
AfterAlert(task) ==
  IF task.outcome \in Attempts THEN [task EXCEPT !.pc = "case"] ELSE Idle

Alert(t) ==
  LET task == tasks[t] IN
  /\ task.pc = "alert"
  /\ \E heard \in BOOLEAN :
       /\ told' = told \cup {[n |-> task.n, outcome |-> task.outcome, heard |-> heard]}
       /\ \/ heard = cfg.modlog /\ NoFault
          \/ ~heard /\ cfg.modlog /\ Fault
  /\ Goto(t, AfterAlert(task))
  /\ UNCHANGED <<cfg, window, roles, now, acts, trips, noted, stimuli>>

(* A case; none if the store fails, but the mod-log entry is still sent    *)
(* (see Cases).                                                            *)
Case(t) ==
  LET task == tasks[t] IN
  /\ task.pc = "case"
  /\ \E written \in BOOLEAN :
       /\ noted' = noted \cup {[n |-> task.n, case |-> written]}
       /\ IF written THEN NoFault ELSE Fault
  /\ Ends(t)
  /\ UNCHANGED <<cfg, window, roles, now, acts, trips, told, stimuli>>

-----------------------------------------------------------------------------

TaskStep(t) ==
  \/ Load(t) \/ Record(t) \/ ResolveOwner(t) \/ FetchMember(t) \/ FetchRoles(t)
  \/ Strip(t) \/ Alert(t) \/ Case(t)

Next ==
  \/ \E t \in Workers : TaskStep(t)
  \/ \E t \in Workers, a \in Actors : Act(t, a)
  \/ \E s \in Inputs : Configure(s)
  \/ \E a \in Actors, rs \in SUBSET Roles : SetRoles(a, rs)
  \/ Crash
  \/ Tick

Spec == Init /\ [][Next]_vars

-----------------------------------------------------------------------------
(* Properties. *)

(* Every variable has its type; an edit is to leave managed roles only.    *)
TypeOK ==
  /\ cfg \in Inputs
  /\ window \in [Actors -> Seq(Nat)]
  /\ roles \in [Actors -> SUBSET Roles]
  /\ tasks \in [Workers -> Task]
  /\ \A t \in Workers : tasks[t].pc = "strip" => tasks[t].keep \subseteq Managed
  /\ now \in Nat
  /\ acts \in [Actors -> Seq(Nat)]
  /\ trips \in Seq(Trip)
  /\ told \subseteq [n : DOMAIN trips, outcome : Outcomes, heard : BOOLEAN]
  /\ noted \subseteq [n : DOMAIN trips, case : BOOLEAN]
  /\ stimuli \in Nat /\ faults \in 0 .. MaxFaults

(* How many of these actions are in the window that ends at the time at.   *)
Within(times, at, width) == Cardinality({i \in DOMAIN times : times[i] + width >= at})

(***************************************************************************)
(* An actor on the way to be stripped is neither the owner, nor the bot,   *)
(* nor trusted, was not watched in a dry run, and did max_actions within   *)
(* the window without one that counted towards an earlier trip: whatever   *)
(* failed, and whatever handlers and settings came between.                *)
(***************************************************************************)
StripIsEarned ==
  \A t \in Workers : tasks[t].pc \in {"fetch", "guild", "strip"} =>
    LET task == tasks[t]  p == trips[task.n] IN
    /\ task.actor = p.actor
    /\ p.actor # Owner /\ ~p.cfg.dry /\ Watched(p.cfg, p.actor)
    /\ Within(p.acts, p.at, p.cfg.window) >= p.cfg.max

(***************************************************************************)
(* No action is recorded without a trip that is the max_actions-th since   *)
(* the actor last tripped, in whatever order the handlers come and         *)
(* whatever is set in between: within a window that no settings are        *)
(* shorter than, for a shorter one forgets what a longer one would count.  *)
(***************************************************************************)
Lasting == {h \in {s.window : s \in Inputs} : \A s \in Inputs : h <= s.window}

NukeIsCaught ==
  [][\A t \in Workers, h \in Lasting :
       LET a == tasks[t].actor IN
       tasks[t].pc = "record" /\ tasks'[t] # tasks[t] /\ acts'[a] = Append(acts[a], now) =>
         Within(acts'[a], now, h) < tasks[t].cfg.max]_vars

(* A task that has yet to say what became of trip n, or to log it.         *)
Pending(n, pcs) == \E t \in Workers : tasks[t].n = n /\ tasks[t].pc \in pcs

(***************************************************************************)
(* A trip forgets the actions that led to it before anything is done about *)
(* it: unless the owner tripped, its handler has its say, once, and of     *)
(* every attempt to strip there is a note as well.  What is said may go    *)
(* unheard, and the note may be without a case, but an attempt that left   *)
(* neither took a failure: an unset mod-log channel alone does not hide it.*)
(***************************************************************************)
Accounted ==
  \A n \in DOMAIN trips :
    /\ \/ trips[n].actor = Owner
       \/ Pending(n, {"owner", "fetch", "guild", "strip", "alert"})
       \/ \E e \in told : e.n = n
    /\ \A e, f \in told : e.n = n /\ f.n = n => e = f
    /\ \A e \in told : e.n = n /\ e.outcome \in Attempts =>
         \/ Pending(n, {"case"})
         \/ \E c \in noted : c.n = n /\ (e.heard \/ c.case \/ faults < MaxFaults)

(***************************************************************************)
(* "stripped" is only reported if the actor was left with nothing but the  *)
(* roles an integration manages, also those it got while its member record *)
(* was being fetched: an edit from a stale record is refused.              *)
(***************************************************************************)
StripTakesAll ==
  [][\A t \in Workers :
       tasks[t].pc = "strip" /\ tasks'[t].pc = "alert" /\ tasks'[t].outcome = "stripped" =>
         LET a == tasks[t].actor IN roles'[a] = roles[a] \cap Managed]_vars

=============================================================================
