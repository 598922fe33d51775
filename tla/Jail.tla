-------------------------------- MODULE Jail --------------------------------
(***************************************************************************)
(* The role-snapshot jail: bot/src/jail.rs, the events and the expiry      *)
(* sweep that drive it (bot/src/handler.rs), the jails table (store.rs),   *)
(* and as much of Discord as they rely on.                                 *)
(*                                                                         *)
(* A handler runs as a task of its own.  It is cut at every point where    *)
(* another task can come between: each call of Discord (an await) and each *)
(* store call (a transaction of its own).  A GUILD_MEMBER_UPDATE that a    *)
(* role change causes stays in transit until Deliver hands it to a task.   *)
(***************************************************************************)
EXTENDS Integers, Sequences, FiniteSets

CONSTANTS
  Members,        \* the guild's users, in it or not
  Roles,          \* ordinary roles
  Managed,        \* integration and booster roles, which only Discord moves
  JailRole,       \* JailConfig.jail_role_id
  Workers,        \* tasks that run event and command handlers
  Sweeper,        \* the one task of the expiry sweep
  Minutes,        \* sentence lengths; 0 is "until released"
  DefaultMinutes, \* JailConfig.default_minutes
  Ops,            \* the stimuli this environment gives, by name
  Paced,          \* a member's stimuli and expiry come one at a time
  MaxTime, MaxStimuli, MaxFaults, MaxUpdates   \* bounds

ASSUME RoleAssumption ==
  /\ JailRole \notin Roles \cup Managed
  /\ Roles \cap Managed = {}

ASSUME TaskAssumption ==
  /\ Sweeper \notin Workers
  /\ Members # {}

ASSUME NumberAssumption ==
  /\ Minutes \subseteq Nat
  /\ DefaultMinutes \in Minutes
  /\ Paced \in BOOLEAN
  /\ {MaxTime, MaxStimuli, MaxFaults, MaxUpdates} \subseteq Nat

VARIABLES
  jails,      \* the jails table: a record for each member, held or not
  enabled,    \* JailConfig.enabled
  roles,      \* Discord: the roles of each member
  present,    \* Discord: who is in the guild
  updates,    \* member updates on their way to the bot, oldest first
  tasks,      \* the state of every task
  sweep,      \* what is left of the batch the sweep read
  rewritten,  \* history: whose record was written since that read
  now,        \* the clock, in minutes
  owed,       \* history: ordinary roles the bot must be able to give back
  had,        \* history: every role but the jail role a member got elsewhere
  stimuli,    \* stimuli left
  faults      \* failures of a call of Discord or the store left

vars == <<jails, enabled, roles, present, updates, tasks, sweep, rewritten,
          now, owed, had, stimuli, faults>>

AllRoles == Roles \cup Managed \cup {JailRole}
Tasks    == Workers \cup {Sweeper}

Never    == -1        \* expires_at = None
Record   == [held : BOOLEAN, prior : SUBSET AllRoles, expires : Nat \cup {Never}]
NoRecord == [held |-> FALSE, prior |-> {}, expires |-> Never]

(***************************************************************************)
(* pc names the call a task makes next; m is its member, fresh says that   *)
(* it found no record, prior is the snapshot it carries, aim the role set  *)
(* it will send (or, for a watcher, the role set its event carries).       *)
(***************************************************************************)
JailPCs   == {"jail", "fetch", "record", "aim", "strip"}
UnjailPCs == {"unjail", "remove", "restore", "pull"}
RejoinPCs == {"rejoin", "lookup", "reaim", "reapply"}
PCs       == {"idle", "watch", "judge"} \cup JailPCs \cup UnjailPCs \cup RejoinPCs

AnyMember == CHOOSE m \in Members : TRUE

TaskState == [pc : PCs, m : Members, fresh : BOOLEAN,
              prior : SUBSET AllRoles, mins : Minutes, aim : SUBSET AllRoles]

Idle == [pc |-> "idle", m |-> AnyMember, fresh |-> FALSE,
         prior |-> {}, mins |-> DefaultMinutes, aim |-> {}]

Launched(pc, m) == [Idle EXCEPT !.pc = pc, !.m = m]

Init ==
  /\ jails = [m \in Members |-> NoRecord]
  /\ enabled = TRUE
  /\ roles \in [Members -> SUBSET (Roles \cup Managed)]
  /\ present = [m \in Members |-> TRUE]
  /\ updates = [m \in Members |-> <<>>]
  /\ tasks = [t \in Tasks |-> Idle]
  /\ sweep = {}
  /\ rewritten = {}
  /\ now = 0
  /\ owed = [m \in Members |-> roles[m] \cap Roles]
  /\ had = roles
  /\ stimuli = MaxStimuli
  /\ faults = MaxFaults

-----------------------------------------------------------------------------
(* Discord. *)

(***************************************************************************)
(* PATCH member: refused for a member who left, and for a role set that    *)
(* adds or drops a managed role.                                           *)
(***************************************************************************)
Accepts(m, new) == present[m] /\ new \cap Managed = roles[m] \cap Managed

(* A change of a member's roles takes effect and announces itself. *)
SetRoles(m, new) ==
  /\ Len(updates[m]) < MaxUpdates
  /\ roles' = [roles EXCEPT ![m] = new]
  /\ updates' = IF new = roles[m] THEN updates
                ELSE [updates EXCEPT ![m] = Append(@, new)]

KeepRoles == UNCHANGED <<roles, updates>>

Fault   == faults > 0 /\ faults' = faults - 1
NoFault == UNCHANGED faults

-----------------------------------------------------------------------------
(* What the handlers compute. *)

Snapshot_WithJailRole(rs) == rs
Snapshot(rs) == rs \ {JailRole}

JailedRoles(m) == {JailRole} \cup (roles[m] \cap Managed)

Sentence_Backwards(mins) == IF mins = 0 THEN Never ELSE now - mins
Sentence(mins) == IF mins = 0 THEN Never ELSE now + mins

(* RedbStore::record_jail_keyed: a held record keeps its snapshot. *)
KeptPrior_Overwrite(old, prior) == prior
KeptPrior(old, prior) == IF old.held THEN old.prior ELSE prior

DueAt_Early(rec) == rec.held /\ rec.expires # Never /\ rec.expires <= now + 1
DueAt_Strict(rec) == rec.held /\ rec.expires # Never /\ rec.expires < now
DueAt(rec) == rec.held /\ rec.expires # Never /\ rec.expires <= now

(* unjail_member: with a snapshot restore it, without one pull the role. *)
AfterRemove_Pull(task) == "pull"
AfterRemove(task) == IF task.fresh THEN "pull" ELSE "restore"

(* guild_member_update: which of its two branches an update takes. *)
Verdict_Swapped(rs, held) ==
  CASE JailRole \in rs /\ held -> "unjail"
    [] JailRole \notin rs /\ ~held -> "jail"
    [] OTHER -> "idle"
Verdict(rs, held) ==
  CASE JailRole \in rs /\ ~held -> "jail"
    [] JailRole \notin rs /\ held -> "unjail"
    [] OTHER -> "idle"

Rejoiner_NoRecordCheck(m) == FALSE
Rejoiner(m) == jails[m].held

-----------------------------------------------------------------------------
(* Scheduling. *)

Goto(t, task) == tasks' = [tasks EXCEPT ![t] = task]
Ends(t) == Goto(t, Idle)

Busy(t, m) == tasks[t].pc # "idle" /\ tasks[t].m = m

Quiet(m) == updates[m] = <<>> /\ m \notin sweep /\ \A t \in Tasks : ~Busy(t, m)

Stimulus(op, m) ==
  /\ op \in Ops
  /\ stimuli > 0
  /\ stimuli' = stimuli - 1
  /\ Paced => Quiet(m)

Free(t) == t \in Workers /\ tasks[t].pc = "idle"

-----------------------------------------------------------------------------
(* Stimuli: commands, filters, moderators, other bots, Discord. *)

(* /jail, and the raid gate's quarantine: jail_member with a length. *)
JailCommand(t, m, mins) ==
  /\ Free(t)
  /\ Stimulus("jail", m)
  /\ Goto(t, [Launched("jail", m) EXCEPT !.mins = mins])
  /\ UNCHANGED <<jails, enabled, roles, present, updates, sweep, rewritten,
                 now, owed, had, faults>>

(* try_jail, called by the content filters: only when the jail is enabled. *)
TryJail(t, m) ==
  /\ Free(t)
  /\ enabled
  /\ Stimulus("filter", m)
  /\ Goto(t, Launched("jail", m))
  /\ UNCHANGED <<jails, enabled, roles, present, updates, sweep, rewritten,
                 now, owed, had, faults>>

UnjailCommand(t, m) ==
  /\ Free(t)
  /\ Stimulus("unjail", m)
  /\ Goto(t, Launched("unjail", m))
  /\ UNCHANGED <<jails, enabled, roles, present, updates, sweep, rewritten,
                 now, owed, had, faults>>

(* A moderator assigns or removes the jail role by hand. *)
HandJail(m) ==
  /\ present[m]
  /\ Stimulus("handjail", m)
  /\ SetRoles(m, roles[m] \cup {JailRole})
  /\ UNCHANGED <<jails, enabled, present, tasks, sweep, rewritten, now, owed,
                 had, faults>>

HandFree(m) ==
  /\ present[m]
  /\ Stimulus("handfree", m)
  /\ SetRoles(m, roles[m] \ {JailRole})
  /\ UNCHANGED <<jails, enabled, present, tasks, sweep, rewritten, now, owed,
                 had, faults>>

(* A moderator or another bot gives an ordinary role. *)
Grant(m, r) ==
  /\ present[m]
  /\ Stimulus("grant", m)
  /\ SetRoles(m, roles[m] \cup {r})
  /\ had' = [had EXCEPT ![m] = @ \cup {r}]
  /\ UNCHANGED <<jails, enabled, present, tasks, sweep, rewritten, now, owed,
                 faults>>

(* A boost or an integration starts or ends. *)
ToggleManaged(m, r) ==
  /\ present[m]
  /\ Stimulus("managed", m)
  /\ SetRoles(m, IF r \in roles[m] THEN roles[m] \ {r} ELSE roles[m] \cup {r})
  /\ had' = [had EXCEPT ![m] = @ \cup {r}]
  /\ UNCHANGED <<jails, enabled, present, tasks, sweep, rewritten, now, owed,
                 faults>>

(* A nickname, avatar or timeout changes: an update with the same roles. *)
Touch(m) ==
  /\ present[m]
  /\ Stimulus("touch", m)
  /\ Len(updates[m]) < MaxUpdates
  /\ updates' = [updates EXCEPT ![m] = Append(@, roles[m])]
  /\ UNCHANGED <<jails, enabled, roles, present, tasks, sweep, rewritten, now,
                 owed, had, faults>>

(* Discord drops the roles of a member who leaves; only a record owes them. *)
Leave(m) ==
  /\ present[m]
  /\ Stimulus("leave", m)
  /\ present' = [present EXCEPT ![m] = FALSE]
  /\ roles' = [roles EXCEPT ![m] = {}]
  /\ owed' = [owed EXCEPT ![m] = IF jails[m].held THEN @ ELSE {}]
  /\ UNCHANGED <<jails, enabled, updates, tasks, sweep, rewritten, now, had,
                 faults>>

Rejoin(t, m) ==
  /\ Free(t)
  /\ ~present[m]
  /\ Stimulus("leave", m)
  /\ present' = [present EXCEPT ![m] = TRUE]
  /\ Goto(t, Launched("rejoin", m))
  /\ UNCHANGED <<jails, enabled, roles, updates, sweep, rewritten, now, owed,
                 had, faults>>

(* Another bot greets a member who just joined with a role of its own. *)
Autorole(m, r) ==
  /\ "autorole" \in Ops /\ stimuli > 0
  /\ present[m] /\ \E t \in Workers : tasks[t].m = m /\ tasks[t].pc \in RejoinPCs
  /\ stimuli' = stimuli - 1
  /\ SetRoles(m, roles[m] \cup {r})
  /\ had' = [had EXCEPT ![m] = @ \cup {r}]
  /\ UNCHANGED <<jails, enabled, present, tasks, sweep, rewritten, now, owed,
                 faults>>

(* /setjail enabled. *)
SetJail(b) ==
  /\ "config" \in Ops /\ stimuli > 0
  /\ stimuli' = stimuli - 1
  /\ enabled' = b
  /\ UNCHANGED <<jails, roles, present, updates, tasks, sweep, rewritten, now,
                 owed, had, faults>>

(* The process stops and starts again: only the store is left. *)
Crash ==
  /\ "crash" \in Ops /\ stimuli > 0
  /\ stimuli' = stimuli - 1
  /\ tasks' = [t \in Tasks |-> Idle]
  /\ updates' = [m \in Members |-> <<>>]
  /\ sweep' = {}
  /\ UNCHANGED <<jails, enabled, roles, present, rewritten, now, owed, had,
                 faults>>

Tick ==
  /\ now < MaxTime
  /\ now' = now + 1
  /\ UNCHANGED <<jails, enabled, roles, present, updates, tasks, sweep,
                 rewritten, owed, had, stimuli, faults>>

-----------------------------------------------------------------------------
(* Events reach the bot; the watcher. *)

Deliver(t, m) ==
  /\ Free(t)
  /\ updates[m] # <<>>
  /\ Goto(t, [Launched("watch", m) EXCEPT !.aim = Head(updates[m])])
  /\ updates' = [updates EXCEPT ![m] = Tail(@)]
  /\ UNCHANGED <<jails, enabled, roles, present, sweep, rewritten, now, owed,
                 had, stimuli, faults>>

(* The config is read first, then the record, each in its own transaction. *)
Watch(t) ==
  /\ tasks[t].pc = "watch"
  /\ IF enabled THEN Goto(t, [tasks[t] EXCEPT !.pc = "judge"]) ELSE Ends(t)
  /\ UNCHANGED <<jails, enabled, roles, present, updates, sweep, rewritten, now,
                 owed, had, stimuli, faults>>

Judge(t) ==
  LET task == tasks[t]  next == Verdict(task.aim, jails[task.m].held) IN
  /\ task.pc = "judge"
  /\ Goto(t, IF next = "idle" THEN Idle ELSE Launched(next, task.m))
  /\ UNCHANGED <<jails, enabled, roles, present, updates, sweep, rewritten, now,
                 owed, had, stimuli, faults>>

-----------------------------------------------------------------------------
(* jail_member. *)

JailRead(t) ==
  LET task == tasks[t]  rec == jails[task.m] IN
  /\ task.pc = "jail"
  /\ Goto(t, IF rec.held
             THEN [task EXCEPT !.pc = "record", !.fresh = FALSE, !.prior = rec.prior]
             ELSE [task EXCEPT !.pc = "fetch", !.fresh = TRUE])
  /\ UNCHANGED <<jails, enabled, roles, present, updates, sweep, rewritten,
                 now, owed, had, stimuli, faults>>

JailFetch(t) ==
  LET task == tasks[t] IN
  /\ task.pc = "fetch"
  /\ \/ /\ present[task.m]
        /\ Goto(t, [task EXCEPT !.pc = "record", !.prior = Snapshot(roles[task.m])])
        /\ NoFault
     \/ ~present[task.m] /\ Ends(t) /\ NoFault
     \/ Fault /\ Ends(t)
  /\ UNCHANGED <<jails, enabled, roles, present, updates, sweep, rewritten,
                 now, owed, had, stimuli>>

JailRecord(t) ==
  LET task == tasks[t] IN
  /\ task.pc = "record"
  /\ \/ /\ jails' = [jails EXCEPT ![task.m] =
                      [held |-> TRUE, prior |-> KeptPrior(@, task.prior),
                       expires |-> Sentence(task.mins)]]
        /\ rewritten' = rewritten \cup {task.m}
        /\ Goto(t, [task EXCEPT !.pc = "aim"])
        /\ NoFault
     \/ Fault /\ Ends(t) /\ UNCHANGED <<jails, rewritten>>
  /\ UNCHANGED <<enabled, roles, present, updates, sweep, now, owed,
                 had, stimuli>>

(* jailed_role_set: without the member or the guild's roles, the bare role. *)
RoleSet(t, from, to) ==
  LET task == tasks[t] IN
  /\ task.pc = from
  /\ \/ /\ present[task.m]
        /\ Goto(t, [task EXCEPT !.pc = to, !.aim = JailedRoles(task.m)])
        /\ NoFault
     \/ /\ ~present[task.m]
        /\ Goto(t, [task EXCEPT !.pc = to, !.aim = {JailRole}])
        /\ NoFault
     \/ /\ Fault
        /\ Goto(t, [task EXCEPT !.pc = to, !.aim = {JailRole}])
  /\ UNCHANGED <<jails, enabled, roles, present, updates, sweep, rewritten,
                 now, owed, had, stimuli>>

JailRoleSet(t) == RoleSet(t, "aim", "strip")

(* A strip that fails is rolled back, if it was a fresh jail and the store *)
(* obeys: the last disjunct is a rollback that fails as well.              *)
JailStrip(t) ==
  LET task == tasks[t]
      failed == /\ KeepRoles
                /\ jails' = IF task.fresh
                            THEN [jails EXCEPT ![task.m] = NoRecord] ELSE jails
  IN
  /\ task.pc = "strip"
  /\ \/ /\ Accepts(task.m, task.aim) /\ NoFault
        /\ SetRoles(task.m, task.aim)
        /\ UNCHANGED jails
     \/ ~Accepts(task.m, task.aim) /\ NoFault /\ failed
     \/ Fault /\ failed
     \/ Fault /\ KeepRoles /\ UNCHANGED jails
  /\ Ends(t)
  /\ UNCHANGED <<enabled, present, sweep, rewritten, now, owed, had, stimuli>>

-----------------------------------------------------------------------------
(* unjail_member. *)

UnjailRead(t) ==
  LET task == tasks[t]  rec == jails[task.m] IN
  /\ task.pc = "unjail"
  /\ Goto(t, [task EXCEPT !.pc = "remove", !.fresh = ~rec.held, !.prior = rec.prior])
  /\ UNCHANGED <<jails, enabled, roles, present, updates, sweep, rewritten,
                 now, owed, had, stimuli, faults>>

UnjailRemove(t) ==
  LET task == tasks[t] IN
  /\ task.pc = "remove"
  /\ \/ /\ jails' = [jails EXCEPT ![task.m] = NoRecord]
        /\ Goto(t, [task EXCEPT !.pc = AfterRemove(task)])
        /\ NoFault
     \/ Fault /\ Ends(t) /\ UNCHANGED jails
  /\ UNCHANGED <<enabled, roles, present, updates, sweep, rewritten, now, owed,
                 had, stimuli>>

(* A refused or failed restore is logged, nothing more. *)
UnjailRestore(t) ==
  LET task == tasks[t] IN
  /\ task.pc = "restore"
  /\ \/ /\ Accepts(task.m, task.prior) /\ NoFault
        /\ SetRoles(task.m, task.prior)
        /\ UNCHANGED owed
     \/ /\ ~Accepts(task.m, task.prior) /\ NoFault
        /\ KeepRoles
        /\ owed' = [owed EXCEPT ![task.m] = IF present[task.m] THEN @ ELSE {}]
     \/ Fault /\ KeepRoles /\ UNCHANGED owed
  /\ Ends(t)
  /\ UNCHANGED <<jails, enabled, present, sweep, rewritten, now, had, stimuli>>

UnjailPull(t) ==
  LET task == tasks[t] IN
  /\ task.pc = "pull"
  /\ \/ /\ present[task.m] /\ NoFault
        /\ SetRoles(task.m, roles[task.m] \ {JailRole})
     \/ ~present[task.m] /\ NoFault /\ KeepRoles
     \/ Fault /\ KeepRoles
  /\ Ends(t)
  /\ UNCHANGED <<jails, enabled, present, sweep, rewritten, now, owed, had,
                 stimuli>>

-----------------------------------------------------------------------------
(* reapply_if_jailed. *)

RejoinCheck(t) ==
  /\ tasks[t].pc = "rejoin"
  /\ IF enabled THEN Goto(t, [tasks[t] EXCEPT !.pc = "lookup"]) ELSE Ends(t)
  /\ UNCHANGED <<jails, enabled, roles, present, updates, sweep, rewritten, now,
                 owed, had, stimuli, faults>>

RejoinLookup(t) ==
  /\ tasks[t].pc = "lookup"
  /\ IF Rejoiner(tasks[t].m) THEN Goto(t, [tasks[t] EXCEPT !.pc = "reaim"])
                             ELSE Ends(t)
  /\ UNCHANGED <<jails, enabled, roles, present, updates, sweep, rewritten, now,
                 owed, had, stimuli, faults>>

RejoinRoleSet(t) == RoleSet(t, "reaim", "reapply")

RejoinApply(t) ==
  LET task == tasks[t] IN
  /\ task.pc = "reapply"
  /\ \/ Accepts(task.m, task.aim) /\ NoFault /\ SetRoles(task.m, task.aim)
     \/ ~Accepts(task.m, task.aim) /\ NoFault /\ KeepRoles
     \/ Fault /\ KeepRoles
  /\ Ends(t)
  /\ UNCHANGED <<jails, enabled, present, sweep, rewritten, now, owed, had,
                 stimuli>>

-----------------------------------------------------------------------------
(* The expiry sweep: reads a batch, then releases its members in turn. *)

Due == {m \in Members : DueAt(jails[m])}

(* A tick that finds nobody due changes nothing. *)
SweepTick ==
  /\ "sweep" \in Ops
  /\ sweep = {} /\ tasks[Sweeper].pc = "idle"
  /\ Due # {}
  /\ sweep' = Due
  /\ rewritten' = {}
  /\ UNCHANGED <<jails, enabled, roles, present, updates, tasks, now, owed,
                 had, stimuli, faults>>

SweepNext(m) ==
  /\ m \in sweep
  /\ tasks[Sweeper].pc = "idle"
  /\ sweep' = sweep \ {m}
  /\ Goto(Sweeper, Launched("unjail", m))
  /\ UNCHANGED <<jails, enabled, roles, present, updates, rewritten, now, owed,
                 had, stimuli, faults>>

-----------------------------------------------------------------------------

TaskStep(t) ==
  \/ Watch(t) \/ Judge(t)
  \/ JailRead(t) \/ JailFetch(t) \/ JailRecord(t) \/ JailRoleSet(t) \/ JailStrip(t)
  \/ UnjailRead(t) \/ UnjailRemove(t) \/ UnjailRestore(t) \/ UnjailPull(t)
  \/ RejoinCheck(t) \/ RejoinLookup(t) \/ RejoinRoleSet(t) \/ RejoinApply(t)

MemberStimulus(m) ==
  \/ HandJail(m) \/ HandFree(m) \/ Touch(m) \/ Leave(m)
  \/ \E r \in Roles : Grant(m, r) \/ Autorole(m, r)
  \/ \E r \in Managed : ToggleManaged(m, r)

WorkerStimulus(t, m) ==
  \/ \E mins \in Minutes : JailCommand(t, m, mins)
  \/ TryJail(t, m) \/ UnjailCommand(t, m) \/ Rejoin(t, m)

(***************************************************************************)
(* The schedule.  Paced is an assumption about it, which nothing in the    *)
(* code ensures: a stimulus for a member, and the minute at which the      *)
(* sweep finds the member due, come when nothing is in flight for the      *)
(* member.                                                                 *)
(***************************************************************************)
SweepStarts == SweepTick /\ (Paced => \A m \in Due : Quiet(m))

Next ==
  \/ \E t \in Tasks : TaskStep(t)
  \/ \E t \in Workers, m \in Members : Deliver(t, m)
  \/ SweepStarts
  \/ \E m \in Members : SweepNext(m)
  \/ \E m \in Members : MemberStimulus(m)
  \/ \E t \in Workers, m \in Members : WorkerStimulus(t, m)
  \/ \E b \in BOOLEAN : SetJail(b)
  \/ Crash
  \/ Tick

Spec == Init /\ [][Next]_vars

(***************************************************************************)
(* The runtime polls every ready task, Discord calls return (an answer or  *)
(* a timeout), the gateway delivers, the interval ticks and time passes.   *)
(* No stimulus is fair.                                                    *)
(***************************************************************************)
Fairness ==
  /\ \A t \in Tasks : WF_vars(TaskStep(t))
  /\ \A m \in Members : WF_vars(\E t \in Workers : Deliver(t, m))
  /\ WF_vars(SweepStarts)
  /\ \A m \in Members : WF_vars(SweepNext(m))
  /\ WF_vars(Tick)

FairSpec == Spec /\ Fairness

-----------------------------------------------------------------------------
(* Properties. *)

(* Every variable has its type.                                           *)
TypeOK ==
  /\ jails \in [Members -> Record]
  /\ enabled \in BOOLEAN
  /\ roles \in [Members -> SUBSET AllRoles]
  /\ present \in [Members -> BOOLEAN]
  /\ updates \in [Members -> Seq(SUBSET AllRoles)]
  /\ tasks \in [Tasks -> TaskState]
  /\ sweep \subseteq Members
  /\ rewritten \subseteq Members
  /\ now \in Nat
  /\ owed \in [Members -> SUBSET Roles]
  /\ had \in [Members -> SUBSET (Roles \cup Managed)]
  /\ stimuli \in Nat
  /\ faults \in Nat

(***************************************************************************)
(* The ordinary roles a member came with are on the member, in the         *)
(* record's snapshot, or in the hands of a task about to restore them:     *)
(* what record_jail's "keep prior_roles", the write before the strip and   *)
(* the order of unjail_member are for.                                     *)
(***************************************************************************)
Recoverable(m) ==
  roles[m] \cup (IF jails[m].held THEN jails[m].prior ELSE {})
    \cup UNION {tasks[t].prior : t \in {u \in Tasks : tasks[u].pc = "restore"
                                                   /\ tasks[u].m = m}}

NoSnapshotLoss == \A m \in Members : present[m] => owed[m] \subseteq Recoverable(m)

(***************************************************************************)
(* Once nothing is in flight, a member of the guild wears the jail role    *)
(* exactly while a record is held, and then keeps no role the member came  *)
(* with: jail_member, unjail_member, reapply_if_jailed and the watcher     *)
(* leave store and Discord in agreement.                                   *)
(***************************************************************************)
JailedIffRecord ==
  \A m \in Members : present[m] /\ Quiet(m) =>
    /\ JailRole \in roles[m] <=> jails[m].held
    /\ jails[m].held => owed[m] \cap roles[m] = {}

(***************************************************************************)
(* The bot never gives a member a role the member did not get elsewhere,   *)
(* other than the jail role, and no snapshot holds the jail role: whatever *)
(* restores, re-applications and failures interleave.                      *)
(***************************************************************************)
NoRoleInvented ==
  \A m \in Members : /\ roles[m] \subseteq had[m] \cup {JailRole}
                     /\ jails[m].prior \subseteq had[m]

(* A record of m disappears in this step. *)
Released(m) == jails[m].held /\ ~jails'[m].held

PastDue(m) == jails[m].expires # Never /\ jails[m].expires <= now

(***************************************************************************)
(* The sweep works through a batch that may be old, and asks for each      *)
(* member whether there is a record, not which.  Still it frees nobody     *)
(* early, except a member who was jailed again, or whose sentence was      *)
(* refreshed, behind the batch: whatever else comes between.               *)
(***************************************************************************)
ExpiryOnlyWhenDue ==
  [][\A m \in Members :
       Released(m) /\ tasks[Sweeper].pc = "remove" /\ tasks[Sweeper].m = m
         => PastDue(m) \/ m \in rewritten]_vars

(***************************************************************************)
(* Where nobody orders a release and no sentence ends, no record goes:     *)
(* not by overlapping jails, restarts, /setjail, or an update of the bot's *)
(* own that the watcher takes for a release.                               *)
(***************************************************************************)
EscapeProof == [][\A m \in Members : ~Released(m)]_vars

(* A sentence that is over ends in a release, or is refreshed.             *)
DueIsReleased ==
  \A m \in Members : (jails[m].held /\ PastDue(m)) ~> ~(jails[m].held /\ PastDue(m))

(***************************************************************************)
(* A jailed member who is back in the guild gets the jail role again, or   *)
(* is released, or leaves again.                                           *)
(***************************************************************************)
RejoinIsReapplied ==
  \A m \in Members :
    (jails[m].held /\ present[m])
      ~> (~jails[m].held \/ ~present[m] \/ JailRole \in roles[m])

(***************************************************************************)
(* Once stimuli stop, the handlers and the updates they cause come to      *)
(* rest: no handler's own update starts another one forever.               *)
(***************************************************************************)
ComesToRest == <>[](\A m \in Members : Quiet(m))

=============================================================================
