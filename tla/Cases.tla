------------------------------- MODULE Cases -------------------------------
(***************************************************************************)
(* The numbered cases (bot/src/store.rs), everything that writes one       *)
(* (bot/src/commands.rs, bot/src/handler.rs) and the escalation of warns   *)
(* (core/src/cases.rs).                                                    *)
(*                                                                         *)
(* A handler that sanctions a member first asks Discord, then writes the   *)
(* case; one that warns first writes the case, then posts it, then counts  *)
(* the warns.  Handlers run concurrently and are cut at those points.      *)
(***************************************************************************)
EXTENDS Integers, Sequences, FiniteSets

CONSTANTS
  Guilds,
  Users,
  Workers,     \* tasks that run event and command handlers
  Policies,    \* the WarnEscalation policies an admin sets
  Ops,         \* the stimuli this environment gives, by name
  ListLimit,   \* the newest cases that /warn lists, 1000 in the code
  MaxTime, MaxStimuli, MaxFaults, MaxStoreFaults   \* bounds

Sanctions == {"ban", "kick", "timeout", "jail", "unjail"}
Actions   == Sanctions \cup {"warn", "note"}

(* The path that asks: those of "silent" write no case.                    *)
Sources   == {"mod", "escalation", "raid", "content", "silent"}

Policy == [threshold : Nat, window : Nat, action : {"timeout", "jail", "ban"}]

ASSUME PolicyAssumption == Policies \subseteq Policy /\ Policies # {}

ASSUME PartiesAssumption == Guilds # {} /\ Users # {}

ASSUME NumberAssumption ==
  {ListLimit, MaxTime, MaxStimuli, MaxFaults, MaxStoreFaults} \subseteq Nat

VARIABLES
  seq,          \* CONFIG rows case_seq:{guild}
  cases,        \* the cases table: the row {guild}:{id} is cases[guild][id]
  policy,       \* ModConfig.escalation of each guild
  tasks,        \* the state of every task
  now,          \* the clock, in days
  acted,        \* history: sanctions Discord carried out, where a case is due
  uncased,      \* history: those it carried out for a path that writes none
  judged,       \* history: what each warn's handler decided, and by what policy
  stimuli,      \* stimuli left
  faults,       \* failures of a Discord call left
  storeFaults   \* failures of a store write left

vars == <<seq, cases, policy, tasks, now, acted, uncased, judged, stimuli, faults,
          storeFaults>>

(* Sanctions of every kind, counted for every member.                      *)
Tally == [Guilds -> [Users -> [Sanctions -> Nat]]]

Case    == [user : Users, action : Actions, source : Sources, created : Nat]
Verdict == [id : Nat, escalated : BOOLEAN, policy : Policies]

(***************************************************************************)
(* pc names the step a task makes next; a task that counts carries the id  *)
(* and the time of its own warn.                                           *)
(***************************************************************************)
TaskState == [pc : {"idle", "act", "log", "count"}, guild : Guilds, user : Users,
              action : Actions, source : Sources, id : Nat, at : Nat]

Idle == [pc |-> "idle", guild |-> CHOOSE g \in Guilds : TRUE,
         user |-> CHOOSE u \in Users : TRUE,
         action |-> "note", source |-> "mod", id |-> 0, at |-> 0]

Init ==
  /\ seq = [g \in Guilds |-> 0]
  /\ cases = [g \in Guilds |-> <<>>]
  /\ policy \in [Guilds -> Policies]
  /\ tasks = [t \in Workers |-> Idle]
  /\ now = 0
  /\ acted = [g \in Guilds |-> [u \in Users |-> [a \in Sanctions |-> 0]]]
  /\ uncased = acted
  /\ judged = [g \in Guilds |-> {}]
  /\ stimuli = MaxStimuli
  /\ faults = MaxFaults
  /\ storeFaults = MaxStoreFaults

-----------------------------------------------------------------------------
(* The store. *)

NextCaseNumber_Reused(max) == IF max = 0 THEN 1 ELSE max
NextCaseNumber(max) == max + 1

(* A row is inserted or, under a number in use, replaced. *)
Put(rows, id, row) ==
  [i \in DOMAIN rows \cup {id} |-> IF i = id THEN row ELSE rows[i]]

(* add_case: counter and row in one transaction. *)
AddCase_OldNumber(g, case) ==
  /\ seq' = [seq EXCEPT ![g] = NextCaseNumber(@)]
  /\ cases' = [cases EXCEPT ![g] = Put(@, seq[g], case)]
  /\ UNCHANGED storeFaults
AddCase(g, case) ==
  /\ seq' = [seq EXCEPT ![g] = NextCaseNumber(@)]
  /\ cases' = [cases EXCEPT ![g] = Put(@, NextCaseNumber(seq[g]), case)]
  /\ UNCHANGED storeFaults

AddCaseFails ==
  /\ storeFaults > 0
  /\ storeFaults' = storeFaults - 1
  /\ UNCHANGED <<seq, cases>>

-----------------------------------------------------------------------------
(* warn_escalation. *)

InWindow(p, at, created) == p.window = 0 \/ at - created <= p.window

CasesOf(g, u) == {i \in DOMAIN cases[g] : cases[g][i].user = u}

(* list_cases_for_user: the newest of them. *)
Listed(g, u) ==
  {i \in CasesOf(g, u) : Cardinality({j \in CasesOf(g, u) : j > i}) < ListLimit}

OtherWarns(g, u, id) ==
  {i \in Listed(g, u) : i # id /\ cases[g][i].action = "warn"}

Reaches_WithoutNew(p, n) == p.threshold # 0 /\ n >= p.threshold
Reaches(p, n) == p.threshold # 0 /\ n + 1 >= p.threshold

WarnEscalates(p, g, u, id, at) ==
  Reaches(p, Cardinality({i \in OtherWarns(g, u, id) :
                            InWindow(p, at, cases[g][i].created)}))

-----------------------------------------------------------------------------
(* Stimuli: commands, joins, messages. *)

Free(t) == tasks[t].pc = "idle"

Goto(t, task) == tasks' = [tasks EXCEPT ![t] = task]
Ends(t) == Goto(t, Idle)

Stimulus(op) == op \in Ops /\ stimuli > 0 /\ stimuli' = stimuli - 1

(* warn_cmd up to its case; a failed write ends the command. *)
Warn(t, g, u) ==
  /\ Free(t)
  /\ Stimulus("warn")
  /\ \/ /\ AddCase(g, [user |-> u, action |-> "warn", source |-> "mod",
                       created |-> now])
        /\ Goto(t, [pc |-> "count", guild |-> g, user |-> u, action |-> "warn",
                    source |-> "mod", id |-> NextCaseNumber(seq[g]), at |-> now])
     \/ AddCaseFails /\ UNCHANGED tasks
  /\ UNCHANGED <<policy, now, acted, uncased, judged, faults>>

(* note_cmd, and the note of an anti-nuke trip. *)
Note(g, u) ==
  /\ Stimulus("note")
  /\ \/ AddCase(g, [user |-> u, action |-> "note", source |-> "mod",
                    created |-> now])
     \/ AddCaseFails
  /\ UNCHANGED <<policy, tasks, now, acted, uncased, judged, faults>>

Sanction(t, op, g, u, action, pc, source) ==
  /\ Free(t)
  /\ Stimulus(op)
  /\ Goto(t, [pc |-> pc, guild |-> g, user |-> u, action |-> action,
              source |-> source, id |-> 0, at |-> now])
  /\ UNCHANGED <<seq, cases, policy, now, acted, uncased, judged, faults,
                 storeFaults>>

(* ban_cmd, kick_cmd, timeout_cmd. *)
ModCommand(t, g, u) ==
  \E a \in {"ban", "kick", "timeout"} : Sanction(t, "mod", g, u, a, "act", "mod")

(* raid_check, for a member who fails the gate. *)
GateJoin(t, g, u) ==
  \E a \in {"ban", "kick", "jail"} : Sanction(t, "raid", g, u, a, "act", "raid")

(* apply_content_action: a warn or a deletion asks Discord for no sanction. *)
ContentAction(t, g, u) ==
  \/ Sanction(t, "content", g, u, "warn", "log", "content")
  \/ \E a \in {"timeout", "jail"} : Sanction(t, "content", g, u, a, "act", "content")

(***************************************************************************)
(* jail_cmd and unjail_cmd; the jailings of the flood and link filters, by *)
(* hand; the releases by hand and by the sweep.  None writes a case.       *)
(***************************************************************************)
SilentAction(t, g, u) ==
  \E a \in {"jail", "unjail"} : Sanction(t, "silent", g, u, a, "act", "silent")

(* set_escalation. *)
SetEscalation(g, p) ==
  /\ Stimulus("policy")
  /\ policy' = [policy EXCEPT ![g] = p]
  /\ UNCHANGED <<seq, cases, tasks, now, acted, uncased, judged, faults,
                 storeFaults>>

Crash ==
  /\ Stimulus("crash")
  /\ tasks' = [t \in Workers |-> Idle]
  /\ UNCHANGED <<seq, cases, policy, now, acted, uncased, judged, faults,
                 storeFaults>>

Tick ==
  /\ now < MaxTime
  /\ now' = now + 1
  /\ UNCHANGED <<seq, cases, policy, tasks, acted, uncased, judged, stimuli,
                 faults, storeFaults>>

-----------------------------------------------------------------------------
(* The steps of a handler. *)

(* Discord answers: only the content filters write a case after a failure. *)
AfterFailure_Logs(task) == [task EXCEPT !.pc = "log"]
AfterFailure(task) ==
  IF task.source = "content" THEN [task EXCEPT !.pc = "log"] ELSE Idle

AfterSanction_NotTheGate(task) ==
  IF task.source \in {"silent", "raid"} THEN Idle ELSE [task EXCEPT !.pc = "log"]
AfterSanction(task) ==
  IF task.source = "silent" THEN Idle ELSE [task EXCEPT !.pc = "log"]

OneMore(tally, task) ==
  [tally EXCEPT ![task.guild][task.user][task.action] = @ + 1]

Act(t) ==
  LET task == tasks[t] IN
  /\ task.pc = "act"
  /\ \/ /\ Goto(t, AfterSanction(task))
        /\ acted' = IF task.source \in {"content", "silent"} THEN acted
                    ELSE OneMore(acted, task)
        /\ uncased' = IF task.source = "silent" THEN OneMore(uncased, task)
                      ELSE uncased
        /\ UNCHANGED faults
     \/ /\ faults > 0
        /\ faults' = faults - 1
        /\ Goto(t, AfterFailure(task))
        /\ UNCHANGED <<acted, uncased>>
  /\ UNCHANGED <<seq, cases, policy, now, judged, stimuli, storeFaults>>

(* do_ban, do_kick and do_timeout stamp the case when they write it. *)
Created(task) ==
  IF task.source \in {"mod", "escalation"} /\ task.action # "jail" THEN now ELSE task.at

LogCase(t) ==
  LET task == tasks[t] IN
  /\ task.pc = "log"
  /\ \/ AddCase(task.guild, [user |-> task.user, action |-> task.action,
                             source |-> task.source, created |-> Created(task)])
     \/ AddCaseFails
  /\ Ends(t)
  /\ UNCHANGED <<policy, now, acted, uncased, judged, stimuli, faults>>

(* warn_cmd, once the case is posted: load the policy, count, escalate. *)
Count(t) ==
  LET task == tasks[t]
      p    == policy[task.guild]
      esc  == WarnEscalates(p, task.guild, task.user, task.id, task.at)
  IN
  /\ task.pc = "count"
  /\ judged' = [judged EXCEPT ![task.guild] =
                  @ \cup {[id |-> task.id, escalated |-> esc, policy |-> p]}]
  /\ Goto(t, IF esc THEN [task EXCEPT !.pc = "act", !.action = p.action,
                                      !.source = "escalation"]
             ELSE Idle)
  /\ UNCHANGED <<seq, cases, policy, now, acted, uncased, stimuli, faults,
                 storeFaults>>

-----------------------------------------------------------------------------

TaskStep(t) == Act(t) \/ LogCase(t) \/ Count(t)

Handle(t, g, u) ==
  \/ Warn(t, g, u) \/ ModCommand(t, g, u) \/ GateJoin(t, g, u)
  \/ ContentAction(t, g, u) \/ SilentAction(t, g, u)

Next ==
  \/ \E t \in Workers : TaskStep(t)
  \/ \E t \in Workers, g \in Guilds, u \in Users : Handle(t, g, u)
  \/ \E g \in Guilds, u \in Users : Note(g, u)
  \/ \E g \in Guilds, p \in Policies : SetEscalation(g, p)
  \/ Crash
  \/ Tick

Spec == Init /\ [][Next]_vars

-----------------------------------------------------------------------------
(* Properties. *)

(* Every variable has its type; a guild's rows are numbered 1 to its seq.  *)
TypeOK ==
  /\ seq \in [Guilds -> Nat]
  /\ \A g \in Guilds : DOMAIN cases[g] = 1 .. seq[g]
  /\ cases \in [Guilds -> Seq(Case)]
  /\ judged \in [Guilds -> SUBSET Verdict]
  /\ policy \in [Guilds -> Policies]
  /\ tasks \in [Workers -> TaskState]
  /\ now \in Nat
  /\ acted \in Tally /\ uncased \in Tally
  /\ stimuli \in Nat /\ faults \in Nat /\ storeFaults \in Nat

(***************************************************************************)
(* Refinement: whatever handlers, failures and restarts interleave, the    *)
(* cases of a guild are an append-only log: add_case never skips, reuses   *)
(* or overwrites a number, and one guild's numbers never touch another's.  *)
(***************************************************************************)
CL == INSTANCE CaseLog WITH log <- cases
LogSpec == CL!Spec

(***************************************************************************)
(* Cases of a sanction that was asked of Discord, and tasks on their way   *)
(* to write one.                                                           *)
(***************************************************************************)
Recorded(g, u, a) ==
  Cardinality({i \in DOMAIN cases[g] : /\ cases[g][i].user = u
                                       /\ cases[g][i].action = a
                                       /\ cases[g][i].source # "content"})

Pending(g, u, a) ==
  Cardinality({t \in Workers : /\ tasks[t].pc = "log"
                               /\ tasks[t].guild = g /\ tasks[t].user = u
                               /\ tasks[t].action = a
                               /\ tasks[t].source # "content"})

(* Of the sanctions that paths which write a case had carried out, those   *)
(* without one; and of all sanctions.                                      *)
Owed(g, u, a) == acted[g][u][a] - Recorded(g, u, a) - Pending(g, u, a)
Unrecorded(g, u, a) == Owed(g, u, a) + uncased[g][u][a]

(***************************************************************************)
(* The raid gate, the moderation commands and the escalation never write a *)
(* case of a sanction that Discord did not carry out.                      *)
(***************************************************************************)
NoPhantomCase ==
  \A g \in Guilds, u \in Users, a \in Sanctions :
    Recorded(g, u, a) + Pending(g, u, a) <= acted[g][u][a]

(***************************************************************************)
(* A step leaves a sanction without its case only if it is a restart, a    *)
(* failed write of the store or the sanction of a path that writes none.   *)
(***************************************************************************)
AuditTrail ==
  [][storeFaults' = storeFaults /\ ~Crash /\ uncased' = uncased =>
       \A g \in Guilds, u \in Users, a \in Sanctions :
         Unrecorded(g, u, a)' = Unrecorded(g, u, a)]_vars

(* The user's warns up to and including id, that count when it is issued.  *)
WarnsUpTo(g, id, p) ==
  {i \in DOMAIN cases[g] : /\ i <= id
                           /\ cases[g][i].user = cases[g][id].user
                           /\ cases[g][i].action = "warn"
                           /\ InWindow(p, cases[g][id].created, cases[g][i].created)}

ReachedBy(g, id, p) ==
  p.threshold # 0 /\ Cardinality(WarnsUpTo(g, id, p)) >= p.threshold

FitsTheList(g, u) == Cardinality(CasesOf(g, u)) <= ListLimit

(***************************************************************************)
(* A warn that is the threshold-th of its window escalates, however many   *)
(* warns of that user other handlers are issuing: each writes its case     *)
(* before it counts.  Only for a user with more cases than /warn lists may *)
(* a warn go uncounted.                                                    *)
(***************************************************************************)
NoMissedEscalation ==
  \A g \in Guilds : \A v \in judged[g] :
    /\ FitsTheList(g, cases[g][v.id].user)
    /\ ReachedBy(g, v.id, v.policy)
    => v.escalated

=============================================================================
