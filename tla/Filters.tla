------------------------------- MODULE Filters -------------------------------
(***************************************************************************)
(* The message filters behind the flood filter, of one guild: content      *)
(* automod, AI moderation with its daily budget, and the link filter, with *)
(* the strikes they share (bot/src/handler.rs, bot/src/store.rs,           *)
(* core/src/automod.rs, core/src/ai_mod.rs, core/src/link_filter.rs).      *)
(*                                                                         *)
(* A message goes through the filters in a task of its own until one acts  *)
(* on it.  The task is cut at every store transaction, at the lock of the  *)
(* duplicate tracker and at the call of the classifier.  What a filter     *)
(* finds in a text is a trait of the message; exempt messages meet no      *)
(* filter and are left out.  The deletion of the message changes nothing   *)
(* here, and what follows a content strike (timeout, jail, case) is an     *)
(* operation of Jail and of Cases.                                         *)
(***************************************************************************)
EXTENDS Integers, Sequences, FiniteSets, Strikes

CONSTANTS
  Users,
  Messages,     \* what a user may post: see Trait
  Workers,      \* tasks that run message handlers
  Inputs,       \* settings an admin enters, of the three filters
  FloodDecays,  \* decay settings of the flood filter, whose strikes count too
  OtherWindows, \* duplicate windows of other guilds, which share the tracker
  DayLength,    \* ticks of a day
  Ops,          \* the stimuli this environment gives, by name
  MaxTime, MaxStimuli, MaxFaults         \* bounds

(* It breaks a rule of automod; its text (0 is blank); its length; the     *)
(* classifier is sure to flag it; it carries a link or invite that is not  *)
(* allowed.                                                                *)
Trait == [rule : BOOLEAN, text : Nat, chars : Nat, flagged : BOOLEAN, link : BOOLEAN]

(* strikes: the action is any but "warn".  A cap on the calls of a day.    *)
AutomodSettings == [enabled : BOOLEAN, strikes : BOOLEAN, duplicates : Nat, window : Nat]
AiSettings      == [enabled : BOOLEAN, strikes : BOOLEAN, cap : Nat, minChars : Nat]
LinkSettings    == [enabled : BOOLEAN, threshold : Nat \ {0}, decay : Nat]

Settings == [automod : AutomodSettings, ai : AiSettings, link : LinkSettings]

ASSUME InputAssumption ==
  /\ Users # {} /\ Messages # {} /\ Messages \subseteq Trait
  /\ Inputs \subseteq Settings
  /\ FloodDecays \subseteq Nat /\ OtherWindows \subseteq Nat

ASSUME NumberAssumption ==
  /\ {MaxTime, MaxStimuli, MaxFaults} \subseteq Nat
  /\ DayLength \in Nat \ {0}

VARIABLES
  cfg,       \* the config blobs of the three filters
  recent,    \* DuplicateTracker: what it remembers of each user
  strikes,   \* the strike row of each user
  usage,     \* the row ai_usage:{guild}: a day and its number of calls
  tasks,     \* the state of every task
  now,       \* the clock
  posted,    \* history: how many messages there were
  seen,      \* history: what the tracker saw of each user since it forgot them
  struck,    \* history: every strike of each user since the last reset
  settled,   \* history: messages whose jail was asked for, or cut off by a restart
  calls,     \* history: the calls reserved on each day
  late,      \* history: days whose calls a handler of an older day wiped out
  stimuli,   \* stimuli left
  faults     \* failures of the store or the classifier left

vars == <<cfg, recent, strikes, usage, tasks, now, posted, seen,
          struck, settled, calls, late, stimuli, faults>>

Days == 0 .. MaxTime
Today == now \div DayLength

(***************************************************************************)
(* A task carries its message and its number; of the settings a filter     *)
(* loaded, what it uses after its next await; the day it read.             *)
(***************************************************************************)
PCs == {"idle", "automod", "duplicate", "ai", "reserve", "classify", "strike",
        "link", "linkStrike", "jail"}

Task == [pc : PCs, id : Nat, user : Users, m : Messages, strikes : BOOLEAN,
         duplicates : Nat, window : Nat, day : Nat, cap : Nat, threshold : Nat, decay : Nat]

Idle == [pc |-> "idle", id |-> 0, user |-> CHOOSE u \in Users : TRUE,
         m |-> CHOOSE m \in Messages : TRUE, strikes |-> FALSE, duplicates |-> 0,
         window |-> 0, day |-> 0, cap |-> 0, threshold |-> 0, decay |-> 0]

(* A strike that counted towards a threshold names it; the others have 0.  *)
StrikeEvent == [id : Nat, at : Nat, decay : Nat, threshold : Nat]
TextEvent == [text : Nat, at : Nat]

Init ==
  /\ cfg \in Inputs
  /\ recent = [u \in Users |-> <<>>]
  /\ strikes = [u \in Users |-> NoStrikes]
  /\ usage = [day |-> 0, count |-> 0]
  /\ tasks = [t \in Workers |-> Idle]
  /\ now = 0
  /\ posted = 0
  /\ seen = [u \in Users |-> <<>>]
  /\ struck = [u \in Users |-> <<>>]
  /\ settled = {}
  /\ calls = [d \in Days |-> 0]
  /\ late = {}
  /\ stimuli = MaxStimuli
  /\ faults = MaxFaults

-----------------------------------------------------------------------------
(* Scheduling. *)

Free(t) == tasks[t].pc = "idle"

Goto(t, task) == tasks' = [tasks EXCEPT ![t] = task]
Proceed(t, pc) == Goto(t, [tasks[t] EXCEPT !.pc = pc])
Ends(t) == Goto(t, Idle)

(* On to the next filter: what the last one loaded is gone. *)
Passes(t, pc) ==
  Goto(t, [Idle EXCEPT !.pc = pc, !.id = tasks[t].id, !.user = tasks[t].user,
                       !.m = tasks[t].m])

Stimulus(op) == op \in Ops /\ stimuli > 0 /\ stimuli' = stimuli - 1

Fault   == faults > 0 /\ faults' = faults - 1
NoFault == UNCHANGED faults

Post(t, u, m) ==
  /\ Free(t)
  /\ Stimulus("post")
  /\ posted' = posted + 1
  /\ Goto(t, [Idle EXCEPT !.pc = "automod", !.id = posted', !.user = u, !.m = m])
  /\ UNCHANGED <<cfg, recent, strikes, usage, now, seen, struck, settled, calls,
                 late, faults>>

-----------------------------------------------------------------------------
(* The strikes of a user and the history of them. *)

StrikeIn(u, id, decay, threshold) ==
  /\ strikes' = [strikes EXCEPT ![u] = Struck(@, now, decay)]
  /\ struck' = [struck EXCEPT ![u] = Append(@,
       [id |-> id, at |-> now, decay |-> decay, threshold |-> threshold])]

NoStrike == UNCHANGED <<strikes, struck>>

(* The flood filter strikes a user (Flood). *)
FloodStrike(u, decay) ==
  /\ Stimulus("flood")
  /\ StrikeIn(u, 0, decay, 0)
  /\ UNCHANGED <<cfg, recent, usage, tasks, now, posted, seen, settled, calls, late,
                 faults>>

(* /strikes reset. *)
ResetStrikes(u) ==
  /\ Stimulus("reset")
  /\ strikes' = [strikes EXCEPT ![u] = NoStrikes]
  /\ struck' = [struck EXCEPT ![u] = <<>>]
  /\ UNCHANGED <<cfg, recent, usage, tasks, now, posted, seen, settled, calls, late,
                 faults>>

-----------------------------------------------------------------------------
(* Content automod. *)

Cutoff(width) == IF width > now THEN 0 ELSE now - width

(* record_and_check: old messages are popped at the front of the deque. *)
Pruned_Strict(events, width) == SelectSeq(events, LAMBDA e : e.at > Cutoff(width))
Pruned(events, width) ==
  LET old == {i \in DOMAIN events : \A j \in 1 .. i : events[j].at < Cutoff(width)}
  IN SubSeq(events, Cardinality(old) + 1, Len(events))

(* Past a size that the users of all guilds reach together, it drops those  *)
(* whose last message is too old for the window at hand, whose ever it is. *)
Swept(width) ==
  [v \in Users |->
     IF recent[v] # <<>> /\ recent[v][Len(recent[v])].at < Cutoff(width)
     THEN <<>> ELSE recent[v]]

(* A message in another guild finds the tracker past that size. *)
OtherGuild(width) ==
  /\ Stimulus("sweep")
  /\ recent' = Swept(width)
  /\ UNCHANGED <<cfg, strikes, usage, tasks, now, posted, seen, struck, settled, calls,
                 late, faults>>

Blank(m) == m.text = 0

Copies(events, text) == Cardinality({i \in DOMAIN events : events[i].text = text})

(* A message broke a rule or repeats others: it is struck unless the       *)
(* action is to warn, and no other filter sees it.                         *)
ActOn(t, task) ==
  IF task.strikes THEN Goto(t, [task EXCEPT !.pc = "strike"]) ELSE Ends(t)

Automod(t) ==
  LET task == [tasks[t] EXCEPT !.strikes = cfg.automod.strikes,
                               !.duplicates = cfg.automod.duplicates,
                               !.window = cfg.automod.window] IN
  /\ tasks[t].pc = "automod"
  /\ \/ /\ cfg.automod.enabled /\ task.m.rule
        /\ ActOn(t, task)
     \/ /\ cfg.automod.enabled /\ ~task.m.rule /\ cfg.automod.duplicates >= 2
        /\ Goto(t, [task EXCEPT !.pc = "duplicate"])
     \/ /\ ~cfg.automod.enabled \/ (~task.m.rule /\ cfg.automod.duplicates < 2)
        /\ Passes(t, "ai")
  /\ UNCHANGED <<cfg, recent, strikes, usage, now, posted, seen, struck, settled,
                 calls, late, stimuli, faults>>

BlankText(t) ==
  /\ tasks[t].pc = "duplicate"
  /\ Blank(tasks[t].m)
  /\ Passes(t, "ai")
  /\ UNCHANGED <<cfg, recent, strikes, usage, now, posted, seen, struck, settled, calls,
                 late, stimuli, faults>>

(* memory is what the tracker holds, swept or not. *)
Duplicate(t, memory) ==
  LET task == tasks[t]  u == task.user
      event == [text |-> task.m.text, at |-> now]
      events == Append(Pruned(memory[u], task.window), event) IN
  /\ task.pc = "duplicate"
  /\ ~Blank(task.m)
  /\ memory \in {recent, Swept(task.window)}
  /\ \/ /\ Copies(events, task.m.text) < task.duplicates
        /\ recent' = [memory EXCEPT ![u] = events]
        /\ seen' = [seen EXCEPT ![u] = Append(@, event)]
        /\ Passes(t, "ai")
     \/ /\ Copies(events, task.m.text) >= task.duplicates
        /\ recent' = [memory EXCEPT ![u] = <<>>]
        /\ seen' = [seen EXCEPT ![u] = <<>>]
        /\ ActOn(t, task)
  /\ UNCHANGED <<cfg, strikes, usage, now, posted, struck, settled, calls, late,
                 stimuli, faults>>

(* apply_content_action, of automod and of AI moderation: decay 0. *)
ContentStrike(t) ==
  /\ tasks[t].pc = "strike"
  /\ \/ StrikeIn(tasks[t].user, tasks[t].id, 0, 0) /\ NoFault
     \/ NoStrike /\ Fault
  /\ Ends(t)
  /\ UNCHANGED <<cfg, recent, usage, now, posted, seen, settled, calls, late, stimuli>>

-----------------------------------------------------------------------------
(* AI moderation. *)

(* should_classify: too short a message is not worth a call. *)
ShouldClassify(m) == m.chars >= 1 /\ m.chars >= cfg.ai.minChars

Ai(t) ==
  /\ tasks[t].pc = "ai"
  /\ IF cfg.ai.enabled /\ ShouldClassify(tasks[t].m)
     THEN Goto(t, [tasks[t] EXCEPT !.pc = "reserve", !.strikes = cfg.ai.strikes,
                                   !.cap = cfg.ai.cap, !.day = Today])
     ELSE Passes(t, "link")
  /\ UNCHANGED <<cfg, recent, strikes, usage, now, posted, seen, struck, settled,
                 calls, late, stimuli, faults>>

Used(day) == IF usage.day = day THEN usage.count ELSE 0

UnderCap_Over(used, cap) == used <= cap
UnderCap(used, cap) == used < cap

(* try_incr_ai_calls_today; a failure of the store skips the call. *)
Reserve(t) ==
  LET day == tasks[t].day IN
  /\ tasks[t].pc = "reserve"
  /\ \/ /\ UnderCap(Used(day), tasks[t].cap)
        /\ usage' = [day |-> day, count |-> Used(day) + 1]
        /\ calls' = [calls EXCEPT ![day] = @ + 1]
        /\ late' = IF day < usage.day THEN late \cup (day .. usage.day) ELSE late
        /\ Proceed(t, "classify")
        /\ NoFault
     \/ /\ ~UnderCap(Used(day), tasks[t].cap) /\ NoFault
        /\ Passes(t, "link")
        /\ UNCHANGED <<usage, calls, late>>
     \/ /\ Fault
        /\ Passes(t, "link")
        /\ UNCHANGED <<usage, calls, late>>
  /\ UNCHANGED <<cfg, recent, strikes, now, posted, seen, struck, settled, stimuli>>

(* A classifier that does not answer lets the message pass, and the call   *)
(* stays on the budget.                                                    *)
Classify(t) ==
  /\ tasks[t].pc = "classify"
  /\ \/ tasks[t].m.flagged /\ ActOn(t, tasks[t]) /\ NoFault
     \/ ~tasks[t].m.flagged /\ Passes(t, "link") /\ NoFault
     \/ Passes(t, "link") /\ Fault
  /\ UNCHANGED <<cfg, recent, strikes, usage, now, posted, seen, struck, settled,
                 calls, late, stimuli>>

-----------------------------------------------------------------------------
(* The link filter. *)

Link(t) ==
  /\ tasks[t].pc = "link"
  /\ IF cfg.link.enabled /\ tasks[t].m.link
     THEN Goto(t, [tasks[t] EXCEPT !.pc = "linkStrike", !.threshold = cfg.link.threshold,
                                   !.decay = cfg.link.decay])
     ELSE Ends(t)
  /\ UNCHANGED <<cfg, recent, strikes, usage, now, posted, seen, struck, settled,
                 calls, late, stimuli, faults>>

Reached_Next(count, threshold) == count > threshold
Reached(count, threshold) == count >= threshold

(* A strike the store does not take counts as none. *)
LinkStrike(t) ==
  LET task == tasks[t] IN
  /\ task.pc = "linkStrike"
  /\ \/ /\ StrikeIn(task.user, task.id, task.decay, task.threshold) /\ NoFault
        /\ IF Reached(strikes'[task.user].count, task.threshold)
           THEN Proceed(t, "jail") ELSE Ends(t)
     \/ NoStrike /\ Fault /\ Ends(t)
  /\ UNCHANGED <<cfg, recent, usage, now, posted, seen, settled, calls, late, stimuli>>

(* try_jail, an operation of Jail, or else the filter's own jail role. *)
AskJail(t) ==
  /\ tasks[t].pc = "jail"
  /\ settled' = settled \cup {tasks[t].id}
  /\ Ends(t)
  /\ UNCHANGED <<cfg, recent, strikes, usage, now, posted, seen, struck, calls, late,
                 stimuli, faults>>

-----------------------------------------------------------------------------
(* Admins, restarts, time. *)

Configure(settings) ==
  /\ Stimulus("set")
  /\ cfg' = settings
  /\ UNCHANGED <<recent, strikes, usage, tasks, now, posted, seen, struck, settled, calls,
                 late, faults>>

InFlight == {tasks[t].id : t \in {w \in Workers : tasks[w].pc = "jail"}}

(* The tracker is only in memory, strikes and usage are not. *)
Crash ==
  /\ Stimulus("crash")
  /\ tasks' = [t \in Workers |-> Idle]
  /\ recent' = [u \in Users |-> <<>>]
  /\ seen' = [u \in Users |-> <<>>]
  /\ settled' = settled \cup InFlight
  /\ UNCHANGED <<cfg, strikes, usage, now, posted, struck, calls, late, faults>>

Tick ==
  /\ now < MaxTime
  /\ now' = now + 1
  /\ UNCHANGED <<cfg, recent, strikes, usage, tasks, posted, seen, struck, settled,
                 calls, late, stimuli, faults>>

TaskStep(t) ==
  \/ Automod(t) \/ BlankText(t) \/ ContentStrike(t)
  \/ \E memory \in {recent, Swept(tasks[t].window)} : Duplicate(t, memory)
  \/ Ai(t) \/ Reserve(t) \/ Classify(t)
  \/ Link(t) \/ LinkStrike(t) \/ AskJail(t)

Next ==
  \/ \E t \in Workers : TaskStep(t)
  \/ \E t \in Workers, u \in Users, m \in Messages : Post(t, u, m)
  \/ \E u \in Users, d \in FloodDecays : FloodStrike(u, d)
  \/ \E u \in Users : ResetStrikes(u)
  \/ \E w \in OtherWindows : OtherGuild(w)
  \/ \E settings \in Inputs : Configure(settings)
  \/ Crash
  \/ Tick

Spec == Init /\ [][Next]_vars

-----------------------------------------------------------------------------
(* Properties. *)

(***************************************************************************)
(* Every variable has its type, and nothing is dated later than now: not   *)
(* the day of the usage row, nor the last strike of a user.                *)
(***************************************************************************)
TypeOK ==
  /\ cfg \in Inputs
  /\ recent \in [Users -> Seq([text : Nat \ {0}, at : 0 .. now])]
  /\ strikes \in [Users -> [count : Nat, last : 0 .. now]]
  /\ usage \in [day : 0 .. Today, count : Nat]
  /\ tasks \in [Workers -> Task]
  /\ \A t \in Workers : tasks[t].day <= Today
  /\ now \in 0 .. MaxTime
  /\ posted \in Nat
  /\ seen \in [Users -> Seq(TextEvent)]
  /\ struck \in [Users -> Seq(StrikeEvent)]
  /\ settled \subseteq Nat
  /\ calls \in [Days -> Nat]
  /\ late \subseteq Nat
  /\ stimuli \in Nat /\ faults \in Nat

(***************************************************************************)
(* The link strike that completes the threshold of an unbroken streak      *)
(* sends the user to jail: no strike of a concurrent handler, of another   *)
(* filter or from before a restart is lost from the count, and a streak is *)
(* not taken for lapsed too early.  A strike breaks the streak if it comes *)
(* more than its decay after the one before.                               *)
(***************************************************************************)
Breaks(history, k) ==
  history[k].decay # 0 /\ history[k].at - history[k - 1].at > history[k].decay

Completes(history, i) ==
  /\ history[i].threshold \in 1 .. i
  /\ \A k \in (i - history[i].threshold + 2) .. i : ~Breaks(history, k)

NoMissedJail ==
  \A u \in Users : \A i \in DOMAIN struck[u] :
    Completes(struck[u], i) => struck[u][i].id \in settled \cup InFlight

(***************************************************************************)
(* A text is never let through as often as the duplicate rule allows: what *)
(* the tracker remembers is compared with everything it saw of the user    *)
(* since it last tripped or the bot restarted, in whatever order handlers  *)
(* reached it, and whatever rule was set and whoever was swept in between. *)
(* The repetitions are those within a window that no settings, of this     *)
(* guild or another, are shorter than: what is too old for one of them may *)
(* be forgotten, and a rule with a longer window does not find it again.   *)
(***************************************************************************)
Windows == {s.automod.window : s \in Inputs} \cup OtherWindows

Lasting == {h \in Windows : \A w \in Windows : h <= w}

Repeats(u, text, h) ==
  1 + Cardinality({i \in DOMAIN seen[u] : seen[u][i].text = text /\ seen[u][i].at >= Cutoff(h)})

LetThrough(t) == tasks[t].pc = "duplicate" /\ tasks'[t].pc = "ai" /\ ~Blank(tasks[t].m)

DuplicateIsCaught ==
  [][\A t \in Workers, h \in Lasting :
       LetThrough(t) => Repeats(tasks[t].user, tasks[t].m.text, h) < tasks[t].duplicates]_vars

(***************************************************************************)
(* The daily cap is hard: a call is reserved only while fewer were         *)
(* reserved on its day, concurrent handlers, restarts and failures         *)
(* notwithstanding.  Excepted are the days around a midnight that a        *)
(* handler crossed between reading the day and reserving its call: from    *)
(* the day it read to that of the row it overwrote.                        *)
(***************************************************************************)
CapHolds ==
  [][\A t \in Workers :
       tasks[t].pc = "reserve" /\ tasks'[t].pc = "classify"
         => calls[tasks[t].day] < tasks[t].cap \/ tasks[t].day \in late']_vars

=============================================================================
