-------------------------------- MODULE Flood --------------------------------
(***************************************************************************)
(* The cross-channel flood filter of one guild: the sliding windows and    *)
(* rules (core/src/flood_filter.rs), the deletion of a burst               *)
(* (core/src/bulk_delete.rs), the penalty box that outlives a restart      *)
(* (bot/src/store.rs), and the handler that uses them (bot/src/handler.rs).*)
(*                                                                         *)
(* A message is handled by a task of its own, which is cut at every store  *)
(* transaction and every call of Discord.  The windows are behind a lock:  *)
(* a message is recorded, and judged, in one step.  Messages that are      *)
(* exempt or out of scope change nothing and are left out.                 *)
(***************************************************************************)
EXTENDS Integers, Sequences, FiniteSets, Strikes

CONSTANTS
  Users,
  Channels,
  Texts,           \* texts that count as equal once normalized; Blank for none
  Blank,
  Workers,         \* tasks that run message handlers and commands
  Inputs,          \* settings an admin enters
  BulkMax,         \* BULK_DELETE_MAX
  Ops,             \* the stimuli this environment gives, by name
  MaxTime, MaxStimuli, MaxFaults  \* bounds

(* A threshold below two switches its rule off; decay and cooldown 0 too.  *)
(* Spread looks at channelWindow, the other two rules at messageWindow.    *)
Settings == [enabled : BOOLEAN, channels : Nat, messages : Nat, same : Nat,
             channelWindow : Nat, messageWindow : Nat, cooldown : Nat, decay : Nat]

ASSUME InputAssumption == Users # {} /\ Inputs # {} /\ Inputs \subseteq Settings

ASSUME TextAssumption == Blank \notin Texts

ASSUME NumberAssumption ==
  /\ {MaxTime, MaxStimuli, MaxFaults} \subseteq Nat
  /\ BulkMax \in Nat /\ BulkMax >= 2

VARIABLES
  cfg,       \* the blob flood_filter_config of the guild
  window,    \* FloodTracker: the messages it remembers of each user
  trip,      \* flood_trip:{guild}:{user}: when the user tripped, or Never
  strikes,   \* the strike row of each user
  tasks,     \* the state of every task
  deleted,   \* Discord: the messages that are gone
  now,       \* the clock
  posts,     \* history: every message, a message's number is its place here
  recorded,  \* history: what each user posted since the last trip or restart
  bursts,    \* history: the bursts found since the last restart
  refused,   \* history: messages Discord would not delete one by one
  stimuli,   \* stimuli left
  faults     \* failures of Discord or the store left

vars == <<cfg, window, trip, strikes, tasks, deleted, now, posts, recorded,
          bursts, refused, stimuli, faults>>

Never == -1

Message == [user : Users, channel : Channels, text : Texts \cup {Blank}]
Event   == [id : Nat, at : Nat]

(***************************************************************************)
(* A task carries its message (id) or, for a command, its user; the config *)
(* it loaded; the trip it read (seen); the ids it has yet to delete.       *)
(***************************************************************************)
PCs == {"idle", "load", "box", "boxDelete", "boxRefresh", "boxClear", "record",
        "delete", "strike", "trip", "lift"}

Task == [pc : PCs, id : Nat, user : Users, cfg : Inputs,
         seen : Nat \cup {Never}, plan : SUBSET Nat]

Idle == [pc |-> "idle", id |-> 0, user |-> CHOOSE u \in Users : TRUE,
         cfg |-> CHOOSE s \in Inputs : TRUE, seen |-> Never, plan |-> {}]

Init ==
  /\ cfg \in Inputs
  /\ window = [u \in Users |-> <<>>]
  /\ trip = [u \in Users |-> Never]
  /\ strikes = [u \in Users |-> NoStrikes]
  /\ tasks = [t \in Workers |-> Idle]
  /\ deleted = {}
  /\ now = 0
  /\ posts = <<>>
  /\ recorded = [u \in Users |-> <<>>]
  /\ bursts = {}
  /\ refused = {}
  /\ stimuli = MaxStimuli
  /\ faults = MaxFaults

-----------------------------------------------------------------------------
(* core/src/flood_filter.rs. *)

Cutoff(width) == IF width > now THEN 0 ELSE now - width

Wider(a, b) == IF a > b THEN a ELSE b

Horizon_Channel(s) == s.channelWindow
Horizon(s) == Wider(s.channelWindow, s.messageWindow)

(* The messages of a deque that a rule of this width looks at. *)
Within(events, width) ==
  {i \in DOMAIN events : events[i].at >= Cutoff(width)}

Spread(events, s) ==
  /\ s.channels >= 2
  /\ Cardinality({posts[events[i].id].channel : i \in Within(events, s.channelWindow)})
       >= s.channels

Burst(events, s) ==
  s.messages >= 2 /\ Cardinality(Within(events, s.messageWindow)) >= s.messages

Repeats(events, s, id) ==
  /\ s.same >= 2
  /\ posts[id].text # Blank
  /\ Cardinality({i \in Within(events, s.messageWindow) :
                    posts[events[i].id].text = posts[id].text}) >= s.same

Floods(events, s, id) ==
  Spread(events, s) \/ Burst(events, s) \/ Repeats(events, s, id)

(* The deque with this message, popped at the front while it is too old.   *)
Kept(u, id, s) ==
  LET all == Append(window[u], [id |-> id, at |-> now])
      old == {i \in DOMAIN all : \A j \in 1 .. i : all[j].at < Cutoff(Horizon(s))}
  IN SubSeq(all, Cardinality(old) + 1, Len(all))

AfterTrip_Kept(events) == events
AfterTrip(events) == <<>>

PenaltyActive_Short(at, cooldown) == now >= at /\ now - at < cooldown - 1
PenaltyActive(at, cooldown) == now >= at /\ now - at < cooldown

-----------------------------------------------------------------------------
(* Scheduling and stimuli. *)

Free(t) == tasks[t].pc = "idle"

Goto(t, task) == tasks' = [tasks EXCEPT ![t] = task]
Proceed(t, pc) == Goto(t, [tasks[t] EXCEPT !.pc = pc])
Ends(t) == Goto(t, Idle)

Stimulus(op) == op \in Ops /\ stimuli > 0 /\ stimuli' = stimuli - 1

Faults(n) == faults >= n /\ faults' = faults - n
Fault     == Faults(1)
NoFault   == UNCHANGED faults

(* A user posts, and a task gets the event. *)
Post(t, m) ==
  /\ Free(t)
  /\ Stimulus("post")
  /\ posts' = Append(posts, m)
  /\ Goto(t, [Idle EXCEPT !.pc = "load", !.id = Len(posts'), !.user = m.user])
  /\ UNCHANGED <<cfg, window, trip, strikes, deleted, now, recorded, bursts,
                 refused, faults>>

(* /strikes reset: strikes first, and no box is lifted if that fails. *)
ResetStrikes(t, u) ==
  /\ Free(t)
  /\ Stimulus("reset")
  /\ \/ /\ strikes' = [strikes EXCEPT ![u] = NoStrikes] /\ NoFault
        /\ Goto(t, [Idle EXCEPT !.pc = "lift", !.user = u])
     \/ UNCHANGED <<strikes, tasks>> /\ Fault
  /\ UNCHANGED <<cfg, window, trip, deleted, now, posts, recorded, bursts, refused>>

(* /unjail, once the member is released. *)
Unjailed(t, u) ==
  /\ Free(t)
  /\ Stimulus("unjail")
  /\ Goto(t, [Idle EXCEPT !.pc = "lift", !.user = u])
  /\ UNCHANGED <<cfg, window, trip, strikes, deleted, now, posts, recorded, bursts,
                 refused, faults>>

(* /setflood, /floodlimit, the dashboard. *)
SetFlood(s) ==
  /\ Stimulus("set")
  /\ cfg' = s
  /\ UNCHANGED <<window, trip, strikes, tasks, deleted, now, posts, recorded, bursts,
                 refused, faults>>

(* The windows are only in memory; the trips are not. *)
Crash ==
  /\ Stimulus("crash")
  /\ tasks' = [t \in Workers |-> Idle]
  /\ window' = [u \in Users |-> <<>>]
  /\ recorded' = [u \in Users |-> <<>>]
  /\ bursts' = {}
  /\ UNCHANGED <<cfg, trip, strikes, deleted, now, posts, refused, faults>>

Tick ==
  /\ now < MaxTime
  /\ now' = now + 1
  /\ UNCHANGED <<cfg, window, trip, strikes, tasks, deleted, posts, recorded, bursts,
                 refused, stimuli, faults>>

-----------------------------------------------------------------------------
(* flood_check. *)

Load(t) ==
  /\ tasks[t].pc = "load"
  /\ IF cfg.enabled
     THEN Goto(t, [tasks[t] EXCEPT !.pc = IF cfg.cooldown > 0 THEN "box" ELSE "record",
                                   !.cfg = cfg])
     ELSE Ends(t)
  /\ UNCHANGED <<cfg, window, trip, strikes, deleted, now, posts, recorded, bursts,
                 refused, stimuli, faults>>

ReadBox(t) ==
  LET at == trip[tasks[t].user] IN
  /\ tasks[t].pc = "box"
  /\ Goto(t, [tasks[t] EXCEPT
       !.pc = IF at = Never THEN "record"
              ELSE IF PenaltyActive(at, tasks[t].cfg.cooldown) THEN "boxDelete"
              ELSE "boxClear",
       !.seen = at])
  /\ UNCHANGED <<cfg, window, trip, strikes, deleted, now, posts, recorded, bursts,
                 refused, stimuli, faults>>

BoxDelete(t) ==
  /\ tasks[t].pc = "boxDelete"
  /\ \/ deleted' = deleted \cup {tasks[t].id} /\ NoFault /\ UNCHANGED refused
     \/ refused' = refused \cup {tasks[t].id} /\ Fault /\ UNCHANGED deleted
  /\ Proceed(t, "boxRefresh")
  /\ UNCHANGED <<cfg, window, trip, strikes, now, posts, recorded, bursts, stimuli>>

(* record_flood_trip_in, clear_flood_trip_in: a failure is ignored. *)
WriteTrip_End(u, at) ==
  \/ trip' = [trip EXCEPT ![u] = at + cfg.cooldown] /\ NoFault
  \/ UNCHANGED trip /\ Fault
WriteTrip(u, at) ==
  \/ trip' = [trip EXCEPT ![u] = at] /\ NoFault
  \/ UNCHANGED trip /\ Fault

(* Either the message was boxed or its burst is dealt with: the filter is done. *)
RecordTrip(t) ==
  /\ tasks[t].pc \in {"boxRefresh", "trip"}
  /\ WriteTrip(tasks[t].user, now)
  /\ Ends(t)
  /\ UNCHANGED <<cfg, window, strikes, deleted, now, posts, recorded, bursts, refused,
                 stimuli>>

BoxClear(t) ==
  /\ tasks[t].pc = "boxClear"
  /\ WriteTrip(tasks[t].user, Never)
  /\ Proceed(t, "record")
  /\ UNCHANGED <<cfg, window, strikes, deleted, now, posts, recorded, bursts, refused,
                 stimuli>>

Lift(t) ==
  /\ tasks[t].pc = "lift"
  /\ WriteTrip(tasks[t].user, Never)
  /\ Ends(t)
  /\ UNCHANGED <<cfg, window, strikes, deleted, now, posts, recorded, bursts, refused,
                 stimuli>>

Ids(events) == {events[i].id : i \in DOMAIN events}

(* A message of a burst is recorded, or completes the burst. *)
Record(t) ==
  LET task == tasks[t]  u == task.user  kept == Kept(u, task.id, task.cfg) IN
  /\ task.pc = "record"
  /\ IF Floods(kept, task.cfg, task.id)
     THEN /\ window' = [window EXCEPT ![u] = AfterTrip(kept)]
          /\ recorded' = [recorded EXCEPT ![u] = <<>>]
          /\ bursts' = bursts \cup {Ids(kept)}
          /\ Goto(t, [task EXCEPT !.pc = "delete", !.plan = Ids(kept)])
     ELSE /\ window' = [window EXCEPT ![u] = kept]
          /\ recorded' = [recorded EXCEPT ![u] = Append(@, [id |-> task.id, at |-> now])]
          /\ UNCHANGED bursts
          /\ Ends(t)
  /\ UNCHANGED <<cfg, trip, strikes, deleted, now, posts, refused, stimuli, faults>>

(***************************************************************************)
(* plan_deletions: what is left in a channel goes in calls of BulkMax, a   *)
(* lone message in a single call (which of them share a call is left       *)
(* open).  A refused bulk call is repeated one by one, and those that are  *)
(* refused again stay.                                                     *)
(***************************************************************************)
Batches(plan, c) ==
  LET ids == {id \in plan : posts[id].channel = c}
      size == IF Cardinality(ids) < BulkMax THEN Cardinality(ids) ELSE BulkMax
  IN {batch \in SUBSET ids : batch # {} /\ Cardinality(batch) = size}

(* Lone messages that remain in their channel are forgotten. *)
Rest_NoStragglers(plan, batch) ==
  {id \in plan \ batch : \E other \in plan \ (batch \cup {id}) :
                           posts[other].channel = posts[id].channel}
Rest(plan, batch) == plan \ batch

DeleteBatch(t, batch, stay) ==
  LET task == tasks[t]  rest == Rest(task.plan, batch) IN
  /\ task.pc = "delete"
  /\ \E c \in Channels : batch \in Batches(task.plan, c)
  /\ stay \subseteq batch
  /\ deleted' = deleted \cup (batch \ stay)
  /\ refused' = refused \cup stay
  /\ \/ stay = {} /\ NoFault
     \/ Cardinality(batch) = 1 /\ stay = batch /\ Fault
     \/ Cardinality(batch) > 1 /\ Faults(1 + Cardinality(stay))
  /\ Goto(t, [task EXCEPT !.plan = rest, !.pc = IF rest = {} THEN "strike" ELSE "delete"])
  /\ UNCHANGED <<cfg, window, trip, strikes, now, posts, recorded, bursts, stimuli>>

(* record_link_strike_in; then the trip is persisted, the member jailed. *)
Strike(t) ==
  LET task == tasks[t]  u == task.user IN
  /\ task.pc = "strike"
  /\ \/ strikes' = [strikes EXCEPT ![u] = Struck(@, now, task.cfg.decay)] /\ NoFault
     \/ UNCHANGED strikes /\ Fault
  /\ IF task.cfg.cooldown > 0 THEN Proceed(t, "trip") ELSE Ends(t)
  /\ UNCHANGED <<cfg, window, trip, deleted, now, posts, recorded, bursts, refused,
                 stimuli>>

-----------------------------------------------------------------------------

TaskStep(t) ==
  \/ Load(t) \/ ReadBox(t) \/ BoxDelete(t) \/ RecordTrip(t) \/ BoxClear(t) \/ Lift(t)
  \/ Record(t) \/ Strike(t)
  \/ \E batch \in SUBSET tasks[t].plan : \E stay \in SUBSET batch :
       DeleteBatch(t, batch, stay)

Next ==
  \/ \E t \in Workers : TaskStep(t)
  \/ \E t \in Workers, m \in Message : Post(t, m)
  \/ \E t \in Workers, u \in Users : ResetStrikes(t, u) \/ Unjailed(t, u)
  \/ \E s \in Inputs : SetFlood(s)
  \/ Crash
  \/ Tick

Spec == Init /\ [][Next]_vars

-----------------------------------------------------------------------------
(* Properties. *)

(***************************************************************************)
(* Every variable has its type.  A window holds messages of its own user,  *)
(* and nothing is dated later than now, trips included: a clock of         *)
(* seconds, and a row that holds the time of the trip, not its end.        *)
(***************************************************************************)
TypeOK ==
  /\ cfg \in Inputs
  /\ window \in [Users -> Seq([id : 1 .. Len(posts), at : 0 .. now])]
  /\ \A u \in Users : \A i \in DOMAIN window[u] : posts[window[u][i].id].user = u
  /\ trip \in [Users -> (0 .. now) \cup {Never}]
  /\ strikes \in [Users -> [count : Nat, last : 0 .. now]]
  /\ tasks \in [Workers -> Task]
  /\ deleted \subseteq 1 .. Len(posts)
  /\ refused \subseteq 1 .. Len(posts)
  /\ now \in Nat
  /\ posts \in Seq(Message)
  /\ recorded \in [Users -> Seq(Event)]
  /\ bursts \subseteq SUBSET (1 .. Len(posts))
  /\ stimuli \in Nat /\ faults \in Nat

(***************************************************************************)
(* A message that completes a flood is never let through: not because the  *)
(* handlers of the burst ran concurrently, nor because the deque is pruned *)
(* by one rule's window and counted by the other's, nor because the        *)
(* settings changed.  What the tracker remembers is compared with all that *)
(* the user posted since the last trip or restart; but a handler forgets   *)
(* what is older than the wider window of the settings it loaded, so that  *)
(* only as much counts as all of the settings remember.                    *)
(***************************************************************************)
Windows == {s.channelWindow : s \in Inputs} \cup {s.messageWindow : s \in Inputs}

Lasting ==
  {h \in Windows : \A s \in Inputs : h <= s.channelWindow \/ h <= s.messageWindow}

Shorter(a, b) == IF a < b THEN a ELSE b

UpTo(s, h) == [s EXCEPT !.channelWindow = Shorter(@, h),
                        !.messageWindow = Shorter(@, h)]

LetThrough(t) ==
  /\ tasks[t].pc = "record" /\ tasks'[t] = Idle
  /\ Len(recorded'[tasks[t].user]) > Len(recorded[tasks[t].user])

CompletesFlood(t, h) ==
  Floods(Append(recorded[tasks[t].user], [id |-> tasks[t].id, at |-> now]),
         UpTo(tasks[t].cfg, h), tasks[t].id)

BurstIsCaught ==
  [][\A t \in Workers, h \in Lasting : LetThrough(t) => ~CompletesFlood(t, h)]_vars

(***************************************************************************)
(* A message belongs to one burst at most, so that it costs one flood      *)
(* strike at most: a trip forgets the window it was found in.              *)
(***************************************************************************)
NoBurstTwice ==
  /\ \A b, c \in bursts : b = c \/ b \cap c = {}
  /\ \A b \in bursts, u \in Users : b \cap Ids(window[u]) = {}

(***************************************************************************)
(* Every message of a burst is deleted, is one Discord refused, or is one  *)
(* the handler is still to delete: neither the limit of a bulk call nor    *)
(* its refusal drops one (bulk_delete.rs; handler.rs, "stragglers").       *)
(***************************************************************************)
BurstIsDeleted ==
  \A b \in bursts :
    b \subseteq deleted \cup refused
                  \cup UNION {tasks[t].plan : t \in Workers}

(***************************************************************************)
(* A user leaves the penalty box early only if a moderator lets them out,  *)
(* or if the trip a handler read of them was over by the cooldown that it  *)
(* loaded: restarts and concurrent messages do not, and an edit of the     *)
(* settings only in that it shortens the cooldown.                         *)
(***************************************************************************)
Lifts(t, u) == tasks[t].pc = "lift" /\ tasks[t].user = u /\ tasks'[t] = Idle

SawItOver(t, u) ==
  /\ tasks[t].pc = "boxClear" /\ tasks[t].user = u /\ tasks'[t].pc = "record"
  /\ tasks[t].seen + tasks[t].cfg.cooldown <= now

BoxHolds ==
  [][\A u \in Users : trip[u] # Never /\ trip'[u] = Never
       => \E t \in Workers : Lifts(t, u) \/ SawItOver(t, u)]_vars

=============================================================================
