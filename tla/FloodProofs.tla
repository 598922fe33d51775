----------------------------- MODULE FloodProofs -----------------------------
(***************************************************************************)
(* For every number of users, channels, handlers and messages, and every   *)
(* way the handlers, failures and restarts interleave: no message belongs  *)
(* to two bursts, every message of a burst is deleted or refused, and the  *)
(* penalty box opens only for a moderator or when it is over.  And no      *)
(* message that completes a flood is let through.                          *)
(***************************************************************************)
EXTENDS Flood, FiniteSetTheorems, SequenceTheorems, TLAPS

(* A task that is not done with its message before Record.                 *)
Unrecorded == {"load", "box", "boxClear", "record"}
Posting    == Unrecorded \cup {"boxDelete", "boxRefresh"}

(***************************************************************************)
(* A message handler carries a message of its user; only a handler that    *)
(* deletes has a plan; and one that clears the box has read a trip that is *)
(* over.  Said of the messages in ps, at the time n.                       *)
(***************************************************************************)
Carries(task, ps, n) ==
  /\ task.pc \in Posting => /\ task.id \in 1 .. Len(ps)
                            /\ ps[task.id].user = task.user
  /\ task.plan \subseteq 1 .. Len(ps)
  /\ task.plan # {} => task.pc = "delete"
  /\ task.pc = "boxClear" => task.seen + task.cfg.cooldown <= n

FloodTyped == TypeOK /\ \A t \in Workers : Carries(tasks[t], posts, now)

Remembered == Seq([id : 1 .. Len(posts), at : 0 .. now])

-----------------------------------------------------------------------------

(* The task of a handler that is done.                                     *)
LEMMA IdleType == Idle \in Task /\ Idle.pc = "idle" /\ Idle.plan = {}
BY InputAssumption DEF Idle, Task, PCs, Never

(***************************************************************************)
(* What the tracker keeps of a user: messages it had of that user, and the *)
(* new one.                                                                *)
(***************************************************************************)
LEMMA KeptType ==
  ASSUME TypeOK, NEW u \in Users, NEW id \in 1 .. Len(posts), posts[id].user = u, NEW s
  PROVE  /\ Kept(u, id, s) \in Remembered
         /\ \A i \in DOMAIN Kept(u, id, s) : posts[Kept(u, id, s)[i].id].user = u
         /\ Ids(Kept(u, id, s)) \subseteq Ids(window[u]) \cup {id}
<1> DEFINE S == [id : 1 .. Len(posts), at : 0 .. now]
           e == [id |-> id, at |-> now]
           all == Append(window[u], e)
           old == {i \in DOMAIN all : \A j \in 1 .. i : all[j].at < Cutoff(Horizon(s))}
           k == Cardinality(old) + 1
<1>0. now \in Nat /\ window[u] \in Seq(S)
  BY DEF TypeOK
<1>1. e \in S
  BY <1>0
<1>2. /\ all \in Seq(S)
      /\ Len(all) = Len(window[u]) + 1
      /\ \A i \in 1 .. Len(window[u]) : all[i] = window[u][i]
      /\ all[Len(window[u]) + 1] = e
  BY <1>0, <1>1, AppendProperties
<1>3. Len(window[u]) \in Nat /\ DOMAIN window[u] = 1 .. Len(window[u])
  BY <1>0
<1>4. Len(all) \in Nat /\ DOMAIN all = 1 .. Len(all)
  BY <1>2
<1>5. k \in Nat /\ k >= 1
  <2>1. IsFiniteSet(1 .. Len(all))
    BY <1>4, FS_Interval
  <2>2. old \subseteq 1 .. Len(all)
    BY <1>4
  <2>3. Cardinality(old) \in Nat
    BY <2>1, <2>2, FS_Subset, FS_CardinalityType
  <2> HIDE DEF old
  <2>4. QED
    BY <2>3
<1>6. Kept(u, id, s) = SubSeq(all, k, Len(all))
  BY DEF Kept
<1>7. \A i \in 1 .. Len(all) :
        /\ all[i] \in S
        /\ posts[all[i].id].user = u
        /\ all[i].id \in Ids(window[u]) \cup {id}
  <2>1. ASSUME NEW i \in 1 .. Len(window[u])
        PROVE  /\ all[i] \in S
               /\ posts[all[i].id].user = u
               /\ all[i].id \in Ids(window[u]) \cup {id}
    <3>1. window[u][i] \in S
      BY <1>0, ElementOfSeq
    <3> HIDE DEF all, S, e
    <3>0. all[i] = window[u][i]
      BY <1>2
    <3>2. posts[window[u][i].id].user = u
      BY <1>3 DEF TypeOK
    <3>3. window[u][i].id \in Ids(window[u])
      BY <1>3 DEF Ids
    <3>4. QED
      BY <3>0, <3>1, <3>2, <3>3
  <2>2. /\ e.id = id
        /\ all[Len(window[u]) + 1] = e
    BY <1>2
  <2> HIDE DEF e, all, S
  <2>3. QED
    BY <1>1, <1>2, <1>3, <2>1, <2>2
<1> HIDE DEF all, k, S, e
<1>8. \A i \in k .. Len(all) : all[i] \in S
  BY <1>4, <1>5, <1>7
<1>9. /\ SubSeq(all, k, Len(all)) \in Seq(S)
      /\ \A i \in 1 .. Len(all) - k + 1 : SubSeq(all, k, Len(all))[i] = all[k + i - 1]
      /\ Len(SubSeq(all, k, Len(all))) = IF k <= Len(all) THEN Len(all) - k + 1 ELSE 0
  BY <1>4, <1>5, <1>8, SubSeqProperties
<1> DEFINE kept == SubSeq(all, k, Len(all))
<1>10. \A i \in DOMAIN kept : \E j \in 1 .. Len(all) : kept[i] = all[j]
  <2> SUFFICES ASSUME NEW i \in DOMAIN kept PROVE \E j \in 1 .. Len(all) : kept[i] = all[j]
    OBVIOUS
  <2>1. i \in 1 .. Len(kept)
    BY <1>9
  <2>2. k <= Len(all) /\ i \in 1 .. Len(all) - k + 1
    BY <1>4, <1>5, <1>9, <2>1
  <2>3. kept[i] = all[k + i - 1] /\ k + i - 1 \in 1 .. Len(all)
    BY <1>4, <1>5, <1>9, <2>2
  <2>4. QED
    BY <2>3
<1>11. \A i \in DOMAIN kept : /\ posts[kept[i].id].user = u
                              /\ kept[i].id \in Ids(window[u]) \cup {id}
  BY <1>7, <1>10
<1>12. kept = Kept(u, id, s) /\ kept \in Seq(S)
  BY <1>6, <1>9
<1> HIDE DEF kept
<1>13. QED
  BY <1>11, <1>12 DEF Ids, Remembered, S

(* The ids of what is remembered are ids of messages.                      *)
LEMMA IdsType ==
  ASSUME NEW events \in Remembered
  PROVE  Ids(events) \subseteq 1 .. Len(posts)
<1> SUFFICES ASSUME NEW i \in DOMAIN events PROVE events[i].id \in 1 .. Len(posts)
  BY DEF Ids
<1>1. events[i] \in [id : 1 .. Len(posts), at : 0 .. now]
  BY ElementOfSeq, LenProperties DEF Remembered
<1>2. QED
  BY <1>1

-----------------------------------------------------------------------------
(* Type correctness. *)

(* Time goes on, and the messages that were there stay. *)
GoesOn ==
  /\ now' \in Nat /\ now <= now'
  /\ \A id \in 1 .. Len(posts) : id \in 1 .. Len(posts') /\ posts'[id] = posts[id]

(* Most steps let neither time pass nor a message come.                    *)
LEMMA StandsStill == ASSUME TypeOK, UNCHANGED <<now, posts>> PROVE GoesOn
BY DEF TypeOK, GoesOn

(* What a task carries stays right.                                        *)
LEMMA CarriesOn ==
  ASSUME TypeOK, GoesOn
  PROVE  \A task \in Task : Carries(task, posts, now) => Carries(task, posts', now')
<1> SUFFICES ASSUME NEW task \in Task, Carries(task, posts, now)
             PROVE  Carries(task, posts', now')
  OBVIOUS
<1>1. task.plan \subseteq 1 .. Len(posts')
  BY DEF Carries, GoesOn
<1>2. task.pc = "boxClear" => task.seen + task.cfg.cooldown <= now'
  <2> SUFFICES ASSUME task.pc = "boxClear" PROVE task.seen + task.cfg.cooldown <= now'
    OBVIOUS
  <2>1. task.seen \in Nat \cup {Never} /\ task.cfg \in Settings
    BY InputAssumption DEF Task
  <2>2. task.seen \in Int /\ task.cfg.cooldown \in Nat /\ now \in Nat
    BY <2>1 DEF Settings, Never, TypeOK
  <2>3. QED
    BY <2>2 DEF Carries, GoesOn
<1>3. QED
  BY <1>1, <1>2 DEF Carries, GoesOn

(* A task that moves on, among tasks that carry on.                        *)
LEMMA TaskMoves ==
  ASSUME FloodTyped, GoesOn,
         NEW t \in Workers, NEW task \in Task, Carries(task, posts', now'), Goto(t, task)
  PROVE  /\ tasks' \in [Workers -> Task]
         /\ \A w \in Workers : Carries(tasks'[w], posts', now')
<1>1. tasks \in [Workers -> Task] /\ tasks' = [tasks EXCEPT ![t] = task]
  BY DEF FloodTyped, TypeOK, Goto
<1>2. \A w \in Workers : Carries(tasks[w], posts', now')
  BY <1>1, CarriesOn DEF FloodTyped
<1>3. QED
  BY <1>1, <1>2

(* A task that ends carries nothing.                                       *)
LEMMA TaskEnds ==
  ASSUME FloodTyped, GoesOn, NEW t \in Workers, Ends(t)
  PROVE  /\ tasks' \in [Workers -> Task]
         /\ \A w \in Workers : Carries(tasks'[w], posts', now')
<1>1. Carries(Idle, posts', now')
  BY IdleType DEF Carries, Posting, Unrecorded
<1>2. QED
  BY <1>1, IdleType, TaskMoves DEF Ends

(* What is remembered of the messages, as time goes on.                    *)
LEMMA RemembersOn ==
  ASSUME FloodTyped, GoesOn
  PROVE  /\ window \in [Users -> Remembered']
         /\ \A u \in Users : \A i \in DOMAIN window[u] : posts'[window[u][i].id].user = u
         /\ trip \in [Users -> (0 .. now') \cup {Never}]
         /\ strikes \in [Users -> [count : Nat, last : 0 .. now']]
         /\ deleted \subseteq 1 .. Len(posts')
         /\ refused \subseteq 1 .. Len(posts')
         /\ bursts \subseteq SUBSET (1 .. Len(posts'))
<1>1. now \in Nat /\ now' \in Nat /\ 0 .. now \subseteq 0 .. now'
  BY DEF FloodTyped, TypeOK, GoesOn
<1>2. 1 .. Len(posts) \subseteq 1 .. Len(posts')
  BY DEF GoesOn
<1> DEFINE S == [id : 1 .. Len(posts), at : 0 .. now]
           T == [id : 1 .. Len(posts'), at : 0 .. now']
<1>3. S \subseteq T
  BY <1>1, <1>2
<1>4. ASSUME NEW u \in Users
      PROVE  /\ window[u] \in Seq(T)
             /\ \A i \in DOMAIN window[u] : posts'[window[u][i].id].user = u
  <2>1. window[u] \in Seq(S)
    BY DEF FloodTyped, TypeOK
  <2>2. window[u] \in Seq(T)
    <3> HIDE DEF S, T
    <3>1. QED
      BY <1>3, <2>1, SeqMonotonic
  <2>3. ASSUME NEW i \in DOMAIN window[u] PROVE posts'[window[u][i].id].user = u
    <3>1. window[u][i] \in S
      BY <2>1, ElementOfSeq, LenProperties
    <3>2. posts[window[u][i].id].user = u
      BY DEF FloodTyped, TypeOK
    <3>3. QED
      BY <3>1, <3>2 DEF GoesOn
  <2>4. QED
    BY <2>2, <2>3
<1>5. window \in [Users -> Seq(T)]
  BY <1>4 DEF FloodTyped, TypeOK
<1>6. strikes \in [Users -> [count : Nat, last : 0 .. now']]
  BY <1>1 DEF FloodTyped, TypeOK
<1>7. trip \in [Users -> (0 .. now') \cup {Never}]
  BY <1>1 DEF FloodTyped, TypeOK
<1>8. QED
  BY <1>2, <1>4, <1>5, <1>6, <1>7 DEF FloodTyped, TypeOK, Remembered

(* A stimulus leaves a number of them; so does a failure. *)
LEMMA Budgets ==
  ASSUME TypeOK
  PROVE  /\ \A op : Stimulus(op) => stimuli' \in Nat
         /\ \A n \in Nat : Faults(n) => faults' \in Nat
         /\ Fault \/ NoFault => faults' \in Nat
BY DEF TypeOK, Stimulus, Faults, Fault, NoFault

(* Every variable has its type in the next state, if those that change do. *)
LEMMA TypesAfter ==
  ASSUME FloodTyped, GoesOn, cfg' \in Inputs,
         window' \in [Users -> Remembered'],
         \A u \in Users : \A i \in DOMAIN window'[u] : posts'[window'[u][i].id].user = u,
         trip' \in [Users -> (0 .. now') \cup {Never}],
         strikes' \in [Users -> [count : Nat, last : 0 .. now']],
         tasks' \in [Workers -> Task],
         \A w \in Workers : Carries(tasks'[w], posts', now'),
         deleted' \subseteq 1 .. Len(posts'),
         refused' \subseteq 1 .. Len(posts'),
         posts' \in Seq(Message),
         recorded' \in [Users -> Seq(Event)],
         bursts' \subseteq SUBSET (1 .. Len(posts')),
         stimuli' \in Nat, faults' \in Nat
  PROVE  FloodTyped'
BY DEF FloodTyped, TypeOK, Remembered, GoesOn

(* Stimuli keep every variable's type, a restart and the clock too.        *)
LEMMA StimulusTypes ==
  ASSUME FloodTyped,
         \/ \E t \in Workers, m \in Message : Post(t, m)
         \/ \E t \in Workers, u \in Users : ResetStrikes(t, u) \/ Unjailed(t, u)
         \/ \E s \in Inputs : SetFlood(s)
         \/ Crash \/ Tick
  PROVE  FloodTyped'
<1>0. TypeOK /\ now \in Nat
  BY DEF FloodTyped, TypeOK
<1>1. ASSUME NEW t \in Workers, NEW m \in Message, Post(t, m) PROVE FloodTyped'
  <2> DEFINE task == [Idle EXCEPT !.pc = "load", !.id = Len(posts'), !.user = m.user]
  <2>1. posts' = Append(posts, m) /\ posts \in Seq(Message)
    BY <1>1, <1>0 DEF Post, TypeOK
  <2>2. /\ posts' \in Seq(Message)
        /\ Len(posts') = Len(posts) + 1
        /\ \A i \in 1 .. Len(posts) : posts'[i] = posts[i]
        /\ posts'[Len(posts')] = m
        /\ Len(posts) \in Nat
    BY <2>1, AppendProperties, LenProperties
  <2>3. GoesOn
    <3>1. now' = now
      BY <1>1 DEF Post
    <3>2. \A i \in 1 .. Len(posts) : i \in 1 .. Len(posts')
      BY <2>2
    <3>3. QED
      BY <1>0, <2>2, <3>1, <3>2 DEF GoesOn
  <2>4. Len(posts') \in Nat /\ Len(posts') \in 1 .. Len(posts')
    BY <2>2
  <2>5. m.user \in Users
    BY DEF Message
  <2>6. /\ task \in Task /\ task.pc = "load" /\ task.plan = {}
        /\ task.id = Len(posts') /\ task.user = m.user
    BY <2>4, <2>5, IdleType DEF Task, PCs
  <2>7. Goto(t, task)
    BY <1>1 DEF Post
  <2> HIDE DEF task
  <2>8. Carries(task, posts', now')
    BY <2>2, <2>4, <2>6 DEF Carries
  <2>9. /\ tasks' \in [Workers -> Task]
        /\ \A w \in Workers : Carries(tasks'[w], posts', now')
    BY <2>3, <2>6, <2>7, <2>8, TaskMoves
  <2>10. UNCHANGED <<cfg, window, trip, strikes, deleted, recorded, bursts, refused, faults>>
         /\ stimuli' \in Nat
    BY <1>0, <1>1, Budgets DEF Post
  <2>11. cfg \in Inputs /\ recorded \in [Users -> Seq(Event)] /\ faults \in Nat
    BY <1>0 DEF TypeOK
  <2>12. QED
    BY <2>2, <2>3, <2>9, <2>10, <2>11, RemembersOn, TypesAfter
<1>2. ASSUME NEW t \in Workers, NEW u \in Users, ResetStrikes(t, u) \/ Unjailed(t, u)
      PROVE  FloodTyped'
  <2> DEFINE task == [Idle EXCEPT !.pc = "lift", !.user = u]
  <2>1. UNCHANGED <<cfg, window, trip, deleted, now, posts, recorded, bursts, refused>>
    BY <1>2 DEF ResetStrikes, Unjailed
  <2>2. GoesOn
    BY <1>0, <2>1, StandsStill
  <2>3. task \in Task /\ task.pc = "lift" /\ task.plan = {}
    BY IdleType DEF Task, PCs
  <2>4. Goto(t, task) \/ UNCHANGED tasks
    BY <1>2 DEF ResetStrikes, Unjailed
  <2> HIDE DEF task
  <2>5. Carries(task, posts', now')
    BY <2>3 DEF Carries, Posting, Unrecorded
  <2>6. /\ tasks' \in [Workers -> Task]
        /\ \A w \in Workers : Carries(tasks'[w], posts', now')
    <3>1. CASE Goto(t, task)
      BY <2>2, <2>3, <2>5, <3>1, TaskMoves
    <3>2. CASE UNCHANGED tasks
      BY <1>0, <2>2, <3>2, CarriesOn DEF FloodTyped, TypeOK
    <3>3. QED
      BY <2>4, <3>1, <3>2
  <2>7. NoStrikes \in [count : Nat, last : 0 .. now]
    BY <1>0 DEF NoStrikes
  <2>8. strikes' \in [Users -> [count : Nat, last : 0 .. now]]
    BY <1>0, <1>2, <2>7 DEF ResetStrikes, Unjailed, TypeOK
  <2>9. stimuli' \in Nat /\ faults' \in Nat
    <3>1. Stimulus("reset") \/ Stimulus("unjail")
      BY <1>2 DEF ResetStrikes, Unjailed
    <3>2. NoFault \/ Fault
      BY <1>2 DEF ResetStrikes, Unjailed, NoFault
    <3>3. QED
      BY <1>0, <3>1, <3>2, Budgets
  <2>10. /\ cfg \in Inputs /\ recorded \in [Users -> Seq(Event)]
         /\ posts \in Seq(Message)
    BY <1>0 DEF TypeOK
  <2>11. strikes' \in [Users -> [count : Nat, last : 0 .. now']]
    BY <2>1, <2>8
  <2>12. QED
    BY <2>1, <2>2, <2>6, <2>9, <2>10, <2>11, RemembersOn, TypesAfter
<1>3. ASSUME NEW s \in Inputs, SetFlood(s) PROVE FloodTyped'
  <2>1. UNCHANGED <<window, trip, strikes, tasks, deleted, now, posts, recorded, bursts,
                    refused, faults>> /\ cfg' = s /\ stimuli' \in Nat
    BY <1>0, <1>3, Budgets DEF SetFlood
  <2>2. QED
    BY <2>1 DEF FloodTyped, TypeOK
<1>4. CASE Crash
  <2>1. GoesOn /\ posts' = posts /\ now' = now
    BY <1>0, <1>4, StandsStill DEF Crash
  <2>2. \A w \in Workers : tasks'[w] = Idle /\ Carries(Idle, posts', now')
    BY <1>4, IdleType DEF Crash, Carries, Posting, Unrecorded
  <2>3. tasks' \in [Workers -> Task]
    BY <1>4, IdleType DEF Crash
  <2>4. window' \in [Users -> Remembered'] /\ \A u \in Users : DOMAIN window'[u] = {}
    BY <1>4, EmptySeq DEF Crash, Remembered
  <2>5. recorded' \in [Users -> Seq(Event)]
    BY <1>4, EmptySeq DEF Crash
  <2>6. UNCHANGED <<cfg, trip, strikes, deleted, refused, faults>> /\ bursts' = {}
        /\ stimuli' \in Nat
    BY <1>0, <1>4, Budgets DEF Crash
  <2>7. cfg \in Inputs /\ posts \in Seq(Message) /\ faults \in Nat
    BY <1>0 DEF TypeOK
  <2>8. QED
    BY <2>1, <2>2, <2>3, <2>4, <2>5, <2>6, <2>7, RemembersOn, TypesAfter
<1>5. CASE Tick
  <2>1. UNCHANGED <<cfg, window, trip, strikes, tasks, deleted, posts, recorded, bursts,
                    refused, stimuli, faults>> /\ now' = now + 1
    BY <1>5 DEF Tick
  <2>2. GoesOn
    BY <1>0, <2>1 DEF GoesOn
  <2>3. \A w \in Workers : Carries(tasks'[w], posts', now')
    BY <1>0, <2>1, <2>2, CarriesOn DEF FloodTyped, TypeOK
  <2>4. /\ cfg \in Inputs /\ posts \in Seq(Message) /\ tasks \in [Workers -> Task]
        /\ recorded \in [Users -> Seq(Event)] /\ stimuli \in Nat /\ faults \in Nat
    BY <1>0 DEF TypeOK
  <2>5. QED
    BY <2>1, <2>2, <2>3, <2>4, RemembersOn, TypesAfter
<1>6. QED
  BY <1>1, <1>2, <1>3, <1>4, <1>5

(* Neither a message nor a command, nor time: what most steps leave alone. *)
Still == UNCHANGED <<cfg, now, posts, stimuli>>

(* A step that records nothing and strikes nobody keeps every type, if     *)
(* what it changes is of its type.                                         *)
LEMMA StillTypes ==
  ASSUME FloodTyped, Still, UNCHANGED <<window, recorded, bursts>>,
         tasks' \in [Workers -> Task],
         \A w \in Workers : Carries(tasks'[w], posts', now'),
         trip' \in [Users -> (0 .. now') \cup {Never}],
         strikes' \in [Users -> [count : Nat, last : 0 .. now']],
         deleted' \subseteq 1 .. Len(posts'),
         refused' \subseteq 1 .. Len(posts'),
         faults' \in Nat
  PROVE  FloodTyped'
<1>0. TypeOK /\ GoesOn
  BY StandsStill DEF FloodTyped, Still
<1>1. /\ cfg' \in Inputs /\ posts' \in Seq(Message) /\ stimuli' \in Nat
      /\ recorded' \in [Users -> Seq(Event)]
  BY <1>0 DEF TypeOK, Still
<1>2. QED
  BY <1>0, <1>1, RemembersOn, TypesAfter DEF Still

(* The steps around the penalty box keep every variable's type.            *)
LEMMA BoxTypes ==
  ASSUME FloodTyped, NEW t \in Workers,
         Load(t) \/ ReadBox(t) \/ BoxDelete(t) \/ RecordTrip(t) \/ BoxClear(t) \/ Lift(t)
  PROVE  FloodTyped'
<1>0. TypeOK /\ now \in Nat /\ cfg \in Inputs /\ faults \in Nat
  BY DEF FloodTyped, TypeOK
<1>1. tasks[t] \in Task /\ Carries(tasks[t], posts, now)
  BY <1>0 DEF FloodTyped, TypeOK
<1>2. Still /\ UNCHANGED <<window, recorded, bursts, strikes>>
  BY DEF Load, ReadBox, BoxDelete, RecordTrip, BoxClear, Lift, Still
<1>3. GoesOn
  BY <1>0, <1>2, StandsStill DEF Still
<1>4. /\ trip \in [Users -> (0 .. now') \cup {Never}]
      /\ strikes' \in [Users -> [count : Nat, last : 0 .. now']]
      /\ deleted \subseteq 1 .. Len(posts')
      /\ refused \subseteq 1 .. Len(posts')
  BY <1>2, <1>3, RemembersOn
<1>5. ASSUME NEW u \in Users, NEW at \in (0 .. now') \cup {Never}, WriteTrip(u, at)
      PROVE  trip' \in [Users -> (0 .. now') \cup {Never}] /\ faults' \in Nat
  <2>1. faults' \in Nat
    BY <1>0, <1>5, Budgets DEF WriteTrip
  <2>2. trip' = [trip EXCEPT ![u] = at] \/ trip' = trip
    BY <1>5 DEF WriteTrip
  <2>3. QED
    BY <1>4, <2>1, <2>2
<1>6. ASSUME NEW pc \in PCs, Proceed(t, pc),
             pc \in Posting => tasks[t].pc \in Posting,
             pc # "boxClear", tasks[t].pc # "delete"
      PROVE  /\ tasks' \in [Workers -> Task]
             /\ \A w \in Workers : Carries(tasks'[w], posts', now')
  <2> DEFINE task == [tasks[t] EXCEPT !.pc = pc]
  <2>1. /\ task \in Task /\ task.pc = pc /\ task.id = tasks[t].id
        /\ task.user = tasks[t].user /\ task.plan = tasks[t].plan
    BY <1>1 DEF Task
  <2>2. Goto(t, task)
    BY <1>6 DEF Proceed
  <2> HIDE DEF task
  <2>3. Carries(task, posts, now)
    BY <1>1, <1>6, <2>1 DEF Carries
  <2>4. Carries(task, posts', now')
    BY <1>0, <1>3, <2>1, <2>3, CarriesOn
  <2>5. QED
    BY <1>3, <2>1, <2>2, <2>4, TaskMoves
<1>7. CASE Load(t)
  <2>1. UNCHANGED <<trip, deleted, refused, faults>>
    BY <1>7 DEF Load
  <2>2. /\ tasks' \in [Workers -> Task]
        /\ \A w \in Workers : Carries(tasks'[w], posts', now')
    <3> DEFINE task == [tasks[t] EXCEPT !.pc = IF cfg.cooldown > 0 THEN "box" ELSE "record",
                                        !.cfg = cfg]
    <3>1. CASE Goto(t, task)
      <4>1. /\ task \in Task /\ task.pc \in {"box", "record"} /\ task.id = tasks[t].id
            /\ task.user = tasks[t].user /\ task.plan = tasks[t].plan
        BY <1>0, <1>1 DEF Task, PCs
      <4> HIDE DEF task
      <4>2. tasks[t].pc = "load"
        BY <1>7 DEF Load
      <4>3. "box" # "boxClear" /\ "record" # "boxClear"
        OBVIOUS
      <4>4. Carries(task, posts', now')
        <5>1. tasks[t].plan = {} /\ tasks[t].pc \in Posting
          BY <1>1, <4>2 DEF Carries, Posting, Unrecorded
        <5>2. /\ tasks[t].id \in 1 .. Len(posts)
              /\ posts[tasks[t].id].user = tasks[t].user
          BY <1>1, <5>1 DEF Carries
        <5>3. task.plan = {} /\ task.pc # "boxClear"
          BY <4>1, <5>1
        <5>4. posts' = posts
          BY <1>2 DEF Still
        <5>5. QED
          BY <4>1, <5>2, <5>3, <5>4 DEF Carries
      <4>5. QED
        BY <1>3, <3>1, <4>1, <4>4, TaskMoves
    <3>2. CASE Ends(t)
      BY <1>3, <3>2, TaskEnds
    <3>3. QED
      BY <1>7, <3>1, <3>2 DEF Load
  <2>3. QED
    BY <1>0, <1>2, <1>4, <2>1, <2>2, StillTypes
<1>8. CASE ReadBox(t)
  <2> DEFINE at == trip[tasks[t].user]
             pc == IF at = Never THEN "record"
                   ELSE IF PenaltyActive(at, tasks[t].cfg.cooldown) THEN "boxDelete"
                   ELSE "boxClear"
             task == [tasks[t] EXCEPT !.pc = pc, !.seen = at]
  <2>1. UNCHANGED <<trip, deleted, refused, faults>> /\ Goto(t, task)
    BY <1>8 DEF ReadBox
  <2>2. tasks[t].user \in Users /\ tasks[t].cfg \in Settings
    BY <1>1, InputAssumption DEF Task
  <2>3. at \in (0 .. now) \cup {Never} /\ tasks[t].cfg.cooldown \in Nat
    BY <1>0, <2>2 DEF TypeOK, Settings
  <2>4. pc \in {"record", "boxDelete", "boxClear"}
    OBVIOUS
  <2>5. pc = "boxClear" => at + tasks[t].cfg.cooldown <= now
    <3> SUFFICES ASSUME pc = "boxClear" PROVE at + tasks[t].cfg.cooldown <= now
      OBVIOUS
    <3>1. at # Never /\ ~PenaltyActive(at, tasks[t].cfg.cooldown)
      OBVIOUS
    <3> HIDE DEF at, pc, task
    <3>2. at \in Nat /\ at <= now
      BY <1>0, <2>3, <3>1
    <3>3. QED
      BY <1>0, <2>3, <3>1, <3>2 DEF PenaltyActive
  <2>6. at \in Nat \cup {Never}
    BY <1>0, <2>3
  <2>7. /\ task \in Task /\ task.pc = pc /\ task.id = tasks[t].id /\ task.seen = at
        /\ task.user = tasks[t].user /\ task.plan = tasks[t].plan
        /\ task.cfg = tasks[t].cfg
    <3>1. pc \in PCs
      BY <2>4 DEF PCs
    <3> HIDE DEF at, pc
    <3>2. QED
      BY <1>1, <2>6, <3>1 DEF Task, task
  <2> HIDE DEF at, pc, task
  <2>8. tasks[t].pc = "box"
    BY <1>8 DEF ReadBox
  <2>9. tasks[t].plan = {} /\ tasks[t].pc \in Posting
    BY <1>1, <2>8 DEF Carries, Posting, Unrecorded
  <2>10. Carries(task, posts, now)
    BY <1>1, <2>5, <2>7, <2>9 DEF Carries
  <2>11. Carries(task, posts', now')
    BY <1>0, <1>3, <2>7, <2>10, CarriesOn
  <2>12. QED
    BY <1>0, <1>2, <1>3, <1>4, <2>1, <2>7, <2>11, TaskMoves, StillTypes
<1>9. CASE BoxDelete(t)
  <2>1. tasks[t].pc = "boxDelete" /\ "boxDelete" \in Posting
    BY <1>9 DEF BoxDelete, Posting
  <2>2. tasks[t].id \in 1 .. Len(posts')
    BY <1>1, <1>2, <2>1 DEF Carries, Still
  <2>3. /\ trip' = trip
        /\ deleted' \subseteq 1 .. Len(posts') /\ refused' \subseteq 1 .. Len(posts')
    BY <1>4, <1>9, <2>2 DEF BoxDelete
  <2>4. faults' \in Nat
    BY <1>0, <1>9, Budgets DEF BoxDelete
  <2>5. "boxRefresh" \in PCs /\ "boxRefresh" # "boxClear" /\ tasks[t].pc # "delete"
    BY <2>1 DEF PCs
  <2>6. /\ tasks' \in [Workers -> Task]
        /\ \A w \in Workers : Carries(tasks'[w], posts', now')
    BY <1>6, <1>9, <2>1, <2>5 DEF BoxDelete
  <2>7. QED
    BY <1>2, <1>4, <2>3, <2>4, <2>6, StillTypes
<1>10. CASE RecordTrip(t)
  <2>1. WriteTrip(tasks[t].user, now) /\ Ends(t) /\ UNCHANGED <<deleted, refused>>
    BY <1>10 DEF RecordTrip
  <2>2. now \in 0 .. now' /\ tasks[t].user \in Users
    BY <1>0, <1>1, <1>3 DEF GoesOn, Task
  <2>3. trip' \in [Users -> (0 .. now') \cup {Never}] /\ faults' \in Nat
    BY <1>5, <2>1, <2>2
  <2>4. QED
    BY <1>2, <1>3, <1>4, <2>1, <2>3, TaskEnds, StillTypes
<1>11. CASE BoxClear(t)
  <2>1. /\ tasks[t].pc = "boxClear" /\ WriteTrip(tasks[t].user, Never)
        /\ Proceed(t, "record") /\ UNCHANGED <<deleted, refused>>
    BY <1>11 DEF BoxClear
  <2>2. tasks[t].user \in Users
    BY <1>1 DEF Task
  <2>3. trip' \in [Users -> (0 .. now') \cup {Never}] /\ faults' \in Nat
    BY <1>5, <2>1, <2>2
  <2>4. "record" \in PCs /\ "record" # "boxClear" /\ tasks[t].pc \in Posting
        /\ tasks[t].pc # "delete"
    BY <2>1 DEF PCs, Posting, Unrecorded
  <2>5. QED
    BY <1>2, <1>4, <1>6, <2>1, <2>3, <2>4, StillTypes
<1>12. CASE Lift(t)
  <2>1. WriteTrip(tasks[t].user, Never) /\ Ends(t) /\ UNCHANGED <<deleted, refused>>
    BY <1>12 DEF Lift
  <2>2. tasks[t].user \in Users
    BY <1>1 DEF Task
  <2>3. trip' \in [Users -> (0 .. now') \cup {Never}] /\ faults' \in Nat
    BY <1>5, <2>1, <2>2
  <2>4. QED
    BY <1>2, <1>3, <1>4, <2>1, <2>3, TaskEnds, StillTypes
<1>13. QED
  BY <1>7, <1>8, <1>9, <1>10, <1>11, <1>12

(* Recording a message, deleting a burst and striking keep every type.     *)
LEMMA BurstTypes ==
  ASSUME FloodTyped, NEW t \in Workers,
         \/ Record(t) \/ Strike(t)
         \/ \E batch \in SUBSET tasks[t].plan : \E stay \in SUBSET batch :
              DeleteBatch(t, batch, stay)
  PROVE  FloodTyped'
<1>0. TypeOK /\ now \in Nat /\ cfg \in Inputs /\ faults \in Nat
  BY DEF FloodTyped, TypeOK
<1>1. tasks[t] \in Task /\ Carries(tasks[t], posts, now)
  BY <1>0 DEF FloodTyped, TypeOK
<1>2. Still
  BY DEF Record, Strike, DeleteBatch, Still
<1>3. GoesOn
  BY <1>0, <1>2, StandsStill DEF Still
<1>4. posts' = posts /\ now' = now
  BY <1>2 DEF Still
<1>5. CASE Record(t)
  <2> DEFINE u == tasks[t].user
             id == tasks[t].id
             kept == Kept(u, id, tasks[t].cfg)
             task == [tasks[t] EXCEPT !.pc = "delete", !.plan = Ids(kept)]
             event == [id |-> id, at |-> now]
  <2>1. tasks[t].pc = "record" /\ tasks[t].pc \in Posting
    BY <1>5 DEF Record, Posting, Unrecorded
  <2>2. u \in Users /\ id \in 1 .. Len(posts) /\ posts[id].user = u /\ event \in Event
    BY <1>0, <1>1, <2>1 DEF Carries, Task, Event
  <2>3. /\ kept \in Remembered
        /\ \A i \in DOMAIN kept : posts[kept[i].id].user = u
    BY <1>0, <2>2, KeptType
  <2>4. Ids(kept) \subseteq 1 .. Len(posts)
    BY <2>3, IdsType
  <2>5. \/ /\ window' = [window EXCEPT ![u] = AfterTrip(kept)]
           /\ recorded' = [recorded EXCEPT ![u] = <<>>]
           /\ bursts' = bursts \cup {Ids(kept)}
           /\ Goto(t, task)
        \/ /\ window' = [window EXCEPT ![u] = kept]
           /\ recorded' = [recorded EXCEPT ![u] = Append(@, event)]
           /\ UNCHANGED bursts
           /\ Ends(t)
    BY <1>5 DEF Record
  <2>6. /\ UNCHANGED <<cfg, trip, strikes, deleted, refused, stimuli, faults>>
    BY <1>5 DEF Record
  <2>7. /\ task \in Task /\ task.pc = "delete" /\ task.plan = Ids(kept)
    <3> HIDE DEF kept
    <3>1. Ids(kept) \in SUBSET Nat
      BY <2>4
    <3>2. QED
      BY <1>1, <3>1 DEF Task, PCs
  <2> HIDE DEF kept, task, event
  <2>8. Carries(task, posts', now')
    BY <1>4, <2>4, <2>7 DEF Carries, Posting, Unrecorded
  <2>9. /\ tasks' \in [Workers -> Task]
        /\ \A w \in Workers : Carries(tasks'[w], posts', now')
    BY <1>3, <2>5, <2>7, <2>8, TaskMoves, TaskEnds
  <2>10. AfterTrip(kept) \in Remembered /\ DOMAIN AfterTrip(kept) = {}
    BY EmptySeq DEF AfterTrip, Remembered
  <2>11. Remembered' = Remembered
    BY <1>4 DEF Remembered
  <2>12. /\ window \in [Users -> Remembered]
         /\ \A v \in Users : \A i \in DOMAIN window[v] : posts[window[v][i].id].user = v
         /\ recorded \in [Users -> Seq(Event)]
    BY <1>0 DEF TypeOK, Remembered
  <2>13. window' \in [Users -> Remembered']
    BY <2>3, <2>5, <2>10, <2>11, <2>12
  <2>14. ASSUME NEW v \in Users, NEW i \in DOMAIN window'[v]
         PROVE  posts'[window'[v][i].id].user = v
    <3>1. CASE v = u
      <4>1. window'[u] = AfterTrip(kept) \/ window'[u] = kept
        BY <2>2, <2>5, <2>12
      <4>2. QED
        BY <1>4, <2>3, <2>10, <2>14, <3>1, <4>1
    <3>2. CASE v # u
      <4>1. window'[v] = window[v]
        BY <2>5, <2>12, <3>2
      <4>2. QED
        BY <1>4, <2>12, <2>14, <4>1
    <3>3. QED
      BY <3>1, <3>2
  <2>15. recorded' \in [Users -> Seq(Event)]
    <3>1. Append(recorded[u], event) \in Seq(Event)
      BY <2>2, <2>12, AppendProperties
    <3>2. <<>> \in Seq(Event)
      BY EmptySeq
    <3>3. QED
      BY <2>2, <2>5, <2>12, <3>1, <3>2
  <2>16. bursts' \subseteq SUBSET (1 .. Len(posts'))
    BY <1>4, <2>4, <2>5, <1>0 DEF TypeOK
  <2>17. cfg' \in Inputs /\ posts' \in Seq(Message) /\ stimuli' \in Nat /\ faults' \in Nat
    BY <1>0, <1>4, <2>6 DEF TypeOK
  <2>18. /\ trip' \in [Users -> (0 .. now') \cup {Never}]
         /\ strikes' \in [Users -> [count : Nat, last : 0 .. now']]
         /\ deleted' \subseteq 1 .. Len(posts')
         /\ refused' \subseteq 1 .. Len(posts')
    BY <1>3, <2>6, RemembersOn
  <2>19. QED
    BY <1>3, <2>9, <2>13, <2>14, <2>15, <2>16, <2>17, <2>18, TypesAfter
<1>6. CASE Strike(t)
  <2> DEFINE u == tasks[t].user
             decay == tasks[t].cfg.decay
             task == [tasks[t] EXCEPT !.pc = "trip"]
  <2>1. u \in Users /\ tasks[t].cfg \in Settings
    BY <1>1, InputAssumption DEF Task
  <2>2. decay \in Nat
    BY <2>1 DEF Settings
  <2>3. Struck(strikes[u], now, decay) \in [count : Nat, last : 0 .. now]
    BY <1>0, <2>1, <2>2 DEF TypeOK, Struck
  <2>4. strikes' = [strikes EXCEPT ![u] = Struck(@, now, decay)] \/ UNCHANGED strikes
    BY <1>6 DEF Strike
  <2>5. strikes' \in [Users -> [count : Nat, last : 0 .. now']]
    <3> HIDE DEF decay
    <3>1. QED
      BY <1>0, <1>4, <2>1, <2>3, <2>4 DEF TypeOK
  <2>6. faults' \in Nat
    BY <1>0, <1>6, Budgets DEF Strike
  <2>7. UNCHANGED <<window, recorded, bursts, trip, deleted, refused>>
    BY <1>6 DEF Strike
  <2>8. tasks[t].pc = "strike"
    BY <1>6 DEF Strike
  <2>9. task \in Task /\ task.pc = "trip" /\ task.plan = tasks[t].plan
    BY <1>1 DEF Task, PCs
  <2>10. Goto(t, task) \/ Ends(t)
    BY <1>6 DEF Strike, Proceed
  <2> HIDE DEF task
  <2>11. Carries(task, posts', now')
    BY <1>1, <1>4, <2>8, <2>9 DEF Carries, Posting, Unrecorded
  <2>12. /\ tasks' \in [Workers -> Task]
         /\ \A w \in Workers : Carries(tasks'[w], posts', now')
    BY <1>3, <2>9, <2>10, <2>11, TaskMoves, TaskEnds
  <2>13. /\ trip' \in [Users -> (0 .. now') \cup {Never}]
         /\ deleted' \subseteq 1 .. Len(posts')
         /\ refused' \subseteq 1 .. Len(posts')
    BY <1>3, <2>7, RemembersOn
  <2>14. QED
    BY <1>2, <2>5, <2>6, <2>7, <2>12, <2>13, StillTypes
<1>7. ASSUME NEW batch \in SUBSET tasks[t].plan, NEW stay \in SUBSET batch,
             DeleteBatch(t, batch, stay)
      PROVE  FloodTyped'
  <2> DEFINE rest == Rest(tasks[t].plan, batch)
             task == [tasks[t] EXCEPT !.plan = rest,
                                      !.pc = IF rest = {} THEN "strike" ELSE "delete"]
  <2>1. batch \subseteq 1 .. Len(posts') /\ rest \subseteq 1 .. Len(posts')
    BY <1>1, <1>4 DEF Carries, Rest
  <2>2. /\ deleted' = deleted \cup (batch \ stay) /\ refused' = refused \cup stay
        /\ Goto(t, task) /\ UNCHANGED <<window, recorded, bursts, trip, strikes>>
    BY <1>7 DEF DeleteBatch
  <2>3. /\ task \in Task /\ task.plan = rest
        /\ task.pc = IF rest = {} THEN "strike" ELSE "delete"
    <3> HIDE DEF rest
    <3>1. rest \in SUBSET Nat
      BY <2>1
    <3>2. QED
      BY <1>1, <3>1 DEF Task, PCs
  <2>4. faults' \in Nat
    <3>1. IsFiniteSet(1 .. Len(posts'))
      BY <1>0, <1>4, FS_Interval, LenProperties DEF TypeOK
    <3>2. Cardinality(stay) \in Nat
      BY <2>1, <3>1, FS_Subset, FS_CardinalityType
    <3>3. NoFault \/ Fault \/ Faults(1 + Cardinality(stay))
      BY <1>7 DEF DeleteBatch
    <3>4. QED
      BY <1>0, <3>2, <3>3, Budgets
  <2> HIDE DEF task, rest
  <2>5. Carries(task, posts', now')
    BY <2>1, <2>3 DEF Carries, Posting, Unrecorded
  <2>6. /\ tasks' \in [Workers -> Task]
        /\ \A w \in Workers : Carries(tasks'[w], posts', now')
    BY <1>3, <2>2, <2>3, <2>5, TaskMoves
  <2>7. /\ trip' \in [Users -> (0 .. now') \cup {Never}]
        /\ strikes' \in [Users -> [count : Nat, last : 0 .. now']]
        /\ deleted' \subseteq 1 .. Len(posts')
        /\ refused' \subseteq 1 .. Len(posts')
    BY <1>3, <2>1, <2>2, RemembersOn
  <2>8. QED
    BY <1>2, <2>2, <2>4, <2>6, <2>7, StillTypes
<1>8. QED
  BY <1>5, <1>6, <1>7

(* Every step keeps every variable's type.                                 *)
LEMMA FloodTypedNext == FloodTyped /\ [Next]_vars => FloodTyped'
<1> SUFFICES ASSUME FloodTyped, [Next]_vars PROVE FloodTyped'
  OBVIOUS
<1>1. CASE UNCHANGED vars
  BY <1>1 DEF vars, FloodTyped, TypeOK
<1>2. ASSUME NEW t \in Workers, TaskStep(t) PROVE FloodTyped'
  BY <1>2, BoxTypes, BurstTypes DEF TaskStep
<1>3. QED
  BY <1>1, <1>2, StimulusTypes DEF Next

(***************************************************************************)
(* Every variable of the flood filter keeps its type, and every handler    *)
(* carries what it should.                                                 *)
(***************************************************************************)
THEOREM TypesOfFlood == Spec => []FloodTyped
<1>1. Init => FloodTyped
  <2> SUFFICES ASSUME Init PROVE FloodTyped
    OBVIOUS
  <2>1. \A t \in Workers : tasks[t] = Idle /\ Carries(Idle, posts, now)
    BY IdleType DEF Init, Carries, Posting, Unrecorded
  <2>2. tasks \in [Workers -> Task]
    BY IdleType DEF Init
  <2>3. /\ window \in [Users -> Remembered]
        /\ \A u \in Users : DOMAIN window[u] = {}
        /\ recorded \in [Users -> Seq(Event)]
        /\ posts \in Seq(Message)
    BY EmptySeq DEF Init, Remembered
  <2>4. strikes \in [Users -> [count : Nat, last : 0 .. now]]
    BY DEF Init, NoStrikes
  <2>5. now \in Nat /\ stimuli \in Nat /\ faults \in Nat
    BY NumberAssumption DEF Init
  <2>6. QED
    BY <2>1, <2>2, <2>3, <2>4, <2>5 DEF Init, FloodTyped, TypeOK, Remembered
<1>2. QED
  BY <1>1, FloodTypedNext, PTL DEF Spec

(* Every variable of the flood filter keeps its type.                      *)
THEOREM FloodIsTyped == Spec => []TypeOK
<1>1. FloodTyped => TypeOK
  BY DEF FloodTyped
<1>2. QED
  BY <1>1, TypesOfFlood, PTL

-----------------------------------------------------------------------------
(* No message belongs to two bursts. *)

(***************************************************************************)
(* A message that is yet to be recorded has left no trace, and no two      *)
(* handlers have the same one.                                             *)
(***************************************************************************)
Distinct ==
  /\ \A t \in Workers : tasks[t].pc \in Unrecorded =>
       /\ \A u \in Users : tasks[t].id \notin Ids(window[u])
       /\ \A b \in bursts : tasks[t].id \notin b
  /\ \A t, w \in Workers :
       t # w /\ tasks[t].pc \in Unrecorded /\ tasks[w].pc \in Unrecorded
         => tasks[t].id # tasks[w].id

OnceInv == Distinct /\ NoBurstTwice

(* A step that records nothing: no handler has a message it did not have.  *)
LEMMA OnceStill ==
  ASSUME FloodTyped, OnceInv, UNCHANGED <<window, bursts>>,
         \A w \in Workers : tasks'[w].pc \in Unrecorded =>
           tasks[w].pc \in Unrecorded /\ tasks'[w].id = tasks[w].id
  PROVE  OnceInv'
BY DEF OnceInv, Distinct, NoBurstTwice

(* The ids that a window holds are those of messages of its user.          *)
LEMMA IdsInWindow ==
  ASSUME FloodTyped, NEW u \in Users
  PROVE  /\ Ids(window[u]) \subseteq 1 .. Len(posts)
         /\ \A id \in Ids(window[u]) : posts[id].user = u
<1>1. TypeOK /\ window[u] \in Remembered
  BY DEF FloodTyped, TypeOK, Remembered
<1>2. \A i \in DOMAIN window[u] : posts[window[u][i].id].user = u
  BY <1>1 DEF TypeOK
<1>3. QED
  BY <1>1, <1>2, IdsType DEF Ids

(* Stimuli keep it: a new message has a new number.                        *)
LEMMA OnceStimulus ==
  ASSUME FloodTyped, OnceInv,
         \/ \E t \in Workers, m \in Message : Post(t, m)
         \/ \E t \in Workers, u \in Users : ResetStrikes(t, u) \/ Unjailed(t, u)
         \/ \E s \in Inputs : SetFlood(s)
         \/ Crash \/ Tick
  PROVE  OnceInv'
<1>0. TypeOK /\ tasks \in [Workers -> Task]
  BY DEF FloodTyped, TypeOK
<1>1. ASSUME NEW t \in Workers, NEW m \in Message, Post(t, m) PROVE OnceInv'
  <2> DEFINE new == Len(posts) + 1
  <2>1. Len(posts) \in Nat /\ Len(posts') = new
    BY <1>0, <1>1, AppendProperties, LenProperties DEF Post, TypeOK
  <2>2. /\ tasks'[t].id = new
        /\ \A w \in Workers \ {t} : tasks'[w] = tasks[w]
    <3>1. tasks' = [tasks EXCEPT ![t] =
                      [Idle EXCEPT !.pc = "load", !.id = Len(posts'), !.user = m.user]]
      BY <1>1 DEF Post, Goto
    <3>2. \A w \in Workers \ {t} : tasks'[w] = tasks[w]
      BY <1>0, <3>1
    <3>3. tasks'[t].id = Len(posts')
      BY <1>0, <3>1, IdleType DEF Task
    <3>4. QED
      BY <2>1, <3>2, <3>3
  <2>3. UNCHANGED <<window, bursts>>
    BY <1>1 DEF Post
  <2>4. new \notin 1 .. Len(posts)
    BY <2>1
  <2> HIDE DEF new
  <2>5. /\ \A u \in Users : new \notin Ids(window[u])
        /\ \A b \in bursts : new \notin b
    BY <1>0, <2>4, IdsInWindow DEF TypeOK
  <2>6. \A w \in Workers : tasks[w].pc \in Unrecorded => tasks[w].id # new
    BY <2>4 DEF FloodTyped, Carries, Posting
  <2>7. QED
    BY <2>2, <2>3, <2>5, <2>6 DEF OnceInv, Distinct, NoBurstTwice
<1>2. ASSUME NEW t \in Workers, NEW u \in Users, ResetStrikes(t, u) \/ Unjailed(t, u)
      PROVE  OnceInv'
  <2>1. UNCHANGED <<window, bursts>>
    BY <1>2 DEF ResetStrikes, Unjailed
  <2>2. \/ tasks' = tasks
        \/ tasks' = [tasks EXCEPT ![t] = [Idle EXCEPT !.pc = "lift", !.user = u]]
    BY <1>2 DEF ResetStrikes, Unjailed, Goto
  <2>3. [Idle EXCEPT !.pc = "lift", !.user = u].pc = "lift"
    BY IdleType DEF Task
  <2>4. \A w \in Workers : tasks'[w] = tasks[w] \/ tasks'[w].pc = "lift"
    BY <1>0, <2>2, <2>3
  <2>5. QED
    BY <2>1, <2>4, OnceStill DEF Unrecorded
<1>3. ASSUME NEW s \in Inputs, SetFlood(s) PROVE OnceInv'
  BY <1>3, OnceStill DEF SetFlood
<1>4. CASE Crash
  <2>1. \A w \in Workers : tasks'[w].pc = "idle"
    BY <1>4, IdleType DEF Crash
  <2>2. bursts' = {}
    BY <1>4 DEF Crash
  <2>3. QED
    BY <2>1, <2>2 DEF OnceInv, Distinct, NoBurstTwice, Unrecorded
<1>5. CASE Tick
  BY <1>5, OnceStill DEF Tick
<1>6. QED
  BY <1>1, <1>2, <1>3, <1>4, <1>5

(* The steps of a task that record nothing, in one: the task keeps its     *)
(* message, and does not return to it.                                     *)
LEMMA OnceTask ==
  ASSUME FloodTyped, OnceInv, NEW t \in Workers,
         \/ Load(t) \/ ReadBox(t) \/ BoxDelete(t) \/ RecordTrip(t) \/ BoxClear(t)
         \/ Lift(t) \/ Strike(t)
         \/ \E batch \in SUBSET tasks[t].plan : \E stay \in SUBSET batch :
              DeleteBatch(t, batch, stay)
  PROVE  OnceInv'
<1>1. tasks \in [Workers -> Task] /\ tasks[t] \in Task
  BY DEF FloodTyped, TypeOK
<1>2. UNCHANGED <<window, bursts>>
  BY DEF Load, ReadBox, BoxDelete, RecordTrip, BoxClear, Lift, Strike, DeleteBatch
<1>3. ASSUME NEW task, Goto(t, task),
             task.pc \in Unrecorded => tasks[t].pc \in Unrecorded /\ task.id = tasks[t].id
      PROVE  OnceInv'
  <2>1. \A w \in Workers : tasks'[w].pc \in Unrecorded =>
          tasks[w].pc \in Unrecorded /\ tasks'[w].id = tasks[w].id
    BY <1>1, <1>3 DEF Goto
  <2>2. QED
    BY <1>2, <2>1, OnceStill
<1>4. ASSUME Ends(t) PROVE OnceInv'
  BY <1>3, <1>4, IdleType DEF Ends, Unrecorded
<1>5. ASSUME NEW pc \in PCs, Proceed(t, pc), pc \in Unrecorded => tasks[t].pc \in Unrecorded
      PROVE  OnceInv'
  <2> DEFINE task == [tasks[t] EXCEPT !.pc = pc]
  <2>1. task.pc = pc /\ task.id = tasks[t].id /\ Goto(t, task)
    BY <1>1, <1>5 DEF Proceed, Task
  <2> HIDE DEF task
  <2>2. QED
    BY <1>3, <1>5, <2>1
<1>6. CASE Load(t)
  <2> DEFINE task == [tasks[t] EXCEPT !.pc = IF cfg.cooldown > 0 THEN "box" ELSE "record",
                                      !.cfg = cfg]
  <2>1. task.id = tasks[t].id /\ tasks[t].pc \in Unrecorded
    BY <1>1, <1>6 DEF Load, Task, Unrecorded
  <2>2. Goto(t, task) \/ Ends(t)
    BY <1>6 DEF Load
  <2> HIDE DEF task
  <2>3. QED
    BY <1>3, <1>4, <2>1, <2>2
<1>7. CASE ReadBox(t)
  <2> DEFINE at == trip[tasks[t].user]
             task == [tasks[t] EXCEPT
                        !.pc = IF at = Never THEN "record"
                               ELSE IF PenaltyActive(at, tasks[t].cfg.cooldown)
                               THEN "boxDelete" ELSE "boxClear",
                        !.seen = at]
  <2>1. task.id = tasks[t].id /\ tasks[t].pc \in Unrecorded
    BY <1>1, <1>7 DEF ReadBox, Task, Unrecorded
  <2>2. Goto(t, task)
    BY <1>7 DEF ReadBox
  <2> HIDE DEF task
  <2>3. QED
    BY <1>3, <2>1, <2>2
<1>8. CASE BoxDelete(t)
  BY <1>5, <1>8 DEF BoxDelete, PCs, Unrecorded
<1>9. CASE RecordTrip(t)
  BY <1>4, <1>9 DEF RecordTrip
<1>10. CASE BoxClear(t)
  BY <1>5, <1>10 DEF BoxClear, PCs, Unrecorded
<1>11. CASE Lift(t)
  BY <1>4, <1>11 DEF Lift
<1>12. CASE Strike(t)
  <2>1. Proceed(t, "trip") \/ Ends(t)
    BY <1>12 DEF Strike
  <2>2. QED
    BY <1>4, <1>5, <2>1 DEF PCs, Unrecorded
<1>13. ASSUME NEW batch \in SUBSET tasks[t].plan, NEW stay \in SUBSET batch,
              DeleteBatch(t, batch, stay)
       PROVE  OnceInv'
  <2> DEFINE rest == Rest(tasks[t].plan, batch)
             task == [tasks[t] EXCEPT !.plan = rest,
                                      !.pc = IF rest = {} THEN "strike" ELSE "delete"]
  <2>1. task.pc \in {"strike", "delete"}
    BY <1>1 DEF Task
  <2>2. Goto(t, task)
    BY <1>13 DEF DeleteBatch
  <2> HIDE DEF task
  <2>3. QED
    BY <1>3, <2>1, <2>2 DEF Unrecorded
<1>14. QED
  BY <1>6, <1>7, <1>8, <1>9, <1>10, <1>11, <1>12, <1>13

(* A message is recorded in one window, or found in one burst.             *)
LEMMA OnceRecord ==
  ASSUME FloodTyped, OnceInv, NEW t \in Workers, Record(t)
  PROVE  OnceInv'
<1> DEFINE u == tasks[t].user
           id == tasks[t].id
           kept == Kept(u, id, tasks[t].cfg)
<1>0. TypeOK /\ tasks \in [Workers -> Task] /\ window \in [Users -> Remembered]
  BY DEF FloodTyped, TypeOK, Remembered
<1>1. tasks[t].pc \in Unrecorded /\ tasks[t].pc \in Posting
  BY DEF Record, Unrecorded, Posting
<1>2. u \in Users /\ id \in 1 .. Len(posts) /\ posts[id].user = u
  BY <1>0, <1>1 DEF FloodTyped, Carries, Task
<1>3. Ids(kept) \subseteq Ids(window[u]) \cup {id}
  BY <1>0, <1>2, KeptType
<1>4. \A w \in Workers : tasks'[w].pc \in Unrecorded => w # t /\ tasks'[w] = tasks[w]
  <2>1. \/ Goto(t, [tasks[t] EXCEPT !.pc = "delete", !.plan = Ids(kept)])
        \/ Ends(t)
    BY DEF Record
  <2>2. [tasks[t] EXCEPT !.pc = "delete", !.plan = Ids(kept)].pc = "delete"
    BY <1>0 DEF Task
  <2>3. Idle.pc = "idle"
    BY IdleType
  <2> HIDE DEF kept
  <2>4. \E task : tasks' = [tasks EXCEPT ![t] = task] /\ task.pc \in {"delete", "idle"}
    BY <2>1, <2>2, <2>3 DEF Goto, Ends
  <2>5. QED
    BY <1>0, <2>4 DEF Unrecorded
<1>5. CASE /\ window' = [window EXCEPT ![u] = AfterTrip(kept)]
           /\ bursts' = bursts \cup {Ids(kept)}
  <2>1. /\ Ids(window'[u]) = {}
        /\ \A v \in Users \ {u} : window'[v] = window[v]
    BY <1>0, <1>2, <1>5 DEF AfterTrip, Ids
  <2>2. \A b \in bursts : b \cap Ids(kept) = {}
    BY <1>1, <1>2, <1>3 DEF OnceInv, Distinct, NoBurstTwice
  <2>3. \A v \in Users \ {u} : Ids(kept) \cap Ids(window[v]) = {}
    <3> SUFFICES ASSUME NEW v \in Users \ {u}, NEW i \in Ids(kept), i \in Ids(window[v])
                 PROVE  FALSE
      OBVIOUS
    <3>1. posts[i].user = v
      BY IdsInWindow
    <3>2. posts[i].user = u
      BY <1>2, <1>3, IdsInWindow
    <3>3. QED
      BY <3>1, <3>2
  <2>4. \A w \in Workers : tasks'[w].pc \in Unrecorded => tasks'[w].id \notin Ids(kept)
    BY <1>1, <1>2, <1>3, <1>4 DEF OnceInv, Distinct
  <2> HIDE DEF kept, u, id
  <2>5. NoBurstTwice'
    <3>1. \A b, c \in bursts' : b = c \/ b \cap c = {}
      BY <1>5, <2>2 DEF OnceInv, NoBurstTwice
    <3>2. ASSUME NEW b \in bursts', NEW v \in Users PROVE b \cap Ids(window'[v]) = {}
      <4>1. CASE v = u
        BY <2>1, <4>1
      <4>2. CASE v # u
        BY <1>5, <2>1, <2>3, <4>2 DEF OnceInv, NoBurstTwice
      <4>3. QED
        BY <4>1, <4>2
    <3>3. QED
      BY <3>1, <3>2 DEF NoBurstTwice, Ids
  <2>6. Distinct'
    <3>1. ASSUME NEW w \in Workers, tasks'[w].pc \in Unrecorded, NEW v \in Users
          PROVE  tasks'[w].id \notin Ids(window'[v])
      BY <1>4, <2>1, <3>1 DEF OnceInv, Distinct
    <3>2. ASSUME NEW w \in Workers, tasks'[w].pc \in Unrecorded, NEW b \in bursts'
          PROVE  tasks'[w].id \notin b
      BY <1>4, <1>5, <2>4, <3>2 DEF OnceInv, Distinct
    <3>3. \A w, x \in Workers :
            w # x /\ tasks'[w].pc \in Unrecorded /\ tasks'[x].pc \in Unrecorded
              => tasks'[w].id # tasks'[x].id
      BY <1>4 DEF OnceInv, Distinct
    <3>4. QED
      BY <3>1, <3>2, <3>3 DEF Distinct, Ids
  <2>7. QED
    BY <2>5, <2>6 DEF OnceInv
<1>6. CASE window' = [window EXCEPT ![u] = kept] /\ UNCHANGED bursts
  <2>1. \A v \in Users : Ids(window'[v]) \subseteq Ids(window[v]) \cup {id}
    BY <1>0, <1>3, <1>6
  <2>2. \A b \in bursts : id \notin b
    BY <1>1 DEF OnceInv, Distinct
  <2>3. \A w \in Workers : tasks'[w].pc \in Unrecorded => tasks'[w].id # id
    BY <1>1, <1>4 DEF OnceInv, Distinct
  <2> HIDE DEF kept, u, id
  <2>4. NoBurstTwice'
    <3>1. \A b \in bursts, v \in Users : b \cap Ids(window'[v]) = {}
      BY <2>1, <2>2 DEF OnceInv, NoBurstTwice
    <3>2. QED
      BY <1>6, <3>1 DEF OnceInv, NoBurstTwice, Ids
  <2>5. Distinct'
    <3>1. ASSUME NEW w \in Workers, tasks'[w].pc \in Unrecorded, NEW v \in Users
          PROVE  tasks'[w].id \notin Ids(window'[v])
      BY <1>4, <2>1, <2>3, <3>1 DEF OnceInv, Distinct
    <3>2. QED
      BY <1>4, <1>6, <3>1 DEF OnceInv, Distinct, Ids
  <2>6. QED
    BY <2>4, <2>5 DEF OnceInv
<1>7. QED
  BY <1>5, <1>6 DEF Record

(***************************************************************************)
(* A message belongs to one burst at most, and so costs one flood strike   *)
(* at most.                                                                *)
(***************************************************************************)
THEOREM OneStrikeEach == Spec => []NoBurstTwice
<1>1. Init => OnceInv
  <2> SUFFICES ASSUME Init PROVE OnceInv
    OBVIOUS
  <2>1. \A t \in Workers : tasks[t].pc = "idle"
    BY IdleType DEF Init
  <2>2. QED
    BY <2>1 DEF Init, OnceInv, Distinct, NoBurstTwice, Unrecorded
<1>2. FloodTyped /\ OnceInv /\ [Next]_vars => OnceInv'
  <2> SUFFICES ASSUME FloodTyped, OnceInv, [Next]_vars PROVE OnceInv'
    OBVIOUS
  <2>1. CASE UNCHANGED vars
    BY <2>1, OnceStill DEF vars
  <2>2. ASSUME NEW t \in Workers, TaskStep(t) PROVE OnceInv'
    BY <2>2, OnceTask, OnceRecord DEF TaskStep
  <2>3. QED
    BY <2>1, <2>2, OnceStimulus DEF Next
<1>3. OnceInv => NoBurstTwice
  BY DEF OnceInv
<1>4. QED
  BY <1>1, <1>2, <1>3, TypesOfFlood, PTL DEF Spec

-----------------------------------------------------------------------------
(* Nothing of a burst is forgotten. *)

(* A step that finds no burst and drops no plan.                           *)
LEMMA DeletedStill ==
  ASSUME BurstIsDeleted, bursts' \subseteq bursts,
         deleted \subseteq deleted', refused \subseteq refused',
         \A w \in Workers : tasks[w].plan \subseteq tasks'[w].plan
  PROVE  BurstIsDeleted'
BY DEF BurstIsDeleted

(* Only a handler that deletes gives up anything of its plan.              *)
LEMMA PlansStay ==
  ASSUME FloodTyped, NEW t \in Workers, tasks[t].pc # "delete",
         \/ Ends(t)
         \/ \E task : Goto(t, task) /\ task.plan = {}
         \/ \E task : Goto(t, task) /\ task.plan = tasks[t].plan
  PROVE  \A w \in Workers : tasks[w].plan \subseteq tasks'[w].plan
<1>1. tasks \in [Workers -> Task] /\ tasks[t].plan = {}
  BY DEF FloodTyped, TypeOK, Carries
<1>2. \E task : tasks' = [tasks EXCEPT ![t] = task]
  BY DEF Ends, Goto
<1>3. QED
  BY <1>1, <1>2

(* Stimuli keep it; a restart ends the story of the bursts before.         *)
LEMMA DeletedStimulus ==
  ASSUME FloodTyped, BurstIsDeleted,
         \/ \E t \in Workers, m \in Message : Post(t, m)
         \/ \E t \in Workers, u \in Users : ResetStrikes(t, u) \/ Unjailed(t, u)
         \/ \E s \in Inputs : SetFlood(s)
         \/ Crash \/ Tick
  PROVE  BurstIsDeleted'
<1>1. ASSUME NEW t \in Workers, tasks[t].pc = "idle", NEW pc, NEW id, NEW u,
             Goto(t, [Idle EXCEPT !.pc = pc, !.id = id, !.user = u])
      PROVE  \A w \in Workers : tasks[w].plan \subseteq tasks'[w].plan
  <2>1. [Idle EXCEPT !.pc = pc, !.id = id, !.user = u].plan = {}
    BY IdleType DEF Task
  <2>2. QED
    BY <1>1, <2>1, PlansStay
<1>2. ASSUME NEW t \in Workers, NEW m \in Message, Post(t, m) PROVE BurstIsDeleted'
  <2>1. UNCHANGED <<bursts, deleted, refused>> /\ tasks[t].pc = "idle"
    BY <1>2 DEF Post, Free
  <2>2. \A w \in Workers : tasks[w].plan \subseteq tasks'[w].plan
    BY <1>1, <1>2, <2>1 DEF Post
  <2>3. QED
    BY <2>1, <2>2, DeletedStill
<1>3. ASSUME NEW t \in Workers, NEW u \in Users, ResetStrikes(t, u) \/ Unjailed(t, u)
      PROVE  BurstIsDeleted'
  <2>1. UNCHANGED <<bursts, deleted, refused>> /\ tasks[t].pc = "idle"
    BY <1>3 DEF ResetStrikes, Unjailed, Free
  <2>2. \/ Goto(t, [Idle EXCEPT !.pc = "lift", !.user = u])
        \/ UNCHANGED tasks
    BY <1>3 DEF ResetStrikes, Unjailed
  <2>3. [Idle EXCEPT !.pc = "lift", !.user = u].plan = {}
    BY IdleType DEF Task
  <2>4. \A w \in Workers : tasks[w].plan \subseteq tasks'[w].plan
    BY <2>1, <2>2, <2>3, PlansStay
  <2>5. QED
    BY <2>1, <2>4, DeletedStill
<1>4. ASSUME NEW s \in Inputs, SetFlood(s) PROVE BurstIsDeleted'
  BY <1>4, DeletedStill DEF SetFlood
<1>5. CASE Crash
  BY <1>5 DEF Crash, BurstIsDeleted
<1>6. CASE Tick
  BY <1>6, DeletedStill DEF Tick
<1>7. QED
  BY <1>2, <1>3, <1>4, <1>5, <1>6

(* So do the steps of a task that does not delete.                         *)
LEMMA DeletedTask ==
  ASSUME FloodTyped, BurstIsDeleted, NEW t \in Workers,
         \/ Load(t) \/ ReadBox(t) \/ BoxDelete(t) \/ RecordTrip(t) \/ BoxClear(t)
         \/ Lift(t) \/ Strike(t)
  PROVE  BurstIsDeleted'
<1>1. tasks \in [Workers -> Task] /\ tasks[t] \in Task
  BY DEF FloodTyped, TypeOK
<1>2. tasks[t].pc # "delete"
  BY DEF Load, ReadBox, BoxDelete, RecordTrip, BoxClear, Lift, Strike
<1>3. bursts' = bursts /\ deleted \subseteq deleted' /\ refused \subseteq refused'
  BY DEF Load, ReadBox, BoxDelete, RecordTrip, BoxClear, Lift, Strike
<1>4. \/ Ends(t)
      \/ \E pc : Proceed(t, pc)
      \/ \E pc, c : Goto(t, [tasks[t] EXCEPT !.pc = pc, !.cfg = c])
      \/ \E pc, at : Goto(t, [tasks[t] EXCEPT !.pc = pc, !.seen = at])
  BY DEF Load, ReadBox, BoxDelete, RecordTrip, BoxClear, Lift, Strike
<1>5. /\ \A pc : [tasks[t] EXCEPT !.pc = pc].plan = tasks[t].plan
      /\ \A pc, c : [tasks[t] EXCEPT !.pc = pc, !.cfg = c].plan = tasks[t].plan
      /\ \A pc, at : [tasks[t] EXCEPT !.pc = pc, !.seen = at].plan = tasks[t].plan
  BY <1>1 DEF Task
<1>6. Ends(t) \/ \E task : Goto(t, task) /\ task.plan = tasks[t].plan
  <2>1. ASSUME NEW pc, Proceed(t, pc)
        PROVE  \E task : Goto(t, task) /\ task.plan = tasks[t].plan
    <3> WITNESS [tasks[t] EXCEPT !.pc = pc]
    <3>1. QED
      BY <1>5, <2>1 DEF Proceed
  <2>2. ASSUME NEW pc, NEW c, Goto(t, [tasks[t] EXCEPT !.pc = pc, !.cfg = c])
        PROVE  \E task : Goto(t, task) /\ task.plan = tasks[t].plan
    <3> WITNESS [tasks[t] EXCEPT !.pc = pc, !.cfg = c]
    <3>1. QED
      BY <1>5, <2>2
  <2>3. ASSUME NEW pc, NEW at, Goto(t, [tasks[t] EXCEPT !.pc = pc, !.seen = at])
        PROVE  \E task : Goto(t, task) /\ task.plan = tasks[t].plan
    <3> WITNESS [tasks[t] EXCEPT !.pc = pc, !.seen = at]
    <3>1. QED
      BY <1>5, <2>3
  <2>4. QED
    BY <1>4, <2>1, <2>2, <2>3
<1>7. \A w \in Workers : tasks[w].plan \subseteq tasks'[w].plan
  BY <1>2, <1>6, PlansStay
<1>8. QED
  BY <1>3, <1>7, DeletedStill

(***************************************************************************)
(* Every message of a burst is deleted, refused or still to be deleted: a  *)
(* handler's plan is the whole burst, and loses only what one of the two   *)
(* became of.                                                              *)
(***************************************************************************)
THEOREM BurstsGo == Spec => []BurstIsDeleted
<1>1. Init => BurstIsDeleted
  BY DEF Init, BurstIsDeleted
<1>2. FloodTyped /\ BurstIsDeleted /\ [Next]_vars => BurstIsDeleted'
  <2> SUFFICES ASSUME FloodTyped, BurstIsDeleted, [Next]_vars PROVE BurstIsDeleted'
    OBVIOUS
  <2>0. tasks \in [Workers -> Task]
    BY DEF FloodTyped, TypeOK
  <2>1. CASE UNCHANGED vars
    BY <2>1, DeletedStill DEF vars
  <2>2. ASSUME NEW t \in Workers, Record(t) PROVE BurstIsDeleted'
    <3> DEFINE ids == Ids(Kept(tasks[t].user, tasks[t].id, tasks[t].cfg))
               task == [tasks[t] EXCEPT !.pc = "delete", !.plan = ids]
    <3>1. tasks[t].plan = {} /\ tasks[t].pc # "delete"
      BY <2>2 DEF Record, FloodTyped, Carries
    <3>2. UNCHANGED <<deleted, refused>>
      BY <2>2 DEF Record
    <3>3. \/ bursts' = bursts \cup {ids} /\ Goto(t, task)
          \/ bursts' = bursts /\ Ends(t)
      BY <2>2 DEF Record
    <3>4. task.plan = ids
      BY <2>0 DEF Task
    <3> HIDE DEF ids, task
    <3>5. CASE bursts' = bursts \cup {ids} /\ Goto(t, task)
      <4>1. tasks'[t].plan = ids /\ \A w \in Workers : tasks[w].plan \subseteq tasks'[w].plan
        BY <2>0, <3>1, <3>4, <3>5 DEF Goto
      <4>2. QED
        BY <3>2, <3>5, <4>1 DEF BurstIsDeleted
    <3>6. CASE bursts' = bursts /\ Ends(t)
      BY <3>1, <3>2, <3>6, PlansStay, DeletedStill
    <3>7. QED
      BY <3>3, <3>5, <3>6
  <2>3. ASSUME NEW t \in Workers, NEW batch \in SUBSET tasks[t].plan,
               NEW stay \in SUBSET batch, DeleteBatch(t, batch, stay)
        PROVE  BurstIsDeleted'
    <3> DEFINE rest == Rest(tasks[t].plan, batch)
               task == [tasks[t] EXCEPT !.plan = rest,
                                        !.pc = IF rest = {} THEN "strike" ELSE "delete"]
    <3>1. /\ bursts' = bursts /\ deleted' = deleted \cup (batch \ stay)
          /\ refused' = refused \cup stay /\ Goto(t, task)
      BY <2>3 DEF DeleteBatch
    <3>2. task.plan = rest /\ tasks[t].plan \subseteq batch \cup rest
      BY <2>0 DEF Task, Rest
    <3> HIDE DEF rest, task
    <3>3. \A w \in Workers : tasks[w].plan \subseteq batch \cup tasks'[w].plan
      BY <2>0, <3>1, <3>2 DEF Goto
    <3>4. QED
      BY <3>1, <3>3 DEF BurstIsDeleted
  <2>4. ASSUME NEW t \in Workers, TaskStep(t) PROVE BurstIsDeleted'
    BY <2>2, <2>3, <2>4, DeletedTask DEF TaskStep
  <2>5. QED
    BY <2>1, <2>4, DeletedStimulus DEF Next
<1>3. QED
  BY <1>1, <1>2, TypesOfFlood, PTL DEF Spec

-----------------------------------------------------------------------------
(* The penalty box. *)

(***************************************************************************)
(* A user leaves the box only by a moderator or when the trip a handler    *)
(* read was over: what the handler carries says that it was, and time only *)
(* goes on.                                                                *)
(***************************************************************************)
THEOREM TheBoxHolds == Spec => BoxHolds
<1>1. ASSUME FloodTyped, [Next]_vars, NEW u \in Users, trip[u] # Never, trip'[u] = Never
      PROVE  \E t \in Workers : Lifts(t, u) \/ SawItOver(t, u)
  <2>00. TypeOK
    BY <1>1 DEF FloodTyped
  <2>01. now \in Nat /\ tasks \in [Workers -> Task]
    BY <2>00 DEF TypeOK
  <2>0. TypeOK /\ tasks \in [Workers -> Task] /\ now # Never
    BY <2>00, <2>01 DEF Never
  <2>1. ~ UNCHANGED trip
    BY <1>1
  <2>2. PICK t \in Workers : RecordTrip(t) \/ BoxClear(t) \/ Lift(t)
    BY <1>1, <2>1 DEF Next, TaskStep, Post, ResetStrikes, Unjailed, SetFlood, Crash, Tick,
         Load, ReadBox, BoxDelete, Record, Strike, DeleteBatch, vars
  <2>3. ASSUME NEW v, NEW at, WriteTrip(v, at) PROVE v = u /\ at = Never
    BY <1>1, <2>0, <2>3 DEF WriteTrip, TypeOK
  <2>4. CASE RecordTrip(t)
    BY <2>0, <2>3, <2>4 DEF RecordTrip
  <2>5. CASE BoxClear(t)
    <3>1. tasks[t].pc = "boxClear" /\ tasks[t].user = u
      BY <2>3, <2>5 DEF BoxClear
    <3>2. tasks[t].seen + tasks[t].cfg.cooldown <= now
      BY <1>1, <3>1 DEF FloodTyped, Carries
    <3>3. tasks'[t].pc = "record"
      BY <2>0, <2>5 DEF BoxClear, Proceed, Goto, Task
    <3>4. QED
      BY <3>1, <3>2, <3>3 DEF SawItOver
  <2>6. CASE Lift(t)
    <3>1. tasks[t].pc = "lift" /\ tasks[t].user = u
      BY <2>3, <2>6 DEF Lift
    <3>2. tasks'[t] = Idle
      BY <2>0, <2>6 DEF Lift, Ends, Goto
    <3>3. QED
      BY <3>1, <3>2 DEF Lifts
  <2>7. QED
    BY <2>2, <2>4, <2>5, <2>6
<1>2. FloodTyped /\ [Next]_vars =>
        [\A u \in Users : trip[u] # Never /\ trip'[u] = Never
           => \E t \in Workers : Lifts(t, u) \/ SawItOver(t, u)]_vars
  BY <1>1
<1>3. QED
  BY <1>2, TypesOfFlood, PTL DEF Spec, BoxHolds

-----------------------------------------------------------------------------
(* No flood is let through. *)

(***************************************************************************)
(* What the tracker remembers is the end of what it was shown, and what it *)
(* does not is older than a window that all settings have or exceed.       *)
(***************************************************************************)
EndOf(past, all, cut) ==
  /\ Len(past) <= Len(all)
  /\ \A i \in 1 .. Len(past) : past[i] = all[Len(all) - Len(past) + i]
  /\ \A i \in 1 .. Len(all) - Len(past) : all[i].at < cut

MemoryInv(h) == \A u \in Users : EndOf(window[u], recorded[u], Cutoff(h))

(* The wider window of any settings reaches back over a lasting one.       *)
LEMMA LastingReach ==
  \A h \in Lasting : h \in Nat /\ \A s \in Inputs : Horizon(s) \in Nat /\ h <= Horizon(s)
BY InputAssumption DEF Lasting, Windows, Horizon, Wider, Settings

(* One message more.                                                       *)
LEMMA EndOfMore ==
  ASSUME NEW S, NEW past \in Seq(S), NEW all \in Seq(S), NEW e \in S, NEW cut \in Nat,
         EndOf(past, all, cut)
  PROVE  EndOf(Append(past, e), Append(all, e), cut)
<1> DEFINE p == Append(past, e)
           a == Append(all, e)
           k == Len(all) - Len(past)
<1>1. Len(past) \in Nat /\ Len(all) \in Nat /\ k \in Nat /\ k + Len(past) = Len(all)
  BY DEF EndOf
<1>2. /\ Len(p) = Len(past) + 1 /\ p[Len(past) + 1] = e
      /\ \A i \in 1 .. Len(past) : p[i] = past[i]
  BY AppendProperties
<1>3. /\ Len(a) = Len(all) + 1 /\ a[Len(all) + 1] = e
      /\ \A i \in 1 .. Len(all) : a[i] = all[i]
  BY AppendProperties
<1>4. /\ \A i \in 1 .. Len(past) : past[i] = all[k + i]
      /\ \A i \in 1 .. k : all[i].at < cut
  BY DEF EndOf
<1> HIDE DEF p, a, k
<1>5. Len(p) <= Len(a) /\ Len(a) - Len(p) = k
  BY <1>1, <1>2, <1>3 DEF k
<1>6. ASSUME NEW i \in 1 .. Len(p) PROVE p[i] = a[k + i]
  <2>1. CASE i = Len(past) + 1
    BY <1>1, <1>2, <1>3, <2>1
  <2>2. CASE i # Len(past) + 1
    <3>1. i \in 1 .. Len(past) /\ k + i \in 1 .. Len(all)
      BY <1>1, <1>2, <2>2
    <3>2. QED
      BY <1>2, <1>3, <1>4, <3>1
  <2>3. QED
    BY <2>1, <2>2
<1>7. ASSUME NEW i \in 1 .. k PROVE a[i].at < cut
  <2>1. i \in 1 .. Len(all)
    BY <1>1
  <2>2. QED
    BY <1>3, <1>4, <2>1
<1>8. EndOf(p, a, cut)
  BY <1>5, <1>6, <1>7 DEF EndOf
<1>9. QED
  BY <1>8 DEF p, a

(* The oldest messages less.                                               *)
LEMMA EndOfLess ==
  ASSUME NEW S, NEW past \in Seq(S), NEW all \in Seq(S), NEW cut \in Nat,
         NEW c \in 0 .. Len(past), EndOf(past, all, cut),
         \A j \in 1 .. c : past[j].at < cut
  PROVE  EndOf(SubSeq(past, c + 1, Len(past)), all, cut)
<1> DEFINE p == SubSeq(past, c + 1, Len(past))
           k == Len(all) - Len(past)
           n == Len(past) - c
<1>1. /\ Len(past) \in Nat /\ Len(all) \in Nat /\ k \in Nat /\ k + Len(past) = Len(all)
      /\ c \in Nat /\ n \in Nat /\ c + n = Len(past)
  BY DEF EndOf
<1>2. /\ \A i \in 1 .. Len(past) : past[i] = all[k + i]
      /\ \A i \in 1 .. k : all[i].at < cut
  BY DEF EndOf
<1>3. \A i \in c + 1 .. Len(past) : past[i] \in S
  BY <1>1
<1>4. /\ Len(p) = IF c + 1 <= Len(past) THEN Len(past) - (c + 1) + 1 ELSE 0
      /\ \A i \in 1 .. Len(past) - (c + 1) + 1 : p[i] = past[(c + 1) + i - 1]
  BY <1>1, <1>3, SubSeqProperties
<1> HIDE DEF p, k, n
<1>5. Len(p) = n
  BY <1>1, <1>4
<1>6. ASSUME NEW i \in 1 .. n PROVE p[i] = all[k + c + i]
  <2>1. /\ i \in 1 .. Len(past) - (c + 1) + 1 /\ (c + 1) + i - 1 = c + i
        /\ c + i \in 1 .. Len(past) /\ k + (c + i) = k + c + i
    BY <1>1
  <2>2. QED
    BY <1>2, <1>4, <2>1
<1>7. ASSUME NEW i \in 1 .. k + c PROVE all[i].at < cut
  <2>1. CASE i \in 1 .. k
    BY <1>2, <2>1
  <2>2. CASE i \notin 1 .. k
    <3>1. i - k \in 1 .. c /\ i - k \in 1 .. Len(past) /\ k + (i - k) = i
      BY <1>1, <2>2
    <3>2. past[i - k] = all[k + (i - k)]
      BY <1>2, <3>1
    <3>3. QED
      BY <3>1, <3>2
  <2>3. QED
    BY <2>1, <2>2
<1>8. Len(p) <= Len(all) /\ Len(all) - Len(p) = k + c
  BY <1>1, <1>5
<1>9. EndOf(p, all, cut)
  BY <1>5, <1>6, <1>7, <1>8 DEF EndOf
<1>10. QED
  BY <1>9 DEF p

(* The deque is pruned of the oldest messages only.                        *)
LEMMA KeptEnd ==
  ASSUME NEW S, NEW u \in Users, window[u] \in Seq(S), NEW id, NEW s, [id |-> id, at |-> now] \in S
  PROVE  LET all == Append(window[u], [id |-> id, at |-> now]) IN
         \E c \in 0 .. Len(all) :
           /\ Kept(u, id, s) = SubSeq(all, c + 1, Len(all))
           /\ \A j \in 1 .. c : all[j].at < Cutoff(Horizon(s))
<1> DEFINE all == Append(window[u], [id |-> id, at |-> now])
           old == {i \in DOMAIN all : \A j \in 1 .. i : all[j].at < Cutoff(Horizon(s))}
           c == Cardinality(old)
<1>1. Kept(u, id, s) = SubSeq(all, c + 1, Len(all))
  BY DEF Kept
<1>2. all \in Seq(S)
  OBVIOUS
<1> HIDE DEF all
<1>3. Len(all) \in Nat /\ DOMAIN all = 1 .. Len(all)
  BY <1>2
<1>4. /\ \A i \in old : i \in Nat /\ 1 .. i \subseteq old
      /\ \A i \in old : \A j \in 1 .. i : all[j].at < Cutoff(Horizon(s))
      /\ old \subseteq 1 .. Len(all)
  BY <1>3
<1> HIDE DEF old
<1>5. IsFiniteSet(1 .. Len(all)) /\ Cardinality(1 .. Len(all)) = Len(all)
  <2> DEFINE n == Len(all)
  <2>1. n \in Nat
    BY <1>3
  <2> HIDE DEF n
  <2>2. IsFiniteSet(1 .. n) /\ Cardinality(1 .. n) = n
    BY <2>1, FS_Interval
  <2>3. QED
    BY <2>2 DEF n
<1>6. IsFiniteSet(old) /\ c \in Nat /\ c <= Len(all)
  BY <1>4, <1>5, FS_Subset, FS_CardinalityType
<1>7. \A i \in old : i <= c
  <2> SUFFICES ASSUME NEW i \in old PROVE i <= c
    OBVIOUS
  <2>1. Cardinality(1 .. i) = i
    BY <1>4, FS_Interval
  <2>2. QED
    BY <1>4, <1>6, <2>1, FS_Subset
<1>8. old \subseteq 1 .. c
  BY <1>4, <1>6, <1>7
<1>9. IsFiniteSet(1 .. c) /\ Cardinality(1 .. c) = c
  BY <1>6, FS_Interval
<1>10. old = 1 .. c
  BY <1>8, <1>9, FS_Subset
<1> HIDE DEF c
<1>11. \A j \in 1 .. c : all[j].at < Cutoff(Horizon(s))
  <2> SUFFICES ASSUME NEW j \in 1 .. c PROVE all[j].at < Cutoff(Horizon(s))
    OBVIOUS
  <2>1. j \in old /\ j \in 1 .. j
    BY <1>6, <1>10
  <2>2. QED
    BY <1>4, <2>1
<1>12. c \in 0 .. Len(all)
  BY <1>3, <1>6
<1>13. QED
  BY <1>1, <1>11, <1>12 DEF all

(* What the tracker and its history are made of.                           *)
LEMMA MemoryTypes ==
  ASSUME TypeOK, NEW u \in Users
  PROVE  /\ window[u] \in Seq(Event) /\ recorded[u] \in Seq(Event)
         /\ now \in Nat /\ \A h \in Nat : Cutoff(h) \in Nat
<1>1. [id : 1 .. Len(posts), at : 0 .. now] \subseteq Event
  BY DEF Event
<1>2. window[u] \in Seq([id : 1 .. Len(posts), at : 0 .. now])
  BY DEF TypeOK
<1>3. window[u] \in Seq(Event)
  BY <1>1, <1>2, SeqMonotonic
<1>4. now \in Nat
  BY DEF TypeOK
<1>5. \A h \in Nat : Cutoff(h) \in Nat
  BY <1>4 DEF Cutoff
<1>6. QED
  BY <1>3, <1>4, <1>5 DEF TypeOK

(* A message recorded without a flood is remembered.                       *)
LEMMA KeptRemembers ==
  ASSUME TypeOK, NEW h \in Lasting, MemoryInv(h), NEW u \in Users, NEW id \in Nat,
         NEW s \in Inputs
  PROVE  /\ Kept(u, id, s) \in Seq(Event)
         /\ EndOf(Kept(u, id, s), Append(recorded[u], [id |-> id, at |-> now]), Cutoff(h))
<1> DEFINE e == [id |-> id, at |-> now]
           p == Append(window[u], e)
           a == Append(recorded[u], e)
<1>1. /\ window[u] \in Seq(Event) /\ recorded[u] \in Seq(Event)
      /\ now \in Nat /\ Cutoff(h) \in Nat
  BY MemoryTypes, LastingReach
<1>2. e \in Event
  BY <1>1 DEF Event
<1>3. EndOf(window[u], recorded[u], Cutoff(h))
  BY DEF MemoryInv
<1>4. PICK c \in 0 .. Len(p) : /\ Kept(u, id, s) = SubSeq(p, c + 1, Len(p))
                               /\ \A j \in 1 .. c : p[j].at < Cutoff(Horizon(s))
  BY <1>1, <1>2, KeptEnd
<1>10. Cutoff(Horizon(s)) \in Nat /\ Cutoff(Horizon(s)) <= Cutoff(h)
  BY <1>1, LastingReach DEF Cutoff
<1> HIDE DEF e
<1>5. EndOf(p, a, Cutoff(h))
  BY <1>1, <1>2, <1>3, EndOfMore
<1>6. p \in Seq(Event) /\ a \in Seq(Event)
  BY <1>1, <1>2
<1> HIDE DEF p, a
<1>11. \A j \in 1 .. c : p[j].at < Cutoff(h)
  <2> SUFFICES ASSUME NEW j \in 1 .. c PROVE p[j].at < Cutoff(h)
    OBVIOUS
  <2>1. j \in 1 .. Len(p)
    BY <1>6
  <2>2. p[j] \in Event
    BY <1>6, <2>1
  <2>3. p[j].at \in Nat
    BY <2>2 DEF Event
  <2>4. p[j].at < Cutoff(Horizon(s))
    BY <1>4
  <2>5. QED
    BY <1>1, <1>10, <2>3, <2>4
<1>7. EndOf(SubSeq(p, c + 1, Len(p)), a, Cutoff(h))
  BY <1>1, <1>5, <1>6, <1>11, EndOfLess
<1>8. SubSeq(p, c + 1, Len(p)) \in Seq(Event)
  <2>1. Len(p) \in Nat /\ c \in Nat /\ \A i \in c + 1 .. Len(p) : p[i] \in Event
    BY <1>6
  <2>2. QED
    BY <2>1, SubSeqProperties
<1>9. QED
  BY <1>4, <1>7, <1>8 DEF a, e

(***************************************************************************)
(* A rule that finds a flood in all that was posted finds it in what is    *)
(* remembered, if its windows are no wider than what was kept.             *)
(***************************************************************************)
LEMMA WithinEnd ==
  ASSUME TypeOK, NEW past \in Seq(Event), NEW all \in Seq(Event),
         NEW h \in Nat, EndOf(past, all, Cutoff(h)), NEW width \in Nat, width <= h,
         NEW i \in Within(all, width)
  PROVE  /\ i - (Len(all) - Len(past)) \in Within(past, width)
         /\ past[i - (Len(all) - Len(past))] = all[i]
         /\ i \in Nat
<1> DEFINE k == Len(all) - Len(past)
<1>1. /\ Len(past) \in Nat /\ Len(all) \in Nat /\ k \in Nat /\ k + Len(past) = Len(all)
      /\ DOMAIN past = 1 .. Len(past) /\ DOMAIN all = 1 .. Len(all)
  BY DEF EndOf
<1>2. /\ \A j \in 1 .. Len(past) : past[j] = all[k + j]
      /\ \A j \in 1 .. k : all[j].at < Cutoff(h)
  BY DEF EndOf
<1>3. i \in 1 .. Len(all) /\ all[i].at >= Cutoff(width)
  BY <1>1 DEF Within
<1>4. Cutoff(h) <= Cutoff(width) /\ Cutoff(width) \in Nat /\ Cutoff(h) \in Nat
  <2>1. now \in Nat
    BY DEF TypeOK
  <2>2. QED
    BY <2>1 DEF Cutoff
<1>5. all[i].at \in Nat
  <2>1. all[i] \in Event
    BY <1>3
  <2>2. QED
    BY <2>1 DEF Event
<1>6. i \notin 1 .. k
  BY <1>2, <1>3, <1>4, <1>5
<1> HIDE DEF k
<1>7. i - k \in 1 .. Len(past) /\ k + (i - k) = i
  BY <1>1, <1>3, <1>6
<1>8. past[i - k] = all[i]
  BY <1>2, <1>7
<1>9. i - k \in Within(past, width)
  BY <1>1, <1>3, <1>7, <1>8 DEF Within
<1>10. QED
  BY <1>3, <1>8, <1>9 DEF k

(* Positions in a sequence are finitely many.                              *)
LEMMA FinitelyMany ==
  ASSUME NEW S, NEW past \in Seq(S), NEW T, T \subseteq DOMAIN past
  PROVE  IsFiniteSet(T)
<1> DEFINE n == Len(past)
<1>1. n \in Nat /\ DOMAIN past = 1 .. n
  OBVIOUS
<1> HIDE DEF n
<1>2. IsFiniteSet(1 .. n)
  BY <1>1, FS_Interval
<1>3. QED
  BY <1>1, <1>2, FS_Subset

(* As many messages of a kind are remembered as were posted in the window. *)
LEMMA AsMany ==
  ASSUME NEW past \in Seq(Event), NEW hits, NEW kept, NEW k \in Int,
         kept \subseteq DOMAIN past,
         \A i \in hits : i \in Nat /\ i - k \in kept
  PROVE  /\ Cardinality(hits) \in Nat /\ Cardinality(kept) \in Nat
         /\ Cardinality(hits) <= Cardinality(kept)
<1> DEFINE f == [i \in hits |-> i - k]
<1>1. IsFiniteSet(kept)
  BY FinitelyMany
<1>2. f \in Injection(hits, kept)
  <2>1. f \in [hits -> kept]
    OBVIOUS
  <2>2. \A i, j \in hits : f[i] = f[j] => i = j
    OBVIOUS
  <2>3. QED
    BY <2>1, <2>2 DEF Injection, IsInjective
<1> HIDE DEF f
<1>3. QED
  BY <1>1, <1>2, FS_Injection, FS_CardinalityType

LEMMA FloodSeen ==
  ASSUME TypeOK, NEW past \in Seq(Event), NEW all \in Seq(Event),
         NEW h \in Nat, EndOf(past, all, Cutoff(h)), NEW s \in Settings,
         s.channelWindow <= h, s.messageWindow <= h, NEW id, Floods(all, s, id)
  PROVE  Floods(past, s, id)
<1> DEFINE k == Len(all) - Len(past)
<1>0. /\ k \in Int /\ s.channels \in Nat /\ s.messages \in Nat /\ s.same \in Nat
      /\ s.channelWindow \in Nat /\ s.messageWindow \in Nat
  BY DEF Settings
<1>1. \A width \in {s.channelWindow, s.messageWindow} : \A i \in Within(all, width) :
        i \in Nat /\ i - k \in Within(past, width) /\ past[i - k] = all[i]
  BY <1>0, WithinEnd
<1>2. \A width : Within(past, width) \subseteq DOMAIN past
  BY DEF Within
<1> HIDE DEF k
<1>3. CASE Spread(all, s)
  <2> DEFINE before == {posts[all[i].id].channel : i \in Within(all, s.channelWindow)}
             after == {posts[past[i].id].channel : i \in Within(past, s.channelWindow)}
  <2>1. before \subseteq after
    BY <1>1
  <2>2. IsFiniteSet(after)
    <3> DEFINE g == [i \in Within(past, s.channelWindow) |-> posts[past[i].id].channel]
    <3>1. g \in Surjection(Within(past, s.channelWindow), after)
      BY DEF Surjection
    <3>2. IsFiniteSet(Within(past, s.channelWindow))
      BY <1>2, FinitelyMany
    <3> HIDE DEF g, after
    <3>4. QED
      BY <3>1, <3>2, FS_Surjection
  <2> HIDE DEF before, after
  <2>3. /\ Cardinality(before) \in Nat /\ Cardinality(after) \in Nat
        /\ Cardinality(before) <= Cardinality(after)
    BY <2>1, <2>2, FS_Subset, FS_CardinalityType
  <2>4. s.channels >= 2 /\ Cardinality(before) >= s.channels
    BY <1>3 DEF Spread, before
  <2>5. Cardinality(after) >= s.channels
    BY <1>0, <2>3, <2>4
  <2>6. QED
    BY <2>4, <2>5 DEF Floods, Spread, after
<1>4. CASE Burst(all, s)
  <2> DEFINE before == Cardinality(Within(all, s.messageWindow))
             after == Cardinality(Within(past, s.messageWindow))
  <2>1. before \in Nat /\ after \in Nat /\ before <= after
    BY <1>0, <1>1, <1>2, AsMany
  <2> HIDE DEF before, after
  <2>2. s.messages >= 2 /\ before >= s.messages
    BY <1>4 DEF Burst, before
  <2>3. after >= s.messages
    BY <1>0, <2>1, <2>2
  <2>4. QED
    BY <2>2, <2>3 DEF Floods, Burst, after
<1>5. CASE Repeats(all, s, id)
  <2> DEFINE before == {i \in Within(all, s.messageWindow) :
                          posts[all[i].id].text = posts[id].text}
             after == {i \in Within(past, s.messageWindow) :
                         posts[past[i].id].text = posts[id].text}
  <2>1. after \subseteq DOMAIN past /\ \A i \in before : i \in Nat /\ i - k \in after
    BY <1>1, <1>2
  <2> HIDE DEF before, after
  <2>2. /\ Cardinality(before) \in Nat /\ Cardinality(after) \in Nat
        /\ Cardinality(before) <= Cardinality(after)
    BY <1>0, <2>1, AsMany
  <2>3. s.same >= 2 /\ posts[id].text # Blank /\ Cardinality(before) >= s.same
    BY <1>5 DEF Repeats, before
  <2>4. Cardinality(after) >= s.same
    BY <1>0, <2>2, <2>3
  <2>5. QED
    BY <2>3, <2>4 DEF Floods, Repeats, after
<1>6. QED
  BY <1>3, <1>4, <1>5 DEF Floods

(* No step forgets a message that may still count.                         *)
LEMMA MemoryNext ==
  ASSUME TypeOK, NEW h \in Lasting, MemoryInv(h), [Next]_vars
  PROVE  MemoryInv(h)'
<1>0. h \in Nat
  BY LastingReach
<1>1. CASE UNCHANGED <<window, recorded, now>>
  BY <1>1 DEF MemoryInv, Cutoff, EndOf
<1>2. \A cut : EndOf(<<>>, <<>>, cut)
  BY DEF EndOf
<1>3. ASSUME NEW t \in Workers, Record(t) PROVE MemoryInv(h)'
  <2> DEFINE u == tasks[t].user
             id == tasks[t].id
             kept == Kept(u, id, tasks[t].cfg)
             more == Append(recorded[u], [id |-> id, at |-> now])
  <2>1. u \in Users /\ id \in Nat /\ tasks[t].cfg \in Inputs
    BY InputAssumption DEF TypeOK, Task
  <2>2. EndOf(kept, more, Cutoff(h))
    BY <2>1, KeptRemembers
  <2>3. Cutoff(h)' = Cutoff(h)
    BY <1>3 DEF Record, Cutoff
  <2>4. \/ window' = [window EXCEPT ![u] = <<>>] /\ recorded' = [recorded EXCEPT ![u] = <<>>]
        \/ window' = [window EXCEPT ![u] = kept] /\ recorded' = [recorded EXCEPT ![u] = more]
    BY <1>3 DEF Record, AfterTrip
  <2>5. DOMAIN window = Users /\ DOMAIN recorded = Users
    BY DEF TypeOK
  <2> HIDE DEF u, id, kept, more
  <2>6. ASSUME NEW v \in Users PROVE EndOf(window'[v], recorded'[v], Cutoff(h))
    <3>1. CASE v = u
      <4>1. \/ window'[v] = <<>> /\ recorded'[v] = <<>>
            \/ window'[v] = kept /\ recorded'[v] = more
        BY <2>4, <2>5, <3>1
      <4>2. QED
        BY <1>2, <2>2, <4>1
    <3>2. CASE v # u
      <4>1. window'[v] = window[v] /\ recorded'[v] = recorded[v]
        BY <2>4, <2>5, <3>2
      <4>2. QED
        BY <4>1 DEF MemoryInv
    <3>3. QED
      BY <3>1, <3>2
  <2>7. QED
    BY <2>3, <2>6 DEF MemoryInv
<1>4. CASE Crash
  <2>1. \A u \in Users : window'[u] = <<>> /\ recorded'[u] = <<>>
    BY <1>4 DEF Crash
  <2>2. QED
    BY <1>2, <2>1 DEF MemoryInv
<1>5. CASE Tick
  <2>1. UNCHANGED <<window, recorded>> /\ now' = now + 1
    BY <1>5 DEF Tick
  <2>2. Cutoff(h)' = IF h > now + 1 THEN 0 ELSE (now + 1) - h
    BY <2>1 DEF Cutoff
  <2>3. ASSUME NEW u \in Users PROVE EndOf(window'[u], recorded'[u], Cutoff(h)')
    <3> DEFINE past == window[u]
               all == recorded[u]
               cut == Cutoff(h)
               later == Cutoff(h)'
    <3>1. /\ past \in Seq(Event) /\ all \in Seq(Event)
          /\ now \in Nat /\ cut \in Nat
      BY <1>0, MemoryTypes
    <3>2. later \in Nat /\ cut <= later
      BY <1>0, <2>2, <3>1 DEF Cutoff
    <3>3. EndOf(past, all, cut)
      BY DEF MemoryInv
    <3>4. window'[u] = past /\ recorded'[u] = all
      BY <2>1
    <3> HIDE DEF past, all, cut, later
    <3>5. ASSUME NEW i \in 1 .. Len(all) - Len(past) PROVE all[i].at < later
      <4>1. i \in 1 .. Len(all) /\ all[i].at < cut
        BY <3>1, <3>3 DEF EndOf
      <4>2. all[i] \in Event
        BY <3>1, <4>1
      <4>3. all[i].at \in Nat
        BY <4>2 DEF Event
      <4>4. QED
        BY <3>1, <3>2, <4>1, <4>3
    <3>6. EndOf(past, all, later)
      BY <3>3, <3>5 DEF EndOf
    <3>7. QED
      BY <3>4, <3>6 DEF later
  <2>4. QED
    BY <2>3 DEF MemoryInv
<1>6. QED
  BY <1>1, <1>3, <1>4, <1>5
     DEF Next, TaskStep, Post, ResetStrikes, Unjailed, SetFlood, Load, ReadBox, BoxDelete,
         RecordTrip, BoxClear, Lift, DeleteBatch, Strike, vars

(* What is older than a narrower window is older than a wider one not.     *)
LEMMA WithinWider ==
  ASSUME now \in Nat, NEW past \in Seq(Event), NEW a \in Nat, NEW b \in Nat, a <= b
  PROVE  Within(past, a) \subseteq Within(past, b)
<1>1. Cutoff(b) <= Cutoff(a) /\ Cutoff(a) \in Nat /\ Cutoff(b) \in Nat
  BY DEF Cutoff
<1>2. ASSUME NEW i \in DOMAIN past, past[i].at >= Cutoff(a) PROVE past[i].at >= Cutoff(b)
  <2>1. past[i] \in Event
    OBVIOUS
  <2>2. past[i].at \in Nat
    BY <2>1 DEF Event
  <2>3. QED
    BY <1>1, <1>2, <2>2
<1>3. QED
  BY <1>2 DEF Within

(* Fewer of a finite set are no more.                                      *)
LEMMA NoMore ==
  ASSUME NEW A, NEW B, A \subseteq B, IsFiniteSet(B), NEW n \in Nat, Cardinality(A) >= n
  PROVE  Cardinality(B) >= n
BY FS_Subset, FS_CardinalityType

(* The settings with windows that are cut.                                 *)
LEMMA UpToType ==
  ASSUME NEW s \in Settings, NEW h \in Nat
  PROVE  /\ UpTo(s, h) \in Settings
         /\ UpTo(s, h).channelWindow <= h /\ UpTo(s, h).messageWindow <= h
<1> DEFINE a == Shorter(s.channelWindow, h)
           b == Shorter(s.messageWindow, h)
<1>1. UpTo(s, h) = [s EXCEPT !.channelWindow = a, !.messageWindow = b]
  BY DEF UpTo
<1>2. a \in Nat /\ a <= h /\ b \in Nat /\ b <= h
  BY DEF Shorter, Settings
<1> HIDE DEF a, b
<1>3. QED
  BY <1>1, <1>2 DEF Settings

(* A flood within narrower windows is one within the wider.                *)
LEMMA FloodOfMore ==
  ASSUME now \in Nat, NEW past \in Seq(Event), NEW s \in Settings, NEW h \in Nat,
         NEW id, Floods(past, UpTo(s, h), id)
  PROVE  Floods(past, s, id)
<1> DEFINE n == UpTo(s, h)
<1>1. /\ n.channels = s.channels /\ n.messages = s.messages /\ n.same = s.same
      /\ n.channelWindow \in Nat /\ n.channelWindow <= s.channelWindow
      /\ n.messageWindow \in Nat /\ n.messageWindow <= s.messageWindow
      /\ {s.channels, s.messages, s.same, s.channelWindow, s.messageWindow} \subseteq Nat
  BY DEF UpTo, Shorter, Settings
<1>2. /\ Within(past, n.channelWindow) \subseteq Within(past, s.channelWindow)
      /\ Within(past, n.messageWindow) \subseteq Within(past, s.messageWindow)
  BY <1>1, WithinWider
<1>3. Floods(past, n, id)
  OBVIOUS
<1>4. \A width : Within(past, width) \subseteq DOMAIN past
  BY DEF Within
<1>5. \A width : IsFiniteSet(Within(past, width))
  BY <1>4, FinitelyMany
<1> HIDE DEF n
<1>6. CASE Spread(past, n)
  <2> DEFINE few == {posts[past[i].id].channel : i \in Within(past, n.channelWindow)}
             many == {posts[past[i].id].channel : i \in Within(past, s.channelWindow)}
  <2>1. few \subseteq many
    BY <1>2
  <2>2. IsFiniteSet(many)
    <3> DEFINE g == [i \in Within(past, s.channelWindow) |-> posts[past[i].id].channel]
    <3>1. g \in Surjection(Within(past, s.channelWindow), many)
      BY DEF Surjection
    <3> HIDE DEF g, many
    <3>2. QED
      BY <1>5, <3>1, FS_Surjection
  <2>3. s.channels >= 2 /\ Cardinality(few) >= s.channels
    BY <1>1, <1>6 DEF Spread
  <2> HIDE DEF few, many
  <2>4. Cardinality(many) >= s.channels
    BY <1>1, <2>1, <2>2, <2>3, NoMore
  <2>5. QED
    BY <2>3, <2>4 DEF Floods, Spread, many
<1>7. CASE Burst(past, n)
  <2>1. s.messages >= 2 /\ Cardinality(Within(past, n.messageWindow)) >= s.messages
    BY <1>1, <1>7 DEF Burst
  <2>2. Cardinality(Within(past, s.messageWindow)) >= s.messages
    BY <1>1, <1>2, <1>5, <2>1, NoMore
  <2>3. QED
    BY <2>1, <2>2 DEF Floods, Burst
<1>8. CASE Repeats(past, n, id)
  <2> DEFINE few == {i \in Within(past, n.messageWindow) :
                       posts[past[i].id].text = posts[id].text}
             many == {i \in Within(past, s.messageWindow) :
                        posts[past[i].id].text = posts[id].text}
  <2>1. few \subseteq many /\ many \subseteq DOMAIN past
    BY <1>2, <1>4
  <2>2. s.same >= 2 /\ posts[id].text # Blank /\ Cardinality(few) >= s.same
    BY <1>1, <1>8 DEF Repeats
  <2> HIDE DEF few, many
  <2>3. IsFiniteSet(many)
    BY <2>1, FinitelyMany
  <2>4. Cardinality(many) >= s.same
    BY <1>1, <2>1, <2>2, <2>3, NoMore
  <2>5. QED
    BY <2>2, <2>4 DEF Floods, Repeats, many
<1>9. QED
  BY <1>3, <1>6, <1>7, <1>8 DEF Floods

(***************************************************************************)
(* A message that completes a flood is never let through, whatever the     *)
(* rules, their windows and the order of the handlers are, and however the *)
(* settings change: of the messages that all of the settings remember.     *)
(***************************************************************************)
THEOREM BurstsAreCaught == Spec => BurstIsCaught
<1>1. Init => \A h \in Lasting : MemoryInv(h)
  BY DEF Init, MemoryInv, EndOf
<1>2. ASSUME TypeOK, NEW h \in Lasting, MemoryInv(h), Next, NEW t \in Workers,
             LetThrough(t)
      PROVE  ~CompletesFlood(t, h)
  <2> DEFINE u == tasks[t].user
             id == tasks[t].id
             s == tasks[t].cfg
             kept == Kept(u, id, s)
             more == Append(recorded[u], [id |-> id, at |-> now])
  <2>1. /\ u \in Users /\ id \in Nat /\ s \in Settings /\ s \in Inputs
        /\ tasks \in [Workers -> Task] /\ recorded \in [Users -> Seq(Event)]
    <3>1. tasks \in [Workers -> Task] /\ recorded \in [Users -> Seq(Event)]
      BY <1>2 DEF TypeOK
    <3>2. tasks[t] \in Task
      BY <3>1
    <3>3. QED
      BY <3>1, <3>2, InputAssumption DEF Task
  <2>2. recorded'[u] # recorded[u] /\ recorded'[u] # <<>>
    <3>1. Len(recorded[u]) \in Nat /\ Len(<<>>) = 0
      BY <2>1
    <3>2. QED
      BY <1>2, <3>1 DEF LetThrough
  <2>3. ~Crash
    BY <2>1, <2>2 DEF Crash
  <2>4. PICK w \in Workers : Record(w)
    BY <1>2, <2>2, <2>3
       DEF Next, TaskStep, Post, ResetStrikes, Unjailed, SetFlood, Load, ReadBox, BoxDelete,
           RecordTrip, BoxClear, Lift, DeleteBatch, Strike, Tick
  <2>5. w = t
    <3> SUFFICES ASSUME w # t PROVE FALSE
      OBVIOUS
    <3>1. tasks'[t] = tasks[t]
      BY <2>1, <2>4 DEF Record, Goto, Ends
    <3>2. QED
      BY <1>2, <3>1, IdleType DEF LetThrough
  <2>6. ~Floods(kept, s, id)
    <3> SUFFICES ASSUME Floods(kept, s, id) PROVE FALSE
      OBVIOUS
    <3>1. recorded' = [recorded EXCEPT ![u] = <<>>]
      BY <2>4, <2>5 DEF Record
    <3>2. QED
      BY <2>1, <2>2, <3>1
  <2>7. kept \in Seq(Event) /\ EndOf(kept, more, Cutoff(h))
    BY <1>2, <2>1, KeptRemembers
  <2>8. more \in Seq(Event)
    <3>1. now \in Nat
      BY <1>2 DEF TypeOK
    <3>2. [id |-> id, at |-> now] \in Event
      BY <2>1, <3>1 DEF Event
    <3>3. recorded[u] \in Seq(Event)
      BY <2>1
    <3>4. QED
      BY <3>2, <3>3
  <2> HIDE DEF kept, more, s
  <2>9. h \in Nat /\ now \in Nat
    BY <1>2, LastingReach DEF TypeOK
  <2>10. /\ UpTo(s, h) \in Settings
         /\ UpTo(s, h).channelWindow <= h /\ UpTo(s, h).messageWindow <= h
    BY <2>1, <2>9, UpToType
  <2>11. ~Floods(kept, UpTo(s, h), id)
    BY <2>1, <2>6, <2>7, <2>9, FloodOfMore
  <2>12. ~Floods(more, UpTo(s, h), id)
    BY <1>2, <2>7, <2>8, <2>9, <2>10, <2>11, FloodSeen
  <2>13. QED
    BY <2>12 DEF CompletesFlood, more, s
<1>3. TypeOK /\ (\A h \in Lasting : MemoryInv(h)) /\ [Next]_vars =>
        [\A t \in Workers, h \in Lasting : LetThrough(t) => ~CompletesFlood(t, h)]_vars
  BY <1>2
<1>4. TypeOK /\ (\A h \in Lasting : MemoryInv(h)) /\ [Next]_vars
        => (\A h \in Lasting : MemoryInv(h))'
  <2> SUFFICES ASSUME TypeOK, \A h \in Lasting : MemoryInv(h), [Next]_vars,
                      NEW h \in Lasting
               PROVE  MemoryInv(h)'
    BY DEF Lasting, Windows
  <2>1. QED
    BY MemoryNext
<1>5. QED
  BY <1>1, <1>3, <1>4, FloodIsTyped, PTL DEF Spec, BurstIsCaught

=============================================================================
