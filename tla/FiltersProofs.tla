---------------------------- MODULE FiltersProofs ----------------------------
(***************************************************************************)
(* No strike is lost on the way to jail: whatever handlers, filters,       *)
(* restarts and edits of the settings interleave, the link strike that     *)
(* completes an unbroken streak of threshold strikes sends its user there. *)
(* No text is let through as often as the duplicate rule allows, and the   *)
(* calls of a day stay within the cap.                                     *)
(***************************************************************************)
EXTENDS Filters, FiniteSetTheorems, SequenceTheorems, TLAPS

(* A time is on some day, and a later time not on an earlier one.          *)
LEMMA DaysGoOn ==
  ASSUME NEW n \in Nat, NEW length \in Nat \ {0}
  PROVE  /\ n \div length \in Nat
         /\ (n + 1) \div length >= n \div length
<1> DEFINE q == n \div length
           r == (n + 1) \div length
<1>1. q \in Nat /\ n >= length * q /\ n < length * q + length
  BY SMTT(30)
<1>2. r \in Int /\ n + 1 >= length * r /\ n + 1 < length * r + length
  BY SMTT(30)
<1> HIDE DEF q, r
<1>3. ~ r < q
  <2> SUFFICES ASSUME r < q PROVE FALSE
    OBVIOUS
  <2>1. r + 1 <= q
    BY <1>1, <1>2
  <2>2. length * (r + 1) <= length * q
    BY <1>1, <1>2, <2>1, SMTT(30)
  <2>3. length * (r + 1) = length * r + length
    BY <1>2
  <2>4. QED
    BY <1>1, <1>2, <2>2, <2>3, SMTT(30)
<1>4. QED
  BY <1>1, <1>2, <1>3 DEF q, r

(* Pruning a window of typed events leaves one. *)
LEMMA PrunedType ==
  ASSUME NEW S, NEW events \in Seq(S), NEW width
  PROVE  Pruned(events, width) \in Seq(S)
<1> DEFINE old == {i \in DOMAIN events : \A j \in 1 .. i : events[j].at < Cutoff(width)}
<1>1. Len(events) \in Nat /\ DOMAIN events = 1 .. Len(events)
  OBVIOUS
<1>2. old \subseteq 1 .. Len(events)
  BY <1>1
<1>3. IsFiniteSet(1 .. Len(events))
  BY <1>1, FS_Interval
<1>4. Cardinality(old) \in Nat
  BY <1>2, <1>3, FS_Subset, FS_CardinalityType
<1> HIDE DEF old
<1>5. SubSeq(events, Cardinality(old) + 1, Len(events)) \in Seq(S)
  BY <1>1, <1>4
<1>6. QED
  BY <1>5 DEF Pruned, old

(* Sweeping typed events leaves such. *)
LEMMA SweptType ==
  ASSUME NEW S, recent \in [Users -> Seq(S)], NEW width
  PROVE  Swept(width) \in [Users -> Seq(S)]
<1>1. <<>> \in Seq(S)
  BY EmptySeq
<1>2. \A v \in Users : recent[v] \in Seq(S)
  OBVIOUS
<1>3. QED
  BY <1>1, <1>2 DEF Swept

(* The row of a strike recorded now. *)
LEMMA StruckType ==
  ASSUME NEW at \in Nat, NEW row \in [count : Nat, last : 0 .. at], NEW decay \in Nat
  PROVE  /\ Struck(row, at, decay) \in [count : Nat, last : 0 .. at]
         /\ Struck(row, at, decay).last = at
BY DEF Struck

(* A strike keeps both the row and the history typed. *)
LEMMA StrikeInType ==
  ASSUME TypeOK, NEW u \in Users, NEW id \in Nat, NEW decay \in Nat,
         NEW threshold \in Nat, StrikeIn(u, id, decay, threshold)
  PROVE  /\ strikes' \in [Users -> [count : Nat, last : 0 .. now]]
         /\ struck' \in [Users -> Seq(StrikeEvent)]
<1>1. Struck(strikes[u], now, decay) \in [count : Nat, last : 0 .. now]
  BY StruckType DEF TypeOK
<1>2. [id |-> id, at |-> now, decay |-> decay, threshold |-> threshold] \in StrikeEvent
  BY DEF TypeOK, StrikeEvent
<1>3. QED
  BY <1>1, <1>2 DEF StrikeIn, TypeOK

(* Every variable keeps its type. *)
THEOREM FiltersTyped == Spec => []TypeOK
<1>0. Idle \in Task /\ Idle.day = 0
  BY InputAssumption DEF Idle, Task, PCs
<1>1. ASSUME Init PROVE TypeOK
  <2>1. 0 \div DayLength = 0
    BY NumberAssumption
  <2>2. strikes \in [Users -> [count : Nat, last : 0 .. now]]
    BY <1>1 DEF Init, NoStrikes
  <2>3. usage \in [day : 0 .. Today, count : Nat] /\ \A t \in Workers : tasks[t].day <= Today
    BY <1>0, <1>1, <2>1 DEF Init, Today
  <2>4. tasks \in [Workers -> Task] /\ calls \in [Days -> Nat] /\ now \in 0 .. MaxTime
    BY <1>0, <1>1, NumberAssumption DEF Init
  <2>5. QED
    BY <1>1, <2>2, <2>3, <2>4, NumberAssumption DEF Init, TypeOK
<1>2. TypeOK /\ [Next]_vars => TypeOK'
  <2> SUFFICES ASSUME TypeOK, [Next]_vars PROVE TypeOK'
    OBVIOUS
  <2>0. Today \in Nat /\ now \in Nat
    BY DaysGoOn, NumberAssumption DEF TypeOK, Today
  <2>stim. ASSUME NEW op, Stimulus(op) PROVE stimuli' \in Nat
    BY <2>stim DEF Stimulus, TypeOK
  <2>00. now' = now => Today' = Today
    BY DEF Today
  <2>1. ASSUME NEW t \in Workers, NEW task \in Task, task.day <= Today, Goto(t, task),
               now' = now
        PROVE  /\ tasks' \in [Workers -> Task]
               /\ \A w \in Workers : tasks'[w].day <= Today'
    BY <2>1 DEF TypeOK, Goto, Today
  <2>2. ASSUME NEW t \in Workers, Ends(t), now' = now
        PROVE  /\ tasks' \in [Workers -> Task]
               /\ \A w \in Workers : tasks'[w].day <= Today'
    BY <1>0, <2>0, <2>1, <2>2 DEF Ends
  <2>3. ASSUME NEW t \in Workers, NEW pc \in PCs, Passes(t, pc), now' = now
        PROVE  /\ tasks' \in [Workers -> Task]
               /\ \A w \in Workers : tasks'[w].day <= Today'
    <3> DEFINE task == [Idle EXCEPT !.pc = pc, !.id = tasks[t].id, !.user = tasks[t].user,
                                    !.m = tasks[t].m]
    <3>1. task \in Task /\ task.day = 0
      BY <1>0 DEF TypeOK, Task
    <3>2. Goto(t, task)
      BY <2>3 DEF Passes
    <3> HIDE DEF task
    <3>3. task.day <= Today
      BY <2>0, <3>1
    <3>4. QED
      BY <2>1, <2>3, <3>1, <3>2, <3>3
  <2>4. ASSUME NEW t \in Workers, NEW pc \in PCs, Proceed(t, pc), now' = now
        PROVE  /\ tasks' \in [Workers -> Task]
               /\ \A w \in Workers : tasks'[w].day <= Today'
    <3>1. [tasks[t] EXCEPT !.pc = pc] \in Task /\ [tasks[t] EXCEPT !.pc = pc].day <= Today
      BY DEF TypeOK, Task
    <3>2. QED
      BY <2>1, <2>4, <3>1 DEF Proceed
  <2>5. ASSUME NEW t \in Workers, NEW task \in Task, task.day <= Today, ActOn(t, task),
               now' = now
        PROVE  /\ tasks' \in [Workers -> Task]
               /\ \A w \in Workers : tasks'[w].day <= Today'
    <3>1. [task EXCEPT !.pc = "strike"] \in Task /\ [task EXCEPT !.pc = "strike"].day <= Today
      BY <2>5 DEF Task, PCs
    <3>2. QED
      BY <2>1, <2>2, <2>5, <3>1 DEF ActOn
  <2>6. \A t \in Workers : /\ tasks[t] \in Task /\ tasks[t].day <= Today
    BY DEF TypeOK
  <2>7. {"automod", "duplicate", "ai", "reserve", "classify", "strike", "link",
         "linkStrike", "jail"} \subseteq PCs
    BY DEF PCs
  <2>8. cfg \in Settings
    BY InputAssumption DEF TypeOK
  <2>9. ASSUME NEW t \in Workers, NEW u \in Users, NEW m \in Messages, Post(t, u, m)
        PROVE  TypeOK'
    <3> DEFINE task == [Idle EXCEPT !.pc = "automod", !.id = posted', !.user = u, !.m = m]
    <3>1. posted' \in Nat
      BY <2>9 DEF Post, TypeOK
    <3>2. task \in Task /\ task.day = 0
      BY <1>0, <2>7, <3>1 DEF Task
    <3>3. /\ tasks' \in [Workers -> Task]
          /\ \A w \in Workers : tasks'[w].day <= Today'
      <4>1. Goto(t, task) /\ now' = now
        BY <2>9 DEF Post
      <4> HIDE DEF task
      <4>2. task.day <= Today
        BY <2>0, <3>2
      <4>3. QED
        BY <2>1, <3>2, <4>1, <4>2
    <3>4. QED
      BY <2>stim, <2>00, <2>9, <3>1, <3>3 DEF Post, TypeOK
  <2>10. ASSUME NEW u \in Users, NEW d \in FloodDecays, FloodStrike(u, d) PROVE TypeOK'
    <3>1. d \in Nat
      BY InputAssumption
    <3>2. /\ strikes' \in [Users -> [count : Nat, last : 0 .. now]]
          /\ struck' \in [Users -> Seq(StrikeEvent)]
      BY <2>10, <3>1, StrikeInType DEF FloodStrike
    <3>3. QED
      BY <2>stim, <2>00, <2>10, <3>2 DEF FloodStrike, TypeOK
  <2>11. ASSUME NEW u \in Users, ResetStrikes(u) PROVE TypeOK'
    <3>1. NoStrikes \in [count : Nat, last : 0 .. now]
      BY <2>0 DEF NoStrikes
    <3>2. strikes' \in [Users -> [count : Nat, last : 0 .. now]]
      BY <2>11, <3>1 DEF ResetStrikes, TypeOK
    <3>3. struck' \in [Users -> Seq(StrikeEvent)]
      BY <2>11, EmptySeq DEF ResetStrikes, TypeOK
    <3>4. QED
      BY <2>stim, <2>00, <2>11, <3>2, <3>3 DEF ResetStrikes, TypeOK
  <2>12. ASSUME NEW settings \in Inputs, Configure(settings) PROVE TypeOK'
    BY <2>stim, <2>00, <2>12 DEF Configure, TypeOK
  <2>13. CASE Crash
    <3>1. InFlight \subseteq Nat
      BY <2>6 DEF InFlight, Task
    <3>2. tasks' \in [Workers -> Task] /\ \A w \in Workers : tasks'[w].day <= Today'
      BY <2>00, <2>13, <1>0, <2>0 DEF Crash
    <3>3. QED
      BY <2>stim, <2>00, <2>13, <3>1, <3>2 DEF Crash, TypeOK
  <2>14. CASE Tick
    <3>1. now' \in 0 .. MaxTime /\ now' = now + 1
      BY <2>14, NumberAssumption DEF Tick, TypeOK
    <3>2. Today' \in Nat /\ Today <= Today'
      BY <3>1, <2>0, DaysGoOn, NumberAssumption DEF Today
    <3>3. usage' \in [day : 0 .. Today', count : Nat]
      BY <2>0, <2>14, <3>2 DEF Tick, TypeOK
    <3>4. \A t \in Workers : tasks'[t].day <= Today'
      <4> SUFFICES ASSUME NEW t \in Workers PROVE tasks[t].day <= Today'
        BY <2>14 DEF Tick
      <4>1. tasks[t].day \in Nat
        BY <2>6 DEF Task
      <4>2. QED
        BY <4>1, <2>6, <2>0, <3>2
    <3>5. recent' \in [Users -> Seq([text : Nat \ {0}, at : 0 .. now'])]
      <4>1. [text : Nat \ {0}, at : 0 .. now] \subseteq [text : Nat \ {0}, at : 0 .. now']
        BY <2>0, <3>1
      <4>2. \A s \in Seq([text : Nat \ {0}, at : 0 .. now]) :
              s \in Seq([text : Nat \ {0}, at : 0 .. now'])
        BY <4>1, SeqMonotonic
      <4>3. QED
        BY <2>14, <4>2 DEF Tick, TypeOK
    <3>6. strikes' \in [Users -> [count : Nat, last : 0 .. now']]
      BY <2>0, <2>14, <3>1 DEF Tick, TypeOK
    <3>7. QED
      BY <2>14, <3>1, <3>3, <3>4, <3>5, <3>6 DEF Tick, TypeOK
  <2>15. ASSUME NEW t \in Workers, Automod(t) PROVE TypeOK'
    <3> DEFINE task == [tasks[t] EXCEPT !.strikes = cfg.automod.strikes,
                                        !.duplicates = cfg.automod.duplicates,
                                        !.window = cfg.automod.window]
    <3>1. task \in Task /\ task.day <= Today
      BY <2>6, <2>8 DEF Task, Settings, AutomodSettings
    <3>2. [task EXCEPT !.pc = "duplicate"] \in Task
          /\ [task EXCEPT !.pc = "duplicate"].day <= Today
      BY <2>7, <3>1 DEF Task
    <3> HIDE DEF task
    <3>3. \/ ActOn(t, task) \/ Goto(t, [task EXCEPT !.pc = "duplicate"])
          \/ Passes(t, "ai")
      BY <2>15 DEF Automod, task
    <3>4. now' = now
      BY <2>15 DEF Automod
    <3>5. /\ tasks' \in [Workers -> Task]
          /\ \A w \in Workers : tasks'[w].day <= Today'
      BY <2>1, <2>3, <2>5, <2>7, <3>1, <3>2, <3>3, <3>4
    <3>6. QED
      BY <2>00, <2>15, <3>5 DEF Automod, TypeOK
  <2>28. ASSUME NEW t \in Workers, BlankText(t) PROVE TypeOK'
    <3>1. /\ tasks' \in [Workers -> Task]
          /\ \A w \in Workers : tasks'[w].day <= Today'
      BY <2>3, <2>7, <2>28 DEF BlankText
    <3>2. QED
      BY <2>00, <2>28, <3>1 DEF BlankText, TypeOK
  <2>29. ASSUME NEW w \in OtherWindows, OtherGuild(w) PROVE TypeOK'
    <3>1. recent' \in [Users -> Seq([text : Nat \ {0}, at : 0 .. now])]
      BY <2>29, SweptType DEF OtherGuild, TypeOK
    <3>2. QED
      BY <2>stim, <2>00, <2>29, <3>1 DEF OtherGuild, TypeOK
  <2>16. ASSUME NEW t \in Workers, NEW memory, Duplicate(t, memory) PROVE TypeOK'
    <3> DEFINE u == tasks[t].user
               event == [text |-> tasks[t].m.text, at |-> now]
               events == Append(Pruned(memory[u], tasks[t].window), event)
    <3>0. memory \in [Users -> Seq([text : Nat \ {0}, at : 0 .. now])]
      <4>1. memory = recent \/ memory = Swept(tasks[t].window)
        BY <2>16 DEF Duplicate
      <4>2. recent \in [Users -> Seq([text : Nat \ {0}, at : 0 .. now])]
        BY DEF TypeOK
      <4>3. QED
        BY <4>1, <4>2, SweptType
    <3>1. u \in Users /\ tasks[t].m \in Trait
      BY <2>6, InputAssumption DEF Task
    <3>2. \/ Passes(t, "ai") \/ ActOn(t, tasks[t])
      BY <2>16 DEF Duplicate
    <3>3. now' = now
      BY <2>16 DEF Duplicate
    <3>4. /\ tasks' \in [Workers -> Task]
          /\ \A w \in Workers : tasks'[w].day <= Today'
      BY <2>3, <2>5, <2>6, <2>7, <3>2, <3>3
    <3>5. /\ ~Blank(tasks[t].m)
          /\ events \in Seq([text : Nat \ {0}, at : 0 .. now])
          /\ event \in TextEvent
      <4>1. ~Blank(tasks[t].m)
        BY <2>16 DEF Duplicate
      <4>2. event \in [text : Nat \ {0}, at : 0 .. now] /\ event \in TextEvent
        BY <2>0, <3>1, <4>1 DEF Blank, Trait, TextEvent
      <4>3. Pruned(memory[u], tasks[t].window) \in Seq([text : Nat \ {0}, at : 0 .. now])
        BY <3>0, <3>1, PrunedType
      <4>4. QED
        BY <4>1, <4>2, <4>3
    <3>6. /\ recent' \in [Users -> Seq([text : Nat \ {0}, at : 0 .. now])]
          /\ seen' \in [Users -> Seq(TextEvent)]
      <4>2. CASE /\ recent' = [memory EXCEPT ![u] = events]
                 /\ seen' = [seen EXCEPT ![u] = Append(@, event)]
        <5>1. recent' \in [Users -> Seq([text : Nat \ {0}, at : 0 .. now])]
          BY <3>0, <3>1, <3>5, <4>2
        <5>2. Append(seen[u], event) \in Seq(TextEvent)
          BY <3>1, <3>5, <4>2 DEF TypeOK
        <5>3. seen' \in [Users -> Seq(TextEvent)]
          BY <3>1, <4>2, <5>2 DEF TypeOK
        <5>4. QED
          BY <5>1, <5>3
      <4>3. CASE /\ recent' = [memory EXCEPT ![u] = <<>>]
                 /\ seen' = [seen EXCEPT ![u] = <<>>]
        BY <3>0, <4>3, EmptySeq DEF TypeOK
      <4>4. QED
        BY <2>16, <4>2, <4>3 DEF Duplicate
    <3>7. QED
      BY <2>00, <2>16, <3>4, <3>6 DEF Duplicate, TypeOK
  <2>17. ASSUME NEW t \in Workers, ContentStrike(t) PROVE TypeOK'
    <3>1. tasks[t].id \in Nat /\ tasks[t].user \in Users
      BY <2>6 DEF Task
    <3>2. /\ strikes' \in [Users -> [count : Nat, last : 0 .. now]]
          /\ struck' \in [Users -> Seq(StrikeEvent)]
          /\ faults' \in Nat
      <4>1. CASE StrikeIn(tasks[t].user, tasks[t].id, 0, 0) /\ NoFault
        BY <3>1, <4>1, StrikeInType DEF NoFault, TypeOK
      <4>2. CASE NoStrike /\ Fault
        BY <4>2 DEF NoStrike, Fault, TypeOK
      <4>3. QED
        BY <2>17, <4>1, <4>2 DEF ContentStrike
    <3>3. /\ tasks' \in [Workers -> Task]
          /\ \A w \in Workers : tasks'[w].day <= Today'
      BY <2>2, <2>17 DEF ContentStrike
    <3>4. QED
      BY <2>00, <2>17, <3>2, <3>3 DEF ContentStrike, TypeOK
  <2>18. ASSUME NEW t \in Workers, Ai(t) PROVE TypeOK'
    <3> DEFINE task == [tasks[t] EXCEPT !.pc = "reserve", !.strikes = cfg.ai.strikes,
                                        !.cap = cfg.ai.cap, !.day = Today]
    <3>1. task \in Task /\ task.day <= Today
      <4>1. cfg.ai.strikes \in BOOLEAN /\ cfg.ai.cap \in Nat
        BY <2>8 DEF Settings, AiSettings
      <4>2. tasks[t] \in Task /\ "reserve" \in PCs
        BY <2>6, <2>7
      <4>3. [tasks[t] EXCEPT !.pc = "reserve"] \in Task
        BY <4>2 DEF Task
      <4>4. [[tasks[t] EXCEPT !.pc = "reserve"] EXCEPT !.strikes = cfg.ai.strikes] \in Task
        BY <4>1, <4>3 DEF Task
      <4>5. task \in Task
        BY <2>0, <4>1, <4>4 DEF Task
      <4>6. task.day = Today
        BY <4>2 DEF Task
      <4>7. QED
        BY <2>0, <4>5, <4>6
    <3>2. Goto(t, task) \/ Passes(t, "link")
      BY <2>18 DEF Ai
    <3>3. now' = now
      BY <2>18 DEF Ai
    <3>4. /\ tasks' \in [Workers -> Task]
          /\ \A w \in Workers : tasks'[w].day <= Today'
      BY <2>1, <2>3, <2>7, <3>1, <3>2, <3>3
    <3>5. QED
      BY <2>00, <2>18, <3>4 DEF Ai, TypeOK
  <2>19. ASSUME NEW t \in Workers, Reserve(t) PROVE TypeOK'
    <3> DEFINE day == tasks[t].day
    <3>1. day \in 0 .. Today /\ day \in Nat /\ Used(day) \in Nat
      BY <2>0, <2>6 DEF Task, Used, TypeOK
    <3>2. Proceed(t, "classify") \/ Passes(t, "link")
      BY <2>19 DEF Reserve
    <3>3. now' = now
      BY <2>19 DEF Reserve
    <3>4. /\ tasks' \in [Workers -> Task]
          /\ \A w \in Workers : tasks'[w].day <= Today'
      BY <2>3, <2>4, <2>7, <3>2, <3>3
    <3>5. /\ usage' \in [day : 0 .. Today, count : Nat]
          /\ calls' \in [Days -> Nat] /\ late' \subseteq Nat
      <4>1. CASE UNCHANGED <<usage, calls, late>>
        BY <4>1 DEF TypeOK
      <4>2. CASE /\ usage' = [day |-> day, count |-> Used(day) + 1]
                 /\ calls' = [calls EXCEPT ![day] = @ + 1]
                 /\ late' = IF day < usage.day THEN late \cup (day .. usage.day) ELSE late
        <5>1. usage' \in [day : 0 .. Today, count : Nat]
          BY <2>0, <3>1, <4>2
        <5>2. calls' \in [Days -> Nat]
          <6>1. calls \in [Days -> Nat]
            BY DEF TypeOK
          <6>2. \A d \in Days : [calls EXCEPT ![day] = @ + 1][d] \in Nat
            BY <6>1
          <6>3. [calls EXCEPT ![day] = @ + 1] \in [Days -> Nat]
            BY <6>1, <6>2
          <6>4. QED
            BY <4>2, <6>3
        <5>3. usage.day \in Nat
          BY <2>0 DEF TypeOK
        <5>4. late' \subseteq Nat
          <6>1. late \subseteq Nat
            BY DEF TypeOK
          <6>2. day .. usage.day \subseteq Nat
            BY <3>1, <5>3
          <6>3. QED
            BY <4>2, <6>1, <6>2
        <5>5. QED
          BY <5>1, <5>2, <5>4
      <4>3. QED
        BY <2>19, <4>1, <4>2 DEF Reserve
    <3>6. faults' \in Nat
      BY <2>19 DEF Reserve, Fault, NoFault, TypeOK
    <3>7. QED
      BY <2>00, <2>19, <3>4, <3>5, <3>6 DEF Reserve, TypeOK
  <2>20. ASSUME NEW t \in Workers, Classify(t) PROVE TypeOK'
    <3>1. ActOn(t, tasks[t]) \/ Passes(t, "link")
      BY <2>20 DEF Classify
    <3>2. now' = now
      BY <2>20 DEF Classify
    <3>3. /\ tasks' \in [Workers -> Task]
          /\ \A w \in Workers : tasks'[w].day <= Today'
      BY <2>3, <2>5, <2>6, <2>7, <3>1, <3>2
    <3>4. faults' \in Nat
      BY <2>20 DEF Classify, Fault, NoFault, TypeOK
    <3>5. QED
      BY <2>00, <2>20, <3>3, <3>4 DEF Classify, TypeOK
  <2>21. ASSUME NEW t \in Workers, Link(t) PROVE TypeOK'
    <3> DEFINE task == [tasks[t] EXCEPT !.pc = "linkStrike",
                                        !.threshold = cfg.link.threshold,
                                        !.decay = cfg.link.decay]
    <3>1. task \in Task /\ task.day <= Today
      BY <2>6, <2>7, <2>8 DEF Task, Settings, LinkSettings
    <3>2. Goto(t, task) \/ Ends(t)
      BY <2>21 DEF Link
    <3>3. now' = now
      BY <2>21 DEF Link
    <3>4. /\ tasks' \in [Workers -> Task]
          /\ \A w \in Workers : tasks'[w].day <= Today'
      BY <2>1, <2>2, <3>1, <3>2, <3>3
    <3>5. QED
      BY <2>00, <2>21, <3>4 DEF Link, TypeOK
  <2>22. ASSUME NEW t \in Workers, LinkStrike(t) PROVE TypeOK'
    <3>1. /\ tasks[t].id \in Nat /\ tasks[t].user \in Users
          /\ tasks[t].decay \in Nat /\ tasks[t].threshold \in Nat
      BY <2>6 DEF Task
    <3>2. /\ strikes' \in [Users -> [count : Nat, last : 0 .. now]]
          /\ struck' \in [Users -> Seq(StrikeEvent)]
          /\ faults' \in Nat
      <4>1. CASE /\ StrikeIn(tasks[t].user, tasks[t].id, tasks[t].decay, tasks[t].threshold)
                 /\ NoFault
        BY <3>1, <4>1, StrikeInType DEF NoFault, TypeOK
      <4>2. CASE NoStrike /\ Fault
        BY <4>2 DEF NoStrike, Fault, TypeOK
      <4>3. QED
        BY <2>22, <4>1, <4>2 DEF LinkStrike
    <3>3. Proceed(t, "jail") \/ Ends(t)
      BY <2>22 DEF LinkStrike
    <3>4. now' = now
      BY <2>22 DEF LinkStrike
    <3>5. /\ tasks' \in [Workers -> Task]
          /\ \A w \in Workers : tasks'[w].day <= Today'
      BY <2>2, <2>4, <2>7, <3>3, <3>4
    <3>6. QED
      BY <2>00, <2>22, <3>2, <3>5 DEF LinkStrike, TypeOK
  <2>23. ASSUME NEW t \in Workers, AskJail(t) PROVE TypeOK'
    <3>1. tasks[t].id \in Nat
      BY <2>6 DEF Task
    <3>2. /\ tasks' \in [Workers -> Task]
          /\ \A w \in Workers : tasks'[w].day <= Today'
      BY <2>2, <2>23 DEF AskJail
    <3>3. QED
      BY <2>00, <2>23, <3>1, <3>2 DEF AskJail, TypeOK
  <2>24. CASE UNCHANGED vars
    BY <2>00, <2>24 DEF vars, TypeOK
  <2>25. QED
    BY <2>9, <2>10, <2>11, <2>12, <2>13, <2>14, <2>15, <2>16, <2>17, <2>18, <2>19,
       <2>20, <2>21, <2>22, <2>23, <2>24, <2>28, <2>29 DEF Next, TaskStep
<1>3. QED
  BY <1>1, <1>2, PTL DEF Spec

-----------------------------------------------------------------------------
(***************************************************************************)
(* The row of a user counts the strikes since the streak was last broken:  *)
(* no strike of the history is missing from it.                            *)
(***************************************************************************)
Counts(row, history) ==
  /\ row.count <= Len(history)
  /\ Len(history) > 0 => row.count > 0 /\ row.last = history[Len(history)].at
  /\ row.count < Len(history) => Breaks(history, Len(history) - row.count + 1)

RowsCount == \A u \in Users : Counts(strikes[u], struck[u])

(* One more strike is counted, and the one that completes a streak is      *)
(* counted as its last.                                                    *)
LEMMA OneMoreStrike ==
  ASSUME NEW history \in Seq(StrikeEvent), NEW e \in StrikeEvent,
         NEW row \in [count : Nat, last : Nat], Counts(row, history)
  PROVE  LET after == Struck(row, e.at, e.decay)  longer == Append(history, e) IN
         /\ Counts(after, longer)
         /\ Completes(longer, Len(longer)) => after.count >= e.threshold
<1> DEFINE after == Struck(row, e.at, e.decay)
           longer == Append(history, e)
           n == Len(history)
<1>1. n \in Nat /\ Len(longer) = n + 1 /\ longer[n + 1] = e
  OBVIOUS
<1>2. \A i \in 1 .. n : longer[i] = history[i] /\ longer[i] \in StrikeEvent
  OBVIOUS
<1>3. \A k \in 2 .. n : Breaks(longer, k) <=> Breaks(history, k)
  <2> SUFFICES ASSUME NEW k \in 2 .. n PROVE Breaks(longer, k) <=> Breaks(history, k)
    OBVIOUS
  <2>1. k \in 1 .. n /\ k - 1 \in 1 .. n
    BY <1>1
  <2>2. longer[k] = history[k] /\ longer[k - 1] = history[k - 1]
    BY <1>2, <2>1
  <2>3. QED
    BY <2>2 DEF Breaks
<1>4. e.at \in Nat /\ e.decay \in Nat /\ e.threshold \in Nat
  BY DEF StrikeEvent
<1>5. row.count \in Nat /\ row.last \in Nat
  OBVIOUS
<1>6. after.last = e.at
  BY DEF Struck
<1>7. after.count = IF Lapsed(row, e.at, e.decay) THEN 1 ELSE row.count + 1
  BY DEF Struck
<1>8. Completes(longer, n + 1) <=>
        /\ e.threshold \in 1 .. n + 1
        /\ \A k \in n + 3 - e.threshold .. n + 1 : ~Breaks(longer, k)
  BY <1>1, <1>4 DEF Completes
<1>9. CASE n = 0
  <2>1. after.count = 1
    BY <1>5, <1>7, <1>9 DEF Counts
  <2>2. Counts(after, longer)
    BY <1>1, <1>6, <1>9, <2>1 DEF Counts
  <2>3. QED
    BY <1>1, <1>4, <1>8, <1>9, <2>1, <2>2
<1>10. CASE n > 0
  <2>1. row.count > 0 /\ row.count <= n /\ row.last = history[n].at
    BY <1>10 DEF Counts
  <2>2. Breaks(longer, n + 1) <=> Lapsed(row, e.at, e.decay)
    <3>1. longer[n + 1 - 1] = history[n]
      BY <1>1, <1>2, <1>10
    <3>2. QED
      BY <1>1, <2>1, <3>1 DEF Breaks, Lapsed
  <2>3. row.count < n => Breaks(longer, n - row.count + 1)
    <3>1. row.count < n => n - row.count + 1 \in 2 .. n
      BY <1>1, <1>5, <2>1
    <3>2. QED
      BY <1>3, <3>1 DEF Counts
  <2> HIDE DEF longer, n, after
  <2>4. CASE Lapsed(row, e.at, e.decay)
    <3>1. after.count = 1
      BY <1>7, <2>4
    <3>2. Breaks(longer, Len(longer) - 1 + 1)
      BY <1>1, <2>2, <2>4
    <3>3. Counts(after, longer)
      BY <1>1, <1>6, <3>1, <3>2 DEF Counts
    <3>4. Completes(longer, n + 1) => e.threshold = 1
      <4> SUFFICES ASSUME Completes(longer, n + 1), e.threshold # 1 PROVE FALSE
        OBVIOUS
      <4>1. n + 1 \in n + 3 - e.threshold .. n + 1
        BY <1>1, <1>4, <1>8
      <4>2. QED
        BY <1>8, <2>2, <2>4, <4>1
    <3>5. QED
      BY <1>1, <3>1, <3>3, <3>4 DEF longer, after
  <2>5. CASE ~Lapsed(row, e.at, e.decay)
    <3>1. after.count = row.count + 1
      BY <1>7, <2>5
    <3>2. after.count < Len(longer) => Breaks(longer, Len(longer) - after.count + 1)
      <4>1. ASSUME row.count < n PROVE Len(longer) - after.count + 1 = n - row.count + 1
        BY <1>1, <1>5, <3>1
      <4>2. QED
        BY <1>1, <1>5, <2>3, <3>1, <4>1
    <3>3. Counts(after, longer)
      <4>1. after.count <= Len(longer) /\ after.count > 0
        BY <1>1, <1>5, <2>1, <3>1
      <4>2. after.last = longer[Len(longer)].at
        BY <1>1, <1>6
      <4>3. QED
        BY <3>2, <4>1, <4>2 DEF Counts
    <3>4. Completes(longer, n + 1) => after.count >= e.threshold
      <4> SUFFICES ASSUME Completes(longer, n + 1), row.count + 1 < e.threshold PROVE FALSE
        BY <1>4, <1>5, <3>1
      <4>1. row.count < n
        BY <1>1, <1>4, <1>5, <1>8
      <4>2. n - row.count + 1 \in n + 3 - e.threshold .. n + 1
        BY <1>1, <1>4, <1>5, <4>1, <2>1
      <4>3. QED
        BY <1>8, <2>3, <4>1, <4>2
    <3>5. QED
      BY <1>1, <3>3, <3>4 DEF longer, after
  <2>6. QED
    BY <2>4, <2>5
<1>11. QED
  BY <1>1, <1>9, <1>10

Pending == settled \cup InFlight

(* A jail that is due is carried out or cut off by a restart: no step      *)
(* forgets it.                                                             *)
LEMMA PendingGrows ==
  ASSUME TypeOK, [Next]_vars
  PROVE  Pending \subseteq Pending'
<1>1. ASSUME NEW t \in Workers, NEW task, tasks[t].pc # "jail",
             tasks' = [tasks EXCEPT ![t] = task], settled' = settled
      PROVE  Pending \subseteq Pending'
  <2>1. \A w \in Workers : tasks[w].pc = "jail" => tasks'[w] = tasks[w]
    BY <1>1 DEF TypeOK
  <2>2. QED
    BY <1>1, <2>1 DEF Pending, InFlight
<1>2. ASSUME tasks' = tasks, settled' = settled
      PROVE  Pending \subseteq Pending'
  BY <1>2 DEF Pending, InFlight
<1>3. ASSUME NEW t \in Workers, NEW u \in Users, NEW m \in Messages, Post(t, u, m)
      PROVE  Pending \subseteq Pending'
  BY <1>1, <1>3 DEF Post, Free, Goto
<1>4. ASSUME NEW u \in Users, NEW d \in FloodDecays, FloodStrike(u, d)
      PROVE  Pending \subseteq Pending'
  BY <1>2, <1>4 DEF FloodStrike
<1>5. ASSUME NEW u \in Users, ResetStrikes(u) PROVE Pending \subseteq Pending'
  BY <1>2, <1>5 DEF ResetStrikes
<1>6. ASSUME NEW settings \in Inputs, Configure(settings)
      PROVE  Pending \subseteq Pending'
  BY <1>2, <1>6 DEF Configure
<1>13. ASSUME NEW w \in OtherWindows, OtherGuild(w) PROVE Pending \subseteq Pending'
  BY <1>2, <1>13 DEF OtherGuild
<1>7. CASE Crash
  BY <1>7 DEF Crash, Pending
<1>8. CASE Tick
  BY <1>2, <1>8 DEF Tick
<1>9. ASSUME NEW t \in Workers, TaskStep(t), ~AskJail(t) PROVE Pending \subseteq Pending'
  <2>1. tasks[t].pc # "jail" /\ settled' = settled
    BY <1>9 DEF TaskStep, Automod, BlankText, Duplicate, ContentStrike, Ai, Reserve,
                Classify, Link, LinkStrike
  <2>2. \E task : tasks' = [tasks EXCEPT ![t] = task]
    <3>1. \/ Ends(t) \/ (\E pc : Passes(t, pc)) \/ (\E pc : Proceed(t, pc))
          \/ (\E task : Goto(t, task)) \/ (\E task : ActOn(t, task))
      BY <1>9 DEF TaskStep, Automod, BlankText, Duplicate, ContentStrike, Ai, Reserve,
                  Classify, Link, LinkStrike
    <3>2. QED
      BY <3>1 DEF Ends, Passes, Proceed, ActOn, Goto
  <2>3. QED
    BY <1>1, <2>1, <2>2
<1>10. ASSUME NEW t \in Workers, AskJail(t) PROVE Pending \subseteq Pending'
  <2>1. \A w \in Workers : w # t => tasks'[w] = tasks[w]
    BY <1>10 DEF AskJail, Ends, Goto, TypeOK
  <2>2. QED
    BY <1>10, <2>1 DEF AskJail, Pending, InFlight
<1>11. CASE UNCHANGED vars
  BY <1>2, <1>11 DEF vars
<1>12. QED
  BY <1>3, <1>4, <1>5, <1>6, <1>7, <1>8, <1>9, <1>10, <1>11, <1>13 DEF Next

(* A strike is counted, and is followed by a jail if it completes a streak.*)
LEMMA StrikeIsCounted ==
  ASSUME TypeOK, RowsCount, NoMissedJail, NEW u \in Users, NEW id \in Nat,
         NEW decay \in Nat, NEW threshold \in Nat, StrikeIn(u, id, decay, threshold),
         Pending \subseteq Pending',
         threshold = 0 \/ (strikes'[u].count >= threshold => id \in Pending')
  PROVE  RowsCount' /\ NoMissedJail'
<1> DEFINE e == [id |-> id, at |-> now, decay |-> decay, threshold |-> threshold]
           n == Len(struck[u])
<1>1. e \in StrikeEvent /\ struck[u] \in Seq(StrikeEvent)
      /\ strikes[u] \in [count : Nat, last : Nat]
  BY DEF TypeOK, StrikeEvent
<1>2. strikes'[u] = Struck(strikes[u], now, decay) /\ struck'[u] = Append(struck[u], e)
  BY DEF StrikeIn, TypeOK
<1>3. \A w \in Users \ {u} : strikes'[w] = strikes[w] /\ struck'[w] = struck[w]
  BY DEF StrikeIn, TypeOK
<1>4. Counts(strikes[u], struck[u])
  BY DEF RowsCount
<1>5. /\ Counts(strikes'[u], struck'[u])
      /\ Completes(struck'[u], Len(struck'[u])) => strikes'[u].count >= threshold
  BY <1>1, <1>2, <1>4, OneMoreStrike
<1>6. RowsCount'
  BY <1>3, <1>5 DEF RowsCount
<1>7. NoMissedJail'
  <2> SUFFICES ASSUME NEW w \in Users, NEW i \in DOMAIN struck'[w],
                      Completes(struck'[w], i)
               PROVE  struck'[w][i].id \in Pending'
    BY DEF NoMissedJail, Pending
  <2>1. CASE w # u
    BY <1>3, <2>1 DEF NoMissedJail, Pending
  <2>2. CASE w = u /\ i = n + 1
    <3>1. struck'[w][i] = e /\ Len(struck'[w]) = i
      BY <1>1, <1>2, <2>2
    <3>2. threshold # 0
      BY <1>1, <2>2, <3>1 DEF Completes
    <3>3. QED
      BY <1>5, <2>2, <3>1, <3>2
  <2>3. CASE w = u /\ i # n + 1
    <3>1. i \in 1 .. n /\ n \in Nat
      BY <1>1, <1>2, <2>3
    <3>2. \A k \in 1 .. n : struck'[u][k] = struck[u][k]
      BY <1>1, <1>2
    <3>3. struck[u][i].threshold \in 1 .. i
      BY <2>3, <3>1, <3>2 DEF Completes
    <3>4. \A k \in (i - struck[u][i].threshold + 2) .. i : ~Breaks(struck[u], k)
      <4> SUFFICES ASSUME NEW k \in (i - struck[u][i].threshold + 2) .. i
                   PROVE  ~Breaks(struck[u], k)
        OBVIOUS
      <4>1. k \in 1 .. n /\ k - 1 \in 1 .. n
        BY <3>1, <3>3
      <4>2. ~Breaks(struck'[u], k)
        BY <2>3, <3>1, <3>2 DEF Completes
      <4>3. QED
        BY <3>2, <4>1, <4>2 DEF Breaks
    <3>5. Completes(struck[u], i)
      BY <3>3, <3>4 DEF Completes
    <3>6. struck[u][i].id \in Pending
      BY <1>1, <3>1, <3>5 DEF NoMissedJail, Pending
    <3>7. QED
      BY <2>3, <3>1, <3>2, <3>6
  <2>4. QED
    BY <2>1, <2>2, <2>3
<1>8. QED
  BY <1>6, <1>7

(* The link strike that completes a streak sends its user to jail. *)
THEOREM NoJailIsMissed == Spec => []NoMissedJail
<1> DEFINE IInv == RowsCount /\ NoMissedJail
<1>1. ASSUME Init PROVE IInv
  BY <1>1 DEF Init, RowsCount, NoMissedJail, Counts, NoStrikes
<1>2. TypeOK /\ IInv /\ [Next]_vars => IInv'
  <2> SUFFICES ASSUME TypeOK, IInv, [Next]_vars PROVE IInv'
    OBVIOUS
  <2>1. Pending \subseteq Pending'
    BY PendingGrows
  <2>2. CASE UNCHANGED <<strikes, struck>>
    <3>1. RowsCount'
      BY <2>2 DEF RowsCount
    <3>2. NoMissedJail'
      BY <2>1, <2>2 DEF NoMissedJail, Pending
    <3>3. QED
      BY <3>1, <3>2
  <2>3. ASSUME NEW u \in Users, NEW d \in FloodDecays, FloodStrike(u, d) PROVE IInv'
    <3>1. d \in Nat
      BY InputAssumption
    <3>2. StrikeIn(u, 0, d, 0)
      BY <2>3 DEF FloodStrike
    <3>3. QED
      BY <2>1, <3>1, <3>2, StrikeIsCounted
  <2>4. ASSUME NEW u \in Users, ResetStrikes(u) PROVE IInv'
    <3>1. strikes'[u] = NoStrikes /\ struck'[u] = <<>>
      BY <2>4 DEF ResetStrikes, TypeOK
    <3>2. \A w \in Users \ {u} : strikes'[w] = strikes[w] /\ struck'[w] = struck[w]
      BY <2>4 DEF ResetStrikes, TypeOK
    <3>3. Counts(strikes'[u], struck'[u])
      BY <3>1 DEF Counts, NoStrikes
    <3>4. RowsCount'
      BY <3>2, <3>3 DEF RowsCount
    <3>5. NoMissedJail'
      BY <2>1, <3>1, <3>2 DEF NoMissedJail, Pending
    <3>6. QED
      BY <3>4, <3>5
  <2>5. ASSUME NEW t \in Workers, ContentStrike(t) PROVE IInv'
    <3>1. tasks[t].user \in Users /\ tasks[t].id \in Nat
      BY DEF TypeOK, Task
    <3>2. CASE NoStrike
      BY <2>2, <3>2 DEF NoStrike
    <3>3. CASE StrikeIn(tasks[t].user, tasks[t].id, 0, 0)
      BY <2>1, <3>1, <3>3, StrikeIsCounted
    <3>4. QED
      BY <2>5, <3>2, <3>3 DEF ContentStrike
  <2>6. ASSUME NEW t \in Workers, LinkStrike(t) PROVE IInv'
    <3>1. /\ tasks[t].user \in Users /\ tasks[t].id \in Nat
          /\ tasks[t].decay \in Nat /\ tasks[t].threshold \in Nat
      BY DEF TypeOK, Task
    <3>2. CASE NoStrike
      BY <2>2, <3>2 DEF NoStrike
    <3>3. CASE ~NoStrike
      <4>1. /\ StrikeIn(tasks[t].user, tasks[t].id, tasks[t].decay, tasks[t].threshold)
            /\ strikes'[tasks[t].user].count >= tasks[t].threshold => Proceed(t, "jail")
        BY <2>6, <3>3 DEF LinkStrike, Reached
      <4>2. Proceed(t, "jail") => tasks[t].id \in Pending'
        <5> SUFFICES ASSUME Proceed(t, "jail") PROVE tasks[t].id \in InFlight'
          BY DEF Pending
        <5>1. tasks'[t].pc = "jail" /\ tasks'[t].id = tasks[t].id
          BY DEF Proceed, Goto, TypeOK, Task
        <5>2. QED
          BY <5>1 DEF InFlight
      <4>3. QED
        BY <2>1, <3>1, <4>1, <4>2, StrikeIsCounted
    <3>4. QED
      BY <3>2, <3>3
  <2>7. ASSUME NEW t \in Workers, TaskStep(t), ~ContentStrike(t), ~LinkStrike(t)
        PROVE  UNCHANGED <<strikes, struck>>
    BY <2>7 DEF TaskStep, Automod, BlankText, Duplicate, Ai, Reserve, Classify, Link, AskJail
  <2>8. ASSUME NEW t \in Workers, NEW u \in Users, NEW m \in Messages, Post(t, u, m)
        PROVE  UNCHANGED <<strikes, struck>>
    BY <2>8 DEF Post
  <2>9. ASSUME NEW settings \in Inputs, Configure(settings)
        PROVE  UNCHANGED <<strikes, struck>>
    BY <2>9 DEF Configure
  <2>12. ASSUME NEW w \in OtherWindows, OtherGuild(w) PROVE UNCHANGED <<strikes, struck>>
    BY <2>12 DEF OtherGuild
  <2>10. Crash \/ Tick \/ UNCHANGED vars => UNCHANGED <<strikes, struck>>
    BY DEF Crash, Tick, vars
  <2>11. QED
    BY <2>2, <2>3, <2>4, <2>5, <2>6, <2>7, <2>8, <2>9, <2>10, <2>12 DEF Next
<1>3. Spec => []TypeOK
  BY FiltersTyped
<1>4. QED
  BY <1>1, <1>2, <1>3, PTL DEF Spec

-----------------------------------------------------------------------------
(* Whose step it was. *)

(* A task that was busy, and is busy with something else, made the step.   *)
LEMMA ItsOwnStep ==
  ASSUME TypeOK, Next, NEW t \in Workers, tasks[t].pc # "idle",
         tasks'[t].pc # tasks[t].pc, tasks'[t].pc # "idle"
  PROVE  TaskStep(t)
<1>1. Idle.pc = "idle"
  BY DEF Idle
<1>2. ASSUME NEW w \in Workers, w # t, NEW task, Goto(w, task) PROVE FALSE
  BY <1>2 DEF Goto, TypeOK
<1>3. ASSUME NEW w \in Workers, TaskStep(w) PROVE w = t
  <2>1. \E task : Goto(w, task)
    BY <1>3 DEF TaskStep, Automod, BlankText, Duplicate, ContentStrike, Ai, Reserve,
                Classify, Link, LinkStrike, AskJail, ActOn, Passes, Proceed, Ends
  <2>2. QED
    BY <1>2, <2>1
<1>4. ASSUME NEW w \in Workers, NEW u \in Users, NEW m \in Messages, Post(w, u, m)
      PROVE  FALSE
  BY <1>2, <1>4 DEF Post, Free
<1>5. ASSUME Crash PROVE FALSE
  BY <1>1, <1>5 DEF Crash
<1>6. ASSUME UNCHANGED tasks PROVE FALSE
  BY <1>6
<1>7. QED
  BY <1>3, <1>4, <1>5, <1>6 DEF Next, FloodStrike, ResetStrikes, OtherGuild, Configure, Tick

-----------------------------------------------------------------------------
(* Repeated texts. *)

(* Only messages that are too old are pruned.                              *)
LEMMA PrunedFront ==
  ASSUME NEW S, NEW events \in Seq(S), NEW width
  PROVE  \E c \in 0 .. Len(events) :
           /\ Pruned(events, width) = SubSeq(events, c + 1, Len(events))
           /\ \A j \in 1 .. c : events[j].at < Cutoff(width)
<1> DEFINE old == {i \in DOMAIN events : \A j \in 1 .. i : events[j].at < Cutoff(width)}
           c == Cardinality(old)
<1>1. Len(events) \in Nat /\ DOMAIN events = 1 .. Len(events)
  OBVIOUS
<1>2. \A i \in old : /\ i \in Nat /\ 1 .. i \subseteq old
                     /\ \A j \in 1 .. i : events[j].at < Cutoff(width)
  BY <1>1
<1>3. old \subseteq 1 .. Len(events)
  BY <1>1
<1>4. Pruned(events, width) = SubSeq(events, c + 1, Len(events))
  BY DEF Pruned
<1> HIDE DEF old
<1>5. IsFiniteSet(1 .. Len(events)) /\ Cardinality(1 .. Len(events)) = Len(events)
  BY <1>1, FS_Interval
<1>6. IsFiniteSet(old) /\ c \in Nat /\ c <= Len(events)
  BY <1>3, <1>5, FS_Subset, FS_CardinalityType
<1>7. \A i \in old : i <= c
  <2> SUFFICES ASSUME NEW i \in old PROVE i <= c
    OBVIOUS
  <2>1. Cardinality(1 .. i) = i
    BY <1>2, FS_Interval
  <2>2. QED
    BY <1>2, <1>6, <2>1, FS_Subset
<1>8. old \subseteq 1 .. c
  BY <1>3, <1>6, <1>7
<1>9. IsFiniteSet(1 .. c) /\ Cardinality(1 .. c) = c
  BY <1>6, FS_Interval
<1>10. old = 1 .. c
  BY <1>8, <1>9, FS_Subset
<1> HIDE DEF c
<1>11. \A j \in 1 .. c : events[j].at < Cutoff(width)
  BY <1>2, <1>6, <1>10
<1>12. QED
  <2>1. c \in 0 .. Len(events)
    BY <1>1, <1>6
  <2>2. QED
    BY <1>4, <1>11, <2>1 DEF c

(***************************************************************************)
(* What the tracker remembers is the end of what it saw, and what it does  *)
(* not is too old to count.                                                *)
(***************************************************************************)
Remembers(past, all, cut) ==
  /\ Len(past) <= Len(all)
  /\ \A i \in 1 .. Len(past) : past[i] = all[Len(all) - Len(past) + i]
  /\ \A i \in 1 .. Len(all) - Len(past) : all[i].at < cut

MemInv(h) == \A u \in Users : Remembers(recent[u], seen[u], Cutoff(h))

(* What it remembers is in the order of time, and the windows of the       *)
(* checks under way were set by someone.                                   *)
Ordered(events) ==
  \A i, j \in 1 .. Len(events) : i <= j => events[i].at <= events[j].at

OrderInv ==
  /\ \A u \in Users : Ordered(recent[u])
  /\ \A t \in Workers : tasks[t].pc = "duplicate" => tasks[t].window \in Windows

(* No window is shorter than a lasting one.                                *)
LEMMA LastingReach ==
  \A h \in Lasting : h \in Nat /\ \A w \in Windows : w \in Nat /\ h <= w
BY InputAssumption DEF Lasting, Windows, Settings, AutomodSettings

(* A message more: it is remembered, and no earlier copy is overlooked.    *)
LEMMA Recalled ==
  ASSUME NEW past \in Seq(TextEvent), NEW all \in Seq(TextEvent), NEW h, NEW width,
         Cutoff(h) \in Nat, Cutoff(width) \in Nat, Cutoff(width) <= Cutoff(h),
         Remembers(past, all, Cutoff(h)), NEW e \in TextEvent
  PROVE  LET events == Append(Pruned(past, width), e) IN
         /\ Remembers(events, Append(all, e), Cutoff(h))
         /\ 1 + Cardinality({i \in DOMAIN all :
                                all[i].text = e.text /\ all[i].at >= Cutoff(h)})
              <= Copies(events, e.text)
<1> DEFINE cut == Cutoff(h)
<1>0. PICK c \in 0 .. Len(past) : /\ Pruned(past, width) = SubSeq(past, c + 1, Len(past))
                                  /\ \A j \in 1 .. c : past[j].at < Cutoff(width)
  BY PrunedFront
<1>1. /\ Pruned(past, width) = SubSeq(past, c + 1, Len(past))
      /\ \A j \in 1 .. c : past[j].at < cut
  <2> SUFFICES ASSUME NEW j \in 1 .. c PROVE past[j].at < cut
    BY <1>0
  <2>1. past[j] \in TextEvent
    OBVIOUS
  <2>2. past[j].at \in Nat
    BY <2>1 DEF TextEvent
  <2>3. QED
    BY <1>0, <2>2
<1> DEFINE kept == Pruned(past, width)
           events == Append(kept, e)
           k == Len(all) - Len(past)
           a == k + c
           n == Len(past) - c
           more == Append(all, e)
           hits == {i \in DOMAIN all : all[i].text = e.text /\ all[i].at >= cut}
           copies == {j \in DOMAIN events : events[j].text = e.text}
<1>2. /\ Len(past) \in Nat /\ Len(all) \in Nat /\ DOMAIN all = 1 .. Len(all)
      /\ k \in Nat /\ a \in Nat /\ n \in Nat /\ c \in Nat /\ a + n = Len(all) /\ c + n = Len(past)
  BY <1>0 DEF Remembers
<1>3. kept \in Seq(TextEvent) /\ Len(kept) = n /\ \A j \in 1 .. n : kept[j] = past[c + j]
  <2>1. c + 1 \in 1 .. Len(past) + 1 /\ Len(past) - (c + 1) + 1 = n
    BY <1>2
  <2> HIDE DEF n, k, a
  <2>2. kept = SubSeq(past, c + 1, Len(past)) /\ kept \in Seq(TextEvent)
    BY <1>1, PrunedType
  <2>3. n = IF c + 1 <= Len(past) THEN Len(past) - (c + 1) + 1 ELSE 0
    BY <1>2, <2>1
  <2>4. Len(kept) = n
    <3>1. Len(kept) = IF c + 1 <= Len(past) THEN Len(past) - (c + 1) + 1 ELSE 0
      BY <1>2, <2>1, <2>2, SubSeqProperties
    <3>2. QED
      BY <2>3, <3>1
  <2>5. ASSUME NEW j \in 1 .. n PROVE kept[j] = past[c + j]
    <3>1. j \in 1 .. Len(kept) /\ (c + 1) + j - 1 = c + j
      BY <1>2, <2>4
    <3>2. kept[j] = past[(c + 1) + j - 1]
      BY <1>2, <2>2, <3>1, SubSeqProperties
    <3>3. QED
      BY <3>1, <3>2
  <2>6. QED
    BY <2>2, <2>4, <2>5
<1>4. \A j \in 1 .. n : kept[j] = all[a + j]
  <2> SUFFICES ASSUME NEW j \in 1 .. n PROVE kept[j] = all[a + j]
    OBVIOUS
  <2>1. c + j \in 1 .. Len(past) /\ k + (c + j) = a + j
    BY <1>2
  <2>2. past[c + j] = all[k + (c + j)]
    BY <2>1 DEF Remembers
  <2>3. QED
    BY <1>3, <2>1, <2>2
<1>5. \A i \in 1 .. a : all[i].at < cut
  <2> SUFFICES ASSUME NEW i \in 1 .. a PROVE all[i].at < cut
    OBVIOUS
  <2>1. CASE i \in 1 .. k
    BY <2>1 DEF Remembers
  <2>2. CASE i \notin 1 .. k
    <3>1. i - k \in 1 .. c /\ i - k \in 1 .. Len(past) /\ k + (i - k) = i
      BY <1>2, <2>2
    <3>2. past[i - k] = all[k + (i - k)]
      BY <3>1 DEF Remembers
    <3>3. QED
      BY <1>1, <3>1, <3>2
  <2>3. QED
    BY <2>1, <2>2
<1>6. \A i \in 1 .. Len(all) : all[i] \in TextEvent /\ all[i].at \in Nat
  <2>1. \A i \in 1 .. Len(all) : all[i] \in TextEvent
    BY <1>2
  <2>2. \A x \in TextEvent : x.at \in Nat
    BY DEF TextEvent
  <2>3. QED
    BY <2>1, <2>2
<1>13. cut \in Nat
  OBVIOUS
<1> HIDE DEF kept, k, a, n, cut
<1>7. /\ Len(events) = n + 1 /\ DOMAIN events = 1 .. n + 1 /\ events[n + 1] = e
      /\ \A j \in 1 .. n : events[j] = all[a + j]
  BY <1>2, <1>3, <1>4
<1>8. /\ Len(more) = a + n + 1 /\ more[a + n + 1] = e
      /\ \A i \in 1 .. a + n : more[i] = all[i]
  BY <1>2
<1> HIDE DEF events, more
<1>9. Remembers(events, more, cut)
  <2>1. Len(events) <= Len(more) /\ Len(more) - Len(events) = a
    BY <1>2, <1>7, <1>8
  <2>2. ASSUME NEW j \in 1 .. n + 1 PROVE events[j] = more[a + j]
    <3>1. CASE j = n + 1
      BY <1>2, <1>7, <1>8, <3>1
    <3>2. CASE j # n + 1
      <4>1. j \in 1 .. n /\ a + j \in 1 .. a + n
        BY <1>2, <3>2
      <4>2. QED
        BY <1>7, <1>8, <4>1
    <3>3. QED
      BY <3>1, <3>2
  <2>3. \A i \in 1 .. a : more[i].at < cut
    <3>1. 1 .. a \subseteq 1 .. a + n
      BY <1>2
    <3>2. QED
      BY <1>5, <1>8, <3>1
  <2>4. QED
    BY <1>7, <2>1, <2>2, <2>3 DEF Remembers
<1>10. 1 + Cardinality(hits) <= Cardinality(copies)
  <2> DEFINE f == [i \in hits |-> i - a]
             earlier == copies \ {n + 1}
  <2>1. n + 1 \in copies /\ copies \subseteq 1 .. n + 1
    BY <1>2, <1>7
  <2>2. ASSUME NEW i \in hits PROVE i - a \in earlier /\ i \in Int
    <3>1. i \in 1 .. a + n /\ all[i].text = e.text /\ ~(all[i].at < cut)
      BY <1>2, <1>6, <1>13
    <3>2. i \notin 1 .. a
      BY <1>5, <3>1
    <3>3. i - a \in 1 .. n /\ a + (i - a) = i
      BY <1>2, <3>1, <3>2
    <3>4. events[i - a].text = e.text
      BY <1>7, <3>1, <3>3
    <3>5. i - a \in 1 .. n + 1 /\ i - a # n + 1
      BY <1>2, <3>3
    <3>6. QED
      BY <1>7, <3>1, <3>4, <3>5
  <2> HIDE DEF hits, copies
  <2>3. IsFiniteSet(copies) /\ Cardinality(copies) \in Nat
    <3>1. IsFiniteSet(1 .. n + 1)
      BY <1>2, FS_Interval
    <3>2. IsFiniteSet(copies)
      BY <2>1, <3>1, FS_Subset
    <3>3. QED
      BY <3>2, FS_CardinalityType
  <2>4. IsFiniteSet(earlier) /\ Cardinality(earlier) = Cardinality(copies) - 1
    BY <2>1, <2>3, FS_RemoveElement
  <2> HIDE DEF earlier
  <2>5. f \in Injection(hits, earlier)
    <3>1. f \in [hits -> earlier]
      BY <2>2
    <3>2. \A i, j \in hits : f[i] = f[j] => i = j
      BY <1>2, <2>2
    <3>3. QED
      BY <3>1, <3>2 DEF Injection, IsInjective
  <2> HIDE DEF f
  <2>6. Cardinality(hits) <= Cardinality(earlier) /\ Cardinality(hits) \in Nat
    BY <2>4, <2>5, FS_Injection, FS_CardinalityType
  <2>7. QED
    BY <2>3, <2>4, <2>6
<1>11. Copies(events, e.text) = Cardinality(copies)
  BY DEF Copies
<1>12. QED
  BY <1>9, <1>10, <1>11 DEF events, more, kept, cut

(* What the tracker and its history are made of, and the cutoffs.          *)
LEMMA MemoryType ==
  ASSUME TypeOK, NEW u \in Users
  PROVE  /\ recent[u] \in Seq(TextEvent) /\ seen[u] \in Seq(TextEvent)
         /\ now \in Nat /\ \A width \in Nat : Cutoff(width) \in Nat
<1>1. [text : Nat \ {0}, at : 0 .. now] \subseteq TextEvent
  BY DEF TextEvent
<1>2. recent[u] \in Seq([text : Nat \ {0}, at : 0 .. now])
  BY DEF TypeOK
<1>3. recent[u] \in Seq(TextEvent)
  BY <1>1, <1>2, SeqMonotonic
<1>4. now \in Nat
  BY DEF TypeOK
<1>5. QED
  BY <1>3, <1>4 DEF TypeOK, Cutoff

(* A wider window goes back further.                                       *)
LEMMA WiderCutoff ==
  ASSUME TypeOK, NEW h \in Nat, NEW width \in Nat, h <= width
  PROVE  Cutoff(h) \in Nat /\ Cutoff(width) \in Nat /\ Cutoff(width) <= Cutoff(h)
<1>1. now \in Nat
  BY DEF TypeOK
<1>2. QED
  BY <1>1 DEF Cutoff

(* The event that a message leaves in the tracker.                         *)
Event(task) == [text |-> task.m.text, at |-> now]

LEMMA EventType ==
  ASSUME TypeOK, NEW t \in Workers
  PROVE  tasks[t].user \in Users /\ Event(tasks[t]) \in TextEvent
<1>1. tasks[t].user \in Users /\ tasks[t].m \in Trait
  BY InputAssumption DEF TypeOK, Task
<1>2. now \in Nat /\ tasks[t].m.text \in Nat
  BY <1>1 DEF TypeOK, Trait
<1>3. QED
  BY <1>1, <1>2 DEF Event, TextEvent

(* A sweep by a window as long as h forgets nothing within h: the last     *)
(* message of whom it forgets is older, and the others are older still.    *)
LEMMA SweptRemembers ==
  ASSUME TypeOK, OrderInv, NEW h \in Nat, MemInv(h), NEW width \in Nat, h <= width,
         NEW u \in Users
  PROVE  Remembers(Swept(width)[u], seen[u], Cutoff(h))
<1> DEFINE past == recent[u]
           all == seen[u]
           n == Len(past)
           k == Len(all) - n
<1>1. past \in Seq(TextEvent) /\ all \in Seq(TextEvent)
  BY MemoryType
<1>2. Remembers(past, all, Cutoff(h)) /\ Ordered(past)
  BY DEF MemInv, OrderInv
<1>3. Cutoff(h) \in Nat /\ Cutoff(width) \in Nat /\ Cutoff(width) <= Cutoff(h)
  BY WiderCutoff
<1>4. \/ Swept(width)[u] = past
      \/ Swept(width)[u] = <<>> /\ past # <<>> /\ past[n].at < Cutoff(width)
  BY DEF Swept
<1> HIDE DEF past, all
<1>5. /\ n \in Nat /\ Len(all) \in Nat /\ k \in Nat /\ k + n = Len(all)
      /\ \A i \in 1 .. n : past[i] = all[k + i]
      /\ \A i \in 1 .. k : all[i].at < Cutoff(h)
  BY <1>1, <1>2 DEF Remembers
<1>6. ASSUME Swept(width)[u] = <<>>, past # <<>>, past[n].at < Cutoff(width)
      PROVE  Remembers(<<>>, all, Cutoff(h))
  <2>1. n >= 1
    BY <1>1, <1>6
  <2>2. ASSUME NEW i \in 1 .. n PROVE past[i].at < Cutoff(h)
    <3>1. past[i] \in TextEvent /\ past[n] \in TextEvent
      BY <1>1, <2>1
    <3>2. past[i].at \in Nat /\ past[n].at \in Nat
      BY <3>1 DEF TextEvent
    <3>3. past[i].at <= past[n].at
      BY <1>2, <1>5, <2>1 DEF Ordered
    <3> DEFINE mine == past[i].at
               last == past[n].at
               near == Cutoff(h)
               far == Cutoff(width)
    <3>4. mine \in Nat /\ last \in Nat /\ near \in Nat /\ far \in Nat
          /\ mine <= last /\ last < far /\ far <= near
      BY <1>3, <1>6, <3>2, <3>3
    <3> HIDE DEF mine, last, near, far
    <3>5. mine < near
      BY <3>4
    <3>6. QED
      BY <3>5 DEF mine, near
  <2> HIDE DEF n, k
  <2>3. ASSUME NEW i \in 1 .. Len(all) PROVE all[i].at < Cutoff(h)
    <3>1. CASE i \in 1 .. k
      BY <1>5, <3>1
    <3>2. CASE i \notin 1 .. k
      <4>1. i - k \in 1 .. n /\ k + (i - k) = i
        BY <1>5, <3>2
      <4>2. past[i - k] = all[i]
        BY <1>5, <4>1
      <4>3. QED
        BY <2>2, <4>1, <4>2
    <3>3. QED
      BY <3>1, <3>2
  <2>4. QED
    BY <1>5, <2>3 DEF Remembers
<1>7. QED
  BY <1>2, <1>4, <1>6 DEF past, all

(* What the tracker holds when a check looks at it, swept or not.          *)
LEMMA HeldMemory ==
  ASSUME TypeOK, OrderInv, NEW width \in Windows, NEW memory \in {recent, Swept(width)},
         NEW u \in Users
  PROVE  /\ memory[u] \in Seq(TextEvent) /\ Ordered(memory[u])
         /\ \A i \in 1 .. Len(memory[u]) : memory[u][i].at <= now
         /\ \A h \in Lasting : MemInv(h) => Remembers(memory[u], seen[u], Cutoff(h))
<1>1. memory[u] = recent[u] \/ memory[u] = <<>>
  BY DEF Swept
<1>2. recent[u] \in Seq(TextEvent) /\ Ordered(recent[u])
  BY MemoryType DEF OrderInv
<1>3. <<>> \in Seq(TextEvent) /\ Ordered(<<>>)
  BY EmptySeq DEF Ordered
<1>4. ASSUME NEW h \in Lasting, MemInv(h) PROVE Remembers(memory[u], seen[u], Cutoff(h))
  <2>1. h \in Nat /\ width \in Nat /\ h <= width
    BY LastingReach
  <2>2. Remembers(Swept(width)[u], seen[u], Cutoff(h))
    BY <1>4, <2>1, SweptRemembers
  <2>3. QED
    BY <1>4, <2>2 DEF MemInv
<1>5. \A i \in 1 .. Len(recent[u]) : recent[u][i].at <= now
  <2> SUFFICES ASSUME NEW i \in 1 .. Len(recent[u]) PROVE recent[u][i].at <= now
    OBVIOUS
  <2> DEFINE S == [text : Nat \ {0}, at : 0 .. now]
  <2>1. recent[u] \in Seq(S)
    BY DEF TypeOK
  <2> HIDE DEF S
  <2>2. recent[u][i] \in S
    BY <2>1
  <2>3. recent[u][i].at \in 0 .. now /\ now \in Nat
    BY <2>2 DEF S, TypeOK
  <2>4. QED
    BY <2>3
<1>7. \A i \in 1 .. Len(memory[u]) : memory[u][i].at <= now
  <2>1. Len(<<>>) = 0
    OBVIOUS
  <2>2. QED
    BY <1>1, <1>5, <2>1
<1>8. memory[u] \in Seq(TextEvent) /\ Ordered(memory[u])
  BY <1>1, <1>2, <1>3
<1>6. QED
  BY <1>4, <1>7, <1>8

(* Pruned and with a message of now, it is still in order.                 *)
LEMMA OrderedMore ==
  ASSUME NEW past \in Seq(TextEvent), Ordered(past), NEW width, NEW e \in TextEvent,
         \A i \in 1 .. Len(past) : past[i].at <= e.at
  PROVE  Ordered(Append(Pruned(past, width), e))
<1>1. PICK c \in 0 .. Len(past) : Pruned(past, width) = SubSeq(past, c + 1, Len(past))
  BY PrunedFront
<1> DEFINE kept == Pruned(past, width)
           events == Append(kept, e)
           n == Len(past) - c
<1>2. Len(past) \in Nat /\ c \in Nat /\ n \in Nat /\ c + n = Len(past)
  OBVIOUS
<1>3. kept \in Seq(TextEvent) /\ Len(kept) = n /\ \A j \in 1 .. n : kept[j] = past[c + j]
  <2>1. kept \in Seq(TextEvent)
    BY PrunedType
  <2>2. \A i \in c + 1 .. Len(past) : past[i] \in TextEvent
    BY <1>2
  <2>3. /\ Len(kept) = IF c + 1 <= Len(past) THEN Len(past) - (c + 1) + 1 ELSE 0
        /\ \A i \in 1 .. Len(past) - (c + 1) + 1 : kept[i] = past[(c + 1) + i - 1]
    BY <1>1, <1>2, <2>2, SubSeqProperties
  <2> HIDE DEF kept, n
  <2>4. Len(kept) = n
    <3>1. (IF c + 1 <= Len(past) THEN Len(past) - (c + 1) + 1 ELSE 0) = n
      BY <1>2
    <3>2. QED
      BY <2>3, <3>1
  <2>5. ASSUME NEW j \in 1 .. n PROVE kept[j] = past[c + j]
    <3>1. j \in 1 .. Len(past) - (c + 1) + 1 /\ (c + 1) + j - 1 = c + j
      BY <1>2
    <3>2. QED
      BY <2>3, <3>1
  <2>6. QED
    BY <2>1, <2>4, <2>5
<1> HIDE DEF kept, n
<1>4. /\ Len(events) = n + 1 /\ events[n + 1] = e
      /\ \A j \in 1 .. n : events[j] = past[c + j] /\ c + j \in 1 .. Len(past)
  BY <1>2, <1>3
<1> HIDE DEF events
<1>5. ASSUME NEW i \in 1 .. Len(events), NEW j \in 1 .. Len(events), i <= j
      PROVE  events[i].at <= events[j].at
  <2>1. e.at \in Nat
    BY DEF TextEvent
  <2>2. CASE j \in 1 .. n
    <3>1. i \in 1 .. n /\ c + i <= c + j
      BY <1>2, <1>4, <1>5, <2>2
    <3>2. QED
      BY <1>4, <2>2, <3>1 DEF Ordered
  <2>3. CASE j = n + 1 /\ i \in 1 .. n
    BY <1>4, <2>3
  <2>4. CASE j = n + 1 /\ i = n + 1
    BY <1>4, <2>1, <2>4
  <2>5. QED
    BY <1>2, <1>4, <1>5, <2>2, <2>3, <2>4
<1>6. QED
  BY <1>5 DEF Ordered, events, kept

LEMMA OrderStep == TypeOK /\ OrderInv /\ [Next]_vars => OrderInv'
<1> SUFFICES ASSUME TypeOK, OrderInv, [Next]_vars PROVE OrderInv'
  OBVIOUS
<1>1. Ordered(<<>>)
  BY DEF Ordered
<1>2. \A t \in Workers : tasks'[t].pc = "duplicate" => tasks'[t].window \in Windows'
  <2> SUFFICES ASSUME NEW t \in Workers, tasks'[t].pc = "duplicate"
               PROVE  tasks'[t].window \in Windows
    BY DEF Windows
  <2>1. CASE tasks'[t] = tasks[t]
    BY <2>1 DEF OrderInv
  <2>2. CASE tasks'[t] # tasks[t]
    <3>1. tasks \in [Workers -> Task] /\ Idle.pc = "idle" /\ cfg \in Inputs
      BY DEF TypeOK, Idle
    <3>2. ASSUME NEW w \in Workers, NEW task, Goto(w, task) PROVE w = t /\ task = tasks'[t]
      BY <2>2, <3>1, <3>2 DEF Goto
    <3>3. ~Crash /\ tasks' # tasks
      BY <2>2, <3>1 DEF Crash
    <3>4. ASSUME NEW w \in Workers, NEW u \in Users, NEW m \in Messages, Post(w, u, m)
          PROVE  FALSE
      <4> DEFINE task == [Idle EXCEPT !.pc = "automod", !.id = posted', !.user = u, !.m = m]
      <4>1. Goto(w, task)
        BY <3>4 DEF Post
      <4>2. task.pc # "duplicate"
        BY DEF Idle
      <4> HIDE DEF task
      <4>3. QED
        BY <3>2, <4>1, <4>2
    <3>5. PICK w \in Workers : TaskStep(w)
      BY <3>3, <3>4 DEF Next, FloodStrike, ResetStrikes, OtherGuild, Configure, Tick, vars
    <3>7. ASSUME NEW v \in Workers, NEW pc, Passes(v, pc) PROVE pc = "duplicate"
      <4> DEFINE task == [Idle EXCEPT !.pc = pc, !.id = tasks[v].id, !.user = tasks[v].user,
                                      !.m = tasks[v].m]
      <4>1. Goto(v, task) /\ task.pc = pc
        BY <3>7 DEF Passes, Idle
      <4> HIDE DEF task
      <4>2. QED
        BY <3>2, <4>1
    <3>8. ASSUME NEW v \in Workers, Ends(v) PROVE FALSE
      BY <3>1, <3>2, <3>8 DEF Ends
    <3>9. ASSUME NEW v \in Workers, NEW task \in Task, ActOn(v, task) PROVE FALSE
      <4>1. [task EXCEPT !.pc = "strike"].pc = "strike"
        BY <3>9 DEF Task
      <4>2. QED
        BY <3>2, <3>8, <3>9, <4>1 DEF ActOn
    <3>10. ASSUME NEW v \in Workers, NEW pc, Proceed(v, pc) PROVE pc = "duplicate"
      <4>1. [tasks[v] EXCEPT !.pc = pc].pc = pc
        BY <3>1 DEF Task
      <4>2. QED
        BY <3>2, <3>10, <4>1 DEF Proceed
    <3>11. \A v \in Workers : tasks[v] \in Task
      BY <3>1
    <3>12. Automod(w)
      <4>1. ~BlankText(w) /\ ~ContentStrike(w) /\ ~AskJail(w)
        BY <3>7, <3>8 DEF BlankText, ContentStrike, AskJail
      <4>2. \A memory : ~Duplicate(w, memory)
        BY <3>7, <3>9, <3>11 DEF Duplicate
      <4>3. ~Ai(w)
        <5> DEFINE task == [tasks[w] EXCEPT !.pc = "reserve", !.strikes = cfg.ai.strikes,
                                            !.cap = cfg.ai.cap, !.day = Today]
        <5>1. task.pc = "reserve"
          BY <3>11 DEF Task
        <5> HIDE DEF task
        <5>2. ~Goto(w, task)
          BY <3>2, <5>1
        <5>3. QED
          BY <3>7, <5>2 DEF Ai, task
      <4>4. ~Reserve(w) /\ ~Classify(w)
        BY <3>7, <3>9, <3>10, <3>11 DEF Reserve, Classify
      <4>5. ~Link(w)
        <5> DEFINE task == [tasks[w] EXCEPT !.pc = "linkStrike",
                                            !.threshold = cfg.link.threshold,
                                            !.decay = cfg.link.decay]
        <5>1. task.pc = "linkStrike"
          BY <3>11 DEF Task
        <5> HIDE DEF task
        <5>2. ~Goto(w, task)
          BY <3>2, <5>1
        <5>3. QED
          BY <3>8, <5>2 DEF Link, task
      <4>6. ~LinkStrike(w)
        BY <3>8, <3>10 DEF LinkStrike
      <4>7. QED
        BY <3>5, <4>1, <4>2, <4>3, <4>4, <4>5, <4>6 DEF TaskStep
    <3> DEFINE task == [tasks[w] EXCEPT !.strikes = cfg.automod.strikes,
                                        !.duplicates = cfg.automod.duplicates,
                                        !.window = cfg.automod.window]
    <3>13. task \in Task
      <4>1. cfg \in Settings
        BY <3>1, InputAssumption
      <4>2. QED
        BY <3>11, <4>1 DEF Task, Settings, AutomodSettings
    <3>14. [task EXCEPT !.pc = "duplicate"].window = cfg.automod.window
      BY <3>11 DEF Task
    <3> HIDE DEF task
    <3>15. \/ ActOn(w, task) \/ Goto(w, [task EXCEPT !.pc = "duplicate"]) \/ Passes(w, "ai")
      BY <3>12 DEF Automod, task
    <3>16. Goto(w, [task EXCEPT !.pc = "duplicate"])
      BY <3>7, <3>9, <3>13, <3>15
    <3>17. tasks'[t].window = cfg.automod.window
      BY <3>2, <3>14, <3>16
    <3>18. QED
      BY <3>1, <3>17 DEF Windows
  <2>3. QED
    BY <2>1, <2>2
<1>3. CASE UNCHANGED recent
  BY <1>2, <1>3 DEF OrderInv
<1>4. ASSUME NEW t \in Workers, NEW memory, Duplicate(t, memory) PROVE OrderInv'
  <2> DEFINE u == tasks[t].user
             e == Event(tasks[t])
             events == Append(Pruned(memory[u], tasks[t].window), e)
  <2>1. u \in Users /\ e \in TextEvent /\ e.at = now
    BY EventType DEF Event
  <2>2. tasks[t].window \in Windows /\ memory \in {recent, Swept(tasks[t].window)}
    BY <1>4 DEF Duplicate, OrderInv
  <2>3. \A v \in Users : /\ memory[v] \in Seq(TextEvent) /\ Ordered(memory[v])
                          /\ \A i \in 1 .. Len(memory[v]) : memory[v][i].at <= now
    BY <2>2, HeldMemory
  <2>4. Ordered(events)
    BY <2>1, <2>3, OrderedMore
  <2>5. recent' = [memory EXCEPT ![u] = events] \/ recent' = [memory EXCEPT ![u] = <<>>]
    BY <1>4 DEF Duplicate, Event
  <2>6. DOMAIN memory = Users
    BY <2>2 DEF TypeOK, Swept
  <2> HIDE DEF u, e, events
  <2>7. ASSUME NEW v \in Users PROVE Ordered(recent'[v])
    <3>1. recent'[v] \in {events, <<>>, memory[v]}
      BY <2>5, <2>6
    <3>2. QED
      BY <1>1, <2>3, <2>4, <3>1
  <2>8. QED
    BY <1>2, <2>7 DEF OrderInv
<1>5. ASSUME NEW w \in OtherWindows, OtherGuild(w) PROVE OrderInv'
  <2>1. \A v \in Users : recent'[v] \in {recent[v], <<>>}
    BY <1>5 DEF OtherGuild, Swept
  <2>2. QED
    BY <1>1, <1>2, <2>1 DEF OrderInv
<1>6. CASE Crash
  BY <1>1, <1>2, <1>6 DEF Crash, OrderInv
<1>7. QED
  BY <1>3, <1>4, <1>5, <1>6
     DEF Next, TaskStep, Automod, BlankText, ContentStrike, Ai, Reserve, Classify, Link,
         LinkStrike, AskJail, Post, FloodStrike, ResetStrikes, Configure, Tick, vars

(* Nothing that may still count is forgotten.                              *)
LEMMA MemoryStep ==
  ASSUME TypeOK, OrderInv, NEW h \in Lasting, MemInv(h), [Next]_vars
  PROVE  MemInv(h)'
<1>0. h \in Nat /\ \A w \in Windows : w \in Nat /\ h <= w
  BY LastingReach
<1>1. CASE UNCHANGED <<recent, seen, now>>
  BY <1>1 DEF MemInv, Cutoff, Remembers
<1>2. \A cut : Remembers(<<>>, <<>>, cut)
  BY DEF Remembers
<1>3. ASSUME NEW t \in Workers, NEW memory, Duplicate(t, memory) PROVE MemInv(h)'
  <2> DEFINE u == tasks[t].user
             e == Event(tasks[t])
             events == Append(Pruned(memory[u], tasks[t].window), e)
  <2>1. u \in Users /\ e \in TextEvent
    BY EventType
  <2>2. tasks[t].window \in Windows /\ memory \in {recent, Swept(tasks[t].window)}
    BY <1>3 DEF Duplicate, OrderInv
  <2>3. \A v \in Users : /\ memory[v] \in Seq(TextEvent)
                          /\ Remembers(memory[v], seen[v], Cutoff(h))
    BY <2>2, HeldMemory
  <2>4. /\ Cutoff(h) \in Nat /\ Cutoff(tasks[t].window) \in Nat
        /\ Cutoff(tasks[t].window) <= Cutoff(h)
    BY <1>0, <2>2, WiderCutoff
  <2>5. Remembers(events, Append(seen[u], e), Cutoff(h))
    BY <2>1, <2>3, <2>4, MemoryType, Recalled
  <2>6. Cutoff(h)' = Cutoff(h)
    BY <1>3 DEF Duplicate, Cutoff
  <2>7. \/ recent' = [memory EXCEPT ![u] = events] /\ seen' = [seen EXCEPT ![u] = Append(@, e)]
        \/ recent' = [memory EXCEPT ![u] = <<>>] /\ seen' = [seen EXCEPT ![u] = <<>>]
    BY <1>3 DEF Duplicate, Event
  <2>8. DOMAIN memory = Users /\ DOMAIN seen = Users
    BY <2>2 DEF TypeOK, Swept
  <2> HIDE DEF e, u, events
  <2>9. ASSUME NEW w \in Users PROVE Remembers(recent'[w], seen'[w], Cutoff(h))
    <3>1. CASE w = u
      BY <1>2, <2>5, <2>7, <2>8, <3>1
    <3>2. CASE w # u
      BY <2>3, <2>7, <2>8, <3>2
    <3>3. QED
      BY <3>1, <3>2
  <2>10. QED
    BY <2>6, <2>9 DEF MemInv
<1>7. ASSUME NEW w \in OtherWindows, OtherGuild(w) PROVE MemInv(h)'
  <2>1. w \in Nat /\ h <= w
    BY <1>0 DEF Windows
  <2>2. /\ recent' = Swept(w) /\ seen' = seen /\ Cutoff(h)' = Cutoff(h)
    BY <1>7 DEF OtherGuild, Cutoff
  <2>3. \A u \in Users : Remembers(Swept(w)[u], seen[u], Cutoff(h))
    BY <1>0, <2>1, SweptRemembers
  <2>4. QED
    BY <2>2, <2>3 DEF MemInv
<1>4. CASE Crash
  <2>1. \A u \in Users : recent'[u] = <<>> /\ seen'[u] = <<>>
    BY <1>4 DEF Crash
  <2>2. QED
    BY <1>2, <2>1 DEF MemInv
<1>5. CASE Tick
  <2> DEFINE cut == Cutoff(h)
             later == Cutoff(h)'
  <2>1. UNCHANGED <<recent, seen>> /\ now' = now + 1
    BY <1>5 DEF Tick
  <2>2. later = IF h > now + 1 THEN 0 ELSE (now + 1) - h
    BY <2>1 DEF Cutoff
  <2>3. cut \in Nat /\ later \in Nat /\ cut <= later
    <3>1. now \in Nat
      BY DEF TypeOK
    <3>2. QED
      BY <1>0, <2>2, <3>1 DEF Cutoff
  <2>4. ASSUME NEW u \in Users PROVE Remembers(recent'[u], seen'[u], later)
    <3> DEFINE past == recent[u]
               all == seen[u]
    <3>1. past \in Seq(TextEvent) /\ all \in Seq(TextEvent)
      BY MemoryType
    <3>2. Remembers(past, all, cut)
      BY DEF MemInv
    <3>3. recent'[u] = past /\ seen'[u] = all
      BY <2>1
    <3> HIDE DEF past, all, cut, later
    <3>4. ASSUME NEW i \in 1 .. Len(all) - Len(past) PROVE all[i].at < later
      <4>1. i \in 1 .. Len(all) /\ all[i].at < cut
        BY <3>1, <3>2 DEF Remembers
      <4>2. all[i] \in TextEvent
        BY <3>1, <4>1
      <4>3. all[i].at \in Nat
        BY <4>2 DEF TextEvent
      <4>4. QED
        BY <2>3, <4>1, <4>3
    <3>5. Remembers(past, all, later)
      BY <3>2, <3>4 DEF Remembers
    <3>6. QED
      BY <3>3, <3>5
  <2>5. QED
    BY <2>4 DEF MemInv
<1>6. QED
  BY <1>1, <1>3, <1>4, <1>5, <1>7
     DEF Next, TaskStep, Automod, BlankText, ContentStrike, Ai, Reserve, Classify, Link,
         LinkStrike, AskJail, Post, FloodStrike, ResetStrikes, Configure, vars

(***************************************************************************)
(* A text is never let through as often as the duplicate rule allows       *)
(* within the shortest window of them all, for every set of rules and      *)
(* windows, of this guild and others, and every order of handlers, edits,  *)
(* sweeps and restarts.                                                    *)
(***************************************************************************)
THEOREM DuplicatesAreCaught == Spec => DuplicateIsCaught
<1>1. Init => OrderInv /\ \A h \in Lasting : MemInv(h)
  BY DEF Init, OrderInv, Ordered, MemInv, Remembers, Idle
<1>2. ASSUME TypeOK, OrderInv, NEW h \in Lasting, MemInv(h), Next, NEW t \in Workers,
             LetThrough(t)
      PROVE  Repeats(tasks[t].user, tasks[t].m.text, h) < tasks[t].duplicates
  <2> DEFINE u == tasks[t].user
             e == Event(tasks[t])
             width == tasks[t].window
  <2>0. tasks[t] \in Task /\ Idle.pc = "idle" /\ tasks \in [Workers -> Task]
    BY <1>2 DEF TypeOK, Idle
  <2>1. PICK memory : Duplicate(t, memory)
    <3>1. TaskStep(t)
      BY <1>2, ItsOwnStep DEF LetThrough
    <3>2. QED
      BY <1>2, <3>1
         DEF LetThrough, TaskStep, Automod, BlankText, ContentStrike, Ai, Reserve, Classify,
             Link, LinkStrike, AskJail
  <2> DEFINE events == Append(Pruned(memory[u], width), e)
             hits == {i \in DOMAIN seen[u] :
                        seen[u][i].text = e.text /\ seen[u][i].at >= Cutoff(h)}
  <2>2. ~ActOn(t, tasks[t])
    BY <1>2, <2>0 DEF LetThrough, ActOn, Goto, Ends, Task
  <2>3. Copies(events, e.text) < tasks[t].duplicates
    BY <2>1, <2>2 DEF Duplicate, Event
  <2>4. u \in Users /\ e \in TextEvent
    BY <1>2, EventType
  <2>5. width \in Windows /\ memory \in {recent, Swept(width)}
    BY <1>2, <2>1 DEF Duplicate, OrderInv
  <2>6. memory[u] \in Seq(TextEvent) /\ Remembers(memory[u], seen[u], Cutoff(h))
    BY <1>2, <2>4, <2>5, HeldMemory
  <2>7. Cutoff(h) \in Nat /\ Cutoff(width) \in Nat /\ Cutoff(width) <= Cutoff(h)
    BY <1>2, <2>5, LastingReach, WiderCutoff
  <2>8. seen[u] \in Seq(TextEvent)
    BY <1>2, <2>4, MemoryType
  <2>9. Repeats(u, tasks[t].m.text, h) = 1 + Cardinality(hits)
    BY DEF Repeats, Event
  <2>10. tasks[t].duplicates \in Nat
    BY <2>0 DEF Task
  <2> HIDE DEF u, e, width
  <2>11. 1 + Cardinality(hits) <= Copies(events, e.text)
    BY <2>4, <2>6, <2>7, <2>8, Recalled
  <2>12. Cardinality(hits) \in Nat /\ Copies(events, e.text) \in Nat
    <3>1. events \in Seq(TextEvent)
      BY <2>4, <2>6, PrunedType
    <3>2. \A s \in Seq(TextEvent) : IsFiniteSet(DOMAIN s)
      <4> SUFFICES ASSUME NEW s \in Seq(TextEvent) PROVE IsFiniteSet(DOMAIN s)
        OBVIOUS
      <4>1. Len(s) \in Nat /\ DOMAIN s = 1 .. Len(s)
        OBVIOUS
      <4>2. QED
        BY <4>1, FS_Interval
    <3> HIDE DEF events
    <3>3. \A s \in Seq(TextEvent) : \A T : T \subseteq DOMAIN s => Cardinality(T) \in Nat
      BY <3>2, FS_Subset, FS_CardinalityType
    <3>4. hits \subseteq DOMAIN seen[u]
      OBVIOUS
    <3>5. QED
      BY <2>8, <3>1, <3>3, <3>4 DEF Copies
  <2> HIDE DEF events, hits
  <2>13. QED
    BY <2>3, <2>9, <2>10, <2>11, <2>12 DEF u
<1>3. TypeOK /\ OrderInv /\ (\A h \in Lasting : MemInv(h)) /\ [Next]_vars =>
        [\A t \in Workers, h \in Lasting :
           LetThrough(t) => Repeats(tasks[t].user, tasks[t].m.text, h) < tasks[t].duplicates]_vars
  BY <1>2
<1>4. TypeOK /\ OrderInv /\ (\A h \in Lasting : MemInv(h)) /\ [Next]_vars
        => (\A h \in Lasting : MemInv(h))'
  <2> SUFFICES ASSUME TypeOK, OrderInv, \A h \in Lasting : MemInv(h), [Next]_vars,
                      NEW h \in Lasting
               PROVE  MemInv(h)'
    BY DEF Lasting, Windows
  <2>1. QED
    BY MemoryStep
<1>5. QED
  BY <1>1, <1>3, <1>4, OrderStep, FiltersTyped, PTL DEF Spec, DuplicateIsCaught

-----------------------------------------------------------------------------
(* The budget. *)

(* No day is later than MaxTime.                                           *)
LEMMA DaysAreFew ==
  ASSUME TypeOK PROVE Today \in Nat /\ Today <= MaxTime
<1>1. now \in Nat /\ now <= MaxTime /\ MaxTime \in Nat /\ DayLength \in Nat \ {0}
  BY NumberAssumption DEF TypeOK
<1> DEFINE q == now \div DayLength
<1>2. q \in Nat /\ now >= DayLength * q
  BY <1>1, SMTT(30)
<1> HIDE DEF q
<1>3. DayLength * q >= q
  <2>1. DayLength * q = (DayLength - 1) * q + q /\ (DayLength - 1) * q \in Nat
    BY <1>1, <1>2, SMTT(30)
  <2>2. QED
    BY <1>2, <2>1
<1>4. DayLength * q \in Nat
  BY <1>1, <1>2
<1>5. QED
  BY <1>1, <1>2, <1>3, <1>4 DEF Today, q

(* The day a task read, that of the row, and the calls of each.            *)
LEMMA DayTypes ==
  ASSUME TypeOK, NEW t \in Workers
  PROVE  /\ tasks[t].day \in Nat /\ tasks[t].day \in Days
         /\ usage.day \in Nat /\ usage.count \in Nat
         /\ calls \in [Days -> Nat] /\ \A d \in Days : d \in Nat
<1>1. MaxTime \in Nat /\ Today \in Nat /\ Today <= MaxTime
  BY DaysAreFew, NumberAssumption
<1>2. tasks[t] \in Task /\ tasks[t].day <= Today
  BY DEF TypeOK
<1>3. tasks[t].day \in Nat
  BY <1>2 DEF Task
<1>4. usage.day \in 0 .. Today /\ usage.count \in Nat /\ calls \in [Days -> Nat]
  BY DEF TypeOK
<1>5. tasks[t].day \in 0 .. MaxTime
  BY <1>1, <1>2, <1>3
<1>6. QED
  BY <1>1, <1>3, <1>4, <1>5 DEF Days

(***************************************************************************)
(* The row counts the calls of its day, and there are none of a later one, *)
(* unless a handler of an older day took the row back.                     *)
(***************************************************************************)
CapInv ==
  \A d \in Days : d \notin late =>
    /\ d = usage.day => calls[d] = usage.count
    /\ d > usage.day => calls[d] = 0

LEMMA BudgetStep == TypeOK /\ CapInv /\ [Next]_vars => CapInv'
<1> SUFFICES ASSUME TypeOK, CapInv, [Next]_vars PROVE CapInv'
  OBVIOUS
<1>1. CASE UNCHANGED <<usage, calls, late>>
  BY <1>1 DEF CapInv
<1>2. ASSUME NEW t \in Workers, Reserve(t), ~UNCHANGED <<usage, calls, late>> PROVE CapInv'
  <2> DEFINE day == tasks[t].day
  <2>1. /\ usage' = [day |-> day, count |-> Used(day) + 1]
        /\ calls' = [calls EXCEPT ![day] = @ + 1]
        /\ late' = IF day < usage.day THEN late \cup (day .. usage.day) ELSE late
    BY <1>2 DEF Reserve
  <2>2. /\ day \in Nat /\ day \in Days /\ usage.day \in Nat /\ usage.count \in Nat
        /\ calls \in [Days -> Nat] /\ \A d \in Days : d \in Nat
    BY DayTypes
  <2> HIDE DEF day
  <2>3. usage'.day = day /\ usage'.count = Used(day) + 1 /\ late \subseteq late'
    BY <2>1
  <2>4. SUFFICES ASSUME NEW d \in Days, d \notin late'
                 PROVE  /\ d = day => calls'[d] = Used(day) + 1
                        /\ d > day => calls'[d] = 0
    BY <2>3 DEF CapInv
  <2>5. d \in Nat /\ d \notin late
    BY <2>2, <2>3, <2>4
  <2>6. CASE day < usage.day
    <3>1. d \notin day .. usage.day
      BY <2>1, <2>4, <2>6
    <3>2. d # day /\ (d > day => d > usage.day)
      BY <2>2, <2>5, <2>6, <3>1
    <3>3. calls'[d] = calls[d]
      BY <2>1, <2>2, <3>2
    <3>4. QED
      BY <2>5, <3>2, <3>3 DEF CapInv
  <2>7. CASE ~(day < usage.day)
    <3>1. CASE d = day
      <4>1. calls'[d] = calls[d] + 1
        BY <2>1, <2>2, <3>1
      <4>2. calls[d] = Used(day)
        BY <2>2, <2>5, <2>7, <3>1 DEF CapInv, Used
      <4>3. QED
        BY <2>5, <3>1, <4>1, <4>2
    <3>2. CASE d > day
      <4>1. d # day /\ d > usage.day
        BY <2>2, <2>5, <2>7, <3>2
      <4>2. calls'[d] = calls[d]
        BY <2>1, <2>2, <4>1
      <4>3. QED
        BY <2>5, <4>1, <4>2 DEF CapInv
    <3>3. QED
      BY <3>1, <3>2
  <2>8. QED
    BY <2>6, <2>7
<1>3. QED
  BY <1>1, <1>2
     DEF Next, TaskStep, Automod, BlankText, Duplicate, ContentStrike, Ai, Classify, Link,
         LinkStrike, AskJail, Post, FloodStrike, ResetStrikes, OtherGuild, Configure, Crash,
         Tick, vars

(***************************************************************************)
(* The daily cap is hard, for every cap, length of the day and number of   *)
(* handlers, except around a midnight that one of them crossed.            *)
(***************************************************************************)
THEOREM TheCapHolds == Spec => CapHolds
<1> DEFINE Hard == \A t \in Workers :
      tasks[t].pc = "reserve" /\ tasks'[t].pc = "classify"
        => calls[tasks[t].day] < tasks[t].cap \/ tasks[t].day \in late'
<1>1. Init => CapInv
  BY DEF Init, CapInv, Days
<1>2. TypeOK /\ CapInv /\ Next => Hard
  <2> SUFFICES ASSUME TypeOK, CapInv, Next, NEW t \in Workers, tasks[t].pc = "reserve",
                      tasks'[t].pc = "classify", tasks[t].day \notin late'
               PROVE  calls[tasks[t].day] < tasks[t].cap
    OBVIOUS
  <2> DEFINE day == tasks[t].day
  <2>1. Reserve(t)
    BY ItsOwnStep
       DEF TaskStep, Automod, BlankText, Duplicate, ContentStrike, Ai, Classify, Link,
           LinkStrike, AskJail
  <2>2. tasks \in [Workers -> Task]
    BY DEF TypeOK
  <2>3. ~Passes(t, "link")
    BY <2>2 DEF Passes, Goto, Idle
  <2>4. /\ UnderCap(Used(day), tasks[t].cap)
        /\ late' = IF day < usage.day THEN late \cup (day .. usage.day) ELSE late
    BY <2>1, <2>3 DEF Reserve
  <2>5. day \in Nat /\ day \in Days /\ usage.day \in Nat
    BY DayTypes
  <2> HIDE DEF day
  <2>6. day \notin late' /\ (day \in day .. usage.day \/ ~(day < usage.day))
    BY <2>5 DEF day
  <2>7. ~(day < usage.day) /\ day \notin late
    BY <2>4, <2>5, <2>6 DEF day
  <2>8. calls[day] = Used(day)
    BY <2>5, <2>7 DEF CapInv, Used
  <2>9. QED
    BY <2>4, <2>8 DEF UnderCap, day
<1>3. TypeOK /\ CapInv /\ [Next]_vars => [Hard]_vars
  BY <1>2
<1>4. QED
  BY <1>1, <1>3, BudgetStep, FiltersTyped, PTL DEF Spec, CapHolds

=============================================================================
