---------------------------- MODULE InvitesProofs ----------------------------
(***************************************************************************)
(* For any number of guilds, codes, handlers and failures, any texts and   *)
(* any allowlists: the cache of verdicts keeps to its cap but for what is  *)
(* still fresh, nobody is struck without an answer that condemns the       *)
(* invite, and no invite is left out but by the break of its loop.         *)
(***************************************************************************)
EXTENDS Invites, FiniteSetTheorems, SequenceTheorems, TLAPS

-----------------------------------------------------------------------------
(* The inductive invariant. *)

Busy == {"peek", "ask", "store", "strike"}

(* A task that judges an invite has one, and follows only slugs. *)
Judging(task) ==
  /\ task.pc \in Busy => task.todo # <<>>
  /\ task.pc = "peek" => Head(task.todo) \in Slugs

(* How many invites of its text a task is done with, and that it is.       *)
Done(task) == Len(task.text) - Len(task.todo)

Tailed(task) ==
  /\ Done(task) \in Nat
  /\ \A m \in 1 .. Len(task.todo) : task.todo[m] = task.text[Done(task) + m]

(* The invites it has come to.                                             *)
Met(task) == {task.text[i] : i \in 1 .. Done(task)}
               \cup (IF task.pc \in Busy THEN {Head(task.todo)} ELSE {})

Counted(task) ==
  /\ IsFiniteSet(task.asked) /\ Cardinality(task.asked) = task.lookups
  /\ task.asked \subseteq Met(task)

Covered(task) == \A i \in 1 .. Done(task) : Excused(task, i)

(***************************************************************************)
(* A verdict says what its answer says; what is left of a text is its end, *)
(* lookups were counted and went to what the task has come to, and what it *)
(* is done with is excused.                                                *)
(***************************************************************************)
Honest(task) ==
  /\ task.pc = "store" => (task.allowed <=> ~Condemns(task.origin))
  /\ task.pc = "strike" => Condemns(task.origin)
  /\ task.pc # "idle" => Tailed(task) /\ Counted(task) /\ Covered(task)

Sound(task) == Judging(task) /\ Honest(task)

HonestCache == \A k \in DOMAIN cache : cache[k].allowed <=> ~Condemns(cache[k].origin)

Inv == TypeOK /\ HonestCache /\ \A t \in Workers : Sound(tasks[t])

-----------------------------------------------------------------------------
(* The tasks. *)

LEMMA IdleSound == Idle \in Task /\ Idle.pc = "idle" /\ Sound(Idle)
<1>1. AnyOrigin \in Origin /\ AnyOrigin.guild \in Guilds /\ AnyOrigin.settings \in Inputs
  <2>1. (CHOOSE g \in Guilds : TRUE) \in Guilds /\ (CHOOSE s \in Inputs : TRUE) \in Settings
        /\ (CHOOSE s \in Inputs : TRUE) \in Inputs
    BY InputAssumption
  <2>2. QED
    BY <2>1 DEF AnyOrigin, Origin
<1>2. (CHOOSE c \in Codes : TRUE) \in Codes
  BY InputAssumption
<1>3. 0 \in 0 .. MaxLookups /\ <<>> \in Seq(Keys)
  BY NumberAssumption
<1>4. Idle \in Task
  BY <1>1, <1>2, <1>3 DEF Idle, Task, PCs
<1>5. Idle.pc = "idle"
  BY DEF Idle
<1>6. QED
  BY <1>4, <1>5 DEF Sound, Judging, Honest, Busy

(* The tasks after a step that moves one of them. *)
LEMMA OneMoves ==
  ASSUME Inv, NEW t \in Workers, NEW task \in Task, Goto(t, task), Sound(task)
  PROVE  tasks' \in [Workers -> Task] /\ \A u \in Workers : Sound(tasks'[u])
<1>1. tasks \in [Workers -> Task]
  BY DEF Inv, TypeOK
<1>2. tasks' = [tasks EXCEPT ![t] = task]
  BY DEF Goto
<1>3. \A u \in Workers : tasks'[u] = tasks[u] \/ tasks'[u] = task
  BY <1>1, <1>2
<1>4. QED
  BY <1>1, <1>2, <1>3 DEF Inv

LEMMA OneEnds ==
  ASSUME Inv, NEW t \in Workers, Ends(t)
  PROVE  tasks' \in [Workers -> Task] /\ \A u \in Workers : Sound(tasks'[u])
BY OneMoves, IdleSound DEF Ends

LEMMA HeadTail ==
  ASSUME NEW todo \in Seq(Keys), todo # <<>>
  PROVE  /\ Head(todo) = todo[1] /\ Head(todo) \in Keys /\ Tail(todo) \in Seq(Keys)
         /\ Len(todo) \in Nat \ {0} /\ Len(Tail(todo)) = Len(todo) - 1
         /\ \A j \in 1 .. Len(todo) - 1 : Tail(todo)[j] = todo[j + 1]
OBVIOUS

LEMMA TextType ==
  ASSUME NEW task \in Task
  PROVE  /\ task.text \in Seq(Keys) /\ IsExtracted(task.text) /\ Len(task.text) \in Nat
         /\ task.todo \in Seq(Keys) /\ Len(task.todo) \in Nat
<1>1. task.text \in Texts \/ task.text = <<>>
  BY DEF Task
<1>2. <<>> \in Seq(Keys) /\ DOMAIN <<>> = {}
  OBVIOUS
<1>3. task.text \in Seq(Keys) /\ IsExtracted(task.text)
  BY <1>1, <1>2, InputAssumption DEF IsExtracted
<1>4. task.todo \in Seq(Keys)
  BY DEF Task
<1>5. QED
  BY <1>3, <1>4

(* The head of what is left is the next invite of the text.                *)
LEMMA NextInvite ==
  ASSUME NEW task \in Task, Tailed(task), task.todo # <<>>
  PROVE  /\ Done(task) + 1 \in 1 .. Len(task.text)
         /\ task.text[Done(task) + 1] = Head(task.todo)
<1>1. /\ Len(task.text) \in Nat /\ Len(task.todo) \in Nat \ {0}
      /\ Head(task.todo) = task.todo[1]
  BY TextType, HeadTail
<1>2. task.todo[1] = task.text[Done(task) + 1]
  BY <1>1 DEF Tailed
<1>3. Done(task) \in Nat /\ Done(task) + Len(task.todo) = Len(task.text)
  BY <1>1 DEF Tailed, Done
<1>4. Done(task) + 1 \in 1 .. Len(task.text)
  BY <1>1, <1>3
<1>5. QED
  BY <1>1, <1>2, <1>4

(***************************************************************************)
(* A loop that breaks is done with the invites of its kind, which come     *)
(* first of what is left.                                                  *)
(***************************************************************************)
Shortened(todo, n) == SubSeq(todo, n + 1, Len(todo))

LEMMA BreakSplits ==
  ASSUME NEW task \in Task, Tailed(task), task.todo # <<>>
  PROVE  \E n \in 1 .. Len(task.todo) :
           /\ AfterBreak(task.todo) = Shortened(task.todo, n)
           /\ \A m \in 1 .. n : task.todo[m] \in Codes <=> Head(task.todo) \in Codes
<1> DEFINE todo == task.todo
           codes == {i \in DOMAIN todo : todo[i] \in Codes}
           n == Cardinality(codes)
<1>1. /\ todo \in Seq(Keys) /\ Len(todo) \in Nat \ {0} /\ Head(todo) = todo[1]
      /\ DOMAIN todo = 1 .. Len(todo) /\ Done(task) \in Nat /\ Len(task.text) \in Nat
      /\ Len(todo) <= Len(task.text) /\ IsExtracted(task.text)
      /\ DOMAIN task.text = 1 .. Len(task.text)
  <2>1. /\ todo \in Seq(Keys) /\ task.text \in Seq(Keys) /\ IsExtracted(task.text)
    BY TextType
  <2>2. Len(todo) \in Nat \ {0} /\ Head(todo) = todo[1]
    BY <2>1, HeadTail
  <2> HIDE DEF todo
  <2>3. DOMAIN todo = 1 .. Len(todo) /\ DOMAIN task.text = 1 .. Len(task.text)
        /\ Len(task.text) \in Nat
    BY <2>1
  <2>4. Done(task) \in Nat /\ Len(todo) <= Len(task.text)
    BY <2>2, <2>3 DEF Tailed, Done, todo
  <2>5. QED
    BY <2>1, <2>2, <2>3, <2>4
<1>2. \A i \in 1 .. Len(todo) : /\ todo[i] = task.text[Done(task) + i]
                                /\ Done(task) + i \in 1 .. Len(task.text)
  <2>1. Done(task) + Len(todo) = Len(task.text)
    BY <1>1 DEF Done
  <2> HIDE DEF todo
  <2>2. QED
    BY <1>1, <2>1 DEF Tailed, todo
<1>3. \A i, j \in 1 .. Len(todo) : todo[i] \in Slugs /\ todo[j] \in Codes => j < i
  <2> SUFFICES ASSUME NEW i \in 1 .. Len(todo), NEW j \in 1 .. Len(todo),
                      todo[i] \in Slugs, todo[j] \in Codes
               PROVE  j < i
    OBVIOUS
  <2>1. Done(task) + j < Done(task) + i
    BY <1>1, <1>2 DEF IsExtracted
  <2>2. QED
    BY <1>1, <2>1
<1>4. \A i \in 1 .. Len(todo) : todo[i] \in Codes \/ todo[i] \in Slugs
  BY <1>1 DEF Keys
<1>5. CASE Head(todo) \in Codes
  <2> HIDE DEF todo
  <2>1. IsFiniteSet(1 .. Len(todo)) /\ Cardinality(1 .. Len(todo)) = Len(todo)
    BY <1>1, FS_Interval
  <2>2. codes \in SUBSET (1 .. Len(todo)) /\ 1 \in codes
    BY <1>1, <1>5
  <2> HIDE DEF codes
  <2>3. IsFiniteSet(codes) /\ n \in Nat /\ n <= Len(todo)
    BY <2>1, <2>2, FS_Subset, FS_CardinalityType
  <2>4. \A i \in codes : 1 .. i \subseteq codes
    <3> SUFFICES ASSUME NEW i \in codes, NEW j \in 1 .. i PROVE j \in codes
      OBVIOUS
    <3>1. i \in 1 .. Len(todo) /\ j \in 1 .. Len(todo) /\ todo[i] \in Codes /\ ~(i < j)
      BY <1>1, <2>2 DEF codes
    <3>2. todo[j] \in Codes
      BY <1>3, <1>4, <3>1
    <3>3. QED
      BY <1>1, <3>1, <3>2 DEF codes
  <2>5. \A i \in codes : i <= n
    <3> SUFFICES ASSUME NEW i \in codes PROVE i <= n
      OBVIOUS
    <3>1. i \in Nat /\ Cardinality(1 .. i) = i
      BY <2>2, FS_Interval
    <3>2. QED
      BY <2>3, <2>4, <3>1, FS_Subset
  <2>6. codes \subseteq 1 .. n
    BY <2>2, <2>3, <2>5
  <2>7. IsFiniteSet(1 .. n) /\ Cardinality(1 .. n) = n
    BY <2>3, FS_Interval
  <2>8. codes = 1 .. n
    BY <2>6, <2>7, FS_Subset
  <2>9. n \in 1 .. Len(todo)
    BY <2>2, <2>3, <2>5
  <2>10. \A m \in 1 .. n : todo[m] \in Codes
    BY <2>8 DEF codes
  <2>11. AfterBreak(todo) = Shortened(todo, n)
    BY <1>5 DEF AfterBreak, Shortened, codes
  <2> HIDE DEF n
  <2>12. QED
    BY <1>5, <2>9, <2>10, <2>11 DEF todo
<1>6. CASE Head(todo) \notin Codes
  <2> HIDE DEF todo
  <2>1. \A m \in 1 .. Len(todo) : todo[m] \notin Codes
    <3> SUFFICES ASSUME NEW m \in 1 .. Len(todo), todo[m] \in Codes PROVE FALSE
      OBVIOUS
    <3>1. 1 \in 1 .. Len(todo) /\ todo[1] \in Slugs
      BY <1>1, <1>4, <1>6
    <3>2. m < 1
      BY <1>3, <3>1
    <3>3. QED
      BY <1>1, <3>2
  <2>2. Shortened(todo, Len(todo)) = <<>>
    BY <1>1 DEF Shortened
  <2>3. AfterBreak(todo) = <<>>
    BY <1>6 DEF AfterBreak
  <2>4. QED
    BY <1>1, <1>6, <2>1, <2>2, <2>3 DEF todo
<1>7. QED
  BY <1>5, <1>6

(***************************************************************************)
(* A task that goes on keeps its message and what excuses its invites.     *)
(***************************************************************************)
GoesOn(old, new) ==
  /\ new.settings = old.settings /\ new.text = old.text
  /\ old.passed \subseteq new.passed /\ old.unknown \subseteq new.unknown
  /\ new.lookups = old.lookups /\ new.asked = old.asked

LEMMA StillExcused ==
  ASSUME NEW old, NEW new, GoesOn(old, new), NEW i, Excused(old, i)
  PROVE  Excused(new, i)
<1>1. CASE \E j \in 1 .. i : Overtaxes(old, j) /\ (old.text[j] \in Codes <=> old.text[i] \in Codes)
  <2>1. \A j : Overtaxes(old, j) => Overtaxes(new, j)
    BY DEF GoesOn, Overtaxes
  <2>2. QED
    BY <1>1, <2>1 DEF GoesOn, Excused
<1>2. QED
  BY <1>1 DEF GoesOn, Excused

(* It stays at the same invite.                                            *)
LEMMA Stays ==
  ASSUME NEW old \in Task, old.pc # "idle", Sound(old), NEW new, GoesOn(old, new),
         new.todo = old.todo, old.pc \in Busy => new.pc \in Busy
  PROVE  Tailed(new) /\ Counted(new) /\ Covered(new)
<1>1. Tailed(old) /\ Counted(old) /\ Covered(old) /\ Done(new) = Done(old)
  BY DEF Sound, Honest, GoesOn, Done
<1>2. Tailed(new)
  BY <1>1 DEF Tailed, GoesOn
<1>3. Met(old) \subseteq Met(new)
  BY <1>1 DEF Met, GoesOn
<1>4. Counted(new)
  BY <1>1, <1>3 DEF Counted, GoesOn
<1>5. Covered(new)
  BY <1>1, StillExcused DEF Covered
<1>6. QED
  BY <1>2, <1>4, <1>5

(* It is done with the next n invites, which are excused.                  *)
LEMMA Leaves ==
  ASSUME NEW old \in Task, old.pc # "idle", Sound(old), NEW new, GoesOn(old, new),
         old.todo # <<>>, NEW n \in 1 .. Len(old.todo),
         new.todo = Shortened(old.todo, n),
         \A m \in 1 .. n : Excused(new, Done(old) + m)
  PROVE  Tailed(new) /\ Counted(new) /\ Covered(new)
<1>1. Tailed(old) /\ Counted(old) /\ Covered(old)
  BY DEF Sound, Honest
<1>2. /\ old.todo \in Seq(Keys) /\ Len(old.todo) \in Nat \ {0} /\ Len(old.text) \in Nat
  BY TextType, HeadTail
<1>3. /\ n \in Nat /\ Len(new.todo) = Len(old.todo) - n
      /\ \A m \in 1 .. Len(new.todo) : new.todo[m] = old.todo[n + m]
  BY <1>2 DEF Shortened
<1>4. Done(new) = Done(old) + n /\ Done(old) \in Nat /\ Done(new) \in Nat
  BY <1>1, <1>2, <1>3 DEF Done, Tailed, GoesOn
<1>5. Tailed(new)
  <2> SUFFICES ASSUME NEW m \in 1 .. Len(new.todo)
               PROVE  new.todo[m] = new.text[Done(new) + m]
    BY <1>4 DEF Tailed
  <2>1. n + m \in 1 .. Len(old.todo) /\ Done(old) + (n + m) = Done(new) + m
    BY <1>2, <1>3, <1>4
  <2>2. QED
    BY <1>1, <1>3, <2>1 DEF Tailed, GoesOn
<1>6. Met(old) \subseteq Met(new)
  <2>1. /\ Done(old) + 1 \in 1 .. Done(new) /\ Head(old.todo) = old.text[Done(old) + 1]
        /\ 1 .. Done(old) \subseteq 1 .. Done(new)
    BY <1>1, <1>3, <1>4, NextInvite
  <2>2. QED
    BY <2>1 DEF Met, GoesOn
<1>7. Counted(new)
  BY <1>1, <1>6 DEF Counted, GoesOn
<1>8. Covered(new)
  <2> SUFFICES ASSUME NEW i \in 1 .. Done(new) PROVE Excused(new, i)
    BY DEF Covered
  <2>1. CASE i \in 1 .. Done(old)
    BY <1>1, <2>1, StillExcused DEF Covered
  <2>2. CASE i \notin 1 .. Done(old)
    <3>1. i - Done(old) \in 1 .. n /\ Done(old) + (i - Done(old)) = i
      BY <1>3, <1>4, <2>2
    <3>2. QED
      BY <3>1
  <2>3. QED
    BY <2>1, <2>2
<1>9. QED
  BY <1>5, <1>7, <1>8

(* It is done with the next invite, which is excused.                      *)
LEMMA LeavesOne ==
  ASSUME NEW old \in Task, old.pc # "idle", Sound(old), NEW new, GoesOn(old, new),
         old.todo # <<>>, new.todo = Tail(old.todo), Excused(new, Done(old) + 1)
  PROVE  Tailed(new) /\ Counted(new) /\ Covered(new)
<1>1. old.todo \in Seq(Keys) /\ Len(old.todo) \in Nat \ {0}
  BY TextType, HeadTail
<1>2. Tail(old.todo) = Shortened(old.todo, 1) /\ 1 \in 1 .. Len(old.todo)
  BY <1>1 DEF Shortened
<1>3. \A m \in 1 .. 1 : Excused(new, Done(old) + m)
  OBVIOUS
<1>4. QED
  BY <1>2, <1>3, Leaves

(* It looks up the next invite, which it did not look up before.           *)
LEMMA LooksUp ==
  ASSUME NEW old \in Task, old.pc = "check", Sound(old), old.todo # <<>>, CanLookUp(old),
         NEW new, new.pc \in Busy, new.todo = old.todo,
         new.settings = old.settings, new.text = old.text,
         new.passed = old.passed, new.unknown = old.unknown,
         new.lookups = old.lookups + 1, new.asked = old.asked \cup {Head(old.todo)}
  PROVE  Tailed(new) /\ Counted(new) /\ Covered(new)
<1> DEFINE d == Done(old)  k == Head(old.todo)
<1>1. /\ Tailed(old) /\ Counted(old) /\ Covered(old) /\ Done(new) = d /\ d \in Nat
      /\ old.pc \notin Busy /\ old.lookups \in Nat /\ old.lookups < MaxLookups
  <2>1. Tailed(old) /\ Counted(old) /\ Covered(old)
    BY DEF Sound, Honest
  <2>2. QED
    BY <2>1, NumberAssumption DEF Done, Tailed, Busy, CanLookUp, Task
<1>2. d + 1 \in 1 .. Len(old.text) /\ old.text[d + 1] = k
  BY <1>1, NextInvite
<1>3. k \notin old.asked
  <2> SUFFICES ASSUME k \in old.asked PROVE FALSE
    OBVIOUS
  <2>1. PICK i \in 1 .. d : old.text[i] = k
    BY <1>1 DEF Counted, Met
  <2>2. i \in 1 .. Len(old.text) /\ i # d + 1
    BY <1>1, <1>2
  <2>3. IsExtracted(old.text) /\ DOMAIN old.text = 1 .. Len(old.text)
    BY TextType
  <2>4. QED
    BY <1>2, <2>1, <2>2, <2>3 DEF IsExtracted
<1>4. IsFiniteSet(new.asked) /\ Cardinality(new.asked) = new.lookups
  <2> HIDE DEF k
  <2>1. IsFiniteSet(old.asked) /\ Cardinality(old.asked) = old.lookups
    BY <1>1 DEF Counted
  <2>2. new.asked = old.asked \cup {k}
    BY DEF k
  <2>3. /\ IsFiniteSet(old.asked \cup {k})
        /\ Cardinality(old.asked \cup {k}) = Cardinality(old.asked) + 1
    BY <1>3, <2>1, FS_AddElement, Zenon
  <2>4. QED
    BY <2>1, <2>2, <2>3
<1>5. Counted(new)
  <2>1. Met(new) = Met(old) \cup {k}
    BY <1>1 DEF Met
  <2>2. QED
    BY <1>1, <1>4, <2>1 DEF Counted
<1>6. Tailed(new)
  BY <1>1 DEF Tailed
<1>7. \A j : ~Overtaxes(old, j)
  BY <1>1, NumberAssumption DEF Overtaxes, Counted
<1>8. Covered(new)
  BY <1>1, <1>7 DEF Covered, Excused
<1>9. QED
  BY <1>5, <1>6, <1>8

(* It came to an unknown invite, and every lookup had gone to others.      *)
LEMMA Overtaxed ==
  ASSUME NEW old \in Task, old.pc = "check", Sound(old), old.todo # <<>>, ~CanLookUp(old),
         NEW new, GoesOn(old, new), Head(old.todo) \in new.unknown
  PROVE  Overtaxes(new, Done(old) + 1)
<1>1. Tailed(old) /\ Counted(old) /\ old.pc \notin Busy /\ Done(old) \in Nat
  BY DEF Sound, Honest, Busy, Tailed
<1>2. old.text[Done(old) + 1] = Head(old.todo)
  BY <1>1, NextInvite
<1>3. old.lookups = MaxLookups
  BY NumberAssumption DEF CanLookUp, Task
<1>4. (Done(old) + 1) - 1 = Done(old)
  BY <1>1
<1>5. old.asked \subseteq {old.text[i] : i \in 1 .. Done(old)}
  BY <1>1 DEF Counted, Met
<1>6. Cardinality(new.asked) = MaxLookups /\ new.text[Done(old) + 1] \in new.unknown
  BY <1>1, <1>2, <1>3 DEF Counted, GoesOn
<1>7. new.asked \subseteq {new.text[i] : i \in 1 .. Done(old)}
  BY <1>5 DEF GoesOn
<1>8. QED
  BY <1>4, <1>6, <1>7 DEF Overtaxes

(* The next invite, after one that a verdict permits. *)
LEMMA PassingSound ==
  ASSUME NEW task \in Task, task.pc # "idle", Sound(task), task.todo # <<>>,
         NEW o \in Origin, ~Condemns(o)
  PROVE  Passing(task, o) \in Task /\ Sound(Passing(task, o))
<1> DEFINE new == Passing(task, o)  k == Head(task.todo)
<1>1. k \in Keys /\ Tail(task.todo) \in Seq(Keys)
  BY HeadTail DEF Task
<1>2. task.passed \cup {<<k, o>>} \in SUBSET (Keys \X Origin)
  BY <1>1 DEF Task
<1>3. /\ new.pc = "check" /\ new.settings = task.settings /\ new.text = task.text
      /\ new.todo = Tail(task.todo) /\ new.lookups = task.lookups
      /\ new.unknown = task.unknown /\ new.asked = task.asked
      /\ new.passed = task.passed \cup {<<k, o>>}
  BY DEF Task, Passing
<1>4. new \in Task
  BY <1>1, <1>2 DEF Task, PCs, Passing
<1> HIDE DEF new
<1>5. GoesOn(task, new)
  BY <1>3 DEF GoesOn
<1>6. Excused(new, Done(task) + 1)
  <2>1. new.text[Done(task) + 1] = k
    BY <1>3, NextInvite DEF Sound, Honest
  <2> HIDE DEF k
  <2>2. <<k, o>> \in new.passed
    BY <1>3
  <2>3. <<k, o>>[1] = k /\ <<k, o>>[2] = o
    OBVIOUS
  <2>4. QED
    BY <2>1, <2>2, <2>3 DEF Excused
<1>7. Honest(new)
  BY <1>3, <1>5, <1>6, LeavesOne DEF Honest
<1>8. Judging(new)
  BY <1>3 DEF Judging, Busy
<1>9. QED
  BY <1>4, <1>7, <1>8 DEF Sound, new

(* The message falls for an invite. *)
LEMMA OffendingSound ==
  ASSUME NEW task \in Task, task.pc # "idle", Sound(task), task.todo # <<>>,
         NEW o \in Origin, Condemns(o)
  PROVE  Offending(task, o) \in Task /\ Sound(Offending(task, o))
<1> DEFINE new == Offending(task, o)
<1>1. /\ new \in Task /\ new.pc = "strike" /\ new.origin = o
      /\ new.settings = task.settings /\ new.text = task.text /\ new.todo = task.todo
      /\ new.lookups = task.lookups /\ new.passed = task.passed
      /\ new.unknown = task.unknown /\ new.asked = task.asked
  BY DEF Task, PCs, Offending
<1> HIDE DEF new
<1>2. GoesOn(task, new) /\ new.pc \in Busy
  BY <1>1 DEF GoesOn, Busy
<1>3. Honest(new)
  BY <1>1, <1>2, Stays DEF Honest
<1>4. Judging(new)
  BY <1>1 DEF Judging
<1>5. QED
  BY <1>1, <1>3, <1>4 DEF Sound, new

(* A call was answered, or failed: the verdict says what the answer says. *)
LEMMA AnsweredSound ==
  ASSUME Inv, NEW t \in Workers, tasks[t].pc \in {"peek", "ask"},
         NEW target \in Targets \cup {Unanswered}, Answered(t, target)
  PROVE  tasks' \in [Workers -> Task] /\ \A u \in Workers : Sound(tasks'[u])
<1> DEFINE task == tasks[t]
           o == [guild |-> task.guild, settings |-> task.settings, target |-> target]
           new == [task EXCEPT !.pc = "store", !.allowed = IsAllowed(task, target),
                     !.origin = o]
<1>1. task \in Task /\ Sound(task) /\ task.pc # "idle" /\ task.todo # <<>>
  BY DEF Inv, TypeOK, Sound, Judging, Busy
<1>2. o \in Origin
  BY <1>1, InputAssumption DEF Task, Origin
<1>3. IsAllowed(task, target) \in BOOLEAN /\ (IsAllowed(task, target) <=> ~Condemns(o))
  BY DEF IsAllowed, Condemns, GuildAllowed
<1> HIDE DEF o
<1>4. new \in Task
  BY <1>1, <1>2, <1>3 DEF Task, PCs
<1>5. /\ new.pc = "store" /\ new.origin = o /\ new.allowed = IsAllowed(task, target)
      /\ new.settings = task.settings /\ new.text = task.text /\ new.todo = task.todo
      /\ new.lookups = task.lookups /\ new.passed = task.passed
      /\ new.unknown = task.unknown /\ new.asked = task.asked
  BY <1>1 DEF Task
<1> HIDE DEF new
<1>6. GoesOn(task, new) /\ new.pc \in Busy
  BY <1>5 DEF GoesOn, Busy
<1>7. Sound(new)
  BY <1>1, <1>3, <1>5, <1>6, Stays DEF Sound, Honest, Judging
<1>8. Goto(t, new)
  BY DEF Answered, new, o
<1>9. QED
  BY <1>4, <1>7, <1>8, OneMoves

(* The task with what Check finds in the cache.                            *)
Meets(t) ==
  [tasks[t] EXCEPT !.unknown = @ \cup {x \in {Head(tasks[t].todo)} : ~Cached(x)}]

LEMMA MeetsSound ==
  ASSUME Inv, NEW t \in Workers, Check(t)
  PROVE  LET task == Meets(t)  k == Head(task.todo) IN
         /\ task \in Task /\ Sound(task) /\ task.pc = "check" /\ task.todo # <<>>
         /\ task.todo = tasks[t].todo /\ k \in Keys
         /\ ~Cached(k) => k \in task.unknown
<1> DEFINE old == tasks[t]  k == Head(old.todo)
           found == {x \in {k} : ~Cached(x)}
           task == [old EXCEPT !.unknown = @ \cup found]
<1>1. old \in Task /\ Sound(old) /\ old.pc = "check" /\ old.todo # <<>>
  BY DEF Check, Inv, TypeOK
<1>2. k \in Keys
  BY <1>1, HeadTail DEF Task
<1> HIDE DEF old, k
<1>3. found \subseteq Keys /\ (~Cached(k) => k \in found)
  BY <1>2
<1> HIDE DEF found
<1>4. /\ task \in Task /\ task.pc = "check" /\ task.todo = old.todo
      /\ task.settings = old.settings /\ task.text = old.text
      /\ task.lookups = old.lookups /\ task.passed = old.passed
      /\ task.unknown = old.unknown \cup found /\ task.asked = old.asked
  BY <1>1, <1>3 DEF Task
<1>5. task = Meets(t)
  BY DEF Meets, old, k, found
<1> HIDE DEF task
<1>6. GoesOn(old, task) /\ "check" \notin Busy
  BY <1>4 DEF GoesOn, Busy
<1>7. Sound(task)
  BY <1>1, <1>4, <1>6, Stays DEF Sound, Honest, Judging
<1>8. QED
  BY <1>1, <1>2, <1>3, <1>4, <1>5, <1>7 DEF old, k

LEMMA CheckSound ==
  ASSUME Inv, NEW t \in Workers, Check(t)
  PROVE  tasks' \in [Workers -> Task] /\ \A u \in Workers : Sound(tasks'[u])
<1> DEFINE task == Meets(t)  k == Head(task.todo)
           looking == [task EXCEPT !.lookups = @ + 1, !.asked = @ \cup {k}]
<1>1. /\ task \in Task /\ Sound(task) /\ task.pc = "check" /\ task.pc # "idle"
      /\ task.todo # <<>> /\ k \in Keys /\ (~Cached(k) => k \in task.unknown)
  BY MeetsSound
<1>2. \/ IsListed(task.settings, k) /\ Goto(t, [task EXCEPT !.todo = Tail(@)])
      \/ Cached(k) /\ cache[k].allowed /\ Goto(t, Passing(task, cache[k].origin))
      \/ Cached(k) /\ ~cache[k].allowed /\ Goto(t, Offending(task, cache[k].origin))
      \/ ~Cached(k) /\ ~CanLookUp(task) /\ Goto(t, [task EXCEPT !.todo = AfterBreak(@)])
      \/ CanLookUp(task) /\ k \in Codes /\ Goto(t, [looking EXCEPT !.pc = "ask", !.code = k])
      \/ CanLookUp(task) /\ k \notin Codes /\ Goto(t, [looking EXCEPT !.pc = "peek"])
  <2>1. task.todo = tasks[t].todo
    BY MeetsSound
  <2>2. QED
    BY <2>1 DEF Check, Meets, Breaks
<1> HIDE DEF task, k
<1>3. /\ Tailed(task) /\ Tail(task.todo) \in Seq(Keys)
      /\ task.text[Done(task) + 1] = k /\ task.lookups \in 0 .. MaxLookups
  <2>1. Tailed(task) /\ task.todo \in Seq(Keys)
    BY <1>1 DEF Sound, Honest, Task
  <2>2. QED
    BY <1>1, <2>1, HeadTail, NextInvite DEF Task, k
<1>4. CASE IsListed(task.settings, k) /\ Goto(t, [task EXCEPT !.todo = Tail(@)])
  <2> DEFINE new == [task EXCEPT !.todo = Tail(@)]
  <2>1. /\ new \in Task /\ new.pc = "check" /\ new.todo = Tail(task.todo)
        /\ new.settings = task.settings /\ new.text = task.text
        /\ new.lookups = task.lookups /\ new.passed = task.passed
        /\ new.unknown = task.unknown /\ new.asked = task.asked
    BY <1>1, <1>3 DEF Task
  <2>2. Goto(t, new)
    BY <1>4
  <2> HIDE DEF new
  <2>3. GoesOn(task, new) /\ Excused(new, Done(task) + 1)
    BY <1>3, <1>4, <2>1 DEF GoesOn, Excused
  <2>4. Sound(new)
    BY <1>1, <2>1, <2>3, LeavesOne DEF Sound, Honest, Judging, Busy
  <2>5. QED
    BY <2>1, <2>2, <2>4, OneMoves
<1>5. CASE Cached(k) /\ cache[k].allowed /\ Goto(t, Passing(task, cache[k].origin))
  <2>1. cache[k].origin \in Origin /\ ~Condemns(cache[k].origin)
    BY <1>5 DEF Cached, Inv, TypeOK, HonestCache, Entry
  <2>2. QED
    BY <1>1, <1>5, <2>1, PassingSound, OneMoves
<1>6. CASE Cached(k) /\ ~cache[k].allowed /\ Goto(t, Offending(task, cache[k].origin))
  <2>1. cache[k].origin \in Origin /\ Condemns(cache[k].origin)
    BY <1>6 DEF Cached, Inv, TypeOK, HonestCache, Entry
  <2>2. QED
    BY <1>1, <1>6, <2>1, OffendingSound, OneMoves
<1>7. CASE ~Cached(k) /\ ~CanLookUp(task) /\ Goto(t, [task EXCEPT !.todo = AfterBreak(@)])
  <2> DEFINE new == [task EXCEPT !.todo = AfterBreak(@)]
  <2>1. PICK n \in 1 .. Len(task.todo) :
          /\ AfterBreak(task.todo) = Shortened(task.todo, n)
          /\ \A m \in 1 .. n : task.todo[m] \in Codes <=> k \in Codes
    BY <1>1, <1>3, BreakSplits DEF k
  <2>2. AfterBreak(task.todo) \in Seq(Keys)
    <3>1. task.todo \in Seq(Keys) /\ n \in Nat
      BY <1>1 DEF Task
    <3>2. QED
      BY <2>1, <3>1 DEF Shortened
  <2>3. /\ new \in Task /\ new.pc = "check" /\ new.todo = Shortened(task.todo, n)
        /\ new.settings = task.settings /\ new.text = task.text
        /\ new.lookups = task.lookups /\ new.passed = task.passed
        /\ new.unknown = task.unknown /\ new.asked = task.asked
    BY <1>1, <2>1, <2>2 DEF Task
  <2>4. Goto(t, new)
    BY <1>7
  <2> HIDE DEF new
  <2>5. GoesOn(task, new)
    BY <2>3 DEF GoesOn
  <2>6. Overtaxes(new, Done(task) + 1)
    BY <1>1, <1>7, <2>3, <2>5, Overtaxed DEF k
  <2>7. ASSUME NEW m \in 1 .. n PROVE Excused(new, Done(task) + m)
    <3>1. /\ m \in Nat \ {0} /\ Done(task) \in Nat /\ Len(task.todo) \in Nat
          /\ m \in 1 .. Len(task.todo)
      BY <1>1, <1>3, <2>1, TextType DEF Tailed
    <3>2. Done(task) + 1 \in 1 .. Done(task) + m
      BY <3>1
    <3>3. new.text[Done(task) + m] = task.todo[m] /\ new.text[Done(task) + 1] = k
      BY <1>3, <2>3, <3>1 DEF Tailed
    <3>4. new.text[Done(task) + 1] \in Codes <=> new.text[Done(task) + m] \in Codes
      BY <2>1, <3>3
    <3>5. QED
      BY <2>6, <3>2, <3>4 DEF Excused
  <2>8. Tailed(new) /\ Counted(new) /\ Covered(new)
    BY <1>1, <2>3, <2>5, <2>7, Leaves
  <2>9. Sound(new)
    BY <2>3, <2>8 DEF Sound, Honest, Judging, Busy
  <2>10. QED
    BY <2>3, <2>4, <2>9, OneMoves
<1>8. ASSUME CanLookUp(task)
      PROVE  /\ looking \in Task /\ looking.todo = task.todo /\ looking.text = task.text
             /\ looking.settings = task.settings /\ looking.passed = task.passed
             /\ looking.unknown = task.unknown /\ looking.lookups = task.lookups + 1
             /\ looking.asked = task.asked \cup {k}
  <2>1. task.lookups + 1 \in 0 .. MaxLookups /\ task.asked \cup {k} \in SUBSET Keys
    BY <1>1, <1>3, <1>8, NumberAssumption DEF CanLookUp, Task
  <2>2. QED
    BY <1>1, <2>1 DEF Task
<1> HIDE DEF looking
<1>9. ASSUME CanLookUp(task), NEW new \in Task, new.pc \in {"ask", "peek"},
             new.pc = "peek" => k \in Slugs, Goto(t, new),
             new.todo = looking.todo, new.text = looking.text,
             new.settings = looking.settings, new.passed = looking.passed,
             new.unknown = looking.unknown, new.lookups = looking.lookups,
             new.asked = looking.asked
      PROVE  tasks' \in [Workers -> Task] /\ \A u \in Workers : Sound(tasks'[u])
  <2>1. new.pc \in Busy
    BY <1>9 DEF Busy
  <2>2. Tailed(new) /\ Counted(new) /\ Covered(new)
    BY <1>1, <1>8, <1>9, <2>1, LooksUp DEF k
  <2>3. Sound(new)
    BY <1>1, <1>8, <1>9, <2>2 DEF Sound, Honest, Judging, k
  <2>4. QED
    BY <1>9, <2>3, OneMoves
<1>10. CASE /\ CanLookUp(task) /\ k \in Codes
            /\ Goto(t, [looking EXCEPT !.pc = "ask", !.code = k])
  <2> DEFINE new == [looking EXCEPT !.pc = "ask", !.code = k]
  <2>1. /\ new \in Task /\ new.pc = "ask"
        /\ new.todo = looking.todo /\ new.text = looking.text
        /\ new.settings = looking.settings /\ new.passed = looking.passed
        /\ new.unknown = looking.unknown /\ new.lookups = looking.lookups
        /\ new.asked = looking.asked
    BY <1>8, <1>10 DEF Task, PCs
  <2>2. Goto(t, new)
    BY <1>10
  <2> HIDE DEF new
  <2>3. QED
    BY <1>9, <1>10, <2>1, <2>2
<1>11. CASE /\ CanLookUp(task) /\ k \notin Codes
            /\ Goto(t, [looking EXCEPT !.pc = "peek"])
  <2> DEFINE new == [looking EXCEPT !.pc = "peek"]
  <2>1. /\ new \in Task /\ new.pc = "peek"
        /\ new.todo = looking.todo /\ new.text = looking.text
        /\ new.settings = looking.settings /\ new.passed = looking.passed
        /\ new.unknown = looking.unknown /\ new.lookups = looking.lookups
        /\ new.asked = looking.asked
    BY <1>8, <1>11 DEF Task, PCs
  <2>2. Goto(t, new) /\ k \in Slugs
    BY <1>1, <1>11 DEF Keys
  <2> HIDE DEF new
  <2>3. QED
    BY <1>9, <1>11, <2>1, <2>2
<1>12. QED
  BY <1>2, <1>4, <1>5, <1>6, <1>7, <1>10, <1>11

LEMMA PeekSound ==
  ASSUME Inv, NEW t \in Workers, Peek(t)
  PROVE  tasks' \in [Workers -> Task] /\ \A u \in Workers : Sound(tasks'[u])
<1> DEFINE task == tasks[t]  code == redirects[Head(task.todo)]
           new == [task EXCEPT !.pc = "ask", !.code = code]
<1>1. /\ task \in Task /\ Sound(task) /\ task.pc = "peek" /\ task.pc # "idle"
      /\ task.todo # <<>> /\ Head(task.todo) \in Slugs
  BY DEF Peek, Inv, TypeOK, Sound, Judging, Busy
<1>2. code \in Codes \cup {Nowhere}
  BY <1>1 DEF Inv, TypeOK
<1>3. CASE code # Nowhere /\ Goto(t, new)
  <2>1. code \in Codes /\ Goto(t, new)
    BY <1>2, <1>3
  <2> HIDE DEF code, task
  <2>2. /\ new \in Task /\ new.pc = "ask" /\ new.todo = task.todo
        /\ new.settings = task.settings /\ new.text = task.text
        /\ new.lookups = task.lookups /\ new.passed = task.passed
        /\ new.unknown = task.unknown /\ new.asked = task.asked
    BY <1>1, <2>1 DEF Task, PCs
  <2> HIDE DEF new
  <2>3. GoesOn(task, new) /\ new.pc \in Busy
    BY <2>2 DEF GoesOn, Busy
  <2>4. Sound(new)
    BY <1>1, <2>2, <2>3, Stays DEF Sound, Honest, Judging
  <2>5. QED
    BY <2>1, <2>2, <2>4, OneMoves
<1>4. CASE Answered(t, Nowhere) \/ Answered(t, Unanswered)
  BY <1>1, <1>4, AnsweredSound DEF Targets
<1>5. QED
  BY <1>3, <1>4 DEF Peek

LEMMA AskSound ==
  ASSUME Inv, NEW t \in Workers, Ask(t)
  PROVE  tasks' \in [Workers -> Task] /\ \A u \in Workers : Sound(tasks'[u])
<1>1. tasks[t].pc = "ask" /\ tasks[t].code \in Codes
  BY DEF Ask, Inv, TypeOK, Task
<1>2. leads[tasks[t].code] \in Targets
  BY <1>1 DEF Inv, TypeOK
<1>3. QED
  BY <1>1, <1>2, AnsweredSound DEF Ask

LEMMA StoreSound ==
  ASSUME Inv, NEW t \in Workers, Store(t)
  PROVE  /\ tasks' \in [Workers -> Task] /\ \A u \in Workers : Sound(tasks'[u])
         /\ \E key \in Keys, entry \in Entry :
              Insert(key, entry) /\ entry.at = now
              /\ (entry.allowed <=> ~Condemns(entry.origin))
<1> DEFINE task == tasks[t]
           entry == [allowed |-> task.allowed, at |-> now, origin |-> task.origin]
<1>1. /\ task \in Task /\ Sound(task) /\ task.pc = "store" /\ task.pc # "idle"
      /\ task.todo # <<>> /\ Head(task.todo) \in Keys /\ now \in Nat
  BY HeadTail DEF Store, Inv, TypeOK, Task, Sound, Judging, Busy
<1>2. /\ task.allowed \in BOOLEAN /\ task.origin \in Origin
      /\ (task.allowed <=> ~Condemns(task.origin))
  BY <1>1 DEF Task, Sound, Honest
<1>3. entry \in Entry /\ entry.at = now /\ (entry.allowed <=> ~Condemns(entry.origin))
  BY <1>1, <1>2 DEF Entry
<1>4. Insert(Head(task.todo), entry)
  BY DEF Store
<1> HIDE DEF entry
<1>5. CASE task.allowed /\ Goto(t, Passing(task, task.origin))
  <2>1. Passing(task, task.origin) \in Task /\ Sound(Passing(task, task.origin))
    <3> HIDE DEF task
    <3>1. QED
      BY <1>1, <1>2, <1>5, PassingSound
  <2> DEFINE new == Passing(task, task.origin)
  <2>2. new \in Task /\ Sound(new) /\ Goto(t, new)
    BY <1>5, <2>1
  <2> HIDE DEF new
  <2>3. tasks' \in [Workers -> Task] /\ \A u \in Workers : Sound(tasks'[u])
    BY <2>2, OneMoves
  <2>4. QED
    BY <1>1, <1>3, <1>4, <2>3
<1>6. CASE ~task.allowed /\ Goto(t, Offending(task, task.origin))
  <2>1. Offending(task, task.origin) \in Task /\ Sound(Offending(task, task.origin))
    <3> HIDE DEF task
    <3>1. QED
      BY <1>1, <1>2, <1>6, OffendingSound
  <2> DEFINE new == Offending(task, task.origin)
  <2>2. new \in Task /\ Sound(new) /\ Goto(t, new)
    BY <1>6, <2>1
  <2> HIDE DEF new
  <2>3. tasks' \in [Workers -> Task] /\ \A u \in Workers : Sound(tasks'[u])
    BY <2>2, OneMoves
  <2>4. QED
    BY <1>1, <1>3, <1>4, <2>3
<1>7. (task.allowed /\ Goto(t, Passing(task, task.origin)))
        \/ (~task.allowed /\ Goto(t, Offending(task, task.origin)))
  BY <1>2 DEF Store
<1>8. QED
  BY <1>5, <1>6, <1>7

LEMMA PostSound ==
  ASSUME Inv, NEW t \in Workers, NEW g \in Guilds, NEW text \in Texts, Post(t, g, text)
  PROVE  tasks' \in [Workers -> Task] /\ \A u \in Workers : Sound(tasks'[u])
<1> DEFINE new == [Idle EXCEPT !.pc = "check", !.guild = g, !.settings = cfg[g],
                               !.todo = text, !.text = text]
<1>1. text \in Seq(Keys) /\ cfg[g] \in Inputs
  BY InputAssumption DEF Inv, TypeOK
<1>2. /\ new \in Task /\ new.pc = "check" /\ new.todo = text /\ new.text = text
      /\ new.asked = {} /\ new.lookups = 0
  <2>1. Idle \in Task /\ Idle.asked = {} /\ Idle.lookups = 0
    BY IdleSound DEF Idle
  <2>2. QED
    BY <1>1, <2>1 DEF Task, PCs
<1>3. Goto(t, new)
  BY DEF Post
<1> HIDE DEF new
<1>4. Done(new) = 0
  BY <1>1, <1>2 DEF Done
<1>5. Tailed(new) /\ Covered(new)
  BY <1>1, <1>2, <1>4 DEF Tailed, Covered
<1>6. Counted(new)
  BY <1>2, FS_EmptySet DEF Counted
<1>7. Sound(new)
  BY <1>2, <1>5, <1>6 DEF Sound, Honest, Judging, Busy
<1>8. QED
  BY <1>2, <1>3, <1>7, OneMoves

-----------------------------------------------------------------------------
(* The cache. *)

LEMMA InsertKeeps ==
  ASSUME Inv, NEW key \in Keys, NEW entry \in Entry, Insert(key, entry),
         entry.allowed <=> ~Condemns(entry.origin)
  PROVE  /\ DOMAIN cache' \subseteq Keys /\ cache' \in [DOMAIN cache' -> Entry]
         /\ HonestCache'
<1>1. /\ DOMAIN cache \subseteq Keys /\ \A k \in DOMAIN cache : cache[k] \in Entry
      /\ HonestCache
  BY DEF Inv, TypeOK
<1>2. Swept \subseteq DOMAIN cache
  BY DEF Swept
<1>3. cache' = [k \in Swept \cup {key} |-> IF k = key THEN entry ELSE cache[k]]
  BY DEF Insert
<1>4. DOMAIN cache' = Swept \cup {key}
  BY <1>3
<1>5. \A k \in DOMAIN cache' : cache'[k] = entry \/ (k \in DOMAIN cache /\ cache'[k] = cache[k])
  BY <1>2, <1>3, <1>4
<1>6. \A k \in DOMAIN cache' : cache'[k] \in Entry
  BY <1>1, <1>5
<1>7. HonestCache'
  BY <1>1, <1>5 DEF HonestCache
<1>8. cache' \in [DOMAIN cache' -> Entry]
  BY <1>3, <1>4, <1>6
<1>9. QED
  BY <1>1, <1>2, <1>4, <1>7, <1>8

(* The empty cache, of a process that starts. *)
LEMMA EmptyCache ==
  DOMAIN <<>> = {} /\ \A S : <<>> \in [DOMAIN <<>> -> S]
OBVIOUS

-----------------------------------------------------------------------------
(* The verdicts. *)

LEMMA InvStep == ASSUME Inv, [Next]_vars PROVE Inv'
<1>1. ASSUME NEW t \in Workers, NEW g \in Guilds, NEW text \in Texts, Post(t, g, text)
      PROVE  Inv'
  <2>1. UNCHANGED <<cfg, leads, redirects, cache, now, faults>> /\ stimuli' \in Nat
    BY <1>1 DEF Post, Stimulus, Inv, TypeOK
  <2>2. QED
    BY <1>1, <2>1, PostSound DEF Inv, TypeOK, HonestCache
<1>2. ASSUME NEW t \in Workers, Finish(t) \/ Strike(t) PROVE Inv'
  <2>1. UNCHANGED <<cfg, leads, redirects, cache, now, stimuli, faults>> /\ Ends(t)
    BY <1>2 DEF Finish, Strike
  <2>2. QED
    BY <2>1, OneEnds DEF Inv, TypeOK, HonestCache
<1>3. ASSUME NEW t \in Workers, Check(t) PROVE Inv'
  <2>1. UNCHANGED <<cfg, leads, redirects, cache, now, stimuli, faults>>
    BY <1>3 DEF Check
  <2>2. QED
    BY <1>3, <2>1, CheckSound DEF Inv, TypeOK, HonestCache
<1>4. ASSUME NEW t \in Workers, Peek(t) \/ Ask(t) PROVE Inv'
  <2>1. UNCHANGED <<cfg, leads, redirects, cache, now, stimuli>>
    BY <1>4 DEF Peek, Ask
  <2>2. faults' \in Nat
    <3>1. Fault \/ NoFault
      BY <1>4 DEF Peek, Ask
    <3>2. QED
      BY <3>1 DEF Fault, NoFault, Inv, TypeOK
  <2>3. QED
    BY <1>4, <2>1, <2>2, PeekSound, AskSound DEF Inv, TypeOK, HonestCache
<1>5. ASSUME NEW t \in Workers, Store(t) PROVE Inv'
  <2>1. UNCHANGED <<cfg, leads, redirects, now, stimuli, faults>>
    BY <1>5 DEF Store
  <2>2. PICK key \in Keys, entry \in Entry :
          Insert(key, entry) /\ entry.at = now /\ (entry.allowed <=> ~Condemns(entry.origin))
    BY <1>5, StoreSound
  <2>3. /\ DOMAIN cache' \subseteq Keys /\ cache' \in [DOMAIN cache' -> Entry]
        /\ HonestCache'
    BY <2>2, InsertKeeps
  <2>4. QED
    BY <1>5, <2>1, <2>3, StoreSound DEF Inv, TypeOK
<1>6. ASSUME NEW g \in Guilds, NEW s \in Inputs, Configure(g, s) PROVE Inv'
  BY <1>6 DEF Configure, Stimulus, Inv, TypeOK, HonestCache
<1>7. ASSUME NEW c \in Codes, NEW target \in Targets, Repoint(c, target) PROVE Inv'
  BY <1>7 DEF Repoint, Stimulus, Inv, TypeOK, HonestCache
<1>8. CASE Crash
  <2>1. /\ tasks' = [t \in Workers |-> Idle] /\ cache' = <<>>
        /\ UNCHANGED <<cfg, leads, redirects, now, faults>> /\ stimuli' \in Nat
    BY <1>8 DEF Crash, Stimulus, Inv, TypeOK
  <2>2. DOMAIN cache' = {} /\ cache' \in [DOMAIN cache' -> Entry]
    BY <2>1, EmptyCache
  <2>3. tasks' \in [Workers -> Task] /\ \A t \in Workers : Sound(tasks'[t])
    BY <2>1, IdleSound
  <2>4. QED
    BY <2>1, <2>2, <2>3 DEF Inv, TypeOK, HonestCache
<1>9. CASE Tick
  BY <1>9 DEF Tick, Inv, TypeOK, HonestCache
<1>10. CASE UNCHANGED vars
  BY <1>10 DEF vars, Inv, TypeOK, HonestCache
<1>11. QED
  BY <1>1, <1>2, <1>3, <1>4, <1>5, <1>6, <1>7, <1>8, <1>9, <1>10 DEF Next, TaskStep

(***************************************************************************)
(* Every variable keeps its type, and every verdict says what its answer   *)
(* says.                                                                   *)
(***************************************************************************)
THEOREM VerdictsAreHonest == Spec => []Inv
<1>1. Init => Inv
  <2> SUFFICES ASSUME Init PROVE Inv
    OBVIOUS
  <2>1. tasks \in [Workers -> Task] /\ \A t \in Workers : Sound(tasks[t])
    BY IdleSound DEF Init
  <2>2. DOMAIN cache = {} /\ cache \in [DOMAIN cache -> Entry]
    BY EmptyCache DEF Init
  <2>3. QED
    BY <2>1, <2>2, NumberAssumption DEF Init, Inv, TypeOK, HonestCache
<1>2. Inv /\ [Next]_vars => Inv'
  BY InvStep
<1>3. QED
  BY <1>1, <1>2, PTL DEF Spec

(* Every variable keeps its type, and a message its budget of lookups. *)
THEOREM InvitesTyped == Spec => []TypeOK
<1>1. Inv => TypeOK
  BY DEF Inv
<1>2. QED
  BY <1>1, VerdictsAreHonest, PTL

(***************************************************************************)
(* A message only falls for an answer that condemns one of its invites,    *)
(* whoever asked and whenever: a failed call condemns nobody.              *)
(***************************************************************************)
THEOREM FlagsAreEarned == Spec => []FlagIsEarned
<1>1. Inv => FlagIsEarned
  BY DEF Inv, Sound, Honest, FlagIsEarned
<1>2. QED
  BY <1>1, VerdictsAreHonest, PTL

(***************************************************************************)
(* A message passes with every invite judged, but for those of each kind   *)
(* from the first on that would have taken one lookup too many.            *)
(***************************************************************************)
THEOREM NothingPassesFree == Spec => []NoFreePass
<1>1. Inv => NoFreePass
  <2> SUFFICES ASSUME Inv, NEW t \in Workers, tasks[t].pc = "check", tasks[t].todo = <<>>,
                      NEW i \in DOMAIN tasks[t].text
               PROVE  Excused(tasks[t], i)
    BY DEF NoFreePass
  <2>1. tasks[t] \in Task /\ Covered(tasks[t])
    BY DEF Inv, TypeOK, Sound, Honest
  <2>2. i \in 1 .. Len(tasks[t].text) /\ Len(tasks[t].text) \in Nat
    BY <2>1, TextType
  <2>3. Done(tasks[t]) = Len(tasks[t].text)
    BY <2>2 DEF Done
  <2>4. QED
    BY <2>1, <2>2, <2>3 DEF Covered
<1>2. QED
  BY <1>1, VerdictsAreHonest, PTL

-----------------------------------------------------------------------------
(* The cap. *)

(***************************************************************************)
(* The inductive invariant: the cache is finite, no entry is from later    *)
(* than now, and it is over its cap only by entries alive together.        *)
(***************************************************************************)
CacheInv ==
  /\ IsFiniteSet(DOMAIN cache)
  /\ \A k \in DOMAIN cache : cache[k].at <= now
  /\ CacheIsBounded

LEMMA InsertBounds ==
  ASSUME Inv, CacheInv, NEW key \in Keys, NEW entry \in Entry, Insert(key, entry),
         entry.at = now, UNCHANGED now
  PROVE  CacheInv'
<1>1. /\ now \in Nat /\ CacheTTL \in Nat /\ CacheTTL > 0 /\ CacheCap \in Nat
      /\ \A k \in DOMAIN cache : cache[k].at \in Nat /\ cache[k].at <= now
  BY NumberAssumption DEF Inv, TypeOK, CacheInv, Entry
<1>2. IsFiniteSet(Swept) /\ Swept \subseteq DOMAIN cache
  <2>1. Swept \in SUBSET DOMAIN cache
    BY DEF Swept
  <2>2. QED
    BY <2>1, FS_Subset DEF CacheInv
<1>3. /\ DOMAIN cache' = Swept \cup {key}
      /\ \A k \in DOMAIN cache' :
           \/ cache'[k] = entry
           \/ k \in Swept /\ cache'[k] = cache[k]
  BY DEF Insert
<1>4. /\ IsFiniteSet(Swept \cup {key})
      /\ Cardinality(Swept \cup {key}) \in {Cardinality(Swept), Cardinality(Swept) + 1}
      /\ Cardinality(Swept) \in Nat
  BY <1>2, FS_AddElement, FS_CardinalityType
<1>5. \A k \in DOMAIN cache' : cache'[k].at <= now /\ cache'[k].at \in Nat
  BY <1>1, <1>2, <1>3
<1>6. CASE Cardinality(DOMAIN cache) >= CacheCap
  <2>1. \A k \in Swept : now - cache[k].at < CacheTTL
    BY <1>6 DEF Swept, IsFresh
  <2>2. \A k \in DOMAIN cache' : now - cache'[k].at < CacheTTL
    BY <1>1, <1>3, <2>1
  <2>3. \A k, l \in DOMAIN cache' : cache'[k].at - cache'[l].at < CacheTTL
    BY <1>1, <1>5, <2>2
  <2>4. CacheIsBounded'
    BY <2>3 DEF CacheIsBounded
  <2>5. QED
    BY <1>3, <1>4, <1>5, <2>4 DEF CacheInv
<1>7. CASE ~(Cardinality(DOMAIN cache) >= CacheCap)
  <2>1. Swept = DOMAIN cache
    BY <1>7 DEF Swept
  <2>2. Cardinality(Swept) < CacheCap
    BY <1>1, <1>4, <1>7, <2>1
  <2>3. Cardinality(Swept \cup {key}) <= CacheCap
    BY <1>1, <1>4, <2>2
  <2>4. ~(Cardinality(DOMAIN cache') > CacheCap)
    BY <1>1, <1>3, <1>4, <2>3
  <2>5. CacheIsBounded'
    BY <2>4 DEF CacheIsBounded
  <2>6. QED
    BY <1>3, <1>4, <1>5, <2>5 DEF CacheInv
<1>8. QED
  BY <1>6, <1>7

(***************************************************************************)
(* The cache keeps to its cap, but for entries that are alive together,    *)
(* whatever the handlers of all guilds insert at once.                     *)
(***************************************************************************)
THEOREM TheCacheIsBounded == Spec => []CacheIsBounded
<1>1. Init => CacheInv
  <2> SUFFICES ASSUME Init PROVE CacheInv
    OBVIOUS
  <2>1. DOMAIN cache = {} /\ IsFiniteSet({})
    BY EmptyCache, FS_EmptySet DEF Init
  <2>2. QED
    BY <2>1 DEF CacheInv, CacheIsBounded
<1>2. Inv /\ CacheInv /\ [Next]_vars => CacheInv'
  <2> SUFFICES ASSUME Inv, CacheInv, [Next]_vars PROVE CacheInv'
    OBVIOUS
  <2>1. CASE UNCHANGED <<cache, now>>
    BY <2>1 DEF CacheInv, CacheIsBounded
  <2>2. ASSUME NEW t \in Workers, Store(t) PROVE CacheInv'
    <3>1. PICK key \in Keys, entry \in Entry : Insert(key, entry) /\ entry.at = now
      BY <2>2, StoreSound
    <3>2. UNCHANGED now
      BY <2>2 DEF Store
    <3>3. QED
      BY <3>1, <3>2, InsertBounds
  <2>3. CASE Tick
    <3>1. /\ cache' = cache /\ now' = now + 1 /\ now \in Nat
          /\ \A k \in DOMAIN cache : cache[k].at \in Nat /\ cache[k].at <= now
      BY <2>3 DEF Tick, Inv, TypeOK, CacheInv, Entry
    <3>2. QED
      BY <3>1 DEF CacheInv, CacheIsBounded
  <2>4. CASE Crash
    <3>1. DOMAIN cache' = {} /\ IsFiniteSet({})
      BY <2>4, EmptyCache, FS_EmptySet DEF Crash
    <3>2. QED
      BY <3>1 DEF CacheInv, CacheIsBounded
  <2>5. ASSUME \/ \E t \in Workers : Finish(t) \/ Check(t) \/ Peek(t) \/ Ask(t) \/ Strike(t)
               \/ \E t \in Workers, g \in Guilds, text \in Texts : Post(t, g, text)
               \/ \E g \in Guilds, s \in Inputs : Configure(g, s)
               \/ \E c \in Codes, target \in Targets : Repoint(c, target)
               \/ UNCHANGED vars
        PROVE  UNCHANGED <<cache, now>>
    BY <2>5 DEF Finish, Check, Peek, Ask, Strike, Post, Configure, Repoint, vars
  <2>6. QED
    BY <2>1, <2>2, <2>3, <2>4, <2>5 DEF Next, TaskStep
<1>3. CacheInv => CacheIsBounded
  BY DEF CacheInv
<1>4. QED
  BY <1>1, <1>2, <1>3, VerdictsAreHonest, PTL DEF Spec

-----------------------------------------------------------------------------
(***************************************************************************)
(* "invites to THIS server always pass" (core/src/link_filter.rs:233) does *)
(* not hold of the code; the run InviteShared shows a verdict of another   *)
(* server under the same code.  That is the only way, while no invite      *)
(* changes its destination: for any guilds, texts, settings, cache sizes,  *)
(* failures and restarts.                                                  *)
(***************************************************************************)

StableInvites == "repoint" \notin Ops

(* Of an answer about k: it is where k leads, or there was none.           *)
Tells(o, k) == o.target \in {Unanswered, Destination(k)}

(* A code being asked about leads where the invite under judgement does.   *)
AsksRight(task) ==
  /\ task.pc = "ask" => leads[task.code] = Destination(Head(task.todo))
  /\ task.pc \in {"store", "strike"} => Tells(task.origin, Head(task.todo))

TrueAnswers ==
  /\ \A k \in DOMAIN cache : Tells(cache[k].origin, k)
  /\ \A t \in Workers : AsksRight(tasks[t])

(* An invite to the own guild is struck for another guild's verdict only.  *)
OnlyAnothersVerdict ==
  \A t \in Workers :
    tasks[t].pc = "strike" /\ Destination(Head(tasks[t].todo)) = tasks[t].guild
      => tasks[t].origin.guild # tasks[t].guild

(* A step that moves one task, to a state in which it asks for what it     *)
(* judges.                                                                 *)
LEMMA OneAsksRight ==
  ASSUME Inv, TrueAnswers, UNCHANGED <<leads, redirects>>,
         NEW t \in Workers, NEW task, Goto(t, task), AsksRight(task)
  PROVE  \A u \in Workers : AsksRight(tasks[u])'
<1>1. \A u \in Workers : tasks'[u] = tasks[u] \/ tasks'[u] = task
  BY DEF Inv, TypeOK, Goto
<1>2. \A u \in Workers : AsksRight(tasks'[u])
  BY <1>1 DEF TrueAnswers
<1>3. QED
  BY <1>2 DEF AsksRight, Tells, Destination

(* An answer is about the code that was asked for.                         *)
LEMMA AnswerTells ==
  ASSUME Inv, TrueAnswers, UNCHANGED <<leads, redirects>>,
         NEW t \in Workers, NEW target, Answered(t, target),
         target \in {Unanswered, Destination(Head(tasks[t].todo))}
  PROVE  \A u \in Workers : AsksRight(tasks[u])'
<1> DEFINE task == tasks[t]
           o == [guild |-> task.guild, settings |-> task.settings, target |-> target]
           new == [task EXCEPT !.pc = "store", !.allowed = IsAllowed(task, target),
                               !.origin = o]
<1>1. task \in Task
  BY DEF Inv, TypeOK
<1>2. new.pc = "store" /\ new.todo = task.todo /\ new.origin = o /\ o.target = target
  BY <1>1 DEF Task
<1>3. Goto(t, new)
  BY DEF Answered
<1>4. AsksRight(new)
  BY <1>2 DEF AsksRight, Tells
<1> HIDE DEF new
<1>5. QED
  BY <1>3, <1>4, OneAsksRight

(* The next task of one that goes on, passes or offends.                   *)
LEMMA NextAsksRight ==
  ASSUME NEW task \in Task, NEW o
  PROVE  /\ AsksRight(Passing(task, o)) /\ AsksRight(Idle)
         /\ \A todo : AsksRight([task EXCEPT !.pc = "check", !.todo = todo])
         /\ Tells(o, Head(task.todo)) => AsksRight(Offending(task, o))
<1>1. Passing(task, o).pc = "check" /\ Idle.pc = "idle"
  BY DEF Passing, Task, Idle
<1>2. /\ Offending(task, o).pc = "strike" /\ Offending(task, o).origin = o
      /\ Offending(task, o).todo = task.todo
  BY DEF Offending, Task
<1>3. \A todo : [task EXCEPT !.pc = "check", !.todo = todo].pc = "check"
  BY DEF Task
<1>4. QED
  BY <1>1, <1>2, <1>3 DEF AsksRight

(* The loops of first_offending_invite.                                    *)
LEMMA CheckAsksRight ==
  ASSUME Inv, TrueAnswers, NEW t \in Workers, Check(t)
  PROVE  \A u \in Workers : AsksRight(tasks[u])'
<1> DEFINE task == Meets(t)  k == Head(task.todo)
           looking == [task EXCEPT !.lookups = @ + 1, !.asked = @ \cup {k}]
<1>1. /\ task \in Task /\ task.pc = "check" /\ k \in Keys
      /\ task.todo = tasks[t].todo /\ UNCHANGED <<leads, redirects>>
  BY MeetsSound DEF Check
<1>2. CASE \E todo : Goto(t, [task EXCEPT !.todo = todo])
  <2>1. PICK todo : Goto(t, [task EXCEPT !.todo = todo])
    BY <1>2
  <2>2. [task EXCEPT !.todo = todo].pc = "check"
    BY <1>1 DEF Task
  <2>3. AsksRight([task EXCEPT !.todo = todo])
    BY <2>2 DEF AsksRight
  <2>4. QED
    BY <1>1, <2>1, <2>3, OneAsksRight
<1>3. CASE Goto(t, Passing(task, cache[k].origin))
  <2>1. AsksRight(Passing(task, cache[k].origin))
    BY <1>1, NextAsksRight
  <2>2. QED
    BY <1>1, <1>3, <2>1, OneAsksRight
<1>4. CASE Cached(k) /\ Goto(t, Offending(task, cache[k].origin))
  <2>1. Tells(cache[k].origin, k)
    BY <1>4 DEF Cached, TrueAnswers
  <2>2. AsksRight(Offending(task, cache[k].origin))
    BY <1>1, <2>1, NextAsksRight
  <2>3. QED
    BY <1>1, <1>4, <2>2, OneAsksRight
<1>5. CASE k \in Codes /\ Goto(t, [looking EXCEPT !.pc = "ask", !.code = k])
  <2> DEFINE new == [looking EXCEPT !.pc = "ask", !.code = k]
  <2>1. new.pc = "ask" /\ new.code = k /\ new.todo = task.todo
    BY <1>1 DEF Task
  <2>2. AsksRight(new)
    BY <1>5, <2>1 DEF AsksRight, Destination
  <2>3. QED
    BY <1>1, <1>5, <2>2, OneAsksRight
<1>6. CASE Goto(t, [looking EXCEPT !.pc = "peek"])
  <2> DEFINE new == [looking EXCEPT !.pc = "peek"]
  <2>1. new.pc = "peek"
    BY <1>1 DEF Task
  <2>2. AsksRight(new)
    BY <2>1 DEF AsksRight
  <2>3. QED
    BY <1>1, <1>6, <2>2, OneAsksRight
<1>7. QED
  BY <1>1, <1>2, <1>3, <1>4, <1>5, <1>6 DEF Check, Meets, Breaks

(* The two calls of the network.                                           *)
LEMMA CallAsksRight ==
  ASSUME Inv, TrueAnswers, NEW t \in Workers, Peek(t) \/ Ask(t)
  PROVE  \A u \in Workers : AsksRight(tasks[u])'
<1> DEFINE task == tasks[t]  k == Head(task.todo)  code == redirects[k]
<1>1. task \in Task /\ Judging(task) /\ AsksRight(task) /\ UNCHANGED <<leads, redirects>>
  BY DEF Inv, TypeOK, Sound, TrueAnswers, Peek, Ask
<1>2. CASE Ask(t)
  <2>1. task.pc = "ask" /\ leads[task.code] = Destination(k)
    BY <1>1, <1>2 DEF Ask, AsksRight
  <2>2. PICK target \in {Unanswered, Destination(k)} : Answered(t, target)
    BY <1>2, <2>1 DEF Ask
  <2>3. QED
    BY <1>1, <2>2, AnswerTells
<1>3. CASE Peek(t)
  <2>1. k \in Slugs /\ k \notin Codes
    BY <1>1, <1>3, NameAssumption DEF Peek, Judging
  <2>2. CASE code # Nowhere /\ Goto(t, [task EXCEPT !.pc = "ask", !.code = code])
    <3> DEFINE new == [task EXCEPT !.pc = "ask", !.code = code]
    <3>1. new.pc = "ask" /\ new.code = code /\ new.todo = task.todo
      BY <1>1 DEF Task
    <3>2. AsksRight(new)
      BY <2>1, <2>2, <3>1 DEF AsksRight, Destination
    <3>3. QED
      BY <1>1, <2>2, <3>2, OneAsksRight
  <2>3. CASE code = Nowhere /\ Answered(t, Nowhere)
    <3>1. Destination(k) = Nowhere
      BY <2>1, <2>3 DEF Destination
    <3>2. QED
      BY <1>1, <2>3, <3>1, AnswerTells
  <2>4. CASE Answered(t, Unanswered)
    BY <1>1, <2>4, AnswerTells
  <2>5. QED
    BY <1>3, <2>2, <2>3, <2>4 DEF Peek
<1>4. QED
  BY <1>2, <1>3

(* What is stored is what was answered about that key.                     *)
LEMMA StoreTells ==
  ASSUME Inv, TrueAnswers, NEW t \in Workers, Store(t)
  PROVE  /\ \A u \in Workers : AsksRight(tasks[u])'
         /\ \A k \in DOMAIN cache' : Tells(cache[k].origin, k)'
<1> DEFINE task == tasks[t]  key == Head(task.todo)
           entry == [allowed |-> task.allowed, at |-> now, origin |-> task.origin]
<1>1. /\ task \in Task /\ Tells(task.origin, key) /\ UNCHANGED <<leads, redirects>>
  BY DEF Inv, TypeOK, TrueAnswers, AsksRight, Store
<1>2. cache' = [k \in Swept \cup {key} |-> IF k = key THEN entry ELSE cache[k]]
  BY DEF Store, Insert
<1>3. \A k \in DOMAIN cache' : Tells(cache'[k].origin, k)
  <2>1. Swept \subseteq DOMAIN cache
    BY DEF Swept
  <2>2. \A k \in DOMAIN cache' : \/ k = key /\ cache'[k] = entry
                                 \/ k \in DOMAIN cache /\ cache'[k] = cache[k]
    BY <1>2, <2>1
  <2>3. entry.origin = task.origin
    OBVIOUS
  <2> HIDE DEF entry
  <2>4. QED
    BY <1>1, <2>2, <2>3 DEF TrueAnswers
<1>4. \E new : Goto(t, new) /\ AsksRight(new)
  BY <1>1, NextAsksRight DEF Store
<1>5. QED
  BY <1>1, <1>3, <1>4, OneAsksRight DEF Tells, Destination

(* Answers stay true while no invite changes its destination.              *)
LEMMA AnswersStep ==
  ASSUME StableInvites, Inv, TrueAnswers, [Next]_vars
  PROVE  TrueAnswers'
<1>1. UNCHANGED <<leads, redirects>>
  BY DEF StableInvites, Next, TaskStep, Finish, Check, Peek, Ask, Store, Strike, Post,
         Configure, Repoint, Stimulus, Crash, Tick, vars
<1>2. CASE UNCHANGED cache /\ \A u \in Workers : AsksRight(tasks[u])'
  BY <1>1, <1>2 DEF TrueAnswers, Tells, Destination
<1>3. ASSUME NEW t \in Workers,
             \/ Finish(t) \/ Strike(t)
             \/ \E g \in Guilds, text \in Texts : Post(t, g, text)
      PROVE  TrueAnswers'
  <2>1. \E new : Goto(t, new) /\ AsksRight(new)
    <3>1. CASE Finish(t) \/ Strike(t)
      BY <3>1, IdleSound DEF Finish, Strike, Ends, AsksRight
    <3>2. ASSUME NEW g \in Guilds, NEW text \in Texts, Post(t, g, text)
          PROVE  \E new : Goto(t, new) /\ AsksRight(new)
      <4> DEFINE new == [Idle EXCEPT !.pc = "check", !.guild = g, !.settings = cfg[g],
                                     !.todo = text, !.text = text]
      <4>1. new.pc = "check"
        BY DEF Idle
      <4>2. Goto(t, new)
        BY <3>2 DEF Post
      <4> HIDE DEF new
      <4>3. QED
        BY <4>1, <4>2 DEF AsksRight
    <3>3. QED
      BY <1>3, <3>1, <3>2
  <2>2. UNCHANGED cache
    BY <1>3 DEF Finish, Strike, Post
  <2>3. QED
    BY <1>1, <1>2, <2>1, <2>2, OneAsksRight
<1>4. ASSUME NEW t \in Workers, Check(t) \/ Peek(t) \/ Ask(t) PROVE TrueAnswers'
  <2>1. UNCHANGED cache
    BY <1>4 DEF Check, Peek, Ask
  <2>2. QED
    BY <1>2, <1>4, <2>1, CheckAsksRight, CallAsksRight
<1>5. ASSUME NEW t \in Workers, Store(t) PROVE TrueAnswers'
  BY <1>5, StoreTells DEF TrueAnswers
<1>6. CASE Crash
  <2>1. DOMAIN cache' = {} /\ \A t \in Workers : tasks'[t].pc = "idle"
    BY <1>6, EmptyCache, IdleSound DEF Crash
  <2>2. QED
    BY <2>1 DEF TrueAnswers, AsksRight
<1>7. CASE UNCHANGED <<cache, tasks>>
  BY <1>1, <1>7 DEF TrueAnswers, AsksRight, Tells, Destination
<1>8. QED
  BY <1>3, <1>4, <1>5, <1>6, <1>7 DEF Next, TaskStep, Configure, Repoint, Tick, vars

(* Answers are true.                                                       *)
LEMMA AnswersAreTrue ==
  ASSUME StableInvites
  PROVE  Spec => []TrueAnswers
<1>1. Init => TrueAnswers
  BY EmptyCache, IdleSound DEF Init, TrueAnswers, AsksRight
<1>2. Inv /\ TrueAnswers /\ [Next]_vars => TrueAnswers'
  BY AnswersStep
<1>3. QED
  BY <1>1, <1>2, VerdictsAreHonest, PTL DEF Spec

(***************************************************************************)
(* A message struck for an invite to its own guild fell for a verdict that *)
(* was reached under another guild's settings.                             *)
(***************************************************************************)
THEOREM OnlySharingCondemns ==
  ASSUME StableInvites
  PROVE  Spec => []OnlyAnothersVerdict
<1>1. Inv /\ TrueAnswers => OnlyAnothersVerdict
  <2> SUFFICES ASSUME Inv, TrueAnswers, NEW t \in Workers, tasks[t].pc = "strike",
                      Destination(Head(tasks[t].todo)) = tasks[t].guild
               PROVE  tasks[t].origin.guild # tasks[t].guild
    BY DEF OnlyAnothersVerdict
  <2>1. Condemns(tasks[t].origin)
    BY DEF Inv, Sound, Honest
  <2>2. Tells(tasks[t].origin, Head(tasks[t].todo))
    BY DEF TrueAnswers, AsksRight
  <2>3. QED
    BY <2>1, <2>2 DEF Condemns, GuildAllowed, Tells
<1>2. QED
  BY <1>1, AnswersAreTrue, VerdictsAreHonest, PTL

(***************************************************************************)
(* So a bot that serves a single guild keeps the promise.                  *)
(***************************************************************************)
THEOREM OneGuildKeepsThePromise ==
  ASSUME StableInvites, \A g, h \in Guilds : g = h
  PROVE  Spec => []OwnInvitesPass
<1>1. Inv /\ OnlyAnothersVerdict => OwnInvitesPass
  <2> SUFFICES ASSUME Inv, OnlyAnothersVerdict, NEW t \in Workers,
                      tasks[t].pc = "strike"
               PROVE  Destination(Head(tasks[t].todo)) # tasks[t].guild
    BY DEF OwnInvitesPass
  <2>1. tasks[t].origin.guild \in Guilds /\ tasks[t].guild \in Guilds
    BY DEF Inv, TypeOK, Task, Origin
  <2>2. QED
    BY <2>1 DEF OnlyAnothersVerdict
<1>2. QED
  BY <1>1, OnlySharingCondemns, VerdictsAreHonest, PTL

=============================================================================
