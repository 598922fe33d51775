--------------------------- MODULE AntiNukeProofs ---------------------------
(***************************************************************************)
(* For any number of actors, handlers, roles and failures: whoever is on   *)
(* the way to be stripped has earned it, nobody earns it unnoticed, what a *)
(* trip led to is reported, and a strip takes every role it may.           *)
(***************************************************************************)
EXTENDS AntiNuke, FiniteSetTheorems, SequenceTheorems, TLAPS

-----------------------------------------------------------------------------
(* Types. *)

After == {"owner", "fetch", "guild", "strip", "alert", "case"}

(***************************************************************************)
(* What a task knows: a recorded action was watched; a trip is its own,    *)
(* with its actor and settings; a strip is neither the owner's nor a dry   *)
(* run's, and is to leave managed roles only.                              *)
(***************************************************************************)
Carries(task, ts) ==
  /\ task.pc = "record" => Watched(task.cfg, task.actor)
  /\ task.pc \in After =>
       /\ task.n \in DOMAIN ts
       /\ ts[task.n].actor = task.actor /\ ts[task.n].cfg = task.cfg
  /\ task.pc \in {"fetch", "guild", "strip"} => task.actor # Owner /\ ~task.cfg.dry
  /\ task.pc = "strip" => task.keep \subseteq Managed

Typed == TypeOK /\ \A t \in Workers : Carries(tasks[t], trips)

LEMMA IdleType == Idle \in Task /\ Idle.pc = "idle" /\ \A ts : Carries(Idle, ts)
<1>1. (CHOOSE s \in Inputs : TRUE) \in Inputs
  BY InputAssumption
<1>2. Idle \in Task
  BY <1>1, NameAssumption DEF Idle, Task, PCs, Outcomes
<1>3. Idle.pc = "idle"
  BY DEF Idle
<1>4. QED
  BY <1>2, <1>3 DEF Carries, After

(* The next state of a step that moves one task and adds no trip. *)
LEMMA OneMoves ==
  ASSUME Typed, NEW t \in Workers, NEW task \in Task, Goto(t, task),
         UNCHANGED trips, Carries(task, trips)
  PROVE  /\ tasks' \in [Workers -> Task]
         /\ \A u \in Workers : Carries(tasks'[u], trips')
         /\ \A u \in Workers : tasks'[u].pc = "strip" => tasks'[u].keep \subseteq Managed
<1>1. tasks \in [Workers -> Task]
  BY DEF Typed, TypeOK
<1>2. tasks' = [tasks EXCEPT ![t] = task]
  BY DEF Goto
<1>3. \A u \in Workers : tasks'[u] = tasks[u] \/ tasks'[u] = task
  BY <1>1, <1>2
<1>4. tasks' \in [Workers -> Task] /\ \A u \in Workers : Carries(tasks'[u], trips')
  BY <1>1, <1>2, <1>3 DEF Typed
<1>5. QED
  BY <1>4 DEF Carries

(* A task that goes on to another point with the same trip. *)
LEMMA GoesOn ==
  ASSUME NEW task \in Task, NEW pc \in PCs
  PROVE  LET new == [task EXCEPT !.pc = pc] IN
         /\ new \in Task /\ new.pc = pc
         /\ new.actor = task.actor /\ new.cfg = task.cfg /\ new.n = task.n
         /\ new.outcome = task.outcome
BY DEF Task

LEMMA ReportType ==
  ASSUME NEW task \in Task, NEW outcome \in Outcomes
  PROVE  LET new == Reports(task, outcome) IN
         /\ new \in Task /\ new.pc = "alert" /\ new.outcome = outcome
         /\ new.actor = task.actor /\ new.cfg = task.cfg /\ new.n = task.n
BY DEF Reports, Task, PCs

(***************************************************************************)
(* Where the handler of a trip goes before it has alerted: on, reporting   *)
(* or about to, or nowhere if it is the owner's.                           *)
(***************************************************************************)
Unreported == {"owner", "fetch", "guild", "strip", "alert"}

Handles(old, new) ==
  \/ new = Idle /\ old.actor = Owner
  \/ /\ new \in Task /\ new.pc \in {"fetch", "guild", "strip", "alert"}
     /\ new.actor = old.actor /\ new.cfg = old.cfg /\ new.n = old.n
     /\ new.pc \in {"fetch", "guild", "strip"} => old.actor # Owner /\ ~old.cfg.dry
     /\ new.pc = "strip" => new.keep \subseteq Managed

LEMMA HandlesCarries ==
  ASSUME NEW old \in Task, NEW new, old.pc \in {"owner", "fetch", "guild", "strip"},
         Handles(old, new), Carries(old, trips)
  PROVE  new \in Task /\ Carries(new, trips)
<1>1. CASE new = Idle
  BY <1>1, IdleType
<1>2. CASE new # Idle
  BY <1>2 DEF Handles, Carries, After
<1>3. QED
  BY <1>1, <1>2

(* The steps of a handler between its trip and its alert.                  *)
Resolves(t) == ResolveOwner(t) \/ FetchMember(t) \/ FetchRoles(t) \/ Strip(t)

LEMMA OwnerHandles ==
  ASSUME Typed, NEW t \in Workers, ResolveOwner(t)
  PROVE  \E new : Goto(t, new) /\ Handles(tasks[t], new)
<1>1. tasks[t] \in Task
  BY DEF Typed, TypeOK
<1>2. CASE Goto(t, Unresolved(tasks[t]))
  <2>1. Handles(tasks[t], Unresolved(tasks[t]))
    BY <1>1, ReportType DEF Unresolved, Handles, Outcomes
  <2>2. QED
    BY <1>2, <2>1
<1>3. CASE tasks[t].actor = Owner /\ Ends(t)
  BY <1>3 DEF Ends, Handles
<1>4. CASE tasks[t].actor # Owner /\ tasks[t].cfg.dry /\ Goto(t, Reports(tasks[t], "dry run"))
  <2>1. Handles(tasks[t], Reports(tasks[t], "dry run"))
    BY <1>1, ReportType DEF Handles, Outcomes
  <2>2. QED
    BY <1>4, <2>1
<1>5. CASE tasks[t].actor # Owner /\ ~tasks[t].cfg.dry
           /\ Goto(t, [tasks[t] EXCEPT !.pc = "fetch"])
  <2>1. Handles(tasks[t], [tasks[t] EXCEPT !.pc = "fetch"])
    <3>1. "fetch" \in PCs
      BY DEF PCs
    <3>2. QED
      BY <1>1, <1>5, <3>1, GoesOn DEF Handles
  <2>2. QED
    BY <1>5, <2>1
<1>6. QED
  BY <1>2, <1>3, <1>4, <1>5 DEF ResolveOwner

LEMMA MemberHandles ==
  ASSUME Typed, NEW t \in Workers, FetchMember(t)
  PROVE  \E new : Goto(t, new) /\ Handles(tasks[t], new)
<1> DEFINE task == [tasks[t] EXCEPT !.pc = "guild"]
<1>1. tasks[t] \in Task /\ tasks[t].pc = "fetch" /\ Carries(tasks[t], trips)
  BY DEF Typed, TypeOK, FetchMember
<1>2. tasks[t].actor # Owner /\ ~tasks[t].cfg.dry
  BY <1>1 DEF Carries
<1>3. "guild" \in PCs /\ "unresolved" \in Outcomes
  BY DEF PCs, Outcomes
<1>4. /\ task \in Task /\ task.pc = "guild" /\ task.actor = tasks[t].actor
      /\ task.cfg = tasks[t].cfg /\ task.n = tasks[t].n
  BY <1>1, <1>3, GoesOn
<1>5. roles[task.actor] \in SUBSET Roles
  <2>1. tasks[t].actor \in Actors /\ roles \in [Actors -> SUBSET Roles]
    BY <1>1 DEF Task, Typed, TypeOK
  <2> HIDE DEF task
  <2>2. QED
    BY <1>4, <2>1
<1>6. \/ Goto(t, [task EXCEPT !.keep = roles[task.actor]])
      \/ Goto(t, [task EXCEPT !.outcome = "unresolved"])
  BY DEF FetchMember
<1> HIDE DEF task
<1>7. ASSUME NEW new \in Task, new.pc = "guild", new.actor = task.actor,
             new.cfg = task.cfg, new.n = task.n
      PROVE  Handles(tasks[t], new)
  BY <1>2, <1>4, <1>7 DEF Handles
<1>8. CASE Goto(t, [task EXCEPT !.keep = roles[task.actor]])
  <2> DEFINE new == [task EXCEPT !.keep = roles[task.actor]]
  <2>1. /\ new \in Task /\ new.pc = "guild" /\ new.actor = task.actor
        /\ new.cfg = task.cfg /\ new.n = task.n
    BY <1>4, <1>5 DEF Task
  <2> HIDE DEF new
  <2>2. Handles(tasks[t], new)
    BY <1>7, <2>1
  <2>3. QED
    BY <1>8, <2>2 DEF new
<1>9. CASE Goto(t, [task EXCEPT !.outcome = "unresolved"])
  <2> DEFINE new == [task EXCEPT !.outcome = "unresolved"]
  <2>1. /\ new \in Task /\ new.pc = "guild" /\ new.actor = task.actor
        /\ new.cfg = task.cfg /\ new.n = task.n
    BY <1>3, <1>4 DEF Task
  <2> HIDE DEF new
  <2>2. Handles(tasks[t], new)
    BY <1>7, <2>1
  <2>3. QED
    BY <1>9, <2>2 DEF new
<1>10. QED
  BY <1>6, <1>8, <1>9

LEMMA RolesHandles ==
  ASSUME Typed, NEW t \in Workers, FetchRoles(t)
  PROVE  \E new : Goto(t, new) /\ Handles(tasks[t], new)
<1>1. tasks[t] \in Task /\ tasks[t].pc = "guild" /\ Carries(tasks[t], trips)
  BY DEF Typed, TypeOK, FetchRoles
<1>2. tasks[t].actor # Owner /\ ~tasks[t].cfg.dry
  BY <1>1 DEF Carries
<1>3. CASE Goto(t, Reports(tasks[t], "unresolved"))
  <2>1. Handles(tasks[t], Reports(tasks[t], "unresolved"))
    BY <1>1, ReportType DEF Handles, Outcomes
  <2>2. QED
    BY <1>3, <2>1
<1>4. CASE Goto(t, [tasks[t] EXCEPT !.pc = "strip", !.keep = Kept(tasks[t].keep)])
  <2> DEFINE new == [tasks[t] EXCEPT !.pc = "strip", !.keep = Kept(tasks[t].keep)]
  <2>1. Kept(tasks[t].keep) \in SUBSET Managed /\ Kept(tasks[t].keep) \in SUBSET Roles
    BY NameAssumption DEF Kept
  <2>2. new \in Task
    BY <1>1, <2>1 DEF Task, PCs
  <2>3. new.pc = "strip" /\ new.actor = tasks[t].actor /\ new.cfg = tasks[t].cfg
        /\ new.n = tasks[t].n /\ new.keep \subseteq Managed
    BY <1>1, <2>1 DEF Task
  <2> HIDE DEF new
  <2>4. Handles(tasks[t], new)
    BY <1>2, <2>2, <2>3 DEF Handles
  <2>5. QED
    BY <1>4, <2>4 DEF new
<1>5. QED
  BY <1>3, <1>4 DEF FetchRoles

LEMMA StripHandles ==
  ASSUME Typed, NEW t \in Workers, Strip(t)
  PROVE  \E new : Goto(t, new) /\ Handles(tasks[t], new)
<1>1. tasks[t] \in Task
  BY DEF Typed, TypeOK
<1>2. PICK outcome \in {"stripped", "failed"} : Goto(t, Reports(tasks[t], outcome))
  BY DEF Strip
<1>3. Handles(tasks[t], Reports(tasks[t], outcome))
  <2>1. outcome \in Outcomes
    BY DEF Outcomes
  <2>2. QED
    BY <1>1, <2>1, ReportType DEF Handles
<1>4. QED
  BY <1>2, <1>3

(* The three of them change nothing else, but the roles of one actor. *)
LEMMA HandlingStep ==
  ASSUME Typed, NEW t \in Workers, Resolves(t)
  PROVE  /\ tasks[t] \in Task /\ tasks[t].pc \in {"owner", "fetch", "guild", "strip"}
         /\ Carries(tasks[t], trips)
         /\ \E new : Goto(t, new) /\ Handles(tasks[t], new)
         /\ UNCHANGED <<cfg, window, now, acts, trips, told, noted, stimuli>>
         /\ faults' \in 0 .. MaxFaults /\ faults' <= faults
         /\ roles' \in [Actors -> SUBSET Roles]
<1>1. /\ tasks[t] \in Task /\ Carries(tasks[t], trips)
      /\ faults \in 0 .. MaxFaults /\ roles \in [Actors -> SUBSET Roles]
  BY DEF Typed, TypeOK
<1>2. tasks[t].pc \in {"owner", "fetch", "guild", "strip"}
  BY DEF Resolves, ResolveOwner, FetchMember, FetchRoles, Strip
<1>3. UNCHANGED <<cfg, window, now, acts, trips, told, noted, stimuli>>
  BY DEF Resolves, ResolveOwner, FetchMember, FetchRoles, Strip, history
<1>4. faults' \in 0 .. MaxFaults /\ faults' <= faults
  <2>1. Fault \/ NoFault
    BY DEF Resolves, ResolveOwner, FetchMember, FetchRoles, Strip
  <2>2. QED
    BY <1>1, <2>1, NumberAssumption DEF Fault, NoFault
<1>5. roles' \in [Actors -> SUBSET Roles]
  <2>1. CASE Strip(t)
    <3>1. roles' \in {roles, [roles EXCEPT ![tasks[t].actor] = tasks[t].keep]}
      BY <2>1 DEF Strip
    <3>2. tasks[t].keep \in SUBSET Roles
      BY <1>1, NameAssumption DEF Task
    <3>3. QED
      BY <1>1, <3>1, <3>2
  <2>2. QED
    BY <1>1, <2>1 DEF Resolves, ResolveOwner, FetchMember, FetchRoles
<1>6. QED
  BY <1>1, <1>2, <1>3, <1>4, <1>5, OwnerHandles, MemberHandles, RolesHandles, StripHandles
     DEF Resolves

(* A handler at rest takes no other's place. *)
LEMMA OneEnds ==
  ASSUME Typed, NEW t \in Workers, Ends(t), UNCHANGED trips
  PROVE  /\ tasks' \in [Workers -> Task]
         /\ \A u \in Workers : Carries(tasks'[u], trips')
         /\ \A u \in Workers : tasks'[u].pc = "strip" => tasks'[u].keep \subseteq Managed
BY OneMoves, IdleType DEF Ends

(* Popping while the front is too old drops exactly the leading old entries. *)
LEMMA PoppedFront ==
  ASSUME NEW all \in Seq(Nat), NEW cut \in Nat, NEW old,
         old = {i \in 1 .. Len(all) : \A j \in 1 .. i : all[j] < cut}
  PROVE  /\ Cardinality(old) \in 0 .. Len(all)
         /\ \A j \in 1 .. Cardinality(old) : all[j] < cut
         /\ Cardinality(old) < Len(all) => all[Cardinality(old) + 1] >= cut
<1>1. Len(all) \in Nat /\ \A i \in 1 .. Len(all) : all[i] \in Nat
  OBVIOUS
<1>2. IsFiniteSet(1 .. Len(all)) /\ Cardinality(1 .. Len(all)) = Len(all)
  BY <1>1, FS_Interval
<1>3. IsFiniteSet(old) /\ Cardinality(old) \in Nat /\ Cardinality(old) <= Len(all)
  BY <1>2, FS_Subset, FS_CardinalityType
<1>4. \A i \in old : i <= Cardinality(old)
  <2> SUFFICES ASSUME NEW i \in old PROVE i <= Cardinality(old)
    OBVIOUS
  <2>1. 1 .. i \subseteq old
    BY <1>1
  <2>2. Cardinality(1 .. i) = i
    BY <1>1, FS_Interval
  <2>3. QED
    BY <1>1, <1>3, <2>1, <2>2, FS_Subset
<1>5. old \subseteq 1 .. Cardinality(old)
  BY <1>1, <1>3, <1>4
<1>6. IsFiniteSet(1 .. Cardinality(old)) /\ Cardinality(1 .. Cardinality(old)) = Cardinality(old)
  BY <1>3, FS_Interval
<1>7. old = 1 .. Cardinality(old)
  BY <1>5, <1>6, FS_Subset
<1>8. \A j \in 1 .. Cardinality(old) : all[j] < cut
  BY <1>3, <1>7
<1>9. ASSUME Cardinality(old) < Len(all) PROVE all[Cardinality(old) + 1] >= cut
  <2> DEFINE n == Cardinality(old) + 1
  <2>0. \A c \in Nat : c + 1 \notin 1 .. c
    OBVIOUS
  <2>1. n \in 1 .. Len(all) /\ n \notin old
    <3>1. n \notin 1 .. Cardinality(old)
      BY <1>3, <2>0
    <3>2. n \notin old
      BY <1>7, <3>1, Zenon
    <3>3. n \in 1 .. Len(all)
      BY <1>1, <1>3, <1>9
    <3>4. QED
      BY <3>2, <3>3
  <2>2. PICK j \in 1 .. n : ~(all[j] < cut)
    BY <2>1
  <2>3. j = n
    BY <1>3, <1>8, <2>2
  <2>4. QED
    BY <1>1, <2>1, <2>2, <2>3
<1>10. QED
  BY <1>1, <1>3, <1>8, <1>9

LEMMA RecentType ==
  ASSUME NEW all \in Seq(Nat), now \in Nat, NEW s, s.window \in Nat
  PROVE  Recent(all, s) \in Seq(Nat)
<1> DEFINE old == {i \in 1 .. Len(all) : \A j \in 1 .. i : all[j] < Cutoff(s)}
<1>1. Cutoff(s) \in Nat
  BY DEF Cutoff
<1>2. Cardinality(old) \in 0 .. Len(all)
  BY <1>1, PoppedFront
<1> HIDE DEF old
<1>3. SubSeq(all, Cardinality(old) + 1, Len(all)) \in Seq(Nat)
  BY <1>2
<1>4. QED
  BY <1>3 DEF Recent, old

(* The trip that Record appends. *)
NewTrip(t) ==
  [actor |-> tasks[t].actor, cfg |-> tasks[t].cfg, at |-> now,
   acts |-> Append(acts[tasks[t].actor], now)]

LEMMA TripType ==
  ASSUME Typed, NEW t \in Workers
  PROVE  NewTrip(t) \in Trip
<1>1. tasks[t].actor \in Actors /\ tasks[t].cfg \in Inputs
  BY DEF Typed, TypeOK, Task
<1>2. acts[tasks[t].actor] \in Seq(Nat) /\ now \in Nat
  BY <1>1 DEF Typed, TypeOK
<1>3. QED
  BY <1>1, <1>2 DEF NewTrip, Trip

(* What a task carries stays true when another trip is appended. *)
LEMMA CarriesOn ==
  ASSUME NEW ts \in Seq(Trip), NEW p \in Trip, NEW task, Carries(task, ts)
  PROVE  Carries(task, Append(ts, p))
<1>1. \A n \in DOMAIN ts : n \in DOMAIN Append(ts, p) /\ Append(ts, p)[n] = ts[n]
  OBVIOUS
<1>2. QED
  BY <1>1 DEF Carries

(* The task of a new trip. *)
LEMMA TripsTask ==
  ASSUME Typed, NEW t \in Workers, tasks[t].pc = "record",
         NEW n, trips' = Append(trips, NewTrip(t)), n = Len(trips')
  PROVE  LET new == [tasks[t] EXCEPT !.pc = "owner", !.n = n] IN
         new \in Task /\ Carries(new, trips') /\ new.pc = "owner" /\ new.n = n
<1> DEFINE new == [tasks[t] EXCEPT !.pc = "owner", !.n = n]
<1>1. tasks[t] \in Task
  BY DEF Typed, TypeOK
<1>2. NewTrip(t) \in Trip /\ trips \in Seq(Trip)
  BY TripType DEF Typed, TypeOK
<1>3. n \in Nat /\ n \in DOMAIN trips' /\ trips'[n] = NewTrip(t)
  BY <1>2
<1>4. /\ new \in Task /\ new.pc = "owner" /\ new.n = n
      /\ new.actor = tasks[t].actor /\ new.cfg = tasks[t].cfg
  BY <1>1, <1>3 DEF Task, PCs
<1> HIDE DEF new
<1>5. trips'[n].actor = tasks[t].actor /\ trips'[n].cfg = tasks[t].cfg
  BY <1>3 DEF NewTrip
<1>6. QED
  BY <1>3, <1>4, <1>5 DEF Carries, new

LEMMA RecordTyped == ASSUME Typed, NEW t \in Workers, Record(t) PROVE Typed'
<1> DEFINE a == tasks[t].actor  s == tasks[t].cfg
           recent == Recent(Append(window[a], now), s)
<1>1. /\ tasks[t] \in Task /\ a \in Actors /\ s \in Inputs
      /\ s.window \in Nat /\ tasks[t].pc = "record"
  BY InputAssumption DEF Typed, TypeOK, Task, Settings, Record
<1>2. window[a] \in Seq(Nat) /\ acts[a] \in Seq(Nat) /\ now \in Nat
  BY <1>1 DEF Typed, TypeOK
<1>3. recent \in Seq(Nat)
  <2> DEFINE all == Append(window[a], now)
  <2>1. all \in Seq(Nat)
    BY <1>2
  <2> HIDE DEF all, s
  <2>2. Recent(all, s) \in Seq(Nat)
    BY <1>1, <1>2, <2>1, RecentType
  <2>3. QED
    BY <2>2 DEF all
<1>4. /\ window' = [window EXCEPT ![a] = Remembered(recent, s)]
      /\ UNCHANGED <<cfg, roles, now, told, noted, stimuli, faults>>
  BY DEF Record
<1>5. window' \in [Actors -> Seq(Nat)]
  <2>1. Remembered(recent, s) \in Seq(Nat)
    BY <1>3 DEF Remembered
  <2> HIDE DEF recent, s
  <2>2. QED
    BY <1>4, <2>1 DEF Typed, TypeOK
<1>6. trips \in Seq(Trip) /\ NewTrip(t) \in Trip
  BY TripType DEF Typed, TypeOK
<1>7. CASE /\ trips' = Append(trips, NewTrip(t)) /\ acts' = [acts EXCEPT ![a] = <<>>]
           /\ Goto(t, [tasks[t] EXCEPT !.pc = "owner", !.n = Len(trips')])
  <2> DEFINE new == [tasks[t] EXCEPT !.pc = "owner", !.n = Len(trips')]
  <2>1. new \in Task /\ Carries(new, trips')
    BY <1>1, <1>7, TripsTask
  <2>2. \A u \in Workers : Carries(tasks[u], trips')
    BY <1>6, <1>7, CarriesOn DEF Typed
  <2> HIDE DEF new
  <2>3. tasks' = [tasks EXCEPT ![t] = new]
    BY <1>7 DEF Goto, new
  <2>4. tasks' \in [Workers -> Task] /\ \A u \in Workers : Carries(tasks'[u], trips')
    BY <2>1, <2>2, <2>3 DEF Typed, TypeOK
  <2>9. \A u \in Workers : tasks'[u].pc = "strip" => tasks'[u].keep \subseteq Managed
    BY <2>4 DEF Carries
  <2>5. trips' \in Seq(Trip) /\ DOMAIN trips \subseteq DOMAIN trips'
    BY <1>6, <1>7
  <2>6. acts' \in [Actors -> Seq(Nat)]
    <3>1. acts \in [Actors -> Seq(Nat)] /\ <<>> \in Seq(Nat)
      BY DEF Typed, TypeOK
    <3> HIDE DEF a
    <3>2. QED
      BY <1>7, <3>1
  <2>7. /\ told' \subseteq [n : DOMAIN trips', outcome : Outcomes, heard : BOOLEAN]
        /\ noted' \subseteq [n : DOMAIN trips', case : BOOLEAN]
    BY <1>4, <2>5 DEF Typed, TypeOK
  <2>8. QED
    BY <1>4, <1>5, <2>4, <2>5, <2>6, <2>7, <2>9 DEF Typed, TypeOK
<1>8. CASE UNCHANGED trips /\ acts' = [acts EXCEPT ![a] = Append(acts[a], now)] /\ Ends(t)
  <2>1. acts' \in [Actors -> Seq(Nat)]
    <3>1. acts \in [Actors -> Seq(Nat)] /\ Append(acts[a], now) \in Seq(Nat)
      BY <1>2 DEF Typed, TypeOK
    <3> HIDE DEF a
    <3>2. QED
      BY <1>8, <3>1
  <2>2. /\ tasks' \in [Workers -> Task] /\ \A u \in Workers : Carries(tasks'[u], trips')
        /\ \A u \in Workers : tasks'[u].pc = "strip" => tasks'[u].keep \subseteq Managed
    BY <1>8, OneEnds
  <2>3. QED
    BY <1>4, <1>5, <1>8, <2>1, <2>2 DEF Typed, TypeOK
<1>9. QED
  BY <1>7, <1>8 DEF Record, NewTrip

(***************************************************************************)
(* Every variable keeps its type, and a task carries the trip it handles.  *)
(***************************************************************************)
THEOREM TripsAreCarried == Spec => []Typed
<1>1. Init => Typed
  <2> SUFFICES ASSUME Init PROVE Typed
    OBVIOUS
  <2>1. told = {} /\ noted = {} /\ trips = <<>> /\ trips \in Seq(Trip)
    BY DEF Init
  <2>2. QED
    BY <2>1, IdleType, NumberAssumption DEF Init, Typed, TypeOK
<1>2. Typed /\ [Next]_vars => Typed'
  <2> SUFFICES ASSUME Typed, [Next]_vars PROVE Typed'
    OBVIOUS
  <2>1. ASSUME NEW t \in Workers, NEW a \in Actors, Act(t, a) PROVE Typed'
    <3> DEFINE new == [Idle EXCEPT !.pc = "load", !.actor = a]
    <3>1. new \in Task /\ new.pc = "load"
      BY IdleType DEF Task, PCs
    <3>2. Carries(new, trips)
      BY <3>1 DEF Carries, After
    <3> HIDE DEF new
    <3>3. Goto(t, new) /\ UNCHANGED <<cfg, window, roles, now, history, faults>>
      BY <2>1 DEF Act, new
    <3>4. stimuli' \in Nat
      BY <2>1 DEF Act, Stimulus, Typed, TypeOK
    <3>5. QED
      BY <3>1, <3>2, <3>3, <3>4, OneMoves DEF Typed, TypeOK, history
  <2>2. ASSUME NEW s \in Inputs, Configure(s) PROVE Typed'
    BY <2>2 DEF Configure, Stimulus, Typed, TypeOK, history
  <2>3. ASSUME NEW a \in Actors, NEW rs \in SUBSET Roles, SetRoles(a, rs) PROVE Typed'
    BY <2>3 DEF SetRoles, Stimulus, Typed, TypeOK, history
  <2>4. ASSUME Crash PROVE Typed'
    <3>1. /\ tasks' = [t \in Workers |-> Idle] /\ trips' = <<>> /\ told' = {} /\ noted' = {}
          /\ window' = [a \in Actors |-> <<>>] /\ acts' = [a \in Actors |-> <<>>]
          /\ UNCHANGED <<cfg, roles, now, faults>>
      BY <2>4 DEF Crash
    <3>2. stimuli' \in Nat
      BY <2>4 DEF Crash, Stimulus, Typed, TypeOK
    <3>3. trips' \in Seq(Trip)
      BY <3>1
    <3>4. QED
      BY <3>1, <3>2, <3>3, IdleType DEF Typed, TypeOK
  <2>5. ASSUME Tick PROVE Typed'
    BY <2>5 DEF Tick, Typed, TypeOK, history
  <2>6. ASSUME NEW t \in Workers, Load(t) PROVE Typed'
    <3> DEFINE new == [tasks[t] EXCEPT !.pc = "record", !.cfg = cfg]
    <3>1. UNCHANGED <<cfg, window, roles, now, history, stimuli, faults>>
      BY <2>6 DEF Load
    <3>2. CASE Watched(cfg, tasks[t].actor) /\ Goto(t, new)
      <4>1. tasks[t] \in Task /\ cfg \in Inputs
        BY DEF Typed, TypeOK
      <4>2. new \in Task /\ new.pc = "record" /\ new.cfg = cfg /\ new.actor = tasks[t].actor
        BY <4>1 DEF Task, PCs
      <4> HIDE DEF new
      <4>3. Carries(new, trips)
        BY <3>2, <4>2 DEF Carries, After
      <4>4. QED
        BY <3>1, <3>2, <4>2, <4>3, OneMoves DEF Typed, TypeOK, history
    <3>3. CASE Ends(t)
      BY <3>1, <3>3, OneEnds DEF Typed, TypeOK, history
    <3>4. QED
      BY <2>6, <3>2, <3>3 DEF Load
  <2>7. ASSUME NEW t \in Workers, Record(t) PROVE Typed'
    BY <2>7, RecordTyped
  <2>8. ASSUME NEW t \in Workers, Resolves(t) PROVE Typed'
    <3>1. PICK new : Goto(t, new) /\ Handles(tasks[t], new)
      BY <2>8, HandlingStep
    <3>2. new \in Task /\ Carries(new, trips)
      BY <2>8, <3>1, HandlingStep, HandlesCarries
    <3>3. /\ UNCHANGED <<cfg, window, now, acts, trips, told, noted, stimuli>>
          /\ faults' \in 0 .. MaxFaults /\ roles' \in [Actors -> SUBSET Roles]
      BY <2>8, HandlingStep
    <3>4. QED
      BY <3>1, <3>2, <3>3, OneMoves DEF Typed, TypeOK
  <2>9. ASSUME NEW t \in Workers, Alert(t) PROVE Typed'
    <3>1. tasks[t] \in Task /\ tasks[t].pc = "alert" /\ Carries(tasks[t], trips)
      BY <2>9 DEF Typed, TypeOK, Alert
    <3>2. tasks[t].n \in DOMAIN trips /\ tasks[t].outcome \in Outcomes
      BY <3>1 DEF Carries, After, Task
    <3>3. /\ told' \subseteq [n : DOMAIN trips, outcome : Outcomes, heard : BOOLEAN]
          /\ faults' \in 0 .. MaxFaults
      <4>1. PICK heard \in BOOLEAN :
              told' = told \cup {[n |-> tasks[t].n, outcome |-> tasks[t].outcome,
                                  heard |-> heard]}
        BY <2>9 DEF Alert
      <4>2. Fault \/ NoFault
        BY <2>9 DEF Alert
      <4>3. QED
        BY <3>2, <4>1, <4>2, NumberAssumption DEF Fault, NoFault, Typed, TypeOK
    <3>4. AfterAlert(tasks[t]) \in Task /\ Carries(AfterAlert(tasks[t]), trips)
      <4>1. "case" \in PCs
        BY DEF PCs
      <4>2. QED
        BY <3>1, <4>1, GoesOn, IdleType DEF AfterAlert, Carries, After
    <3>5. QED
      BY <2>9, <3>3, <3>4, OneMoves DEF Alert, Typed, TypeOK
  <2>10. ASSUME NEW t \in Workers, Case(t) PROVE Typed'
    <3>1. tasks[t].n \in DOMAIN trips
      BY <2>10 DEF Case, Typed, Carries, After
    <3>2. noted' \subseteq [n : DOMAIN trips, case : BOOLEAN] /\ faults' \in 0 .. MaxFaults
      <4>1. PICK written \in BOOLEAN :
              noted' = noted \cup {[n |-> tasks[t].n, case |-> written]}
        BY <2>10 DEF Case
      <4>2. Fault \/ NoFault
        BY <2>10 DEF Case
      <4>3. QED
        BY <3>1, <4>1, <4>2, NumberAssumption DEF Fault, NoFault, Typed, TypeOK
    <3>3. QED
      BY <2>10, <3>2, OneEnds DEF Case, Typed, TypeOK
  <2>11. CASE UNCHANGED vars
    BY <2>11 DEF Typed, TypeOK, vars, history
  <2>12. QED
    BY <2>1, <2>2, <2>3, <2>4, <2>5, <2>6, <2>7, <2>8, <2>9, <2>10, <2>11
       DEF Next, TaskStep, Resolves
<1>3. QED
  BY <1>1, <1>2, PTL DEF Spec

(* Every variable keeps its type, whatever fails. *)
THEOREM AntiNukeTyped == Spec => []TypeOK
<1>1. Typed => TypeOK
  BY DEF Typed
<1>2. QED
  BY <1>1, TripsAreCarried, PTL

-----------------------------------------------------------------------------
(* The window. *)

(* What is remembered is the end of what was done. *)
Suffix(remembered, times) ==
  LET k == Len(times) - Len(remembered) IN
  /\ k \in Nat
  /\ \A i \in 1 .. Len(remembered) : remembered[i] = times[k + i]

Sorted(times, at) ==
  /\ \A i, j \in 1 .. Len(times) : i <= j => times[i] <= times[j]
  /\ \A i \in 1 .. Len(times) : times[i] <= at

(* What is not remembered is too old for a window of W seconds. *)
Dropped(remembered, times, at, W) ==
  \A i \in 1 .. Len(times) - Len(remembered) : times[i] + W < at

LEMMA IntervalSize ==
  ASSUME NEW a \in Nat, NEW m \in Nat
  PROVE  IsFiniteSet((a + 1) .. (a + m)) /\ Cardinality((a + 1) .. (a + m)) = m
<1>1. a + 1 \in Int /\ a + m \in Int
  OBVIOUS
<1>2. /\ IsFiniteSet((a + 1) .. (a + m))
      /\ Cardinality((a + 1) .. (a + m))
           = IF a + 1 > a + m THEN 0 ELSE (a + m) - (a + 1) + 1
  BY <1>1, FS_Interval
<1>3. QED
  BY <1>2

LEMMA SortedOn ==
  ASSUME NEW times \in Seq(Nat), now \in Nat, Sorted(times, now)
  PROVE  Sorted(Append(times, now), now)
<1>1. Len(times) \in Nat /\ Len(Append(times, now)) = Len(times) + 1
  OBVIOUS
<1>2. /\ \A i \in 1 .. Len(times) : Append(times, now)[i] = times[i] /\ times[i] <= now
      /\ Append(times, now)[Len(times) + 1] = now
  BY DEF Sorted
<1>3. \A i \in 1 .. Len(times) + 1 : i \in 1 .. Len(times) \/ i = Len(times) + 1
  BY <1>1
<1>4. QED
  BY <1>1, <1>2, <1>3 DEF Sorted

(***************************************************************************)
(* Recording an action: what is remembered of it is the end of what was    *)
(* done, and at most as much as was done within the window; exactly as     *)
(* much as within a window W no longer, if nothing within W was dropped.   *)
(***************************************************************************)
LEMMA RecordedTail ==
  ASSUME NEW remembered \in Seq(Nat), NEW times \in Seq(Nat), now \in Nat,
         NEW s, s.window \in Nat, NEW W \in Nat, W <= s.window,
         Suffix(remembered, times), Sorted(times, now)
  PROVE  LET recent == Recent(Append(remembered, now), s)
             done == Append(times, now)
         IN /\ Suffix(recent, done)
            /\ Len(recent) <= Within(done, now, s.window)
            /\ Within(done, now, s.window) \in Nat /\ Within(done, now, W) \in Nat
            /\ Dropped(remembered, times, now, W) =>
                 /\ Dropped(recent, done, now, W)
                 /\ Within(done, now, W) <= Len(recent)
<1> DEFINE all == Append(remembered, now)
           done == Append(times, now)
           recent == Recent(all, s)
           old == {i \in 1 .. Len(all) : \A j \in 1 .. i : all[j] < Cutoff(s)}
           c == Cardinality(old)
           k == Len(times) - Len(remembered)
           a == k + c
           m == Len(all) - c
           hits == {i \in DOMAIN done : done[i] + s.window >= now}
           fewer == {i \in DOMAIN done : done[i] + W >= now}
<1>1. all \in Seq(Nat) /\ Len(all) = Len(remembered) + 1 /\ Len(remembered) \in Nat
  OBVIOUS
<1>2. /\ done \in Seq(Nat) /\ Len(done) = Len(times) + 1 /\ Len(times) \in Nat
      /\ DOMAIN done = 1 .. Len(done) /\ \A i \in 1 .. Len(done) : done[i] \in Nat
  OBVIOUS
<1>3. /\ Cutoff(s) \in Nat /\ \A x \in Nat : x < Cutoff(s) <=> x + s.window < now
      /\ \A x \in Nat : x < Cutoff(s) => x + W < now
  BY DEF Cutoff
<1>4. k \in Nat /\ \A i \in 1 .. Len(remembered) : remembered[i] = times[k + i]
  BY DEF Suffix
<1>5. /\ c \in 0 .. Len(all) /\ \A j \in 1 .. c : all[j] < Cutoff(s)
      /\ c < Len(all) => all[c + 1] >= Cutoff(s)
  <2> HIDE DEF all
  <2>1. QED
    BY <1>1, <1>3, PoppedFront
<1>6. recent = SubSeq(all, c + 1, Len(all))
  BY DEF Recent
<1> HIDE DEF old, recent
<1>7. a \in Nat /\ m \in Nat /\ a + m = Len(done) /\ c \in Nat /\ k + Len(all) = Len(done)
  <2> HIDE DEF all, done, c
  <2>1. QED
    BY <1>1, <1>2, <1>4, <1>5
<1>8. \A i \in 1 .. Len(all) : all[i] = done[k + i] /\ all[i] \in Nat
  <2> SUFFICES ASSUME NEW i \in 1 .. Len(all)
               PROVE  all[i] = done[k + i] /\ all[i] \in Nat
    OBVIOUS
  <2>1. CASE i = Len(remembered) + 1
    <3>1. k + i = Len(times) + 1
      BY <1>1, <1>2, <2>1
    <3>2. done[k + i] = now
      BY <1>2, <3>1
    <3>3. QED
      BY <1>1, <2>1, <3>2
  <2>2. CASE i \in 1 .. Len(remembered)
    <3>1. k + i \in 1 .. Len(times)
      BY <1>1, <1>2, <1>4, <2>2
    <3>2. done[k + i] = times[k + i]
      BY <1>2, <3>1
    <3>3. all[i] = remembered[i] /\ remembered[i] \in Nat
      BY <2>2
    <3>4. QED
      BY <1>4, <2>2, <3>2, <3>3
  <2>3. i = Len(remembered) + 1 \/ i \in 1 .. Len(remembered)
    BY <1>1
  <2>4. QED
    BY <2>1, <2>2, <2>3
<1>9. Len(recent) = m /\ Len(done) - Len(recent) = a
  <2> HIDE DEF all, done, c
  <2>1. Len(recent) = m
    BY <1>1, <1>5, <1>6
  <2>2. QED
    BY <1>2, <1>7, <2>1
<1>10. Suffix(recent, done)
  <2>1. \A i \in 1 .. m : recent[i] = done[a + i]
    <3> SUFFICES ASSUME NEW i \in 1 .. m PROVE recent[i] = done[a + i]
      OBVIOUS
    <3>1. recent[i] = all[c + i] /\ c + i \in 1 .. Len(all)
      <4> HIDE DEF all, c
      <4>1. QED
        BY <1>1, <1>5, <1>6
    <3>2. k + (c + i) = a + i
      BY <1>4, <1>7
    <3>3. QED
      BY <1>8, <3>1, <3>2
  <2> HIDE DEF a, m, done
  <2>2. QED
    BY <1>7, <1>9, <2>1 DEF Suffix
<1>11. Sorted(done, now)
  BY SortedOn
<1>12. (a + 1) .. (a + m) \subseteq hits
  <2> SUFFICES ASSUME NEW i \in (a + 1) .. (a + m) PROVE i \in hits
    OBVIOUS
  <2>1. /\ i \in 1 .. Len(done) /\ a + 1 \in 1 .. Len(done) /\ a + 1 <= i
        /\ c < Len(all) /\ c + 1 \in 1 .. Len(all) /\ k + (c + 1) = a + 1
    <3>1. Len(all) \in Nat /\ Len(done) \in Nat /\ k \in Nat
      BY <1>1, <1>2, <1>4
    <3> HIDE DEF all, done, c, k
    <3>2. a = k + c /\ m = Len(all) - c
      OBVIOUS
    <3> HIDE DEF a, m
    <3>3. i >= a + 1 /\ i <= a + m /\ i \in Nat
      BY <1>7
    <3>4. i \in 1 .. Len(done) /\ a + 1 \in 1 .. Len(done) /\ a + 1 <= i
      BY <1>7, <3>1, <3>3
    <3>5. c < Len(all) /\ c + 1 \in 1 .. Len(all) /\ k + (c + 1) = a + 1
      BY <1>7, <3>1, <3>2, <3>3
    <3>6. QED
      BY <3>4, <3>5
  <2>2. done[a + 1] = all[c + 1] /\ all[c + 1] >= Cutoff(s) /\ all[c + 1] \in Nat
    <3>1. all[c + 1] = done[k + (c + 1)] /\ all[c + 1] \in Nat
      BY <1>8, <2>1
    <3>2. all[c + 1] >= Cutoff(s)
      BY <1>5, <2>1
    <3> HIDE DEF all, done, c, a, k
    <3>3. QED
      BY <2>1, <3>1, <3>2
  <2> HIDE DEF all, done, c, a, k
  <2>3. done[a + 1] <= done[i] /\ done[i] \in Nat
    BY <1>2, <1>11, <2>1 DEF Sorted
  <2>4. ~(done[i] < Cutoff(s))
    BY <1>3, <2>2, <2>3
  <2>5. ~(done[i] + s.window < now)
    BY <1>3, <2>3, <2>4
  <2>6. i \in DOMAIN done /\ done[i] + s.window >= now
    <3> HIDE DEF hits
    <3>1. QED
      BY <1>2, <2>1, <2>3, <2>5
  <2>7. QED
    BY Zenon, <2>6
<1>13. /\ IsFiniteSet(hits) /\ Cardinality(hits) \in Nat
       /\ IsFiniteSet(fewer) /\ Cardinality(fewer) \in Nat
       /\ Within(done, now, s.window) = Cardinality(hits)
       /\ Within(done, now, W) = Cardinality(fewer)
  <2>1. IsFiniteSet(1 .. Len(done))
    BY <1>2, FS_Interval
  <2>2. hits \subseteq 1 .. Len(done) /\ fewer \subseteq 1 .. Len(done)
    BY <1>2
  <2>3. Within(done, now, s.window) = Cardinality(hits)
        /\ Within(done, now, W) = Cardinality(fewer)
    BY DEF Within
  <2> HIDE DEF hits, fewer
  <2>4. QED
    BY <2>1, <2>2, <2>3, FS_Subset, FS_CardinalityType
<1> HIDE DEF hits, fewer
<1>14. m <= Cardinality(hits)
  <2> HIDE DEF a, m
  <2>1. IsFiniteSet((a + 1) .. (a + m)) /\ Cardinality((a + 1) .. (a + m)) = m
    BY <1>7, IntervalSize
  <2>2. (a + 1) .. (a + m) \in SUBSET hits
    BY <1>12
  <2>3. QED
    BY <1>13, <2>1, <2>2, FS_Subset
<1>15. ASSUME Dropped(remembered, times, now, W)
       PROVE  Dropped(recent, done, now, W) /\ Cardinality(fewer) <= m
  <2>1. \A i \in 1 .. a : done[i] + W < now
    <3> SUFFICES ASSUME NEW i \in 1 .. a PROVE done[i] + W < now
      OBVIOUS
    <3>1. CASE i <= k
      <4>1. i \in 1 .. Len(times) /\ i \in 1 .. k
        BY <1>1, <1>2, <1>4, <3>1
      <4>2. done[i] = times[i]
        BY <4>1
      <4>3. QED
        BY <1>15, <4>1, <4>2 DEF Dropped
    <3>2. CASE i > k
      <4>1. i - k \in 1 .. c /\ i - k \in 1 .. Len(all) /\ k + (i - k) = i
        BY <1>1, <1>4, <1>5, <3>2
      <4>2. all[i - k] = done[i] /\ all[i - k] \in Nat
        BY <1>8, <4>1
      <4>3. QED
        BY <1>3, <1>5, <4>1, <4>2
    <3>3. i <= k \/ i > k
      <4> HIDE DEF c, k
      <4>1. QED
        BY <1>4, <1>7
    <3>4. QED
      BY <3>1, <3>2, <3>3
  <2> HIDE DEF all, done, c, a, k, m
  <2>2. Dropped(recent, done, now, W)
    BY <1>9, <2>1 DEF Dropped
  <2>3. fewer \subseteq (a + 1) .. (a + m)
    <3> SUFFICES ASSUME NEW i \in fewer PROVE i \in (a + 1) .. (a + m)
      OBVIOUS
    <3>1. i \in 1 .. Len(done) /\ ~(done[i] + W < now)
      BY <1>2 DEF fewer
    <3>2. i \notin 1 .. a
      BY <2>1, <3>1
    <3>3. QED
      BY <1>2, <1>7, <3>1, <3>2
  <2>4. Cardinality(fewer) <= m
    <3>1. IsFiniteSet((a + 1) .. (a + m)) /\ Cardinality((a + 1) .. (a + m)) = m
      BY <1>7, IntervalSize
    <3>2. fewer \in SUBSET ((a + 1) .. (a + m))
      BY <2>3
    <3>3. QED
      BY <3>1, <3>2, FS_Subset
  <2>5. QED
    BY <2>2, <2>4
<1>16. QED
  <2> HIDE DEF all, done, c, a, k, m
  <2>1. /\ Suffix(recent, done) /\ Len(recent) <= Within(done, now, s.window)
        /\ Within(done, now, s.window) \in Nat /\ Within(done, now, W) \in Nat
    BY <1>9, <1>10, <1>13, <1>14
  <2>2. Dropped(remembered, times, now, W) =>
          Dropped(recent, done, now, W) /\ Within(done, now, W) <= Len(recent)
    BY <1>9, <1>13, <1>15
  <2>3. QED
    BY <2>1, <2>2 DEF all, done, recent

(***************************************************************************)
(* The inductive invariant: what the tracker remembers of an actor is the  *)
(* end of what it has done since it last tripped, in the order of the      *)
(* clock, and every trip was earned.                                       *)
(***************************************************************************)
EarnedTrip(p) == Watched(p.cfg, p.actor) /\ Within(p.acts, p.at, p.cfg.window) >= p.cfg.max

EarnedInv ==
  /\ \A a \in Actors : Suffix(window[a], acts[a]) /\ Sorted(acts[a], now)
  /\ \A n \in DOMAIN trips : EarnedTrip(trips[n])

(* Nothing was dropped that counts in a window no settings are shorter than. *)
DropInv(W) == \A a \in Actors : Dropped(window[a], acts[a], now, W)

LEMMA EmptyWindow ==
  ASSUME NEW at \in Nat, NEW W \in Nat
  PROVE  Suffix(<<>>, <<>>) /\ Sorted(<<>>, at) /\ Dropped(<<>>, <<>>, at, W)
BY DEF Suffix, Sorted, Dropped

(* What Record does, one window and one trip at a time. *)
LEMMA RecordStep ==
  ASSUME Typed, NEW t \in Workers, Record(t)
  PROVE  LET a == tasks[t].actor  s == tasks[t].cfg
             recent == Recent(Append(window[a], now), s)
             done == Append(acts[a], now)
         IN /\ a \in Actors /\ s \in Inputs /\ s.window \in Nat /\ s.max \in Nat
            /\ window[a] \in Seq(Nat) /\ acts[a] \in Seq(Nat) /\ now \in Nat
            /\ recent \in Seq(Nat) /\ now' = now
            /\ Watched(s, a)
            /\ \A b \in Actors : b # a => window'[b] = window[b] /\ acts'[b] = acts[b]
            /\ \/ /\ Len(recent) >= s.max /\ window'[a] = <<>> /\ acts'[a] = <<>>
                  /\ trips' = Append(trips, NewTrip(t))
               \/ /\ Len(recent) < s.max /\ window'[a] = recent /\ acts'[a] = done
                  /\ trips' = trips
<1> DEFINE a == tasks[t].actor  s == tasks[t].cfg
           recent == Recent(Append(window[a], now), s)
           done == Append(acts[a], now)
<1>1. /\ tasks[t] \in Task /\ a \in Actors /\ s \in Inputs
      /\ s.window \in Nat /\ s.max \in Nat /\ tasks[t].pc = "record"
  BY InputAssumption DEF Typed, TypeOK, Task, Settings, Record
<1>2. window[a] \in Seq(Nat) /\ acts[a] \in Seq(Nat) /\ now \in Nat
      /\ window \in [Actors -> Seq(Nat)] /\ acts \in [Actors -> Seq(Nat)]
  BY <1>1 DEF Typed, TypeOK
<1>3. recent \in Seq(Nat)
  <2> DEFINE all == Append(window[a], now)
  <2>1. all \in Seq(Nat)
    BY <1>2
  <2> HIDE DEF all, s
  <2>2. Recent(all, s) \in Seq(Nat)
    BY <1>1, <1>2, <2>1, RecentType
  <2>3. QED
    BY <2>2 DEF all
<1>4. Watched(s, a)
  BY <1>1 DEF Typed, Carries
<1>5. window' = [window EXCEPT ![a] = Remembered(recent, s)] /\ now' = now
  BY DEF Record
<1>6. \/ /\ Len(recent) >= s.max /\ acts' = [acts EXCEPT ![a] = <<>>]
         /\ trips' = Append(trips, NewTrip(t))
      \/ /\ Len(recent) < s.max /\ acts' = [acts EXCEPT ![a] = done]
         /\ trips' = trips
  BY DEF Record, NewTrip
<1> HIDE DEF a, s, recent, done
<1>7. \A b \in Actors : b # a => window'[b] = window[b] /\ acts'[b] = acts[b]
  BY <1>1, <1>2, <1>5, <1>6
<1>8. window'[a] = Remembered(recent, s)
  BY <1>1, <1>2, <1>5
<1>9. CASE /\ Len(recent) >= s.max /\ acts' = [acts EXCEPT ![a] = <<>>]
           /\ trips' = Append(trips, NewTrip(t))
  <2>1. window'[a] = <<>> /\ acts'[a] = <<>>
    BY <1>1, <1>2, <1>8, <1>9 DEF Remembered
  <2>2. QED
    BY <1>1, <1>2, <1>3, <1>4, <1>5, <1>7, <1>9, <2>1 DEF a, s, recent, done
<1>10. CASE /\ Len(recent) < s.max /\ acts' = [acts EXCEPT ![a] = done]
            /\ trips' = trips
  <2>1. Len(recent) \in Nat
    BY <1>3
  <2>2. window'[a] = recent /\ acts'[a] = done
    BY <1>1, <1>2, <1>8, <1>10, <2>1 DEF Remembered
  <2>3. QED
    BY <1>1, <1>2, <1>3, <1>4, <1>5, <1>7, <1>10, <2>2 DEF a, s, recent, done
<1>11. QED
  BY <1>6, <1>9, <1>10

LEMMA RecordEarns ==
  ASSUME Typed, EarnedInv, NEW t \in Workers, Record(t)
  PROVE  EarnedInv'
<1> DEFINE a == tasks[t].actor  s == tasks[t].cfg
           recent == Recent(Append(window[a], now), s)
           done == Append(acts[a], now)
<1>1. /\ a \in Actors /\ s.window \in Nat /\ s.max \in Nat /\ Watched(s, a)
      /\ window[a] \in Seq(Nat) /\ acts[a] \in Seq(Nat) /\ now \in Nat
      /\ recent \in Seq(Nat) /\ now' = now
      /\ \A b \in Actors : b # a => window'[b] = window[b] /\ acts'[b] = acts[b]
      /\ \/ /\ Len(recent) >= s.max /\ window'[a] = <<>> /\ acts'[a] = <<>>
            /\ trips' = Append(trips, NewTrip(t))
         \/ /\ Len(recent) < s.max /\ window'[a] = recent /\ acts'[a] = done
            /\ trips' = trips
  BY RecordStep
<1>2. Suffix(window[a], acts[a]) /\ Sorted(acts[a], now)
  BY <1>1 DEF EarnedInv
<1>3. /\ Suffix(recent, done) /\ Sorted(done, now)
      /\ Len(recent) <= Within(done, now, s.window) /\ Within(done, now, s.window) \in Nat
  <2> HIDE DEF a, s
  <2>1. s.window <= s.window
    BY <1>1
  <2>2. QED
    BY <1>1, <1>2, <2>1, RecordedTail, SortedOn
<1>4. trips \in Seq(Trip) /\ NewTrip(t) = [actor |-> a, cfg |-> s, at |-> now, acts |-> done]
  BY DEF Typed, TypeOK, NewTrip
<1> HIDE DEF a, s, recent, done
<1>5. \A b \in Actors : Suffix(window'[b], acts'[b]) /\ Sorted(acts'[b], now')
  <2> SUFFICES ASSUME NEW b \in Actors
               PROVE  Suffix(window'[b], acts'[b]) /\ Sorted(acts'[b], now)
    BY <1>1
  <2>1. CASE b # a
    BY <1>1, <2>1 DEF EarnedInv
  <2>2. CASE b = a
    BY <1>1, <1>3, <2>2, EmptyWindow
  <2>3. QED
    BY <2>1, <2>2
<1>6. \A n \in DOMAIN trips' : EarnedTrip(trips'[n])
  <2>1. CASE trips' = trips
    BY <2>1 DEF EarnedInv
  <2>2. CASE Len(recent) >= s.max /\ trips' = Append(trips, NewTrip(t))
    <3>1. Within(done, now, s.window) >= s.max
      <4>1. Len(recent) \in Nat
        BY <1>1
      <4>2. QED
        BY <1>1, <1>3, <2>2, <4>1
    <3>2. EarnedTrip(NewTrip(t))
      BY <1>1, <1>4, <3>1 DEF EarnedTrip
    <3>3. \A n \in DOMAIN trips' : \/ n \in DOMAIN trips /\ trips'[n] = trips[n]
                                   \/ trips'[n] = NewTrip(t)
      BY <1>4, <2>2
    <3>4. QED
      BY <3>2, <3>3 DEF EarnedInv
  <2>3. QED
    BY <1>1, <2>1, <2>2
<1>7. QED
  BY <1>5, <1>6 DEF EarnedInv

LEMMA RecordDrops ==
  ASSUME Typed, EarnedInv, NEW t \in Workers, Record(t),
         NEW W \in Nat, \A s \in Inputs : W <= s.window, DropInv(W)
  PROVE  /\ DropInv(W)'
         /\ LET a == tasks[t].actor  s == tasks[t].cfg IN
            acts'[a] = Append(acts[a], now) => Within(acts'[a], now, W) < s.max
<1> DEFINE a == tasks[t].actor  s == tasks[t].cfg
           recent == Recent(Append(window[a], now), s)
           done == Append(acts[a], now)
<1>1. /\ a \in Actors /\ s \in Inputs /\ s.window \in Nat /\ s.max \in Nat
      /\ window[a] \in Seq(Nat) /\ acts[a] \in Seq(Nat) /\ now \in Nat
      /\ recent \in Seq(Nat) /\ now' = now
      /\ \A b \in Actors : b # a => window'[b] = window[b] /\ acts'[b] = acts[b]
      /\ \/ /\ window'[a] = <<>> /\ acts'[a] = <<>>
         \/ /\ Len(recent) < s.max /\ window'[a] = recent /\ acts'[a] = done
  BY RecordStep
<1>2. /\ Suffix(window[a], acts[a]) /\ Sorted(acts[a], now)
      /\ Dropped(window[a], acts[a], now, W) /\ W <= s.window
  BY <1>1 DEF EarnedInv, DropInv
<1>3. /\ Dropped(recent, done, now, W)
      /\ Within(done, now, W) <= Len(recent) /\ Within(done, now, W) \in Nat
  <2> HIDE DEF a, s
  <2>1. QED
    BY <1>1, <1>2, RecordedTail
<1>4. done # <<>> /\ Len(recent) \in Nat
  <2>1. Len(done) = Len(acts[a]) + 1 /\ Len(acts[a]) \in Nat /\ Len(<<>>) = 0
    BY <1>1
  <2>2. done # <<>>
    <3> HIDE DEF done, a
    <3>1. QED
      BY <2>1
  <2> HIDE DEF a, s, recent, done
  <2>3. Len(recent) \in Nat
    BY <1>1
  <2>4. QED
    BY <2>2, <2>3
<1> HIDE DEF a, s, recent, done
<1>5. DropInv(W)'
  <2> SUFFICES ASSUME NEW b \in Actors PROVE Dropped(window'[b], acts'[b], now, W)
    BY <1>1 DEF DropInv
  <2>1. CASE b # a
    BY <1>1, <2>1 DEF DropInv
  <2>2. CASE b = a
    BY <1>1, <1>3, <1>4, <2>2, EmptyWindow
  <2>3. QED
    BY <2>1, <2>2
<1>6. acts'[a] = done => Within(acts'[a], now, W) < s.max
  BY <1>1, <1>3, <1>4
<1>7. QED
  BY <1>5, <1>6 DEF a, s, done

(* Only Record, the clock and a crash change what EarnedInv is about. *)
LEMMA OthersKeepWindows ==
  ASSUME Typed, [Next]_vars
  PROVE  \/ UNCHANGED <<window, acts, trips, now>>
         \/ \E t \in Workers : Record(t)
         \/ Tick \/ Crash
<1>1. ASSUME NEW t \in Workers, Alert(t) \/ Case(t) \/ Load(t)
      PROVE  UNCHANGED <<window, acts, trips, now>>
  BY <1>1 DEF Alert, Case, Load, history
<1>2. ASSUME NEW t \in Workers, Resolves(t)
      PROVE  UNCHANGED <<window, acts, trips, now>>
  BY <1>2, HandlingStep
<1>3. ASSUME NEW t \in Workers, NEW a \in Actors, Act(t, a)
      PROVE  UNCHANGED <<window, acts, trips, now>>
  BY <1>3 DEF Act, history
<1>4. ASSUME NEW a \in Actors, NEW rs, SetRoles(a, rs)
      PROVE  UNCHANGED <<window, acts, trips, now>>
  BY <1>4 DEF SetRoles, history
<1>5. ASSUME NEW s, Configure(s) PROVE UNCHANGED <<window, acts, trips, now>>
  BY <1>5 DEF Configure, history
<1>6. CASE UNCHANGED vars
  BY <1>6 DEF vars, history
<1>7. QED
  BY <1>1, <1>2, <1>3, <1>4, <1>5, <1>6 DEF Next, TaskStep, Resolves

LEMMA EarnedStep == ASSUME Typed, EarnedInv, [Next]_vars PROVE EarnedInv'
<1>1. CASE UNCHANGED <<window, acts, trips, now>>
  BY <1>1 DEF EarnedInv
<1>2. ASSUME NEW t \in Workers, Record(t) PROVE EarnedInv'
  BY <1>2, RecordEarns
<1>3. CASE Tick
  <2>1. /\ window' = window /\ acts' = acts /\ trips' = trips /\ now' = now + 1
        /\ now \in Nat /\ acts \in [Actors -> Seq(Nat)]
    BY <1>3 DEF Tick, history, Typed, TypeOK
  <2>2. ASSUME NEW a \in Actors PROVE Sorted(acts[a], now + 1)
    <3>1. acts[a] \in Seq(Nat) /\ Sorted(acts[a], now)
      BY <2>1 DEF EarnedInv
    <3>2. \A i \in 1 .. Len(acts[a]) : acts[a][i] \in Nat
      BY <3>1
    <3>3. QED
      BY <2>1, <3>1, <3>2 DEF Sorted
  <2>3. QED
    BY <2>1, <2>2 DEF EarnedInv
<1>4. CASE Crash
  <2>1. /\ \A a \in Actors : window'[a] = <<>> /\ acts'[a] = <<>>
        /\ trips' = <<>> /\ now' = now /\ now \in Nat
    BY <1>4 DEF Crash, Typed, TypeOK
  <2>2. QED
    BY <2>1, EmptyWindow DEF EarnedInv
<1>5. QED
  BY <1>1, <1>2, <1>3, <1>4, OthersKeepWindows

(* Every trip was earned, and the windows are the end of what was done. *)
THEOREM TripsAreEarned == Spec => []EarnedInv
<1>1. Init => EarnedInv
  <2> SUFFICES ASSUME Init PROVE EarnedInv
    OBVIOUS
  <2>1. /\ \A a \in Actors : window[a] = <<>> /\ acts[a] = <<>>
        /\ trips = <<>> /\ now \in Nat
    BY DEF Init
  <2>2. QED
    BY <2>1, EmptyWindow DEF EarnedInv
<1>2. Typed /\ EarnedInv /\ [Next]_vars => EarnedInv'
  BY EarnedStep
<1>3. QED
  BY <1>1, <1>2, TripsAreCarried, PTL DEF Spec

(***************************************************************************)
(* Nobody is stripped who did not trip the settings it was recorded under: *)
(* StripIsEarned follows from the trip that the task carries.              *)
(***************************************************************************)
THEOREM StripsAreEarned == Spec => []StripIsEarned
<1>1. Typed /\ EarnedInv => StripIsEarned
  <2> SUFFICES ASSUME Typed, EarnedInv, NEW t \in Workers,
                      tasks[t].pc \in {"fetch", "guild", "strip"}
               PROVE  LET p == trips[tasks[t].n] IN
                      /\ tasks[t].actor = p.actor
                      /\ p.actor # Owner /\ ~p.cfg.dry /\ Watched(p.cfg, p.actor)
                      /\ Within(p.acts, p.at, p.cfg.window) >= p.cfg.max
    BY DEF StripIsEarned
  <2>1. Carries(tasks[t], trips)
    BY DEF Typed
  <2>2. /\ tasks[t].n \in DOMAIN trips /\ tasks[t].actor # Owner /\ ~tasks[t].cfg.dry
        /\ trips[tasks[t].n].actor = tasks[t].actor
        /\ trips[tasks[t].n].cfg = tasks[t].cfg
    BY <2>1 DEF Carries, After
  <2>3. EarnedTrip(trips[tasks[t].n])
    BY <2>2 DEF EarnedInv
  <2>4. QED
    BY <2>2, <2>3 DEF EarnedTrip
<1>2. QED
  BY <1>1, TripsAreCarried, TripsAreEarned, PTL

(* An action that is recorded without a trip is recorded by its own task. *)
LEMMA RecordsAlone ==
  ASSUME Typed, Next, NEW t \in Workers, tasks[t].pc = "record",
         tasks'[t] # tasks[t], acts'[tasks[t].actor] = Append(acts[tasks[t].actor], now)
  PROVE  Record(t)
<1> DEFINE a == tasks[t].actor
<1>1. a \in Actors /\ acts[a] \in Seq(Nat) /\ now \in Nat
  BY DEF Typed, TypeOK, Task
<1>2. Append(acts[a], now) # acts[a] /\ Append(acts[a], now) # <<>>
  <2> DEFINE before == acts[a]  after == Append(before, now)
  <2>1. Len(after) = Len(before) + 1 /\ Len(before) \in Nat /\ Len(<<>>) = 0
    BY <1>1
  <2> HIDE DEF before, after
  <2>2. after # before /\ after # <<>>
    BY <2>1
  <2>3. QED
    BY <2>2 DEF before, after
<1>3. acts'[a] # acts[a] /\ acts'[a] # <<>>
  BY <1>2
<1>4. ~UNCHANGED acts
  BY <1>3
<1>5. ~Tick /\ ~Crash
  BY <1>1, <1>3 DEF Tick, Crash, history
<1>6. PICK u \in Workers : Record(u)
  BY <1>4, <1>5, OthersKeepWindows
<1>7. u = t
  <2>1. PICK new : tasks' = [tasks EXCEPT ![u] = new]
    BY <1>6 DEF Record, Goto, Ends
  <2>2. tasks \in [Workers -> Task]
    BY DEF Typed, TypeOK
  <2>3. QED
    BY <2>1, <2>2
<1>8. QED
  BY <1>6, <1>7

(* No settings look back less far than a window that lasts. *)
LEMMA LastingReach == \A h \in Lasting : h \in Nat /\ \A s \in Inputs : h <= s.window
BY InputAssumption DEF Lasting, Settings

LEMMA DropStep ==
  ASSUME Typed, EarnedInv, [Next]_vars,
         NEW W \in Nat, \A s \in Inputs : W <= s.window, DropInv(W)
  PROVE  DropInv(W)'
<1>1. CASE UNCHANGED <<window, acts, trips, now>>
  BY <1>1 DEF DropInv
<1>2. ASSUME NEW t \in Workers, Record(t) PROVE DropInv(W)'
  BY <1>2, RecordDrops
<1>3. CASE Tick
  <2>1. /\ window' = window /\ acts' = acts /\ now' = now + 1 /\ now \in Nat
        /\ acts \in [Actors -> Seq(Nat)] /\ window \in [Actors -> Seq(Nat)]
    BY <1>3 DEF Tick, history, Typed, TypeOK
  <2>2. ASSUME NEW a \in Actors PROVE Dropped(window[a], acts[a], now + 1, W)
    <3>1. acts[a] \in Seq(Nat) /\ Len(window[a]) \in Nat
          /\ Dropped(window[a], acts[a], now, W)
      BY <2>1 DEF DropInv
    <3>2. \A i \in 1 .. Len(acts[a]) : acts[a][i] \in Nat
      BY <3>1
    <3>3. \A i \in 1 .. Len(acts[a]) - Len(window[a]) : i \in 1 .. Len(acts[a])
      BY <3>1
    <3>4. QED
      BY <2>1, <3>1, <3>2, <3>3 DEF Dropped
  <2>3. QED
    BY <2>1, <2>2 DEF DropInv
<1>4. CASE Crash
  <2>1. /\ \A a \in Actors : window'[a] = <<>> /\ acts'[a] = <<>>
        /\ now' = now /\ now \in Nat
    BY <1>4 DEF Crash, Typed, TypeOK
  <2>2. QED
    BY <2>1, EmptyWindow DEF DropInv
<1>5. QED
  BY <1>1, <1>2, <1>3, <1>4, OthersKeepWindows

(***************************************************************************)
(* Nobody does as much as a trip takes without tripping, within a window   *)
(* that no settings are shorter than, however they change: what was        *)
(* dropped is too old for it, whoever dropped it.                          *)
(***************************************************************************)
THEOREM NukesAreCaught == Spec => NukeIsCaught
<1> DEFINE Drops == \A h \in Lasting : DropInv(h)
           Inv == Typed /\ EarnedInv /\ Drops
           Catches == \A t \in Workers, h \in Lasting :
             LET a == tasks[t].actor IN
             tasks[t].pc = "record" /\ tasks'[t] # tasks[t]
               /\ acts'[a] = Append(acts[a], now) =>
                 Within(acts'[a], now, h) < tasks[t].cfg.max
<1>1. Init => Drops
  <2> SUFFICES ASSUME Init, NEW h \in Lasting PROVE DropInv(h)
    OBVIOUS
  <2>1. /\ \A a \in Actors : window[a] = <<>> /\ acts[a] = <<>>
        /\ now \in Nat /\ h \in Nat
    BY LastingReach DEF Init
  <2>2. QED
    BY <2>1, EmptyWindow DEF DropInv
<1>2. Inv /\ [Next]_vars => Drops'
  <2> SUFFICES ASSUME Typed, EarnedInv, [Next]_vars, Drops, NEW h \in Lasting
               PROVE  DropInv(h)'
    BY DEF Lasting
  <2>1. h \in Nat /\ (\A s \in Inputs : h <= s.window) /\ DropInv(h)
    BY LastingReach
  <2>2. QED
    BY <2>1, DropStep
<1>3. Inv /\ [Next]_vars => [Catches]_vars
  <2> SUFFICES ASSUME Typed, EarnedInv, Drops, Next,
                      NEW t \in Workers, NEW h \in Lasting,
                      tasks[t].pc = "record", tasks'[t] # tasks[t],
                      acts'[tasks[t].actor] = Append(acts[tasks[t].actor], now)
               PROVE  Within(acts'[tasks[t].actor], now, h) < tasks[t].cfg.max
    OBVIOUS
  <2>1. Record(t)
    BY RecordsAlone
  <2>2. h \in Nat /\ (\A s \in Inputs : h <= s.window) /\ DropInv(h)
    BY LastingReach
  <2>3. QED
    BY <2>1, <2>2, RecordDrops
<1>4. QED
  BY <1>1, <1>2, <1>3, TripsAreCarried, TripsAreEarned, PTL DEF Spec, NukeIsCaught

-----------------------------------------------------------------------------
(* What becomes of a trip. *)

(***************************************************************************)
(* The inductive invariant: no two handlers carry one trip, and what none  *)
(* carries any more was reported, and logged if there was an attempt.      *)
(***************************************************************************)
Distinct ==
  \A t, u \in Workers :
    tasks[t].pc \in After /\ tasks[u].pc \in After /\ tasks[t].n = tasks[u].n => t = u

Untold == \A t \in Workers, e \in told : tasks[t].pc \in Unreported => e.n # tasks[t].n

Answered ==
  \A n \in DOMAIN trips :
    trips[n].actor = Owner \/ Pending(n, Unreported) \/ \E e \in told : e.n = n

Once == \A e, f \in told : e.n = f.n => e = f

Logged == \A e \in told : e.outcome \in Attempts =>
            Pending(e.n, {"case"}) \/ \E c \in noted : c.n = e.n

(* A note without a case took a failure. *)
Cased == \A c \in noted : c.case \/ faults < MaxFaults

AccInv == Distinct /\ Untold /\ Answered /\ Once /\ Logged

(* Only the task of the step moves. *)
LEMMA Moved ==
  ASSUME Typed, NEW t \in Workers, NEW new, Goto(t, new)
  PROVE  tasks'[t] = new /\ \A u \in Workers : u # t => tasks'[u] = tasks[u]
BY DEF Goto, Typed, TypeOK

(* A task that is at no trip, before and after. *)
LEMMA QuietStep ==
  ASSUME Typed, AccInv, NEW t \in Workers, NEW new, Goto(t, new),
         tasks[t].pc \notin After, new.pc \notin After,
         UNCHANGED <<trips, told, noted>>
  PROVE  AccInv'
<1>1. tasks'[t] = new /\ \A u \in Workers : u # t => tasks'[u] = tasks[u]
  BY Moved
<1>2. \A u \in Workers : tasks'[u].pc \in After => u # t /\ tasks'[u] = tasks[u]
  BY <1>1
<1>3. \A n, pcs : pcs \subseteq After /\ Pending(n, pcs) => Pending(n, pcs)'
  BY <1>1 DEF Pending
<1>4. Unreported \subseteq After /\ {"case"} \subseteq After
  BY DEF Unreported, After
<1>5. Distinct'
  BY <1>2 DEF AccInv, Distinct
<1>6. Untold'
  BY <1>2, <1>4 DEF AccInv, Untold
<1>7. Answered' /\ Once' /\ Logged'
  BY <1>3, <1>4 DEF AccInv, Answered, Once, Logged
<1>8. QED
  BY <1>5, <1>6, <1>7 DEF AccInv

(* A handler that goes on towards its report, or finds the owner. *)
LEMMA HandledStep ==
  ASSUME Typed, AccInv, NEW t \in Workers, NEW new, Goto(t, new),
         tasks[t].pc \in {"owner", "fetch", "guild", "strip"}, Handles(tasks[t], new),
         UNCHANGED <<trips, told, noted>>
  PROVE  AccInv'
<1> DEFINE n == tasks[t].n
<1>1. tasks'[t] = new /\ \A u \in Workers : u # t => tasks'[u] = tasks[u]
  BY Moved
<1>2. /\ tasks[t].pc \in Unreported /\ tasks[t].pc \in After
      /\ n \in DOMAIN trips /\ trips[n].actor = tasks[t].actor
  BY DEF Typed, Carries, After, Unreported
<1>3. CASE new = Idle /\ tasks[t].actor = Owner
  <2>1. \A u \in Workers : tasks'[u].pc \in After => u # t /\ tasks'[u] = tasks[u]
    BY <1>1, <1>3, IdleType DEF After
  <2>2. \A m, pcs : m # n /\ Pending(m, pcs) => Pending(m, pcs)'
    BY <1>1 DEF Pending
  <2>3. Distinct'
    BY <2>1 DEF AccInv, Distinct
  <2>4. Untold'
    BY <2>1 DEF AccInv, Untold, Unreported, After
  <2>5. Answered'
    BY <1>2, <1>3, <2>2 DEF AccInv, Answered
  <2>6. Once'
    BY DEF AccInv, Once
  <2>7. \A e \in told : e.n # n
    BY <1>2 DEF AccInv, Untold
  <2>8. Logged'
    BY <2>2, <2>7 DEF AccInv, Logged
  <2>9. QED
    BY <2>3, <2>4, <2>5, <2>6, <2>8 DEF AccInv
<1>4. CASE new.pc \in {"fetch", "guild", "strip", "alert"} /\ new.n = n
  <2>1. new.pc \in Unreported /\ new.pc \in After /\ new.pc # "case"
    BY <1>4 DEF Unreported, After
  <2>2. \A u \in Workers : tasks'[u].n = tasks[u].n
    BY <1>1, <1>4
  <2>3. \A u \in Workers : tasks'[u].pc \in After => tasks[u].pc \in After
    BY <1>1, <1>2
  <2>4. \A u \in Workers : tasks'[u].pc \in Unreported <=> tasks[u].pc \in Unreported
    BY <1>1, <1>2, <2>1
  <2>5. \A m : Pending(m, Unreported) => Pending(m, Unreported)'
    BY <2>2, <2>4 DEF Pending
  <2>6. \A m : Pending(m, {"case"}) => Pending(m, {"case"})'
    BY <1>1, <1>2 DEF Pending, Unreported
  <2>7. Distinct'
    BY <2>2, <2>3 DEF AccInv, Distinct
  <2>8. Untold'
    BY <2>2, <2>4 DEF AccInv, Untold
  <2>9. Answered' /\ Once' /\ Logged'
    BY <2>5, <2>6 DEF AccInv, Answered, Once, Logged
  <2>10. QED
    BY <2>7, <2>8, <2>9 DEF AccInv
<1>5. QED
  BY <1>3, <1>4 DEF Handles

(* A new trip is nobody else's. *)
LEMMA TripStep ==
  ASSUME Typed, AccInv, NEW t \in Workers, NEW new, Goto(t, new),
         tasks[t].pc = "record", new.pc = "owner", new.n = Len(trips'),
         trips' = Append(trips, NewTrip(t)), UNCHANGED <<told, noted>>
  PROVE  AccInv'
<1>1. tasks'[t] = new /\ \A u \in Workers : u # t => tasks'[u] = tasks[u]
  BY Moved
<1>2. /\ trips \in Seq(Trip) /\ NewTrip(t) \in Trip
      /\ told \subseteq [n : DOMAIN trips, outcome : Outcomes, heard : BOOLEAN]
  BY TripType DEF Typed, TypeOK
<1>3. /\ new.n \notin DOMAIN trips /\ DOMAIN trips' = DOMAIN trips \cup {new.n}
      /\ \A n \in DOMAIN trips : trips'[n] = trips[n]
  BY <1>2
<1>4. \A u \in Workers : tasks[u].pc \in After => tasks[u].n # new.n
  BY <1>3 DEF Typed, Carries
<1>5. \A e \in told : e.n # new.n
  BY <1>2, <1>3
<1>6. \A n, pcs : "record" \notin pcs /\ Pending(n, pcs) => Pending(n, pcs)'
  BY <1>1 DEF Pending
<1>7. Distinct'
  BY <1>1, <1>4 DEF AccInv, Distinct
<1>8. Untold'
  BY <1>1, <1>5 DEF AccInv, Untold
<1>9. Answered'
  <2>1. Pending(new.n, Unreported)'
    BY <1>1 DEF Pending, Unreported
  <2>2. "record" \notin Unreported
    BY DEF Unreported
  <2>3. QED
    BY <1>3, <1>6, <2>1, <2>2 DEF AccInv, Answered
<1>10. Once' /\ Logged'
  BY <1>6 DEF AccInv, Once, Logged
<1>11. QED
  BY <1>7, <1>8, <1>9, <1>10 DEF AccInv

(* The report of a trip is the only one, and an attempt goes on to its case. *)
LEMMA AlertStep ==
  ASSUME Typed, AccInv, NEW t \in Workers, Alert(t)
  PROVE  AccInv'
<1>0. PICK heard \in BOOLEAN :
        told' = told \cup {[n |-> tasks[t].n, outcome |-> tasks[t].outcome, heard |-> heard]}
  BY DEF Alert
<1> DEFINE n == tasks[t].n
           e == [n |-> n, outcome |-> tasks[t].outcome, heard |-> heard]
           new == AfterAlert(tasks[t])
<1>1. /\ tasks[t] \in Task /\ tasks[t].pc = "alert" /\ Carries(tasks[t], trips)
      /\ told' = told \cup {e} /\ Goto(t, new) /\ UNCHANGED <<trips, noted>>
  BY <1>0 DEF Typed, TypeOK, Alert
<1>2. tasks'[t] = new /\ \A u \in Workers : u # t => tasks'[u] = tasks[u]
  <2> HIDE DEF new
  <2>1. QED
    BY <1>1, Moved
<1>3. \/ new = Idle /\ e.outcome \notin Attempts
      \/ new.pc = "case" /\ new.n = n
  <2>1. "case" \in PCs
    BY DEF PCs
  <2>2. QED
    BY <1>1, <2>1, GoesOn DEF AfterAlert
<1>4. /\ e.n = n /\ tasks[t].pc \in After /\ tasks[t].pc \in Unreported
      /\ \A f \in told : f.n # n
  BY <1>1 DEF After, Unreported, AccInv, Untold
<1>5. new.pc \notin Unreported /\ (new.pc \in After => new.n = n)
  BY <1>3, IdleType DEF After, Unreported
<1> HIDE DEF e, new, n
<1>6. \A u \in Workers : tasks'[u].pc \in Unreported => u # t /\ tasks'[u] = tasks[u]
  BY <1>2, <1>5
<1>7. \A m, pcs : m # n /\ Pending(m, pcs) => Pending(m, pcs)'
  BY <1>2 DEF Pending, n
<1>8. Distinct'
  <2>1. \A u \in Workers : tasks'[u].pc \in After => tasks[u].pc \in After /\ tasks'[u].n = tasks[u].n
    BY <1>2, <1>4, <1>5 DEF n
  <2>2. QED
    BY <2>1 DEF AccInv, Distinct
<1>9. Untold'
  <2>1. \A u \in Workers : tasks'[u].pc \in Unreported => tasks'[u].n # n
    BY <1>4, <1>6 DEF AccInv, Distinct, n, After, Unreported
  <2>2. QED
    BY <1>1, <1>4, <1>6, <2>1 DEF AccInv, Untold
<1>10. Answered'
  BY <1>1, <1>4, <1>7 DEF AccInv, Answered
<1>11. Once'
  BY <1>1, <1>4 DEF AccInv, Once
<1>12. Logged'
  <2>1. \A m : m = n /\ e.outcome \in Attempts => Pending(m, {"case"})'
    BY <1>2, <1>3 DEF Pending
  <2>2. QED
    BY <1>1, <1>4, <1>7, <2>1 DEF AccInv, Logged
<1>13. QED
  BY <1>8, <1>9, <1>10, <1>11, <1>12 DEF AccInv

LEMMA CaseStep ==
  ASSUME Typed, AccInv, NEW t \in Workers, Case(t)
  PROVE  AccInv'
<1> DEFINE n == tasks[t].n
<1>0. PICK written \in BOOLEAN : noted' = noted \cup {[n |-> n, case |-> written]}
  BY DEF Case
<1>1. /\ tasks[t].pc = "case" /\ Goto(t, Idle) /\ UNCHANGED <<trips, told>>
      /\ noted \subseteq noted' /\ \E c \in noted' : c.n = n
  <2>1. [n |-> n, case |-> written] \in noted' /\ noted \subseteq noted'
    BY <1>0
  <2>2. [n |-> n, case |-> written].n = n
    OBVIOUS
  <2> HIDE DEF n
  <2>3. \E c \in noted' : c.n = n
    BY <2>1, <2>2
  <2>4. QED
    BY <2>1, <2>3 DEF Case, Ends
<1>2. tasks'[t] = Idle /\ \A u \in Workers : u # t => tasks'[u] = tasks[u]
  BY <1>1, Moved
<1>3. \A u \in Workers : tasks'[u].pc \in After => u # t /\ tasks'[u] = tasks[u]
  BY <1>2, IdleType DEF After
<1>4. \A m : Pending(m, Unreported) => Pending(m, Unreported)'
  BY <1>1, <1>2 DEF Pending, Unreported
<1>5. \A m : m # n /\ Pending(m, {"case"}) => Pending(m, {"case"})'
  BY <1>2 DEF Pending
<1>6. Distinct'
  BY <1>3 DEF AccInv, Distinct
<1>7. Untold'
  BY <1>1, <1>3 DEF AccInv, Untold, Unreported, After
<1>8. Answered' /\ Once'
  BY <1>1, <1>4 DEF AccInv, Answered, Once
<1>9. Logged'
  <2> SUFFICES ASSUME NEW e \in told, e.outcome \in Attempts
               PROVE  Pending(e.n, {"case"})' \/ \E c \in noted' : c.n = e.n
    BY <1>1 DEF Logged
  <2>1. Pending(e.n, {"case"}) \/ \E c \in noted : c.n = e.n
    BY DEF AccInv, Logged
  <2>2. CASE e.n = n
    BY <1>1, <2>2
  <2>3. CASE e.n # n
    BY <1>1, <1>5, <2>1, <2>3
  <2>4. QED
    BY <2>2, <2>3
<1>10. QED
  BY <1>6, <1>7, <1>8, <1>9 DEF AccInv

LEMMA AccountedStep == ASSUME Typed, AccInv, [Next]_vars PROVE AccInv'
<1>1. ASSUME NEW t \in Workers, NEW a \in Actors, Act(t, a) PROVE AccInv'
  <2> DEFINE new == [Idle EXCEPT !.pc = "load", !.actor = a]
  <2>1. tasks[t].pc \notin After /\ new.pc \notin After
    BY <1>1, IdleType DEF Act, Free, After, Task
  <2>2. Goto(t, new) /\ UNCHANGED <<trips, told, noted>>
    BY <1>1 DEF Act, history
  <2> HIDE DEF new
  <2>3. QED
    BY <2>1, <2>2, QuietStep
<1>2. ASSUME NEW t \in Workers, Load(t) PROVE AccInv'
  <2> DEFINE new == [tasks[t] EXCEPT !.pc = "record", !.cfg = cfg]
  <2>1. tasks[t].pc \notin After /\ new.pc \notin After /\ Idle.pc \notin After
    BY <1>2, IdleType DEF Load, After, Typed, TypeOK, Task
  <2>2. UNCHANGED <<trips, told, noted>> /\ (Goto(t, new) \/ Goto(t, Idle))
    BY <1>2 DEF Load, Ends, history
  <2> HIDE DEF new
  <2>3. QED
    BY <2>1, <2>2, QuietStep
<1>3. ASSUME NEW t \in Workers, Record(t) PROVE AccInv'
  <2> DEFINE new == [tasks[t] EXCEPT !.pc = "owner", !.n = Len(trips')]
  <2>1. tasks[t].pc = "record" /\ UNCHANGED <<told, noted>>
    BY <1>3 DEF Record
  <2>2. CASE trips' = Append(trips, NewTrip(t)) /\ Goto(t, new)
    <3>1. new.pc = "owner" /\ new.n = Len(trips')
      BY <2>1, <2>2, TripsTask
    <3> HIDE DEF new
    <3>2. QED
      BY <2>1, <2>2, <3>1, TripStep
  <2>3. CASE UNCHANGED trips /\ Goto(t, Idle)
    <3>1. tasks[t].pc \notin After /\ Idle.pc \notin After
      BY <2>1, IdleType DEF After
    <3>2. QED
      BY <2>1, <2>3, <3>1, QuietStep
  <2>4. QED
    BY <1>3, <2>2, <2>3 DEF Record, Ends, NewTrip
<1>4. ASSUME NEW t \in Workers, Resolves(t) PROVE AccInv'
  <2>1. PICK new : Goto(t, new) /\ Handles(tasks[t], new)
    BY <1>4, HandlingStep
  <2>2. tasks[t].pc \in {"owner", "fetch", "guild", "strip"} /\ UNCHANGED <<trips, told, noted>>
    BY <1>4, HandlingStep
  <2>3. QED
    BY <2>1, <2>2, HandledStep
<1>5. ASSUME NEW t \in Workers, Alert(t) PROVE AccInv'
  BY <1>5, AlertStep
<1>6. ASSUME NEW t \in Workers, Case(t) PROVE AccInv'
  BY <1>6, CaseStep
<1>7. CASE Crash
  <2>1. /\ tasks' = [t \in Workers |-> Idle] /\ trips' = <<>> /\ told' = {}
    BY <1>7 DEF Crash
  <2>2. \A t \in Workers : tasks'[t].pc \notin After /\ tasks'[t].pc \notin Unreported
    BY <2>1, IdleType DEF After, Unreported
  <2>3. DOMAIN trips' = {}
    BY <2>1
  <2>4. QED
    BY <2>1, <2>2, <2>3 DEF AccInv, Distinct, Untold, Answered, Once, Logged
<1>8. CASE UNCHANGED <<tasks, trips, told, noted>>
  BY <1>8 DEF AccInv, Distinct, Untold, Answered, Once, Logged, Pending
<1>9. ASSUME (\E s \in Inputs : Configure(s)) \/ Tick \/ UNCHANGED vars
             \/ \E a \in Actors, rs \in SUBSET Roles : SetRoles(a, rs)
      PROVE  UNCHANGED <<tasks, trips, told, noted>>
  BY <1>9 DEF Configure, Tick, SetRoles, vars, history
<1>10. QED
  BY <1>1, <1>2, <1>3, <1>4, <1>5, <1>6, <1>7, <1>8, <1>9 DEF Next, TaskStep, Resolves

(* A note without a case takes a failure, and failures are not given back. *)
LEMMA CasedStep == ASSUME Typed, Cased, [Next]_vars PROVE Cased'
<1>1. faults \in 0 .. MaxFaults /\ MaxFaults \in Nat
  BY NumberAssumption DEF Typed, TypeOK
<1>2. ASSUME NEW t \in Workers, Case(t) PROVE Cased'
  <2>1. PICK written \in BOOLEAN :
          /\ noted' = noted \cup {[n |-> tasks[t].n, case |-> written]}
          /\ IF written THEN NoFault ELSE Fault
    BY <1>2 DEF Case
  <2>2. faults' <= faults /\ (written \/ faults' < MaxFaults) /\ faults' \in Int
    BY <1>1, <2>1 DEF Fault, NoFault
  <2>3. \A c \in noted' : c \in noted \/ c.case = written
    BY <2>1
  <2>4. QED
    BY <1>1, <2>2, <2>3 DEF Cased
<1>3. CASE faults' <= faults /\ faults' \in Int /\ noted' \in {noted, {}}
  BY <1>1, <1>3 DEF Cased
<1>4. ASSUME NEW t \in Workers, Resolves(t)
      PROVE  faults' <= faults /\ faults' \in Int /\ UNCHANGED noted
  BY <1>4, HandlingStep
<1>5. ASSUME NEW t \in Workers, Alert(t)
      PROVE  faults' <= faults /\ faults' \in Int /\ UNCHANGED noted
  <2>1. Fault \/ NoFault
    BY <1>5 DEF Alert
  <2>2. QED
    BY <1>1, <1>5, <2>1 DEF Alert, Fault, NoFault
<1>6. ASSUME \/ \E t \in Workers : Load(t) \/ Record(t)
             \/ \E t \in Workers, a \in Actors : Act(t, a)
             \/ \E s \in Inputs : Configure(s)
             \/ \E a \in Actors, rs \in SUBSET Roles : SetRoles(a, rs)
             \/ Crash \/ Tick \/ UNCHANGED vars
      PROVE  UNCHANGED faults /\ noted' \in {noted, {}}
  BY <1>6 DEF Load, Record, Act, Configure, SetRoles, Crash, Tick, vars, history
<1>7. QED
  BY <1>1, <1>2, <1>3, <1>4, <1>5, <1>6 DEF Next, TaskStep, Resolves

(***************************************************************************)
(* Whatever fails, and however many handlers run at once: of a trip, other *)
(* than the owner's, the handler has its say, once, and notes the attempt; *)
(* an attempt that was neither heard of nor left a case took a failure.    *)
(***************************************************************************)
THEOREM TripsAreAccounted == Spec => []Accounted
<1>1. Init => AccInv /\ Cased
  <2> SUFFICES ASSUME Init PROVE AccInv /\ Cased
    OBVIOUS
  <2>1. \A t \in Workers : tasks[t].pc \notin After
    BY IdleType DEF Init, After
  <2>2. told = {} /\ noted = {} /\ DOMAIN trips = {}
    BY DEF Init
  <2>3. QED
    BY <2>1, <2>2 DEF AccInv, Distinct, Untold, Answered, Once, Logged, Cased, After, Unreported
<1>2. Typed /\ AccInv /\ Cased /\ [Next]_vars => AccInv' /\ Cased'
  BY AccountedStep, CasedStep
<1>3. AccInv /\ Cased => Accounted
  BY DEF AccInv, Answered, Once, Logged, Cased, Accounted, Unreported
<1>4. QED
  BY <1>1, <1>2, <1>3, TripsAreCarried, PTL DEF Spec

(***************************************************************************)
(* A strip that is reported took every role it may: the edit is refused if *)
(* the managed roles have changed since the member was fetched.            *)
(***************************************************************************)
THEOREM StripsTakeAll == Spec => StripTakesAll
<1> DEFINE Takes == \A t \in Workers :
      tasks[t].pc = "strip" /\ tasks'[t].pc = "alert" /\ tasks'[t].outcome = "stripped" =>
        LET a == tasks[t].actor IN roles'[a] = roles[a] \cap Managed
<1>1. Typed /\ Next => Takes
  <2> SUFFICES ASSUME Typed, Next, NEW t \in Workers, tasks[t].pc = "strip",
                      tasks'[t].pc = "alert", tasks'[t].outcome = "stripped"
               PROVE  roles'[tasks[t].actor] = roles[tasks[t].actor] \cap Managed
    OBVIOUS
  <2>1. tasks[t] \in Task /\ roles \in [Actors -> SUBSET Roles]
    BY DEF Typed, TypeOK
  <2>2. tasks'[t] # tasks[t] /\ tasks'[t] # Idle
    BY IdleType
  <2>3. \A u \in Workers : \A new : Goto(u, new) => u = t
    BY <2>2, Moved
  <2>4. Strip(t)
    <3>1. ASSUME NEW u \in Workers, TaskStep(u) PROVE u = t
      BY <2>3, <3>1
         DEF TaskStep, Load, Record, ResolveOwner, FetchMember, FetchRoles, Strip, Alert, Case,
             Ends
    <3>2. ASSUME NEW u \in Workers, NEW a \in Actors, Act(u, a) PROVE FALSE
      BY <2>3, <3>2 DEF Act, Free
    <3>3. ASSUME Crash PROVE FALSE
      BY <2>2, <3>3 DEF Crash
    <3>4. ASSUME \/ \E s \in Inputs : Configure(s)
                 \/ \E a \in Actors, rs \in SUBSET Roles : SetRoles(a, rs)
                 \/ Tick
          PROVE  FALSE
      BY <2>2, <3>4 DEF Configure, SetRoles, Tick
    <3>5. TaskStep(t)
      BY <3>1, <3>2, <3>3, <3>4 DEF Next
    <3>6. QED
      BY <3>5
         DEF TaskStep, Load, Record, ResolveOwner, FetchMember, FetchRoles, Alert, Case
  <2>5. tasks[t].keep \in SUBSET Managed /\ tasks[t].actor \in Actors
    BY <2>1 DEF Task, Typed, TypeOK
  <2>6. ~Goto(t, Reports(tasks[t], "failed"))
    <3>1. Reports(tasks[t], "failed").outcome = "failed"
      BY <2>1, ReportType DEF Outcomes
    <3>2. QED
      BY <3>1, Moved
  <2>7. /\ Accepts(tasks[t].actor, tasks[t].keep)
        /\ roles' = [roles EXCEPT ![tasks[t].actor] = tasks[t].keep]
    BY <2>4, <2>6 DEF Strip
  <2>8. tasks[t].keep = roles[tasks[t].actor] \cap Managed
    BY <2>5, <2>7 DEF Accepts
  <2>9. QED
    BY <2>1, <2>5, <2>7, <2>8
<1>2. Typed /\ [Next]_vars => [Takes]_vars
  BY <1>1
<1>3. QED
  BY <1>2, TripsAreCarried, PTL DEF Spec, StripTakesAll

=============================================================================
