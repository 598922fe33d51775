---------------------------- MODULE JailProofs ----------------------------
(***************************************************************************)
(* What holds of the jail for every guild, pool of tasks and bound:        *)
(* whatever happens; where stimuli only jail; where the stimuli for a      *)
(* member come one at a time.                                              *)
(***************************************************************************)
EXTENDS Jail, TLAPS

-----------------------------------------------------------------------------
(* The types of what the handlers compute. *)

(* AnyMember, the member an idle task points at, is a member.              *)
LEMMA AnyMemberType == AnyMember \in Members
BY TaskAssumption DEF AnyMember

(* A task that has just been spawned is a task state.                      *)
LEMMA LaunchedType ==
  ASSUME NEW pc \in PCs, NEW m \in Members
  PROVE  /\ Idle \in TaskState
         /\ Launched(pc, m) \in TaskState
BY AnyMemberType, NumberAssumption
   DEF Launched, Idle, TaskState, PCs, JailPCs, UnjailPCs, RejoinPCs

(* The snapshot, the role set of a jailed member and the length of a       *)
(* sentence stay within their sets.                                        *)
LEMMA ComputedTypes ==
  ASSUME TypeOK
  PROVE  /\ \A rs \in SUBSET AllRoles : Snapshot(rs) \in SUBSET AllRoles
         /\ \A m \in Members : JailedRoles(m) \in SUBSET AllRoles
         /\ \A mins \in Minutes : Sentence(mins) \in Nat \cup {Never}
BY NumberAssumption
   DEF TypeOK, Snapshot, JailedRoles, Sentence, AllRoles, Never

(* SetRoles keeps the types of the roles and of the updates in transit.    *)
LEMMA SetRolesType ==
  ASSUME TypeOK, NEW m \in Members, NEW new \in SUBSET AllRoles,
         SetRoles(m, new)
  PROVE  /\ roles' \in [Members -> SUBSET AllRoles]
         /\ updates' \in [Members -> Seq(SUBSET AllRoles)]
BY DEF TypeOK, SetRoles

(* A budget that is spent stays a number.                                  *)
LEMMA FaultType ==
  ASSUME TypeOK, Fault \/ NoFault
  PROVE  faults' \in Nat
BY DEF TypeOK, Fault, NoFault

-----------------------------------------------------------------------------
(* Type correctness, one lemma for each group of actions. *)

(* The stimuli of a member and of a worker keep every variable's type.    *)
LEMMA StimulusTypes ==
  ASSUME TypeOK,
         NEW m \in Members,
         \/ MemberStimulus(m)
         \/ \E t \in Workers : WorkerStimulus(t, m)
  PROVE  TypeOK'
<1>0. \A pc \in PCs : Launched(pc, m) \in TaskState /\ Idle \in TaskState
  BY LaunchedType
<1>1. ASSUME NEW t \in Workers, WorkerStimulus(t, m) PROVE TypeOK'
  <2>0. t \in Tasks /\ {"jail", "unjail", "rejoin"} \subseteq PCs
    BY DEF Tasks, PCs, JailPCs, UnjailPCs, RejoinPCs
  <2>1. ASSUME NEW mins \in Minutes, JailCommand(t, m, mins) PROVE TypeOK'
    <3>1. [Launched("jail", m) EXCEPT !.mins = mins] \in TaskState
      BY <1>0, <2>0 DEF TaskState
    <3>2. QED
      BY <2>0, <2>1, <3>1 DEF TypeOK, JailCommand, Stimulus, Goto
  <2>2. CASE TryJail(t, m)
    BY <1>0, <2>0, <2>2 DEF TypeOK, TryJail, Stimulus, Goto
  <2>3. CASE UnjailCommand(t, m)
    BY <1>0, <2>0, <2>3 DEF TypeOK, UnjailCommand, Stimulus, Goto
  <2>4. CASE Rejoin(t, m)
    BY <1>0, <2>0, <2>4 DEF TypeOK, Rejoin, Stimulus, Goto
  <2>5. QED
    BY <1>1, <2>1, <2>2, <2>3, <2>4 DEF WorkerStimulus
<1>2. CASE HandJail(m)
  <2>1. roles[m] \cup {JailRole} \in SUBSET AllRoles
    BY DEF TypeOK, AllRoles
  <2>2. QED
    BY <1>2, <2>1, SetRolesType DEF TypeOK, HandJail, Stimulus
<1>3. CASE HandFree(m)
  <2>1. roles[m] \ {JailRole} \in SUBSET AllRoles
    BY DEF TypeOK, AllRoles
  <2>2. QED
    BY <1>3, <2>1, SetRolesType DEF TypeOK, HandFree, Stimulus
<1>4. CASE Touch(m)
  BY <1>4 DEF TypeOK, Touch, Stimulus
<1>5. CASE Leave(m)
  BY <1>5 DEF TypeOK, Leave, Stimulus
<1>6. ASSUME NEW r \in Roles, Grant(m, r) \/ Autorole(m, r) PROVE TypeOK'
  <2>1. roles[m] \cup {r} \in SUBSET AllRoles
    BY DEF TypeOK, AllRoles
  <2>2. stimuli' \in Nat
    BY <1>6 DEF TypeOK, Grant, Autorole, Stimulus
  <2>3. SetRoles(m, roles[m] \cup {r})
    BY <1>6 DEF Grant, Autorole
  <2>4. /\ roles' \in [Members -> SUBSET AllRoles]
        /\ updates' \in [Members -> Seq(SUBSET AllRoles)]
    BY <2>1, <2>3, SetRolesType
  <2>5. had' \in [Members -> SUBSET (Roles \cup Managed)]
    <3>1. had' = [had EXCEPT ![m] = @ \cup {r}]
      BY <1>6 DEF Grant, Autorole
    <3>2. had[m] \cup {r} \in SUBSET (Roles \cup Managed)
      BY DEF TypeOK
    <3>3. QED
      BY <3>1, <3>2 DEF TypeOK
  <2>6. UNCHANGED <<jails, enabled, present, tasks, sweep, rewritten, now, owed, faults>>
    BY <1>6 DEF Grant, Autorole
  <2>7. QED
    BY <2>2, <2>4, <2>5, <2>6 DEF TypeOK
<1>7. ASSUME NEW r \in Managed, ToggleManaged(m, r) PROVE TypeOK'
  <2>1. /\ roles[m] \cup {r} \in SUBSET AllRoles
        /\ roles[m] \ {r} \in SUBSET AllRoles
    BY DEF TypeOK, AllRoles
  <2>2. QED
    BY <1>7, <2>1, SetRolesType DEF TypeOK, ToggleManaged, Stimulus
<1>8. QED
  BY <1>1, <1>2, <1>3, <1>4, <1>5, <1>6, <1>7 DEF MemberStimulus

(* Computing the role set of a jailed member keeps every type.            *)
LEMMA RoleSetTypes ==
  ASSUME TypeOK, NEW t \in Tasks, NEW from, NEW to \in PCs, RoleSet(t, from, to)
  PROVE  TypeOK'
<1>1. tasks[t].m \in Members /\ tasks[t] \in TaskState
  BY DEF TypeOK, TaskState
<1>2. JailedRoles(tasks[t].m) \in SUBSET AllRoles /\ {JailRole} \in SUBSET AllRoles
  BY <1>1, ComputedTypes DEF AllRoles
<1>3. tasks' \in [Tasks -> TaskState]
  <2>1. /\ [tasks[t] EXCEPT !.pc = to, !.aim = JailedRoles(tasks[t].m)] \in TaskState
        /\ [tasks[t] EXCEPT !.pc = to, !.aim = {JailRole}] \in TaskState
    BY <1>1, <1>2 DEF TaskState
  <2>2. QED
    BY <2>1 DEF TypeOK, RoleSet, Goto
<1>4. faults' \in Nat
  BY FaultType DEF RoleSet
<1>5. QED
  BY <1>3, <1>4 DEF TypeOK, RoleSet

(* The steps of jail_member keep every type.                              *)
LEMMA JailTypes ==
  ASSUME TypeOK, NEW t \in Tasks,
         \/ JailRead(t) \/ JailFetch(t) \/ JailRecord(t)
         \/ JailRoleSet(t) \/ JailStrip(t)
  PROVE  TypeOK'
<1>0. /\ tasks[t] \in TaskState
      /\ tasks[t].m \in Members
      /\ jails[tasks[t].m] \in Record
      /\ Idle \in TaskState
  BY AnyMemberType, LaunchedType DEF TypeOK, TaskState, PCs
<1>1. CASE JailRead(t)
  <2>1. /\ [tasks[t] EXCEPT !.pc = "record", !.fresh = FALSE,
                            !.prior = jails[tasks[t].m].prior] \in TaskState
        /\ [tasks[t] EXCEPT !.pc = "fetch", !.fresh = TRUE] \in TaskState
    BY <1>0 DEF TaskState, Record, PCs, JailPCs
  <2>2. QED
    BY <1>1, <2>1 DEF TypeOK, JailRead, Goto
<1>2. CASE JailFetch(t)
  <2>1. [tasks[t] EXCEPT !.pc = "record", !.prior = Snapshot(roles[tasks[t].m])]
          \in TaskState
    <3>1. Snapshot(roles[tasks[t].m]) \in SUBSET AllRoles
      BY <1>0, ComputedTypes DEF TypeOK
    <3>2. QED
      BY <1>0, <3>1 DEF TaskState, PCs, JailPCs
  <2>2. faults' \in Nat
    BY <1>2, FaultType DEF JailFetch
  <2>3. tasks' \in [Tasks -> TaskState]
    BY <1>0, <1>2, <2>1 DEF TypeOK, JailFetch, Goto, Ends
  <2>4. QED
    BY <1>2, <2>2, <2>3 DEF TypeOK, JailFetch
<1>3. CASE JailRecord(t)
  <2>1. [tasks[t] EXCEPT !.pc = "aim"] \in TaskState
    BY <1>0 DEF TaskState, PCs, JailPCs
  <2>2. [held |-> TRUE, prior |-> KeptPrior(jails[tasks[t].m], tasks[t].prior),
         expires |-> Sentence(tasks[t].mins)] \in Record
    <3>1. Sentence(tasks[t].mins) \in Nat \cup {Never}
      BY <1>0, ComputedTypes DEF TaskState
    <3>2. KeptPrior(jails[tasks[t].m], tasks[t].prior) \in SUBSET AllRoles
      BY <1>0 DEF KeptPrior, TaskState, Record
    <3>3. QED
      BY <3>1, <3>2 DEF Record
  <2>3. jails' \in [Members -> Record] /\ tasks' \in [Tasks -> TaskState]
    <3>1. CASE Ends(t) /\ UNCHANGED <<jails, rewritten>>
      BY <1>0, <3>1 DEF TypeOK, Goto, Ends
    <3>2. CASE ~(Ends(t) /\ UNCHANGED <<jails, rewritten>>)
      <4> DEFINE m == tasks[t].m
                 rec == [held |-> TRUE, prior |-> KeptPrior(jails[m], tasks[t].prior),
                         expires |-> Sentence(tasks[t].mins)]
                 next == [tasks[t] EXCEPT !.pc = "aim"]
      <4>1. jails' = [jails EXCEPT ![m] = rec] /\ tasks' = [tasks EXCEPT ![t] = next]
        BY <1>0, <1>3, <3>2 DEF TypeOK, JailRecord, Goto
      <4>2. rec \in Record /\ next \in TaskState /\ m \in Members
        BY <1>0, <2>1, <2>2
      <4> HIDE DEF m, rec, next
      <4> QED
        BY <4>1, <4>2 DEF TypeOK
    <3>3. QED
      BY <3>1, <3>2
  <2>4. faults' \in Nat /\ rewritten' \subseteq Members
    BY <1>0, <1>3, FaultType DEF TypeOK, JailRecord
  <2>5. QED
    BY <1>3, <2>3, <2>4 DEF TypeOK, JailRecord
<1>4. CASE JailRoleSet(t)
  <2>1. "strip" \in PCs
    BY DEF PCs, JailPCs
  <2>2. QED
    BY <1>4, <2>1, RoleSetTypes DEF JailRoleSet
<1>5. CASE JailStrip(t)
  <2>1. /\ roles' \in [Members -> SUBSET AllRoles]
        /\ updates' \in [Members -> Seq(SUBSET AllRoles)]
    <3>1. tasks[t].aim \in SUBSET AllRoles
      BY <1>0 DEF TaskState
    <3>2. CASE SetRoles(tasks[t].m, tasks[t].aim)
      BY <1>0, <3>1, <3>2, SetRolesType
    <3>3. CASE KeepRoles
      BY <3>3 DEF TypeOK, KeepRoles
    <3>4. QED
      BY <1>5, <3>2, <3>3 DEF JailStrip
  <2>2. jails' \in [Members -> Record]
    <3>1. NoRecord \in Record
      BY DEF NoRecord, Record
    <3>2. QED
      BY <1>0, <1>5, <3>1 DEF TypeOK, JailStrip
  <2>3. faults' \in Nat
    BY <1>5, FaultType DEF JailStrip
  <2>4. QED
    BY <1>0, <1>5, <2>1, <2>2, <2>3 DEF TypeOK, JailStrip, Goto, Ends
<1>6. QED
  BY <1>1, <1>2, <1>3, <1>4, <1>5

(* The steps of unjail_member keep every type.                            *)
LEMMA UnjailTypes ==
  ASSUME TypeOK, NEW t \in Tasks,
         UnjailRead(t) \/ UnjailRemove(t) \/ UnjailRestore(t) \/ UnjailPull(t)
  PROVE  TypeOK'
<1>0. /\ tasks[t] \in TaskState
      /\ tasks[t].m \in Members
      /\ jails[tasks[t].m] \in Record
      /\ Idle \in TaskState
  BY AnyMemberType, LaunchedType DEF TypeOK, TaskState, PCs
<1>1. CASE UnjailRead(t)
  <2>1. [tasks[t] EXCEPT !.pc = "remove", !.fresh = ~jails[tasks[t].m].held,
                         !.prior = jails[tasks[t].m].prior] \in TaskState
    BY <1>0 DEF TaskState, Record, PCs, UnjailPCs
  <2>2. QED
    BY <1>1, <2>1 DEF TypeOK, UnjailRead, Goto
<1>2. CASE UnjailRemove(t)
  <2>1. [tasks[t] EXCEPT !.pc = AfterRemove(tasks[t])] \in TaskState
    BY <1>0 DEF TaskState, PCs, UnjailPCs, AfterRemove
  <2>2. NoRecord \in Record
    BY DEF NoRecord, Record
  <2>3. jails' \in [Members -> Record] /\ tasks' \in [Tasks -> TaskState]
    <3>1. CASE Ends(t) /\ UNCHANGED jails
      BY <1>0, <3>1 DEF TypeOK, Goto, Ends
    <3>2. CASE ~(Ends(t) /\ UNCHANGED jails)
      BY <1>0, <1>2, <2>1, <2>2, <3>2 DEF TypeOK, UnjailRemove, Goto
    <3>3. QED
      BY <3>1, <3>2
  <2>4. faults' \in Nat
    BY <1>2, FaultType DEF UnjailRemove
  <2>5. QED
    BY <1>2, <2>3, <2>4 DEF TypeOK, UnjailRemove
<1>3. CASE UnjailRestore(t)
  <2>1. /\ roles' \in [Members -> SUBSET AllRoles]
        /\ updates' \in [Members -> Seq(SUBSET AllRoles)]
    <3>1. tasks[t].prior \in SUBSET AllRoles
      BY <1>0 DEF TaskState
    <3>2. CASE SetRoles(tasks[t].m, tasks[t].prior)
      BY <1>0, <3>1, <3>2, SetRolesType
    <3>3. CASE KeepRoles
      BY <3>3 DEF TypeOK, KeepRoles
    <3>4. QED
      BY <1>3, <3>2, <3>3 DEF UnjailRestore
  <2>2. owed' \in [Members -> SUBSET Roles]
    BY <1>0, <1>3 DEF TypeOK, UnjailRestore
  <2>3. faults' \in Nat
    BY <1>3, FaultType DEF UnjailRestore
  <2>4. QED
    BY <1>0, <1>3, <2>1, <2>2, <2>3 DEF TypeOK, UnjailRestore, Goto, Ends
<1>4. CASE UnjailPull(t)
  <2>1. /\ roles' \in [Members -> SUBSET AllRoles]
        /\ updates' \in [Members -> Seq(SUBSET AllRoles)]
    <3>1. roles[tasks[t].m] \ {JailRole} \in SUBSET AllRoles
      BY <1>0 DEF TypeOK
    <3>2. CASE SetRoles(tasks[t].m, roles[tasks[t].m] \ {JailRole})
      BY <1>0, <3>1, <3>2, SetRolesType
    <3>3. CASE KeepRoles
      BY <3>3 DEF TypeOK, KeepRoles
    <3>4. QED
      BY <1>4, <3>2, <3>3 DEF UnjailPull
  <2>2. faults' \in Nat
    BY <1>4, FaultType DEF UnjailPull
  <2>3. QED
    BY <1>0, <1>4, <2>1, <2>2 DEF TypeOK, UnjailPull, Goto, Ends
<1>5. QED
  BY <1>1, <1>2, <1>3, <1>4

(* The steps of reapply_if_jailed keep every type.                        *)
LEMMA RejoinTypes ==
  ASSUME TypeOK, NEW t \in Tasks,
         \/ Watch(t) \/ Judge(t)
         \/ RejoinCheck(t) \/ RejoinLookup(t) \/ RejoinRoleSet(t) \/ RejoinApply(t)
  PROVE  TypeOK'
<1>0. /\ tasks[t] \in TaskState
      /\ tasks[t].m \in Members
      /\ Idle \in TaskState
  BY AnyMemberType, LaunchedType DEF TypeOK, TaskState, PCs
<1>1. CASE Judge(t)
  <2>1. Verdict(tasks[t].aim, jails[tasks[t].m].held) \in PCs
    BY DEF Verdict, PCs, JailPCs, UnjailPCs
  <2>2. Launched(Verdict(tasks[t].aim, jails[tasks[t].m].held), tasks[t].m)
          \in TaskState
    BY <1>0, <2>1, LaunchedType
  <2>3. QED
    BY <1>0, <1>1, <2>2 DEF TypeOK, Judge, Goto
<1>2. CASE Watch(t) \/ RejoinCheck(t) \/ RejoinLookup(t)
  <2>1. \A pc \in {"judge", "lookup", "reaim"} :
          [tasks[t] EXCEPT !.pc = pc] \in TaskState
    BY <1>0 DEF TaskState, PCs, RejoinPCs
  <2>2. tasks' \in [Tasks -> TaskState]
    BY <1>0, <1>2, <2>1 DEF TypeOK, Watch, RejoinCheck, RejoinLookup, Goto, Ends
  <2>3. QED
    BY <1>2, <2>2 DEF TypeOK, Watch, RejoinCheck, RejoinLookup
<1>3. CASE RejoinRoleSet(t)
  <2>1. "reapply" \in PCs
    BY DEF PCs, RejoinPCs
  <2>2. QED
    BY <1>3, <2>1, RoleSetTypes DEF RejoinRoleSet
<1>4. CASE RejoinApply(t)
  <2>1. /\ roles' \in [Members -> SUBSET AllRoles]
        /\ updates' \in [Members -> Seq(SUBSET AllRoles)]
    <3>1. tasks[t].aim \in SUBSET AllRoles
      BY <1>0 DEF TaskState
    <3>2. CASE SetRoles(tasks[t].m, tasks[t].aim)
      BY <1>0, <3>1, <3>2, SetRolesType
    <3>3. CASE KeepRoles
      BY <3>3 DEF TypeOK, KeepRoles
    <3>4. QED
      BY <1>4, <3>2, <3>3 DEF RejoinApply
  <2>2. faults' \in Nat
    BY <1>4, FaultType DEF RejoinApply
  <2>3. QED
    BY <1>0, <1>4, <2>1, <2>2 DEF TypeOK, RejoinApply, Goto, Ends
<1>5. QED
  BY <1>1, <1>2, <1>3, <1>4

(* The watcher, the sweep and the remaining steps keep every type.        *)
LEMMA OtherTypes ==
  ASSUME TypeOK,
         \/ \E t \in Workers, m \in Members : Deliver(t, m)
         \/ SweepStarts
         \/ \E m \in Members : SweepNext(m)
         \/ \E b \in BOOLEAN : SetJail(b)
         \/ Crash
         \/ Tick
  PROVE  TypeOK'
<1>0. \A pc \in PCs, m \in Members : Launched(pc, m) \in TaskState /\ Idle \in TaskState
  BY LaunchedType
<1>1. ASSUME NEW t \in Workers, NEW m \in Members, Deliver(t, m) PROVE TypeOK'
  <2>1. /\ Head(updates[m]) \in SUBSET AllRoles
        /\ Tail(updates[m]) \in Seq(SUBSET AllRoles)
    BY <1>1 DEF TypeOK, Deliver
  <2>2. [Launched("watch", m) EXCEPT !.aim = Head(updates[m])] \in TaskState
    <3>1. "watch" \in PCs
      BY DEF PCs
    <3>2. QED
      BY <1>0, <2>1, <3>1 DEF TaskState
  <2>3. QED
    BY <1>1, <2>1, <2>2 DEF TypeOK, Deliver, Goto, Tasks
<1>2. CASE SweepStarts
  BY <1>2 DEF TypeOK, SweepStarts, SweepTick, Due
<1>3. ASSUME NEW m \in Members, SweepNext(m) PROVE TypeOK'
  <2>1. Launched("unjail", m) \in TaskState
    BY <1>0 DEF PCs, UnjailPCs
  <2>2. QED
    BY <1>3, <2>1 DEF TypeOK, SweepNext, Goto, Tasks
<1>4. ASSUME NEW b \in BOOLEAN, SetJail(b) PROVE TypeOK'
  BY <1>4 DEF TypeOK, SetJail
<1>5. CASE Crash
  <2>1. Idle \in TaskState
    BY AnyMemberType, LaunchedType DEF PCs
  <2>2. QED
    BY <1>5, <2>1 DEF TypeOK, Crash
<1>6. CASE Tick
  BY <1>6 DEF TypeOK, Tick
<1>7. QED
  BY <1>1, <1>2, <1>3, <1>4, <1>5, <1>6

(* Every variable keeps its type, whatever the environment does.           *)
THEOREM TypeCorrect == Spec => []TypeOK
<1>1. Init => TypeOK
  <2> SUFFICES ASSUME Init PROVE TypeOK
    OBVIOUS
  <2>1. Idle \in TaskState /\ NoRecord \in Record
    BY AnyMemberType, LaunchedType DEF PCs, NoRecord, Record
  <2>2. QED
    BY <2>1, NumberAssumption DEF Init, TypeOK, AllRoles
<1>2. TypeOK /\ [Next]_vars => TypeOK'
  <2> SUFFICES ASSUME TypeOK, [Next]_vars PROVE TypeOK'
    OBVIOUS
  <2>1. ASSUME NEW t \in Tasks, TaskStep(t) PROVE TypeOK'
    BY <2>1, JailTypes, UnjailTypes, RejoinTypes DEF TaskStep
  <2>2. CASE UNCHANGED vars
    BY <2>2 DEF TypeOK, vars
  <2>3. QED
    BY <2>1, <2>2, StimulusTypes, OtherTypes DEF Next
<1>3. QED
  BY <1>1, <1>2, PTL DEF Spec

-----------------------------------------------------------------------------
(* Roles come from outside: the inductive form of NoRoleInvented. *)

(* Every role set the bot keeps or is about to send was the member's.      *)
HadInv ==
  /\ NoRoleInvented
  /\ \A t \in Tasks :
       /\ tasks[t].prior \subseteq had[tasks[t].m]
       /\ tasks[t].pc \in {"strip", "reapply"}
            => tasks[t].aim \subseteq had[tasks[t].m] \cup {JailRole}

(* Spawned and finished tasks carry nothing.                               *)
LEMMA LaunchedCarriesNothing ==
  ASSUME NEW pc, NEW m
  PROVE  /\ Idle.prior = {} /\ Idle.pc = "idle"
         /\ Launched(pc, m).prior = {}
         /\ Launched(pc, m).pc = pc
         /\ Launched(pc, m).m = m
BY DEF Launched, Idle

(* What a role change announces is what the member then wears.             *)
LEMMA SetRolesEffect ==
  ASSUME TypeOK, NEW m \in Members, NEW new, SetRoles(m, new)
  PROVE  /\ roles'[m] = new
         /\ \A n \in Members : n # m => roles'[n] = roles[n]
BY DEF TypeOK, SetRoles

(* A stimulus gives a member only roles it also notes in had.             *)
LEMMA HadStimulus ==
  ASSUME TypeOK, HadInv, NEW m \in Members, MemberStimulus(m)
  PROVE  HadInv'
<1>0. \A n \in Members : roles[n] \subseteq had[n] \cup {JailRole}
  BY DEF HadInv, NoRoleInvented
<1>1. UNCHANGED <<jails, tasks>>
  BY DEF MemberStimulus, HandJail, HandFree, Touch, Leave, Grant, Autorole,
         ToggleManaged
<1>2. \A n \in Members : had[n] \subseteq had'[n]
  BY DEF TypeOK, MemberStimulus, HandJail, HandFree, Touch, Leave, Grant, Autorole,
         ToggleManaged
<1>3. \A n \in Members : roles'[n] \subseteq had'[n] \cup {JailRole}
  <2>1. CASE HandJail(m)
    BY <1>0, <2>1, SetRolesEffect DEF HandJail
  <2>2. CASE HandFree(m)
    BY <1>0, <2>2, SetRolesEffect DEF HandFree
  <2>3. CASE Touch(m)
    BY <1>0, <2>3 DEF Touch
  <2>4. CASE Leave(m)
    BY <1>0, <2>4 DEF TypeOK, Leave
  <2>5. ASSUME NEW r \in Roles, Grant(m, r) \/ Autorole(m, r)
        PROVE  \A n \in Members : roles'[n] \subseteq had'[n] \cup {JailRole}
    <3>1. SetRoles(m, roles[m] \cup {r}) /\ had' = [had EXCEPT ![m] = @ \cup {r}]
      BY <2>5 DEF Grant, Autorole
    <3>2. r \in had'[m] /\ roles'[m] = roles[m] \cup {r}
      BY <3>1, SetRolesEffect DEF TypeOK
    <3>3. QED
      BY <1>0, <1>2, <3>1, <3>2, SetRolesEffect
  <2>6. ASSUME NEW r \in Managed, ToggleManaged(m, r)
        PROVE  \A n \in Members : roles'[n] \subseteq had'[n] \cup {JailRole}
    <3>1. r \in had'[m]
      BY <2>6 DEF TypeOK, ToggleManaged
    <3>2. /\ roles'[m] \subseteq roles[m] \cup {r}
          /\ \A n \in Members : n # m => roles'[n] = roles[n]
      BY <2>6, SetRolesEffect DEF ToggleManaged
    <3>3. QED
      BY <1>0, <1>2, <3>1, <3>2
  <2>7. QED
    BY <2>1, <2>2, <2>3, <2>4, <2>5, <2>6 DEF MemberStimulus
<1>4. \A t \in Tasks : tasks[t].m \in Members
  BY DEF TypeOK, TaskState
<1>5. QED
  BY <1>1, <1>2, <1>3, <1>4 DEF HadInv, NoRoleInvented

(* No step of a handler gives a member a role that had does not know.     *)
LEMMA HadTask ==
  ASSUME TypeOK, HadInv, NEW t \in Tasks, TaskStep(t)
  PROVE  HadInv'
<1> DEFINE task == tasks[t]  m == tasks[t].m
<1>0. /\ task \in TaskState
      /\ m \in Members
      /\ \A u \in Tasks : tasks[u].m \in Members
      /\ had' = had
  BY DEF TypeOK, TaskState, TaskStep, Watch, Judge, JailRead, JailFetch, JailRecord,
         JailRoleSet, RoleSet, JailStrip, UnjailRead, UnjailRemove,
         UnjailRestore, UnjailPull, RejoinCheck, RejoinLookup, RejoinRoleSet, RejoinApply
<1>h. /\ \A n \in Members : /\ roles[n] \subseteq had[n] \cup {JailRole}
                            /\ jails[n].prior \subseteq had[n]
      /\ task.prior \subseteq had[m]
  BY DEF HadInv, NoRoleInvented
<1>i. Idle.prior = {} /\ Idle.pc = "idle"
  BY LaunchedCarriesNothing
<1>1. \A n \in Members : roles'[n] \subseteq had[n] \cup {JailRole}
  <2>1. CASE roles' = roles
    BY <1>h, <2>1
  <2>2. CASE JailStrip(t) /\ SetRoles(m, task.aim)
    BY <1>0, <1>h, <2>2, SetRolesEffect DEF JailStrip, HadInv
  <2>3. CASE UnjailRestore(t) /\ SetRoles(m, task.prior)
    BY <1>0, <1>h, <2>3, SetRolesEffect
  <2>4. CASE UnjailPull(t) /\ SetRoles(m, roles[m] \ {JailRole})
    BY <1>0, <1>h, <2>4, SetRolesEffect
  <2>5. CASE RejoinApply(t) /\ SetRoles(m, task.aim)
    BY <1>0, <1>h, <2>5, SetRolesEffect DEF RejoinApply, HadInv
  <2>6. QED
    BY <2>1, <2>2, <2>3, <2>4, <2>5
       DEF TaskStep, Watch, Judge, JailRead, JailFetch, JailRecord, JailRoleSet, RoleSet,
           JailStrip, UnjailRead, UnjailRemove, UnjailRestore, UnjailPull,
           RejoinCheck, RejoinLookup, RejoinRoleSet, RejoinApply, KeepRoles
<1>2. \A n \in Members : jails'[n].prior \subseteq had[n]
  <2>1. CASE jails' = jails
    BY <1>h, <2>1
  <2>2. CASE jails' = [jails EXCEPT ![m] = NoRecord]
    BY <1>0, <1>h, <2>2 DEF TypeOK, NoRecord
  <2>3. CASE JailRecord(t) /\ jails' # jails
    <3>1. jails'[m].prior = KeptPrior(jails[m], task.prior)
      BY <1>0, <2>3 DEF TypeOK, JailRecord
    <3>2. \A n \in Members : n # m => jails'[n] = jails[n]
      BY <1>0, <2>3 DEF TypeOK, JailRecord
    <3>3. QED
      BY <1>0, <1>h, <3>1, <3>2 DEF KeptPrior
  <2>4. QED
    BY <2>1, <2>2, <2>3
       DEF TaskStep, Watch, Judge, JailRead, JailFetch, JailRecord, JailRoleSet, RoleSet,
           JailStrip, UnjailRead, UnjailRemove, UnjailRestore, UnjailPull,
           RejoinCheck, RejoinLookup, RejoinRoleSet, RejoinApply
<1>3. \A u \in Tasks : u # t => tasks'[u] = tasks[u]
  BY DEF TypeOK, TaskStep, Watch, Judge, JailRead, JailFetch, JailRecord, JailRoleSet,
         RoleSet, JailStrip, UnjailRead, UnjailRemove, UnjailRestore, UnjailPull,
         RejoinCheck, RejoinLookup, RejoinRoleSet, RejoinApply, Goto, Ends
<1>4. /\ tasks'[t].prior \subseteq had[tasks'[t].m]
      /\ tasks'[t].pc \in {"strip", "reapply"}
           => tasks'[t].aim \subseteq had[tasks'[t].m] \cup {JailRole}
  <2>1. CASE tasks'[t] = Idle
    BY <1>i, <2>1
  <2>2. CASE Judge(t)
    BY <1>i, <2>2, LaunchedCarriesNothing DEF TypeOK, Judge, Goto, Verdict
  <2>3. CASE JailRead(t)
    BY <1>0, <1>h, <2>3 DEF TypeOK, JailRead, Goto, TaskState
  <2>4. CASE JailFetch(t)
    <3>1. \/ tasks'[t] = [task EXCEPT !.pc = "record", !.prior = Snapshot(roles[m])]
          \/ tasks'[t] = Idle
      BY <2>4 DEF TypeOK, JailFetch, Goto, Ends
    <3>2. Snapshot(roles[m]) \subseteq had[m]
      BY <1>0, <1>h DEF Snapshot
    <3>3. QED
      BY <1>0, <1>i, <3>1, <3>2 DEF TaskState
  <2>5. CASE JailRecord(t)
    <3>1. tasks'[t] = [task EXCEPT !.pc = "aim"] \/ tasks'[t] = Idle
      BY <2>5 DEF TypeOK, JailRecord, Goto, Ends
    <3>2. QED
      BY <1>0, <1>h, <1>i, <3>1 DEF TaskState
  <2>6. CASE JailRoleSet(t)
    <3>1. JailedRoles(m) \subseteq had[m] \cup {JailRole}
      BY <1>0, <1>h DEF JailedRoles
    <3>2. \/ tasks'[t] = [task EXCEPT !.pc = "strip", !.aim = JailedRoles(m)]
          \/ tasks'[t] = [task EXCEPT !.pc = "strip", !.aim = {JailRole}]
      BY <2>6 DEF TypeOK, JailRoleSet, RoleSet, Goto
    <3>3. QED
      BY <1>0, <1>h, <3>1, <3>2 DEF TaskState
  <2>7. CASE UnjailRead(t)
    BY <1>0, <1>h, <2>7 DEF TypeOK, UnjailRead, Goto, TaskState
  <2>8. CASE UnjailRemove(t)
    <3>1. tasks'[t] = [task EXCEPT !.pc = AfterRemove(task)] \/ tasks'[t] = Idle
      BY <2>8 DEF TypeOK, UnjailRemove, Goto, Ends
    <3>2. QED
      BY <1>0, <1>h, <1>i, <3>1 DEF TaskState, AfterRemove
  <2>9. CASE Watch(t) \/ RejoinCheck(t) \/ RejoinLookup(t)
    <3>1. \/ \E pc \in {"judge", "lookup", "reaim"} :
               tasks'[t] = [task EXCEPT !.pc = pc]
          \/ tasks'[t] = Idle
      BY <2>9 DEF TypeOK, Watch, RejoinCheck, RejoinLookup, Goto, Ends
    <3>2. QED
      BY <1>0, <1>h, <1>i, <3>1 DEF TaskState
  <2>10. CASE RejoinRoleSet(t)
    <3>1. JailedRoles(m) \subseteq had[m] \cup {JailRole}
      BY <1>0, <1>h DEF JailedRoles
    <3>2. \/ tasks'[t] = [task EXCEPT !.pc = "reapply", !.aim = JailedRoles(m)]
          \/ tasks'[t] = [task EXCEPT !.pc = "reapply", !.aim = {JailRole}]
      BY <2>10 DEF TypeOK, RejoinRoleSet, RoleSet, Goto
    <3>3. QED
      BY <1>0, <1>h, <3>1, <3>2 DEF TaskState
  <2>11. QED
    BY <2>1, <2>2, <2>3, <2>4, <2>5, <2>6, <2>7, <2>8, <2>9, <2>10
       DEF TypeOK, TaskStep, JailStrip, UnjailRestore, UnjailPull, RejoinApply, Goto, Ends
<1>5. QED
  BY <1>0, <1>1, <1>2, <1>3, <1>4 DEF HadInv, NoRoleInvented

(* Deliveries, the sweep, /setjail, a crash and the clock move no role.   *)
LEMMA HadOther ==
  ASSUME TypeOK, HadInv,
         \/ \E t \in Workers, m \in Members : Deliver(t, m) \/ WorkerStimulus(t, m)
         \/ SweepStarts
         \/ \E m \in Members : SweepNext(m)
         \/ \E b \in BOOLEAN : SetJail(b)
         \/ Crash
         \/ Tick
  PROVE  HadInv'
<1>1. UNCHANGED <<jails, roles, had>>
  BY DEF Deliver, WorkerStimulus, JailCommand, TryJail, UnjailCommand, Rejoin,
         SweepStarts, SweepTick, SweepNext, SetJail, Crash, Tick
<1>2. \A t \in Tasks : \/ tasks'[t] = tasks[t]
                       \/ /\ tasks'[t].prior = {}
                          /\ tasks'[t].pc \notin {"strip", "reapply"}
  <2>1. ASSUME NEW t \in Workers, NEW m \in Members,
               Deliver(t, m) \/ WorkerStimulus(t, m)
        PROVE  \A u \in Tasks : \/ tasks'[u] = tasks[u]
                                \/ /\ tasks'[u].prior = {}
                                   /\ tasks'[u].pc \notin {"strip", "reapply"}
    <3>1. /\ t \in Tasks
          /\ \E pc \in {"watch", "jail", "unjail", "rejoin"} :
               \/ Goto(t, Launched(pc, m))
               \/ \E mins \in Minutes : Goto(t, [Launched(pc, m) EXCEPT !.mins = mins])
               \/ \E rs : Goto(t, [Launched(pc, m) EXCEPT !.aim = rs])
      <4>1. CASE Deliver(t, m)
        BY <4>1 DEF Deliver, Tasks
      <4>2. CASE \E mins \in Minutes : JailCommand(t, m, mins)
        BY <4>2 DEF JailCommand, Tasks
      <4>3. CASE TryJail(t, m) \/ UnjailCommand(t, m) \/ Rejoin(t, m)
        BY <4>3 DEF TryJail, UnjailCommand, Rejoin, Tasks
      <4>4. QED
        BY <2>1, <4>1, <4>2, <4>3 DEF WorkerStimulus
    <3>2. /\ tasks'[t].prior = {}
          /\ tasks'[t].pc \in {"watch", "jail", "unjail", "rejoin"}
      <4>1. PICK pc \in {"watch", "jail", "unjail", "rejoin"} :
              \/ tasks'[t] = Launched(pc, m)
              \/ \E mins \in Minutes : tasks'[t] = [Launched(pc, m) EXCEPT !.mins = mins]
              \/ \E rs : tasks'[t] = [Launched(pc, m) EXCEPT !.aim = rs]
        BY <3>1 DEF TypeOK, Goto
      <4>2. QED
        BY <4>1 DEF Launched, Idle
    <3>3. \A u \in Tasks : u # t => tasks'[u] = tasks[u]
      BY <3>1 DEF TypeOK, Goto
    <3>4. QED
      BY <3>2, <3>3
  <2>2. CASE \E m \in Members : SweepNext(m)
    BY <2>2 DEF TypeOK, SweepNext, Goto, Launched, Idle, Tasks
  <2>3. CASE Crash
    BY <2>3 DEF Crash, Idle
  <2>4. QED
    BY <2>1, <2>2, <2>3 DEF SweepStarts, SweepTick, SetJail, Tick
<1>3. QED
  BY <1>1, <1>2 DEF HadInv, NoRoleInvented

(* The bot gives no member a role the member did not get elsewhere.        *)
THEOREM RolesComeFromOutside == Spec => []NoRoleInvented
<1>1. Init => HadInv
  <2> SUFFICES ASSUME Init PROVE HadInv
    OBVIOUS
  <2>1. \A t \in Tasks : tasks[t].prior = {} /\ tasks[t].pc = "idle"
    BY LaunchedCarriesNothing DEF Init
  <2>2. \A m \in Members : jails[m].prior = {} /\ had[m] = roles[m]
    BY DEF Init, NoRecord
  <2>3. QED
    BY <2>1, <2>2 DEF HadInv, NoRoleInvented
<1>2. TypeOK /\ HadInv /\ [Next]_vars => HadInv'
  <2> SUFFICES ASSUME TypeOK, HadInv, [Next]_vars PROVE HadInv'
    OBVIOUS
  <2>1. CASE UNCHANGED vars
    BY <2>1 DEF vars, HadInv, NoRoleInvented
  <2>2. QED
    BY <2>1, HadTask, HadStimulus, HadOther DEF Next
<1>3. HadInv => NoRoleInvented
  BY DEF HadInv
<1>4. QED
  BY <1>1, <1>2, <1>3, TypeCorrect, PTL DEF Spec

-----------------------------------------------------------------------------
(* Where records change. *)

(* Only a task writes the jails table.                                     *)
LEMMA OthersKeepRecords ==
  ASSUME \/ \E t \in Workers, m \in Members : Deliver(t, m) \/ WorkerStimulus(t, m)
         \/ \E m \in Members : MemberStimulus(m) \/ SweepNext(m)
         \/ SweepStarts
         \/ \E b \in BOOLEAN : SetJail(b)
         \/ Crash
         \/ Tick
  PROVE  jails' = jails
BY DEF Deliver, SweepStarts, SweepTick, SweepNext, MemberStimulus, HandJail, HandFree,
       Touch, Leave, Grant, Autorole, ToggleManaged, WorkerStimulus, JailCommand,
       TryJail, UnjailCommand, Rejoin, SetJail, Crash, Tick

(* And a task does in three places: record_jail, its rollback, remove_jail.*)
LEMMA RecordsChange ==
  ASSUME NEW t \in Tasks, TaskStep(t), jails' # jails
  PROVE  JailRecord(t) \/ JailStrip(t) \/ UnjailRemove(t)
BY DEF TaskStep, Watch, Judge, JailRead, JailFetch, JailRoleSet, RoleSet, UnjailRead,
       UnjailRestore, UnjailPull, RejoinCheck, RejoinLookup, RejoinRoleSet, RejoinApply

(* record_jail takes no record away.                                       *)
LEMMA RecordingKeeps ==
  ASSUME TypeOK, NEW t \in Tasks, JailRecord(t), NEW m \in Members
  PROVE  ~Released(m)
<1>1. tasks[t].m \in Members
  BY DEF TypeOK, TaskState
<1>2. \/ \E rec : rec.held = TRUE /\ jails' = [jails EXCEPT ![tasks[t].m] = rec]
      \/ jails' = jails
  BY DEF JailRecord
<1>3. QED
  BY <1>1, <1>2 DEF TypeOK, Released

-----------------------------------------------------------------------------
(***************************************************************************)
(* Overlapping jailings and restarts lose no snapshot and free nobody, as  *)
(* long as no release is ordered, nobody else edits the member and no call *)
(* of Discord fails.  Any number of tasks, members, roles and stimuli.     *)
(***************************************************************************)

(* Commands and filters that jail, the jail role assigned by hand, the     *)
(* jail switched on and off, restarts: and nothing else.                   *)
JailingOnly ==
  /\ Ops \subseteq {"jail", "filter", "handjail", "config", "crash"}
  /\ MaxFaults = 0

(* The snapshot is safe from the moment a record is held; until then the   *)
(* member still wears every role, and so does the snapshot in every task   *)
(* that is about to record one.  No step removes a record, because every   *)
(* update in transit carries the jail role and no strip is refused.        *)
SnapInv ==
  /\ faults = 0
  /\ sweep = {}
  /\ \A m \in Members :
       /\ present[m]
       /\ \A i \in DOMAIN updates[m] : JailRole \in updates[m][i]
       /\ jails[m].held => owed[m] \subseteq jails[m].prior
       /\ ~jails[m].held => owed[m] \subseteq roles[m]
  /\ \A t \in Tasks :
       LET task == tasks[t]  m == tasks[t].m IN
       /\ task.pc \notin UnjailPCs \cup RejoinPCs
       /\ task.pc \in {"watch", "judge"} => JailRole \in task.aim
       /\ task.pc = "record" /\ ~jails[m].held => owed[m] \subseteq task.prior
       /\ task.pc \in {"aim", "strip"} => jails[m].held
       /\ task.pc = "strip" => /\ JailRole \in task.aim
                               /\ task.aim \cap Managed = roles[m] \cap Managed

(* Every member starts with the roles the bot owes them.                  *)
LEMMA SnapInit == JailingOnly /\ Init => SnapInv
<1> SUFFICES ASSUME JailingOnly, Init PROVE SnapInv
  OBVIOUS
<1>1. \A t \in Tasks : tasks[t].pc = "idle"
  BY LaunchedCarriesNothing DEF Init
<1>2. \A m \in Members : /\ present[m] /\ ~jails[m].held
                         /\ owed[m] \subseteq roles[m]
                         /\ DOMAIN updates[m] = {}
  BY DEF Init, NoRecord
<1>3. faults = 0 /\ sweep = {}
  BY DEF JailingOnly, Init
<1>4. QED
  BY <1>1, <1>2, <1>3 DEF SnapInv, UnjailPCs, RejoinPCs

(* A role change by which the member ends with the jail role, the same     *)
(* managed roles and, while no record is held, no fewer ordinary ones.     *)
LEMMA SnapSetRoles ==
  ASSUME TypeOK, SnapInv, NEW m \in Members, NEW new \in SUBSET AllRoles,
         SetRoles(m, new), JailRole \in new,
         new \cap Managed = roles[m] \cap Managed,
         jails[m].held \/ roles[m] \subseteq new,
         UNCHANGED <<jails, present, sweep, owed, faults>>,
         \A t \in Tasks : tasks'[t] = tasks[t] \/ tasks'[t] = Idle
  PROVE  SnapInv'
<1>1. /\ roles'[m] = new
      /\ \A n \in Members : n # m => roles'[n] = roles[n]
  BY SetRolesEffect
<1>2. \A n \in Members : \A i \in DOMAIN updates'[n] : JailRole \in updates'[n][i]
  <2>1. CASE updates' = updates
    BY <2>1 DEF SnapInv
  <2>2. CASE updates' = [updates EXCEPT ![m] = Append(@, new)]
    <3>1. updates[m] \in Seq(SUBSET AllRoles)
      BY DEF TypeOK
    <3>2. \A i \in DOMAIN updates'[m] : JailRole \in updates'[m][i]
      BY <2>2, <3>1 DEF TypeOK, SnapInv
    <3>3. \A n \in Members : n # m => updates'[n] = updates[n]
      BY <2>2 DEF TypeOK
    <3>4. QED
      BY <3>2, <3>3 DEF SnapInv
  <2>3. QED
    BY <2>1, <2>2 DEF SetRoles
<1>3. \A n \in Members : ~jails'[n].held => owed'[n] \subseteq roles'[n]
  BY <1>1 DEF SnapInv
<1>4. \A n \in Members : roles'[n] \cap Managed = roles[n] \cap Managed
  BY <1>1
<1>5. \A t \in Tasks : tasks[t].m \in Members
  BY DEF TypeOK, TaskState
<1>6. Idle.pc = "idle"
  BY LaunchedCarriesNothing
<1>7. QED
  BY <1>2, <1>3, <1>4, <1>5, <1>6 DEF SnapInv, UnjailPCs, RejoinPCs

(* The shape most steps have: the roles, the records and what is in        *)
(* transit stay, and a task moves to a state that respects the invariant.  *)
LEMMA SnapMove ==
  ASSUME TypeOK, SnapInv, NEW t \in Tasks,
         UNCHANGED <<jails, roles, present, sweep, owed, faults>>,
         \A m \in Members : \A i \in DOMAIN updates'[m] : JailRole \in updates'[m][i],
         \A u \in Tasks : u # t => tasks'[u] = tasks[u],
         tasks'[t].pc \notin UnjailPCs \cup RejoinPCs,
         tasks'[t].pc \in {"watch", "judge"} => JailRole \in tasks'[t].aim,
         tasks'[t].pc = "record" /\ ~jails[tasks'[t].m].held
           => owed[tasks'[t].m] \subseteq tasks'[t].prior,
         tasks'[t].pc \in {"aim", "strip"} => jails[tasks'[t].m].held,
         tasks'[t].pc = "strip"
           => /\ JailRole \in tasks'[t].aim
              /\ tasks'[t].aim \cap Managed = roles[tasks'[t].m] \cap Managed
  PROVE  SnapInv'
<1>1. \A m \in Members : /\ present'[m]
                         /\ jails'[m].held => owed'[m] \subseteq jails'[m].prior
                         /\ ~jails'[m].held => owed'[m] \subseteq roles'[m]
  BY DEF SnapInv
<1>2. \A u \in Tasks :
        /\ tasks'[u].pc \notin UnjailPCs \cup RejoinPCs
        /\ tasks'[u].pc \in {"watch", "judge"} => JailRole \in tasks'[u].aim
        /\ tasks'[u].pc = "record" /\ ~jails[tasks'[u].m].held
             => owed[tasks'[u].m] \subseteq tasks'[u].prior
        /\ tasks'[u].pc \in {"aim", "strip"} => jails[tasks'[u].m].held
        /\ tasks'[u].pc = "strip"
             => /\ JailRole \in tasks'[u].aim
                /\ tasks'[u].aim \cap Managed = roles[tasks'[u].m] \cap Managed
  <2> TAKE u \in Tasks
  <2>1. CASE u = t
    BY <2>1
  <2>2. CASE u # t
    BY <2>2 DEF SnapInv
  <2>3. QED
    BY <2>1, <2>2
<1>3. faults' = 0 /\ sweep' = {}
  BY DEF SnapInv
<1>4. QED
  BY <1>1, <1>2, <1>3 DEF SnapInv

(* No step of a handler takes from a member what no record holds.         *)
LEMMA SnapTask ==
  ASSUME TypeOK, SnapInv, NEW t \in Tasks, TaskStep(t)
  PROVE  SnapInv'
<1> DEFINE task == tasks[t]  m == tasks[t].m
<1>0. /\ task \in TaskState
      /\ m \in Members
      /\ Idle.pc = "idle"
      /\ present[m]
      /\ ~Fault
      /\ task.pc \notin UnjailPCs \cup RejoinPCs
  <2>1. task \in TaskState /\ m \in Members
    BY DEF TypeOK, TaskState
  <2>2. Idle.pc = "idle"
    BY LaunchedCarriesNothing
  <2>3. present[m] /\ ~Fault
    BY <2>1 DEF SnapInv, Fault
  <2>4. task.pc \notin UnjailPCs \cup RejoinPCs
    BY DEF SnapInv
  <2>5. QED
    BY <2>1, <2>2, <2>3, <2>4
<1>u. \A n \in Members : \A i \in DOMAIN updates[n] : JailRole \in updates[n][i]
  BY DEF SnapInv
<1>w. CASE Watch(t)
  <2>1. JailRole \in task.aim
    BY <1>w DEF Watch, SnapInv
  <2>2. tasks'[t] = Idle \/ tasks'[t] = [task EXCEPT !.pc = "judge"]
    BY <1>w DEF TypeOK, Watch, Goto, Ends
  <2>3. \/ tasks'[t].pc = "idle"
        \/ tasks'[t].pc = "judge" /\ JailRole \in tasks'[t].aim
    BY <1>0, <2>1, <2>2 DEF TaskState
  <2>4. /\ UNCHANGED <<jails, roles, present, updates, sweep, owed, faults>>
        /\ \A u \in Tasks : u # t => tasks'[u] = tasks[u]
    BY <1>w DEF TypeOK, Watch, Goto, Ends
  <2>5. QED
    BY <1>u, <2>3, <2>4, SnapMove DEF UnjailPCs, RejoinPCs
<1>1. CASE Judge(t)
  <2>1. JailRole \in task.aim
    BY <1>1 DEF Judge, SnapInv
  <2>2. tasks'[t] = Idle \/ tasks'[t] = Launched("jail", m)
    BY <1>1, <2>1 DEF TypeOK, Judge, Goto, Verdict
  <2>3. tasks'[t].pc \in {"idle", "jail"}
    BY <1>0, <2>2, LaunchedCarriesNothing
  <2>4. /\ UNCHANGED <<jails, roles, present, updates, sweep, owed, faults>>
        /\ \A u \in Tasks : u # t => tasks'[u] = tasks[u]
    BY <1>1 DEF TypeOK, Judge, Goto
  <2>5. QED
    BY <1>u, <2>3, <2>4, SnapMove DEF UnjailPCs, RejoinPCs
<1>2. CASE JailRead(t)
  <2>1. \/ /\ jails[m].held
           /\ tasks'[t].pc = "record" /\ tasks'[t].m = m
        \/ tasks'[t].pc = "fetch"
    BY <1>0, <1>2 DEF TypeOK, JailRead, Goto, TaskState
  <2>2. /\ UNCHANGED <<jails, roles, present, updates, sweep, owed, faults>>
        /\ \A u \in Tasks : u # t => tasks'[u] = tasks[u]
    BY <1>2 DEF TypeOK, JailRead, Goto
  <2>3. QED
    BY <1>u, <2>1, <2>2, SnapMove DEF UnjailPCs, RejoinPCs
<1>3. CASE JailFetch(t)
  <2>1. /\ tasks'[t] = [task EXCEPT !.pc = "record", !.prior = Snapshot(roles[m])]
        /\ UNCHANGED <<jails, roles, present, updates, sweep, owed, faults>>
        /\ \A u \in Tasks : u # t => tasks'[u] = tasks[u]
    BY <1>0, <1>3 DEF TypeOK, JailFetch, Goto, NoFault
  <2>2. /\ tasks'[t].pc = "record" /\ tasks'[t].m = m
        /\ tasks'[t].prior = Snapshot(roles[m])
    BY <1>0, <2>1 DEF TaskState
  <2>3. ~jails[m].held => owed[m] \subseteq Snapshot(roles[m])
    BY <1>0, RoleAssumption DEF TypeOK, SnapInv, Snapshot
  <2>4. QED
    BY <1>u, <2>1, <2>2, <2>3, SnapMove DEF UnjailPCs, RejoinPCs
<1>4. CASE JailRecord(t)
  <2>1. /\ jails'[m].held
        /\ jails'[m].prior = KeptPrior(jails[m], task.prior)
        /\ \A n \in Members : n # m => jails'[n] = jails[n]
        /\ UNCHANGED <<roles, present, updates, sweep, owed, faults>>
    BY <1>0, <1>4 DEF TypeOK, JailRecord, NoFault
  <2>2. owed[m] \subseteq jails'[m].prior
    BY <1>0, <1>4, <2>1 DEF JailRecord, SnapInv, KeptPrior
  <2>3. /\ tasks'[t].pc = "aim" /\ tasks'[t].m = m
        /\ \A u \in Tasks : u # t => tasks'[u] = tasks[u]
    BY <1>0, <1>4 DEF TypeOK, JailRecord, Goto, TaskState
  <2>4. \A n \in Members : jails[n].held => jails'[n].held
    BY <2>1
  <2>5. \A u \in Tasks : tasks[u].m \in Members
    BY DEF TypeOK, TaskState
  <2>6. \A n \in Members : /\ jails'[n].held => owed[n] \subseteq jails'[n].prior
                           /\ ~jails'[n].held => owed[n] \subseteq roles[n]
    BY <2>1, <2>2 DEF SnapInv
  <2>7. QED
    BY <2>1, <2>3, <2>4, <2>5, <2>6 DEF SnapInv, UnjailPCs, RejoinPCs
<1>5. CASE JailRoleSet(t)
  <2>1. /\ tasks'[t] = [task EXCEPT !.pc = "strip", !.aim = JailedRoles(m)]
        /\ UNCHANGED <<jails, roles, present, updates, sweep, owed, faults>>
        /\ \A u \in Tasks : u # t => tasks'[u] = tasks[u]
        /\ jails[m].held
    BY <1>0, <1>5 DEF TypeOK, JailRoleSet, RoleSet, Goto, NoFault, SnapInv
  <2>2. /\ tasks'[t].pc = "strip" /\ tasks'[t].m = m
        /\ tasks'[t].aim = JailedRoles(m)
    BY <1>0, <2>1 DEF TaskState
  <2>3. /\ JailRole \in JailedRoles(m)
        /\ JailedRoles(m) \cap Managed = roles[m] \cap Managed
    BY RoleAssumption DEF JailedRoles
  <2>4. QED
    BY <1>u, <2>1, <2>2, <2>3, SnapMove DEF UnjailPCs, RejoinPCs
<1>6. CASE JailStrip(t)
  <2>1. /\ JailRole \in task.aim
        /\ task.aim \cap Managed = roles[m] \cap Managed
        /\ jails[m].held
        /\ task.aim \in SUBSET AllRoles
    BY <1>0, <1>6 DEF JailStrip, SnapInv, TaskState
  <2>2. Accepts(m, task.aim)
    BY <1>0, <2>1 DEF Accepts
  <2>3. /\ SetRoles(m, task.aim)
        /\ UNCHANGED <<jails, present, sweep, owed, faults>>
        /\ \A u \in Tasks : tasks'[u] = tasks[u] \/ tasks'[u] = Idle
    BY <1>0, <1>6, <2>2 DEF TypeOK, JailStrip, NoFault, Ends, Goto
  <2>4. QED
    BY <1>0, <2>1, <2>3, SnapSetRoles
<1>7. ~(\/ UnjailRead(t) \/ UnjailRemove(t) \/ UnjailRestore(t) \/ UnjailPull(t)
        \/ RejoinCheck(t) \/ RejoinLookup(t) \/ RejoinRoleSet(t) \/ RejoinApply(t))
  BY <1>0 DEF UnjailRead, UnjailRemove, UnjailRestore, UnjailPull, RejoinCheck, RejoinLookup,
              RejoinRoleSet, RoleSet, RejoinApply, UnjailPCs, RejoinPCs
<1>8. QED
  BY <1>w, <1>1, <1>2, <1>3, <1>4, <1>5, <1>6, <1>7 DEF TaskStep

(* No stimulus of a server that only jails, no delivery and no crash does.*)
LEMMA SnapOther ==
  ASSUME TypeOK, SnapInv, JailingOnly,
         \/ \E t \in Workers, m \in Members : Deliver(t, m) \/ WorkerStimulus(t, m)
         \/ \E m \in Members : MemberStimulus(m) \/ SweepNext(m)
         \/ SweepStarts
         \/ \E b \in BOOLEAN : SetJail(b)
         \/ Crash
         \/ Tick
  PROVE  SnapInv'
<1>u. \A n \in Members : \A i \in DOMAIN updates[n] : JailRole \in updates[n][i]
  BY DEF SnapInv
<1>1. ASSUME NEW t \in Workers, NEW m \in Members, Deliver(t, m) PROVE SnapInv'
  <2>1. updates[m] \in Seq(SUBSET AllRoles) /\ updates[m] # <<>>
    BY <1>1 DEF TypeOK, Deliver
  <2>2. JailRole \in Head(updates[m])
    BY <1>u, <2>1
  <2>3. \A n \in Members : \A i \in DOMAIN updates'[n] : JailRole \in updates'[n][i]
    <3>1. \A i \in DOMAIN Tail(updates[m]) : JailRole \in Tail(updates[m])[i]
      BY <1>u, <2>1
    <3>2. QED
      BY <1>u, <1>1, <3>1 DEF TypeOK, Deliver
  <2>4. /\ tasks'[t].pc = "watch" /\ tasks'[t].aim = Head(updates[m])
        /\ t \in Tasks
        /\ \A u \in Tasks : u # t => tasks'[u] = tasks[u]
        /\ UNCHANGED <<jails, roles, present, sweep, owed, faults>>
    BY <1>1 DEF TypeOK, Deliver, Goto, Launched, Idle, Tasks
  <2>5. QED
    BY <2>2, <2>3, <2>4, SnapMove DEF UnjailPCs, RejoinPCs
<1>2. ASSUME NEW t \in Workers, NEW m \in Members, WorkerStimulus(t, m) PROVE SnapInv'
  <2>1. ~UnjailCommand(t, m) /\ ~Rejoin(t, m)
    BY DEF JailingOnly, UnjailCommand, Rejoin, Stimulus
  <2>2. /\ t \in Tasks
        /\ UNCHANGED <<jails, roles, present, updates, sweep, owed, faults>>
        /\ \A u \in Tasks : u # t => tasks'[u] = tasks[u]
    BY <1>2, <2>1 DEF TypeOK, WorkerStimulus, JailCommand, TryJail, Goto, Tasks
  <2>3. tasks'[t].pc = "jail"
    <3>1. \/ tasks'[t] = Launched("jail", m)
          \/ \E mins \in Minutes : tasks'[t] = [Launched("jail", m) EXCEPT !.mins = mins]
      BY <1>2, <2>1, <2>2 DEF TypeOK, WorkerStimulus, JailCommand, TryJail, Goto
    <3>2. QED
      BY <3>1 DEF Launched, Idle
  <2>4. QED
    BY <1>u, <2>2, <2>3, SnapMove DEF UnjailPCs, RejoinPCs
<1>3. ASSUME NEW m \in Members, MemberStimulus(m) PROVE SnapInv'
  <2>1. HandJail(m)
    BY <1>3 DEF JailingOnly, MemberStimulus, HandFree, Touch, Leave, Grant, Autorole,
                ToggleManaged, Stimulus
  <2>2. /\ roles[m] \cup {JailRole} \in SUBSET AllRoles
        /\ (roles[m] \cup {JailRole}) \cap Managed = roles[m] \cap Managed
    BY RoleAssumption DEF TypeOK, AllRoles
  <2>3. /\ SetRoles(m, roles[m] \cup {JailRole})
        /\ UNCHANGED <<jails, present, sweep, owed, faults, tasks>>
    BY <2>1 DEF HandJail
  <2>4. QED
    BY <2>2, <2>3, SnapSetRoles
<1>4. ~SweepStarts /\ \A m \in Members : ~SweepNext(m)
  BY DEF SnapInv, JailingOnly, SweepStarts, SweepTick, SweepNext
<1>5. ASSUME NEW b \in BOOLEAN, SetJail(b) PROVE SnapInv'
  BY <1>5 DEF SnapInv, SetJail
<1>6. CASE Crash
  <2>1. \A t \in Tasks : tasks'[t].pc = "idle"
    BY <1>6, LaunchedCarriesNothing DEF Crash
  <2>2. \A m \in Members : DOMAIN updates'[m] = {}
    BY <1>6 DEF Crash
  <2>3. QED
    BY <1>6, <2>1, <2>2 DEF SnapInv, Crash, UnjailPCs, RejoinPCs
<1>7. CASE Tick
  BY <1>7 DEF SnapInv, Tick
<1>8. QED
  BY <1>1, <1>2, <1>3, <1>4, <1>5, <1>6, <1>7

(* The invariant is inductive where nobody is released.                   *)
LEMMA SnapNext ==
  ASSUME JailingOnly
  PROVE  TypeOK /\ SnapInv /\ [Next]_vars => SnapInv'
<1> SUFFICES ASSUME TypeOK, SnapInv, [Next]_vars PROVE SnapInv'
  OBVIOUS
<1>1. CASE UNCHANGED vars
  BY <1>1 DEF vars, SnapInv
<1>2. QED
  BY <1>1, SnapTask, SnapOther DEF Next

(* However jailings of the same member overlap, and wherever the process   *)
(* is restarted, the member's roles are on the member or in the record.    *)
THEOREM JailingKeepsSnapshots ==
  ASSUME JailingOnly
  PROVE  Spec => []NoSnapshotLoss
<1>1. Init => SnapInv
  BY SnapInit
<1>2. TypeOK /\ SnapInv /\ [Next]_vars => SnapInv'
  BY SnapNext
<1>3. SnapInv => NoSnapshotLoss
  BY DEF SnapInv, NoSnapshotLoss, Recoverable
<1>4. QED
  BY <1>1, <1>2, <1>3, TypeCorrect, PTL DEF Spec

(* And nobody is freed: jailings, however they overlap and wherever the    *)
(* process is restarted, remove no record at all.                          *)
THEOREM JailingFreesNobody ==
  ASSUME JailingOnly
  PROVE  Spec => EscapeProof
<1> DEFINE Keeps == \A m \in Members : ~Released(m)
<1>1. Init => SnapInv
  BY SnapInit
<1>2. TypeOK /\ SnapInv /\ [Next]_vars => SnapInv'
  BY SnapNext
<1>3. TypeOK /\ SnapInv /\ [Next]_vars => [Keeps]_vars
  <2> SUFFICES ASSUME TypeOK, SnapInv, Next, NEW m \in Members
               PROVE  ~Released(m)
    BY DEF vars
  <2> SUFFICES ASSUME Released(m) PROVE FALSE
    OBVIOUS
  <2>1. PICK t \in Tasks : TaskStep(t) /\ jails' # jails
    BY OthersKeepRecords DEF Released, Next
  <2>2. /\ tasks[t] \in TaskState /\ tasks[t].m \in Members
        /\ tasks[t].pc \notin UnjailPCs /\ ~Fault /\ present[tasks[t].m]
    BY DEF TypeOK, TaskState, SnapInv, Fault
  <2>3. JailRecord(t) \/ JailStrip(t)
    BY <2>1, <2>2, RecordsChange DEF UnjailRemove, UnjailPCs
  <2>4. CASE JailRecord(t)
    BY <2>4, RecordingKeeps
  <2>5. CASE JailStrip(t)
    <3>1. tasks[t].aim \cap Managed = roles[tasks[t].m] \cap Managed
      BY <2>5 DEF JailStrip, SnapInv
    <3>2. QED
      BY <2>1, <2>2, <2>5, <3>1 DEF JailStrip, Accepts
  <2>6. QED
    BY <2>3, <2>4, <2>5
<1>4. QED
  BY <1>1, <1>2, <1>3, TypeCorrect, PTL DEF Spec, EscapeProof

-----------------------------------------------------------------------------
(***************************************************************************)
(* The same with members who leave and come back, and with calls of        *)
(* Discord and the store that fail, any number of them at any time: now a  *)
(* strip may fail, and jail_member takes its own record back.              *)
(***************************************************************************)

JailingWithFailures ==
  Ops \subseteq {"jail", "filter", "handjail", "config", "crash", "leave"}

(* The strip of a first jailing is refused or fails in this step.          *)
StripFails(m) ==
  \E t \in Tasks : /\ tasks[t].pc = "strip" /\ tasks[t].m = m /\ tasks[t].fresh
                   /\ UNCHANGED <<roles, updates>>
                   /\ ~Accepts(m, tasks[t].aim) \/ faults' < faults

(* Whatever the bot or a moderator sends carries the jail role, so that no *)
(* update can be taken for a release, and no task is about to release.     *)
NobodyReleases ==
  /\ sweep = {}
  /\ \A m \in Members : \A i \in DOMAIN updates[m] : JailRole \in updates[m][i]
  /\ \A t \in Tasks :
       /\ tasks[t].pc \notin UnjailPCs
       /\ tasks[t].pc \in {"watch", "judge", "strip", "reapply"} => JailRole \in tasks[t].aim

(* A role set with the jail role is announced as one.                      *)
LEMMA AnnouncedWithJailRole ==
  ASSUME TypeOK, NobodyReleases, NEW m \in Members, NEW new, SetRoles(m, new),
         JailRole \in new
  PROVE  \A n \in Members : \A i \in DOMAIN updates'[n] : JailRole \in updates'[n][i]
<1>1. updates[m] \in Seq(SUBSET AllRoles)
  BY DEF TypeOK
<1>2. CASE updates' = updates
  BY <1>2 DEF NobodyReleases
<1>3. CASE updates' = [updates EXCEPT ![m] = Append(@, new)]
  <2>1. \A i \in DOMAIN updates'[m] : JailRole \in updates'[m][i]
    BY <1>1, <1>3 DEF TypeOK, NobodyReleases
  <2>2. \A n \in Members : n # m => updates'[n] = updates[n]
    BY <1>3 DEF TypeOK
  <2>3. QED
    BY <2>1, <2>2 DEF NobodyReleases
<1>4. QED
  BY <1>2, <1>3 DEF SetRoles

(* No step of a handler starts a release.                                  *)
LEMMA NobodyReleasesTask ==
  ASSUME TypeOK, NobodyReleases, NEW t \in Tasks, TaskStep(t)
  PROVE  NobodyReleases'
<1> DEFINE task == tasks[t]
<1>0. /\ task \in TaskState /\ task.m \in Members
      /\ Idle.pc = "idle" /\ \A pc : Launched(pc, task.m).pc = pc
      /\ task.pc \notin UnjailPCs
  BY LaunchedCarriesNothing DEF TypeOK, TaskState, NobodyReleases
<1>1. \A n \in Members : \A i \in DOMAIN updates'[n] : JailRole \in updates'[n][i]
  <2>1. CASE updates' = updates
    BY <2>1 DEF NobodyReleases
  <2>2. CASE updates' # updates
    <3>1. JailStrip(t) \/ RejoinApply(t)
      BY <1>0, <2>2 DEF TaskStep, Watch, Judge, JailRead, JailFetch, JailRecord, JailRoleSet,
         RoleSet, UnjailRead, UnjailRemove, UnjailRestore, UnjailPull, RejoinCheck,
         RejoinLookup, RejoinRoleSet, UnjailPCs
    <3>2. SetRoles(task.m, task.aim)
      BY <2>2, <3>1 DEF JailStrip, RejoinApply, KeepRoles
    <3>3. JailRole \in task.aim
      BY <3>1 DEF JailStrip, RejoinApply, NobodyReleases
    <3>4. QED
      BY <1>0, <3>2, <3>3, AnnouncedWithJailRole
  <2>3. QED
    BY <2>1, <2>2
<1>2. /\ sweep' = {}
      /\ \A u \in Tasks \ {t} : tasks'[u] = tasks[u]
  BY DEF NobodyReleases, TypeOK, TaskStep, Watch, Judge, JailRead, JailFetch, JailRecord,
     JailRoleSet, RoleSet, JailStrip, UnjailRead, UnjailRemove, UnjailRestore, UnjailPull,
     RejoinCheck, RejoinLookup, RejoinRoleSet, RejoinApply, Goto, Ends
<1>3. /\ tasks'[t].pc \notin UnjailPCs
      /\ tasks'[t].pc \in {"watch", "judge", "strip", "reapply"}
           => JailRole \in tasks'[t].aim
  <2>1. CASE tasks'[t] = Idle
    BY <1>0, <2>1 DEF UnjailPCs
  <2>2. CASE Watch(t) /\ tasks'[t] # Idle
    <3>1. tasks'[t] = [task EXCEPT !.pc = "judge"] /\ JailRole \in task.aim
      BY <2>2 DEF TypeOK, Watch, Goto, Ends, NobodyReleases
    <3>2. QED
      BY <1>0, <3>1 DEF TaskState, UnjailPCs
  <2>3. CASE Judge(t) /\ tasks'[t] # Idle
    <3>1. JailRole \in task.aim
      BY <2>3 DEF Judge, NobodyReleases
    <3>2. tasks'[t] = Launched("jail", task.m)
      BY <2>3, <3>1 DEF TypeOK, Judge, Goto, Verdict
    <3>3. QED
      BY <1>0, <3>2 DEF UnjailPCs
  <2>4. CASE (JailRead(t) \/ JailFetch(t) \/ JailRecord(t)) /\ tasks'[t] # Idle
    <3>1. tasks'[t].pc \in {"fetch", "record", "aim"}
      <4>1. CASE JailRead(t)
        BY <1>0, <4>1 DEF TypeOK, TaskState, JailRead, Goto
      <4>2. CASE JailFetch(t)
        BY <1>0, <2>4, <4>2 DEF TypeOK, TaskState, JailFetch, Goto, Ends
      <4>3. CASE JailRecord(t)
        BY <1>0, <2>4, <4>3 DEF TypeOK, TaskState, JailRecord, Goto, Ends
      <4>4. QED
        BY <2>4, <4>1, <4>2, <4>3
    <3>2. QED
      BY <3>1 DEF UnjailPCs
  <2>5. CASE JailRoleSet(t) \/ RejoinRoleSet(t)
    <3>1. \E pc \in {"strip", "reapply"} : \E aim : /\ JailRole \in aim
            /\ tasks'[t] = [task EXCEPT !.pc = pc, !.aim = aim]
      BY <2>5 DEF TypeOK, JailRoleSet, RejoinRoleSet, RoleSet, Goto, JailedRoles
    <3>2. QED
      BY <1>0, <3>1 DEF TaskState, UnjailPCs
  <2>6. CASE (RejoinCheck(t) \/ RejoinLookup(t)) /\ tasks'[t] # Idle
    <3>1. \E pc \in {"lookup", "reaim"} : tasks'[t] = [task EXCEPT !.pc = pc]
      BY <2>6 DEF TypeOK, RejoinCheck, RejoinLookup, Goto, Ends
    <3>2. QED
      BY <1>0, <3>1 DEF TaskState, UnjailPCs
  <2>7. CASE JailStrip(t) \/ RejoinApply(t)
    BY <2>1, <2>7 DEF TypeOK, JailStrip, RejoinApply, Goto, Ends
  <2>8. QED
    BY <1>0, <2>1, <2>2, <2>3, <2>4, <2>5, <2>6, <2>7
       DEF TaskStep, UnjailRead, UnjailRemove, UnjailRestore, UnjailPull, UnjailPCs
<1>4. QED
  BY <1>1, <1>2, <1>3 DEF NobodyReleases

(* Nor does anything else.                                                 *)
LEMMA NobodyReleasesOther ==
  ASSUME TypeOK, NobodyReleases, JailingWithFailures,
         \/ \E t \in Workers, m \in Members : Deliver(t, m) \/ WorkerStimulus(t, m)
         \/ \E m \in Members : MemberStimulus(m) \/ SweepNext(m)
         \/ SweepStarts
         \/ \E b \in BOOLEAN : SetJail(b)
         \/ Crash
         \/ Tick
  PROVE  NobodyReleases'
<1>u. \A n \in Members : \A i \in DOMAIN updates[n] : JailRole \in updates[n][i]
  BY DEF NobodyReleases
<1>1. ASSUME NEW t \in Workers, NEW m \in Members, Deliver(t, m) PROVE NobodyReleases'
  <2>1. updates[m] \in Seq(SUBSET AllRoles) /\ updates[m] # <<>>
    BY <1>1 DEF TypeOK, Deliver
  <2>2. /\ JailRole \in Head(updates[m])
        /\ \A i \in DOMAIN Tail(updates[m]) : JailRole \in Tail(updates[m])[i]
    BY <1>u, <2>1
  <2>3. \A n \in Members : \A i \in DOMAIN updates'[n] : JailRole \in updates'[n][i]
    BY <1>u, <1>1, <2>2 DEF TypeOK, Deliver
  <2>4. /\ tasks'[t].pc = "watch" /\ tasks'[t].aim = Head(updates[m])
        /\ t \in Tasks /\ \A u \in Tasks : u # t => tasks'[u] = tasks[u]
        /\ sweep' = sweep
    BY <1>1 DEF TypeOK, Deliver, Goto, Launched, Idle, Tasks
  <2>5. QED
    BY <2>2, <2>3, <2>4 DEF NobodyReleases, UnjailPCs
<1>2. ASSUME NEW t \in Workers, NEW m \in Members, WorkerStimulus(t, m)
      PROVE  NobodyReleases'
  <2>1. ~UnjailCommand(t, m)
    BY DEF JailingWithFailures, UnjailCommand, Stimulus
  <2>2. \/ \E pc \in {"jail", "rejoin"} : Goto(t, Launched(pc, m))
        \/ \E mins \in Minutes : Goto(t, [Launched("jail", m) EXCEPT !.mins = mins])
    BY <1>2, <2>1 DEF WorkerStimulus, JailCommand, TryJail, Rejoin
  <2>3. /\ t \in Tasks /\ tasks'[t].pc \in {"jail", "rejoin"}
        /\ \A u \in Tasks : u # t => tasks'[u] = tasks[u]
    BY <2>2 DEF TypeOK, Goto, Tasks, Launched, Idle
  <2>4. UNCHANGED <<updates, sweep>>
    BY <1>2 DEF WorkerStimulus, JailCommand, TryJail, UnjailCommand, Rejoin
  <2>5. QED
    BY <2>3, <2>4 DEF NobodyReleases, UnjailPCs
<1>3. ASSUME NEW m \in Members, MemberStimulus(m) PROVE NobodyReleases'
  <2>1. HandJail(m) \/ Leave(m)
    BY <1>3 DEF JailingWithFailures, MemberStimulus, HandFree, Touch, Grant, Autorole,
                ToggleManaged, Stimulus
  <2>2. CASE HandJail(m)
    BY <2>2, AnnouncedWithJailRole DEF HandJail, NobodyReleases
  <2>3. CASE Leave(m)
    BY <2>3 DEF Leave, NobodyReleases
  <2>4. QED
    BY <2>1, <2>2, <2>3
<1>4. ~SweepStarts /\ \A m \in Members : ~SweepNext(m)
  BY DEF NobodyReleases, JailingWithFailures, SweepStarts, SweepTick, SweepNext
<1>5. CASE (\E b \in BOOLEAN : SetJail(b)) \/ Tick
  BY <1>5 DEF NobodyReleases, SetJail, Tick
<1>6. CASE Crash
  <2>1. \A t \in Tasks : tasks'[t].pc = "idle"
    BY <1>6, LaunchedCarriesNothing DEF Crash
  <2>2. \A m \in Members : DOMAIN updates'[m] = {}
    BY <1>6 DEF Crash
  <2>3. QED
    BY <1>6, <2>1, <2>2 DEF NobodyReleases, Crash, UnjailPCs
<1>7. QED
  BY <1>1, <1>2, <1>3, <1>4, <1>5, <1>6

(* Where nobody orders a release and no sentence ends, a record goes only  *)
(* in the very step in which the strip of a first jailing is refused or    *)
(* fails: not by leaving and rejoining, by a refresh that fails, by an     *)
(* update of the bot's own, by /setjail or by a restart.                   *)
THEOREM OnlyFailedStripsFree ==
  ASSUME JailingWithFailures
  PROVE  Spec => [][\A m \in Members : Released(m) => StripFails(m)]_vars
<1> DEFINE Keeps == \A m \in Members : Released(m) => StripFails(m)
<1>1. Init => NobodyReleases
  <2> SUFFICES ASSUME Init PROVE NobodyReleases
    OBVIOUS
  <2>1. \A t \in Tasks : tasks[t].pc = "idle"
    BY LaunchedCarriesNothing DEF Init
  <2>2. sweep = {} /\ \A m \in Members : DOMAIN updates[m] = {}
    BY DEF Init
  <2>3. QED
    BY <2>1, <2>2 DEF NobodyReleases, UnjailPCs
<1>2. TypeOK /\ NobodyReleases /\ [Next]_vars => NobodyReleases'
  <2> SUFFICES ASSUME TypeOK, NobodyReleases, [Next]_vars PROVE NobodyReleases'
    OBVIOUS
  <2>1. CASE UNCHANGED vars
    BY <2>1 DEF vars, NobodyReleases
  <2>2. QED
    BY <2>1, NobodyReleasesTask, NobodyReleasesOther DEF Next
<1>3. TypeOK /\ NobodyReleases /\ [Next]_vars => [Keeps]_vars
  <2> SUFFICES ASSUME TypeOK, NobodyReleases, Next, NEW m \in Members, Released(m)
               PROVE  StripFails(m)
    BY DEF vars
  <2>1. PICK t \in Tasks : TaskStep(t) /\ jails' # jails
    BY OthersKeepRecords DEF Released, Next
  <2>2. tasks[t] \in TaskState /\ tasks[t].m \in Members
    BY DEF TypeOK, TaskState
  <2>3. ~JailRecord(t) /\ ~UnjailRemove(t)
    BY RecordingKeeps DEF NobodyReleases, UnjailRemove, UnjailPCs
  <2>4. JailStrip(t)
    BY <2>1, <2>3, RecordsChange
  <2>5. /\ tasks[t].fresh /\ jails' = [jails EXCEPT ![tasks[t].m] = NoRecord]
        /\ KeepRoles /\ (Fault \/ ~Accepts(tasks[t].m, tasks[t].aim))
    BY <2>1, <2>4 DEF JailStrip
  <2>6. tasks[t].m = m
    BY <2>2, <2>5 DEF TypeOK, Released
  <2>7. Fault => faults' < faults
    BY DEF TypeOK, Fault
  <2>8. QED
    BY <2>4, <2>5, <2>6, <2>7 DEF StripFails, JailStrip, KeepRoles
<1>4. QED
  BY <1>1, <1>2, <1>3, TypeCorrect, PTL DEF Spec

-----------------------------------------------------------------------------
(***************************************************************************)
(* The sweep, where a stimulus for a member waits until nothing is in      *)
(* flight for the member: whatever the stimuli and failures are, nothing   *)
(* comes between the batch and the release.                                *)
(***************************************************************************)

(* A member in the sweep's hands is in nobody else's, and is due until     *)
(* the record is removed.                                                  *)
SweptOf(m) ==
  m \in sweep \/ Busy(Sweeper, m) =>
    /\ updates[m] = <<>>
    /\ \A t \in Workers : ~Busy(t, m)
    /\ m \in sweep => ~Busy(Sweeper, m)
    /\ m \in sweep \/ tasks[Sweeper].pc \in {"unjail", "remove"}
         => jails[m].held /\ PastDue(m)

SweepInv ==
  /\ tasks[Sweeper].pc \in {"idle"} \cup UnjailPCs
  /\ \A m \in Members : SweptOf(m)

(* The step leaves what the sweep knows of m alone.                        *)
LEMMA SweptSpared ==
  ASSUME TypeOK, NEW m \in Members, SweptOf(m),
         jails'[m] = jails[m], updates'[m] = updates[m],
         m \in sweep' <=> m \in sweep, now' \in Nat, now <= now',
         \A t \in Tasks : tasks'[t] = tasks[t] \/ ~(Busy(t, m) \/ Busy(t, m)')
  PROVE  SweptOf(m)'
<1>1. \A t \in Tasks : /\ Busy(t, m)' <=> Busy(t, m)
                       /\ Busy(t, m) => tasks'[t] = tasks[t]
  BY DEF Busy
<1>2. PastDue(m) => PastDue(m)'
  <2>1. jails[m].expires \in Nat \cup {Never} /\ now \in Nat
    BY DEF TypeOK, Record
  <2>2. QED
    BY <2>1 DEF PastDue, Never
<1>3. Sweeper \in Tasks /\ Workers \subseteq Tasks
  BY DEF Tasks
<1>4. CASE m \in sweep' \/ Busy(Sweeper, m)'
  <2>1. /\ updates'[m] = <<>> /\ \A t \in Workers : ~Busy(t, m)'
        /\ m \in sweep' => ~Busy(Sweeper, m)'
    BY <1>1, <1>3, <1>4 DEF SweptOf
  <2>2. m \in sweep' \/ tasks'[Sweeper].pc \in {"unjail", "remove"}
          => jails'[m].held /\ PastDue(m)'
    BY <1>1, <1>2, <1>3, <1>4 DEF SweptOf
  <2>3. QED
    BY <2>1, <2>2 DEF SweptOf
<1>5. CASE ~(m \in sweep' \/ Busy(Sweeper, m)')
  BY <1>5 DEF SweptOf
<1>6. QED
  BY <1>4, <1>5

(* A step of a handler minds the member it is busy with, and no other.     *)
LEMMA TaskMinds ==
  ASSUME TypeOK, NEW t \in Tasks, TaskStep(t)
  PROVE  /\ tasks[t].m \in Members /\ Busy(t, tasks[t].m)
         /\ \A u \in Tasks \ {t} : tasks'[u] = tasks[u]
         /\ tasks'[t].pc = "idle" \/ tasks'[t].m = tasks[t].m
         /\ \A n \in Members \ {tasks[t].m} :
              jails'[n] = jails[n] /\ updates'[n] = updates[n]
         /\ UNCHANGED <<sweep, now>>
<1> DEFINE task == tasks[t]
<1>1. /\ task \in TaskState /\ task.m \in Members
      /\ Idle.pc = "idle" /\ \A pc : Launched(pc, task.m).m = task.m
  BY LaunchedCarriesNothing DEF TypeOK, TaskState
<1>2. CASE Judge(t)
  BY <1>1, <1>2 DEF TypeOK, Judge, Goto, Busy
<1>c. CASE Watch(t) \/ RejoinCheck(t) \/ RejoinLookup(t)
  <2>1. \/ \E pc \in {"judge", "lookup", "reaim"} : Goto(t, [task EXCEPT !.pc = pc])
        \/ Ends(t)
    BY <1>c DEF Watch, RejoinCheck, RejoinLookup
  <2>2. UNCHANGED <<jails, updates, sweep, now>> /\ Busy(t, task.m)
    BY <1>c DEF Watch, RejoinCheck, RejoinLookup, Busy
  <2>3. QED
    BY <1>1, <2>1, <2>2 DEF TypeOK, TaskState, Goto, Ends
<1>3. CASE JailRead(t) \/ UnjailRead(t)
  <2>1. \E new : new.m = task.m /\ tasks' = [tasks EXCEPT ![t] = new]
    <3>1. CASE UnjailRead(t)
      BY <1>1, <3>1 DEF TaskState, UnjailRead, Goto
    <3>2. CASE JailRead(t) /\ jails[task.m].held
      BY <1>1, <3>2 DEF TaskState, JailRead, Goto
    <3>3. CASE JailRead(t) /\ ~jails[task.m].held
      BY <1>1, <3>3 DEF TaskState, JailRead, Goto
    <3>4. QED
      BY <1>3, <3>1, <3>2, <3>3
  <2>2. UNCHANGED <<jails, updates, sweep, now>> /\ Busy(t, task.m)
    BY <1>3 DEF JailRead, UnjailRead, Busy
  <2>3. QED
    BY <1>1, <2>1, <2>2 DEF TypeOK
<1>4. CASE JailFetch(t)
  BY <1>1, <1>4 DEF TypeOK, TaskState, JailFetch, Goto, Ends, Busy
<1>5. CASE JailRoleSet(t) \/ RejoinRoleSet(t)
  <2>1. \E pc, aim : tasks' = [tasks EXCEPT ![t] = [task EXCEPT !.pc = pc, !.aim = aim]]
    BY <1>5 DEF JailRoleSet, RejoinRoleSet, RoleSet, Goto
  <2>2. UNCHANGED <<jails, updates, sweep, now>> /\ Busy(t, task.m)
    BY <1>5 DEF JailRoleSet, RejoinRoleSet, RoleSet, Busy
  <2>3. QED
    BY <1>1, <2>1, <2>2 DEF TypeOK, TaskState
<1>6. CASE JailRecord(t) \/ UnjailRemove(t)
  BY <1>1, <1>6 DEF TypeOK, TaskState, JailRecord, UnjailRemove, Goto, Ends, Busy
<1>7. CASE JailStrip(t) \/ UnjailRestore(t) \/ UnjailPull(t) \/ RejoinApply(t)
  <2>1. tasks'[t] = Idle /\ \A u \in Tasks \ {t} : tasks'[u] = tasks[u]
    BY <1>7 DEF TypeOK, JailStrip, UnjailRestore, UnjailPull, RejoinApply, Ends, Goto
  <2>2. \A n \in Members \ {task.m} : jails'[n] = jails[n]
    BY <1>7 DEF TypeOK, JailStrip, UnjailRestore, UnjailPull, RejoinApply
  <2>3. KeepRoles \/ \E new : SetRoles(task.m, new)
    BY <1>7 DEF JailStrip, UnjailRestore, UnjailPull, RejoinApply
  <2>4. \A n \in Members \ {task.m} : updates'[n] = updates[n]
    BY <1>1, <2>3 DEF TypeOK, KeepRoles, SetRoles
  <2>5. Busy(t, task.m) /\ UNCHANGED <<sweep, now>>
    BY <1>7 DEF JailStrip, UnjailRestore, UnjailPull, RejoinApply, Busy
  <2>6. QED
    BY <1>1, <2>1, <2>2, <2>4, <2>5
<1>8. QED
  BY <1>2, <1>c, <1>3, <1>4, <1>5, <1>6, <1>7 DEF TaskStep

(* A handler of a worker has no member of the sweep's; the sweep's own     *)
(* handler ends with the record it removes.                                *)
LEMMA SweepTask ==
  ASSUME TypeOK, SweepInv, NEW t \in Tasks, TaskStep(t)
  PROVE  SweepInv'
<1>1. PICK m \in Members :
        /\ m = tasks[t].m /\ Busy(t, m)
        /\ \A u \in Tasks \ {t} : tasks'[u] = tasks[u]
        /\ tasks'[t].pc = "idle" \/ tasks'[t].m = m
        /\ \A n \in Members \ {m} : jails'[n] = jails[n] /\ updates'[n] = updates[n]
        /\ UNCHANGED <<sweep, now>>
  BY TaskMinds
<1>2. ASSUME NEW n \in Members \ {m} PROVE SweptOf(n)'
  <2>1. SweptOf(n) /\ now' \in Nat /\ now <= now'
    BY <1>1 DEF SweepInv, TypeOK
  <2>2. \A u \in Tasks : tasks'[u] = tasks[u] \/ ~(Busy(u, n) \/ Busy(u, n)')
    BY <1>1 DEF Busy
  <2>3. QED
    BY <1>1, <2>1, <2>2, SweptSpared
<1>3. Sweeper \in Tasks /\ (t # Sweeper => t \in Workers) /\ SweptOf(m)
  BY DEF Tasks, SweepInv
<1>4. CASE t # Sweeper
  <2>1. m \notin sweep /\ ~Busy(Sweeper, m)
    BY <1>1, <1>3, <1>4 DEF SweptOf
  <2>2. tasks'[Sweeper] = tasks[Sweeper]
    BY <1>1, <1>3, <1>4
  <2>3. SweptOf(m)'
    BY <1>1, <2>1, <2>2 DEF SweptOf, Busy
  <2>4. QED
    BY <1>2, <2>2, <2>3 DEF SweepInv
<1>5. CASE t = Sweeper
  <2>1. /\ m \notin sweep /\ updates[m] = <<>>
        /\ \A u \in Workers : ~Busy(u, m) /\ ~Busy(u, m)'
    BY <1>1, <1>3, <1>5, TaskAssumption DEF SweptOf, Busy, Tasks
  <2>2. UnjailRead(t) \/ UnjailRemove(t) \/ UnjailRestore(t) \/ UnjailPull(t)
    BY <1>5 DEF SweepInv, TaskStep, Watch, Judge, JailRead, JailFetch, JailRecord, JailRoleSet,
                RoleSet, JailStrip, RejoinCheck, RejoinLookup, RejoinRoleSet, RejoinApply, UnjailPCs
  <2>3. tasks[t] \in TaskState /\ Idle.pc = "idle"
    BY LaunchedCarriesNothing DEF TypeOK
  <2>4. CASE UnjailRead(t)
    <3>1. tasks'[t].pc = "remove" /\ UNCHANGED <<jails, updates, now>>
      BY <2>3, <2>4 DEF TypeOK, TaskState, UnjailRead, Goto
    <3>2. jails[m].held /\ PastDue(m)
      BY <1>1, <1>3, <1>5, <2>4 DEF SweptOf, UnjailRead
    <3>3. SweptOf(m)'
      BY <1>1, <2>1, <3>1, <3>2 DEF SweptOf, PastDue
    <3>4. QED
      BY <1>2, <1>5, <3>1, <3>3 DEF SweepInv, UnjailPCs
  <2>5. CASE UnjailRemove(t)
    <3>1. /\ tasks'[t].pc \in {"idle", "restore", "pull"}
          /\ UNCHANGED updates
      BY <2>3, <2>5 DEF TypeOK, TaskState, UnjailRemove, Goto, Ends, AfterRemove
    <3>2. SweptOf(m)'
      BY <1>1, <1>5, <2>1, <3>1 DEF SweptOf
    <3>3. QED
      BY <1>2, <1>5, <3>1, <3>2 DEF SweepInv, UnjailPCs
  <2>6. CASE UnjailRestore(t) \/ UnjailPull(t)
    <3>1. tasks'[t].pc = "idle"
      BY <2>3, <2>6 DEF TypeOK, UnjailRestore, UnjailPull, Goto, Ends
    <3>2. SweptOf(m)'
      BY <1>1, <1>5, <2>1, <3>1 DEF SweptOf, Busy
    <3>3. QED
      BY <1>2, <1>5, <3>1, <3>2 DEF SweepInv
  <2>7. QED
    BY <2>2, <2>4, <2>5, <2>6
<1>6. QED
  BY <1>4, <1>5

(* A worker takes up, and a stimulus changes, only members who are not in  *)
(* the sweep's hands.                                                      *)
LEMMA SweepOutside ==
  ASSUME TypeOK, SweepInv, NEW m \in Members,
         m \notin sweep, ~Busy(Sweeper, m),
         UNCHANGED <<jails, sweep, now>>, tasks'[Sweeper] = tasks[Sweeper],
         \A n \in Members \ {m} :
           /\ updates'[n] = updates[n]
           /\ \A t \in Workers : tasks'[t] = tasks[t] \/ ~(Busy(t, n) \/ Busy(t, n)')
  PROVE  SweepInv'
<1>1. SweptOf(m)'
  BY DEF SweptOf, Busy
<1>2. ASSUME NEW n \in Members \ {m} PROVE SweptOf(n)'
  <2>1. SweptOf(n) /\ now' \in Nat /\ now <= now'
    BY DEF SweepInv, TypeOK
  <2>2. \A t \in Tasks : tasks'[t] = tasks[t] \/ ~(Busy(t, n) \/ Busy(t, n)')
    BY DEF Tasks
  <2>3. QED
    BY <2>1, <2>2, SweptSpared
<1>3. QED
  BY <1>1, <1>2 DEF SweepInv

(* Deliveries and stimuli.                                                 *)
LEMMA SweepStimulus ==
  ASSUME TypeOK, SweepInv, Paced, NEW m \in Members,
         \/ \E t \in Workers : Deliver(t, m) \/ WorkerStimulus(t, m)
         \/ MemberStimulus(m)
  PROVE  SweepInv'
<1>0. Sweeper \in Tasks /\ Workers \subseteq Tasks /\ SweptOf(m) /\ Sweeper \notin Workers
  BY TaskAssumption DEF Tasks, SweepInv
<1>1. ASSUME NEW t \in Workers, Deliver(t, m) \/ WorkerStimulus(t, m)
      PROVE  SweepInv'
  <2>1. m \notin sweep /\ ~Busy(Sweeper, m)
    BY <1>0, <1>1 DEF Deliver, WorkerStimulus, JailCommand, TryJail, UnjailCommand,
       Rejoin, Stimulus, Quiet, SweptOf
  <2>2. /\ UNCHANGED <<jails, sweep, now>> /\ tasks[t].pc = "idle"
        /\ \A n \in Members \ {m} : updates'[n] = updates[n]
        /\ \E task : Goto(t, task) /\ task.m = m
    <3>1. CASE Deliver(t, m)
      <4>1. [Launched("watch", m) EXCEPT !.aim = Head(updates[m])].m = m
        BY DEF Launched, Idle
      <4>2. QED
        BY <3>1, <4>1 DEF TypeOK, Deliver, Free
    <3>2. CASE \E mins \in Minutes : JailCommand(t, m, mins)
      <4>1. \A mins : [Launched("jail", m) EXCEPT !.mins = mins].m = m
        BY DEF Launched, Idle
      <4>2. QED
        BY <3>2, <4>1 DEF JailCommand, Free
    <3>3. CASE TryJail(t, m) \/ UnjailCommand(t, m) \/ Rejoin(t, m)
      BY <3>3, LaunchedCarriesNothing DEF TryJail, UnjailCommand, Rejoin, Free
    <3>4. QED
      BY <1>1, <3>1, <3>2, <3>3 DEF WorkerStimulus
  <2>3. tasks'[t].m = m /\ \A u \in Tasks \ {t} : tasks'[u] = tasks[u]
    BY <1>0, <2>2 DEF TypeOK, Goto
  <2>4. \A n \in Members \ {m}, u \in Workers :
          tasks'[u] = tasks[u] \/ ~(Busy(u, n) \/ Busy(u, n)')
    BY <1>0, <2>2, <2>3 DEF Busy
  <2>5. QED
    BY <1>0, <2>1, <2>2, <2>3, <2>4, SweepOutside
<1>2. CASE MemberStimulus(m)
  <2>1. m \notin sweep /\ ~Busy(Sweeper, m)
    <3>1. CASE Quiet(m)
      BY <1>0, <3>1 DEF Quiet
    <3>2. CASE \E r \in Roles : Autorole(m, r)
      <4>1. PICK t \in Workers : Busy(t, m)
        BY <3>2 DEF Autorole, Busy, RejoinPCs
      <4>2. QED
        BY <1>0, <4>1 DEF SweptOf
    <3>3. QED
      BY <1>2, <3>1, <3>2 DEF MemberStimulus, HandJail, HandFree, Touch, Leave, Grant,
         ToggleManaged, Stimulus
  <2>2. UNCHANGED <<jails, sweep, now, tasks>>
    BY <1>2 DEF MemberStimulus, HandJail, HandFree, Touch, Leave, Grant, Autorole,
       ToggleManaged
  <2>3. \A n \in Members \ {m} : updates'[n] = updates[n]
    <3>1. CASE \E new : SetRoles(m, new)
      BY <3>1 DEF TypeOK, SetRoles
    <3>2. CASE Touch(m) \/ Leave(m)
      BY <3>2 DEF TypeOK, Touch, Leave
    <3>3. QED
      BY <1>2, <3>1, <3>2 DEF MemberStimulus, HandJail, HandFree, Grant, Autorole,
         ToggleManaged
  <2>4. QED
    BY <2>1, <2>2, <2>3, SweepOutside
<1>3. QED
  BY <1>1, <1>2

(* The sweep's own ticks, and what concerns no member in particular.       *)
LEMMA SweepOther ==
  ASSUME TypeOK, SweepInv, Paced,
         \/ SweepStarts \/ \E m \in Members : SweepNext(m)
         \/ \E b \in BOOLEAN : SetJail(b)
         \/ Crash \/ Tick \/ UNCHANGED vars
  PROVE  SweepInv'
<1>0. Sweeper \in Tasks /\ Workers \subseteq Tasks /\ Sweeper \notin Workers
  BY TaskAssumption DEF Tasks
<1>1. CASE SweepStarts
  <2>1. /\ sweep = {} /\ sweep' = Due /\ \A m \in Due : Quiet(m)
        /\ tasks[Sweeper].pc = "idle"
        /\ UNCHANGED <<jails, updates, tasks, now>>
    BY <1>1 DEF SweepStarts, SweepTick
  <2>2. ASSUME NEW m \in Members PROVE SweptOf(m)'
    <3>1. CASE m \in Due
      BY <1>0, <2>1, <3>1 DEF SweptOf, Due, DueAt, Quiet, Busy, PastDue
    <3>2. CASE m \notin Due
      BY <2>1, <3>2 DEF SweptOf, Busy
    <3>3. QED
      BY <3>1, <3>2
  <2>3. QED
    BY <2>1, <2>2 DEF SweepInv
<1>2. ASSUME NEW m \in Members, SweepNext(m) PROVE SweepInv'
  <2>1. /\ m \in sweep /\ sweep' = sweep \ {m} /\ tasks[Sweeper].pc = "idle"
        /\ tasks'[Sweeper].pc = "unjail" /\ tasks'[Sweeper].m = m
        /\ \A t \in Tasks \ {Sweeper} : tasks'[t] = tasks[t]
        /\ UNCHANGED <<jails, updates, now>>
    BY <1>0, <1>2, LaunchedCarriesNothing DEF TypeOK, SweepNext, Goto
  <2>2. SweptOf(m)'
    BY <1>0, <2>1 DEF SweepInv, SweptOf, Busy, PastDue
  <2>3. ASSUME NEW n \in Members \ {m} PROVE SweptOf(n)'
    <3>1. SweptOf(n) /\ now' \in Nat /\ now <= now'
      BY <2>1 DEF SweepInv, TypeOK
    <3>2. \A t \in Tasks : tasks'[t] = tasks[t] \/ ~(Busy(t, n) \/ Busy(t, n)')
      BY <2>1 DEF Busy
    <3>3. QED
      BY <2>1, <3>1, <3>2, SweptSpared
  <2>4. QED
    BY <2>1, <2>2, <2>3 DEF SweepInv, UnjailPCs
<1>3. CASE Crash
  BY <1>0, <1>3, LaunchedCarriesNothing DEF Crash, SweepInv, SweptOf, Busy
<1>4. ASSUME UNCHANGED <<jails, updates, tasks, sweep>>, now' = now \/ now' = now + 1
      PROVE  SweepInv'
  <2>1. now' \in Nat /\ now <= now'
    BY <1>4 DEF TypeOK
  <2>2. \A m \in Members : SweptOf(m)'
    BY <1>4, <2>1, SweptSpared DEF SweepInv
  <2>3. QED
    BY <1>4, <2>2 DEF SweepInv
<1>5. CASE (\E b \in BOOLEAN : SetJail(b)) \/ Tick \/ UNCHANGED vars
  BY <1>4, <1>5 DEF SetJail, Tick, vars
<1>6. QED
  BY <1>1, <1>2, <1>3, <1>5

(* The sweep's hold on its members is invariant.                           *)
LEMMA Swept ==
  ASSUME Paced
  PROVE  Spec => []SweepInv
<1>1. Init => SweepInv
  BY LaunchedCarriesNothing DEF Init, SweepInv, SweptOf, Busy, Tasks
<1>2. TypeOK /\ SweepInv /\ [Next]_vars => SweepInv'
  BY SweepTask, SweepStimulus, SweepOther DEF Next
<1>3. QED
  BY <1>1, <1>2, TypeCorrect, PTL DEF Spec

-----------------------------------------------------------------------------
(***************************************************************************)
(* The sweep under any schedule: the batch may be as old as it likes.      *)
(***************************************************************************)

(* Whoever is in the sweep's hands, and still or again has a record, is    *)
(* due or has had the record written since the batch was read.             *)
BatchInv ==
  /\ tasks[Sweeper].pc \in {"idle"} \cup UnjailPCs
  /\ \A m \in Members :
       /\ \/ m \in sweep
          \/ tasks[Sweeper].m = m /\ tasks[Sweeper].pc \in {"unjail", "remove"}
       /\ jails[m].held
       => PastDue(m) \/ m \in rewritten

(* A record that stays as it is does not become less due.                  *)
LEMMA StaysDue ==
  ASSUME TypeOK, NEW m \in Members, PastDue(m), jails'[m] = jails[m],
         now' \in Nat, now <= now'
  PROVE  PastDue(m)'
<1>1. jails[m].expires \in Nat \cup {Never} /\ now \in Nat
  BY DEF TypeOK, Record
<1>2. QED
  BY <1>1 DEF PastDue, Never

(* The clock never goes back, and only the read of a batch forgets who had *)
(* a record written.                                                       *)
LEMMA BatchTask ==
  ASSUME TypeOK, BatchInv, NEW t \in Tasks, TaskStep(t)
  PROVE  BatchInv'
<1>0. /\ Sweeper \in Tasks /\ tasks[t].m \in Members
      /\ UNCHANGED <<sweep, now>>
      /\ \A u \in Tasks \ {t} : tasks'[u] = tasks[u]
      /\ tasks'[t].pc = "idle" \/ tasks'[t].m = tasks[t].m
      /\ \A n \in Members \ {tasks[t].m} : jails'[n] = jails[n]
      /\ now' \in Nat /\ now <= now'
  BY TaskMinds DEF Tasks, TypeOK
<1>1. /\ tasks'[Sweeper].pc \in {"idle"} \cup UnjailPCs
      /\ tasks'[Sweeper].pc \in {"unjail", "remove"}
           => /\ tasks[Sweeper].pc \in {"unjail", "remove"}
              /\ tasks'[Sweeper].m = tasks[Sweeper].m
  <2>1. CASE t # Sweeper
    BY <1>0, <2>1 DEF BatchInv
  <2>2. CASE t = Sweeper
    <3>1. UnjailRead(t) \/ UnjailRemove(t) \/ UnjailRestore(t) \/ UnjailPull(t)
      BY <2>2 DEF BatchInv, TaskStep, Watch, Judge, JailRead, JailFetch, JailRecord,
         JailRoleSet, RoleSet, JailStrip, RejoinCheck, RejoinLookup, RejoinRoleSet,
         RejoinApply, UnjailPCs
    <3>2. tasks[t] \in TaskState /\ Idle.pc = "idle"
      BY LaunchedCarriesNothing DEF TypeOK
    <3>3. CASE UnjailRead(t)
      <4>1. tasks'[t].pc = "remove" /\ tasks[t].pc = "unjail"
        BY <3>2, <3>3 DEF TypeOK, TaskState, UnjailRead, Goto
      <4>2. QED
        BY <1>0, <2>2, <4>1 DEF UnjailPCs
    <3>4. CASE UnjailRemove(t)
      BY <2>2, <3>2, <3>4 DEF TypeOK, TaskState, UnjailRemove, Goto, Ends, AfterRemove,
                              UnjailPCs
    <3>5. CASE UnjailRestore(t) \/ UnjailPull(t)
      BY <2>2, <3>2, <3>5 DEF TypeOK, UnjailRestore, UnjailPull, Goto, Ends
    <3>6. QED
      BY <3>1, <3>3, <3>4, <3>5
  <2>3. QED
    BY <2>1, <2>2
<1>2. rewritten \subseteq rewritten'
  BY DEF TaskStep, Watch, Judge, JailRead, JailFetch, JailRecord, JailRoleSet, RoleSet,
     JailStrip, UnjailRead, UnjailRemove, UnjailRestore, UnjailPull, RejoinCheck,
     RejoinLookup, RejoinRoleSet, RejoinApply
<1>3. ASSUME NEW m \in Members, jails'[m].held
      PROVE  jails'[m] = jails[m] \/ m \in rewritten'
  <2>1. CASE JailRecord(t)
    BY <1>0, <2>1 DEF TypeOK, JailRecord
  <2>2. CASE (JailStrip(t) \/ UnjailRemove(t)) /\ jails' # jails
    <3>1. jails' = [jails EXCEPT ![tasks[t].m] = NoRecord]
      BY <2>2 DEF JailStrip, UnjailRemove
    <3>2. QED
      BY <1>0, <1>3, <3>1 DEF TypeOK, NoRecord
  <2>3. QED
    BY <2>1, <2>2, RecordsChange
<1>4. ASSUME NEW m \in Members, jails'[m].held,
             \/ m \in sweep'
             \/ tasks'[Sweeper].m = m /\ tasks'[Sweeper].pc \in {"unjail", "remove"}
      PROVE  PastDue(m)' \/ m \in rewritten'
  <2>1. CASE jails'[m] = jails[m]
    <3>1. PastDue(m) \/ m \in rewritten
      BY <1>0, <1>1, <1>4, <2>1 DEF BatchInv
    <3>2. QED
      BY <1>0, <1>2, <2>1, <3>1, StaysDue
  <2>2. QED
    BY <1>3, <1>4, <2>1
<1>5. QED
  BY <1>1, <1>4 DEF BatchInv

(* Nothing else writes a record, and the sweep takes over who is due.      *)
LEMMA BatchOther ==
  ASSUME TypeOK, BatchInv,
         \/ \E t \in Workers, m \in Members : Deliver(t, m) \/ WorkerStimulus(t, m)
         \/ \E m \in Members : MemberStimulus(m) \/ SweepNext(m)
         \/ SweepStarts
         \/ \E b \in BOOLEAN : SetJail(b)
         \/ Crash
         \/ Tick
  PROVE  BatchInv'
<1>0. jails' = jails /\ Sweeper \in Tasks /\ Sweeper \notin Workers /\ Idle.pc = "idle"
  BY OthersKeepRecords, TaskAssumption, LaunchedCarriesNothing DEF Tasks
<1>1. ASSUME sweep' = sweep, rewritten' = rewritten, now' \in Nat, now <= now',
             tasks'[Sweeper] = tasks[Sweeper]
      PROVE  BatchInv'
  <2>1. \A m \in Members : PastDue(m) => PastDue(m)'
    BY <1>0, <1>1, StaysDue
  <2>2. QED
    BY <1>0, <1>1, <2>1 DEF BatchInv
<1>2. ASSUME NEW t \in Workers, NEW m \in Members, Deliver(t, m) \/ WorkerStimulus(t, m)
      PROVE  BatchInv'
  <2>1. UNCHANGED <<sweep, rewritten, now>> /\ \E task : Goto(t, task)
    BY <1>2 DEF Deliver, WorkerStimulus, JailCommand, TryJail, UnjailCommand, Rejoin
  <2>2. tasks'[Sweeper] = tasks[Sweeper]
    BY <1>0, <2>1 DEF TypeOK, Goto
  <2>3. QED
    BY <1>1, <2>1, <2>2 DEF TypeOK
<1>3. ASSUME NEW m \in Members, MemberStimulus(m) PROVE BatchInv'
  <2>1. UNCHANGED <<sweep, rewritten, now, tasks>>
    BY <1>3 DEF MemberStimulus, HandJail, HandFree, Touch, Leave, Grant, Autorole,
       ToggleManaged
  <2>2. QED
    BY <1>1, <2>1 DEF TypeOK
<1>4. CASE (\E b \in BOOLEAN : SetJail(b)) \/ Tick
  <2>1. UNCHANGED <<sweep, rewritten, tasks>> /\ (now' = now \/ now' = now + 1)
    BY <1>4 DEF SetJail, Tick
  <2>2. QED
    BY <1>1, <2>1 DEF TypeOK
<1>5. CASE SweepStarts
  <2>1. /\ sweep' = Due /\ UNCHANGED <<now, tasks>> /\ tasks[Sweeper].pc = "idle"
    BY <1>5 DEF SweepStarts, SweepTick
  <2>2. QED
    BY <1>0, <2>1 DEF BatchInv, Due, DueAt, PastDue
<1>6. ASSUME NEW m \in Members, SweepNext(m) PROVE BatchInv'
  <2>1. /\ m \in sweep /\ sweep' = sweep \ {m} /\ UNCHANGED <<rewritten, now>>
        /\ tasks'[Sweeper].pc = "unjail" /\ tasks'[Sweeper].m = m
    BY <1>0, <1>6, LaunchedCarriesNothing DEF TypeOK, SweepNext, Goto
  <2>2. QED
    BY <1>0, <2>1 DEF BatchInv, PastDue, UnjailPCs
<1>7. CASE Crash
  BY <1>0, <1>7 DEF Crash, BatchInv
<1>8. QED
  BY <1>2, <1>3, <1>4, <1>5, <1>6, <1>7

(* The sweep releases nobody early, except who was jailed again, or had a  *)
(* sentence refreshed, behind its batch: however old the batch, whatever   *)
(* stimuli, failures and restarts come between, for any guild.             *)
THEOREM ExpiriesAreDue == Spec => ExpiryOnlyWhenDue
<1> DEFINE Keeps ==
      \A m \in Members :
        Released(m) /\ tasks[Sweeper].pc = "remove" /\ tasks[Sweeper].m = m
          => PastDue(m) \/ m \in rewritten
<1>1. Init => BatchInv
  BY LaunchedCarriesNothing DEF Init, BatchInv, Tasks
<1>2. TypeOK /\ BatchInv /\ [Next]_vars => BatchInv'
  <2> SUFFICES ASSUME TypeOK, BatchInv, [Next]_vars PROVE BatchInv'
    OBVIOUS
  <2>1. CASE UNCHANGED vars
    BY <2>1 DEF vars, BatchInv, PastDue
  <2>2. QED
    BY <2>1, BatchTask, BatchOther DEF Next
<1>3. BatchInv => Keeps
  BY DEF BatchInv, Released
<1>4. BatchInv => [Keeps]_vars
  BY <1>3
<1>5. QED
  BY <1>1, <1>2, <1>4, TypeCorrect, PTL DEF Spec, ExpiryOnlyWhenDue

-----------------------------------------------------------------------------
(***************************************************************************)
(* One stimulus at a time, and no call fails: no role is lost; while the   *)
(* jail is on, store and Discord agree, and with no release ordered nobody *)
(* escapes.  For any guild, in which a member may also leave and come back,*)
(* be given roles, be freed by hand or by command, and serve a sentence.   *)
(***************************************************************************)

(* Managed roles are lost by leaving, and then the snapshot is refused.    *)
PacedOnly ==
  /\ Paced /\ MaxFaults = 0
  /\ Ops \subseteq {"jail", "filter", "unjail", "handjail", "handfree", "touch",
                    "grant", "config", "leave", "sweep"}
  /\ Managed = {} \/ "leave" \notin Ops

(* The jail stays switched on. *)
LeftOn == "config" \notin Ops

(* Nobody gives a member a role. *)
NoGrants == "grant" \notin Ops

(* No moderator orders a release. *)
NoOrders == Ops \cap {"unjail", "handfree"} = {}

(* A member is the business of one update, batch or task at a time.        *)
Alone(m) ==
  /\ Len(updates[m]) <= 1
  /\ updates[m] # <<>> => m \notin sweep /\ \A t \in Tasks : ~Busy(t, m)
  /\ m \in sweep => \A t \in Tasks : ~Busy(t, m)
  /\ \A t, u \in Tasks : Busy(t, m) /\ Busy(u, m) => t = u

(* What the member is owed is in the record, which Discord would accept,   *)
(* or worn.                                                                *)
Safe(m) ==
  /\ jails[m].held => /\ owed[m] \subseteq jails[m].prior
                      /\ JailRole \notin jails[m].prior
                      /\ present[m] => jails[m].prior \cap Managed = roles[m] \cap Managed
  /\ ~jails[m].held => owed[m] \subseteq roles[m]
  /\ ~present[m] => roles[m] = {}

Stripped(m) == NoGrants /\ jails[m].held => owed[m] \cap roles[m] = {}

Agrees(m) == LeftOn /\ present[m] => (JailRole \in roles[m] <=> jails[m].held)

(* Without orders, what is announced of a jailed member is the jail role.  *)
Announced(m) == LeftOn /\ NoOrders /\ jails[m].held => JailRole \in roles[m]

(* Of a member no task is busy with. *)
AtRest(m) ==
  /\ Safe(m) /\ Stripped(m)
  /\ updates[m] = <<>> => Agrees(m)
  /\ updates[m] # <<>> => present[m] /\ updates[m][1] = roles[m] /\ Announced(m)

(* Of the task that is busy with m. *)
Handles(task, m) ==
  /\ task.pc # "restore" => Safe(m)
  /\ task.pc \in {"watch", "judge", "jail", "unjail", "rejoin", "lookup", "reaim"}
       => Stripped(m)
  /\ task.pc \in {"watch", "judge"}
       => present[m] /\ task.aim = roles[m] /\ Announced(m)
  /\ task.pc = "fetch" => task.fresh /\ ~jails[m].held
  /\ task.pc = "record" => /\ task.fresh <=> ~jails[m].held
                           /\ task.fresh => present[m] /\ task.prior = Snapshot(roles[m])
  /\ task.pc \in {"aim", "strip"} => jails[m].held /\ (task.fresh => present[m])
  /\ task.pc \in {"strip", "reapply"} /\ present[m] => task.aim = JailedRoles(m)
  /\ task.pc = "remove" => /\ task.fresh <=> ~jails[m].held
                           /\ jails[m].held => task.prior = jails[m].prior
  /\ task.pc \in {"restore", "pull"} => ~jails[m].held
  /\ task.pc = "restore" => /\ owed[m] \subseteq task.prior
                            /\ JailRole \notin task.prior
                            /\ present[m] => task.prior \cap Managed = roles[m] \cap Managed
                            /\ ~present[m] => roles[m] = {}
  /\ task.pc \in {"rejoin", "lookup"} => present[m] /\ roles[m] = {}
  /\ task.pc \in {"reaim", "reapply"} => present[m] /\ jails[m].held

(* The sweep only releases; without orders nobody else does.               *)
Duty(t, m) ==
  /\ t = Sweeper => tasks[t].pc \in UnjailPCs
  /\ LeftOn /\ NoOrders /\ t # Sweeper => tasks[t].pc \notin UnjailPCs

PacedOf(m) ==
  /\ Alone(m)
  /\ \A t \in Tasks : Busy(t, m) => Handles(tasks[t], m) /\ Duty(t, m)
  /\ (\A t \in Tasks : ~Busy(t, m)) => AtRest(m)

PacedInv == faults = 0 /\ (LeftOn => enabled) /\ \A m \in Members : PacedOf(m)

(* What a member who is someone's business is spared, and what is known of *)
(* a member who is nobody's.                                               *)
LEMMA PacedMember ==
  ASSUME NEW m \in Members, PacedOf(m)
  PROVE  /\ \A t \in Tasks : Busy(t, m) =>
              /\ updates[m] = <<>> /\ m \notin sweep
              /\ \A u \in Tasks \ {t} : ~Busy(u, m)
              /\ Handles(tasks[t], m) /\ Duty(t, m)
         /\ Quiet(m) \/ updates[m] # <<>> \/ m \in sweep =>
              /\ \A t \in Tasks : ~Busy(t, m)
              /\ AtRest(m)
<1>1. Alone(m)
  BY DEF PacedOf
<1>2. \A t \in Tasks : Busy(t, m) =>
        /\ updates[m] = <<>> /\ m \notin sweep
        /\ \A u \in Tasks \ {t} : ~Busy(u, m)
  BY <1>1 DEF Alone
<1>3. Quiet(m) \/ updates[m] # <<>> \/ m \in sweep => \A t \in Tasks : ~Busy(t, m)
  BY <1>1 DEF Alone, Quiet
<1>4. QED
  BY <1>2, <1>3 DEF PacedOf

(* A member whom one task comes to be busy with.                           *)
LEMMA PacedBusy ==
  ASSUME NEW m \in Members, NEW t \in Tasks, Busy(t, m)',
         \A u \in Tasks \ {t} : ~Busy(u, m)',
         updates'[m] = <<>>, m \notin sweep',
         Handles(tasks[t], m)', Duty(t, m)'
  PROVE  PacedOf(m)'
<1>1. Alone(m)'
  BY DEF Alone
<1>2. QED
  BY <1>1 DEF PacedOf

(* A member whom no task is busy with after the step.                      *)
LEMMA PacedRest ==
  ASSUME NEW m \in Members, \A t \in Tasks : ~Busy(t, m)',
         Len(updates'[m]) <= 1, updates'[m] # <<>> => m \notin sweep',
         AtRest(m)'
  PROVE  PacedOf(m)'
<1>1. Alone(m)'
  BY DEF Alone
<1>2. QED
  BY <1>1 DEF PacedOf

(* The step leaves n alone.                                                *)
Spares(n) ==
  /\ jails'[n] = jails[n] /\ roles'[n] = roles[n] /\ present'[n] = present[n]
  /\ owed'[n] = owed[n] /\ updates'[n] = updates[n]
  /\ n \in sweep' <=> n \in sweep
  /\ \A t \in Tasks : tasks'[t] = tasks[t] \/ (~Busy(t, n) /\ ~Busy(t, n)')

(* A member whom the step leaves alone keeps the invariant.                *)
LEMMA PacedSpared ==
  ASSUME NEW n \in Members, PacedOf(n), Spares(n)
  PROVE  PacedOf(n)'
<1>1. \A t \in Tasks : /\ Busy(t, n)' <=> Busy(t, n)
                       /\ Busy(t, n) => tasks'[t] = tasks[t]
  BY DEF Spares, Busy
<1>3. Alone(n)'
  BY <1>1 DEF PacedOf, Alone, Spares
<1>4. ASSUME NEW t \in Tasks, Busy(t, n)'
      PROVE  Handles(tasks[t], n)' /\ Duty(t, n)'
  <2>1. Handles(tasks[t], n) /\ Duty(t, n) /\ tasks'[t] = tasks[t]
    BY <1>1, <1>4 DEF PacedOf
  <2>2. Handles(tasks[t], n)'
    BY <2>1 DEF Handles, Safe, Stripped, Announced, JailedRoles, Spares
  <2>3. Duty(t, n)'
    BY <2>1 DEF Duty, Spares
  <2>4. QED
    BY <2>2, <2>3
<1>5. ASSUME \A t \in Tasks : ~Busy(t, n)' PROVE AtRest(n)'
  <2>1. AtRest(n)
    BY <1>1, <1>5 DEF PacedOf
  <2>2. QED
    BY <2>1 DEF AtRest, Safe, Stripped, Agrees, Announced, Spares
<1>6. QED
  BY <1>3, <1>4, <1>5 DEF PacedOf

(* A step is about one member, the others it leaves alone.                 *)
LEMMA PacedOthers ==
  ASSUME PacedInv, NEW m \in Members,
         \A n \in Members \ {m} : Spares(n), PacedOf(m)', UNCHANGED <<enabled, faults>>
  PROVE  PacedInv'
<1>1. \A n \in Members \ {m} : PacedOf(n)'
  BY PacedSpared DEF PacedInv
<1>2. QED
  BY <1>1 DEF PacedInv

(* What a step of a task does to the member it is busy with is all it does.*)
Minds(t, m) ==
  /\ \A u \in Tasks \ {t} : tasks'[u] = tasks[u]
  /\ \A n \in Members \ {m} :
       /\ jails'[n] = jails[n] /\ roles'[n] = roles[n] /\ present'[n] = present[n]
       /\ owed'[n] = owed[n] /\ updates'[n] = updates[n]
  /\ UNCHANGED <<enabled, sweep, faults>>

(* A task goes on to its next call, or ends and leaves the member at rest. *)
LEMMA PacedStep ==
  ASSUME PacedInv, NEW t \in Tasks, NEW m \in Members,
         Busy(t, m), Minds(t, m),
         \/ /\ tasks'[t].pc # "idle" /\ tasks'[t].m = m
            /\ updates'[m] = updates[m]
            /\ Handles(tasks[t], m)' /\ Duty(t, m)'
         \/ /\ tasks'[t].pc = "idle" /\ Len(updates'[m]) <= 1
            /\ AtRest(m)'
  PROVE  PacedInv'
<1>1. /\ updates[m] = <<>> /\ m \notin sweep
      /\ \A u \in Tasks \ {t} : ~Busy(u, m)
  BY PacedMember DEF PacedInv
<1>2. \A n \in Members \ {m} : Spares(n)
  BY DEF Spares, Minds, Busy
<1>3. PacedOf(m)'
  <2>1. \A u \in Tasks \ {t} : ~Busy(u, m)'
    BY <1>1 DEF Minds, Busy
  <2>2. m \notin sweep'
    BY <1>1 DEF Minds
  <2>3. CASE tasks'[t].pc # "idle"
    <3>1. Busy(t, m)'
      BY <2>3 DEF Busy
    <3>2. QED
      BY <1>1, <2>1, <2>2, <2>3, <3>1, PacedBusy
  <2>4. CASE tasks'[t].pc = "idle"
    <3>1. \A u \in Tasks : ~Busy(u, m)'
      BY <2>1, <2>4 DEF Busy
    <3>2. QED
      BY <2>2, <2>4, <3>1, PacedRest
  <2>5. QED
    BY <2>3, <2>4
<1>4. QED
  BY <1>2, <1>3, PacedOthers DEF Minds

(* A change of roles of a member none of whose updates is under way.       *)
LEMMA PacedSetRoles ==
  ASSUME TypeOK, NEW m \in Members, NEW new, SetRoles(m, new), updates[m] = <<>>
  PROVE  /\ roles'[m] = new
         /\ \A n \in Members \ {m} : roles'[n] = roles[n] /\ updates'[n] = updates[n]
         /\ \/ new = roles[m] /\ updates'[m] = <<>>
            \/ new # roles[m] /\ updates'[m] = <<new>>
         /\ Len(updates'[m]) <= 1
<1>1. /\ roles'[m] = new
      /\ \A n \in Members \ {m} : roles'[n] = roles[n] /\ updates'[n] = updates[n]
  BY DEF TypeOK, SetRoles
<1>2. \/ new = roles[m] /\ updates'[m] = <<>>
      \/ new # roles[m] /\ updates'[m] = <<new>>
  BY DEF TypeOK, SetRoles
<1>3. Len(updates'[m]) <= 1
  <2>1. Len(<<>>) <= 1 /\ Len(<<new>>) <= 1
    OBVIOUS
  <2>2. QED
    BY <1>2, <2>1
<1>4. QED
  BY <1>1, <1>2, <1>3

(* What every step of a task starts from.                                  *)
LEMMA PacedTask ==
  ASSUME TypeOK, PacedInv, NEW t \in Tasks, NEW m \in Members, m = tasks[t].m,
         tasks[t].pc # "idle"
  PROVE  /\ tasks[t] \in TaskState /\ jails[m] \in Record
         /\ Busy(t, m) /\ updates[m] = <<>> /\ m \notin sweep
         /\ Handles(tasks[t], m) /\ Duty(t, m)
         /\ ~Fault /\ (LeftOn => enabled)
<1>1. tasks[t] \in TaskState /\ jails[m] \in Record
  BY DEF TypeOK, TaskState
<1>2. Busy(t, m)
  BY DEF Busy
<1>3. ~Fault /\ (LeftOn => enabled) /\ PacedOf(m)
  BY <1>1 DEF PacedInv, Fault
<1>4. updates[m] = <<>> /\ m \notin sweep /\ Handles(tasks[t], m) /\ Duty(t, m)
  BY <1>1, <1>2, <1>3, PacedMember
<1>5. QED
  BY <1>1, <1>2, <1>3, <1>4

(* The shape of most steps: only the task changes.                         *)
LEMMA PacedOnlyTask ==
  ASSUME TypeOK, PacedInv, NEW t \in Tasks, NEW m \in Members, Busy(t, m),
         UNCHANGED <<jails, enabled, roles, present, updates, sweep, owed, faults>>,
         NEW task, Goto(t, task), task.m = m, task.pc # "idle",
         Handles(task, m), Duty(t, m)'
  PROVE  PacedInv'
<1>1. tasks'[t] = task
  BY DEF TypeOK, Goto
<1>2. Minds(t, m)
  BY DEF TypeOK, Minds, Goto
<1>3. Handles(tasks[t], m)'
  BY <1>1 DEF Handles, Safe, Stripped, Announced, JailedRoles
<1>4. QED
  BY <1>1, <1>2, <1>3, PacedStep

(* A task that stays among the handlers of a jailing, a release or a       *)
(* rejoin keeps its duty.                                                  *)
LEMMA DutyStays ==
  ASSUME NEW t \in Tasks, NEW m \in Members, Duty(t, m),
         tasks[t].pc \in UnjailPCs <=> tasks'[t].pc \in UnjailPCs
  PROVE  Duty(t, m)'
BY DEF Duty

(* A task that finds nothing to do leaves a member who is at rest.         *)
LEMMA PacedEnds ==
  ASSUME TypeOK, PacedInv, NEW t \in Tasks, NEW m \in Members, Busy(t, m),
         UNCHANGED <<jails, enabled, roles, present, updates, sweep, owed, faults>>,
         Ends(t), Safe(m), Stripped(m), Agrees(m)
  PROVE  PacedInv'
<1>1. tasks'[t] = Idle /\ Idle.pc = "idle"
  BY LaunchedCarriesNothing DEF TypeOK, Ends, Goto
<1>2. Minds(t, m)
  BY DEF TypeOK, Minds, Ends, Goto
<1>3. updates[m] = <<>> /\ m \notin sweep
  BY PacedMember DEF PacedInv
<1>4. Len(updates'[m]) <= 1
  BY <1>3
<1>5. AtRest(m)'
  BY <1>3 DEF AtRest, Safe, Stripped, Agrees
<1>6. QED
  BY <1>1, <1>2, <1>4, <1>5, PacedStep

(* The watcher and the steps of reapply_if_jailed.                         *)
LEMMA PacedRejoin ==
  ASSUME TypeOK, PacedInv, NEW t \in Tasks, NEW m \in Members, m = tasks[t].m,
         \/ Watch(t) \/ Judge(t)
         \/ RejoinCheck(t) \/ RejoinLookup(t) \/ RejoinRoleSet(t) \/ RejoinApply(t)
  PROVE  PacedInv'
<1> DEFINE task == tasks[t]
<1>0. /\ task \in TaskState /\ jails[m] \in Record
      /\ Busy(t, m) /\ updates[m] = <<>> /\ m \notin sweep
      /\ Handles(task, m) /\ Duty(t, m)
      /\ ~Fault /\ (LeftOn => enabled)
  <2>1. task.pc # "idle"
    BY DEF Watch, Judge, RejoinCheck, RejoinLookup, RejoinRoleSet, RejoinApply, RoleSet
  <2>2. QED
    BY <2>1, PacedTask
<1>t. t # Sweeper
  BY <1>0 DEF Duty, Watch, Judge, RejoinCheck, RejoinLookup, RejoinRoleSet, RejoinApply,
              RoleSet, UnjailPCs
<1>w. CASE Watch(t)
  <2>1. /\ Safe(m) /\ Stripped(m) /\ present[m] /\ task.aim = roles[m] /\ Announced(m)
        /\ UNCHANGED <<jails, enabled, roles, present, updates, sweep, owed, faults>>
    BY <1>0, <1>w DEF Watch, Handles
  <2>2. CASE enabled
    <3>1. Goto(t, [task EXCEPT !.pc = "judge"])
      BY <1>w, <2>2 DEF Watch
    <3>2. /\ [task EXCEPT !.pc = "judge"].pc = "judge"
          /\ [task EXCEPT !.pc = "judge"].m = m
          /\ [task EXCEPT !.pc = "judge"].aim = task.aim
      BY <1>0 DEF TaskState
    <3>3. Handles([task EXCEPT !.pc = "judge"], m)
      BY <2>1, <3>2 DEF Handles
    <3>4. Duty(t, m)'
      BY <1>t, <3>1, <3>2 DEF TypeOK, Duty, UnjailPCs, Goto
    <3>5. QED
      BY <1>0, <2>1, <3>1, <3>2, <3>3, <3>4, PacedOnlyTask
  <2>3. CASE ~enabled
    <3>1. Ends(t) /\ Agrees(m)
      BY <1>0, <1>w, <2>3 DEF Watch, Agrees
    <3>2. QED
      BY <1>0, <2>1, <3>1, PacedEnds
  <2>4. QED
    BY <2>2, <2>3
<1>1. CASE Judge(t)
  <2>1. /\ Safe(m) /\ Stripped(m) /\ present[m] /\ task.aim = roles[m]
        /\ LeftOn /\ NoOrders /\ jails[m].held => JailRole \in roles[m]
    BY <1>0, <1>1 DEF Judge, Handles, Announced
  <2> DEFINE next == Verdict(roles[m], jails[m].held)
  <2>2. /\ Goto(t, IF next = "idle" THEN Idle ELSE Launched(next, m))
        /\ UNCHANGED <<jails, enabled, roles, present, updates, sweep, owed, faults>>
    BY <1>0, <1>1, <2>1 DEF Judge
  <2>3. CASE next = "idle"
    <3>1. Agrees(m) /\ Ends(t)
      BY <1>0, <2>2, <2>3 DEF Agrees, Verdict, Ends
    <3>2. QED
      BY <1>0, <2>1, <2>2, <3>1, PacedEnds
  <2>4. CASE next # "idle"
    <3>1. next \in {"jail", "unjail"} /\ (LeftOn /\ NoOrders => next = "jail")
      BY <2>1, <2>4 DEF Verdict
    <3>2. Launched(next, m).pc = next /\ Launched(next, m).m = m
      BY LaunchedCarriesNothing
    <3>3. Goto(t, Launched(next, m)) /\ tasks'[t].pc = next
      BY <2>2, <2>4, <3>2 DEF TypeOK, Goto
    <3>4. Handles(Launched(next, m), m)
      BY <2>1, <3>1, <3>2 DEF Handles
    <3>5. Duty(t, m)'
      BY <1>t, <3>1, <3>3 DEF Duty, UnjailPCs
    <3>6. QED
      BY <1>0, <2>2, <3>1, <3>2, <3>3, <3>4, <3>5, PacedOnlyTask
  <2>5. QED
    BY <2>3, <2>4
<1>c. CASE RejoinCheck(t)
  <2>1. /\ Safe(m) /\ Stripped(m) /\ present[m] /\ roles[m] = {}
        /\ UNCHANGED <<jails, enabled, roles, present, updates, sweep, owed, faults>>
    BY <1>0, <1>c DEF RejoinCheck, Handles
  <2>2. CASE enabled
    <3>1. Goto(t, [task EXCEPT !.pc = "lookup"])
      BY <1>c, <2>2 DEF RejoinCheck
    <3>2. /\ [task EXCEPT !.pc = "lookup"].pc = "lookup"
          /\ [task EXCEPT !.pc = "lookup"].m = m
      BY <1>0 DEF TaskState
    <3>3. Handles([task EXCEPT !.pc = "lookup"], m)
      BY <2>1, <3>2 DEF Handles
    <3>4. Duty(t, m)'
      BY <1>t, <3>1, <3>2 DEF TypeOK, Duty, UnjailPCs, Goto
    <3>5. QED
      BY <1>0, <2>1, <3>1, <3>2, <3>3, <3>4, PacedOnlyTask
  <2>3. CASE ~enabled
    <3>1. Ends(t) /\ Agrees(m)
      BY <1>0, <1>c, <2>3 DEF RejoinCheck, Agrees
    <3>2. QED
      BY <1>0, <2>1, <3>1, PacedEnds
  <2>4. QED
    BY <2>2, <2>3
<1>2. CASE RejoinLookup(t)
  <2>1. /\ Safe(m) /\ Stripped(m) /\ present[m] /\ roles[m] = {}
        /\ UNCHANGED <<jails, enabled, roles, present, updates, sweep, owed, faults>>
    BY <1>0, <1>2 DEF RejoinLookup, Handles
  <2>2. CASE Rejoiner(m)
    <3>1. Goto(t, [task EXCEPT !.pc = "reaim"])
      BY <1>2, <2>2 DEF RejoinLookup
    <3>2. /\ [task EXCEPT !.pc = "reaim"].pc = "reaim"
          /\ [task EXCEPT !.pc = "reaim"].m = m
      BY <1>0 DEF TaskState
    <3>3. Handles([task EXCEPT !.pc = "reaim"], m)
      BY <2>1, <2>2, <3>2 DEF Handles, Rejoiner
    <3>4. Duty(t, m)'
      BY <1>t, <3>1, <3>2 DEF TypeOK, Duty, UnjailPCs, Goto
    <3>5. QED
      BY <1>0, <2>1, <3>1, <3>2, <3>3, <3>4, PacedOnlyTask
  <2>3. CASE ~Rejoiner(m)
    <3>1. Ends(t) /\ Agrees(m)
      BY <1>0, <1>2, <2>1, <2>3 DEF RejoinLookup, Rejoiner, Agrees
    <3>2. QED
      BY <1>0, <2>1, <3>1, PacedEnds
  <2>4. QED
    BY <2>2, <2>3
<1>3. CASE RejoinRoleSet(t)
  <2>1. Safe(m) /\ Stripped(m) /\ present[m] /\ jails[m].held
    BY <1>0, <1>3 DEF RejoinRoleSet, RoleSet, Handles
  <2> DEFINE to == [task EXCEPT !.pc = "reapply", !.aim = JailedRoles(m)]
  <2>2. /\ Goto(t, to)
        /\ UNCHANGED <<jails, enabled, roles, present, updates, sweep, owed, faults>>
    BY <1>0, <1>3, <2>1 DEF RejoinRoleSet, RoleSet, NoFault
  <2>3. to.pc = "reapply" /\ to.m = m /\ to.aim = JailedRoles(m)
    BY <1>0 DEF TaskState
  <2>4. Handles(to, m)
    BY <2>1, <2>3 DEF Handles
  <2>5. Duty(t, m)'
    BY <1>t, <2>2, <2>3 DEF TypeOK, Duty, UnjailPCs, Goto
  <2>6. QED
    BY <1>0, <2>2, <2>3, <2>4, <2>5, PacedOnlyTask
<1>4. CASE RejoinApply(t)
  <2>1. /\ Safe(m) /\ present[m] /\ jails[m].held
        /\ task.aim = JailedRoles(m)
    BY <1>0, <1>4 DEF RejoinApply, Handles
  <2>2. /\ JailRole \in task.aim /\ task.aim \cap Managed = roles[m] \cap Managed
        /\ owed[m] \cap task.aim = {}
    BY <1>0, <2>1, RoleAssumption DEF TypeOK, JailedRoles
  <2>3. SetRoles(m, task.aim)
    BY <1>0, <1>4, <2>1, <2>2 DEF RejoinApply, Accepts
  <2>4. /\ roles'[m] = task.aim
        /\ \A n \in Members \ {m} : roles'[n] = roles[n] /\ updates'[n] = updates[n]
        /\ updates'[m] = <<>> \/ updates'[m] = <<task.aim>>
        /\ Len(updates'[m]) <= 1
    BY <1>0, <2>3, PacedSetRoles
  <2>5. UNCHANGED <<jails, enabled, present, sweep, owed, faults>> /\ Ends(t)
    BY <1>0, <1>4 DEF RejoinApply, NoFault
  <2>6. Minds(t, m) /\ tasks'[t].pc = "idle"
    BY <2>4, <2>5, LaunchedCarriesNothing DEF TypeOK, Minds, Ends, Goto
  <2>7. AtRest(m)'
    BY <1>0, <2>1, <2>2, <2>4, <2>5 DEF AtRest, Safe, Stripped, Agrees, Announced
  <2>8. QED
    BY <1>0, <2>4, <2>6, <2>7, PacedStep
<1>5. QED
  BY <1>w, <1>1, <1>c, <1>2, <1>3, <1>4

(* The steps of jail_member.                                               *)
LEMMA PacedJail ==
  ASSUME TypeOK, PacedInv, NEW t \in Tasks, NEW m \in Members, m = tasks[t].m,
         \/ JailRead(t) \/ JailFetch(t) \/ JailRecord(t)
         \/ JailRoleSet(t) \/ JailStrip(t)
  PROVE  PacedInv'
<1> DEFINE task == tasks[t]
<1>p. task.pc \in JailPCs
  BY DEF JailRead, JailFetch, JailRecord, JailRoleSet, RoleSet, JailStrip, JailPCs
<1>0. /\ task \in TaskState /\ jails[m] \in Record
      /\ Busy(t, m) /\ updates[m] = <<>> /\ m \notin sweep
      /\ Handles(task, m) /\ Duty(t, m)
      /\ ~Fault /\ (LeftOn => enabled)
  <2>1. task.pc # "idle"
    BY <1>p DEF JailPCs
  <2>2. QED
    BY <2>1, PacedTask
<1>t. tasks'[t].pc \in JailPCs => Duty(t, m)'
  BY <1>0, <1>p DEF Duty, JailPCs, UnjailPCs
<1>1. CASE JailRead(t)
  <2>1. /\ Safe(m) /\ Stripped(m)
        /\ UNCHANGED <<jails, enabled, roles, present, updates, sweep, owed, faults>>
    BY <1>0, <1>1 DEF JailRead, Handles
  <2> DEFINE kept == [task EXCEPT !.pc = "record", !.fresh = FALSE, !.prior = jails[m].prior]
             first == [task EXCEPT !.pc = "fetch", !.fresh = TRUE]
  <2>2. CASE jails[m].held
    <3>1. Goto(t, kept)
      BY <1>1, <2>2 DEF JailRead
    <3>2. kept.pc = "record" /\ kept.m = m /\ kept.fresh = FALSE
      BY <1>0 DEF TaskState
    <3>3. Handles(kept, m)
      BY <2>1, <2>2, <3>2 DEF Handles
    <3>4. Duty(t, m)'
      BY <1>t, <3>1, <3>2 DEF TypeOK, Goto, JailPCs
    <3>5. QED
      BY <1>0, <2>1, <3>1, <3>2, <3>3, <3>4, PacedOnlyTask
  <2>3. CASE ~jails[m].held
    <3>1. Goto(t, first)
      BY <1>1, <2>3 DEF JailRead
    <3>2. first.pc = "fetch" /\ first.m = m /\ first.fresh = TRUE
      BY <1>0 DEF TaskState
    <3>3. Handles(first, m)
      BY <2>1, <2>3, <3>2 DEF Handles
    <3>4. Duty(t, m)'
      BY <1>t, <3>1, <3>2 DEF TypeOK, Goto, JailPCs
    <3>5. QED
      BY <1>0, <2>1, <3>1, <3>2, <3>3, <3>4, PacedOnlyTask
  <2>4. QED
    BY <2>2, <2>3
<1>2. CASE JailFetch(t)
  <2>1. /\ Safe(m) /\ ~jails[m].held /\ task.fresh
        /\ UNCHANGED <<jails, enabled, roles, present, updates, sweep, owed, faults>>
    BY <1>0, <1>2 DEF JailFetch, Handles, NoFault
  <2> DEFINE to == [task EXCEPT !.pc = "record", !.prior = Snapshot(roles[m])]
  <2>2. CASE present[m]
    <3>1. Goto(t, to)
      BY <1>0, <1>2, <2>2 DEF JailFetch
    <3>2. /\ to.pc = "record" /\ to.m = m /\ to.fresh = task.fresh
          /\ to.prior = Snapshot(roles[m])
      BY <1>0 DEF TaskState
    <3>3. Handles(to, m)
      BY <2>1, <2>2, <3>2 DEF Handles
    <3>4. Duty(t, m)'
      BY <1>t, <3>1, <3>2 DEF TypeOK, Goto, JailPCs
    <3>5. QED
      BY <1>0, <2>1, <3>1, <3>2, <3>3, <3>4, PacedOnlyTask
  <2>3. CASE ~present[m]
    <3>1. Ends(t) /\ Stripped(m) /\ Agrees(m)
      BY <1>0, <1>2, <2>1, <2>3 DEF JailFetch, Stripped, Agrees
    <3>2. QED
      BY <1>0, <2>1, <3>1, PacedEnds
  <2>4. QED
    BY <2>2, <2>3
<1>3. CASE JailRecord(t)
  <2>1. /\ Safe(m) /\ (task.fresh <=> ~jails[m].held)
        /\ task.fresh => present[m] /\ task.prior = Snapshot(roles[m])
    BY <1>0, <1>3 DEF JailRecord, Handles
  <2>2. /\ jails' = [jails EXCEPT ![m] = [held |-> TRUE,
                       prior |-> KeptPrior(@, task.prior), expires |-> Sentence(task.mins)]]
        /\ Goto(t, [task EXCEPT !.pc = "aim"])
        /\ UNCHANGED <<enabled, roles, present, updates, sweep, owed, faults>>
    BY <1>0, <1>3 DEF JailRecord, NoFault
  <2>3. /\ tasks'[t].pc = "aim" /\ tasks'[t].m = m /\ tasks'[t].fresh = task.fresh
        /\ Minds(t, m)
    BY <1>0, <2>2 DEF TypeOK, TaskState, Goto, Minds
  <2>4. jails'[m].held /\ jails'[m].prior = KeptPrior(jails[m], task.prior)
    BY <2>2 DEF TypeOK
  <2>5. Safe(m)'
    <3>1. CASE jails[m].held
      BY <2>1, <2>2, <2>4, <3>1 DEF Safe, KeptPrior
    <3>2. CASE ~jails[m].held
      <4>1. jails'[m].prior = roles[m] \ {JailRole} /\ present[m]
        BY <2>1, <2>4, <3>2 DEF KeptPrior, Snapshot
      <4>2. owed[m] \subseteq roles[m] /\ JailRole \notin owed[m]
        BY <2>1, <3>2, RoleAssumption DEF TypeOK, Safe
      <4>3. (roles[m] \ {JailRole}) \cap Managed = roles[m] \cap Managed
        BY RoleAssumption
      <4>4. QED
        BY <2>2, <2>4, <4>1, <4>2, <4>3 DEF Safe
    <3>3. QED
      BY <3>1, <3>2
  <2>6. Handles(tasks[t], m)'
    BY <2>1, <2>2, <2>3, <2>4, <2>5 DEF Handles
  <2>7. Duty(t, m)'
    BY <1>t, <2>3 DEF JailPCs
  <2>8. QED
    BY <1>0, <2>2, <2>3, <2>6, <2>7, PacedStep
<1>4. CASE JailRoleSet(t)
  <2>1. Safe(m) /\ jails[m].held /\ (task.fresh => present[m])
    BY <1>0, <1>4 DEF JailRoleSet, RoleSet, Handles
  <2>2. PICK aim : /\ Goto(t, [task EXCEPT !.pc = "strip", !.aim = aim])
                   /\ present[m] => aim = JailedRoles(m)
    BY <1>0, <1>4 DEF JailRoleSet, RoleSet
  <2> DEFINE to == [task EXCEPT !.pc = "strip", !.aim = aim]
  <2>3. UNCHANGED <<jails, enabled, roles, present, updates, sweep, owed, faults>>
    BY <1>0, <1>4 DEF JailRoleSet, RoleSet, NoFault
  <2>4. to.pc = "strip" /\ to.m = m /\ to.aim = aim /\ to.fresh = task.fresh
    BY <1>0 DEF TaskState
  <2>5. Handles(to, m)
    BY <2>1, <2>2, <2>4 DEF Handles
  <2>6. Duty(t, m)'
    BY <1>t, <2>2, <2>4 DEF TypeOK, Goto, JailPCs
  <2>7. QED
    BY <1>0, <2>2, <2>3, <2>4, <2>5, <2>6, PacedOnlyTask
<1>5. CASE JailStrip(t)
  <2>1. /\ Safe(m) /\ jails[m].held /\ (task.fresh => present[m])
        /\ present[m] => task.aim = JailedRoles(m)
    BY <1>0, <1>5 DEF JailStrip, Handles
  <2>2. UNCHANGED <<enabled, present, sweep, owed, faults>> /\ Ends(t)
    BY <1>0, <1>5 DEF JailStrip, NoFault
  <2>3. CASE present[m]
    <3>1. /\ JailRole \in task.aim /\ task.aim \cap Managed = roles[m] \cap Managed
          /\ owed[m] \cap task.aim = {}
      BY <1>0, <2>1, <2>3, RoleAssumption DEF TypeOK, JailedRoles
    <3>2. SetRoles(m, task.aim) /\ UNCHANGED jails
      BY <1>0, <1>5, <2>3, <3>1 DEF JailStrip, Accepts
    <3>3. /\ roles'[m] = task.aim
          /\ \A n \in Members \ {m} : roles'[n] = roles[n] /\ updates'[n] = updates[n]
          /\ updates'[m] = <<>> \/ updates'[m] = <<task.aim>>
          /\ Len(updates'[m]) <= 1
      BY <1>0, <3>2, PacedSetRoles
    <3>4. Minds(t, m) /\ tasks'[t].pc = "idle"
      BY <2>2, <3>2, <3>3, LaunchedCarriesNothing DEF TypeOK, Minds, Ends, Goto
    <3>5. AtRest(m)'
      BY <1>0, <2>1, <2>2, <2>3, <3>1, <3>2, <3>3
         DEF AtRest, Safe, Stripped, Agrees, Announced
    <3>6. QED
      BY <1>0, <3>3, <3>4, <3>5, PacedStep
  <2>4. CASE ~present[m]
    <3>1. UNCHANGED <<jails, roles, updates>>
      BY <1>0, <1>5, <2>1, <2>4 DEF JailStrip, Accepts, KeepRoles
    <3>2. Stripped(m) /\ Agrees(m)
      BY <2>1, <2>4 DEF Safe, Stripped, Agrees
    <3>3. QED
      BY <1>0, <2>1, <2>2, <3>1, <3>2, PacedEnds
  <2>5. QED
    BY <2>3, <2>4
<1>6. QED
  BY <1>1, <1>2, <1>3, <1>4, <1>5

(* The steps of unjail_member.                                             *)
LEMMA PacedUnjail ==
  ASSUME TypeOK, PacedInv, NEW t \in Tasks, NEW m \in Members, m = tasks[t].m,
         UnjailRead(t) \/ UnjailRemove(t) \/ UnjailRestore(t) \/ UnjailPull(t)
  PROVE  PacedInv'
<1> DEFINE task == tasks[t]
<1>p. task.pc \in UnjailPCs
  BY DEF UnjailRead, UnjailRemove, UnjailRestore, UnjailPull, UnjailPCs
<1>0. /\ task \in TaskState /\ jails[m] \in Record
      /\ Busy(t, m) /\ updates[m] = <<>> /\ m \notin sweep
      /\ Handles(task, m) /\ Duty(t, m)
      /\ ~Fault /\ (LeftOn => enabled)
  <2>1. task.pc # "idle"
    BY <1>p DEF UnjailPCs
  <2>2. QED
    BY <2>1, PacedTask
<1>1. CASE UnjailRead(t)
  <2>1. /\ Safe(m) /\ Stripped(m)
        /\ UNCHANGED <<jails, enabled, roles, present, updates, sweep, owed, faults>>
    BY <1>0, <1>1 DEF UnjailRead, Handles
  <2> DEFINE to == [task EXCEPT !.pc = "remove", !.fresh = ~jails[m].held,
                                !.prior = jails[m].prior]
  <2>2. Goto(t, to)
    BY <1>1 DEF UnjailRead
  <2>3. /\ to.pc = "remove" /\ to.m = m /\ to.fresh = ~jails[m].held
        /\ to.prior = jails[m].prior
    BY <1>0 DEF TaskState
  <2>4. Handles(to, m)
    BY <1>0, <2>1, <2>3 DEF Handles, Record
  <2>5. Duty(t, m)'
    <3>1. tasks'[t].pc = "remove" /\ task.pc = "unjail"
      BY <1>1, <2>2, <2>3 DEF TypeOK, Goto, UnjailRead
    <3>2. QED
      BY <1>0, <2>1, <3>1, DutyStays DEF UnjailPCs
  <2>6. QED
    BY <1>0, <2>1, <2>2, <2>3, <2>4, <2>5, PacedOnlyTask
<1>2. CASE UnjailRemove(t)
  <2>1. /\ Safe(m) /\ (task.fresh <=> ~jails[m].held)
        /\ jails[m].held => task.prior = jails[m].prior
    BY <1>0, <1>2 DEF UnjailRemove, Handles
  <2>2. /\ jails' = [jails EXCEPT ![m] = NoRecord]
        /\ Goto(t, [task EXCEPT !.pc = AfterRemove(task)])
        /\ UNCHANGED <<enabled, roles, present, updates, sweep, owed, faults>>
    BY <1>0, <1>2 DEF UnjailRemove, NoFault
  <2>3. /\ tasks'[t].pc = IF task.fresh THEN "pull" ELSE "restore"
        /\ tasks'[t].m = m /\ tasks'[t].prior = task.prior
        /\ Minds(t, m)
    BY <1>0, <2>2 DEF TypeOK, TaskState, Goto, Minds, AfterRemove
  <2>4. ~jails'[m].held
    BY <2>2 DEF TypeOK, NoRecord
  <2>5. Handles(tasks[t], m)'
    <3>1. CASE jails[m].held
      BY <2>1, <2>2, <2>3, <2>4, <3>1 DEF Handles, Safe
    <3>2. CASE ~jails[m].held
      <4>1. Safe(m)'
        BY <2>1, <2>2, <2>4, <3>2 DEF Safe
      <4>2. QED
        BY <2>1, <2>3, <2>4, <3>2, <4>1 DEF Handles
    <3>3. QED
      BY <3>1, <3>2
  <2>6. Duty(t, m)'
    BY <1>0, <1>p, <2>2, <2>3, DutyStays DEF UnjailPCs
  <2>7. QED
    BY <1>0, <2>2, <2>3, <2>5, <2>6, PacedStep
<1>3. CASE UnjailRestore(t)
  <2>1. /\ ~jails[m].held
        /\ owed[m] \subseteq task.prior /\ JailRole \notin task.prior
        /\ present[m] => task.prior \cap Managed = roles[m] \cap Managed
        /\ ~present[m] => roles[m] = {}
    BY <1>0, <1>3 DEF UnjailRestore, Handles
  <2>2. UNCHANGED <<jails, enabled, present, sweep, faults>> /\ Ends(t)
    BY <1>0, <1>3 DEF UnjailRestore, NoFault
  <2>3. CASE present[m]
    <3>1. SetRoles(m, task.prior) /\ UNCHANGED owed
      BY <1>0, <1>3, <2>1, <2>3 DEF UnjailRestore, Accepts
    <3>2. /\ roles'[m] = task.prior
          /\ \A n \in Members \ {m} : roles'[n] = roles[n] /\ updates'[n] = updates[n]
          /\ updates'[m] = <<>> \/ updates'[m] = <<task.prior>>
          /\ Len(updates'[m]) <= 1
      BY <1>0, <3>1, PacedSetRoles
    <3>3. Minds(t, m) /\ tasks'[t].pc = "idle"
      BY <2>2, <3>1, <3>2, LaunchedCarriesNothing DEF TypeOK, Minds, Ends, Goto
    <3>4. AtRest(m)'
      BY <1>0, <2>1, <2>2, <2>3, <3>1, <3>2
         DEF AtRest, Safe, Stripped, Agrees, Announced
    <3>5. QED
      BY <1>0, <3>2, <3>3, <3>4, PacedStep
  <2>4. CASE ~present[m]
    <3>1. UNCHANGED <<roles, updates>> /\ owed' = [owed EXCEPT ![m] = {}]
      BY <1>0, <1>3, <2>4 DEF UnjailRestore, Accepts, KeepRoles
    <3>2. Minds(t, m) /\ tasks'[t].pc = "idle" /\ owed'[m] = {}
      BY <2>2, <3>1, LaunchedCarriesNothing DEF TypeOK, Minds, Ends, Goto
    <3>3. AtRest(m)'
      BY <1>0, <2>1, <2>2, <2>4, <3>1, <3>2 DEF AtRest, Safe, Stripped, Agrees
    <3>4. Len(updates'[m]) <= 1
      BY <1>0, <3>1
    <3>5. QED
      BY <1>0, <3>2, <3>3, <3>4, PacedStep
  <2>5. QED
    BY <2>3, <2>4
<1>4. CASE UnjailPull(t)
  <2>1. Safe(m) /\ ~jails[m].held
    BY <1>0, <1>4 DEF UnjailPull, Handles
  <2>2. UNCHANGED <<jails, enabled, present, sweep, owed, faults>> /\ Ends(t)
    BY <1>0, <1>4 DEF UnjailPull, NoFault
  <2>3. CASE present[m]
    <3>1. SetRoles(m, roles[m] \ {JailRole})
      BY <1>0, <1>4, <2>3 DEF UnjailPull
    <3>2. /\ roles'[m] = roles[m] \ {JailRole}
          /\ \A n \in Members \ {m} : roles'[n] = roles[n] /\ updates'[n] = updates[n]
          /\ updates'[m] = <<>> \/ updates'[m] = <<roles'[m]>>
          /\ Len(updates'[m]) <= 1
      BY <1>0, <3>1, PacedSetRoles
    <3>3. Minds(t, m) /\ tasks'[t].pc = "idle"
      BY <2>2, <3>2, LaunchedCarriesNothing DEF TypeOK, Minds, Ends, Goto
    <3>4. owed[m] \subseteq roles[m] /\ JailRole \notin owed[m]
      BY <2>1, RoleAssumption DEF TypeOK, Safe
    <3>5. AtRest(m)'
      BY <1>0, <2>1, <2>2, <2>3, <3>2, <3>4
         DEF AtRest, Safe, Stripped, Agrees, Announced
    <3>6. QED
      BY <1>0, <3>2, <3>3, <3>5, PacedStep
  <2>4. CASE ~present[m]
    <3>1. UNCHANGED <<roles, updates>>
      BY <1>0, <1>4, <2>4 DEF UnjailPull, KeepRoles
    <3>2. Stripped(m) /\ Agrees(m)
      BY <2>1, <2>4 DEF Stripped, Agrees
    <3>3. QED
      BY <1>0, <2>1, <2>2, <3>1, <3>2, PacedEnds
  <2>5. QED
    BY <2>3, <2>4
<1>5. QED
  BY <1>1, <1>2, <1>3, <1>4

(* A task that was idle takes up a member, with whom no task is busy.      *)
LEMMA PacedSpawn ==
  ASSUME TypeOK, PacedInv, NEW t \in Tasks, NEW m \in Members,
         tasks[t].pc = "idle", Quiet(m) \/ updates[m] # <<>> \/ m \in sweep,
         \A u \in Tasks \ {t} : tasks'[u] = tasks[u],
         \A n \in Members \ {m} :
           /\ jails'[n] = jails[n] /\ roles'[n] = roles[n] /\ present'[n] = present[n]
           /\ owed'[n] = owed[n] /\ updates'[n] = updates[n]
           /\ n \in sweep' <=> n \in sweep,
         UNCHANGED <<enabled, faults>>,
         tasks'[t].pc # "idle", tasks'[t].m = m,
         updates'[m] = <<>>, m \notin sweep',
         Handles(tasks[t], m)', Duty(t, m)'
  PROVE  PacedInv'
<1>1. \A u \in Tasks : ~Busy(u, m)
  BY PacedMember DEF PacedInv
<1>2. Busy(t, m)' /\ \A u \in Tasks \ {t} : ~Busy(u, m)'
  BY <1>1 DEF Busy
<1>3. PacedOf(m)'
  BY <1>2, PacedBusy
<1>4. \A n \in Members \ {m} : Spares(n)
  BY DEF Spares, Busy
<1>5. QED
  BY <1>3, <1>4, PacedOthers

(* A command, a filter or the gateway's GUILD_MEMBER_ADD starts a handler. *)
LEMMA PacedWorkerStimulus ==
  ASSUME TypeOK, PacedInv, PacedOnly, NEW t \in Workers, NEW m \in Members,
         WorkerStimulus(t, m)
  PROVE  PacedInv'
<1>0. /\ t \in Tasks /\ t # Sweeper
      /\ tasks[t].pc = "idle" /\ Quiet(m)
      /\ PacedOf(m) /\ updates[m] = <<>> /\ m \notin sweep
  BY TaskAssumption DEF WorkerStimulus, JailCommand, TryJail, UnjailCommand, Rejoin,
     Free, Stimulus, PacedOnly, PacedInv, Tasks, Quiet
<1>1. Safe(m) /\ Stripped(m)
  BY <1>0, PacedMember DEF AtRest
<1>2. CASE \/ \E mins \in Minutes : JailCommand(t, m, mins)
           \/ TryJail(t, m) \/ UnjailCommand(t, m)
  <2>1. UNCHANGED <<jails, enabled, roles, present, updates, sweep, owed, faults>>
    BY <1>2 DEF JailCommand, TryJail, UnjailCommand
  <2>2. PICK task : /\ Goto(t, task) /\ task.m = m
                    /\ \/ task.pc = "jail"
                       \/ task.pc = "unjail" /\ "unjail" \in Ops
    <3>1. CASE \E mins \in Minutes : JailCommand(t, m, mins)
      <4>1. PICK mins \in Minutes : Goto(t, [Launched("jail", m) EXCEPT !.mins = mins])
        BY <3>1 DEF JailCommand
      <4>2. /\ [Launched("jail", m) EXCEPT !.mins = mins].pc = "jail"
            /\ [Launched("jail", m) EXCEPT !.mins = mins].m = m
        BY DEF Launched, Idle
      <4>3. QED
        BY <4>1, <4>2
    <3>2. CASE TryJail(t, m)
      BY <3>2, LaunchedCarriesNothing DEF TryJail
    <3>3. CASE UnjailCommand(t, m)
      BY <3>3, LaunchedCarriesNothing DEF UnjailCommand, Stimulus
    <3>4. QED
      BY <1>2, <3>1, <3>2, <3>3
  <2>3. tasks'[t] = task /\ \A u \in Tasks \ {t} : tasks'[u] = tasks[u]
    BY <1>0, <2>2 DEF TypeOK, Goto
  <2>4. Handles(tasks[t], m)'
    BY <1>1, <2>1, <2>2, <2>3 DEF Handles, Safe, Stripped
  <2>5. Duty(t, m)'
    BY <1>0, <2>2, <2>3 DEF Duty, NoOrders, UnjailPCs
  <2>6. QED
    BY <1>0, <2>1, <2>2, <2>3, <2>4, <2>5, PacedSpawn
<1>3. CASE Rejoin(t, m)
  <2>1. /\ ~present[m] /\ Managed = {}
        /\ present' = [present EXCEPT ![m] = TRUE]
        /\ Goto(t, Launched("rejoin", m))
        /\ UNCHANGED <<jails, enabled, roles, updates, sweep, owed, faults>>
    BY <1>3 DEF Rejoin, Stimulus, PacedOnly
  <2>2. /\ tasks'[t].pc = "rejoin" /\ tasks'[t].m = m
        /\ \A u \in Tasks \ {t} : tasks'[u] = tasks[u]
        /\ present'[m] /\ \A n \in Members \ {m} : present'[n] = present[n]
    BY <1>0, <2>1, LaunchedCarriesNothing DEF TypeOK, Goto
  <2>3. roles[m] = {}
    BY <1>1, <2>1 DEF Safe
  <2>4. Handles(tasks[t], m)'
    BY <1>1, <2>1, <2>2, <2>3 DEF Handles, Safe, Stripped
  <2>5. Duty(t, m)'
    BY <1>0, <2>2 DEF Duty, UnjailPCs
  <2>6. QED
    BY <1>0, <2>1, <2>2, <2>4, <2>5, PacedSpawn
<1>4. QED
  BY <1>2, <1>3 DEF WorkerStimulus

(* A change from outside, of a member with whom no task is busy.           *)
LEMMA PacedChange ==
  ASSUME TypeOK, PacedInv, NEW m \in Members, Quiet(m),
         \A n \in Members \ {m} :
           /\ roles'[n] = roles[n] /\ present'[n] = present[n]
           /\ owed'[n] = owed[n] /\ updates'[n] = updates[n],
         UNCHANGED <<jails, enabled, tasks, sweep, faults>>,
         Len(updates'[m]) <= 1, AtRest(m)'
  PROVE  PacedInv'
<1>1. \A t \in Tasks : ~Busy(t, m)'
  BY DEF Quiet, Busy
<1>2. PacedOf(m)'
  BY <1>1, PacedRest DEF Quiet
<1>3. \A n \in Members \ {m} : Spares(n)
  BY DEF Spares
<1>4. QED
  BY <1>2, <1>3, PacedOthers

(* The jail role assigned or taken by hand, another role given, another    *)
(* change of the member, leaving.                                          *)
LEMMA PacedMemberStimulus ==
  ASSUME TypeOK, PacedInv, PacedOnly, NEW m \in Members, MemberStimulus(m)
  PROVE  PacedInv'
<1>0. /\ \/ HandJail(m) \/ HandFree(m) \/ Touch(m) \/ Leave(m)
         \/ \E r \in Roles : Grant(m, r)
      /\ Quiet(m) /\ present[m]
  BY DEF MemberStimulus, HandJail, HandFree, Touch, Leave, Grant, Autorole,
         ToggleManaged, Stimulus, PacedOnly
<1>1. Safe(m) /\ Stripped(m) /\ Agrees(m) /\ updates[m] = <<>> /\ m \notin sweep
  BY <1>0, PacedMember DEF PacedInv, AtRest, Quiet
<1>o. JailRole \notin owed[m] /\ JailRole \notin Managed
  BY RoleAssumption DEF TypeOK
<1>2. CASE HandJail(m) \/ HandFree(m) \/ \E r \in Roles : Grant(m, r)
  <2>1. PICK new : /\ SetRoles(m, new)
                   /\ \/ new = roles[m] \cup {JailRole}
                      \/ new = roles[m] \ {JailRole} /\ ~NoOrders
                      \/ ~NoGrants /\ \E r \in Roles : new = roles[m] \cup {r}
    BY <1>2 DEF HandJail, HandFree, Grant, Stimulus, NoOrders, NoGrants
  <2>2. UNCHANGED <<jails, enabled, present, tasks, sweep, owed, faults>>
    BY <1>2 DEF HandJail, HandFree, Grant
  <2>3. /\ roles'[m] = new
        /\ \A n \in Members \ {m} : roles'[n] = roles[n] /\ updates'[n] = updates[n]
        /\ \/ new = roles[m] /\ updates'[m] = <<>>
           \/ new # roles[m] /\ updates'[m] = <<new>>
        /\ Len(updates'[m]) <= 1
    BY <1>1, <2>1, PacedSetRoles
  <2>4. Safe(m)' /\ Stripped(m)'
    <3>1. new \cap Managed = roles[m] \cap Managed
      BY <1>o, <2>1, RoleAssumption
    <3>2. owed[m] \subseteq roles[m] => owed[m] \subseteq new
      BY <1>o, <2>1
    <3>3. NoGrants /\ owed[m] \cap roles[m] = {} => owed[m] \cap new = {}
      BY <1>o, <2>1
    <3>4. QED
      BY <1>0, <1>1, <2>2, <2>3, <3>1, <3>2, <3>3 DEF Safe, Stripped
  <2>5. CASE updates'[m] = <<>>
    <3>1. AtRest(m)'
      BY <1>1, <2>2, <2>3, <2>4, <2>5 DEF AtRest, Agrees
    <3>2. QED
      BY <1>0, <2>2, <2>3, <3>1, PacedChange
  <2>6. CASE updates'[m] # <<>>
    <3>1. updates'[m][1] = roles'[m]
      BY <2>3, <2>6
    <3>2. Announced(m)'
      BY <1>0, <1>1, <2>1, <2>2, <2>3 DEF Announced, Agrees
    <3>3. AtRest(m)'
      BY <1>0, <1>1, <2>2, <2>4, <2>6, <3>1, <3>2 DEF AtRest
    <3>4. QED
      BY <1>0, <2>2, <2>3, <3>3, PacedChange
  <2>7. QED
    BY <2>5, <2>6
<1>3. CASE Touch(m)
  <2>1. UNCHANGED <<jails, enabled, roles, present, tasks, sweep, owed, faults>>
    BY <1>3 DEF Touch
  <2>2. /\ updates'[m] = <<roles[m]>>
        /\ \A n \in Members \ {m} : updates'[n] = updates[n]
    BY <1>1, <1>3 DEF TypeOK, Touch
  <2>3. Len(updates'[m]) <= 1 /\ updates'[m][1] = roles[m] /\ updates'[m] # <<>>
    BY <2>2
  <2>4. AtRest(m)'
    BY <1>0, <1>1, <2>1, <2>3 DEF AtRest, Safe, Stripped, Agrees, Announced
  <2>5. QED
    BY <1>0, <2>1, <2>2, <2>3, <2>4, PacedChange
<1>4. CASE Leave(m)
  <2>1. /\ Managed = {}
        /\ present' = [present EXCEPT ![m] = FALSE]
        /\ roles' = [roles EXCEPT ![m] = {}]
        /\ owed' = [owed EXCEPT ![m] = IF jails[m].held THEN @ ELSE {}]
        /\ UNCHANGED <<jails, enabled, updates, tasks, sweep, faults>>
    BY <1>4 DEF Leave, Stimulus, PacedOnly
  <2>2. /\ ~present'[m] /\ roles'[m] = {}
        /\ owed'[m] = IF jails[m].held THEN owed[m] ELSE {}
        /\ \A n \in Members \ {m} : /\ present'[n] = present[n]
                                    /\ roles'[n] = roles[n] /\ owed'[n] = owed[n]
    BY <2>1 DEF TypeOK
  <2>3. AtRest(m)'
    BY <1>1, <2>1, <2>2 DEF AtRest, Safe, Stripped, Agrees
  <2>4. Len(updates'[m]) <= 1
    BY <1>1, <2>1
  <2>5. QED
    BY <1>0, <2>1, <2>2, <2>3, <2>4, PacedChange
<1>5. QED
  BY <1>0, <1>2, <1>3, <1>4

(* The gateway hands an update to the watcher.                             *)
LEMMA PacedDeliver ==
  ASSUME TypeOK, PacedInv, NEW t \in Workers, NEW m \in Members, Deliver(t, m)
  PROVE  PacedInv'
<1>0. /\ t \in Tasks /\ t # Sweeper /\ tasks[t].pc = "idle"
      /\ updates[m] # <<>> /\ updates[m] \in Seq(SUBSET AllRoles) /\ PacedOf(m)
  BY TaskAssumption DEF Deliver, Free, Tasks, TypeOK, PacedInv
<1>1. /\ Safe(m) /\ Stripped(m)
      /\ present[m] /\ updates[m][1] = roles[m] /\ Announced(m)
      /\ Len(updates[m]) <= 1 /\ m \notin sweep
  BY <1>0, PacedMember DEF AtRest, PacedOf, Alone
<1>2. Head(updates[m]) = roles[m] /\ Tail(updates[m]) = <<>>
  BY <1>0, <1>1
<1>3. /\ tasks'[t].pc = "watch" /\ tasks'[t].m = m /\ tasks'[t].aim = roles[m]
      /\ \A u \in Tasks \ {t} : tasks'[u] = tasks[u]
  BY <1>0, <1>2 DEF TypeOK, Deliver, Goto, Launched, Idle
<1>4. /\ updates'[m] = <<>> /\ \A n \in Members \ {m} : updates'[n] = updates[n]
      /\ UNCHANGED <<jails, enabled, roles, present, sweep, owed, faults>>
  BY <1>2 DEF TypeOK, Deliver
<1>5. Handles(tasks[t], m)'
  BY <1>1, <1>3, <1>4 DEF Handles, Safe, Stripped, Announced
<1>6. Duty(t, m)'
  BY <1>0, <1>3 DEF Duty, UnjailPCs
<1>7. QED
  BY <1>0, <1>1, <1>3, <1>4, <1>5, <1>6, PacedSpawn

(* The sweep reads its batch, of members nobody is busy with, and releases *)
(* them in turn.                                                           *)
LEMMA PacedSweep ==
  ASSUME TypeOK, PacedInv, PacedOnly,
         SweepStarts \/ \E m \in Members : SweepNext(m)
  PROVE  PacedInv'
<1>1. CASE SweepStarts
  <2>1. /\ sweep = {} /\ sweep' = Due /\ \A m \in Due : Quiet(m)
        /\ UNCHANGED <<jails, enabled, roles, present, updates, tasks, owed, faults>>
    BY <1>1 DEF SweepStarts, SweepTick, PacedOnly
  <2>2. ASSUME NEW m \in Members PROVE PacedOf(m)'
    <3>1. PacedOf(m)
      BY DEF PacedInv
    <3>2. CASE m \notin Due
      <4>1. Spares(m)
        BY <2>1, <3>2 DEF Spares
      <4>2. QED
        BY <3>1, <4>1, PacedSpared
    <3>3. CASE m \in Due
      <4>1. Quiet(m)
        BY <2>1, <3>3
      <4>2. AtRest(m) /\ updates[m] = <<>>
        BY <3>1, <4>1, PacedMember DEF Quiet
      <4>3. AtRest(m)'
        BY <2>1, <4>2 DEF AtRest, Safe, Stripped, Agrees
      <4>4. /\ \A t \in Tasks : ~Busy(t, m)'
            /\ updates'[m] = <<>> /\ Len(updates'[m]) <= 1
        BY <2>1, <4>1, <4>2 DEF Quiet, Busy
      <4>5. QED
        BY <4>3, <4>4, PacedRest
    <3>4. QED
      BY <3>2, <3>3
  <2>3. QED
    BY <2>1, <2>2 DEF PacedInv
<1>2. ASSUME NEW m \in Members, SweepNext(m) PROVE PacedInv'
  <2>1. /\ Sweeper \in Tasks /\ tasks[Sweeper].pc = "idle" /\ m \in sweep
        /\ PacedOf(m)
    BY <1>2 DEF SweepNext, Tasks, PacedInv
  <2>2. /\ Safe(m) /\ Stripped(m)
        /\ updates[m] = <<>>
    BY <2>1, PacedMember DEF AtRest, PacedOf, Alone
  <2>3. /\ tasks'[Sweeper].pc = "unjail" /\ tasks'[Sweeper].m = m
        /\ \A u \in Tasks \ {Sweeper} : tasks'[u] = tasks[u]
        /\ sweep' = sweep \ {m}
        /\ UNCHANGED <<jails, enabled, roles, present, updates, owed, faults>>
    BY <1>2, <2>1, LaunchedCarriesNothing DEF TypeOK, SweepNext, Goto
  <2>4. Handles(tasks[Sweeper], m)'
    BY <2>2, <2>3 DEF Handles, Safe, Stripped
  <2>5. Duty(Sweeper, m)'
    BY <2>3 DEF Duty, UnjailPCs
  <2>6. QED
    BY <2>1, <2>2, <2>3, <2>4, <2>5, PacedSpawn
<1>3. QED
  BY <1>1, <1>2

(* Every member starts at rest.                                            *)
LEMMA PacedInit == PacedOnly /\ Init => PacedInv
<1> SUFFICES ASSUME PacedOnly, Init, NEW m \in Members PROVE PacedOf(m)
  BY DEF PacedOnly, Init, PacedInv
<1>1. \A t \in Tasks : ~Busy(t, m)
  BY LaunchedCarriesNothing DEF Init, Busy
<1>2. /\ updates[m] = <<>> /\ m \notin sweep /\ Len(updates[m]) <= 1
      /\ ~jails[m].held /\ present[m]
      /\ owed[m] = roles[m] \cap Roles /\ roles[m] \in SUBSET (Roles \cup Managed)
  BY DEF Init, NoRecord
<1>3. AtRest(m)
  BY <1>2, RoleAssumption DEF AtRest, Safe, Stripped, Agrees
<1>4. QED
  BY <1>1, <1>2, <1>3 DEF PacedOf, Alone

(* The invariant is inductive where a stimulus for a member waits until    *)
(* nothing is in flight.                                                   *)
LEMMA PacedNext ==
  ASSUME PacedOnly
  PROVE  TypeOK /\ PacedInv /\ [Next]_vars => PacedInv'
<1> SUFFICES ASSUME TypeOK, PacedInv, [Next]_vars PROVE PacedInv'
  OBVIOUS
<1>1. ASSUME NEW t \in Tasks, TaskStep(t) PROVE PacedInv'
  <2>1. PICK m \in Members : m = tasks[t].m
    BY DEF TypeOK, TaskState
  <2>2. QED
    BY <1>1, <2>1, PacedRejoin, PacedJail, PacedUnjail DEF TaskStep
<1>2. CASE (\E b \in BOOLEAN : SetJail(b)) \/ Tick \/ UNCHANGED vars
  <2>1. /\ UNCHANGED <<jails, roles, present, updates, tasks, sweep, owed, faults>>
        /\ LeftOn => enabled' = enabled
    BY <1>2 DEF SetJail, Tick, LeftOn, vars
  <2>2. \A n \in Members : Spares(n)
    BY <2>1 DEF Spares
  <2>3. QED
    BY <2>1, <2>2, PacedSpared DEF PacedInv
<1>3. ~Crash
  BY DEF PacedOnly, Crash
<1>4. QED
  BY <1>1, <1>2, <1>3, PacedDeliver, PacedSweep, PacedMemberStimulus,
     PacedWorkerStimulus DEF Next

(* A jailing, a release, an expiry and a rejoin that do not overlap lose   *)
(* none of the member's ordinary roles, whatever the guild, and even if    *)
(* /setjail turns the jail off and on meanwhile.                           *)
THEOREM PacedKeepsSnapshots ==
  ASSUME PacedOnly
  PROVE  Spec => []NoSnapshotLoss
<1>1. Init => PacedInv
  BY PacedInit
<1>2. TypeOK /\ PacedInv /\ [Next]_vars => PacedInv'
  BY PacedNext
<1>3. TypeOK /\ PacedInv => NoSnapshotLoss
  <2> SUFFICES ASSUME TypeOK, PacedInv, NEW m \in Members, present[m]
               PROVE  owed[m] \subseteq Recoverable(m)
    BY DEF NoSnapshotLoss
  <2>1. CASE Safe(m)
    BY <2>1 DEF Safe, Recoverable
  <2>2. CASE ~Safe(m)
    <3>1. PICK t \in Tasks : Busy(t, m) /\ Handles(tasks[t], m)
      BY <2>2 DEF PacedInv, PacedOf, AtRest
    <3>2. /\ tasks[t].pc = "restore" /\ tasks[t].m = m
          /\ owed[m] \subseteq tasks[t].prior
      BY <2>2, <3>1 DEF Handles, Busy
    <3>3. QED
      BY <3>2 DEF Recoverable
  <2>3. QED
    BY <2>1, <2>2
<1>4. QED
  BY <1>1, <1>2, <1>3, TypeCorrect, PTL DEF Spec

(* And while the jail is on, once nothing is in flight for a member, the   *)
(* jail role is worn exactly while a record is held, and then none of the  *)
(* roles it keeps, unless somebody gave one back.                          *)
THEOREM StoreAgreesWithDiscord ==
  ASSUME PacedOnly, LeftOn, NoGrants
  PROVE  Spec => []JailedIffRecord
<1>1. Init => PacedInv
  BY PacedInit
<1>2. TypeOK /\ PacedInv /\ [Next]_vars => PacedInv'
  BY PacedNext
<1>3. PacedInv => JailedIffRecord
  <2> SUFFICES ASSUME PacedInv, NEW m \in Members, present[m], Quiet(m)
               PROVE  /\ JailRole \in roles[m] <=> jails[m].held
                      /\ jails[m].held => owed[m] \cap roles[m] = {}
    BY DEF JailedIffRecord
  <2>1. AtRest(m) /\ updates[m] = <<>>
    BY PacedMember DEF PacedInv, Quiet
  <2>2. QED
    BY <2>1 DEF AtRest, Agrees, Stripped
<1>4. QED
  BY <1>1, <1>2, <1>3, TypeCorrect, PTL DEF Spec

(* Where no moderator orders a release, nothing but the end of the         *)
(* sentence takes a record: not leaving and rejoining, not the watcher,    *)
(* and no strip fails that a roll-back would follow.                       *)
THEOREM OnlyTimeReleases ==
  ASSUME PacedOnly, LeftOn, NoOrders
  PROVE  Spec => [][\A m \in Members : Released(m) => PastDue(m)]_vars
<1> DEFINE Keeps == \A m \in Members : Released(m) => PastDue(m)
<1>1. Init => PacedInv
  BY PacedInit
<1>2. TypeOK /\ PacedInv /\ [Next]_vars => PacedInv'
  BY PacedNext
<1>3. TypeOK /\ PacedInv /\ SweepInv /\ [Next]_vars => [Keeps]_vars
  <2> SUFFICES ASSUME TypeOK, PacedInv, SweepInv, Next, NEW m \in Members, Released(m)
               PROVE  PastDue(m)
    BY DEF vars
  <2>1. PICK t \in Tasks : TaskStep(t) /\ jails' # jails
    BY OthersKeepRecords DEF Released, Next
  <2>2. JailRecord(t) \/ JailStrip(t) \/ UnjailRemove(t)
    BY <2>1, RecordsChange
  <2> DEFINE task == tasks[t]
  <2>3. /\ task.m \in Members /\ task.pc # "idle"
    BY <2>2 DEF TypeOK, TaskState, JailRecord, JailStrip, UnjailRemove
  <2>4. /\ ~Fault /\ jails[task.m] \in Record
        /\ Handles(task, task.m) /\ Duty(t, task.m)
    BY <2>3, PacedTask
  <2>5. ~JailRecord(t)
    BY RecordingKeeps
  <2>6. ~JailStrip(t)
    <3> SUFFICES ASSUME JailStrip(t) PROVE FALSE
      OBVIOUS
    <3>1. task.fresh /\ ~Accepts(task.m, task.aim)
      BY <2>1, <2>4 DEF JailStrip
    <3>2. present[task.m] /\ task.aim = JailedRoles(task.m)
      BY <2>4, <3>1 DEF JailStrip, Handles
    <3>3. JailedRoles(task.m) \cap Managed = roles[task.m] \cap Managed
      BY RoleAssumption DEF JailedRoles
    <3>4. QED
      BY <3>1, <3>2, <3>3 DEF Accepts
  <2>7. CASE UnjailRemove(t)
    <3>1. task.m = m
      BY <2>3, <2>7 DEF TypeOK, UnjailRemove, Released
    <3>2. t = Sweeper /\ task.pc = "remove"
      BY <2>4, <2>7 DEF Duty, UnjailRemove, UnjailPCs
    <3>3. QED
      BY <3>1, <3>2 DEF SweepInv, SweptOf, Busy
  <2>8. QED
    BY <2>2, <2>5, <2>6, <2>7
<1>4. Spec => []SweepInv
  BY Swept DEF PacedOnly
<1>5. QED
  BY <1>1, <1>2, <1>3, <1>4, TypeCorrect, PTL DEF Spec

=============================================================================
