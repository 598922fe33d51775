---------------------------- MODULE CasesProofs ----------------------------
(***************************************************************************)
(* For every number of guilds, users, handlers, stimuli and failures: the  *)
(* tables keep their shape, the cases implement the append-only log, no    *)
(* escalation is missed, and sanctions and their cases belong together.    *)
(***************************************************************************)
EXTENDS Cases, SequenceTheorems, FiniteSetTheorems, TLAPS

-----------------------------------------------------------------------------
(* Rows. *)

(* A row put under the next number is appended.                            *)
LEMMA PutNext ==
  ASSUME NEW S, NEW rows \in Seq(S), NEW row \in S
  PROVE  Put(rows, Len(rows) + 1, row) = Append(rows, row)
<1>1. DOMAIN rows \cup {Len(rows) + 1} = 1 .. (Len(rows) + 1)
  OBVIOUS
<1>2. Put(rows, Len(rows) + 1, row)
        = [i \in 1 .. (Len(rows) + 1) |-> IF i = Len(rows) + 1 THEN row ELSE rows[i]]
  BY <1>1 DEF Put
<1>3. /\ Put(rows, Len(rows) + 1, row) \in Seq(S)
      /\ Len(Put(rows, Len(rows) + 1, row)) = Len(rows) + 1
  BY <1>2
<1>4. \A i \in 1 .. (Len(rows) + 1) :
        Put(rows, Len(rows) + 1, row)[i] = Append(rows, row)[i]
  BY <1>2
<1> QED
  BY <1>3, <1>4, SeqEqual, AppendProperties

(* The counter of a typed state is the length of the table.                *)
LEMMA SeqIsLen ==
  ASSUME TypeOK, NEW g \in Guilds
  PROVE  /\ seq[g] = Len(cases[g])
         /\ cases[g] \in Seq(Case)
BY DEF TypeOK

(* add_case appends to the cases of its guild and to no other's.           *)
LEMMA AddCaseAppends ==
  ASSUME TypeOK, NEW g \in Guilds, NEW c \in Case, AddCase(g, c)
  PROVE  /\ cases' = [cases EXCEPT ![g] = Append(@, c)]
         /\ cases' \in [Guilds -> Seq(Case)]
         /\ seq' \in [Guilds -> Nat]
         /\ \A h \in Guilds : DOMAIN cases'[h] = 1 .. seq'[h]
<1>1. Put(cases[g], NextCaseNumber(seq[g]), c) = Append(cases[g], c)
  BY SeqIsLen, PutNext DEF NextCaseNumber
<1>2. cases' = [cases EXCEPT ![g] = Append(@, c)]
  BY <1>1 DEF AddCase, TypeOK
<1>3. seq' = [seq EXCEPT ![g] = @ + 1]
  BY DEF AddCase, NextCaseNumber, TypeOK
<1>4. cases' \in [Guilds -> Seq(Case)]
  BY <1>2 DEF TypeOK
<1>5. ASSUME NEW h \in Guilds PROVE DOMAIN cases'[h] = 1 .. seq'[h]
  <2>1. CASE h = g
    BY <1>2, <1>3, <2>1, SeqIsLen DEF TypeOK
  <2>2. CASE h # g
    BY <1>2, <1>3, <2>2 DEF TypeOK
  <2> QED BY <2>1, <2>2
<1> QED
  BY <1>2, <1>3, <1>4, <1>5 DEF TypeOK

-----------------------------------------------------------------------------
(* Types. *)

(* The initial state is typed.                                             *)
LEMMA TypeInit == Init => TypeOK
BY PolicyAssumption, PartiesAssumption, NumberAssumption
   DEF Init, TypeOK, Tally, Idle, TaskState, Actions, Sanctions, Sources

(* A stimulus keeps the types.                                             *)
LEMMA TypeHandle ==
  ASSUME TypeOK, NEW t \in Workers, NEW g \in Guilds, NEW u \in Users,
         Handle(t, g, u)
  PROVE  TypeOK'
<1>1. CASE Warn(t, g, u)
  <2> DEFINE c == [user |-> u, action |-> "warn", source |-> "mod", created |-> now]
  <2>1. c \in Case
    BY DEF TypeOK, Case, Actions, Sources
  <2>2. CASE AddCase(g, c) /\ Goto(t, [pc |-> "count", guild |-> g, user |-> u,
               action |-> "warn", source |-> "mod",
               id |-> NextCaseNumber(seq[g]), at |-> now])
    <3>1. tasks' \in [Workers -> TaskState]
      BY <2>2 DEF TypeOK, TaskState, Goto, Actions, Sources, NextCaseNumber
    <3>2. storeFaults' = storeFaults
      BY <2>2 DEF AddCase
    <3>3. /\ cases' \in [Guilds -> Seq(Case)] /\ seq' \in [Guilds -> Nat]
          /\ \A h \in Guilds : DOMAIN cases'[h] = 1 .. seq'[h]
      BY <2>1, <2>2, AddCaseAppends
    <3>4. stimuli' \in Nat /\ UNCHANGED <<policy, now, acted, uncased, judged, faults>>
      BY <1>1 DEF Warn, Stimulus, TypeOK
    <3> QED
      BY <3>1, <3>2, <3>3, <3>4 DEF TypeOK
  <2>3. CASE AddCaseFails /\ UNCHANGED tasks
    BY <1>1, <2>3 DEF Warn, Stimulus, AddCaseFails, TypeOK
  <2> QED
    BY <1>1, <2>2, <2>3 DEF Warn
<1>2. ASSUME NEW op, NEW a \in Actions, NEW pc \in {"act", "log"},
             NEW s \in Sources, Sanction(t, op, g, u, a, pc, s)
      PROVE  TypeOK'
  <2>1. tasks' \in [Workers -> TaskState]
    BY <1>2 DEF Sanction, TypeOK, TaskState, Goto
  <2> QED
    BY <1>2, <2>1 DEF Sanction, Stimulus, TypeOK
<1>3. CASE ModCommand(t, g, u)
  BY <1>2, <1>3 DEF ModCommand, Actions, Sanctions, Sources
<1>4. CASE GateJoin(t, g, u)
  BY <1>2, <1>4 DEF GateJoin, Actions, Sanctions, Sources
<1>5. CASE ContentAction(t, g, u)
  BY <1>2, <1>5 DEF ContentAction, Actions, Sanctions, Sources
<1>6. CASE SilentAction(t, g, u)
  BY <1>2, <1>6 DEF SilentAction, Actions, Sanctions, Sources
<1> QED
  BY <1>1, <1>3, <1>4, <1>5, <1>6 DEF Handle

(* A task about to ask Discord asks for a sanction.                        *)
ActsOnSanctions ==
  \A t \in Workers : tasks[t].pc = "act" => tasks[t].action \in Sanctions

(* A handler's step keeps the types.                                       *)
LEMMA TypeTask ==
  ASSUME TypeOK, ActsOnSanctions, NEW t \in Workers, TaskStep(t)
  PROVE  TypeOK'
<1> USE DEF Goto
<1>0. tasks[t] \in TaskState
  BY DEF TypeOK
<1>1. CASE Act(t)
  <2>1. tasks' \in [Workers -> TaskState]
    <3>1. Idle \in TaskState /\ [tasks[t] EXCEPT !.pc = "log"] \in TaskState
      BY <1>0, PartiesAssumption DEF Idle, TaskState, Actions, Sources
    <3> QED BY <1>1, <3>1 DEF Act, AfterFailure, AfterSanction, TypeOK
  <2>2. acted' \in Tally /\ uncased' \in Tally
    <3>1. tasks[t].action \in Sanctions
      BY <1>1 DEF Act, ActsOnSanctions
    <3>2. tasks[t].guild \in Guilds /\ tasks[t].user \in Users
      BY <1>0 DEF TaskState
    <3>3. ASSUME NEW tally \in Tally PROVE OneMore(tally, tasks[t]) \in Tally
      <4> DEFINE g == tasks[t].guild  u == tasks[t].user  a == tasks[t].action
      <4> HIDE DEF g, u, a
      <4>1. g \in Guilds /\ u \in Users /\ a \in Sanctions
        BY <3>1, <3>2 DEF g, u, a
      <4>2. [tally[g][u] EXCEPT ![a] = @ + 1] \in [Sanctions -> Nat]
        BY <4>1 DEF Tally
      <4>3. [tally EXCEPT ![g][u][a] = @ + 1] \in Tally
        BY <4>1, <4>2 DEF Tally
      <4> QED BY <4>3 DEF OneMore, g, u, a
    <3> QED BY <1>1, <3>3 DEF Act, TypeOK
  <2> QED BY <1>1, <2>1, <2>2 DEF Act, TypeOK
<1>2. CASE LogCase(t)
  <2> DEFINE c == [user |-> tasks[t].user, action |-> tasks[t].action,
                   source |-> tasks[t].source, created |-> Created(tasks[t])]
  <2>1. c \in Case /\ tasks[t].guild \in Guilds
    BY <1>0 DEF TypeOK, TaskState, Case, Created
  <2>2. tasks' \in [Workers -> TaskState]
    BY <1>2, PartiesAssumption
       DEF LogCase, Ends, Idle, TaskState, TypeOK, Actions, Sources
  <2>3. CASE AddCase(tasks[t].guild, c)
    BY <1>2, <2>1, <2>2, <2>3, AddCaseAppends DEF LogCase, TypeOK, AddCase
  <2>4. CASE AddCaseFails
    BY <1>2, <2>2, <2>4 DEF LogCase, TypeOK, AddCaseFails
  <2> QED BY <1>2, <2>3, <2>4 DEF LogCase
<1>3. CASE Count(t)
  <2> DEFINE p == policy[tasks[t].guild]
             esc == WarnEscalates(p, tasks[t].guild, tasks[t].user,
                                  tasks[t].id, tasks[t].at)
  <2>1. p \in Policies /\ p.action \in Actions
    BY <1>0, PolicyAssumption DEF TypeOK, TaskState, Policy, Actions, Sanctions
  <2>2. esc \in BOOLEAN
    BY DEF WarnEscalates, Reaches
  <2>3. judged' \in [Guilds -> SUBSET Verdict]
    BY <1>0, <1>3, <2>1, <2>2 DEF Count, TypeOK, TaskState, Verdict
  <2>4. tasks' \in [Workers -> TaskState]
    <3>1. Idle \in TaskState
      BY PartiesAssumption DEF Idle, TaskState, Actions, Sources
    <3>2. [tasks[t] EXCEPT !.pc = "act", !.action = p.action,
                           !.source = "escalation"] \in TaskState
      BY <1>0, <2>1 DEF TaskState, Sources
    <3> QED BY <1>3, <3>1, <3>2 DEF Count, TypeOK
  <2> QED BY <1>3, <2>3, <2>4 DEF Count, TypeOK
<1> QED
  BY <1>1, <1>2, <1>3 DEF TaskStep

(* No other step touches a type.                                           *)
LEMMA TypeNext == ASSUME TypeOK, ActsOnSanctions, [Next]_vars PROVE TypeOK'
<1>1. ASSUME NEW t \in Workers, TaskStep(t) PROVE TypeOK'
  BY <1>1, TypeTask
<1>2. ASSUME NEW t \in Workers, NEW g \in Guilds, NEW u \in Users, Handle(t, g, u)
      PROVE  TypeOK'
  BY <1>2, TypeHandle
<1>3. ASSUME NEW g \in Guilds, NEW u \in Users, Note(g, u) PROVE TypeOK'
  <2> DEFINE c == [user |-> u, action |-> "note", source |-> "mod", created |-> now]
  <2>1. c \in Case
    BY DEF TypeOK, Case, Actions, Sources
  <2>2. CASE AddCase(g, c)
    <3>1. storeFaults' = storeFaults
      BY <2>2 DEF AddCase
    <3>2. /\ cases' \in [Guilds -> Seq(Case)] /\ seq' \in [Guilds -> Nat]
          /\ \A h \in Guilds : DOMAIN cases'[h] = 1 .. seq'[h]
      BY <2>1, <2>2, AddCaseAppends
    <3> QED BY <1>3, <3>1, <3>2 DEF Note, Stimulus, TypeOK
  <2>3. CASE AddCaseFails
    BY <1>3, <2>3 DEF Note, Stimulus, AddCaseFails, TypeOK
  <2> QED BY <1>3, <2>2, <2>3 DEF Note
<1>4. ASSUME NEW g \in Guilds, NEW p \in Policies, SetEscalation(g, p) PROVE TypeOK'
  BY <1>4 DEF SetEscalation, Stimulus, TypeOK
<1>5. CASE Crash
  BY <1>5, PartiesAssumption
     DEF Crash, Stimulus, TypeOK, Idle, TaskState, Actions, Sources
<1>6. CASE Tick
  BY <1>6 DEF Tick, TypeOK
<1>7. CASE UNCHANGED vars
  BY <1>7 DEF vars, TypeOK
<1> QED
  BY <1>1, <1>2, <1>3, <1>4, <1>5, <1>6, <1>7 DEF Next

(* Only the two paths that ask Discord lead to "act".                      *)
LEMMA ActsNext == ASSUME TypeOK, ActsOnSanctions, [Next]_vars PROVE ActsOnSanctions'
<1> USE DEF ActsOnSanctions, Goto
<1>1. ASSUME NEW t \in Workers, TaskStep(t) PROVE ActsOnSanctions'
  <2>1. tasks[t] \in TaskState
    BY DEF TypeOK
  <2>2. policy[tasks[t].guild].action \in Sanctions
    BY <2>1, PolicyAssumption DEF TypeOK, TaskState, Policy, Sanctions
  <2>3. tasks'[t].pc = "act" => tasks'[t].action = policy[tasks[t].guild].action
    <3>1. CASE Act(t)
      BY <2>1, <3>1 DEF Act, AfterFailure, AfterSanction, Idle, TypeOK, TaskState
    <3>2. CASE LogCase(t)
      BY <2>1, <3>2 DEF LogCase, Ends, Idle, TypeOK
    <3>3. CASE Count(t)
      BY <2>1, <3>3 DEF Count, Idle, TypeOK, TaskState
    <3> QED BY <1>1, <3>1, <3>2, <3>3 DEF TaskStep
  <2>4. tasks' = [tasks EXCEPT ![t] = tasks'[t]]
    BY <1>1 DEF TaskStep, Act, LogCase, Ends, Count, TypeOK
  <2> QED BY <2>2, <2>3, <2>4 DEF TypeOK
<1>2. ASSUME NEW t \in Workers, NEW g \in Guilds, NEW u \in Users, Handle(t, g, u)
      PROVE  ActsOnSanctions'
  <2>1. CASE Warn(t, g, u)
    <3> DEFINE counting == [pc |-> "count", guild |-> g, user |-> u,
                            action |-> "warn", source |-> "mod",
                            id |-> NextCaseNumber(seq[g]), at |-> now]
    <3>1. counting.pc = "count"
      OBVIOUS
    <3>2. tasks' = tasks \/ tasks' = [tasks EXCEPT ![t] = counting]
      BY <2>1 DEF Warn
    <3> HIDE DEF counting
    <3> QED BY <3>1, <3>2 DEF TypeOK
  <2>2. ASSUME NEW op, NEW a \in Actions, NEW pc, NEW s,
               pc = "act" => a \in Sanctions, Sanction(t, op, g, u, a, pc, s)
        PROVE  ActsOnSanctions'
    BY <2>2 DEF Sanction, TypeOK
  <2>3. CASE ModCommand(t, g, u)
    BY <2>2, <2>3 DEF ModCommand, Actions, Sanctions
  <2>4. CASE GateJoin(t, g, u)
    BY <2>2, <2>4 DEF GateJoin, Actions, Sanctions
  <2>5. CASE ContentAction(t, g, u)
    BY <2>2, <2>5 DEF ContentAction, Actions, Sanctions
  <2>6. CASE SilentAction(t, g, u)
    BY <2>2, <2>6 DEF SilentAction, Actions, Sanctions
  <2> QED BY <1>2, <2>1, <2>3, <2>4, <2>5, <2>6 DEF Handle
<1>3. CASE UNCHANGED tasks
  BY <1>3
<1>4. CASE Crash
  BY <1>4 DEF Crash, Idle
<1> QED
  BY <1>1, <1>2, <1>3, <1>4 DEF Next, Note, SetEscalation, Tick, vars

(***************************************************************************)
(* Type correctness: the tables keep their shape, whatever interleaves.    *)
(***************************************************************************)
THEOREM CasesTyped == Spec => [](TypeOK /\ ActsOnSanctions)
<1>1. Init => TypeOK /\ ActsOnSanctions
  BY TypeInit DEF Init, ActsOnSanctions, Idle
<1>2. TypeOK /\ ActsOnSanctions /\ [Next]_vars => (TypeOK /\ ActsOnSanctions)'
  BY TypeNext, ActsNext
<1> QED
  BY <1>1, <1>2, PTL DEF Spec

-----------------------------------------------------------------------------
(* The log. *)

(* What a step does to the tables.                                         *)
LEMMA OneCaseMore ==
  ASSUME TypeOK, [Next]_vars
  PROVE  \/ UNCHANGED <<cases, seq>>
         \/ \E g \in Guilds, c \in Case : AddCase(g, c)
<1>1. ASSUME NEW t \in Workers, LogCase(t)
      PROVE  UNCHANGED <<cases, seq>> \/ \E g \in Guilds, c \in Case : AddCase(g, c)
  <2>1. tasks[t] \in TaskState
    BY DEF TypeOK
  <2>2. [user |-> tasks[t].user, action |-> tasks[t].action,
         source |-> tasks[t].source, created |-> Created(tasks[t])] \in Case
    BY <2>1 DEF TypeOK, TaskState, Case, Created
  <2> QED BY <1>1, <2>1, <2>2 DEF LogCase, AddCaseFails, TaskState
<1>2. ASSUME NEW g \in Guilds, NEW u \in Users
      PROVE  \A a \in {"warn", "note"} :
               [user |-> u, action |-> a, source |-> "mod", created |-> now] \in Case
  BY DEF TypeOK, Case, Actions, Sources
<1>3. ASSUME NEW t \in Workers, NEW g \in Guilds, NEW u \in Users, Handle(t, g, u)
      PROVE  UNCHANGED <<cases, seq>> \/ \E h \in Guilds, c \in Case : AddCase(h, c)
  <2>1. CASE Warn(t, g, u)
    BY <1>2, <2>1 DEF Warn, AddCaseFails
  <2> QED
    BY <1>3, <2>1 DEF Handle, ModCommand, GateJoin, ContentAction, SilentAction, Sanction
<1>4. ASSUME NEW g \in Guilds, NEW u \in Users, Note(g, u)
      PROVE  UNCHANGED <<cases, seq>> \/ \E h \in Guilds, c \in Case : AddCase(h, c)
  BY <1>2, <1>4 DEF Note, AddCaseFails
<1>5. CASE UNCHANGED <<cases, seq>>
  BY <1>5
<1> QED
  BY <1>1, <1>3, <1>4, <1>5
     DEF Next, TaskStep, Act, Count, SetEscalation, Crash, Tick, vars

(***************************************************************************)
(* The refinement: add_case, called by any handler at any time, writes an  *)
(* append-only log; no number is skipped, reused or overwritten.           *)
(***************************************************************************)
THEOREM CasesAreALog == Spec => LogSpec
<1>1. Init => CL!Init
  BY DEF Init, CL!Init
<1>2. TypeOK /\ [Next]_vars => [CL!Next]_cases
  <2> SUFFICES ASSUME TypeOK, [Next]_vars PROVE [CL!Next]_cases
    OBVIOUS
  <2>1. CASE UNCHANGED <<cases, seq>>
    BY <2>1
  <2>2. ASSUME NEW g \in Guilds, NEW c \in Case, AddCase(g, c)
        PROVE  CL!Write(g)
    <3>1. cases' = [cases EXCEPT ![g] = Append(@, c)]
      BY <2>2, AddCaseAppends
    <3>2. cases[g] \in Seq(Case) /\ cases'[g] = Append(cases[g], c)
      BY <3>1 DEF TypeOK
    <3>3. /\ Len(cases[g]) + 1 \in DOMAIN cases'[g]
          /\ cases'[g][Len(cases[g]) + 1] = c
      BY <3>2
    <3> QED BY <3>1, <3>3 DEF CL!Write
  <2> QED BY <2>1, <2>2, OneCaseMore DEF CL!Next
<1> QED
  BY <1>1, <1>2, CasesTyped, PTL DEF Spec, LogSpec, CL!Spec

-----------------------------------------------------------------------------
(***************************************************************************)
(* For every policy and every interleaving of the handlers: no escalation  *)
(* is missed.                                                              *)
(***************************************************************************)

(***************************************************************************)
(* The inductive invariant: a handler that counts carries a case of its    *)
(* own warn, every judged warn is a case, and no verdict is too lenient.   *)
(* Rows never change, so a verdict that was right stays right.             *)
(***************************************************************************)
CarriesItsWarn ==
  \A t \in Workers : tasks[t].pc = "count" =>
    LET g == tasks[t].guild  id == tasks[t].id IN
    /\ id \in DOMAIN cases[g]
    /\ cases[g][id].user = tasks[t].user
    /\ cases[g][id].created = tasks[t].at

JudgedIsCase ==
  \A g \in Guilds : \A v \in judged[g] : v.id \in DOMAIN cases[g]

EscInv == TypeOK /\ ActsOnSanctions /\ CarriesItsWarn /\ JudgedIsCase /\ NoMissedEscalation

-----------------------------------------------------------------------------
(* Rows stay. *)

(* The rows of this state are rows of the next.                            *)
Kept == \A h \in Guilds : \A i \in DOMAIN cases[h] :
          i \in DOMAIN cases'[h] /\ cases'[h][i] = cases[h][i]

(* Appending keeps the rows.                                               *)
LEMMA AddCaseKeeps ==
  ASSUME TypeOK, NEW g \in Guilds, NEW c \in Case, AddCase(g, c)
  PROVE  Kept
<1>1. cases' = [cases EXCEPT ![g] = Append(@, c)]
  BY AddCaseAppends
<1>2. SUFFICES ASSUME NEW h \in Guilds, NEW i \in DOMAIN cases[h]
               PROVE  i \in DOMAIN cases'[h] /\ cases'[h][i] = cases[h][i]
  BY DEF Kept
<1>3. cases[h] \in Seq(Case) /\ cases[g] \in Seq(Case)
  BY DEF TypeOK
<1>4. CASE h = g
  <2>1. cases'[h] = Append(cases[h], c)
    BY <1>1, <1>4 DEF TypeOK
  <2> QED BY <2>1, <1>3
<1>5. CASE h # g
  BY <1>1, <1>5 DEF TypeOK
<1> QED BY <1>4, <1>5

(* Every step keeps the rows.                                              *)
LEMMA StepKeeps == ASSUME TypeOK, [Next]_vars PROVE Kept
BY OneCaseMore, AddCaseKeeps DEF Kept

(***************************************************************************)
(* Whether a case reached the threshold is settled when it is written:     *)
(* later cases have later numbers.                                         *)
(***************************************************************************)
LEMMA ReachedStays ==
  ASSUME TypeOK, TypeOK', Kept, NEW g \in Guilds, NEW id \in DOMAIN cases[g],
         NEW p \in Policies
  PROVE  ReachedBy(g, id, p)' <=> ReachedBy(g, id, p)
<1>1. ASSUME NEW i \in DOMAIN cases'[g], i <= id PROVE i \in DOMAIN cases[g]
  BY <1>1 DEF TypeOK
<1>2. \A i \in DOMAIN cases[g] : i \in DOMAIN cases'[g] /\ cases'[g][i] = cases[g][i]
  BY DEF Kept
<1>3. WarnsUpTo(g, id, p)' = WarnsUpTo(g, id, p)
  BY <1>1, <1>2 DEF WarnsUpTo
<1> QED
  BY <1>3 DEF ReachedBy

(* The cases of a user are finitely many.                                  *)
LEMMA CasesOfIsFinite ==
  ASSUME TypeOK, NEW g \in Guilds, NEW u
  PROVE  IsFiniteSet(CasesOf(g, u)) /\ Cardinality(CasesOf(g, u)) \in Nat
<1>1. CasesOf(g, u) \subseteq 1 .. seq[g] /\ seq[g] \in Nat
  BY DEF CasesOf, TypeOK
<1>2. IsFiniteSet(1 .. seq[g])
  BY <1>1, FS_Interval
<1> QED
  BY <1>1, <1>2, FS_Subset, FS_CardinalityType

(* A list that is long enough is complete.                                 *)
LEMMA ListIsComplete ==
  ASSUME TypeOK, NEW g \in Guilds, NEW u, FitsTheList(g, u)
  PROVE  Listed(g, u) = CasesOf(g, u)
<1> SUFFICES ASSUME NEW i \in CasesOf(g, u)
             PROVE  Cardinality({j \in CasesOf(g, u) : j > i}) < ListLimit
  BY DEF Listed
<1> DEFINE C == CasesOf(g, u)  N == {j \in C : j > i}
<1>1. IsFiniteSet(C) /\ Cardinality(C) \in Nat
  BY CasesOfIsFinite
<1>2. i \in C /\ i \in Nat
  <2>1. i \in 1 .. seq[g] /\ seq[g] \in Nat
    BY DEF CasesOf, TypeOK
  <2> QED
    BY <2>1
<1>3. N \subseteq C \ {i}
  BY <1>2
<1>4. ListLimit \in Nat /\ Cardinality(C) <= ListLimit
  BY NumberAssumption DEF FitsTheList
<1> HIDE DEF C, N
<1>5. IsFiniteSet(C \ {i}) /\ Cardinality(C \ {i}) = Cardinality(C) - 1
  BY <1>1, <1>2, FS_RemoveElement
<1>6. Cardinality(N) <= Cardinality(C \ {i}) /\ Cardinality(N) \in Nat
  BY <1>3, <1>5, FS_Subset, FS_CardinalityType
<1>7. Cardinality(N) < ListLimit
  BY <1>1, <1>4, <1>5, <1>6
<1> QED
  BY <1>7 DEF N, C

(* Cases are only added: who fits the list has always fitted it.           *)
LEMMA FitsStays ==
  ASSUME TypeOK, TypeOK', Kept, NEW g \in Guilds, NEW u, FitsTheList(g, u)'
  PROVE  FitsTheList(g, u)
<1> DEFINE D == {i \in DOMAIN cases'[g] : cases'[g][i].user = u}
<1>1. CasesOf(g, u) \subseteq D
  BY DEF CasesOf, Kept
<1>2. IsFiniteSet(D)
  <2>1. D \subseteq 1 .. seq'[g] /\ seq'[g] \in Nat
    BY DEF TypeOK
  <2> HIDE DEF D
  <2>2. IsFiniteSet(1 .. seq'[g])
    BY <2>1, FS_Interval
  <2> QED
    BY <2>1, <2>2, FS_Subset
<1>3. Cardinality(D) <= ListLimit
  BY DEF FitsTheList, CasesOf
<1> HIDE DEF D
<1>4. /\ Cardinality(CasesOf(g, u)) <= Cardinality(D)
      /\ Cardinality(CasesOf(g, u)) \in Nat /\ Cardinality(D) \in Nat
  BY <1>1, <1>2, FS_Subset, FS_CardinalityType
<1> QED
  BY <1>3, <1>4, NumberAssumption DEF FitsTheList

(***************************************************************************)
(* A handler sees at least the warns up to its own: its count, with its    *)
(* own warn added, reaches whatever they reach, if all of them are listed. *)
(***************************************************************************)
LEMMA CountSeesThem ==
  ASSUME TypeOK, NEW g \in Guilds, NEW id \in DOMAIN cases[g], NEW p \in Policies,
         ReachedBy(g, id, p), FitsTheList(g, cases[g][id].user)
  PROVE  WarnEscalates(p, g, cases[g][id].user, id, cases[g][id].created)
<1> DEFINE u == cases[g][id].user
           at == cases[g][id].created
           W == WarnsUpTo(g, id, p)
           O == {i \in OtherWarns(g, u, id) : InWindow(p, at, cases[g][i].created)}
<1>1. W \subseteq O \cup {id}
  BY ListIsComplete DEF WarnsUpTo, OtherWarns, CasesOf
<1>2. id \notin O
  BY DEF OtherWarns
<1>3. IsFiniteSet(O)
  <2>1. O \subseteq 1 .. seq[g] /\ seq[g] \in Nat
    BY DEF OtherWarns, Listed, CasesOf, TypeOK
  <2>2. IsFiniteSet(1 .. seq[g])
    BY <2>1, FS_Interval
  <2> HIDE DEF O
  <2> QED BY <2>1, <2>2, FS_Subset
<1>4. /\ IsFiniteSet(O \cup {id})
      /\ Cardinality(O \cup {id}) = Cardinality(O) + 1
  BY <1>2, <1>3, FS_AddElement
<1>5. Cardinality(W) <= Cardinality(O) + 1
  BY <1>1, <1>4, FS_Subset
<1>6. /\ Cardinality(O) \in Nat
      /\ Cardinality(W) \in Nat
  BY <1>1, <1>3, <1>4, FS_Subset, FS_CardinalityType
<1>7. p.threshold \in Nat
  BY PolicyAssumption DEF Policy
<1>8. p.threshold # 0 /\ Cardinality(W) >= p.threshold
  BY DEF ReachedBy
<1> HIDE DEF W, O
<1>9. Reaches(p, Cardinality(O))
  BY <1>5, <1>6, <1>7, <1>8 DEF Reaches
<1> QED
  BY <1>9 DEF WarnEscalates, O

-----------------------------------------------------------------------------

(* A handler that counts carries its warn, from the write to the count.    *)
LEMMA CarriesNext ==
  ASSUME EscInv, [Next]_vars, TypeOK', Kept
  PROVE  CarriesItsWarn'
<1> USE DEF EscInv, Goto
<1> SUFFICES ASSUME NEW w \in Workers, tasks'[w].pc = "count"
             PROVE  /\ tasks'[w].id \in DOMAIN cases'[tasks'[w].guild]
                    /\ cases'[tasks'[w].guild][tasks'[w].id].user = tasks'[w].user
                    /\ cases'[tasks'[w].guild][tasks'[w].id].created = tasks'[w].at
  BY DEF CarriesItsWarn
<1>1. CASE tasks'[w] = tasks[w]
  <2>1. tasks[w] \in TaskState
    BY DEF TypeOK
  <2> QED BY <1>1, <2>1 DEF CarriesItsWarn, Kept, TaskState
<1>2. CASE tasks'[w] # tasks[w]
  <2>1. PICK g \in Guilds, u \in Users : Warn(w, g, u)
    <3>1. ASSUME NEW t \in Workers, TaskStep(t) PROVE FALSE
      <4>1. tasks[t] \in TaskState
        BY DEF TypeOK
      <4>2. tasks'[t].pc # "count"
        <5>1. CASE Act(t)
          <6>1. [tasks[t] EXCEPT !.pc = "log"].pc = "log" /\ Idle.pc = "idle"
            BY <4>1 DEF TaskState, Idle
          <6> QED BY <5>1, <6>1 DEF Act, AfterFailure, AfterSanction, TypeOK
        <5>2. CASE LogCase(t)
          BY <4>1, <5>2 DEF LogCase, Ends, Idle, TypeOK
        <5>3. CASE Count(t)
          BY <4>1, <5>3 DEF Count, Idle, TypeOK, TaskState
        <5> QED BY <3>1, <5>1, <5>2, <5>3 DEF TaskStep
      <4>3. t # w => tasks'[w] = tasks[w]
        BY <3>1 DEF TaskStep, Act, LogCase, Ends, Count, TypeOK
      <4> QED BY <1>2, <4>2, <4>3
    <3>2. ASSUME NEW t \in Workers, NEW g \in Guilds, NEW u \in Users,
                 Handle(t, g, u), ~Warn(t, g, u)
          PROVE  FALSE
      <4>1. ASSUME NEW op, NEW a, NEW pc \in {"act", "log"}, NEW s,
                   Sanction(t, op, g, u, a, pc, s)
            PROVE  FALSE
        <5> DEFINE acting == [pc |-> pc, guild |-> g, user |-> u, action |-> a,
                              source |-> s, id |-> 0, at |-> now]
        <5>1. acting.pc # "count" /\ tasks' = [tasks EXCEPT ![t] = acting]
          BY <4>1 DEF Sanction
        <5> HIDE DEF acting
        <5> QED BY <1>2, <5>1 DEF TypeOK
      <4> QED BY <3>2, <4>1 DEF Handle, ModCommand, GateJoin, ContentAction, SilentAction
    <3>3. ASSUME NEW t \in Workers, NEW g \in Guilds, NEW u \in Users, Warn(t, g, u)
          PROVE  t = w
      BY <1>2, <3>3 DEF Warn, TypeOK
    <3>4. CASE UNCHANGED tasks
      BY <1>2, <3>4
    <3>5. CASE Crash
      BY <3>5 DEF Crash, Idle
    <3>6. \A g \in Guilds, u \in Users : Note(g, u) => UNCHANGED tasks
      BY DEF Note
    <3>7. \A g \in Guilds, p \in Policies : SetEscalation(g, p) => UNCHANGED tasks
      BY DEF SetEscalation
    <3>8. \E t \in Workers, g \in Guilds, u \in Users : Warn(t, g, u)
      BY <3>1, <3>2, <3>4, <3>5, <3>6, <3>7 DEF Next, Tick, vars
    <3> QED
      BY <3>3, <3>8
  <2> DEFINE c == [user |-> u, action |-> "warn", source |-> "mod", created |-> now]
             counting == [pc |-> "count", guild |-> g, user |-> u,
                          action |-> "warn", source |-> "mod",
                          id |-> NextCaseNumber(seq[g]), at |-> now]
  <2>2. AddCase(g, c) /\ tasks' = [tasks EXCEPT ![w] = counting]
    BY <1>2, <2>1 DEF Warn
  <2>3. c \in Case
    BY DEF TypeOK, Case, Actions, Sources
  <2>4. cases'[g] = Append(cases[g], c) /\ cases[g] \in Seq(Case)
    BY <2>2, <2>3, AddCaseAppends DEF TypeOK
  <2>5. NextCaseNumber(seq[g]) = Len(cases[g]) + 1
    BY SeqIsLen DEF NextCaseNumber
  <2>6. cases'[g][NextCaseNumber(seq[g])] = c
        /\ NextCaseNumber(seq[g]) \in DOMAIN cases'[g]
    BY <2>4, <2>5
  <2>7. tasks'[w] = counting
    BY <2>2 DEF TypeOK
  <2> QED BY <2>6, <2>7
<1> QED BY <1>1, <1>2

(* A warn that has to escalate.                                            *)
Reaching(g, v) ==
  FitsTheList(g, cases[g][v.id].user) /\ ReachedBy(g, v.id, v.policy)

(* A verdict stays right: what it has to answer for does not grow.         *)
LEMMA StaysMissed ==
  ASSUME EscInv, TypeOK', Kept, NEW g \in Guilds, NEW v \in judged[g]
  PROVE  v.id \in DOMAIN cases'[g] /\ (Reaching(g, v)' => v.escalated)
<1>1. v.id \in DOMAIN cases[g] /\ v.policy \in Policies
  BY DEF EscInv, JudgedIsCase, TypeOK, Verdict
<1>2. v.id \in DOMAIN cases'[g] /\ cases'[g][v.id].user = cases[g][v.id].user
  BY <1>1 DEF Kept
<1>3. ASSUME NEW u, u = cases[g][v.id].user, Reaching(g, v)' PROVE v.escalated
  <2>1. FitsTheList(g, u)' /\ ReachedBy(g, v.id, v.policy)'
    BY <1>2, <1>3 DEF Reaching, FitsTheList, CasesOf
  <2>2. FitsTheList(g, u)
    BY <2>1, FitsStays DEF EscInv
  <2>3. ReachedBy(g, v.id, v.policy)
    BY <1>1, <2>1, ReachedStays DEF EscInv
  <2> QED
    BY <1>3, <2>2, <2>3 DEF EscInv, NoMissedEscalation
<1> QED
  BY <1>2, <1>3

(* Only cases are judged, and only once they are written.                  *)
LEMMA JudgedNext ==
  ASSUME EscInv, [Next]_vars, TypeOK', Kept
  PROVE  JudgedIsCase' /\ NoMissedEscalation'
<1> USE DEF EscInv
<1>1. CASE UNCHANGED judged
  <2> SUFFICES ASSUME NEW g \in Guilds, NEW v \in judged[g]
               PROVE  /\ v.id \in DOMAIN cases'[g]
                      /\ Reaching(g, v)' => v.escalated
    BY <1>1 DEF JudgedIsCase, NoMissedEscalation, Reaching
  <2> QED BY <1>1, StaysMissed
<1>2. ASSUME NEW t \in Workers, Count(t)
      PROVE  JudgedIsCase' /\ NoMissedEscalation'
  <2> DEFINE task == tasks[t]
             p == policy[task.guild]
             esc == WarnEscalates(p, task.guild, task.user, task.id, task.at)
             new == [id |-> task.id, escalated |-> esc, policy |-> p]
  <2>1. task \in TaskState /\ p \in Policies
    BY DEF TypeOK, TaskState
  <2>2. judged' = [judged EXCEPT ![task.guild] = @ \cup {new}]
    BY <1>2 DEF Count
  <2>3. /\ task.id \in DOMAIN cases[task.guild]
        /\ cases[task.guild][task.id].user = task.user
        /\ cases[task.guild][task.id].created = task.at
    BY <1>2 DEF Count, CarriesItsWarn
  <2>4. FitsTheList(task.guild, task.user) /\ ReachedBy(task.guild, task.id, p) => esc
    BY <2>1, <2>3, CountSeesThem DEF TaskState
  <2> SUFFICES ASSUME NEW g \in Guilds, NEW v \in judged'[g]
               PROVE  /\ v.id \in DOMAIN cases'[g]
                      /\ Reaching(g, v)' => v.escalated
    BY DEF JudgedIsCase, NoMissedEscalation, Reaching
  <2>5. CASE v \in judged[g]
    BY <2>5, StaysMissed
  <2>6. CASE v = new /\ g = task.guild
    <3> HIDE DEF task, p, esc
    <3>1. v.id = task.id /\ v.policy = p /\ v.escalated = esc /\ g \in Guilds
      BY <2>1, <2>6 DEF TaskState
    <3>2. v.id \in DOMAIN cases'[g] /\ cases'[g][v.id].user = task.user
      BY <2>3, <2>6, <3>1 DEF Kept
    <3>3. ASSUME NEW u, u = task.user, Reaching(g, v)' PROVE v.escalated
      <4>1. FitsTheList(g, u)' /\ ReachedBy(g, v.id, v.policy)'
        BY <3>2, <3>3 DEF Reaching, FitsTheList, CasesOf
      <4>2. FitsTheList(g, u)
        BY <2>1, <2>3, <3>1, <4>1, FitsStays
      <4>3. v.id \in DOMAIN cases[g] /\ v.policy \in Policies
        BY <2>1, <2>3, <2>6, <3>1
      <4>4. ReachedBy(g, v.id, v.policy)
        BY <3>1, <4>1, <4>3, ReachedStays
      <4> QED
        BY <2>4, <2>6, <3>1, <3>3, <4>2, <4>4
    <3> QED BY <3>2, <3>3
  <2> QED BY <2>2, <2>5, <2>6 DEF TypeOK
<1> QED
  BY <1>1, <1>2
     DEF Next, TaskStep, Act, LogCase, Handle, Warn, ModCommand, GateJoin,
         ContentAction, SilentAction, Sanction, Note, SetEscalation, Crash, Tick, vars

(***************************************************************************)
(* A warn that reaches the threshold with the warns before it escalates,   *)
(* whatever policies are set and however the handlers of warn_cmd          *)
(* interleave between their case and their count.                          *)
(***************************************************************************)
THEOREM EscalationIsNeverMissed == Spec => []NoMissedEscalation
<1>1. Init => EscInv
  BY TypeInit
     DEF Init, EscInv, ActsOnSanctions, Idle, CarriesItsWarn, JudgedIsCase,
         NoMissedEscalation
<1>2. EscInv /\ [Next]_vars => EscInv'
  BY TypeNext, ActsNext, StepKeeps, CarriesNext, JudgedNext DEF EscInv
<1>3. EscInv => NoMissedEscalation
  BY DEF EscInv
<1> QED
  BY <1>1, <1>2, <1>3, PTL DEF Spec

-----------------------------------------------------------------------------
(* Sanctions and their cases. *)

(* What Recorded and Pending count, as functions of the tables.            *)
Tells(row, u, a) == row.user = u /\ row.action = a /\ row.source # "content"

Logs(task, g, u, a) ==
  task.pc = "log" /\ task.guild = g /\ task.user = u /\ task.action = a
    /\ task.source # "content"

One(b) == IF b THEN 1 ELSE 0

Telling(rows, u, a) == {i \in DOMAIN rows : Tells(rows[i], u, a)}

Logging(ts, g, u, a) == {t \in Workers : Logs(ts[t], g, u, a)}

(* A case counts one more row, or none.                                    *)
LEMMA TellingAfter ==
  ASSUME NEW rows \in Seq(Case), NEW c \in Case, NEW u, NEW a
  PROVE  /\ Cardinality(Telling(rows, u, a)) \in Nat
         /\ Cardinality(Telling(Append(rows, c), u, a))
              = Cardinality(Telling(rows, u, a)) + One(Tells(c, u, a))
<1> DEFINE S == Telling(rows, u, a)  n == Len(rows)  b == Tells(c, u, a)
<1>1. n \in Nat /\ S \subseteq 1 .. n
  <2>1. n \in Nat /\ DOMAIN rows = 1 .. n
    OBVIOUS
  <2> HIDE DEF n
  <2> QED
    BY <2>1 DEF Telling
<1>2. IsFiniteSet(S) /\ Cardinality(S) \in Nat /\ n + 1 \notin S
  <2> HIDE DEF S, n
  <2>1. n + 1 \notin S
    BY <1>1
  <2>2. IsFiniteSet(1 .. n)
    BY <1>1, FS_Interval
  <2>3. IsFiniteSet(S)
    BY <1>1, <2>2, FS_Subset
  <2> QED
    BY <2>1, <2>3, FS_CardinalityType
<1>3. Telling(Append(rows, c), u, a) = IF b THEN S \cup {n + 1} ELSE S
  <2>1. DOMAIN Append(rows, c) = 1 .. n + 1 /\ DOMAIN rows = 1 .. n
    BY AppendProperties
  <2>2. \A i \in 1 .. n : Append(rows, c)[i] = rows[i]
    BY AppendProperties
  <2>3. Append(rows, c)[n + 1] = c
    BY AppendProperties
  <2>4. \A i : i \in 1 .. n + 1 <=> i \in 1 .. n \/ i = n + 1
    BY <1>1
  <2>5. n + 1 \notin 1 .. n
    BY <1>1
  <2> HIDE DEF n
  <2>6. \A i : i \in Telling(Append(rows, c), u, a) <=> i \in S \/ (i = n + 1 /\ b)
    BY <2>1, <2>2, <2>3, <2>4, <2>5 DEF Telling
  <2>7. CASE b
    BY <2>6, <2>7
  <2>8. CASE ~b
    BY <2>6, <2>8
  <2> QED
    BY <2>7, <2>8
<1>4. Cardinality(S \cup {n + 1}) = Cardinality(S) + 1
  BY <1>2, FS_AddElement
<1> HIDE DEF S, n, b
<1> QED
  BY <1>2, <1>3, <1>4 DEF One, b, S

(* A task that moves is one of those that log before, after, both, or none. *)
LEMMA LoggingAfter ==
  ASSUME IsFiniteSet(Workers), NEW ts \in [Workers -> TaskState], NEW t \in Workers,
         NEW x \in TaskState, NEW after, \A w \in Workers : after[w] = IF w = t THEN x ELSE ts[w],
         NEW g, NEW u, NEW a
  PROVE  /\ Cardinality(Logging(ts, g, u, a)) \in Nat
         /\ Cardinality(Logging(after, g, u, a))
              = Cardinality(Logging(ts, g, u, a))
                  - One(Logs(ts[t], g, u, a)) + One(Logs(x, g, u, a))
<1> DEFINE S == Logging(ts, g, u, a)
           T == Logging(after, g, u, a)
           R == S \ {t}
<1>1. IsFiniteSet(S) /\ Cardinality(S) \in Nat
  BY FS_Subset, FS_CardinalityType DEF Logging
<1>2. IsFiniteSet(R) /\ t \notin R /\ Cardinality(R) \in Nat
  BY <1>1, FS_RemoveElement, FS_CardinalityType
<1>3. Cardinality(S) = Cardinality(R) + One(Logs(ts[t], g, u, a))
  <2>1. t \in S <=> Logs(ts[t], g, u, a)
    BY DEF Logging
  <2>2. Cardinality(R) = IF t \in S THEN Cardinality(S) - 1 ELSE Cardinality(S)
    BY <1>1, FS_RemoveElement
  <2> HIDE DEF S, R
  <2> QED
    BY <1>1, <2>1, <2>2 DEF One
<1>4. Cardinality(T) = Cardinality(R) + One(Logs(x, g, u, a))
  <2>1. T = IF Logs(x, g, u, a) THEN R \cup {t} ELSE R
    BY DEF Logging
  <2>2. Cardinality(R \cup {t}) = Cardinality(R) + 1
    BY <1>2, FS_AddElement
  <2> HIDE DEF T, R
  <2> QED
    BY <1>2, <2>1, <2>2 DEF One
<1>5. One(Logs(ts[t], g, u, a)) \in Nat /\ One(Logs(x, g, u, a)) \in Nat
  BY DEF One
<1> HIDE DEF S, T, R
<1> QED
  BY <1>1, <1>2, <1>3, <1>4, <1>5 DEF S, T

(* The three numbers, and what is left of the first by the others.         *)
LEMMA Counted ==
  ASSUME NEW g, NEW u, NEW a
  PROVE  /\ Recorded(g, u, a) = Cardinality(Telling(cases[g], u, a))
         /\ Pending(g, u, a) = Cardinality(Logging(tasks, g, u, a))
  BY DEF Recorded, Pending, Telling, Logging, Tells, Logs

(* What is counted is finite, and what every state counts is a number.     *)
LEMMA TablesCount ==
  ASSUME IsFiniteSet(Workers), NEW rows \in Seq(Case), NEW ts, NEW g, NEW u, NEW a
  PROVE  Cardinality(Telling(rows, u, a)) \in Nat /\ Cardinality(Logging(ts, g, u, a)) \in Nat
<1>1. IsFiniteSet(Telling(rows, u, a))
  <2>1. Telling(rows, u, a) \subseteq DOMAIN rows
    BY DEF Telling
  <2>2. Len(rows) \in Nat /\ DOMAIN rows = 1 .. Len(rows)
    OBVIOUS
  <2>3. IsFiniteSet(1 .. Len(rows))
    BY <2>2, FS_Interval
  <2> QED
    BY <2>1, <2>2, <2>3, FS_Subset
<1>2. Logging(ts, g, u, a) \subseteq Workers
  BY DEF Logging
<1> QED
  BY <1>1, <1>2, FS_Subset, FS_CardinalityType

LEMMA CountsAreNumbers ==
  ASSUME TypeOK, IsFiniteSet(Workers), NEW g \in Guilds, NEW u \in Users,
         NEW a \in Sanctions
  PROVE  Recorded(g, u, a) \in Nat /\ Pending(g, u, a) \in Nat /\ acted[g][u][a] \in Nat
<1>1. cases[g] \in Seq(Case) /\ acted[g][u][a] \in Nat
  BY DEF TypeOK, Tally
<1> QED
  BY <1>1, TablesCount, Counted

(* A case that is written changes the rows of its guild and no task.       *)
LEMMA RecordedAfter ==
  ASSUME TypeOK, NEW h \in Guilds, NEW c \in Case, AddCase(h, c),
         NEW g \in Guilds, NEW u, NEW a
  PROVE  Recorded(g, u, a)' = Recorded(g, u, a) + One(g = h /\ Tells(c, u, a))
<1>1. cases' = [cases EXCEPT ![h] = Append(@, c)] /\ cases[g] \in Seq(Case)
  BY AddCaseAppends DEF TypeOK
<1>2. Recorded(g, u, a)' = Cardinality(Telling(cases'[g], u, a))
  BY DEF Recorded, Telling, Tells
<1>3. CASE g = h
  <2>1. cases'[g] = Append(cases[g], c)
    BY <1>1, <1>3 DEF TypeOK
  <2> QED
    BY <1>1, <1>2, <1>3, <2>1, TellingAfter, Counted DEF One
<1>4. CASE g # h
  <2>1. cases'[g] = cases[g]
    BY <1>1, <1>4 DEF TypeOK
  <2>2. Cardinality(Telling(cases[g], u, a)) \in Nat
    BY <1>1, TellingAfter
  <2> QED
    BY <1>2, <1>4, <2>1, <2>2, Counted DEF One
<1> QED
  BY <1>3, <1>4

(* A step of one task changes who is on the way to write a case by it.     *)
LEMMA PendingAfter ==
  ASSUME TypeOK, IsFiniteSet(Workers), NEW t \in Workers, NEW x \in TaskState,
         Goto(t, x), NEW g, NEW u, NEW a
  PROVE  Pending(g, u, a)' = Pending(g, u, a)
           - One(Logs(tasks[t], g, u, a)) + One(Logs(x, g, u, a))
<1>1. Pending(g, u, a)' = Cardinality(Logging(tasks', g, u, a))
  BY DEF Pending, Logging, Logs
<1>2. /\ \A w \in Workers : tasks'[w] = IF w = t THEN x ELSE tasks[w]
      /\ tasks \in [Workers -> TaskState]
  BY DEF Goto, TypeOK
<1>3. Cardinality(Logging(tasks', g, u, a))
        = Cardinality(Logging(tasks, g, u, a))
            - One(Logs(tasks[t], g, u, a)) + One(Logs(x, g, u, a))
  BY <1>2, LoggingAfter
<1> QED
  BY <1>1, <1>3, Counted

(* What a step of one task does to the balance, if it writes no case.      *)
LEMMA TaskMoves ==
  ASSUME TypeOK, TypeOK', IsFiniteSet(Workers), UNCHANGED <<cases, acted>>,
         NEW t \in Workers, NEW x \in TaskState, Goto(t, x),
         NEW g \in Guilds, NEW u \in Users, NEW a \in Sanctions,
         ~Logs(x, g, u, a)
  PROVE  Owed(g, u, a)' = Owed(g, u, a) + One(Logs(tasks[t], g, u, a))
<1>1. Recorded(g, u, a)' = Recorded(g, u, a)
  BY DEF Recorded
<1>2. Pending(g, u, a)' = Pending(g, u, a) - One(Logs(tasks[t], g, u, a)) + 0
  BY PendingAfter DEF One
<1> QED
  BY <1>1, <1>2, CountsAreNumbers DEF Owed, One

(* The stimuli ask for nothing yet, or for what Discord is not asked.      *)
LEMMA HandleIsBalanced ==
  ASSUME TypeOK, TypeOK', IsFiniteSet(Workers), NEW t \in Workers,
         NEW h \in Guilds, NEW v \in Users, Handle(t, h, v),
         NEW g \in Guilds, NEW u \in Users, NEW a \in Sanctions
  PROVE  Owed(g, u, a)' = Owed(g, u, a)
<1>1. tasks[t].pc = "idle" /\ ~Logs(tasks[t], g, u, a) /\ UNCHANGED acted
  BY DEF Handle, Warn, ModCommand, GateJoin, ContentAction, SilentAction, Sanction, Free, Logs
<1>2. CASE Warn(t, h, v)
  <2> DEFINE c == [user |-> v, action |-> "warn", source |-> "mod", created |-> now]
             x == [pc |-> "count", guild |-> h, user |-> v, action |-> "warn",
                   source |-> "mod", id |-> NextCaseNumber(seq[h]), at |-> now]
  <2>1. c \in Case /\ x \in TaskState /\ ~Tells(c, u, a) /\ ~Logs(x, g, u, a)
    <3>1. c \in Case
      BY DEF TypeOK, Case, Actions, Sources
    <3>2. x \in TaskState
      <4>1. NextCaseNumber(seq[h]) \in Nat /\ now \in Nat
        BY DEF TypeOK, NextCaseNumber
      <4> HIDE DEF TypeOK
      <4> QED
        BY <4>1 DEF TaskState, Actions, Sources
    <3>3. ~Tells(c, u, a) /\ ~Logs(x, g, u, a)
      BY DEF Sanctions, Tells, Logs
    <3> QED
      BY <3>1, <3>2, <3>3
  <2>2. CASE AddCase(h, c) /\ Goto(t, x)
    <3> HIDE DEF c, x
    <3>1. Recorded(g, u, a)' = Recorded(g, u, a) + 0
      BY <2>1, <2>2, RecordedAfter DEF One
    <3>2. Pending(g, u, a)' = Pending(g, u, a) - 0 + 0
      BY <1>1, <2>1, <2>2, PendingAfter DEF One
    <3> QED
      BY <1>1, <3>1, <3>2, CountsAreNumbers DEF Owed
  <2>3. CASE UNCHANGED <<cases, tasks>>
    BY <1>1, <2>3 DEF Owed, Recorded, Pending
  <2> QED
    BY <1>2, <2>2, <2>3 DEF Warn, AddCaseFails
<1>3. ASSUME NEW op, NEW b \in Actions, NEW pc \in {"act", "log"}, NEW s \in Sources,
             pc = "log" => s = "content", Sanction(t, op, h, v, b, pc, s)
      PROVE  Owed(g, u, a)' = Owed(g, u, a)
  <2> DEFINE x == [pc |-> pc, guild |-> h, user |-> v, action |-> b, source |-> s,
                   id |-> 0, at |-> now]
  <2>1. x \in TaskState /\ ~Logs(x, g, u, a)
    BY <1>3 DEF TypeOK, TaskState, Logs
  <2>2. Goto(t, x) /\ UNCHANGED <<cases, acted>>
    BY <1>3 DEF Sanction
  <2> HIDE DEF x
  <2>3. Owed(g, u, a)' = Owed(g, u, a) + 0
    BY <1>1, <2>1, <2>2, TaskMoves DEF One
  <2> QED
    BY <2>3, CountsAreNumbers DEF Owed
<1> QED
  BY <1>2, <1>3
     DEF Handle, ModCommand, GateJoin, ContentAction, SilentAction, Actions, Sanctions,
         Sources

(* A handler's step writes a case for a sanction once, or fails to.        *)
LEMMA TaskIsBalanced ==
  ASSUME TypeOK, TypeOK', ActsOnSanctions, IsFiniteSet(Workers), NEW t \in Workers,
         TaskStep(t), NEW g \in Guilds, NEW u \in Users, NEW a \in Sanctions
  PROVE  /\ Owed(g, u, a)' >= Owed(g, u, a)
         /\ storeFaults' = storeFaults => Owed(g, u, a)' = Owed(g, u, a)
<1> DEFINE task == tasks[t]
<1>1. task \in TaskState /\ Idle \in TaskState /\ ~Logs(Idle, g, u, a)
  BY PartiesAssumption DEF TypeOK, TaskState, Idle, Actions, Sources, Logs
<1>2. /\ Recorded(g, u, a) \in Nat /\ Pending(g, u, a) \in Nat /\ acted[g][u][a] \in Nat
  BY CountsAreNumbers
<1>3. CASE Act(t)
  <2> DEFINE x == [task EXCEPT !.pc = "log"]
  <2>1. x \in TaskState /\ task.pc = "act" /\ ~Logs(task, g, u, a) /\ UNCHANGED cases
    BY <1>1, <1>3 DEF Act, TaskState, Logs
  <2>2. Recorded(g, u, a)' = Recorded(g, u, a)
    BY <2>1 DEF Recorded
  <2>3. ASSUME NEW y \in TaskState, Goto(t, y), ~Logs(y, g, u, a), UNCHANGED acted
        PROVE  Owed(g, u, a)' = Owed(g, u, a)
    <3>1. Owed(g, u, a)' = Owed(g, u, a) + 0
      BY <2>1, <2>3, TaskMoves DEF One
    <3> QED
      BY <1>2, <3>1 DEF Owed
  <2>4. Owed(g, u, a) \in Int
    BY <1>2 DEF Owed
  <2>5. CASE Goto(t, x) /\ task.source = "content" /\ UNCHANGED acted
    <3>1. ~Logs(x, g, u, a)
      BY <1>1, <2>5 DEF Logs, TaskState
    <3> HIDE DEF x, task
    <3> QED
      BY <2>1, <2>3, <2>5, <2>4, <3>1
  <2>6. CASE /\ Goto(t, x) /\ task.source # "content"
             /\ acted' = [acted EXCEPT ![task.guild][task.user][task.action] = @ + 1]
    <3>1. task.action \in Sanctions /\ task.guild \in Guilds /\ task.user \in Users
      BY <1>1, <2>1 DEF ActsOnSanctions, TaskState
    <3>2. Logs(x, g, u, a) <=> task.guild = g /\ task.user = u /\ task.action = a
      BY <1>1, <2>6 DEF Logs, TaskState
    <3>3. acted'[g][u][a] = acted[g][u][a] + One(Logs(x, g, u, a))
      <4> HIDE DEF x
      <4>1. CASE task.guild = g /\ task.user = u /\ task.action = a
        BY <2>6, <3>2, <4>1 DEF One, TypeOK, Tally
      <4>2. CASE ~(task.guild = g /\ task.user = u /\ task.action = a)
        <5>1. acted'[g][u][a] = acted[g][u][a]
          <6> DEFINE G == task.guild
                     U == task.user
                     A == task.action
          <6>1. /\ acted \in [Guilds -> [Users -> [Sanctions -> Nat]]]
                /\ acted' = [acted EXCEPT ![G][U][A] = @ + 1]
            BY <2>6 DEF TypeOK, Tally
          <6>2. G \in Guilds /\ U \in Users /\ A \in Sanctions
            BY <3>1
          <6>3. ~(G = g /\ U = u /\ A = a)
            BY <4>2
          <6> HIDE DEF G, U, A
          <6>4. CASE G # g
            BY <6>1, <6>2, <6>4
          <6>5. CASE U # u
            BY <6>1, <6>2, <6>5
          <6>6. CASE A # a
            BY <6>1, <6>2, <6>6
          <6> QED
            BY <6>3, <6>4, <6>5, <6>6
        <5> QED
          BY <1>2, <3>2, <4>2, <5>1 DEF One
      <4> QED
        BY <4>1, <4>2
    <3>4. Pending(g, u, a)' = Pending(g, u, a) - 0 + One(Logs(x, g, u, a))
      <4> HIDE DEF x
      <4> QED
        BY <2>1, <2>6, PendingAfter DEF One
    <3>5. One(Logs(x, g, u, a)) \in Nat
      BY DEF One
    <3> HIDE DEF x
    <3> QED
      BY <1>2, <2>2, <3>3, <3>4, <3>5 DEF Owed
  <2>8. CASE Goto(t, Idle) /\ UNCHANGED acted
    BY <1>1, <2>3, <2>4, <2>8
  <2>7. CASE Goto(t, AfterFailure(task)) /\ UNCHANGED acted
    <3>1. task.source = "content" => ~Logs(x, g, u, a)
      BY <1>1 DEF Logs, TaskState
    <3>2. AfterFailure(task) = IF task.source = "content" THEN x ELSE Idle
      BY DEF AfterFailure
    <3> HIDE DEF x, task
    <3> QED
      BY <1>1, <2>1, <2>3, <2>7, <2>4, <3>1, <3>2
  <2>9. \/ Goto(t, x) /\ task.source = "content" /\ UNCHANGED acted
        \/ /\ Goto(t, x) /\ task.source # "content"
           /\ acted' = [acted EXCEPT ![task.guild][task.user][task.action] = @ + 1]
        \/ Goto(t, Idle) /\ UNCHANGED acted
        \/ Goto(t, AfterFailure(task)) /\ UNCHANGED acted
    BY <1>3 DEF Act, AfterSanction, OneMore
  <2> HIDE DEF task, x
  <2> QED
    BY <2>4, <2>5, <2>6, <2>7, <2>8, <2>9
<1>4. CASE LogCase(t)
  <2> DEFINE c == [user |-> task.user, action |-> task.action, source |-> task.source,
                   created |-> Created(task)]
  <2>1. c \in Case /\ task.guild \in Guilds
    BY <1>1 DEF TypeOK, TaskState, Case, Created
  <2>2. task.pc = "log" /\ Goto(t, Idle) /\ UNCHANGED acted
    BY <1>4 DEF LogCase, Ends
  <2>3. One(Logs(task, g, u, a)) \in Nat
    BY DEF One
  <2>4. Pending(g, u, a)' = Pending(g, u, a) - One(Logs(task, g, u, a)) + 0
    BY <1>1, <2>2, PendingAfter DEF One
  <2>5. CASE AddCase(task.guild, c)
    <3>1. Logs(task, g, u, a) <=> g = task.guild /\ Tells(c, u, a)
      BY <2>2 DEF Logs, Tells
    <3>2. Recorded(g, u, a)' = Recorded(g, u, a) + One(g = task.guild /\ Tells(c, u, a))
      <4> HIDE DEF c
      <4> QED
        BY <2>1, <2>5, RecordedAfter
    <3>3. Recorded(g, u, a)' = Recorded(g, u, a) + One(Logs(task, g, u, a))
      BY <3>1, <3>2 DEF One
    <3> HIDE DEF c, task
    <3> QED
      BY <1>2, <2>2, <2>3, <2>4, <3>3 DEF Owed
  <2>6. CASE AddCaseFails
    <3>1. Recorded(g, u, a)' = Recorded(g, u, a) /\ storeFaults' # storeFaults
      BY <2>6 DEF AddCaseFails, Recorded, TypeOK
    <3> HIDE DEF c, task
    <3> QED
      BY <1>2, <2>2, <2>3, <2>4, <3>1 DEF Owed
  <2> QED
    BY <1>4, <2>5, <2>6 DEF LogCase
<1>5. CASE Count(t)
  <2>1. \E x \in TaskState : Goto(t, x) /\ ~Logs(x, g, u, a)
    <3> DEFINE p == policy[task.guild]
               y == [task EXCEPT !.pc = "act", !.action = p.action, !.source = "escalation"]
    <3>1. p.action \in Actions
      BY <1>1, PolicyAssumption DEF TypeOK, TaskState, Policy, Actions, Sanctions
    <3>2. y \in TaskState /\ ~Logs(y, g, u, a)
      BY <1>1, <3>1 DEF TaskState, Sources, Logs
    <3>3. Goto(t, y) \/ Goto(t, Idle)
      BY <1>5 DEF Count
    <3> QED
      BY <1>1, <3>2, <3>3
  <2>2. UNCHANGED <<cases, acted>> /\ ~Logs(task, g, u, a)
    BY <1>5 DEF Count, Logs
  <2>3. Owed(g, u, a)' = Owed(g, u, a) + 0
    BY <2>1, <2>2, TaskMoves DEF One
  <2> QED
    BY <1>2, <2>3 DEF Owed
<1> QED
  BY <1>3, <1>4, <1>5 DEF TaskStep

(* No step but a restart or a failed write leaves a sanction unrecorded,   *)
(* and none records one that Discord did not carry out.                    *)
LEMMA StepIsBalanced ==
  ASSUME TypeOK, TypeOK', ActsOnSanctions, IsFiniteSet(Workers), [Next]_vars,
         NEW g \in Guilds, NEW u \in Users, NEW a \in Sanctions
  PROVE  /\ Owed(g, u, a)' >= Owed(g, u, a)
         /\ storeFaults' = storeFaults /\ ~Crash => Owed(g, u, a)' = Owed(g, u, a)
<1>1. Recorded(g, u, a) \in Nat /\ Pending(g, u, a) \in Nat /\ acted[g][u][a] \in Nat
  BY CountsAreNumbers
<1>2. Owed(g, u, a) \in Int
  BY <1>1 DEF Owed
<1>3. ASSUME NEW t \in Workers, TaskStep(t)
      PROVE  /\ Owed(g, u, a)' >= Owed(g, u, a)
             /\ storeFaults' = storeFaults => Owed(g, u, a)' = Owed(g, u, a)
  BY <1>3, TaskIsBalanced
<1>4. ASSUME NEW t \in Workers, NEW h \in Guilds, NEW v \in Users, Handle(t, h, v)
      PROVE  Owed(g, u, a)' = Owed(g, u, a)
  BY <1>4, HandleIsBalanced
<1>5. ASSUME NEW h \in Guilds, NEW v \in Users, Note(h, v)
      PROVE  Owed(g, u, a)' = Owed(g, u, a)
  <2> DEFINE c == [user |-> v, action |-> "note", source |-> "mod", created |-> now]
  <2>1. c \in Case /\ ~Tells(c, u, a)
    BY DEF TypeOK, Case, Actions, Sanctions, Sources, Tells
  <2>2. UNCHANGED <<tasks, acted>>
    BY <1>5 DEF Note
  <2>3. Pending(g, u, a)' = Pending(g, u, a)
    BY <2>2 DEF Pending
  <2>4. Recorded(g, u, a)' = Recorded(g, u, a)
    <3>1. CASE AddCase(h, c)
      <4> HIDE DEF c
      <4> QED
        BY <1>1, <2>1, <3>1, RecordedAfter DEF One
    <3>2. CASE AddCaseFails
      BY <3>2 DEF AddCaseFails, Recorded
    <3> QED
      BY <1>5, <3>1, <3>2 DEF Note
  <2> QED
    BY <2>2, <2>3, <2>4 DEF Owed
<1>6. CASE UNCHANGED <<cases, tasks, acted>>
  BY <1>2, <1>6 DEF Owed, Recorded, Pending
<1>7. CASE Crash
  <2>1. Logging(tasks', g, u, a) = {}
    BY <1>7 DEF Crash, Idle, Logging, Logs
  <2>2. Pending(g, u, a)' = 0
    <3>1. Pending(g, u, a)' = Cardinality(Logging(tasks', g, u, a))
      BY DEF Pending, Logging, Logs
    <3> QED
      BY <2>1, <3>1, FS_EmptySet
  <2>3. UNCHANGED <<cases, acted>>
    BY <1>7 DEF Crash
  <2>4. Recorded(g, u, a)' = Recorded(g, u, a)
    BY <2>3 DEF Recorded
  <2> QED
    BY <1>1, <1>7, <2>2, <2>3, <2>4 DEF Owed
<1> QED
  BY <1>2, <1>3, <1>4, <1>5, <1>6, <1>7 DEF Next, SetEscalation, Tick, vars

BalInv ==
  /\ TypeOK /\ ActsOnSanctions
  /\ \A g \in Guilds, u \in Users, a \in Sanctions : Owed(g, u, a) >= 0

(***************************************************************************)
(* The gate, the commands and the escalation record no sanction that       *)
(* Discord did not carry out, whatever fails and however many handlers, of *)
(* any number that is finite, sanction the same member.                    *)
(***************************************************************************)
THEOREM SanctionsAreReal ==
  ASSUME IsFiniteSet(Workers)
  PROVE  Spec => []NoPhantomCase
<1>1. Init => BalInv
  <2> SUFFICES ASSUME Init, NEW g \in Guilds, NEW u \in Users, NEW a \in Sanctions
               PROVE  Owed(g, u, a) >= 0
    BY TypeInit DEF BalInv, Init, ActsOnSanctions, Idle
  <2>1. Telling(cases[g], u, a) = {} /\ Logging(tasks, g, u, a) = {}
    BY DEF Init, Telling, Logging, Logs, Idle
  <2>2. Recorded(g, u, a) = 0 /\ Pending(g, u, a) = 0
    BY <2>1, Counted, FS_EmptySet
  <2>3. acted[g][u][a] = 0
    BY DEF Init
  <2> QED
    BY <2>2, <2>3 DEF Owed
<1>2. BalInv /\ [Next]_vars => BalInv'
  <2> SUFFICES ASSUME BalInv, [Next]_vars PROVE BalInv'
    OBVIOUS
  <2>1. TypeOK' /\ ActsOnSanctions'
    BY TypeNext, ActsNext DEF BalInv
  <2>2. ASSUME NEW g \in Guilds, NEW u \in Users, NEW a \in Sanctions
        PROVE  Owed(g, u, a)' >= 0
    <3>1. Owed(g, u, a)' >= Owed(g, u, a) /\ Owed(g, u, a) >= 0
      BY <2>1, StepIsBalanced DEF BalInv
    <3>2. Owed(g, u, a) \in Int
      BY CountsAreNumbers DEF BalInv, Owed
    <3>3. Owed(g, u, a)' \in Int
      <4>1. /\ Recorded(g, u, a)' \in Nat /\ Pending(g, u, a)' \in Nat
            /\ acted'[g][u][a] \in Nat
        <5>1. cases'[g] \in Seq(Case) /\ acted'[g][u][a] \in Nat
          BY <2>1 DEF TypeOK, Tally
        <5>2. /\ Recorded(g, u, a)' = Cardinality(Telling(cases'[g], u, a))
              /\ Pending(g, u, a)' = Cardinality(Logging(tasks', g, u, a))
          BY DEF Recorded, Pending, Telling, Logging, Tells, Logs
        <5> QED
          BY <5>1, <5>2, TablesCount
      <4> QED
        BY <4>1 DEF Owed
    <3> QED
      BY <3>1, <3>2, <3>3
  <2> QED
    BY <2>1, <2>2 DEF BalInv
<1>3. BalInv => NoPhantomCase
  <2> SUFFICES ASSUME BalInv, NEW g \in Guilds, NEW u \in Users, NEW a \in Sanctions
               PROVE  Recorded(g, u, a) + Pending(g, u, a) <= acted[g][u][a]
    BY DEF NoPhantomCase
  <2>1. Recorded(g, u, a) \in Nat /\ Pending(g, u, a) \in Nat /\ acted[g][u][a] \in Nat
    BY CountsAreNumbers DEF BalInv
  <2> QED
    BY <2>1 DEF BalInv, Owed
<1> QED
  BY <1>1, <1>2, <1>3, PTL DEF Spec

(***************************************************************************)
(* A step that leaves a sanction without its case is a restart between the *)
(* two, a failed write of the case, or a sanction of a path that the code  *)
(* writes no case for.                                                     *)
(***************************************************************************)
THEOREM SanctionsAreRecorded ==
  ASSUME IsFiniteSet(Workers)
  PROVE  Spec => AuditTrail
<1> DEFINE Kept1 == storeFaults' = storeFaults /\ ~Crash /\ uncased' = uncased =>
       \A g \in Guilds, u \in Users, a \in Sanctions :
         Unrecorded(g, u, a)' = Unrecorded(g, u, a)
<1>1. TypeOK /\ TypeOK' /\ ActsOnSanctions /\ [Next]_vars => Kept1
  BY StepIsBalanced DEF Unrecorded
<1>2. TypeOK /\ TypeOK' /\ ActsOnSanctions /\ [Next]_vars => [Kept1]_vars
  BY <1>1
<1> QED
  BY <1>2, CasesTyped, PTL DEF Spec, AuditTrail

=============================================================================
