----------------------------- MODULE RaidProofs -----------------------------
(***************************************************************************)
(* The raid config stays valid whoever writes it; a lockdown is lifted by  *)
(* nothing but /lockdown off, a /setraid that began before it and a page   *)
(* saved without it; no join of a burst is let in; and the sessions of the *)
(* dashboard only narrow what it may do, and end in time.                  *)
(***************************************************************************)
EXTENDS Console, FiniteSetTheorems, SequenceTheorems, TLAPS

(* A command saves a valid blob, from a valid blob.                        *)
LEMMA EditedType ==
  ASSUME NEW c \in Config, NEW edit \in Edits, Valid(Edited(c, edit).settings)
  PROVE  Edited(c, edit) \in Config
<1>1. CASE edit.what \in {"on", "off"}
  BY <1>1 DEF Edited, Config
<1>2. CASE edit.what = "set"
  <2>1. edit.settings \in Inputs
    BY <1>2 DEF Edits
  <2>2. Edited(c, edit) = [c EXCEPT !.settings = edit.settings]
    BY <1>2 DEF Edited
  <2>3. edit.settings \in Sane
    BY <2>1, <2>2, InputAssumption DEF Config, Sane, Valid, Settings
  <2>4. QED
    BY <2>2, <2>3 DEF Config
<1>3. QED
  BY <1>1, <1>2 DEF Edits

(* The join window, pruned, is a sequence of times.                        *)
LEMMA RecentType ==
  ASSUME window \in Seq(Nat), now \in Nat, NEW s
  PROVE  Remembered(s) \in Seq(Nat)
<1> DEFINE all == Append(window, now)
           old == {i \in 1 .. Len(all) : \A j \in 1 .. i : all[j] < Cutoff(s)}
<1>1. all \in Seq(Nat) /\ Len(all) \in Nat
  OBVIOUS
<1>2. Cardinality(old) \in Nat
  <2>1. IsFiniteSet(1 .. Len(all))
    BY <1>1, FS_Interval
  <2>2. old \subseteq 1 .. Len(all)
    OBVIOUS
  <2>3. QED
    BY <2>1, <2>2, FS_Subset, FS_CardinalityType
<1> HIDE DEF all, old
<1>3. SubSeq(all, Cardinality(old) + 1, Len(all)) \in Seq(Nat)
  BY <1>1, <1>2
<1>4. QED
  BY <1>3 DEF Remembered, Recent, all, old

(* What a task carries follows from the step it makes next.                *)
LEMMA TaskKinds ==
  ASSUME TypeOK, NEW t \in Workers
  PROVE  /\ tasks[t].pc \in {"load", "record", "latch", "gate"} => tasks[t] \in Joiner
         /\ tasks[t].pc = "save" => tasks[t] \in Editor
<1>1. tasks[t] \in {Idle} \cup Joiner \cup Editor
  BY DEF TypeOK
<1>2. Idle.pc = "idle"
  BY DEF Idle
<1>3. \A j \in Joiner : j.pc \in {"load", "record", "latch", "gate"}
  BY DEF Joiner
<1>4. \A e \in Editor : e.pc = "save"
  BY DEF Editor
<1>5. QED
  BY <1>1, <1>2, <1>3, <1>4

(* Every variable keeps its type, whoever writes the config.               *)
THEOREM RaidTyped == Spec => []TypeOK
<1>1. ASSUME Init PROVE TypeOK
  <2>1. cfg \in Config
    BY <1>1 DEF Init, Config
  <2>2. window \in Seq(Nat) /\ joins \in Seq(Nat)
    BY <1>1 DEF Init
  <2>3. tasks \in [Workers -> {Idle} \cup Joiner \cup Editor]
    BY <1>1 DEF Init
  <2>4. now \in Nat /\ judged \subseteq Verdict /\ stimuli \in Nat /\ faults \in Nat
    BY <1>1, NumberAssumption DEF Init
  <2>5. QED
    BY <2>1, <2>2, <2>3, <2>4 DEF TypeOK
<1>2. TypeOK /\ [Next]_vars => TypeOK'
  <2> SUFFICES ASSUME TypeOK, [Next]_vars PROVE TypeOK'
    OBVIOUS
  <2>1. ASSUME NEW t \in Workers, NEW fresh \in BOOLEAN, Join(t, fresh) PROVE TypeOK'
    <3>1. [pc |-> "load", fresh |-> fresh, cfg |-> cfg, n |-> 0,
           lockdown |-> FALSE] \in Joiner
      BY DEF TypeOK, Joiner
    <3>2. QED
      BY <2>1, <3>1 DEF TypeOK, Join, Goto, Stimulus
  <2>2. ASSUME NEW t \in Workers, NEW edit \in Edits, Command(t, edit) PROVE TypeOK'
    <3>1. [pc |-> "save", edit |-> edit, cfg |-> cfg] \in Editor
      BY DEF TypeOK, Editor
    <3>2. QED
      BY <2>2, <3>1 DEF TypeOK, Command, Goto, Stimulus
  <2>4. ASSUME NEW body \in Bodies, SubmitForm(body) PROVE TypeOK'
    <3>1. body.settings \in Sane
      BY <2>4, InputAssumption DEF SubmitForm, Bodies, Valid, Sane, Settings
    <3>2. body \in Config
      BY <3>1 DEF Bodies, Config
    <3>3. QED
      BY <2>4, <3>2 DEF TypeOK, SubmitForm, Stimulus
  <2>5. CASE Crash
    BY <2>5 DEF TypeOK, Crash, Stimulus
  <2>6. CASE Tick
    BY <2>6 DEF TypeOK, Tick
  <2>7. ASSUME NEW t \in Workers, LoadJoin(t) PROVE TypeOK'
    <3>1. tasks[t] \in Joiner
      BY <2>7, TaskKinds DEF LoadJoin
    <3>2. [tasks[t] EXCEPT !.pc = "record", !.cfg = cfg] \in Joiner
      BY <3>1 DEF TypeOK, Joiner
    <3>3. QED
      BY <2>7, <3>2 DEF TypeOK, LoadJoin, Goto, Ends
  <2>8. ASSUME NEW t \in Workers, RecordJoin(t) PROVE TypeOK'
    <3>1. tasks[t] \in Joiner
      BY <2>8, TaskKinds DEF RecordJoin
    <3>2. window' \in Seq(Nat) /\ joins' \in Seq(Nat)
      <4>1. window \in Seq(Nat) /\ joins \in Seq(Nat) /\ now \in Nat
        BY DEF TypeOK
      <4>2. Remembered(tasks[t].cfg.settings) \in Seq(Nat)
        BY <4>1, RecentType
      <4>3. \/ /\ window' = Remembered(tasks[t].cfg.settings)
               /\ joins' = Append(joins, now)
            \/ UNCHANGED <<window, joins>>
        BY <2>8 DEF RecordJoin
      <4>4. Append(joins, now) \in Seq(Nat)
        BY <4>1
      <4>5. QED
        BY <4>1, <4>2, <4>3, <4>4
    <3>3. Len(joins') \in Nat
      BY <3>2
    <3>4. tasks' \in [Workers -> {Idle} \cup Joiner \cup Editor]
      <4>1. PICK latch \in BOOLEAN :
              tasks' = [tasks EXCEPT ![t] =
                [tasks[t] EXCEPT !.pc = IF latch THEN "latch" ELSE "gate",
                                 !.n = Len(joins'),
                                 !.lockdown = latch \/ tasks[t].cfg.lockdown]]
        BY <2>8 DEF RecordJoin, Goto, Trips, Watches
      <4>2. [tasks[t] EXCEPT !.pc = IF latch THEN "latch" ELSE "gate",
                             !.n = Len(joins'),
                             !.lockdown = latch \/ tasks[t].cfg.lockdown] \in Joiner
        BY <3>1, <3>3 DEF Joiner, Config
      <4>3. QED
        BY <4>1, <4>2 DEF TypeOK
    <3>5. UNCHANGED <<cfg, now, judged, stimuli, faults>>
      BY <2>8 DEF RecordJoin
    <3>6. QED
      BY <3>2, <3>4, <3>5 DEF TypeOK
  <2>9. ASSUME NEW t \in Workers, Latch(t) PROVE TypeOK'
    <3>1. tasks[t] \in Joiner
      BY <2>9, TaskKinds DEF Latch
    <3>2. /\ [tasks[t] EXCEPT !.pc = "gate"] \in Joiner
          /\ Latched(tasks[t].cfg) \in Config
      BY <3>1 DEF Joiner, Latched, Config
    <3>3. QED
      BY <2>9, <3>2 DEF TypeOK, Latch, Goto, Fault, NoFault
  <2>10. ASSUME NEW t \in Workers, Gate(t) PROVE TypeOK'
    <3>1. tasks[t] \in Joiner
      BY <2>10, TaskKinds DEF Gate
    <3>2. PICK gated \in BOOLEAN : judged' = judged \cup
            {[n |-> tasks[t].n, gated |-> gated, settings |-> tasks[t].cfg.settings]}
      <4>1. tasks[t].lockdown \/ Screened(tasks[t].cfg.settings, tasks[t].fresh) \in BOOLEAN
        BY <3>1, InputAssumption DEF Joiner, Config, Sane, Settings, Screened
      <4>2. QED
        BY <2>10, <3>1, InputAssumption
           DEF Gate, Joiner, Config, Sane, Settings, Screened
    <3>3. [n |-> tasks[t].n, gated |-> gated, settings |-> tasks[t].cfg.settings]
            \in Verdict
      BY <3>1 DEF Joiner, Config, Verdict
    <3>4. QED
      BY <2>10, <3>2, <3>3 DEF TypeOK, Gate, Goto, Ends
  <2>11. ASSUME NEW t \in Workers, SaveCommand(t) PROVE TypeOK'
    <3>1. tasks[t] \in Editor
      BY <2>11, TaskKinds DEF SaveCommand
    <3>2. cfg' \in Config
      BY <2>11, <3>1, EditedType DEF TypeOK, SaveCommand, Editor
    <3>3. QED
      BY <2>11, <3>2 DEF TypeOK, SaveCommand, Goto, Ends, Fault, NoFault
  <2>12. CASE UNCHANGED vars
    BY <2>12 DEF TypeOK, vars
  <2>13. QED
    BY <2>1, <2>2, <2>4, <2>5, <2>6, <2>7, <2>8, <2>9, <2>10, <2>11, <2>12
       DEF Next, TaskStep
<1>3. QED
  BY <1>1, <1>2, PTL DEF Spec

(* No step but a lift, a stale edit or an unticked page takes it down.     *)
LEMMA OnlyEditsLift ==
  ASSUME TypeOK, [Next]_vars
  PROVE  cfg.lockdown /\ ~cfg'.lockdown =>
           Unticked \/ \E t \in Workers : Lifts(t) \/ StaleEdit(t)
<1> SUFFICES ASSUME cfg.lockdown, ~cfg'.lockdown
             PROVE  Unticked \/ \E t \in Workers : Lifts(t) \/ StaleEdit(t)
  OBVIOUS
<1>1. cfg' # cfg
  OBVIOUS
<1>2. ASSUME NEW t \in Workers, Latch(t) PROVE FALSE
  <2>1. tasks[t] \in Joiner
    BY <1>2, TaskKinds DEF Latch
  <2>2. cfg' = Latched(tasks[t].cfg)
    BY <1>1, <1>2 DEF Latch
  <2>3. QED
    BY <2>1, <2>2 DEF Latched, Joiner, Config
<1>3. ASSUME NEW t \in Workers, SaveCommand(t) PROVE Lifts(t) \/ StaleEdit(t)
  <2>1. tasks[t].pc = "save"
    BY <1>3 DEF SaveCommand
  <2>2. tasks[t] \in Editor
    BY <2>1, TaskKinds
  <2>3. cfg' = Edited(tasks[t].cfg, tasks[t].edit)
    BY <1>1, <1>3 DEF SaveCommand
  <2>4. tasks'[t] = Idle
    BY <1>3 DEF SaveCommand, Ends, Goto, TypeOK
  <2>5. CASE tasks[t].edit = On
    BY <2>5, <2>2, <2>3 DEF Edited, On, Editor, Config
  <2>6. CASE tasks[t].edit = Off
    BY <2>1, <2>4, <2>6 DEF Lifts
  <2>7. CASE tasks[t].edit.what = "set"
    <3>1. cfg' = [tasks[t].cfg EXCEPT !.settings = tasks[t].edit.settings]
      BY <2>3, <2>7 DEF Edited
    <3>2. ~tasks[t].cfg.lockdown
      BY <2>2, <3>1 DEF Editor, Config
    <3>3. QED
      BY <2>1, <2>4, <2>7, <3>2 DEF StaleEdit
  <2>8. QED
    BY <2>2, <2>5, <2>6, <2>7 DEF Editor, Edits, On, Off
<1>4. ASSUME NEW body \in Bodies, SubmitForm(body) PROVE Unticked
  <2>1. cfg' = body /\ ~body.lockdown
    BY <1>4 DEF SubmitForm
  <2>2. UNCHANGED <<tasks, window, judged>> /\ stimuli' # stimuli
    BY <1>4 DEF SubmitForm, Stimulus, TypeOK
  <2>3. QED
    BY <2>1, <2>2 DEF Unticked
<1>5. QED
  BY <1>1, <1>2, <1>3, <1>4
     DEF Next, TaskStep, vars, Join, Command, Crash, Tick, LoadJoin, RecordJoin,
         Gate

(***************************************************************************)
(* Among any joins, trips, commands, pages, failures and restarts, whose   *)
(* loads and saves of the blob interleave at will, a lockdown ends only    *)
(* with a /lockdown off, with a /setraid that was begun before it, or with *)
(* a page that is saved without it, whenever it was opened.                *)
(***************************************************************************)
THEOREM TheLockdownHolds == Spec => LockdownHolds
<1>1. TypeOK /\ [Next]_vars
        => [cfg.lockdown /\ ~cfg'.lockdown =>
              Unticked \/ \E t \in Workers : Lifts(t) \/ StaleEdit(t)]_vars
  BY OnlyEditsLift
<1>2. QED
  BY RaidTyped, <1>1, PTL DEF Spec, LockdownHolds

-----------------------------------------------------------------------------
(* The dashboard. *)

(* What is about to be saved was entered. *)
Entered == request # NoRequest => request.body \in Bodies

LEMMA RequestsAreEntered == ConsoleSpec => []Entered
<1>1. ConsoleInit => Entered
  BY DEF ConsoleInit, Entered
<1>2. Entered /\ [ConsoleNext]_allVars => Entered'
  <2> SUFFICES ASSUME Entered, [ConsoleNext]_allVars PROVE Entered'
    OBVIOUS
  <2>1. ASSUME NEW k \in Tokens, NEW body \in Bodies, PutConfig(k, body) PROVE Entered'
    BY <2>1 DEF PutConfig, Entered
  <2>2. CASE request' = NoRequest
    BY <2>2 DEF Entered
  <2>3. CASE UNCHANGED request
    BY <2>3 DEF Entered
  <2>4. QED
    BY <2>1, <2>2, <2>3
       DEF ConsoleNext, SignIn, Mint, LogOut, Deny, SavePut, BotStep, Regrant, Wait,
           Restart, allVars, consoleVars
<1>3. QED
  BY <1>1, <1>2, PTL DEF ConsoleSpec

(***************************************************************************)
(* Sessions only narrow what a dashboard may do: whatever is true of the   *)
(* defence when anyone may save any body at any time, its box for the      *)
(* lockdown ticked or not, is true behind the dashboard.                   *)
(***************************************************************************)
THEOREM ConsoleImplementsRaid == ConsoleSpec => Spec
<1>1. ConsoleInit => Init
  BY DEF ConsoleInit
<1>2. Entered /\ [ConsoleNext]_allVars => [Next]_vars
  <2> SUFFICES ASSUME Entered, [ConsoleNext]_allVars PROVE [Next]_vars
    OBVIOUS
  <2>1. ASSUME NEW k \in Tokens, SignIn(k) \/ Mint(k) \/ LogOut(k) \/ Deny(k)
        PROVE  UNCHANGED vars
    BY <2>1 DEF SignIn, Mint, LogOut, Deny
  <2>3. ASSUME NEW k \in Tokens, NEW body \in Bodies, PutConfig(k, body)
        PROVE  UNCHANGED vars
    BY <2>3 DEF PutConfig
  <2>4. ASSUME SavePut PROVE Next \/ UNCHANGED vars
    BY <2>4 DEF SavePut, Entered, Next
  <2>5. ASSUME BotStep PROVE Next
    BY <2>5 DEF BotStep, Next
  <2>6. ASSUME Regrant PROVE UNCHANGED vars
    BY <2>6 DEF Regrant
  <2>7. ASSUME Wait \/ Restart PROVE Next
    BY <2>7 DEF Wait, Restart, Next
  <2>8. ASSUME UNCHANGED allVars PROVE UNCHANGED vars
    BY <2>8 DEF allVars
  <2>9. QED
    BY <2>1, <2>3, <2>4, <2>5, <2>6, <2>7, <2>8 DEF ConsoleNext
<1>3. QED
  BY <1>1, <1>2, RequestsAreEntered, PTL DEF ConsoleSpec, Spec

(* A session that allows writing is a bot owner's, or saw a permission     *)
(* that held then.                                                         *)
Vouched(l) == l.allowed => BotOwner \/ l.seen <= held

(***************************************************************************)
(* The clock never runs behind the last time the admin managed the server, *)
(* every session vouches for its admin, and what is in flight was          *)
(* authorised by one that still ran.                                       *)
(***************************************************************************)
ConsoleInv ==
  /\ ConsoleTypeOK
  /\ held <= now /\ (manages => held = now)
  /\ \A k \in Tokens : Vouched(logins[k])
  /\ request # NoRequest =>
       /\ request.session.allowed /\ Vouched(request.session)
       /\ request.at < request.session.minted + TTL

LEMMA LoginTypes ==
  /\ NewLogin \in Login /\ Gone \in Login
  /\ ~NewLogin.allowed /\ ~Gone.allowed
  BY DEF NewLogin, Gone, Login

(* A step of the bot touches neither the clock nor the dashboard.          *)
LEMMA ConsoleStands ==
  ASSUME ConsoleInv, UNCHANGED <<now, manages, logins, request, held>>, trouble' \in Nat
  PROVE  ConsoleInv'
BY DEF ConsoleInv, ConsoleTypeOK, Vouched

LEMMA BotKeepsTime ==
  ASSUME BotStep
  PROVE  UNCHANGED <<now, manages, logins, request, held, trouble>>
BY DEF BotStep, consoleVars, TaskStep, Join, Command, LoadJoin, RecordJoin, Latch, Gate,
       SaveCommand

LEMMA ConsoleStep == ConsoleInv /\ TypeOK /\ [ConsoleNext]_allVars => ConsoleInv'
<1> SUFFICES ASSUME ConsoleInv, TypeOK, [ConsoleNext]_allVars PROVE ConsoleInv'
  OBVIOUS
<1>0. now \in Nat /\ held \in Nat /\ trouble \in Nat /\ TTL \in Nat
  BY TTLAssumption DEF TypeOK, ConsoleInv, ConsoleTypeOK
<1>1. ASSUME NEW k \in Tokens, SignIn(k) PROVE ConsoleInv'
  <2> DEFINE new == [NewLogin EXCEPT !.pc = "mint", !.seen = now,
                              !.allowed = manages \/ BotOwner]
  <2>1. UNCHANGED <<now, manages, request, held>> /\ trouble' \in Nat
    BY <1>0, <1>1 DEF SignIn, vars, Trouble, NoTrouble
  <2>2. new \in Login /\ new.allowed = (manages \/ BotOwner) /\ new.seen = now
    BY <1>0, TTLAssumption DEF ConsoleInv, ConsoleTypeOK, NewLogin, Login
  <2>3. PICK l \in {new, Gone} : logins' = [logins EXCEPT ![k] = l]
    BY <1>1 DEF SignIn
  <2>4. l \in Login /\ Vouched(l)
    BY <1>0, <2>2, LoginTypes DEF ConsoleInv, Vouched
  <2>5. ConsoleTypeOK'
    BY <2>1, <2>3, <2>4 DEF ConsoleInv, ConsoleTypeOK
  <2>6. \A j \in Tokens : Vouched(logins[j])'
    BY <2>1, <2>3, <2>4 DEF ConsoleInv, ConsoleTypeOK, Vouched
  <2>7. QED
    BY <2>1, <2>5, <2>6 DEF ConsoleInv, Vouched
<1>2. ASSUME NEW k \in Tokens, Mint(k) PROVE ConsoleInv'
  <2>1. UNCHANGED <<now, manages, request, held>>
    BY <1>2 DEF Mint, vars
  <2>2. PICK allowed \in {logins[k].allowed, FALSE} :
          /\ IF allowed = logins[k].allowed THEN NoTrouble ELSE Trouble
          /\ logins' = [l \in Tokens |->
               IF l = k THEN [logins[k] EXCEPT !.pc = "live", !.minted = now,
                                               !.allowed = allowed]
                        ELSE Pruned(l)]
    BY <1>2 DEF Mint
  <2>3. trouble' \in Nat
    BY <1>0, <2>2 DEF Trouble, NoTrouble
  <2>4. \A l \in Tokens : Pruned(l) \in {logins[l], Gone}
    BY DEF Pruned
  <2>5. \A l \in Tokens : logins[l] \in Login /\ Vouched(logins[l])
    BY DEF ConsoleInv, ConsoleTypeOK
  <2>6. \A l \in Tokens : logins'[l] \in Login /\ Vouched(logins'[l])
    <3>1. CASE allowed = logins[k].allowed
      BY <1>0, <2>2, <2>4, <2>5, <3>1, LoginTypes DEF Login, Vouched
    <3>2. CASE allowed = FALSE
      BY <1>0, <2>2, <2>4, <2>5, <3>2, LoginTypes DEF Login, Vouched
    <3>3. QED
      BY <2>2, <3>1, <3>2
  <2>7. logins' \in [Tokens -> Login]
    BY <2>2, <2>6
  <2>8. QED
    BY <2>1, <2>3, <2>6, <2>7 DEF ConsoleInv, ConsoleTypeOK, Vouched
<1>3. ASSUME NEW k \in Tokens, LogOut(k) \/ Deny(k) PROVE ConsoleInv'
  <2>1. /\ logins' = [logins EXCEPT ![k] = Gone]
        /\ UNCHANGED <<now, manages, request, held, trouble>>
    BY <1>3 DEF LogOut, Deny, vars
  <2>2. QED
    BY <2>1, LoginTypes DEF ConsoleInv, ConsoleTypeOK, Vouched
<1>5. ASSUME NEW k \in Tokens, NEW body \in Bodies, PutConfig(k, body) PROVE ConsoleInv'
  <2>1. /\ request' = [pc |-> "save", body |-> body, session |-> logins[k], at |-> now]
        /\ UNCHANGED <<now, manages, logins, held, trouble>>
    BY <1>5 DEF PutConfig, vars
  <2>2. logins[k] \in Login /\ Vouched(logins[k])
    BY DEF ConsoleInv, ConsoleTypeOK
  <2>3. logins[k].allowed /\ now < logins[k].minted + TTL
    BY <1>5 DEF PutConfig, Authorized, Unexpired
  <2>4. request' \in Put
    BY <1>0, <2>1, <2>2 DEF Put
  <2>5. ConsoleTypeOK'
    BY <2>1, <2>4 DEF ConsoleInv, ConsoleTypeOK
  <2>6. QED
    BY <2>1, <2>2, <2>3, <2>5 DEF ConsoleInv, Vouched
<1>6. ASSUME SavePut PROVE ConsoleInv'
  <2>1. UNCHANGED <<now, manages, logins, held>> /\ request' = NoRequest
    BY <1>6 DEF SavePut, SubmitForm, vars
  <2>2. trouble' \in Nat
    BY <1>0, <1>6 DEF SavePut, Trouble, NoTrouble
  <2>3. QED
    BY <2>1, <2>2 DEF ConsoleInv, ConsoleTypeOK, Vouched
<1>7. ASSUME BotStep PROVE ConsoleInv'
  BY <1>0, <1>7, BotKeepsTime, ConsoleStands
<1>8. ASSUME Regrant PROVE ConsoleInv'
  <2>1. /\ manages' = ~manages /\ held' = now /\ UNCHANGED <<now, logins, request>>
        /\ trouble' \in Nat
    BY <1>0, <1>8 DEF Regrant, Trouble, vars
  <2>2. ConsoleTypeOK'
    BY <1>0, <2>1 DEF ConsoleInv, ConsoleTypeOK
  <2>3. ASSUME NEW l \in Login, Vouched(l) PROVE Vouched(l)'
    BY <1>0, <2>1, <2>3 DEF ConsoleInv, Vouched, Login
  <2>4. \A k \in Tokens : Vouched(logins[k])'
    BY <1>0, <2>1, <2>3 DEF ConsoleInv, ConsoleTypeOK, Vouched, Login
  <2>5. request # NoRequest => Vouched(request.session)'
    <3>1. request # NoRequest => request.session \in Login
      BY DEF ConsoleInv, ConsoleTypeOK, Put
    <3>2. QED
      BY <1>0, <2>1, <3>1 DEF ConsoleInv, Vouched, Login
  <2>6. QED
    BY <1>0, <2>1, <2>2, <2>4, <2>5 DEF ConsoleInv, Vouched
<1>9. ASSUME Wait PROVE ConsoleInv'
  <2>1. /\ now' = now + 1 /\ held' = (IF manages THEN now' ELSE held)
        /\ UNCHANGED <<manages, logins, request, trouble>>
    BY <1>9 DEF Wait, Tick
  <2>2. held <= held' /\ held' \in Nat /\ held' <= now' /\ (manages' => held' = now')
    BY <1>0, <2>1 DEF ConsoleInv
  <2>3. ConsoleTypeOK'
    BY <2>1, <2>2 DEF ConsoleInv, ConsoleTypeOK
  <2>4. \A k \in Tokens : Vouched(logins[k])'
    BY <1>0, <2>1, <2>2 DEF ConsoleInv, ConsoleTypeOK, Vouched, Login
  <2>5. request # NoRequest => Vouched(request.session)'
    <3>1. request # NoRequest => request.session \in Login
      BY DEF ConsoleInv, ConsoleTypeOK, Put
    <3>2. QED
      BY <1>0, <2>1, <2>2, <3>1 DEF ConsoleInv, Vouched, Login
  <2>6. QED
    BY <2>1, <2>2, <2>3, <2>4, <2>5 DEF ConsoleInv, Vouched
<1>10. ASSUME Restart PROVE ConsoleInv'
  <2>1. /\ UNCHANGED <<now, manages, held, trouble>> /\ request' = NoRequest
        /\ logins' = [k \in Tokens |->
             IF logins[k].pc = "new" THEN logins[k] ELSE Gone]
    BY <1>10 DEF Restart, Crash
  <2>2. \A k \in Tokens : logins[k] \in Login /\ Vouched(logins[k])
    BY DEF ConsoleInv, ConsoleTypeOK
  <2>3. logins' \in [Tokens -> Login] /\ \A k \in Tokens : Vouched(logins'[k])
    BY <2>1, <2>2, LoginTypes DEF Vouched
  <2>4. QED
    BY <2>1, <2>3 DEF ConsoleInv, ConsoleTypeOK, Vouched
<1>11. CASE UNCHANGED allVars
  BY <1>0, <1>11, ConsoleStands DEF allVars, vars, consoleVars
<1>12. QED
  BY <1>1, <1>2, <1>3, <1>5, <1>6, <1>7, <1>8, <1>9, <1>10, <1>11 DEF ConsoleNext

(***************************************************************************)
(* The TTL is what bounds a revoked admin: nothing is authorised later     *)
(* than TTL after the permission was last held, plus the time the login    *)
(* took; for any number of logins of an admin who does not own the bot,    *)
(* and whatever fails.                                                     *)
(***************************************************************************)
THEOREM RevocationTakesEffect == ConsoleSpec => []RevocationBites
<1>1. ConsoleInit => ConsoleInv
  <2> SUFFICES ASSUME ConsoleInit PROVE ConsoleInv
    OBVIOUS
  <2>1. \A k \in Tokens : logins[k] = NewLogin
    BY DEF ConsoleInit
  <2>2. QED
    BY <2>1, LoginTypes, TTLAssumption
       DEF ConsoleInit, Init, ConsoleInv, ConsoleTypeOK, Vouched
<1>2. ConsoleInv => RevocationBites
  <2> SUFFICES ASSUME ConsoleInv, request # NoRequest, ~BotOwner
               PROVE  request.at < held + TTL + (request.session.minted - request.session.seen)
    BY DEF RevocationBites
  <2>1. request.session \in Login /\ request.at \in Nat /\ held \in Nat /\ TTL \in Nat
    BY TTLAssumption DEF ConsoleInv, ConsoleTypeOK, Put
  <2>2. request.session.seen \in Nat /\ request.session.minted \in Nat
    BY <2>1 DEF Login
  <2>3. QED
    BY <2>1, <2>2 DEF ConsoleInv, Vouched
<1>3. QED
  BY <1>1, <1>2, ConsoleStep, ConsoleImplementsRaid, RaidTyped, PTL DEF ConsoleSpec

-----------------------------------------------------------------------------
(* Bursts. *)

(* Popping while the front is too old drops exactly the leading old entries. *)
LEMMA PoppedFront ==
  ASSUME NEW all \in Seq(Nat), NEW cut \in Nat, NEW old,
         old = {i \in 1 .. Len(all) : \A j \in 1 .. i : all[j] < cut}
  PROVE  /\ Cardinality(old) \in 0 .. Len(all)
         /\ \A j \in 1 .. Cardinality(old) : all[j] < cut
         /\ Cardinality(old) < Len(all) => all[Cardinality(old) + 1] >= cut
<1>1. Len(all) \in Nat /\ \A i \in 1 .. Len(all) : all[i] \in Nat
  OBVIOUS
<1>2. IsFiniteSet(1 .. Len(all)) /\ Cardinality(1 .. Len(all)) = Len(all)
  BY <1>1, FS_Interval
<1>3. IsFiniteSet(old) /\ Cardinality(old) \in Nat /\ Cardinality(old) <= Len(all)
  BY <1>2, FS_Subset, FS_CardinalityType
<1>4. \A i \in old : i <= Cardinality(old)
  <2> SUFFICES ASSUME NEW i \in old PROVE i <= Cardinality(old)
    OBVIOUS
  <2>1. 1 .. i \subseteq old
    BY <1>1
  <2>2. Cardinality(1 .. i) = i
    BY <1>1, FS_Interval
  <2>3. QED
    BY <1>1, <1>3, <2>1, <2>2, FS_Subset
<1>5. old \subseteq 1 .. Cardinality(old)
  BY <1>1, <1>3, <1>4
<1>6. IsFiniteSet(1 .. Cardinality(old)) /\ Cardinality(1 .. Cardinality(old)) = Cardinality(old)
  BY <1>3, FS_Interval
<1>7. old = 1 .. Cardinality(old)
  BY <1>5, <1>6, FS_Subset
<1>8. \A j \in 1 .. Cardinality(old) : all[j] < cut
  BY <1>3, <1>7
<1>9. ASSUME Cardinality(old) < Len(all) PROVE all[Cardinality(old) + 1] >= cut
  <2> DEFINE n == Cardinality(old) + 1
  <2>0. \A c \in Nat : c + 1 \notin 1 .. c
    OBVIOUS
  <2>1. n \in 1 .. Len(all) /\ n \notin old
    <3>1. n \notin 1 .. Cardinality(old)
      BY <1>3, <2>0
    <3>2. n \notin old
      BY <1>7, <3>1, Zenon
    <3>3. n \in 1 .. Len(all)
      BY <1>1, <1>3, <1>9
    <3>4. QED
      BY <3>2, <3>3
  <2>2. PICK j \in 1 .. n : ~(all[j] < cut)
    BY <2>1
  <2>3. j = n
    BY <1>3, <1>8, <2>2
  <2>4. QED
    BY <1>1, <2>1, <2>2, <2>3
<1>10. QED
  BY <1>1, <1>3, <1>8, <1>9

(* InBurst, of a given history. *)
BurstOf(times, n, s, w) ==
  Watches(s) /\
  Cardinality({i \in 1 .. n : times[i] >= times[n] - w}) >= s.threshold

(* A later join does not change whether an earlier one was in a burst. *)
LEMMA BurstStays ==
  ASSUME NEW times \in Seq(Nat), NEW at \in Nat, NEW n \in 1 .. Len(times), NEW s, NEW w
  PROVE  BurstOf(Append(times, at), n, s, w) = BurstOf(times, n, s, w)
<1>1. \A i \in 1 .. n : Append(times, at)[i] = times[i]
  OBVIOUS
<1>2. {i \in 1 .. n : Append(times, at)[i] >= Append(times, at)[n] - w}
      = {i \in 1 .. n : times[i] >= times[n] - w}
  BY <1>1
<1>3. QED
  BY <1>2 DEF BurstOf

(***************************************************************************)
(* The window is the end of what was ever recorded, and what it dropped is *)
(* too old for a window of W seconds.                                      *)
(***************************************************************************)
TailOf(remembered, times, at, W) ==
  LET k == Len(times) - Len(remembered) IN
  /\ k \in Nat
  /\ \A i \in 1 .. Len(remembered) : remembered[i] = times[k + i]
  /\ \A i \in 1 .. k : times[i] + W < at

(* A handler or a verdict knows the number of its join, and gates a burst. *)
Gates(times, n, s, w, gated) ==
  Watches(s) => n \in 1 .. Len(times) /\ (BurstOf(times, n, s, w) => gated)

LEMMA GatesOn ==
  ASSUME NEW times \in Seq(Nat), NEW at \in Nat, NEW n, NEW s, NEW w, NEW gated,
         Gates(times, n, s, w, gated)
  PROVE  Gates(Append(times, at), n, s, w, gated)
<1>1. CASE Watches(s)
  <2>1. n \in 1 .. Len(times) /\ n \in 1 .. Len(Append(times, at))
    BY <1>1 DEF Gates
  <2>2. QED
    BY <2>1, BurstStays DEF Gates
<1>2. QED
  BY <1>1 DEF Gates

(* Recording a join leaves the end of the history, and all of a burst. *)
LEMMA RecordedTail ==
  ASSUME NEW W \in Nat, NEW s, s.window \in Nat, W <= s.window, s.threshold \in Nat,
         window \in Seq(Nat), joins \in Seq(Nat), now \in Nat,
         TailOf(window, joins, now, W)
  PROVE  /\ TailOf(Recent(s), Append(joins, now), now, W)
         /\ BurstOf(Append(joins, now), Len(joins) + 1, s, W) => Trips(s)
<1> DEFINE all == Append(window, now)
           times == Append(joins, now)
           old == {i \in 1 .. Len(all) : \A j \in 1 .. i : all[j] < Cutoff(s)}
           c == Cardinality(old)
           k == Len(joins) - Len(window)
<1>1. all \in Seq(Nat) /\ Len(all) = Len(window) + 1 /\ Len(window) \in Nat
  OBVIOUS
<1>2. times \in Seq(Nat) /\ Len(times) = Len(joins) + 1 /\ Len(joins) \in Nat
  OBVIOUS
<1>3. Cutoff(s) \in Nat /\ \A x \in Nat : x < Cutoff(s) => x + W < now
  BY DEF Cutoff
<1>4. /\ k \in Nat
      /\ \A i \in 1 .. Len(window) : window[i] = joins[k + i]
      /\ \A i \in 1 .. k : joins[i] + W < now
  BY DEF TailOf
<1>5. c \in 0 .. Len(all) /\ \A j \in 1 .. c : all[j] < Cutoff(s)
  <2> HIDE DEF all
  <2>1. QED
    BY <1>1, <1>3, PoppedFront
<1>6. Recent(s) = SubSeq(all, c + 1, Len(all))
  BY DEF Recent
<1> HIDE DEF old
<1>7. \A i \in 1 .. Len(all) : all[i] = times[k + i] /\ all[i] \in Nat
  <2> SUFFICES ASSUME NEW i \in 1 .. Len(all)
               PROVE  all[i] = times[k + i] /\ all[i] \in Nat
    OBVIOUS
  <2>1. CASE i = Len(window) + 1
    <3>1. k + i = Len(joins) + 1
      BY <1>1, <1>2, <2>1
    <3>2. times[k + i] = now
      BY <1>2, <3>1
    <3>3. QED
      BY <1>1, <2>1, <3>2
  <2>2. CASE i \in 1 .. Len(window)
    <3>1. k + i \in 1 .. Len(joins)
      BY <1>1, <1>2, <1>4, <2>2
    <3>2. times[k + i] = joins[k + i]
      BY <1>2, <3>1
    <3>3. all[i] = window[i] /\ window[i] \in Nat
      BY <2>2
    <3>4. QED
      BY <1>4, <2>2, <3>2, <3>3
  <2>3. i = Len(window) + 1 \/ i \in 1 .. Len(window)
    BY <1>1
  <2>4. QED
    BY <2>1, <2>2, <2>3
<1>8. \A i \in 1 .. k + c : times[i] + W < now
  <2> SUFFICES ASSUME NEW i \in 1 .. k + c PROVE times[i] + W < now
    OBVIOUS
  <2>1. CASE i <= k
    BY <1>2, <1>4, <2>1
  <2>2. CASE i > k
    <3>1. i - k \in 1 .. c /\ i - k \in 1 .. Len(all) /\ k + (i - k) = i
      BY <1>1, <1>4, <1>5, <2>2
    <3>2. all[i - k] = times[i]
      BY <1>7, <3>1
    <3>3. all[i - k] \in Nat
      BY <1>7, <3>1
    <3>4. all[i - k] < Cutoff(s)
      BY <1>5, <3>1
    <3> HIDE DEF all, times, c, k
    <3>5. QED
      BY <1>3, <3>2, <3>3, <3>4
  <2>3. i <= k \/ i > k
    <3>1. k \in Nat /\ c \in Nat
      BY <1>1, <1>4, <1>5
    <3> HIDE DEF all, times, c, k
    <3>2. QED
      BY <3>1
  <2>4. QED
    BY <2>1, <2>2, <2>3
<1>9. Len(Recent(s)) = Len(all) - c /\ Len(times) - Len(Recent(s)) = k + c
  <2> HIDE DEF all
  <2>1. QED
    BY <1>1, <1>2, <1>4, <1>5, <1>6
<1>10. TailOf(Recent(s), times, now, W)
  <2>1. \A i \in 1 .. Len(Recent(s)) : Recent(s)[i] = times[k + c + i]
    <3> SUFFICES ASSUME NEW i \in 1 .. Len(all) - c PROVE Recent(s)[i] = times[k + c + i]
      BY <1>9
    <3>1. Recent(s)[i] = all[c + i] /\ c + i \in 1 .. Len(all)
      <4> HIDE DEF all, c
      <4>1. QED
        BY <1>1, <1>5, <1>6
    <3>2. k + (c + i) = k + c + i
      BY <1>4, <1>5, <1>1
    <3>3. QED
      BY <1>7, <3>1, <3>2
  <2>2. k + c \in Nat
    BY <1>1, <1>4, <1>5
  <2> HIDE DEF all, times, c, k
  <2>3. QED
    BY <1>8, <1>9, <2>1, <2>2 DEF TailOf
<1>11. ASSUME BurstOf(times, Len(joins) + 1, s, W) PROVE Trips(s)
  <2> DEFINE n == Len(joins) + 1
             burst == {i \in 1 .. n : times[i] >= times[n] - W}
  <2>1. Watches(s) /\ Cardinality(burst) >= s.threshold
    BY <1>11 DEF BurstOf
  <2>2. burst \subseteq (k + c + 1) .. n
    <3> SUFFICES ASSUME NEW i \in burst PROVE i \in (k + c + 1) .. n
      OBVIOUS
    <3>1. i \in 1 .. n /\ times[i] >= now - W /\ times[i] \in Nat
      BY <1>2
    <3>2. ~(times[i] + W < now)
      BY <3>1
    <3>3. k + c \in Nat
      BY <1>1, <1>4, <1>5
    <3> HIDE DEF burst, times, c, k
    <3>4. i \notin 1 .. k + c
      BY <1>8, <3>2
    <3>5. QED
      BY <1>2, <3>1, <3>3, <3>4
  <2>3. Cardinality((k + c + 1) .. n) = Len(Recent(s))
    <3>1. n = k + c + Len(Recent(s)) /\ k + c \in Nat /\ Len(Recent(s)) \in Nat
      <4> HIDE DEF all, times, c
      <4>1. QED
        BY <1>1, <1>2, <1>4, <1>5, <1>9
    <3> DEFINE m == Len(Recent(s))
               a == k + c
    <3> HIDE DEF a, m
    <3>2. ASSUME a \in Nat, m \in Nat PROVE Cardinality((a + 1) .. (a + m)) = m
      <4>1. a + 1 \in Int /\ a + m \in Int
        BY <3>2
      <4>2. Cardinality((a + 1) .. (a + m))
              = IF a + 1 > a + m THEN 0 ELSE (a + m) - (a + 1) + 1
        BY <4>1, FS_Interval
      <4>3. QED
        BY <3>2, <4>2
    <3>3. n = a + m
      BY <3>1 DEF a, m
    <3>4. a \in Nat /\ m \in Nat
      BY <3>1 DEF a, m
    <3>5. Cardinality((a + 1) .. n) = m
      BY <3>2, <3>3, <3>4
    <3>6. QED
      BY <3>5 DEF a, m
  <2>4. Cardinality(burst) <= Len(Recent(s)) /\ Cardinality(burst) \in Nat
    <3>1. IsFiniteSet((k + c + 1) .. n)
      <4>1. k + c + 1 \in Int /\ n \in Int
        BY <1>1, <1>2, <1>4, <1>5
      <4> HIDE DEF c, k, n
      <4>2. QED
        BY <4>1, FS_Interval
    <3> HIDE DEF burst, c, k, n
    <3>2. QED
      BY <2>2, <2>3, <3>1, FS_Subset, FS_CardinalityType
  <2>5. Len(Recent(s)) \in Nat
    <3> HIDE DEF all, times, c
    <3>1. QED
      BY <1>1, <1>5, <1>9
  <2> HIDE DEF burst
  <2>6. Len(Recent(s)) >= s.threshold
    BY <2>1, <2>4, <2>5
  <2>7. QED
    BY <2>1, <2>6 DEF Trips
<1>12. QED
  BY <1>2, <1>10, <1>11

(* A handler that has recorded its join gates it if it was in a burst. *)
Decided(task) == task.pc \in {"latch", "gate"}

DecidesWell(times, w, task) ==
  Decided(task) => Gates(times, task.n, task.cfg.settings, w, task.lockdown)

(***************************************************************************)
(* The inductive invariant: the window is the end of the history, and no   *)
(* handler or verdict lets a join of a burst in.  What is decided of a     *)
(* join stays right, because later joins change no burst before them.      *)
(***************************************************************************)
BurstInv(W) ==
  /\ TailOf(window, joins, now, W)
  /\ \A t \in Workers : DecidesWell(joins, W, tasks[t])
  /\ \A v \in judged : Gates(joins, v.n, v.settings, W, v.gated)

(* A step that records no join changes one task, or none. *)
LEMMA BurstStands ==
  ASSUME NEW W \in Nat, BurstInv(W), TypeOK, UNCHANGED <<window, joins, judged>>,
         now' \in {now, now + 1},
         \A t \in Workers : tasks'[t] = tasks[t] \/ DecidesWell(joins, W, tasks'[t])
  PROVE  BurstInv(W)'
<1>1. TailOf(window, joins, now', W)
  <2>1. now \in Nat /\ joins \in Seq(Nat) /\ window \in Seq(Nat)
    BY DEF TypeOK
  <2>2. Len(joins) \in Nat /\ Len(window) \in Nat /\ \A i \in 1 .. Len(joins) : joins[i] \in Nat
    BY <2>1
  <2>3. \A i \in 1 .. Len(joins) - Len(window) : joins[i] + W < now
    BY DEF BurstInv, TailOf
  <2>4. \A i \in 1 .. Len(joins) - Len(window) : joins[i] + W < now'
    BY <2>1, <2>2, <2>3
  <2>5. QED
    BY <2>4 DEF BurstInv, TailOf
<1>2. \A t \in Workers : DecidesWell(joins, W, tasks'[t])
  BY DEF BurstInv
<1>3. \A v \in judged' : Gates(joins', v.n, v.settings, W, v.gated)
  BY DEF BurstInv
<1>4. QED
  BY <1>1, <1>2, <1>3 DEF BurstInv

LEMMA IdleDecides == \A times, w : DecidesWell(times, w, Idle)
  BY DEF DecidesWell, Decided, Idle

LEMMA BurstStep ==
  ASSUME NEW W \in Nat, \A s \in Sane : W <= s.window,
         BurstInv(W), TypeOK, [Next]_vars
  PROVE  BurstInv(W)'
<1>2. ASSUME NEW t \in Workers, NEW task, Goto(t, task),
             DecidesWell(joins, W, task), UNCHANGED <<window, joins, judged, now>>
      PROVE  BurstInv(W)'
  <2>1. \A u \in Workers : tasks'[u] = tasks[u] \/ tasks'[u] = task
    BY <1>2 DEF Goto, TypeOK
  <2> HIDE DEF DecidesWell
  <2>2. QED
    BY <1>2, <2>1, BurstStands
<1>3. ASSUME NEW t \in Workers, NEW fresh \in BOOLEAN, Join(t, fresh) PROVE BurstInv(W)'
  <2> DEFINE task == [pc |-> "load", fresh |-> fresh, cfg |-> cfg, n |-> 0,
                      lockdown |-> FALSE]
  <2>1. DecidesWell(joins, W, task)
    BY DEF DecidesWell, Decided
  <2>2. Goto(t, task) /\ UNCHANGED <<window, joins, judged, now>>
    BY <1>3 DEF Join
  <2> HIDE DEF task
  <2>3. QED
    BY <1>2, <2>1, <2>2
<1>4. ASSUME NEW t \in Workers, NEW edit \in Edits, Command(t, edit) PROVE BurstInv(W)'
  <2> DEFINE task == [pc |-> "save", edit |-> edit, cfg |-> cfg]
  <2>1. DecidesWell(joins, W, task)
    BY DEF DecidesWell, Decided
  <2>2. Goto(t, task) /\ UNCHANGED <<window, joins, judged, now>>
    BY <1>4 DEF Command
  <2> HIDE DEF task
  <2>3. QED
    BY <1>2, <2>1, <2>2
<1>5. ASSUME NEW t \in Workers, LoadJoin(t) PROVE BurstInv(W)'
  <2> DEFINE task == [tasks[t] EXCEPT !.pc = "record", !.cfg = cfg]
  <2>1. tasks[t] \in Joiner
    BY <1>5, TaskKinds DEF LoadJoin
  <2>2. task.pc = "record"
    BY <2>1 DEF Joiner
  <2>3. DecidesWell(joins, W, task)
    BY <2>2 DEF DecidesWell, Decided
  <2>4. Goto(t, task) \/ Goto(t, Idle)
    BY <1>5 DEF LoadJoin, Ends
  <2>5. UNCHANGED <<window, joins, judged, now>>
    BY <1>5 DEF LoadJoin
  <2> HIDE DEF task
  <2>6. QED
    BY <1>2, <2>3, <2>4, <2>5, IdleDecides
<1>6. ASSUME NEW t \in Workers, RecordJoin(t) PROVE BurstInv(W)'
  <2> DEFINE s == tasks[t].cfg.settings
             latch == Trips(s) /\ ~tasks[t].cfg.lockdown
             task == [tasks[t] EXCEPT !.pc = IF latch THEN "latch" ELSE "gate",
                                      !.n = Len(joins'),
                                      !.lockdown = latch \/ tasks[t].cfg.lockdown]
  <2>1. tasks[t] \in Joiner
    BY <1>6, TaskKinds DEF RecordJoin
  <2>2. s \in Sane /\ s.window \in Nat /\ W <= s.window /\ s.threshold \in Nat /\ tasks[t].cfg.lockdown \in BOOLEAN
    BY <2>1, InputAssumption DEF Joiner, Config, Sane, Settings
  <2>3. UNCHANGED <<now, judged>> /\ tasks' = [tasks EXCEPT ![t] = task]
    BY <1>6 DEF RecordJoin, Goto
  <2>4. /\ task.n = Len(joins') /\ task.cfg.settings = s
        /\ task.lockdown = (latch \/ tasks[t].cfg.lockdown)
    BY <2>1 DEF Joiner
  <2>5. window \in Seq(Nat) /\ joins \in Seq(Nat) /\ now \in Nat
    BY DEF TypeOK
  <2>6. CASE Watches(s)
    <3>1. window' = Recent(s) /\ joins' = Append(joins, now)
      BY <1>6, <2>6 DEF RecordJoin, Remembered
    <3>2. TailOf(Recent(s), joins', now, W) /\ (BurstOf(joins', Len(joins) + 1, s, W) => Trips(s))
      <4> HIDE DEF s
      <4>1. QED
        BY <2>2, <2>5, <3>1, RecordedTail DEF BurstInv
    <3>3. Len(joins') = Len(joins) + 1 /\ Len(joins) \in Nat
      BY <2>5, <3>1
    <3>4. DecidesWell(joins', W, task)
      <4> HIDE DEF s
      <4>1. BurstOf(joins', task.n, task.cfg.settings, W) => task.lockdown
        <5> HIDE DEF task
        <5>1. QED
          BY <2>2, <2>4, <3>2, <3>3
      <4> HIDE DEF task
      <4>2. task.n \in 1 .. Len(joins')
        BY <2>4, <3>3
      <4>3. QED
        BY <4>1, <4>2 DEF DecidesWell, Gates
    <3>5. ASSUME NEW other, DecidesWell(joins, W, other) PROVE DecidesWell(joins', W, other)
      BY <2>5, <3>1, <3>5, GatesOn DEF DecidesWell
    <3>6. \A u \in Workers : DecidesWell(joins', W, tasks'[u])
      <4>1. \A u \in Workers : tasks'[u] = tasks[u] \/ tasks'[u] = task
        BY <2>3 DEF TypeOK
      <4> HIDE DEF task
      <4>2. QED
        BY <3>4, <3>5, <4>1 DEF BurstInv
    <3>7. \A v \in judged' : Gates(joins', v.n, v.settings, W, v.gated)
      BY <2>3, <2>5, <3>1, GatesOn DEF BurstInv
    <3>8. QED
      BY <2>3, <3>1, <3>2, <3>6, <3>7 DEF BurstInv
  <2>7. CASE ~Watches(s)
    <3>1. UNCHANGED <<window, joins>>
      BY <1>6, <2>7 DEF RecordJoin
    <3>2. DecidesWell(joins, W, task)
      <4> HIDE DEF task, s
      <4>1. QED
        BY <2>4, <2>7 DEF DecidesWell, Gates
    <3> HIDE DEF task
    <3>3. QED
      BY <1>2, <2>3, <3>1, <3>2 DEF Goto
  <2>8. QED
    BY <2>6, <2>7
<1>7. ASSUME NEW t \in Workers, Latch(t) PROVE BurstInv(W)'
  <2> DEFINE task == [tasks[t] EXCEPT !.pc = "gate"]
  <2>1. tasks[t] \in Joiner /\ tasks[t].pc = "latch"
    BY <1>7, TaskKinds DEF Latch
  <2>2. task.n = tasks[t].n /\ task.cfg = tasks[t].cfg /\ task.lockdown = tasks[t].lockdown
    BY <2>1 DEF Joiner
  <2>3. Gates(joins, tasks[t].n, tasks[t].cfg.settings, W, tasks[t].lockdown)
    BY <2>1 DEF BurstInv, DecidesWell, Decided
  <2>4. Goto(t, task) /\ UNCHANGED <<window, joins, judged, now>>
    BY <1>7 DEF Latch
  <2> HIDE DEF task
  <2>5. DecidesWell(joins, W, task)
    BY <2>2, <2>3 DEF DecidesWell
  <2>6. QED
    BY <1>2, <2>4, <2>5
<1>8. ASSUME NEW t \in Workers, Gate(t) PROVE BurstInv(W)'
  <2>1. tasks[t] \in Joiner /\ tasks[t].pc = "gate"
    BY <1>8, TaskKinds DEF Gate
  <2>2. Gates(joins, tasks[t].n, tasks[t].cfg.settings, W, tasks[t].lockdown)
    BY <2>1 DEF BurstInv, DecidesWell, Decided
  <2> DEFINE gated == tasks[t].lockdown \/ Screened(tasks[t].cfg.settings, tasks[t].fresh)
             v == [n |-> tasks[t].n, gated |-> gated, settings |-> tasks[t].cfg.settings]
  <2>3. judged' = judged \cup {v} /\ UNCHANGED <<window, joins, now>>
    BY <1>8 DEF Gate
  <2>4. Gates(joins, v.n, v.settings, W, v.gated)
    BY <2>2 DEF Gates
  <2>5. \A u \in Workers : tasks'[u] = tasks[u] \/ tasks'[u] = Idle
    BY <1>8 DEF Gate, Ends, Goto, TypeOK
  <2>6. \A u \in Workers : DecidesWell(joins, W, tasks'[u])
    BY <2>5, IdleDecides DEF BurstInv
  <2> HIDE DEF v
  <2>7. QED
    BY <2>3, <2>4, <2>6 DEF BurstInv
<1>9. ASSUME NEW t \in Workers, SaveCommand(t) PROVE BurstInv(W)'
  BY <1>2, <1>9, IdleDecides DEF SaveCommand, Ends
<1>10. ASSUME Crash PROVE BurstInv(W)'
  <2>1. window' = <<>> /\ joins' = <<>> /\ judged' = {} /\ \A t \in Workers : tasks'[t] = Idle
    BY <1>10 DEF Crash
  <2>2. TailOf(<<>>, <<>>, now', W)
    BY DEF TailOf
  <2>3. QED
    BY <2>1, <2>2, IdleDecides DEF BurstInv
<1>11. CASE UNCHANGED <<window, joins, judged, tasks>> /\ now' \in {now, now + 1}
  BY <1>11, BurstStands
<1>12. QED
  <2>1. ASSUME Tick \/ UNCHANGED vars \/ \E body \in Bodies : SubmitForm(body)
        PROVE  BurstInv(W)'
    BY <1>11, <2>1 DEF Tick, vars, SubmitForm
  <2>2. QED
    BY <1>3, <1>4, <1>5, <1>6, <1>7, <1>8, <1>9, <1>10, <2>1 DEF Next, TaskStep

(* A lasting window is a number, and no settings are shorter.              *)
LEMMA LastingWindows == \A W \in Lasting : W \in Nat /\ \A s \in Sane : W <= s.window
  BY InputAssumption DEF Lasting, Sane, Settings

(***************************************************************************)
(* No join of a burst is let in, whatever the settings' windows and        *)
(* thresholds are and however they change, with any number of handlers,    *)
(* joins, commands, pages, failures and restarts.                          *)
(***************************************************************************)
THEOREM BurstsAreGated == Spec => []BurstIsGated
<1>1. Init => \A W \in Lasting : BurstInv(W)
  <2> SUFFICES ASSUME Init, NEW W \in Lasting PROVE BurstInv(W)
    OBVIOUS
  <2>1. TailOf(<<>>, <<>>, now, W)
    BY DEF TailOf
  <2>2. \A t \in Workers : DecidesWell(joins, W, tasks[t])
    BY IdleDecides DEF Init
  <2>3. QED
    BY <2>1, <2>2 DEF Init, BurstInv
<1>2. (\A W \in Lasting : BurstInv(W)) /\ TypeOK /\ [Next]_vars
        => (\A W \in Lasting : BurstInv(W))'
  <2> SUFFICES ASSUME \A W \in Lasting : BurstInv(W), TypeOK, [Next]_vars,
                      NEW W \in Lasting
               PROVE  BurstInv(W)'
    BY DEF Lasting, Sane
  <2>1. W \in Nat /\ \A s \in Sane : W <= s.window
    BY LastingWindows
  <2>2. QED
    BY <2>1, BurstStep
<1>3. (\A W \in Lasting : BurstInv(W)) => BurstIsGated
  BY DEF BurstInv, BurstIsGated, Gates, InBurst, BurstOf
<1>4. QED
  BY <1>1, <1>2, <1>3, RaidTyped, PTL DEF Spec

(***************************************************************************)
(* Behind the dashboard both promises stand: pages ordered in any way with *)
(* the handlers, and saved by whichever session, end a lockdown only when  *)
(* their own box is not ticked, and let no join of a burst past the gate.  *)
(***************************************************************************)
COROLLARY DashboardHoldsLockdown == ConsoleSpec => LockdownHolds
  BY ConsoleImplementsRaid, TheLockdownHolds

COROLLARY DashboardGatesBursts == ConsoleSpec => []BurstIsGated
  BY ConsoleImplementsRaid, BurstsAreGated

=============================================================================
