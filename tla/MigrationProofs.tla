-------------------------- MODULE MigrationProofs --------------------------
(***************************************************************************)
(* The upgrade loses nothing and marks the database only when it is done,  *)
(* but for what it could not read, for any number of guilds, users,        *)
(* crashes, failures and writes; and, if the store does not fail, what the *)
(* handlers see is that of GuildStore.                                     *)
(***************************************************************************)
EXTENDS Migration, TLAPS

(* What a guild owns under a bare key is really there.                     *)
LEMMA LegacyType ==
  ASSUME NEW row \in Legacy \cup {Absent}
  PROVE  /\ row.guild \in Guilds \cup {NoGuild}
         /\ row.guild # NoGuild => row.data \in Values /\ row.data # NoRow
         /\ Left(row).guild = NoGuild
         /\ Left(row) \in Legacy \cup {Absent}
<1>1. CASE row = Absent
  BY <1>1 DEF Absent, Left
<1>2. CASE row \in Legacy
  <2>1. row.guild \in Guilds \cup {NoGuild} /\ row.data \in Values
    BY <1>2 DEF Legacy
  <2>2. Absent.guild = NoGuild
    BY DEF Absent
  <2>3. QED
    BY <1>2, <2>1, <2>2, ValuesAssumption DEF Left
<1>3. QED
  BY <1>1, <1>2

(* The upgrade looks at a blob.                                            *)
BlobStep(b) == CopyBlob(b) \/ MissBlob(b) \/ OverwriteBlob(b)

(* What a table holds once it was re-keyed but for the unread rows.        *)
LEMMA RekeyType ==
  ASSUME TypeOK, NEW t \in Tables, NEW unread \in SUBSET Users
  PROVE  /\ [g \in Guilds |-> [u \in Users |->
                IF u \in unread THEN rows[t][g][u] ELSE Rekeyed(t, g, u)]]
              \in [Guilds -> [Users -> Nat]]
         /\ [u \in Users |-> IF u \in unread THEN bare[t][u] ELSE Left(bare[t][u])]
              \in [Users -> Legacy \cup {Absent}]
<1>1. \A u \in Users : Left(bare[t][u]) \in Legacy \cup {Absent}
  BY LegacyType DEF TypeOK
<1>2. \A g \in Guilds, u \in Users : Rekeyed(t, g, u) \in Nat
  <2> SUFFICES ASSUME NEW g \in Guilds, NEW u \in Users
               PROVE  Rekeyed(t, g, u) \in Nat
    OBVIOUS
  <2>1. bare[t][u] \in Legacy \cup {Absent} /\ rows[t][g][u] \in Nat
    BY DEF TypeOK
  <2>2. bare[t][u].guild = g => bare[t][u].data \in Nat
    BY <2>1, LegacyType, GuildAssumption, ValuesAssumption
  <2>3. QED
    BY <2>1, <2>2 DEF Rekeyed
<1>3. QED
  BY <1>1, <1>2 DEF TypeOK

(* Every variable keeps its type.                                          *)
THEOREM MigrationTyped == Spec => []TypeOK
<1>1. Init => TypeOK
  <2> SUFFICES ASSUME Init PROVE TypeOK
    OBVIOUS
  <2>1. rows \in [Tables -> [Guilds -> [Users -> Nat]]]
    BY DEF Init, NoRow
  <2>2. config \in [Guilds -> [Bases -> {NoRow} \cup Values]]
    BY DEF Init
  <2>3. crashes \in Nat /\ faults \in Nat /\ writes \in Nat
    BY NumberAssumption DEF Init
  <2>4. QED
    BY <2>1, <2>2, <2>3 DEF Init, TypeOK
<1>2. TypeOK /\ [Next]_vars => TypeOK'
  <2> SUFFICES ASSUME TypeOK, [Next]_vars PROVE TypeOK'
    OBVIOUS
  <2>1. CASE Start
    BY <2>1 DEF TypeOK, Start, Fault
  <2>2. CASE Crash
    BY <2>2 DEF TypeOK, Crash
  <2>3. CASE Fail
    BY <2>3 DEF TypeOK, Fail, Fault
  <2>4. ASSUME NEW b \in Bases, BlobStep(b) PROVE TypeOK'
    <3>1. bareConfig[b].guild # NoGuild => /\ bareConfig[b].guild \in Guilds
                                           /\ bareConfig[b].data \in Values
      BY LegacyType DEF TypeOK
    <3>2. config' = config \/ (bareConfig[b].guild # NoGuild /\ config' = Filed(b))
      BY <2>4 DEF BlobStep, CopyBlob, MissBlob, OverwriteBlob, Copied
    <3>3. config' \in [Guilds -> [Bases -> {NoRow} \cup Values]]
      <4>1. config \in [Guilds -> [Bases -> {NoRow} \cup Values]]
        BY DEF TypeOK
      <4>2. ASSUME NEW g \in Guilds, NEW v \in Values
            PROVE  [config EXCEPT ![g][b] = v] \in [Guilds -> [Bases -> {NoRow} \cup Values]]
        <5>1. [config[g] EXCEPT ![b] = v] \in [Bases -> {NoRow} \cup Values]
          BY <4>1
        <5>2. QED
          BY <4>1, <5>1
      <4>3. QED
        BY <3>1, <3>2, <4>1, <4>2 DEF Filed
    <3>4. faults' \in Nat
      BY <2>4 DEF BlobStep, CopyBlob, MissBlob, OverwriteBlob, Fault, TypeOK
    <3>5. missed' \subseteq ({"config"} \X Bases) \cup (Tables \X Users)
      <4>1. missed' = missed \cup {<<"config", b>>} \/ missed' = missed \ {<<"config", b>>}
        BY <2>4 DEF BlobStep, CopyBlob, MissBlob, OverwriteBlob
      <4>2. QED
        BY <4>1 DEF TypeOK
    <3>6. todo' = todo \ {b} /\ UNCHANGED <<bare, rows, bareConfig, schema, pc, crashes, writes>>
      BY <2>4 DEF BlobStep, CopyBlob, MissBlob, OverwriteBlob, Take
    <3>7. QED
      BY <3>3, <3>4, <3>5, <3>6 DEF TypeOK
  <2>5. CASE BlobsDone
    BY <2>5 DEF TypeOK, BlobsDone
  <2>6. ASSUME NEW t \in Tables, NEW next \in {"jails", "mark"}, Rekey(t, next)
        PROVE  TypeOK'
    <3>1. PICK unread \in SUBSET Users :
            /\ Unreadable(unread)
            /\ rows' = [rows EXCEPT ![t] = [g \in Guilds |-> [u \in Users |->
                          IF u \in unread THEN rows[t][g][u] ELSE Rekeyed(t, g, u)]]]
            /\ bare' = [bare EXCEPT ![t] = [u \in Users |->
                          IF u \in unread THEN bare[t][u] ELSE Left(bare[t][u])]]
            /\ missed' = (missed \ ({t} \X Users)) \cup ({t} \X unread)
      BY <2>6 DEF Rekey
    <3>2. /\ bare' \in [Tables -> [Users -> Legacy \cup {Absent}]]
          /\ rows' \in [Tables -> [Guilds -> [Users -> Nat]]]
      BY <3>1, RekeyType DEF TypeOK
    <3>3. faults' \in Nat
      BY <3>1 DEF Unreadable, Fault, TypeOK
    <3>4. missed' \subseteq ({"config"} \X Bases) \cup (Tables \X Users)
      BY <3>1 DEF TypeOK
    <3>5. /\ pc' \in {"jails", "mark"}
          /\ UNCHANGED <<bareConfig, config, schema, todo, crashes, writes>>
      BY <2>6 DEF Rekey
    <3>6. QED
      BY <3>2, <3>3, <3>4, <3>5 DEF TypeOK
  <2>7. CASE RekeyStrikes \/ RekeyJails
    BY <2>6, <2>7 DEF RekeyStrikes, RekeyJails, Tables
  <2>8. CASE Mark
    BY <2>8 DEF TypeOK, Mark
  <2>9. CASE Handler
    <3>1. ASSUME NEW g \in Guilds, NEW u \in Users, Strike(g, u) PROVE TypeOK'
      BY <3>1 DEF TypeOK, Strike, Serve, Tables
    <3>2. ASSUME NEW g \in Guilds, NEW u \in Users, NEW v \in Values, Jail(g, u, v)
          PROVE  TypeOK'
      BY <3>2, ValuesAssumption DEF TypeOK, Jail, Serve, Tables
    <3>3. ASSUME NEW t \in Tables, NEW g \in Guilds, NEW u \in Users, Erase(t, g, u)
          PROVE  TypeOK'
      BY <3>3 DEF TypeOK, Erase, Serve, NoRow
    <3>4. ASSUME NEW g \in Guilds, NEW b \in Bases, NEW v \in Values, Configure(g, b, v)
          PROVE  TypeOK'
      BY <3>4 DEF TypeOK, Configure, Serve
    <3>5. QED
      BY <2>9, <3>1, <3>2, <3>3, <3>4 DEF Handler
  <2>10. CASE UNCHANGED vars
    BY <2>10 DEF TypeOK, vars
  <2>11. QED
    BY <2>1, <2>2, <2>3, <2>4, <2>5, <2>7, <2>8, <2>9, <2>10 DEF Next, Upgrade, BlobStep
<1>3. QED
  BY <1>1, <1>2, PTL DEF Spec

-----------------------------------------------------------------------------
(* A database marked as upgraded is upgraded. *)

RowsMoved(t) ==
  \A u \in Users : bare[t][u].guild # NoGuild => <<t, u>> \in missed

BlobMoved(b) ==
  bareConfig[b].guild # NoGuild /\ config[bareConfig[b].guild][b] = NoRow
    => <<"config", b>> \in missed

(* How far the upgrade has come at each of its steps.  Handlers write only *)
(* rows under a guild's key, and erase no blob, so it never comes undone.  *)
StageInv ==
  /\ pc = "blobs" => \A b \in Bases \ todo : BlobMoved(b)
  /\ pc \in {"strikes", "jails", "mark"} => \A b \in Bases : BlobMoved(b)
  /\ pc \in {"jails", "mark"} => RowsMoved("strikes")
  /\ pc = "mark" => RowsMoved("jails")
  /\ schema => /\ \A t \in Tables : RowsMoved(t)
               /\ \A b \in Bases : BlobMoved(b)

(* The invariant holds at first.                                           *)
LEMMA StageInit == Init => StageInv
BY DEF Init, StageInv

(* And it survives every step.                                             *)
LEMMA StageNext == TypeOK /\ StageInv /\ [Next]_vars => StageInv'
<1> SUFFICES ASSUME TypeOK, StageInv, [Next]_vars PROVE StageInv'
  OBVIOUS
<1>1. CASE Start
  BY <1>1 DEF StageInv, Start, RowsMoved, BlobMoved
<1>2. CASE Crash
  BY <1>2 DEF StageInv, Crash, RowsMoved, BlobMoved
<1>3. CASE Fail
  BY <1>3 DEF StageInv, Fail, RowsMoved, BlobMoved
<1>4. ASSUME NEW b \in Bases, BlobStep(b) PROVE StageInv'
  <2>1. /\ pc = "blobs" /\ pc' = "blobs" /\ todo' = todo \ {b}
        /\ UNCHANGED <<bare, bareConfig, schema>>
    BY <1>4 DEF BlobStep, CopyBlob, MissBlob, OverwriteBlob, Take
  <2>2. \A c \in Bases : bareConfig[c] \in Legacy \cup {Absent}
    BY DEF TypeOK
  <2>3. config' = config \/ (bareConfig[b].guild # NoGuild /\ config' = Filed(b))
    BY <1>4 DEF BlobStep, CopyBlob, MissBlob, OverwriteBlob, Copied
  <2>4. missed' = missed \cup {<<"config", b>>} \/ missed' = missed \ {<<"config", b>>}
    BY <1>4 DEF BlobStep, CopyBlob, MissBlob, OverwriteBlob
  <2>5. BlobMoved(b)'
    <3>1. CASE MissBlob(b)
      BY <3>1 DEF MissBlob, BlobMoved
    <3>2. ASSUME bareConfig[b].guild # NoGuild, config' = Filed(b) PROVE BlobMoved(b)'
      <4>1. /\ bareConfig[b].guild \in Guilds /\ bareConfig[b].data # NoRow
        BY <2>2, <3>2, LegacyType
      <4>2. config'[bareConfig[b].guild][b] = bareConfig[b].data
        BY <3>2, <4>1 DEF Filed, TypeOK
      <4>3. QED
        BY <2>1, <4>1, <4>2 DEF BlobMoved
    <3>3. CASE config' = config /\ ~Copied(b)
      BY <2>1, <3>3 DEF Copied, BlobMoved
    <3>4. QED
      BY <1>4, <3>1, <3>2, <3>3 DEF BlobStep, CopyBlob, OverwriteBlob, Copied
  <2>6. ASSUME NEW c \in Bases, BlobMoved(c), c # b PROVE BlobMoved(c)'
    <3>1. <<"config", c>> \in missed' <=> <<"config", c>> \in missed
      BY <2>4, <2>6
    <3>2. bareConfig[c].guild # NoGuild =>
            config'[bareConfig[c].guild][c] = config[bareConfig[c].guild][c]
      BY <2>2, <2>3, <2>6, LegacyType DEF Filed, TypeOK
    <3>3. QED
      BY <2>1, <2>6, <3>1, <3>2 DEF BlobMoved
  <2>7. ASSUME NEW t \in Tables, RowsMoved(t) PROVE RowsMoved(t)'
    <3>1. \A u \in Users : <<t, u>> \in missed' <=> <<t, u>> \in missed
      BY <2>4 DEF Tables
    <3>2. QED
      BY <2>1, <2>7, <3>1 DEF RowsMoved
  <2>8. QED
    BY <2>1, <2>5, <2>6, <2>7 DEF StageInv
<1>5. CASE BlobsDone
  BY <1>5 DEF StageInv, BlobsDone, RowsMoved, BlobMoved
<1>6. ASSUME NEW t \in Tables, NEW next \in {"jails", "mark"}, Rekey(t, next)
      PROVE  /\ UNCHANGED schema
             /\ RowsMoved(t)'
             /\ \A s \in Tables : RowsMoved(s) => RowsMoved(s)'
             /\ \A b \in Bases : BlobMoved(b) <=> BlobMoved(b)'
  <2>1. \A s \in Tables, u \in Users : bare[s][u] \in Legacy \cup {Absent}
    BY DEF TypeOK
  <2>2. PICK unread \in SUBSET Users :
          /\ bare' = [bare EXCEPT ![t] = [u \in Users |->
                        IF u \in unread THEN bare[t][u] ELSE Left(bare[t][u])]]
          /\ missed' = (missed \ ({t} \X Users)) \cup ({t} \X unread)
    BY <1>6 DEF Rekey
  <2>3. \A u \in Users : bare'[t][u] = IF u \in unread THEN bare[t][u] ELSE Left(bare[t][u])
    BY <2>2 DEF TypeOK
  <2>4. \A s \in Tables : s # t => /\ bare'[s] = bare[s]
                                   /\ \A u \in Users : <<s, u>> \in missed' <=> <<s, u>> \in missed
    BY <2>2 DEF TypeOK
  <2>5. RowsMoved(t)'
    BY <2>1, <2>2, <2>3, LegacyType DEF RowsMoved
  <2>6. ASSUME NEW s \in Tables, RowsMoved(s) PROVE RowsMoved(s)'
    BY <2>4, <2>5, <2>6 DEF RowsMoved
  <2>7. ASSUME NEW b \in Bases PROVE BlobMoved(b) <=> BlobMoved(b)'
    <3>1. <<"config", b>> \in missed' <=> <<"config", b>> \in missed
      BY <2>2 DEF Tables
    <3>2. QED
      BY <1>6, <3>1 DEF BlobMoved, Rekey
  <2>8. UNCHANGED schema
    BY <1>6 DEF Rekey
  <2>9. QED
    BY <2>5, <2>6, <2>7, <2>8
<1>7. CASE RekeyStrikes
  BY <1>6, <1>7 DEF StageInv, RekeyStrikes, Rekey, Tables
<1>8. CASE RekeyJails
  BY <1>6, <1>8 DEF StageInv, RekeyJails, Rekey, Tables
<1>9. CASE Mark
  BY <1>9 DEF StageInv, Mark, RowsMoved, BlobMoved, Tables
<1>10. CASE Handler
  <2>1. /\ pc = "serving"
        /\ UNCHANGED <<bare, bareConfig, schema, pc, todo, missed>>
    BY <1>10 DEF Handler, Strike, Jail, Erase, Configure, Serve
  <2>2. config' = config \/ \E g \in Guilds, b \in Bases, v \in Values : Configure(g, b, v)
    BY <1>10 DEF Handler, Strike, Jail, Erase
  <2>3. ASSUME NEW c \in Bases, BlobMoved(c),
               NEW g \in Guilds, NEW b \in Bases, NEW v \in Values, Configure(g, b, v)
        PROVE  BlobMoved(c)'
    <3>1. bareConfig[c].guild \in Guilds \cup {NoGuild}
      BY LegacyType DEF TypeOK
    <3>2. QED
      BY <2>1, <2>3, <3>1, ValuesAssumption DEF TypeOK, Configure, BlobMoved
  <2>4. \A c \in Bases : BlobMoved(c) => BlobMoved(c)'
    BY <2>1, <2>2, <2>3 DEF BlobMoved
  <2>5. QED
    BY <2>1, <2>4 DEF StageInv, RowsMoved
<1>11. CASE UNCHANGED vars
  BY <1>11 DEF StageInv, RowsMoved, BlobMoved, vars
<1>12. QED
  BY <1>1, <1>2, <1>3, <1>4, <1>5, <1>7, <1>8, <1>9, <1>10, <1>11
     DEF Next, Upgrade, BlobStep

(* A start that skips the upgrade leaves nothing behind, however many      *)
(* crashes, failures and writes came before the mark.                      *)
THEOREM MarkIsHonest == Spec => []MarkedMeansMoved
<1>1. StageInv => MarkedMeansMoved
  BY DEF StageInv, MarkedMeansMoved, RowsMoved, BlobMoved
<1>2. QED
  BY <1>1, StageInit, StageNext, MigrationTyped, PTL DEF Spec

-----------------------------------------------------------------------------
(* The upgrade changes nothing a guild owns. *)

(* Looking at a blob changes no guild's, if the look does not fail.        *)
LEMMA CopyKeepsBlobs ==
  ASSUME TypeOK, NEW c \in Bases, BlobStep(c), faults' = faults,
         NEW g \in Guilds, NEW b \in Bases
  PROVE  OwnedBlob(g, b)' = OwnedBlob(g, b)
<1>1. CopyBlob(c)
  BY DEF BlobStep, MissBlob, OverwriteBlob, Fault, TypeOK
<1>2. /\ bareConfig' = bareConfig
      /\ bareConfig[b] \in Legacy \cup {Absent}
      /\ bareConfig[c] \in Legacy \cup {Absent}
  BY <1>1 DEF TypeOK, CopyBlob, Take
<1>3. config'[g][b] = IF Copied(c) /\ bareConfig[c].guild = g /\ b = c
                      THEN bareConfig[c].data ELSE config[g][b]
  BY <1>1, <1>2, LegacyType DEF TypeOK, CopyBlob, Copied, Filed
<1>4. QED
  BY <1>2, <1>3, LegacyType DEF OwnedBlob, Copied

(* Re-keying a table changes no guild's row.                               *)
LEMMA RekeyKeepsRows ==
  ASSUME TypeOK, NEW s \in Tables, NEW next, Rekey(s, next),
         NEW t \in Tables, NEW g \in Guilds, NEW u \in Users
  PROVE  Owned(t, g, u)' = Owned(t, g, u)
<1>1. CASE t # s
  BY <1>1 DEF TypeOK, Rekey, Owned
<1>2. CASE t = s
  <2>1. bare[t][u] \in Legacy \cup {Absent}
    BY DEF TypeOK
  <2>2. PICK unread \in SUBSET Users :
          /\ rows' = [rows EXCEPT ![s] = [h \in Guilds |-> [v \in Users |->
                        IF v \in unread THEN rows[s][h][v] ELSE Rekeyed(s, h, v)]]]
          /\ bare' = [bare EXCEPT ![s] = [v \in Users |->
                        IF v \in unread THEN bare[s][v] ELSE Left(bare[s][v])]]
    BY DEF Rekey
  <2>3. /\ rows'[t][g][u] = IF u \in unread THEN rows[t][g][u] ELSE Rekeyed(t, g, u)
        /\ bare'[t][u] = IF u \in unread THEN bare[t][u] ELSE Left(bare[t][u])
    BY <1>2, <2>2 DEF TypeOK
  <2>4. CASE u \in unread
    BY <2>3, <2>4 DEF Owned
  <2>5. CASE u \notin unread
    BY <2>1, <2>3, <2>5, LegacyType, GuildAssumption DEF Owned, Rekeyed
  <2>6. QED
    BY <2>4, <2>5
<1>3. QED
  BY <1>1, <1>2

(* No step of the upgrade changes what a guild owns, but by a failed look. *)
LEMMA UpgradeKeeps ==
  ASSUME TypeOK, Upgrade
  PROVE  /\ \A t \in Tables, g \in Guilds, u \in Users : Owned(t, g, u)' = Owned(t, g, u)
         /\ faults' = faults =>
              \A g \in Guilds, b \in Bases : OwnedBlob(g, b)' = OwnedBlob(g, b)
<1>1. ASSUME NEW c \in Bases, BlobStep(c)
      PROVE  \A t \in Tables, g \in Guilds, u \in Users : Owned(t, g, u)' = Owned(t, g, u)
  BY <1>1 DEF BlobStep, CopyBlob, MissBlob, OverwriteBlob, Take, Owned
<1>2. CASE BlobsDone \/ Mark
  BY <1>2 DEF BlobsDone, Mark, Owned, OwnedBlob
<1>3. CASE RekeyStrikes \/ RekeyJails
  <2>1. PICK s \in Tables, next \in {"jails", "mark"} : Rekey(s, next)
    BY <1>3 DEF RekeyStrikes, RekeyJails, Tables
  <2>2. \A g \in Guilds, b \in Bases : OwnedBlob(g, b)' = OwnedBlob(g, b)
    BY <2>1 DEF Rekey, OwnedBlob
  <2>3. QED
    BY <2>1, <2>2, RekeyKeepsRows
<1>4. QED
  BY <1>1, <1>2, <1>3, CopyKeepsBlobs DEF Upgrade, BlobStep

(* However often it is interrupted, fails, and runs again after handlers   *)
(* have written, no step of the upgrade changes a row that a guild owns,   *)
(* read or not, and no blob, unless a read of it failed in that step.      *)
THEOREM UpgradeLosesNothing == Spec => UpgradeIsLossless
<1> DEFINE Keeps ==
      Upgrade => /\ \A t \in Tables, g \in Guilds, u \in Users :
                      Owned(t, g, u)' = Owned(t, g, u)
                 /\ faults' = faults =>
                      \A g \in Guilds, b \in Bases : OwnedBlob(g, b)' = OwnedBlob(g, b)
<1>1. TypeOK /\ [Next]_vars => [Keeps]_vars
  BY UpgradeKeeps
<1>2. QED
  BY <1>1, MigrationTyped, PTL DEF Spec, UpgradeIsLossless

-----------------------------------------------------------------------------
(* Until the store fails, the handlers work on the store of GuildStore. *)

AbstractRows   == [t \in Tables |-> [g \in Guilds |-> [u \in Users |-> Owned(t, g, u)]]]
AbstractConfig == [g \in Guilds |-> [b \in Bases |-> OwnedBlob(g, b)]]

Intact == faults = MaxFaults

(* While nothing failed, nothing serves a database that is not upgraded.   *)
SoundInv ==
  /\ faults <= MaxFaults
  /\ Intact => missed = {}
  /\ Intact /\ pc = "serving" => schema

(* A database that serves has only rows and blobs under a guild's key.     *)
LEMMA ServesScopedRows ==
  ASSUME TypeOK, StageInv, SoundInv, Intact, pc = "serving"
  PROVE  AbstractRows = rows /\ AbstractConfig = config
<1>1. \A t \in Tables, g \in Guilds, u \in Users : Owned(t, g, u) = rows[t][g][u]
  <2> SUFFICES ASSUME NEW t \in Tables, NEW g \in Guilds, NEW u \in Users
               PROVE  Owned(t, g, u) = rows[t][g][u]
    OBVIOUS
  <2>1. bare[t][u].guild # g
    BY GuildAssumption DEF StageInv, SoundInv, RowsMoved
  <2>2. QED
    BY <2>1 DEF Owned
<1>2. \A g \in Guilds, b \in Bases : OwnedBlob(g, b) = config[g][b]
  <2> SUFFICES ASSUME NEW g \in Guilds, NEW b \in Bases
               PROVE  OwnedBlob(g, b) = config[g][b]
    OBVIOUS
  <2>1. bareConfig[b].guild # NoGuild => config[bareConfig[b].guild][b] # NoRow
    BY DEF StageInv, SoundInv, BlobMoved
  <2>2. QED
    BY <2>1, GuildAssumption DEF OwnedBlob
<1>3. QED
  BY <1>1, <1>2 DEF TypeOK, AbstractRows, AbstractConfig

(* The first state of a legacy database is a state of the store.           *)
LEMMA StoreInit == Init => GS!Init
<1> SUFFICES ASSUME Init PROVE GS!Init
  OBVIOUS
<1>1. ASSUME NEW t \in Tables, NEW g \in Guilds, NEW u \in Users
      PROVE  Owned(t, g, u) \in {NoRow} \cup Values
  <2>1. bare[t][u] \in Legacy \cup {Absent} /\ rows[t][g][u] = NoRow
    BY DEF Init
  <2>2. QED
    BY <2>1, LegacyType, GuildAssumption DEF Owned
<1>2. ASSUME NEW g \in Guilds, NEW b \in Bases
      PROVE  OwnedBlob(g, b) \in {NoRow} \cup Values
  <2>1. bareConfig[b] \in Legacy \cup {Absent} /\ config[g][b] = NoRow
    BY DEF Init
  <2>2. QED
    BY <2>1, LegacyType, GuildAssumption DEF OwnedBlob
<1>3. QED
  BY <1>1, <1>2 DEF GS!Init, GS!NoRow, NoRow, Tables, Init

(* Every write of a handler is that write of the store.                    *)
LEMMA StoreHandler ==
  ASSUME TypeOK, StageInv, SoundInv, TypeOK', StageInv', SoundInv', Intact, Handler
  PROVE  GS!Write
<1>1. pc = "serving" /\ pc' = "serving" /\ Intact'
  BY DEF Handler, Strike, Jail, Erase, Configure, Serve, Intact
<1>2. /\ AbstractRows = rows /\ AbstractConfig = config
      /\ AbstractRows' = rows' /\ AbstractConfig' = config'
  <2>1. AbstractRows = rows /\ AbstractConfig = config
    BY <1>1, ServesScopedRows
  <2>2. (TypeOK /\ StageInv /\ SoundInv /\ Intact /\ pc = "serving"
           => AbstractRows = rows /\ AbstractConfig = config)'
    BY ServesScopedRows, PTL
  <2>3. QED
    BY <1>1, <2>1, <2>2
<1>3. ASSUME NEW g \in Guilds, NEW u \in Users, Strike(g, u) PROVE GS!Strike(g, u)
  BY <1>2, <1>3 DEF Strike, Serve, GS!Strike, AbstractRows, AbstractConfig
<1>4. ASSUME NEW g \in Guilds, NEW u \in Users, NEW v \in Values, Jail(g, u, v)
      PROVE  GS!Jail(g, u, v)
  <2>1. /\ AbstractRows' = [AbstractRows EXCEPT !["jails"][g][u] = IF @ = NoRow THEN v ELSE @]
        /\ AbstractConfig' = AbstractConfig
    BY <1>2, <1>4 DEF Jail, Serve
  <2>2. QED
    BY <2>1, Zenon DEF GS!Jail, GS!NoRow, NoRow, AbstractRows, AbstractConfig
<1>5. ASSUME NEW t \in Tables, NEW g \in Guilds, NEW u \in Users, Erase(t, g, u)
      PROVE  GS!Erase(t, g, u)
  BY <1>2, <1>5 DEF Erase, Serve, GS!Erase, GS!NoRow, NoRow, AbstractRows, AbstractConfig
<1>6. ASSUME NEW g \in Guilds, NEW b \in Bases, NEW v \in Values, Configure(g, b, v)
      PROVE  GS!Configure(g, b, v)
  BY <1>2, <1>6 DEF Configure, Serve, GS!Configure, AbstractRows, AbstractConfig
<1>7. QED
  BY <1>3, <1>4, <1>5, <1>6 DEF Handler, GS!Write, Tables

(* Every other step is invisible to the store.                             *)
LEMMA StoreStutter ==
  ASSUME TypeOK, Start \/ Crash \/ Upgrade \/ UNCHANGED vars, faults' = faults
  PROVE  AbstractRows' = AbstractRows /\ AbstractConfig' = AbstractConfig /\ Intact' = Intact
<1>1. /\ \A t \in Tables, g \in Guilds, u \in Users : Owned(t, g, u)' = Owned(t, g, u)
      /\ \A g \in Guilds, b \in Bases : OwnedBlob(g, b)' = OwnedBlob(g, b)
  <2>1. CASE Upgrade
    BY <2>1, UpgradeKeeps
  <2>2. CASE Start \/ Crash \/ UNCHANGED vars
    BY <2>2 DEF Start, Crash, vars, Owned, OwnedBlob
  <2>3. QED
    BY <2>1, <2>2
<1>2. Intact' = Intact
  BY DEF Intact
<1>3. QED
  BY <1>1, <1>2 DEF AbstractRows, AbstractConfig

(* Failures are used up.                                                   *)
LEMMA FaultsFall ==
  ASSUME TypeOK, [Next]_vars, faults' # faults
  PROVE  faults' < faults
<1>1. Fault
  BY DEF Next, Start, Crash, Fail, Upgrade, CopyBlob, MissBlob, OverwriteBlob, Take,
         BlobsDone, RekeyStrikes, RekeyJails, Rekey, Unreadable, Mark, Handler, Strike,
         Jail, Erase, Configure, Serve, vars
<1>2. QED
  BY <1>1 DEF Fault, TypeOK

(* Until a read or a transaction of it fails, a server whose upgrade is    *)
(* cut short by any number of crashes behaves as if it had always been     *)
(* guild-scoped: only the handlers change what a guild owns.               *)
THEOREM UpgradeIsInvisible == Spec => GuildStoreSpec
<1>1. Init => SoundInv
  BY NumberAssumption DEF Init, SoundInv, Intact
<1>2. TypeOK /\ SoundInv /\ [Next]_vars => SoundInv'
  <2> SUFFICES ASSUME TypeOK, SoundInv, [Next]_vars PROVE SoundInv'
    OBVIOUS
  <2> faults \in Nat /\ MaxFaults \in Nat
    BY NumberAssumption DEF TypeOK
  <2>1. CASE Start \/ Crash \/ Fail \/ UNCHANGED vars
    BY <2>1 DEF SoundInv, Intact, Start, Crash, Fail, Fault, vars
  <2>2. CASE Upgrade
    <3>1. ASSUME NEW b \in Bases, BlobStep(b) PROVE SoundInv'
      BY <3>1 DEF SoundInv, Intact, BlobStep, CopyBlob, MissBlob, OverwriteBlob, Take, Fault
    <3>2. ASSUME NEW t \in Tables, NEW next \in {"jails", "mark"}, Rekey(t, next)
          PROVE  SoundInv'
      <4>1. PICK unread \in SUBSET Users :
              /\ Unreadable(unread)
              /\ missed' = (missed \ ({t} \X Users)) \cup ({t} \X unread)
        BY <3>2 DEF Rekey
      <4>2. CASE unread = {}
        BY <3>2, <4>1, <4>2 DEF SoundInv, Intact, Unreadable, Rekey
      <4>3. CASE unread # {}
        BY <4>1, <4>3 DEF SoundInv, Intact, Unreadable, Fault
      <4>4. QED
        BY <4>2, <4>3
    <3>3. CASE BlobsDone \/ Mark
      BY <3>3 DEF SoundInv, Intact, BlobsDone, Mark
    <3>4. QED
      BY <2>2, <3>1, <3>2, <3>3 DEF Upgrade, BlobStep, RekeyStrikes, RekeyJails, Tables
  <2>3. CASE Handler
    BY <2>3 DEF SoundInv, Intact, Handler, Strike, Jail, Erase, Configure, Serve
  <2>4. QED
    BY <2>1, <2>2, <2>3 DEF Next
<1>3. /\ TypeOK /\ StageInv /\ SoundInv
      /\ TypeOK' /\ StageInv' /\ SoundInv'
      /\ [Next]_vars
      => [GS!Next]_<<AbstractRows, AbstractConfig, Intact>>
  <2> SUFFICES ASSUME TypeOK, StageInv, SoundInv, TypeOK', StageInv', SoundInv', [Next]_vars
               PROVE  [GS!Next]_<<AbstractRows, AbstractConfig, Intact>>
    OBVIOUS
  <2>1. CASE ~Intact'
    BY <2>1 DEF GS!Next, GS!Lapse, Intact
  <2>2. CASE Handler /\ Intact'
    <3>1. Intact
      BY <2>2 DEF Handler, Strike, Jail, Erase, Configure, Serve, Intact
    <3>2. GS!Write
      BY <2>2, <3>1, StoreHandler
    <3>3. QED
      BY <2>2, <3>1, <3>2 DEF GS!Next, Intact
  <2>3. CASE (Start \/ Crash \/ Upgrade \/ UNCHANGED vars) /\ faults' = faults
    BY <2>3, StoreStutter
  <2>4. CASE faults' # faults
    <3>1. faults' < faults
      BY <2>4, FaultsFall
    <3>2. faults <= MaxFaults /\ faults \in Nat /\ faults' \in Nat /\ MaxFaults \in Nat
      BY NumberAssumption DEF SoundInv, TypeOK
    <3>3. QED
      BY <2>1, <3>1, <3>2 DEF Intact
  <2>5. QED
    BY <2>1, <2>2, <2>3, <2>4 DEF Next, Fail, Fault, TypeOK
<1>4. QED
  BY <1>1, <1>2, <1>3, StoreInit, StageInit, StageNext, MigrationTyped, PTL
     DEF Spec, GuildStoreSpec, GS!Spec, AbstractRows, AbstractConfig, Intact

=============================================================================
