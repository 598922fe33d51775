----------------------------- MODULE Migration -----------------------------
(***************************************************************************)
(* The upgrade of a single-guild database to guild-scoped keys             *)
(* (bot/src/store.rs, migrate_legacy_to_guild_keys), the startup that runs *)
(* it (bot/src/main.rs), and the handlers' writes that come after.         *)
(*                                                                         *)
(* The upgrade is a series of transactions with nothing else running: the  *)
(* process can stop between any two, and one can fail, which ends the      *)
(* upgrade and which startup only logs.  A read that fails is swallowed:   *)
(* what could not be read is passed over, and the upgrade goes on.         *)
(***************************************************************************)
EXTENDS Naturals

CONSTANTS
  Guilds, Users,
  Bases,       \* base keys of the config blobs the upgrade knows
  Values,      \* what a legacy row, a new jail row or a blob may hold
  NoGuild,     \* what a row that names no guild names
  MaxCrashes, MaxFaults, MaxWrites   \* bounds

NoRow == 0

ASSUME ValuesAssumption == Values \subseteq Nat \ {NoRow}

ASSUME GuildAssumption == NoGuild \notin Guilds

ASSUME NumberAssumption == {MaxCrashes, MaxFaults, MaxWrites} \subseteq Nat

VARIABLES
  bare,        \* rows keyed by the bare user id; each names its guild
  rows,        \* rows keyed "{guild}:{user}"
  bareConfig,  \* blobs under their bare key; each names its guild
  config,      \* blobs keyed "{guild}:{key}"
  schema,      \* the schema_version blob says 2
  pc,          \* what the process does next
  todo,        \* blobs the upgrade has not looked at
  missed,      \* history: rows and blobs passed over since they last moved
  crashes, faults, writes   \* crashes, store failures and writes left

vars == <<bare, rows, bareConfig, config, schema, pc, todo, missed, crashes, faults,
          writes>>

Tables == {"strikes", "jails"}

Legacy == [guild : Guilds \cup {NoGuild}, data : Values]
Absent == [guild |-> NoGuild, data |-> NoRow]

Init ==
  /\ bare \in [Tables -> [Users -> Legacy \cup {Absent}]]
  /\ rows = [t \in Tables |-> [g \in Guilds |-> [u \in Users |-> NoRow]]]
  /\ bareConfig \in [Bases -> Legacy \cup {Absent}]
  /\ config = [g \in Guilds |-> [b \in Bases |-> NoRow]]
  /\ schema = FALSE
  /\ pc = "down"
  /\ todo = {}
  /\ missed = {}
  /\ crashes = MaxCrashes
  /\ faults = MaxFaults
  /\ writes = MaxWrites

-----------------------------------------------------------------------------
(* Startup and the end of the process. *)

Fault == faults > 0 /\ faults' = faults - 1

(***************************************************************************)
(* main, migrate_legacy_to_guild_keys: a database of schema 2 is done, if  *)
(* its schema can be read.                                                 *)
(***************************************************************************)
Start ==
  /\ pc = "down"
  /\ \/ schema /\ pc' = "serving" /\ UNCHANGED <<todo, faults>>
     \/ ~schema /\ pc' = "blobs" /\ todo' = Bases /\ UNCHANGED faults
     \/ schema /\ Fault /\ pc' = "blobs" /\ todo' = Bases
  /\ UNCHANGED <<bare, rows, bareConfig, config, schema, missed, crashes, writes>>

Crash ==
  /\ pc # "down" /\ crashes > 0
  /\ crashes' = crashes - 1
  /\ pc' = "down"
  /\ UNCHANGED <<bare, rows, bareConfig, config, schema, todo, missed, faults, writes>>

(* A transaction of the upgrade fails; main goes on to serve. *)
Fail ==
  /\ pc \in {"blobs", "strikes", "jails", "mark"}
  /\ Fault
  /\ pc' = "serving"
  /\ UNCHANGED <<bare, rows, bareConfig, config, schema, todo, missed, crashes, writes>>

-----------------------------------------------------------------------------
(* The upgrade. *)

(* Each blob in a transaction of its own; one under a guild's key stays. *)
Copied_Clobbers(b) == bareConfig[b].guild # NoGuild
Copied(b) ==
  /\ bareConfig[b].guild # NoGuild
  /\ config[bareConfig[b].guild][b] = NoRow

Filed(b) == [config EXCEPT ![bareConfig[b].guild][b] = bareConfig[b].data]

Take(b) ==
  /\ pc = "blobs" /\ b \in todo
  /\ todo' = todo \ {b}
  /\ UNCHANGED <<bare, rows, bareConfig, schema, pc, crashes, writes>>

CopyBlob(b) ==
  /\ Take(b)
  /\ config' = IF Copied(b) THEN Filed(b) ELSE config
  /\ missed' = missed \ {<<"config", b>>}
  /\ UNCHANGED faults

(* A blob that cannot be read counts as none. *)
MissBlob(b) ==
  /\ Take(b)
  /\ Fault
  /\ missed' = missed \cup {<<"config", b>>}
  /\ UNCHANGED config

(* So does one under the guild's key, which is written over. *)
OverwriteBlob(b) ==
  /\ Take(b)
  /\ Fault
  /\ bareConfig[b].guild # NoGuild
  /\ config' = Filed(b)
  /\ missed' = missed \ {<<"config", b>>}

BlobsDone ==
  /\ pc = "blobs" /\ todo = {}
  /\ pc' = "strikes"
  /\ UNCHANGED <<bare, rows, bareConfig, config, schema, todo, missed, crashes, faults,
                 writes>>

(* rekey_table_to_guild: a row moves unless the guild has one; it is gone. *)
Rekeyed_Clobbers(t, g, u) ==
  IF bare[t][u].guild = g THEN bare[t][u].data ELSE rows[t][g][u]
Rekeyed(t, g, u) ==
  IF bare[t][u].guild = g /\ rows[t][g][u] = NoRow
  THEN bare[t][u].data ELSE rows[t][g][u]

Left_Everything(row) == row
Left_Blanked(row) == [row EXCEPT !.data = NoRow]
Left(row) == IF row.guild = NoGuild THEN row ELSE Absent

(* Rows that cannot be read stay where they are, and fail nothing. *)
Unreadable(unread) == IF unread = {} THEN UNCHANGED faults ELSE Fault

Rekey(t, next) ==
  /\ pc = t
  /\ \E unread \in SUBSET Users :
       /\ Unreadable(unread)
       /\ rows' = [rows EXCEPT ![t] = [g \in Guilds |-> [u \in Users |->
                     IF u \in unread THEN rows[t][g][u] ELSE Rekeyed(t, g, u)]]]
       /\ bare' = [bare EXCEPT ![t] = [u \in Users |->
                     IF u \in unread THEN bare[t][u] ELSE Left(bare[t][u])]]
       /\ missed' = (missed \ ({t} \X Users)) \cup ({t} \X unread)
  /\ pc' = next
  /\ UNCHANGED <<bareConfig, config, schema, todo, crashes, writes>>

RekeyStrikes == Rekey("strikes", "jails")
RekeyJails   == Rekey("jails", "mark")

Mark ==
  /\ pc = "mark"
  /\ schema' = TRUE
  /\ pc' = "serving"
  /\ UNCHANGED <<bare, rows, bareConfig, config, todo, missed, crashes, faults, writes>>

-----------------------------------------------------------------------------
(* What the handlers write: guild-scoped rows only. *)

Serve ==
  /\ pc = "serving" /\ writes > 0
  /\ writes' = writes - 1
  /\ UNCHANGED <<bare, bareConfig, schema, pc, todo, missed, crashes, faults>>

(* record_link_strike_in, without decay. *)
Strike(g, u) ==
  /\ Serve
  /\ rows' = [rows EXCEPT !["strikes"][g][u] = @ + 1]
  /\ UNCHANGED config

(* record_jail_in: a held snapshot is kept. *)
Jail(g, u, v) ==
  /\ Serve
  /\ rows' = [rows EXCEPT !["jails"][g][u] = IF @ = NoRow THEN v ELSE @]
  /\ UNCHANGED config

(* reset_link_strikes_in, remove_jail_in. *)
Erase(t, g, u) ==
  /\ Serve
  /\ rows' = [rows EXCEPT ![t][g][u] = NoRow]
  /\ UNCHANGED config

Configure(g, b, v) ==
  /\ Serve
  /\ config' = [config EXCEPT ![g][b] = v]
  /\ UNCHANGED rows

-----------------------------------------------------------------------------

Upgrade ==
  \/ \E b \in Bases : CopyBlob(b) \/ MissBlob(b) \/ OverwriteBlob(b)
  \/ BlobsDone \/ RekeyStrikes \/ RekeyJails \/ Mark

Handler ==
  \/ \E g \in Guilds, u \in Users : Strike(g, u)
  \/ \E g \in Guilds, u \in Users, v \in Values : Jail(g, u, v)
  \/ \E t \in Tables, g \in Guilds, u \in Users : Erase(t, g, u)
  \/ \E g \in Guilds, b \in Bases, v \in Values : Configure(g, b, v)

Next == Start \/ Crash \/ Fail \/ Upgrade \/ Handler

Spec == Init /\ [][Next]_vars

-----------------------------------------------------------------------------
(* Properties. *)

(* Every variable has its type.                                            *)
TypeOK ==
  /\ bare \in [Tables -> [Users -> Legacy \cup {Absent}]]
  /\ rows \in [Tables -> [Guilds -> [Users -> Nat]]]
  /\ bareConfig \in [Bases -> Legacy \cup {Absent}]
  /\ config \in [Guilds -> [Bases -> {NoRow} \cup Values]]
  /\ schema \in BOOLEAN
  /\ pc \in {"down", "blobs", "strikes", "jails", "mark", "serving"}
  /\ todo \subseteq Bases
  /\ missed \subseteq ({"config"} \X Bases) \cup (Tables \X Users)
  /\ crashes \in Nat /\ faults \in Nat /\ writes \in Nat

(***************************************************************************)
(* What a guild owns: its scoped row, or the legacy row that names it.     *)
(***************************************************************************)
Owned(t, g, u) ==
  IF rows[t][g][u] # NoRow THEN rows[t][g][u]
  ELSE IF bare[t][u].guild = g THEN bare[t][u].data ELSE NoRow

OwnedBlob(g, b) ==
  IF config[g][b] # NoRow THEN config[g][b]
  ELSE IF bareConfig[b].guild = g THEN bareConfig[b].data ELSE NoRow

GS == INSTANCE GuildStore
        WITH rows   <- [t \in Tables |-> [g \in Guilds |-> [u \in Users |-> Owned(t, g, u)]]],
             config <- [g \in Guilds |-> [b \in Bases |-> OwnedBlob(g, b)]],
             intact <- faults = MaxFaults

(***************************************************************************)
(* Refinement: until the store fails, however often the upgrade is         *)
(* interrupted and run again, nothing but the handlers changes what a      *)
(* guild owns, and the handlers read exactly that.                         *)
(***************************************************************************)
GuildStoreSpec == GS!Spec

(***************************************************************************)
(* The upgrade itself never changes what a guild owns, even after failures *)
(* that let the handlers write before it was done: no row, whatever cannot *)
(* be read, and no blob, unless the read that looks for it fails.          *)
(***************************************************************************)
UpgradeIsLossless ==
  [][Upgrade => /\ \A t \in Tables, g \in Guilds, u \in Users :
                     Owned(t, g, u)' = Owned(t, g, u)
                /\ faults' = faults =>
                     \A g \in Guilds, b \in Bases : OwnedBlob(g, b)' = OwnedBlob(g, b)]_vars

(***************************************************************************)
(* A database of schema 2 holds every legacy row and blob of a guild under *)
(* the guild's key, but for those whose read failed when the upgrade last  *)
(* came by: for nothing else may the next start skip the upgrade.          *)
(***************************************************************************)
MarkedMeansMoved ==
  schema =>
    /\ \A t \in Tables, u \in Users :
         bare[t][u].guild # NoGuild => <<t, u>> \in missed
    /\ \A b \in Bases :
         /\ bareConfig[b].guild # NoGuild
         /\ config[bareConfig[b].guild][b] = NoRow
         => <<"config", b>> \in missed

=============================================================================
