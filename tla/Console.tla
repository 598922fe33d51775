------------------------------- MODULE Console -------------------------------
(***************************************************************************)
(* The web dashboard (bot/src/dashboard.rs) in front of the join-raid      *)
(* defence: an admin logs in through Discord, and the session decides who  *)
(* may save a page of Raid.  Whether the admin manages the server is read  *)
(* once, at the login; an owner of the bot manages every server.           *)
(*                                                                         *)
(* One guild, one admin, who may log in several times; a login is named by *)
(* the token of the session it mints.  The map of sessions is behind a     *)
(* lock; a request looks its session up and then writes, in two steps.     *)
(***************************************************************************)
EXTENDS Raid

CONSTANTS
  Tokens,   \* logins, each by its token
  TTL,      \* SESSION_TTL_SECS
  BotOwner, \* the admin is one of the bot's owners, by its configuration
  MaxTrouble   \* bound

ASSUME TTLAssumption == TTL \in Nat \ {0} /\ MaxTrouble \in Nat /\ BotOwner \in BOOLEAN

VARIABLES
  manages,  \* Discord: the admin owns the server or may manage it
  logins,   \* the state of every login, and of its session
  request,  \* the PUT that is in flight
  held,     \* history: when the admin last managed the server
  trouble   \* failed calls and changes of the permission left

consoleVars == <<manages, logins, request, held, trouble>>

allVars == <<vars, consoleVars>>

(***************************************************************************)
(* A login that is "live" is in the map of sessions.  seen and minted are  *)
(* when the permission was read and when the session began.                *)
(***************************************************************************)
Login == [pc : {"new", "mint", "live", "gone"}, allowed : BOOLEAN,
          seen : Nat, minted : Nat]

NewLogin == [pc |-> "new", allowed |-> FALSE, seen |-> 0, minted |-> 0]
Gone == [NewLogin EXCEPT !.pc = "gone"]

NoRequest == [pc |-> "none"]

(* What was sent, the session it was authorised by, and when. *)
Put == [pc : {"save"}, body : Bodies, session : Login, at : Nat]

ConsoleInit ==
  /\ Init
  /\ manages = TRUE
  /\ logins = [k \in Tokens |-> NewLogin]
  /\ request = NoRequest
  /\ held = 0
  /\ trouble = MaxTrouble

-----------------------------------------------------------------------------
(* Sessions. *)

IsLive(k) == logins[k].pc = "live"

Unexpired_Forever(k) == TRUE
Unexpired(k) == now < logins[k].minted + TTL

(* prune_expired leaves only sessions that still run. *)
Pruned(k) ==
  IF IsLive(k) /\ ~Unexpired(k) THEN Gone ELSE logins[k]

(* authorize: the session, and whether its guilds name this one. *)
Authorized(k) == IsLive(k) /\ Unexpired(k) /\ logins[k].allowed

-----------------------------------------------------------------------------
(* callback. *)

Trouble   == trouble > 0 /\ trouble' = trouble - 1
NoTrouble == UNCHANGED trouble

(* The code is exchanged, and the admin's profile and guilds are read. *)
SignIn(k) ==
  /\ logins[k].pc = "new"
  /\ \/ /\ NoTrouble
        /\ logins' = [logins EXCEPT ![k] = [NewLogin EXCEPT !.pc = "mint", !.seen = now,
                                                            !.allowed = manages \/ BotOwner]]
     \/ /\ Trouble
        /\ logins' = [logins EXCEPT ![k] = Gone]
  /\ UNCHANGED <<vars, manages, request, held>>

(* The bot's own guilds: a failed read grants none, but mints a session.   *)
Mint(k) ==
  /\ logins[k].pc = "mint"
  /\ \E allowed \in {logins[k].allowed, FALSE} :
       /\ IF allowed = logins[k].allowed THEN NoTrouble ELSE Trouble
       /\ logins' = [l \in Tokens |->
            IF l = k THEN [logins[k] EXCEPT !.pc = "live", !.minted = now,
                                            !.allowed = allowed]
                     ELSE Pruned(l)]
  /\ UNCHANGED <<vars, manages, request, held>>

LogOut(k) ==
  /\ IsLive(k)
  /\ logins' = [logins EXCEPT ![k] = Gone]
  /\ UNCHANGED <<vars, manages, request, held, trouble>>

-----------------------------------------------------------------------------
(* Requests. *)

(* session_of removes a session it finds expired. *)
Deny(k) ==
  /\ IsLive(k) /\ ~Unexpired(k)
  /\ logins' = [logins EXCEPT ![k] = Gone]
  /\ UNCHANGED <<vars, manages, request, held, trouble>>

(* put_config, up to the deserialized body. *)
PutConfig(k, body) ==
  /\ request = NoRequest
  /\ Authorized(k)
  /\ request' = [pc |-> "save", body |-> body, session |-> logins[k],
                 at |-> now]
  /\ UNCHANGED <<vars, manages, logins, held, trouble>>

(* It validates the body and saves it, or answers with an error. *)
SavePut ==
  /\ request # NoRequest
  /\ \/ SubmitForm(request.body) /\ NoTrouble
     \/ ~Valid(request.body.settings) /\ NoTrouble /\ UNCHANGED vars
     \/ Trouble /\ UNCHANGED vars
  /\ request' = NoRequest
  /\ UNCHANGED <<manages, logins, held>>

-----------------------------------------------------------------------------
(* Everybody else. *)

(* The admin's role, or its permission, comes or goes. *)
Regrant ==
  /\ Trouble
  /\ manages' = ~manages
  /\ held' = now
  /\ UNCHANGED <<vars, logins, request>>

(* Time passes. *)
Wait ==
  /\ Tick
  /\ held' = IF manages THEN now' ELSE held
  /\ UNCHANGED <<manages, logins, request, trouble>>

(* The sessions were only in memory. *)
Restart ==
  /\ Crash
  /\ logins' = [k \in Tokens |->
       IF logins[k].pc = "new" THEN logins[k] ELSE Gone]
  /\ request' = NoRequest
  /\ UNCHANGED <<manages, held, trouble>>

(* Handlers of joins and commands. *)
BotStep ==
  /\ \/ \E t \in Workers : TaskStep(t)
     \/ \E t \in Workers, fresh \in BOOLEAN : Join(t, fresh)
     \/ \E t \in Workers, edit \in Edits : Command(t, edit)
  /\ UNCHANGED consoleVars

ConsoleNext ==
  \/ \E k \in Tokens :
       SignIn(k) \/ Mint(k) \/ LogOut(k) \/ Deny(k)
  \/ \E k \in Tokens, body \in Bodies : PutConfig(k, body)
  \/ SavePut
  \/ BotStep
  \/ Regrant
  \/ Wait
  \/ Restart

ConsoleSpec == ConsoleInit /\ [][ConsoleNext]_allVars

-----------------------------------------------------------------------------
(* Properties. *)

(* The variables of the dashboard have their types.                        *)
ConsoleTypeOK ==
  /\ manages \in BOOLEAN
  /\ logins \in [Tokens -> Login]
  /\ request \in {NoRequest} \cup Put
  /\ held \in Nat /\ trouble \in Nat

(***************************************************************************)
(* "a short TTL bounds how long a just-revoked admin keeps access"         *)
(* (bot/src/dashboard.rs:42): no write is authorised TTL or more after the *)
(* admin last managed the server, plus the time the login took after it    *)
(* had read the permission.  An owner of the bot is not revoked by a server. *)
(***************************************************************************)
RevocationBites ==
  request # NoRequest /\ ~BotOwner =>
    LET s == request.session IN request.at < held + TTL + (s.minted - s.seen)

=============================================================================
