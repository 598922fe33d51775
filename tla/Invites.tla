------------------------------- MODULE Invites -------------------------------
(***************************************************************************)
(* The Discord-invite filter: how the links of a message are judged        *)
(* (bot/src/invite_filter.rs, core/src/link_filter.rs) and the cache of    *)
(* verdicts that the handlers of every guild share (bot/src/handler.rs).   *)
(*                                                                         *)
(* A message is handled by a task of its own, which is cut at every call   *)
(* of the network and every lock of the cache; the lock is never held      *)
(* across a call.  A text is the list of invites it mentions, each once:   *)
(* the discord.gg codes in their order, then the dsc.gg slugs.             *)
(***************************************************************************)
EXTENDS Integers, Sequences, FiniteSets

CONSTANTS
  Guilds,       \* guilds the bot is in
  Strangers,    \* other guilds an invite may lead to
  Codes,        \* invite codes
  Slugs,        \* vanity names of dsc.gg
  Nowhere,      \* a group DM, an invite that expired, a page that is no invite
  Unanswered,   \* a call that failed
  Workers,      \* tasks that run message handlers
  Texts,        \* what may be posted
  Inputs,       \* allowlists an admin enters
  CacheTTL, CacheCap, MaxLookups,           \* CACHE_TTL, CACHE_CAP, MAX_LOOKUPS_PER_MSG
  Ops,          \* the stimuli this environment gives, by name
  MaxTime, MaxStimuli, MaxFaults            \* bounds

Keys      == Codes \cup Slugs
Targets   == Guilds \cup Strangers \cup {Nowhere}

(* allowed_invite_codes and allowed_guild_ids. *)
Settings == [listed : SUBSET Keys, partners : SUBSET (Guilds \cup Strangers)]

ASSUME NameAssumption ==
  /\ Codes \cap Slugs = {}
  /\ Nowhere \notin Guilds \cup Strangers \cup Codes
  /\ Unanswered \notin Targets

(***************************************************************************)
(* What extract_discord_invites and extract_dsc_gg_codes find in a text.   *)
(***************************************************************************)
IsExtracted(text) ==
  \A i, j \in DOMAIN text :
    /\ text[i] = text[j] => i = j
    /\ text[i] \in Slugs /\ text[j] \in Codes => j < i

ASSUME InputAssumption ==
  /\ Guilds # {} /\ Keys # {} /\ Codes # {} /\ Inputs # {}
  /\ Texts \subseteq Seq(Keys) /\ \A text \in Texts : IsExtracted(text)
  /\ Inputs \subseteq Settings

ASSUME NumberAssumption ==
  /\ {CacheTTL, CacheCap, MaxLookups, MaxTime, MaxStimuli, MaxFaults} \subseteq Nat
  /\ CacheTTL > 0

VARIABLES
  cfg,        \* the link-filter blob of each guild
  leads,      \* Discord: where each code leads
  redirects,  \* dsc.gg: the code behind each slug
  cache,      \* InviteCache, a function on the keys it holds
  tasks,      \* the state of every task
  now,        \* the clock
  stimuli,    \* stimuli left
  faults      \* failed calls left

vars == <<cfg, leads, redirects, cache, tasks, now, stimuli, faults>>

(***************************************************************************)
(* Where a verdict comes from (history): the guild and the settings it was *)
(* reached under, and the answer it was reached from.                      *)
(***************************************************************************)
Origin == [guild : Guilds, settings : Settings, target : Targets \cup {Unanswered}]

Entry == [allowed : BOOLEAN, at : Nat, origin : Origin]

(***************************************************************************)
(* todo holds the invites that are yet to be judged, code is the one to    *)
(* ask Discord about.  History: the text, the answer, what the task let    *)
(* pass on a verdict, the invites it came to while there was no fresh      *)
(* verdict of them, and those it looked up.                                *)
(***************************************************************************)
PCs == {"idle", "check", "peek", "ask", "store", "strike"}

Task == [pc : PCs, guild : Guilds, settings : Inputs, todo : Seq(Keys),
         lookups : 0 .. MaxLookups, code : Codes, allowed : BOOLEAN,
         text : Texts \cup {<<>>}, origin : Origin,
         passed : SUBSET (Keys \X Origin),
         unknown : SUBSET Keys, asked : SUBSET Keys]

AnyOrigin == [guild |-> CHOOSE g \in Guilds : TRUE,
              settings |-> CHOOSE s \in Inputs : TRUE, target |-> Unanswered]

Idle == [pc |-> "idle", guild |-> AnyOrigin.guild, settings |-> AnyOrigin.settings,
         todo |-> <<>>, lookups |-> 0, code |-> CHOOSE c \in Codes : TRUE,
         allowed |-> FALSE, text |-> <<>>, origin |-> AnyOrigin, passed |-> {},
         unknown |-> {}, asked |-> {}]

Init ==
  /\ cfg \in [Guilds -> Inputs]
  /\ leads \in [Codes -> Targets]
  /\ redirects \in [Slugs -> Codes \cup {Nowhere}]
  /\ cache = <<>>
  /\ tasks = [t \in Workers |-> Idle]
  /\ now = 0
  /\ stimuli = MaxStimuli
  /\ faults = MaxFaults

-----------------------------------------------------------------------------
(* core/src/link_filter.rs. *)

IsListed(s, k) == k \in s.listed

(* is_guild_allowed: the filter's own guild, or a partner. *)
GuildAllowed(g, s, target) == target = g \/ target \in s.partners

-----------------------------------------------------------------------------
(* InviteCache. *)

IsFresh(k) == now - cache[k].at < CacheTTL

Cached(k) == k \in DOMAIN cache /\ IsFresh(k)

(* What the sweep before an insertion leaves. *)
Swept_Late ==
  IF Cardinality(DOMAIN cache) > CacheCap THEN {k \in DOMAIN cache : IsFresh(k)}
                                          ELSE DOMAIN cache
Swept ==
  IF Cardinality(DOMAIN cache) >= CacheCap THEN {k \in DOMAIN cache : IsFresh(k)}
                                           ELSE DOMAIN cache

Insert(key, entry) ==
  cache' = [k \in Swept \cup {key} |-> IF k = key THEN entry ELSE cache[k]]

-----------------------------------------------------------------------------
(* Scheduling and stimuli. *)

Free(t) == tasks[t].pc = "idle"

Goto(t, task) == tasks' = [tasks EXCEPT ![t] = task]
Ends(t) == Goto(t, Idle)

Stimulus(op) == op \in Ops /\ stimuli > 0 /\ stimuli' = stimuli - 1

Fault   == faults > 0 /\ faults' = faults - 1
NoFault == UNCHANGED faults

(* A message reaches the link filter, which loads the guild's settings. *)
Post(t, g, text) ==
  /\ Free(t)
  /\ Stimulus("post")
  /\ Goto(t, [Idle EXCEPT !.pc = "check", !.guild = g, !.settings = cfg[g],
                          !.todo = text, !.text = text])
  /\ UNCHANGED <<cfg, leads, redirects, cache, now, faults>>

(* /allowinvite, /allowserver and the dashboard save another allowlist. *)
Configure(g, s) ==
  /\ Stimulus("set")
  /\ cfg' = [cfg EXCEPT ![g] = s]
  /\ UNCHANGED <<leads, redirects, cache, tasks, now, faults>>

(* An invite expires, or its code passes to another guild. *)
Repoint(c, target) ==
  /\ Stimulus("repoint")
  /\ leads' = [leads EXCEPT ![c] = target]
  /\ UNCHANGED <<cfg, redirects, cache, tasks, now, faults>>

(* The process stops and starts again: the cache was only in memory. *)
Crash ==
  /\ Stimulus("crash")
  /\ tasks' = [t \in Workers |-> Idle]
  /\ cache' = <<>>
  /\ UNCHANGED <<cfg, leads, redirects, now, faults>>

Tick ==
  /\ now < MaxTime
  /\ now' = now + 1
  /\ UNCHANGED <<cfg, leads, redirects, cache, tasks, stimuli, faults>>

-----------------------------------------------------------------------------
(* first_offending_invite. *)

CanLookUp_OneMore(task) == task.lookups <= MaxLookups
CanLookUp(task) == task.lookups < MaxLookups

(* A loop that comes to an unknown invite and has no lookup left breaks. *)
Breaks_BeforeCache(task, k) == ~CanLookUp(task)
Breaks(task, k) == ~Cached(k) /\ ~CanLookUp(task)

(* The slugs have a loop of their own. *)
AfterBreak(todo) ==
  LET codes == {i \in DOMAIN todo : todo[i] \in Codes} IN
  IF Head(todo) \in Codes THEN SubSeq(todo, Cardinality(codes) + 1, Len(todo)) ELSE <<>>

(* The next invite after one that is allowed by a verdict from o. *)
Passing(task, o) ==
  [task EXCEPT !.pc = "check", !.todo = Tail(@),
               !.passed = @ \cup {<<Head(task.todo), o>>}]

(* The verdict o condemns the invite: it is the one the message falls for. *)
Offending(task, o) == [task EXCEPT !.pc = "strike", !.origin = o]

(* None of the invites offends. *)
Finish(t) ==
  /\ tasks[t].pc = "check" /\ tasks[t].todo = <<>>
  /\ Ends(t)
  /\ UNCHANGED <<cfg, leads, redirects, cache, now, stimuli, faults>>

(* The allowlist, then the cache, then the network. *)
Check(t) ==
  LET k == Head(tasks[t].todo)
      task == [tasks[t] EXCEPT !.unknown = @ \cup {x \in {k} : ~Cached(x)}]
  IN
  /\ tasks[t].pc = "check" /\ tasks[t].todo # <<>>
  /\ \/ /\ IsListed(task.settings, k)
        /\ Goto(t, [task EXCEPT !.todo = Tail(@)])
     \/ /\ ~IsListed(task.settings, k) /\ Cached(k)
        /\ Goto(t, IF cache[k].allowed THEN Passing(task, cache[k].origin)
                                       ELSE Offending(task, cache[k].origin))
     \/ /\ ~IsListed(task.settings, k) /\ Breaks(task, k)
        /\ Goto(t, [task EXCEPT !.todo = AfterBreak(@)])
     \/ /\ ~IsListed(task.settings, k) /\ ~Cached(k) /\ CanLookUp(task)
        /\ Goto(t, LET looking == [task EXCEPT !.lookups = @ + 1, !.asked = @ \cup {k}] IN
                   IF k \in Codes THEN [looking EXCEPT !.pc = "ask", !.code = k]
                                  ELSE [looking EXCEPT !.pc = "peek"])
  /\ UNCHANGED <<cfg, leads, redirects, cache, now, stimuli, faults>>

(* Group DMs, dead invites and failed calls are let pass. *)
IsAllowed_FailClosed(task, target) ==
  target = Nowhere \/ GuildAllowed(task.guild, task.settings, target)
IsAllowed(task, target) ==
  target \in {Nowhere, Unanswered} \/ GuildAllowed(task.guild, task.settings, target)

Answered(t, target) ==
  LET task == tasks[t] IN
  Goto(t, [task EXCEPT !.pc = "store", !.allowed = IsAllowed(task, target),
             !.origin = [guild |-> task.guild, settings |-> task.settings,
                         target |-> target]])

(* dsc_gg_slug_allowed: one hop, without following it. *)
Peek(t) ==
  LET task == tasks[t]  code == redirects[Head(task.todo)] IN
  /\ task.pc = "peek"
  /\ \/ /\ code # Nowhere /\ NoFault
        /\ Goto(t, [task EXCEPT !.pc = "ask", !.code = code])
     \/ code = Nowhere /\ NoFault /\ Answered(t, Nowhere)
     \/ Fault /\ Answered(t, Unanswered)
  /\ UNCHANGED <<cfg, leads, redirects, cache, now, stimuli>>

(* invite_code_allowed. *)
Ask(t) ==
  /\ tasks[t].pc = "ask"
  /\ \/ NoFault /\ Answered(t, leads[tasks[t].code])
     \/ Fault /\ Answered(t, Unanswered)
  /\ UNCHANGED <<cfg, leads, redirects, cache, now, stimuli>>

Store(t) ==
  LET task == tasks[t] IN
  /\ task.pc = "store"
  /\ Insert(Head(task.todo),
            [allowed |-> task.allowed, at |-> now, origin |-> task.origin])
  /\ Goto(t, IF task.allowed THEN Passing(task, task.origin)
                             ELSE Offending(task, task.origin))
  /\ UNCHANGED <<cfg, leads, redirects, now, stimuli, faults>>

(* message: the message is deleted, and its author struck (see Filters). *)
Strike(t) ==
  /\ tasks[t].pc = "strike"
  /\ Ends(t)
  /\ UNCHANGED <<cfg, leads, redirects, cache, now, stimuli, faults>>

-----------------------------------------------------------------------------

TaskStep(t) == Finish(t) \/ Check(t) \/ Peek(t) \/ Ask(t) \/ Store(t) \/ Strike(t)

Next ==
  \/ \E t \in Workers : TaskStep(t)
  \/ \E t \in Workers, g \in Guilds, text \in Texts : Post(t, g, text)
  \/ \E g \in Guilds, s \in Inputs : Configure(g, s)
  \/ \E c \in Codes, target \in Targets : Repoint(c, target)
  \/ Crash
  \/ Tick

Spec == Init /\ [][Next]_vars

-----------------------------------------------------------------------------
(* Properties. *)

(* Every variable has its type; no task looks up more than MaxLookups.     *)
TypeOK ==
  /\ cfg \in [Guilds -> Inputs]
  /\ leads \in [Codes -> Targets]
  /\ redirects \in [Slugs -> Codes \cup {Nowhere}]
  /\ DOMAIN cache \subseteq Keys
  /\ cache \in [DOMAIN cache -> Entry]
  /\ tasks \in [Workers -> Task]
  /\ now \in Nat
  /\ stimuli \in Nat /\ faults \in Nat

(***************************************************************************)
(* The soft cap of the cache: it outgrows CacheCap only by entries that    *)
(* were all alive together, whatever handlers insert while others sweep.   *)
(***************************************************************************)
CacheIsBounded ==
  Cardinality(DOMAIN cache) > CacheCap =>
    \A k, l \in DOMAIN cache : cache[k].at - cache[l].at < CacheTTL

(* The answer led to a guild that the settings of the verdict exclude.     *)
Condemns(o) ==
  /\ o.target \notin {Nowhere, Unanswered}
  /\ ~GuildAllowed(o.guild, o.settings, o.target)

(***************************************************************************)
(* Nobody is struck for a call of ours that failed, for a dead invite, or  *)
(* for one the deciding settings permit: the verdict a message falls for,  *)
(* cached or not, came from an answer that condemns it.                    *)
(***************************************************************************)
FlagIsEarned == \A t \in Workers : tasks[t].pc = "strike" => Condemns(tasks[t].origin)

(* The j-th invite was unknown, and every lookup had gone to one before it. *)
Overtaxes(task, j) ==
  /\ task.text[j] \in task.unknown
  /\ Cardinality(task.asked) = MaxLookups
  /\ task.asked \subseteq {task.text[i] : i \in 1 .. j - 1}

(* Why the i-th invite of its text does not keep the task from passing it. *)
Excused(task, i) ==
  LET k == task.text[i] IN
  \/ IsListed(task.settings, k)
  \/ \E p \in task.passed : p[1] = k /\ ~Condemns(p[2])
  \/ \E j \in 1 .. i : Overtaxes(task, j) /\ (task.text[j] \in Codes <=> k \in Codes)

(***************************************************************************)
(* A message passes only if each of its invites is on the allowlist, has a *)
(* verdict that permits it, or is not before the first of its kind that    *)
(* would have taken one lookup too many.  Neither loop leaves out another: *)
(* one whose verdict was known when all lookups were spent is judged by    *)
(* it, unless an unknown one of its kind came before.                      *)
(***************************************************************************)
NoFreePass ==
  \A t \in Workers : tasks[t].pc = "check" /\ tasks[t].todo = <<>> =>
    \A i \in DOMAIN tasks[t].text : Excused(tasks[t], i)

(* Where an invite leads, were all calls answered now.                     *)
Destination(k) ==
  IF k \in Codes THEN leads[k]
  ELSE IF redirects[k] = Nowhere THEN Nowhere ELSE leads[redirects[k]]

(***************************************************************************)
(* "invites to THIS server always pass with no extra config"               *)
(* (core/src/link_filter.rs:233).  The code does not keep it: a verdict of *)
(* another server is found under the same code.                            *)
(***************************************************************************)
OwnInvitesPass ==
  \A t \in Workers : tasks[t].pc = "strike" =>
    Destination(Head(tasks[t].todo)) # tasks[t].guild

=============================================================================
