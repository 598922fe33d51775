# A verification project for airforce-modbot

TLA+ models of the Discord moderation bot in `src/`, TLC configurations that
check them on small instances, and TLAPS proofs of what matters most for every
instance.  Every module names the files it models; `PROJECT.json` maps each
definition to its lines.

Run from this directory: `tlc -config JailLive.cfg MCJail`, `tlapm JailProofs.tla`.

## 1. The system

The bot is one process on tokio's multi-threaded runtime (`bot/src/main.rs`).
Serenity spawns a task for each gateway event and slash command; two more
tasks run the expiry sweep of the jail and the web dashboard.  They share

- **the store** (`bot/src/store.rs`), a redb file.  Every call is a transaction
  of its own: it commits or leaves no trace, and it survives a restart.  A
  handler that reads and later writes uses two transactions, and other handlers
  come between;
- **in-memory trackers** behind mutexes (`FloodTracker`, `JoinTracker`,
  `DuplicateTracker`, `ActionTracker`, the invite cache), which a restart empties;
- **Discord**, which holds the roles, refuses some edits, and sends an update
  of every role change back to the bot, some time later.

So nearly everything that is hard here comes from handlers that interleave at
store calls and awaits, from the watcher that reacts to the bot's own changes,
from restarts between two steps, and from calls that fail half way.

| Component (source) | State | Operations | What makes it correct |
|---|---|---|---|
| role-snapshot jail (`bot/jail.rs`, `core/jail.rs`, `handler.rs`, `commands.rs`, `store.rs`) | `jails` table; the roles at Discord | jail, unjail, re-apply on rejoin, watcher of member updates, expiry sweep, `/setjail` | no role is ever lost or invented; jail role iff record; released when due; the sweep frees nobody early; no jailing frees anybody |
| cases and warn escalation (`core/cases.rs`, `store.rs`, `commands.rs`, `handler.rs`) | `cases`, `case_seq`, the policy | `add_case` from seven callers, the sanctions without one, `/warn`'s count, `/setescalation` | numbers are never reused; cases tell what Discord did; no escalation is missed |
| upgrade to guild-scoped keys (`store.rs`, `main.rs`) | bare and scoped rows, `schema_version` | `migrate_legacy_to_guild_keys`, restarts | loses nothing, wherever it is interrupted |
| join-raid defence (`core/raid.rs`, `handler.rs`, `commands.rs`, `dashboard.rs`) | the config blob with its lockdown latch, `JoinTracker` | record a join, latch, gate, `/setraid`, `/lockdown`, the dashboard's PUT | no join of a burst is missed; a lockdown holds |
| cross-channel flood filter (`core/flood_filter.rs`, `core/bulk_delete.rs`, `handler.rs`, `store.rs`) | `FloodTracker`, `flood_trip` rows, strike rows | record and judge, delete the burst, strike, penalty box, lift it | no flood is let through or punished twice; all of it is deleted; the box holds |
| strikes (`store.rs`, `core/link_filter.rs`) | a row for each member | strike with decay, reset | a streak that reaches the threshold jails |
| content automod (`core/automod.rs`, `handler.rs`) | `DuplicateTracker` | rules, duplicates, strike | a repeated text is caught |
| AI moderation (`core/ai_mod.rs`, `bot/ai.rs`, `handler.rs`, `store.rs`) | the day's call counter | reserve a call, classify | the daily cap is hard |
| link filter (`core/link_filter.rs`, `handler.rs`) | its settings | strike, auto-jail | see strikes |
| Discord-invite filter (`bot/invite_filter.rs`, `core/link_filter.rs`) | one cache of verdicts for all guilds | allowlist, look up, resolve, store | nobody falls for a verdict that no answer supports; no invite is skipped; the cache stays bounded |
| anti-nuke (`core/antinuke.rs`, `handler.rs`) | `ActionTracker` | count, resolve the owner, fetch, strip, report | a burst of an actor strips its roles, never the owner's; no trip is lost |
| web dashboard sessions (`dashboard.rs`) | session table, what each session may edit | log in, expire, log out, save a page | a revoked admin's writes end with the session |
| commands, config file, web page | none of their own | | |

A member's message goes through the flood filter, automod, AI moderation and
the link filter in this order until one acts; each strikes the same row
(`Strikes`), and flood, automod and link filter may ask for a jail
(`Jail!TryJail`), which then writes a case (`Cases`).  A join goes to
`reapply_if_jailed` and to the raid gate.  All configs are JSON blobs that
commands and the dashboard rewrite whole.

## 2. The modules

Every module cuts a handler where another task can come between: at every store
transaction, await and lock.  `tasks[t].pc` names the call the task makes next,
and its other fields are the local variables that live across the cut.  A
stimulus (a command, a message, a member who leaves) is an action with an `op`
in `Ops`, so that a configuration chooses an environment; `stimuli` and `faults`
bound how many there are.  Variables marked *history* are not in the program:
they remember what a property compares with.  An operator `X_Word` beside an
operator `X` is a plausible mistake in `X`; no specification uses it, and it
documents which mistake each property detects.

**Jail** (`MCJail`).  `jails[m]` is the row of a member, `roles[m]` what Discord
has, `updates[m]` the GUILD_MEMBER_UPDATEs in transit.  `JailRead`, `JailFetch`,
`JailRecord`, `JailRoleSet`, `JailStrip` are `jail_member` in order; `UnjailRead`,
`UnjailRemove`, then `UnjailRestore` or `UnjailPull`, `unjail_member`;
`RejoinCheck`, `RejoinLookup`, `RejoinRoleSet`, `RejoinApply`,
`reapply_if_jailed`; `Deliver`, `Watch` and `Judge`, `guild_member_update`, both of
which read the config and the record in two transactions; `SweepTick` and
`SweepNext`, the sweep, which reads a batch and releases its members in turn.
`rewritten` (history) holds the members whose record was written since the batch
was read.  `SweepTick` itself waits for nobody; the assumption `Paced` about the
schedule, where a run makes it, is in `Stimulus` and `SweepStarts`.  Discord refuses
an edit that adds or drops a managed role, and one of a member who left (`Accepts`).

**Cases** (`MCCases`) and **CaseLog**.  `Warn`, `Note`, `ModCommand`, `GateJoin`,
`ContentAction` and `SilentAction` begin; `Act` is the call of Discord, `LogCase` is
`add_case`, `Count` is `/warn`'s reading of the user's warns, of which it lists
`ListLimit` at most.  `SilentAction` stands for what sanctions and writes no case:
`/jail`, `/unjail`, the jails of the link and flood filters, jails and releases by
hand, the sweep; `uncased` (history) counts them.  `AddCase` reads the counter,
takes the next number and inserts in one transaction.  CaseLog is the promise:
one append-only log for each guild.

**Migration** (`MCMigration`) and **GuildStore**.  One action for each
transaction of the upgrade: `CopyBlob`, `BlobsDone`, `RekeyStrikes`, `RekeyJails`,
`Mark`; `Crash` and `Fail` between any two.  A read that fails is swallowed: the
blob or row counts as none (`MissBlob`, the `unread` of `Rekey`), a blob of the guild
counts as none and is written over (`OverwriteBlob`), a mark counts as none and the
upgrade runs again (`Start`).  `missed` (history) remembers what was passed over.
`Start` skips an upgrade whose mark is set.  After the upgrade, or after it failed,
the handlers write.  GuildStore is the promise: the guild-scoped store that was
always there.

**Raid** (`MCRaid`).  `Load`, `Record`, `Latch`, `Gate` of a join; `/setraid` and
`/lockdown` as a load and a save; `SubmitForm` saves a body of the dashboard whole,
the lockdown flag with it, which is a box on the page and down when the body has
no such field (`Bodies`).  What the gate then does to the member belongs to Cases.

**Console** EXTENDS Raid with the dashboard in front of that page.  `SignIn` and
`Mint` are the two halves of the login callback, between which the permission
may be revoked (`Regrant`); `Mint` also prunes what has expired.  An owner of the
bot (`BotOwner`) needs no permission.  `PutConfig` is authorised by the session and
keeps the body; `SavePut` saves that body later, when the session may be gone.
`BotStep`, `Wait` and `Restart` are Raid's own actions.  Showing a page writes
nothing, and what a body may hold does not depend on it.  The theorem
`ConsoleImplementsRaid` carries Raid's properties over, with their exceptions.

**Strikes**.  `Struck`, the strike transaction all filters share.

**Flood** (`MCFlood`).  `Load`, `ReadBox`, `BoxDelete`, `RecordTrip`, `BoxClear`,
`Record`, `DeleteBatch`, `Strike` are `flood_check`.  `Record` is one step, as the
tracker is locked; so is reading the clock, which in the code comes just before.
Both windows of the rules are settings like the others, and a handler works
with those it loaded.  A bulk call that is refused is repeated one by one
(`stay`: what is refused again).

**Filters** (`MCFilters`).  `Automod`, `BlankText`, `Duplicate`, `ContentStrike`, `Ai`,
`Reserve`, `Classify`, `Link`, `LinkStrike`, `AskJail` are the way of a message
through the three filters; `FloodStrike` is the flood filter's use of the same
row.  The duplicate window is a setting.  The tracker serves all guilds and,
beyond 4096 users, drops those whose last message is too old for the window of
the message at hand: `Duplicate` may find it swept so, and `OtherGuild` is a message
of another guild that does it (`Swept`).  What a rule finds in a text, and whether
it is long enough for the classifier (`ShouldClassify`), is a trait of the message.

**Invites** (`MCInvites`).  A text is the list of invites that the two extractors
return.  `Check` is one turn of a loop of `first_offending_invite`: allowlist,
cache, the limit of lookups, then the network (`Peek` for the one hop of a
dsc.gg slug, `Ask` for the code itself).  `Store` puts the verdict in the cache,
which it may sweep; `Strike` is where the message falls.  A loop that comes to an
invite without a fresh verdict when all lookups are spent breaks, and leaves out
the rest of its kind (`Breaks`, `AfterBreak`).  History: an `Origin` says which guild,
settings and answer a verdict came from; a task's `unknown` and `asked` say for
which invites it found no verdict, and which it looked up.

**AntiNuke** (`MCAntiNuke`).  `Load`, `Record`, `ResolveOwner`, `FetchMember`,
`FetchRoles`, `Strip`, `Alert`, `Case` are `antinuke_check` for one audit-log entry;
`Record` is one step, as the tracker reads its clock under its lock.  `Alert` reaches
nobody where no mod-log channel is set or Discord loses it (`heard`), and `Case`
leaves a note without a case when the store fails (`case`).  `trips`, `told` and
`noted` (history) number the trips and what became of each.

`JailProofs`, `CasesProofs`, `MigrationProofs`, `RaidProofs` (for Raid and Console),
`FloodProofs`, `FiltersProofs`, `AntiNukeProofs` and `InvitesProofs` prove the
theorems of section 5.

## 3. The runs

| Run | What it asks | Instance |
|---|---|---|
| `JailLive` | With one stimulus at a time for a member (`Paced`): do store and Discord agree, is everybody released when due, are rejoiners jailed again, does the bot come to rest? | 1 member, 2 workers and the sweep, 6 stimuli, 4 ticks |
| `JailOverlap` | Three jailings of one member at once, with restarts and `/setjail`, where nobody orders a release, leaves or has served a sentence and no call fails: is a role lost, does a record go? | 3 workers, 4 stimuli, a managed role |
| `JailHostile` | Everything at any time: does the bot give a role nobody gave, does a snapshot hold the jail role, whom does the sweep free early? | 1 member, 2 workers and the sweep, every kind of stimulus, 3 of them, 1 failure |
| `CasesHostile` | Do the cases stay a log, is every recorded sanction real, which sanctions have no case, does the completing warn escalate, whatever fails? | 1 guild, 2 workers, 2 policies, 3 days, a list of 3 cases, 3 stimuli, 1 failure of each kind, restarts |
| `Migration` | Is the upgrade invisible, lossless, honestly marked? | 2 guilds, every legacy content of one user and one blob, 2 crashes, 2 failures of a transaction or a read, 2 writes |
| `RaidHostile` | Is every join of a burst gated, what takes a lockdown down, is the stored config valid, does a revoked admin lose the page? | 2 workers, 1 login, settings with windows of 1 and 2 seconds, any body, 3 stimuli, 3 seconds, 1 failure of the bot and 1 change or failure of the login |
| `FloodHostile` | Is every flood caught, once, and deleted; does the box hold? | 1 user, 2 channels, 2 handlers, 3 settings whose windows differ, 4 stimuli, 1 failure |
| `FiltersHostile` | Is no jail missed, no repeat, no cap? | 1 user, 2 handlers, duplicate windows of 1 and 2 ticks, another guild with one of 1, 4 stimuli, one midnight, 1 failure |
| `InvitesHostile` | Does nobody fall for a failed call, which invites pass unjudged, does the cache keep its cap? | 2 guilds, 2 handlers, 2 codes and a slug, a text of two invites and one of three, a cache of 1, 1 lookup for a message, 1 tick, 3 stimuli, 1 failure |
| `AntiNukeHostile` | Is nobody stripped undeservedly, no nuke missed, no trip lost? | owner, bot and another actor, 2 handlers, 6 settings with windows of 1 and 2 seconds and with and without a mod-log, 5 stimuli, 3 seconds, 1 failure |
| `JailSnapshotRace`, `InviteShared` | Two statements of the repository that the code does not keep (section 6) | the smallest that shows it |

*Bounds.*  A race of the code is between two, sometimes three, steps of
different handlers; two or three workers give each such pair, and more workers
repeat them.  Members, users and guilds do not share state except through the
keys of a table, so that one shows the races and two show that keys are kept
apart (`Migration`) or are not (`InvitesHostile`, `InviteShared`).  That the logs of
two guilds do not mix is left to the theorem `CasesAreALog`.  A cache of one entry
and one lookup make the sweep and the limit of lookups happen with two invites;
a session of one tick expires while its PUT is under way.  Thresholds are 2 or 3, so that
a window can be reached and be missed by one.  Two lengths of each window that is
a setting make one handler forget what another counts.  Time goes to the end of
the longest window, sentence or cooldown, or beyond.  A list of three cases is
full once three are written and `/warn` adds one more.  Stimuli suffice for a burst and one
thing that goes wrong meanwhile.  `MaxUpdates` is never reached by so few
stimuli: it only keeps the model's sequences bounded on paper.
The theorems are about all values of all of these.

*Deadlock.*  Every configuration says `CHECK_DEADLOCK FALSE`: once the stimuli
are spent and the handlers are done, the bot is idle, and time is bounded.
That no handler waits forever is what `ComesToRest` states.

*Symmetry* is used for workers only, and only in runs without liveness.

## 4. Fairness

Only `JailLive` assumes it (`FairSpec`).  Each task that is ready is polled
again (tokio), and its call of Discord returns, with an answer or a timeout:
weak fairness of each `TaskStep`.  The gateway delivers what is in transit
(`Deliver`), the sweep's interval ticks (`SweepTick`, `SweepNext`), time passes
(`Tick`).  No stimulus is fair: nobody has to type a command.  The liveness
properties are checked without failures, because the code does not retry every
step: a re-application that Discord refuses is logged, and the member who
rejoined stays without the jail role until something else happens.

`JailLive` also assumes a schedule that nothing in the code ensures (`Paced`): a
stimulus for a member, and the minute at which the sweep finds the member due
(`SweepStarts`), come when nothing is in flight for the member.  What the overlaps
that it rules out lead to is in `JailOverlap`, `JailHostile` and section 6.

## 5. What is proved

For every value of the constants that meets the named ASSUMEs, which say that
sets are disjoint or not empty and that numbers are natural:

- `JailProofs!TypeCorrect`; `RolesComeFromOutside` (`NoRoleInvented`), whose
  invariant (`HadInv`) adds that the snapshot a task carries, and the role set
  it is about to send, consist of roles the member had from outside and, for
  the latter, the jail role.
- `JailProofs!JailingKeepsSnapshots` (`NoSnapshotLoss`) and `JailingFreesNobody`
  (`EscapeProof`: no record goes, in any step), under `JailingOnly`: stimuli only
  jail, switch the jail, or restart, and no call fails.  The invariant `SnapInv`
  says that the record holds all that is owed from the moment it exists, that
  before it the member and each task about to write it do, that no strip is
  refused, and that all updates in transit carry the jail role, so that no
  watcher takes one for a release.  Without the assumption the statements are
  false: `JailSnapshotRace` is the counterexample to the first.
- `JailProofs!OnlyFailedStripsFree` says what is left of `EscapeProof` when members
  also leave, with their managed roles, and come back, and when any call fails
  (`JailingWithFailures`): a record goes only in the step in which the strip of a
  first jailing is refused or fails.  `NobodyReleases`: whatever is sent carries
  the jail role.
- `JailProofs!ExpiriesAreDue` (`ExpiryOnlyWhenDue`), for every schedule, stimulus,
  failure and restart: the sweep frees early only a member whose record was
  written after its batch was read.  `BatchInv`: a member in the batch, or in the
  sweep's hands before the removal, who is still held is past due or in
  `rewritten`.
- `JailProofs!PacedKeepsSnapshots` (`NoSnapshotLoss`), under `PacedOnly`: `Paced`,
  no failed call or restart, and any jails, sentences, releases by command, hand
  or time, changes of the member, roles given, leaving and rejoining, with the
  jail switched off and on at will; in a guild with managed roles nobody leaves.
  `StoreAgreesWithDiscord` (`JailedIffRecord`) needs besides that the jail stays on
  (`LeftOn`: a member who rejoins while it is off is not jailed again) and that
  nobody gives a member roles (`NoGrants`: a jailed member would wear an owed one).
  `OnlyTimeReleases` needs `LeftOn`, and that nobody runs `/unjail` or takes the role
  by hand (`NoOrders`): then every record that goes was past due, and leaving,
  rejoining and a change of the member by others release nobody.  `PacedInv` says
  who has a member in hand, one update, batch or task at most (`Alone`); of a
  member at rest, that a record holds what is owed and Discord would accept it
  (`Safe`), and, where the assumption is there, that record and roles agree
  (`Agrees`) and no owed role is worn in jail (`Stripped`); and of a task, what its
  place in the handler owes to what it read (`Handles`).  Each clause is needed,
  as TLC's counterexamples show when one is dropped: a managed role gained or
  lost in jail, or lost by leaving, has the restore refused; a call that fails
  and a restart stop a handler halfway; what another bot gives at a rejoin looks
  like a release (section 6).
- `CasesProofs!CasesTyped` and `CasesAreALog`: the refinement of `CaseLog`.
  `DOMAIN cases[g] = 1 .. seq[g]` makes an insertion under the next number an
  `Append`.
- `CasesProofs!EscalationIsNeverMissed`.  A handler that counts carries a
  row of its own (`CarriesItsWarn`); rows never change, so that what a verdict
  depends on is settled when the row is written, and the handler counts later.
  It is stated for users whose cases fit the list of `/warn` (section 6).
- `CasesProofs!SanctionsAreReal` (`NoPhantomCase`) and `SanctionsAreRecorded`
  (`AuditTrail`), for every finite set of handlers: `Unrecorded` balances what
  Discord carried out against the rows and the tasks about to write one, and
  each step leaves the balance alone but a restart, a failed write and the
  sanction of a path that writes no case, which raise it.
- `MigrationProofs!MigrationTyped`, `MarkIsHonest`, `UpgradeLosesNothing`, and
  `UpgradeIsInvisible`, the refinement of `GuildStore`.  `StageInv` says what each
  stage has behind it, or passed over, which a restart from the beginning does
  not undo.
- `RaidProofs!RaidTyped` (every copy of the config validates) and
  `TheLockdownHolds`: no latch saves a config without a lockdown, a command that
  does is `/lockdown off` or an edit of a config loaded without one, and what
  else does is a body with the flag down.
- Windows are settings, and a handler with a shorter one forgets what a longer
  one would count.  The theorems about bursts are about every window that no
  settings forget (`Lasting`): no settings have a shorter one, or, of the flood
  filter, no settings have only shorter ones.  There always is one, the shortest of
  all windows at least, and it is the whole window where all are alike.
- `RaidProofs!BurstsAreGated` (`BurstIsGated`), by `BurstInv`: the tracker remembers,
  in order, every join that is still within a lasting window of the newest, so
  that the pruned list of the handler counts at least what the history does.
- `RaidProofs!ConsoleImplementsRaid`: each step of Console is a step of Raid or a
  stutter.  A PUT is `SubmitForm` of its whole body, flag included, so that what
  carries over of `LockdownHolds` is the statement with its exception for bodies.
  `RevocationTakesEffect` (`RevocationBites`): a session remembers when
  the permission was read (`seen`), which was not after the admin last held it,
  and a request that is in flight was authorised before the session expired.
  `DashboardHoldsLockdown` and `DashboardGatesBursts` are `TheLockdownHolds` and
  `BurstsAreGated` for the specification that the run checks.
- `FloodProofs!FloodIsTyped`, whose invariant adds what a task carries
  (`Carries`): a message of its own user, a plan only while it deletes, and, if
  it is about to clear the box, a trip that was over; `OneStrikeEach`
  (`NoBurstTwice`), with `Distinct`: a message that is yet to be recorded is in
  no window, burst or other task; `BurstsGo` (`BurstIsDeleted`); `TheBoxHolds`
  (`BoxHolds`); `BurstsAreCaught` (`BurstIsCaught`).  `MemoryInv`: the deque is the
  end of the history, and what it lost is older than every lasting window, so
  that a rule that finds a flood within one in the history finds it in the deque
  (`FloodSeen`).
- `FiltersProofs!FiltersTyped` and `NoJailIsMissed`.  `RowsCount` ties the row
  to the history: its count is the number of strikes since the streak last
  broke.  A strike is counted by the transaction that writes it, so that the
  handler whose strike completes the streak reads at least the threshold.
- `FiltersProofs!DuplicatesAreCaught` (`DuplicateIsCaught`), by `MemInv`, which is to
  the duplicate tracker what `MemoryInv` is to the flood filter's, with the sweeps
  of other guilds, whose windows count among the settings.  `TheCapHolds`
  (`CapHolds`), by `CapInv`: the row counts the calls of its day and there are none
  of a later one, but for the days in `late`.
- `AntiNukeProofs!AntiNukeTyped`; `StripsAreEarned` (`StripIsEarned`).  `EarnedInv`
  ties the window the tracker keeps to the actions since the last trip: it is
  the end of their list, so that its length bounds how many are within the
  window.  `NukesAreCaught` (`NukeIsCaught`), by `DropInv`: what the tracker dropped
  is older than every lasting window.
  `TripsAreAccounted` (`Accounted`), by `AccInv`: the task that tripped carries the
  number of its trip, no other task does, and a number is told of at most once;
  and by `Cased`: a note without a case took a failure.
  `StripsTakeAll` is a fact of one step: an edit from a stale member record is
  refused, so that one reported as done left only managed roles.
- `InvitesProofs!InvitesTyped`; `FlagsAreEarned` (`FlagIsEarned`): every verdict, in
  the cache or carried by a task, is the one its origin supports (`HonestCache`,
  `Sound`); `NothingPassesFree` (`NoFreePass`): what is left of a text is its end
  (`Tailed`), each invite before it is excused at its place (`Covered`), and as many
  invites were looked up as lookups counted, all of them come to before (`Counted`),
  so that a break finds an unknown invite after all lookups went to earlier ones;
  the codes come before the slugs (`InputAssumption`); `TheCacheIsBounded`
  (`CacheIsBounded`, by `CacheInv`): an entry outlives a sweep only if it is fresh.
- `InvitesProofs!OnlySharingCondemns` is the other half of the finding
  `InviteShared`: while no invite changes its destination, a message is struck for
  an invite to its own guild only by a verdict reached under another guild's
  settings (`OnlyAnothersVerdict`).  `TrueAnswers`: every answer in the cache or in
  a task's hands is about the invite it is filed under.  Hence
  `OneGuildKeepsThePromise`: a bot of a single guild strikes nobody for an invite
  to it (`OwnInvitesPass`, the statement that run refutes).

*Only model-checked*: the liveness properties `DueIsReleased`,
`RejoinIsReapplied` and `ComesToRest`, which the prover does not do under
fairness.  Every invariant and action property of a passing run is stated by a
theorem, some for less than all values of the constants, as said above.

## 6. Where the code and its words part

Two runs end in a counterexample to a statement of the repository; the
findings in `PROJECT.json` quote it.

- `JailSnapshotRace`: a nickname change sent before a jail and handled after
  its record is written looks like a jail role pulled by hand.  The watcher
  releases; if the restore comes before the strip, the strip takes the roles
  with no record left to restore them from.
- `InviteShared`: the invite cache is keyed by the code alone, for all guilds
  (`invite_filter.rs:49`).  A verdict that another guild's allowlist led to is
  found by this one, whose own invite then costs its poster a strike, although
  `link_filter.rs:233` says that invites to this server always pass.

Others were met while modelling.  The models contain them, and the comment of
the property concerned names the exception.

The jail:

- A jailed member rejoins, another bot greets the member with a role, and the
  watcher sees a jailed member without the jail role: it releases
  (`handler.rs:204`, before `reapply_if_jailed` has given the role back).
- A jailed member who rejoins while the jail is off stays without its role, and
  the member's next change once it is on again looks like a release too.
- The sweep's batch is read once, and for each member only whether there is a
  record is asked, not which: a member who was released and jailed anew, or whose
  sentence was refreshed, behind the batch is released early
  (`handler.rs:144-155`; `ExpiryOnlyWhenDue` excuses exactly that member).
- A strip that fails rolls the record back because none was found when the
  jailing began; another jailing that overlaps may have written it meanwhile,
  and its record is taken (`jail.rs:96-125`).
- A jail and an unjail of one member that overlap can keep the watcher busy
  with the bot's own updates (`handler.rs:204`).
- A restore is refused as a whole when a managed role was gained or lost in
  jail (`jail.rs:152`); a member who boosts in jail keeps no ordinary role.

Cases:

- `cases.rs:3` says that every moderator action is recorded as a case, jail and
  unjail named among them, `docs/plans/01-mod-action-suite.md:49` that every mod
  action produces one, and the bot's `README.md:44` speaks of every action too.  `/jail` and
  `/unjail` (`commands.rs:946-964`), the jails of the flood and link filters, jails
  and releases by hand and the sweep write none; `AuditTrail` excuses exactly
  those, restarts and failed writes.
- `/warn` counts among the newest 1000 cases of the user (`commands.rs:1128`): a
  warn further back goes uncounted (`NoMissedEscalation` is about users whose
  cases fit).
- Two warns at once can both escalate (`commands.rs:1127`).
- A content strike's warn case counts towards the escalation of warns, but
  never escalates itself.

The upgrade:

- `store.rs:439-440` says that strikes, jails and config survive it.  A read that fails is
  swallowed (`store.rs:452`, `store.rs:485-486`): the blob or row stays behind under its bare key,
  the database is marked all the same, and no later start looks at it again
  (`MarkedMeansMoved` excuses what could not be read).
- A blob of the guild that cannot be read counts as none, and the legacy blob
  is written over it (`store.rs:457-460`; `UpgradeIsLossless` excuses the step).
- An upgrade that fails is only logged (`main.rs:56`); a jail by the handlers
  that then serve hides the legacy snapshot.

The lockdown (`raid.rs:64-66` names only `/lockdown off`):

- `/setraid` saves what it loaded, and clears a lockdown that tripped in between
  (`commands.rs:1546`); a join's latch saves its own stale copy too and can revert
  a concurrent `/setraid` (`handler.rs:388`).
- A PUT of the dashboard saves the flag of its body (`dashboard.rs:331-347`): a
  page that was opened before the lockdown, a box that is not ticked
  (`app.js:104-105`) or a body without the field (`raid.rs:67-68`) clears it.
- After `/lockdown off` the next join of the same window latches again
  (`commands.rs:1562` does not clear the window).

Windows that are settings:

- A handler that loaded a shorter window drops what a longer one, loaded before
  or after, would count: in the join tracker (`raid.rs:154`), the flood tracker
  (`flood_filter.rs:420-423`), the duplicate tracker (`automod.rs:519`) and the
  anti-nuke's (`antinuke.rs:154`).  `BurstIsGated`, `BurstIsCaught`,
  `DuplicateIsCaught` and `NukeIsCaught` are about windows that no settings forget.
- The duplicate tracker of all guilds, beyond 4096 users, drops the users whose
  last message is too old for the window of whichever guild's message is at hand
  (`automod.rs:515-517`), so that another guild's shorter window counts as well.
- A shorter cooldown opens the penalty box for who tripped under a longer one.

Filters and strikes:

- Automod and AI strikes are recorded with decay 0 on the shared row, which
  revives a streak that `strike_decay_days` had forgiven.
- A handler overtaken by midnight between reading the day and reserving writes
  yesterday into the budget's row (`handler.rs:756`, `store.rs:340`);
  `store.rs:326-328` calls the cap a true hard cap.
- A trip read as expired is cleared even if it was renewed meanwhile
  (`handler.rs:840`), and a box that is lifted can be renewed by a handler that
  read it before (`handler.rs:836`).
- Strikes of automod, AI and flood filter reach the threshold without a jail;
  the next link jails.
- `FloodTracker` drops no idle user, though `flood_filter.rs:346-348` says so.
- Once the lookups of a message are spent, the first code without a fresh
  verdict ends the loop of the codes, and so with the slugs
  (`invite_filter.rs:142-143`): what follows passes unjudged, also an invite whose
  verdict in the cache condemns it (`NoFreePass` excuses those from the break on,
  of that kind, and no other).
- A call that fails passes its invite for as long as the verdict is cached
  (`Condemns`).

Anti-nuke and dashboard:

- An alert reaches nobody where no mod-log channel is set, and one that Discord
  loses is not sent again (`handler.rs:358-363`); a case that the store does not
  take leaves only the post, with number 0 (`handler.rs:536`).  Of an attempt to
  strip, `Accounted` promises that one of the two is left unless a call failed;
  of a dry run or an owner who could not be resolved, nothing is left where no
  channel is set.
- The permission to edit is read at the login only; a revoked admin keeps the
  page until the session ends, and a PUT that was authorised before is still
  saved after (`RevocationBites` counts from the authorisation).

## 7. Not modelled

Registration and dispatch of commands, the config file, embeds and replies, the
web page and the parsing of URLs, texts and answers of the classifier keep no
state and are represented by what they yield: a trait, a setting, the list of
invites, a body, an outcome.  DMs and mod-log posts change nothing the bot reads.
Exempt messages, channels and
roles are messages that meet no filter; the commands that edit whitelists,
exemptions and per-user limits only choose which.  Of the dashboard, the OAuth
state cookie, what only reads and the sections other than the raid's, which save
in the same way, are left out.  Audit-log entries that are not destructive
are left out.  The blocklists that automod compiles are rebuilt whenever they
differ from the config just loaded, so that the cache of them shows nowhere.  A row or blob that cannot be parsed
is one that cannot be read.

## 8. The plan

Done, in this order: Jail, Cases and CaseLog, Migration and GuildStore, Raid,
Strikes and Flood, Filters, Invites, AntiNuke, Console.  To come, most important
first:

1. `Shared`: the config blobs that commands, dashboard and handlers rewrite
   whole, as one read-modify-write module under Raid and Console, with the
   abstract register they would like to be.
2. Jail and Cases composed: the case a filter writes for a jail that was
   refused.
3. Between `JailingOnly` and `PacedOnly`: which overlaps of a jail and an unjail
   keep `NoSnapshotLoss`.
